---------------------------- MODULE ZenohServer ----------------------------
(***************************************************************************)
(* The request side of a server over Zenoh: DdsZenohTransport              *)
(* (src/src/dds_zenoh_transport.cpp) with its query callback, its queue,   *)
(* its pending_ map and Close, driven by the one owner and the one worker  *)
(* of the DdsNodeCore that owns it.                                        *)
(*                                                                         *)
(* Three kinds of threads meet here.  Every query runs on_query on a       *)
(* thread of Zenoh, which blocks there until its answer is set or it is    *)
(* cancelled.  The worker takes queries from queue_ and calls Reply.  The  *)
(* owner starts and stops the node.  A query and the ServerReply that      *)
(* on_query makes for it share one name.                                   *)
(*                                                                         *)
(* Two locks are held across steps and are read off the positions of the   *)
(* threads: pending_mutex_ by Close while it cancels, and the mutex of a   *)
(* ServerReply by on_query from the moment it wakes until it returns.      *)
(* What a thread does inside a critical section that takes no other lock   *)
(* is one step.                                                            *)
(***************************************************************************)
EXTENDS Naturals, Sequences

CONSTANTS
  Queries,      \* the queries that reach the queryable
  MaxSessions,  \* bound: how often the owner starts the node
  None          \* no query, no value

ASSUME ZenohServerAssumption == None \notin Queries /\ MaxSessions \in Nat

VARIABLES
  owner,          \* where the owner is in Start or Stop
  sessions,       \* how many times it called Start
  uncancelled,    \* what Close still has to cancel
  stopRequested,  \* stop_requested_ of the core
  isOpen,         \* is_open_
  declared,       \* queryable_ holds a declared queryable
  cb,             \* where on_query is, for each query
  id,             \* the correlation id on_query drew for it
  nextId,         \* next_id_
  pending,        \* the queries whose state is in pending_
  queue,          \* queue_
  value,          \* ServerReply::value
  cancelled,      \* ServerReply::cancelled
  wpc,            \* where the worker is
  inHand,         \* the message the worker received, or None
  found,          \* the state Reply found in pending_, or None
  answered,       \* what query.reply sent to the requester, or None
  thrown,         \* history: queries whose handler threw
  stranded        \* history: queries that an Open failed on, unanswered

flags == <<stopRequested, isOpen, declared>>
ownerVars == <<owner, sessions, uncancelled>>
callbackVars == <<cb, id, nextId, pending, answered>>
replyVars == <<value, cancelled>>
workerVars == <<wpc, inHand, found, thrown>>

vars == <<flags, ownerVars, callbackVars, queue, replyVars, workerVars, stranded>>

StartSteps == {"resetting", "declaring", "openFailed", "launching"}
StopSteps == {"closing", "locking", "cancelling", "joining"}
Registered == {"registered", "waiting", "replying", "erasing"}

Init ==
  /\ owner = "stopped" /\ sessions = 0 /\ uncancelled = {}
  /\ stopRequested = FALSE /\ isOpen = FALSE /\ declared = FALSE
  /\ cb = [q \in Queries |-> "none"]
  /\ id = [q \in Queries |-> 0] /\ nextId = 0
  /\ pending = {} /\ queue = <<>>
  /\ value = [q \in Queries |-> None]
  /\ cancelled = [q \in Queries |-> FALSE]
  /\ wpc = "absent" /\ inHand = None /\ found = None
  /\ answered = [q \in Queries |-> None]
  /\ thrown = {} /\ stranded = {}

PendingFree == owner # "cancelling"
StateFree(q) == cb[q] \notin {"replying", "erasing"}

Unreleased(q) == value[q] = None /\ ~cancelled[q]

-----------------------------------------------------------------------------
(* Start, as far as the transport sees it.  Besides Open, creating the     *)
(* thread and configuring it can fail.                                     *)

OwnerGoes(from, to) ==
  /\ owner = from /\ owner' = to
  /\ UNCHANGED <<queue, value>>

OpenFlagWith(ids) ==
  /\ OwnerGoes("stopped", "resetting") /\ ~isOpen
  /\ sessions < MaxSessions
  /\ sessions' = sessions + 1
  /\ isOpen' = TRUE
  /\ nextId' = ids
  /\ UNCHANGED <<uncancelled, stopRequested, declared, cb, id, pending, answered,
                 cancelled, workerVars, stranded>>

(* A slip: each session counts its correlation ids from 1 again.           *)
OpenFlagResetsIds == OpenFlagWith(0)

(* is_open_.exchange(true): from here on, a callback of the queryable of   *)
(* the session before, which is still declared, is let in.                 *)
OpenFlag == OpenFlagWith(nextId)

(* Open throws when is_open_ was up, and the catch clause of Start goes    *)
(* straight to CloseTransports.                                            *)
OpenRefused ==
  /\ OwnerGoes("stopped", "closing") /\ isOpen
  /\ sessions < MaxSessions
  /\ sessions' = sessions + 1
  /\ UNCHANGED <<uncancelled, flags, callbackVars, cancelled, workerVars, stranded>>

(* ResetEntities undeclares.  It is not assumed to wait for callbacks that *)
(* are running.  queue_, pending_ and next_id_ are left as they are.       *)
ResetEntities ==
  /\ OwnerGoes("resetting", "declaring")
  /\ declared' = FALSE
  /\ UNCHANGED <<sessions, uncancelled, stopRequested, isOpen, callbackVars,
                 cancelled, workerVars, stranded>>

(* Session::open and declare_queryable, or the catch clause of Open, whose *)
(* ResetEntities finds nothing left to undeclare.                          *)
Declare ==
  /\ \/ /\ OwnerGoes("declaring", "launching")
        /\ declared' = TRUE
        /\ UNCHANGED <<isOpen, stranded>>
     \/ /\ OwnerGoes("declaring", "openFailed")
        /\ isOpen' = FALSE
        /\ stranded' = stranded \cup {q \in pending : Unreleased(q)}
        /\ UNCHANGED declared
  /\ UNCHANGED <<sessions, uncancelled, stopRequested, callbackVars, cancelled,
                 workerVars>>

(* The CloseTransports of a failed Start: Close returns at once, because   *)
(* Open has reset is_open_ itself.                                         *)
StartFails ==
  /\ OwnerGoes("openFailed", "stopped")
  /\ UNCHANGED <<sessions, uncancelled, flags, callbackVars, cancelled,
                 workerVars, stranded>>

(* The worker runs; or it refuses its configuration and ends, and Start    *)
(* calls Stop; or there is no thread, std::thread throws past both catch   *)
(* clauses and the transport stays open.                                   *)
Launch ==
  /\ \/ /\ OwnerGoes("launching", "running")
        /\ stopRequested' = FALSE /\ wpc' = "loop"
     \/ /\ OwnerGoes("launching", "closing")
        /\ stopRequested' = TRUE /\ wpc' = "exited"
     \/ /\ OwnerGoes("launching", "stopped")
        /\ stopRequested' = FALSE /\ UNCHANGED wpc
  /\ UNCHANGED <<sessions, uncancelled, isOpen, declared, callbackVars, cancelled,
                 inHand, found, thrown, stranded>>

-----------------------------------------------------------------------------
(* Stop of the core and Close of the transport.  Stop does nothing when    *)
(* there is no worker to join: that is no step.                            *)

StopCall ==
  /\ OwnerGoes("running", "closing")
  /\ stopRequested' = TRUE
  /\ UNCHANGED <<sessions, uncancelled, isOpen, declared, callbackVars, cancelled,
                 workerVars, stranded>>

CloseFlag ==
  /\ OwnerGoes("closing", "locking")
  /\ isOpen' = FALSE
  /\ UNCHANGED <<sessions, uncancelled, stopRequested, declared, callbackVars,
                 cancelled, workerVars, stranded>>

CloseLockFor(states) ==
  /\ OwnerGoes("locking", "cancelling")
  /\ uncancelled' = states
  /\ UNCHANGED <<sessions, flags, callbackVars, cancelled, workerVars, stranded>>

(* A slip: Close only wakes the worker.                                    *)
CloseWithoutCancelling == CloseLockFor({})

(* pending_mutex_ is taken and held to the end of the loop over pending_.  *)
CloseLock == CloseLockFor(pending)

(* The order of an unordered_map is any order.                             *)
CloseCancel(q) ==
  /\ OwnerGoes("cancelling", "cancelling")
  /\ q \in uncancelled /\ StateFree(q)
  /\ cancelled' = [cancelled EXCEPT ![q] = TRUE]
  /\ uncancelled' = uncancelled \ {q}
  /\ UNCHANGED <<sessions, flags, callbackVars, workerVars, stranded>>

(* Then Stop joins; the catch clause of a Start that was refused has no    *)
(* worker.                                                                 *)
CloseUnlock ==
  /\ OwnerGoes("cancelling", IF wpc = "absent" THEN "stopped" ELSE "joining")
  /\ uncancelled = {}
  /\ UNCHANGED <<sessions, uncancelled, flags, callbackVars, cancelled,
                 workerVars, stranded>>

Join ==
  /\ OwnerGoes("joining", "stopped")
  /\ wpc = "exited" /\ wpc' = "absent"
  /\ UNCHANGED <<sessions, uncancelled, flags, callbackVars, cancelled, inHand,
                 found, thrown, stranded>>

-----------------------------------------------------------------------------
(* on_query.                                                               *)

CallbackGoes(q, from, to) ==
  /\ cb[q] = from /\ cb' = [cb EXCEPT ![q] = to]
  /\ UNCHANGED <<flags, ownerVars, replyVars, workerVars, stranded>>

Arrive(q) ==
  /\ CallbackGoes(q, "none", "allocated")
  /\ declared
  /\ nextId' = nextId + 1
  /\ id' = [id EXCEPT ![q] = nextId + 1]
  /\ UNCHANGED <<pending, queue, answered>>

(* pending_[id] = state replaces what the map held under the same id.      *)
RegisterIf(q, open) ==
  /\ PendingFree
  /\ \/ /\ open
        /\ CallbackGoes(q, "allocated", "registered")
        /\ pending' = {p \in pending : id[p] # id[q]} \cup {q}
     \/ /\ ~open
        /\ CallbackGoes(q, "allocated", "done")
        /\ UNCHANGED pending
  /\ UNCHANGED <<id, nextId, queue, answered>>

(* A slip: is_open_ is not read again under the lock.                      *)
RegisterUnchecked(q) == RegisterIf(q, TRUE)
Register(q) == RegisterIf(q, isOpen)

Enqueue(q) ==
  /\ CallbackGoes(q, "registered", "waiting")
  /\ queue' = IF isOpen THEN Append(queue, q) ELSE queue
  /\ UNCHANGED <<id, nextId, pending, answered>>

(* wait() returns with the mutex of the state held.                        *)
Wake(q) ==
  /\ CallbackGoes(q, "waiting", "replying")
  /\ ~Unreleased(q)
  /\ UNCHANGED <<id, nextId, pending, queue, answered>>

(* The reply is sent if there is a value.                                  *)
SendReply(q) ==
  /\ CallbackGoes(q, "replying", "erasing")
  /\ answered' = [answered EXCEPT ![q] = value[q]]
  /\ UNCHANGED <<id, nextId, pending, queue>>

EraseIf(q, erases) ==
  /\ CallbackGoes(q, "erasing", "done")
  /\ PendingFree
  /\ pending' = {p \in pending : id[p] # id[q] \/ ~erases}
  /\ UNCHANGED <<id, nextId, queue, answered>>

(* A slip: the entry of a callback that was cancelled stays in pending_.   *)
EraseAnswered(q) == EraseIf(q, value[q] # None)
Erase(q) == EraseIf(q, TRUE)

-----------------------------------------------------------------------------
(* The worker: ReceiveLoop and Dispatch of the core, TryReceive and Reply  *)
(* of the transport.                                                       *)

WorkerGoes(from, to) ==
  /\ wpc = from /\ wpc' = to
  /\ UNCHANGED <<flags, ownerVars, callbackVars, cancelled, stranded>>

LoopCheckOf(stop) ==
  /\ WorkerGoes("loop", IF stop THEN "exited" ELSE "receiving")
  /\ UNCHANGED <<queue, value, inHand, found, thrown>>

(* A slip: the flag is only looked at when messages wait.                  *)
LoopCheckWhenIdle == LoopCheckOf(stopRequested /\ queue # <<>>)
LoopCheck == LoopCheckOf(stopRequested)

(* A queued message is delivered even when a stop is requested.            *)
TryReceive ==
  /\ \/ /\ queue = <<>>
        /\ WorkerGoes("receiving", "loop")
        /\ UNCHANGED <<queue, inHand>>
     \/ /\ queue # <<>>
        /\ WorkerGoes("receiving", "handling")
        /\ inHand' = Head(queue)
        /\ queue' = Tail(queue)
  /\ UNCHANGED <<value, found, thrown>>

(* A slip: an answer, such as an empty one, is not sent.                   *)
HandlerReturnsNothing ==
  /\ WorkerGoes("handling", "loop")
  /\ inHand' = None
  /\ UNCHANGED <<queue, value, found, thrown>>

(* The answer of the handler is named by the query it was computed from.   *)
HandlerReturns ==
  /\ WorkerGoes("handling", "finding")
  /\ UNCHANGED <<queue, value, inHand, found, thrown>>

(* The exception skips Reply.                                              *)
HandlerThrows ==
  /\ WorkerGoes("handling", "loop")
  /\ thrown' = thrown \cup {inHand}
  /\ inHand' = None
  /\ UNCHANGED <<queue, value, found>>

(* The lookup of Reply, by correlation id.                                 *)
ReplyFind ==
  /\ wpc = "finding" /\ PendingFree
  /\ \/ \E q \in pending :
          /\ id[q] = id[inHand]
          /\ WorkerGoes("finding", "setting")
          /\ found' = q
          /\ UNCHANGED inHand
     \/ /\ \A q \in pending : id[q] # id[inHand]
        /\ WorkerGoes("finding", "loop")
        /\ inHand' = None
        /\ UNCHANGED found
  /\ UNCHANGED <<queue, value, thrown>>

ReplySet ==
  /\ WorkerGoes("setting", "loop")
  /\ StateFree(found)
  /\ value' = [value EXCEPT ![found] = inHand]
  /\ inHand' = None /\ found' = None
  /\ UNCHANGED <<queue, thrown>>

-----------------------------------------------------------------------------
StartStep == ResetEntities \/ Declare \/ StartFails \/ Launch
StopStep == CloseFlag \/ CloseLock \/ CloseUnlock \/ Join
              \/ \E q \in Queries : CloseCancel(q)
CallbackStep(q) == Register(q) \/ Enqueue(q) \/ Wake(q) \/ SendReply(q)
                     \/ Erase(q)
WorkerStep == LoopCheck \/ TryReceive \/ HandlerReturns \/ HandlerThrows
                \/ ReplyFind \/ ReplySet

Next ==
  \/ OpenFlag \/ OpenRefused \/ StartStep
  \/ StopCall \/ StopStep
  \/ \E q \in Queries : Arrive(q) \/ CallbackStep(q)
  \/ WorkerStep

(* Threads that can run do run, the handler returns and TryReceive waits   *)
(* at most 10 ms.  Nobody has to call Start or Stop or to send a query.    *)
Fairness ==
  /\ WF_vars(StartStep)
  /\ WF_vars(StopStep)
  /\ WF_vars(WorkerStep)
  /\ \A q \in Queries : WF_vars(CallbackStep(q))

Spec == Init /\ [][Next]_vars
FairSpec == Spec /\ Fairness

-----------------------------------------------------------------------------
(* The values the members and the threads can have.                        *)
TypeOK ==
  /\ owner \in {"stopped", "running"} \cup StartSteps \cup StopSteps
  /\ sessions \in Nat
  /\ stopRequested \in BOOLEAN /\ isOpen \in BOOLEAN /\ declared \in BOOLEAN
  /\ uncancelled \subseteq Queries
  /\ cb \in [Queries -> {"none", "allocated", "done"} \cup Registered]
  /\ id \in [Queries -> Nat]
  /\ nextId \in Nat
  /\ pending \subseteq Queries
  /\ queue \in Seq(Queries)
  /\ value \in [Queries -> Queries \cup {None}]
  /\ cancelled \in [Queries -> BOOLEAN]
  /\ wpc \in {"absent", "loop", "receiving", "handling", "finding", "setting",
              "exited"}
  /\ inHand \in Queries \cup {None}
  /\ found \in Queries \cup {None}
  /\ answered \in [Queries -> Queries \cup {None}]
  /\ thrown \subseteq Queries /\ stranded \subseteq Queries

(* pending_ holds exactly the states of the callbacks between their        *)
(* registration and their erasure: nothing leaks over restarts, and a      *)
(* callback never erases the entry of another.                             *)
PendingTracksCallbacks == pending = {q \in Queries : cb[q] \in Registered}

(* A requester only ever gets the answer computed from its own query, with *)
(* queries still queued from an earlier session, callbacks that outlive    *)
(* it, and answers that come after the cancellation.                       *)
AnswersMatchQueries == \A q \in Queries : answered[q] \in {q, None}

(* The same as a service, with the rest of what happens to a query: it is  *)
(* taken once, answered once at most, and then done with.                  *)
Service(q) ==
  CASE cb[q] = "none" -> "none"
    [] cb[q] # "none" /\ answered[q] = q -> "answered"
    [] cb[q] # "none" /\ answered[q] \notin {q, None} -> "wrong"
    [] cb[q] = "done" /\ answered[q] = None -> "dropped"
    [] OTHER -> "taken"

Served == INSTANCE QueryService WITH service <- [q \in Queries |-> Service(q)]

ServesQueries == Served!Spec

(* Where a callback that waits is accounted for: its message is queued or  *)
(* in the worker's hands, or the Close in progress will cancel it.  The    *)
(* other cases are a handler that threw and an Open that failed.  No       *)
(* message is lost between Enqueue, which drops it once the transport is   *)
(* closed, and Close, which cancels what was registered before.            *)
Queued(q) == \E i \in 1..Len(queue) : queue[i] = q

CloseWillCancel(q) ==
  \/ owner = "locking"
  \/ owner = "cancelling" /\ q \in uncancelled

WaiterAccounted ==
  \A q \in Queries :
    cb[q] = "waiting" /\ Unreleased(q) =>
      \/ Queued(q) \/ inHand = q \/ CloseWillCancel(q)
      \/ q \in thrown \cup stranded

(* A Start that got no thread has left the transport open without a        *)
(* worker: queries go on to arrive and wait, and Stop does not see them.   *)
LeftOpen == owner = "stopped" /\ isOpen

(* Once the transport is closed, every callback still in it has its answer *)
(* or is cancelled: no thread of Zenoh stays blocked in it.                *)
StoppedReleasesCallbacks ==
  owner = "stopped" /\ ~LeftOpen => \A q \in pending : ~Unreleased(q)

(* The same, for all that no Open failed on: a callback of the queryable   *)
(* of the session before that entered while is_open_ was up.  It holds     *)
(* after Stop, after a Start whose worker was refused its configuration,   *)
(* and after the Start that a transport left open refuses and cleans up.   *)
StoppedReleasesOthers ==
  owner = "stopped" /\ ~LeftOpen =>
    \A q \in pending : Unreleased(q) => q \in stranded

(* Close holds pending_mutex_ and waits for the mutex of a state whose     *)
(* callback holds that one and waits for pending_mutex_.                   *)
LockCycle ==
  /\ owner = "cancelling"
  /\ \E q \in uncancelled : ~StateFree(q)

(* Stop returns.                                                           *)
StopReturns == owner \in StopSteps ~> owner = "stopped"

(* Nothing but the lock cycle keeps Stop from returning.                   *)
StopReturnsOrCycle == owner \in StopSteps ~> owner = "stopped" \/ LockCycle

(* A callback of Zenoh leaves the transport, or meets the lock cycle.  Two *)
(* things can keep it, and only as long as nothing closes the transport: a *)
(* handler that threw or an Open that failed on it, and a Start that got   *)
(* no thread.  The next Stop, or the next Start that fails, releases it.   *)
KeptBack(q) == LeftOpen \/ q \in thrown \cup stranded

CallbackReturnsOrCycle ==
  \A q \in Queries :
    cb[q] = "waiting" ~>
      cb[q] = "done" \/ LockCycle \/ [](owner \notin StopSteps /\ KeptBack(q))

-----------------------------------------------------------------------------
(***************************************************************************)
(* The inductive invariant, in two parts: who is who, and what releases    *)
(* whom.                                                                   *)
(***************************************************************************)

(* Correlation ids are drawn once: no two queries share one.               *)
IdsAreUnique ==
  /\ \A q \in Queries : id[q] <= nextId /\ (id[q] = 0 <=> cb[q] = "none")
  /\ \A p, q \in Queries : id[p] = id[q] /\ id[p] # 0 => p = q

(* Messages carry an id that was drawn.                                    *)
MessagesHaveIds ==
  /\ \A i \in 1..Len(queue) : id[queue[i]] # 0
  /\ inHand # None => id[inHand] # 0

(* Close is also called without a worker.                                  *)
WorkerHolds ==
  /\ owner \in {"stopped"} \cup StartSteps => wpc = "absent"
  /\ owner \in {"running", "joining"} => wpc # "absent"
  /\ inHand # None <=> wpc \in {"handling", "finding", "setting"}
  /\ wpc = "setting" => found = inHand

ValuesMatch == \A q \in Queries : value[q] \in {q, None}

AnswersEndCallbacks ==
  \A q \in Queries : answered[q] # None => cb[q] \in {"erasing", "done"}

Bookkeeping ==
  /\ TypeOK
  /\ IdsAreUnique
  /\ MessagesHaveIds
  /\ WorkerHolds
  /\ ValuesMatch
  /\ PendingTracksCallbacks
  /\ AnswersMatchQueries
  /\ AnswersEndCallbacks

(* is_open_ is up from OpenFlag to CloseFlag, also where no owner is left  *)
(* in between.                                                             *)
FlagFollowsOwner ==
  /\ owner \in {"resetting", "declaring", "launching", "running", "closing"} =>
       isOpen
  /\ owner \in {"openFailed", "locking", "cancelling", "joining"} => ~isOpen

(* A callback whose message Enqueue will drop is left to Close.            *)
RegisteredAccounted ==
  \A q \in Queries :
    cb[q] = "registered" /\ Unreleased(q) =>
      isOpen \/ CloseWillCancel(q) \/ q \in stranded

(* Close does not forget one.                                              *)
CloseCoversPending ==
  /\ owner = "cancelling" =>
       \A q \in pending : Unreleased(q) => q \in uncancelled
  /\ owner \in {"joining", "openFailed", "stopped"} /\ ~LeftOpen =>
       \A q \in pending : Unreleased(q) => q \in stranded

Accounting ==
  /\ FlagFollowsOwner
  /\ RegisteredAccounted
  /\ WaiterAccounted
  /\ CloseCoversPending
=============================================================================
