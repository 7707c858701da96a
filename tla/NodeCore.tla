------------------------------ MODULE NodeCore ------------------------------
(***************************************************************************)
(* DdsNodeCore (src/src/dds_node.cpp), the object behind DdsServer and     *)
(* DdsClient: its lifecycle (Start, Stop), its worker thread (ReceiveLoop, *)
(* Dispatch, Report) and the std::thread member that ties the two.         *)
(*                                                                         *)
(* A thread of the program that Start creates is named by the owner that   *)
(* created it: `worker' says which one the member worker_ holds (NoThread  *)
(* when it is not joinable), `wpc' where each of them is.  The transports  *)
(* appear as their is_open_ flags; what flows through them is left to the  *)
(* transport modules, so TryReceive may deliver, time out or throw.        *)
(***************************************************************************)

CONSTANTS
  Owners,        \* threads of the application
  Applications,  \* the applications and machines to look at, see below
  NoThread       \* value of worker_ when it is not joinable

Channels == {"broadcast", "request"}

(* How a node is built and used.  role and configured are what the         *)
(* constructor is given: it refuses two empty addresses.                   *)
AllApplications ==
  [role : {"server", "client"},
   configured : SUBSET Channels \ {{}},  \* channels with a node address
   callers : SUBSET Owners \ {{}},       \* threads that call Start and Stop
   spawnFails : BOOLEAN,                 \* may std::thread's constructor throw?
   handlerStops : BOOLEAN]               \* does a handler call Stop?

ASSUME NodeCoreAssumption ==
  NoThread \notin Owners /\ Applications \subseteq AllApplications

VARIABLES
  app,            \* the application, which does not change
  pc,             \* where each owner is in Start or Stop
  failing,        \* owners in the Stop() of a Start that is about to throw
  strict,         \* worker_config_.strict, with a policy that can be refused
  open,           \* is_open_ of the transport of each channel
  stopRequested,  \* stop_requested_
  worker,         \* worker_
  joiner,         \* the thread inside worker_.join(), or NoThread
  wpc,            \* where each created thread is
  ready,          \* the promise `ready' of the thread's Start
  registered,     \* which of the handlers are set
  terminated      \* std::terminate was called

vars == <<app, pc, failing, strict, open, stopRequested, worker, joiner, wpc,
          ready, registered, terminated>>

calls == <<pc, failing>>
config == <<app, strict, registered>>
session == <<open, stopRequested>>
handle == <<worker, joiner, terminated>>
threads == <<wpc, ready>>

HandlerKinds == {"message", "error"}

StartSteps == {"openBroadcast", "openRequest", "openFailed", "launch",
               "assign", "awaitReady"}
StopSteps == {"stopCheck", "closing", "join", "joining"}

(* The worker is inside its loop, with or without a callback running.      *)
LoopSteps == {"loop", "receiving", "dispatching", "handling", "replying",
              "reporting"}

IsRunning == worker # NoThread

Init ==
  /\ app \in Applications
  /\ pc = [o \in Owners |-> "idle"]
  /\ failing = {}
  /\ strict = FALSE
  /\ open = [ch \in Channels |-> FALSE]
  /\ stopRequested = FALSE
  /\ worker = NoThread /\ joiner = NoThread
  /\ wpc = [o \in Owners |-> "absent"]
  /\ ready = [o \in Owners |-> "unset"]
  /\ registered = [k \in HandlerKinds |-> FALSE]
  /\ terminated = FALSE

(* After std::terminate, no thread takes another step.                     *)
At(o, step) == ~terminated /\ pc[o] = step

Goto(o, step) == pc' = [pc EXCEPT ![o] = step]

(* A step of a call, and its last one, after which it returns or throws.   *)
Goes(o, from, to) == At(o, from) /\ Goto(o, to) /\ UNCHANGED <<failing, config>>
Ends(o, from) ==
  /\ At(o, from) /\ Goto(o, "idle")
  /\ failing' = failing \ {o}
  /\ UNCHANGED config

CloseTransports == open' = [ch \in Channels |-> FALSE]
Terminate == terminated' = TRUE

-----------------------------------------------------------------------------
(* OnBroadcast, OnRequest, OnError: any thread, at any time.               *)
SetHandler(k, set) ==
  /\ ~terminated
  /\ registered[k] # set
  /\ registered' = [registered EXCEPT ![k] = set]
  /\ UNCHANGED <<app, strict, calls, session, handle, threads>>

(* EnsureNotRunning, which throws otherwise, begins the calls below.       *)

(* SetWorkerThreadScheduling (and SetWorkerThreadName).                    *)
SetWorkerConfig(o, s) ==
  /\ At(o, "idle") /\ o \in app.callers
  /\ ~IsRunning
  /\ strict # s /\ strict' = s
  /\ UNCHANGED <<app, registered, calls, session, handle, threads>>

-----------------------------------------------------------------------------
(* Start.                                                                  *)

StartCheck(o) ==
  /\ o \in app.callers
  /\ ~IsRunning
  /\ Goes(o, "idle", "openBroadcast")
  /\ UNCHANGED <<session, handle, threads>>

(* One call of Open.  It throws when is_open_ was already set, and when    *)
(* the backend cannot bind, connect or open its session (is_open_ is then  *)
(* reset before the exception leaves).                                     *)
OpenChannel(o, ch, here, next) ==
  /\ \/ /\ ch \notin app.configured
        /\ Goes(o, here, next)
        /\ UNCHANGED open
     \/ /\ ch \in app.configured /\ ~open[ch]
        /\ open' = [open EXCEPT ![ch] = TRUE]
        /\ Goes(o, here, next)
     \/ /\ ch \in app.configured
        /\ Goes(o, here, "openFailed")
        /\ UNCHANGED open
  /\ UNCHANGED <<stopRequested, handle, threads>>

OpenBroadcast(o) == OpenChannel(o, "broadcast", "openBroadcast", "openRequest")
OpenRequest(o) == OpenChannel(o, "request", "openRequest", "launch")

(* A slip: the catch clause rethrows and leaves a transport open.          *)
OpenFailedWithoutClose(o) ==
  Ends(o, "openFailed") /\ UNCHANGED <<session, handle, threads>>

(* catch (...) { CloseTransports(); throw; }                               *)
OpenFailed(o) ==
  /\ Ends(o, "openFailed")
  /\ CloseTransports
  /\ UNCHANGED <<stopRequested, handle, threads>>

LaunchWith(o, flag) ==
  /\ stopRequested' = flag
  /\ \/ /\ Goes(o, "launch", "assign")
        /\ wpc' = [wpc EXCEPT ![o] = "configuring"]
        /\ ready' = [ready EXCEPT ![o] = "unset"]
     \/ /\ app.spawnFails
        /\ Ends(o, "launch")
        /\ UNCHANGED threads
  /\ UNCHANGED <<open, handle>>

(* A slip: the flag of the last session is not lowered.                    *)
LaunchWithStaleFlag(o) == LaunchWith(o, stopRequested)

(* stop_requested_ = false and the construction of the thread.  The new    *)
(* thread runs before `worker_ = ...' has stored its handle.  When the     *)
(* constructor throws, nothing catches it inside Start.                    *)
Launch(o) == LaunchWith(o, FALSE)

(* The move assignment terminates the program if worker_ is joinable.      *)
AssignWorker(o) ==
  /\ \/ /\ ~IsRunning
        /\ Goes(o, "assign", "awaitReady")
        /\ worker' = o
        /\ UNCHANGED terminated
     \/ /\ IsRunning
        /\ At(o, "assign") /\ Terminate
        /\ UNCHANGED <<calls, config, worker>>
  /\ UNCHANGED <<joiner, session, threads>>

(* A slip: the exception is rethrown without the Stop() before it.         *)
AwaitReadyWithoutStop(o) ==
  /\ ready[o] # "unset"
  /\ Ends(o, "awaitReady")
  /\ UNCHANGED <<session, handle, threads>>

(* ready_result.get(): returns, or rethrows after a Stop().                *)
AwaitReady(o) ==
  /\ \/ ready[o] = "value" /\ Ends(o, "awaitReady")
     \/ /\ ready[o] = "exception"
        /\ At(o, "awaitReady") /\ Goto(o, "stopCheck")
        /\ failing' = failing \cup {o}
        /\ UNCHANGED config
  /\ UNCHANGED <<session, handle, threads>>

-----------------------------------------------------------------------------
(* Stop.                                                                   *)

StopCall(o) ==
  /\ o \in app.callers
  /\ Goes(o, "idle", "stopCheck")
  /\ UNCHANGED <<session, handle, threads>>

(* A slip: the transports are closed and stop_requested_ is never set.     *)
StopCheckWithoutFlag(o) ==
  /\ \/ ~IsRunning /\ Ends(o, "stopCheck")
     \/ IsRunning /\ Goes(o, "stopCheck", "closing")
  /\ UNCHANGED <<session, handle, threads>>

(* A slip: no early return when the thread is not joinable.                *)
StopCheckWithoutJoinable(o) ==
  /\ Goes(o, "stopCheck", "closing")
  /\ stopRequested' = TRUE
  /\ UNCHANGED <<open, handle, threads>>

StopCheck(o) ==
  /\ \/ ~IsRunning /\ Ends(o, "stopCheck") /\ UNCHANGED stopRequested
     \/ IsRunning /\ Goes(o, "stopCheck", "closing") /\ stopRequested' = TRUE
  /\ UNCHANGED <<open, handle, threads>>

StopClose(o) ==
  /\ Goes(o, "closing", "join")
  /\ CloseTransports
  /\ UNCHANGED <<stopRequested, handle, threads>>

(* worker_.join() on a thread that is not joinable, or that another thread *)
(* is joining, throws system_error; Stop is noexcept, so the program ends. *)
JoinEnter(o) ==
  /\ \/ /\ IsRunning /\ joiner = NoThread
        /\ Goes(o, "join", "joining")
        /\ joiner' = o
        /\ UNCHANGED terminated
     \/ /\ ~IsRunning \/ joiner # NoThread
        /\ At(o, "join") /\ Terminate
        /\ UNCHANGED <<calls, config, joiner>>
  /\ UNCHANGED <<worker, session, threads>>

Forget(o) ==
  /\ Ends(o, "joining")
  /\ worker' = NoThread /\ joiner' = NoThread
  /\ UNCHANGED <<ready, terminated, session>>

(* A slip: the thread is detached, its end is not waited for.              *)
Detach(o) == Forget(o) /\ UNCHANGED wpc

JoinReturns(o) ==
  /\ IsRunning /\ wpc[worker] = "exited"
  /\ wpc' = [wpc EXCEPT ![worker] = "absent"]
  /\ Forget(o)

-----------------------------------------------------------------------------
(* The thread that Start created: the lambda, ReceiveLoop, Dispatch and    *)
(* Report.                                                                 *)

WorkerGoes(w, from, to) ==
  /\ ~terminated /\ wpc[w] = from
  /\ wpc' = [wpc EXCEPT ![w] = to]
  /\ UNCHANGED <<calls, config, session, handle>>

(* A step that touches nothing but the position of the worker.             *)
Moves(w, from, to) == WorkerGoes(w, from, to) /\ UNCHANGED ready

ConfigureWith(w, kept) ==
  \/ /\ WorkerGoes(w, "configuring", "loop")
     /\ ready' = [ready EXCEPT ![w] = kept]
  \/ /\ strict
     /\ WorkerGoes(w, "configuring", "exited")
     /\ ready' = [ready EXCEPT ![w] = "exception"]

(* A slip: the promise of the successful thread is kept after its loop.    *)
ConfigureKeepsPromiseLate(w) == ConfigureWith(w, "unset")

(* ConfigureDdsCurrentThread: a refused policy throws only when strict.    *)
Configure(w) == ConfigureWith(w, "value")

(* Without a transport to receive from, the loop only sleeps.              *)
ReceiveChannel == IF app.role = "server" THEN "request" ELSE "broadcast"
LoopTop == IF ReceiveChannel \in app.configured THEN "receiving" ELSE "loop"

(* A slip: the sleeping loop goes on without another look at the flag.     *)
LoopCheckSleepsOn(w) ==
  Moves(w, "loop", IF LoopTop = "receiving" /\ stopRequested THEN "exited"
                                                             ELSE LoopTop)

LoopCheck(w) == Moves(w, "loop", IF stopRequested THEN "exited" ELSE LoopTop)

(* The catch clause of ReceiveLoop, with the early return of Report.       *)
CaughtGoesTo ==
  IF ~stopRequested /\ registered["error"] THEN "reporting" ELSE "loop"

(* TryReceive: nothing, a message or an exception.                         *)
Receive(w) ==
  \E to \in {"loop", "dispatching", CaughtGoesTo} : Moves(w, "receiving", to)

(* Dispatch copies the handler under callback_mutex_.  A server answers a  *)
(* request without a handler with an empty message.                        *)
AfterHandler == IF app.role = "server" THEN "replying" ELSE "loop"

Dispatch(w) ==
  Moves(w, "dispatching",
        IF registered["message"] THEN "handling" ELSE AfterHandler)

(* The handler returns or throws; so does Reply.                           *)
HandlerEnds(w) ==
  \E to \in {AfterHandler, CaughtGoesTo} : Moves(w, "handling", to)
ReplyEnds(w) == \E to \in {"loop", CaughtGoesTo} : Moves(w, "replying", to)

(* The error handler returned, or threw and was caught.                    *)
ReportEnds(w) == Moves(w, "reporting", "loop")

(* A handler, that for errors too, calls Stop: join() of the calling       *)
(* thread itself throws (resource_deadlock_would_occur) out of a noexcept  *)
(* function.                                                               *)
HandlerStops(w) ==
  /\ app.handlerStops
  /\ ~terminated /\ wpc[w] \in {"handling", "reporting"} /\ IsRunning
  /\ stopRequested' = TRUE
  /\ CloseTransports
  /\ Terminate
  /\ UNCHANGED <<calls, config, worker, joiner, threads>>

-----------------------------------------------------------------------------
CallBegins(o) ==
  StartCheck(o) \/ StopCall(o) \/ \E s \in BOOLEAN : SetWorkerConfig(o, s)

StartStep(o) ==
  \/ OpenBroadcast(o) \/ OpenRequest(o) \/ OpenFailed(o)
  \/ Launch(o) \/ AssignWorker(o) \/ AwaitReady(o)

StopStep(o) == StopCheck(o) \/ StopClose(o) \/ JoinEnter(o) \/ JoinReturns(o)

OwnerStep(o) == StartStep(o) \/ StopStep(o)

WorkerStep(w) ==
  \/ Configure(w) \/ LoopCheck(w) \/ Receive(w)
  \/ Dispatch(w) \/ HandlerEnds(w) \/ ReplyEnds(w) \/ ReportEnds(w)

Next ==
  \/ \E k \in HandlerKinds, set \in BOOLEAN : SetHandler(k, set)
  \/ \E o \in Owners : CallBegins(o) \/ OwnerStep(o)
  \/ \E w \in Owners : WorkerStep(w) \/ HandlerStops(w)

(* The operating system schedules every thread, TryReceive waits at most   *)
(* 10 ms and the callbacks return.  Nobody has to call anything.           *)
Fairness ==
  \A t \in Owners : WF_vars(OwnerStep(t)) /\ WF_vars(WorkerStep(t))

Spec == Init /\ [][Next]_vars
FairSpec == Spec /\ Fairness

-----------------------------------------------------------------------------
OwnersIdle == \A o \in Owners : pc[o] = "idle"
AllClosed == \A ch \in Channels : ~open[ch]

(* One thread makes all the calls of Start and Stop.                       *)
DrivenBy(o) == app.callers = {o}
Serial == \E o \in Owners : DrivenBy(o)

BetweenCalls == Serial /\ OwnersIdle /\ ~terminated

(* The values the members of DdsNodeCore and its threads can have.         *)
TypeOK ==
  /\ app \in AllApplications
  /\ pc \in [Owners -> {"idle"} \cup StartSteps \cup StopSteps]
  /\ failing \subseteq Owners
  /\ strict \in BOOLEAN
  /\ open \in [Channels -> BOOLEAN]
  /\ stopRequested \in BOOLEAN
  /\ worker \in Owners \cup {NoThread}
  /\ joiner \in Owners \cup {NoThread}
  /\ wpc \in [Owners -> LoopSteps \cup {"absent", "configuring", "exited"}]
  /\ ready \in [Owners -> {"unset", "value", "exception"}]
  /\ registered \in [HandlerKinds -> BOOLEAN]
  /\ terminated \in BOOLEAN

(* Between two calls of the one thread that makes them, a node for which   *)
(* IsRunning() holds has every configured transport open and its worker in *)
(* ReceiveLoop with no stop requested: Start never leaves a half-started   *)
(* node behind, whatever failed before or in it.                           *)
RunningIsServed ==
  BetweenCalls /\ IsRunning =>
    /\ \A ch \in app.configured : open[ch]
    /\ ~stopRequested
    /\ wpc[worker] \in LoopSteps

(* Between two calls, a node that is not running has left no thread behind *)
(* and has every transport closed, so that Start can open it again: after  *)
(* a Stop, and after a Start that threw at any of its steps but the        *)
(* construction of the thread.                                             *)
StoppedIsClosed ==
  BetweenCalls /\ ~IsRunning =>
    /\ \A w \in Owners : wpc[w] = "absent"
    /\ AllClosed \/ app.spawnFails

(* The worker never polls a closed transport, which returns at once,       *)
(* without being about to leave its loop: Stop raises stop_requested_      *)
(* before it closes, and a restarted worker never finds the flag of the    *)
(* session before it.                                                      *)
NoBusySpin ==
  Serial /\ ReceiveChannel \in app.configured =>
    \A w \in Owners : wpc[w] \in LoopSteps =>
      open[ReceiveChannel] \/ stopRequested

(* Start and Stop of one thread never make the program call                *)
(* std::terminate, when no handler calls Stop.                             *)
NeverTerminates == Serial /\ ~app.handlerStops => ~terminated

(* Whatever threads call Start and Stop at the same time, no thread is     *)
(* lost: one that exists is the one worker_ names, which the next Stop     *)
(* joins, or its Start is about to store it there.  This is also the one   *)
(* moment when a handler finds that IsRunning() is false.                  *)
NoThreadIsLost ==
  \A w \in Owners :
    wpc[w] # "absent" => worker = w \/ pc[w] = "assign" \/ terminated

(* Whatever threads call Start and Stop at the same time, a Start that     *)
(* waits for the promise waits for a thread that is about to keep it.      *)
PromiseWillBeKept ==
  \A o \in Owners :
    pc[o] \in {"assign", "awaitReady"} /\ ready[o] = "unset" =>
      wpc[o] = "configuring"

(* Start returns or throws, after the Stop() of its catch clause if need   *)
(* be: the promise is kept on every path of the thread, the one that       *)
(* refuses its scheduling policy included, and calls of Stop and Start by  *)
(* other threads at the same time cannot break it.                         *)
StartReturns ==
  \A o \in Owners :
    pc[o] \in StartSteps ~> pc[o] \in {"idle"} \cup StopSteps \/ terminated

(* Stop of a node that one thread drives returns, or a handler has called  *)
(* Stop and terminated the program: the worker leaves its loop from        *)
(* wherever it is.  (Of two overlapping calls of Stop, the slower one may  *)
(* wait for the end of the next session.)                                  *)
StopReturns ==
  \A o \in Owners :
    DrivenBy(o) /\ pc[o] \in StopSteps ~> pc[o] = "idle" \/ terminated

(***************************************************************************)
(* The abstract specification, for an application that calls from one      *)
(* thread and not from handlers: a Stop inside a failing Start is still    *)
(* that Start.                                                             *)
(***************************************************************************)
Promised == Serial /\ ~app.handlerStops

Phase ==
  IF ~Promised THEN "stopped"
  ELSE IF \E o \in Owners :
            \/ pc[o] \in StartSteps
            \/ o \in failing
         THEN "starting"
  ELSE IF ~OwnersIdle THEN "stopping"
  ELSE IF IsRunning THEN "running" ELSE "stopped"

Busy == Promised /\ \E w \in Owners : wpc[w] \in {"handling", "reporting"}

Lifecycle == INSTANCE NodeLifecycle WITH phase <- Phase, busy <- Busy

(* Sessions as the application sees them: Start and Stop return, callbacks *)
(* run one at a time, none before Start is called, in a Start that throws  *)
(* or after Stop has returned.                                             *)
KeepsLifecycle == Lifecycle!Spec

-----------------------------------------------------------------------------
(***************************************************************************)
(* The inductive invariant of a node that the owner o alone drives.  TLC   *)
(* checks it, NodeCoreProofs proves it.                                    *)
(***************************************************************************)
Opening == {"openBroadcast", "openRequest", "openFailed", "launch"}

OthersStayOut(o) ==
  \A p \in Owners \ {o} : pc[p] = "idle" /\ p \notin failing /\ wpc[p] = "absent"

(* The handle worker_ and the thread it names appear and vanish together,  *)
(* but for the moment between the thread's start and the assignment.       *)
HandleNamesThread(o) ==
  /\ worker \in {o, NoThread}
  /\ pc[o] \in Opening \cup {"assign"} => ~IsRunning
  /\ pc[o] \in {"awaitReady", "closing", "join", "joining"} => IsRunning
  /\ pc[o] = "assign" => wpc[o] # "absent"
  /\ pc[o] # "assign" => (IsRunning <=> wpc[o] # "absent")

(* The promise tells how the thread began, as long as it matters.          *)
PromiseAgrees(o) ==
  /\ wpc[o] = "configuring" => ready[o] = "unset"
  /\ wpc[o] \in LoopSteps => ready[o] = "value"
  /\ wpc[o] = "exited" /\ ~stopRequested => ready[o] = "exception"

FailingStart(o) == pc[o] = "stopCheck" /\ o \in failing

(* Which steps of the thread go with which step of its owner.              *)
ThreadFollowsOwner(o) ==
  /\ wpc[o] = "configuring" => pc[o] \in {"assign", "awaitReady"}
  /\ o \in failing => pc[o] \in StopSteps
  /\ FailingStart(o) => wpc[o] = "exited"
  /\ pc[o] \in {"idle", "stopCheck"} /\ IsRunning /\ ~FailingStart(o) =>
       wpc[o] \in LoopSteps

(* The flag is down while the session lasts and up while Stop ends it.     *)
FlagFollowsOwner(o) ==
  /\ wpc[o] # "absent" /\ pc[o] \notin {"closing", "join", "joining"} =>
       ~stopRequested
  /\ pc[o] \in {"closing", "join", "joining"} => stopRequested

(* When a thread cannot be created, the transports stay open.              *)
TransportsFollowOwner(o) ==
  /\ pc[o] = "openBroadcast" => AllClosed \/ app.spawnFails
  /\ pc[o] = "openRequest" =>
       /\ "broadcast" \in app.configured => open["broadcast"]
       /\ ~open["request"] \/ app.spawnFails
  /\ pc[o] \in {"launch", "assign", "awaitReady"} =>
       \A ch \in app.configured : open[ch]
  /\ pc[o] \in {"idle", "stopCheck"} =>
       IF IsRunning THEN \A ch \in app.configured : open[ch]
                    ELSE AllClosed \/ app.spawnFails
  /\ pc[o] \in {"join", "joining"} => AllClosed

JoinerFollowsOwner(o) == joiner = IF pc[o] = "joining" THEN o ELSE NoThread

OwnerInv(o) ==
  /\ OthersStayOut(o)
  /\ HandleNamesThread(o)
  /\ PromiseAgrees(o)
  /\ ThreadFollowsOwner(o)
  /\ FlagFollowsOwner(o)
  /\ TransportsFollowOwner(o)
  /\ JoinerFollowsOwner(o)

IInv ==
  /\ TypeOK
  /\ NoThreadIsLost
  /\ terminated /\ Serial => app.handlerStops /\ stopRequested
  /\ ~terminated => \A o \in Owners : DrivenBy(o) => OwnerInv(o)
=============================================================================
