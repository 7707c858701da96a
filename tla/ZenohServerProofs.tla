------------------------- MODULE ZenohServerProofs -------------------------
(***************************************************************************)
(* Proofs about ZenohServer, for any set of queries and any number of      *)
(* sessions, with handlers that throw and Opens that fail.  Bookkeeping is *)
(* inductive, Accounting is on top of it, and the steps of the server are  *)
(* steps of QueryService.                                                  *)
(***************************************************************************)
EXTENDS ZenohServer, TLAPS

LEMMA InitBookkeeping ==
  ASSUME Init
  PROVE  Bookkeeping
<1>1. TypeOK
  <2>1. queue \in Seq(Queries)
    BY DEF Init
  <2>2. /\ value \in [Queries -> Queries \cup {None}]
        /\ answered \in [Queries -> Queries \cup {None}]
        /\ id \in [Queries -> Nat]
    BY DEF Init
  <2>3. /\ cb \in [Queries -> {"none", "allocated", "done"} \cup Registered]
        /\ cancelled \in [Queries -> BOOLEAN]
    BY DEF Init
  <2>4. QED
    BY <2>1, <2>2, <2>3 DEF Init, TypeOK
<1>2. IdsAreUnique /\ PendingTracksCallbacks
  BY DEF Init, IdsAreUnique, PendingTracksCallbacks, Registered
<1>3. MessagesHaveIds /\ WorkerHolds
  BY DEF Init, MessagesHaveIds, WorkerHolds
<1>4. ValuesMatch /\ AnswersMatchQueries /\ AnswersEndCallbacks
  BY DEF Init, ValuesMatch, AnswersMatchQueries, AnswersEndCallbacks
<1>5. QED
  BY <1>1, <1>2, <1>3, <1>4 DEF Bookkeeping

-----------------------------------------------------------------------------
(* The owner leaves everything alone that Bookkeeping speaks of, but for   *)
(* its own variables, the flags and the cancellations.                     *)
LEMMA OwnerKeepsBookkeeping ==
  ASSUME Bookkeeping,
         OpenFlag \/ OpenRefused \/ StartStep \/ StopCall \/ StopStep
  PROVE  Bookkeeping'
<1> USE DEF Bookkeeping, TypeOK, OwnerGoes, StartSteps, StopSteps, flags,
        callbackVars, workerVars, IdsAreUnique, MessagesHaveIds, WorkerHolds,
        ValuesMatch, PendingTracksCallbacks, AnswersMatchQueries,
        AnswersEndCallbacks
<1>1. CASE OpenFlag
  BY <1>1 DEF OpenFlag, OpenFlagWith
<1>2. CASE ResetEntities
  BY <1>2 DEF ResetEntities
<1>3. CASE Declare
  BY <1>3 DEF Declare
<1>4. CASE StartFails
  BY <1>4 DEF StartFails
<1>5. CASE Launch
  BY <1>5 DEF Launch
<1>6. CASE StopCall
  BY <1>6 DEF StopCall
<1>7. CASE CloseFlag
  BY <1>7 DEF CloseFlag
<1>8. CASE CloseLock
  BY <1>8 DEF CloseLock, CloseLockFor
<1>9. CASE \E q \in Queries : CloseCancel(q)
  BY <1>9 DEF CloseCancel
<1>10. CASE CloseUnlock
  BY <1>10 DEF CloseUnlock
<1>11. CASE Join
  BY <1>11 DEF Join
<1>12. CASE OpenRefused
  BY <1>12 DEF OpenRefused
<1>13. QED
  BY <1>1, <1>2, <1>3, <1>4, <1>5, <1>6, <1>7, <1>8, <1>9, <1>10, <1>11, <1>12
     DEF StartStep, StopStep

(* A step of on_query: types and ids, then who is in pending_, then what   *)
(* was answered.                                                           *)
LEMMA CallbackKeepsBookkeeping ==
  ASSUME Bookkeeping, NEW q \in Queries, Arrive(q) \/ CallbackStep(q)
  PROVE  Bookkeeping'
<1> USE DEF Bookkeeping, TypeOK, CallbackGoes, flags, ownerVars, replyVars,
        workerVars, IdsAreUnique, MessagesHaveIds, WorkerHolds, ValuesMatch,
        PendingTracksCallbacks, AnswersMatchQueries, AnswersEndCallbacks,
        Registered
<1>1. CASE Arrive(q)
  BY <1>1 DEF Arrive
<1>2. CASE Register(q)
  <2>1. CASE isOpen
    <3>1. q \notin pending /\ \A p \in pending : id[p] # id[q]
      BY <1>2 DEF Register, RegisterIf
    <3>2. pending' = pending \cup {q}
      BY <1>2, <2>1, <3>1 DEF Register, RegisterIf
    <3>3. cb' = [cb EXCEPT ![q] = "registered"]
      BY <1>2, <2>1 DEF Register, RegisterIf
    <3>4. PendingTracksCallbacks'
      BY <3>2, <3>3
    <3>5. QED
      BY <1>2, <3>2, <3>3, <3>4 DEF Register, RegisterIf
  <2>2. CASE ~isOpen
    <3>1. cb' = [cb EXCEPT ![q] = "done"] /\ pending' = pending
      BY <1>2, <2>2 DEF Register, RegisterIf
    <3>2. PendingTracksCallbacks'
      BY <1>2, <3>1 DEF Register, RegisterIf
    <3>3. QED
      BY <1>2, <3>1, <3>2 DEF Register, RegisterIf
  <2>3. QED
    BY <2>1, <2>2
<1>3. CASE Enqueue(q)
  BY <1>3 DEF Enqueue
<1>4. CASE Wake(q)
  BY <1>4 DEF Wake
<1>5. CASE SendReply(q)
  BY <1>5 DEF SendReply
<1>6. CASE Erase(q)
  BY <1>6 DEF Erase, EraseIf
<1>7. QED
  BY <1>1, <1>2, <1>3, <1>4, <1>5, <1>6 DEF CallbackStep

LEMMA WorkerKeepsBookkeeping ==
  ASSUME Bookkeeping, WorkerStep
  PROVE  Bookkeeping'
<1> USE ZenohServerAssumption
    DEF Bookkeeping, TypeOK, WorkerGoes, flags, ownerVars, callbackVars,
        IdsAreUnique, MessagesHaveIds, WorkerHolds, ValuesMatch,
        PendingTracksCallbacks, AnswersMatchQueries, AnswersEndCallbacks,
        Registered
<1>1. CASE LoopCheck
  BY <1>1 DEF LoopCheck, LoopCheckOf
<1>2. CASE TryReceive
  <2>1. CASE queue = <<>>
    BY <1>2, <2>1 DEF TryReceive
  <2>2. CASE queue # <<>>
    <3>1. /\ inHand' = queue[1] /\ queue' = Tail(queue)
          /\ wpc' = "handling"
      BY <1>2, <2>2 DEF TryReceive
    <3>2. /\ Len(queue) \in Nat \ {0} /\ queue[1] \in Queries
          /\ queue' \in Seq(Queries) /\ Len(queue') = Len(queue) - 1
          /\ \A i \in 1..Len(queue') : queue'[i] = queue[i + 1]
      BY <2>2, <3>1
    <3>3. MessagesHaveIds'
      <4>1. \A i \in 1..Len(queue') : id[queue'[i]] # 0
        <5> SUFFICES ASSUME NEW i \in 1..Len(queue')
                     PROVE  id[queue'[i]] # 0
          OBVIOUS
        <5>1. i + 1 \in 1..Len(queue) /\ queue'[i] = queue[i + 1]
          BY <3>2
        <5>2. QED
          BY <5>1
      <4>2. id[queue[1]] # 0
        BY <3>2
      <4>3. QED
        BY <1>2, <3>1, <4>1, <4>2 DEF TryReceive
    <3>4. WorkerHolds'
      BY <1>2, <3>1, <3>2 DEF TryReceive
    <3>5. QED
      BY <1>2, <3>1, <3>2, <3>3, <3>4 DEF TryReceive
  <2>3. QED
    BY <2>1, <2>2
<1>3. CASE HandlerReturns
  BY <1>3 DEF HandlerReturns
<1>4. CASE HandlerThrows
  BY <1>4 DEF HandlerThrows
<1>5. CASE ReplyFind
  BY <1>5 DEF ReplyFind
<1>6. CASE ReplySet
  BY <1>6 DEF ReplySet
<1>7. QED
  BY <1>1, <1>2, <1>3, <1>4, <1>5, <1>6 DEF WorkerStep

LEMMA NextBookkeeping ==
  ASSUME Bookkeeping, [Next]_vars
  PROVE  Bookkeeping'
<1>1. CASE OpenFlag \/ OpenRefused \/ StartStep \/ StopCall \/ StopStep
  BY <1>1, OwnerKeepsBookkeeping
<1>2. CASE \E q \in Queries : Arrive(q) \/ CallbackStep(q)
  BY <1>2, CallbackKeepsBookkeeping
<1>3. CASE WorkerStep
  BY <1>3, WorkerKeepsBookkeeping
<1>4. CASE UNCHANGED vars
  BY <1>4
     DEF vars, flags, ownerVars, callbackVars, replyVars, workerVars,
         Bookkeeping, TypeOK, IdsAreUnique, MessagesHaveIds, WorkerHolds,
         ValuesMatch, PendingTracksCallbacks, AnswersMatchQueries,
         AnswersEndCallbacks
<1>5. QED
  BY <1>1, <1>2, <1>3, <1>4 DEF Next

THEOREM BookkeepingHolds == Spec => []Bookkeeping
<1>1. Init => Bookkeeping
  BY InitBookkeeping
<1>2. Bookkeeping /\ [Next]_vars => Bookkeeping'
  BY NextBookkeeping
<1>3. QED
  BY <1>1, <1>2, PTL DEF Spec

(* The members of the transport only hold values of their types.           *)
THEOREM TypeCorrect == Spec => []TypeOK
<1>1. Bookkeeping => TypeOK
  BY DEF Bookkeeping
<1>2. QED
  BY <1>1, BookkeepingHolds, PTL

(* pending_ holds the states of the callbacks that are registered and not  *)
(* yet erased, and no other.                                               *)
THEOREM PendingIsExact == Spec => []PendingTracksCallbacks
<1>1. Bookkeeping => PendingTracksCallbacks
  BY DEF Bookkeeping
<1>2. QED
  BY <1>1, BookkeepingHolds, PTL

(* No requester gets the answer to another query, over any number of       *)
(* restarts with messages of earlier sessions still in the queue, with     *)
(* handlers that throw and Opens that fail.                                *)
THEOREM AnswersAreOwn == Spec => []AnswersMatchQueries
<1>1. Bookkeeping => AnswersMatchQueries
  BY DEF Bookkeeping
<1>2. QED
  BY <1>1, BookkeepingHolds, PTL

-----------------------------------------------------------------------------
(* Accounting.                                                             *)

LEMMA InitAccounting ==
  ASSUME Init
  PROVE  Accounting
BY DEF Init, Accounting, FlagFollowsOwner, RegisteredAccounted, WaiterAccounted,
   CloseCoversPending, LeftOpen

LEMMA OwnerKeepsAccounting ==
  ASSUME Bookkeeping, Accounting,
         OpenFlag \/ OpenRefused \/ StartStep \/ StopCall \/ StopStep
  PROVE  Accounting'
<1> USE DEF Bookkeeping, PendingTracksCallbacks, Registered, TypeOK, Accounting,
        FlagFollowsOwner, RegisteredAccounted, WaiterAccounted, Queued,
        CloseCoversPending, LeftOpen, CloseWillCancel, Unreleased, OwnerGoes,
        flags, callbackVars, workerVars
<1>1. CASE OpenFlag
  BY <1>1 DEF OpenFlag, OpenFlagWith
<1>2. CASE ResetEntities
  BY <1>2 DEF ResetEntities
<1>3. CASE Declare
  BY <1>3 DEF Declare
<1>4. CASE StartFails
  BY <1>4 DEF StartFails
<1>5. CASE Launch
  BY <1>5 DEF Launch
<1>6. CASE StopCall
  BY <1>6 DEF StopCall
<1>7. CASE CloseFlag
  BY <1>7 DEF CloseFlag
<1>8. CASE CloseLock
  BY <1>8 DEF CloseLock, CloseLockFor
<1>9. CASE \E q \in Queries : CloseCancel(q)
  BY <1>9 DEF CloseCancel
<1>10. CASE CloseUnlock
  BY <1>10 DEF CloseUnlock
<1>11. CASE Join
  BY <1>11 DEF Join
<1>12. CASE OpenRefused
  BY <1>12 DEF OpenRefused
<1>13. QED
  BY <1>1, <1>2, <1>3, <1>4, <1>5, <1>6, <1>7, <1>8, <1>9, <1>10, <1>11, <1>12
     DEF StartStep, StopStep

LEMMA CallbackKeepsAccounting ==
  ASSUME Bookkeeping, Accounting, NEW q \in Queries,
         Arrive(q) \/ CallbackStep(q)
  PROVE  Accounting'
<1> USE DEF Bookkeeping, PendingTracksCallbacks, Registered, TypeOK, Accounting,
        FlagFollowsOwner, RegisteredAccounted, WaiterAccounted, Queued,
        CloseCoversPending, LeftOpen, CloseWillCancel, Unreleased, CallbackGoes, flags,
        ownerVars, replyVars, workerVars, PendingFree
<1>1. CASE Arrive(q)
  BY <1>1 DEF Arrive
<1>2. CASE Register(q)
  BY <1>2 DEF Register, RegisterIf
<1>3. CASE Enqueue(q)
  <2>1. WaiterAccounted'
    BY <1>3 DEF Enqueue
  <2>2. RegisteredAccounted'
    BY <1>3 DEF Enqueue
  <2>3. QED
    BY <1>3, <2>1, <2>2 DEF Enqueue
<1>4. CASE Wake(q)
  BY <1>4 DEF Wake
<1>5. CASE SendReply(q)
  BY <1>5 DEF SendReply
<1>6. CASE Erase(q)
  BY <1>6 DEF Erase, EraseIf
<1>7. QED
  BY <1>1, <1>2, <1>3, <1>4, <1>5, <1>6 DEF CallbackStep

LEMMA WorkerKeepsAccounting ==
  ASSUME Bookkeeping, Accounting, WorkerStep
  PROVE  Accounting'
<1> USE ZenohServerAssumption
    DEF Bookkeeping, PendingTracksCallbacks, Registered, TypeOK, Accounting,
        FlagFollowsOwner, RegisteredAccounted, WaiterAccounted, Queued,
        CloseCoversPending, LeftOpen, CloseWillCancel, Unreleased, WorkerGoes,
        WorkerHolds, flags, ownerVars, callbackVars
<1>1. CASE LoopCheck
  BY <1>1 DEF LoopCheck, LoopCheckOf
<1>2. CASE TryReceive
  <2>1. \A q \in Queries : Queued(q) => Queued(q)' \/ inHand' = q
    <3> SUFFICES ASSUME NEW q \in Queries, NEW i \in 1..Len(queue),
                        queue[i] = q
                 PROVE  (\E j \in 1..Len(queue') : queue'[j] = q) \/ inHand' = q
      OBVIOUS
    <3>1. inHand' = queue[1] /\ queue' = Tail(queue)
      BY <1>2 DEF TryReceive
    <3>2. CASE i = 1
      BY <3>1, <3>2
    <3>3. CASE i # 1
      <4>1. i - 1 \in 1..Len(queue') /\ queue'[i - 1] = queue[i]
        BY <3>1, <3>3
      <4>2. QED
        BY <4>1
    <3>4. QED
      BY <3>2, <3>3
  <2>2. inHand = None
    BY <1>2 DEF TryReceive
  <2>3. QED
    <3>1. WaiterAccounted'
      BY <1>2, <2>1, <2>2 DEF TryReceive
    <3>2. QED
      BY <1>2, <3>1 DEF TryReceive
<1>3. CASE HandlerReturns
  BY <1>3 DEF HandlerReturns
<1>4. CASE HandlerThrows
  BY <1>4 DEF HandlerThrows
<1>5. CASE ReplyFind
  <2>1. WaiterAccounted'
    BY <1>5 DEF ReplyFind
  <2>2. QED
    BY <1>5, <2>1 DEF ReplyFind
<1>6. CASE ReplySet
  BY <1>6 DEF ReplySet
<1>7. QED
  BY <1>1, <1>2, <1>3, <1>4, <1>5, <1>6 DEF WorkerStep

LEMMA NextAccounting ==
  ASSUME Bookkeeping, Accounting, [Next]_vars
  PROVE  Accounting'
<1>1. CASE OpenFlag \/ OpenRefused \/ StartStep \/ StopCall \/ StopStep
  BY <1>1, OwnerKeepsAccounting
<1>2. CASE \E q \in Queries : Arrive(q) \/ CallbackStep(q)
  BY <1>2, CallbackKeepsAccounting
<1>3. CASE WorkerStep
  BY <1>3, WorkerKeepsAccounting
<1>4. CASE UNCHANGED vars
  BY <1>4
     DEF vars, flags, ownerVars, callbackVars, replyVars, workerVars,
         Accounting, FlagFollowsOwner, RegisteredAccounted,
         WaiterAccounted, Queued, CloseCoversPending, LeftOpen, CloseWillCancel,
         Unreleased
<1>5. QED
  BY <1>1, <1>2, <1>3, <1>4 DEF Next

(* Whatever the owner, the worker and the callbacks do, with Opens,        *)
(* configurations and threads that fail: is_open_ is up where the owner's  *)
(* place says so, also where a Start without a thread has left it up; a    *)
(* callback that waits is in the queue, at the worker or in the view of    *)
(* Close, unless its handler threw or an Open failed on it; and Close      *)
(* forgets none.                                                           *)
THEOREM AccountingHolds == Spec => []Accounting
<1>1. Init => Accounting
  BY InitAccounting
<1>2. Bookkeeping /\ Accounting /\ [Next]_vars => Accounting'
  BY NextAccounting
<1>3. QED
  BY <1>1, <1>2, BookkeepingHolds, PTL DEF Spec

(* No query is lost between Enqueue and Close: a callback that waits is    *)
(* queued, where it stays over sessions and over the time without a        *)
(* worker, or at the worker, or about to be cancelled, unless its handler  *)
(* threw or an Open failed on it.                                          *)
THEOREM NoCallbackIsForgotten == Spec => []WaiterAccounted
<1>1. Accounting => WaiterAccounted
  BY DEF Accounting
<1>2. QED
  BY <1>1, AccountingHolds, PTL

(* When Stop has returned, or a Start that failed through a catch clause,  *)
(* every callback that is still in the transport is free to leave it,      *)
(* unless an Open failed on it.  Where std::thread threw, the transport is *)
(* still open and nothing is claimed until a later Start and Stop close it.*)
THEOREM StopReleasesCallbacks == Spec => []StoppedReleasesOthers
<1>1. Accounting => StoppedReleasesOthers
  BY DEF Accounting, CloseCoversPending, StoppedReleasesOthers
<1>2. QED
  BY <1>1, AccountingHolds, PTL

-----------------------------------------------------------------------------
(* Refinement: the server serves queries as QueryService says.             *)

Statuses == [q \in Queries |-> Service(q)]

(* Steps that leave cb and answered alone are not seen.                    *)
LEMMA OthersStutter ==
  ASSUME UNCHANGED <<cb, answered>>
  PROVE  UNCHANGED Statuses
BY DEF Statuses, Service

(* A step of one callback is a step of its query alone.                    *)
LEMMA OnlyOneStatusChanges ==
  ASSUME NEW q \in Queries,
         \A p \in Queries \ {q} : cb'[p] = cb[p] /\ answered'[p] = answered[p]
  PROVE  Statuses' = [Statuses EXCEPT ![q] = Service(q)']
<1>1. \A p \in Queries \ {q} : Service(p)' = Service(p)
  BY DEF Service
<1>2. QED
  BY <1>1 DEF Statuses

(* Only callbacks move queries on, each its own.                           *)
LEMMA OwnerAndWorkerLeaveQueries ==
  ASSUME OpenFlag \/ OpenRefused \/ StartStep \/ StopCall \/ StopStep \/ WorkerStep
  PROVE  UNCHANGED <<cb, answered>>
BY DEF callbackVars, OpenFlag, OpenFlagWith, OpenRefused, StartStep, ResetEntities, Declare,
   StartFails, Launch, StopCall, StopStep, CloseFlag, CloseLock, CloseLockFor,
   CloseCancel, CloseUnlock, Join, WorkerStep, WorkerGoes, LoopCheck,
   LoopCheckOf, TryReceive, HandlerReturns, HandlerThrows, ReplyFind, ReplySet

LEMMA CallbacksLeaveOthers ==
  ASSUME Bookkeeping, NEW q \in Queries, Arrive(q) \/ CallbackStep(q),
         NEW p \in Queries \ {q}
  PROVE  cb'[p] = cb[p] /\ answered'[p] = answered[p]
BY DEF Bookkeeping, TypeOK, CallbackGoes, Arrive, CallbackStep,
   Register, RegisterIf, Enqueue, Wake, SendReply, Erase, EraseIf

LEMMA CallbackServes ==
  ASSUME Bookkeeping, NEW q \in Queries, Arrive(q) \/ CallbackStep(q)
  PROVE  [Served!Next]_Statuses
<1> USE ZenohServerAssumption
    DEF Bookkeeping, TypeOK, ValuesMatch, AnswersMatchQueries,
        AnswersEndCallbacks, CallbackGoes
<1>1. \A p \in Queries \ {q} : cb'[p] = cb[p] /\ answered'[p] = answered[p]
  BY CallbacksLeaveOthers
<1>2. Statuses' = [Statuses EXCEPT ![q] = Service(q)']
  BY <1>1, OnlyOneStatusChanges
<1>3. Statuses[q] = Service(q)
  BY DEF Statuses
<1>4. \/ Service(q)' = Service(q)
      \/ Service(q) = "none" /\ Service(q)' = "taken"
      \/ Service(q) = "taken" /\ Service(q)' \in {"answered", "dropped"}
  <2> USE DEF Service
  <2>1. CASE Arrive(q)
    BY <2>1 DEF Arrive
  <2>2. CASE Register(q)
    BY <2>2 DEF Register, RegisterIf
  <2>3. CASE Enqueue(q) \/ Wake(q)
    BY <2>3 DEF Enqueue, Wake
  <2>4. CASE SendReply(q)
    BY <2>4 DEF SendReply
  <2>5. CASE Erase(q)
    BY <2>5 DEF Erase, EraseIf
  <2>6. QED
    BY <2>1, <2>2, <2>3, <2>4, <2>5 DEF CallbackStep
<1>5. CASE Service(q)' = Service(q)
  <2>1. Statuses = [p \in Queries |-> Statuses[p]]
    BY DEF Statuses
  <2>2. Statuses' = [Statuses EXCEPT ![q] = Statuses[q]]
    BY <1>2, <1>3, <1>5
  <2>3. Statuses' = Statuses
    BY <2>1, <2>2
  <2>4. QED
    BY <2>3
<1>6. CASE Service(q)' # Service(q)
  BY <1>2, <1>3, <1>4, <1>6
     DEF Served!Next, Served!Take, Served!Answer, Served!Drop, Served!Becomes,
         Statuses
<1>7. QED
  BY <1>5, <1>6

(* Every query is taken once, gets one answer at most and none but its     *)
(* own, and is then done with: over restarts, cancellations, handlers that *)
(* throw and Opens that fail.                                              *)
THEOREM ServerServesQueries == Spec => ServesQueries
<1>1. Init => Served!Init
  BY DEF Init, Served!Init, Service
<1>2. Bookkeeping /\ [Next]_vars => [Served!Next]_Statuses
  <2> SUFFICES ASSUME Bookkeeping, [Next]_vars
               PROVE  [Served!Next]_Statuses
    OBVIOUS
  <2>1. CASE \E q \in Queries : Arrive(q) \/ CallbackStep(q)
    BY <2>1, CallbackServes
  <2>2. CASE UNCHANGED <<cb, answered>>
    BY <2>2, OthersStutter
  <2>3. UNCHANGED <<cb, answered>> \/ \E q \in Queries : Arrive(q) \/ CallbackStep(q)
    BY OwnerAndWorkerLeaveQueries DEF Next, vars, callbackVars
  <2>4. QED
    BY <2>1, <2>2, <2>3
<1>3. QED
  BY <1>1, <1>2, BookkeepingHolds, PTL
     DEF Spec, ServesQueries, Served!Spec, Statuses
=============================================================================
