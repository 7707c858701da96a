--------------------------- MODULE NodeCoreProofs ---------------------------
(***************************************************************************)
(* Proofs about NodeCore, for any threads of the application, any          *)
(* channels, any handlers and failures: the types, NoThreadIsLost and      *)
(* PromiseWillBeKept also when calls of Start and Stop overlap, the rest   *)
(* for a node that one thread starts and stops.  IInv of NodeCore is       *)
(* inductive, and the safety properties of the run follow from it.         *)
(***************************************************************************)
EXTENDS NodeCore, TLAPS

-----------------------------------------------------------------------------
(* Type correctness: any number of owners, their calls may overlap.        *)

LEMMA InitTypeOK == Init => TypeOK
<1> SUFFICES ASSUME Init PROVE TypeOK
  OBVIOUS
<1> QED
  BY NodeCoreAssumption DEF Init, TypeOK

(* One call of Open, whatever the step of Start that follows it.           *)
LEMMA OpenTypeOK ==
  ASSUME TypeOK, NEW o \in Owners, NEW ch \in Channels,
         NEW here, NEW next \in StartSteps, OpenChannel(o, ch, here, next)
  PROVE  TypeOK'
<1>1. pc' \in [Owners -> {"idle"} \cup StartSteps \cup StopSteps]
  BY DEF TypeOK, OpenChannel, Goes, Goto, StartSteps
<1>2. open' \in [Channels -> BOOLEAN]
  BY DEF TypeOK, OpenChannel
<1>3. QED
  BY <1>1, <1>2 DEF TypeOK, OpenChannel, Goes, config, handle, threads

LEMMA StartTypeOK ==
  ASSUME TypeOK, NEW o \in Owners, StartCheck(o) \/ StartStep(o)
  PROVE  TypeOK'
<1> USE DEF TypeOK, Goto, Goes, Ends, calls, config, session, handle, threads
<1>1. CASE StartCheck(o)
  BY <1>1 DEF StartCheck, StartSteps
<1>2. CASE OpenBroadcast(o)
  BY <1>2, OpenTypeOK DEF OpenBroadcast, StartSteps, Channels
<1>3. CASE OpenRequest(o)
  BY <1>3, OpenTypeOK DEF OpenRequest, StartSteps, Channels
<1>4. CASE OpenFailed(o)
  BY <1>4 DEF OpenFailed, CloseTransports
<1>5. CASE Launch(o)
  <2>1. /\ pc' \in [Owners -> {"idle"} \cup StartSteps \cup StopSteps]
        /\ wpc' \in [Owners -> LoopSteps \cup {"absent", "configuring", "exited"}]
        /\ ready' \in [Owners -> {"unset", "value", "exception"}]
    BY <1>5 DEF Launch, LaunchWith, StartSteps
  <2>2. QED
    BY <1>5, <2>1 DEF Launch, LaunchWith
<1>6. CASE AssignWorker(o)
  BY <1>6 DEF AssignWorker, Terminate, StartSteps
<1>7. CASE AwaitReady(o)
  BY <1>7 DEF AwaitReady, StopSteps
<1>8. QED
  BY <1>1, <1>2, <1>3, <1>4, <1>5, <1>6, <1>7 DEF StartStep

LEMMA StopTypeOK ==
  ASSUME TypeOK, NEW o \in Owners,
         \/ StopCall(o) \/ StopStep(o)
         \/ \E s \in BOOLEAN : SetWorkerConfig(o, s)
  PROVE  TypeOK'
<1> USE DEF TypeOK, Goto, Goes, Ends, calls, config, session, handle, threads
<1>1. CASE StopCall(o)
  BY <1>1 DEF StopCall, StopSteps
<1>2. CASE StopCheck(o)
  BY <1>2 DEF StopCheck, StopSteps
<1>3. CASE StopClose(o)
  BY <1>3 DEF StopClose, StopSteps, CloseTransports
<1>4. CASE JoinEnter(o)
  BY <1>4 DEF JoinEnter, Terminate, StopSteps
<1>5. CASE JoinReturns(o)
  BY <1>5 DEF JoinReturns, Forget, IsRunning
<1>6. CASE \E s \in BOOLEAN : SetWorkerConfig(o, s)
  BY <1>6 DEF SetWorkerConfig
<1>7. QED
  BY <1>1, <1>2, <1>3, <1>4, <1>5, <1>6 DEF StopStep

(* A step of the worker that only moves it keeps the types when it goes to *)
(* a step of the loop or to the end.                                       *)
LEMMA MovesTypeOK ==
  ASSUME TypeOK, NEW w \in Owners, NEW from,
         NEW to \in LoopSteps \cup {"exited"}, Moves(w, from, to)
  PROVE  TypeOK'
BY DEF TypeOK, Moves, WorkerGoes, calls, config, session, handle

(* Every such step goes there.                                             *)
LEMMA WorkerMoves ==
  ASSUME NEW w \in Owners, WorkerStep(w), ~Configure(w)
  PROVE  \E from \in LoopSteps, to \in LoopSteps \cup {"exited"} :
           /\ Moves(w, from, to)
           /\ to = "exited" => stopRequested
<1> USE DEF LoopSteps
<1>1. CASE LoopCheck(w)
  BY <1>1 DEF LoopCheck, LoopTop
<1>2. CASE Receive(w)
  BY <1>2 DEF Receive, CaughtGoesTo
<1>3. CASE Dispatch(w) \/ HandlerEnds(w)
  BY <1>3 DEF Dispatch, HandlerEnds, CaughtGoesTo, AfterHandler
<1>4. CASE ReplyEnds(w) \/ ReportEnds(w)
  BY <1>4 DEF ReplyEnds, ReportEnds, CaughtGoesTo
<1>5. QED
  BY <1>1, <1>2, <1>3, <1>4 DEF WorkerStep

LEMMA WorkerTypeOK ==
  ASSUME TypeOK, NEW w \in Owners, WorkerStep(w) \/ HandlerStops(w)
  PROVE  TypeOK'
<1>1. CASE Configure(w)
  BY <1>1 DEF TypeOK, Configure, ConfigureWith, WorkerGoes, LoopSteps, calls,
     config, session, handle
<1>2. CASE WorkerStep(w) /\ ~Configure(w)
  BY <1>2, WorkerMoves, MovesTypeOK
<1>3. CASE HandlerStops(w)
  BY <1>3 DEF TypeOK, HandlerStops, CloseTransports, Terminate, calls, config,
     threads
<1>4. QED
  BY <1>1, <1>2, <1>3

LEMMA NextTypeOK ==
  ASSUME TypeOK, [Next]_vars
  PROVE  TypeOK'
<1>1. CASE \E k \in HandlerKinds, set \in BOOLEAN : SetHandler(k, set)
  BY <1>1 DEF TypeOK, SetHandler, calls, session, handle, threads
<1>2. CASE \E o \in Owners : CallBegins(o) \/ OwnerStep(o)
  BY <1>2, StartTypeOK, StopTypeOK DEF CallBegins, OwnerStep
<1>3. CASE \E w \in Owners : WorkerStep(w) \/ HandlerStops(w)
  BY <1>3, WorkerTypeOK
<1>4. CASE UNCHANGED vars
  BY <1>4 DEF TypeOK, vars
<1>5. QED
  BY <1>1, <1>2, <1>3, <1>4 DEF Next

(* The members of DdsNodeCore only ever hold values of their types, with   *)
(* any number of threads calling Start and Stop, whatever fails.           *)
THEOREM TypeCorrect == Spec => []TypeOK
<1>1. Init => TypeOK
  BY InitTypeOK
<1>2. TypeOK /\ [Next]_vars => TypeOK'
  BY NextTypeOK
<1>3. QED
  BY <1>1, <1>2, PTL DEF Spec

-----------------------------------------------------------------------------
(* No thread is lost, whatever calls overlap.                              *)

LEMMA OwnerLosesNoThread ==
  ASSUME TypeOK, NoThreadIsLost, NEW o \in Owners, CallBegins(o) \/ OwnerStep(o)
  PROVE  NoThreadIsLost'
<1> USE NodeCoreAssumption
    DEF TypeOK, NoThreadIsLost, At, Goto, Goes, Ends, calls, handle, threads,
        IsRunning
<1>1. CASE CallBegins(o)
  BY <1>1 DEF CallBegins, StartCheck, StopCall, SetWorkerConfig
<1>2. CASE OpenBroadcast(o) \/ OpenRequest(o) \/ OpenFailed(o)
  BY <1>2 DEF OpenBroadcast, OpenRequest, OpenChannel, OpenFailed
<1>3. CASE Launch(o)
  BY <1>3 DEF Launch, LaunchWith
<1>4. CASE AssignWorker(o)
  BY <1>4 DEF AssignWorker, Terminate
<1>5. CASE AwaitReady(o)
  BY <1>5 DEF AwaitReady
<1>6. CASE StopCheck(o) \/ StopClose(o) \/ JoinEnter(o)
  BY <1>6 DEF StopCheck, StopClose, JoinEnter, Terminate
<1>7. CASE JoinReturns(o)
  BY <1>7 DEF JoinReturns, Forget
<1>8. QED
  BY <1>1, <1>2, <1>3, <1>4, <1>5, <1>6, <1>7 DEF OwnerStep, StartStep, StopStep

LEMMA WorkerLosesNoThread ==
  ASSUME TypeOK, NoThreadIsLost, NEW w \in Owners, WorkerStep(w) \/ HandlerStops(w)
  PROVE  NoThreadIsLost'
<1> USE DEF TypeOK, NoThreadIsLost, WorkerGoes, calls, handle, threads
<1>1. CASE Configure(w)
  BY <1>1 DEF Configure, ConfigureWith
<1>2. CASE WorkerStep(w) /\ ~Configure(w)
  <2>1. PICK from \in LoopSteps, to \in LoopSteps \cup {"exited"} :
          Moves(w, from, to)
    BY <1>2, WorkerMoves
  <2>2. from # "absent"
    BY DEF LoopSteps
  <2>3. QED
    BY <2>1, <2>2 DEF Moves
<1>3. CASE HandlerStops(w)
  BY <1>3 DEF HandlerStops, Terminate
<1>4. QED
  BY <1>1, <1>2, <1>3

LEMMA NextLosesNoThread ==
  ASSUME TypeOK, NoThreadIsLost, [Next]_vars
  PROVE  NoThreadIsLost'
<1>1. CASE \E k \in HandlerKinds, set \in BOOLEAN : SetHandler(k, set)
  BY <1>1 DEF NoThreadIsLost, SetHandler, calls, handle, threads
<1>2. CASE UNCHANGED vars
  BY <1>2 DEF NoThreadIsLost, vars
<1>3. QED
  BY <1>1, <1>2, OwnerLosesNoThread, WorkerLosesNoThread DEF Next

(* However many threads call Start and Stop at the same time, every thread *)
(* that exists is the one worker_ names or is about to be stored there.    *)
THEOREM EveryThreadIsNamed == Spec => []NoThreadIsLost
<1>1. Init => NoThreadIsLost
  BY DEF Init, NoThreadIsLost
<1>2. TypeOK /\ NoThreadIsLost /\ [Next]_vars => NoThreadIsLost'
  BY NextLosesNoThread
<1>3. QED
  BY <1>1, <1>2, TypeCorrect, PTL DEF Spec

-----------------------------------------------------------------------------
(* A promise that a Start waits for is kept, whatever calls overlap.       *)

LEMMA OwnerBreaksNoPromise ==
  ASSUME TypeOK, PromiseWillBeKept, NEW o \in Owners,
         CallBegins(o) \/ OwnerStep(o)
  PROVE  PromiseWillBeKept'
<1> USE DEF TypeOK, PromiseWillBeKept, At, Goto, Goes, Ends, calls, threads,
        StartSteps, StopSteps
<1>1. CASE CallBegins(o)
  BY <1>1 DEF CallBegins, StartCheck, StopCall, SetWorkerConfig
<1>2. CASE OpenBroadcast(o) \/ OpenRequest(o) \/ OpenFailed(o)
  BY <1>2 DEF OpenBroadcast, OpenRequest, OpenChannel, OpenFailed
<1>3. CASE Launch(o)
  BY <1>3 DEF Launch, LaunchWith
<1>4. CASE AssignWorker(o)
  BY <1>4 DEF AssignWorker
<1>5. CASE AwaitReady(o)
  BY <1>5 DEF AwaitReady
<1>6. CASE StopCheck(o) \/ StopClose(o) \/ JoinEnter(o)
  BY <1>6 DEF StopCheck, StopClose, JoinEnter
<1>7. CASE JoinReturns(o)
  BY <1>7 DEF JoinReturns, Forget
<1>8. QED
  BY <1>1, <1>2, <1>3, <1>4, <1>5, <1>6, <1>7 DEF OwnerStep, StartStep, StopStep

LEMMA WorkerBreaksNoPromise ==
  ASSUME TypeOK, PromiseWillBeKept, NEW w \in Owners,
         WorkerStep(w) \/ HandlerStops(w)
  PROVE  PromiseWillBeKept'
<1> USE DEF TypeOK, PromiseWillBeKept, WorkerGoes, calls, threads
<1>1. CASE Configure(w)
  BY <1>1 DEF Configure, ConfigureWith
<1>2. CASE WorkerStep(w) /\ ~Configure(w)
  <2>1. PICK from \in LoopSteps, to \in LoopSteps \cup {"exited"} :
          Moves(w, from, to)
    BY <1>2, WorkerMoves
  <2>2. from # "configuring"
    BY DEF LoopSteps
  <2>3. QED
    BY <2>1, <2>2 DEF Moves
<1>3. CASE HandlerStops(w)
  BY <1>3 DEF HandlerStops
<1>4. QED
  BY <1>1, <1>2, <1>3

LEMMA NextBreaksNoPromise ==
  ASSUME TypeOK, PromiseWillBeKept, [Next]_vars
  PROVE  PromiseWillBeKept'
<1>1. CASE \E k \in HandlerKinds, set \in BOOLEAN : SetHandler(k, set)
  BY <1>1 DEF PromiseWillBeKept, SetHandler, calls, threads
<1>2. CASE UNCHANGED vars
  BY <1>2 DEF PromiseWillBeKept, vars
<1>3. QED
  BY <1>1, <1>2, OwnerBreaksNoPromise, WorkerBreaksNoPromise DEF Next

(* However many threads call Start and Stop at the same time, none waits   *)
(* for a promise that the thread it created no longer keeps.               *)
THEOREM EveryPromiseWillBeKept == Spec => []PromiseWillBeKept
<1>1. Init => PromiseWillBeKept
  BY DEF Init, PromiseWillBeKept
<1>2. TypeOK /\ PromiseWillBeKept /\ [Next]_vars => PromiseWillBeKept'
  BY NextBreaksNoPromise
<1>3. QED
  BY <1>1, <1>2, TypeCorrect, PTL DEF Spec

-----------------------------------------------------------------------------
(* The inductive invariant.                                                *)

LEMMA InitEstablishesInvariant == Init => IInv
<1> SUFFICES ASSUME Init PROVE IInv
  OBVIOUS
<1> USE NodeCoreAssumption
<1>1. TypeOK /\ NoThreadIsLost
  BY InitTypeOK DEF Init, NoThreadIsLost
<1>2. ASSUME NEW o \in Owners PROVE OwnerInv(o)
  BY DEF Init, OwnerInv, OthersStayOut, HandleNamesThread, PromiseAgrees,
     ThreadFollowsOwner, FlagFollowsOwner, TransportsFollowOwner,
     JoinerFollowsOwner, FailingStart, AllClosed, IsRunning, Opening, LoopSteps
<1>3. QED
  BY <1>1, <1>2 DEF Init, IInv

(* Nothing moves after std::terminate, and the application stays the same. *)
LEMMA TerminatedStaysSo == terminated => ~Next
<1> SUFFICES ASSUME terminated, Next PROVE FALSE
  OBVIOUS
<1> USE DEF At, Goes, Ends, WorkerGoes, Moves
<1>1. ~ \E o \in Owners : CallBegins(o) \/ OwnerStep(o)
  BY DEF CallBegins, StartCheck, StopCall, SetWorkerConfig, OwnerStep, StartStep,
     StopStep, OpenBroadcast, OpenRequest, OpenChannel, OpenFailed, Launch,
     LaunchWith, AssignWorker, AwaitReady, StopCheck, StopClose, JoinEnter,
     JoinReturns, Forget
<1>2. ~ \E w \in Owners : WorkerStep(w) \/ HandlerStops(w)
  BY DEF WorkerStep, HandlerStops, Configure, ConfigureWith, LoopCheck, Receive,
     Dispatch, HandlerEnds, ReplyEnds, ReportEnds
<1>3. QED
  BY <1>1, <1>2 DEF Next, SetHandler

LEMMA ApplicationStays == [Next]_vars => app' = app
<1> USE DEF config, Goes, Ends, WorkerGoes, Moves
<1>1. ASSUME NEW o \in Owners, CallBegins(o) \/ OwnerStep(o) PROVE app' = app
  BY <1>1
     DEF CallBegins, StartCheck, StopCall, SetWorkerConfig, OwnerStep, StartStep,
     StopStep, OpenBroadcast, OpenRequest, OpenChannel, OpenFailed, Launch,
     LaunchWith, AssignWorker, AwaitReady, StopCheck, StopClose, JoinEnter,
     JoinReturns, Forget
<1>2. ASSUME NEW w \in Owners, WorkerStep(w) \/ HandlerStops(w) PROVE app' = app
  BY <1>2
     DEF WorkerStep, HandlerStops, Configure, ConfigureWith, LoopCheck, Receive,
     Dispatch, HandlerEnds, ReplyEnds, ReportEnds
<1>3. QED
  BY <1>1, <1>2 DEF Next, SetHandler, vars

(* The threads that do not drive the node take no step in it.              *)
LEMMA OthersTakeNoStep ==
  ASSUME NEW o \in Owners, DrivenBy(o), OthersStayOut(o),
         NEW p \in Owners, p # o
  PROVE  ~CallBegins(p) /\ ~OwnerStep(p) /\ ~WorkerStep(p) /\ ~HandlerStops(p)
<1>1. p \notin app.callers /\ pc[p] = "idle" /\ wpc[p] = "absent"
  BY DEF DrivenBy, OthersStayOut
<1>2. ~CallBegins(p)
  BY <1>1 DEF CallBegins, StartCheck, StopCall, SetWorkerConfig
<1>3. ~OwnerStep(p)
  BY <1>1
     DEF OwnerStep, StartStep, StopStep, Goes, Ends, At, OpenBroadcast,
         OpenRequest, OpenChannel, OpenFailed, Launch, LaunchWith, AssignWorker,
         AwaitReady, StopCheck, StopClose, JoinEnter, JoinReturns, Forget
<1>4. ~WorkerStep(p) /\ ~HandlerStops(p)
  BY <1>1, WorkerMoves
     DEF Configure, ConfigureWith, Moves, WorkerGoes, LoopSteps, HandlerStops
<1>5. QED
  BY <1>2, <1>3, <1>4

LEMMA StartKeepsInvariant ==
  ASSUME NEW o \in Owners, TypeOK, OwnerInv(o), ~terminated,
         StartCheck(o) \/ StartStep(o)
  PROVE  OwnerInv(o)' /\ ~terminated'
<1> USE NodeCoreAssumption
    DEF OwnerInv, OthersStayOut, HandleNamesThread, PromiseAgrees,
        ThreadFollowsOwner, FlagFollowsOwner, TransportsFollowOwner,
        JoinerFollowsOwner, FailingStart, AllClosed, IsRunning, Opening, At, Goto,
        Goes, Ends, calls, config, session, handle, threads, TypeOK, LoopSteps,
        StartSteps, StopSteps
<1>1. CASE StartCheck(o)
  BY <1>1 DEF StartCheck
<1>2. CASE OpenBroadcast(o)
  BY <1>2 DEF OpenBroadcast, OpenChannel, Channels
<1>3. CASE OpenRequest(o)
  BY <1>3 DEF OpenRequest, OpenChannel, Channels, AllApplications
<1>4. CASE OpenFailed(o)
  BY <1>4 DEF OpenFailed, CloseTransports
<1>5. CASE Launch(o)
  BY <1>5 DEF Launch, LaunchWith
<1>6. CASE AssignWorker(o)
  BY <1>6 DEF AssignWorker
<1>7. CASE AwaitReady(o)
  BY <1>7 DEF AwaitReady
<1>8. QED
  BY <1>1, <1>2, <1>3, <1>4, <1>5, <1>6, <1>7 DEF StartStep

LEMMA StopKeepsInvariant ==
  ASSUME NEW o \in Owners, TypeOK, OwnerInv(o), ~terminated,
         \/ StopCall(o) \/ StopStep(o)
         \/ \E s \in BOOLEAN : SetWorkerConfig(o, s)
  PROVE  OwnerInv(o)' /\ ~terminated'
<1> USE NodeCoreAssumption
    DEF OwnerInv, OthersStayOut, HandleNamesThread, PromiseAgrees,
        ThreadFollowsOwner, FlagFollowsOwner, TransportsFollowOwner,
        JoinerFollowsOwner, FailingStart, AllClosed, IsRunning, Opening, At, Goto,
        Goes, Ends, calls, config, session, handle, threads, TypeOK, LoopSteps,
        StartSteps, StopSteps
<1>1. CASE StopCall(o)
  BY <1>1 DEF StopCall
<1>2. CASE StopCheck(o)
  BY <1>2 DEF StopCheck
<1>3. CASE StopClose(o)
  BY <1>3 DEF StopClose, CloseTransports
<1>4. CASE JoinEnter(o)
  BY <1>4 DEF JoinEnter
<1>5. CASE JoinReturns(o)
  BY <1>5 DEF JoinReturns, Forget
<1>6. CASE \E s \in BOOLEAN : SetWorkerConfig(o, s)
  BY <1>6 DEF SetWorkerConfig
<1>7. QED
  BY <1>1, <1>2, <1>3, <1>4, <1>5, <1>6 DEF StopStep

LEMMA WorkerKeepsInvariant ==
  ASSUME NEW o \in Owners, TypeOK, OwnerInv(o), ~terminated, WorkerStep(o)
  PROVE  OwnerInv(o)' /\ ~terminated'
<1> USE NodeCoreAssumption
    DEF OwnerInv, OthersStayOut, HandleNamesThread, PromiseAgrees,
        ThreadFollowsOwner, FlagFollowsOwner, TransportsFollowOwner,
        JoinerFollowsOwner, FailingStart, AllClosed, IsRunning, Opening, TypeOK,
        LoopSteps, WorkerGoes, calls, config, session, handle
<1>1. CASE Configure(o)
  BY <1>1 DEF Configure, ConfigureWith
<1>2. CASE ~Configure(o)
  <2>1. PICK from \in LoopSteps, to \in LoopSteps \cup {"exited"} :
          Moves(o, from, to) /\ (to = "exited" => stopRequested)
    BY <1>2, WorkerMoves
  <2>2. QED
    BY <2>1 DEF Moves
<1>3. QED
  BY <1>1, <1>2

(* A step of a node that o drives, of whatever thread.                     *)
LEMMA StepOfDrivenNode ==
  ASSUME NEW o \in Owners, DrivenBy(o), TypeOK, OwnerInv(o), ~terminated,
         [Next]_vars
  PROVE  \/ ~terminated' /\ OwnerInv(o)'
         \/ terminated' /\ app.handlerStops /\ stopRequested'
<1>1. CASE CallBegins(o) \/ OwnerStep(o)
  BY <1>1, StartKeepsInvariant, StopKeepsInvariant DEF CallBegins, OwnerStep
<1>2. CASE WorkerStep(o)
  BY <1>2, WorkerKeepsInvariant
<1>3. CASE HandlerStops(o)
  BY <1>3 DEF HandlerStops, Terminate
<1>4. CASE \/ \E k \in HandlerKinds, set \in BOOLEAN : SetHandler(k, set)
           \/ UNCHANGED vars
  BY <1>4
     DEF SetHandler, vars, calls, session, handle, threads, OwnerInv,
         OthersStayOut, HandleNamesThread, PromiseAgrees, ThreadFollowsOwner,
         FlagFollowsOwner, TransportsFollowOwner, JoinerFollowsOwner,
         FailingStart, AllClosed, IsRunning
<1>5. QED
  BY <1>1, <1>2, <1>3, <1>4, OthersTakeNoStep DEF Next, OwnerInv

LEMMA InvariantIsInductive ==
  ASSUME IInv, [Next]_vars
  PROVE  IInv'
<1>1. TypeOK' /\ NoThreadIsLost'
  BY NextTypeOK, NextLosesNoThread DEF IInv
<1>2. app' = app
  BY ApplicationStays
<1>3. terminated' /\ Serial' => (app.handlerStops /\ stopRequested)'
  <2> SUFFICES ASSUME terminated', Serial'
               PROVE  (app.handlerStops /\ stopRequested)'
    OBVIOUS
  <2>1. PICK o \in Owners : DrivenBy(o)
    BY <1>2 DEF Serial, DrivenBy
  <2>2. CASE terminated
    BY <1>2, <2>1, <2>2, TerminatedStaysSo DEF IInv, vars, Serial
  <2>3. CASE ~terminated
    BY <1>2, <2>1, <2>3, StepOfDrivenNode DEF IInv
  <2>4. QED
    BY <2>2, <2>3
<1>4. ~terminated' => \A o \in Owners : DrivenBy(o)' => OwnerInv(o)'
  <2> SUFFICES ASSUME ~terminated', NEW o \in Owners, DrivenBy(o)'
               PROVE  OwnerInv(o)'
    OBVIOUS
  <2>1. DrivenBy(o)
    BY <1>2 DEF DrivenBy
  <2>2. ~terminated
    BY TerminatedStaysSo DEF vars
  <2>3. QED
    BY <2>1, <2>2, StepOfDrivenNode DEF IInv
<1>5. QED
  BY <1>1, <1>3, <1>4 DEF IInv

(* IInv holds in every reachable state.                                    *)
THEOREM InvariantHolds == Spec => []IInv
<1>1. Init => IInv
  BY InitEstablishesInvariant
<1>2. IInv /\ [Next]_vars => IInv'
  BY InvariantIsInductive
<1>3. QED
  BY <1>1, <1>2, PTL DEF Spec

-----------------------------------------------------------------------------
(* Start leaves either nothing or a node with open transports and a worker *)
(* in its loop, and that lasts until Stop is called.                       *)
THEOREM RunningNodeIsServed == Spec => []RunningIsServed
<1>1. IInv => RunningIsServed
  <2> SUFFICES ASSUME IInv, BetweenCalls, IsRunning,
                      NEW o \in Owners, DrivenBy(o)
               PROVE  RunningIsServed
    BY DEF RunningIsServed, BetweenCalls, Serial
  <2>1. OwnerInv(o) /\ pc[o] = "idle" /\ ~terminated
    BY DEF IInv, BetweenCalls, OwnersIdle
  <2>2. QED
    BY <2>1
       DEF IInv, OwnerInv, HandleNamesThread, ThreadFollowsOwner,
           FlagFollowsOwner, TransportsFollowOwner, FailingStart,
           RunningIsServed, IsRunning, TypeOK, StopSteps
<1>2. QED
  BY <1>1, InvariantHolds, PTL

(* After Stop, and after a Start that threw, no thread is left, and no     *)
(* transport is open but after a Start that could not create its thread.   *)
THEOREM StoppedNodeIsClosed == Spec => []StoppedIsClosed
<1>1. IInv => StoppedIsClosed
  <2> SUFFICES ASSUME IInv, BetweenCalls, ~IsRunning,
                      NEW o \in Owners, DrivenBy(o)
               PROVE  StoppedIsClosed
    BY DEF StoppedIsClosed, BetweenCalls, Serial
  <2>1. OwnerInv(o) /\ pc[o] = "idle" /\ ~terminated
    BY DEF IInv, BetweenCalls, OwnersIdle
  <2>2. QED
    BY <2>1
       DEF OwnerInv, OthersStayOut, HandleNamesThread, TransportsFollowOwner,
           StoppedIsClosed, IsRunning
<1>2. QED
  BY <1>1, InvariantHolds, PTL

(* The worker's loop never finds its transport closed and its flag down.   *)
THEOREM WorkerNeverSpins == Spec => []NoBusySpin
<1>1. IInv => NoBusySpin
  <2> SUFFICES ASSUME IInv, NEW o \in Owners, DrivenBy(o), ~terminated
               PROVE  NoBusySpin
    BY DEF NoBusySpin, Serial, IInv
  <2>1. OwnerInv(o)
    BY DEF IInv
  <2>2. QED
    BY <2>1
       DEF IInv, OwnerInv, OthersStayOut, HandleNamesThread, FlagFollowsOwner,
           TransportsFollowOwner, NoBusySpin, IsRunning, TypeOK, Opening,
           AllClosed, LoopSteps, StartSteps, StopSteps
<1>2. QED
  BY <1>1, InvariantHolds, PTL

(* join() and the assignment of worker_ are only reached in states in which *)
(* they do not throw or terminate.                                          *)
THEOREM NodeNeverTerminates == Spec => []NeverTerminates
<1>1. IInv => NeverTerminates
  BY DEF IInv, NeverTerminates
<1>2. QED
  BY <1>1, InvariantHolds, PTL

-----------------------------------------------------------------------------
(* Refinement: every step of the node is a step of NodeLifecycle or leaves *)
(* its variables alone.  First, what the mapping is for a node that o      *)
(* drives and whose handlers do not call Stop, before and after a step.    *)

PromisedTo(o) ==
  /\ IInv /\ ~terminated
  /\ DrivenBy(o) /\ ~app.handlerStops
  /\ OwnerInv(o)

LEMMA PromisedIsToItsOwner ==
  ASSUME IInv, Promised
  PROVE  \E o \in Owners : PromisedTo(o)
BY DEF Promised, Serial, PromisedTo, IInv

Mapped(o) ==
  /\ Promised
  /\ Phase = IF pc[o] \in StartSteps \/ o \in failing THEN "starting"
             ELSE IF pc[o] # "idle" THEN "stopping"
             ELSE IF IsRunning THEN "running" ELSE "stopped"
  /\ Busy <=> wpc[o] \in {"handling", "reporting"}

LEMMA MappingOfOwner ==
  ASSUME NEW o \in Owners
  PROVE  PromisedTo(o) => Mapped(o)
<1> SUFFICES ASSUME PromisedTo(o) PROVE Mapped(o)
  OBVIOUS
<1>1. Promised
  BY DEF PromisedTo, Promised, Serial
<1>2. \A p \in Owners : pc[p] \in StartSteps \/ p \in failing => p = o
  BY DEF PromisedTo, OwnerInv, OthersStayOut, StartSteps
<1>3. OwnersIdle <=> pc[o] = "idle"
  BY DEF PromisedTo, OwnerInv, OthersStayOut, OwnersIdle
<1>4. Busy <=> wpc[o] \in {"handling", "reporting"}
  BY <1>1 DEF PromisedTo, OwnerInv, OthersStayOut, Busy
<1>5. QED
  BY <1>1, <1>2, <1>3, <1>4 DEF Phase, Mapped

(* The promise lasts, and so does the mapping.                             *)
LEMMA PromiseLasts ==
  ASSUME NEW o \in Owners, PromisedTo(o), [Next]_vars
  PROVE  Mapped(o) /\ Mapped(o)' /\ OwnerInv(o)'
<1>1. IInv'
  BY InvariantIsInductive DEF PromisedTo
<1>2. app' = app
  BY ApplicationStays
<1>3. ~terminated' /\ OwnerInv(o)'
  BY StepOfDrivenNode DEF PromisedTo, IInv
<1>4. PromisedTo(o)'
  BY <1>1, <1>2, <1>3 DEF PromisedTo, DrivenBy
<1>5. Mapped(o)
  BY MappingOfOwner
<1>6. (PromisedTo(o) => Mapped(o))'
  BY MappingOfOwner, PTL
<1>7. QED
  BY <1>3, <1>4, <1>5, <1>6

(* What one step of the owner does to the phase.                           *)
PhaseStep ==
  \/ Phase' = Phase
  \/ Phase = "stopped" /\ Phase' = "starting"
  \/ Phase = "starting" /\ Phase' = "running"
  \/ Phase = "starting" /\ Phase' = "stopped" /\ ~Busy
  \/ Phase \in {"stopped", "running"} /\ Phase' = "stopping"
  \/ Phase = "stopping" /\ Phase' = "stopped" /\ ~Busy

(* A step of the owner leaves the callbacks alone.                         *)
LEMMA OwnerLeavesCallbacks ==
  ASSUME NEW o \in Owners, PromisedTo(o), OwnerStep(o) \/ CallBegins(o)
  PROVE  wpc'[o] \in {"handling", "reporting"} <=>
         wpc[o] \in {"handling", "reporting"}
<1> USE DEF Goes, Ends, At, threads, PromisedTo, IInv, TypeOK
<1>1. CASE wpc' = wpc
  BY <1>1
<1>2. CASE Launch(o)
  BY <1>2 DEF Launch, LaunchWith, OwnerInv, HandleNamesThread, Opening, IsRunning
<1>3. CASE JoinReturns(o)
  BY <1>3 DEF JoinReturns, Forget, OwnerInv, HandleNamesThread, IsRunning
<1>4. QED
  BY <1>1, <1>2, <1>3
     DEF OwnerStep, CallBegins, StartStep, StopStep, StartCheck, StopCall,
         SetWorkerConfig, OpenBroadcast, OpenRequest, OpenChannel, OpenFailed,
         AssignWorker, AwaitReady, StopCheck, StopClose, JoinEnter

LEMMA OwnerMovesPhase ==
  ASSUME NEW o \in Owners, PromisedTo(o), Mapped(o), Mapped(o)',
         OwnerStep(o) \/ CallBegins(o)
  PROVE  PhaseStep
<1>1. TypeOK /\ OwnerInv(o) /\ o # NoThread
  BY NodeCoreAssumption DEF IInv, PromisedTo
<1> USE <1>1 DEF Mapped, PhaseStep, TypeOK, OwnerInv, HandleNamesThread,
        PromiseAgrees, ThreadFollowsOwner, FailingStart, Opening, At, Goto, Goes,
        Ends, IsRunning, calls, handle, threads, StartSteps, StopSteps
<1>2. CASE StartCheck(o)
  BY <1>2 DEF StartCheck
<1>3. CASE StopCall(o)
  BY <1>3 DEF StopCall
<1>4. CASE \E s \in BOOLEAN : SetWorkerConfig(o, s)
  BY <1>4 DEF SetWorkerConfig
<1>5. CASE OpenBroadcast(o)
  BY <1>5 DEF OpenBroadcast, OpenChannel
<1>6. CASE OpenRequest(o)
  BY <1>6 DEF OpenRequest, OpenChannel
<1>7. CASE OpenFailed(o)
  BY <1>7 DEF OpenFailed
<1>8. CASE Launch(o)
  BY <1>8 DEF Launch, LaunchWith
<1>9. CASE AssignWorker(o)
  BY <1>9 DEF AssignWorker
<1>10. CASE AwaitReady(o)
  BY <1>10 DEF AwaitReady
<1>11. CASE StopCheck(o)
  BY <1>11 DEF StopCheck
<1>12. CASE StopClose(o)
  BY <1>12 DEF StopClose
<1>13. CASE JoinEnter(o)
  BY <1>13 DEF JoinEnter
<1>14. CASE JoinReturns(o)
  BY <1>14 DEF JoinReturns, Forget
<1>15. QED
  BY <1>2, <1>3, <1>4, <1>5, <1>6, <1>7, <1>8, <1>9, <1>10, <1>11, <1>12,
     <1>13, <1>14 DEF OwnerStep, CallBegins, StartStep, StopStep

LEMMA OwnerStepsRefine ==
  ASSUME NEW o \in Owners, PromisedTo(o), Mapped(o), Mapped(o)',
         OwnerStep(o) \/ CallBegins(o)
  PROVE  [Lifecycle!Next]_<<Phase, Busy>>
<1>1. Busy' = Busy
  BY OwnerLeavesCallbacks DEF Mapped, Busy
<1>2. QED
  BY <1>1, OwnerMovesPhase
     DEF PhaseStep, Lifecycle!Next, Lifecycle!BeginStart, Lifecycle!Started,
         Lifecycle!StartThrows, Lifecycle!BeginStop, Lifecycle!Stopped

(* A step of the worker leaves the phase alone, and begins a callback only *)
(* inside a session.                                                       *)
LEMMA WorkerStepsRefine ==
  ASSUME NEW o \in Owners, PromisedTo(o), Mapped(o), Mapped(o)', WorkerStep(o)
  PROVE  [Lifecycle!Next]_<<Phase, Busy>>
<1>1. TypeOK /\ OwnerInv(o)
  BY DEF IInv, PromisedTo
<1>2. Phase' = Phase
  <2>1. UNCHANGED <<pc, failing, worker>>
    BY WorkerMoves
       DEF Configure, ConfigureWith, Moves, WorkerGoes, calls, handle
  <2>2. QED
    BY <2>1 DEF Mapped, IsRunning
<1>3. Phase # "stopped"
  <2>1. wpc[o] # "absent"
    BY WorkerMoves DEF Configure, ConfigureWith, Moves, WorkerGoes, LoopSteps
  <2>2. QED
    BY <1>1, <2>1
       DEF Mapped, OwnerInv, HandleNamesThread, StartSteps, StopSteps, TypeOK,
           IsRunning
<1>4. Busy \in BOOLEAN /\ Busy' \in BOOLEAN
  BY DEF Busy
<1>5. QED
  BY <1>2, <1>3, <1>4
     DEF Lifecycle!Next, Lifecycle!CallbackBegins, Lifecycle!CallbackEnds

(* The node keeps the safety part of the abstract specification: callbacks *)
(* run one at a time, none before Start is called, in a Start that throws  *)
(* or after Stop has returned.                                             *)
THEOREM KeepsLifecycleSafety ==
  Spec => Lifecycle!Init /\ [][Lifecycle!Next]_<<Phase, Busy>>
<1>1. Init => Lifecycle!Init
  BY DEF Init, Lifecycle!Init, Phase, Busy, OwnersIdle, IsRunning, StartSteps
<1>2. IInv /\ [Next]_vars => [Lifecycle!Next]_<<Phase, Busy>>
  <2> SUFFICES ASSUME IInv, [Next]_vars
               PROVE  [Lifecycle!Next]_<<Phase, Busy>>
    OBVIOUS
  <2>1. CASE ~Promised
    BY <2>1, ApplicationStays DEF Promised, Serial, DrivenBy, Phase, Busy
  <2>2. CASE Promised
    <3>1. PICK o \in Owners : PromisedTo(o)
      BY <2>2, PromisedIsToItsOwner
    <3>2. Mapped(o) /\ Mapped(o)'
      BY <3>1, PromiseLasts
    <3>3. CASE OwnerStep(o) \/ CallBegins(o)
      BY <3>1, <3>2, <3>3, OwnerStepsRefine
    <3>4. CASE WorkerStep(o)
      BY <3>1, <3>2, <3>4, WorkerStepsRefine
    <3>5. CASE UNCHANGED <<pc, failing, worker, wpc>>
      BY <3>2, <3>5 DEF Mapped, Busy, IsRunning
    <3>6. QED
      BY <3>1, <3>3, <3>4, <3>5, OthersTakeNoStep
         DEF Next, PromisedTo, OwnerInv, SetHandler, calls, handle, threads, vars,
             session, HandlerStops
  <2>3. QED
    BY <2>1, <2>2
<1>3. QED
  BY <1>1, <1>2, InvariantHolds, PTL DEF Spec
=============================================================================
