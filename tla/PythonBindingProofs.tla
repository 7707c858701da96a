------------------------ MODULE PythonBindingProofs ------------------------
(***************************************************************************)
(* Proofs about PythonBinding, for any Python threads and functions: who   *)
(* runs Python code, or is in a call that keeps the GIL, holds it, who is  *)
(* past the exchange of a handler holds callback_mutex_, and so the two    *)
(* cycles of Stuck are the only ways to wait in a circle.                  *)
(***************************************************************************)
EXTENDS PythonBinding, TLAPS

(* Where a Python thread, and the worker, have the GIL.                    *)
WithGil == {"python", "starting", "deleting", "registering", "swapped", "freeing"}
WorkerWithGil == {"handling", "reporting"}

(* Nobody is where the GIL is needed without it, or elsewhere with it.     *)
GilHeld ==
  /\ \A t \in Threads : pc[t] \in WithGil <=> gil = t
  /\ wpc \in WorkerWithGil <=> gil = Worker

(* The same of callback_mutex_, which the worker holds in no state.        *)
WithMutex == {"swapped", "freeing", "finalising"}
MutexHeld == \A t \in Threads : pc[t] \in WithMutex <=> mutex = t

(* Only Owner drives the lifecycle, and it destroys no node in use.        *)
OwnerDrives ==
  /\ \A t \in Threads : pc[t] \in {"starting", "joining", "deleting"} => t = Owner
  /\ pc[Owner] = "deleting" => NoneInRegistration

IInv == TypeOK /\ GilHeld /\ MutexHeld /\ OwnerDrives

LEMMA InitIInv ==
  ASSUME Init
  PROVE  IInv
BY PythonBindingAssumption
   DEF Init, IInv, TypeOK, GilHeld, WithGil, WorkerWithGil, MutexHeld, WithMutex, OwnerDrives

-----------------------------------------------------------------------------
(* A step of a Python thread: it takes, keeps, releases or does without    *)
(* the GIL, and the worker stays outside Python code.                      *)
ThreadMoves(t, to) ==
  /\ pc' = [pc EXCEPT ![t] = to]
  /\ \/ gil \in {t, None} /\ gil' = t /\ to \in WithGil
     \/ gil = t /\ gil' = None /\ to \notin WithGil
     \/ gil' = gil /\ pc[t] \notin WithGil /\ to \notin WithGil
  /\ wpc' = wpc \/ {wpc, wpc'} \cap WorkerWithGil = {}

LEMMA ThreadKeepsGil ==
  ASSUME IInv, NEW t \in Threads, NEW to, ThreadMoves(t, to)
  PROVE  GilHeld'
<1>1. /\ pc = [u \in Threads |-> pc[u]] /\ t # None /\ t # Worker /\ Worker # None
      /\ None \notin Threads /\ Worker \notin Threads
  BY PythonBindingAssumption DEF IInv, TypeOK
<1>2. ASSUME NEW u \in Threads PROVE pc'[u] \in WithGil <=> gil' = u
  <2>1. CASE u = t
    BY <1>1, <2>1 DEF ThreadMoves, IInv, GilHeld
  <2>2. CASE u # t
    <3>1. pc'[u] = pc[u] /\ (pc[u] \in WithGil <=> gil = u)
      BY <1>1, <2>2 DEF ThreadMoves, IInv, GilHeld
    <3>2. QED
      BY <1>1, <2>2, <3>1 DEF ThreadMoves
  <2>3. QED
    BY <2>1, <2>2
<1>3. wpc' \in WorkerWithGil <=> gil' = Worker
  BY <1>1 DEF ThreadMoves, IInv, GilHeld
<1>4. QED
  BY <1>2, <1>3 DEF GilHeld

(* Start, stop and destruction.                                            *)
LEMMA OwnerKeepsIInv ==
  ASSUME IInv, Construct \/ Start \/ Stop \/ Delete \/ OwnerStep
  PROVE  IInv'
<1> USE PythonBindingAssumption
        DEF Construct, Start, Stop, Delete, OwnerStep, StartEnds, Join, Deleted, StopWith,
            Keep, Release, Moves, functions, requests
<1>1. TypeOK'
  BY DEF IInv, TypeOK
<1>2. \E to : ThreadMoves(Owner, to)
  BY DEF ThreadMoves, WithGil, WorkerWithGil, IInv, TypeOK, GilHeld
<1>3. MutexHeld' /\ OwnerDrives'
  BY DEF IInv, TypeOK, MutexHeld, WithMutex, OwnerDrives, NoneInRegistration, InRegistration
<1>4. QED
  BY <1>1, <1>2, <1>3, ThreadKeepsGil DEF IInv

(* Calls of any Python thread.                                             *)
LEMMA CallsKeepIInv ==
  ASSUME IInv, NEW t \in Threads,
         \/ Enter(t) \/ Yield(t) \/ Resume(t) \/ CallEnds(t)
         \/ Register(t) \/ FinaliserYields(t) \/ FinaliserResumes(t)
         \/ Request(t) \/ TimeOut(t)
  PROVE  IInv'
<1> USE PythonBindingAssumption
        DEF Enter, Yield, Resume, Register, FinaliserYields, FinaliserResumes, CallEnds,
            Swap, Registered, Answered, TimeOut, RequestEnds, Request, RequestWith,
            Take, Release, Moves, functions, requests
<1>1. TypeOK'
  <2>1. CASE Enter(t) \/ Yield(t) \/ Resume(t) \/ Register(t) \/ FinaliserYields(t)
               \/ FinaliserResumes(t)
    BY <2>1 DEF IInv, TypeOK
  <2>2. CASE CallEnds(t) \/ Request(t) \/ TimeOut(t)
    BY <2>2 DEF IInv, TypeOK
  <2>3. QED
    BY <2>1, <2>2
<1>2. \E to : ThreadMoves(t, to)
  BY DEF ThreadMoves, WithGil, IInv, GilHeld
<1>3. MutexHeld'
  BY DEF IInv, TypeOK, MutexHeld, WithMutex
<1>4. OwnerDrives'
  <2>1. \A u \in Threads : pc'[u] \in {"starting", "joining", "deleting"} => pc'[u] = pc[u]
    BY DEF IInv, TypeOK
  <2>2. InRegistration(t)' => InRegistration(t) \/ pc[t] = "python"
    BY DEF IInv, TypeOK, InRegistration
  <2>3. pc[Owner] = "deleting" => pc[t] # "python"
    BY DEF IInv, GilHeld, WithGil
  <2>4. \A u \in Threads \ {t} : InRegistration(u)' <=> InRegistration(u)
    BY DEF IInv, TypeOK, InRegistration
  <2>5. QED
    BY <2>1, <2>2, <2>3, <2>4 DEF IInv, OwnerDrives, NoneInRegistration
<1>5. QED
  BY <1>1, <1>2, <1>3, <1>4, ThreadKeepsGil DEF IInv

LEMMA WorkerKeepsIInv ==
  ASSUME IInv, WorkerStep \/ Dispatch \/ Acquire \/ \E t \in Threads : Receive(t)
  PROVE  IInv'
<1> USE PythonBindingAssumption
        DEF WorkerStep, Configure, ConfigureWhen, LoopExit, HandlerReturns, HandlerThrows,
            Reply, Reported, Dispatch, DispatchLeaving, Acquire, Receive, WorkerMoves, Take,
            Release, functions, requests
<1>1. TypeOK'
  <2>1. CASE WorkerStep
    BY <2>1 DEF IInv, TypeOK
  <2>2. CASE Dispatch \/ Acquire \/ \E t \in Threads : Receive(t)
    BY <2>2 DEF IInv, TypeOK
  <2>3. QED
    BY <2>1, <2>2
<1>2. GilHeld'
  <2>1. CASE WorkerStep
    BY <2>1 DEF IInv, TypeOK, GilHeld, WithGil, WorkerWithGil
  <2>2. CASE Dispatch \/ Acquire \/ \E t \in Threads : Receive(t)
    BY <2>2 DEF IInv, TypeOK, GilHeld, WithGil, WorkerWithGil
  <2>3. QED
    BY <2>1, <2>2
<1>3. MutexHeld' /\ OwnerDrives'
  <2>1. pc' = pc /\ mutex' = mutex
    OBVIOUS
  <2>2. QED
    BY <2>1 DEF IInv, MutexHeld, OwnerDrives, NoneInRegistration, InRegistration
<1>4. QED
  BY <1>1, <1>2, <1>3 DEF IInv

LEMMA IInvHolds == Init /\ [][Next]_vars => []IInv
<1>1. IInv /\ UNCHANGED vars => IInv'
  BY DEF IInv, TypeOK, GilHeld, MutexHeld, OwnerDrives, NoneInRegistration, InRegistration,
     vars
<1>2. IInv /\ [Next]_vars => IInv'
  BY <1>1, OwnerKeepsIInv, CallsKeepIInv, WorkerKeepsIInv DEF Next
<1>3. QED
  BY InitIInv, <1>2, PTL

-----------------------------------------------------------------------------
(* The values of the locks, the threads and the members, for any number of *)
(* Python threads.                                                         *)
THEOREM TypeCorrect == Spec => []TypeOK
<1>1. IInv => TypeOK
  BY DEF IInv
<1>2. QED
  BY <1>1, IInvHolds, PTL DEF Spec

(* The function that on_request() replaces, and those that the destructor  *)
(* drops, are dropped by a thread that holds the GIL; only the worker's    *)
(* own copy may go without, when it was replaced while in use.             *)
THEOREM FunctionsDropUnderGil == Spec => DropsUnderGil
<1> DEFINE A == {handler, copy} \ {None, handler', copy'} # {} =>
                  gil \in Threads \/ copy \notin {None, handler}
<1>1. ASSUME IInv, [Next]_vars PROVE [A]_functions
  <2> SUFFICES ASSUME {handler, copy} \ {None, handler', copy'} # {},
                      gil \notin Threads, copy \in {None, handler}
               PROVE  FALSE
    BY DEF functions
  <2>1. handler # None /\ handler' # handler
    OBVIOUS
  <2>2. Deleted \/ \E t \in Threads : Swap(t)
    BY <1>1, <2>1 DEF Next, vars, functions, requests, Construct, Start, Stop, Delete, StopWith,
       OwnerStep, StartEnds, Join, WorkerStep, Configure, ConfigureWhen, LoopExit,
       HandlerReturns, HandlerThrows, Reply, Reported, Dispatch, DispatchLeaving, Acquire,
       Enter, Yield, Resume, CallEnds, Registered, Answered, TimeOut, RequestEnds, Register,
       FinaliserYields, FinaliserResumes, Request, RequestWith, Receive
  <2>3. \E t \in Threads : pc[t] \in {"deleting", "registering"}
    BY <2>2, PythonBindingAssumption DEF Deleted, Swap, Moves
  <2>4. QED
    BY <1>1, <2>3 DEF IInv, GilHeld, WithGil
<1>2. QED
  BY <1>1, IInvHolds, PTL DEF Spec, DropsUnderGil

-----------------------------------------------------------------------------
(* Chains of threads that wait.                                            *)

(* What a thread waits for, by where it is.                                *)
LEMMA WaitsOfThread ==
  ASSUME TypeOK, NEW t \in Threads
  PROVE  /\ pc[t] = "starting" =>
              WaitsFor(t) = IF wpc = "configuring" THEN Worker ELSE None
         /\ pc[t] \in {"joining", "deleting"} =>
              WaitsFor(t) = IF wpc \in {"absent", "exited"} THEN None ELSE Worker
         /\ pc[t] = "registering" => WaitsFor(t) = mutex
         /\ pc[t] \in {"outside", "resuming", "finalising"} => WaitsFor(t) = gil
         /\ pc[t] \in {"python", "swapped", "freeing", "requesting"} =>
              WaitsFor(t) = None
BY PythonBindingAssumption DEF WaitsFor

LEMMA WaitsOfWorker ==
  WaitsFor(Worker) = CASE wpc = "dispatching" -> mutex
                       [] wpc \in {"entering", "unwinding"} -> gil
                       [] OTHER -> None
BY PythonBindingAssumption DEF WaitsFor

LEMMA NobodyWaits == WaitsFor(None) = None
BY PythonBindingAssumption DEF WaitsFor

(* The holder of the GIL waits, if at all, for one that can go on.         *)
LEMMA GilHolderWaits ==
  ASSUME IInv, ~Stuck
  PROVE  WaitsFor(WaitsFor(gil)) = None
<1>1. CASE gil = None
  BY <1>1, NobodyWaits
<1>2. CASE gil = Worker
  BY <1>2, WaitsOfWorker, NobodyWaits DEF IInv, GilHeld, WorkerWithGil
<1>3. CASE gil \in Threads
  <2>1. pc[gil] \in WithGil
    BY <1>3 DEF IInv, GilHeld
  <2>2. CASE pc[gil] = "starting"
    BY <1>3, <2>2, WaitsOfThread, WaitsOfWorker, NobodyWaits DEF IInv
  <2>3. CASE pc[gil] = "deleting"
    <3>1. mutex = None
      BY <1>3, <2>3
         DEF IInv, TypeOK, MutexHeld, WithMutex, OwnerDrives, NoneInRegistration,
             InRegistration
    <3>2. wpc \notin {"entering", "unwinding"}
      BY <1>3, <2>3 DEF Stuck, DeleteCycle, IInv, OwnerDrives
    <3>3. WaitsFor(Worker) = None
      BY <3>1, <3>2, WaitsOfWorker
    <3>4. QED
      BY <1>3, <2>3, <3>3, WaitsOfThread, NobodyWaits DEF IInv
  <2>4. CASE pc[gil] = "registering"
    <3>1. WaitsFor(gil) = mutex
      BY <1>3, <2>4, WaitsOfThread DEF IInv
    <3>2. mutex \in Threads => pc[mutex] \in {"swapped", "freeing"}
      BY <1>3, <2>4 DEF IInv, MutexHeld, WithMutex, Stuck, MutexCycle
    <3>3. QED
      BY <3>1, <3>2, WaitsOfThread, NobodyWaits DEF IInv, TypeOK
  <2>5. CASE pc[gil] \in {"python", "swapped", "freeing"}
    BY <1>3, <2>5, WaitsOfThread, NobodyWaits DEF IInv
  <2>6. QED
    BY <2>1, <2>2, <2>3, <2>4, <2>5 DEF WithGil
<1>4. QED
  BY <1>1, <1>2, <1>3 DEF IInv, TypeOK

(* The holder of callback_mutex_ waits at most for the GIL, and while      *)
(* Owner joins the worker, the GIL is then with one that can go on.        *)
LEMMA MutexHolderWaits ==
  ASSUME IInv, ~Stuck
  PROVE  /\ WaitsFor(mutex) \in {gil, None}
         /\ pc[Owner] \in {"joining", "deleting"} => WaitsFor(WaitsFor(mutex)) = None
<1>1. CASE mutex \notin Threads \/ pc[mutex] # "finalising"
  <2>1. WaitsFor(mutex) = None
    BY <1>1, WaitsOfThread, NobodyWaits DEF IInv, TypeOK, MutexHeld, WithMutex
  <2>2. QED
    BY <2>1, NobodyWaits
<1>2. CASE mutex \in Threads /\ pc[mutex] = "finalising"
  <2>1. WaitsFor(mutex) = gil
    BY <1>2, WaitsOfThread DEF IInv
  <2>2. ASSUME pc[Owner] \in {"joining", "deleting"} PROVE WaitsFor(gil) = None
    <3>1. CASE gil \in Threads
      <4>1. pc[gil] \in {"python", "swapped", "freeing"}
        BY <1>2, <2>2, <3>1
           DEF IInv, GilHeld, WithGil, OwnerDrives, NoneInRegistration, InRegistration,
               Stuck, MutexCycle
      <4>2. QED
        BY <3>1, <4>1, WaitsOfThread DEF IInv
    <3>2. CASE gil = Worker
      BY <3>2, WaitsOfWorker DEF IInv, GilHeld, WorkerWithGil
    <3>3. QED
      BY <3>1, <3>2, NobodyWaits DEF IInv, TypeOK
  <2>3. QED
    BY <2>1, <2>2
<1>3. QED
  BY <1>1, <1>2

(* So every chain ends, that of the worker one step earlier while Owner    *)
(* joins it.                                                               *)
LEMMA ChainOfWorkerEnds ==
  ASSUME IInv, ~Stuck
  PROVE  /\ WaitsFor(WaitsFor(WaitsFor(WaitsFor(Worker)))) = None
         /\ pc[Owner] \in {"joining", "deleting"} =>
              WaitsFor(WaitsFor(WaitsFor(Worker))) = None
<1>1. CASE wpc = "dispatching"
  BY <1>1, WaitsOfWorker, MutexHolderWaits, GilHolderWaits, NobodyWaits
<1>2. CASE wpc \in {"entering", "unwinding"}
  BY <1>2, WaitsOfWorker, GilHolderWaits, NobodyWaits
<1>3. CASE wpc \notin {"dispatching", "entering", "unwinding"}
  BY <1>3, WaitsOfWorker, NobodyWaits
<1>4. QED
  BY <1>1, <1>2, <1>3

LEMMA ChainOfThreadEnds ==
  ASSUME IInv, ~Stuck, NEW t \in Threads
  PROVE  WaitsFor(WaitsFor(WaitsFor(WaitsFor(t)))) = None
<1>1. CASE pc[t] = "starting"
  BY <1>1, WaitsOfThread, WaitsOfWorker, NobodyWaits DEF IInv
<1>2. CASE pc[t] \in {"joining", "deleting"}
  BY <1>2, WaitsOfThread, ChainOfWorkerEnds, NobodyWaits DEF IInv, OwnerDrives
<1>3. CASE pc[t] = "registering"
  <2>1. WaitsFor(t) = mutex
    BY <1>3, WaitsOfThread DEF IInv
  <2>2. QED
    BY <2>1, MutexHolderWaits, GilHolderWaits, NobodyWaits
<1>4. CASE pc[t] \in {"outside", "resuming", "finalising"}
  BY <1>4, WaitsOfThread, GilHolderWaits, NobodyWaits DEF IInv
<1>5. CASE pc[t] \in {"python", "swapped", "freeing", "requesting"}
  BY <1>5, WaitsOfThread, NobodyWaits DEF IInv
<1>6. QED
  BY <1>1, <1>2, <1>3, <1>4, <1>5 DEF IInv, TypeOK

(* With any number of Python threads, the destructor that joins a worker   *)
(* which waits for the GIL, and the registration that waits for a mutex    *)
(* whose holder waits for the GIL, are the only ways to wait in a circle.  *)
THEOREM OnlyTheTwoCyclesBlock == Spec => []EveryWaitEnds
<1>1. IInv => EveryWaitEnds
  BY ChainOfThreadEnds, ChainOfWorkerEnds DEF EveryWaitEnds
<1>2. QED
  BY <1>1, IInvHolds, PTL DEF Spec
=============================================================================
