---------------------------- MODULE PythonBinding ----------------------------
(***************************************************************************)
(* A dds.Server in a Python program (src/python/dds_abstract_pybind.cpp):  *)
(* the interpreter's lock (GIL) around the node core and the core's        *)
(* callback_mutex_.  Owner starts, stops and destroys the node; every      *)
(* thread registers handlers and makes requests, through a dds.Client of   *)
(* the same process, that the node's worker answers in Python.             *)
(*                                                                         *)
(* A position of `pc' or `wpc' names what a thread does or waits for;      *)
(* NodeCore has the steps of Start and Stop in full.  The node is running  *)
(* while its worker is not "absent".                                       *)
(***************************************************************************)
CONSTANTS
  Threads,    \* Python threads
  Owner,      \* the one that drives the node's lifecycle
  Callbacks,  \* Python functions that are registered as request handler
  Worker,     \* the node's worker thread
  None        \* no thread, no function

ASSUME PythonBindingAssumption ==
  /\ Owner \in Threads
  /\ Worker \notin Threads
  /\ None \notin Threads \cup Callbacks \cup {Worker}

VARIABLES
  gil,            \* the thread that holds the GIL
  mutex,          \* the Python thread that holds callback_mutex_
  pc,             \* where each Python thread is
  wpc,            \* where the worker is
  alive,          \* the node object exists
  stopRequested,  \* stop_requested_
  handler,        \* request_handler_
  copy,           \* the copy of it that Dispatch made
  request,        \* what became of the request of each thread
  inHand          \* whose request the worker holds

vars == <<gil, mutex, pc, wpc, alive, stopRequested, handler, copy,
          request, inHand>>
functions == <<handler, copy>>
requests == <<request, inHand>>

IsRunning == wpc # "absent"

Init ==
  /\ gil = None
  /\ mutex = None
  /\ pc = [t \in Threads |-> "outside"]
  /\ wpc = "absent"
  /\ alive = TRUE
  /\ stopRequested = FALSE
  /\ handler = None
  /\ copy = None
  /\ request = [t \in Threads |-> "none"]
  /\ inHand = None

Moves(t, from, to) == pc[t] = from /\ pc' = [pc EXCEPT ![t] = to]
WorkerMoves(from, to) == wpc = from /\ wpc' = to
Take(x) == gil = None /\ gil' = x
Release(x) == gil = x /\ gil' = None
Keep(x) == gil = x /\ gil' = x

-----------------------------------------------------------------------------
(* Python threads.  Between calls the interpreter hands the GIL around.    *)
Enter(t) ==
  /\ Moves(t, "outside", "python") /\ Take(t)
  /\ UNCHANGED <<mutex, wpc, alive, stopRequested, functions, requests>>

Yield(t) ==
  /\ Moves(t, "python", "outside") /\ Release(t)
  /\ UNCHANGED <<mutex, wpc, alive, stopRequested, functions, requests>>

Construct ==
  /\ Moves(Owner, "python", "python")
  /\ ~alive /\ alive' = TRUE
  /\ UNCHANGED <<gil, mutex, wpc, stopRequested, functions, requests>>

(* start() keeps the GIL while it waits for the worker's promise.          *)
Start ==
  /\ alive /\ ~IsRunning
  /\ Moves(Owner, "python", "starting")
  /\ wpc' = "configuring"
  /\ stopRequested' = FALSE
  /\ UNCHANGED <<gil, mutex, alive, functions, requests>>

(* The promise holds a value, or an exception: then Stop joins the thread. *)
StartEnds ==
  /\ Moves(Owner, "starting", "python")
  /\ wpc # "configuring"
  /\ wpc' = IF wpc = "exited" THEN "absent" ELSE wpc
  /\ UNCHANGED <<gil, mutex, alive, stopRequested, functions, requests>>

(* Stop of the core up to its join, for stop() and for the destructor.     *)
StopWith(then, Gil(_)) ==
  /\ alive
  /\ Moves(Owner, "python", then) /\ Gil(Owner)
  /\ stopRequested' = (stopRequested \/ IsRunning)
  /\ UNCHANGED <<mutex, wpc, alive, functions, requests>>

(* A slip: no call_guard, stop() keeps the GIL.                            *)
StopKeepsGil == StopWith("joining", Keep)

(* stop() runs with the GIL released, and takes it again to return.        *)
Stop == StopWith("joining", Release)

Join ==
  /\ Moves(Owner, "joining", "resuming")
  /\ wpc \in {"absent", "exited"} /\ wpc' = "absent"
  /\ UNCHANGED <<gil, mutex, alive, stopRequested, functions, requests>>

Resume(t) ==
  /\ Moves(t, "resuming", "python") /\ Take(t)
  /\ UNCHANGED <<mutex, wpc, alive, stopRequested, functions, requests>>

InRegistration(t) == pc[t] \in {"registering", "swapped", "freeing", "finalising"}

NoneInRegistration == \A t \in Threads : ~InRegistration(t)

(* A slip: the deallocator releases the GIL, the handlers go without it.   *)
DeleteReleasingGil == NoneInRegistration /\ StopWith("deleting", Release)

(* The last reference goes away, so no thread is inside a method; the      *)
(* deallocator of py::class_ runs the destructor with the GIL held.        *)
Delete == NoneInRegistration /\ StopWith("deleting", Keep)

(* ~DdsNodeCore has joined; its members, the handlers too, are destroyed.  *)
Deleted ==
  /\ Moves(Owner, "deleting", "python")
  /\ wpc \in {"absent", "exited"} /\ wpc' = "absent"
  /\ alive' = FALSE
  /\ handler' = None
  /\ UNCHANGED <<gil, mutex, stopRequested, copy, requests>>

-----------------------------------------------------------------------------
(* on_request(): OnRequest takes callback_mutex_ with the GIL held.        *)
Register(t) ==
  /\ alive
  /\ Moves(t, "python", "registering")
  /\ UNCHANGED <<gil, mutex, wpc, alive, stopRequested, functions, requests>>

(* The assignment drops the reference to the function registered before.   *)
(* When that was the last one, its finaliser runs Python code.             *)
Swap(t) ==
  /\ Moves(t, "registering",
           IF handler \in {None, copy} THEN "swapped" ELSE "freeing")
  /\ mutex = None /\ mutex' = t
  /\ handler' \in Callbacks \ {handler, copy}
  /\ UNCHANGED <<gil, wpc, alive, stopRequested, copy, requests>>

FinaliserYields(t) ==
  /\ Moves(t, "freeing", "finalising") /\ Release(t)
  /\ UNCHANGED <<mutex, wpc, alive, stopRequested, functions, requests>>

FinaliserResumes(t) ==
  /\ Moves(t, "finalising", "swapped") /\ Take(t)
  /\ UNCHANGED <<mutex, wpc, alive, stopRequested, functions, requests>>

Registered(t) ==
  /\ Moves(t, "swapped", "python") \/ Moves(t, "freeing", "python")
  /\ mutex' = None
  /\ UNCHANGED <<gil, wpc, alive, stopRequested, functions, requests>>

-----------------------------------------------------------------------------
RequestWith(t, Gil(_)) ==
  /\ Moves(t, "python", "requesting") /\ Gil(t)
  /\ request' = [request EXCEPT ![t] = "sent"]
  /\ UNCHANGED <<mutex, wpc, alive, stopRequested, functions, inHand>>

(* A slip: no gil_scoped_release around the blocking call.                 *)
RequestKeepsGil(t) == RequestWith(t, Keep)

(* request(), to this node: without the GIL until the answer or a timeout. *)
Request(t) == RequestWith(t, Release)

RequestEnds(t) ==
  /\ Moves(t, "requesting", "resuming")
  /\ request' = [request EXCEPT ![t] = "none"]
  /\ UNCHANGED <<gil, mutex, wpc, alive, stopRequested, functions, inHand>>

Answered(t) == request[t] = "answered" /\ RequestEnds(t)
TimeOut(t) == request[t] # "answered" /\ RequestEnds(t)

-----------------------------------------------------------------------------
(* The worker.                                                             *)
ConfigureWhen(ready) ==
  /\ ready
  /\ WorkerMoves("configuring", "loop") \/ WorkerMoves("configuring", "exited")
  /\ UNCHANGED <<gil, mutex, pc, alive, stopRequested, functions, requests>>

(* A slip: the new thread takes the GIL before it keeps the promise.       *)
ConfigureTakesGil == ConfigureWhen(gil = None)

(* The thread sets the promise; a refused configuration ends it.           *)
Configure == ConfigureWhen(TRUE)

LoopExit ==
  /\ stopRequested
  /\ WorkerMoves("loop", "exited")
  /\ UNCHANGED <<gil, mutex, pc, alive, stopRequested, functions, requests>>

Receive(t) ==
  /\ ~stopRequested
  /\ WorkerMoves("loop", "dispatching")
  /\ request[t] = "sent" /\ request' = [request EXCEPT ![t] = "taken"]
  /\ inHand' = t
  /\ UNCHANGED <<gil, mutex, pc, alive, stopRequested, functions>>

DispatchLeaving(holder) ==
  /\ mutex = None /\ mutex' = holder
  /\ copy' = handler
  /\ WorkerMoves("dispatching", IF handler = None THEN "replying" ELSE "entering")
  /\ UNCHANGED <<gil, pc, alive, stopRequested, handler, requests>>

(* A slip: callback_mutex_ is not released before the handler is called.   *)
DispatchKeepsMutex == DispatchLeaving(Worker)

(* Dispatch copies the handler under callback_mutex_, without the GIL.     *)
Dispatch == DispatchLeaving(None)

(* gil_scoped_acquire: for the handler, and for the error handler and the  *)
(* destruction of the error_already_set that it is told of.                *)
Acquire ==
  /\ WorkerMoves("entering", "handling") \/ WorkerMoves("unwinding", "reporting")
  /\ Take(Worker)
  /\ UNCHANGED <<mutex, pc, alive, stopRequested, functions, requests>>

HandlerReturns ==
  /\ WorkerMoves("handling", "replying") /\ Release(Worker)
  /\ UNCHANGED <<mutex, pc, alive, stopRequested, functions, requests>>

(* Or it raises, or what it returns is not bytes: no Reply.  Dispatch is   *)
(* left, and its copy goes away, after the GIL was released.               *)
HandlerThrows ==
  /\ WorkerMoves("handling", "unwinding") /\ Release(Worker)
  /\ request' = [request EXCEPT ![inHand] = IF @ = "taken" THEN "lost" ELSE @]
  /\ inHand' = None
  /\ copy' = None
  /\ UNCHANGED <<mutex, pc, alive, stopRequested, handler>>

Reply ==
  /\ WorkerMoves("replying", "loop")
  /\ request' = [request EXCEPT ![inHand] = IF @ = "taken" THEN "answered" ELSE @]
  /\ inHand' = None
  /\ copy' = None
  /\ UNCHANGED <<gil, mutex, pc, alive, stopRequested, handler>>

Reported ==
  /\ WorkerMoves("reporting", "loop") /\ Release(Worker)
  /\ UNCHANGED <<mutex, pc, alive, stopRequested, functions, requests>>

-----------------------------------------------------------------------------
CallEnds(t) == Swap(t) \/ Registered(t) \/ Answered(t)
OwnerStep == StartEnds \/ Join \/ Deleted
WorkerStep == Configure \/ LoopExit \/ HandlerReturns \/ HandlerThrows
                \/ Reply \/ Reported

Next ==
  \/ Construct \/ Start \/ Stop \/ Delete \/ OwnerStep
  \/ WorkerStep \/ Dispatch \/ Acquire
  \/ \E t \in Threads :
       \/ Enter(t) \/ Yield(t) \/ Resume(t) \/ CallEnds(t)
       \/ Register(t) \/ FinaliserYields(t) \/ FinaliserResumes(t)
       \/ Request(t) \/ TimeOut(t) \/ Receive(t)

(* Threads that can run do run.  The interpreter's switch interval makes a *)
(* thread that runs Python code give the GIL up time and again, and one    *)
(* that asks for the GIL, or for callback_mutex_, gets it in the end.  The  *)
(* transports do not pass over a request for ever.                         *)
Fairness ==
  /\ WF_vars(OwnerStep)
  /\ WF_vars(WorkerStep)
  /\ SF_vars(Dispatch \/ Acquire)
  /\ \A t \in Threads :
       /\ WF_vars(CallEnds(t))
       /\ SF_vars(Receive(t))
       /\ SF_vars(Yield(t) \/ Resume(t) \/ FinaliserResumes(t))

Spec == Init /\ [][Next]_vars /\ Fairness

-----------------------------------------------------------------------------
(* The values the locks, the threads and the members can have.             *)
TypeOK ==
  /\ gil \in Threads \cup {Worker, None}
  /\ mutex \in Threads \cup {None}
  /\ pc \in [Threads -> {"outside", "python", "starting", "joining", "resuming",
                         "deleting", "registering", "swapped", "freeing",
                         "finalising", "requesting"}]
  /\ wpc \in {"absent", "configuring", "loop", "dispatching", "entering",
              "handling", "unwinding", "reporting", "replying", "exited"}
  /\ alive \in BOOLEAN /\ stopRequested \in BOOLEAN
  /\ handler \in Callbacks \cup {None} /\ copy \in Callbacks \cup {None}
  /\ request \in [Threads -> {"none", "sent", "taken", "answered", "lost"}]
  /\ inHand \in Threads \cup {None}

(* The destructor joins a worker that waits for the GIL it holds.          *)
DeleteCycle == pc[Owner] = "deleting" /\ wpc \in {"entering", "unwinding"}

(* A registration waits, with the GIL, for callback_mutex_, whose holder   *)
(* waits, in the finaliser of the function it replaced, for the GIL.       *)
MutexCycle ==
  \E t \in Threads :
    /\ gil = t /\ pc[t] = "registering"
    /\ mutex \in Threads /\ pc[mutex] = "finalising"

Stuck == DeleteCycle \/ MutexCycle

(* The thread that x waits for without a time limit, or None: the worker,  *)
(* or the holder of callback_mutex_ or of the GIL.                         *)
WaitsFor(x) ==
  CASE x \in Threads /\ pc[x] = "starting" /\ wpc = "configuring" -> Worker
    [] x \in Threads /\ pc[x] \in {"joining", "deleting"} /\ wpc \notin {"absent", "exited"} ->
         Worker
    [] x \in Threads /\ pc[x] = "registering" -> mutex
    [] x \in Threads /\ pc[x] \in {"outside", "resuming", "finalising"} -> gil
    [] x = Worker /\ wpc = "dispatching" -> mutex
    [] x = Worker /\ wpc \in {"entering", "unwinding"} -> gil
    [] OTHER -> None

(* The two cycles are the only ones: who waits for a thread that waits for *)
(* a thread, and so on, finds after four of them one that can go on.       *)
EveryWaitEnds ==
  ~Stuck =>
    \A x \in Threads \cup {Worker} :
      WaitsFor(WaitsFor(WaitsFor(WaitsFor(x)))) = None

(* start() returns or throws: the worker needs no GIL to keep its promise. *)
StartReturns == pc[Owner] = "starting" ~> pc[Owner] = "python"

(* stop() returns, with the GIL, or one of the two cycles stops the        *)
(* program: callbacks and their exceptions that wait for the GIL get it.   *)
StopReturnsOrStuck == pc[Owner] = "joining" ~> pc[Owner] = "python" \/ Stuck

(* on_request() returns at any time, also while a handler runs: the worker *)
(* does not hold callback_mutex_ when it waits for the GIL.                *)
RegistrationReturnsOrStuck ==
  \A t \in Threads : pc[t] = "registering" ~> ~InRegistration(t) \/ Stuck

(* A request() of a Python thread to a Python server in the same process   *)
(* is answered without waiting for its timeout, unless the server is       *)
(* stopped or its handler raises.                                          *)
RequestAnswered ==
  \A t \in Threads :
    pc[t] = "requesting" ~>
      \/ pc[t] # "requesting" \/ request[t] = "lost"
      \/ ~IsRunning \/ stopRequested \/ Stuck

(* The last reference to a Python function is dropped by a thread with the *)
(* GIL, but for a handler that was replaced while the worker was using it. *)
DropsUnderGil ==
  [][{handler, copy} \ {None, handler', copy'} # {} =>
       gil \in Threads \/ copy \notin {None, handler}]_functions

(* Destroying a node returns.                                              *)
DeleteReturns == pc[Owner] = "deleting" ~> pc[Owner] = "python"
=============================================================================
