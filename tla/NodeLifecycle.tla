--------------------------- MODULE NodeLifecycle ---------------------------
(***************************************************************************)
(* What DdsServer and DdsClient promise the application that drives them   *)
(* from one thread, with no word of transports, flags, promises or         *)
(* threads: Start and Stop bracket a session, both return, and the         *)
(* application's callbacks run one at a time and only inside a session.    *)
(***************************************************************************)

VARIABLES
  phase,  \* where the application is: outside, in Start, inside, in Stop
  busy    \* a callback of the application is running

lifecycle == <<phase, busy>>

Init == phase = "stopped" /\ busy = FALSE

(* Start() is called on a node that is stopped.                            *)
BeginStart ==
  /\ phase = "stopped"
  /\ phase' = "starting"
  /\ UNCHANGED busy

(* Callbacks may already run when Start returns.                           *)
Started ==
  /\ phase = "starting"
  /\ phase' = "running"
  /\ UNCHANGED busy

(* Start throws, and no callback ran in its session.                       *)
StartThrows ==
  /\ phase = "starting"
  /\ ~busy
  /\ phase' = "stopped"
  /\ UNCHANGED busy

(* Stop() may be called at any time; on a stopped node it does nothing.    *)
BeginStop ==
  /\ phase \in {"stopped", "running"}
  /\ phase' = "stopping"
  /\ UNCHANGED busy

Stopped ==
  /\ phase = "stopping"
  /\ ~busy
  /\ phase' = "stopped"
  /\ UNCHANGED busy

(* A message that was received before Stop may still reach its handler     *)
(* while Stop waits.                                                       *)
CallbackBegins ==
  /\ phase # "stopped"
  /\ ~busy
  /\ busy' = TRUE
  /\ UNCHANGED phase

CallbackEnds ==
  /\ busy
  /\ busy' = FALSE
  /\ UNCHANGED phase

Next ==
  \/ BeginStart \/ Started \/ StartThrows
  \/ BeginStop \/ Stopped
  \/ CallbackBegins \/ CallbackEnds

Spec ==
  /\ Init
  /\ [][Next]_lifecycle
  /\ WF_lifecycle(Started \/ StartThrows)
  /\ WF_lifecycle(Stopped)
  /\ WF_lifecycle(CallbackEnds)
=============================================================================
