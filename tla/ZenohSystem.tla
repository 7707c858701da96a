----------------------------- MODULE ZenohSystem -----------------------------
(***************************************************************************)
(* A client and a server over Zenoh, with nothing abstract between them:   *)
(* the callers and callbacks of ZenohRequest on one side, the owner, the   *)
(* worker and the on_query callbacks of ZenohServer on the other.  A get   *)
(* and the query that reaches the server are one number.                   *)
(***************************************************************************)
EXTENDS ZenohServer

CONSTANTS Client, Threads, MaxCalls  \* as in ZenohRequest

(* Queries are counted like gets.                                          *)
OneQueryPerGet == MaxCalls \in Nat \ {0} /\ Queries = 1..MaxCalls

VARIABLES clientOpen, pc, current, made, captured, reply, result

clientVars == <<clientOpen, pc, current, made, captured, reply, result>>
systemVars == <<vars, clientVars>>

Requester == INSTANCE ZenohRequest WITH
  isOpen <- clientOpen, service <- [q \in Queries |-> Service(q)]

SystemInit == Init /\ Requester!Init

(* What query.reply sent reaches the callback of the get, whatever it is;  *)
(* errors and the end of the get come from Zenoh itself.                   *)
OnReply(q) ==
  \/ /\ answered[q] # None
     /\ Requester!Completes(q, [Requester!EmptyReply EXCEPT !.value = answered[q]])
  \/ Requester!Completes(q, [Requester!EmptyReply EXCEPT !.error = TRUE])

ClientStep ==
  /\ UNCHANGED vars
  /\ \/ Requester!Open \/ Requester!Close
     \/ \E t \in Threads : Requester!Call(t) \/ Requester!RequestStep(t)
     \/ \E q \in Queries : OnReply(q) \/ Requester!OnDone(q)

(* Only a get that was made arrives.                                       *)
ServerStep ==
  /\ \/ OpenFlag \/ OpenRefused \/ StartStep
     \/ StopCall \/ StopStep
     \/ \E q \in Queries : (q <= made /\ Arrive(q)) \/ CallbackStep(q)
     \/ WorkerStep
  /\ UNCHANGED clientVars

SystemNext == ClientStep \/ ServerStep

SystemSpec == SystemInit /\ [][SystemNext]_systemVars

-----------------------------------------------------------------------------
(* The server of the code is one that ZenohRequest may rely on: with its   *)
(* restarts, failed Starts, cancellations and throwing handlers, no answer *)
(* reaches the callback of another get, and none is one that the server    *)
(* has not given.                                                          *)
ServesRequests == Requester!Init /\ [][Requester!Next]_(Requester!vars)
=============================================================================
