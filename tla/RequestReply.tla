---------------------------- MODULE RequestReply ----------------------------
(***************************************************************************)
(* What DdsClient::Request promises the threads of a client, for either    *)
(* backend: a call returns the answer of the server to the request it      *)
(* made, or throws because of the timeout; a call that was made ends.      *)
(*                                                                         *)
(* The one thing an implementation without correlation ids may do besides: *)
(* fall behind.  Once a call of this client has thrown, others may return  *)
(* the answer to an earlier request of it, until it is started anew.       *)
(***************************************************************************)
CONSTANTS
  Clients,  \* client nodes
  Callers   \* pairs of a client and a thread of it that calls Request

VARIABLES
  call,   \* "idle" or "pending", for each caller
  result, \* how its last call ended: "none", "own", "earlier" or "threw"
  behind  \* may calls of this client return earlier answers?

promise == <<call, result, behind>>

Init ==
  /\ call = [k \in Callers |-> "idle"]
  /\ result = [k \in Callers |-> "none"]
  /\ behind = [c \in Clients |-> FALSE]

Call(k) ==
  /\ call[k] = "idle"
  /\ call' = [call EXCEPT ![k] = "pending"]
  /\ result' = [result EXCEPT ![k] = "none"]
  /\ UNCHANGED behind

End(k, how) ==
  /\ call[k] = "pending"
  /\ call' = [call EXCEPT ![k] = "idle"]
  /\ result' = [result EXCEPT ![k] = how]

Return(k) == End(k, "own") /\ UNCHANGED behind
ReturnEarlier(k) == behind[k[1]] /\ End(k, "earlier") /\ UNCHANGED behind

Throw(k) ==
  /\ End(k, "threw")
  /\ \/ UNCHANGED behind
     \/ behind' = [behind EXCEPT ![k[1]] = TRUE]

(* A call that is pending may go on in the new session.                    *)
Restart(c) ==
  /\ behind' = [behind EXCEPT ![c] = FALSE]
  /\ UNCHANGED <<call, result>>

Next ==
  \/ \E k \in Callers :
       Call(k) \/ Return(k) \/ ReturnEarlier(k) \/ Throw(k)
  \/ \E c \in Clients : Restart(c)

Safety == Init /\ [][Next]_promise

Spec ==
  /\ Safety
  /\ \A k \in Callers : WF_promise(Return(k) \/ Throw(k))
=============================================================================
