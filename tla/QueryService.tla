---------------------------- MODULE QueryService ----------------------------
(***************************************************************************)
(* What a server node promises Zenoh about the queries that reach it: one  *)
(* answer at most, and the one to that query; a query once done with stays *)
(* so.  ZenohServer implements it, ZenohRequest relies on it.              *)
(***************************************************************************)
CONSTANT Queries
VARIABLE service  \* what became of each query at the server

Init == service = [q \in Queries |-> "none"]

Becomes(q, from, to) ==
  service[q] = from /\ service' = [service EXCEPT ![q] = to]

Take(q) == Becomes(q, "none", "taken")
Answer(q) == Becomes(q, "taken", "answered")
Drop(q) == Becomes(q, "taken", "dropped")

Next == \E q \in Queries : Take(q) \/ Answer(q) \/ Drop(q)

Spec == Init /\ [][Next]_service
=============================================================================
