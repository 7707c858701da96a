---------------------------- MODULE MCNodeCore ----------------------------
(* An instance of NodeCore for TLC: every application that calls Start and *)
(* Stop from one thread, and one that calls them from two.                 *)
EXTENDS NodeCore

CONSTANTS o1, o2

Overlapping ==
  [role |-> "client", configured |-> {"broadcast"}, callers |-> {o1, o2},
   spawnFails |-> TRUE, handlerStops |-> TRUE]

MCApplications ==
  {a \in AllApplications : a.callers = {o1}} \cup {Overlapping}
=============================================================================
