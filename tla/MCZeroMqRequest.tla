-------------------------- MODULE MCZeroMqRequest --------------------------
(* Instances of ZeroMqRequest for TLC: a client with two threads that      *)
(* restarts, and one with a single thread that does not.                   *)
EXTENDS ZeroMqRequest

CONSTANTS c1, c2, t1, t2

MCCallers == {<<c1, t1>>, <<c1, t2>>, <<c2, t1>>}
MCMaxRequests == (c1 :> 2) @@ (c2 :> 1)
MCMaxReopens == (c1 :> 1) @@ (c2 :> 0)

(* One client with one thread.                                             *)
OneCaller == {<<c1, t1>>}
OneMaxRequests == c1 :> 3
OneMaxReopens == c1 :> 0
=============================================================================
