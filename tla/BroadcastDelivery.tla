-------------------------- MODULE BroadcastDelivery --------------------------
(***************************************************************************)
(* What Publish and OnBroadcast promise one subscriber, for either         *)
(* backend: a message is handled at most once, after it was published, and *)
(* those a subscription brings are handled in the order of publication.    *)
(* Messages may be lost, and a client that is started anew subscribes      *)
(* anew.                                                                   *)
(***************************************************************************)
EXTENDS Naturals, Sequences

CONSTANT Subscriptions  \* their numbers
VARIABLES
  sent,    \* number of messages published
  handled  \* the messages handled: [n |-> number, sub |-> subscription]

Init == sent = 0 /\ handled = <<>>

Publish == sent' = sent + 1 /\ UNCHANGED handled

Handle(m) ==
  /\ \A i \in DOMAIN handled :
       /\ handled[i].n # m.n
       /\ handled[i].sub = m.sub => handled[i].n < m.n
  /\ handled' = Append(handled, m)
  /\ UNCHANGED sent

Next == Publish \/ \E m \in [n : 1..sent, sub : Subscriptions] : Handle(m)

Spec == Init /\ [][Next]_<<sent, handled>>
=============================================================================
