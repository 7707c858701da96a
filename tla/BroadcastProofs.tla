-------------------------- MODULE BroadcastProofs --------------------------
(***************************************************************************)
(* Proofs about Broadcast, for any number of publishers, messages and      *)
(* sessions, over either backend: the way of a message, from the wire over *)
(* on_sample and queue_ to the handler, keeps the order of a subscription, *)
(* copies nothing and loses nothing.                                       *)
(***************************************************************************)
EXTENDS Broadcast, FiniteSetTheorems, TLAPS

Message == [n : Nat, sub : Nat]

(* b may be handled after a.                                               *)
Precedes(a, b) == a.n # b.n /\ (a.sub = b.sub => a.n < b.n)

Elements(s) == {s[i] : i \in DOMAIN s}
InOrder(s) == \A i, j \in DOMAIN s : i < j => Precedes(s[i], s[j])
Ahead(A, B) == \A a \in A, b \in B : Precedes(a, b)

(* No two on_sample calls of one subscription run at a time.               *)
Sampled == \A a, b \in sampling : a # b => a.n # b.n /\ a.sub # b.sub

Passing ==
  /\ InOrder(handled) /\ InOrder(queue) /\ InOrder(wire) /\ Sampled
  /\ Ahead(Elements(handled), Elements(queue) \cup sampling \cup Elements(wire))
  /\ Ahead(Elements(queue), sampling \cup Elements(wire))
  /\ Ahead(sampling, Elements(wire))

Everywhere == Elements(handled) \cup Elements(queue) \cup sampling \cup Elements(wire)

Numbers ==
  /\ {wire, queue, handled} \subseteq Seq(Message) /\ sampling \subseteq Message
  /\ sent \in 0..MaxMessages /\ subscription \in 0..MaxSessions
  /\ \A m \in Everywhere : m.n \in 1..sent /\ m.sub \in 1..subscription
  /\ subscribed => subscription >= 1

Subscriber ==
  /\ owner \in {"stopped", "resetting", "subscribing", "launching", "running",
                "closing", "joining"}
  /\ isOpen \in BOOLEAN /\ subscribed \in BOOLEAN /\ stopRequested \in BOOLEAN
  /\ wpc \in {"absent", "loop", "receiving", "polling", "exited"}
  /\ owner \in {"resetting", "subscribing"} => subscription < MaxSessions
  /\ owner = "subscribing" => wire = <<>> /\ ~subscribed
  /\ wire # <<>> => subscribed
  /\ \A m \in Elements(wire) : m.sub = subscription
  /\ backend = "zeromq" => queue = <<>> /\ sampling = {}

Senders ==
  /\ backend \in {"zenoh", "zeromq"} /\ serverOpen \in BOOLEAN
  /\ pub \in [Publishers -> {"idle", "checked", "sending"}]

IInv == Numbers /\ Passing /\ Subscriber /\ Senders

-----------------------------------------------------------------------------
LEMMA Appended ==
  ASSUME NEW s \in Seq(Message), NEW m \in Message
  PROVE  /\ Append(s, m) \in Seq(Message)
         /\ Elements(Append(s, m)) = Elements(s) \cup {m}
         /\ InOrder(s) /\ Ahead(Elements(s), {m}) => InOrder(Append(s, m))
<1> DEFINE t == Append(s, m)
<1>1. /\ t \in Seq(Message) /\ DOMAIN t = 1..(Len(s) + 1) /\ DOMAIN s = 1..Len(s)
      /\ Len(s) \in Nat
      /\ t[Len(s) + 1] = m /\ \A i \in DOMAIN s : t[i] = s[i]
  OBVIOUS
<1> HIDE DEF t
<1>2. \A i \in DOMAIN t : i \in DOMAIN s \/ i = Len(s) + 1
  BY <1>1
<1>3. DOMAIN s \subseteq DOMAIN t /\ Len(s) + 1 \in DOMAIN t
  BY <1>1
<1>4. Elements(t) = Elements(s) \cup {m}
  BY <1>1, <1>2, <1>3 DEF Elements
<1>5. ASSUME InOrder(s), Ahead(Elements(s), {m}),
             NEW i \in DOMAIN t, NEW j \in DOMAIN t, i < j
      PROVE  Precedes(t[i], t[j])
  <2>1. i \in DOMAIN s
    BY <1>1, <1>5
  <2>2. CASE j \in DOMAIN s
    BY <1>1, <1>5, <2>1, <2>2 DEF InOrder
  <2>3. CASE j = Len(s) + 1
    BY <1>1, <1>5, <2>1, <2>3 DEF Ahead, Elements
  <2>4. QED
    BY <1>2, <2>2, <2>3
<1>6. QED
  BY <1>1, <1>4, <1>5 DEF InOrder, t

LEMMA HeadTaken ==
  ASSUME NEW s \in Seq(Message), s # <<>>
  PROVE  /\ Head(s) \in Message /\ Head(s) \in Elements(s)
         /\ Tail(s) \in Seq(Message) /\ Elements(Tail(s)) \subseteq Elements(s)
         /\ InOrder(s) => InOrder(Tail(s)) /\ Ahead({Head(s)}, Elements(Tail(s)))
<1>1. /\ Len(s) \in Nat /\ Len(s) >= 1 /\ Head(s) = s[1] /\ 1 \in DOMAIN s
      /\ s[1] \in Message
  OBVIOUS
<1>2. /\ Tail(s) \in Seq(Message)
      /\ \A i \in DOMAIN Tail(s) :
           /\ i \in Nat /\ i >= 1
           /\ i + 1 \in DOMAIN s /\ Tail(s)[i] = s[i + 1]
  BY <1>1
<1>3. Elements(Tail(s)) \subseteq Elements(s)
  BY <1>2 DEF Elements
<1>4. ASSUME InOrder(s), NEW i \in DOMAIN Tail(s), NEW j \in DOMAIN Tail(s), i < j
      PROVE  Precedes(Tail(s)[i], Tail(s)[j])
  <2>1. i + 1 \in DOMAIN s /\ j + 1 \in DOMAIN s /\ i + 1 < j + 1
    BY <1>2, <1>4
  <2>2. QED
    BY <1>2, <1>4, <2>1 DEF InOrder
<1>5. ASSUME InOrder(s), NEW m \in Elements(Tail(s)) PROVE Precedes(Head(s), m)
  <2>1. PICK i \in DOMAIN Tail(s) : m = Tail(s)[i]
    BY DEF Elements
  <2>2. i + 1 \in DOMAIN s /\ 1 < i + 1 /\ m = s[i + 1]
    BY <1>2, <2>1
  <2>3. QED
    BY <1>1, <1>5, <2>2 DEF InOrder
<1>6. QED
  BY <1>1, <1>2, <1>3, <1>4, <1>5 DEF Elements, InOrder, Ahead

LEMMA LastAppended ==
  \A s, m : s \in Seq(Message) /\ m \in Message => Append(s, m)[Len(s) + 1] = m
<1> SUFFICES ASSUME NEW s \in Seq(Message), NEW m \in Message
             PROVE  Append(s, m)[Len(s) + 1] = m
  OBVIOUS
<1> HIDE DEF Message
<1> QED
  OBVIOUS

LEMMA NoElements == Elements(<<>>) = {} /\ InOrder(<<>>)
BY DEF Elements, InOrder

-----------------------------------------------------------------------------
LEMMA InitIInv ==
  ASSUME Init
  PROVE  IInv
<1> USE BroadcastAssumption, NoElements
<1>1. /\ Elements(handled) = {} /\ Elements(queue) = {} /\ Elements(wire) = {}
      /\ sampling = {} /\ InOrder(handled) /\ InOrder(queue) /\ InOrder(wire)
  BY DEF Init
<1>2. Passing
  BY <1>1 DEF Passing, Ahead, Sampled
<1>3. Numbers
  <2>1. {wire, queue, handled} \subseteq Seq(Message) /\ sampling \subseteq Message
    BY DEF Init
  <2>2. Everywhere = {}
    BY <1>1 DEF Everywhere
  <2>3. QED
    BY <2>1, <2>2 DEF Init, Numbers
<1>4. Subscriber /\ Senders
  BY <1>1 DEF Init, Subscriber, Senders
<1>5. QED
  BY <1>2, <1>3, <1>4 DEF IInv

(* The publishers, whose messages are new when they are sent.              *)
LEMMA PublishersStep ==
  ASSUME IInv,
         ServerOpen \/ ServerClose \/ \E p \in Publishers : PublishCheck(p) \/ PublishLock(p)
  PROVE  IInv'
<1>1. UNCHANGED <<backend, sent, wire, arrivalVars, ownerVars, workerVars>>
  BY DEF ServerOpen, ServerClose, PublishCheck, PublishLock
<1>2. Numbers' /\ Passing' /\ Subscriber'
  BY <1>1 DEF IInv, Numbers, Passing, Subscriber, Sampled, Everywhere, arrivalVars,
              ownerVars, workerVars
<1>3. CASE ServerOpen \/ ServerClose
  <2>1. UNCHANGED <<backend, pub>> /\ serverOpen' \in BOOLEAN
    BY <1>3 DEF ServerOpen, ServerClose
  <2>2. Senders'
    BY <2>1 DEF IInv, Senders
  <2>3. QED
    BY <1>2, <2>2 DEF IInv
<1>4. ASSUME NEW p \in Publishers, PublishCheck(p) \/ PublishLock(p) PROVE Senders'
  BY <1>4 DEF IInv, Senders, PublishCheck, PublishLock, PubMoves
<1>5. QED
  BY <1>2, <1>3, <1>4 DEF IInv, Senders

LEMMA SendStep ==
  ASSUME IInv, NEW p \in Publishers, Send(p)
  PROVE  IInv'
<1> DEFINE m == [n |-> sent + 1, sub |-> subscription]
<1>1. /\ sent < MaxMessages /\ sent' = sent + 1 /\ pub' = [pub EXCEPT ![p] = "idle"]
      /\ \/ subscribed /\ wire' = Append(wire, m)
         \/ wire' = wire
      /\ UNCHANGED <<backend, serverOpen, sampling, queue, owner, isOpen, subscription,
                     subscribed, stopRequested, wpc, handled>>
  BY DEF Send, PubMoves, arrivalVars, ownerVars, workerVars
<1>2. /\ sent \in Nat /\ MaxMessages \in Nat /\ subscription \in Nat /\ m \in Message
      /\ wire \in Seq(Message) /\ m.n = sent + 1 /\ m.sub = subscription
  BY BroadcastAssumption DEF IInv, Numbers, Message
<1> HIDE DEF m
<1>3. Elements(wire)' \subseteq Elements(wire) \cup {m}
  BY <1>1, <1>2, Appended
<1>4. Ahead(Everywhere, {m})
  BY <1>2 DEF IInv, Numbers, Ahead, Precedes
<1>5. Passing'
  <2>1. InOrder(wire)'
    BY <1>1, <1>2, <1>4, Appended DEF IInv, Passing, Ahead, Everywhere
  <2>2. QED
    BY <1>1, <1>3, <1>4, <2>1 DEF IInv, Passing, Ahead, Sampled, Everywhere
<1>6. Numbers'
  <2>1. {wire, queue, handled}' \subseteq Seq(Message) /\ (sampling \subseteq Message)'
    <3>1. wire' \in Seq(Message)
      BY <1>1, <1>2, Appended
    <3>2. QED
      BY <1>1, <3>1 DEF IInv, Numbers
  <2>2. sent' \in 0..MaxMessages /\ (subscription \in 0..MaxSessions)'
    BY <1>1, <1>2 DEF IInv, Numbers
  <2>3. ASSUME NEW x \in Everywhere' PROVE x.n \in 1..sent' /\ x.sub \in 1..subscription'
    <3>1. CASE x \in Everywhere
      BY <1>1, <1>2, <3>1 DEF IInv, Numbers
    <3>2. CASE x = m /\ subscribed
      BY <1>1, <1>2, <3>2 DEF IInv, Numbers
    <3>3. x \in Everywhere \/ (x = m /\ subscribed)
      <4>1. /\ Elements(handled)' = Elements(handled)
            /\ Elements(queue)' = Elements(queue) /\ sampling' = sampling
        BY <1>1
      <4>2. Elements(wire)' = Elements(wire)
              \/ (subscribed /\ Elements(wire)' = Elements(wire) \cup {m})
        BY <1>1, <1>2, Appended
      <4>3. QED
        BY <4>1, <4>2 DEF Everywhere
    <3>4. QED
      BY <3>1, <3>2, <3>3
  <2>4. QED
    BY <1>1, <2>1, <2>2, <2>3 DEF IInv, Numbers
<1>7. Subscriber'
  BY <1>1, <1>2, <1>3 DEF IInv, Subscriber
<1>8. Senders'
  BY <1>1 DEF IInv, Senders
<1>9. QED
  BY <1>5, <1>6, <1>7, <1>8 DEF IInv

(* on_sample takes the next message of a subscription that has none,       *)
LEMMA SampleStep ==
  ASSUME IInv, Sample
  PROVE  IInv'
<1> DEFINE h == Head(wire)
<1>1. /\ backend = "zenoh" /\ wire # <<>> /\ (\A m \in sampling : m.sub # h.sub)
      /\ sampling' = sampling \cup {h} /\ wire' = Tail(wire)
      /\ UNCHANGED <<backend, serverOpen, pub, sent, queue, owner, isOpen,
                     subscription, subscribed, stopRequested, wpc, handled>>
  BY DEF Sample, serverVars, ownerVars, workerVars
<1>2. /\ wire \in Seq(Message) /\ h \in Message /\ h \in Elements(wire)
      /\ Tail(wire) \in Seq(Message) /\ Elements(wire)' \subseteq Elements(wire)
      /\ InOrder(wire)' /\ Ahead({h}, Elements(wire)')
  BY <1>1, HeadTaken DEF IInv, Numbers, Passing
<1> HIDE DEF h
<1>3. Passing'
  <2>1. Sampled'
    BY <1>1, <1>2 DEF IInv, Passing, Sampled, Ahead, Precedes
  <2>2. QED
    BY <1>1, <1>2, <2>1 DEF IInv, Passing, Ahead
<1>4. Everywhere' \subseteq Everywhere
  BY <1>1, <1>2 DEF Everywhere
<1>5. Numbers'
  BY <1>1, <1>2, <1>4 DEF IInv, Numbers
<1>6. Subscriber' /\ Senders'
  BY <1>1, <1>2 DEF IInv, Subscriber, Senders
<1>7. QED
  BY <1>3, <1>5, <1>6 DEF IInv

(* and queues it, or drops it when the client is closed.                   *)
LEMMA EnqueueStep ==
  ASSUME IInv, NEW m \in sampling, Enqueue(m)
  PROVE  IInv'
<1>1. /\ sampling' = sampling \ {m}
      /\ queue' = Append(queue, m) \/ queue' = queue
      /\ UNCHANGED <<backend, serverOpen, pub, sent, wire, owner, isOpen,
                     subscription, subscribed, stopRequested, wpc, handled>>
  BY DEF Enqueue, serverVars, ownerVars, workerVars
<1>2. /\ queue \in Seq(Message) /\ m \in Message /\ backend = "zenoh"
      /\ Ahead(Elements(queue), {m})
  BY DEF IInv, Numbers, Passing, Ahead, Subscriber, Senders
<1>3. /\ Elements(queue)' \subseteq Elements(queue) \cup {m} /\ InOrder(queue)'
      /\ queue' \in Seq(Message)
  BY <1>1, <1>2, Appended DEF IInv, Passing
<1>4. Passing'
  <2>1. Ahead({m}, sampling')
    BY <1>1 DEF IInv, Passing, Sampled, Ahead, Precedes
  <2>2. QED
    BY <1>1, <1>3, <2>1 DEF IInv, Passing, Ahead, Sampled
<1>5. Everywhere' \subseteq Everywhere
  BY <1>1, <1>3 DEF Everywhere
<1>6. Numbers'
  BY <1>1, <1>3, <1>5 DEF IInv, Numbers
<1>7. Subscriber' /\ Senders'
  BY <1>1, <1>2 DEF IInv, Subscriber, Senders
<1>8. QED
  BY <1>4, <1>6, <1>7 DEF IInv

-----------------------------------------------------------------------------
(* The owner.                                                              *)
LEMMA OwnerStep ==
  ASSUME IInv, OpenFlag \/ OpenRefused \/ StartStep \/ Stop \/ StopStep
  PROVE  IInv'
<1>1. /\ UNCHANGED <<serverVars, sampling, queue, handled>>
      /\ wire' = wire \/ wire' = <<>>
  BY DEF OpenFlag, OpenRefused, StartStep, Stop, StopStep, Reset, Subscribe, Launch, LaunchWith,
         Close, Join, arrivalVars, workerVars
<1>2. Senders'
  BY <1>1 DEF IInv, Senders, serverVars
<1>3. Elements(wire)' \subseteq Elements(wire) /\ InOrder(wire)' /\ wire' \in Seq(Message)
  <2>1. wire \in Seq(Message) /\ <<>> \in Seq(Message) /\ InOrder(wire)
    BY DEF IInv, Numbers, Passing
  <2>2. QED
    BY <1>1, <2>1, NoElements
<1>4. Passing'
  BY <1>1, <1>3 DEF IInv, Passing, Ahead, Sampled
<1>5. Everywhere' \subseteq Everywhere
  BY <1>1, <1>3 DEF Everywhere
<1>6. Subscriber' /\ subscription' \in 0..MaxSessions /\ subscription <= subscription'
        /\ (subscribed' => subscription' >= 1)
  <2>0. /\ subscription \in 0..MaxSessions /\ (subscribed => subscription >= 1)
        /\ MaxSessions \in Nat /\ Subscriber
    BY BroadcastAssumption DEF IInv, Numbers
  <2> USE <2>0, NoElements
      DEF Subscriber, OwnerMoves, serverVars, arrivalVars, workerVars
  <2>1. CASE OpenFlag
    BY <2>1 DEF OpenFlag
  <2>2. CASE Reset
    <3>1. /\ owner' = "subscribing" /\ ~subscribed' /\ subscribed' \in BOOLEAN /\ wire' = <<>>
          /\ Elements(wire)' = {} /\ subscription < MaxSessions
          /\ UNCHANGED <<backend, queue, sampling, isOpen, subscription, stopRequested, wpc>>
      BY <2>2 DEF Reset
    <3>2. QED
      BY <3>1
  <2>3. CASE Subscribe
    <3>1. /\ owner = "subscribing" /\ subscription < MaxSessions /\ ~subscribed
          /\ wire' = <<>> /\ Elements(wire)' = {}
          /\ UNCHANGED <<backend, queue, sampling, stopRequested, wpc>>
      BY <2>3 DEF Subscribe
    <3>2. CASE /\ owner' = "launching" /\ subscription' = subscription + 1
               /\ subscribed' = TRUE /\ isOpen' = isOpen
      BY <3>1, <3>2
    <3>3. CASE /\ owner' = "stopped" /\ isOpen' = FALSE
               /\ UNCHANGED <<subscription, subscribed>>
      <4>1. /\ wire' = <<>> /\ Elements(wire)' = {} /\ owner' = "stopped"
            /\ isOpen' \in BOOLEAN /\ subscribed' \in BOOLEAN
            /\ stopRequested' \in BOOLEAN
            /\ wpc' \in {"absent", "loop", "receiving", "polling", "exited"}
        BY <3>1, <3>3
      <4>2. backend' = "zeromq" => queue' = <<>> /\ sampling' = {}
        BY <3>1
      <4>3. Subscriber'
        BY <4>1, <4>2
      <4>4. subscription' = subscription /\ ~subscribed'
        BY <3>1, <3>3
      <4>5. QED
        BY <4>3, <4>4
    <3>4. QED
      BY <2>3, <3>2, <3>3 DEF Subscribe
  <2>4. CASE Launch
    <3>1. /\ owner' \in {"running", "closing", "stopped"} /\ stopRequested' \in BOOLEAN
          /\ wpc' \in {"absent", "loop", "receiving", "polling", "exited"}
          /\ UNCHANGED <<backend, wire, queue, sampling, isOpen, subscription, subscribed>>
      BY <2>4 DEF Launch, LaunchWith
    <3>2. QED
      BY <3>1
  <2>5. CASE OpenRefused \/ Stop \/ Close
    <3>1. /\ owner' \in {"closing", "joining", "stopped"} /\ stopRequested' \in BOOLEAN
          /\ isOpen' \in BOOLEAN
          /\ UNCHANGED <<backend, wire, queue, sampling, subscription, subscribed, wpc>>
      BY <2>5 DEF OpenRefused, Stop, Close
    <3>2. QED
      BY <3>1
  <2>6. CASE Join
    BY <2>6 DEF Join
  <2>7. QED
    BY <2>1, <2>2, <2>3, <2>4, <2>5, <2>6 DEF StartStep, StopStep
<1>7. Numbers'
  <2>1. \A m \in Everywhere' : m.n \in 1..sent' /\ m.sub \in 1..subscription'
    BY <1>1, <1>5, <1>6 DEF IInv, Numbers, serverVars
  <2>2. QED
    BY <1>1, <1>3, <1>6, <2>1 DEF IInv, Numbers, serverVars
<1>8. QED
  BY <1>2, <1>4, <1>6, <1>7 DEF IInv

-----------------------------------------------------------------------------
(* The worker, which handles what comes first.                             *)
LEMMA HandledIsNext ==
  ASSUME IInv, Receive
  PROVE  LET h == Head(Waiting)
         IN /\ h \in Message /\ handled \in Seq(Message)
            /\ h.n \in 1..sent /\ h.sub \in 1..subscription
            /\ Ahead(Elements(handled), {h}) /\ handled' = Append(handled, h)
            /\ UNCHANGED <<backend, serverOpen, pub, sent, sampling, owner, isOpen,
                           subscription, subscribed, stopRequested>>
            /\ wpc' = "loop"
            /\ backend = "zeromq" => h \in Elements(wire)
<1>1. /\ Waiting # <<>> /\ wpc' = "loop" /\ handled' = Append(handled, Head(Waiting))
      /\ UNCHANGED <<serverVars, sampling, ownerVars>>
  BY DEF Receive, ReceiveLeaving
<1>2. Waiting \in Seq(Message) /\ Elements(Waiting) \subseteq Elements(queue) \cup Elements(wire)
  BY DEF IInv, Numbers, Waiting
<1>3. Head(Waiting) \in Elements(Waiting) /\ Head(Waiting) \in Message
  BY <1>1, <1>2, HeadTaken
<1>4. Ahead(Elements(handled), {Head(Waiting)})
  BY <1>2, <1>3 DEF IInv, Passing, Ahead
<1>5. Head(Waiting) \in Everywhere
  BY <1>2, <1>3 DEF Everywhere
<1>6. backend = "zeromq" => Head(Waiting) \in Elements(wire)
  BY <1>3 DEF Waiting
<1>7. QED
  BY <1>1, <1>3, <1>4, <1>5, <1>6 DEF IInv, Numbers, serverVars, ownerVars

LEMMA ReceiveStep ==
  ASSUME IInv, Receive
  PROVE  IInv'
<1> DEFINE h == Head(Waiting)
<1>1. /\ h \in Message /\ handled \in Seq(Message)
      /\ h.n \in 1..sent /\ h.sub \in 1..subscription
      /\ Ahead(Elements(handled), {h}) /\ handled' = Append(handled, h)
      /\ UNCHANGED <<backend, serverOpen, pub, sent, sampling, owner, isOpen,
                     subscription, subscribed, stopRequested>>
      /\ wpc' = "loop"
  BY HandledIsNext
<1>2. /\ Elements(handled)' = Elements(handled) \cup {h} /\ InOrder(handled)'
      /\ handled' \in Seq(Message)
  BY <1>1, Appended DEF IInv, Passing
<1>3. /\ Elements(queue)' \subseteq Elements(queue) /\ InOrder(queue)' /\ queue' \in Seq(Message)
      /\ Elements(wire)' \subseteq Elements(wire) /\ InOrder(wire)' /\ wire' \in Seq(Message)
      /\ Ahead({h}, Elements(queue)' \cup sampling \cup Elements(wire)')
      /\ h \in Everywhere /\ (backend = "zeromq" => queue' = queue)
      /\ wire' # <<>> => wire # <<>>
  <2>1. queue \in Seq(Message) /\ wire \in Seq(Message) /\ InOrder(queue) /\ InOrder(wire)
    BY DEF IInv, Numbers, Passing
  <2>2. CASE backend = "zenoh"
    <3>1. queue # <<>> /\ h = Head(queue) /\ queue' = Tail(queue) /\ wire' = wire
      BY <2>2 DEF Receive, ReceiveLeaving, Waiting
    <3>2. /\ h \in Elements(queue) /\ Elements(queue)' \subseteq Elements(queue)
          /\ queue' \in Seq(Message) /\ InOrder(queue)' /\ Ahead({h}, Elements(queue)')
      BY <2>1, <3>1, HeadTaken
    <3>3. Ahead({h}, sampling \cup Elements(wire))
      BY <3>2 DEF IInv, Passing, Ahead
    <3>4. QED
      BY <2>1, <2>2, <3>1, <3>2, <3>3 DEF Ahead, Everywhere
  <2>3. CASE backend = "zeromq"
    <3>1. /\ wire # <<>> /\ h = Head(wire) /\ wire' = Tail(wire) /\ queue' = queue
          /\ queue = <<>> /\ sampling = {}
      BY <2>3 DEF Receive, ReceiveLeaving, Waiting, IInv, Subscriber
    <3>2. /\ h \in Elements(wire) /\ Elements(wire)' \subseteq Elements(wire)
          /\ wire' \in Seq(Message) /\ InOrder(wire)' /\ Ahead({h}, Elements(wire)')
      BY <2>1, <3>1, HeadTaken
    <3>3. Elements(queue)' = {} /\ Elements(queue) = {}
      BY <3>1, NoElements
    <3>4. QED
      BY <2>1, <2>3, <3>1, <3>2, <3>3 DEF Ahead, Everywhere
  <2>4. QED
    BY <2>2, <2>3 DEF IInv, Senders
<1> HIDE DEF h
<1>4. Passing'
  BY <1>1, <1>2, <1>3 DEF IInv, Passing, Ahead, Sampled
<1>5. Everywhere' \subseteq Everywhere
  BY <1>1, <1>2, <1>3 DEF Everywhere
<1>6. Numbers'
  BY <1>1, <1>2, <1>3, <1>5 DEF IInv, Numbers
<1>7. Subscriber'
  BY <1>1, <1>3 DEF IInv, Subscriber
<1>8. Senders'
  BY <1>1 DEF IInv, Senders
<1>9. QED
  BY <1>4, <1>6, <1>7, <1>8 DEF IInv

LEMMA IdleStep ==
  ASSUME IInv, LoopCheck \/ Poll \/ ReceiveNothing \/ UNCHANGED vars
  PROVE  IInv'
<1>1. /\ UNCHANGED <<serverVars, wire, arrivalVars, ownerVars, handled>>
      /\ wpc' \in {"absent", "loop", "receiving", "polling", "exited"}
  BY DEF LoopCheck, Poll, ReceiveNothing, vars, serverVars, arrivalVars, ownerVars, IInv, Subscriber
<1>2. Numbers' /\ Passing'
  BY <1>1 DEF IInv, Numbers, Passing, Sampled, Everywhere, Ahead, serverVars, arrivalVars,
              ownerVars
<1>3. Subscriber' /\ Senders'
  BY <1>1 DEF IInv, Subscriber, Senders, serverVars, arrivalVars, ownerVars
<1>4. QED
  BY <1>2, <1>3 DEF IInv

(* IInv is inductive.                                                      *)
LEMMA IInvHolds == Init /\ [][Next]_vars => []IInv
<1>1. IInv /\ [Next]_vars => IInv'
  BY PublishersStep, SendStep, SampleStep, EnqueueStep, OwnerStep, ReceiveStep, IdleStep
     DEF Next, WorkerStep
<1>2. QED
  BY <1>1, InitIInv, PTL

-----------------------------------------------------------------------------
(* The messages that were handled have different numbers, so that there    *)
(* are not more of them than were sent.                                    *)
LEMMA HandledAreFewer ==
  ASSUME IInv
  PROVE  Len(handled) <= sent
<1>1. /\ handled \in Seq(Message) /\ sent \in Nat /\ InOrder(handled)
      /\ \A i \in DOMAIN handled : handled[i].n \in 1..sent
  BY BroadcastAssumption DEF IInv, Numbers, Passing, Everywhere, Elements
<1>2. Len(handled) \in Nat /\ DOMAIN handled = 1..Len(handled)
  BY <1>1
<1> DEFINE S == 1..Len(handled)
           T == 1..sent
           f == [i \in S |-> handled[i].n]
<1>3. f \in [S -> T]
  BY <1>1, <1>2
<1>4. ~ \E i, j \in S : i # j /\ f[i] = f[j]
  <2> SUFFICES ASSUME NEW i \in S, NEW j \in S, i # j PROVE f[i] # f[j]
    OBVIOUS
  <2>1. i < j \/ j < i
    BY <1>2
  <2>2. handled[i].n # handled[j].n
    BY <1>1, <1>2, <2>1 DEF InOrder, Precedes
  <2>3. QED
    BY <2>2
<1>5. /\ IsFiniteSet(S) /\ Cardinality(S) = Len(handled)
      /\ IsFiniteSet(T) /\ Cardinality(T) = sent
  <2>1. ASSUME NEW n \in Nat PROVE IsFiniteSet(1..n) /\ Cardinality(1..n) = n
    BY FS_Interval
  <2>2. QED
    BY <1>1, <1>2, <2>1
<1> HIDE DEF S, T, f
<1>6. ~(Cardinality(T) < Cardinality(S))
  BY <1>3, <1>4, <1>5, FS_PigeonHole
<1>7. QED
  BY <1>1, <1>2, <1>5, <1>6

(* The members and the threads only ever hold values of their types; a     *)
(* client never handles more messages than were sent.                      *)
THEOREM TypeCorrect == Spec => []TypeOK
<1>1. ASSUME IInv PROVE TypeOK
  <2>1. /\ sent \in 0..MaxMessages /\ subscription \in 0..MaxSessions
        /\ \A m \in Everywhere : m \in Messages
    <3>1. \A m \in Everywhere : m \in Message
      <4>1. \A s \in Seq(Message) : Elements(s) \subseteq Message
        BY DEF Elements
      <4>2. QED
        BY <1>1, <4>1 DEF IInv, Numbers, Everywhere
    <3>2. QED
      BY <1>1, <3>1 DEF IInv, Numbers, Messages, Message
  <2>2. ASSUME NEW s \in Seq(Message), Elements(s) \subseteq Messages
        PROVE  s \in Seq(Messages)
    <3>1. s \in [1..Len(s) -> Messages] /\ Len(s) \in Nat
      BY <2>2 DEF Elements
    <3>2. QED
      BY <3>1
  <2>3. {wire, queue, handled} \subseteq Seq(Messages) /\ sampling \subseteq Messages
    <3>1. /\ Elements(wire) \subseteq Messages /\ Elements(queue) \subseteq Messages
          /\ Elements(handled) \subseteq Messages /\ sampling \subseteq Messages
      BY <2>1 DEF Everywhere
    <3>2. /\ wire \in Seq(Message) /\ queue \in Seq(Message) /\ handled \in Seq(Message)
      BY <1>1 DEF IInv, Numbers
    <3>3. QED
      BY <2>2, <3>1, <3>2
  <2>4. QED
    BY <1>1, <2>1, <2>3, HandledAreFewer DEF IInv, Subscriber, Senders, TypeOK
<1>2. QED
  BY <1>1, IInvHolds, PTL DEF Spec

(* Over ZeroMQ, a session handles only what its own subscription brought.  *)
THEOREM SessionsAreFresh == Spec => ZeroMqSessionsAreFresh
<1> DEFINE A == \A m \in Messages :
         handled' = Append(handled, m) /\ backend = "zeromq" =>
           m.sub = subscription /\ subscribed
<1>1. ASSUME IInv, [Next]_vars PROVE [A]_handled
  <2> SUFFICES ASSUME NEW m \in Messages, handled' # handled,
                      handled' = Append(handled, m), backend = "zeromq"
               PROVE  m.sub = subscription /\ subscribed
    OBVIOUS
  <2>0. m \in Message
    BY <1>1 DEF Messages, Message, IInv, Numbers
  <2>1. Receive
    BY <1>1 DEF Next, WorkerStep, vars, workerVars, ServerOpen, ServerClose, PublishCheck,
       PublishLock, Send, Sample, Enqueue, OpenFlag, OpenRefused, StartStep, Reset,
       Subscribe, Launch, LaunchWith, Stop, StopStep, Close, Join, LoopCheck, Poll, ReceiveNothing
  <2>2. /\ handled \in Seq(Message) /\ handled' = Append(handled, Head(Waiting))
        /\ Head(Waiting) \in Message /\ Head(Waiting) \in Elements(wire)
    BY <1>1, <2>1, HandledIsNext
  <2>3. m = Head(Waiting)
    <3>1. Append(handled, m)[Len(handled) + 1] = m
      BY <2>0, <2>2, LastAppended
    <3>2. Append(handled, Head(Waiting))[Len(handled) + 1] = Head(Waiting)
      BY <2>2, LastAppended
    <3>3. QED
      BY <2>2, <3>1, <3>2
  <2>4. wire # <<>>
    BY <2>2, NoElements
  <2>5. QED
    BY <1>1, <2>2, <2>3, <2>4 DEF IInv, Subscriber
<1>2. QED
  BY <1>1, IInvHolds, PTL DEF Spec, ZeroMqSessionsAreFresh

(* Every message is handled at most once, after it was published, and in   *)
(* the order of publication within a subscription: both backends implement *)
(* BroadcastDelivery.                                                      *)
THEOREM TransportsDeliver == Spec => KeepsDelivery
<1>1. Init => Delivery!Init
  BY DEF Init, Delivery!Init
<1>2. ASSUME IInv, [Next]_vars PROVE [Delivery!Next]_<<sent, handled>>
  <2>1. ASSUME NEW p \in Publishers, Send(p) PROVE Delivery!Publish
    BY <2>1 DEF Send, workerVars, Delivery!Publish
  <2>2. ASSUME Receive PROVE Delivery!Next
    <3> DEFINE h == Head(Waiting)
    <3>1. /\ h \in Message /\ handled \in Seq(Message)
          /\ h.n \in 1..sent /\ h.sub \in 1..subscription
          /\ Ahead(Elements(handled), {h}) /\ handled' = Append(handled, h)
          /\ sent' = sent
      BY <1>2, <2>2, HandledIsNext
    <3> HIDE DEF h
    <3>2. h \in [n : 1..sent, sub : 1..MaxSessions]
      BY <1>2, <3>1, BroadcastAssumption DEF IInv, Numbers, Message
    <3>3. \A i \in DOMAIN handled :
            handled[i].n # h.n /\ (handled[i].sub = h.sub => handled[i].n < h.n)
      BY <3>1 DEF Ahead, Elements, Precedes
    <3>4. Delivery!Handle(h)
      BY <3>1, <3>3 DEF Delivery!Handle
    <3>5. QED
      BY <3>2, <3>4 DEF Delivery!Next
  <2>3. CASE UNCHANGED <<sent, handled>>
    BY <2>3
  <2>4. QED
    BY <1>2, <2>1, <2>2, <2>3 DEF Delivery!Next, Next, WorkerStep, vars, serverVars, workerVars,
       ServerOpen, ServerClose, PublishCheck, PublishLock, Sample, Enqueue,
       OpenFlag, OpenRefused, StartStep, Reset, Subscribe, Launch, LaunchWith, Stop, StopStep,
       Close, Join,
       LoopCheck, Poll, ReceiveNothing
<1>3. QED
  BY <1>1, <1>2, IInvHolds, PTL DEF Spec, KeepsDelivery, Delivery!Spec

(* What a subscription has received is handled or waits to be, whatever    *)
(* the server, Zenoh and the worker do: only a client that closes drops    *)
(* messages, or one that starts again and resets its subscription.         *)
LEMMA TailKeepsRest ==
  ASSUME NEW s \in Seq(Message), s # <<>>
  PROVE  Elements(s) \subseteq {Head(s)} \cup Elements(Tail(s))
<1> SUFFICES ASSUME NEW i \in DOMAIN s, i # 1
             PROVE  s[i] \in Elements(Tail(s))
  BY DEF Elements
<1>1. i - 1 \in DOMAIN Tail(s) /\ Tail(s)[i - 1] = s[i]
  OBVIOUS
<1>2. QED
  BY <1>1 DEF Elements

THEOREM OpenClientDropsNothing == Spec => NothingIsDropped
<1> DEFINE A == Received \subseteq Received' \/ owner = "resetting" \/ ~isOpen
<1>1. ASSUME IInv, [Next]_vars PROVE [A]_vars
  <2> SUFFICES ASSUME owner # "resetting", isOpen PROVE Everywhere \subseteq Everywhere'
    BY DEF Received, Everywhere, Elements
  <2>1. /\ wire \in Seq(Message) /\ queue \in Seq(Message) /\ handled \in Seq(Message)
        /\ sampling \subseteq Message /\ sent \in Nat /\ subscription \in Nat
    BY <1>1, BroadcastAssumption DEF IInv, Numbers
  <2>2. CASE \E p \in Publishers : Send(p)
    <3> DEFINE m == [n |-> sent + 1, sub |-> subscription]
    <3>1. /\ wire' = Append(wire, m) \/ wire' = wire
          /\ UNCHANGED <<sampling, queue, handled>>
      BY <2>2 DEF Send, arrivalVars, workerVars
    <3>2. m \in Message
      BY <2>1 DEF Message
    <3> HIDE DEF m
    <3>3. Elements(wire)' = Elements(wire) \/ Elements(wire)' = Elements(wire) \cup {m}
      <4>1. Elements(Append(wire, m)) = Elements(wire) \cup {m}
        BY <2>1, <3>2, Appended
      <4>2. QED
        BY <3>1, <4>1
    <3>4. QED
      BY <3>1, <3>3 DEF Everywhere
  <2>3. CASE Sample
    <3>1. /\ wire # <<>> /\ wire' = Tail(wire) /\ sampling' = sampling \cup {Head(wire)}
          /\ UNCHANGED <<queue, handled>>
      BY <2>3 DEF Sample, workerVars
    <3>2. Elements(wire) \subseteq {Head(wire)} \cup Elements(wire)'
      BY <2>1, <3>1, TailKeepsRest
    <3>3. QED
      BY <3>1, <3>2 DEF Everywhere
  <2>4. ASSUME NEW m \in sampling, Enqueue(m) PROVE Everywhere \subseteq Everywhere'
    <3>1. /\ sampling' = sampling \ {m} /\ queue' = Append(queue, m)
          /\ UNCHANGED <<wire, handled>>
      BY <2>4 DEF Enqueue, workerVars
    <3>2. Elements(queue)' = Elements(queue) \cup {m}
      BY <2>1, <3>1, Appended
    <3>3. QED
      BY <3>1, <3>2 DEF Everywhere
  <2>5. CASE Receive
    <3> DEFINE h == Head(Waiting)
    <3>1. h \in Message /\ handled' = Append(handled, h) /\ sampling' = sampling
      BY <1>1, <2>5, HandledIsNext
    <3>2. Elements(handled)' = Elements(handled) \cup {h}
      BY <2>1, <3>1, Appended
    <3>3. /\ Waiting # <<>> /\ Waiting \in Seq(Message)
          /\ \/ Waiting = queue /\ queue' = Tail(queue) /\ wire' = wire
             \/ Waiting = wire /\ wire' = Tail(wire) /\ queue' = queue
      BY <2>1, <2>5 DEF Receive, ReceiveLeaving, Waiting
    <3>4. Elements(queue) \cup Elements(wire) \subseteq
            {h} \cup Elements(queue)' \cup Elements(wire)'
      BY <3>3, TailKeepsRest
    <3>5. QED
      BY <3>1, <3>2, <3>4 DEF Everywhere
  <2>6. CASE UNCHANGED <<wire, arrivalVars, handled>>
    BY <2>6 DEF Everywhere, arrivalVars
  <2>7. QED
    BY <1>1, <2>2, <2>3, <2>4, <2>5, <2>6
       DEF Next, WorkerStep, vars, arrivalVars, workerVars, ServerOpen, ServerClose,
           PublishCheck, PublishLock, OpenFlag, OpenRefused, StartStep, Reset, Subscribe,
           Launch, LaunchWith, Stop, StopStep, Close, Join, LoopCheck, Poll, ReceiveNothing,
           OwnerMoves
<1>2. QED
  BY <1>1, IInvHolds, PTL DEF Spec, NothingIsDropped
=============================================================================
