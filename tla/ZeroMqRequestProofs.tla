------------------------ MODULE ZeroMqRequestProofs ------------------------
(***************************************************************************)
(* Proofs about ZeroMqRequest, for any clients with any number of threads, *)
(* any capacity of the pipes, and any number of requests, timeouts and     *)
(* restarts, with and without reconnection: IInv is inductive, what the    *)
(* runs check of a session follows from it, and every step of the          *)
(* transport is a step of RequestReply or a stutter.                       *)
(***************************************************************************)
EXTENDS ZeroMqRequest, TLAPS

-----------------------------------------------------------------------------
(* t is what is left of s: a pipe keeps the order of its messages.         *)
Embeds(f, t, s) ==
  /\ f \in [DOMAIN t -> DOMAIN s]
  /\ \A i \in DOMAIN t : t[i] = s[f[i]]
  /\ \A i, j \in DOMAIN t : i < j => f[i] < f[j]

Part(t, s) == \E f : Embeds(f, t, s)

LEMMA PartOf ==
  ASSUME NEW s \in Seq(Messages), NEW t \in Seq(Messages), Part(t, s)
  PROVE  /\ ToSet(t) \subseteq ToSet(s)
         /\ Ascending(s) => Ascending(t)
<1>1. PICK f : Embeds(f, t, s)
  BY DEF Part
<1>2. QED
  BY <1>1 DEF Embeds, ToSet, Ascending

(* t is s from some place on, or up to some place.                         *)
LEMMA ShiftIsPart ==
  ASSUME NEW s \in Seq(Messages), NEW t \in Seq(Messages), NEW d \in Nat,
         \A i \in DOMAIN t : i + d \in DOMAIN s /\ t[i] = s[i + d]
  PROVE  Part(t, s)
<1> DEFINE f == [i \in DOMAIN t |-> i + d]
<1>1. f \in [DOMAIN t -> DOMAIN s] /\ \A i \in DOMAIN t : f[i] = i + d /\ i \in Nat
  OBVIOUS
<1> HIDE DEF f
<1>2. Embeds(f, t, s)
  BY <1>1 DEF Embeds
<1>3. QED
  BY <1>2 DEF Part

LEMMA Whole == ASSUME NEW s \in Seq(Messages) PROVE Part(s, s)
<1>1. \A i \in DOMAIN s : i + 0 \in DOMAIN s /\ s[i] = s[i + 0]
  OBVIOUS
<1>2. QED
  BY <1>1, ShiftIsPart

LEMMA PrefixIsPart ==
  ASSUME NEW s \in Seq(Messages), NEW t \in Prefixes(s)
  PROVE  t \in Seq(Messages) /\ Part(t, s)
<1>1. PICK l \in 0..Len(s) : t = SubSeq(s, 1, l)
  BY DEF Prefixes
<1>2. t \in Seq(Messages) /\ \A i \in DOMAIN t : i + 0 \in DOMAIN s /\ t[i] = s[i + 0]
  BY <1>1
<1>3. QED
  BY <1>2, ShiftIsPart

LEMMA SuffixIsPart ==
  ASSUME NEW s \in Seq(Messages), NEW t \in Suffixes(s)
  PROVE  t \in Seq(Messages) /\ Part(t, s)
<1>1. CASE t = <<>>
  <2>1. t \in Seq(Messages) /\ DOMAIN t = {}
    BY <1>1
  <2>2. QED
    BY <2>1, ShiftIsPart
<1>2. CASE \E l \in 1..Len(s) : t = SubSeq(s, l, Len(s))
  <2>1. PICK l \in 1..Len(s) : t = SubSeq(s, l, Len(s))
    BY <1>2
  <2>2. /\ t \in Seq(Messages) /\ l - 1 \in Nat
        /\ \A i \in DOMAIN t : i + (l - 1) \in DOMAIN s /\ t[i] = s[i + (l - 1)]
    BY <2>1
  <2>3. QED
    BY <2>2, ShiftIsPart
<1>3. QED
  BY <1>1, <1>2 DEF Suffixes

(* The first message comes before all others.                              *)
LEMMA TakeHead ==
  ASSUME NEW s \in Seq(Messages), s # <<>>
  PROVE  /\ Head(s) \in Messages /\ Head(s) \in ToSet(s)
         /\ Tail(s) \in Seq(Messages) /\ Part(Tail(s), s)
         /\ Ascending(s) => \A m \in ToSet(Tail(s)) : Head(s).n < m.n
<1>1. /\ Len(s) \in Nat /\ Len(s) >= 1 /\ Head(s) = s[1] /\ 1 \in DOMAIN s
      /\ s[1] \in Messages
  OBVIOUS
<1>2. /\ Tail(s) \in Seq(Messages)
      /\ \A i \in DOMAIN Tail(s) :
           /\ i \in Nat /\ i >= 1
           /\ i + 1 \in DOMAIN s /\ Tail(s)[i] = s[i + 1]
  BY <1>1
<1>3. Part(Tail(s), s)
  BY <1>2, ShiftIsPart
<1>4. ASSUME Ascending(s), NEW m \in ToSet(Tail(s)) PROVE Head(s).n < m.n
  <2>1. PICK i \in DOMAIN Tail(s) : m = Tail(s)[i]
    BY DEF ToSet
  <2>2. i + 1 \in DOMAIN s /\ 1 < i + 1 /\ m = s[i + 1]
    BY <1>2, <2>1
  <2>3. QED
    BY <1>1, <1>4, <2>2 DEF Ascending
<1>5. QED
  BY <1>1, <1>2, <1>3, <1>4 DEF ToSet

LEMMA Joined ==
  ASSUME NEW S, NEW u \in Seq(S), NEW v \in Seq(S)
  PROVE  /\ u \o v \in Seq(S) /\ Len(u \o v) = Len(u) + Len(v)
         /\ \A i \in 1..Len(u) : (u \o v)[i] = u[i]
         /\ \A i \in (Len(u) + 1)..(Len(u) + Len(v)) : (u \o v)[i] = v[i - Len(u)]
OBVIOUS

(* What ROUTER takes comes before all others of its connection.            *)
LEMMA TakeFirst ==
  ASSUME NEW s \in Seq(Messages), NEW p \in Firsts(s)
  PROVE  /\ s[p] \in Messages /\ s[p] \in ToSet(s)
         /\ RemoveAt(s, p) \in Seq(Messages) /\ Part(RemoveAt(s, p), s)
         /\ Ascending(s) =>
              \A m \in ToSet(RemoveAt(s, p)) : m.conn = s[p].conn => s[p].n < m.n
<1> DEFINE t == RemoveAt(s, p)
           f == [i \in DOMAIN t |-> IF i < p THEN i ELSE i + 1]
<1>1. /\ Len(s) \in Nat /\ DOMAIN s = 1..Len(s) /\ p \in DOMAIN s /\ p \in Nat
      /\ s[p] \in Messages
  BY DEF Firsts
<1>2. /\ SubSeq(s, 1, p - 1) \in Seq(Messages) /\ Len(SubSeq(s, 1, p - 1)) = p - 1
      /\ SubSeq(s, p + 1, Len(s)) \in Seq(Messages)
      /\ Len(SubSeq(s, p + 1, Len(s))) = Len(s) - p
  BY <1>1
<1>3. /\ t \in Seq(Messages) /\ DOMAIN t = 1..(Len(s) - 1)
      /\ \A i \in 1..(p - 1) : t[i] = s[i]
      /\ \A i \in p..(Len(s) - 1) : t[i] = s[i + 1]
  <2> DEFINE u == SubSeq(s, 1, p - 1)
             v == SubSeq(s, p + 1, Len(s))
  <2>1. /\ \A i \in 1..(p - 1) : u[i] = s[i]
        /\ \A i \in 1..(Len(s) - p) : v[i] = s[i + p]
    BY <1>1
  <2>2. t = u \o v
    BY DEF RemoveAt
  <2>3. u \in Seq(Messages) /\ v \in Seq(Messages) /\ Len(u) = p - 1 /\ Len(v) = Len(s) - p
    BY <1>2
  <2> HIDE DEF t, u, v
  <2>4. /\ t \in Seq(Messages) /\ Len(t) = Len(s) - 1
        /\ \A i \in 1..(p - 1) : t[i] = u[i]
        /\ \A i \in p..(Len(s) - 1) : t[i] = v[i - (p - 1)]
    <3>1. /\ u \o v \in Seq(Messages) /\ Len(u \o v) = Len(u) + Len(v)
          /\ \A i \in 1..Len(u) : (u \o v)[i] = u[i]
          /\ \A i \in (Len(u) + 1)..(Len(u) + Len(v)) : (u \o v)[i] = v[i - Len(u)]
      BY <2>3, Joined
    <3>2. Len(u) + 1 = p /\ Len(u) + Len(v) = Len(s) - 1
      BY <1>1, <2>3
    <3>3. QED
      BY <2>2, <2>3, <3>1, <3>2
  <2>5. \A i \in p..(Len(s) - 1) : i - (p - 1) \in 1..(Len(s) - p) /\ i - (p - 1) + p = i + 1
    BY <1>1
  <2>6. DOMAIN t = 1..(Len(s) - 1) /\ \A i \in 1..(p - 1) : t[i] = s[i]
    BY <2>1, <2>4
  <2>7. ASSUME NEW i \in p..(Len(s) - 1) PROVE t[i] = s[i + 1]
    BY <2>1, <2>4, <2>5
  <2>8. QED
    BY <2>4, <2>6, <2>7
<1> HIDE DEF t
<1>4. /\ f \in [DOMAIN t -> DOMAIN s]
      /\ \A i \in DOMAIN t : i \in Nat /\ f[i] = IF i < p THEN i ELSE i + 1
  BY <1>1, <1>3
<1> HIDE DEF f
<1>5. ASSUME NEW i \in DOMAIN t PROVE t[i] = s[f[i]] /\ f[i] # p
  <2>1. CASE i < p
    BY <1>1, <1>3, <1>4, <2>1
  <2>2. CASE ~(i < p)
    <3>1. f[i] = i + 1 /\ i \in p..(Len(s) - 1) /\ i + 1 # p
      BY <1>1, <1>3, <1>4, <2>2
    <3>2. QED
      BY <1>3, <3>1
  <2>3. QED
    BY <2>1, <2>2
<1>6. \A i, j \in DOMAIN t : i < j => f[i] < f[j]
  BY <1>1, <1>4
<1>7. Part(t, s)
  BY <1>4, <1>5, <1>6 DEF Embeds, Part
<1>8. ASSUME Ascending(s), NEW m \in ToSet(t), m.conn = s[p].conn
      PROVE  s[p].n < m.n
  <2>1. PICK i \in DOMAIN t : m = t[i]
    BY DEF ToSet
  <2>2. f[i] \in DOMAIN s /\ m = s[f[i]] /\ f[i] # p
    BY <1>4, <1>5, <2>1
  <2>3. p < f[i]
    BY <1>1, <1>8, <2>2 DEF Firsts
  <2>4. QED
    BY <1>1, <1>8, <2>2, <2>3 DEF Ascending
<1>9. QED
  BY <1>1, <1>3, <1>7, <1>8 DEF ToSet, t

LEMMA Appended ==
  ASSUME NEW s \in Seq(Messages), NEW m \in Messages
  PROVE  /\ Append(s, m) \in Seq(Messages)
         /\ ToSet(Append(s, m)) = ToSet(s) \cup {m}
         /\ Ascending(s) /\ (\A x \in ToSet(s) : x.n < m.n)
              => Ascending(Append(s, m))
<1> DEFINE t == Append(s, m)
<1>1. /\ t \in Seq(Messages) /\ DOMAIN t = 1..(Len(s) + 1) /\ DOMAIN s = 1..Len(s)
      /\ Len(s) \in Nat
      /\ t[Len(s) + 1] = m /\ \A i \in DOMAIN s : t[i] = s[i]
  OBVIOUS
<1> HIDE DEF t
<1>2. ToSet(t) = ToSet(s) \cup {m}
  <2>1. \A i \in DOMAIN t : i \in DOMAIN s \/ i = Len(s) + 1
    BY <1>1
  <2>2. ToSet(t) \subseteq ToSet(s) \cup {m}
    BY <1>1, <2>1 DEF ToSet
  <2>3. DOMAIN s \subseteq DOMAIN t /\ Len(s) + 1 \in DOMAIN t
    BY <1>1
  <2>4. QED
    BY <1>1, <2>2, <2>3 DEF ToSet
<1>3. ASSUME Ascending(s), \A x \in ToSet(s) : x.n < m.n,
             NEW i \in DOMAIN t, NEW j \in DOMAIN t, i < j
      PROVE  t[i].n < t[j].n
  <2>1. i \in DOMAIN s
    BY <1>1, <1>3
  <2>2. CASE j \in DOMAIN s
    BY <1>1, <1>3, <2>1, <2>2 DEF Ascending
  <2>3. CASE j = Len(s) + 1
    BY <1>1, <1>3, <2>1, <2>3 DEF ToSet
  <2>4. QED
    BY <1>1, <2>2, <2>3
<1>4. QED
  BY <1>1, <1>2, <1>3 DEF Ascending, t
-----------------------------------------------------------------------------
(* Init and the values of the variables.                                   *)
LEMMA ClientsOfCallers == \A k \in Callers : ClientOf(k) \in Clients
BY ZeroMqRequestAssumption DEF ClientOf

LEMMA InitIInv ==
  ASSUME Init
  PROVE  IInv
<1>1. TypeOK
  <2>1. lastPoll \in BOOLEAN
    BY DEF Init
  <2>2. QED
    BY <2>1 DEF Init, TypeOK
<1>2. OneInside /\ \A k \in Callers : CallerInv(k)
  BY DEF Init, OneInside, CallerInv
<1>3. ASSUME NEW c \in Clients PROVE ClientInv(c)
  <2>1. /\ toClient[c] = <<>> /\ toServer[c] = <<>> /\ inHand = None
        /\ sent[c] = 0 /\ consumed[c] = 0
    BY DEF Init
  <2>2. Answers(c) = {} /\ AtWorker(c) = {} /\ Unread(c) = {}
    BY <2>1 DEF Answers, AtWorker, Unread, ToSet
  <2>3. Ascending(toClient[c]) /\ Ascending(toServer[c])
    BY <2>1 DEF Ascending
  <2>4. QED
    BY <2>1, <2>2, <2>3 DEF ClientInv, InOrder, Before, Underway
<1>4. QED
  BY <1>1, <1>2, <1>3 DEF IInv

LEMMA TypeStep ==
  ASSUME TypeOK, [Next]_vars
  PROVE  TypeOK'
<1> USE ClientsOfCallers DEF TypeOK, Goto, clientVars, pipes, serverVars, callVars
<1>1. ASSUME NEW k \in Callers, Call(k) PROVE TypeOK'
  BY <1>1 DEF Call
<1>2. ASSUME NEW k \in Callers, Lock(k) PROVE TypeOK'
  BY <1>2 DEF Lock, Enter
<1>3. ASSUME NEW k \in Callers, Send(k) PROVE TypeOK'
  <2> DEFINE c == ClientOf(k)
             m == [client |-> c, conn |-> conn[c], n |-> sent[c] + 1]
  <2>1. c \in Clients /\ m \in Messages /\ m.n \in Nat
    BY DEF Messages
  <2>2. Append(toServer[c], m) \in Seq(Messages)
    BY <2>1, Appended
  <2>3. /\ toServer' = [toServer EXCEPT ![c] = Append(@, m)]
        /\ sent' = [sent EXCEPT ![c] = m.n]
        /\ mine' = [mine EXCEPT ![k] = m]
        /\ pc' = [pc EXCEPT ![k] = "polling"]
        /\ UNCHANGED <<got, timeouts, consumed, clientVars, toClient, serverVars>>
    BY <1>3 DEF Send, Put
  <2> HIDE DEF m, c
  <2>4. QED
    BY <2>1, <2>2, <2>3
<1>4. ASSUME NEW k \in Callers, Receive(k) PROVE TypeOK'
  <2> DEFINE c == ClientOf(k)
  <2>1. /\ Head(toClient[c]) \in Messages /\ Head(toClient[c]).n \in Nat
        /\ Tail(toClient[c]) \in Seq(Messages)
    <3>1. toClient[c] \in Seq(Messages) /\ toClient[c] # <<>>
      BY <1>4 DEF Receive
    <3>2. QED
      BY <3>1, TakeHead DEF Messages
  <2>2. QED
    BY <1>4, <2>1 DEF Receive
<1>5. ASSUME NEW k \in Callers, TimeOut(k) PROVE TypeOK'
  BY <1>5 DEF TimeOut
<1>6. ASSUME NEW c \in Clients, ClientStop(c) PROVE TypeOK'
  BY <1>6 DEF ClientStop
<1>7. ASSUME NEW c \in Clients, ClientReopen(c) PROVE TypeOK'
  <2>1. PICK left \in Prefixes(toServer[c]) :
          toServer' = [toServer EXCEPT ![c] = left]
    BY <1>7 DEF ClientReopen
  <2>2. left \in Seq(Messages)
    BY <2>1, PrefixIsPart
  <2>3. <<>> \in Seq(Messages)
    OBVIOUS
  <2>4. QED
    BY <1>7, <2>1, <2>2, <2>3 DEF ClientReopen
<1>8. ASSUME NEW c \in Clients, TryReceive(c) PROVE TypeOK'
  <2>1. PICK i \in Firsts(toServer[c]) :
          /\ inHand' = toServer[c][i]
          /\ toServer' = [toServer EXCEPT ![c] = RemoveAt(@, i)]
    BY <1>8 DEF TryReceive
  <2>2. toServer[c][i] \in Messages /\ RemoveAt(toServer[c], i) \in Seq(Messages)
    BY TakeFirst
  <2>3. QED
    BY <1>8, <2>1, <2>2 DEF TryReceive
<1>9. CASE Reply
  <2>1. inHand \in Messages /\ inHand.client \in Clients
    BY <1>9 DEF Reply, ReplyTo, Messages
  <2>2. Append(toClient[inHand.client], inHand) \in Seq(Messages)
    BY <2>1, Appended
  <2>3. toClient' \in [Clients -> Seq(Messages)]
    BY <1>9, <2>1, <2>2 DEF Reply, ReplyTo, Put
  <2>4. QED
    BY <1>9, <2>3 DEF Reply, ReplyTo
<1>10. CASE HandlerThrows \/ LastPollEnds \/ ServerStop
  <2>1. CASE HandlerThrows \/ LastPollEnds
    BY <2>1 DEF HandlerThrows, LastPollEnds
  <2>2. CASE ServerStop
    <3>1. restarts' \in Nat
      BY <2>2 DEF ServerStop
    <3>2. QED
      BY <2>2, <3>1 DEF ServerStop
  <2>3. QED
    BY <1>10, <2>1, <2>2
<1>11. CASE ServerReopen
  <2>1. \A c \in Clients : toServer'[c] \in Suffixes(toServer[c])
    BY <1>11 DEF ServerReopen, OneOfEach, Waiting
  <2>2. \A c \in Clients : toClient'[c] \in Prefixes(toClient[c])
    BY <1>11 DEF ServerReopen, OneOfEach
  <2>3. \A c \in Clients : toServer'[c] \in Seq(Messages) /\ toClient'[c] \in Seq(Messages)
    BY <2>1, <2>2, PrefixIsPart, SuffixIsPart
  <2>4. /\ toServer' = [c \in Clients |-> toServer'[c]]
        /\ toClient' = [c \in Clients |-> toClient'[c]]
    BY <1>11 DEF ServerReopen, OneOfEach
  <2>5. toServer' \in [Clients -> Seq(Messages)] /\ toClient' \in [Clients -> Seq(Messages)]
    BY <2>3, <2>4
  <2>6. linked' \in [Clients -> BOOLEAN]
    BY <1>11, ZeroMqRequestAssumption DEF ServerReopen
  <2>7. QED
    BY <1>11, <2>5, <2>6 DEF ServerReopen
<1>12. CASE UNCHANGED vars
  BY <1>12 DEF vars
<1>13. QED
  BY <1>1, <1>2, <1>3, <1>4, <1>5, <1>6, <1>7, <1>8, <1>9, <1>10, <1>11, <1>12
     DEF Next, CallStep, WorkerStep
-----------------------------------------------------------------------------
LEMMA UnderwayAreMessages ==
  ASSUME TypeOK, NEW c \in Clients
  PROVE  /\ Underway(c) \subseteq Messages
         /\ \A m \in Underway(c) : m.n \in Nat /\ m.conn \in Nat
         /\ conn[c] \in Nat /\ sent[c] \in Nat
         /\ timeouts[c] \in Nat /\ consumed[c] \in Nat
         /\ toServer[c] \in Seq(Messages) /\ toClient[c] \in Seq(Messages)
<1>1. toServer[c] \in Seq(Messages) /\ toClient[c] \in Seq(Messages)
  BY DEF TypeOK
<1>2. \A s \in Seq(Messages) : ToSet(s) \subseteq Messages
  BY DEF ToSet
<1>3. Answers(c) \subseteq Messages /\ Unread(c) \subseteq Messages
  BY <1>1, <1>2 DEF Answers, Unread
<1>4. AtWorker(c) \subseteq Messages
  BY DEF TypeOK, AtWorker
<1>5. \A m \in Messages : m.n \in Nat /\ m.conn \in Nat
  BY DEF Messages
<1>6. Underway(c) \subseteq Messages
  BY <1>3, <1>4 DEF Underway
<1>7. QED
  BY <1>1, <1>5, <1>6 DEF TypeOK

(* Whoever only loses messages keeps the invariant of a client.            *)
LEMMA ClientKept ==
  ASSUME TypeOK, TypeOK', NEW c \in Clients, ClientInv(c),
         Part(toClient'[c], toClient[c]), Part(toServer'[c], toServer[c]),
         AtWorker(c)' \subseteq AtWorker(c),
         conn'[c] = conn[c], sent'[c] = sent[c],
         timeouts'[c] = timeouts[c], consumed'[c] = consumed[c],
         Polling(c) => Polling(c)'
  PROVE  ClientInv(c)'
<1>1. /\ Answers(c)' \subseteq Answers(c) /\ Unread(c)' \subseteq Unread(c)
      /\ Ascending(toClient[c]) => Ascending(toClient'[c])
      /\ Ascending(toServer[c]) => Ascending(toServer'[c])
  BY PartOf DEF TypeOK, Answers, Unread
<1>2. InOrder(c)'
  BY <1>1 DEF ClientInv, InOrder, Before, Ascending
<1>3. Underway(c)' \subseteq Underway(c)
  BY <1>1 DEF Underway
<1>4. ASSUME NEW m \in Underway(c), m.conn = conn[c], LagOf(c, m)
      PROVE  LagOf(c, m)'
  <2>1. /\ sent[c] \in Nat /\ timeouts[c] \in Nat /\ m.n \in Nat
    BY UnderwayAreMessages
  <2>2. sent[c] < m.n + timeouts[c] => sent[c] <= m.n + timeouts[c]
    BY <2>1
  <2>3. CASE Polling(c)
    BY <1>4, <2>3 DEF LagOf
  <2>4. CASE ~Polling(c)
    BY <1>4, <2>2, <2>4 DEF LagOf
  <2>5. QED
    BY <2>3, <2>4
<1>5. \A m \in Underway(c)' : m \in Underway(c)
  BY <1>3
<1>6. QED
  BY <1>1, <1>2, <1>4, <1>5 DEF ClientInv

(* The step of a caller.                                                   *)
LEMMA PollingKept ==
  ASSUME TypeOK, NEW k \in Callers, NEW to, pc' = [pc EXCEPT ![k] = to],
         NEW c, c # ClientOf(k) \/ pc[k] # "polling"
  PROVE  Polling(c) => Polling(c)'
BY DEF Polling, TypeOK

(* A step at one client changes nothing that concerns another.             *)
LEMMA OthersKept ==
  ASSUME TypeOK, TypeOK', NEW c \in Clients, ClientInv(c),
         toClient'[c] = toClient[c], toServer'[c] = toServer[c],
         AtWorker(c)' \subseteq AtWorker(c),
         conn'[c] = conn[c], sent'[c] = sent[c],
         timeouts'[c] = timeouts[c], consumed'[c] = consumed[c],
         Polling(c) => Polling(c)'
  PROVE  ClientInv(c)'
<1>1. toClient[c] \in Seq(Messages) /\ toServer[c] \in Seq(Messages)
  BY DEF TypeOK
<1>2. Part(toClient'[c], toClient[c]) /\ Part(toServer'[c], toServer[c])
  BY <1>1, Whole
<1>3. QED
  BY <1>2, ClientKept

-----------------------------------------------------------------------------
(* A request is sent by the only thread inside, so nobody polls.           *)
LEMMA SendKeepsClients ==
  ASSUME IInv, TypeOK', NEW k \in Callers, Send(k), NEW d \in Clients
  PROVE  ClientInv(d)'
<1> DEFINE c == ClientOf(k)
           m == [client |-> c, conn |-> conn[c], n |-> sent[c] + 1]
<1>1. /\ c \in Clients /\ TypeOK /\ ClientInv(c) /\ ClientInv(d) /\ OneInside
      /\ toServer[c] \in Seq(Messages) /\ m \in Messages
      /\ sent[c] \in Nat /\ consumed[c] \in Nat /\ timeouts[c] \in Nat
  <2>1. c \in Clients /\ TypeOK /\ OneInside /\ ClientInv(c) /\ ClientInv(d)
    BY ClientsOfCallers DEF IInv
  <2>2. conn[c] \in Nat /\ sent[c] + 1 \in Nat
    BY <2>1, UnderwayAreMessages
  <2>3. m \in Messages
    BY <2>1, <2>2 DEF Messages
  <2>4. QED
    BY <2>1, <2>3, UnderwayAreMessages
<1>2. /\ pc[k] = "sending" /\ pc' = [pc EXCEPT ![k] = "polling"]
      /\ toServer' = [toServer EXCEPT ![c] = Append(@, m)]
      /\ sent' = [sent EXCEPT ![c] = m.n]
      /\ UNCHANGED <<conn, timeouts, consumed, toClient, inHand>>
  BY DEF Send, Goto, Put, clientVars, serverVars
<1>3. /\ m.client = c /\ m.conn = conn[c] /\ m.n = sent[c] + 1
  OBVIOUS
<1>4. AtWorker(d)' = AtWorker(d) /\ Answers(d)' = Answers(d)
  BY <1>2 DEF AtWorker, Answers
<1> HIDE DEF c, m
<1>5. CASE d # c
  <2>1. Polling(d) => Polling(d)'
    BY <1>1, <1>2, <1>5, PollingKept DEF c
  <2>2. toServer'[d] = toServer[d] /\ sent'[d] = sent[d]
    BY <1>1, <1>2, <1>5 DEF TypeOK
  <2>3. QED
    BY <1>1, <1>2, <1>4, <2>1, <2>2, OthersKept
<1>6. CASE d = c
  <2>1. ~Polling(c) /\ Polling(c)'
    <3>1. \A l \in Callers : ClientOf(l) = c /\ pc[l] = "polling" => l = k
      BY <1>1, <1>2 DEF OneInside, c
    <3>2. pc'[k] = "polling"
      BY <1>1, <1>2 DEF TypeOK
    <3>3. QED
      BY <1>2, <3>1, <3>2 DEF Polling, c
  <2>2. toServer'[c] = Append(toServer[c], m) /\ sent'[c] = sent[c] + 1
    BY <1>1, <1>2, <1>3 DEF TypeOK
  <2>3. /\ Unread(c)' = Unread(c) \cup {m}
        /\ Ascending(toServer[c]) /\ (\A x \in Unread(c) : x.n < m.n)
             => Ascending(toServer'[c])
    BY <1>1, <2>2, Appended DEF Unread
  <2>4. Underway(c)' = Underway(c) \cup {m} /\ Underway(c) \subseteq Messages
    BY <1>1, <1>4, <1>6, <2>3, UnderwayAreMessages DEF Underway
  <2>5. \A x \in Underway(c) : x.n \in Nat /\ x.n < m.n
    BY <1>1, <1>3, <2>4 DEF ClientInv, Messages
  <2>6. InOrder(c)'
    <3>1. Ascending(toClient'[c]) /\ Ascending(toServer'[c])
      BY <1>1, <1>2, <2>3, <2>5 DEF ClientInv, InOrder, Underway
    <3>2. QED
      BY <1>1, <1>4, <1>6, <2>3, <2>5, <3>1 DEF ClientInv, InOrder, Before, Underway
  <2>7. ASSUME NEW x \in Underway(c)'
        PROVE  /\ x.client = c /\ x.conn <= conn'[c]
               /\ x.n <= sent'[c]
               /\ x.conn = conn'[c] => consumed'[c] < x.n /\ LagOf(c, x)'
    <3>1. CASE x \in Underway(c)
      BY <1>1, <1>2, <2>1, <2>2, <2>4, <2>5, <3>1 DEF ClientInv, LagOf
    <3>2. CASE x = m
      <4>1. conn[c] \in Nat /\ consumed[c] <= sent[c]
        BY <1>1 DEF TypeOK, ClientInv
      <4>2. QED
        BY <1>1, <1>2, <1>3, <2>1, <2>2, <3>2, <4>1 DEF LagOf
    <3>3. QED
      BY <2>4, <3>1, <3>2
  <2>8. consumed'[c] <= sent'[c] /\ \A x \in Answers(c)' : x.conn = conn'[c]
    BY <1>1, <1>2, <1>4, <1>6, <2>2 DEF ClientInv
  <2>9. QED
    BY <1>6, <2>6, <2>7, <2>8 DEF ClientInv
<1>7. QED
  BY <1>5, <1>6
(* What is received comes before everything that is underway.              *)
LEMMA ReceiveKeepsClients ==
  ASSUME IInv, TypeOK', NEW k \in Callers, Receive(k), NEW d \in Clients
  PROVE  ClientInv(d)'
<1> DEFINE c == ClientOf(k)
           h == Head(toClient[c])
<1>1. /\ c \in Clients /\ TypeOK /\ ClientInv(c) /\ ClientInv(d) /\ OneInside
  BY ClientsOfCallers DEF IInv
<1>2. /\ pc[k] = "polling" /\ pc' = [pc EXCEPT ![k] = "idle"]
      /\ toClient[c] # <<>>
      /\ toClient' = [toClient EXCEPT ![c] = Tail(@)]
      /\ consumed' = [consumed EXCEPT ![c] = h.n]
      /\ UNCHANGED <<conn, sent, timeouts, toServer, inHand>>
  BY DEF Receive, Goto, clientVars, serverVars
<1>3. AtWorker(d)' = AtWorker(d) /\ Unread(d)' = Unread(d)
  BY <1>2 DEF AtWorker, Unread
<1>4. /\ h \in Messages /\ h \in Answers(c)
      /\ Tail(toClient[c]) \in Seq(Messages) /\ Part(Tail(toClient[c]), toClient[c])
      /\ Ascending(toClient[c]) => \A m \in ToSet(Tail(toClient[c])) : h.n < m.n
  BY <1>1, <1>2, UnderwayAreMessages, TakeHead DEF Answers
<1> HIDE DEF c, h
<1>5. CASE d # c
  <2>1. Polling(d) => Polling(d)'
    BY <1>1, <1>2, <1>5, PollingKept DEF c
  <2>2. toClient'[d] = toClient[d] /\ consumed'[d] = consumed[d]
    BY <1>1, <1>2, <1>5 DEF TypeOK
  <2>3. QED
    BY <1>1, <1>2, <1>3, <2>1, <2>2, OthersKept
<1>6. CASE d = c
  <2>1. Polling(c) /\ ~Polling(c)'
    <3>1. \A l \in Callers : ClientOf(l) = c /\ pc[l] = "polling" => l = k
      BY <1>1, <1>2 DEF OneInside, c
    <3>2. pc'[k] = "idle" /\ \A l \in Callers : l # k => pc'[l] = pc[l]
      BY <1>1, <1>2 DEF TypeOK
    <3>3. QED
      BY <1>2, <3>1, <3>2 DEF Polling, c
  <2>2. toClient'[c] = Tail(toClient[c]) /\ consumed'[c] = h.n
    BY <1>1, <1>2 DEF TypeOK
  <2>3. /\ Answers(c)' \subseteq Answers(c)
        /\ Ascending(toClient'[c]) /\ Ascending(toClient[c])
    <3>1. Ascending(toClient[c]) /\ toClient[c] \in Seq(Messages)
      BY <1>1, UnderwayAreMessages DEF ClientInv, InOrder
    <3>2. QED
      BY <1>4, <2>2, <3>1, PartOf DEF Answers
  <2>4. Underway(c)' \subseteq Underway(c)
    BY <1>3, <1>6, <2>3 DEF Underway
  <2>5. \A x \in Underway(c)' : x.conn = h.conn => h.n < x.n
    BY <1>1, <1>3, <1>4, <1>6, <2>2, <2>3
       DEF ClientInv, InOrder, Before, Underway, Answers
  <2>6. InOrder(c)'
    BY <1>1, <1>2, <1>3, <1>6, <2>3 DEF ClientInv, InOrder, Before
  <2>7. h.conn = conn[c] /\ h.n <= sent[c] /\ sent[c] <= h.n + timeouts[c]
    BY <1>1, <1>4, <2>1 DEF ClientInv, Underway, LagOf
  <2>8. ASSUME NEW x \in Underway(c)'
        PROVE  /\ x.client = c /\ x.conn <= conn'[c]
               /\ x.n <= sent'[c]
               /\ x.conn = conn'[c] => consumed'[c] < x.n /\ LagOf(c, x)'
    <3>1. x \in Underway(c)
      BY <2>4
    <3>2. /\ x.n \in Nat /\ h.n \in Nat /\ sent[c] \in Nat /\ timeouts[c] \in Nat
      BY <1>1, <1>4, <3>1, UnderwayAreMessages DEF Messages
    <3>3. x.conn = conn[c] => sent[c] < x.n + timeouts[c] /\ h.n < x.n
      BY <2>5, <2>7, <3>2
    <3>4. x.conn = conn[c] => LagOf(c, x)'
      BY <1>2, <2>1, <3>3 DEF LagOf
    <3>5. QED
      BY <1>1, <1>2, <2>2, <3>1, <3>3, <3>4 DEF ClientInv
  <2>9. QED
    BY <1>1, <1>2, <1>6, <2>2, <2>3, <2>6, <2>7, <2>8 DEF ClientInv
<1>7. QED
  BY <1>5, <1>6

(* The request that timed out is now one of those that fall behind.        *)
LEMMA TimeOutKeepsClients ==
  ASSUME IInv, TypeOK', NEW k \in Callers, TimeOut(k), NEW d \in Clients
  PROVE  ClientInv(d)'
<1> DEFINE c == ClientOf(k)
<1>1. /\ c \in Clients /\ TypeOK /\ ClientInv(c) /\ ClientInv(d) /\ OneInside
  BY ClientsOfCallers DEF IInv
<1>2. /\ pc[k] = "polling" /\ pc' = [pc EXCEPT ![k] = "idle"]
      /\ timeouts' = [timeouts EXCEPT ![c] = @ + 1]
      /\ UNCHANGED <<conn, sent, consumed, toClient, toServer, inHand>>
  BY DEF TimeOut, Goto, clientVars, pipes, serverVars
<1>3. Underway(d)' = Underway(d) /\ AtWorker(d)' = AtWorker(d)
  BY <1>2 DEF AtWorker, Unread, Answers, Underway
<1> HIDE DEF c
<1>4. CASE d # c
  <2>1. Polling(d) => Polling(d)'
    BY <1>1, <1>2, <1>4, PollingKept DEF c
  <2>2. timeouts'[d] = timeouts[d]
    BY <1>1, <1>2, <1>4 DEF TypeOK
  <2>3. QED
    BY <1>1, <1>2, <1>3, <2>1, <2>2, OthersKept
<1>5. CASE d = c
  <2>1. Polling(c)
    BY <1>2 DEF Polling, c
  <2>2. timeouts'[c] = timeouts[c] + 1
    BY <1>1, <1>2 DEF TypeOK
  <2>3. InOrder(c)'
    BY <1>1, <1>2 DEF ClientInv, InOrder, Before, Answers, AtWorker, Unread, Ascending
  <2>4. ASSUME NEW x \in Underway(c), x.conn = conn[c] PROVE LagOf(c, x)'
    <3>1. /\ x.n \in Nat /\ sent[c] \in Nat /\ timeouts[c] \in Nat
      BY <1>1, UnderwayAreMessages
    <3>2. sent[c] <= x.n + timeouts[c]
      BY <1>1, <2>1, <2>4 DEF ClientInv, LagOf
    <3>3. sent'[c] < x.n + timeouts'[c] /\ sent'[c] <= x.n + timeouts'[c]
      BY <1>2, <2>2, <3>1, <3>2
    <3>4. QED
      BY <3>3 DEF LagOf
  <2>5. Answers(c)' = Answers(c) /\ Underway(c)' = Underway(c)
    BY <1>2, <1>3, <1>5 DEF Answers
  <2>6. QED
    BY <1>1, <1>2, <1>5, <2>3, <2>4, <2>5 DEF ClientInv
<1>6. QED
  BY <1>4, <1>5

(* Nothing of the new connection is underway yet.                          *)
LEMMA ReopenKeepsClients ==
  ASSUME IInv, TypeOK', NEW c \in Clients, ClientReopen(c), NEW d \in Clients
  PROVE  ClientInv(d)'
<1>1. TypeOK /\ ClientInv(c) /\ ClientInv(d)
  BY DEF IInv
<1>2. /\ conn' = [conn EXCEPT ![c] = @ + 1]
      /\ timeouts' = [timeouts EXCEPT ![c] = 0]
      /\ toClient' = [toClient EXCEPT ![c] = <<>>]
      /\ UNCHANGED <<pc, sent, consumed, inHand>>
  BY DEF ClientReopen, serverVars
<1>3. PICK left \in Prefixes(toServer[c]) : toServer' = [toServer EXCEPT ![c] = left]
  BY DEF ClientReopen
<1>4. AtWorker(d)' = AtWorker(d) /\ (Polling(d) => Polling(d)')
  BY <1>2 DEF AtWorker, Polling
<1>5. CASE d # c
  <2>1. /\ toServer'[d] = toServer[d] /\ toClient'[d] = toClient[d]
        /\ conn'[d] = conn[d] /\ timeouts'[d] = timeouts[d]
    BY <1>1, <1>2, <1>3, <1>5 DEF TypeOK
  <2>2. QED
    BY <1>1, <1>2, <1>4, <2>1, OthersKept
<1>6. CASE d = c
  <2>1. toServer'[c] = left /\ toClient'[c] = <<>> /\ conn'[c] = conn[c] + 1
    BY <1>1, <1>2, <1>3 DEF TypeOK
  <2>2. left \in Seq(Messages) /\ Part(left, toServer[c]) /\ conn[c] \in Nat
        /\ toServer[c] \in Seq(Messages)
    BY <1>1, UnderwayAreMessages, PrefixIsPart
  <2>3. Unread(c)' \subseteq Unread(c) /\ Ascending(toServer'[c])
    BY <1>1, <2>1, <2>2, PartOf DEF ClientInv, InOrder, Unread
  <2>4. Answers(c)' = {} /\ Ascending(toClient'[c])
    BY <2>1 DEF Answers, Ascending, ToSet
  <2>5. Underway(c)' \subseteq Underway(c)
    BY <1>4, <1>6, <2>3, <2>4 DEF Underway
  <2>6. InOrder(c)'
    BY <1>1, <1>4, <1>6, <2>3, <2>4 DEF ClientInv, InOrder, Before
  <2>7. \A x \in Underway(c) : x.conn < conn'[c]
    BY <1>1, <2>1, <2>2, UnderwayAreMessages DEF ClientInv
  <2>8. ASSUME NEW x \in Underway(c)'
        PROVE  /\ x.client = c /\ x.conn <= conn'[c] /\ x.conn # conn'[c]
               /\ x.n <= sent'[c]
    <3>1. x \in Underway(c) /\ x.conn \in Nat /\ conn'[c] \in Nat
      BY <1>1, <2>1, <2>2, <2>5, UnderwayAreMessages
    <3>2. QED
      BY <1>1, <1>2, <2>7, <3>1 DEF ClientInv
  <2>9. QED
    BY <1>1, <1>2, <1>6, <2>4, <2>6, <2>8 DEF ClientInv
<1>7. QED
  BY <1>5, <1>6
-----------------------------------------------------------------------------
(* The server takes what comes first on a connection,                      *)
LEMMA TryReceiveKeepsClients ==
  ASSUME IInv, TypeOK', NEW c \in Clients, TryReceive(c), NEW d \in Clients
  PROVE  ClientInv(d)'
<1>1. TypeOK /\ ClientInv(c) /\ ClientInv(d) /\ toServer[c] \in Seq(Messages)
  BY DEF IInv, TypeOK
<1> PICK i \in Firsts(toServer[c]) :
      /\ inHand' = toServer[c][i]
      /\ toServer' = [toServer EXCEPT ![c] = RemoveAt(@, i)]
  BY DEF TryReceive
<1> DEFINE h == toServer[c][i]
           rest == RemoveAt(toServer[c], i)
<1>2. /\ inHand = None /\ inHand' = h
      /\ toServer' = [toServer EXCEPT ![c] = rest]
      /\ UNCHANGED <<pc, conn, sent, timeouts, consumed, toClient>>
  BY DEF TryReceive, callVars, clientVars
<1>3. /\ h \in Messages /\ h \in Unread(c)
      /\ rest \in Seq(Messages) /\ Part(rest, toServer[c])
      /\ Ascending(toServer[c]) =>
           \A m \in ToSet(rest) : m.conn = h.conn => h.n < m.n
  BY <1>1, TakeFirst DEF Unread
<1> HIDE DEF h, rest
<1>4. h.client = c
  BY <1>1, <1>3 DEF ClientInv, Underway
<1>5. Answers(d)' = Answers(d) /\ (Polling(d) => Polling(d)')
  BY <1>2 DEF Answers, Polling
<1>6. CASE d # c
  <2>1. toServer'[d] = toServer[d]
    BY <1>1, <1>2, <1>6 DEF TypeOK
  <2>2. AtWorker(d)' \subseteq AtWorker(d)
    BY <1>2, <1>4, <1>6 DEF AtWorker
  <2>3. QED
    BY <1>1, <1>2, <1>5, <2>1, <2>2, OthersKept
<1>7. CASE d = c
  <2>1. AtWorker(c) = {} /\ AtWorker(c)' \subseteq {h}
    BY <1>2 DEF AtWorker
  <2>2. toServer'[c] = rest /\ toServer[c] \in Seq(Messages)
    BY <1>1, <1>2 DEF TypeOK
  <2>3. /\ Unread(c)' \subseteq Unread(c) /\ Ascending(toServer'[c])
        /\ \A m \in Unread(c)' : m.conn = h.conn => h.n < m.n
    BY <1>1, <1>3, <2>2, PartOf DEF ClientInv, InOrder, Unread
  <2>4. Ascending(toClient'[c])
    BY <1>1, <1>2 DEF ClientInv, InOrder
  <2>5. InOrder(c)'
    BY <1>1, <1>3, <1>5, <1>7, <2>1, <2>3, <2>4 DEF ClientInv, InOrder, Before
  <2>6. Underway(c)' \subseteq Underway(c)
    BY <1>3, <1>5, <1>7, <2>1, <2>3 DEF Underway
  <2>7. ASSUME NEW x \in Underway(c)
        PROVE  x.conn = conn'[c] => LagOf(c, x)'
    <3>1. Polling(c)' <=> Polling(c)
      BY <1>2 DEF Polling
    <3>2. QED
      BY <1>1, <1>2, <3>1 DEF ClientInv, LagOf
  <2>8. QED
    BY <1>1, <1>2, <1>5, <1>7, <2>5, <2>6, <2>7 DEF ClientInv
<1>8. QED
  BY <1>6, <1>7

(* and appends its answer to earlier ones.                                 *)
LEMMA ReplyKeepsClients ==
  ASSUME IInv, TypeOK', Reply, NEW d \in Clients
  PROVE  ClientInv(d)'
<1> PICK c \in Clients : c = inHand.client
  BY DEF IInv, TypeOK, Messages, Reply, ReplyTo
<1>1. /\ TypeOK /\ ClientInv(d) /\ inHand \in Messages /\ inHand # None
      /\ c \in Clients /\ ClientInv(c)
  BY DEF IInv, TypeOK, Messages, Reply, ReplyTo
<1>2. /\ inHand' = None
      /\ UNCHANGED <<pc, conn, sent, timeouts, consumed, toServer>>
  BY DEF Reply, ReplyTo, callVars, clientVars
<1>3. \/ toClient' = toClient
      \/ /\ ConnectionStands
         /\ toClient' = [toClient EXCEPT ![c] = Append(@, inHand)]
  BY DEF Reply, ReplyTo, Put
<1>4. /\ AtWorker(d)' = {} /\ Unread(d)' = Unread(d)
      /\ (Polling(d) <=> Polling(d)')
  BY <1>2 DEF AtWorker, Unread, Polling
<1>5. AtWorker(c) = {inHand}
  BY <1>1 DEF AtWorker
<1>6. CASE toClient'[d] = toClient[d]
  <2>1. AtWorker(d)' \subseteq AtWorker(d)
    BY <1>4
  <2>2. QED
    BY <1>1, <1>2, <1>4, <1>6, <2>1, OthersKept
<1>7. CASE toClient'[d] # toClient[d]
  <2>1. d = c /\ ConnectionStands /\ toClient'[c] = Append(toClient[c], inHand)
    BY <1>1, <1>3, <1>7 DEF TypeOK
  <2>2. toClient[c] \in Seq(Messages)
    BY <1>1, UnderwayAreMessages
  <2>3. /\ Answers(c)' = Answers(c) \cup {inHand}
        /\ Ascending(toClient[c]) /\ (\A x \in Answers(c) : x.n < inHand.n)
             => Ascending(toClient'[c])
    BY <1>1, <2>1, <2>2, Appended DEF Answers
  <2>4. Ascending(toClient'[c]) /\ Ascending(toServer'[c])
    BY <1>1, <1>2, <1>5, <2>1, <2>3 DEF ClientInv, InOrder, Before, ConnectionStands
  <2>5. InOrder(c)'
    BY <1>1, <1>4, <1>5, <2>1, <2>3, <2>4 DEF ClientInv, InOrder, Before
  <2>6. Underway(c)' = Underway(c)
    BY <1>4, <1>5, <2>1, <2>3 DEF Underway
  <2>7. \A x \in Answers(c)' : x.conn = conn'[c]
    BY <1>1, <1>2, <2>1, <2>3 DEF ClientInv, ConnectionStands
  <2>8. ASSUME NEW x \in Underway(c), x.conn = conn[c]
        PROVE  LagOf(c, x)'
    BY <1>1, <1>2, <1>4, <2>1, <2>8 DEF ClientInv, LagOf
  <2>9. QED
    BY <1>1, <1>2, <2>1, <2>5, <2>6, <2>7, <2>8 DEF ClientInv
<1>8. QED
  BY <1>6, <1>7

-----------------------------------------------------------------------------
(* Every client keeps its invariant in every step.                         *)
LEMMA ClientsStep ==
  ASSUME IInv, TypeOK', [Next]_vars, NEW d \in Clients
  PROVE  ClientInv(d)'
<1>1. TypeOK /\ ClientInv(d)
  BY DEF IInv
<1>2. ASSUME NEW k \in Callers, Call(k) \/ Lock(k) PROVE ClientInv(d)'
  <2>1. /\ pc[k] # "polling" /\ \E to : pc' = [pc EXCEPT ![k] = to]
        /\ UNCHANGED <<conn, sent, timeouts, consumed, toClient, toServer, inHand>>
    BY <1>2 DEF Call, Lock, Enter, Goto, clientVars, pipes, serverVars
  <2>2. Polling(d) => Polling(d)'
    BY <1>1, <2>1, PollingKept
  <2>3. AtWorker(d)' \subseteq AtWorker(d)
    BY <2>1 DEF AtWorker
  <2>4. QED
    BY <1>1, <2>1, <2>2, <2>3, OthersKept
<1>3. ASSUME \/ UNCHANGED vars \/ HandlerThrows \/ LastPollEnds \/ ServerStop
             \/ \E c \in Clients : ClientStop(c)
      PROVE  ClientInv(d)'
  <2>1. /\ inHand' \in {inHand, None}
        /\ UNCHANGED <<pc, conn, sent, timeouts, consumed, toClient, toServer>>
    BY <1>3 DEF vars, HandlerThrows, LastPollEnds, ServerStop, ClientStop, callVars, clientVars,
                pipes, serverVars
  <2>2. (Polling(d) => Polling(d)') /\ AtWorker(d)' \subseteq AtWorker(d)
    BY <2>1 DEF AtWorker, Polling
  <2>3. QED
    BY <1>1, <2>1, <2>2, OthersKept
<1>4. CASE ServerReopen
  <2>1. UNCHANGED <<pc, conn, sent, timeouts, consumed, inHand>>
    BY <1>4 DEF ServerReopen, callVars
  <2>2. toServer'[d] \in Suffixes(toServer[d]) /\ toClient'[d] \in Prefixes(toClient[d])
    BY <1>4 DEF ServerReopen, OneOfEach, Waiting
  <2>3. Part(toServer'[d], toServer[d]) /\ Part(toClient'[d], toClient[d])
    BY <1>1, <2>2, UnderwayAreMessages, PrefixIsPart, SuffixIsPart
  <2>4. (Polling(d) => Polling(d)') /\ AtWorker(d)' \subseteq AtWorker(d)
    BY <2>1 DEF AtWorker, Polling
  <2>5. QED
    BY <1>1, <2>1, <2>3, <2>4, ClientKept
<1>5. QED
  BY <1>2, <1>3, <1>4, SendKeepsClients, ReceiveKeepsClients, TimeOutKeepsClients,
     ReopenKeepsClients, TryReceiveKeepsClients, ReplyKeepsClients
     DEF Next, CallStep, WorkerStep

(* The mutex.                                                              *)
LEMMA OneInsideStep ==
  ASSUME IInv, [Next]_vars
  PROVE  OneInside'
<1>1. TypeOK /\ OneInside
  BY DEF IInv
<1>2. ASSUME NEW k \in Callers, Lock(k) PROVE OneInside'
  <2>1. /\ MutexFree(ClientOf(k)) /\ pc' = [pc EXCEPT ![k] = "sending"]
    BY <1>2 DEF Lock, Enter, Goto
  <2>2. QED
    BY <1>1, <2>1 DEF MutexFree, OneInside, TypeOK
<1>3. ASSUME NEW k \in Callers, Call(k) \/ Send(k) \/ Receive(k) \/ TimeOut(k)
      PROVE  OneInside'
  <2>1. \/ pc' = [pc EXCEPT ![k] = "locking"] \/ pc' = [pc EXCEPT ![k] = "idle"]
        \/ pc[k] = "sending" /\ pc' = [pc EXCEPT ![k] = "polling"]
    BY <1>3 DEF Call, Send, Receive, TimeOut, Goto
  <2>2. \A l \in Callers :
          pc'[l] \in {"sending", "polling"} => pc[l] \in {"sending", "polling"}
    BY <1>1, <2>1 DEF TypeOK
  <2>3. QED
    BY <1>1, <2>2 DEF OneInside
<1>4. CASE UNCHANGED pc
  BY <1>1, <1>4 DEF OneInside
<1>5. QED
  BY <1>2, <1>3, <1>4
     DEF Next, CallStep, WorkerStep, vars, callVars, ClientStop, ClientReopen,
         Reply, ReplyTo, HandlerThrows, LastPollEnds, TryReceive, ServerStop, ServerReopen

(* A call returns what came first on the connection it polls.              *)
LEMMA HeadIsUnderway ==
  ASSUME IInv, NEW k \in Callers, pc[k] = "polling", toClient[ClientOf(k)] # <<>>
  PROVE  LET c == ClientOf(k)
             h == Head(toClient[c])
         IN /\ h \in Messages /\ h # None /\ mine[k] \in Messages
            /\ h.client = c /\ h.conn = mine[k].conn /\ mine[k].client = c
            /\ consumed[c] < h.n /\ h.n <= mine[k].n
            /\ mine[k].n <= h.n + timeouts[c]
<1> DEFINE c == ClientOf(k)
           h == Head(toClient[c])
<1>1. /\ c \in Clients /\ TypeOK /\ ClientInv(c) /\ CallerInv(k)
  BY ClientsOfCallers DEF IInv
<1>2. h \in Messages /\ h \in Answers(c) /\ h \in Underway(c)
  BY <1>1, UnderwayAreMessages, TakeHead DEF Answers, Underway
<1>3. Polling(c)
  BY DEF Polling
<1>4. /\ mine[k] \in Messages /\ mine[k].client = c /\ mine[k].conn = conn[c]
      /\ mine[k].n = sent[c]
  BY <1>1 DEF CallerInv, TypeOK
<1>5. /\ h.client = c /\ h.conn = conn[c] /\ consumed[c] < h.n /\ h.n <= sent[c]
      /\ sent[c] <= h.n + timeouts[c]
  BY <1>1, <1>2, <1>3 DEF ClientInv, LagOf
<1>6. QED
  BY <1>2, <1>4, <1>5, ZeroMqRequestAssumption

LEMMA CallersStep ==
  ASSUME IInv, [Next]_vars, NEW l \in Callers
  PROVE  CallerInv(l)'
<1>1. TypeOK /\ CallerInv(l) /\ OneInside
  BY DEF IInv
<1>2. ASSUME NEW k \in Callers, Call(k) PROVE CallerInv(l)'
  <2>1. /\ pc' = [pc EXCEPT ![k] = "locking"] /\ got' = [got EXCEPT ![k] = None]
        /\ mine' = [mine EXCEPT ![k] = None] /\ UNCHANGED <<conn, sent>>
    BY <1>2 DEF Call, Goto, clientVars
  <2>2. QED
    BY <1>1, <2>1 DEF TypeOK, CallerInv
<1>3. ASSUME NEW k \in Callers, Lock(k) PROVE CallerInv(l)'
  <2>1. /\ pc[k] = "locking" /\ pc' = [pc EXCEPT ![k] = "sending"]
        /\ UNCHANGED <<mine, got, conn, sent>>
    BY <1>3 DEF Lock, Enter, Goto, clientVars
  <2>2. QED
    BY <1>1, <2>1 DEF TypeOK, CallerInv
<1>4. ASSUME NEW k \in Callers, Send(k) PROVE CallerInv(l)'
  <2> DEFINE c == ClientOf(k)
             m == [client |-> c, conn |-> conn[c], n |-> sent[c] + 1]
  <2>1. /\ pc[k] = "sending" /\ pc' = [pc EXCEPT ![k] = "polling"]
        /\ sent' = [sent EXCEPT ![c] = m.n] /\ mine' = [mine EXCEPT ![k] = m]
        /\ UNCHANGED <<got, conn>>
    BY <1>4 DEF Send, Goto, clientVars
  <2>2. /\ m.client = c /\ m.conn = conn[c] /\ m \in Messages /\ c \in Clients
    <3>1. c \in Clients /\ conn[c] \in Nat /\ sent[c] + 1 \in Nat
      BY <1>1, ClientsOfCallers, UnderwayAreMessages
    <3>2. QED
      BY <3>1 DEF Messages
  <2> HIDE DEF m
  <2>3. CASE l = k
    BY <1>1, <2>1, <2>2, <2>3, ZeroMqRequestAssumption DEF TypeOK, CallerInv
  <2>4. CASE l # k
    <3>1. pc[l] = "polling" => ClientOf(l) # c
      BY <1>1, <2>1, <2>4 DEF OneInside
    <3>2. pc'[l] = pc[l] /\ mine'[l] = mine[l] /\ got'[l] = got[l]
      BY <1>1, <2>1, <2>4 DEF TypeOK
    <3>3. ClientOf(l) # c => sent'[ClientOf(l)] = sent[ClientOf(l)]
      BY <1>1, <2>1, ClientsOfCallers DEF TypeOK
    <3>4. QED
      BY <1>1, <2>1, <3>1, <3>2, <3>3 DEF CallerInv
  <2>5. QED
    BY <2>3, <2>4
<1>5. ASSUME NEW k \in Callers, Receive(k) PROVE CallerInv(l)'
  <2> DEFINE h == Head(toClient[ClientOf(k)])
  <2>1. /\ pc[k] = "polling" /\ pc' = [pc EXCEPT ![k] = "idle"]
        /\ toClient[ClientOf(k)] # <<>>
        /\ got' = [got EXCEPT ![k] = h] /\ UNCHANGED <<mine, conn, sent>>
    BY <1>5 DEF Receive, Goto, clientVars
  <2>2. /\ mine[k] # None /\ h.client = ClientOf(k) /\ h.conn = mine[k].conn
    BY <1>1, <2>1, HeadIsUnderway, ZeroMqRequestAssumption
  <2> HIDE DEF h
  <2>3. QED
    BY <1>1, <2>1, <2>2 DEF TypeOK, CallerInv
<1>6. ASSUME NEW k \in Callers, TimeOut(k) PROVE CallerInv(l)'
  <2>1. /\ pc[k] = "polling" /\ pc' = [pc EXCEPT ![k] = "idle"]
        /\ UNCHANGED <<mine, got, conn, sent>>
    BY <1>6 DEF TimeOut, Goto, clientVars
  <2>2. QED
    BY <1>1, <2>1 DEF TypeOK, CallerInv
<1>7. ASSUME NEW c \in Clients, ClientReopen(c) PROVE CallerInv(l)'
  <2>1. /\ MutexFree(c) /\ conn' = [conn EXCEPT ![c] = @ + 1]
        /\ UNCHANGED <<pc, mine, got, sent>>
    BY <1>7 DEF ClientReopen
  <2>2. pc[l] = "polling" => conn'[ClientOf(l)] = conn[ClientOf(l)]
    BY <1>1, <2>1, ClientsOfCallers DEF MutexFree, TypeOK
  <2>3. QED
    BY <1>1, <2>1, <2>2 DEF CallerInv
<1>8. CASE UNCHANGED <<pc, mine, got, sent, conn>>
  BY <1>1, <1>8 DEF CallerInv
<1>9. QED
  BY <1>2, <1>3, <1>4, <1>5, <1>6, <1>7, <1>8
     DEF Next, CallStep, WorkerStep, vars, callVars, clientVars, ClientStop,
         Reply, ReplyTo, HandlerThrows, LastPollEnds, TryReceive, ServerStop, ServerReopen

-----------------------------------------------------------------------------
(* IInv is inductive.  Beyond what a client can observe it says that the   *)
(* pipes and the server keep the order of the requests, and counts what    *)
(* may be underway: every request since one that is still to be answered   *)
(* has timed out, but for the one being polled for.                        *)
THEOREM IInvHolds == Spec => []IInv
<1>1. Init => IInv
  BY InitIInv
<1>2. IInv /\ [Next]_vars => IInv'
  <2> SUFFICES ASSUME IInv, [Next]_vars PROVE IInv'
    OBVIOUS
  <2>1. TypeOK'
    BY TypeStep DEF IInv
  <2>2. OneInside' /\ \A k \in Callers : CallerInv(k)'
    BY OneInsideStep, CallersStep
  <2>3. \A c \in Clients : ClientInv(c)'
    BY <2>1, ClientsStep
  <2>4. QED
    BY <2>1, <2>2, <2>3 DEF IInv
<1>3. QED
  BY <1>1, <1>2, PTL DEF Spec

(* Request returns an answer to a request of its own client, sent on the   *)
(* connection it sent its own on, whatever restarted meanwhile.            *)
THEOREM AnswersStay == Spec => []AnswersStayWithConnection
<1>1. IInv => AnswersStayWithConnection
  BY DEF IInv, CallerInv, AnswersStayWithConnection
<1>2. QED
  BY <1>1, IInvHolds, PTL

(* The answer a call takes is as many requests behind as calls have timed  *)
(* out on the connection, at most: none, if none did.                      *)
THEOREM LagIsBounded == Spec => []LagBoundedByTimeouts
<1>1. ASSUME IInv PROVE LagBoundedByTimeouts
  BY <1>1, HeadIsUnderway DEF LagBoundedByTimeouts
<1>2. QED
  BY <1>1, IInvHolds, PTL

(* Answers are taken in the order of the requests, none twice.             *)
THEOREM AnswersComeInOrder == Spec => AnswersInOrder
<1> DEFINE A == \A k \in Callers :
       pc[k] = "polling" /\ pc'[k] = "idle" /\ got'[k] # None =>
         consumed[ClientOf(k)] < got'[k].n
<1>1. ASSUME IInv, [Next]_vars PROVE [A]_vars
  <2> SUFFICES ASSUME NEW l \in Callers, pc[l] = "polling", pc'[l] = "idle",
                      got'[l] # None
               PROVE  consumed[ClientOf(l)] < got'[l].n
    OBVIOUS
  <2>1. TypeOK /\ CallerInv(l)
    BY <1>1 DEF IInv
  <2>2. PICK k \in Callers : Call(k) \/ CallStep(k)
    BY <1>1 DEF Next, vars, callVars, ClientStop, ClientReopen, WorkerStep, Reply,
            ReplyTo, HandlerThrows, LastPollEnds, TryReceive, ServerStop, ServerReopen
  <2>3. l = k
    <3>1. \E to : pc' = [pc EXCEPT ![k] = to]
      BY <2>2 DEF CallStep, Call, Lock, Enter, Send, Receive, TimeOut, Goto
    <3>2. QED
      BY <2>1, <3>1 DEF TypeOK
  <2>4. Receive(l)
    BY <2>1, <2>2, <2>3 DEF CallStep, Call, Lock, Enter, Send, TimeOut, Goto, CallerInv
  <2>5. toClient[ClientOf(l)] # <<>> /\ got'[l] = Head(toClient[ClientOf(l)])
    BY <2>1, <2>4 DEF Receive, TypeOK
  <2>6. QED
    BY <1>1, <2>5, HeadIsUnderway
<1>2. QED
  BY <1>1, IInvHolds, PTL DEF Spec, AnswersInOrder

-----------------------------------------------------------------------------
(* The steps of the transport as steps of RequestReply.                    *)
Calls == [k \in Callers |-> IF pc[k] = "idle" THEN "idle" ELSE "pending"]
Results == [k \in Callers |-> Outcome(k)]
Behind == [c \in Clients |-> timeouts[c] > 0]

LEMMA OutcomeKept ==
  ASSUME NEW k \in Callers, UNCHANGED <<pc[k], mine[k], got[k]>>
  PROVE  Outcome(k)' = Outcome(k)
BY DEF Outcome

LEMMA BehindBecomes ==
  ASSUME NEW c \in Clients, NEW b, (timeouts'[c] > 0) = b,
         \A d \in Clients : d # c => timeouts'[d] = timeouts[d]
  PROVE  Behind' = [Behind EXCEPT ![c] = b]
<1>1. \A d \in Clients : d # c => Behind'[d] = Behind[d]
  BY DEF Behind
<1>2. Behind'[c] = b
  BY DEF Behind
<1>3. Behind = [d \in Clients |-> Behind[d]] /\ Behind' = [d \in Clients |-> Behind'[d]]
  BY DEF Behind
<1>4. QED
  BY <1>1, <1>2, <1>3

LEMMA CallPromised ==
  ASSUME IInv, NEW k \in Callers, Call(k)
  PROVE  Promise!Call(k)
<1>1. TypeOK
  BY DEF IInv
<1>2. /\ pc[k] = "idle" /\ pc' = [pc EXCEPT ![k] = "locking"]
      /\ got' = [got EXCEPT ![k] = None] /\ mine' = [mine EXCEPT ![k] = None]
      /\ UNCHANGED timeouts
  BY DEF Call, Goto
<1>3. Calls[k] = "idle" /\ Calls' = [Calls EXCEPT ![k] = "pending"]
  BY <1>1, <1>2 DEF TypeOK, Calls
<1>4. Outcome(k)' = "none"
  BY <1>1, <1>2 DEF TypeOK, Outcome
<1>5. ASSUME NEW l \in Callers, l # k PROVE Outcome(l)' = Outcome(l)
  <2>1. UNCHANGED <<pc[l], mine[l], got[l]>>
    BY <1>1, <1>2, <1>5 DEF TypeOK
  <2>2. QED
    BY <2>1, OutcomeKept
<1>6. Results' = [Results EXCEPT ![k] = "none"]
  BY <1>4, <1>5 DEF Results
<1>7. Behind' = Behind
  BY <1>2 DEF Behind
<1>8. QED
  BY <1>3, <1>6, <1>7 DEF Promise!Call, Calls, Results, Behind

(* Locking and sending are invisible.                                      *)
LEMMA ProgressPromised ==
  ASSUME IInv, NEW k \in Callers, Lock(k) \/ Send(k)
  PROVE  UNCHANGED <<Calls, Results, Behind>>
<1>1. TypeOK
  BY DEF IInv
<1>2. /\ pc[k] # "idle" /\ \E to \in {"sending", "polling"} : pc' = [pc EXCEPT ![k] = to]
      /\ \A l \in Callers : l # k => mine'[l] = mine[l]
      /\ UNCHANGED <<got, timeouts>>
  BY <1>1 DEF Lock, Enter, Send, Goto, TypeOK
<1>3. pc'[k] # "idle" /\ \A l \in Callers : l # k => pc'[l] = pc[l]
  BY <1>1, <1>2 DEF TypeOK
<1>4. ASSUME NEW l \in Callers PROVE Outcome(l)' = Outcome(l)
  <2>1. CASE l = k
    BY <1>2, <1>3, <2>1 DEF Outcome
  <2>2. CASE l # k
    BY <1>2, <1>3, <2>2, OutcomeKept
  <2>3. QED
    BY <2>1, <2>2
<1>5. Calls' = Calls /\ Results' = Results
  BY <1>2, <1>3, <1>4 DEF Calls, Results
<1>6. QED
  BY <1>2, <1>5 DEF Behind

(* The end of a call: its result is its own, the others keep theirs.       *)
LEMMA EndPromised ==
  ASSUME IInv, NEW k \in Callers, pc[k] = "polling",
         pc' = [pc EXCEPT ![k] = "idle"], mine' = mine,
         \A l \in Callers : l # k => got'[l] = got[l],
         NEW how, Outcome(k)' = how
  PROVE  Promise!End(k, how)
<1>1. TypeOK
  BY DEF IInv
<1>2. Calls[k] = "pending" /\ Calls' = [Calls EXCEPT ![k] = "idle"]
  BY <1>1 DEF TypeOK, Calls
<1>3. ASSUME NEW l \in Callers, l # k PROVE Outcome(l)' = Outcome(l)
  <2>1. UNCHANGED <<pc[l], mine[l], got[l]>>
    BY <1>1, <1>3 DEF TypeOK
  <2>2. QED
    BY <2>1, OutcomeKept
<1>4. Results' = [Results EXCEPT ![k] = how]
  BY <1>3 DEF Results
<1>5. QED
  BY <1>2, <1>4 DEF Promise!End, Calls, Results

LEMMA ReceivePromised ==
  ASSUME IInv, NEW k \in Callers, Receive(k)
  PROVE  Promise!Return(k) \/ Promise!ReturnEarlier(k)
<1> DEFINE c == ClientOf(k)
           h == Head(toClient[c])
<1>1. TypeOK /\ c \in Clients
  BY ClientsOfCallers DEF IInv
<1>2. /\ pc[k] = "polling" /\ pc' = [pc EXCEPT ![k] = "idle"] /\ toClient[c] # <<>>
      /\ got' = [got EXCEPT ![k] = h] /\ mine' = mine /\ timeouts' = timeouts
  BY DEF Receive, Goto
<1>3. /\ h \in Messages /\ h # None /\ mine[k] \in Messages
      /\ h.client = mine[k].client /\ h.conn = mine[k].conn
      /\ h.n <= mine[k].n /\ mine[k].n <= h.n + timeouts[c]
  BY <1>2, HeadIsUnderway
<1> HIDE DEF h, c
<1>4. /\ pc'[k] = "idle" /\ got'[k] = h /\ mine'[k] = mine[k] /\ mine[k] # None
      /\ \A l \in Callers : l # k => got'[l] = got[l]
  BY <1>1, <1>2, <1>3, ZeroMqRequestAssumption DEF TypeOK
<1>5. Behind' = Behind
  BY <1>2 DEF Behind
<1>6. CASE h = mine[k]
  <2>1. Outcome(k)' = "own"
    BY <1>3, <1>4, <1>6 DEF Outcome
  <2>2. Promise!End(k, "own")
    BY <1>2, <1>4, <2>1, EndPromised
  <2>3. QED
    BY <1>5, <2>2 DEF Promise!Return, Behind
<1>7. CASE h # mine[k]
  <2>1. h.n # mine[k].n
    BY <1>3, <1>7 DEF Messages
  <2>2. h.n < mine[k].n /\ timeouts[c] > 0
    BY <1>1, <1>3, <2>1 DEF Messages, TypeOK
  <2>3. Outcome(k)' = "earlier"
    BY <1>3, <1>4, <1>7, <2>2 DEF Outcome
  <2>4. Behind[k[1]]
    BY <1>1, <2>2 DEF Behind, ClientOf, c
  <2>5. Promise!End(k, "earlier")
    BY <1>2, <1>4, <2>3, EndPromised
  <2>6. QED
    BY <1>5, <2>4, <2>5 DEF Promise!ReturnEarlier, Behind
<1>8. QED
  BY <1>6, <1>7

LEMMA TimeOutPromised ==
  ASSUME IInv, NEW k \in Callers, TimeOut(k)
  PROVE  Promise!Throw(k)
<1> DEFINE c == ClientOf(k)
<1>1. TypeOK /\ c \in Clients /\ CallerInv(k)
  BY ClientsOfCallers DEF IInv
<1>2. /\ pc[k] = "polling" /\ pc' = [pc EXCEPT ![k] = "idle"]
      /\ timeouts' = [timeouts EXCEPT ![c] = @ + 1] /\ UNCHANGED <<mine, got>>
  BY DEF TimeOut, Goto
<1> HIDE DEF c
<1>3. pc'[k] = "idle" /\ mine'[k] # None /\ got'[k] = None
  BY <1>1, <1>2 DEF CallerInv, TypeOK
<1>4. Outcome(k)' = "threw"
  BY <1>3 DEF Outcome
<1>5. Promise!End(k, "threw")
  BY <1>2, <1>4, EndPromised
<1>6. Behind' = [Behind EXCEPT ![c] = TRUE]
  <2>1. /\ timeouts'[c] > 0
        /\ \A d \in Clients : d # c => timeouts'[d] = timeouts[d]
    BY <1>1, <1>2 DEF TypeOK
  <2>2. (timeouts'[c] > 0) = TRUE
    BY <2>1
  <2>3. QED
    BY <1>1, <2>1, <2>2, BehindBecomes
<1>7. QED
  BY <1>5, <1>6 DEF Promise!Throw, Behind, ClientOf, c

LEMMA ReopenPromised ==
  ASSUME IInv, NEW c \in Clients, ClientReopen(c)
  PROVE  Promise!Restart(c)
<1>1. timeouts' = [timeouts EXCEPT ![c] = 0] /\ UNCHANGED <<pc, mine, got>>
  BY DEF ClientReopen
<1>2. Behind' = [Behind EXCEPT ![c] = FALSE]
  <2>1. /\ timeouts'[c] = 0
        /\ \A d \in Clients : d # c => timeouts'[d] = timeouts[d]
    BY <1>1 DEF IInv, TypeOK
  <2>2. (timeouts'[c] > 0) = FALSE
    BY <2>1
  <2>3. QED
    BY <2>1, <2>2, BehindBecomes
<1>3. Calls' = Calls /\ Results' = Results
  BY <1>1 DEF Calls, Results, Outcome
<1>4. QED
  BY <1>2, <1>3 DEF Promise!Restart, Behind, Calls, Results

(* Without a correlation id, and with a client that does not take requests *)
(* back, a call still keeps what RequestReply promises: it throws, returns *)
(* its own answer, or, only after a call of this client has thrown since   *)
(* it was started, an earlier one.                                         *)
THEOREM TransportKeepsPromise == Spec => KeepsPromise
<1>1. ASSUME Init PROVE Promise!Init
  <2>1. \A c \in Clients : timeouts[c] = 0
    BY <1>1 DEF Init
  <2>2. \A c \in Clients : (timeouts[c] > 0) = FALSE
    BY <2>1
  <2>3. Behind = [c \in Clients |-> FALSE]
    BY <2>2 DEF Behind
  <2>4. /\ Calls = [k \in Callers |-> "idle"]
        /\ Results = [k \in Callers |-> "none"]
    BY <1>1 DEF Init, Calls, Results, Outcome
  <2>5. QED
    BY <2>3, <2>4 DEF Promise!Init, Calls, Results, Behind
<1>2. IInv /\ [Next]_vars => [Promise!Next]_<<Calls, Results, Behind>>
  <2> SUFFICES ASSUME IInv, [Next]_vars
               PROVE  [Promise!Next]_<<Calls, Results, Behind>>
    OBVIOUS
  <2>1. ASSUME NEW k \in Callers, Call(k) \/ CallStep(k)
        PROVE  [Promise!Next]_<<Calls, Results, Behind>>
    BY <2>1, CallPromised, ProgressPromised, ReceivePromised, TimeOutPromised
       DEF CallStep, Promise!Next
  <2>2. ASSUME NEW c \in Clients, ClientReopen(c)
        PROVE  [Promise!Next]_<<Calls, Results, Behind>>
    BY <2>2, ReopenPromised DEF Promise!Next
  <2>3. CASE UNCHANGED <<pc, mine, got, timeouts>>
    BY <2>3 DEF Calls, Results, Behind, Outcome
  <2>4. QED
    BY <2>1, <2>2, <2>3
       DEF Next, WorkerStep, vars, callVars, ClientStop, Reply, ReplyTo,
           HandlerThrows, LastPollEnds, TryReceive, ServerStop, ServerReopen
<1>3. QED
  BY <1>1, <1>2, IInvHolds, PTL
     DEF Spec, KeepsPromise, Promise!Safety, Promise!promise, Calls, Results, Behind
=============================================================================
