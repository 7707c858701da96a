--------------------------- MODULE ZeroMqRequest ---------------------------
(***************************************************************************)
(* Request over ZeroMQ: DdsZeroMqTransport                                 *)
(* (src/src/dds_zeromq_transport.cpp) of several clients, each with its    *)
(* DEALER socket and several threads calling Request, and of one server    *)
(* with its ROUTER socket and its worker.                                  *)
(*                                                                         *)
(* A connection carries two pipes, one for each direction, whose capacity  *)
(* HighWater stands for the high-water marks of the two sockets.  A DEALER *)
(* blocks in send when its pipe is full; a ROUTER drops what it cannot     *)
(* pass on.  No correlation id travels: a message is [client, conn, n],    *)
(* the n-th request of a client on its connection conn, or the answer      *)
(* computed from it, and the client does not look at any of the three.     *)
(***************************************************************************)
EXTENDS SequencesExt

CONSTANTS
  Clients,      \* client nodes
  Callers,      \* pairs of a client and a thread of it that calls Request
  HighWater,    \* capacity of a pipe
  Reconnects,   \* does a DEALER reconnect (tcp: yes, inproc: no)?
  MaxRequests,  \* bound: how many requests each client sends before it rests
  MaxReopens,   \* bound: how often each client stops
  MaxRestarts,  \* bound: how often the server stops
  None          \* no message

Messages == [client : Clients, conn : Nat, n : Nat]

ASSUME ZeroMqRequestAssumption ==
  /\ \A k \in Callers : k[1] \in Clients
  /\ HighWater \in Nat \ {0} /\ Reconnects \in BOOLEAN
  /\ MaxRequests \in [Clients -> Nat] /\ MaxReopens \in [Clients -> Nat]
  /\ MaxRestarts \in Nat
  /\ None \notin Messages

ClientOf(k) == k[1]

VARIABLES
  pc,          \* where each caller is in Request
  mine,        \* the request it sent
  got,         \* what Request returned, or None when it threw
  clientOpen,  \* is_open_ of the client
  conn,        \* which connection its DEALER is
  linked,      \* is that connection one to the server's present ROUTER?
  sent,        \* requests it sent so far
  timeouts,    \* calls that timed out on this connection
  consumed,    \* number of the request whose answer it received last
  toServer,    \* pipe of requests, of each client
  toClient,    \* pipe of answers, of each client
  serverOpen,  \* is_open_ of the server
  restarts,    \* how often the server was stopped
  lastPoll,    \* is its worker still in a poll from before the stop?
  inHand       \* the request its worker is at, or None

callVars == <<pc, mine, got, sent, timeouts, consumed>>
clientVars == <<clientOpen, conn, linked>>
pipes == <<toServer, toClient>>
serverVars == <<serverOpen, restarts, lastPoll, inHand>>
vars == <<callVars, clientVars, pipes, serverVars>>

Init ==
  /\ pc = [k \in Callers |-> "idle"]
  /\ mine = [k \in Callers |-> None] /\ got = mine
  /\ clientOpen = [c \in Clients |-> TRUE] /\ linked = clientOpen
  /\ conn = [c \in Clients |-> 0]
  /\ sent = conn /\ timeouts = conn /\ consumed = conn
  /\ toServer = [c \in Clients |-> <<>>] /\ toClient = toServer
  /\ serverOpen = TRUE /\ restarts = 0 /\ lastPoll = FALSE /\ inHand = None

Goto(k, from, to) == pc[k] = from /\ pc' = [pc EXCEPT ![k] = to]
Put(pipe, c, m) == [pipe EXCEPT ![c] = Append(@, m)]

(* request_mutex_ of a client: a thread that holds it is sending or        *)
(* polling.                                                                *)
MutexFree(c) ==
  \A k \in Callers : ClientOf(k) = c => pc[k] \notin {"sending", "polling"}

(* send does not block: there is a connection, with room in its pipe.      *)
(* What an earlier connection left with the server does not count.         *)
Room(c) ==
  linked[c] /\ Len(SelectSeq(toServer[c], LAMBDA m : m.conn = conn[c])) < HighWater

-----------------------------------------------------------------------------
(* Request.                                                                *)

(* The check of is_open_ comes before the lock and is not repeated.  When  *)
(* it fails, Request throws and nothing else has happened.                 *)
Call(k) ==
  /\ clientOpen[ClientOf(k)]
  /\ sent[ClientOf(k)] < MaxRequests[ClientOf(k)]
  /\ Goto(k, "idle", "locking")
  /\ got' = [got EXCEPT ![k] = None]
  /\ mine' = [mine EXCEPT ![k] = None]
  /\ UNCHANGED <<sent, timeouts, consumed, clientVars, pipes, serverVars>>

Enter(k) ==
  /\ Goto(k, "locking", "sending")
  /\ UNCHANGED <<mine, got, sent, timeouts, consumed, clientVars, pipes, serverVars>>

(* A slip: no lock.                                                        *)
LockNothing(k) == Enter(k)
Lock(k) == Enter(k) /\ MutexFree(ClientOf(k))

(* send_flags::none: waits, without a timeout, for a peer and for room.    *)
Send(k) ==
  LET c == ClientOf(k)
      m == [client |-> c, conn |-> conn[c], n |-> sent[c] + 1]
  IN /\ Goto(k, "sending", "polling")
     /\ Room(c)
     /\ toServer' = Put(toServer, c, m)
     /\ sent' = [sent EXCEPT ![c] = m.n]
     /\ mine' = [mine EXCEPT ![k] = m]
     /\ UNCHANGED <<got, timeouts, consumed, clientVars, toClient, serverVars>>

(* The first message in the pipe is the answer, whichever request it       *)
(* belongs to.                                                             *)
Receive(k) ==
  LET c == ClientOf(k)
  IN /\ Goto(k, "polling", "idle")
     /\ toClient[c] # <<>>
     /\ got' = [got EXCEPT ![k] = Head(toClient[c])]
     /\ consumed' = [consumed EXCEPT ![c] = Head(toClient[c]).n]
     /\ toClient' = [toClient EXCEPT ![c] = Tail(@)]
     /\ UNCHANGED <<mine, sent, timeouts, clientVars, toServer, serverVars>>

(* A slip: poll without the timeout.                                       *)
TimeOutNever(k) == pc[k] = "polling" /\ FALSE

(* The request is not taken back and its answer is not awaited by anybody. *)
TimeOut(k) ==
  /\ Goto(k, "polling", "idle")
  /\ toClient[ClientOf(k)] = <<>>
  /\ timeouts' = [timeouts EXCEPT ![ClientOf(k)] = @ + 1]
  /\ UNCHANGED <<mine, got, sent, consumed, clientVars, pipes, serverVars>>

-----------------------------------------------------------------------------
(* Stop and Start of a client.                                             *)

(* Close only lowers the flag: the socket and its pipes stay.              *)
ClientStop(c) ==
  /\ clientOpen[c] /\ conn[c] < MaxReopens[c]
  /\ clientOpen' = [clientOpen EXCEPT ![c] = FALSE]
  /\ UNCHANGED <<callVars, conn, linked, pipes, serverVars>>

(* Open replaces the socket, which nobody may be using; a thread between   *)
(* its check and the mutex goes on with the new one.  What had not left    *)
(* for the server yet is lost, and so are the answers that had arrived.    *)
ClientReopen(c) ==
  /\ ~clientOpen[c]
  /\ MutexFree(c)
  /\ clientOpen' = [clientOpen EXCEPT ![c] = TRUE]
  /\ conn' = [conn EXCEPT ![c] = @ + 1]
  /\ linked' = [linked EXCEPT ![c] = TRUE]
  /\ timeouts' = [timeouts EXCEPT ![c] = 0]
  /\ toClient' = [toClient EXCEPT ![c] = <<>>]
  /\ \E left \in Prefixes(toServer[c]) : toServer' = [toServer EXCEPT ![c] = left]
  /\ UNCHANGED <<pc, mine, got, sent, consumed, serverVars>>

-----------------------------------------------------------------------------
(* The server: its worker (TryReceive, handler, Reply), Stop and Start.    *)

(* ROUTER takes from its connections in turn: what it receives is the      *)
(* first message of any of them.                                           *)
Firsts(s) == {i \in DOMAIN s : \A j \in DOMAIN s : j < i => s[j].conn # s[i].conn}

(* is_open_ and stop_requested_ are read before the poll only: a request   *)
(* that comes to a poll which was under way is taken after the stop.       *)
TryReceive(c) ==
  /\ serverOpen \/ lastPoll
  /\ inHand = None
  /\ \E i \in Firsts(toServer[c]) :
       /\ inHand' = toServer[c][i]
       /\ toServer' = [toServer EXCEPT ![c] = RemoveAt(@, i)]
  /\ lastPoll' = FALSE
  /\ UNCHANGED <<callVars, clientVars, toClient, serverOpen, restarts>>

(* At its timeout; a request may still be on its way then.                 *)
LastPollEnds ==
  /\ lastPoll /\ lastPoll' = FALSE
  /\ UNCHANGED <<callVars, clientVars, pipes, serverOpen, restarts, inHand>>

(* ROUTER finds the connection by the identity that came with the request  *)
(* (known says whether it does); an answer for a connection that is gone,  *)
(* or has no room, is dropped, and Reply returns silently when the server  *)
(* was closed meanwhile.                                                   *)
ReplyTo(known, next) ==
  /\ inHand # None
  /\ toClient' = IF serverOpen /\ known /\ Len(toClient[inHand.client]) < HighWater
                   THEN Put(toClient, inHand.client, inHand) ELSE toClient
  /\ inHand' = next
  /\ UNCHANGED <<callVars, clientVars, toServer, serverOpen, restarts, lastPoll>>

ConnectionStands == conn[inHand.client] = inHand.conn

(* A slip: the message stays current, and is answered once more.           *)
ReplyAgain == ReplyTo(ConnectionStands, inHand)
(* A slip: clients pass a routing id of their own, which they keep over    *)
(* restarts, and answers are sent to that.                                 *)
ReplyByClient == ReplyTo(TRUE, None)
Reply == ReplyTo(ConnectionStands, None)

HandlerThrows ==
  /\ inHand # None
  /\ inHand' = None
  /\ UNCHANGED <<callVars, clientVars, pipes, serverOpen, restarts, lastPoll>>

(* The worker is handling a request, or between two polls, or in one.      *)
ServerStop ==
  /\ serverOpen /\ restarts < MaxRestarts
  /\ serverOpen' = FALSE
  /\ restarts' = restarts + 1
  /\ lastPoll' \in {FALSE, inHand = None}
  /\ UNCHANGED <<callVars, clientVars, pipes, inHand>>

(* What waits in a client while the ROUTER is replaced, and is sent after  *)
(* the client has reconnected, if it does.                                 *)
Waiting(c) ==
  {s \in Suffixes(toServer[c]) :
     s # <<>> => Reconnects /\ \A i \in DOMAIN s : s[i].conn = conn[c]}

OneOfEach(options(_)) ==
  {f \in [Clients -> UNION {options(c) : c \in Clients}] :
     \A c \in Clients : f[c] \in options(c)}

(* Open replaces the ROUTER: what had reached it is lost; an answer under  *)
(* way may still arrive or be lost.                                        *)
ServerReopen ==
  /\ ~serverOpen /\ ~lastPoll /\ inHand = None
  /\ serverOpen' = TRUE
  /\ toServer' \in OneOfEach(Waiting)
  /\ toClient' \in OneOfEach(LAMBDA c : Prefixes(toClient[c]))
  /\ linked' = [c \in Clients |-> linked[c] /\ Reconnects]
  /\ UNCHANGED <<callVars, clientOpen, conn, restarts, lastPoll, inHand>>

-----------------------------------------------------------------------------
CallStep(k) == Lock(k) \/ Send(k) \/ Receive(k) \/ TimeOut(k)
WorkerStep ==
  Reply \/ HandlerThrows \/ LastPollEnds \/ \E c \in Clients : TryReceive(c)

Next ==
  \/ \E k \in Callers : Call(k) \/ CallStep(k)
  \/ \E c \in Clients : ClientStop(c) \/ ClientReopen(c)
  \/ WorkerStep
  \/ ServerStop \/ ServerReopen

(* Threads of a client that can run do run, and poll returns at its        *)
(* timeout.  Nobody has to call, stop or start anything, and nothing is    *)
(* assumed of the server: it may stop reading or answering for good.       *)
Fairness == \A k \in Callers : WF_vars(CallStep(k))

Spec == Init /\ [][Next]_vars
FairSpec == Spec /\ Fairness

-----------------------------------------------------------------------------
(* The values of the variables; the answers a call returns are messages.   *)
TypeOK ==
  /\ pc \in [Callers -> {"idle", "locking", "sending", "polling"}]
  /\ mine \in [Callers -> Messages \cup {None}]
  /\ got \in [Callers -> Messages \cup {None}]
  /\ clientOpen \in [Clients -> BOOLEAN]
  /\ conn \in [Clients -> Nat]
  /\ linked \in [Clients -> BOOLEAN]
  /\ sent \in [Clients -> Nat]
  /\ timeouts \in [Clients -> Nat]
  /\ consumed \in [Clients -> Nat]
  /\ toServer \in [Clients -> Seq(Messages)]
  /\ toClient \in [Clients -> Seq(Messages)]
  /\ serverOpen \in BOOLEAN
  /\ restarts \in Nat
  /\ lastPoll \in BOOLEAN
  /\ inHand \in Messages \cup {None}

(* An answer goes to the client and the connection its request came from,  *)
(* with several clients, and with clients that stop and start while the    *)
(* server is at their requests.                                            *)
AnswersStayWithConnection ==
  \A k \in Callers :
    pc[k] = "idle" /\ got[k] # None =>
      got[k].client = ClientOf(k) /\ got[k].conn = mine[k].conn

(* The answer a call is about to take lags behind its request by no more   *)
(* than the calls that timed out on this connection, and never runs ahead. *)
(* Without a timeout it is the answer to this very request, however many   *)
(* threads call, and whatever the server has lost.                         *)
LagBoundedByTimeouts ==
  \A k \in Callers :
    LET c == ClientOf(k)
    IN pc[k] = "polling" /\ toClient[c] # <<>> =>
         /\ Head(toClient[c]).n <= mine[k].n
         /\ mine[k].n <= Head(toClient[c]).n + timeouts[c]

(* A client takes its answers in the order of its requests, and no answer  *)
(* twice, over restarts of either side.                                    *)
AnswersInOrder ==
  [][\A k \in Callers :
       pc[k] = "polling" /\ pc'[k] = "idle" /\ got'[k] # None =>
         consumed[ClientOf(k)] < got'[k].n]_vars

(* Request returns the answer to the request it sent.                      *)
RepliesMatch ==
  \A k \in Callers : pc[k] = "idle" /\ got[k] # None => got[k] = mine[k]

(* Request returns or throws.                                              *)
RequestReturns == \A k \in Callers : pc[k] # "idle" ~> pc[k] = "idle"

(* A thread of the client is in send and waits for a peer or for room.     *)
SendBlocks(c) ==
  ~Room(c) /\ \E k \in Callers : ClientOf(k) = c /\ pc[k] = "sending"

(* Only a send that blocks for good, of this thread or of another one of   *)
(* the client that has the mutex, keeps Request from returning or          *)
(* throwing: not an answer that is lost, not a server that is down once    *)
(* the request is sent, not a pipe that is full for a while.               *)
RequestReturnsOrSendBlocks ==
  \A k \in Callers :
    pc[k] # "idle" ~> pc[k] = "idle" \/ []SendBlocks(ClientOf(k))

(* The abstract specification.                                             *)
Outcome(k) ==
  IF pc[k] # "idle" \/ mine[k] = None THEN "none"
  ELSE IF got[k] = None THEN "threw"
  ELSE IF got[k] = mine[k] THEN "own"
  ELSE IF got[k].conn = mine[k].conn /\ got[k].n < mine[k].n THEN "earlier"
  ELSE "other"

Promise == INSTANCE RequestReply WITH
  call <- [k \in Callers |-> IF pc[k] = "idle" THEN "idle" ELSE "pending"],
  result <- [k \in Callers |-> Outcome(k)],
  behind <- [c \in Clients |-> timeouts[c] > 0]

(* However the threads of a client and the restarts of both sides          *)
(* interleave, a call throws, or returns the answer to its own request;    *)
(* it returns an earlier one only after a call of its client has thrown.   *)
KeepsPromise == Promise!Safety

-----------------------------------------------------------------------------
(***************************************************************************)
(* The inductive invariant.  Underway are the requests whose answer a      *)
(* client may still receive, and those that an earlier session left.       *)
(***************************************************************************)
Answers(c) == ToSet(toClient[c])
AtWorker(c) == {m \in {inHand} \ {None} : m.client = c}
Unread(c) == ToSet(toServer[c])
Underway(c) == Answers(c) \cup AtWorker(c) \cup Unread(c)

Ascending(s) == \A i, j \in DOMAIN s : i < j => s[i].n < s[j].n
Before(A, B) == \A a \in A, b \in B : a.conn = b.conn => a.n < b.n

(* The server and the pipes keep the order of the requests of a connection.*)
InOrder(c) ==
  /\ Ascending(toClient[c]) /\ Ascending(toServer[c])
  /\ Before(Answers(c), AtWorker(c) \cup Unread(c))
  /\ Before(AtWorker(c), Unread(c))

Polling(c) == \E k \in Callers : ClientOf(k) = c /\ pc[k] = "polling"

(* Of the requests since m on its connection, all but the one being polled *)
(* for have timed out: none of them can have been answered before m.       *)
LagOf(c, m) ==
  IF Polling(c) THEN sent[c] <= m.n + timeouts[c] ELSE sent[c] < m.n + timeouts[c]

ClientInv(c) ==
  /\ InOrder(c)
  /\ consumed[c] <= sent[c]
  /\ \A m \in Answers(c) : m.conn = conn[c]
  /\ \A m \in Underway(c) :
       /\ m.client = c /\ m.conn <= conn[c]
       /\ m.n <= sent[c]
       /\ m.conn = conn[c] => consumed[c] < m.n /\ LagOf(c, m)

(* request_mutex_.                                                         *)
OneInside ==
  \A k, l \in Callers :
    /\ ClientOf(k) = ClientOf(l)
    /\ pc[k] \in {"sending", "polling"} /\ pc[l] \in {"sending", "polling"}
    => k = l

CallerInv(k) ==
  /\ pc[k] # "idle" => got[k] = None
  /\ mine[k] # None => mine[k].client = ClientOf(k)
  /\ pc[k] = "polling" =>
       /\ mine[k] # None
       /\ mine[k].conn = conn[ClientOf(k)] /\ mine[k].n = sent[ClientOf(k)]
  /\ got[k] # None =>
       mine[k] # None /\ got[k].client = ClientOf(k) /\ got[k].conn = mine[k].conn

IInv ==
  /\ TypeOK
  /\ OneInside
  /\ \A k \in Callers : CallerInv(k)
  /\ \A c \in Clients : ClientInv(c)
=============================================================================
