------------------------------ MODULE Broadcast ------------------------------
(***************************************************************************)
(* The broadcast channel: threads of a server that publish, a client that  *)
(* subscribes, its owner and its worker, over DdsZeroMqTransport           *)
(* (src/src/dds_zeromq_transport.cpp) or DdsZenohTransport                 *)
(* (src/src/dds_zenoh_transport.cpp).                                      *)
(*                                                                         *)
(* Both transports go through the same steps and differ in where messages  *)
(* wait: in the SUB socket, which Open replaces; or in queue_, filled by   *)
(* on_sample on a thread of Zenoh, which nothing empties.  A message is    *)
(* named by its number and by the subscription that receives it.           *)
(***************************************************************************)
EXTENDS Naturals, Sequences

CONSTANTS
  Publishers,   \* threads of the server that call Publish
  MaxMessages,  \* bound on the messages sent
  MaxSessions   \* bound on how often the client is started

ASSUME BroadcastAssumption == MaxMessages \in Nat /\ MaxSessions \in Nat

VARIABLES
  backend,        \* the transport, as MakeTransport chose it
  serverOpen,     \* is_open_ of the server's transport
  pub,            \* where each publisher is in Publish
  sent,           \* messages sent so far
  wire,           \* messages on their way to the subscription, or in its SUB
  sampling,       \* messages whose on_sample is running
  queue,          \* queue_
  owner,          \* where the client's owner is in Start or Stop
  isOpen,         \* is_open_ of the client's transport
  subscription,   \* number of the last subscription
  subscribed,     \* it is there: a SUB socket, or subscriber_
  stopRequested,  \* stop_requested_
  wpc,            \* where the client's worker is
  handled         \* the messages passed to the broadcast handler

vars == <<backend, serverOpen, pub, sent, wire, sampling, queue, owner, isOpen,
          subscription, subscribed, stopRequested, wpc, handled>>
serverVars == <<backend, serverOpen, pub, sent>>
arrivalVars == <<sampling, queue>>
ownerVars == <<owner, isOpen, subscription, subscribed, stopRequested>>
workerVars == <<wpc, handled>>

Init ==
  /\ backend \in {"zenoh", "zeromq"}
  /\ serverOpen = FALSE
  /\ pub = [p \in Publishers |-> "idle"]
  /\ sent = 0
  /\ wire = <<>> /\ sampling = {} /\ queue = <<>>
  /\ owner = "stopped" /\ isOpen = FALSE
  /\ subscription = 0 /\ subscribed = FALSE
  /\ stopRequested = FALSE
  /\ wpc = "absent" /\ handled = <<>>

-----------------------------------------------------------------------------
(* The server.  A thread between its check and its send would use a socket *)
(* that Open destroys, which is undefined.                                 *)
ServerOpen ==
  /\ ~serverOpen /\ serverOpen' = TRUE
  /\ \A p \in Publishers : pub[p] = "idle"
  /\ UNCHANGED <<backend, pub, sent, wire, arrivalVars, ownerVars, workerVars>>

ServerClose ==
  /\ serverOpen /\ serverOpen' = FALSE
  /\ UNCHANGED <<backend, pub, sent, wire, arrivalVars, ownerVars, workerVars>>

PubMoves(p, from, to) == pub[p] = from /\ pub' = [pub EXCEPT ![p] = to]

PublishCheck(p) ==
  /\ serverOpen
  /\ PubMoves(p, "idle", "checked")
  /\ UNCHANGED <<backend, serverOpen, sent, wire, arrivalVars, ownerVars, workerVars>>

(* publish_mutex_ of ZeroMQ; a Zenoh publisher takes care of itself.       *)
PublishLock(p) ==
  /\ backend = "zeromq" => \A r \in Publishers : pub[r] # "sending"
  /\ PubMoves(p, "checked", "sending")
  /\ UNCHANGED <<backend, serverOpen, sent, wire, arrivalVars, ownerVars, workerVars>>

(* Without a subscription, or when its pipe is full or about to be         *)
(* destroyed by a restart of the server, the message is lost.              *)
Send(p) ==
  /\ sent < MaxMessages
  /\ PubMoves(p, "sending", "idle")
  /\ sent' = sent + 1
  /\ \/ /\ subscribed
        /\ wire' = Append(wire, [n |-> sent + 1, sub |-> subscription])
     \/ UNCHANGED wire
  /\ UNCHANGED <<backend, serverOpen, arrivalVars, ownerVars, workerVars>>

-----------------------------------------------------------------------------
(* Arrival over Zenoh: on_sample, one at a time for each subscription.     *)
Sample ==
  /\ backend = "zenoh"
  /\ wire # <<>>
  /\ \A m \in sampling : m.sub # Head(wire).sub
  /\ sampling' = sampling \cup {Head(wire)}
  /\ wire' = Tail(wire)
  /\ UNCHANGED <<serverVars, queue, ownerVars, workerVars>>

Enqueue(m) ==
  /\ m \in sampling
  /\ sampling' = sampling \ {m}
  /\ queue' = IF isOpen THEN Append(queue, m) ELSE queue
  /\ UNCHANGED <<serverVars, wire, ownerVars, workerVars>>

-----------------------------------------------------------------------------
(* The client's owner: Start, with the steps of Open, and Stop.            *)
OwnerMoves(from, to) == owner = from /\ owner' = to

OpenFlag ==
  /\ subscription < MaxSessions
  /\ OwnerMoves("stopped", "resetting")
  /\ ~isOpen /\ isOpen' = TRUE
  /\ UNCHANGED <<serverVars, wire, arrivalVars, subscription, subscribed,
                 stopRequested, workerVars>>

(* A transport that a failed Start left open refuses the next Open, and    *)
(* Start closes it.                                                        *)
OpenRefused ==
  /\ OwnerMoves("stopped", "closing")
  /\ isOpen
  /\ UNCHANGED <<serverVars, wire, arrivalVars, isOpen, subscription, subscribed,
                 stopRequested, workerVars>>

(* A slip: the socket of the last session is used again.                   *)
ResetNothing ==
  /\ OwnerMoves("resetting", "subscribing")
  /\ subscribed' = FALSE
  /\ UNCHANGED <<serverVars, wire, arrivalVars, isOpen, subscription, stopRequested,
                 workerVars>>

(* The old socket or subscriber_ goes away, with what has not reached      *)
(* on_sample; a running on_sample is not waited for.                       *)
Reset ==
  /\ OwnerMoves("resetting", "subscribing")
  /\ subscribed' = FALSE
  /\ wire' = <<>>
  /\ UNCHANGED <<serverVars, arrivalVars, isOpen, subscription, stopRequested,
                 workerVars>>

(* connect or declare_subscriber; or the catch clause of Open.             *)
Subscribe ==
  \/ /\ OwnerMoves("subscribing", "launching")
     /\ subscription' = subscription + 1
     /\ subscribed' = TRUE
     /\ UNCHANGED <<serverVars, wire, arrivalVars, isOpen, stopRequested, workerVars>>
  \/ /\ OwnerMoves("subscribing", "stopped")
     /\ isOpen' = FALSE
     /\ UNCHANGED <<serverVars, wire, arrivalVars, subscription, subscribed,
                    stopRequested, workerVars>>

(* The worker runs; or its configuration is refused and Start calls Stop;  *)
(* or there is no thread to be had, and Start leaves the transport open.   *)
LaunchWith(flag) ==
  /\ \/ OwnerMoves("launching", "running") /\ stopRequested' = flag /\ wpc' = "loop"
     \/ OwnerMoves("launching", "closing") /\ stopRequested' = TRUE /\ wpc' = "exited"
     \/ OwnerMoves("launching", "stopped") /\ stopRequested' = flag /\ UNCHANGED wpc
  /\ UNCHANGED <<serverVars, wire, arrivalVars, isOpen, subscription, subscribed,
                 handled>>

(* A slip: the flag of the last session is not lowered.                    *)
LaunchStale == LaunchWith(stopRequested)
Launch == LaunchWith(FALSE)

Stop ==
  /\ OwnerMoves("running", "closing")
  /\ stopRequested' = TRUE
  /\ UNCHANGED <<serverVars, wire, arrivalVars, isOpen, subscription, subscribed,
                 workerVars>>

Close ==
  /\ OwnerMoves("closing", IF wpc = "absent" THEN "stopped" ELSE "joining")
  /\ isOpen' = FALSE
  /\ UNCHANGED <<serverVars, wire, arrivalVars, subscription, subscribed,
                 stopRequested, workerVars>>

Join ==
  /\ OwnerMoves("joining", "stopped")
  /\ wpc = "exited" /\ wpc' = "absent"
  /\ UNCHANGED <<serverVars, wire, arrivalVars, isOpen, subscription, subscribed,
                 stopRequested, handled>>

-----------------------------------------------------------------------------
(* The client's worker.                                                    *)
LoopCheck ==
  /\ wpc = "loop"
  /\ wpc' = IF stopRequested THEN "exited" ELSE "receiving"
  /\ UNCHANGED <<serverVars, wire, arrivalVars, ownerVars, handled>>

Waiting == IF backend = "zenoh" THEN queue ELSE wire

(* TryReceive of ZeroMQ looks at is_open_ and stop_requested_ before it    *)
(* polls, not after; that of Zenoh delivers what is queued.                *)
Poll ==
  /\ backend = "zeromq"
  /\ wpc = "receiving"
  /\ wpc' = IF isOpen /\ ~stopRequested THEN "polling" ELSE "loop"
  /\ UNCHANGED <<serverVars, wire, arrivalVars, ownerVars, handled>>

AtReceive == wpc = (IF backend = "zenoh" THEN "receiving" ELSE "polling")

ReceiveNothing ==
  /\ AtReceive /\ wpc' = "loop"
  /\ Waiting = <<>>
  /\ UNCHANGED <<serverVars, wire, arrivalVars, ownerVars, handled>>

ReceiveLeaving(rest) ==
  /\ AtReceive /\ wpc' = "loop"
  /\ Waiting # <<>>
  /\ handled' = Append(handled, Head(Waiting))
  /\ IF backend = "zenoh" THEN queue' = rest /\ UNCHANGED wire
                          ELSE wire' = rest /\ UNCHANGED queue
  /\ UNCHANGED <<serverVars, sampling, ownerVars>>

(* A slip: the message is not taken from the queue.                        *)
ReceiveCopy == ReceiveLeaving(Waiting)

(* A slip: the queue is emptied for one message.                           *)
ReceiveAll == ReceiveLeaving(<<>>)

(* TryReceive, Dispatch and the handler.                                   *)
Receive == ReceiveLeaving(Tail(Waiting))

-----------------------------------------------------------------------------
StartStep == Reset \/ Subscribe \/ Launch
StopStep == Close \/ Join
WorkerStep == LoopCheck \/ Poll \/ ReceiveNothing \/ Receive

Next ==
  \/ ServerOpen \/ ServerClose
  \/ \E p \in Publishers : PublishCheck(p) \/ PublishLock(p) \/ Send(p)
  \/ Sample \/ \E m \in sampling : Enqueue(m)
  \/ OpenFlag \/ OpenRefused \/ StartStep \/ Stop \/ StopStep
  \/ WorkerStep

(* Threads that can run do run.  Nobody has to start, stop or publish, and *)
(* no message has to arrive.                                               *)
Fairness == WF_vars(StartStep) /\ WF_vars(StopStep) /\ WF_vars(WorkerStep)

Spec == Init /\ [][Next]_vars /\ Fairness

-----------------------------------------------------------------------------
Messages == [n : 1..sent, sub : 1..subscription]

(* The values the members and the threads can have.                        *)
TypeOK ==
  /\ backend \in {"zenoh", "zeromq"}
  /\ pub \in [Publishers -> {"idle", "checked", "sending"}]
  /\ sent \in 0..MaxMessages
  /\ sampling \subseteq Messages
  /\ {wire, queue, handled} \subseteq Seq(Messages)
  /\ Len(handled) <= sent
  /\ owner \in {"stopped", "resetting", "subscribing", "launching", "running",
                "closing", "joining"}
  /\ subscription \in 0..MaxSessions
  /\ {serverOpen, isOpen, subscribed, stopRequested} \subseteq BOOLEAN
  /\ wpc \in {"absent", "loop", "receiving", "polling", "exited"}

(* At most once, after publication, in the order of publication within a   *)
(* subscription; also over restarts of both sides, with messages that were *)
(* queued before the restart and on_sample calls that outlive it.          *)
Delivery == INSTANCE BroadcastDelivery WITH Subscriptions <- 1..MaxSessions

KeepsDelivery == Delivery!Spec

(* Over ZeroMQ a session only handles what it subscribed to itself: what   *)
(* gathers in the socket of a stopped client is dropped by its next Start. *)
(* (Over Zenoh, what is left in queue_ is handled in the next session.)    *)
ZeroMqSessionsAreFresh ==
  [][\A m \in Messages :
       handled' = Append(handled, m) /\ backend = "zeromq" =>
         m.sub = subscription /\ subscribed]_handled

(* What a subscription has received is handled or waits, until the client  *)
(* closes or a restart replaces the socket: no step of a session, and none *)
(* of the server or of Zenoh, drops it.                                    *)
Received ==
  sampling \cup UNION {{s[i] : i \in DOMAIN s} : s \in {wire, queue, handled}}

NothingIsDropped ==
  [][Received \subseteq Received' \/ owner = "resetting" \/ ~isOpen]_vars

(* What waits for a running client is handled, unless the client stops.    *)
WaitingIsHandled ==
  \A n \in 1..MaxMessages :
    (owner = "running" /\ \E i \in DOMAIN Waiting : Waiting[i].n = n) ~>
      owner # "running" \/ \E i \in DOMAIN handled : handled[i].n = n
=============================================================================
