---------------------------- MODULE ZenohRequest ----------------------------
(***************************************************************************)
(* The request channel of a client over Zenoh: DdsZenohTransport::Request  *)
(* (src/src/dds_zenoh_transport.cpp) by several threads, with the server   *)
(* as QueryService describes it.  Every call owns a ClientReply that it    *)
(* shares with the two callbacks it hands to Zenoh, which may run at any   *)
(* time, also long after the call.                                         *)
(***************************************************************************)
EXTENDS Naturals

CONSTANTS
  Client, Threads,  \* a client node and its threads that call Request
  MaxCalls          \* bound on the number of gets

ASSUME ZenohRequestAssumption == MaxCalls \in Nat \ {0}

Calls == 1..MaxCalls
NoCall == 0

VARIABLES
  isOpen,    \* is_open_ of the client's transport
  pc,        \* where each thread is in Request
  current,   \* the get each thread waits for
  made,      \* number of gets so far
  captured,  \* whose ClientReply the callbacks of each get share
  reply,     \* the ClientReply of each call
  service,   \* what became of each get at the server
  result     \* how the last call of each thread ended

vars == <<isOpen, pc, current, made, captured, reply, service, result>>
threadVars == <<pc, current, result>>
getVars == <<made, captured, service>>

Server == INSTANCE QueryService WITH Queries <- Calls

EmptyReply == [done |-> FALSE, value |-> NoCall, error |-> FALSE]

Init ==
  /\ isOpen = FALSE
  /\ pc = [t \in Threads |-> "idle"]
  /\ current = [t \in Threads |-> NoCall]
  /\ made = 0
  /\ captured = [q \in Calls |-> NoCall]
  /\ reply = [q \in Calls |-> EmptyReply]
  /\ Server!Init
  /\ result = [t \in Threads |-> "none"]

Moves(t, from, to) == pc[t] = from /\ pc' = [pc EXCEPT ![t] = to]

Ends(t, from, how) ==
  /\ Moves(t, from, "idle")
  /\ current' = [current EXCEPT ![t] = NoCall]
  /\ result' = [result EXCEPT ![t] = how]

-----------------------------------------------------------------------------
(* Open and Close of the client.  Open replaces session_; a thread between *)
(* its check and its get would use a dead one, which is undefined.  Gets   *)
(* of the old session are left to Zenoh, which ends them.                  *)
Open ==
  /\ ~isOpen /\ isOpen' = TRUE
  /\ \A t \in Threads : pc[t] # "checked"
  /\ UNCHANGED <<threadVars, getVars, reply>>

Close ==
  /\ isOpen /\ isOpen' = FALSE
  /\ UNCHANGED <<threadVars, getVars, reply>>

-----------------------------------------------------------------------------
(* Request.                                                                *)
Call(t) ==
  /\ Moves(t, "idle", "called")
  /\ result' = [result EXCEPT ![t] = "none"]
  /\ UNCHANGED <<isOpen, current, getVars, reply>>

CheckOpen(t) ==
  /\ IF isOpen THEN Moves(t, "called", "checked") /\ UNCHANGED <<current, result>>
               ELSE Ends(t, "called", "threw")
  /\ UNCHANGED <<isOpen, getVars, reply>>

GetSharing(t, state) ==
  /\ made < MaxCalls
  /\ Moves(t, "checked", "waiting")
  /\ made' = made + 1
  /\ current' = [current EXCEPT ![t] = made + 1]
  /\ captured' = [captured EXCEPT ![made + 1] = state]
  /\ reply' = [reply EXCEPT ![state] = EmptyReply]
  /\ UNCHANGED <<isOpen, service, result>>

(* A slip: the reply is a member of the transport that each call resets.   *)
GetSharingMember(t) == GetSharing(t, 1)

(* A new ClientReply, and session_->get.                                   *)
Get(t) == GetSharing(t, made + 1)

(* The get itself throws.                                                  *)
GetThrows(t) ==
  /\ Ends(t, "checked", "threw")
  /\ UNCHANGED <<isOpen, getVars, reply>>

Mine(t) == reply[captured[current[t]]]

(* wait_for found done set: an error, an answer or neither.                *)
Returns(t) ==
  /\ pc[t] = "waiting" /\ Mine(t).done
  /\ Ends(t, "waiting",
          IF Mine(t).error \/ Mine(t).value = NoCall THEN "threw"
          ELSE IF Mine(t).value = current[t] THEN "own" ELSE "earlier")
  /\ UNCHANGED <<isOpen, getVars, reply>>

TimesOutIf(t, condition) ==
  /\ pc[t] = "waiting" /\ condition
  /\ Ends(t, "waiting", "threw")
  /\ UNCHANGED <<isOpen, getVars, reply>>

(* A slip: wait_for without its predicate.                                 *)
TimesOutUnchecked(t) == TimesOutIf(t, TRUE)

(* The predicate is looked at once more when the time is over.             *)
TimesOut(t) == TimesOutIf(t, ~Mine(t).done)

-----------------------------------------------------------------------------
(* The callbacks, on threads of Zenoh, under the mutex of the ClientReply: *)
(* answers, errors of Zenoh and the end of the get, in any order.          *)
Completes(q, r) ==
  /\ q <= made
  /\ ~reply[captured[q]].done
  /\ reply' = [reply EXCEPT ![captured[q]] = [r EXCEPT !.done = TRUE]]
  /\ UNCHANGED <<isOpen, threadVars, getVars>>

OnReply(q) ==
  \/ service[q] = "answered" /\ Completes(q, [EmptyReply EXCEPT !.value = q])
  \/ Completes(q, [EmptyReply EXCEPT !.error = TRUE])

OnDone(q) == Completes(q, EmptyReply)

ServerStep(q) ==
  /\ q <= made
  /\ Server!Take(q) \/ Server!Answer(q) \/ Server!Drop(q)
  /\ UNCHANGED <<isOpen, threadVars, made, captured, reply>>

-----------------------------------------------------------------------------
RequestStep(t) ==
  CheckOpen(t) \/ Get(t) \/ GetThrows(t) \/ Returns(t) \/ TimesOut(t)

Next ==
  \/ Open \/ Close
  \/ \E t \in Threads : Call(t) \/ RequestStep(t)
  \/ \E q \in Calls : OnReply(q) \/ OnDone(q) \/ ServerStep(q)

(* Threads that can run do run; wait_for ends.  Nothing is assumed about   *)
(* Zenoh and the server.                                                   *)
Spec ==
  /\ Init /\ [][Next]_vars
  /\ \A t \in Threads : WF_vars(RequestStep(t))

-----------------------------------------------------------------------------
(* The values the members and the threads can have.                        *)
TypeOK ==
  /\ isOpen \in BOOLEAN
  /\ pc \in [Threads -> {"idle", "called", "checked", "waiting"}]
  /\ current \in [Threads -> 0..made]
  /\ made \in 0..MaxCalls
  /\ \A q \in Calls : captured[q] \in IF q <= made THEN 1..made ELSE {NoCall}
  /\ reply \in [Calls -> [done : BOOLEAN, value : 0..made, error : BOOLEAN]]

(* The promise of Request, without the exception RequestReply allows: also *)
(* with several threads, late callbacks, and a client that is stopped and  *)
(* started anew under its callers, a call returns its own answer or throws *)
(* and ends.                                                               *)
Promise == INSTANCE RequestReply WITH
  Clients <- {Client},
  Callers <- {Client} \X Threads,
  call <- [k \in {Client} \X Threads |-> IF pc[k[2]] = "idle" THEN "idle" ELSE "pending"],
  result <- [k \in {Client} \X Threads |-> result[k[2]]],
  behind <- [c \in {Client} |-> FALSE]

KeepsPromise == Promise!Spec

(* A call throws only when no answer was delivered to it: an answer that   *)
(* meets the timeout is returned, and no later error or end overrides it.  *)
AnswerInTimeIsReturned ==
  [][\A t \in Threads :
       pc[t] = "waiting" /\ result'[t] = "threw" => Mine(t).value # current[t]]_vars
=============================================================================
