------------------------- MODULE ZenohSystemProofs -------------------------
(***************************************************************************)
(* The server of the code may stand where ZenohRequest has QueryService:   *)
(* proved for any number of threads, gets and sessions.                    *)
(***************************************************************************)
EXTENDS ZenohSystem, ZenohServerProofs

(* The server only sees queries whose get was made.                        *)
ArrivedWereMade == made \in Nat /\ \A q \in Queries : cb[q] # "none" => q <= made

IInv == OneQueryPerGet /\ Bookkeeping /\ ArrivedWereMade

LEMMA InitIInv ==
  ASSUME OneQueryPerGet, SystemInit
  PROVE  IInv
BY InitBookkeeping
   DEF SystemInit, Init, Requester!Init, IInv, ArrivedWereMade

(* A callback that takes a step belongs to a get that was made.            *)
LEMMA CallbacksOfGets ==
  ASSUME IInv, NEW q \in Queries, (q <= made /\ Arrive(q)) \/ CallbackStep(q)
  PROVE  q <= made
BY DEF IInv, ArrivedWereMade, CallbackStep, Register, RegisterIf, Enqueue, Wake,
   SendReply, Erase, EraseIf, CallbackGoes

LEMMA ServerKeepsIInv ==
  ASSUME IInv, ServerStep
  PROVE  IInv'
<1>1. Bookkeeping'
  BY NextBookkeeping DEF IInv, ServerStep, Next
<1>2. made' = made
  BY DEF ServerStep, clientVars
<1>3. ASSUME NEW q \in Queries, (q <= made /\ Arrive(q)) \/ CallbackStep(q)
      PROVE  ArrivedWereMade'
  <2>1. q <= made
    BY <1>3, CallbacksOfGets
  <2>2. \A p \in Queries \ {q} : cb'[p] = cb[p]
    BY <1>3, CallbacksLeaveOthers DEF IInv
  <2>3. QED
    BY <1>2, <2>1, <2>2 DEF IInv, ArrivedWereMade
<1>4. CASE cb' = cb
  BY <1>1, <1>2, <1>4 DEF IInv, ArrivedWereMade
<1>5. QED
  BY <1>1, <1>3, <1>4, OwnerAndWorkerLeaveQueries DEF IInv, ServerStep

(* The client makes gets and takes none back.                              *)
LEMMA ClientKeepsIInv ==
  ASSUME IInv, ClientStep
  PROVE  IInv'
<1>1. Bookkeeping'
  BY NextBookkeeping DEF IInv, ClientStep
<1>2. cb' = cb
  BY DEF ClientStep, vars, callbackVars
<1>3. made' \in {made, made + 1}
  BY DEF ClientStep, Requester!Open, Requester!Close, Requester!Call,
     Requester!RequestStep, Requester!CheckOpen, Requester!Get,
     Requester!GetSharing, Requester!GetThrows, Requester!Returns,
     Requester!TimesOut, Requester!TimesOutIf, OnReply, Requester!OnDone,
     Requester!Completes, Requester!getVars
<1>4. ArrivedWereMade'
  BY <1>2, <1>3 DEF IInv, OneQueryPerGet, ArrivedWereMade
<1>5. QED
  BY <1>1, <1>4 DEF IInv

-----------------------------------------------------------------------------
(* What the callback of a get is given is what ZenohRequest expects: the   *)
(* answer to that get, once the server has given it.                       *)
LEMMA RepliesAsExpected ==
  ASSUME IInv, NEW q \in Queries, OnReply(q)
  PROVE  Requester!OnReply(q)
<1>1. CASE Requester!Completes(q, [Requester!EmptyReply EXCEPT !.error = TRUE])
  BY <1>1 DEF Requester!OnReply
<1>2. CASE /\ answered[q] # None
           /\ Requester!Completes(q, [Requester!EmptyReply EXCEPT !.value = answered[q]])
  <2>1. answered[q] = q /\ cb[q] \in {"erasing", "done"}
    BY <1>2 DEF IInv, Bookkeeping, AnswersMatchQueries, AnswersEndCallbacks
  <2>2. Service(q) = "answered"
    BY <2>1, ZenohServerAssumption DEF Service
  <2>3. [p \in Queries |-> Service(p)][q] = "answered"
    BY <2>2
  <2>4. QED
    BY <1>2, <2>1, <2>3 DEF Requester!OnReply
<1>3. QED
  BY <1>1, <1>2 DEF OnReply

LEMMA ClientStepsRefine ==
  ASSUME IInv, ClientStep
  PROVE  Requester!Next
<1>1. Requester!Calls = Queries
  BY DEF IInv, OneQueryPerGet, Requester!Calls
<1>2. QED
  BY <1>1, RepliesAsExpected DEF ClientStep, Requester!Next

(* A step of the server is seen as a step of one query, or not at all.     *)
LEMMA ServerStepsRefine ==
  ASSUME IInv, ServerStep
  PROVE  [Requester!Next]_(Requester!vars)
<1>1. UNCHANGED clientVars
  BY DEF ServerStep
<1>2. CASE UNCHANGED Statuses
  BY <1>1, <1>2 DEF clientVars, Requester!vars, Statuses
<1>3. ASSUME NEW q \in Queries, (q <= made /\ Arrive(q)) \/ CallbackStep(q),
             Statuses' # Statuses
      PROVE  Requester!Next
  <2>1. PICK p \in Queries : Served!Take(p) \/ Served!Answer(p) \/ Served!Drop(p)
    BY <1>3, CallbackServes DEF IInv, Served!Next
  <2>2. p = q
    <3>1. ASSUME p # q PROVE FALSE
      <4>1. Statuses'[p] = Statuses[p]
        BY <1>3, <3>1, CallbacksLeaveOthers DEF IInv, Statuses, Service
      <4>2. Statuses'[p] # Statuses[p]
        BY <2>1 DEF Served!Take, Served!Answer, Served!Drop, Served!Becomes,
           Statuses
      <4>3. QED
        BY <4>1, <4>2
    <3>2. QED
      BY <3>1
  <2>3. q <= made
    BY <1>3, CallbacksOfGets
  <2>4. Requester!ServerStep(q)
    BY <1>1, <2>1, <2>2, <2>3
       DEF clientVars, Requester!ServerStep, Requester!threadVars,
           Requester!Server!Take, Requester!Server!Answer, Requester!Server!Drop,
           Requester!Server!Becomes, Served!Take, Served!Answer, Served!Drop,
           Served!Becomes
  <2>5. QED
    BY <2>4 DEF IInv, OneQueryPerGet, Requester!Next, Requester!Calls
<1>4. QED
  BY <1>2, <1>3, OwnerAndWorkerLeaveQueries, OthersStutter DEF ServerStep

(* Wherever ZenohRequest counts on the promise of QueryService, the server *)
(* of the code gives it: over restarts, failed Opens, cancellations and    *)
(* throwing handlers, and whenever the callbacks of a get run.             *)
THEOREM CodeServesRequests ==
  ASSUME OneQueryPerGet
  PROVE  SystemSpec => ServesRequests
<1>1. SystemInit => IInv
  BY InitIInv
<1>2. IInv /\ [SystemNext]_systemVars => IInv'
  <2>1. CASE UNCHANGED systemVars
    BY <2>1, NextBookkeeping
       DEF systemVars, vars, callbackVars, clientVars, IInv, ArrivedWereMade
  <2>2. QED
    BY <2>1, ServerKeepsIInv, ClientKeepsIInv DEF SystemNext
<1>3. SystemInit => Requester!Init
  BY DEF SystemInit
<1>4. IInv /\ [SystemNext]_systemVars => [Requester!Next]_(Requester!vars)
  <2>1. CASE UNCHANGED systemVars
    <3>1. UNCHANGED Statuses
      BY <2>1, OthersStutter DEF systemVars, vars, callbackVars
    <3>2. QED
      BY <2>1, <3>1 DEF systemVars, clientVars, Requester!vars, Statuses
  <2>2. QED
    BY <2>1, ClientStepsRefine, ServerStepsRefine DEF SystemNext
<1>5. QED
  BY <1>1, <1>2, <1>3, <1>4, PTL DEF SystemSpec, ServesRequests

-----------------------------------------------------------------------------
(***************************************************************************)
(* What ZenohRequestProofs shows of a client holds of the whole system.    *)
(* Its instance has definitions of its own, equal to those of Requester.   *)
(***************************************************************************)
RequesterProofs == INSTANCE ZenohRequestProofs WITH
  isOpen <- clientOpen, service <- [q \in Queries |-> Service(q)]

LEMMA SameRequester ==
  /\ Requester!Init <=> RequesterProofs!Init
  /\ Requester!Next <=> RequesterProofs!Next
  /\ Requester!vars = RequesterProofs!vars
<1>1. Requester!Init <=> RequesterProofs!Init
  BY DEF Requester!Init, RequesterProofs!Init, Requester!Calls,
     RequesterProofs!Calls, Requester!NoCall, RequesterProofs!NoCall,
     Requester!EmptyReply, RequesterProofs!EmptyReply,
     Requester!Server!Init, RequesterProofs!Server!Init
<1>2. Requester!Next <=> RequesterProofs!Next
  BY DEF Requester!Next, RequesterProofs!Next, Requester!vars,
     RequesterProofs!vars, Requester!threadVars,
     RequesterProofs!threadVars, Requester!getVars,
     RequesterProofs!getVars, Requester!Calls, RequesterProofs!Calls,
     Requester!NoCall, RequesterProofs!NoCall, Requester!EmptyReply,
     RequesterProofs!EmptyReply, Requester!Mine, RequesterProofs!Mine,
     Requester!Moves, RequesterProofs!Moves, Requester!Ends,
     RequesterProofs!Ends, Requester!Open, RequesterProofs!Open,
     Requester!Close, RequesterProofs!Close, Requester!Call,
     RequesterProofs!Call, Requester!RequestStep,
     RequesterProofs!RequestStep, Requester!CheckOpen,
     RequesterProofs!CheckOpen, Requester!Get, RequesterProofs!Get,
     Requester!GetSharing, RequesterProofs!GetSharing,
     Requester!GetThrows, RequesterProofs!GetThrows,
     Requester!Returns, RequesterProofs!Returns, Requester!TimesOut,
     RequesterProofs!TimesOut, Requester!TimesOutIf,
     RequesterProofs!TimesOutIf, Requester!OnReply,
     RequesterProofs!OnReply, Requester!OnDone,
     RequesterProofs!OnDone, Requester!Completes,
     RequesterProofs!Completes, Requester!ServerStep,
     RequesterProofs!ServerStep, Requester!Server!Take,
     RequesterProofs!Server!Take, Requester!Server!Answer,
     RequesterProofs!Server!Answer, Requester!Server!Drop,
     RequesterProofs!Server!Drop, Requester!Server!Becomes,
     RequesterProofs!Server!Becomes
<1>3. Requester!vars = RequesterProofs!vars
  BY DEF Requester!vars, RequesterProofs!vars
<1>4. QED
  BY <1>1, <1>2, <1>3

LEMMA SamePromise ==
  /\ RequesterProofs!Promise!Init => Requester!Promise!Init
  /\ [RequesterProofs!Promise!Next]_(RequesterProofs!Promise!promise)
       => [Requester!Promise!Next]_(Requester!Promise!promise)
BY DEF Requester!Promise!Init, RequesterProofs!Promise!Init,
   Requester!Promise!Next, RequesterProofs!Promise!Next,
   Requester!Promise!promise, RequesterProofs!Promise!promise,
   Requester!Promise!Call, RequesterProofs!Promise!Call,
   Requester!Promise!End, RequesterProofs!Promise!End,
   Requester!Promise!Return, RequesterProofs!Promise!Return,
   Requester!Promise!ReturnEarlier,
   RequesterProofs!Promise!ReturnEarlier, Requester!Promise!Throw,
   RequesterProofs!Promise!Throw, Requester!Promise!Restart,
   RequesterProofs!Promise!Restart

(* From one end to the other: a call of the client returns the answer that *)
(* the server of the code gave to the query of that very call, or throws.  *)
THEOREM RepliesComeEndToEnd ==
  ASSUME OneQueryPerGet
  PROVE  SystemSpec => Requester!Promise!Safety
<1>1. [Requester!Next]_(Requester!vars) => [RequesterProofs!Next]_(RequesterProofs!vars)
  BY SameRequester DEF Requester!vars, RequesterProofs!vars
<1>2. Requester!Init => RequesterProofs!Init
  BY SameRequester
<1>3. ServesRequests => RequesterProofs!Init /\ [][RequesterProofs!Next]_(RequesterProofs!vars)
  BY <1>1, <1>2, PTL DEF ServesRequests
<1>4. RequesterProofs!Init /\ [][RequesterProofs!Next]_(RequesterProofs!vars)
        => RequesterProofs!Promise!Safety
  <2>1. MaxCalls \in Nat \ {0}
    BY DEF OneQueryPerGet
  <2>2. QED
    BY <2>1, RequesterProofs!StepsKeepPromise
<1>5. RequesterProofs!Promise!Safety => Requester!Promise!Safety
  BY SamePromise, PTL
     DEF RequesterProofs!Promise!Safety, Requester!Promise!Safety
<1>6. QED
  BY <1>3, <1>4, <1>5, CodeServesRequests, PTL
=============================================================================
