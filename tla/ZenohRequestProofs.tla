------------------------- MODULE ZenohRequestProofs -------------------------
(***************************************************************************)
(* Proofs about ZenohRequest, for any number of threads and of calls: no   *)
(* ClientReply is shared, so what it holds belongs to its own call.        *)
(***************************************************************************)
EXTENDS ZenohRequest, TLAPS

(* A get shares a ClientReply with its own call only, which is completed   *)
(* once, with an answer to that get or with none.                          *)
OwnReply(q) ==
  /\ captured[q] = q
  /\ reply[q].value \in {NoCall, q}
  /\ ~reply[q].done => reply[q] = EmptyReply
  /\ reply[q].error => reply[q].value = NoCall

ThreadInv(t) ==
  /\ pc[t] = "waiting" => current[t] \in 1..made
  /\ pc[t] # "idle" => result[t] = "none"
  /\ result[t] \in {"none", "own", "threw"}

IInv ==
  /\ TypeOK
  /\ result \in [Threads -> {"none", "own", "threw"}]
  /\ captured \in [Calls -> Nat]
  /\ \A q \in 1..made : OwnReply(q)
  /\ \A t \in Threads : ThreadInv(t)

LEMMA InitIInv ==
  ASSUME Init
  PROVE  IInv
<1> USE ZenohRequestAssumption DEF Init, Calls, NoCall
<1>1. TypeOK
  <2>1. MaxCalls \in Nat /\ made = 0 /\ made \in 0..MaxCalls /\ 0 \in 0..made
    OBVIOUS
  <2>2. \A q \in Calls : captured[q] \in IF q <= made THEN 1..made ELSE {NoCall}
    BY <2>1
  <2>3. EmptyReply \in [done : BOOLEAN, value : 0..made, error : BOOLEAN]
    BY <2>1 DEF EmptyReply
  <2>4. QED
    BY <2>1, <2>2, <2>3 DEF TypeOK
<1>2. 1..made = {}
  OBVIOUS
<1>3. QED
  BY <1>1, <1>2 DEF IInv, ThreadInv

(* A get makes a ClientReply that no other get has.                        *)
LEMMA GetStep ==
  ASSUME IInv, NEW t \in Threads, Get(t)
  PROVE  IInv'
<1> DEFINE q == made + 1
<1> USE ZenohRequestAssumption DEF Calls, NoCall
<1>1. /\ TypeOK /\ made \in 0..MaxCalls /\ q \in Calls /\ q \in Nat /\ q # NoCall
      /\ MaxCalls \in Nat
  BY DEF IInv, TypeOK, Get, GetSharing
<1>2. /\ made' = q /\ pc[t] = "checked" /\ pc' = [pc EXCEPT ![t] = "waiting"]
      /\ current' = [current EXCEPT ![t] = q]
      /\ captured' = [captured EXCEPT ![q] = q]
      /\ reply' = [reply EXCEPT ![q] = EmptyReply]
      /\ UNCHANGED <<isOpen, service, result>>
  BY DEF Get, GetSharing, Moves
<1>3. TypeOK'
  <2>1. pc' \in [Threads -> {"idle", "called", "checked", "waiting"}] /\ isOpen' \in BOOLEAN
    BY <1>1, <1>2 DEF TypeOK
  <2>2. made' \in 0..MaxCalls /\ current' \in [Threads -> 0..made']
    BY <1>1, <1>2 DEF TypeOK
  <2>3. ASSUME NEW p \in Calls
        PROVE  captured'[p] \in IF p <= made' THEN 1..made' ELSE {NoCall}
    <3>1. captured \in [Calls -> Nat]
      BY DEF IInv
    <3>2. CASE p = q
      BY <1>1, <1>2, <3>1, <3>2
    <3>3. CASE p # q
      BY <1>1, <1>2, <3>1, <3>3 DEF TypeOK
    <3>4. QED
      BY <3>2, <3>3
  <2>4. reply' \in [Calls -> [done : BOOLEAN, value : 0..made', error : BOOLEAN]]
    <3>1. EmptyReply \in [done : BOOLEAN, value : 0..made', error : BOOLEAN]
      BY <1>1, <1>2 DEF EmptyReply
    <3>2. [done : BOOLEAN, value : 0..made, error : BOOLEAN] \subseteq
            [done : BOOLEAN, value : 0..made', error : BOOLEAN]
      BY <1>1, <1>2
    <3>3. QED
      BY <1>1, <1>2, <3>1, <3>2 DEF TypeOK
  <2>5. QED
    BY <2>1, <2>2, <2>3, <2>4 DEF TypeOK
<1>4. result' \in [Threads -> {"none", "own", "threw"}] /\ captured' \in [Calls -> Nat]
  BY <1>1, <1>2 DEF IInv
<1>5. ASSUME NEW p \in 1..made' PROVE OwnReply(p)'
  <2>1. CASE p = q
    <3>1. captured'[p] = p /\ reply'[p] = EmptyReply
      BY <1>1, <1>2, <2>1 DEF IInv, TypeOK
    <3>2. QED
      BY <3>1 DEF OwnReply, EmptyReply
  <2>2. CASE p # q
    <3>1. p \in 1..made /\ captured'[p] = captured[p] /\ reply'[p] = reply[p]
      BY <1>1, <1>2, <2>2 DEF IInv, TypeOK
    <3>2. QED
      BY <3>1 DEF IInv, OwnReply
  <2>3. QED
    BY <2>1, <2>2
<1>6. ASSUME NEW u \in Threads PROVE ThreadInv(u)'
  BY <1>1, <1>2 DEF IInv, TypeOK, ThreadInv
<1>7. QED
  BY <1>3, <1>4, <1>5, <1>6 DEF IInv

(* A callback completes the ClientReply of its own get.                    *)
LEMMA CompletesStep ==
  ASSUME IInv, NEW q \in Calls, OnReply(q) \/ OnDone(q)
  PROVE  IInv'
<1> USE ZenohRequestAssumption DEF Calls, NoCall
<1>1. PICK r \in {[EmptyReply EXCEPT !.value = q], [EmptyReply EXCEPT !.error = TRUE],
                  EmptyReply} : Completes(q, r)
  BY DEF OnReply, OnDone
<1>2. /\ TypeOK /\ q \in 1..made /\ captured[q] = q
      /\ \A p \in 1..made : OwnReply(p)
  BY <1>1 DEF IInv, TypeOK, Completes, OwnReply
<1> DEFINE d == [r EXCEPT !.done = TRUE]
<1>3. /\ reply' = [reply EXCEPT ![q] = d]
      /\ UNCHANGED <<isOpen, pc, current, result, made, captured, service>>
  BY <1>1, <1>2 DEF Completes, threadVars, getVars
<1>4. /\ d \in [done : BOOLEAN, value : 0..made, error : BOOLEAN]
      /\ d.done /\ d.value \in {NoCall, q} /\ (d.error => d.value = NoCall)
  <2>1. made \in Nat /\ 0 \in 0..made /\ q \in 0..made
    BY <1>2 DEF TypeOK
  <2>2. CASE r = [EmptyReply EXCEPT !.value = q]
    <3>1. r = [done |-> FALSE, value |-> q, error |-> FALSE]
      BY <2>2 DEF EmptyReply
    <3>2. QED
      BY <2>1, <3>1
  <2>3. CASE r = [EmptyReply EXCEPT !.error = TRUE]
    <3>1. r = [done |-> FALSE, value |-> 0, error |-> TRUE]
      BY <2>3 DEF EmptyReply
    <3>2. QED
      BY <2>1, <3>1
  <2>4. CASE r = EmptyReply
    <3>1. r = [done |-> FALSE, value |-> 0, error |-> FALSE]
      BY <2>4 DEF EmptyReply
    <3>2. QED
      BY <2>1, <3>1
  <2>5. QED
    BY <2>2, <2>3, <2>4
<1> HIDE DEF d
<1>5. TypeOK'
  BY <1>2, <1>3, <1>4 DEF TypeOK
<1>6. ASSUME NEW p \in 1..made PROVE OwnReply(p)'
  <2>1. CASE p = q
    <3>1. captured'[p] = p /\ reply'[p] = d
      BY <1>2, <1>3, <2>1 DEF TypeOK
    <3>2. QED
      BY <1>4, <2>1, <3>1 DEF OwnReply
  <2>2. CASE p # q
    <3>1. captured'[p] = captured[p] /\ reply'[p] = reply[p]
      BY <1>2, <1>3, <2>2 DEF TypeOK
    <3>2. QED
      BY <1>2, <3>1 DEF OwnReply
  <2>3. QED
    BY <2>1, <2>2
<1>7. QED
  BY <1>3, <1>5, <1>6 DEF IInv, ThreadInv

(* What a call that ends makes of its ClientReply.                         *)
LEMMA Outcomes ==
  ASSUME IInv, NEW t \in Threads, Returns(t)
  PROVE  LET how == IF Mine(t).error \/ Mine(t).value = NoCall THEN "threw"
                    ELSE IF Mine(t).value = current[t] THEN "own" ELSE "earlier"
         IN /\ Ends(t, "waiting", how) /\ how \in {"own", "threw"}
            /\ how = "threw" => Mine(t).value = NoCall
            /\ current[t] # NoCall
<1>1. current[t] \in 1..made /\ OwnReply(current[t])
  BY DEF IInv, ThreadInv, Returns
<1>2. Mine(t) = reply[current[t]]
  BY <1>1 DEF OwnReply, Mine
<1>3. QED
  BY <1>1, <1>2 DEF OwnReply, Returns, NoCall, IInv, TypeOK

LEMMA EndsStep ==
  ASSUME IInv, NEW t \in Threads, NEW from, NEW how \in {"own", "threw"},
         Ends(t, from, how), UNCHANGED <<isOpen, getVars, reply>>
  PROVE  IInv'
<1>1. /\ pc' = [pc EXCEPT ![t] = "idle"] /\ current' = [current EXCEPT ![t] = NoCall]
      /\ result' = [result EXCEPT ![t] = how]
      /\ UNCHANGED <<isOpen, made, captured, service, reply>>
  BY DEF Ends, Moves, getVars
<1>2. 0 \in 0..made
  BY DEF IInv, TypeOK
<1>3. TypeOK'
  BY <1>1, <1>2 DEF IInv, TypeOK, NoCall
<1>4. \A q \in 1..made : OwnReply(q)'
  BY <1>1 DEF IInv, OwnReply
<1>5. ASSUME NEW u \in Threads PROVE ThreadInv(u)'
  BY <1>1 DEF IInv, TypeOK, ThreadInv
<1>6. QED
  BY <1>1, <1>3, <1>4, <1>5 DEF IInv

LEMMA NextStep ==
  ASSUME IInv, [Next]_vars
  PROVE  IInv'
<1>1. CASE UNCHANGED <<pc, current, result, made, captured, reply>> /\ isOpen' \in BOOLEAN
  BY <1>1 DEF IInv, TypeOK, OwnReply, ThreadInv
<1>2. CASE \/ Open \/ Close \/ UNCHANGED vars
           \/ \E q \in Calls : ServerStep(q)
  BY <1>1, <1>2 DEF Open, Close, ServerStep, vars, threadVars, getVars, IInv, TypeOK
<1>3. ASSUME NEW t \in Threads, Call(t) PROVE IInv'
  <2>1. /\ pc' = [pc EXCEPT ![t] = "called"] /\ result' = [result EXCEPT ![t] = "none"]
        /\ UNCHANGED <<isOpen, current, made, captured, service, reply>>
    BY <1>3 DEF Call, Moves, getVars
  <2>2. QED
    BY <2>1 DEF IInv, TypeOK, OwnReply, ThreadInv
<1>4. ASSUME NEW t \in Threads, CheckOpen(t) PROVE IInv'
  <2>1. CASE isOpen
    <3>1. /\ pc[t] = "called" /\ pc' = [pc EXCEPT ![t] = "checked"]
          /\ UNCHANGED <<isOpen, current, result, made, captured, service, reply>>
      BY <1>4, <2>1 DEF CheckOpen, Moves, getVars
    <3>2. QED
      BY <3>1 DEF IInv, TypeOK, OwnReply, ThreadInv
  <2>2. CASE ~isOpen
    BY <1>4, <2>2, EndsStep DEF CheckOpen
  <2>3. QED
    BY <2>1, <2>2
<1>5. ASSUME NEW t \in Threads, GetThrows(t) \/ TimesOut(t) PROVE IInv'
  BY <1>5, EndsStep DEF GetThrows, TimesOut, TimesOutIf
<1>6. ASSUME NEW t \in Threads, Returns(t) PROVE IInv'
  <2>1. UNCHANGED <<isOpen, getVars, reply>>
    BY <1>6 DEF Returns
  <2>2. QED
    BY <1>6, <2>1, Outcomes, EndsStep
<1>7. QED
  BY <1>2, <1>3, <1>4, <1>5, <1>6, GetStep, CompletesStep DEF Next, RequestStep

(* IInv is inductive.                                                      *)
LEMMA IInvHolds == Init /\ [][Next]_vars => []IInv
<1>1. QED
  BY InitIInv, NextStep, PTL

(* The values of the variables, for any number of threads and calls.       *)
THEOREM TypeCorrect == Spec => []TypeOK
<1>1. IInv => TypeOK
  BY DEF IInv
<1>2. QED
  BY <1>1, IInvHolds, PTL DEF Spec

(* A call that throws was given no answer: one that arrives in time is     *)
(* returned, whatever errors and ends of the get come after it.            *)
THEOREM AnswersInTimeAreReturned == Spec => AnswerInTimeIsReturned
<1> DEFINE A == \A t \in Threads :
       pc[t] = "waiting" /\ result'[t] = "threw" => Mine(t).value # current[t]
<1>1. ASSUME IInv, [Next]_vars PROVE [A]_vars
  <2> SUFFICES ASSUME NEW t \in Threads, pc[t] = "waiting", result'[t] = "threw"
               PROVE  Mine(t).value # current[t]
    OBVIOUS
  <2>1. /\ result[t] = "none" /\ current[t] \in 1..made /\ current[t] # NoCall
        /\ OwnReply(current[t]) /\ result \in [Threads -> {"none", "own", "threw"}]
    BY <1>1 DEF IInv, ThreadInv, TypeOK, NoCall
  <2>2. CASE Returns(t)
    BY <1>1, <2>1, <2>2, Outcomes DEF Ends
  <2>3. CASE TimesOut(t)
    <3>1. ~Mine(t).done /\ Mine(t) = reply[current[t]]
      BY <2>1, <2>3 DEF TimesOut, TimesOutIf, OwnReply, Mine
    <3>2. QED
      BY <2>1, <3>1 DEF OwnReply, EmptyReply
  <2>4. ASSUME NEW u \in Threads,
               Call(u) \/ CheckOpen(u) \/ Get(u) \/ GetThrows(u)
        PROVE  FALSE
    <3>1. pc[u] # "waiting" \/ result' = result
      BY <2>4 DEF Call, CheckOpen, Get, GetSharing, GetThrows, Ends, Moves
    <3>2. \A v \in Threads : v # u => result'[v] = result[v]
      BY <2>1, <2>4 DEF Call, CheckOpen, Get, GetSharing, GetThrows, Ends
    <3>3. QED
      BY <2>1, <3>1, <3>2
  <2>5. ASSUME NEW u \in Threads, u # t, Returns(u) \/ TimesOut(u) PROVE FALSE
    BY <2>1, <2>5 DEF Returns, TimesOut, TimesOutIf, Ends
  <2>6. result' # result
    BY <2>1
  <2>7. QED
    BY <1>1, <2>2, <2>3, <2>4, <2>5, <2>6
       DEF Next, RequestStep, vars, threadVars, Open, Close, ServerStep, OnReply,
           OnDone, Completes
<1>2. QED
  BY <1>1, IInvHolds, PTL DEF Spec, AnswerInTimeIsReturned

-----------------------------------------------------------------------------
(* The steps of the transport as steps of RequestReply.                    *)
Pairs == {Client} \X Threads
Pending == [k \in Pairs |-> IF pc[k[2]] = "idle" THEN "idle" ELSE "pending"]
Results == [k \in Pairs |-> result[k[2]]]
Behind == [c \in {Client} |-> FALSE]

LEMMA PairsAreThreads ==
  /\ \A t \in Threads : <<Client, t>> \in Pairs /\ <<Client, t>>[2] = t
  /\ \A k \in Pairs : k[2] \in Threads /\ k = <<Client, k[2]>>
<1>1. \A t \in Threads : <<Client, t>> \in Pairs /\ <<Client, t>>[2] = t
  BY DEF Pairs
<1>2. ASSUME NEW k \in Pairs PROVE k[2] \in Threads /\ k = <<Client, k[2]>>
  <2>1. PICK c \in {Client}, t \in Threads : k = <<c, t>>
    BY DEF Pairs
  <2>2. QED
    BY <2>1
<1>3. QED
  BY <1>1, <1>2

LEMMA MovesPromised ==
  ASSUME IInv, NEW t \in Threads, NEW to,
         pc' = [pc EXCEPT ![t] = to], NEW how, result' = [result EXCEPT ![t] = how]
  PROVE  /\ Pending' = [Pending EXCEPT ![<<Client, t>>] =
                          IF to = "idle" THEN "idle" ELSE "pending"]
         /\ Results' = [Results EXCEPT ![<<Client, t>>] = how]
<1>1. /\ pc \in [Threads -> {"idle", "called", "checked", "waiting"}]
      /\ DOMAIN result = Threads
  BY DEF IInv, TypeOK
<1>2. ASSUME NEW k \in Pairs
      PROVE  /\ Pending'[k] = IF k = <<Client, t>>
                                THEN IF to = "idle" THEN "idle" ELSE "pending"
                                ELSE Pending[k]
             /\ Results'[k] = IF k = <<Client, t>> THEN how ELSE Results[k]
  <2>1. k[2] \in Threads /\ (k = <<Client, t>> <=> k[2] = t)
    BY PairsAreThreads
  <2>2. /\ pc'[k[2]] = (IF k[2] = t THEN to ELSE pc[k[2]])
        /\ result'[k[2]] = (IF k[2] = t THEN how ELSE result[k[2]])
    BY <1>1, <2>1
  <2>3. QED
    BY <2>1, <2>2 DEF Pending, Results
<1>3. /\ Pending' = [k \in Pairs |-> Pending'[k]] /\ Pending = [k \in Pairs |-> Pending[k]]
      /\ Results' = [k \in Pairs |-> Results'[k]] /\ Results = [k \in Pairs |-> Results[k]]
  BY DEF Pending, Results
<1>4. QED
  BY <1>2, <1>3

LEMMA CallPromised ==
  ASSUME IInv, NEW t \in Threads, Call(t)
  PROVE  Promise!Call(<<Client, t>>)
<1>1. Pending[<<Client, t>>] = "idle"
  BY PairsAreThreads DEF Call, Moves, Pending
<1>2. /\ Pending' = [Pending EXCEPT ![<<Client, t>>] =
                        IF "called" = "idle" THEN "idle" ELSE "pending"]
      /\ Results' = [Results EXCEPT ![<<Client, t>>] = "none"]
  BY MovesPromised DEF Call, Moves
<1>3. QED
  BY <1>1, <1>2 DEF Promise!Call, Pending, Results, Pairs

LEMMA EndsPromised ==
  ASSUME IInv, NEW t \in Threads, NEW from \in {"called", "checked", "waiting"},
         NEW how \in {"own", "threw"}, Ends(t, from, how)
  PROVE  Promise!Return(<<Client, t>>) \/ Promise!Throw(<<Client, t>>)
<1>1. Pending[<<Client, t>>] = "pending"
  BY PairsAreThreads DEF Ends, Moves, Pending
<1>2. /\ Pending' = [Pending EXCEPT ![<<Client, t>>] = "idle"]
      /\ Results' = [Results EXCEPT ![<<Client, t>>] = how]
  BY MovesPromised DEF Ends, Moves
<1>3. Promise!End(<<Client, t>>, how)
  BY <1>1, <1>2 DEF Promise!End, Pending, Results, Pairs
<1>4. Behind' = Behind
  BY DEF Behind
<1>5. QED
  BY <1>3, <1>4 DEF Promise!Return, Promise!Throw, Behind

LEMMA StepsKeepPromise == Init /\ [][Next]_vars => Promise!Safety
<1> DEFINE abstract == <<Pending, Results, Behind>>
<1>1. ASSUME Init PROVE Promise!Init
  BY <1>1, PairsAreThreads DEF Init, Promise!Init, Pairs
<1>2. ASSUME IInv, [Next]_vars PROVE [Promise!Next]_abstract
  <2>1. ASSUME NEW t \in Threads, Call(t) PROVE Promise!Next
    BY <1>2, <2>1, CallPromised, PairsAreThreads DEF Promise!Next, Pairs
  <2>2. ASSUME NEW t \in Threads, NEW from \in {"called", "checked", "waiting"},
               NEW how \in {"own", "threw"}, Ends(t, from, how)
        PROVE  Promise!Next
    BY <1>2, <2>2, EndsPromised, PairsAreThreads DEF Promise!Next, Pairs
  <2>3. ASSUME NEW t \in Threads, GetThrows(t) \/ TimesOut(t) \/ Returns(t)
        PROVE  Promise!Next
    BY <1>2, <2>2, <2>3, Outcomes DEF GetThrows, TimesOut, TimesOutIf
  <2>4. ASSUME NEW t \in Threads, CheckOpen(t) PROVE [Promise!Next]_abstract
    <3>1. CASE ~isOpen
      BY <2>2, <2>4, <3>1 DEF CheckOpen
    <3>2. CASE isOpen
      BY <1>2, <2>4, <3>2 DEF CheckOpen, Moves, Pending, Results, Behind, IInv, TypeOK, Pairs
    <3>3. QED
      BY <3>1, <3>2
  <2>5. ASSUME NEW t \in Threads, Get(t) PROVE UNCHANGED abstract
    BY <1>2, <2>5 DEF Get, GetSharing, Moves, Pending, Results, Behind, IInv, TypeOK, Pairs
  <2>6. CASE UNCHANGED <<pc, result>>
    BY <2>6 DEF Pending, Results, Behind
  <2>7. QED
    BY <1>2, <2>1, <2>3, <2>4, <2>5, <2>6
       DEF Next, RequestStep, vars, threadVars, Open, Close, ServerStep, OnReply,
           OnDone, Completes
<1>3. QED
  BY <1>1, <1>2, IInvHolds, PTL
     DEF Promise!Safety, Promise!promise, Pending, Results, Behind, Pairs

(* Every call of the Zenoh client returns the answer to its own request or *)
(* throws, as RequestReply has it, and nothing of an earlier call or of    *)
(* another thread ever comes out of it.                                    *)
THEOREM TransportKeepsPromise == Spec => Promise!Safety
<1>1. QED
  BY StepsKeepPromise, PTL DEF Spec
=============================================================================
