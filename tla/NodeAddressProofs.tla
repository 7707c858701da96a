-------------------------- MODULE NodeAddressProofs --------------------------
(***************************************************************************)
(* Proofs about NodeAddress, for addresses of any length over any numerals *)
(* and words: the parser recovers from the text what its writer meant, and *)
(* so the constructor picks the documented transports.                     *)
(***************************************************************************)
EXTENDS NodeAddress, SequenceTheorems, WellFoundedInduction, TLAPS

-----------------------------------------------------------------------------
(* The first and the last place of a separator.                            *)

LEMMA LeastOf ==
  ASSUME NEW T, T \subseteq Nat, T # {}
  PROVE  \E x \in T : \A y \in T : x <= y
<1>1. PICK x \in T : \A y \in T : ~ (<<y, x>> \in OpToRel(<, Nat))
  BY WFMin, NatLessThanWellFounded
<1>2. \A y \in T : ~(y < x)
  BY <1>1 DEF OpToRel
<1>3. QED
  BY <1>2

LEMMA MinIsLeast ==
  ASSUME NEW T, T \subseteq Nat, T # {}
  PROVE  Min(T) \in T /\ \A y \in T : Min(T) <= y
<1>1. \E x \in T : \A y \in T : x <= y
  BY LeastOf
<1>2. QED
  BY <1>1 DEF Min

LEMMA MaxIsGreatest ==
  ASSUME NEW n \in Nat, NEW T, T \subseteq 1..n, T # {}
  PROVE  Max(T) \in T /\ \A y \in T : Max(T) >= y
<1> DEFINE U == {n - x : x \in T}
<1>1. U \subseteq Nat
  OBVIOUS
<1>2. U # {}
  <2>1. PICK x \in T : TRUE
    OBVIOUS
  <2>2. n - x \in U
    BY <2>1
  <2>3. QED
    BY <2>2
<1>3. PICK u \in U : \A v \in U : u <= v
  BY <1>1, <1>2, LeastOf
<1>4. PICK x \in T : u = n - x
  BY <1>3
<1>5. ASSUME NEW y \in T PROVE x >= y
  <2>1. n - y \in U
    OBVIOUS
  <2>2. n - x <= n - y
    BY <1>3, <1>4, <2>1
  <2>3. QED
    BY <2>2
<1>6. QED
  BY <1>5 DEF Max

LEMMA DotFound ==
  ASSUME NEW text \in Seq(Tokens)
  PROVE  /\ FirstDot(text) \in 0..Len(text)
         /\ FirstDot(text) = 0 => \A i \in 1..Len(text) : text[i] # "."
         /\ FirstDot(text) # 0 => /\ text[FirstDot(text)] = "."
                                  /\ \A i \in 1..(FirstDot(text) - 1) : text[i] # "."
<1> DEFINE I == {i \in 1..Len(text) : text[i] = "."}
<1>1. FirstDot(text) = IF I # {} THEN Min(I) ELSE 0
  BY DEF FirstDot, SelectInSeq, IsDot
<1>2. Len(text) \in Nat /\ I \subseteq Nat
  OBVIOUS
<1>3. CASE I = {}
  BY <1>1, <1>2, <1>3
<1>4. CASE I # {}
  <2>1. FirstDot(text) \in I /\ \A i \in I : FirstDot(text) <= i
    BY <1>1, <1>2, <1>4, MinIsLeast
  <2>2. QED
    BY <1>2, <2>1
<1>5. QED
  BY <1>3, <1>4

LEMMA ColonFound ==
  ASSUME NEW text \in Seq(Tokens)
  PROVE  /\ LastColon(text) \in 0..Len(text)
         /\ LastColon(text) = 0 => \A i \in 1..Len(text) : text[i] # ":"
         /\ LastColon(text) # 0 =>
              /\ text[LastColon(text)] = ":"
              /\ \A i \in (LastColon(text) + 1)..Len(text) : text[i] # ":"
<1> DEFINE I == {i \in 1..Len(text) : text[i] = ":"}
<1>1. LastColon(text) = IF I # {} THEN Max(I) ELSE 0
  BY DEF LastColon, SelectLastInSeq, IsColon
<1>2. Len(text) \in Nat /\ I \subseteq 1..Len(text)
  OBVIOUS
<1>3. CASE I = {}
  BY <1>1, <1>2, <1>3
<1>4. CASE I # {}
  <2>1. LastColon(text) \in I /\ \A i \in I : LastColon(text) >= i
    BY <1>1, <1>2, <1>4, MaxIsGreatest
  <2>2. QED
    BY <1>2, <2>1
<1>5. QED
  BY <1>3, <1>4

(* What is taken for an endpoint begins with a numeral and has a colon.    *)
LEMMA EndpointBegins ==
  ASSUME NEW text \in Seq(Tokens), IsIpv4Endpoint(text)
  PROVE  /\ text[1] \in Numerals
         /\ \E i \in DOMAIN text : text[i] = ":"
<1> DEFINE colon == LastColon(text)
           ipv4 == SubSeq(text, 1, colon - 1)
           dot == FirstDot(ipv4)
<1>1. /\ colon # 0
      /\ dot # 0 /\ IsDecimalInRange(Number(ipv4), 0, 255)
  BY DEF IsIpv4Endpoint, EndpointWithPortFrom, FourNumbers
<1>2. colon \in 1..Len(text) /\ text[colon] = ":"
  BY <1>1, ColonFound
<1>3. /\ ipv4 \in Seq(Tokens) /\ Len(ipv4) = colon - 1
      /\ \A i \in 1..(colon - 1) : ipv4[i] = text[i]
  BY <1>2
<1> HIDE DEF ipv4
<1>4. dot \in 1..Len(ipv4)
  <2>1. dot \in 0..Len(ipv4)
    BY <1>3, DotFound
  <2>2. QED
    BY <1>1, <1>2, <1>3, <2>1
<1> HIDE DEF dot, colon
<1>5. /\ Len(Number(ipv4)) = dot - 1 /\ Len(Number(ipv4)) = 1
      /\ Number(ipv4)[1] = ipv4[1] /\ Number(ipv4)[1] \in Numerals
  <2>1. Number(ipv4) = SubSeq(ipv4, 1, dot - 1)
    BY <1>1 DEF Number, dot
  <2>2. Len(Number(ipv4)) = 1 /\ Number(ipv4)[1] \in Numerals
    BY <1>1 DEF IsDecimalInRange
  <2>3. Len(Number(ipv4)) = dot - 1
    BY <1>3, <1>4, <2>1
  <2>4. Number(ipv4)[1] = ipv4[1]
    BY <1>3, <1>4, <2>1, <2>2, <2>3
  <2>5. QED
    BY <2>2, <2>3, <2>4
<1>6. QED
  BY <1>2, <1>3, <1>4, <1>5

-----------------------------------------------------------------------------
(* Sequences.                                                              *)

LEMMA NotEmpty ==
  ASSUME NEW S, NEW s \in Seq(S), s # <<>>
  PROVE  Len(s) \in Nat \ {0}
OBVIOUS

LEMMA OneElement ==
  ASSUME NEW S, NEW s \in Seq(S), Len(s) = 1
  PROVE  s = <<s[1]>>
OBVIOUS

LEMMA TailOf ==
  ASSUME NEW S, NEW s \in Seq(S), Len(s) > 1
  PROVE  /\ Tail(s) \in Seq(S) /\ Len(Tail(s)) = Len(s) - 1 /\ Tail(s) # <<>>
         /\ \A i \in 1..(Len(s) - 1) : Tail(s)[i] = s[i + 1]
OBVIOUS

LEMMA PartOf ==
  ASSUME NEW S, NEW s \in Seq(S), NEW a \in 1..Len(s), NEW b \in a..Len(s)
  PROVE  /\ SubSeq(s, a, b) \in Seq(S) /\ Len(SubSeq(s, a, b)) = b - a + 1
         /\ \A i \in 1..(b - a + 1) : SubSeq(s, a, b)[i] = s[i + a - 1]
OBVIOUS

LEMMA FunctionIsSequence ==
  ASSUME NEW S, NEW m \in Nat, NEW f \in [1..m -> S]
  PROVE  f \in Seq(S) /\ Len(f) = m
OBVIOUS

-----------------------------------------------------------------------------
(* The text of four numbers, more or less.                                 *)

(* What is between separators is none.                                     *)
LEMMA LettersAreNoSeparators ==
  /\ Letters \subseteq Tokens /\ Separators \subseteq Tokens
  /\ Letters \cap Separators = {}
BY TokensAssumption DEF Letters, Tokens, Separators

(* Between the parts are dots.                                             *)
LEMMA JoinedShape ==
  ASSUME NEW parts \in Parts
  PROVE  /\ Len(parts) \in Nat \ {0}
         /\ Joined(parts) \in Seq(Tokens) /\ Len(Joined(parts)) = 2 * Len(parts) - 1
         /\ \A i \in 1..(2 * Len(parts) - 1) :
              /\ Joined(parts)[i] = IF i % 2 = 1 THEN parts[(i + 1) \div 2] ELSE "."
              /\ i % 2 = 1 => (i + 1) \div 2 \in 1..Len(parts) /\ Joined(parts)[i] \in Letters
<1> DEFINE n == Len(parts)
           m == 2 * n - 1
           Element(i) == IF i % 2 = 1 THEN parts[(i + 1) \div 2] ELSE "."
<1>1. n \in Nat \ {0} /\ \A i \in 1..n : parts[i] \in Letters
  <2>1. parts \in Seq(Letters) /\ parts # <<>>
    BY DEF Parts
  <2>2. QED
    BY <2>1, NotEmpty, ElementOfSeq
<1> HIDE DEF n
<1>2. m \in Nat /\ \A i \in 1..m : i % 2 = 1 => (i + 1) \div 2 \in 1..n
  BY <1>1
<1>3. Joined(parts) = [i \in 1..m |-> Element(i)]
  BY DEF Joined, n
<1> HIDE DEF m
<1>4. \A i \in 1..m : Element(i) \in Tokens /\ (i % 2 = 1 => Element(i) \in Letters)
  BY <1>1, <1>2, LettersAreNoSeparators DEF Separators
<1>5. \A i \in 1..m : Joined(parts)[i] = Element(i)
  BY <1>3
<1>6. Joined(parts) \in Seq(Tokens) /\ Len(Joined(parts)) = m
  <2> HIDE DEF Element
  <2>1. Joined(parts) \in [1..m -> Tokens]
    BY <1>3, <1>4
  <2>2. QED
    BY <1>2, <2>1, FunctionIsSequence
<1>7. QED
  BY <1>1, <1>2, <1>4, <1>5, <1>6 DEF n, m

(* The loop takes one part after the other from the text.                  *)
LEMMA LastPart ==
  ASSUME NEW parts \in Parts, Len(parts) = 1
  PROVE  FirstDot(Joined(parts)) = 0 /\ Joined(parts) = <<parts[1]>>
<1> DEFINE text == Joined(parts)
<1>1. text \in Seq(Tokens) /\ Len(text) = 1
  <2>1. 2 * 1 - 1 = 1
    OBVIOUS
  <2>2. QED
    BY <2>1, JoinedShape
<1>2. text[1] = parts[1] /\ text[1] \in Letters
  <2>1. 1 \in 1..(2 * 1 - 1) /\ 1 % 2 = 1 /\ (1 + 1) \div 2 = 1
    OBVIOUS
  <2>2. QED
    BY <2>1, JoinedShape
<1> HIDE DEF text
<1>3. text[1] # "."
  BY <1>2, LettersAreNoSeparators DEF Separators
<1>4. FirstDot(text) = 0
  <2>1. /\ FirstDot(text) \in 0..1
        /\ FirstDot(text) # 0 => text[FirstDot(text)] = "."
    BY <1>1, DotFound
  <2>2. QED
    BY <1>3, <2>1
<1>5. QED
  BY <1>1, <1>2, <1>4, OneElement DEF text

LEMMA FirstPart ==
  ASSUME NEW parts \in Parts, Len(parts) > 1
  PROVE  /\ Tail(parts) \in Parts /\ Len(Tail(parts)) = Len(parts) - 1
         /\ \A i \in 1..(Len(parts) - 1) : Tail(parts)[i] = parts[i + 1]
         /\ FirstDot(Joined(parts)) = 2
         /\ Number(Joined(parts)) = <<parts[1]>>
         /\ Rest(Joined(parts)) = Joined(Tail(parts))
<1> DEFINE n == Len(parts)
           text == Joined(parts)
           tail == Tail(parts)
<1>1. /\ n \in Nat /\ n > 1
      /\ tail \in Parts /\ Len(tail) = n - 1 /\ \A i \in 1..(n - 1) : tail[i] = parts[i + 1]
  <2>1. parts \in Seq(Letters)
    BY DEF Parts
  <2>2. QED
    BY <2>1, TailOf, LenProperties DEF Parts
<1>2. /\ text \in Seq(Tokens) /\ Len(text) = 2 * n - 1
      /\ \A i \in 1..(2 * n - 1) :
           /\ text[i] = IF i % 2 = 1 THEN parts[(i + 1) \div 2] ELSE "."
           /\ i % 2 = 1 => text[i] \in Letters
  BY JoinedShape
<1>3. /\ Joined(tail) \in Seq(Tokens) /\ Len(Joined(tail)) = 2 * n - 3
      /\ \A i \in 1..(2 * n - 3) :
           /\ Joined(tail)[i] = IF i % 2 = 1 THEN tail[(i + 1) \div 2] ELSE "."
           /\ i % 2 = 1 => (i + 1) \div 2 \in 1..(n - 1)
  <2>1. 2 * (n - 1) - 1 = 2 * n - 3
    BY <1>1
  <2>2. QED
    BY <1>1, <2>1, JoinedShape
<1> HIDE DEF n, text, tail
<1>4. text[1] = parts[1] /\ text[1] # "." /\ text[2] = "."
  <2>1. /\ 1 \in 1..(2 * n - 1) /\ 1 % 2 = 1 /\ (1 + 1) \div 2 = 1
        /\ 2 \in 1..(2 * n - 1) /\ 2 % 2 = 0
    BY <1>1
  <2>2. QED
    BY <1>2, <2>1, LettersAreNoSeparators DEF Separators
<1>5. FirstDot(text) = 2
  <2> DEFINE d == FirstDot(text)
  <2>1. /\ d \in 0..Len(text)
        /\ d = 0 => \A i \in 1..Len(text) : text[i] # "."
        /\ d # 0 => text[d] = "." /\ \A i \in 1..(d - 1) : text[i] # "."
    BY <1>2, DotFound
  <2>2. 2 \in 1..Len(text)
    BY <1>1, <1>2
  <2> HIDE DEF d
  <2>3. d \in Nat /\ d # 0 /\ d # 1 /\ ~(2 < d)
    BY <1>4, <2>1, <2>2
  <2>4. QED
    BY <2>3 DEF d
<1>6. Number(text) = <<parts[1]>>
  <2>1. Number(text) = SubSeq(text, 1, 1) /\ 1 \in 1..Len(text)
    BY <1>1, <1>2, <1>5 DEF Number
  <2>2. Number(text) \in Seq(Tokens) /\ Len(Number(text)) = 1 /\ Number(text)[1] = text[1]
    BY <1>2, <2>1, PartOf
  <2>3. QED
    BY <1>4, <2>2, OneElement
<1>7. Rest(text) = Joined(tail)
  <2>1. Rest(text) = SubSeq(text, 3, Len(text)) /\ 3 \in 1..Len(text)
    BY <1>1, <1>2, <1>5 DEF Rest
  <2>2. /\ Rest(text) \in Seq(Tokens) /\ Len(Rest(text)) = Len(text) - 3 + 1
        /\ \A i \in 1..(Len(text) - 3 + 1) : Rest(text)[i] = text[i + 3 - 1]
    BY <1>1, <1>2, <2>1, PartOf
  <2>3. Len(text) - 3 + 1 = 2 * n - 3
    BY <1>1, <1>2
  <2>4. ASSUME NEW i \in 1..(2 * n - 3) PROVE Rest(text)[i] = Joined(tail)[i]
    <3>1. /\ i + 3 - 1 = i + 2 /\ i + 2 \in 1..(2 * n - 1)
          /\ (i + 2) % 2 = i % 2 /\ ((i + 2) + 1) \div 2 = ((i + 1) \div 2) + 1
      BY <1>1
    <3>2. Rest(text)[i] = IF i % 2 = 1 THEN parts[((i + 1) \div 2) + 1] ELSE "."
      BY <1>2, <2>2, <2>3, <3>1
    <3>3. i % 2 = 1 => tail[(i + 1) \div 2] = parts[((i + 1) \div 2) + 1]
      BY <1>1, <1>3
    <3>4. QED
      BY <1>3, <3>2, <3>3
  <2>5. QED
    BY <1>3, <2>2, <2>3, <2>4, SeqEqual
<1>8. QED
  BY <1>1, <1>5, <1>6, <1>7 DEF n, text, tail

(* A number as the code reads it.                                          *)
ReadsAs(t, minimum, maximum) == t \in Numerals /\ ValueOf[t] \in minimum..maximum

LEMMA ReadsOne ==
  ASSUME NEW t, NEW minimum, NEW maximum
  PROVE  IsDecimalInRange(<<t>>, minimum, maximum) <=> ReadsAs(t, minimum, maximum)
BY DEF IsDecimalInRange, ReadsAs

(* The last turn of the loop, and one that is not the last.                *)
LEMMA LastTurn ==
  ASSUME NEW parts \in Parts, Len(parts) = 1
  PROVE  /\ FirstDot(Joined(parts)) = 0
         /\ IsDecimalInRange(Joined(parts), 0, 255) <=> ReadsAs(parts[1], 0, 255)
<1>1. FirstDot(Joined(parts)) = 0 /\ Joined(parts) = <<parts[1]>>
  BY LastPart
<1>2. IsDecimalInRange(<<parts[1]>>, 0, 255) <=> ReadsAs(parts[1], 0, 255)
  BY ReadsOne
<1>3. QED
  BY <1>1, <1>2

LEMMA NextTurn ==
  ASSUME NEW parts \in Parts, Len(parts) > 1
  PROVE  /\ FirstDot(Joined(parts)) = 2
         /\ IsDecimalInRange(Number(Joined(parts)), 0, 255) <=> ReadsAs(parts[1], 0, 255)
         /\ Rest(Joined(parts)) = Joined(Tail(parts))
         /\ Tail(parts) \in Parts /\ Len(Tail(parts)) = Len(parts) - 1
         /\ \A i \in 1..(Len(parts) - 1) : Tail(parts)[i] = parts[i + 1]
<1>1. IsDecimalInRange(<<parts[1]>>, 0, 255) <=> ReadsAs(parts[1], 0, 255)
  BY ReadsOne
<1>2. Number(Joined(parts)) = <<parts[1]>>
  BY FirstPart
<1>3. FirstDot(Joined(parts)) = 2 /\ Rest(Joined(parts)) = Joined(Tail(parts))
  BY FirstPart
<1>4. /\ Tail(parts) \in Parts /\ Len(Tail(parts)) = Len(parts) - 1
      /\ \A i \in 1..(Len(parts) - 1) : Tail(parts)[i] = parts[i + 1]
  BY FirstPart
<1>5. QED
  BY <1>1, <1>2, <1>3, <1>4

LEMMA FourParts ==
  ASSUME NEW parts \in Parts
  PROVE  FourNumbers(Joined(parts)) <=>
           Len(parts) = 4 /\ \A i \in 1..4 : ReadsAs(parts[i], 0, 255)
<1> DEFINE n == Len(parts)
           second == Tail(parts)
           third == Tail(second)
           fourth == Tail(third)
           Good(text) == FirstDot(text) # 0 /\ IsDecimalInRange(Number(text), 0, 255)
           GoodLast(text) == FirstDot(text) = 0 /\ IsDecimalInRange(text, 0, 255)
           IsOctet(t) == ReadsAs(t, 0, 255)
<1>1. n \in Nat \ {0}
  BY JoinedShape
<1> HIDE DEF n
<1>0. /\ n > 1 => n = 2 \/ n > 2
      /\ n > 2 => n = 3 \/ n > 3
      /\ n > 3 => n = 4 \/ n > 4
      /\ n > 4 => n - 3 > 1 /\ n # 4
  BY <1>1
<1> USE DEF n
<1>2. FourNumbers(Joined(parts)) <=>
        /\ Good(Joined(parts)) /\ Good(Rest(Joined(parts)))
        /\ Good(Rest(Rest(Joined(parts))))
        /\ GoodLast(Rest(Rest(Rest(Joined(parts)))))
  BY Zenon DEF FourNumbers
<1>3. ASSUME NEW p \in Parts, Len(p) = 1
      PROVE  ~Good(Joined(p)) /\ (GoodLast(Joined(p)) <=> IsOctet(p[1]))
  BY <1>3, LastTurn
<1>4. ASSUME NEW p \in Parts, Len(p) > 1
      PROVE  /\ ~GoodLast(Joined(p)) /\ (Good(Joined(p)) <=> IsOctet(p[1]))
             /\ Rest(Joined(p)) = Joined(Tail(p))
             /\ Tail(p) \in Parts /\ Len(Tail(p)) = Len(p) - 1
             /\ \A i \in 1..(Len(p) - 1) : Tail(p)[i] = p[i + 1]
  <2>1. /\ FirstDot(Joined(p)) = 2
        /\ IsDecimalInRange(Number(Joined(p)), 0, 255) <=> IsOctet(p[1])
    BY <1>4, NextTurn
  <2>2. /\ Rest(Joined(p)) = Joined(Tail(p))
        /\ Tail(p) \in Parts /\ Len(Tail(p)) = Len(p) - 1
        /\ \A i \in 1..(Len(p) - 1) : Tail(p)[i] = p[i + 1]
    BY <1>4, NextTurn
  <2>3. QED
    BY <2>1, <2>2
<1> HIDE DEF Good, GoodLast, IsOctet
<1>5. (\A i \in 1..4 : IsOctet(parts[i])) <=>
        /\ IsOctet(parts[1]) /\ IsOctet(parts[2]) /\ IsOctet(parts[3]) /\ IsOctet(parts[4])
  <2>1. \A i \in 1..4 : i = 1 \/ i = 2 \/ i = 3 \/ i = 4
    OBVIOUS
  <2>2. QED
    BY <2>1
<1>6. FourNumbers(Joined(parts)) <=> n = 4 /\ \A i \in 1..4 : IsOctet(parts[i])
  <2>1. CASE n = 1
    BY <1>2, <1>3, <2>1
  <2>2. CASE n > 1
    <3>1. /\ Good(Joined(parts)) <=> IsOctet(parts[1])
          /\ Rest(Joined(parts)) = Joined(second)
          /\ second \in Parts /\ Len(second) = n - 1
          /\ \A i \in 1..(n - 1) : second[i] = parts[i + 1]
      BY <1>4, <2>2
    <3> HIDE DEF second
    <3>2. CASE n = 2
      <4>1. n - 1 = 1
        BY <3>2
      <4>2. ~Good(Joined(second))
        BY <1>3, <3>1, <4>1
      <4>3. QED
        BY <1>2, <3>1, <3>2, <4>2
    <3>3. CASE n > 2
      <4>1. n - 1 > 1 /\ 1 \in 1..(n - 1) /\ 1 + 1 = 2 /\ (n - 1) - 1 = n - 2
        BY <1>1, <3>3
      <4>2. /\ Good(Joined(second)) <=> IsOctet(second[1])
            /\ Rest(Joined(second)) = Joined(third)
            /\ third \in Parts /\ Len(third) = n - 2
            /\ \A i \in 1..(n - 2) : third[i] = second[i + 1]
        BY <1>4, <3>1, <4>1
      <4> HIDE DEF third
      <4>3. CASE n = 3
        <5>1. n - 2 = 1
          BY <4>3
        <5>2. ~Good(Joined(third))
          BY <1>3, <4>2, <5>1
        <5>3. QED
          BY <1>2, <3>1, <4>2, <4>3, <5>2
      <4>4. CASE n > 3
        <5>1. /\ n - 2 > 1 /\ (n - 2) - 1 = n - 3 /\ 1 \in 1..(n - 3)
              /\ 1 \in 1..(n - 2) /\ 2 \in 1..(n - 2) /\ 2 \in 1..(n - 1) /\ 3 \in 1..(n - 1)
              /\ 1 + 1 = 2 /\ 2 + 1 = 3 /\ 3 + 1 = 4
          BY <1>1, <4>4
        <5>2. /\ Good(Joined(third)) <=> IsOctet(third[1])
              /\ Rest(Joined(third)) = Joined(fourth)
              /\ fourth \in Parts /\ Len(fourth) = n - 3
              /\ \A i \in 1..(n - 3) : fourth[i] = third[i + 1]
          BY <1>4, <4>2, <5>1
        <5> HIDE DEF fourth
        <5>3. second[1] = parts[2] /\ second[2] = parts[3] /\ second[3] = parts[4]
          BY <3>1, <4>1, <5>1
        <5>4. third[1] = parts[3] /\ third[2] = parts[4]
          BY <4>2, <5>1, <5>3
        <5>5. fourth[1] = parts[4]
          BY <5>1, <5>2, <5>4
        <5>6. FourNumbers(Joined(parts)) <=>
                /\ IsOctet(parts[1]) /\ IsOctet(parts[2]) /\ IsOctet(parts[3])
                /\ GoodLast(Joined(fourth))
          BY <1>2, <3>1, <4>2, <5>2, <5>3, <5>4
        <5>7. CASE n = 4
          <6>1. n - 3 = 1
            BY <5>7
          <6>2. GoodLast(Joined(fourth)) <=> IsOctet(parts[4])
            BY <1>3, <5>2, <5>5, <6>1
          <6>3. QED
            BY <1>5, <5>6, <5>7, <6>2
        <5>8. CASE n > 4
          <6>1. n - 3 > 1 /\ n # 4
            BY <1>0, <5>8
          <6>2. ~GoodLast(Joined(fourth))
            BY <1>4, <5>2, <6>1
          <6>3. QED
            BY <5>6, <6>1, <6>2
        <5>9. QED
          BY <1>0, <4>4, <5>7, <5>8
      <4>5. QED
        BY <1>0, <3>3, <4>3, <4>4
    <3>4. QED
      BY <1>0, <2>2, <3>2, <3>3
  <2>3. QED
    BY <1>1, <2>1, <2>2
<1>7. QED
  BY <1>6 DEF IsOctet

-----------------------------------------------------------------------------
(* An endpoint is what its writer meant, with minus zero.                  *)

LEMMA EndpointText ==
  ASSUME NEW parts \in Parts, NEW port \in Letters,
         NEW text, text = Joined(parts) \o <<":", port>>
  PROVE  /\ text \in Seq(Tokens) /\ Len(text) = 2 * Len(parts) + 1
         /\ LastColon(text) = 2 * Len(parts)
         /\ SubSeq(text, 1, LastColon(text) - 1) = Joined(parts)
         /\ SubSeq(text, LastColon(text) + 1, Len(text)) = <<port>>
<1> DEFINE n == Len(parts)
           joined == Joined(parts)
           rest == <<":", port>>
<1>1. n \in Nat \ {0} /\ joined \in Seq(Tokens) /\ Len(joined) = 2 * n - 1
  BY JoinedShape
<1>2. rest \in Seq(Tokens) /\ Len(rest) = 2 /\ rest[1] = ":" /\ rest[2] = port
  <2>1. ":" \in Tokens /\ port \in Tokens
    BY LettersAreNoSeparators DEF Separators
  <2>2. QED
    BY <2>1
<1> HIDE DEF n, joined, rest
<1>3. /\ text \in Seq(Tokens) /\ Len(text) = 2 * n + 1
      /\ \A i \in 1..(2 * n - 1) : text[i] = joined[i]
      /\ text[2 * n] = ":" /\ text[2 * n + 1] = port
  <2>1. text = joined \o rest
    BY DEF joined, rest
  <2>2. /\ text \in Seq(Tokens) /\ Len(text) = Len(joined) + Len(rest)
        /\ \A i \in 1..Len(joined) + Len(rest) :
             text[i] = IF i <= Len(joined) THEN joined[i] ELSE rest[i - Len(joined)]
    <3>1. joined \in Seq(Tokens) /\ rest \in Seq(Tokens)
      BY <1>1, <1>2
    <3>2. /\ joined \o rest \in Seq(Tokens)
          /\ Len(joined \o rest) = Len(joined) + Len(rest)
          /\ \A i \in 1..Len(joined) + Len(rest) :
               (joined \o rest)[i] = IF i <= Len(joined) THEN joined[i] ELSE rest[i - Len(joined)]
      BY <3>1, ConcatProperties
    <3>3. QED
      BY <2>1, <3>2
  <2>3. /\ Len(joined) + Len(rest) = 2 * n + 1
        /\ \A i \in 1..(2 * n - 1) : i \in 1..(2 * n + 1) /\ i <= 2 * n - 1
        /\ 2 * n \in 1..(2 * n + 1) /\ ~(2 * n <= 2 * n - 1) /\ 2 * n - (2 * n - 1) = 1
        /\ 2 * n + 1 \in 1..(2 * n + 1) /\ ~(2 * n + 1 <= 2 * n - 1)
        /\ (2 * n + 1) - (2 * n - 1) = 2
    BY <1>1, <1>2
  <2>4. \A i \in 1..(2 * n + 1) :
          text[i] = IF i <= 2 * n - 1 THEN joined[i] ELSE rest[i - (2 * n - 1)]
    BY <1>1, <2>2, <2>3
  <2>5. \A i \in 1..(2 * n - 1) : text[i] = joined[i]
    BY <2>3, <2>4
  <2>6. text[2 * n] = ":" /\ text[2 * n + 1] = port
    BY <1>2, <2>3, <2>4
  <2>7. QED
    BY <2>2, <2>3, <2>5, <2>6
<1>4. LastColon(text) = 2 * n
  <2> DEFINE c == LastColon(text)
  <2>1. /\ c \in 0..Len(text)
        /\ c = 0 => \A i \in 1..Len(text) : text[i] # ":"
        /\ c # 0 => text[c] = ":" /\ \A i \in (c + 1)..Len(text) : text[i] # ":"
    BY <1>3, ColonFound
  <2>2. port # ":"
    BY LettersAreNoSeparators DEF Separators
  <2>3. 2 * n \in 1..Len(text) /\ 2 * n + 1 = Len(text)
    BY <1>1, <1>3
  <2> HIDE DEF c
  <2>4. c # 0 /\ c # 2 * n + 1 /\ ~(c < 2 * n) /\ c \in 0..(2 * n + 1)
    BY <1>1, <1>3, <2>1, <2>2, <2>3
  <2>5. c = 2 * n
    BY <1>1, <2>4
  <2>6. QED
    BY <2>5 DEF c
<1>5. SubSeq(text, 1, 2 * n - 1) = joined
  <2>1. 1 \in 1..Len(text) /\ 2 * n - 1 \in 1..Len(text) /\ 2 * n - 1 - 1 + 1 = 2 * n - 1
    BY <1>1, <1>3
  <2>2. /\ SubSeq(text, 1, 2 * n - 1) \in Seq(Tokens)
        /\ Len(SubSeq(text, 1, 2 * n - 1)) = 2 * n - 1
        /\ \A i \in 1..(2 * n - 1) : SubSeq(text, 1, 2 * n - 1)[i] = text[i + 1 - 1]
    BY <1>3, <2>1, PartOf
  <2>3. \A i \in 1..(2 * n - 1) : i + 1 - 1 = i
    OBVIOUS
  <2>4. QED
    BY <1>1, <1>3, <2>2, <2>3, SeqEqual
<1>6. SubSeq(text, 2 * n + 1, Len(text)) = <<port>>
  <2>1. 2 * n + 1 \in 1..Len(text) /\ Len(text) - (2 * n + 1) + 1 = 1
        /\ 1 + (2 * n + 1) - 1 = 2 * n + 1
    BY <1>1, <1>3
  <2>2. /\ SubSeq(text, 2 * n + 1, Len(text)) \in Seq(Tokens)
        /\ Len(SubSeq(text, 2 * n + 1, Len(text))) = 1
        /\ SubSeq(text, 2 * n + 1, Len(text))[1] = port
    <3> DEFINE k == 2 * n + 1
               m == Len(text)
    <3>1. k \in 1..m /\ m \in k..m /\ m - k + 1 = 1 /\ 1 \in 1..1 /\ 1 + k - 1 = k
      BY <1>1, <1>3, <2>1
    <3>2. text[k] = port
      BY <1>3
    <3> HIDE DEF k
    <3>3. /\ SubSeq(text, k, m) \in Seq(Tokens) /\ Len(SubSeq(text, k, m)) = m - k + 1
          /\ \A i \in 1..(m - k + 1) : SubSeq(text, k, m)[i] = text[i + k - 1]
      BY <1>3, <3>1, PartOf
    <3> HIDE DEF m
    <3>4. Len(SubSeq(text, k, m)) = 1 /\ SubSeq(text, k, m)[1] = port
      BY <3>1, <3>2, <3>3
    <3>5. QED
      BY <3>3, <3>4 DEF k, m
  <2>3. QED
    BY <2>2, OneElement
<1>7. QED
  BY <1>3, <1>4, <1>5, <1>6 DEF n, joined

LEMMA EndpointRead ==
  ASSUME NEW parts \in Parts, NEW port \in Letters
  PROVE  IsIpv4Endpoint(Joined(parts) \o <<":", port>>) <=>
           /\ Len(parts) = 4 /\ \A i \in 1..4 : ReadsAs(parts[i], 0, 255)
           /\ ReadsAs(port, 1, LargestPort)
<1> DEFINE text == Joined(parts) \o <<":", port>>
<1>1. /\ LastColon(text) = 2 * Len(parts) /\ Len(parts) \in Nat \ {0}
      /\ SubSeq(text, 1, LastColon(text) - 1) = Joined(parts)
      /\ SubSeq(text, LastColon(text) + 1, Len(text)) = <<port>>
  BY EndpointText, JoinedShape
<1> HIDE DEF text
<1>2. LastColon(text) # 0
  BY <1>1
<1>3. FourNumbers(Joined(parts)) <=>
        Len(parts) = 4 /\ \A i \in 1..4 : ReadsAs(parts[i], 0, 255)
  BY FourParts
<1>4. IsDecimalInRange(<<port>>, 1, LargestPort) <=> ReadsAs(port, 1, LargestPort)
  BY ReadsOne
<1>5. IsIpv4Endpoint(text) <=>
        IsDecimalInRange(<<port>>, 1, LargestPort) /\ FourNumbers(Joined(parts))
  <2>1. IsIpv4Endpoint(text) <=>
          /\ LastColon(text) # 0
          /\ IsDecimalInRange(SubSeq(text, LastColon(text) + 1, Len(text)), 1, LargestPort)
          /\ FourNumbers(SubSeq(text, 1, LastColon(text) - 1))
    BY DEF IsIpv4Endpoint, EndpointWithPortFrom
  <2> DEFINE before == SubSeq(text, 1, LastColon(text) - 1)
             after == SubSeq(text, LastColon(text) + 1, Len(text))
  <2>2. before = Joined(parts) /\ after = <<port>>
    BY <1>1
  <2> HIDE DEF before, after
  <2>3. IsIpv4Endpoint(text) <=> IsDecimalInRange(after, 1, LargestPort) /\ FourNumbers(before)
    BY <1>2, <2>1 DEF before, after
  <2>4. QED
    BY <2>2, <2>3
<1>6. QED
  BY <1>3, <1>4, <1>5 DEF text

(* A number as the code reads it is one of the documented grammar, or      *)
(* minus zero.                                                             *)
LEMMA OctetRead ==
  ASSUME NEW t
  PROVE  ReadsAs(t, 0, 255) <=> OctetOrMinusZero(t)
<1>1. t \in Numerals => ValueOf[t] \in Int /\ (t \in Signed => ValueOf[t] <= 0)
  BY TokensAssumption
<1>2. Signed \subseteq Numerals
  BY TokensAssumption
<1>3. QED
  BY <1>1, <1>2 DEF ReadsAs, OctetOrMinusZero, Octet, Decimal

LEMMA PortRead ==
  ASSUME NEW t
  PROVE  ReadsAs(t, 1, LargestPort) <=> Decimal(t, 1, LargestPort)
<1>1. ASSUME ReadsAs(t, 1, LargestPort) PROVE Decimal(t, 1, LargestPort)
  <2>1. t \in Numerals /\ ValueOf[t] \in 1..LargestPort
    BY <1>1 DEF ReadsAs
  <2>2. t \in Signed => ValueOf[t] <= 0
    BY <2>1, TokensAssumption
  <2>3. t \notin Signed
    <3>1. LargestPort \in Nat
      BY DEF LargestPort
    <3>2. QED
      BY <2>1, <2>2, <3>1
  <2>4. QED
    BY <2>1, <2>3 DEF Decimal
<1>2. ASSUME Decimal(t, 1, LargestPort) PROVE ReadsAs(t, 1, LargestPort)
  BY <1>2 DEF ReadsAs, Decimal
<1>3. QED
  BY <1>1, <1>2 DEF ReadsAs, Decimal

(* How the text of an endpoint begins, and where it has a colon.           *)
LEMMA EndpointStart ==
  ASSUME NEW a \in Endpoints
  PROVE  /\ Text(a) \in Seq(Tokens) /\ Len(Text(a)) \in Nat \ {0}
         /\ Text(a)[1] = a.parts[1]
         /\ Len(Text(a)) > 1 => \/ Text(a)[2] = "."
                                \/ /\ Text(a)[2] = ":" /\ Len(Text(a)) = 3
                                   /\ Text(a)[3] \in Letters
         /\ (\E i \in DOMAIN Text(a) : Text(a)[i] = ":") <=> a.port # "none"
<1> DEFINE n == Len(a.parts)
           joined == Joined(a.parts)
<1>1. a.form = "endpoint" /\ a.parts \in Parts /\ a.port \in Letters \cup {"none"}
  BY DEF Endpoints
<1>2. /\ n \in Nat \ {0} /\ joined \in Seq(Tokens) /\ Len(joined) = 2 * n - 1
      /\ \A i \in 1..(2 * n - 1) :
           /\ joined[i] = IF i % 2 = 1 THEN a.parts[(i + 1) \div 2] ELSE "."
           /\ i % 2 = 1 => joined[i] \in Letters
  BY <1>1, JoinedShape
<1> HIDE DEF n, joined
<1>3. /\ joined[1] = a.parts[1] /\ 1 \in 1..(2 * n - 1)
      /\ n > 1 => joined[2] = "." /\ 2 \in 1..(2 * n - 1)
  <2>1. /\ 1 \in 1..(2 * n - 1) /\ 1 % 2 = 1 /\ (1 + 1) \div 2 = 1
        /\ 2 % 2 = 0 /\ (n > 1 => 2 \in 1..(2 * n - 1))
    BY <1>2
  <2>2. QED
    BY <1>2, <2>1
<1>4. \A i \in 1..(2 * n - 1) : joined[i] # ":"
  <2>1. \A i \in 1..(2 * n - 1) : joined[i] = "." \/ joined[i] \in Letters
    BY <1>2
  <2>2. ":" \notin Letters
    BY LettersAreNoSeparators DEF Separators
  <2>3. QED
    BY <2>1, <2>2
<1>5. CASE a.port = "none"
  <2>1. Text(a) = joined
    <3>1. Text(a) = joined \o <<>>
      BY <1>1, <1>5 DEF Text, joined
    <3>2. QED
      BY <1>2, <3>1, ConcatEmptySeq
  <2>2. Len(joined) > 1 => n > 1
    BY <1>2
  <2>3. DOMAIN joined = 1..(2 * n - 1) /\ 2 * n - 1 \in Nat \ {0}
    BY <1>2, LenProperties
  <2>4. QED
    BY <1>2, <1>3, <1>4, <1>5, <2>1, <2>2, <2>3
<1>6. CASE a.port # "none"
  <2> DEFINE rest == <<":", a.port>>
             text == joined \o rest
  <2>1. Text(a) = text
    BY <1>1, <1>6 DEF Text, joined
  <2>2. a.port \in Letters
    BY <1>1, <1>6
  <2>3. rest \in Seq(Tokens) /\ Len(rest) = 2 /\ rest[1] = ":" /\ rest[2] = a.port
    <3>1. ":" \in Tokens /\ a.port \in Tokens
      BY <2>2, LettersAreNoSeparators DEF Separators
    <3>2. QED
      BY <3>1
  <2> HIDE DEF rest
  <2>4. /\ text \in Seq(Tokens) /\ Len(text) = Len(joined) + Len(rest)
        /\ \A i \in 1..Len(joined) + Len(rest) :
             text[i] = IF i <= Len(joined) THEN joined[i] ELSE rest[i - Len(joined)]
    BY <1>2, <2>3, ConcatProperties
  <2> HIDE DEF text
  <2>5. /\ Len(joined) + Len(rest) = 2 * n + 1
        /\ 1 \in 1..(2 * n + 1) /\ 1 <= 2 * n - 1
        /\ n > 1 => 2 \in 1..(2 * n + 1) /\ 2 <= 2 * n - 1
        /\ n > 1 \/ n = 1
        /\ 2 * n \in 1..(2 * n + 1) /\ ~(2 * n <= 2 * n - 1) /\ 2 * n - (2 * n - 1) = 1
        /\ 2 * n + 1 \in 1..(2 * n + 1) /\ ~(2 * n + 1 <= 2 * n - 1)
        /\ (2 * n + 1) - (2 * n - 1) = 2
        /\ 2 * n + 1 \in Nat \ {0}
    BY <1>2, <2>3
  <2>6. \A i \in 1..(2 * n + 1) :
          text[i] = IF i <= 2 * n - 1 THEN joined[i] ELSE rest[i - (2 * n - 1)]
    BY <1>2, <2>4, <2>5
  <2>7. text[1] = a.parts[1] /\ text[2 * n] = ":" /\ text[2 * n + 1] = a.port
    BY <1>3, <2>3, <2>5, <2>6
  <2>8. n > 1 => text[2] = "."
    BY <1>3, <2>5, <2>6
  <2>9. n = 1 => text[2] = ":" /\ text[3] \in Letters /\ 2 * n + 1 = 3
    <3>1. n = 1 => 2 * n = 2 /\ 2 * n + 1 = 3
      OBVIOUS
    <3>2. QED
      BY <2>2, <2>7, <3>1
  <2>10. Len(text) = 2 * n + 1 /\ DOMAIN text = 1..(2 * n + 1)
    BY <2>4, <2>5, LenProperties
  <2>11. \E i \in DOMAIN text : text[i] = ":"
    BY <2>5, <2>7, <2>10
  <2>12. Len(text) > 1 => \/ text[2] = "."
                          \/ text[2] = ":" /\ Len(text) = 3 /\ text[3] \in Letters
    BY <2>5, <2>8, <2>9, <2>10
  <2>13. QED
    BY <1>6, <2>1, <2>4, <2>5, <2>7, <2>10, <2>11, <2>12
<1>7. QED
  BY <1>5, <1>6

(* The code takes for an endpoint what has four numbers and a port.        *)
LEMMA EndpointMeans ==
  ASSUME NEW a \in Endpoints
  PROVE  IsIpv4Endpoint(Text(a)) <=> Ipv4AndPort(a, OctetOrMinusZero)
<1>1. a.form = "endpoint" /\ a.parts \in Parts /\ a.port \in Letters \cup {"none"}
  BY DEF Endpoints
<1>2. CASE a.port = "none"
  <2>1. ~IsIpv4Endpoint(Text(a))
    BY <1>2, EndpointStart, EndpointBegins
  <2>2. a.port \notin Numerals
    BY <1>2, TokensAssumption DEF Plain
  <2>3. ~Decimal(a.port, 1, LargestPort)
    BY <2>2 DEF Decimal
  <2>4. QED
    BY <2>1, <2>3 DEF Ipv4AndPort
<1>3. CASE a.port # "none"
  <2>1. a.port \in Letters
    BY <1>1, <1>3
  <2>2. Text(a) = Joined(a.parts) \o <<":", a.port>>
    BY <1>1, <1>3 DEF Text
  <2>3. IsIpv4Endpoint(Text(a)) <=>
           /\ Len(a.parts) = 4 /\ \A i \in 1..4 : ReadsAs(a.parts[i], 0, 255)
           /\ ReadsAs(a.port, 1, LargestPort)
    BY <1>1, <2>1, <2>2, EndpointRead
  <2>4. \A i \in 1..4 : ReadsAs(a.parts[i], 0, 255) <=> OctetOrMinusZero(a.parts[i])
    BY OctetRead
  <2>5. ReadsAs(a.port, 1, LargestPort) <=> Decimal(a.port, 1, LargestPort)
    BY PortRead
  <2>6. QED
    BY <2>3, <2>4, <2>5 DEF Ipv4AndPort
<1>4. QED
  BY <1>2, <1>3

-----------------------------------------------------------------------------
(* The two spellings of inproc.                                            *)
BeginsNative(text) ==
  /\ Len(text) >= 4
  /\ text[1] = "inproc" /\ text[2] = ":" /\ text[3] = "/" /\ text[4] = "/"
BeginsInproc(text) ==
  /\ Len(text) >= 2
  /\ text[1] = "inproc" /\ text[2] = "/"

LEMMA PrefixByElement ==
  ASSUME NEW S, NEW s \in Seq(S), NEW t \in Seq(S), Len(s) > 0
  PROVE  IsPrefix(s, t) <=> Len(s) <= Len(t) /\ \A i \in 1..Len(s) : s[i] = t[i]
<1>1. CASE Len(s) <= Len(t)
  <2> DEFINE n == Len(s)
             start == SubSeq(t, 1, n)
  <2>1. n \in Nat /\ Len(t) \in Nat /\ n > 0 /\ n <= Len(t)
    BY <1>1
  <2>2. 1 \in 1..Len(t) /\ n \in 1..Len(t) /\ n - 1 + 1 = n /\ \A i \in 1..n : i + 1 - 1 = i
    BY <2>1
  <2>3. SubSeq(s, 1, n) = s
    BY SubSeqFull
  <2> HIDE DEF n
  <2>4. /\ start \in Seq(S) /\ Len(start) = n - 1 + 1
        /\ \A i \in 1..(n - 1 + 1) : start[i] = t[i + 1 - 1]
    BY <2>1, <2>2, PartOf
  <2> HIDE DEF start
  <2>5. Len(start) = n /\ \A i \in 1..n : start[i] = t[i]
    BY <2>2, <2>4
  <2>6. (s = start) <=> \A i \in 1..n : s[i] = t[i]
    <3>1. Len(s) = Len(start)
      BY <2>5 DEF n
    <3>2. (\A i \in 1..Len(s) : s[i] = start[i]) => s = start
      BY <2>4, <3>1, SeqEqual
    <3>3. QED
      BY <2>5, <3>2 DEF n
  <2>7. IsPrefix(s, t) <=> s = start
    BY <1>1, <2>3 DEF IsPrefix, n, start
  <2>8. QED
    BY <1>1, <2>6, <2>7 DEF n
<1>2. CASE ~(Len(s) <= Len(t))
  BY <1>2 DEF IsPrefix
<1>3. QED
  BY <1>1, <1>2

LEMMA NativeTokens ==
  /\ NativeInproc \in Seq(Tokens) /\ Len(NativeInproc) = 4
  /\ NativeInproc[1] = "inproc" /\ NativeInproc[2] = ":"
  /\ NativeInproc[3] = "/" /\ NativeInproc[4] = "/"
<1>1. "inproc" \in Tokens /\ ":" \in Tokens /\ "/" \in Tokens
  BY TokensAssumption DEF Tokens, Plain, Separators
<1>2. QED
  BY <1>1 DEF NativeInproc

LEMMA InprocTokens ==
  /\ Inproc \in Seq(Tokens) /\ Len(Inproc) = 2
  /\ Inproc[1] = "inproc" /\ Inproc[2] = "/"
<1>1. "inproc" \in Tokens /\ "/" \in Tokens
  BY TokensAssumption DEF Tokens, Plain, Separators
<1>2. QED
  BY <1>1 DEF Inproc

LEMMA PrefixesRead ==
  ASSUME NEW text \in Seq(Tokens)
  PROVE  /\ IsPrefix(NativeInproc, text) <=> BeginsNative(text)
         /\ IsPrefix(Inproc, text) <=> BeginsInproc(text)
<1>1. IsPrefix(NativeInproc, text) <=> BeginsNative(text)
  <2>1. IsPrefix(NativeInproc, text) <=>
          4 <= Len(text) /\ \A i \in 1..4 : NativeInproc[i] = text[i]
    <3>1. NativeInproc \in Seq(Tokens) /\ Len(NativeInproc) > 0
      BY NativeTokens
    <3>2. IsPrefix(NativeInproc, text) <=>
            /\ Len(NativeInproc) <= Len(text)
            /\ \A i \in 1..Len(NativeInproc) : NativeInproc[i] = text[i]
      BY <3>1, PrefixByElement
    <3>3. QED
      BY <3>2, NativeTokens
  <2>2. \A i \in 1..4 : i = 1 \/ i = 2 \/ i = 3 \/ i = 4
    OBVIOUS
  <2>3. QED
    BY <2>1, <2>2, NativeTokens DEF BeginsNative
<1>2. IsPrefix(Inproc, text) <=> BeginsInproc(text)
  <2>1. IsPrefix(Inproc, text) <=>
          2 <= Len(text) /\ \A i \in 1..2 : Inproc[i] = text[i]
    <3>1. Inproc \in Seq(Tokens) /\ Len(Inproc) > 0
      BY InprocTokens
    <3>2. IsPrefix(Inproc, text) <=>
            /\ Len(Inproc) <= Len(text)
            /\ \A i \in 1..Len(Inproc) : Inproc[i] = text[i]
      BY <3>1, PrefixByElement
    <3>3. QED
      BY <3>2, InprocTokens
  <2>2. \A i \in 1..2 : i = 1 \/ i = 2
    OBVIOUS
  <2>3. QED
    BY <2>1, <2>2, InprocTokens DEF BeginsInproc
<1>3. QED
  BY <1>1, <1>2

LEMMA InprocRead ==
  ASSUME NEW text \in Seq(Tokens)
  PROVE  IsInprocAddress(text) <=> \/ BeginsNative(text) /\ Len(text) > 4
                                   \/ BeginsInproc(text) /\ Len(text) > 2
<1>1. Len(text) \in Nat
  OBVIOUS
<1>2. ASSUME BeginsNative(text) PROVE (NativeInproc # text) <=> Len(text) > 4
  <2>1. ASSUME Len(text) = 4 PROVE NativeInproc = text
    <3>1. \A i \in 1..4 : i = 1 \/ i = 2 \/ i = 3 \/ i = 4
      OBVIOUS
    <3>2. \A i \in 1..4 : NativeInproc[i] = text[i]
      BY <1>2, <3>1, NativeTokens DEF BeginsNative
    <3>3. Len(NativeInproc) = Len(text) /\ Len(NativeInproc) = 4
      BY <2>1, NativeTokens
    <3>4. \A i \in 1..Len(NativeInproc) : NativeInproc[i] = text[i]
      BY <3>2, <3>3
    <3>5. QED
      BY <3>3, <3>4, NativeTokens, SeqEqual
  <2>2. ASSUME NativeInproc = text PROVE Len(text) = 4
    <3>1. Len(NativeInproc) = 4
      BY NativeTokens
    <3>2. QED
      BY <2>2, <3>1
  <2>3. Len(text) = 4 <=> ~(Len(text) > 4)
    <3>1. Len(text) >= 4
      BY <1>2 DEF BeginsNative
    <3>2. \A m \in Nat : m >= 4 => (m = 4 <=> ~(m > 4))
      OBVIOUS
    <3>3. QED
      BY <1>1, <3>1, <3>2, Zenon
  <2>4. QED
    BY <2>1, <2>2, <2>3, Zenon
<1>3. ASSUME BeginsInproc(text) PROVE (Inproc # text) <=> Len(text) > 2
  <2>1. ASSUME Len(text) = 2 PROVE Inproc = text
    <3>1. \A i \in 1..2 : i = 1 \/ i = 2
      OBVIOUS
    <3>2. \A i \in 1..2 : Inproc[i] = text[i]
      BY <1>3, <3>1, InprocTokens DEF BeginsInproc
    <3>3. Len(Inproc) = Len(text) /\ Len(Inproc) = 2
      BY <2>1, InprocTokens
    <3>4. \A i \in 1..Len(Inproc) : Inproc[i] = text[i]
      BY <3>2, <3>3
    <3>5. QED
      BY <3>3, <3>4, InprocTokens, SeqEqual
  <2>2. ASSUME Inproc = text PROVE Len(text) = 2
    <3>1. Len(Inproc) = 2
      BY InprocTokens
    <3>2. QED
      BY <2>2, <3>1
  <2>3. Len(text) = 2 <=> ~(Len(text) > 2)
    <3>1. Len(text) >= 2
      BY <1>3 DEF BeginsInproc
    <3>2. \A m \in Nat : m >= 2 => (m = 2 <=> ~(m > 2))
      OBVIOUS
    <3>3. QED
      BY <1>1, <3>1, <3>2, Zenon
  <2>4. QED
    BY <2>1, <2>2, <2>3, Zenon
<1>4. QED
  BY <1>2, <1>3, PrefixesRead DEF IsInprocAddress, IsStrictPrefix

-----------------------------------------------------------------------------
(* What the parser makes of an address of each form.                       *)
LEMMA HeadAndName ==
  ASSUME NEW head \in Seq(Tokens), NEW name \in Seq(Tokens)
  PROVE  /\ head \o name \in Seq(Tokens) /\ Len(head \o name) = Len(head) + Len(name)
         /\ \A i \in 1..Len(head) : (head \o name)[i] = head[i]
         /\ name # <<>> => (head \o name)[Len(head) + 1] = name[1] /\ Len(name) > 0
         /\ name = <<>> => Len(name) = 0
<1>1. /\ head \o name \in Seq(Tokens)
      /\ Len(head \o name) = Len(head) + Len(name)
      /\ \A i \in 1..Len(head) + Len(name) :
           (head \o name)[i] = IF i <= Len(head) THEN head[i] ELSE name[i - Len(head)]
  BY ConcatProperties
<1>2. Len(head) \in Nat /\ Len(name) \in Nat
  BY LenProperties
<1>3. name # <<>> => Len(name) > 0
  BY NotEmpty
<1>4. name = <<>> => Len(name) = 0
  OBVIOUS
<1> DEFINE h == Len(head)
           n == Len(name)
           text == head \o name
<1> HIDE DEF h, n, text
<1>5. /\ h \in Nat /\ n \in Nat
      /\ \A i \in 1..(h + n) : text[i] = IF i <= h THEN head[i] ELSE name[i - h]
  BY <1>1, <1>2 DEF h, n, text
<1>6. \A i \in 1..h : text[i] = head[i]
  <2>1. \A i \in 1..h : i \in 1..(h + n) /\ i <= h
    BY <1>5
  <2>2. QED
    BY <1>5, <2>1
<1>7. n > 0 => text[h + 1] = name[1]
  <2>1. n > 0 => h + 1 \in 1..(h + n) /\ ~(h + 1 <= h) /\ (h + 1) - h = 1
    BY <1>5
  <2>2. QED
    BY <1>5, <2>1
<1>8. QED
  BY <1>1, <1>3, <1>4, <1>6, <1>7 DEF h, n, text

LEMMA InprocHead ==
  ASSUME NEW parts \in Seq(Tokens), NEW whole \in Seq(Tokens),
         Len(whole) = 1 + Len(parts), whole[1] = "inproc",
         \A i \in 1..Len(parts) : whole[i + 1] = parts[i]
  PROVE  <<"inproc">> \o parts = whole
<1> DEFINE word == <<"inproc">>
           head == word \o parts
           n == Len(parts)
<1>1. word \in Seq(Tokens) /\ Len(word) = 1 /\ word[1] = "inproc" /\ n \in Nat
  <2>1. "inproc" \in Tokens
    BY TokensAssumption DEF Tokens, Plain
  <2>2. QED
    BY <2>1
<1> HIDE DEF word
<1>2. /\ head \in Seq(Tokens) /\ Len(head) = Len(word) + n
      /\ \A i \in 1..Len(word) + n :
           head[i] = IF i <= Len(word) THEN word[i] ELSE parts[i - Len(word)]
  BY <1>1, ConcatProperties
<1> HIDE DEF head, n
<1>3. \A i \in 1..1 + n : head[i] = IF i <= 1 THEN word[i] ELSE parts[i - 1]
  BY <1>1, <1>2
<1>4. ASSUME NEW i \in 1..1 + n PROVE head[i] = whole[i]
  <2>1. CASE i = 1
    BY <1>1, <1>3, <2>1
  <2>2. CASE i # 1
    <3>1. i - 1 \in 1..n /\ ~(i <= 1) /\ (i - 1) + 1 = i
      BY <1>1, <2>2
    <3>2. head[i] = parts[i - 1]
      BY <1>3, <3>1
    <3>3. whole[(i - 1) + 1] = parts[i - 1]
      BY <3>1 DEF n
    <3>4. QED
      BY <3>1, <3>2, <3>3
  <2>3. QED
    BY <2>1, <2>2
<1>5. Len(head) = Len(whole) /\ Len(head) = 1 + n
  BY <1>1, <1>2 DEF n
<1>6. head = whole
  BY <1>2, <1>4, <1>5, SeqEqual
<1>7. QED
  BY <1>6 DEF head, word

LEMMA InprocHeads ==
  /\ <<"inproc">> \o <<>> = <<"inproc">>
  /\ <<"inproc">> \o <<"/">> = Inproc
  /\ <<"inproc">> \o <<":">> = <<"inproc", ":">>
  /\ <<"inproc">> \o <<":", "/">> = <<"inproc", ":", "/">>
  /\ <<"inproc">> \o <<":", "/", "/">> = NativeInproc
<1>1. "inproc" \in Tokens /\ ":" \in Tokens /\ "/" \in Tokens
  BY TokensAssumption DEF Tokens, Plain, Separators
<1>2. <<"inproc">> \o <<>> = <<"inproc">>
  OBVIOUS
<1>3. <<"inproc">> \o <<"/">> = Inproc
  <2> DEFINE parts == <<"/">>
             whole == <<"inproc", "/">>
  <2>1. /\ parts \in Seq(Tokens) /\ whole \in Seq(Tokens) /\ Len(whole) = 1 + Len(parts)
        /\ whole[1] = "inproc" /\ \A i \in 1..Len(parts) : whole[i + 1] = parts[i]
    BY <1>1
  <2> HIDE DEF parts, whole
  <2>2. <<"inproc">> \o parts = whole
    BY <2>1, InprocHead
  <2>3. QED
    BY <2>2 DEF parts, whole, Inproc
<1>4. <<"inproc">> \o <<":">> = <<"inproc", ":">>
  <2> DEFINE parts == <<":">>
             whole == <<"inproc", ":">>
  <2>1. /\ parts \in Seq(Tokens) /\ whole \in Seq(Tokens) /\ Len(whole) = 1 + Len(parts)
        /\ whole[1] = "inproc" /\ \A i \in 1..Len(parts) : whole[i + 1] = parts[i]
    BY <1>1
  <2> HIDE DEF parts, whole
  <2>2. <<"inproc">> \o parts = whole
    BY <2>1, InprocHead
  <2>3. QED
    BY <2>2 DEF parts, whole
<1>5. <<"inproc">> \o <<":", "/">> = <<"inproc", ":", "/">>
  <2> DEFINE parts == <<":", "/">>
             whole == <<"inproc", ":", "/">>
  <2>1. /\ parts \in Seq(Tokens) /\ whole \in Seq(Tokens) /\ Len(whole) = 1 + Len(parts)
        /\ whole[1] = "inproc" /\ \A i \in 1..Len(parts) : whole[i + 1] = parts[i]
    BY <1>1
  <2> HIDE DEF parts, whole
  <2>2. <<"inproc">> \o parts = whole
    BY <2>1, InprocHead
  <2>3. QED
    BY <2>2 DEF parts, whole
<1>6. <<"inproc">> \o <<":", "/", "/">> = NativeInproc
  <2> DEFINE parts == <<":", "/", "/">>
             whole == <<"inproc", ":", "/", "/">>
  <2>1. /\ parts \in Seq(Tokens) /\ whole \in Seq(Tokens) /\ Len(whole) = 1 + Len(parts)
        /\ whole[1] = "inproc" /\ \A i \in 1..Len(parts) : whole[i + 1] = parts[i]
    BY <1>1
  <2> HIDE DEF parts, whole
  <2>2. <<"inproc">> \o parts = whole
    BY <2>1, InprocHead
  <2>3. QED
    BY <2>2 DEF parts, whole, NativeInproc
<1>7. QED
  BY <1>2, <1>3, <1>4, <1>5, <1>6

(* The code takes for an address within the process what has a name after  *)
(* one of the two spellings.                                               *)
LEMMA InprocMeans ==
  ASSUME NEW a \in Inprocs
  PROVE  /\ Text(a) \in Seq(Tokens) /\ Text(a) # <<>> /\ Text(a)[1] = "inproc"
         /\ IsInprocAddress(Text(a)) <=>
              a.parts \in {<<"/">>, <<":", "/", "/">>} /\ a.name # <<>>
         /\ a.parts = <<"/">> => Text(a) = Inproc \o a.name
         /\ a.parts = <<":", "/", "/">> => Text(a) = NativeInproc \o a.name
<1> DEFINE head == <<"inproc">> \o a.parts
           name == a.name
           text == head \o name
<1>1. /\ a.form = "inproc" /\ a.parts \in InprocSeparators /\ name \in Seq(Tokens)
      /\ name # <<>> => name[1] # ":" /\ name[1] # "/"
  BY DEF Inprocs, Separators
<1>2. Text(a) = text
  BY <1>1 DEF Text
<1>3. "inproc" \in Tokens /\ ":" \in Tokens /\ "/" \in Tokens
  BY TokensAssumption DEF Tokens, Plain, Separators
<1> HIDE DEF name
<1>4. CASE a.parts = <<>>
  <2>1. head = <<"inproc">>
    BY <1>4, InprocHeads
  <2> HIDE DEF head
  <2>2. head \in Seq(Tokens) /\ Len(head) = 1 /\ head[1] = "inproc"
    BY <1>3, <2>1
  <2>3. /\ text \in Seq(Tokens) /\ Len(text) = 1 + Len(name) /\ text[1] = "inproc"
        /\ name # <<>> => text[2] = name[1] /\ Len(name) > 0
        /\ name = <<>> => Len(name) = 0
    <3>1. head \in Seq(Tokens) /\ name \in Seq(Tokens)
      BY <1>1, <2>2
    <3>2. /\ text \in Seq(Tokens) /\ Len(text) = Len(head) + Len(name)
          /\ \A i \in 1..Len(head) : text[i] = head[i]
          /\ name # <<>> => text[Len(head) + 1] = name[1] /\ Len(name) > 0
          /\ name = <<>> => Len(name) = 0
      BY <3>1, HeadAndName
    <3> HIDE DEF text
    <3>3. QED
      BY <2>2, <3>2
  <2> HIDE DEF text
  <2>4. ~BeginsNative(text) /\ ~BeginsInproc(text)
    BY <1>1, <2>3 DEF BeginsNative, BeginsInproc
  <2>5. <<>> # <<"/">> /\ <<>> # <<":", "/", "/">>
    OBVIOUS
  <2>6. text # <<>>
    BY <1>1, <2>3
  <2>7. QED
    BY <1>2, <1>4, <2>3, <2>4, <2>5, <2>6, InprocRead
<1>5. CASE a.parts = <<"/">>
  <2>1. head = Inproc
    BY <1>5, InprocHeads
  <2> HIDE DEF head
  <2>2. head \in Seq(Tokens) /\ Len(head) = 2 /\ head[1] = "inproc" /\ head[2] = "/"
    BY <2>1, InprocTokens
  <2>3. /\ text \in Seq(Tokens) /\ Len(text) = 2 + Len(name)
        /\ text[1] = "inproc" /\ text[2] = "/"
        /\ name # <<>> => Len(name) > 0
        /\ name = <<>> => Len(name) = 0
    <3>1. head \in Seq(Tokens) /\ name \in Seq(Tokens)
      BY <1>1, <2>2
    <3>2. /\ text \in Seq(Tokens) /\ Len(text) = Len(head) + Len(name)
          /\ \A i \in 1..Len(head) : text[i] = head[i]
          /\ name # <<>> => text[Len(head) + 1] = name[1] /\ Len(name) > 0
          /\ name = <<>> => Len(name) = 0
      BY <3>1, HeadAndName
    <3> HIDE DEF text
    <3>3. QED
      BY <2>2, <3>2
  <2>4. Len(name) \in Nat
    BY <1>1
  <2>5. text = Inproc \o a.name
    BY <2>1 DEF name
  <2> HIDE DEF text
  <2>6. ~BeginsNative(text) /\ BeginsInproc(text)
    BY <2>3, <2>4 DEF BeginsNative, BeginsInproc
  <2>7. Len(text) > 2 <=> name # <<>>
    BY <2>3, <2>4
  <2>8. <<"/">> # <<":", "/", "/">>
    OBVIOUS
  <2>9. text # <<>>
    BY <2>3, <2>4
  <2>10. QED
    BY <1>2, <1>5, <2>3, <2>5, <2>6, <2>7, <2>8, <2>9, InprocRead DEF name
<1>6. CASE a.parts = <<":">>
  <2>1. head = <<"inproc", ":">>
    BY <1>6, InprocHeads
  <2> HIDE DEF head
  <2>2. head \in Seq(Tokens) /\ Len(head) = 2 /\ head[1] = "inproc" /\ head[2] = ":"
    BY <1>3, <2>1
  <2>3. /\ text \in Seq(Tokens) /\ Len(text) = 2 + Len(name)
        /\ text[1] = "inproc" /\ text[2] = ":"
        /\ name # <<>> => text[3] = name[1] /\ Len(name) > 0
        /\ name = <<>> => Len(name) = 0
    <3>1. head \in Seq(Tokens) /\ name \in Seq(Tokens)
      BY <1>1, <2>2
    <3>2. /\ text \in Seq(Tokens) /\ Len(text) = Len(head) + Len(name)
          /\ \A i \in 1..Len(head) : text[i] = head[i]
          /\ name # <<>> => text[Len(head) + 1] = name[1] /\ Len(name) > 0
          /\ name = <<>> => Len(name) = 0
      BY <3>1, HeadAndName
    <3> HIDE DEF text
    <3>3. QED
      BY <2>2, <3>2
  <2> HIDE DEF text
  <2>4. ~BeginsNative(text) /\ ~BeginsInproc(text)
    BY <1>1, <2>3 DEF BeginsNative, BeginsInproc
  <2>5. <<":">> # <<"/">> /\ <<":">> # <<":", "/", "/">>
    OBVIOUS
  <2>6. text # <<>>
    BY <1>1, <2>3
  <2>7. QED
    BY <1>2, <1>6, <2>3, <2>4, <2>5, <2>6, InprocRead
<1>7. CASE a.parts = <<":", "/">>
  <2>1. head = <<"inproc", ":", "/">>
    BY <1>7, InprocHeads
  <2> HIDE DEF head
  <2>2. head \in Seq(Tokens) /\ Len(head) = 3 /\ head[1] = "inproc" /\ head[2] = ":"
    BY <1>3, <2>1
  <2>3. /\ text \in Seq(Tokens) /\ Len(text) = 3 + Len(name)
        /\ text[1] = "inproc" /\ text[2] = ":"
        /\ name # <<>> => text[4] = name[1] /\ Len(name) > 0
        /\ name = <<>> => Len(name) = 0
    <3>1. head \in Seq(Tokens) /\ name \in Seq(Tokens)
      BY <1>1, <2>2
    <3>2. /\ text \in Seq(Tokens) /\ Len(text) = Len(head) + Len(name)
          /\ \A i \in 1..Len(head) : text[i] = head[i]
          /\ name # <<>> => text[Len(head) + 1] = name[1] /\ Len(name) > 0
          /\ name = <<>> => Len(name) = 0
      BY <3>1, HeadAndName
    <3> HIDE DEF text
    <3>3. QED
      BY <2>2, <3>2
  <2> HIDE DEF text
  <2>4. ~BeginsNative(text) /\ ~BeginsInproc(text)
    BY <1>1, <2>3 DEF BeginsNative, BeginsInproc
  <2>5. <<":", "/">> # <<"/">> /\ <<":", "/">> # <<":", "/", "/">>
    OBVIOUS
  <2>6. text # <<>>
    BY <1>1, <2>3
  <2>7. QED
    BY <1>2, <1>7, <2>3, <2>4, <2>5, <2>6, InprocRead
<1>8. CASE a.parts = <<":", "/", "/">>
  <2>1. head = NativeInproc
    BY <1>8, InprocHeads
  <2> HIDE DEF head
  <2>2. /\ head \in Seq(Tokens) /\ Len(head) = 4 /\ head[1] = "inproc"
        /\ head[2] = ":" /\ head[3] = "/" /\ head[4] = "/"
    BY <2>1, NativeTokens
  <2>3. /\ text \in Seq(Tokens) /\ Len(text) = 4 + Len(name) /\ text[1] = "inproc"
        /\ text[2] = ":" /\ text[3] = "/" /\ text[4] = "/"
        /\ name # <<>> => Len(name) > 0
        /\ name = <<>> => Len(name) = 0
    <3>1. head \in Seq(Tokens) /\ name \in Seq(Tokens)
      BY <1>1, <2>2
    <3>2. /\ text \in Seq(Tokens) /\ Len(text) = Len(head) + Len(name)
          /\ \A i \in 1..Len(head) : text[i] = head[i]
          /\ name # <<>> => text[Len(head) + 1] = name[1] /\ Len(name) > 0
          /\ name = <<>> => Len(name) = 0
      BY <3>1, HeadAndName
    <3> HIDE DEF text
    <3>3. QED
      BY <2>2, <3>2
  <2>4. Len(name) \in Nat
    BY <1>1
  <2>5. text = NativeInproc \o a.name
    BY <2>1 DEF name
  <2> HIDE DEF text
  <2>6. BeginsNative(text) /\ ~BeginsInproc(text)
    BY <2>3, <2>4 DEF BeginsNative, BeginsInproc
  <2>7. Len(text) > 4 <=> name # <<>>
    BY <2>3, <2>4
  <2>8. <<"/">> # <<":", "/", "/">>
    OBVIOUS
  <2>9. text # <<>>
    BY <2>3, <2>4
  <2>10. QED
    BY <1>2, <1>8, <2>3, <2>5, <2>6, <2>7, <2>8, <2>9, InprocRead DEF name
<1>9. QED
  BY <1>1, <1>4, <1>5, <1>6, <1>7, <1>8 DEF InprocSeparators

LEMMA EndpointParsed ==
  ASSUME NEW a \in Endpoints
  PROVE  /\ Text(a) # <<>> /\ Parse(Text(a)) \in Accepted(a)
         /\ Parse(Text(a)) = "zeromq" <=> Ipv4AndPort(a, OctetOrMinusZero)
<1> DEFINE text == Text(a)
           Good == Ipv4AndPort(a, OctetOrMinusZero)
<1>1. a.form = "endpoint"
  BY DEF Endpoints
<1>2. /\ text \in Seq(Tokens) /\ Len(text) \in Nat \ {0}
      /\ text[1] = a.parts[1]
      /\ Len(text) > 1 => \/ text[2] = "."
                          \/ text[2] = ":" /\ Len(text) = 3 /\ text[3] \in Letters
      /\ (\E i \in DOMAIN text : text[i] = ":") <=> a.port # "none"
  BY EndpointStart
<1>3. IsIpv4Endpoint(text) <=> Good
  BY EndpointMeans
<1> HIDE DEF text
<1>4. text # <<>>
  BY <1>2
<1>5. ~IsInprocAddress(text)
  <2>1. "/" \notin Letters
    BY LettersAreNoSeparators DEF Separators
  <2>2. ~BeginsNative(text) /\ ~BeginsInproc(text)
    BY <1>2, <2>1 DEF BeginsNative, BeginsInproc
  <2>3. QED
    BY <1>2, <2>2, InprocRead
<1>6. StartsWithDigit(text) <=> StartsWithDigit(a.parts)
  BY <1>2 DEF StartsWithDigit
<1>7. CASE Good
  <2>1. Parse(text) = "zeromq"
    BY <1>3, <1>4, <1>5, <1>7 DEF Parse, ParseSuspecting
  <2>2. "zeromq" \in Deviation(a)
    BY <1>1, <1>7 DEF Deviation
  <2>3. QED
    BY <1>4, <1>7, <2>1, <2>2 DEF Accepted, text
<1>8. CASE ~Good
  <2>1. Parse(text) = IF \/ text[1] \in InprocWords
                         \/ /\ StartsWithDigit(text)
                            /\ \E i \in DOMAIN text : text[i] = ":"
                        THEN "invalid" ELSE "zenoh"
    BY <1>3, <1>4, <1>5, <1>8 DEF Parse, ParseSuspecting, IsColon
  <2>2. Documented(a) = "invalid"
    <3>1. \A t : Octet(t) => OctetOrMinusZero(t)
      BY DEF OctetOrMinusZero
    <3>2. ~Ipv4AndPort(a, Octet)
      BY <1>8, <3>1 DEF Ipv4AndPort
    <3>3. QED
      BY <1>1, <3>2 DEF Documented
  <2>3. Parse(text) = "zenoh" => "zenoh" \in Deviation(a)
    <3>1. Parse(text) = "zenoh" => a.port = "none" \/ ~StartsWithDigit(a.parts)
      BY <1>2, <1>6, <2>1
    <3>2. QED
      BY <1>1, <1>8, <3>1 DEF Deviation
  <2>4. QED
    BY <1>4, <1>8, <2>1, <2>2, <2>3 DEF Accepted, text
<1>9. QED
  BY <1>7, <1>8

LEMMA InprocParsed ==
  ASSUME NEW a \in Inprocs
  PROVE  /\ Text(a) # <<>> /\ Parse(Text(a)) \in Accepted(a)
         /\ Parse(Text(a)) = "zeromq" <=>
              a.parts \in {<<"/">>, <<":", "/", "/">>} /\ a.name # <<>>
<1> DEFINE text == Text(a)
           Good == a.parts \in {<<"/">>, <<":", "/", "/">>} /\ a.name # <<>>
<1>1. a.form = "inproc"
  BY DEF Inprocs
<1>2. /\ text \in Seq(Tokens) /\ text # <<>> /\ text[1] = "inproc"
      /\ IsInprocAddress(text) <=> Good
  BY InprocMeans
<1> HIDE DEF text
<1>3. "inproc" \in InprocWords /\ "inproc" \notin Numerals
  BY TokensAssumption
<1>4. ~IsIpv4Endpoint(text)
  BY <1>2, <1>3, EndpointBegins
<1>5. Documented(a) = IF Good THEN "zeromq" ELSE "invalid"
  BY <1>1 DEF Documented
<1> HIDE DEF Good
<1>6. Parse(text) = IF Good THEN "zeromq" ELSE "invalid"
  BY <1>2, <1>3, <1>4 DEF Parse, ParseSuspecting
<1>7. Parse(text) = "zeromq" <=> Good
  BY <1>6
<1>8. QED
  BY <1>2, <1>5, <1>6, <1>7 DEF Accepted, text, Good

LEMMA KeyParsed ==
  ASSUME NEW a \in Keys
  PROVE  /\ Text(a) # <<>> /\ Parse(Text(a)) \in Accepted(a)
         /\ Parse(Text(a)) # "zeromq"
<1> DEFINE text == a.name
<1>1. /\ a.form = "key" /\ text \in Seq(Tokens) /\ text # <<>> /\ text[1] # "inproc"
      /\ text[1] \in Numerals \cup DigitWords => \A i \in DOMAIN text : text[i] # ":"
  BY DEF Keys
<1>2. Text(a) = text
  BY <1>1 DEF Text
<1> HIDE DEF text
<1>3. ~IsInprocAddress(text)
  BY <1>1, InprocRead DEF BeginsNative, BeginsInproc
<1>4. ~IsIpv4Endpoint(text)
  BY <1>1, EndpointBegins
<1>5. ~(StartsWithDigit(text) /\ \E i \in DOMAIN text : IsColon(text[i]))
  BY <1>1 DEF StartsWithDigit, IsColon
<1>6. Parse(text) = IF text[1] \in InprocWords THEN "invalid" ELSE "zenoh"
  BY <1>1, <1>3, <1>4, <1>5 DEF Parse, ParseSuspecting
<1>7. Documented(a) = "zenoh"
  BY <1>1 DEF Documented
<1>8. text[1] \in InprocWords => "invalid" \in Deviation(a)
  BY <1>1 DEF Deviation, text
<1>9. Parse(text) \in Accepted(a) /\ Parse(text) # "zeromq"
  BY <1>6, <1>7, <1>8 DEF Accepted
<1>10. QED
  BY <1>1, <1>2, <1>9

(* The parser accepts of an address what is documented, or deviates as     *)
(* named.                                                                  *)
LEMMA ParseAccepted ==
  ASSUME NEW a \in Addresses
  PROVE  /\ Text(a) = <<>> <=> a.form = "empty"
         /\ Text(a) # <<>> => Parse(Text(a)) \in Accepted(a)
         /\ Text(a) = <<>> => "none" \in Accepted(a)
         /\ Text(a) # <<>> => Parse(Text(a)) \in {"zeromq", "zenoh", "invalid"}
<1>1. a \in Endpoints \/ a \in Inprocs \/ a \in Keys \/ a \in [form : {"empty"}]
  BY DEF Addresses
<1>2. Text(a) # <<>> => Parse(Text(a)) \in {"zeromq", "zenoh", "invalid"}
  BY Zenon DEF Parse, ParseSuspecting
<1>3. CASE a \in Endpoints
  BY <1>2, <1>3, EndpointParsed DEF Endpoints
<1>4. CASE a \in Inprocs
  BY <1>2, <1>4, InprocParsed DEF Inprocs
<1>5. CASE a \in Keys
  BY <1>2, <1>5, KeyParsed DEF Keys
<1>6. CASE a \in [form : {"empty"}]
  <2>1. a.form = "empty"
    BY <1>6
  <2>2. QED
    BY <2>1 DEF Text, Accepted, Documented
<1>7. QED
  BY <1>1, <1>3, <1>4, <1>5, <1>6

-----------------------------------------------------------------------------
(* The constructor.                                                        *)

(* A channel that was passed has no address, or its transport.             *)
Made(ch) ==
  LET text == Text(given[ch])
  IN IF text = <<>> THEN transport[ch] = "none"
     ELSE Parse(text) \in built /\ transport[ch] = Parse(text)

(* A channel that cannot be made, for the exception to be thrown.          *)
Malformed(ch) == Text(given[ch]) # <<>> /\ Parse(Text(given[ch])) = "invalid"
NotBuilt(ch) ==
  Text(given[ch]) # <<>> /\ Parse(Text(given[ch])) \in {"zeromq", "zenoh"} \ built

Steps == {"checking", "broadcast", "request", "made", "invalid_argument", "runtime_error"}

TypeOK ==
  /\ given \in [Channels -> Addresses]
  /\ built \subseteq {"zeromq", "zenoh"}
  /\ step \in Steps
  /\ transport \in [Channels -> {"none", "zeromq", "zenoh"}]

IInv ==
  /\ TypeOK
  /\ step \in {"checking", "broadcast"} =>
       \A ch \in Channels : transport[ch] = "none"
  /\ step = "request" => Made("broadcast") /\ transport["request"] = "none"
  /\ step = "made" => \A ch \in Channels : Made(ch)
  /\ step = "invalid_argument" => \/ \A ch \in Channels : given[ch].form = "empty"
                                  \/ \E ch \in Channels : Malformed(ch)
  /\ step = "runtime_error" => \E ch \in Channels : NotBuilt(ch)

LEMMA InitIsGood == Init => IInv
<1> SUFFICES ASSUME Init PROVE IInv
  OBVIOUS
<1>1. given \in [Channels -> Addresses]
  <2>1. given \in [broadcast : Broadcasts, request : Requests]
    BY DEF Init
  <2>2. Broadcasts \subseteq Addresses /\ Requests \subseteq Addresses
    BY NodeAddressAssumption
  <2> HIDE DEF Addresses
  <2>3. QED
    BY <2>1, <2>2 DEF Channels
<1>2. built \subseteq {"zeromq", "zenoh"}
  BY NodeAddressAssumption DEF Init
<1>3. step = "checking" /\ transport = [ch \in Channels |-> "none"]
  BY DEF Init
<1>4. QED
  BY <1>1, <1>2, <1>3 DEF IInv, TypeOK, Steps

(* What one channel makes.                                                 *)
LEMMA ChannelMade ==
  ASSUME IInv, NEW ch \in Channels, NEW next \in Steps, MakeChannel(ch, next),
         transport[ch] = "none"
  PROVE  /\ TypeOK' /\ given' = given /\ built' = built
         /\ \A other \in Channels \ {ch} : transport'[other] = transport[other]
         /\ \/ step' = next /\ Made(ch)'
            \/ step' = "invalid_argument" /\ Malformed(ch)
            \/ step' = "runtime_error" /\ NotBuilt(ch)
<1> DEFINE text == Text(given[ch])
           kind == Parse(text)
<1>1. /\ given \in [Channels -> Addresses] /\ built \subseteq {"zeromq", "zenoh"}
      /\ transport \in [Channels -> {"none", "zeromq", "zenoh"}]
  BY DEF IInv, TypeOK
<1>2. text # <<>> => kind \in {"zeromq", "zenoh", "invalid"}
  <2>1. given[ch] \in Addresses
    BY <1>1
  <2>2. QED
    BY <2>1, ParseAccepted
<1>3. /\ given' = given /\ built' = built
      /\ IF text = <<>> \/ kind \in built THEN step' = next
           ELSE step' = IF kind = "invalid" THEN "invalid_argument" ELSE "runtime_error"
      /\ transport' =
           [transport EXCEPT ![ch] = IF text # <<>> /\ kind \in built THEN kind ELSE @]
  BY DEF MakeChannel
<1>4. Text(given'[ch]) = text /\ Parse(Text(given'[ch])) = kind
  BY <1>3
<1>5. /\ Made(ch)' <=> IF text = <<>> THEN transport'[ch] = "none"
                       ELSE kind \in built /\ transport'[ch] = kind
      /\ Malformed(ch) <=> text # <<>> /\ kind = "invalid"
      /\ NotBuilt(ch) <=> text # <<>> /\ kind \in {"zeromq", "zenoh"} \ built
  BY <1>3, <1>4 DEF Made, Malformed, NotBuilt
<1> HIDE DEF text, kind
<1>6. /\ transport' \in [Channels -> {"none", "zeromq", "zenoh"}]
      /\ transport'[ch] = IF text # <<>> /\ kind \in built THEN kind ELSE "none"
      /\ \A other \in Channels \ {ch} : transport'[other] = transport[other]
  BY <1>1, <1>3
<1>7. TypeOK'
  BY <1>1, <1>3, <1>6 DEF TypeOK, Steps
<1>8. CASE text = <<>> \/ kind \in built
  BY <1>3, <1>5, <1>6, <1>7, <1>8
<1>9. CASE ~(text = <<>> \/ kind \in built)
  BY <1>2, <1>3, <1>5, <1>6, <1>7, <1>9
<1>10. QED
  BY <1>8, <1>9

LEMMA StepKeepsGood == IInv /\ [Next]_vars => IInv'
<1> SUFFICES ASSUME IInv, [Next]_vars PROVE IInv'
  OBVIOUS
<1>1. CASE CheckGiven
  <2>1. /\ step = "checking" /\ given' = given /\ built' = built /\ transport' = transport
        /\ step' = IF \A ch \in Channels : given[ch].form = "empty"
                     THEN "invalid_argument" ELSE "broadcast"
    BY <1>1 DEF CheckGiven
  <2>2. \A ch \in Channels : transport[ch] = "none"
    BY <2>1 DEF IInv
  <2>3. TypeOK'
    BY <2>1 DEF IInv, TypeOK, Steps
  <2>4. QED
    BY <2>1, <2>2, <2>3 DEF IInv
<1>2. CASE MakeBroadcast
  <2>1. step = "broadcast" /\ \A ch \in Channels : transport[ch] = "none"
    BY <1>2 DEF MakeBroadcast, MakeChannel, IInv
  <2>2. /\ "broadcast" \in Channels /\ "request" \in Channels \ {"broadcast"}
        /\ "request" \in Steps
    BY DEF Channels, Steps
  <2>3. /\ TypeOK' /\ given' = given /\ built' = built
        /\ \A other \in Channels \ {"broadcast"} : transport'[other] = transport[other]
        /\ \/ step' = "request" /\ Made("broadcast")'
           \/ step' = "invalid_argument" /\ Malformed("broadcast")
           \/ step' = "runtime_error" /\ NotBuilt("broadcast")
    BY <1>2, <2>1, <2>2, ChannelMade DEF MakeBroadcast
  <2>4. transport'["request"] = "none"
    BY <2>1, <2>2, <2>3
  <2>5. /\ Malformed("broadcast") => Malformed("broadcast")'
        /\ NotBuilt("broadcast") => NotBuilt("broadcast")'
    BY <2>3 DEF Malformed, NotBuilt
  <2>6. QED
    BY <2>2, <2>3, <2>4, <2>5 DEF IInv
<1>3. CASE MakeRequest
  <2>1. step = "request" /\ Made("broadcast") /\ transport["request"] = "none"
    BY <1>3 DEF MakeRequest, MakeChannel, IInv
  <2>2. /\ "request" \in Channels /\ "broadcast" \in Channels \ {"request"}
        /\ "made" \in Steps /\ Channels = {"broadcast", "request"}
    BY DEF Channels, Steps
  <2>3. /\ TypeOK' /\ given' = given /\ built' = built
        /\ \A other \in Channels \ {"request"} : transport'[other] = transport[other]
        /\ \/ step' = "made" /\ Made("request")'
           \/ step' = "invalid_argument" /\ Malformed("request")
           \/ step' = "runtime_error" /\ NotBuilt("request")
    BY <1>3, <2>1, <2>2, ChannelMade DEF MakeRequest
  <2>4. Made("broadcast")'
    BY <2>1, <2>2, <2>3 DEF Made
  <2>5. /\ Malformed("request") => Malformed("request")'
        /\ NotBuilt("request") => NotBuilt("request")'
    BY <2>3 DEF Malformed, NotBuilt
  <2>6. QED
    BY <2>2, <2>3, <2>4, <2>5 DEF IInv
<1>4. CASE UNCHANGED vars
  BY <1>4 DEF vars, IInv, TypeOK, Made, Malformed, NotBuilt
<1>5. QED
  BY <1>1, <1>2, <1>3, <1>4 DEF Next

LEMMA AlwaysGood == Spec => []IInv
BY InitIsGood, StepKeepsGood, PTL DEF Spec

(* Every node that could be made, from any two addresses, speaks on each   *)
(* channel the protocol documented for its address, with the named         *)
(* exceptions.                                                             *)
THEOREM NodesSpeakDocumentedProtocol == Spec => []SpeaksDocumentedProtocol
<1>1. IInv => SpeaksDocumentedProtocol
  <2> SUFFICES ASSUME IInv, step = "made", NEW ch \in Channels
               PROVE  transport[ch] \in Accepted(given[ch]) \ {"invalid"}
    BY DEF SpeaksDocumentedProtocol
  <2>1. /\ given[ch] \in Addresses /\ transport[ch] \in {"none", "zeromq", "zenoh"}
        /\ Made(ch)
    BY DEF IInv, TypeOK
  <2>2. /\ Text(given[ch]) # <<>> => Parse(Text(given[ch])) \in Accepted(given[ch])
        /\ Text(given[ch]) = <<>> => "none" \in Accepted(given[ch])
    BY <2>1, ParseAccepted
  <2>3. transport[ch] \in Accepted(given[ch])
    BY <2>1, <2>2 DEF Made
  <2>4. QED
    BY <2>1, <2>3
<1>2. QED
  BY <1>1, AlwaysGood, PTL

(* Every constructor that throws was given no address, a malformed one or  *)
(* one whose backend was not built.                                        *)
THEOREM NodesRefusedForAReason == Spec => []RefusedForAReason
<1>1. IInv => RefusedForAReason
  <2>1. ASSUME IInv, NEW ch \in Channels, Malformed(ch)
        PROVE  "invalid" \in Accepted(given[ch])
    <3>1. given[ch] \in Addresses
      BY <2>1 DEF IInv, TypeOK
    <3>2. QED
      BY <2>1, <3>1, ParseAccepted DEF Malformed
  <2>2. ASSUME IInv, NEW ch \in Channels, NotBuilt(ch)
        PROVE  Accepted(given[ch]) \cap ({"zeromq", "zenoh"} \ built) # {}
    <3>1. given[ch] \in Addresses
      BY <2>2 DEF IInv, TypeOK
    <3>2. /\ Parse(Text(given[ch])) \in Accepted(given[ch])
          /\ Parse(Text(given[ch])) \in {"zeromq", "zenoh"} \ built
      BY <2>2, <3>1, ParseAccepted DEF NotBuilt
    <3>3. QED
      BY <3>2
  <2>3. QED
    BY <2>1, <2>2 DEF IInv, RefusedForAReason
<1>2. QED
  BY <1>1, AlwaysGood, PTL

-----------------------------------------------------------------------------
(* The endpoints made of addresses.                                        *)
Tcp == <<"tcp", ":", "/", "/">>

LEMMA TcpTokens == Tcp \in Seq(Tokens) /\ Len(Tcp) = 4 /\ Tcp[1] = "tcp"
<1>1. "tcp" \in Tokens /\ ":" \in Tokens /\ "/" \in Tokens
  BY TokensAssumption DEF Tokens, Plain, Separators
<1>2. QED
  BY <1>1 DEF Tcp

LEMMA JoinedDetermines ==
  ASSUME NEW p \in Parts, NEW q \in Parts, Joined(p) = Joined(q)
  PROVE  p = q
<1>1. /\ Len(p) \in Nat \ {0} /\ Len(Joined(p)) = 2 * Len(p) - 1
      /\ \A i \in 1..(2 * Len(p) - 1) :
           Joined(p)[i] = IF i % 2 = 1 THEN p[(i + 1) \div 2] ELSE "."
  BY JoinedShape
<1>2. /\ Len(q) \in Nat \ {0} /\ Len(Joined(q)) = 2 * Len(q) - 1
      /\ \A i \in 1..(2 * Len(q) - 1) :
           Joined(q)[i] = IF i % 2 = 1 THEN q[(i + 1) \div 2] ELSE "."
  BY JoinedShape
<1>3. p \in Seq(Letters) /\ q \in Seq(Letters)
  BY DEF Parts
<1>4. Len(p) = Len(q)
  <2>1. \A m, n \in Nat : 2 * m - 1 = 2 * n - 1 => m = n
    OBVIOUS
  <2>2. 2 * Len(p) - 1 = 2 * Len(q) - 1
    BY <1>1, <1>2
  <2>3. QED
    BY <1>1, <1>2, <2>1, <2>2
<1> DEFINE n == Len(p)
<1>5. ASSUME NEW i \in 1..n PROVE p[i] = q[i]
  <2>1. n \in Nat \ {0} /\ n = Len(q)
    BY <1>1, <1>4
  <2> HIDE DEF n
  <2>2. /\ 2 * i - 1 \in 1..(2 * n - 1) /\ (2 * i - 1) % 2 = 1
        /\ ((2 * i - 1) + 1) \div 2 = i
    BY <2>1
  <2>3. Joined(p)[2 * i - 1] = p[i]
    BY <1>1, <2>2 DEF n
  <2>4. Joined(q)[2 * i - 1] = q[i]
    BY <1>2, <2>1, <2>2
  <2>5. QED
    BY <2>3, <2>4
<1>6. QED
  BY <1>3, <1>4, <1>5, SeqEqual

LEMMA AfterHead ==
  ASSUME NEW head \in Seq(Tokens), NEW name \in Seq(Tokens), name # <<>>
  PROVE  SubSeq(head \o name, Len(head) + 1, Len(head \o name)) = name
<1> DEFINE h == Len(head)
           n == Len(name)
<1>1. h \in Nat /\ n \in Nat /\ n > 0 /\ Len(head \o name) = h + n
  BY HeadAndName, LenProperties
<1>2. /\ h + 1 \in h + 1 .. h + n /\ h + n \in h + 1 .. h + n
      /\ (h + 1) - h = 1 /\ (h + n) - h = n
  <2> HIDE DEF h, n
  <2>1. QED
    BY <1>1
<1>3. SubSeq(head \o name, h + 1, h + n) = SubSeq(name, (h + 1) - h, (h + n) - h)
  BY <1>2, SubSeqOfConcat2
<1>4. SubSeq(name, 1, n) = name
  BY SubSeqFull
<1> HIDE DEF h, n
<1>5. SubSeq(head \o name, h + 1, h + n) = name
  BY <1>2, <1>3, <1>4
<1>6. QED
  BY <1>1, <1>5 DEF h

(* Numbers and a port are given to ZeroMQ after tcp.                       *)
LEMMA EndpointOfNumbers ==
  ASSUME NEW a \in Endpoints, Ipv4AndPort(a, OctetOrMinusZero)
  PROVE  /\ Text(a) \in Seq(Tokens)
         /\ ZeroMqEndpoint(Text(a)) = Tcp \o Text(a)
         /\ a.port \in Letters /\ Text(a) = Joined(a.parts) \o <<":", a.port>>
<1>1. Text(a) \in Seq(Tokens) /\ IsIpv4Endpoint(Text(a))
  BY EndpointStart, EndpointMeans
<1>2. Text(a)[1] \in Numerals /\ "inproc" \notin Numerals
  BY <1>1, EndpointBegins, TokensAssumption
<1>3. ~BeginsNative(Text(a)) /\ ~BeginsInproc(Text(a))
  BY <1>2 DEF BeginsNative, BeginsInproc
<1>4. ~IsPrefix(NativeInproc, Text(a)) /\ ~IsPrefix(Inproc, Text(a))
  BY <1>1, <1>3, PrefixesRead
<1>5. ZeroMqEndpoint(Text(a)) = Tcp \o Text(a)
  BY <1>4 DEF ZeroMqEndpoint, Tcp
<1>6. a.port \in Numerals
  BY DEF Ipv4AndPort, Decimal
<1>7. a.port \in Letters /\ a.port # "none"
  BY <1>6, TokensAssumption DEF Letters, Plain
<1>8. Text(a) = Joined(a.parts) \o <<":", a.port>>
  BY <1>7 DEF Text, Endpoints
<1>9. QED
  BY <1>1, <1>5, <1>7, <1>8

(* Either spelling of inproc is given to ZeroMQ in its own.                *)
LEMMA EndpointOfName ==
  ASSUME NEW a \in Inprocs, a.parts \in {<<"/">>, <<":", "/", "/">>}, a.name # <<>>
  PROVE  /\ a.name \in Seq(Tokens)
         /\ ZeroMqEndpoint(Text(a)) = NativeInproc \o a.name
         /\ Parse(NativeInproc \o a.name) = "zeromq"
         /\ ZeroMqEndpoint(NativeInproc \o a.name) = NativeInproc \o a.name
<1> DEFINE name == a.name
           native == NativeInproc \o name
<1>0. name # <<>> => name[1] \notin Separators \cup {""}
  BY DEF Inprocs
<1>1. name \in Seq(Tokens) /\ name # <<>>
  BY DEF Inprocs
<1> HIDE DEF name
<1>2. native \in Seq(Tokens) /\ IsPrefix(NativeInproc, native)
  <2>1. /\ native \in Seq(Tokens) /\ Len(native) = Len(NativeInproc) + Len(name)
        /\ \A i \in 1..Len(NativeInproc) : native[i] = NativeInproc[i]
        /\ name # <<>> => Len(name) > 0
    BY <1>1, NativeTokens, HeadAndName
  <2>2. Len(name) \in Nat
    BY <1>1
  <2> HIDE DEF native
  <2>3. BeginsNative(native)
    BY <1>1, <2>1, <2>2, NativeTokens DEF BeginsNative
  <2>4. QED
    BY <2>1, <2>3, PrefixesRead
<1>3. ZeroMqEndpoint(native) = native
  BY <1>2 DEF ZeroMqEndpoint
<1>4. Parse(native) = "zeromq"
  <2> DEFINE b == [form |-> "inproc", parts |-> <<":", "/", "/">>, name |-> name]
  <2>1. b \in Inprocs /\ b.parts = <<":", "/", "/">> /\ b.name = name
    BY <1>0, <1>1 DEF Inprocs, InprocSeparators
  <2> HIDE DEF b
  <2>2. Text(b) = native
    BY <2>1, InprocMeans
  <2>3. Parse(Text(b)) = "zeromq"
    BY <1>1, <2>1, InprocParsed
  <2>4. QED
    BY <2>2, <2>3
<1>5. ZeroMqEndpoint(Text(a)) = native
  <2>1. CASE a.parts = <<":", "/", "/">>
    <3>1. Text(a) = native
      BY <2>1, InprocMeans DEF name
    <3>2. QED
      BY <1>3, <3>1
  <2>2. CASE a.parts = <<"/">>
    <3> DEFINE text == Inproc \o name
    <3>1. Text(a) = text
      BY <2>2, InprocMeans DEF name
    <3>2. Inproc \in Seq(Tokens)
      BY InprocTokens
    <3>3. SubSeq(text, Len(Inproc) + 1, Len(text)) = name
      BY <1>1, <3>2, AfterHead
    <3>4. /\ text \in Seq(Tokens) /\ Len(text) = Len(Inproc) + Len(name)
          /\ \A i \in 1..Len(Inproc) : text[i] = Inproc[i]
          /\ name # <<>> => Len(name) > 0
      BY <1>1, <3>2, HeadAndName
    <3> HIDE DEF text
    <3>5. text[1] = "inproc" /\ text[2] = "/" /\ Len(text) >= 2
      <4>1. Len(name) \in Nat
        BY <1>1
      <4>2. QED
        BY <1>1, <3>4, <4>1, InprocTokens
    <3>6. ~BeginsNative(text) /\ BeginsInproc(text)
      BY <3>5 DEF BeginsNative, BeginsInproc
    <3>7. ~IsPrefix(NativeInproc, text) /\ IsPrefix(Inproc, text)
      BY <3>4, <3>6, PrefixesRead
    <3>8. ZeroMqEndpoint(text) = native
      BY <3>3, <3>7 DEF ZeroMqEndpoint
    <3>9. QED
      BY <3>1, <3>8
  <2>3. QED
    BY <2>1, <2>2
<1>6. QED
  BY <1>1, <1>3, <1>4, <1>5 DEF name

(* What is handed to ZeroMQ, of either form.                               *)
Numbered(a) == a \in Endpoints /\ Ipv4AndPort(a, OctetOrMinusZero)
Named(a) ==
  a \in Inprocs /\ a.parts \in {<<"/">>, <<":", "/", "/">>} /\ a.name # <<>>

LEMMA ZeroMqForms ==
  ASSUME NEW a \in Addresses, Text(a) # <<>>, Parse(Text(a)) = "zeromq"
  PROVE  \/ Numbered(a) /\ a.form = "endpoint"
         \/ Named(a) /\ a.form = "inproc"
<1>1. a \in Endpoints \/ a \in Inprocs \/ a \in Keys \/ a \in [form : {"empty"}]
  BY DEF Addresses
<1>2. CASE a \in Endpoints
  <2>1. Numbered(a)
    BY <1>2, EndpointParsed DEF Numbered
  <2>2. QED
    BY <1>2, <2>1 DEF Endpoints
<1>3. CASE a \in Inprocs
  <2>1. Named(a)
    BY <1>3, InprocParsed DEF Named
  <2>2. QED
    BY <1>3, <2>1 DEF Inprocs
<1>4. CASE a \in Keys
  BY <1>4, KeyParsed
<1>5. CASE a \in [form : {"empty"}]
  BY <1>5, ParseAccepted
<1>6. QED
  BY <1>1, <1>2, <1>3, <1>4, <1>5

LEMMA EndpointsOfNumbers ==
  ASSUME NEW a, NEW b, Numbered(a), Numbered(b)
  PROVE  ZeroMqEndpoint(Text(a)) = ZeroMqEndpoint(Text(b)) <=> a = b
<1>1. /\ a \in Endpoints /\ Text(a) \in Seq(Tokens) /\ a.port \in Letters
      /\ ZeroMqEndpoint(Text(a)) = Tcp \o Text(a)
      /\ Text(a) = Joined(a.parts) \o <<":", a.port>>
  BY EndpointOfNumbers DEF Numbered
<1>2. /\ b \in Endpoints /\ Text(b) \in Seq(Tokens) /\ b.port \in Letters
      /\ ZeroMqEndpoint(Text(b)) = Tcp \o Text(b)
      /\ Text(b) = Joined(b.parts) \o <<":", b.port>>
  BY EndpointOfNumbers DEF Numbered
<1>3. a.parts \in Parts /\ b.parts \in Parts /\ a.form = "endpoint" /\ b.form = "endpoint"
  BY <1>1, <1>2 DEF Endpoints
<1>4. ASSUME ZeroMqEndpoint(Text(a)) = ZeroMqEndpoint(Text(b)) PROVE a = b
  <2>1. Text(a) = Text(b)
    <3>1. Tcp \o Text(a) = Tcp \o Text(b) /\ Tcp \in Seq(Tokens)
      BY <1>1, <1>2, <1>4, TcpTokens
    <3>2. \A s, t, v \in Seq(Tokens) : s \o t = s \o v => t = v
      BY ConcatSimplifications
    <3>3. QED
      BY <1>1, <1>2, <3>1, <3>2
  <2> DEFINE text == Text(a)
  <2>2. /\ SubSeq(text, 1, LastColon(text) - 1) = Joined(a.parts)
        /\ SubSeq(text, LastColon(text) + 1, Len(text)) = <<a.port>>
    <3>1. text = Joined(a.parts) \o <<":", a.port>>
      BY <1>1
    <3> HIDE DEF text
    <3>2. QED
      BY <1>1, <1>3, <3>1, EndpointText
  <2>3. /\ SubSeq(text, 1, LastColon(text) - 1) = Joined(b.parts)
        /\ SubSeq(text, LastColon(text) + 1, Len(text)) = <<b.port>>
    <3>1. text = Joined(b.parts) \o <<":", b.port>>
      BY <1>2, <2>1
    <3> HIDE DEF text
    <3>2. QED
      BY <1>2, <1>3, <3>1, EndpointText
  <2>4. Joined(a.parts) = Joined(b.parts) /\ <<a.port>> = <<b.port>>
    BY <2>2, <2>3
  <2>5. a.parts = b.parts /\ a.port = b.port
    BY <1>3, <2>4, JoinedDetermines
  <2>6. a \in [form : {"endpoint"}, parts : Parts, port : Letters \cup {"none"}]
        /\ b \in [form : {"endpoint"}, parts : Parts, port : Letters \cup {"none"}]
    BY <1>1, <1>2 DEF Endpoints
  <2>7. QED
    BY <1>3, <2>5, <2>6
<1>5. QED
  BY <1>4

LEMMA EndpointsOfNames ==
  ASSUME NEW a, NEW b, Named(a), Named(b)
  PROVE  ZeroMqEndpoint(Text(a)) = ZeroMqEndpoint(Text(b)) <=> a.name = b.name
<1>1. /\ a.name \in Seq(Tokens) /\ ZeroMqEndpoint(Text(a)) = NativeInproc \o a.name
      /\ b.name \in Seq(Tokens) /\ ZeroMqEndpoint(Text(b)) = NativeInproc \o b.name
  BY EndpointOfName DEF Named
<1>2. NativeInproc \in Seq(Tokens)
  BY NativeTokens
<1>3. \A s, t, v \in Seq(Tokens) : s \o t = s \o v => t = v
  BY ConcatSimplifications
<1>4. QED
  BY <1>1, <1>2, <1>3

LEMMA EndpointsOfBoth ==
  ASSUME NEW a, NEW b, Numbered(a), Named(b)
  PROVE  ZeroMqEndpoint(Text(a)) # ZeroMqEndpoint(Text(b))
<1>1. Text(a) \in Seq(Tokens) /\ ZeroMqEndpoint(Text(a)) = Tcp \o Text(a)
  BY EndpointOfNumbers DEF Numbered
<1>2. b.name \in Seq(Tokens) /\ ZeroMqEndpoint(Text(b)) = NativeInproc \o b.name
  BY EndpointOfName DEF Named
<1>3. (Tcp \o Text(a))[1] = "tcp"
  <2>1. \A i \in 1..Len(Tcp) : (Tcp \o Text(a))[i] = Tcp[i]
    BY <1>1, TcpTokens, HeadAndName
  <2>2. QED
    BY <2>1, TcpTokens
<1>4. (NativeInproc \o b.name)[1] = "inproc"
  <2>1. \A i \in 1..Len(NativeInproc) : (NativeInproc \o b.name)[i] = NativeInproc[i]
    BY <1>2, NativeTokens, HeadAndName
  <2>2. QED
    BY <2>1, NativeTokens
<1>5. QED
  BY <1>1, <1>2, <1>3, <1>4

(* Two channels of a node share a ZeroMQ endpoint exactly if they were     *)
(* given the same address, whichever spelling of inproc each was given.    *)
THEOREM EndpointsLeadBack == Spec => []EndpointsNameAddresses
<1>1. IInv => EndpointsNameAddresses
  <2> DEFINE a == given["broadcast"]
             b == given["request"]
             Endpoint(ch) == ZeroMqEndpoint(Text(given[ch]))
  <2> SUFFICES ASSUME IInv, step = "made", \A ch \in Channels : transport[ch] = "zeromq"
               PROVE  /\ Endpoint("broadcast") = Endpoint("request") <=> SameAddress(a, b)
                      /\ \A ch \in Channels : given[ch].form = "inproc" =>
                           /\ Parse(Endpoint(ch)) = "zeromq"
                           /\ ZeroMqEndpoint(Endpoint(ch)) = Endpoint(ch)
    BY DEF EndpointsNameAddresses
  <2>1. ASSUME NEW ch \in Channels
        PROVE  \/ Numbered(given[ch]) /\ given[ch].form = "endpoint"
               \/ Named(given[ch]) /\ given[ch].form = "inproc"
    <3>1. given[ch] \in Addresses /\ Made(ch) /\ transport[ch] = "zeromq"
      BY DEF IInv, TypeOK
    <3>2. Text(given[ch]) # <<>> /\ Parse(Text(given[ch])) = "zeromq"
      BY <3>1 DEF Made
    <3>3. QED
      BY <3>1, <3>2, ZeroMqForms
  <2>2. /\ \/ Numbered(a) /\ a.form = "endpoint"
           \/ Named(a) /\ a.form = "inproc"
        /\ \/ Numbered(b) /\ b.form = "endpoint"
           \/ Named(b) /\ b.form = "inproc"
    BY <2>1 DEF Channels
  <2>3. Endpoint("broadcast") = Endpoint("request") <=> SameAddress(a, b)
    <3> HIDE DEF a, b
    <3>1. (ZeroMqEndpoint(Text(a)) = ZeroMqEndpoint(Text(b))) <=> SameAddress(a, b)
      <4>1. CASE Numbered(a) /\ a.form = "endpoint" /\ Numbered(b) /\ b.form = "endpoint"
        BY <4>1, EndpointsOfNumbers DEF SameAddress
      <4>2. CASE Named(a) /\ a.form = "inproc" /\ Named(b) /\ b.form = "inproc"
        BY <4>2, EndpointsOfNames DEF SameAddress
      <4>3. CASE Numbered(a) /\ a.form = "endpoint" /\ Named(b) /\ b.form = "inproc"
        BY <4>3, EndpointsOfBoth DEF SameAddress
      <4>4. CASE Named(a) /\ a.form = "inproc" /\ Numbered(b) /\ b.form = "endpoint"
        BY <4>4, EndpointsOfBoth DEF SameAddress
      <4>5. QED
        BY <2>2, <4>1, <4>2, <4>3, <4>4
    <3>2. QED
      BY <3>1 DEF a, b
  <2>4. ASSUME NEW ch \in Channels, given[ch].form = "inproc"
        PROVE  /\ Parse(Endpoint(ch)) = "zeromq"
               /\ ZeroMqEndpoint(Endpoint(ch)) = Endpoint(ch)
    <3>1. Named(given[ch])
      BY <2>1, <2>4
    <3>2. QED
      BY <3>1, EndpointOfName DEF Named
  <2>5. QED
    BY <2>3, <2>4
<1>2. QED
  BY <1>1, AlwaysGood, PTL
=============================================================================
