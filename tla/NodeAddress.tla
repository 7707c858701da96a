----------------------------- MODULE NodeAddress -----------------------------
(***************************************************************************)
(* Node addresses: DdsNodeAddress::Parse (src/src/dds_node_address.cpp),   *)
(* the endpoint ZeroMQ makes of one, and the constructor of DdsNodeCore,   *)
(* which picks a transport for each channel by them.                       *)
(*                                                                         *)
(* A string is a sequence of tokens: separators, the numerals and words    *)
(* between them, and "" where an address has nothing between two of them.  *)
(* Each channel is given an address by its structure (a record), of which  *)
(* the code sees the text only: that the code recovers the structure is    *)
(* what is to be shown.                                                    *)
(***************************************************************************)
EXTENDS Integers, SequencesExt

CONSTANTS
  Broadcasts, Requests,  \* the addresses, as records, given for each channel
  Builds,                \* sets of backends the library is built with
  Numerals, ValueOf,     \* what std::from_chars reads as an int, and its value
  Signed,                \* the numerals that begin with a minus sign
  Words,                 \* other text without separators
  DigitWords,            \* words that begin with a digit, as 4294967297 does
  InprocWords            \* words that begin with the six letters of inproc

Separators == {".", ":", "/"}
Plain == Numerals \cup Words
Tokens == Separators \cup Plain \cup {""}

(* Leading zeros are read, and a minus sign, also of zero.                 *)
ASSUME TokensAssumption ==
  /\ Numerals \cap Words = {}
  /\ Plain \cap (Separators \cup {"", "none"}) = {}
  /\ ValueOf \in [Numerals -> Int]
  /\ Signed \subseteq Numerals
  /\ \A t \in Numerals : t \in Signed => ValueOf[t] <= 0
  /\ DigitWords \cup InprocWords \subseteq Words
  /\ DigitWords \cap InprocWords = {}
  /\ "inproc" \in InprocWords /\ "tcp" \in Words \ InprocWords

VARIABLES
  given,      \* broadcast_address and request_address, as records
  built,      \* the backends of this build
  step,       \* where the constructor is
  transport   \* the kind of transport made for each channel

vars == <<given, built, step, transport>>

Channels == {"broadcast", "request"}

-----------------------------------------------------------------------------
IsDecimalInRange(text, minimum, maximum) ==
  /\ Len(text) = 1
  /\ text[1] \in Numerals
  /\ ValueOf[text[1]] \in minimum..maximum

LargestPort == 65535

IsDot(t) == t = "."
IsColon(t) == t = ":"

(* The loop over the four numbers: find, substr and remove_prefix.         *)
FirstDot(text) == SelectInSeq(text, IsDot)
Number(text) ==
  IF FirstDot(text) = 0 THEN text ELSE SubSeq(text, 1, FirstDot(text) - 1)
Rest(text) == SubSeq(text, FirstDot(text) + 1, Len(text))

FourNumbers(text) ==
  LET second == Rest(text)
      third == Rest(second)
      fourth == Rest(third)
  IN /\ \A part \in {text, second, third} :
          FirstDot(part) # 0 /\ IsDecimalInRange(Number(part), 0, 255)
     /\ FirstDot(fourth) = 0 /\ IsDecimalInRange(fourth, 0, 255)

LastColon(text) == SelectLastInSeq(text, IsColon)

EndpointWithPortFrom(text, minimum) ==
  LET colon == LastColon(text)
  IN /\ colon # 0
     /\ IsDecimalInRange(SubSeq(text, colon + 1, Len(text)), minimum, LargestPort)
     /\ FourNumbers(SubSeq(text, 1, colon - 1))

(* A slip: port 0 is a port.                                               *)
IsIpv4EndpointOrPortZero(text) == EndpointWithPortFrom(text, 0)

IsIpv4Endpoint(text) == EndpointWithPortFrom(text, 1)

NativeInproc == <<"inproc", ":", "/", "/">>
Inproc == <<"inproc", "/">>

(* More than the prefix: no address has "" after it, see Addresses.        *)
IsInprocAddress(text) ==
  IsStrictPrefix(NativeInproc, text) \/ IsStrictPrefix(Inproc, text)

StartsWithDigit(text) == text[1] \in (Numerals \ Signed) \cup DigitWords

(* The kind of transport, or "invalid" for an exception.                  *)
ParseSuspecting(text, Suspect(_)) ==
  CASE text = <<>> -> "invalid"
    [] IsInprocAddress(text) \/ IsIpv4Endpoint(text) -> "zeromq"
    [] OTHER ->
         IF \/ text[1] \in InprocWords
            \/ Suspect(text) /\ \E i \in DOMAIN text : IsColon(text[i])
           THEN "invalid" ELSE "zenoh"

(* A slip: whatever has a colon must be an endpoint.                       *)
ParseSuspectingColons(text) == ParseSuspecting(text, LAMBDA t : TRUE)

Parse(text) == ParseSuspecting(text, StartsWithDigit)

(* A slip: the other spelling of inproc is handed to ZeroMQ as it is.      *)
EndpointAsGiven(text) ==
  IF text[1] = "inproc" THEN text ELSE <<"tcp", ":", "/", "/">> \o text

ZeroMqEndpoint(text) ==
  IF IsPrefix(NativeInproc, text) THEN text
  ELSE IF IsPrefix(Inproc, text)
    THEN NativeInproc \o SubSeq(text, Len(Inproc) + 1, Len(text))
    ELSE <<"tcp", ":", "/", "/">> \o text

-----------------------------------------------------------------------------
(* What an application writes: numbers and a port, more or less; a name    *)
(* within the process, after a separator; a key, which begins neither with *)
(* inproc nor like an endpoint.                                            *)
InprocSeparators == {<<>>, <<"/">>, <<":">>, <<":", "/">>, <<":", "/", "/">>}

Letters == Plain \cup {""}
Parts == Seq(Letters) \ {<<>>}

Endpoints ==
  {a \in [form : {"endpoint"}, parts : Parts, port : Letters \cup {"none"}] :
     ~(a.parts = <<"">> /\ a.port = "none")}
Inprocs ==
  {a \in [form : {"inproc"}, parts : InprocSeparators, name : Seq(Tokens)] :
     a.name # <<>> => a.name[1] \notin Separators \cup {""}}
Keys ==
  {a \in [form : {"key"}, name : Seq(Tokens) \ {<<>>}] :
     /\ a.name[1] # "inproc"
     /\ a.name[1] \in Numerals \cup DigitWords =>
          \A i \in DOMAIN a.name : a.name[i] # ":"}

Addresses == Endpoints \cup Inprocs \cup Keys \cup [form : {"empty"}]

ASSUME NodeAddressAssumption ==
  /\ Broadcasts \cup Requests \subseteq Addresses
  /\ Builds \subseteq SUBSET {"zeromq", "zenoh"}

Joined(parts) ==
  [i \in 1..(2 * Len(parts) - 1) |-> IF i % 2 = 1 THEN parts[(i + 1) \div 2] ELSE "."]

Text(a) ==
  CASE a.form = "endpoint" ->
         Joined(a.parts) \o (IF a.port = "none" THEN <<>> ELSE <<":", a.port>>)
    [] a.form = "inproc" -> <<"inproc">> \o a.parts \o a.name
    [] a.form = "key" -> a.name
    [] a.form = "empty" -> <<>>

Init ==
  /\ given \in [broadcast : Broadcasts, request : Requests]
  /\ built \in Builds
  /\ step = "checking"
  /\ transport = [ch \in Channels |-> "none"]

(* At least one of the two must be given.                                  *)
CheckGiven ==
  /\ step = "checking"
  /\ step' = IF \A ch \in Channels : given[ch].form = "empty"
               THEN "invalid_argument" ELSE "broadcast"
  /\ UNCHANGED <<given, built, transport>>

(* Parse and MakeTransport of one channel, then on to the next.            *)
MakeChannel(ch, next) ==
  LET text == Text(given[ch])
      kind == Parse(text)
  IN /\ step = ch
     /\ IF text = <<>> \/ kind \in built
          THEN step' = next
          ELSE step' = IF kind = "invalid" THEN "invalid_argument"
                                           ELSE "runtime_error"
     /\ transport' =
          [transport EXCEPT ![ch] = IF text # <<>> /\ kind \in built THEN kind ELSE @]
     /\ UNCHANGED <<given, built>>

MakeBroadcast == MakeChannel("broadcast", "request")
MakeRequest == MakeChannel("request", "made")

Next == CheckGiven \/ MakeBroadcast \/ MakeRequest

Spec == Init /\ [][Next]_vars

-----------------------------------------------------------------------------
(* What the design document says an address is.                            *)
Decimal(t, minimum, maximum) ==
  t \in Numerals \ Signed /\ ValueOf[t] \in minimum..maximum

Octet(t) == Decimal(t, 0, 255)

Ipv4AndPort(a, IsNumber(_)) ==
  /\ Len(a.parts) = 4 /\ \A i \in 1..4 : IsNumber(a.parts[i])
  /\ Decimal(a.port, 1, LargestPort)

Documented(a) ==
  CASE a.form = "endpoint" -> IF Ipv4AndPort(a, Octet) THEN "zeromq" ELSE "invalid"
    [] a.form = "inproc" ->
         IF a.parts \in {<<"/">>, <<":", "/", "/">>} /\ a.name # <<>>
           THEN "zeromq" ELSE "invalid"
    [] a.form = "key" -> "zenoh"
    [] a.form = "empty" -> "none"

(* Where the code says otherwise: it reads -0 as a number; it takes for a  *)
(* key what has no port or does not begin with a digit; and it refuses     *)
(* keys that begin like inproc.                                            *)
OctetOrMinusZero(t) == Octet(t) \/ (t \in Signed /\ ValueOf[t] = 0)

Deviation(a) ==
  CASE a.form = "endpoint" ->
         IF Ipv4AndPort(a, OctetOrMinusZero) THEN {"zeromq"}
         ELSE IF a.port = "none" \/ ~StartsWithDigit(a.parts) THEN {"zenoh"} ELSE {}
    [] a.form = "key" -> IF a.name[1] \in InprocWords THEN {"invalid"} ELSE {}
    [] OTHER -> {}

Accepted(a) == {Documented(a)} \cup Deviation(a)

(* A node that was made talks, on each channel, the protocol that the      *)
(* documented grammar gives to its address, with the named exceptions: no  *)
(* malformed address opens another transport than the one meant.           *)
SpeaksDocumentedProtocol ==
  step = "made" =>
    \A ch \in Channels : transport[ch] \in Accepted(given[ch]) \ {"invalid"}

(* The constructor throws only for a reason: both addresses are empty, one *)
(* is malformed, or its backend is not part of the build.                  *)
RefusedForAReason ==
  /\ step = "invalid_argument" =>
       \/ \A ch \in Channels : given[ch].form = "empty"
       \/ \E ch \in Channels : "invalid" \in Accepted(given[ch])
  /\ step = "runtime_error" =>
       \E ch \in Channels : Accepted(given[ch]) \cap ({"zeromq", "zenoh"} \ built) # {}

(* Two channels of a node use one ZeroMQ endpoint only if they were given  *)
(* the same address, in either spelling of inproc, and each endpoint is an *)
(* address that leads back to it: server and client meet whatever spelling *)
(* each of them uses.                                                      *)
SameAddress(a, b) ==
  /\ a.form = b.form
  /\ IF a.form = "inproc" THEN a.name = b.name ELSE a = b

EndpointsNameAddresses ==
  step = "made" /\ (\A ch \in Channels : transport[ch] = "zeromq") =>
    LET Endpoint(ch) == ZeroMqEndpoint(Text(given[ch]))
    IN /\ Endpoint("broadcast") = Endpoint("request") <=>
            SameAddress(given.broadcast, given.request)
       /\ \A ch \in Channels : given[ch].form = "inproc" =>
            /\ Parse(Endpoint(ch)) = "zeromq"
            /\ ZeroMqEndpoint(Endpoint(ch)) = Endpoint(ch)
=============================================================================
