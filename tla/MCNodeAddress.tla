---------------------------- MODULE MCNodeAddress ----------------------------
(* Addresses for TLC: every malformation of one number, of the port, of    *)
(* the number of numbers and of the inproc prefix, in all combinations.    *)
EXTENDS NodeAddress

TooLarge == "4294967297"
MCValueOf ==
  "0" :> 0 @@ "-0" :> 0 @@ "1" :> 1 @@ "-1" :> -1 @@ "255" :> 255 @@ "0255" :> 255
    @@ "256" :> 256 @@ "65535" :> 65535 @@ "65536" :> 65536
MCNumerals == DOMAIN MCValueOf

Endpoint(parts, port) == [form |-> "endpoint", parts |-> parts, port |-> port]
InprocName(sep, name) == [form |-> "inproc", parts |-> sep, name |-> name]
Key(name) == [form |-> "key", name |-> name]
Empty == [form |-> "empty"]

Octets == {"0", "255", "256", "-0", "word"}
Ports == {"none", "", "0", "1", "65535", "65536", "-0", TooLarge}
Few == {"1", "0255", "", "-1"}

MCRequests ==
  {Empty}
    \cup {Endpoint(parts, port) : parts \in TupleOf(Octets, 4), port \in Ports}
    \cup {Endpoint(parts, port) :
            parts \in UNION {TupleOf(Few, n) : n \in 1..5} \ {<<"">>}, port \in {"1", "none"}}
    \cup {InprocName(sep, name) :
            sep \in {<<>>, <<"/">>, <<":">>, <<":", "/">>, <<":", "/", "/">>},
            name \in {<<>>, <<"word">>, <<"word", ":", "1">>}}
    \cup {Key(name) : name \in {<<"word">>, <<"word", ":", "1">>, <<"1", "/", "word">>,
                                <<"inprocess", "/", "word">>}}

MCBroadcasts ==
  {Empty, Key(<<"word">>), Endpoint(<<"1", "1", "1", "1">>, "1"),
   InprocName(<<"/">>, <<"word">>), InprocName(<<":", "/", "/">>, <<"word">>)}

MCBuilds == {{"zeromq", "zenoh"}, {"zeromq"}}
=============================================================================
