------------------------------- MODULE MCText -------------------------------
(* The texts to explore. *)
EXTENDS TextProperties, TLC

One(c) == <<c>>

All == STRING

(* A and E are set, E to the empty value; U is not. *)
Environment == (<<"A">> :> <<"$", "U">>) @@ (<<"E">> :> <<>>)

Starts == [env |-> {<<>>}, authority |-> {<<>>}, status |-> {<<>>},
           header |-> {<<>>},
           url |-> {<<>>, <<"h", ":", "/", "/">>, <<"s", ":", "/", "/">>,
                    <<"x", ":", "/", "/">>, <<"h", ":", "/">>, <<":", "/", "/">>}]

(* An IPv6 address has three groups here. *)
Parts ==
    [env |-> {One("$"), <<"$", "{">>, One("}"), One("A"), One("U"), One("E"),
              <<":", "-">>, One("1")},
     authority |-> {One("g"), One("1"), One("0"), One(":"), One("["), One("]"),
                    <<":", ":", "1">>, <<"1", ":", "1", ":", "1">>, One("@"),
                    One("/"), One("%"), One(" ")},
     header |-> {One("a"), One("A"), One("h"), One("H"), One("t"), One(":"),
                 One(" "), One("@"), One("~")},
     status |-> {One("1"), One("2"), One("4"), One("-"), One("+"), One(" ")},
     url |-> {One("g"), One("1"), One("2"), One(":"), One("/"), One("#"),
              One("%"), One(" "), One("0"), <<"[", ":", ":", "]">>, One("h")}]

Counts == [env |-> 6, authority |-> 5, status |-> 6, url |-> 4,
           header |-> 5]

Decimal == [d \in {"0", "1", "2", "4"} |->
              CASE d = "0" -> 0 [] d = "1" -> 1 [] d = "2" -> 2 [] d = "4" -> 4]

HexDigits == {"0", "1", "2", "4"}
Names     == HexDigits \cup {"g", "h"}
Defaults  == [h |-> 1, s |-> 2]

(* host is h, user-agent is a, and one of the framing headers is t.  @ may   *)
(* be in a value and not in a name, ~ in neither.                           *)
Lower == [c \in {"a", "A", "h", "H", "t"} |->
            CASE c \in {"a", "A"} -> "a" [] c \in {"h", "H"} -> "h" [] c = "t" -> "t"]

InValue == DOMAIN Lower \cup {":", " ", "@"}
HostIs  == <<"h">>
AgentIs == <<"a">>
Framing == {<<"t">>}

(* None, one or two headers, of one name or of two. *)
Replies ==
    LET one == [name : {<<"a">>, <<"h">>},
                value : {<<>>, <<"a">>, <<"a", "h">>, <<"h", " ", "A">>}]
    IN  {<<>>} \cup {<<x>> : x \in one} \cup {<<x, y>> : x, y \in one}
=============================================================================
