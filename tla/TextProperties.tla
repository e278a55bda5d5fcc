--------------------------- MODULE TextProperties ---------------------------
(***************************************************************************)
(* Texts of the command line, put together piece by piece, and what the     *)
(* program must make of each: the validators and the expansion against      *)
(* grammars that say what a text is, not how it is read.                    *)
(***************************************************************************)
EXTENDS EnvExpand, FiniteSets

CONSTANTS
    Beginnings,  \* for each kind of text, what it may begin with
    Pieces,      \* and what it may be continued with
    MaxPieces,   \* and the bound on the number of pieces
    Places, Hex, NameChars, MaxPort, Groups, DefaultPort, MinCode, MaxCode,
    LowerCase, ValueChars, HostName, AgentName, Reserved,
    Responses    \* headers of responses, in lower case and without blanks around

VARIABLES
    kind,   \* what the text is for
    text,   \* the text so far
    left    \* how many pieces may follow

ASSUME TextsAssumption ==
    /\ DOMAIN Pieces \subseteq DOMAIN Beginnings
    /\ \A k \in DOMAIN Pieces : Beginnings[k] \cup Pieces[k] \subseteq Seq(Chars)

(* Classes of characters that are told apart are disjoint. *)
ASSUME ClassesAssumption ==
    /\ DOMAIN Places \subseteq Hex /\ Hex \subseteq NameChars
    /\ NameChars \cap {" ", "@", "/", "#", "%", ":", "[", "]", "none"} = {}
    /\ DOMAIN Places \cap {"+", "-"} = {}
    /\ DOMAIN DefaultPort \cap {" ", "#", "%", ":"} = {}
    /\ DOMAIN LowerCase \cap {" ", ":"} = {}

ASSUME NumbersAssumption ==
    /\ Groups \in Nat /\ Groups >= 3 /\ MaxPort \in Nat
    /\ MinCode \in Nat \ {0} /\ MaxCode \in Nat

ASSUME HeadersAssumption == /\ HostName \notin Reserved
                            /\ AgentName \notin Reserved \cup {HostName}

Target  == INSTANCE HttpTarget
Headers == INSTANCE HttpHeaders

Init == /\ kind \in DOMAIN Pieces
        /\ text \in Beginnings[kind]
        /\ left = MaxPieces[kind]

Continue(piece) == /\ left > 0
                   /\ text' = text \o piece
                   /\ left' = left - 1
                   /\ UNCHANGED kind

Finished == left = 0 /\ UNCHANGED <<kind, text, left>>

Next == (\E piece \in Pieces[kind] : Continue(piece)) \/ Finished

Spec == Init /\ [][Next]_<<kind, text, left>>

-----------------------------------------------------------------------------
(* Every $ doubled; last[n] is what becomes of the last n characters.       *)
Escapes(t) ==
    LET last[n \in 0 .. Len(t)] ==
            IF n = 0 THEN <<>>
            ELSE LET c == t[Len(t) + 1 - n] IN
                 (IF c = Dollar THEN <<Dollar, Dollar>> ELSE <<c>>) \o last[n - 1]
    IN  last

Escape(t) == Escapes(t)[Len(t)]

(* Whatever is to reach the probe unchanged can be given by doubling its    *)
(* dollars: there is no text that an invocation cannot pass.                *)
EscapesRoundTrip == kind = "env" => ExpandText(Escape(text)) = Done(text)

(* An argument is the sequence of its parts: what comes after a part that   *)
(* is complete, does not change it, and is not changed by it.  A value or a *)
(* default that holds ${ or $$ is therefore never expanded again.           *)
PartsExpandAlone ==
    kind = "env" =>
        \A i \in DOMAIN text :
            LET before == ExpandText(SubSeq(text, 1, i))
                after  == ExpandText(SubSeq(text, i + 1, Len(text)))
            IN  before.ok /\ text[i] # Dollar =>
                    ExpandText(text) = Then(before.text, after)

(* A default stands for a variable that is not set or empty, for no other,  *)
(* and as it is written, dollars included.                                  *)
DefaultIsVerbatim ==
    kind = "env" /\ (\A i \in DOMAIN text : text[i] # Close) =>
        \A c \in Letters :
            ExpandText(<<Dollar, Open, c, Colon, Dash>> \o text \o <<Close>>) =
                IF <<c>> \in DOMAIN Values /\ Values[<<c>>] # <<>>
                  THEN Done(Values[<<c>>]) ELSE Done(text)

(* Every argument is expanded once, part by part, and can be written so     *)
(* that it reaches the probe as it is meant.                                *)
ExpansionIsRight == EscapesRoundTrip /\ PartsExpandAlone /\ DefaultIsVerbatim

-----------------------------------------------------------------------------
(* A host name, or an IPv6 address in brackets; and a port. *)
IsHost(t) ==
    \/ t # <<>> /\ Target!Within(t, NameChars)
    \/ /\ Len(t) > 2 /\ t[1] = "[" /\ t[Len(t)] = "]"
       /\ Target!IsIpv6(SubSeq(t, 2, Len(t) - 1))

IsPort(t) == /\ t # <<>> /\ Target!Within(t, DOMAIN Places)
             /\ Target!Number(t) \in 1 .. MaxPort

(* t is the host, or the host followed by : and the port. *)
IsAuthority(t, host, port) ==
    /\ IsHost(host)
    /\ \/ port = <<>> /\ t = host
       \/ IsPort(port) /\ t = host \o <<":">> \o port

Cuts(t) == {<<SubSeq(t, 1, i), SubSeq(t, j, Len(t))>> :
              i \in 0 .. Len(t), j \in 1 .. Len(t) + 1}

Readings(t) == {c \in Cuts(t) : IsAuthority(t, c[1], c[2])}

(* --addr, --authority and --host are taken if and only if they are a host  *)
(* and a port, through overlapping checks and a parser that is looser: no   *)
(* text that is neither gets through, and none that is right is refused.    *)
AuthorityIsRight ==
    kind = "authority" =>
        /\ Target!ValidAuthority(text, FALSE) <=> Readings(text) # {}
        /\ Target!ValidAuthority(text, TRUE) <=>
              \E reading \in Readings(text) : reading[2] # <<>>

(* The path and query of a URL, or nothing *)
IsRest(t) ==
    /\ t = <<>> \/ t[1] = "/"
    /\ ~Target!Holds(t, {Target!Space, "#"})
    /\ \A i \in DOMAIN t : t[i] = "%" =>
          i + 2 <= Len(t) /\ {t[i + 1], t[i + 2]} \subseteq Hex

UrlReadings(t) ==
    IF Len(t) < 4 \/ t[1] \notin DOMAIN DefaultPort
       \/ SubSeq(t, 2, 4) # <<":", "/", "/">>
      THEN {}
      ELSE UNION {Readings(SubSeq(t, 5, i)) :
                    i \in {j \in 5 .. Len(t) : IsRest(SubSeq(t, j + 1, Len(t)))}}

(* A URL is taken if and only if it is scheme://authority and a path, and   *)
(* the Host header, for all that is left out of it, names the host and the  *)
(* port that are connected to.                                              *)
UrlIsRight ==
    kind = "url" =>
        /\ Target!ValidUrl(text) <=> UrlReadings(text) # {}
        /\ \A reading \in UrlReadings(text) :
              LET header  == Target!HostHeader(text)
                  default == DefaultPort[text[1]]
              IN  /\ header.host = reading[1]
                  /\ (IF header.port = 0 THEN default ELSE header.port)
                     = (IF reading[2] = <<>> THEN default
                        ELSE Target!Number(reading[2]))

(* --path with --sock is taken if and only if it is an absolute path.       *)
SocketPathIsRight ==
    kind = "url" =>
        (Target!ValidSocketPath(text) <=> text # <<>> /\ IsRest(text))

IsNumber(t, n) == /\ t # <<>> /\ Target!Within(t, DOMAIN Places)
                  /\ n = Target!Number(t)

(* The text is a status code, but for blanks around it. *)
IsCode(t, code) ==
    \E i, j \in 1 .. Len(t) :
        /\ i <= j /\ \A k \in 1 .. Len(t) : k < i \/ k > j => t[k] = Target!Space
        /\ \/ IsNumber(SubSeq(t, i, j), code)
           \/ t[i] = "+" /\ IsNumber(SubSeq(t, i + 1, j), code)

(* A --status is a code or two with - between them, and allows these and    *)
(* what lies between them; anything else, half a range included, allows     *)
(* nothing: no status is accepted that was not named.                       *)
StatusIsRight ==
    kind = "status" =>
        Target!StatusRange(text) =
            {code \in MinCode .. MaxCode :
                \/ IsCode(text, code)
                \/ \E i \in DOMAIN text, from, to \in MinCode .. MaxCode :
                      /\ text[i] = "-"
                      /\ IsCode(SubSeq(text, 1, i - 1), from)
                      /\ IsCode(SubSeq(text, i + 1, Len(text)), to)
                      /\ from <= code /\ code <= to}

Blank(t) == Target!Within(t, {Target!Space})

(* The texts that another is, but for blanks around it. *)
Cores(t) == {SubSeq(t, c[1], c[2]) : c \in
               {p \in (1 .. Len(t) + 1) \X (0 .. Len(t)) :
                   /\ p[1] <= p[2] + 1
                   /\ Blank(SubSeq(t, 1, p[1] - 1))
                   /\ Blank(SubSeq(t, p[2] + 1, Len(t)))
                   /\ p[1] <= p[2] => t[p[1]] # Target!Space /\ t[p[2]] # Target!Space}}

IsName(t) == t # <<>> /\ Target!Within(t, DOMAIN LowerCase)

Lowered(name) == [k \in DOMAIN name |-> LowerCase[name[k]]]

(* What a text is a header of, if it is one: name, colon and value, blanks  *)
(* around each.                                                             *)
HeaderReadings(t) ==
    UNION {{Headers!Header(Lowered(n), v) :
              n \in {c \in Cores(SubSeq(t, 1, i - 1)) : IsName(c)},
              v \in Cores(SubSeq(t, i + 1, Len(t)))} :
             i \in {j \in DOMAIN t : t[j] = ":"}}

(* --header and the assertions take a header if and only if it is one; no   *)
(* --header sets what belongs to the connection, in whatever case, so that  *)
(* a request has one Host, that of its target, and says who sends it.       *)
HeaderIsRight ==
    kind = "header" =>
        LET readings == HeaderReadings(text)
            h        == Headers!ParseHeader(text)
            sent     == Headers!RequestHeaders(<<"h">>, <<"a">>,
                             IF h = Headers!Refused THEN <<>> ELSE <<h>>)
        IN  /\ {Headers!ParseAssertion(text, TRUE)} \ {Headers!Refused} = readings
            /\ {Headers!ParseAssertion(text, FALSE)} \ {Headers!Refused} =
                  {r \in readings : r.value # <<>>}
            /\ {h} \ {Headers!Refused} =
                  {r \in readings : /\ r.name \notin Reserved \cup {HostName}
                                    /\ Target!Within(r.value, ValueChars)}
            /\ Headers!GetAll(sent, HostName) = {<<"h">>}
            /\ Cardinality(Headers!GetAll(sent, AgentName)) = 1
            /\ \A name \in Reserved : Headers!GetAll(sent, name) = {}

(* The assertions fit together: what a request sends, a response that sends *)
(* it back passes, blanks and case aside; equal implies containing, which   *)
(* implies present; and of --header-contains and --header-not-contains      *)
(* exactly one passes, also when the header comes twice or not at all.      *)
AssertionsFit ==
    kind = "header" =>
        LET h       == Headers!ParseHeader(text)
            a       == Headers!ParseAssertion(text, FALSE)
            Passes(r, names, equals, contains, notContains) ==
                Headers!AssertResponseHeaders(r, names, equals, contains,
                                              notContains)
            none    == {}
        IN  /\ h # Headers!Refused =>
                  Passes(Headers!RequestHeaders(<<"h">>, <<"a">>, <<h>>),
                         {HostName, AgentName, h.name},
                         {Headers!ParseAssertion(text, TRUE)},
                         {a} \ {Headers!Refused}, none)
            /\ a # Headers!Refused => \A r \in Responses :
                  /\ Passes(r, none, {a}, none, none)
                        => Passes(r, none, none, {a}, none)
                  /\ Passes(r, none, none, {a}, none)
                        => Passes(r, {a.name}, none, none, none)
                  /\ Passes(r, none, none, {a}, none)
                        <=> ~Passes(r, none, none, none, {a})

(* What is accepted as the target of a probe, as its --status and as a      *)
(* header, is what the grammars say, and is read as they say.               *)
RequestIsRight ==
    /\ AuthorityIsRight /\ UrlIsRight /\ SocketPathIsRight /\ StatusIsRight
    /\ HeaderIsRight /\ AssertionsFit
=============================================================================
