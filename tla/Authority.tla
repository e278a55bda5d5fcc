------------------------------ MODULE Authority ------------------------------
(***************************************************************************)
(* src/src/authority.rs: which texts are accepted as host or host:port, for *)
(* --addr, --authority, --host and URLs.  Characters stand for their class: *)
(* " " for all that validate_authority_text refuses, "/" for /, ? and #,    *)
(* "%" for what no authority may hold.  An IPv6 address has Groups groups.  *)
(***************************************************************************)
EXTENDS Naturals, Sequences, FiniteSets

CONSTANTS
    Places,     \* the digits, and their values
    Hex,        \* hexadecimal digits, those among them
    NameChars,  \* what a host name is made of, those among them
    MaxPort,    \* 65535
    Groups      \* 8

Space  == " "
NoPort == <<"none">>

Holds(text, chars) == \E i \in DOMAIN text : text[i] \in chars
Within(text, chars) == \A i \in DOMAIN text : text[i] \in chars
StartsWith(text, c) == text # <<>> /\ text[1] = c

(* split_once(c): what precedes the first c and what follows it *)
First(text, c) == CHOOSE i \in DOMAIN text :
                      text[i] = c /\ \A j \in 1 .. i - 1 : text[j] # c
Head1(text, c) == SubSeq(text, 1, First(text, c) - 1)
Rest1(text, c) == SubSeq(text, First(text, c) + 1, Len(text))

-----------------------------------------------------------------------------
(* std's Ipv6Addr: n groups; all of them, or fewer around one ::            *)
IsGroups(text, n) ==
    \/ n = 0 /\ text = <<>>
    \/ /\ n > 0 /\ text # <<>>
       /\ Within(text, Hex \cup {":"})
       /\ Cardinality({i \in DOMAIN text : text[i] = ":"}) = n - 1
       /\ text[1] # ":" /\ text[Len(text)] # ":"
       /\ \A i \in 1 .. Len(text) - 1 : ~(text[i] = ":" /\ text[i + 1] = ":")

IsIpv6(text) ==
    \/ IsGroups(text, Groups)
    \/ \E i \in 1 .. Len(text) - 1 :
          /\ text[i] = ":" /\ text[i + 1] = ":"
          /\ \E m \in 0 .. Groups - 1 : \E n \in 0 .. Groups - 1 - m :
                /\ IsGroups(SubSeq(text, 1, i - 1), m)
                /\ IsGroups(SubSeq(text, i + 2, Len(text)), n)

(* str::parse of decimal digits *)
Number(digits) ==
    LET value[i \in 0 .. Len(digits)] ==
            IF i = 0 THEN 0 ELSE 10 * value[i - 1] + Places[digits[i]]
    IN  value[Len(digits)]

Spots(text, c) == {i \in DOMAIN text : text[i] = c}
OneSpot(text, c) == IF Spots(text, c) = {} THEN 0
                    ELSE CHOOSE i \in Spots(text, c) : TRUE

(* Authority::from_str of the http crate, which goes through the text and   *)
(* forgets the colons before a closing bracket.                             *)
ParsesAsAuthority(text) ==
    /\ text # <<>>
    /\ Within(text, NameChars \cup {":", "[", "]"})
    /\ Cardinality(Spots(text, "[")) = Cardinality(Spots(text, "]"))
    /\ Cardinality(Spots(text, "[")) <= 1
    /\ OneSpot(text, "[") <= OneSpot(text, "]")
    /\ Cardinality({i \in Spots(text, ":") : i > OneSpot(text, "]")}) <= 1

(* Authority::host *)
HostOf(text) == IF StartsWith(text, "[") /\ Holds(text, {"]"})
                  THEN SubSeq(text, 1, First(text, "]"))
                ELSE IF Holds(text, {":"}) THEN Head1(text, ":") ELSE text

-----------------------------------------------------------------------------
(* Mutated: whatever follows the bracket, if it is no port, is ignored. *)
BracketsFitLoosely(raw) ==
    IF StartsWith(raw, "[")
      THEN Holds(raw, {"]"}) /\ IsIpv6(Head1(Tail(raw), "]"))
      ELSE ~Holds(raw, {"[", "]"})

(* validate_bracketed_host *)
BracketsFit(raw) ==
    IF StartsWith(raw, "[")
      THEN /\ Holds(raw, {"]"})
           /\ IsIpv6(Head1(Tail(raw), "]"))
           /\ LET suffix == Rest1(raw, "]") IN
              suffix = <<>> \/ StartsWith(suffix, ":")
      ELSE ~Holds(raw, {"[", "]"})

(* is_unbracketed_ipv6_authority *)
UnbracketedIpv6(raw) ==
    /\ ~StartsWith(raw, "[") /\ Holds(raw, {":"})
    /\ \/ IsIpv6(raw)
       \/ \E i \in DOMAIN raw :
             /\ raw[i] = ":" /\ Within(SubSeq(raw, i + 1, Len(raw)), Hex \cup NameChars)
             /\ IsIpv6(SubSeq(raw, 1, i - 1))
       \/ \E i \in 1 .. Len(raw) - 1 : raw[i] = ":" /\ raw[i + 1] = ":"

RawHostIsEmpty(raw) ==
    IF StartsWith(raw, "[") THEN StartsWith(Tail(raw), "]")
    ELSE raw = <<>> \/ StartsWith(raw, ":")

(* explicit_port, and raw_url_port of http.rs *)
ExplicitPort(raw) ==
    IF StartsWith(raw, "[")
      THEN IF Holds(raw, {"]"}) /\ StartsWith(Rest1(raw, "]"), ":")
             THEN Tail(Rest1(raw, "]")) ELSE NoPort
    ELSE IF Holds(raw, {":"}) THEN Rest1(raw, ":") ELSE NoPort

(* validate_port *)
ValidPort(port) == /\ port # <<>> /\ Within(port, DOMAIN Places)
                   /\ Number(port) \in 1 .. MaxPort

(* validate_authority; the order of the checks only decides which one is    *)
(* named.                                                                   *)
ValidAuthority(raw, portRequired) ==
    /\ ~Holds(raw, {Space, "@", "/"})
    /\ BracketsFit(raw)
    /\ ~UnbracketedIpv6(raw)
    /\ ~RawHostIsEmpty(raw)
    /\ ExplicitPort(raw) # NoPort => ValidPort(ExplicitPort(raw))
    /\ ParsesAsAuthority(raw) /\ HostOf(raw) # <<>>
    /\ portRequired => ExplicitPort(raw) # NoPort
=============================================================================
