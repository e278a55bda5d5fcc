----------------------------- MODULE HttpHeaders -----------------------------
(***************************************************************************)
(* The headers of src/src/probes/http.rs: what is made of --header and of   *)
(* the assertions on response headers, what a request carries, and when a   *)
(* response passes.  Characters stand for their class, " " for blanks; the  *)
(* names that the code mentions have one or two characters.                 *)
(***************************************************************************)
EXTENDS TextMatch

CONSTANTS
    LowerCase,   \* the characters of a header name, and the lower case of each
    ValueChars,  \* what the value of a header may hold
    HostName,    \* host
    AgentName,   \* user-agent
    Reserved     \* the framing and the hop-by-hop headers

Space == " "

Header(name, value) == [name |-> name, value |-> value]

Refused == Header(<<>>, <<>>)

(* str::trim *)
Trim(text) ==
    LET solid == {i \in DOMAIN text : text[i] # Space} IN
    IF solid = {} THEN <<>>
    ELSE SubSeq(text, CHOOSE i \in solid : \A j \in solid : i <= j,
                      CHOOSE i \in solid : \A j \in solid : i >= j)

(* parse_header_name: HeaderName is in lower case; <<>> is no name.         *)
ParseName(raw) ==
    LET name == Trim(raw) IN
    IF \A i \in DOMAIN name : name[i] \in DOMAIN LowerCase
      THEN [i \in DOMAIN name |-> LowerCase[name[i]]]
      ELSE <<>>

(* split_once(':'), and a name before it *)
ParsePair(raw) ==
    LET colons == {i \in DOMAIN raw : raw[i] = ":"} IN
    IF colons = {} THEN Refused
    ELSE LET at   == CHOOSE i \in colons : \A j \in colons : i <= j
             name == ParseName(SubSeq(raw, 1, at - 1))
         IN  IF name = <<>> THEN Refused
             ELSE Header(name, Trim(SubSeq(raw, at + 1, Len(raw))))

(* parse_headers, of one --header *)
ParseHeader(raw) ==
    LET h == ParsePair(raw) IN
    IF \/ h.name \in {HostName} \cup Reserved
       \/ \E i \in DOMAIN h.value : h.value[i] \notin ValueChars
      THEN Refused ELSE h

(* parse_header_assertions, of one assertion *)
ParseAssertion(raw, allowEmptyValue) ==
    LET h == ParsePair(raw) IN
    IF ~allowEmptyValue /\ h.value = <<>> THEN Refused ELSE h

-----------------------------------------------------------------------------
(* build_request *)
RequestHeaders(host, agent, given) ==
    <<Header(HostName, host)>>
    \o (IF \E i \in DOMAIN given : given[i].name = AgentName THEN <<>>
        ELSE <<Header(AgentName, agent)>>)
    \o given

(* HeaderMap::get_all *)
GetAll(headers, name) ==
    {headers[i].value : i \in {j \in DOMAIN headers : headers[j].name = name}}

(* The four loops of assert_response_headers. *)
Present(headers, names) == \A n \in names : GetAll(headers, n) # {}

Equals(headers, required) ==
    \A h \in required : h.value \in GetAll(headers, h.name)

SomeContains(headers, h) ==
    \E v \in GetAll(headers, h.name) : ContainsSlice(v, h.value)

Contains(headers, required) == \A h \in required : SomeContains(headers, h)

ContainsNone(headers, forbidden) ==
    \A h \in forbidden : ~SomeContains(headers, h)

AssertResponseHeaders(headers, names, equals, contains, notContains) ==
    /\ Present(headers, names)
    /\ Equals(headers, equals)
    /\ Contains(headers, contains)
    /\ ContainsNone(headers, notContains)
=============================================================================
