----------------------------- MODULE HttpTarget -----------------------------
(***************************************************************************)
(* What src/src/probes/http.rs makes of --url, of --path with --sock, and   *)
(* of --status: prepare_url_target, prepare_uds_request_uri and             *)
(* parse_status_ranges.  Each scheme is one character.                      *)
(***************************************************************************)
EXTENDS Authority

CONSTANTS
    DefaultPort,  \* of the schemes http and https
    MinCode,      \* 100, positive
    MaxCode       \* 599

-----------------------------------------------------------------------------
(* validate_percent_encoding, which goes from one % to the next             *)
Percents(raw) == {i \in DOMAIN raw : raw[i] = "%"}

Encoded(raw, p) == /\ p + 2 <= Len(raw)
                   /\ raw[p + 1] \in Hex /\ raw[p + 2] \in Hex

NextPercent(raw, i) ==
    CHOOSE p \in Percents(raw) : p >= i /\ \A k \in Percents(raw) : k >= i => p <= k

ValidFrom(raw) ==
    LET ok[i \in 1 .. Len(raw) + 3] ==
            \/ \A p \in Percents(raw) : p < i
            \/ LET p == NextPercent(raw, i) IN Encoded(raw, p) /\ ok[p + 3]
    IN  ok

ValidPercent(raw) == ValidFrom(raw)[1]

(* validate_no_unescaped_uri_text *)
UriText(raw) == ~Holds(raw, {Space}) /\ ValidPercent(raw)

(* prepare_uds_request_uri; a text that begins with / is never parsed as an *)
(* absolute URI.                                                            *)
ValidSocketPath(raw) == StartsWith(raw, "/") /\ UriText(raw) /\ ~Holds(raw, {"#"})

(* raw_url_authority: between // and the first /, ? or #                    *)
UrlAuthority(raw) ==
    LET rest == SubSeq(raw, First(raw, ":") + 3, Len(raw))
        end  == {i \in DOMAIN rest : rest[i] \in {"/", "#"}}
    IN  IF end = {} THEN rest
        ELSE SubSeq(rest, 1, (CHOOSE i \in end : \A j \in end : i <= j) - 1)

(* raw_url_scheme, is_http_url_scheme *)
HttpScheme(raw) ==
    /\ Holds(raw, {":"})
    /\ Len(Head1(raw, ":")) = 1 /\ raw[1] \in DOMAIN DefaultPort

(* validate_raw_http_url_authority *)
ValidUrlAuthority(raw) ==
    /\ Len(raw) >= 4 /\ raw[3] = "/" /\ raw[4] = "/"
    /\ ValidAuthority(UrlAuthority(raw), FALSE)

(* The text checks of prepare_url_target. *)
ValidUrl(raw) ==
    /\ raw # <<>> /\ UriText(raw)
    /\ HttpScheme(raw)
    /\ ~Holds(raw, {"#"})
    /\ ValidUrlAuthority(raw)

(* default_host_header: the port is left out, 0 here, when it is the        *)
(* scheme's.                                                                *)
HostHeader(raw) ==
    LET authority == UrlAuthority(raw)
        port      == ExplicitPort(authority)
    IN  IF port # NoPort /\ Number(port) # DefaultPort[raw[1]]
          THEN [host |-> HostOf(authority), port |-> Number(port)]
          ELSE [host |-> HostOf(authority), port |-> 0]

-----------------------------------------------------------------------------
(* str::trim *)
Trim(raw) ==
    LET kept == {i \in DOMAIN raw : raw[i] # Space} IN
    IF kept = {} THEN <<>>
    ELSE SubSeq(raw, CHOOSE i \in kept : \A j \in kept : i <= j,
                     CHOOSE i \in kept : \A j \in kept : i >= j)

NoCode == 0

(* parse_status_code; u16's parse takes a leading +, not a -   *)
StatusCode(raw) ==
    LET digits == IF StartsWith(raw, "+") THEN Tail(raw) ELSE raw
        code   == IF digits # <<>> /\ Within(digits, DOMAIN Places)
                    THEN Number(digits) ELSE NoCode
    IN  IF code \in MinCode .. MaxCode THEN code ELSE NoCode

(* One --status: the codes it allows, none when it is refused.              *)
StatusRange(raw) ==
    LET text == Trim(raw)
        from == StatusCode(Trim(Head1(text, "-")))
        to   == StatusCode(Trim(Rest1(text, "-")))
    IN  IF ~Holds(text, {"-"})
          THEN IF StatusCode(text) = NoCode THEN {} ELSE {StatusCode(text)}
        ELSE IF from = NoCode \/ to = NoCode THEN {}
        ELSE from .. to
=============================================================================
