--------------------------- MODULE HttpProperties ---------------------------
(***************************************************************************)
(* What the HTTP probe promises about a response body.                      *)
(***************************************************************************)
EXTENDS HttpBody

Verdicts == {"none", "healthy", "invalid", "requestError", "status", "headers",
             "readError", "timeout", "differs", "lacks", "forbidden",
             "cutExact", "cutRequired", "cutNegative"}

(* Every variable of the response evaluation has its type. *)
TypeOK ==
    /\ check \in Checks
    /\ prompt \in BOOLEAN
    /\ pc \in {"start", "request", "read", "grace", "judge", "done"}
    /\ verdict \in Verdicts
    /\ declared \in Nat \cup {None}
    /\ content \in [bytes : Seq(Bytes), incomplete : BOOLEAN]
    /\ required \subseteq check.contains
    /\ forbidden \subseteq check.notContains
    /\ impossible \in BOOLEAN
    /\ {graceBy, now, lastAt, endedAt} \subseteq Nat
    /\ sent \in Seq(Bytes)
    /\ ended \in {"no", "complete", "broken"}
    /\ frames \in Seq(Seq(Bytes))

-----------------------------------------------------------------------------
(* The body meets every assertion of the check.                             *)
Meets(body) ==
    /\ check.equals # None => body = check.equals
    /\ \A n \in check.contains : ContainsSlice(body, n)
    /\ \A n \in check.notContains : ~ContainsSlice(body, n)

(* The server is done and none of what it sent was ignored.                 *)
SeenWhole == ended = "complete" /\ frames = <<>>

(* A healthy verdict is earned.  Required texts are in the first --max-body *)
(* bytes; an exact or a negative assertion is passed only by a body that    *)
(* ended within the limit, was read to its end, and meets it.  Spans the    *)
(* matchers, the size hint, the wait for the end at the limit and           *)
(* assert_response_body.                                                    *)
HealthyIsEarned ==
    verdict = "healthy" /\ HasBodyAssertions =>
        /\ \A n \in check.contains :
               ContainsSlice(Capture(sent, check.limit), n)
        /\ check.equals # None \/ check.notContains # {} =>
               SeenWhole /\ Len(sent) <= check.limit /\ Meets(sent)

(* Whatever the server still sends, the body will not be the expected one.  *)
CannotEqual ==
    \/ ~IsPrefixOf(sent, check.equals)
    \/ declared # None /\ declared # Len(check.equals)
    \/ ended = "complete" /\ sent # check.equals

ForbiddenSeen == \E n \in check.notContains : ContainsSlice(sent, n)

(* "does not equal" and "does not contain required text" are proofs, except *)
(* for a body with forbidden text, whose reading stops there: such a probe  *)
(* fails in any case, but the reason it gives may be another.               *)
DenialIsProven ==
    /\ verdict = "differs" => CannotEqual \/ ForbiddenSeen
    /\ verdict = "lacks" =>
          \/ /\ SeenWhole /\ Len(sent) <= check.limit
             /\ \E n \in check.contains : ~ContainsSlice(sent, n)
          \/ ForbiddenSeen

(* The comment on CaptureBuffer's flag, capture.rs:4-5: it is set whenever   *)
(* the captured bytes cannot prove the full stream contents.  The message   *)
(* "does not contain required text" rests on it being clear, so it should   *)
(* never be given for a body that has all of the required texts.            *)
LackIsTrue ==
    verdict = "lacks" => \E n \in check.contains : ~ContainsSlice(sent, n)

(* A body is called truncated only when it reached the limit, and only if   *)
(* it went beyond, was declared to, or was left open for the whole grace.   *)
CutIsReal ==
    verdict \in {"cutExact", "cutRequired", "cutNegative"} =>
        /\ Len(sent) >= check.limit
        /\ Len(content.bytes) = check.limit
        /\ \/ Len(sent) > check.limit
           \/ declared # None /\ declared > check.limit
           \/ /\ declared = None
              /\ now >= lastAt + BodyGrace
              /\ prompt /\ ended = "complete" =>
                    endedAt >= lastAt + BodyGrace

(* The probe stops reading at the byte that decides: a server that goes on  *)
(* sending, or hangs, after it cannot time the probe out.                   *)
StopsWhenDecided ==
    pc \in {"read", "grace"} =>
        /\ \A n \in check.notContains : ~ContainsSlice(content.bytes, n)
        /\ check.equals # None => IsPrefixOf(content.bytes, check.equals)
        /\ check.equals = None /\ check.notContains = {} =>
              \E n \in check.contains : ~ContainsSlice(content.bytes, n)

(* A good body is never missed: it ends before the deadline, within the     *)
(* limit (and promptly, when it fills the limit exactly), so on a host      *)
(* without delays the probe is healthy.                                     *)
NothingMissed ==
    /\ prompt
    /\ pc = "done" /\ verdict \notin {"status", "headers"}
    /\ ended = "complete" /\ endedAt < Timeout
    /\ Meets(sent)
    /\ \/ Len(sent) < check.limit
       \/ Len(sent) = check.limit /\ endedAt < lastAt + BodyGrace
    => verdict = "healthy"

(* Every HTTP probe ends, whatever the server does.                         *)
Terminates == <>(pc = "done")

-----------------------------------------------------------------------------
(* The verdicts as the callers of the probes tell them apart. *)
Outcome == IF verdict \in {"none", "healthy", "invalid", "timeout"} THEN verdict
           ELSE "failure"

Phase == IF pc = "start" THEN "given" ELSE IF pc = "done" THEN "ended"
         ELSE "probing"

Contract == INSTANCE ProbeContract
              WITH timeout <- Timeout, phase <- Phase, outcome <- Outcome,
                   deadline <- Timeout

(* The HTTP probe implements what main_entry expects of a probe, the grace  *)
(* for the end of a body that fills the limit included.                     *)
KeepsContract == Contract!Spec
=============================================================================
