------------------------------ MODULE HttpBody ------------------------------
(***************************************************************************)
(* src/src/probes/http.rs, from the moment the request is sent: the response*)
(* is evaluated, its body is read frame by frame until the body assertions  *)
(* are decided, the body ends or --max-body is reached, and the captured    *)
(* bytes are judged.  All of it runs under with_probe_timeout.              *)
(*                                                                         *)
(* The server sends the body in frames of its own choosing, with a declared *)
(* length or without one, and may end it, break it off or hang at any time. *)
(***************************************************************************)
EXTENDS CaptureBuffer

CONSTANTS
    Bytes,        \* the bytes of a body
    Checks,       \* the invocations (HttpArgs) to explore
    None,         \* no --body-equals, no declared length
    MaxCapture,   \* MAX_CAPTURE_BYTES
    Timeout,      \* options.timeout
    BodyGrace,    \* BODY_EOF_GRACE_AFTER_LIMIT
    MaxFrame,     \* bound on the bytes of one frame
    MaxPending,   \* bound on the frames that wait to be read
    MaxSent       \* bound on the bytes of a body

CheckType ==
    [method : {"GET", "HEAD"}, equals : Seq(Bytes) \cup {None},
     contains : SUBSET Seq(Bytes), notContains : SUBSET Seq(Bytes),
     limit : Nat]

ASSUME ChecksAssumption == Checks \subseteq CheckType
ASSUME NoneAssumption   == None \notin Seq(Bytes) \cup Nat
ASSUME BoundsAssumption ==
    /\ {MaxCapture, Timeout, BodyGrace, MaxFrame, MaxPending}
          \subseteq Nat \ {0}
    /\ MaxSent \in Nat

VARIABLES
    check,       \* the invocation
    prompt,      \* the host delays nothing runnable past a clock tick
    pc,          \* where the probe's future stands
    verdict,     \* how the probe ended, "none" before it has
    declared,    \* the length size_hint() knows, or None
    content,     \* the CaptureBuffer
    required,    \* contains_matcher
    forbidden,   \* not_contains_matcher
    impossible,  \* exact_match_impossible
    graceBy,     \* when the grace_sleep in progress fires
    now,         \* the clock
    sent,        \* what the server has sent of the body
    ended,       \* whether the server is done: "no", "complete" or "broken"
    frames,      \* sent and not yet read
    lastAt,      \* history: when the last byte was sent
    endedAt      \* history: when the body ended

readVars   == <<content, required, forbidden, impossible>>
given      == <<check, prompt>>
serverVars == <<sent, ended, lastAt, endedAt>>
vars       == <<given, pc, verdict, declared, readVars, graceBy, now,
                serverVars, frames>>

Waiting == pc \in {"request", "read", "grace"}

HasBodyAssertions ==
    check.equals # None \/ check.contains # {} \/ check.notContains # {}

ValidCheck ==
    /\ <<>> \notin check.contains \cup check.notContains
    /\ HasBodyAssertions => /\ check.limit \in 1 .. MaxCapture
                            /\ check.method # "HEAD"

Init ==
    /\ check \in Checks
    /\ prompt \in BOOLEAN
    /\ pc = "start"
    /\ verdict = "none"
    /\ declared = None
    /\ content = EmptyBuffer
    /\ required = {}
    /\ forbidden = {}
    /\ impossible = FALSE
    /\ graceBy = 0
    /\ now = 0
    /\ sent = <<>>
    /\ ended = "no"
    /\ frames = <<>>
    /\ lastAt = 0
    /\ endedAt = 0

Return(v) == pc' = "done" /\ verdict' = v

Prepare ==
    /\ pc = "start"
    /\ IF ValidCheck THEN pc' = "request" /\ UNCHANGED verdict
                     ELSE Return("invalid")
    /\ UNCHANGED <<given, declared, readVars, graceBy, now, serverVars, frames>>

RequestFails ==
    /\ pc = "request"
    /\ Return("requestError")
    /\ UNCHANGED <<given, declared, readVars, graceBy, now, serverVars, frames>>

-----------------------------------------------------------------------------
(* evaluate_response and the beginning of read_body: the status is checked  *)
(* before the headers, the headers before the body, and a declared length   *)
(* that is not the expected one needs no reading.                           *)
WrongLength(length) ==
    check.equals # None /\ length # None /\ length # Len(check.equals)

Respond(length, statusOk, headersOk) ==
    /\ pc = "request"
    /\ declared' = length
    /\ ended' = IF length = 0 THEN "complete" ELSE "no"
    /\ \/ ~statusOk /\ Return("status") /\ UNCHANGED readVars
       \/ statusOk /\ ~headersOk /\ Return("headers") /\ UNCHANGED readVars
       \/ /\ statusOk /\ headersOk /\ ~HasBodyAssertions
          /\ Return("healthy") /\ UNCHANGED readVars
       \/ /\ statusOk /\ headersOk /\ HasBodyAssertions
          /\ pc' = IF WrongLength(length) THEN "judge" ELSE "read"
          /\ required' = NewMatcher(check.contains)
          /\ forbidden' = NewMatcher(check.notContains)
          /\ impossible' = WrongLength(length)
          /\ UNCHANGED <<verdict, content>>
    /\ lastAt' = now /\ endedAt' = now
    /\ UNCHANGED <<given, graceBy, now, sent, frames>>

(* The bytes of the buffer after the first from, against those expected.    *)
Deviates(bytes, from) ==
    \/ Len(bytes) > Len(check.equals)
    \/ \E i \in from + 1 .. Len(bytes) : bytes[i] # check.equals[i]

(* Mutated: forbidden text decides only a check that requires none. *)
DecidedWithoutRequired(contained, banned, cannotEqual) ==
    \/ check.equals # None /\ cannotEqual
    \/ check.contains = {} /\ AnyMatched(banned)
    \/ /\ check.equals = None /\ check.notContains = {}
       /\ check.contains # {}
       /\ AllMatched(check.contains, contained)

(* body_assertion_is_decided *)
Decided(contained, banned, cannotEqual) ==
    \/ check.equals # None /\ cannotEqual
    \/ AnyMatched(banned)
    \/ /\ check.equals = None /\ check.notContains = {}
       /\ check.contains # {}
       /\ AllMatched(check.contains, contained)

(* Mutated: a body declared to fill the buffer exactly would exceed it. *)
WillReach == declared # None /\ declared >= check.limit

(* declared_body_exceeds_limit and body_may_exceed_limit *)
WillExceed == declared # None /\ declared > check.limit
MayExceed  == declared = None \/ WillExceed

(* Mutated: no grace at all. *)
GraceDeadlineNow == now

GraceDeadline == now + BodyGrace

(* One turn of the loop of read_body with a frame of data.                  *)
ReadFrame ==
    /\ pc = "read"
    /\ frames # <<>> /\ Head(frames) # <<>>
    /\ LET before == Len(content.bytes)
           new    == AppendLimited(content, Head(frames), check.limit)
           full   == Len(new.bytes) = check.limit
       IN  /\ required' = ObserveAppended(check.contains, required, new.bytes,
                                          before)
           /\ forbidden' = ObserveAppended(check.notContains, forbidden,
                                           new.bytes, before)
           /\ impossible' = \/ impossible
                            \/ /\ check.equals # None
                               /\ Deviates(new.bytes, before)
           /\ \/ /\ Decided(required', forbidden', impossible')
                 /\ pc' = "judge" /\ content' = new
                 /\ UNCHANGED graceBy
              \/ /\ ~Decided(required', forbidden', impossible')
                 /\ new.incomplete \/ (WillExceed /\ full)
                 /\ pc' = "judge" /\ content' = MarkIncomplete(new)
                 /\ UNCHANGED graceBy
              \/ /\ ~Decided(required', forbidden', impossible')
                 /\ ~new.incomplete /\ ~(WillExceed /\ full)
                 /\ content' = new
                 /\ IF full /\ MayExceed
                      THEN pc' = "grace" /\ graceBy' = GraceDeadline
                      ELSE UNCHANGED <<pc, graceBy>>
    /\ frames' = Tail(frames)
    /\ UNCHANGED <<given, verdict, declared, now, serverVars>>

(* A frame without data: trailers. *)
SkipFrame ==
    /\ pc \in {"read", "grace"}
    /\ frames # <<>> /\ Head(frames) = <<>>
    /\ frames' = Tail(frames)
    /\ UNCHANGED <<given, pc, verdict, declared, readVars, graceBy, now,
                   serverVars>>

(* The end of the body, in the loop or in wait_for_body_eof_after_limit.    *)
ReadEnd ==
    /\ pc \in {"read", "grace"}
    /\ frames = <<>> /\ ended = "complete"
    /\ pc' = "judge"
    /\ UNCHANGED <<given, verdict, declared, readVars, graceBy, now, serverVars,
                   frames>>

ReadBroken ==
    /\ pc \in {"read", "grace"}
    /\ frames = <<>> /\ ended = "broken"
    /\ Return("readError")
    /\ UNCHANGED <<given, declared, readVars, graceBy, now, serverVars, frames>>

(* Mutated: what comes after a full buffer is dropped silently. *)
GraceMoreDropped ==
    /\ pc = "grace"
    /\ frames # <<>> /\ Head(frames) # <<>>
    /\ frames' = Tail(frames)
    /\ pc' = "judge"
    /\ UNCHANGED <<given, verdict, declared, readVars, graceBy, now,
                   serverVars>>

(* BodyLimitWait::MoreBody *)
GraceMore ==
    /\ pc = "grace"
    /\ frames # <<>> /\ Head(frames) # <<>>
    /\ frames' = Tail(frames)
    /\ content' = MarkIncomplete(content)
    /\ pc' = "judge"
    /\ UNCHANGED <<given, verdict, declared, required, forbidden, impossible,
                   graceBy, now, serverVars>>

(* A frame, the end or the failure of the body is there to be read.         *)
Ready == pc \in {"read", "grace"} /\ (frames # <<>> \/ ended # "no")

(* BodyLimitWait::StillOpen *)
GraceTimesOut ==
    /\ pc = "grace"
    /\ now >= graceBy
    /\ prompt => ~Ready
    /\ content' = MarkIncomplete(content)
    /\ pc' = "judge"
    /\ UNCHANGED <<given, verdict, declared, required, forbidden, impossible,
                   graceBy, now, serverVars, frames>>

(* Mutated: only the request is under the timeout. *)
TimesOutOnRequest ==
    /\ pc = "request"
    /\ now >= Timeout
    /\ Return("timeout")
    /\ UNCHANGED <<given, declared, readVars, graceBy, now, serverVars, frames>>

(* Mutated: the grace is the timeout. *)
TimesOutAtGrace ==
    /\ Waiting
    /\ now >= BodyGrace
    /\ prompt => ~Ready
    /\ Return("timeout")
    /\ UNCHANGED <<given, declared, readVars, graceBy, now, serverVars, frames>>

(* with_probe_timeout *)
TimesOut ==
    /\ Waiting
    /\ now >= Timeout
    /\ prompt => ~Ready
    /\ Return("timeout")
    /\ UNCHANGED <<given, declared, readVars, graceBy, now, serverVars, frames>>

-----------------------------------------------------------------------------
IsPrefixOf(s, t) == Len(s) <= Len(t) /\ \A i \in 1 .. Len(s) : s[i] = t[i]

Missing == {n \in check.contains : ~ContainsSlice(content.bytes, n)}
Present == {n \in check.notContains : ContainsSlice(content.bytes, n)}

(* Mutated: an unequal buffer is an unequal body. *)
ExactVerdictOfBuffer ==
    IF check.equals = None THEN "healthy"
    ELSE IF impossible \/ content.bytes # check.equals THEN "differs"
    ELSE IF content.incomplete THEN "cutExact" ELSE "healthy"

(* The three parts of assert_response_body, "healthy" for a part that       *)
(* passes: the exact body, the required texts, the forbidden texts.         *)
ExactVerdict ==
    IF check.equals = None THEN "healthy"
    ELSE IF impossible \/ content.bytes # check.equals
           THEN IF content.incomplete /\ IsPrefixOf(content.bytes, check.equals)
                  THEN "cutExact" ELSE "differs"
    ELSE IF content.incomplete THEN "cutExact" ELSE "healthy"

RequiredVerdict ==
    IF Missing = {} THEN "healthy"
    ELSE IF content.incomplete THEN "cutRequired" ELSE "lacks"

ForbiddenVerdict ==
    IF Present # {} THEN "forbidden"
    ELSE IF content.incomplete /\ check.notContains # {} THEN "cutNegative"
    ELSE "healthy"

Judge ==
    /\ pc = "judge"
    /\ Return(IF ExactVerdict # "healthy" THEN ExactVerdict
              ELSE IF RequiredVerdict # "healthy" THEN RequiredVerdict
              ELSE ForbiddenVerdict)
    /\ UNCHANGED <<given, declared, readVars, graceBy, now, serverVars, frames>>

-----------------------------------------------------------------------------
(* The server *)
Serving == pc \in {"read", "grace"} /\ ended = "no"

Frames == UNION {[1 .. k -> Bytes] : k \in 1 .. MaxFrame}

(* hyper ends a body of declared length at its last byte. *)
SendFrame(f) ==
    /\ Serving
    /\ Len(frames) < MaxPending
    /\ Len(sent) + Len(f) <= IF declared = None THEN MaxSent ELSE declared
    /\ sent' = sent \o f
    /\ frames' = Append(frames, f)
    /\ lastAt' = now
    /\ ended' = IF Len(sent') = declared THEN "complete" ELSE "no"
    /\ endedAt' = now
    /\ UNCHANGED <<given, pc, verdict, declared, readVars, graceBy, now>>

EndBody(trailers) ==
    /\ Serving
    /\ declared = None
    /\ ended' = "complete"
    /\ frames' = IF trailers THEN Append(frames, <<>>) ELSE frames
    /\ endedAt' = now
    /\ UNCHANGED <<given, pc, verdict, declared, readVars, graceBy, now, sent,
                   lastAt>>

BreakBody ==
    /\ Serving
    /\ ended' = "broken"
    /\ UNCHANGED <<given, pc, verdict, declared, readVars, graceBy, now, sent,
                   lastAt, endedAt, frames>>

Tick ==
    /\ Waiting
    /\ now < Timeout
    /\ pc = "grace" => now < graceBy
    /\ prompt => ~Ready
    /\ now' = now + 1
    /\ UNCHANGED <<given, pc, verdict, declared, readVars, graceBy, serverVars,
                   frames>>

Terminated == pc = "done" /\ UNCHANGED vars

-----------------------------------------------------------------------------
Lengths == (0 .. MaxSent) \cup {None}

ServerStep ==
    \/ \E length \in Lengths, statusOk, headersOk \in BOOLEAN :
          Respond(length, statusOk, headersOk)
    \/ \E f \in Frames : SendFrame(f)
    \/ \E trailers \in BOOLEAN : EndBody(trailers)
    \/ BreakBody
    \/ RequestFails

ProbeStep ==
    \/ Prepare \/ ReadFrame \/ SkipFrame \/ ReadEnd \/ ReadBroken
    \/ GraceMore \/ GraceTimesOut \/ TimesOut \/ Judge

Next == ServerStep \/ ProbeStep \/ Tick \/ Terminated

Spec == Init /\ [][Next]_vars

(* The probe is polled when it can go on, and the clock goes on; the server *)
(* owes nothing.                                                            *)
FairSpec == Spec /\ WF_vars(ProbeStep) /\ WF_vars(Tick)
=============================================================================
