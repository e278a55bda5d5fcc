------------------------------ MODULE TcpProbe ------------------------------
(***************************************************************************)
(* src/src/probes/tcp.rs: look the name up, then try the addresses one      *)
(* after the other, each for an equal part of the time that is left, under  *)
(* with_probe_timeout.  The deadline the parts are taken from starts after  *)
(* the lookup, the timeout around everything before it.                     *)
(***************************************************************************)
EXTENDS Naturals, Sequences

CONSTANTS
    Timeout,      \* options.timeout
    MinAttempt,   \* the millisecond an attempt gets at least
    MaxAddrs,     \* bound on the addresses of a name
    Delays,       \* how long a peer takes to answer
    Horizon       \* bound on the clock

ASSUME TimesAssumption == /\ {Timeout, MinAttempt} \subseteq Nat \ {0}
                          /\ Horizon \in Nat /\ Horizon > Timeout
                          /\ MaxAddrs \in Nat
                          /\ Delays \subseteq Nat

Peers == [answer : {"accept", "refuse"}, after : Delays]
         \cup [answer : {"silent"}, after : {0}]

AddrLists == UNION {[1 .. n -> Peers] : n \in 0 .. MaxAddrs}

VARIABLES
    prompt,      \* the host delays nothing runnable past a clock tick
    pc,          \* where the probe's future stands
    verdict,     \* how run() ended, "none" before it has
    addrs,       \* the addresses, and how each will behave
    deadline,    \* what the attempts share
    errors,      \* last_error, after those it replaced
    startedAt,   \* when the attempt in progress began
    attemptBy,   \* when the attempt in progress expires
    now          \* the clock

vars == <<prompt, pc, verdict, addrs, deadline, errors, startedAt, attemptBy,
          now>>

Larger(m, n)  == IF m > n THEN m ELSE n

Init ==
    /\ prompt \in BOOLEAN
    /\ pc = "start"
    /\ verdict = "none"
    /\ addrs = <<>>
    /\ deadline = 0
    /\ errors = <<>>
    /\ startedAt = 0
    /\ attemptBy = 0
    /\ now = 0

Return(v) == pc' = "done" /\ verdict' = v

(* The address is checked before the timeout starts. *)
Validate(valid) ==
    /\ pc = "start"
    /\ IF valid THEN pc' = "lookup" /\ UNCHANGED verdict ELSE Return("invalid")
    /\ UNCHANGED <<prompt, addrs, deadline, errors, startedAt, attemptBy, now>>

LookupFails(v) ==
    /\ pc = "lookup"
    /\ v \in {"invalid", "unresolved"}
    /\ Return(v)
    /\ UNCHANGED <<prompt, addrs, deadline, errors, startedAt, attemptBy, now>>

(* lookup_host answers.  deadline_after may overflow for a --timeout that   *)
(* main_entry's own check let just pass.                                    *)
Resolve(list, fits) ==
    /\ pc = "lookup"
    /\ addrs' = list
    /\ \/ list = <<>> /\ Return("noAddress") /\ UNCHANGED deadline
       \/ list # <<>> /\ ~fits /\ Return("invalid") /\ UNCHANGED deadline
       \/ /\ list # <<>> /\ fits
          /\ pc' = "next" /\ deadline' = now + Timeout
          /\ UNCHANGED verdict
    /\ UNCHANGED <<prompt, errors, startedAt, attemptBy, now>>

AttemptsLeft == Len(addrs) - Len(errors)

(* deadline.saturating_duration_since(now) *)
Remaining == IF deadline > now THEN deadline - now ELSE 0

(* Mutated: the current address is not counted. *)
PerAttemptGreedy(remaining, left) ==
    Larger(remaining \div Larger(left - 1, 1), MinAttempt)

(* per_attempt_timeout *)
PerAttempt(remaining, left) == Larger(remaining \div left, MinAttempt)

Attempt ==
    /\ pc = "next"
    /\ AttemptsLeft > 0
    /\ Remaining > 0
    /\ pc' = "connect"
    /\ startedAt' = now
    /\ attemptBy' = now + PerAttempt(Remaining, AttemptsLeft)
    /\ UNCHANGED <<prompt, verdict, addrs, deadline, errors, now>>

(* Mutated: a peer that refuses settles the matter. *)
GiveUpOnRefusal ==
    /\ pc = "next"
    /\ AttemptsLeft = 0 \/ Remaining = 0 \/ errors # <<>>
    /\ Return(IF errors = <<>> THEN "untried" ELSE "failed")
    /\ UNCHANGED <<prompt, addrs, deadline, errors, startedAt, attemptBy, now>>

(* All addresses are tried, or the time is up. *)
GiveUp ==
    /\ pc = "next"
    /\ AttemptsLeft = 0 \/ Remaining = 0
    /\ Return(IF errors = <<>> THEN "untried" ELSE "failed")
    /\ UNCHANGED <<prompt, addrs, deadline, errors, startedAt, attemptBy, now>>

-----------------------------------------------------------------------------
Peer == addrs[Len(errors) + 1]

Answered ==
    /\ pc = "connect"
    /\ Peer.answer # "silent"
    /\ now >= startedAt + Peer.after

Expired == pc = "connect" /\ now >= attemptBy

Connected ==
    /\ Answered
    /\ Peer.answer = "accept"
    /\ Return("healthy")
    /\ UNCHANGED <<prompt, addrs, deadline, errors, startedAt, attemptBy, now>>

Refused ==
    /\ Answered
    /\ Peer.answer = "refuse"
    /\ pc' = "next"
    /\ errors' = Append(errors, "refused")
    /\ UNCHANGED <<prompt, verdict, addrs, deadline, startedAt, attemptBy, now>>


(* A connection that is ready when its time is up is taken: timeout() polls *)
(* its future first.                                                        *)
Expire ==
    /\ Expired
    /\ prompt => ~Answered
    /\ pc' = "next"
    /\ errors' = Append(errors, "expired")
    /\ UNCHANGED <<prompt, verdict, addrs, deadline, startedAt, attemptBy, now>>

(* Mutated: the lookup is outside of the timeout. *)
OutOfTimeOnConnect == pc = "connect" /\ now >= Timeout

OutOfTime == pc \in {"lookup", "connect"} /\ now >= Timeout

(* with_probe_timeout, which also polls its future first. *)
TimesOut ==
    /\ OutOfTime
    /\ prompt => ~Answered /\ ~Expired
    /\ Return("timeout")
    /\ UNCHANGED <<prompt, addrs, deadline, errors, startedAt, attemptBy, now>>

(* Without prompt the whole process may be held up, anywhere. *)
Tick ==
    /\ pc \notin {"start", "done"}
    /\ now < Horizon
    /\ prompt => /\ pc \in {"lookup", "connect"}
                 /\ ~OutOfTime /\ ~Answered /\ ~Expired
    /\ now' = now + 1
    /\ UNCHANGED <<prompt, pc, verdict, addrs, deadline, errors, startedAt,
                   attemptBy>>

Terminated == pc = "done" /\ UNCHANGED vars

ProbeStep ==
    \/ \E valid \in BOOLEAN : Validate(valid)
    \/ Attempt \/ GiveUp \/ Connected \/ Refused \/ Expire \/ TimesOut

ResolverStep ==
    \/ \E v \in {"invalid", "unresolved"} : LookupFails(v)
    \/ \E list \in AddrLists, fits \in BOOLEAN : Resolve(list, fits)

Next == ProbeStep \/ ResolverStep \/ Tick \/ Terminated

Spec == Init /\ [][Next]_vars

(* The probe is polled when it can go on, and the clock goes on; resolver   *)
(* and peers owe nothing.                                                   *)
FairSpec == Spec /\ WF_vars(ProbeStep) /\ WF_vars(Tick)
=============================================================================
