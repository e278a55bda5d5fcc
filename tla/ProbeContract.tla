--------------------------- MODULE ProbeContract ---------------------------
(***************************************************************************)
(* What main_entry may expect of any of the five probes: an invocation is   *)
(* called invalid before the probe begins, or the probe runs under a        *)
(* deadline and comes to exactly one outcome.  It never times out early, and on a host   *)
(* that delays nothing it is over when the deadline comes.                  *)
(***************************************************************************)
EXTENDS Naturals

VARIABLES
    prompt,     \* the host delays nothing runnable past a clock tick
    timeout,    \* options.timeout
    phase,      \* "given", "probing" or "ended"
    outcome,    \* how run() returned, "none" before it has
    deadline,   \* when the timeout of the probe fires
    now         \* the clock

vars == <<prompt, timeout, phase, outcome, deadline, now>>

Outcomes == {"healthy", "failure", "timeout", "invalid", "internal"}

Init ==
    /\ prompt \in BOOLEAN
    /\ timeout \in Nat
    /\ phase = "given"
    /\ outcome = "none"
    /\ deadline \in Nat
    /\ now \in Nat

(* An invocation that does not validate, a file that cannot be loaded, a    *)
(* command that cannot be started: none of them is a failure of the service.*)
Refuse ==
    /\ phase = "given"
    /\ phase' = "ended"
    /\ outcome' = "invalid"
    /\ UNCHANGED <<prompt, timeout, deadline, now>>

(* with_probe_timeout, or deadline_after: the timer starts. *)
Begin ==
    /\ phase = "given"
    /\ phase' = "probing"
    /\ deadline' = now + timeout
    /\ UNCHANGED <<prompt, timeout, outcome, now>>

Wait ==
    /\ phase # "ended"
    /\ now' \in Nat
    /\ now' > now
    /\ prompt /\ phase = "probing" => now' <= deadline
    /\ UNCHANGED <<prompt, timeout, phase, outcome, deadline>>

End(o) ==
    /\ phase = "probing"
    /\ o \in Outcomes
    /\ o = "timeout" => now >= deadline
    /\ phase' = "ended"
    /\ outcome' = o
    /\ UNCHANGED <<prompt, timeout, deadline, now>>

Next ==
    \/ Refuse \/ Begin \/ Wait
    \/ \E o \in Outcomes : End(o)

Spec == Init /\ [][Next]_vars
=============================================================================
