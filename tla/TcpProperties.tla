--------------------------- MODULE TcpProperties ---------------------------
(***************************************************************************)
(* What the TCP probe promises.                                             *)
(***************************************************************************)
EXTENDS TcpProbe

(* Every variable of the TCP probe has its type, there is an error for each *)
(* attempt that ended, and an attempt has at least the least time.          *)
TypeOK ==
    /\ prompt \in BOOLEAN
    /\ pc \in {"start", "lookup", "next", "connect", "done"}
    /\ verdict \in {"none", "healthy", "invalid", "unresolved", "noAddress",
                    "untried", "failed", "timeout"}
    /\ addrs \in Seq(Peers)
    /\ errors \in Seq({"refused", "expired"})
    /\ {deadline, startedAt, attemptBy, now} \subseteq Nat
    /\ Len(errors) <= Len(addrs)
    /\ pc = "connect" => /\ Len(errors) < Len(addrs)
                         /\ attemptBy >= startedAt + MinAttempt

-----------------------------------------------------------------------------
(* What every address is due when there are n of them and a share is not    *)
(* below the least time of an attempt.                                      *)
Share == Timeout \div Len(addrs)

Divisible == addrs # <<>> /\ Share >= MinAttempt

LookupTime == deadline - Timeout

(* A peer that accepts within its share is found, whatever the peers before *)
(* it do: they cannot use up its time.  Since the shares begin only after   *)
(* the lookup, this needs a lookup no longer than the shares of the peers   *)
(* that come after it; for the last address, one that takes no time.        *)
NothingMissed ==
    /\ prompt
    /\ verdict \in {"failed", "untried", "timeout"}
    /\ Divisible /\ deadline # 0
    => \A i \in 1 .. Len(addrs) :
          ~ /\ addrs[i].answer = "accept"
            /\ addrs[i].after <= Share
            /\ LookupTime <= (Len(addrs) - i) * Share

(* "failed to connect" (or "timed out connecting") is true of every address: *)
(* it refused, it did not accept within its share or, where shares are too   *)
(* small, within the least time of an attempt, or the time was up before its *)
(* turn.                                                                     *)
FailureIsTrue ==
    verdict \in {"failed", "untried"} =>
        \A i \in 1 .. Len(addrs) :
            IF i > Len(errors) THEN now >= deadline
            ELSE \/ addrs[i].answer = "refuse"
                 \/ /\ errors[i] = "expired"
                    /\ prompt /\ addrs[i].answer = "accept" =>
                          addrs[i].after > Larger(Share, MinAttempt)

(* --timeout is a hard deadline for lookup and attempts together, although  *)
(* the deadline of the attempts lies later.                                 *)
DeadlineRespected == prompt => now <= Timeout

(* Every TCP probe ends, whatever resolver and peers do.                    *)
Terminates == <>(pc = "done")

-----------------------------------------------------------------------------
(* The verdicts as the callers of the probes tell them apart. *)
Outcome ==
    CASE verdict \in {"none", "healthy", "invalid", "timeout"} -> verdict
      [] verdict \in {"unresolved", "noAddress", "untried", "failed"} -> "failure"

Phase == IF pc = "start" THEN "given" ELSE IF pc = "done" THEN "ended"
         ELSE "probing"

Contract == INSTANCE ProbeContract
              WITH timeout <- Timeout, phase <- Phase, outcome <- Outcome,
                   deadline <- Timeout

(* The TCP probe implements what main_entry expects of a probe: its timer   *)
(* covers the lookup, never fires early, and on a host without delays is    *)
(* never overrun, although the deadline of the attempts lies later.         *)
KeepsContract == Contract!Spec
=============================================================================
