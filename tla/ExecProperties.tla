--------------------------- MODULE ExecProperties ---------------------------
(***************************************************************************)
(* What the exec probe promises, stated on the behaviours of ExecProbe.     *)
(***************************************************************************)
EXTENDS ExecProbe

OutputType == [content      : [bytes : Seq(Bytes), incomplete : BOOLEAN],
               matched      : BOOLEAN,
               limitReached : BOOLEAN,
               complete     : BOOLEAN]

ProgressType == [incomplete : BOOLEAN, matched : BOOLEAN,
                 limitReached : BOOLEAN]

Verdicts == {"none", "healthy", "invalid", "waitError",
             "timeout", "signal", "code", "readError", "internal",
             "limit", "open", "missing"}

(* Every variable has its type: the state of exec.rs and of the processes   *)
(* and pipes around it.                                                     *)
TypeOK ==
    /\ args \in Requests
    /\ pc \in {"start", "spawned", "wait", "reaped", "collect", "settle",
               "judge", "done"}
    /\ cur \in Streams
    /\ verdict \in Verdicts
    /\ blamed \in Streams \cup {"none"}
    /\ output \in [Streams -> OutputType]
    /\ settleBy \in Nat
    /\ outputBy \in Nat
    /\ armed \in BOOLEAN
    /\ now \in Nat
    /\ reapedAt \in Nat
    /\ lateSignals \in Nat
    /\ proc \in [Procs -> {"unborn", "member", "away", "dying", "zombie",
                           "gone"}]
    /\ status \in Codes \cup {NoStatus, Signalled}
    /\ holders \in [Streams -> SUBSET Procs]
    /\ pipe \in [Streams -> Seq(Bytes)]
    /\ delivered \in [Streams -> Seq(Bytes)]
    /\ atExit \in [Streams -> Nat]
    /\ task \in [Streams -> {"none", "running", "finished", "failed",
                             "aborted"}]
    /\ found \in [Streams -> SUBSET Seq(Bytes)]
    /\ out \in [Streams -> OutputType]
    /\ progress \in [Streams -> ProgressType]
    /\ unseen \in [Streams -> BOOLEAN]

-----------------------------------------------------------------------------
(* The bytes of a stream the probe may look at. *)
Visible(s) == Capture(Written(s), args.limit)

(* A healthy verdict is earned: the command ended with an accepted exit     *)
(* code, and every required text of both streams occurs in the first        *)
(* --max-output bytes the command really wrote.  Spans the reader, the      *)
(* incremental matcher, the snapshot taken at an abort and the final check. *)
HealthyIsEarned ==
    verdict = "healthy" =>
        /\ status \in SuccessCodes
        /\ \A s \in Streams : \A n \in Needles(s) : ContainsSlice(Visible(s), n)

(* "does not contain required text" is a proof of absence: every writer has *)
(* closed the stream, nothing is left in the pipe, nothing was cut off, and *)
(* some required text is nowhere in it (missing_required_output_error).     *)
AbsenceIsProven ==
    verdict = "missing" =>
        /\ holders[blamed] = {}
        /\ pipe[blamed] = <<>>
        /\ Len(Written(blamed)) <= args.limit
        /\ \E n \in Needles(blamed) : ~ContainsSlice(Written(blamed), n)

(* "reached --max-output" is said only when the command wrote at least that *)
(* many bytes, not all of the required text is in them, and the stream was  *)
(* not seen to end there.                                                   *)
LimitIsReal ==
    verdict = "limit" =>
        /\ Len(Written(blamed)) >= args.limit
        /\ \E n \in Needles(blamed) : ~ContainsSlice(Visible(blamed), n)
        /\ Len(Written(blamed)) = args.limit => task[blamed] # "finished"

(* Without delays, "remained open after the command exited" is never said   *)
(* of a command that started no other process and exited before the         *)
(* deadline: its own end closes the streams, and the reader gets to see it.  *)
OpenIsReal ==
    /\ Prompt
    /\ verdict = "open"
    /\ reapedAt < Timeout
    /\ task[blamed] # "failed"
    => \E d \in Descendants : proc[d] # "unborn"

(* The matcher is exact at every moment: what it found chunk by chunk is    *)
(* what a search of everything captured finds, and what is captured is the  *)
(* first --max-output bytes read, marked incomplete iff there was more.     *)
CaptureIsExact ==
    \A s \in Streams : Captured(s) /\ task[s] # "none" =>
        /\ out[s].content.bytes = Capture(delivered[s], args.limit)
        /\ out[s].content.incomplete <=> Len(delivered[s]) > args.limit
        /\ found[s] = {n \in Needles(s) :
                          ContainsSlice(out[s].content.bytes, n)}
        /\ out[s].matched <=> found[s] = Needles(s)

(* Nothing that succeeded is missed: if the invocation is one run() accepts *)
(* and the command ended by itself before the deadline with an accepted     *)
(* code, and had by then written every required text within the limit, then *)
(* on a host without delays and without I/O errors the probe is healthy,    *)
(* whatever the descendants do with the streams afterwards.                 *)
Deserved ==
    /\ ValidRequest
    /\ args.deadlineFits
    /\ status \in SuccessCodes
    /\ reapedAt < Timeout
    /\ \A s \in Streams : task[s] # "failed"
    /\ \A s \in Streams : \A n \in Needles(s) :
           ContainsSlice(SubSeq(Visible(s), 1,
                                Least(atExit[s], Len(Visible(s)))), n)

NothingMissed ==
    Prompt /\ pc = "done" /\ Deserved /\ verdict # "waitError"
        => verdict = "healthy"

(* Once run() has returned, for whatever reason, every process of the       *)
(* command's group has ended or has SIGKILL pending; only processes that    *)
(* left the group survive.                                                  *)
NoStrays == pc = "done" => Members = {}

(* A group signal after the leader was reaped could hit a stranger that got *)
(* its id, so one is sent at most right after the reaping, in the same poll.*)
SignalsOnlyWhenReaped == [][lateSignals' # lateSignals => pc = "reaped"]_vars

(* While the command runs unkilled, a captured stream always has its reader *)
(* (unless reading failed): a match does not close the pipe under it.       *)
NoBrokenPipe ==
    \A s \in Streams, p \in Procs :
        pc = "wait" /\ p \in holders[s] => task[s] \in {"running", "failed"}

(* No task is joined after it was aborted: the probe never reports its own  *)
(* internal error (exit code 4).                                            *)
NoInternalError == verdict # "internal"

(* A reader lives as long as it must, and is not waited for once it is gone: *)
(* a match neither breaks the command's pipe nor ends in an internal error. *)
ReadersAreRight == NoBrokenPipe /\ NoInternalError

(* --timeout is a hard deadline: the verdict is out by then, the graces     *)
(* after the exit included.                                                 *)
DeadlineRespected == now <= Timeout

(* The probe outlives the command by the graces of the captured streams at  *)
(* most, however long a daemon keeps writing.                               *)
GraceIsBounded ==
    proc[Leader] = "gone" =>
        now <= reapedAt + (MaxGrace + EofGrace)
                            * (IF Captured("stdout") THEN 1 ELSE 0)
                        + (MaxGrace + EofGrace)
                            * (IF Captured("stderr") THEN 1 ELSE 0)

(* Every probe ends, even when the command hangs and holds its streams.     *)
Terminates == <>(pc = "done")

-----------------------------------------------------------------------------
(* The verdicts as the callers of the probes tell them apart. *)
Outcome ==
    IF verdict \in {"waitError", "signal", "code", "readError", "limit", "open",
                    "missing"}
    THEN "failure" ELSE verdict

(* The timer starts when the command already runs. *)
Phase == IF pc \in {"start", "spawned"} THEN "given"
         ELSE IF pc = "done" THEN "ended" ELSE "probing"

Contract == INSTANCE ProbeContract
              WITH prompt <- TRUE, timeout <- Timeout, phase <- Phase,
                   outcome <- Outcome, deadline <- Timeout

(* The exec probe implements what main_entry expects of a probe: the waits  *)
(* of the graces after the exit end with the deadline, and only a command   *)
(* that has used up its time is said to have timed out.  Its own timers are *)
(* never late in this model, whatever delays the command and the readers.   *)
KeepsContract == Contract!Spec
=============================================================================
