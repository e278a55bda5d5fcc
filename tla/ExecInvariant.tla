--------------------------- MODULE ExecInvariant ---------------------------
(***************************************************************************)
(* The inductive invariant behind the exec probe's promises: what is true   *)
(* at each point of run(), of each reader task and of each snapshot.        *)
(***************************************************************************)
EXTENDS ExecProperties

(* Where run() stands determines what is running, what is left to kill and  *)
(* what has been decided.                                                   *)
Before == pc \in {"start", "spawned", "wait", "reaped"}
After  == pc \in {"collect", "settle", "judge"}

ControlInv ==
    /\ pc = "start" => ~armed /\ \A p \in Procs : proc[p] = "unborn"
    /\ pc \in {"spawned", "wait", "reaped"} => armed
    /\ After \/ pc = "done" => ~armed /\ Members = {}
    /\ After \/ pc = "reaped" => proc[Leader] = "gone"
    /\ After => status \in SuccessCodes
    /\ Before => cur = "stdout"
    /\ pc \notin {"start", "done"} => ValidRequest
    /\ pc # "done" => verdict = "none"

(* No timer is set beyond the deadline. *)
TimeInv ==
    /\ now <= Timeout
    /\ outputBy <= Timeout
    /\ settleBy <= Timeout

(* The stream has been awaited: its output is in the hands of run(). *)
Settled(s) ==
    \/ pc = "judge"
    \/ pc \in {"collect", "settle"} /\ cur = "stderr" /\ s = "stdout"

(* A reader exists for exactly the captured streams, ends by itself only at *)
(* the end of the stream, and is aborted only when its stream is done with. *)
TaskInv ==
    \A s \in Streams :
        /\ pc = "start" => task[s] = "none"
        /\ pc \notin {"start", "done"} => (task[s] # "none" <=> Captured(s))
        /\ task[s] # "none" => Captured(s) /\ ValidRequest
        /\ task[s] = "none" => /\ holders[s] = {}
                               /\ out[s] = NoOutput
        /\ out[s].complete <=> task[s] = "finished"
        /\ task[s] = "finished" => holders[s] = {} /\ pipe[s] = <<>>
        /\ task[s] = "aborted" => Settled(s) \/ pc = "done"

(* What the reader shares is an exact account of what it has read. *)
CaptureInv ==
    \A s \in Streams :
        /\ task[s] = "none" => delivered[s] = <<>> /\ pipe[s] = <<>>
        /\ task[s] # "none" =>
              /\ out[s].content.bytes = Capture(delivered[s], args.limit)
              /\ out[s].content.incomplete
                    <=> Len(delivered[s]) > args.limit
              /\ found[s] = {n \in Needles(s) :
                                ContainsSlice(out[s].content.bytes, n)}
              /\ out[s].matched <=> found[s] = Needles(s)
              /\ out[s].limitReached
                    <=> Len(out[s].content.bytes) = args.limit

(* A snapshot stays true: nothing is read after it was taken. *)
SettledInv ==
    \A s \in Streams :
        Settled(s) => task[s] # "running" /\ output[s] = out[s]

(* How long run() may stay with its streams once the command has ended: the *)
(* graces of the captured streams, one stream after the other.              *)
GraceOf(s) == IF Captured(s) THEN MaxGrace + EofGrace ELSE 0
BegunBy(s) == reapedAt + (IF s = "stderr" THEN GraceOf("stdout") ELSE 0)

(* The grace that follows a full capture may start as late as the output    *)
(* deadline, and cannot start twice: a byte beyond the limit decides.       *)
Ended(s)     == task[s] # "running"
Overfull(s)  == Len(delivered[s]) > args.limit
Full(s)      == Len(delivered[s]) >= args.limit

GraceInv ==
    /\ pc \in {"start", "spawned", "wait"} => proc[Leader] # "gone"
    /\ \A s \in Streams : progress[s] = ProgressOf(out[s])
    /\ pc = "reaped" => now = reapedAt
    /\ pc \in {"collect", "settle"} => outputBy <= BegunBy(cur) + MaxGrace
    /\ pc = "collect" =>
          /\ now <= BegunBy(cur) + GraceOf(cur)
          /\ now <= outputBy \/ Ended(cur) \/ Overfull(cur)
    /\ pc = "settle" =>
          /\ Captured(cur)
          /\ now <= settleBy
          /\ settleBy <= BegunBy(cur) + GraceOf(cur)
          /\ \/ settleBy <= outputBy
             \/ Full(cur) /\ (unseen[cur] => Ended(cur) \/ Overfull(cur))
    /\ pc \in {"judge", "done"} /\ proc[Leader] = "gone" =>
          now <= BegunBy("stderr") + GraceOf("stderr")

(* What the kernel keeps: a process that has ended holds no pipe, and the   *)
(* leader has an exit status only when it has ended.                        *)
ProcInv ==
    /\ \A s \in Streams : \A p \in holders[s] : proc[p] \in {"member", "away",
                                                             "dying"}
    /\ status # NoStatus => proc[Leader] \in {"zombie", "gone"}
    /\ \A s \in Streams : atExit[s] <= Len(Written(s))

(* Without delays, time passes after the exit only when the readers have    *)
(* caught up with everything the command wrote; nothing is given up before. *)
CaughtUp(s) == Len(delivered[s]) >= atExit[s]
Alone       == \A d \in Descendants : proc[d] = "unborn"

PromptInv ==
    Prompt /\ reapedAt < Timeout /\ After =>
        /\ reapedAt <= now
        /\ now = reapedAt => /\ pc # "judge" => now < outputBy
                             /\ pc = "settle" => now < settleBy
        /\ reapedAt < now => /\ ~Alone
                             /\ \A s \in Streams : Ended(s) \/ CaughtUp(s)
        /\ \A s \in Streams : Captured(s) /\ Settled(s) =>
              /\ \/ task[s] = "failed" \/ out[s].matched
                 \/ Overfull(s) \/ CaughtUp(s)
              /\ Alone => \/ task[s] \in {"failed", "finished"}
                          \/ out[s].matched \/ Overfull(s)

IInv ==
    /\ TypeOK
    /\ ControlInv
    /\ TimeInv
    /\ TaskInv
    /\ CaptureInv
    /\ SettledInv
    /\ GraceInv
    /\ ProcInv
    /\ PromptInv
    /\ HealthyIsEarned
    /\ AbsenceIsProven
    /\ LimitIsReal
    /\ OpenIsReal
    /\ NothingMissed
=============================================================================
