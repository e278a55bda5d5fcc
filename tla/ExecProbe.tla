----------------------------- MODULE ExecProbe -----------------------------
(***************************************************************************)
(* src/src/probes/exec.rs: the exec probe.  It spawns a command in a new    *)
(* process group, reads the asserted output streams in one task each, waits *)
(* for the command under the probe's deadline, kills what is left of the    *)
(* process group, lets the readers settle for a bounded grace and judges    *)
(* the exit code and the captured output.                                   *)
(*                                                                         *)
(* The runtime is tokio's current_thread: a reader task runs only while the *)
(* probe's own future is suspended (pc "wait" or "settle"), whereas the     *)
(* command, its descendants and the kernel take steps at any time.          *)
(***************************************************************************)
EXTENDS OutputCapture

CONSTANTS
    Bytes,          \* the bytes a process can write
    Requests,       \* the invocations (ExecArgs) to explore
    Codes,          \* the exit codes a command can end with
    Descendants,    \* processes the command can fork
    Timeout,        \* options.timeout
    IdleGrace,      \* OUTPUT_IDLE_GRACE_AFTER_EXIT
    EofGrace,       \* OUTPUT_EOF_GRACE_AFTER_LIMIT
    MaxGrace,       \* OUTPUT_MAX_GRACE_AFTER_EXIT
    MaxCapture,     \* MAX_CAPTURE_BYTES
    ReadSize,       \* the reader's buffer, 4096 bytes in the code
    PipeSize,       \* capacity of a pipe
    Beyond,         \* bound on what is written to a stream beyond the limit
    Prompt          \* TRUE: nothing runnable is delayed past a clock tick

Streams == {"stdout", "stderr"}
Leader  == "leader"
Procs   == Descendants \cup {Leader}

(* The leader's exit status, when it is not an exit code. *)
NoStatus  == -1
Signalled == -2

RequestType ==
    [command      : {"none", "empty", "program"},
     codes        : SUBSET Int,
     needles      : [Streams -> SUBSET Seq(Bytes)],
     limit        : Nat,
     deadlineFits : BOOLEAN]

ASSUME RequestAssumption == Requests \subseteq RequestType
ASSUME CodeAssumption    == Codes \subseteq 0 .. 255
ASSUME TimeAssumption    == {Timeout, IdleGrace, EofGrace, MaxGrace}
                                \subseteq Nat \ {0}
ASSUME SizeAssumption    == /\ {MaxCapture, ReadSize, PipeSize}
                                  \subseteq Nat \ {0}
                            /\ Beyond \in Nat
ASSUME ProcAssumption    == Leader \notin Descendants
ASSUME PromptAssumption  == Prompt \in BOOLEAN

VARIABLES
    args,         \* the invocation
    pc,           \* where the probe's future stands
    cur,          \* the stream await_output_task is working on
    verdict,      \* how run() returned, "none" before it has
    blamed,       \* the stream an output verdict is about
    output,       \* what await_output_task returned for each stream
    settleBy,     \* when the grace_sleep in progress fires
    outputBy,     \* output_deadline of the stream being awaited
    armed,        \* ProcessGroupCleanup still holds the group id
    now,          \* the clock
    reapedAt,     \* history: when child.wait() returned
    lateSignals,  \* history: group signals sent after the leader was reaped
    proc,         \* state of each process
    status,       \* exit status of the leader
    holders,      \* processes that hold the write end of each pipe
    pipe,         \* written and not yet read
    delivered,    \* history: everything the reader has read
    atExit,       \* history: bytes written before the leader ended
    task,         \* state of each reader task
    found,        \* the reader's TextMatcher
    out,          \* the BufferedOutput behind the mutex
    progress,     \* value of the watch channel
    unseen        \* the channel's version is newer than the one seen

mainVars   == <<args, pc, cur, verdict, blamed, output, settleBy, outputBy,
                armed, reapedAt, lateSignals>>
childVars  == <<proc, status, atExit>>
pipeVars   == <<holders, pipe, delivered>>
readerVars == <<task, found, out, progress>>
vars       == <<mainVars, now, childVars, pipeVars, readerVars, unseen>>

-----------------------------------------------------------------------------
Needles(s) == args.needles[s]

(* Stdio::piped for a stream with assertions, Stdio::null for the others. *)
Captured(s) == Needles(s) # {}

SuccessCodes == IF args.codes = {} THEN {0} ELSE args.codes

ValidRequest ==
    /\ \A s \in Streams : <<>> \notin Needles(s)
    /\ (\E s \in Streams : Captured(s)) => args.limit \in 1 .. MaxCapture
    /\ SuccessCodes \subseteq 0 .. 255
    /\ args.command = "program"

(* Everything written to a stream so far. *)
Written(s) == delivered[s] \o pipe[s]

Alive(p)     == proc[p] \in {"member", "away"}
Members      == {p \in Procs : proc[p] = "member"}

(* Mutated: the signal reaches the command and not its group. *)
KillLeaderOnly(ps) == [p \in Procs |-> IF p = Leader /\ p \in ps /\ Alive(p)
                                       THEN "dying" ELSE proc[p]]

Kill(ps)     == [p \in Procs |-> IF p \in ps /\ Alive(p) THEN "dying"
                                 ELSE proc[p]]

Init ==
    /\ args \in Requests
    /\ pc = "start"
    /\ cur = "stdout"
    /\ verdict = "none"
    /\ blamed = "none"
    /\ output = [s \in Streams |-> NoOutput]
    /\ settleBy = 0
    /\ outputBy = 0
    /\ armed = FALSE
    /\ now = 0
    /\ reapedAt = 0
    /\ lateSignals = 0
    /\ proc = [p \in Procs |-> "unborn"]
    /\ status = NoStatus
    /\ holders = [s \in Streams |-> {}]
    /\ pipe = [s \in Streams |-> <<>>]
    /\ delivered = [s \in Streams |-> <<>>]
    /\ atExit = [s \in Streams |-> 0]
    /\ task = [s \in Streams |-> "none"]
    /\ found = [s \in Streams |-> {}]
    /\ out = [s \in Streams |-> NoOutput]
    /\ progress = [s \in Streams |-> ProgressOf(NoOutput)]
    /\ unseen = [s \in Streams |-> FALSE]

-----------------------------------------------------------------------------
(* Process-group cleanup *)

(* Mutated: the group id is not taken out. *)
TerminateKeepsArmed ==
    /\ proc' = IF armed THEN Kill(Members) ELSE proc
    /\ lateSignals' = IF armed /\ proc[Leader] = "gone" THEN lateSignals + 1
                      ELSE lateSignals
    /\ UNCHANGED armed

(* ProcessGroupCleanup::terminate, which take()s the group id: called right *)
(* after the leader is reaped, and again by Drop when run() returns.  The   *)
(* kernel may give the id to a new process once the leader is reaped and    *)
(* its group is empty.                                                      *)
Terminate ==
    /\ proc' = IF armed THEN Kill(Members) ELSE proc
    /\ lateSignals' = IF armed /\ proc[Leader] = "gone" THEN lateSignals + 1
                      ELSE lateSignals
    /\ armed' = FALSE

(* terminate_child followed by Drop, or kill_on_drop followed by Drop. *)
TerminateChild ==
    /\ proc' = Kill(Members \cup {Leader})
    /\ armed' = FALSE
    /\ UNCHANGED lateSignals

(* abort_output_task: a task that has ended stays what it is. *)
Aborted(ss) == [s \in Streams |-> IF s \in ss /\ task[s] = "running"
                                  THEN "aborted" ELSE task[s]]

Return(v, s) == pc' = "done" /\ verdict' = v /\ blamed' = s

-----------------------------------------------------------------------------
(* The probe's future *)

Reject ==
    /\ pc = "start"
    /\ ~ValidRequest
    /\ Return("invalid", "none")
    /\ UNCHANGED <<args, cur, output, settleBy, outputBy, armed, reapedAt,
                   lateSignals, now, childVars, pipeVars, readerVars, unseen>>

(* Mutated: a command that cannot be started counts as one that failed. *)
SpawnFailsAsFailure ==
    /\ pc = "start"
    /\ ValidRequest
    /\ Return("waitError", "none")
    /\ UNCHANGED <<args, cur, output, settleBy, outputBy, armed, reapedAt,
                   lateSignals, now, childVars, pipeVars, readerVars, unseen>>

(* The program does not exist, may not be executed, or fork fails: each is  *)
(* an error of the configuration.                                           *)
SpawnFails ==
    /\ pc = "start"
    /\ ValidRequest
    /\ Return("invalid", "none")
    /\ UNCHANGED <<args, cur, output, settleBy, outputBy, armed, reapedAt,
                   lateSignals, now, childVars, pipeVars, readerVars, unseen>>

(* Spawn the command, its group cleanup and a reader per captured stream. *)
Spawn ==
    /\ pc = "start"
    /\ ValidRequest
    /\ pc' = "spawned"
    /\ armed' = TRUE
    /\ proc' = [proc EXCEPT ![Leader] = "member"]
    /\ holders' = [s \in Streams |-> IF Captured(s) THEN {Leader} ELSE {}]
    /\ task' = [s \in Streams |-> IF Captured(s) THEN "running" ELSE "none"]
    /\ found' = [s \in Streams |-> NewMatcher(Needles(s))]
    /\ UNCHANGED <<args, cur, verdict, blamed, output, settleBy, outputBy,
                   reapedAt, lateSignals, now, status, atExit, pipe,
                   delivered, out, progress, unseen>>

(* deadline_after, called once the command is running. *)
Deadline ==
    /\ pc = "spawned"
    /\ args.deadlineFits
    /\ pc' = "wait"
    /\ UNCHANGED <<args, cur, verdict, blamed, output, settleBy, outputBy,
                   armed, reapedAt, lateSignals, now, childVars, pipeVars,
                   readerVars, unseen>>

(* The addition overflows: run() returns, and dropping the cleanup and the  *)
(* child kills what was started.  The reader tasks are left detached.       *)
DeadlineOverflows ==
    /\ pc = "spawned"
    /\ ~args.deadlineFits
    /\ TerminateChild
    /\ Return("invalid", "none")
    /\ UNCHANGED <<args, cur, output, settleBy, outputBy, reapedAt, now,
                   status, atExit, pipeVars, readerVars, unseen>>

(* child.wait() returns: the leader is reaped. *)
WaitReady ==
    /\ pc = "wait"
    /\ proc[Leader] = "zombie"
    /\ proc' = [proc EXCEPT ![Leader] = "gone"]
    /\ pc' = "reaped"
    /\ reapedAt' = now
    /\ UNCHANGED <<args, cur, verdict, blamed, output, settleBy, outputBy,
                   armed, lateSignals, now, status, atExit, pipeVars,
                   readerVars, unseen>>

WaitFails ==
    /\ pc = "wait"
    /\ TerminateChild
    /\ task' = Aborted(Streams)
    /\ Return("waitError", "none")
    /\ UNCHANGED <<args, cur, output, settleBy, outputBy, reapedAt, now,
                   status, atExit, pipeVars, found, out, progress, unseen>>

(* The deadline passes first.  The reaper task spawned here never runs      *)
(* before the process exits.                                                *)
WaitTimesOut ==
    /\ pc = "wait"
    /\ now >= Timeout
    /\ Prompt => proc[Leader] # "zombie"
    /\ TerminateChild
    /\ task' = Aborted(Streams)
    /\ Return("timeout", "none")
    /\ UNCHANGED <<args, cur, output, settleBy, outputBy, reapedAt, now,
                   status, atExit, pipeVars, found, out, progress, unseen>>

(* Mutated: the grace is not capped by the deadline; there is no grace. *)
OutputDeadlineUncapped == now + MaxGrace
OutputDeadlineAtOnce   == now

OutputDeadline == Least(now + MaxGrace, Timeout)

(* Mutated: any exit code will do. *)
AcceptAnyCode ==
    /\ pc = "reaped"
    /\ status # Signalled
    /\ Terminate
    /\ pc' = "collect"
    /\ outputBy' = OutputDeadline
    /\ UNCHANGED <<args, cur, verdict, blamed, output, settleBy, reapedAt,
                   now, status, atExit, pipeVars, readerVars, unseen>>

(* The same poll goes on: terminate() kills the rest of the group and the   *)
(* exit code is judged before any output.                                   *)
AcceptCode ==
    /\ pc = "reaped"
    /\ status \in SuccessCodes
    /\ Terminate
    /\ pc' = "collect"
    /\ outputBy' = OutputDeadline
    /\ UNCHANGED <<args, cur, verdict, blamed, output, settleBy, reapedAt,
                   now, status, atExit, pipeVars, readerVars, unseen>>

RefuseCode ==
    /\ pc = "reaped"
    /\ status \notin SuccessCodes
    /\ Terminate
    /\ task' = Aborted(Streams)
    /\ Return(IF status = Signalled THEN "signal" ELSE "code", "none")
    /\ UNCHANGED <<args, cur, output, settleBy, outputBy, reapedAt, now,
                   status, atExit, pipeVars, found, out, progress, unseen>>

-----------------------------------------------------------------------------
(* await_output_task, for stdout and then for stderr *)

(* It returns an output: run() goes on to stderr, or to the final check.    *)
Collected(s, result) ==
    /\ output' = [output EXCEPT ![s] = result]
    /\ cur' = "stderr"
    /\ IF s = "stdout"
         THEN pc' = "collect" /\ outputBy' = OutputDeadline
         ELSE pc' = "judge" /\ UNCHANGED outputBy
    /\ UNCHANGED <<verdict, blamed, settleBy, armed, proc, lateSignals>>

(* It returns an error: the other task is aborted and run() returns.        *)
CollectFails(s, v) ==
    /\ Return(v, s)
    /\ Terminate
    /\ task' = IF s = "stdout" THEN Aborted({"stderr"}) ELSE task
    /\ UNCHANGED <<cur, output, settleBy, outputBy>>

(* Abort the reader and go on with a snapshot of the shared state.          *)
TakeSnapshot(s) ==
    /\ task' = Aborted({s})
    /\ Collected(s, out[s])

(* finish_output_task: joining an aborted task is a JoinError.              *)
Join(s) ==
    \/ task[s] = "finished" /\ Collected(s, out[s]) /\ UNCHANGED task
    \/ /\ task[s] \in {"failed", "aborted"}
       /\ CollectFails(s, IF task[s] = "failed" THEN "readError"
                          ELSE "internal")

CollectUnchanged == UNCHANGED <<args, reapedAt, now, status, atExit, pipeVars,
                                found, out, progress>>

CollectNothing(s) ==
    /\ pc = "collect" /\ cur = s
    /\ ~Captured(s)
    /\ Collected(s, NoOutput)
    /\ UNCHANGED <<task, unseen>> /\ CollectUnchanged

CollectFinished(s) ==
    /\ pc = "collect" /\ cur = s
    /\ Captured(s)
    /\ Join(s)
    /\ UNCHANGED unseen /\ CollectUnchanged

CollectDecided(s) ==
    /\ pc = "collect" /\ cur = s
    /\ task[s] = "running"
    /\ progress[s].matched \/ progress[s].incomplete
    /\ TakeSnapshot(s)
    /\ UNCHANGED unseen /\ CollectUnchanged

(* wait_for_output_eof_after_limit or wait_for_output_idle_after_exit. *)
Grace(s) == IF progress[s].limitReached THEN EofGrace ELSE IdleGrace

(* Mutated: each new output earns a new grace. *)
SettleLimitUnbounded(s) == Timeout

SettleLimit(s) == IF progress[s].limitReached THEN Timeout ELSE outputBy

Undecided(s) ==
    /\ pc = "collect" /\ cur = s
    /\ task[s] = "running"
    /\ ~progress[s].matched
    /\ ~progress[s].incomplete

(* No time is left for a grace. *)
CollectOutOfTime(s) ==
    /\ Undecided(s)
    /\ SettleLimit(s) <= now
    /\ TakeSnapshot(s)
    /\ UNCHANGED unseen /\ CollectUnchanged

(* Mutated: the version is read and not marked as seen. *)
CollectStaleForever(s) ==
    /\ Undecided(s)
    /\ SettleLimit(s) > now
    /\ unseen[s]
    /\ UNCHANGED vars

(* changed() is ready at once for a version published earlier. *)
CollectStale(s) ==
    /\ Undecided(s)
    /\ SettleLimit(s) > now
    /\ unseen[s]
    /\ unseen' = [unseen EXCEPT ![s] = FALSE]
    /\ UNCHANGED <<pc, cur, verdict, blamed, output, settleBy, outputBy, armed,
                   lateSignals, proc, task>>
    /\ CollectUnchanged

BeginSettle(s) ==
    /\ Undecided(s)
    /\ SettleLimit(s) > now
    /\ ~unseen[s]
    /\ pc' = "settle"
    /\ settleBy' = Least(now + Grace(s), SettleLimit(s))
    /\ UNCHANGED <<cur, verdict, blamed, output, outputBy, armed, lateSignals,
                   proc, task, unseen>>
    /\ CollectUnchanged

SettleJoined(s) ==
    /\ pc = "settle" /\ cur = s
    /\ Join(s)
    /\ UNCHANGED unseen /\ CollectUnchanged

SettleChanged(s) ==
    /\ pc = "settle" /\ cur = s
    /\ unseen[s]
    /\ unseen' = [unseen EXCEPT ![s] = FALSE]
    /\ pc' = "collect"
    /\ UNCHANGED <<cur, verdict, blamed, output, settleBy, outputBy, armed,
                   lateSignals, proc, task>>
    /\ CollectUnchanged

SettleTimesOut(s) ==
    /\ pc = "settle" /\ cur = s
    /\ now >= settleBy
    /\ TakeSnapshot(s)
    /\ UNCHANGED unseen /\ CollectUnchanged

(* The needle checks, stdout first. *)
Lacking(s) == MissingNeedles(Needles(s), output[s]) # {}

(* Mutated: what became of stdout explains what stderr lacks. *)
JudgeByStdout ==
    /\ pc = "judge"
    /\ \/ \E s \in Streams : Lacking(s) /\ Return(WhyMissing(output["stdout"]), s)
       \/ /\ \A s \in Streams : ~Lacking(s)
          /\ Return("healthy", "none")
    /\ Terminate
    /\ UNCHANGED <<args, cur, output, settleBy, outputBy, reapedAt, now,
                   status, atExit, pipeVars, readerVars, unseen>>

Judge ==
    /\ pc = "judge"
    /\ \/ Lacking("stdout") /\ Return(WhyMissing(output["stdout"]), "stdout")
       \/ /\ ~Lacking("stdout") /\ Lacking("stderr")
          /\ Return(WhyMissing(output["stderr"]), "stderr")
       \/ /\ ~Lacking("stdout") /\ ~Lacking("stderr")
          /\ Return("healthy", "none")
    /\ Terminate
    /\ UNCHANGED <<args, cur, output, settleBy, outputBy, reapedAt, now,
                   status, atExit, pipeVars, readerVars, unseen>>

-----------------------------------------------------------------------------
(* The reader tasks, read_limited_with_snapshots *)

Scheduled(s) == pc \in {"wait", "settle"} /\ task[s] = "running"

Publish(s, o) ==
    /\ out' = [out EXCEPT ![s] = o]
    /\ progress' = [progress EXCEPT ![s] = ProgressOf(o)]
    /\ unseen' = [unseen EXCEPT ![s] = TRUE]

ReadChunk(s) ==
    /\ Scheduled(s)
    /\ pipe[s] # <<>>
    /\ LET n     == Least(ReadSize, Len(pipe[s]))
           chunk == SubSeq(pipe[s], 1, n)
       IN  /\ pipe' = [pipe EXCEPT ![s] = Suffix(@, n)]
           /\ delivered' = [delivered EXCEPT ![s] = @ \o chunk]
           /\ found' = [found EXCEPT ![s] =
                          FoundAfter(Needles(s), @, out[s], chunk, args.limit)]
           /\ Publish(s, Absorb(Needles(s), found[s], out[s], chunk,
                                args.limit))
    /\ UNCHANGED <<mainVars, now, childVars, holders, task>>

(* Mutated: the reader stops, and closes the pipe, once all is matched. *)
ReadUntilMatch(s) ==
    /\ Scheduled(s)
    /\ pipe[s] = <<>>
    /\ holders[s] = {} \/ out[s].matched
    /\ Publish(s, [out[s] EXCEPT !.complete = TRUE])
    /\ task' = [task EXCEPT ![s] = "finished"]
    /\ UNCHANGED <<mainVars, now, childVars, pipeVars, found>>

ReadEof(s) ==
    /\ Scheduled(s)
    /\ pipe[s] = <<>>
    /\ holders[s] = {}
    /\ Publish(s, [out[s] EXCEPT !.complete = TRUE])
    /\ task' = [task EXCEPT ![s] = "finished"]
    /\ UNCHANGED <<mainVars, now, childVars, pipeVars, found>>

ReadFails(s) ==
    /\ Scheduled(s)
    /\ task' = [task EXCEPT ![s] = "failed"]
    /\ UNCHANGED <<mainVars, now, childVars, pipeVars, found, out, progress,
                   unseen>>

-----------------------------------------------------------------------------
(* The command, its descendants and the kernel *)

Release(p) == holders' = [s \in Streams |-> holders[s] \ {p}]

(* The leader becomes a zombie; a descendant is reaped by its own parent. *)
Ends(p, st) ==
    /\ Release(p)
    /\ proc' = [proc EXCEPT ![p] = IF p = Leader THEN "zombie" ELSE "gone"]
    /\ IF p = Leader
         THEN /\ status' = st
              /\ atExit' = [s \in Streams |-> Len(Written(s))]
         ELSE UNCHANGED <<status, atExit>>
    /\ UNCHANGED <<mainVars, now, pipe, delivered, readerVars, unseen>>

Running == pc \notin {"start", "done"}

Write(p, s, b) ==
    /\ Running /\ Alive(p)
    /\ p \in holders[s]
    /\ task[s] = "running"
    /\ Len(pipe[s]) < PipeSize
    /\ Len(Written(s)) < args.limit + Beyond
    /\ pipe' = [pipe EXCEPT ![s] = Append(@, b)]
    /\ UNCHANGED <<mainVars, now, childVars, holders, delivered, readerVars,
                   unseen>>

(* A child inherits the process group and the pipes. *)
Fork(p, d) ==
    /\ Running /\ Alive(p)
    /\ proc[d] = "unborn"
    /\ proc' = [proc EXCEPT ![d] = proc[p]]
    /\ holders' = [s \in Streams |-> IF p \in holders[s]
                                     THEN holders[s] \cup {d} ELSE holders[s]]
    /\ UNCHANGED <<mainVars, now, status, atExit, pipe, delivered, readerVars,
                   unseen>>

(* setsid or setpgid by a descendant that daemonizes. *)
LeaveGroup(d) ==
    /\ Running
    /\ proc[d] = "member"
    /\ proc' = [proc EXCEPT ![d] = "away"]
    /\ UNCHANGED <<mainVars, now, status, atExit, pipeVars, readerVars, unseen>>

CloseStream(p, s) ==
    /\ Running /\ Alive(p)
    /\ p \in holders[s]
    /\ holders' = [holders EXCEPT ![s] = @ \ {p}]
    /\ UNCHANGED <<mainVars, now, childVars, pipe, delivered, readerVars,
                   unseen>>

Exit(p) ==
    /\ Running /\ Alive(p)
    /\ \E st \in Codes \cup {Signalled} : Ends(p, st)

(* SIGKILL takes effect; until then the process keeps its pipes open. *)
Die(p) ==
    /\ Running
    /\ proc[p] = "dying"
    /\ Ends(p, Signalled)

(* The clock.  It advances only while the probe's future is suspended and   *)
(* its timer has not fired; under Prompt also only when nothing is          *)
(* runnable.                                                               *)
ReaderReady(s) == Scheduled(s) /\ (pipe[s] # <<>> \/ holders[s] = {})

Quiescent ==
    /\ \A s \in Streams : ~ReaderReady(s)
    /\ \A p \in Procs : proc[p] # "dying"
    /\ pc = "wait" => proc[Leader] # "zombie"
    /\ pc = "settle" => ~unseen[cur] /\ task[cur] = "running"

Tick ==
    /\ \/ pc = "wait" /\ now < Timeout
       \/ pc = "settle" /\ now < settleBy
    /\ Prompt => Quiescent
    /\ now' = now + 1
    /\ UNCHANGED <<mainVars, childVars, pipeVars, readerVars, unseen>>

(* The program has exited; what goes on outside is of no concern. *)
Terminated == pc = "done" /\ UNCHANGED vars

-----------------------------------------------------------------------------
Collect(s) ==
    \/ CollectNothing(s)  \/ CollectFinished(s) \/ CollectDecided(s)
    \/ CollectOutOfTime(s) \/ CollectStale(s)   \/ BeginSettle(s)
    \/ SettleJoined(s)    \/ SettleChanged(s)   \/ SettleTimesOut(s)

MainStep ==
    \/ Reject \/ Spawn \/ Deadline \/ DeadlineOverflows
    \/ WaitReady \/ WaitTimesOut \/ AcceptCode \/ RefuseCode
    \/ \E s \in Streams : Collect(s)
    \/ Judge

ReaderStep(s) == ReadChunk(s) \/ ReadEof(s)

(* What the operating system may refuse. *)
Failure == SpawnFails \/ WaitFails \/ \E s \in Streams : ReadFails(s)

ProcessStep(p) ==
    \/ \E s \in Streams : CloseStream(p, s) \/ \E b \in Bytes : Write(p, s, b)
    \/ \E d \in Descendants : Fork(p, d)
    \/ p \in Descendants /\ LeaveGroup(p)
    \/ Exit(p)
    \/ Die(p)

Next ==
    \/ MainStep
    \/ \E s \in Streams : ReaderStep(s)
    \/ Failure
    \/ \E p \in Procs : ProcessStep(p)
    \/ Tick
    \/ Terminated

Spec == Init /\ [][Next]_vars

(* The runtime polls a task that was woken, the clock goes on, and a killed *)
(* process dies.  Nothing is assumed of the command: it may run for ever.   *)
Fairness ==
    /\ WF_vars(MainStep)
    /\ WF_vars(Tick)
    /\ \A s \in Streams : WF_vars(ReaderStep(s))
    /\ \A p \in Procs : WF_vars(Die(p))

FairSpec == Spec /\ Fairness
=============================================================================
