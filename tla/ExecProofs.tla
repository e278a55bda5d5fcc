----------------------------- MODULE ExecProofs -----------------------------
(***************************************************************************)
(* Proofs that the exec probe keeps its promises, for every request, every  *)
(* set of processes and bytes, and every timeout, grace and buffer size.    *)
(***************************************************************************)
EXTENDS ExecInvariant, CaptureProofs

USE DEF Streams, Leader

-----------------------------------------------------------------------------
(* Types of the capture operations. *)

LEMMA RequestFields ==
    ASSUME TypeOK
    PROVE  /\ args.limit \in Nat
           /\ args.deadlineFits \in BOOLEAN
           /\ args.codes \in SUBSET Int
           /\ \A s \in Streams : Needles(s) \in SUBSET Seq(Bytes)
BY RequestAssumption DEF TypeOK, RequestType, Needles

LEMMA EmptyType ==
    /\ NoOutput \in OutputType
    /\ ProgressOf(NoOutput) \in ProgressType
    /\ <<>> \in Seq(Bytes)
<1>1. <<>> \in Seq(Bytes)
  BY EmptySeq
<1>2. QED
  BY <1>1 DEF NoOutput, OutputType, EmptyBuffer, ProgressOf, ProgressType

LEMMA ProgressHasType ==
    ASSUME NEW o \in OutputType
    PROVE  ProgressOf(o) \in ProgressType
BY DEF OutputType, ProgressOf, ProgressType

(* One read moves a prefix of the pipe to the reader. *)
LEMMA ChunkProperties ==
    ASSUME NEW p \in Seq(Bytes), NEW n, n = Least(ReadSize, Len(p))
    PROVE  /\ n \in Nat
           /\ SubSeq(p, 1, n) \in Seq(Bytes)
           /\ Suffix(p, n) \in Seq(Bytes)
<1>1. ReadSize \in Nat /\ Len(p) \in Nat
  BY SizeAssumption, LenProperties
<1>2. n \in Nat /\ n <= Len(p)
  BY <1>1 DEF Least
<1>3. QED
  BY <1>2, Prefix, SuffixProperties

LEMMA AbsorbHasType ==
    ASSUME NEW needles \in SUBSET Seq(Bytes),
           NEW matched \in SUBSET Seq(Bytes),
           NEW o \in OutputType, NEW chunk \in Seq(Bytes), NEW limit \in Nat
    PROVE  /\ Absorb(needles, matched, o, chunk, limit) \in OutputType
           /\ FoundAfter(needles, matched, o, chunk, limit)
                 \in SUBSET Seq(Bytes)
<1> DEFINE room == SaturatingSub(limit, Len(o.content.bytes))
           take == Least(Len(chunk), room)
<1>1. o.content.bytes \in Seq(Bytes) /\ o.content.incomplete \in BOOLEAN
  BY DEF OutputType
<1>2. Len(chunk) \in Nat /\ Len(o.content.bytes) \in Nat
  BY <1>1, LenProperties
<1>3. take \in Nat /\ take <= Len(chunk)
  BY <1>2 DEF SaturatingSub, Least
<1>4. SubSeq(chunk, 1, take) \in Seq(Bytes)
  BY <1>3, Prefix
<1>5. o.content.bytes \o SubSeq(chunk, 1, take) \in Seq(Bytes)
  BY <1>1, <1>4, ConcatProperties
<1>6. AppendLimited(o.content, chunk, limit)
         \in [bytes : Seq(Bytes), incomplete : BOOLEAN]
  BY <1>1, <1>5 DEF AppendLimited
<1>7. FoundAfter(needles, matched, o, chunk, limit) \in SUBSET Seq(Bytes)
  BY DEF FoundAfter, ObserveAppended
<1>8. QED
  BY <1>6, <1>7 DEF Absorb, OutputType

-----------------------------------------------------------------------------
(* TypeOK is an invariant. *)
TaskStates == {"none", "running", "finished", "failed", "aborted"}
ProcStates == {"unborn", "member", "away", "dying", "zombie", "gone"}

LEMMA UpdatesHaveType ==
    ASSUME TypeOK, NEW ss, NEW ps
    PROVE  /\ Aborted(ss) \in [Streams -> TaskStates]
           /\ Kill(ps) \in [Procs -> ProcStates]
<1>1. Aborted(ss) \in [Streams -> TaskStates]
  BY DEF TypeOK, Aborted, TaskStates
<1>2. Kill(ps) \in [Procs -> ProcStates]
  BY DEF TypeOK, Kill, ProcStates
<1>3. QED
  BY <1>1, <1>2

LEMMA TerminateHasType ==
    ASSUME TypeOK, Terminate
    PROVE  /\ proc' \in [Procs -> ProcStates]
           /\ lateSignals' \in Nat
           /\ armed' \in BOOLEAN
<1>1. Kill(Members) \in [Procs -> ProcStates]
  BY UpdatesHaveType
<1>2. proc \in [Procs -> ProcStates] /\ lateSignals \in Nat
      /\ armed \in BOOLEAN
  BY DEF TypeOK, ProcStates
<1>3. lateSignals + 1 \in Nat
  BY <1>2
<1>4. proc' = Kill(Members) \/ proc' = proc
  BY Zenon DEF Terminate
<1>5. lateSignals' = lateSignals + 1 \/ lateSignals' = lateSignals
  BY Zenon DEF Terminate
<1>6. armed' = FALSE
  BY DEF Terminate
<1>7. QED
  BY <1>1, <1>2, <1>3, <1>4, <1>5, <1>6

LEMMA TypeInit == Init => TypeOK
<1> SUFFICES ASSUME Init  PROVE TypeOK
  OBVIOUS
<1>1. /\ output \in [Streams -> OutputType] /\ out \in [Streams -> OutputType]
      /\ progress \in [Streams -> ProgressType]
      /\ pipe \in [Streams -> Seq(Bytes)]
      /\ delivered \in [Streams -> Seq(Bytes)]
      /\ found \in [Streams -> SUBSET Seq(Bytes)]
  BY EmptyType DEF Init
<1>2. status \in Codes \cup {NoStatus, Signalled} /\ verdict \in Verdicts
  BY DEF Init, Verdicts
<1>3. /\ proc \in [Procs -> {"unborn", "member", "away", "dying", "zombie",
                              "gone"}]
      /\ holders \in [Streams -> SUBSET Procs]
      /\ task \in [Streams -> {"none", "running", "finished", "failed",
                                "aborted"}]
      /\ atExit \in [Streams -> Nat]
      /\ unseen \in [Streams -> BOOLEAN]
  BY DEF Init
<1>4. QED
  BY <1>1, <1>2, <1>3 DEF Init, TypeOK

LEMMA TypeStep == TypeOK /\ [Next]_vars => TypeOK'
<1> SUFFICES ASSUME TypeOK, [Next]_vars
             PROVE  TypeOK'
  OBVIOUS
<1>1. CASE Reject
  BY <1>1 DEF TypeOK, Reject, Return, Verdicts, childVars, pipeVars, readerVars
<1>2. CASE SpawnFails
  BY <1>2 DEF TypeOK, SpawnFails, Return, Verdicts, childVars, pipeVars, readerVars
<1>3. CASE Spawn
  <2>1. \A s \in Streams : NewMatcher(Needles(s)) \in SUBSET Seq(Bytes)
    BY RequestFields DEF NewMatcher
  <2>2. QED
    BY <1>3, <2>1, ProcAssumption DEF TypeOK, Spawn, Procs
<1>4. CASE Deadline
  BY <1>4 DEF TypeOK, Deadline, childVars, pipeVars, readerVars
<1>5. CASE DeadlineOverflows
  BY <1>5 DEF TypeOK, DeadlineOverflows, Return, Verdicts, TerminateChild, Kill, Procs, pipeVars, readerVars
<1>6. CASE WaitReady
  BY <1>6 DEF TypeOK, WaitReady, pipeVars, readerVars, Procs
<1>7. CASE WaitFails
  <2>1. task' \in [Streams -> TaskStates] /\ proc' \in [Procs -> ProcStates]
    BY <1>7, UpdatesHaveType DEF TypeOK, WaitFails, TerminateChild, ProcStates
  <2>2. QED
    BY <1>7, <2>1 DEF TypeOK, WaitFails, Return, Verdicts, TerminateChild,
                      TaskStates, ProcStates, pipeVars
<1>8. CASE WaitTimesOut
  <2>1. task' \in [Streams -> TaskStates] /\ proc' \in [Procs -> ProcStates]
    BY <1>8, UpdatesHaveType DEF TypeOK, WaitTimesOut, TerminateChild, ProcStates
  <2>2. QED
    BY <1>8, <2>1 DEF TypeOK, WaitTimesOut, Return, Verdicts, TerminateChild,
                      TaskStates, ProcStates, pipeVars
<1>9. CASE AcceptCode
  <2>1. Terminate
    BY <1>9 DEF AcceptCode
  <2>2. OutputDeadline \in Nat
    BY TimeAssumption DEF TypeOK, OutputDeadline, Least
  <2>3. QED
    BY <1>9, <2>1, <2>2, TerminateHasType
       DEF TypeOK, AcceptCode, ProcStates, pipeVars, readerVars
<1>10. CASE RefuseCode
  <2>1. Terminate
    BY <1>10 DEF RefuseCode
  <2>2. QED
    BY <1>10, <2>1, TerminateHasType, UpdatesHaveType
       DEF TypeOK, RefuseCode, Return, Verdicts, TaskStates, ProcStates,
           pipeVars
<1>11. CASE Judge
  <2>1. Terminate
    BY <1>11 DEF Judge
  <2>2. QED
    BY <1>11, <2>1, TerminateHasType
       DEF TypeOK, Judge, Return, Verdicts, WhyMissing, ProcStates, pipeVars,
           readerVars
<1>12. CASE Tick
  BY <1>12 DEF TypeOK, Tick, mainVars, childVars, pipeVars, readerVars
<1>13. CASE Terminated \/ UNCHANGED vars
  BY <1>13 DEF TypeOK, Terminated, vars, mainVars, childVars, pipeVars,
               readerVars
<1>14. ASSUME NEW s \in Streams, Collect(s)
       PROVE  TypeOK'
  <2> USE DEF CollectUnchanged, pipeVars, Return, Verdicts
  <2>1. ASSUME NEW result \in OutputType, Collected(s, result),
               CollectUnchanged, unseen' \in [Streams -> BOOLEAN],
               task' \in [Streams -> {"none", "running", "finished", "failed",
                                     "aborted"}]
        PROVE  TypeOK'
    BY <2>1, TimeAssumption DEF TypeOK, Collected, OutputDeadline, Least
  <2>2. out[s] \in OutputType /\ NoOutput \in OutputType
    BY EmptyType DEF TypeOK
  <2>3. Aborted({s}) \in [Streams -> TaskStates]
    BY UpdatesHaveType
  <2>4. ASSUME Join(s), UNCHANGED unseen, CollectUnchanged
        PROVE  TypeOK'
    <3>1. CASE Collected(s, out[s]) /\ UNCHANGED task
      BY <3>1, <2>1, <2>2, <2>4 DEF TypeOK
    <3>2. ASSUME NEW v \in {"readError", "internal"}, CollectFails(s, v)
          PROVE  TypeOK'
      <4>1. Terminate
        BY <3>2 DEF CollectFails
      <4>2. task' \in [Streams -> TaskStates]
        BY <3>2, UpdatesHaveType DEF TypeOK, CollectFails, TaskStates
      <4>3. QED
        BY <3>2, <2>4, <4>1, <4>2, TerminateHasType
           DEF TypeOK, CollectFails, TaskStates, ProcStates
    <3>3. QED
      BY <2>4, <3>1, <3>2 DEF Join
  <2>5. CASE CollectNothing(s)
    BY <2>5, <2>1, <2>2 DEF CollectNothing, TypeOK
  <2>6. CASE CollectFinished(s)
    BY <2>6, <2>4 DEF CollectFinished
  <2>7. ASSUME TakeSnapshot(s), UNCHANGED unseen, CollectUnchanged
        PROVE  TypeOK'
    BY <2>7, <2>1, <2>2, <2>3 DEF TakeSnapshot, TypeOK, TaskStates
  <2>8. CASE CollectDecided(s)
    BY <2>8, <2>7 DEF CollectDecided
  <2>9. CASE CollectOutOfTime(s)
    BY <2>9, <2>7 DEF CollectOutOfTime
  <2>10. CASE CollectStale(s)
    BY <2>10 DEF CollectStale, TypeOK
  <2>11. CASE BeginSettle(s)
    <3>1. settleBy' \in Nat
      BY <2>11, TimeAssumption
         DEF BeginSettle, TypeOK, Grace, SettleLimit, Least
    <3>2. QED
      BY <2>11, <3>1 DEF BeginSettle, TypeOK
  <2>12. CASE SettleJoined(s)
    BY <2>12, <2>4 DEF SettleJoined
  <2>13. CASE SettleChanged(s)
    BY <2>13 DEF SettleChanged, TypeOK
  <2>14. CASE SettleTimesOut(s)
    BY <2>14, <2>7 DEF SettleTimesOut
  <2>15. QED
    BY <1>14, <2>5, <2>6, <2>8, <2>9, <2>10, <2>11, <2>12, <2>13, <2>14
       DEF Collect
<1>15. ASSUME NEW s \in Streams, ReaderStep(s) \/ ReadFails(s)
       PROVE  TypeOK'
  <2> USE DEF mainVars, childVars, pipeVars, readerVars, Publish
  <2>1. CASE ReadChunk(s)
    <3> DEFINE n     == Least(ReadSize, Len(pipe[s]))
               chunk == SubSeq(pipe[s], 1, n)
               o     == Absorb(Needles(s), found[s], out[s], chunk, args.limit)
               f     == FoundAfter(Needles(s), found[s], out[s], chunk,
                                   args.limit)
    <3>1. chunk \in Seq(Bytes) /\ Suffix(pipe[s], n) \in Seq(Bytes)
      BY ChunkProperties DEF TypeOK
    <3>2. delivered[s] \o chunk \in Seq(Bytes)
      BY <3>1, ConcatProperties DEF TypeOK
    <3>3. o \in OutputType /\ f \in SUBSET Seq(Bytes)
      BY <3>1, RequestFields, AbsorbHasType DEF TypeOK
    <3>4. ProgressOf(o) \in ProgressType
      BY <3>3, ProgressHasType
    <3> HIDE DEF n, chunk, o, f
    <3>5. /\ pipe' = [pipe EXCEPT ![s] = Suffix(pipe[s], n)]
          /\ delivered' = [delivered EXCEPT ![s] = delivered[s] \o chunk]
          /\ found' = [found EXCEPT ![s] = f]
          /\ out' = [out EXCEPT ![s] = o]
          /\ progress' = [progress EXCEPT ![s] = ProgressOf(o)]
          /\ unseen' = [unseen EXCEPT ![s] = TRUE]
          /\ UNCHANGED <<mainVars, now, childVars, holders, task>>
      BY <2>1 DEF ReadChunk, n, chunk, o, f
    <3>6. QED
      BY <3>1, <3>2, <3>3, <3>4, <3>5 DEF TypeOK
  <2>2. CASE ReadEof(s)
    <3> DEFINE o == [out[s] EXCEPT !.complete = TRUE]
    <3>1. o \in OutputType
      BY ZenonT(60) DEF TypeOK, OutputType
    <3>2. ProgressOf(o) \in ProgressType
      BY <3>1, ProgressHasType
    <3>3. QED
      BY <2>2, <3>1, <3>2 DEF TypeOK, ReadEof
  <2>3. CASE ReadFails(s)
    BY <2>3 DEF TypeOK, ReadFails
  <2>4. QED
    BY <1>15, <2>1, <2>2, <2>3 DEF ReaderStep
<1>16. ASSUME NEW p \in Procs, ProcessStep(p)
       PROVE  TypeOK'
  <2> USE DEF mainVars, childVars, pipeVars, readerVars
  <2>1. ASSUME NEW st \in Codes \cup {Signalled}, Ends(p, st)
        PROVE  TypeOK'
    <3>1. \A s \in Streams : Written(s) \in Seq(Bytes)
      BY ConcatProperties DEF TypeOK, Written
    <3>2. \A s \in Streams : Len(Written(s)) \in Nat
      BY <3>1, LenProperties
    <3>3. QED
      BY <2>1, <3>2 DEF TypeOK, Ends, Release
  <2>2. ASSUME NEW s \in Streams, NEW b \in Bytes, Write(p, s, b)
        PROVE  TypeOK'
    <3>1. Append(pipe[s], b) \in Seq(Bytes)
      BY AppendProperties DEF TypeOK
    <3>2. QED
      BY <2>2, <3>1 DEF TypeOK, Write
  <2>3. ASSUME NEW s \in Streams, CloseStream(p, s)
        PROVE  TypeOK'
    BY <2>3 DEF TypeOK, CloseStream
  <2>4. ASSUME NEW d \in Descendants, Fork(p, d)
        PROVE  TypeOK'
    BY <2>4 DEF TypeOK, Fork, Alive, Procs
  <2>5. CASE p \in Descendants /\ LeaveGroup(p)
    BY <2>5 DEF TypeOK, LeaveGroup
  <2>6. CASE Exit(p)
    BY <2>6, <2>1 DEF Exit
  <2>7. CASE Die(p)
    BY <2>7, <2>1 DEF Die
  <2>8. QED
    BY <1>16, <2>2, <2>3, <2>4, <2>5, <2>6, <2>7 DEF ProcessStep
<1>17. QED
  BY <1>1, <1>2, <1>3, <1>4, <1>5, <1>6, <1>7, <1>8, <1>9, <1>10, <1>11,
     <1>12, <1>13, <1>14, <1>15, <1>16 DEF Next, MainStep, Failure

(* Every variable of the exec probe keeps its type. *)
THEOREM TypeCorrect == Spec => []TypeOK
BY TypeInit, TypeStep, PTL DEF Spec

-----------------------------------------------------------------------------
(* The request never changes, nor does what is derived from it. *)
LEMMA ArgsNeverChange ==
    ASSUME [Next]_vars
    PROVE  args' = args
<1>1. ASSUME NEW s \in Streams, Collect(s)  PROVE args' = args
  <2> USE DEF CollectUnchanged
  <2>1. CASE CollectNothing(s)    BY <2>1 DEF CollectNothing
  <2>2. CASE CollectFinished(s)   BY <2>2 DEF CollectFinished
  <2>3. CASE CollectDecided(s)    BY <2>3 DEF CollectDecided
  <2>4. CASE CollectOutOfTime(s)  BY <2>4 DEF CollectOutOfTime
  <2>5. CASE CollectStale(s)      BY <2>5 DEF CollectStale
  <2>6. CASE BeginSettle(s)       BY <2>6 DEF BeginSettle
  <2>7. CASE SettleJoined(s)      BY <2>7 DEF SettleJoined
  <2>8. CASE SettleChanged(s)     BY <2>8 DEF SettleChanged
  <2>9. CASE SettleTimesOut(s)    BY <2>9 DEF SettleTimesOut
  <2>10. QED
    BY <1>1, <2>1, <2>2, <2>3, <2>4, <2>5, <2>6, <2>7, <2>8, <2>9 DEF Collect
<1>2. CASE Reject             BY <1>2 DEF Reject
<1>3. CASE Spawn              BY <1>3 DEF Spawn
<1>4. CASE Deadline           BY <1>4 DEF Deadline
<1>5. CASE DeadlineOverflows  BY <1>5 DEF DeadlineOverflows
<1>6. CASE WaitReady          BY <1>6 DEF WaitReady
<1>7. CASE WaitTimesOut       BY <1>7 DEF WaitTimesOut
<1>8. CASE AcceptCode         BY <1>8 DEF AcceptCode
<1>9. CASE RefuseCode         BY <1>9 DEF RefuseCode
<1>10. CASE Judge             BY <1>10 DEF Judge
<1>11. CASE SpawnFails        BY <1>11 DEF SpawnFails
<1>12. CASE WaitFails         BY <1>12 DEF WaitFails
<1>13. ASSUME NEW s \in Streams, ReaderStep(s) \/ ReadFails(s)
       PROVE  args' = args
  <2>1. CASE ReadChunk(s)  BY <2>1 DEF ReadChunk, mainVars
  <2>2. CASE ReadEof(s)    BY <2>2 DEF ReadEof, mainVars
  <2>3. CASE ReadFails(s)  BY <2>3 DEF ReadFails, mainVars
  <2>4. QED
    BY <1>13, <2>1, <2>2, <2>3 DEF ReaderStep
<1>14. ASSUME NEW p \in Procs, ProcessStep(p)  PROVE args' = args
  <2> USE DEF mainVars
  <2>1. ASSUME NEW st, Ends(p, st)  PROVE args' = args
    BY <2>1 DEF Ends
  <2>2. CASE \E s \in Streams : CloseStream(p, s)
    BY <2>2 DEF CloseStream
  <2>3. CASE \E s \in Streams : \E b \in Bytes : Write(p, s, b)
    BY <2>3 DEF Write
  <2>4. CASE \E d \in Descendants : Fork(p, d)
    BY <2>4 DEF Fork
  <2>5. CASE LeaveGroup(p)
    BY <2>5 DEF LeaveGroup
  <2>6. CASE Exit(p)
    BY <2>6, <2>1 DEF Exit
  <2>7. CASE Die(p)
    BY <2>7, <2>1 DEF Die
  <2>8. QED
    BY <1>14, <2>2, <2>3, <2>4, <2>5, <2>6, <2>7 DEF ProcessStep
<1>15. CASE Tick           BY <1>15 DEF Tick, mainVars
<1>16. CASE Terminated     BY <1>16 DEF Terminated, vars, mainVars
<1>17. CASE UNCHANGED vars BY <1>17 DEF vars, mainVars
<1>18. QED
  BY <1>1, <1>2, <1>3, <1>4, <1>5, <1>6, <1>7, <1>8, <1>9, <1>10, <1>11,
     <1>12, <1>13, <1>14, <1>15, <1>16, <1>17 DEF Next, MainStep, Failure

LEMMA RequestIsFixed ==
    ASSUME args' = args
    PROVE  /\ ValidRequest' <=> ValidRequest
           /\ SuccessCodes' = SuccessCodes
           /\ \A s \in Streams : Needles(s)' = Needles(s)
           /\ \A s \in Streams : Captured(s)' <=> Captured(s)
<1>1. ValidRequest' <=> ValidRequest
  BY DEF ValidRequest, SuccessCodes, Needles, Captured
<1>2. SuccessCodes' = SuccessCodes
  BY DEF SuccessCodes
<1>3. \A s \in Streams : Needles(s)' = Needles(s)
  BY DEF Needles
<1>4. \A s \in Streams : Captured(s)' <=> Captured(s)
  BY DEF Needles, Captured
<1>5. QED
  BY <1>1, <1>2, <1>3, <1>4

(* Killing all members of the group leaves none. *)
LEMMA KillEmptiesGroup ==
    ASSUME NEW ps, Members \subseteq ps, proc' = Kill(ps)
    PROVE  Members' = {} /\ (proc[Leader] = "gone" => proc'[Leader] = "gone")
BY DEF Members, Kill, Alive, Procs

(* terminate() disarms the cleanup and empties the group, if it was armed   *)
(* or the group was empty already.                                          *)
LEMMA TerminateEmptiesGroup ==
    ASSUME TypeOK, Terminate, armed \/ Members = {}
    PROVE  /\ armed' = FALSE
           /\ Members' = {}
           /\ proc[Leader] = "gone" => proc'[Leader] = "gone"
<1>1. armed' = FALSE
  BY DEF Terminate
<1>2. proc' = Kill(Members) \/ (~armed /\ proc' = proc)
  BY Zenon DEF Terminate
<1>3. CASE proc' = Kill(Members)
  BY <1>1, <1>3, KillEmptiesGroup
<1>4. CASE ~armed /\ proc' = proc
  <2>1. Members' = Members /\ Members = {}
    BY <1>4 DEF Members
  <2>2. QED
    BY <2>1, <1>1, <1>4
<1>5. QED
  BY <1>2, <1>3, <1>4

-----------------------------------------------------------------------------
(* Where run() stands. *)
LEMMA ControlInit == Init => ControlInv
BY DEF Init, ControlInv, Before, After

LEMMA ControlStep ==
    ASSUME TypeOK, ControlInv, [Next]_vars
    PROVE  ControlInv'
<1> USE DEF ControlInv, Before, After
<1>0. /\ args' = args
      /\ ValidRequest' <=> ValidRequest
      /\ SuccessCodes' = SuccessCodes
  BY ArgsNeverChange, RequestIsFixed
<1>1. CASE Reject \/ SpawnFails
  <2>1. pc = "start" /\ pc' = "done" /\ UNCHANGED <<armed, proc>>
    BY <1>1 DEF Reject, SpawnFails, Return, childVars
  <2>2. Members' = {}
    BY <2>1 DEF Members
  <2>3. QED
    BY <2>1, <2>2
<1>2. CASE Spawn
  BY <1>2, <1>0 DEF Spawn
<1>3. CASE Deadline
  BY <1>3, <1>0 DEF Deadline, childVars
<1>4. CASE DeadlineOverflows \/ WaitFails \/ WaitTimesOut
  <2>1. pc' = "done" /\ TerminateChild
    BY <1>4 DEF DeadlineOverflows, WaitFails, WaitTimesOut, Return
  <2>2. armed' = FALSE /\ Members' = {}
    BY <2>1, KillEmptiesGroup DEF TerminateChild
  <2>3. QED
    BY <2>1, <2>2
<1>5. CASE WaitReady
  BY <1>5, <1>0 DEF WaitReady, TypeOK, Procs
<1>6. CASE AcceptCode
  <2>1. Terminate /\ armed
    BY <1>6 DEF AcceptCode
  <2>2. armed' = FALSE /\ Members' = {} /\ proc'[Leader] = "gone"
    BY <1>6, <2>1, TerminateEmptiesGroup DEF AcceptCode
  <2>3. QED
    BY <1>6, <1>0, <2>2 DEF AcceptCode
<1>7. CASE RefuseCode
  <2>1. Terminate /\ armed /\ pc' = "done"
    BY <1>7 DEF RefuseCode, Return
  <2>2. QED
    BY <2>1, TerminateEmptiesGroup
<1>8. CASE Judge
  <2>1. Terminate /\ pc' = "done" /\ Members = {}
    BY <1>8 DEF Judge, Return
  <2>2. QED
    BY <2>1, TerminateEmptiesGroup
<1>9. ASSUME NEW s \in Streams, Collect(s)
      PROVE  ControlInv'
  <2>1. pc \in {"collect", "settle"} /\ CollectUnchanged
    BY <1>9 DEF Collect, CollectNothing, CollectFinished, CollectDecided,
                CollectOutOfTime, CollectStale, BeginSettle, SettleJoined,
                SettleChanged, SettleTimesOut, Undecided
  <2>2. status' = status
    BY <2>1 DEF CollectUnchanged
  <2>3. ASSUME pc' \in {"collect", "settle", "judge"},
               UNCHANGED <<verdict, armed, proc>>
        PROVE  ControlInv'
    <3>1. Members' = Members
      BY <2>3 DEF Members
    <3>2. QED
      BY <2>1, <2>2, <2>3, <3>1, <1>0
  <2>4. ASSUME NEW result, Collected(s, result)
        PROVE  ControlInv'
    BY <2>4, <2>3 DEF Collected
  <2>5. ASSUME NEW v, CollectFails(s, v)
        PROVE  ControlInv'
    <3>1. Terminate /\ pc' = "done" /\ Members = {}
      BY <2>5, <2>1 DEF CollectFails, Return
    <3>2. QED
      BY <3>1, TerminateEmptiesGroup
  <2>6. CASE CollectNothing(s)
    BY <2>6, <2>4 DEF CollectNothing
  <2>7. CASE CollectFinished(s) \/ SettleJoined(s)
    BY <2>7, <2>4, <2>5 DEF CollectFinished, SettleJoined, Join
  <2>8. CASE CollectDecided(s) \/ CollectOutOfTime(s) \/ SettleTimesOut(s)
    BY <2>8, <2>4
       DEF CollectDecided, CollectOutOfTime, SettleTimesOut, TakeSnapshot
  <2>9. CASE CollectStale(s)
    BY <2>9, <2>1, <2>3 DEF CollectStale
  <2>10. CASE BeginSettle(s)
    BY <2>10, <2>3 DEF BeginSettle
  <2>11. CASE SettleChanged(s)
    BY <2>11, <2>3 DEF SettleChanged
  <2>12. QED
    BY <1>9, <2>6, <2>7, <2>8, <2>9, <2>10, <2>11 DEF Collect
<1>10. CASE UNCHANGED <<mainVars, childVars>>
  BY <1>10, <1>0 DEF mainVars, childVars, Members
<1>11. ASSUME NEW s \in Streams, ReaderStep(s) \/ ReadFails(s)
       PROVE  ControlInv'
  BY <1>11, <1>10 DEF ReaderStep, ReadChunk, ReadEof, ReadFails
<1>12. ASSUME NEW p \in Procs, ProcessStep(p)
       PROVE  ControlInv'
  <2>1. UNCHANGED mainVars /\ pc \notin {"start", "done"}
    BY <1>12 DEF ProcessStep, CloseStream, Write, Fork, LeaveGroup, Exit, Die,
                 Ends, Running
  <2>2. ASSUME Members = {} => Members' = {},
               proc[Leader] = "gone" => proc'[Leader] = "gone" /\ status' = status
        PROVE  ControlInv'
    BY <2>1, <2>2, <1>0 DEF mainVars
  <2>3. ASSUME NEW st, Ends(p, st), Alive(p) \/ proc[p] = "dying"
        PROVE  ControlInv'
    <3>1. Members = {} => Members' = {}
      BY <2>3 DEF Ends, Members, TypeOK
    <3>2. proc[Leader] = "gone" => proc'[Leader] = "gone" /\ status' = status
      BY <2>3 DEF Ends, Alive, TypeOK
    <3>3. QED
      BY <2>2, <3>1, <3>2
  <2>4. CASE \E s \in Streams : CloseStream(p, s)
    BY <2>4, <1>10 DEF CloseStream
  <2>5. CASE \E s \in Streams : \E b \in Bytes : Write(p, s, b)
    BY <2>5, <1>10 DEF Write
  <2>6. ASSUME NEW d \in Descendants, Fork(p, d)
        PROVE  ControlInv'
    <3>1. Members = {} => Members' = {}
      BY <2>6 DEF Fork, Members, TypeOK
    <3>2. proc'[Leader] = proc[Leader] /\ status' = status
      BY <2>6, ProcAssumption DEF Fork, TypeOK
    <3>3. QED
      BY <2>2, <3>1, <3>2
  <2>7. CASE p \in Descendants /\ LeaveGroup(p)
    <3>1. Members = {} => Members' = {}
      BY <2>7 DEF LeaveGroup, Members, TypeOK
    <3>2. proc'[Leader] = proc[Leader] /\ status' = status
      BY <2>7, ProcAssumption DEF LeaveGroup, TypeOK
    <3>3. QED
      BY <2>2, <3>1, <3>2
  <2>8. CASE Exit(p)
    BY <2>8, <2>3 DEF Exit
  <2>9. CASE Die(p)
    BY <2>9, <2>3 DEF Die
  <2>10. QED
    BY <1>12, <2>4, <2>5, <2>6, <2>7, <2>8, <2>9 DEF ProcessStep
<1>13. CASE Tick \/ Terminated \/ UNCHANGED vars
  BY <1>13, <1>10 DEF Tick, Terminated, vars
<1>14. QED
  BY <1>1, <1>2, <1>3, <1>4, <1>5, <1>6, <1>7, <1>8, <1>9, <1>11, <1>12,
     <1>13 DEF Next, MainStep, Failure

(* Whatever way run() returns, no member of the command's process group is  *)
(* left that has not been killed.                                           *)
THEOREM GroupIsKilled == Spec => []NoStrays
<1>1. TypeOK /\ ControlInv /\ [Next]_vars => TypeOK' /\ ControlInv'
  BY TypeStep, ControlStep
<1>2. ControlInv => NoStrays
  BY DEF ControlInv, NoStrays
<1>3. QED
  BY TypeInit, ControlInit, <1>1, <1>2, PTL DEF Spec

-----------------------------------------------------------------------------
(* Once disarmed, terminate() sends nothing. *)
LEMMA SignalStep ==
    ASSUME ControlInv, [Next]_vars, lateSignals' # lateSignals
    PROVE  pc = "reaped"
<1>1. ASSUME ~armed, Terminate  PROVE lateSignals' = lateSignals
  BY <1>1, Zenon DEF Terminate
<1>2. ASSUME NEW s \in Streams, Collect(s)
      PROVE  lateSignals' = lateSignals
  <2>1. ~armed
    BY <1>2 DEF ControlInv, After, Collect, CollectNothing, CollectFinished,
                CollectDecided, CollectOutOfTime, CollectStale, BeginSettle,
                SettleJoined, SettleChanged, SettleTimesOut, Undecided
  <2>2. ASSUME Join(s)  PROVE lateSignals' = lateSignals
    BY <2>1, <2>2, <1>1 DEF Join, Collected, CollectFails
  <2>3. CASE CollectNothing(s) \/ CollectDecided(s) \/ CollectOutOfTime(s)
             \/ SettleTimesOut(s)
    BY <2>3 DEF CollectNothing, CollectDecided, CollectOutOfTime,
                SettleTimesOut, TakeSnapshot, Collected
  <2>4. CASE CollectFinished(s) \/ SettleJoined(s)
    BY <2>4, <2>2 DEF CollectFinished, SettleJoined
  <2>5. CASE CollectStale(s) \/ BeginSettle(s) \/ SettleChanged(s)
    BY <2>5 DEF CollectStale, BeginSettle, SettleChanged
  <2>6. QED
    BY <1>2, <2>3, <2>4, <2>5 DEF Collect
<1>3. CASE Judge
  BY <1>3, <1>1 DEF Judge, ControlInv, After
<1>4. CASE AcceptCode \/ RefuseCode
  BY <1>4 DEF AcceptCode, RefuseCode
<1>5. CASE Reject \/ SpawnFails \/ Spawn \/ Deadline \/ WaitReady
  BY <1>5 DEF Reject, SpawnFails, Spawn, Deadline, WaitReady
<1>6. CASE DeadlineOverflows \/ WaitFails \/ WaitTimesOut
  BY <1>6 DEF DeadlineOverflows, WaitFails, WaitTimesOut, TerminateChild
<1>7. CASE \E s \in Streams : ReaderStep(s) \/ ReadFails(s)
  BY <1>7 DEF ReaderStep, ReadChunk, ReadEof, ReadFails, mainVars
<1>8. CASE \E p \in Procs : ProcessStep(p)
  BY <1>8 DEF ProcessStep, CloseStream, Write, Fork, LeaveGroup, Exit, Die,
              Ends, mainVars
<1>9. CASE Tick \/ Terminated \/ UNCHANGED vars
  BY <1>9 DEF Tick, Terminated, vars, mainVars
<1>10. QED
  BY <1>2, <1>3, <1>4, <1>5, <1>6, <1>7, <1>8, <1>9
     DEF Next, MainStep, Failure

(* The process group id is used at most once after the command was reaped,  *)
(* and then in the same poll: a later owner of the id is never signalled.   *)
THEOREM NoLateSignal == Spec => SignalsOnlyWhenReaped
<1>1. TypeOK /\ ControlInv /\ [Next]_vars => TypeOK' /\ ControlInv'
  BY TypeStep, ControlStep
<1>2. ControlInv /\ [Next]_vars
          => [lateSignals' # lateSignals => pc = "reaped"]_vars
  BY SignalStep
<1>3. QED
  BY TypeInit, ControlInit, <1>1, <1>2, PTL DEF Spec, SignalsOnlyWhenReaped

-----------------------------------------------------------------------------
(* Timers. *)
LEMMA TimeInit == Init => TimeInv
BY TimeAssumption DEF Init, TimeInv

LEMMA DeadlineCaps ==
    ASSUME TypeOK
    PROVE  OutputDeadline <= Timeout
BY TimeAssumption DEF TypeOK, OutputDeadline, Least

LEMMA TimeStep ==
    ASSUME TypeOK, TimeInv, [Next]_vars
    PROVE  TimeInv'
<1> USE DEF TimeInv
<1>1. CASE UNCHANGED <<now, outputBy, settleBy>>
  BY <1>1
<1>2. CASE Tick
  <2>1. now' = now + 1 /\ UNCHANGED <<outputBy, settleBy>>
    BY <1>2 DEF Tick, mainVars
  <2>2. now < Timeout \/ now < settleBy
    BY <1>2 DEF Tick
  <2>3. QED
    BY <2>1, <2>2, TimeAssumption DEF TypeOK
<1>3. CASE AcceptCode
  BY <1>3, DeadlineCaps DEF AcceptCode
<1>4. ASSUME NEW s \in Streams, Collect(s)
      PROVE  TimeInv'
  <2>1. now' = now
    BY <1>4 DEF Collect, CollectNothing, CollectFinished, CollectDecided,
                CollectOutOfTime, CollectStale, BeginSettle, SettleJoined,
                SettleChanged, SettleTimesOut, CollectUnchanged
  <2>2. ASSUME NEW result, Collected(s, result)
        PROVE  TimeInv'
    BY <2>1, <2>2, DeadlineCaps DEF Collected
  <2>3. ASSUME Join(s)
        PROVE  TimeInv'
    BY <2>1, <2>2, <2>3 DEF Join, CollectFails
  <2>4. CASE CollectNothing(s) \/ CollectDecided(s) \/ CollectOutOfTime(s)
             \/ SettleTimesOut(s)
    BY <2>4, <2>2 DEF CollectNothing, CollectDecided, CollectOutOfTime,
                      SettleTimesOut, TakeSnapshot
  <2>5. CASE CollectFinished(s) \/ SettleJoined(s)
    BY <2>5, <2>3 DEF CollectFinished, SettleJoined
  <2>6. CASE CollectStale(s) \/ SettleChanged(s)
    BY <2>6, <2>1 DEF CollectStale, SettleChanged
  <2>7. CASE BeginSettle(s)
    <3>1. SettleLimit(s) \in Nat /\ SettleLimit(s) <= Timeout
      BY TimeAssumption DEF TypeOK, SettleLimit
    <3>2. settleBy' <= SettleLimit(s) /\ UNCHANGED outputBy
      BY <2>7, <3>1, TimeAssumption DEF TypeOK, BeginSettle, Grace, Least
    <3>3. settleBy' \in Nat
      BY <2>7, <3>1, TimeAssumption, SMTT(60)
         DEF TypeOK, BeginSettle, Grace, Least
    <3>4. QED
      BY <2>1, <3>1, <3>2, <3>3, TimeAssumption
  <2>8. QED
    BY <1>4, <2>4, <2>5, <2>6, <2>7 DEF Collect
<1>5. CASE Judge \/ RefuseCode \/ Reject \/ SpawnFails \/ Spawn \/ Deadline
           \/ WaitReady
  BY <1>5, <1>1 DEF Judge, RefuseCode, Reject, SpawnFails, Spawn, Deadline,
                    WaitReady
<1>6. CASE DeadlineOverflows \/ WaitFails \/ WaitTimesOut
  BY <1>6, <1>1 DEF DeadlineOverflows, WaitFails, WaitTimesOut
<1>7. CASE \E s \in Streams : ReaderStep(s) \/ ReadFails(s)
  BY <1>7, <1>1 DEF ReaderStep, ReadChunk, ReadEof, ReadFails, mainVars
<1>8. CASE \E p \in Procs : ProcessStep(p)
  BY <1>8, <1>1 DEF ProcessStep, CloseStream, Write, Fork, LeaveGroup, Exit,
                    Die, Ends, mainVars
<1>9. CASE Terminated \/ UNCHANGED vars
  BY <1>9, <1>1 DEF Terminated, vars, mainVars
<1>10. QED
  BY <1>2, <1>3, <1>4, <1>5, <1>6, <1>7, <1>8, <1>9
     DEF Next, MainStep, Failure

(* The verdict is out by the deadline, the graces after the exit included.  *)
THEOREM DeadlineHolds == Spec => []DeadlineRespected
<1>1. TypeOK /\ TimeInv /\ [Next]_vars => TypeOK' /\ TimeInv'
  BY TypeStep, TimeStep
<1>2. TimeInv => DeadlineRespected
  BY DEF TimeInv, DeadlineRespected
<1>3. QED
  BY TypeInit, TimeInit, <1>1, <1>2, PTL DEF Spec

-----------------------------------------------------------------------------
(* Reader tasks and the outputs taken from them. *)
LEMMA TaskInit == Init => TaskInv /\ SettledInv
BY DEF Init, TaskInv, SettledInv, Settled, NoOutput

(* What an abort does to each task. *)
LEMMA AbortedTasks ==
    ASSUME TypeOK, NEW ss, task' = Aborted(ss)
    PROVE  \A s \in Streams :
              /\ task'[s] = "none" <=> task[s] = "none"
              /\ task'[s] = "finished" <=> task[s] = "finished"
              /\ task'[s] = "running" => task[s] = "running"
              /\ s \notin ss => task'[s] = task[s]
              /\ s \in ss => task'[s] # "running"
BY DEF TypeOK, Aborted

LEMMA TaskStep ==
    ASSUME TypeOK, ControlInv, TaskInv, SettledInv, [Next]_vars
    PROVE  TaskInv' /\ SettledInv'
<1> USE DEF TaskInv, SettledInv, Settled
<1>0. /\ args' = args
      /\ ValidRequest' <=> ValidRequest
      /\ \A s \in Streams : Captured(s)' <=> Captured(s)
  BY ArgsNeverChange, RequestIsFixed
<1>1. CASE UNCHANGED <<pc, cur, output, task, out, holders, pipe>>
  BY <1>1, <1>0
<1>2. ASSUME pc' = "done", UNCHANGED <<out, holders, pipe>>,
             \/ UNCHANGED task
             \/ \E ss \in SUBSET Streams : task' = Aborted(ss)
      PROVE  TaskInv' /\ SettledInv'
  BY <1>2, <1>0, AbortedTasks
<1>3. CASE Reject \/ SpawnFails \/ DeadlineOverflows \/ Judge
  BY <1>3, <1>2 DEF Reject, SpawnFails, DeadlineOverflows, Judge, Return,
                    readerVars, pipeVars
<1>4. CASE WaitFails \/ WaitTimesOut \/ RefuseCode
  BY <1>4, <1>2 DEF WaitFails, WaitTimesOut, RefuseCode, Return, pipeVars
<1>5. CASE Spawn
  BY <1>5, <1>0 DEF Spawn, ControlInv, Before, NoOutput
<1>6. CASE Deadline \/ WaitReady \/ AcceptCode
  <2>1. /\ pc \in {"spawned", "wait", "reaped"}
        /\ pc' \in {"wait", "reaped", "collect"}
        /\ cur = "stdout"
        /\ UNCHANGED <<cur, task, out, holders, pipe>>
    BY <1>6 DEF Deadline, WaitReady, AcceptCode, ControlInv, Before,
                readerVars, pipeVars
  <2>2. \A s \in Streams : ~Settled(s) /\ ~Settled(s)' /\ task[s] # "aborted"
    BY <2>1
  <2>3. QED
    BY <2>1, <2>2, <1>0
<1>7. ASSUME NEW s \in Streams, Collect(s)
      PROVE  TaskInv' /\ SettledInv'
  <2>1. /\ pc \in {"collect", "settle"} /\ cur = s
        /\ UNCHANGED <<out, holders, pipe>>
    BY <1>7 DEF Collect, CollectNothing, CollectFinished, CollectDecided,
                CollectOutOfTime, CollectStale, BeginSettle, SettleJoined,
                SettleChanged, SettleTimesOut, Undecided, CollectUnchanged,
                pipeVars
  <2>2. ASSUME Collected(s, out[s]),
               task' = Aborted({s}) \/ (UNCHANGED task /\ task[s] # "running")
        PROVE  TaskInv' /\ SettledInv'
    <3>1. /\ cur' = "stderr"
          /\ s = "stdout" => pc' = "collect"
          /\ s = "stderr" => pc' = "judge"
          /\ output'[s] = out[s]
          /\ \A x \in Streams \ {s} : output'[x] = output[x]
      BY <2>2 DEF Collected, TypeOK
    <3>2. \A x \in Streams : /\ task'[x] = "none" <=> task[x] = "none"
                             /\ task'[x] = "finished" <=> task[x] = "finished"
                             /\ task'[x] = "running" => task[x] = "running"
                             /\ x # s => task'[x] = task[x]
      BY <2>2, AbortedTasks
    <3>3. task'[s] # "running"
      BY <2>2, AbortedTasks
    <3>4. \A x \in Streams : Settled(x)' <=> x = s \/ Settled(x)
      BY <2>1, <3>1
    <3>5. TaskInv'
      BY <2>1, <3>1, <3>2, <3>4, <1>0
    <3>6. SettledInv'
      BY <2>1, <3>1, <3>2, <3>3, <3>4
    <3>7. QED
      BY <3>5, <3>6
  <2>3. ASSUME NEW v, CollectFails(s, v)
        PROVE  TaskInv' /\ SettledInv'
    BY <2>1, <2>3, <1>2 DEF CollectFails, Return
  <2>4. ASSUME Join(s)
        PROVE  TaskInv' /\ SettledInv'
    BY <2>2, <2>3, <2>4 DEF Join
  <2>5. CASE CollectNothing(s)
    <3>1. task[s] = "none"
      BY <2>1, <2>5 DEF CollectNothing
    <3>2. QED
      BY <2>2, <2>5, <3>1 DEF CollectNothing
  <2>6. CASE CollectFinished(s) \/ SettleJoined(s)
    BY <2>6, <2>4 DEF CollectFinished, SettleJoined
  <2>7. CASE CollectDecided(s) \/ CollectOutOfTime(s) \/ SettleTimesOut(s)
    BY <2>7, <2>2 DEF CollectDecided, CollectOutOfTime, SettleTimesOut,
                      TakeSnapshot
  <2>8. CASE CollectStale(s)
    BY <2>1, <2>8, <1>1 DEF CollectStale
  <2>9. CASE BeginSettle(s) \/ SettleChanged(s)
    <3>1. pc' \in {"collect", "settle"} /\ UNCHANGED <<cur, output, task>>
      BY <2>9 DEF BeginSettle, SettleChanged
    <3>2. QED
      BY <2>1, <3>1, <1>0
  <2>10. QED
    BY <1>7, <2>5, <2>6, <2>7, <2>8, <2>9 DEF Collect
<1>8. ASSUME NEW s \in Streams, ReaderStep(s) \/ ReadFails(s)
      PROVE  TaskInv' /\ SettledInv'
  <2>1. /\ task[s] = "running" /\ pc \in {"wait", "settle"}
        /\ UNCHANGED <<pc, cur, output, holders>>
    BY <1>8 DEF ReaderStep, ReadChunk, ReadEof, ReadFails, Scheduled,
                mainVars, pipeVars
  <2>2. /\ task'[s] \in {"running", "finished", "failed"}
        /\ out'[s].complete <=> task'[s] = "finished"
        /\ task'[s] = "finished" => holders[s] = {} /\ pipe'[s] = <<>>
        /\ \A x \in Streams \ {s} : /\ task'[x] = task[x]
                                    /\ out'[x] = out[x]
                                    /\ pipe'[x] = pipe[x]
    <3>1. CASE ReadChunk(s)
      BY <3>1, <2>1 DEF ReadChunk, Publish, Absorb, TypeOK
    <3>2. CASE ReadEof(s)
      BY <3>2, <2>1 DEF ReadEof, Publish, TypeOK, OutputType, pipeVars
    <3>3. CASE ReadFails(s)
      BY <3>3, <2>1 DEF ReadFails, TypeOK, pipeVars
    <3>4. QED
      BY <1>8, <3>1, <3>2, <3>3 DEF ReaderStep
  <2>3. QED
    BY <2>1, <2>2, <1>0
<1>9. ASSUME NEW p \in Procs, ProcessStep(p)
      PROVE  TaskInv' /\ SettledInv'
  <2>1. UNCHANGED <<pc, cur, output, task, out>>
    BY <1>9 DEF ProcessStep, CloseStream, Write, Fork, LeaveGroup, Exit, Die,
                Ends, mainVars, readerVars
  <2>2. ASSUME \A s \in Streams : holders[s] = {} => holders'[s] = {},
               \A s \in Streams : task[s] = "finished" => pipe'[s] = pipe[s]
        PROVE  TaskInv' /\ SettledInv'
    BY <2>1, <2>2, <1>0
  <2>3. ASSUME NEW st, Ends(p, st)
        PROVE  TaskInv' /\ SettledInv'
    BY <2>2, <2>3 DEF Ends, Release
  <2>4. ASSUME NEW s \in Streams, CloseStream(p, s)
        PROVE  TaskInv' /\ SettledInv'
    BY <2>2, <2>4 DEF CloseStream, TypeOK
  <2>5. ASSUME NEW s \in Streams, NEW b \in Bytes, Write(p, s, b)
        PROVE  TaskInv' /\ SettledInv'
    BY <2>2, <2>5 DEF Write, TypeOK
  <2>6. ASSUME NEW d \in Descendants, Fork(p, d)
        PROVE  TaskInv' /\ SettledInv'
    BY <2>2, <2>6 DEF Fork
  <2>7. CASE LeaveGroup(p)
    BY <2>2, <2>7 DEF LeaveGroup, pipeVars
  <2>8. QED
    BY <1>9, <2>3, <2>4, <2>5, <2>6, <2>7 DEF ProcessStep, Exit, Die
<1>10. CASE Tick \/ Terminated \/ UNCHANGED vars
  BY <1>10, <1>1 DEF Tick, Terminated, vars, mainVars, readerVars, pipeVars
<1>11. QED
  BY <1>3, <1>4, <1>5, <1>6, <1>7, <1>8, <1>9, <1>10
     DEF Next, MainStep, Failure

(* The command keeps its output pipes for as long as it runs unkilled.      *)
THEOREM PipesStayOpen == Spec => []NoBrokenPipe
<1>1. TypeOK /\ ControlInv /\ TaskInv /\ SettledInv /\ [Next]_vars
          => TypeOK' /\ ControlInv' /\ TaskInv' /\ SettledInv'
  BY TypeStep, ControlStep, TaskStep
<1>2. TypeOK /\ TaskInv => NoBrokenPipe
  BY DEF TypeOK, TaskInv, NoBrokenPipe, Settled
<1>3. QED
  BY TypeInit, ControlInit, TaskInit, <1>1, <1>2, PTL DEF Spec

(* The probe never joins a task it aborted.                                 *)
THEOREM NoAbortedJoin == Spec => []NoInternalError
<1>1. TypeOK /\ ControlInv /\ TaskInv /\ SettledInv /\ [Next]_vars
          => TypeOK' /\ ControlInv' /\ TaskInv' /\ SettledInv'
  BY TypeStep, ControlStep, TaskStep
<1>2. ControlInv /\ TaskInv /\ NoInternalError /\ [Next]_vars
          => NoInternalError'
  <2> SUFFICES ASSUME ControlInv, TaskInv, NoInternalError, [Next]_vars
               PROVE  NoInternalError'
    OBVIOUS
  <2> USE DEF NoInternalError
  <2>1. CASE UNCHANGED verdict
    BY <2>1
  <2>2. ASSUME NEW s \in Streams, Join(s),
               pc \in {"collect", "settle"}, cur = s
        PROVE  NoInternalError'
    <3>1. task[s] # "aborted"
      BY <2>2 DEF TaskInv, Settled
    <3>2. QED
      BY <2>2, <3>1 DEF Join, Collected, CollectFails, Return
  <2>3. ASSUME NEW s \in Streams, Collect(s)
        PROVE  NoInternalError'
    <3>1. CASE CollectFinished(s) \/ SettleJoined(s)
      BY <3>1, <2>2 DEF CollectFinished, SettleJoined
    <3>2. CASE CollectNothing(s) \/ CollectDecided(s) \/ CollectOutOfTime(s)
               \/ SettleTimesOut(s)
      BY <3>2 DEF CollectNothing, CollectDecided, CollectOutOfTime,
                  SettleTimesOut, TakeSnapshot, Collected
    <3>3. CASE CollectStale(s) \/ BeginSettle(s) \/ SettleChanged(s)
      BY <3>3 DEF CollectStale, BeginSettle, SettleChanged
    <3>4. QED
      BY <2>3, <3>1, <3>2, <3>3 DEF Collect
  <2>4. CASE Reject \/ SpawnFails \/ DeadlineOverflows \/ WaitFails
             \/ WaitTimesOut \/ RefuseCode \/ Judge
    BY <2>4 DEF Reject, SpawnFails, DeadlineOverflows, WaitFails, WaitTimesOut,
                RefuseCode, Judge, Return, WhyMissing
  <2>5. CASE Spawn \/ Deadline \/ WaitReady \/ AcceptCode
    BY <2>5 DEF Spawn, Deadline, WaitReady, AcceptCode
  <2>6. CASE \E s \in Streams : ReaderStep(s) \/ ReadFails(s)
    BY <2>6 DEF ReaderStep, ReadChunk, ReadEof, ReadFails, mainVars
  <2>7. CASE \E p \in Procs : ProcessStep(p)
    BY <2>7 DEF ProcessStep, CloseStream, Write, Fork, LeaveGroup, Exit, Die,
                Ends, mainVars
  <2>8. CASE Tick \/ Terminated \/ UNCHANGED vars
    BY <2>8 DEF Tick, Terminated, vars, mainVars
  <2>9. QED
    BY <2>3, <2>4, <2>5, <2>6, <2>7, <2>8 DEF Next, MainStep, Failure
<1>3. Init => NoInternalError
  BY DEF Init, NoInternalError
<1>4. QED
  BY TypeInit, ControlInit, TaskInit, <1>1, <1>2, <1>3, PTL DEF Spec

(* Readers live as long as they must, and no longer than they are waited    *)
(* for: both of the above.                                                  *)
THEOREM ReadersKept == Spec => []ReadersAreRight
<1>1. NoBrokenPipe /\ NoInternalError => ReadersAreRight
  BY DEF ReadersAreRight
<1>2. QED
  BY <1>1, PipesStayOpen, NoAbortedJoin, PTL

-----------------------------------------------------------------------------
(* The refinement of the contract of a probe *)

(* The timer starts at the beginning of time. *)
EarlyInv == pc \in {"start", "spawned"} => now = 0

LEMMA EarlyStep == EarlyInv /\ [Next]_vars => EarlyInv'
<1> SUFFICES ASSUME EarlyInv, [Next]_vars, pc' \in {"start", "spawned"}
             PROVE  pc \in {"start", "spawned"} /\ now' = now
  BY DEF EarlyInv
<1>1. ASSUME NEW s \in Streams, Collect(s)  PROVE FALSE
  BY <1>1 DEF Collect, CollectNothing, CollectFinished, CollectDecided,
              CollectOutOfTime, CollectStale, BeginSettle, SettleJoined,
              SettleChanged, SettleTimesOut, Undecided, TakeSnapshot, Join,
              Collected, CollectFails, Return
<1>2. CASE MainStep
  BY <1>1, <1>2 DEF MainStep, Reject, Spawn, Deadline, DeadlineOverflows,
                    WaitReady, WaitTimesOut, AcceptCode, RefuseCode, Judge,
                    Return
<1>3. CASE Failure \/ \E s \in Streams : ReaderStep(s)
  BY <1>3 DEF Failure, SpawnFails, WaitFails, ReadFails, ReaderStep, ReadChunk,
              ReadEof, Return, mainVars
<1>4. CASE \E p \in Procs : ProcessStep(p)
  BY <1>4 DEF ProcessStep, CloseStream, Write, Fork, LeaveGroup, Exit, Die,
              Ends, mainVars
<1>5. CASE Tick
  BY <1>5 DEF Tick, mainVars
<1>6. CASE Terminated \/ UNCHANGED vars
  BY <1>6 DEF Terminated, vars, mainVars
<1>7. QED
  BY <1>2, <1>3, <1>4, <1>5, <1>6 DEF Next

LEMMA ContractInit == Init => Contract!Init
BY TimeAssumption DEF Init, Contract!Init, Phase, Outcome

(* What a step of run() may look like from outside. *)
LEMMA ContractCases ==
    ASSUME TypeOK, ControlInv, UNCHANGED now,
           \/ UNCHANGED <<pc, verdict>>
           \/ /\ pc \notin {"start", "spawned", "done"}
              /\ pc' \notin {"start", "spawned", "done"} /\ UNCHANGED verdict
           \/ /\ pc \notin {"start", "spawned", "done"} /\ pc' = "done"
              /\ verdict' \in Verdicts \ {"none"}
              /\ verdict' = "timeout" => now >= Timeout
    PROVE  [Contract!Next]_(Contract!vars)
<1> USE DEF Phase, Outcome
<1>1. ASSUME pc \notin {"start", "spawned", "done"}, pc' = "done",
             verdict' \in Verdicts \ {"none"},
             verdict' = "timeout" => now >= Timeout
      PROVE  Contract!Next
  <2>1. Outcome' \in Contract!Outcomes /\ Outcome = "none"
    BY <1>1 DEF Contract!Outcomes, Verdicts, ControlInv
  <2>2. Contract!End(Outcome')
    BY <1>1, <2>1 DEF Contract!End, ControlInv
  <2>3. QED
    BY <2>1, <2>2 DEF Contract!Next
<1>2. CASE UNCHANGED <<pc, verdict>>
  BY <1>2 DEF Contract!vars
<1>3. CASE /\ pc \notin {"start", "spawned", "done"}
           /\ pc' \notin {"start", "spawned", "done"} /\ UNCHANGED verdict
  BY <1>3 DEF Contract!vars
<1>4. QED
  BY <1>1, <1>2, <1>3

LEMMA ContractStep ==
    TypeOK /\ ControlInv /\ TimeInv /\ TimeInv' /\ EarlyInv /\ [Next]_vars
        => [Contract!Next]_(Contract!vars)
<1> SUFFICES ASSUME TypeOK, ControlInv, TimeInv, TimeInv', EarlyInv, [Next]_vars
             PROVE  [Contract!Next]_(Contract!vars)
  OBVIOUS
<1>0. Timeout \in Nat /\ now \in Nat
  BY TimeAssumption DEF TypeOK
<1>1. CASE Reject \/ SpawnFails \/ DeadlineOverflows
  <2>1. Phase = "given" /\ Phase' = "ended"
    BY <1>1 DEF Reject, SpawnFails, DeadlineOverflows, Return, Phase
  <2>2. Outcome' = "invalid"
    BY <1>1 DEF Reject, SpawnFails, DeadlineOverflows, Return, Outcome
  <2>3. UNCHANGED now
    BY <1>1 DEF Reject, SpawnFails, DeadlineOverflows
  <2>4. Contract!Refuse
    BY <2>1, <2>2, <2>3 DEF Contract!Refuse
  <2>5. QED
    BY <2>4 DEF Contract!Next
<1>2. CASE Spawn
  BY <1>2 DEF Spawn, Contract!vars, Phase, Outcome
<1>3. CASE Deadline
  <2>1. Contract!Begin
    BY <1>0, <1>3 DEF Deadline, EarlyInv, Contract!Begin, Phase, Outcome
  <2>2. QED
    BY <2>1 DEF Contract!Next
<1>4. CASE Tick
  <2>1. Contract!Wait
    BY <1>0, <1>4 DEF Tick, TimeInv, mainVars, Contract!Wait, Phase, Outcome
  <2>2. QED
    BY <2>1 DEF Contract!Next
<1>5. ASSUME NEW s \in Streams, Collect(s)
      PROVE  [Contract!Next]_(Contract!vars)
  <2>1. UNCHANGED now /\ pc \in {"collect", "settle"}
    BY <1>5 DEF Collect, CollectNothing, CollectFinished, CollectDecided,
                CollectOutOfTime, CollectStale, BeginSettle, SettleJoined,
                SettleChanged, SettleTimesOut, Undecided, CollectUnchanged
  <2>2. \/ pc' \in {"collect", "settle", "judge"} /\ UNCHANGED verdict
        \/ pc' = "done" /\ verdict' \in {"readError", "internal"}
    <3>1. ASSUME TakeSnapshot(s) \/ Collected(s, NoOutput) \/ Collected(s, out[s])
          PROVE  pc' \in {"collect", "judge"} /\ UNCHANGED verdict
      BY <3>1 DEF TakeSnapshot, Collected
    <3>2. CASE CollectStale(s) \/ BeginSettle(s) \/ SettleChanged(s)
      BY <3>2, <2>1 DEF CollectStale, BeginSettle, SettleChanged
    <3>3. CASE CollectNothing(s) \/ CollectDecided(s) \/ CollectOutOfTime(s)
               \/ SettleTimesOut(s)
      BY <3>1, <3>3 DEF CollectNothing, CollectDecided, CollectOutOfTime,
                        SettleTimesOut
    <3>4. CASE Join(s)
      BY <3>1, <3>4 DEF Join, CollectFails, Return
    <3>5. QED
      BY <1>5, <3>2, <3>3, <3>4 DEF Collect, CollectFinished, SettleJoined
  <2>3. QED
    BY <2>1, <2>2, ContractCases DEF Verdicts
<1>6. CASE WaitReady \/ WaitTimesOut \/ AcceptCode \/ RefuseCode \/ Judge
           \/ WaitFails
  <2>1. UNCHANGED now /\ pc \in {"wait", "reaped", "judge"}
    BY <1>6 DEF WaitReady, WaitTimesOut, AcceptCode, RefuseCode, Judge, WaitFails
  <2>2. \/ pc' \in {"reaped", "collect"} /\ UNCHANGED verdict
        \/ /\ pc' = "done" /\ verdict' \in Verdicts \ {"none"}
           /\ verdict' = "timeout" => now >= Timeout
    BY <1>6 DEF WaitReady, WaitTimesOut, AcceptCode, RefuseCode, Judge,
                WaitFails, Return, WhyMissing, Verdicts
  <2>3. QED
    BY <2>1, <2>2, ContractCases
<1>7. ASSUME NEW s \in Streams, ReaderStep(s) \/ ReadFails(s)
      PROVE  [Contract!Next]_(Contract!vars)
  BY <1>7, ContractCases DEF ReaderStep, ReadChunk, ReadEof, ReadFails, mainVars
<1>8. ASSUME NEW p \in Procs, ProcessStep(p)
      PROVE  [Contract!Next]_(Contract!vars)
  <2>1. UNCHANGED <<pc, verdict, now>>
    BY <1>8 DEF ProcessStep, CloseStream, Write, Fork, LeaveGroup, Exit, Die,
                Ends, mainVars
  <2>2. QED
    BY <2>1, ContractCases
<1>9. CASE Terminated \/ UNCHANGED vars
  BY <1>9, ContractCases DEF Terminated, vars, mainVars
<1>10. QED
  BY <1>1, <1>2, <1>3, <1>4, <1>5, <1>6, <1>7, <1>8, <1>9
     DEF Next, MainStep, Failure

(* The exec probe implements the contract of a probe: for every timeout and *)
(* grace, and however many processes the command starts, its verdict is one *)
(* that a caller expects, none of them before its time and none after it.   *)
THEOREM ContractKept == Spec => KeepsContract
<1>1. Init => EarlyInv
  BY DEF Init, EarlyInv
<1>2. TypeOK /\ ControlInv /\ TimeInv /\ EarlyInv /\ [Next]_vars
          => /\ TypeOK' /\ ControlInv' /\ TimeInv' /\ EarlyInv'
             /\ [Contract!Next]_(Contract!vars)
  BY TypeStep, ControlStep, TimeStep, EarlyStep, ContractStep
<1>3. QED
  BY TypeInit, ControlInit, TimeInit, ContractInit, <1>1, <1>2, PTL
     DEF Spec, KeepsContract, Contract!Spec

-----------------------------------------------------------------------------
(* The shared state of a reader is an exact account of a stream. *)
Exact(needles, matched, o, stream, limit) ==
    /\ o.content.bytes = Capture(stream, limit)
    /\ o.content.incomplete <=> Len(stream) > limit
    /\ matched = {n \in needles : ContainsSlice(o.content.bytes, n)}
    /\ o.matched <=> matched = needles
    /\ o.limitReached <=> Len(o.content.bytes) = limit

LEMMA NothingReadIsExact ==
    ASSUME NEW needles \in SUBSET Seq(Bytes), needles # {}, <<>> \notin needles,
           NEW limit \in Nat \ {0}
    PROVE  Exact(needles, NewMatcher(needles), NoOutput, <<>>, limit)
<1>1. Holds(EmptyBuffer, <<>>, limit)
  BY EmptyHolds
<1>2. ASSUME NEW n \in needles
      PROVE  ~ContainsSlice(<<>>, n) /\ Len(n) # 0
  BY <1>2, EmptyContains
<1>3. NewMatcher(needles) = {} /\ {n \in needles : ContainsSlice(<<>>, n)} = {}
  BY <1>2 DEF NewMatcher
<1>4. Len(<<>>) = 0
  BY EmptySeq
<1>5. QED
  BY <1>1, <1>3, <1>4 DEF Exact, NoOutput, EmptyBuffer, Holds

LEMMA AbsorbIsExact ==
    ASSUME NEW needles \in SUBSET Seq(Bytes), needles # {},
           NEW limit \in Nat, NEW stream \in Seq(Bytes),
           NEW chunk \in Seq(Bytes), NEW o \in OutputType, NEW matched,
           Exact(needles, matched, o, stream, limit)
    PROVE  Exact(needles, FoundAfter(needles, matched, o, chunk, limit),
                 Absorb(needles, matched, o, chunk, limit),
                 stream \o chunk, limit)
<1> DEFINE content == AppendLimited(o.content, chunk, limit)
           after   == FoundAfter(needles, matched, o, chunk, limit)
<1>1. o.content.bytes \in Seq(Bytes)
  BY DEF OutputType
<1>2. Holds(o.content, stream, limit)
  BY DEF Exact, Holds
<1>3. Holds(content, stream \o chunk, limit)
  BY <1>2, AppendHolds
<1>4. /\ content.bytes \in Seq(Bytes)
      /\ Len(o.content.bytes) <= Len(content.bytes)
      /\ \A i \in 1 .. Len(o.content.bytes) :
            content.bytes[i] = o.content.bytes[i]
  BY <1>1, AppendExtends
<1>5. after = {n \in needles : ContainsSlice(content.bytes, n)}
  <2>1. matched = {n \in needles : ContainsSlice(o.content.bytes, n)}
    BY DEF Exact
  <2>2. after = ObserveAppended(needles, matched, content.bytes,
                                Len(o.content.bytes))
    BY DEF FoundAfter
  <2> DEFINE old == o.content.bytes
             new == content.bytes
  <2>3. /\ old \in Seq(Bytes) /\ new \in Seq(Bytes)
        /\ Len(old) <= Len(new)
        /\ \A i \in 1 .. Len(old) : new[i] = old[i]
        /\ matched = Occurring(needles, old)
    BY <1>1, <1>4, <2>1 DEF Occurring
  <2> HIDE DEF content, after, old, new
  <2>4. ObserveAppended(needles, matched, new, Len(old))
           = Occurring(needles, new)
    BY <2>3, ObserveIsExact
  <2>5. QED
    BY <2>2, <2>4 DEF old, new, Occurring
<1>6. QED
  BY <1>3, <1>5 DEF Exact, Holds, Absorb, AllMatched

LEMMA CaptureInvIsExact ==
    CaptureInv <=>
        \A s \in Streams :
            /\ task[s] = "none" => delivered[s] = <<>> /\ pipe[s] = <<>>
            /\ task[s] # "none" =>
                  Exact(Needles(s), found[s], out[s], delivered[s], args.limit)
BY DEF CaptureInv, Exact

LEMMA CaptureInit == Init => CaptureInv
BY DEF Init, CaptureInv

LEMMA CaptureStep ==
    ASSUME TypeOK, ControlInv, TaskInv, CaptureInv, [Next]_vars
    PROVE  CaptureInv'
<1> DEFINE Account(s) ==
        /\ task[s] = "none" => delivered[s] = <<>> /\ pipe[s] = <<>>
        /\ task[s] # "none" =>
              Exact(Needles(s), found[s], out[s], delivered[s], args.limit)
<1>1. \A s \in Streams : Account(s)
  BY CaptureInvIsExact
<1>2. CaptureInv' <=> \A s \in Streams : Account(s)'
  BY DEF CaptureInv, Exact
<1>3. args' = args /\ \A s \in Streams : Needles(s)' = Needles(s)
  BY ArgsNeverChange, RequestIsFixed
<1>4. ASSUME NEW s \in Streams,
             task'[s] = "none" <=> task[s] = "none",
             pipe'[s] = pipe[s] \/ task[s] # "none",
             delivered'[s] = delivered[s], found'[s] = found[s],
             ProgressOf(out[s])' = ProgressOf(out[s]),
             out'[s].content = out[s].content
      PROVE  Account(s)'
  BY <1>1, <1>3, <1>4 DEF Exact, ProgressOf
<1>5. ASSUME \A s \in Streams : task'[s] = "none" <=> task[s] = "none",
             UNCHANGED <<pipe, delivered, found, out>>
      PROVE  CaptureInv'
  BY <1>2, <1>4, <1>5
<1>6. CASE Reject \/ SpawnFails \/ Deadline \/ DeadlineOverflows \/ WaitReady
           \/ AcceptCode \/ Judge
  BY <1>6, <1>5 DEF Reject, SpawnFails, Deadline, DeadlineOverflows, WaitReady,
                    AcceptCode, Judge, readerVars, pipeVars
<1>7. CASE WaitFails \/ WaitTimesOut \/ RefuseCode
  <2>1. task' = Aborted(Streams) /\ UNCHANGED <<pipe, delivered, found, out>>
    BY <1>7 DEF WaitFails, WaitTimesOut, RefuseCode, pipeVars
  <2>2. QED
    BY <2>1, <1>5, AbortedTasks
<1>8. CASE Spawn
  <2>1. /\ UNCHANGED <<args, pipe, delivered, out>>
        /\ ValidRequest
        /\ \A s \in Streams :
              /\ task'[s] = IF Captured(s) THEN "running" ELSE "none"
              /\ found'[s] = NewMatcher(Needles(s))
              /\ task[s] = "none"
    BY <1>8 DEF Spawn, TaskInv
  <2>2. ASSUME NEW s \in Streams
        PROVE  Account(s)'
    <3>1. out[s] = NoOutput /\ delivered[s] = <<>> /\ pipe[s] = <<>>
      BY <2>1, <1>1 DEF TaskInv
    <3>2. CASE Captured(s)
      <4>1. /\ Needles(s) \in SUBSET Seq(Bytes) /\ Needles(s) # {}
            /\ <<>> \notin Needles(s)
            /\ args.limit \in Nat \ {0}
        BY <2>1, <3>2, RequestFields, SizeAssumption DEF ValidRequest, Captured
      <4>2. Exact(Needles(s), NewMatcher(Needles(s)), NoOutput, <<>>,
                  args.limit)
        BY <4>1, NothingReadIsExact
      <4>3. QED
        BY <2>1, <3>1, <3>2, <4>2, <1>3
    <3>3. CASE ~Captured(s)
      BY <2>1, <3>1, <3>3
    <3>4. QED
      BY <3>2, <3>3
  <2>3. QED
    BY <1>2, <2>2
<1>9. ASSUME NEW s \in Streams, Collect(s)
      PROVE  CaptureInv'
  <2>1. UNCHANGED <<pipe, delivered, found, out>>
    BY <1>9 DEF Collect, CollectNothing, CollectFinished, CollectDecided,
                CollectOutOfTime, CollectStale, BeginSettle, SettleJoined,
                SettleChanged, SettleTimesOut, CollectUnchanged, pipeVars
  <2>2. UNCHANGED task \/ \E ss \in SUBSET Streams : task' = Aborted(ss)
    <3>1. ASSUME Join(s)
          PROVE  UNCHANGED task \/ \E ss \in SUBSET Streams : task' = Aborted(ss)
      <4>1. \/ UNCHANGED task
            \/ CollectFails(s, "readError") \/ CollectFails(s, "internal")
        BY <3>1 DEF Join
      <4>2. UNCHANGED task \/ task' = Aborted({"stderr"})
        BY <4>1 DEF CollectFails
      <4>3. QED
        BY <4>2
    <3>2. CASE CollectFinished(s) \/ SettleJoined(s)
      BY <3>2, <3>1 DEF CollectFinished, SettleJoined
    <3>3. CASE CollectDecided(s) \/ CollectOutOfTime(s) \/ SettleTimesOut(s)
      BY <3>3 DEF CollectDecided, CollectOutOfTime, SettleTimesOut,
                  TakeSnapshot
    <3>4. CASE CollectNothing(s) \/ CollectStale(s) \/ BeginSettle(s)
               \/ SettleChanged(s)
      BY <3>4 DEF CollectNothing, CollectStale, BeginSettle, SettleChanged
    <3>5. QED
      BY <1>9, <3>2, <3>3, <3>4 DEF Collect
  <2>3. \A x \in Streams : task'[x] = "none" <=> task[x] = "none"
    BY <2>2, AbortedTasks
  <2>4. QED
    BY <2>1, <2>3, <1>5
<1>10. ASSUME NEW s \in Streams, ReaderStep(s) \/ ReadFails(s)
       PROVE  CaptureInv'
  <2>1. ASSUME NEW x \in Streams \ {s}
        PROVE  Account(x)'
    <3>1. /\ task'[x] = task[x] /\ pipe'[x] = pipe[x]
          /\ delivered'[x] = delivered[x] /\ found'[x] = found[x]
          /\ out'[x] = out[x]
      BY <1>10 DEF ReaderStep, ReadChunk, ReadEof, ReadFails, Publish, TypeOK,
                   pipeVars
    <3>2. QED
      BY <3>1, <1>4
  <2>2. CASE ReadChunk(s)
    <3> DEFINE n     == Least(ReadSize, Len(pipe[s]))
               chunk == SubSeq(pipe[s], 1, n)
    <3>1. /\ task[s] = "running" /\ task'[s] = "running"
          /\ delivered'[s] = delivered[s] \o chunk
          /\ found'[s] = FoundAfter(Needles(s), found[s], out[s], chunk,
                                    args.limit)
          /\ out'[s] = Absorb(Needles(s), found[s], out[s], chunk, args.limit)
      BY <2>2 DEF ReadChunk, Publish, Scheduled, TypeOK
    <3>2. chunk \in Seq(Bytes)
      BY ChunkProperties DEF TypeOK
    <3>3. Needles(s) \in SUBSET Seq(Bytes) /\ Needles(s) # {}
      BY <3>1, RequestFields DEF TaskInv, Captured
    <3>4. /\ delivered[s] \in Seq(Bytes) /\ out[s] \in OutputType
          /\ args.limit \in Nat
      BY RequestFields DEF TypeOK
    <3> HIDE DEF chunk
    <3>5. Exact(Needles(s), found'[s], out'[s], delivered'[s], args.limit)
      BY <1>1, <3>1, <3>2, <3>3, <3>4, AbsorbIsExact
    <3>6. Account(s)'
      BY <3>1, <3>5, <1>3
    <3>7. QED
      BY <1>2, <2>1, <3>6
  <2>3. CASE ReadEof(s) \/ ReadFails(s)
    <3>1. /\ task[s] # "none" /\ task'[s] # "none"
          /\ UNCHANGED <<pipe, delivered, found>>
          /\ out'[s] = out[s] \/ out'[s] = [out[s] EXCEPT !.complete = TRUE]
      BY <2>3 DEF ReadEof, ReadFails, Publish, Scheduled, TypeOK, pipeVars
    <3>2. out[s] \in OutputType
      BY DEF TypeOK
    <3>3. ProgressOf(out[s])' = ProgressOf(out[s])
          /\ out'[s].content = out[s].content
      BY <3>1, <3>2 DEF OutputType, ProgressOf
    <3>4. Account(s)'
      BY <3>1, <3>3, <1>4
    <3>5. QED
      BY <1>2, <2>1, <3>4
  <2>4. QED
    BY <1>10, <2>2, <2>3 DEF ReaderStep
<1>11. ASSUME NEW p \in Procs, ProcessStep(p)
       PROVE  CaptureInv'
  <2>1. UNCHANGED <<task, delivered, found, out>>
    BY <1>11 DEF ProcessStep, CloseStream, Write, Fork, LeaveGroup, Exit, Die,
                 Ends, mainVars, readerVars, pipeVars
  <2>2. \A s \in Streams : pipe'[s] = pipe[s] \/ task[s] # "none"
    <3>1. ASSUME NEW s \in Streams, NEW b \in Bytes, Write(p, s, b)
          PROVE  \A x \in Streams : pipe'[x] = pipe[x] \/ task[x] # "none"
      BY <3>1 DEF Write, TypeOK
    <3>2. ASSUME UNCHANGED pipe
          PROVE  \A x \in Streams : pipe'[x] = pipe[x] \/ task[x] # "none"
      BY <3>2
    <3>3. QED
      BY <1>11, <3>1, <3>2
         DEF ProcessStep, CloseStream, Fork, LeaveGroup, Exit, Die, Ends,
             pipeVars
  <2>3. ASSUME NEW s \in Streams
        PROVE  Account(s)'
    BY <2>1, <2>2, <1>4
  <2>4. QED
    BY <1>2, <2>3
<1>12. CASE Tick \/ Terminated \/ UNCHANGED vars
  BY <1>12, <1>5 DEF Tick, Terminated, vars, readerVars, pipeVars
<1>13. QED
  BY <1>6, <1>7, <1>8, <1>9, <1>10, <1>11, <1>12 DEF Next, MainStep, Failure

(* Whatever the sizes of writes, reads, needles and the limit, the captured *)
(* bytes are the beginning of the stream and the chunk-wise matcher knows   *)
(* exactly the needles that are in them.                                    *)
THEOREM CaptureHolds == Spec => []CaptureIsExact
<1>1. TypeOK /\ ControlInv /\ TaskInv /\ SettledInv /\ CaptureInv /\ [Next]_vars
          => TypeOK' /\ ControlInv' /\ TaskInv' /\ SettledInv' /\ CaptureInv'
  BY TypeStep, ControlStep, TaskStep, CaptureStep
<1>2. CaptureInv => CaptureIsExact
  BY DEF CaptureInv, CaptureIsExact
<1>3. QED
  BY TypeInit, ControlInit, TaskInit, CaptureInit, <1>1, <1>2, PTL DEF Spec

-----------------------------------------------------------------------------
(* Verdicts. *)

(* Once run() has returned, nothing that a verdict is about changes. *)
LEMMA DoneIsFinal ==
    ASSUME pc = "done", [Next]_vars
    PROVE  UNCHANGED vars
<1>1. ASSUME NEW s \in Streams  PROVE ~Collect(s)
  BY DEF Collect, CollectNothing, CollectFinished, CollectDecided,
         CollectOutOfTime, CollectStale, BeginSettle, SettleJoined,
         SettleChanged, SettleTimesOut, Undecided
<1>2. ~MainStep
  BY <1>1 DEF MainStep, Reject, Spawn, Deadline, DeadlineOverflows, WaitReady,
              WaitTimesOut, AcceptCode, RefuseCode, Judge
<1>3. ASSUME NEW s \in Streams  PROVE ~ReaderStep(s) /\ ~ReadFails(s)
  BY DEF ReaderStep, ReadChunk, ReadEof, ReadFails, Scheduled
<1>4. ~Failure
  BY <1>3 DEF Failure, SpawnFails, WaitFails
<1>5. ASSUME NEW p \in Procs  PROVE ~ProcessStep(p)
  BY DEF ProcessStep, CloseStream, Write, Fork, LeaveGroup, Exit, Die, Running
<1>6. ~Tick
  BY DEF Tick
<1>7. QED
  BY <1>2, <1>3, <1>4, <1>5, <1>6 DEF Next, Terminated

(* Only the final check gives a verdict about captured output. *)
LEMMA OnlyJudgeJudges ==
    ASSUME verdict = "none", [Next]_vars,
           verdict' \in {"healthy", "missing", "limit", "open"}
    PROVE  Judge
<1>1. verdict' # verdict
  OBVIOUS
<1>2. ASSUME NEW s \in Streams  PROVE ~Collect(s)
  <2>1. ~Join(s)
    BY <1>1 DEF Join, Collected, CollectFails, Return
  <2>2. QED
    BY <1>1, <2>1
       DEF Collect, CollectNothing, CollectFinished, CollectDecided,
           CollectOutOfTime, CollectStale, BeginSettle, SettleJoined,
           SettleChanged, SettleTimesOut, TakeSnapshot, Collected
<1>3. /\ ~Reject /\ ~Spawn /\ ~Deadline /\ ~DeadlineOverflows /\ ~WaitReady
      /\ ~WaitTimesOut /\ ~AcceptCode /\ ~RefuseCode /\ ~SpawnFails
      /\ ~WaitFails
  BY <1>1 DEF Reject, Spawn, Deadline, DeadlineOverflows, WaitReady,
              WaitTimesOut, AcceptCode, RefuseCode, SpawnFails, WaitFails,
              Return
<1>4. ASSUME NEW s \in Streams  PROVE ~ReaderStep(s) /\ ~ReadFails(s)
  BY <1>1 DEF ReaderStep, ReadChunk, ReadEof, ReadFails, mainVars
<1>5. ASSUME NEW p \in Procs  PROVE ~ProcessStep(p)
  BY <1>1 DEF ProcessStep, CloseStream, Write, Fork, LeaveGroup, Exit, Die,
              Ends, mainVars
<1>6. ~Tick /\ ~Terminated /\ ~UNCHANGED vars
  BY <1>1 DEF Tick, Terminated, vars, mainVars
<1>7. QED
  BY <1>2, <1>3, <1>4, <1>5, <1>6 DEF Next, MainStep, Failure

(* What run() knows when it comes to the final check. *)
LEMMA AtTheFinalCheck ==
    ASSUME TypeOK, ControlInv, TaskInv, CaptureInv, SettledInv, pc = "judge",
           NEW s \in Streams, Captured(s)
    PROVE  /\ output[s] = out[s]
           /\ task[s] # "none"
           /\ out[s].content.bytes = Capture(delivered[s], args.limit)
           /\ out[s].content.incomplete <=> Len(delivered[s]) > args.limit
           /\ out[s].limitReached <=> Len(out[s].content.bytes) = args.limit
           /\ out[s].complete <=> task[s] = "finished"
           /\ task[s] = "finished" => holders[s] = {} /\ pipe[s] = <<>>
           /\ delivered[s] \in Seq(Bytes) /\ pipe[s] \in Seq(Bytes)
           /\ Needles(s) \in SUBSET Seq(Bytes) /\ args.limit \in Nat
<1>1. task[s] # "none"
  BY DEF TaskInv
<1>2. output[s] = out[s]
  BY DEF SettledInv, Settled
<1>3. QED
  BY <1>1, <1>2, RequestFields DEF TaskInv, CaptureInv, TypeOK

LEMMA HealthyStep ==
    ASSUME TypeOK, ControlInv, TaskInv, CaptureInv, SettledInv, Judge,
           verdict' = "healthy"
    PROVE  HealthyIsEarned'
<1>1. /\ pc = "judge" /\ ~Lacking("stdout") /\ ~Lacking("stderr")
      /\ UNCHANGED <<args, status, pipe, delivered>>
  BY DEF Judge, Return, WhyMissing, pipeVars
<1>2. status' \in SuccessCodes'
  BY <1>1, RequestIsFixed DEF ControlInv, After
<1>3. ASSUME NEW s \in Streams, NEW n \in Needles(s)
      PROVE  ContainsSlice(Visible(s), n)
  <2>1. Captured(s)
    BY <1>3 DEF Captured
  <2>2. ContainsSlice(output[s].content.bytes, n)
    BY <1>1, <1>3 DEF Lacking, MissingNeedles
  <2>3. /\ ContainsSlice(Capture(delivered[s], args.limit), n)
        /\ delivered[s] \in Seq(Bytes) /\ pipe[s] \in Seq(Bytes)
        /\ n \in Seq(Bytes) /\ args.limit \in Nat
    BY <1>1, <1>3, <2>1, <2>2, AtTheFinalCheck
  <2>4. QED
    BY <2>3, FoundStaysFound DEF Visible, Written
<1>4. \A s \in Streams : Visible(s)' = Visible(s)
  BY <1>1 DEF Visible, Written
<1>5. \A s \in Streams : Needles(s)' = Needles(s)
  BY <1>1, RequestIsFixed
<1>6. QED
  BY <1>2, <1>3, <1>4, <1>5 DEF HealthyIsEarned

(* The stream a verdict of the final check is about, and why. *)
LEMMA JudgeBlames ==
    ASSUME Judge, verdict' # "healthy"
    PROVE  /\ blamed' \in Streams
           /\ Lacking(blamed')
           /\ verdict' = WhyMissing(output[blamed'])
BY DEF Judge, Return

LEMMA AbsenceStep ==
    ASSUME TypeOK, ControlInv, TaskInv, CaptureInv, SettledInv, Judge,
           verdict' = "missing"
    PROVE  AbsenceIsProven'
<1>1. PICK s \in Streams :
          s = blamed' /\ Lacking(s) /\ WhyMissing(output[s]) = "missing"
  BY JudgeBlames
<1>2. pc = "judge" /\ UNCHANGED <<args, holders, pipe, delivered>>
  BY DEF Judge, pipeVars
<1>3. PICK n \in Needles(s) : ~ContainsSlice(output[s].content.bytes, n)
  BY <1>1 DEF Lacking, MissingNeedles
<1>4. output[s].complete /\ ~output[s].content.incomplete
  BY <1>1 DEF WhyMissing, BoundaryBeforeEof
<1>5. Captured(s)
  BY <1>3 DEF Captured
<1>6. /\ holders[s] = {} /\ pipe[s] = <<>>
      /\ ~(Len(delivered[s]) > args.limit)
      /\ ~ContainsSlice(Capture(delivered[s], args.limit), n)
      /\ delivered[s] \in Seq(Bytes) /\ args.limit \in Nat
  BY <1>1, <1>2, <1>3, <1>4, <1>5, AtTheFinalCheck
<1>7. Len(delivered[s]) <= args.limit
  BY <1>6, LenProperties
<1>8. Written(s) = delivered[s]
  BY <1>6, ConcatEmptySeq DEF Written
<1>9. ~ContainsSlice(Written(s), n)
  BY <1>6, <1>7, <1>8, CaptureWhole
<1>10. Written(s)' = Written(s) /\ Needles(s)' = Needles(s)
  BY <1>2 DEF Written, Needles
<1>11. QED
  BY <1>1, <1>2, <1>6, <1>7, <1>8, <1>9, <1>10 DEF AbsenceIsProven

LEMMA LimitStep ==
    ASSUME TypeOK, ControlInv, TaskInv, CaptureInv, SettledInv, Judge,
           verdict' = "limit"
    PROVE  LimitIsReal'
<1>1. PICK s \in Streams :
          s = blamed' /\ Lacking(s) /\ WhyMissing(output[s]) = "limit"
  BY JudgeBlames
<1>2. pc = "judge" /\ UNCHANGED <<args, pipe, delivered, task>>
  BY DEF Judge, pipeVars, readerVars
<1>3. PICK n \in Needles(s) : ~ContainsSlice(output[s].content.bytes, n)
  BY <1>1 DEF Lacking, MissingNeedles
<1>4. BoundaryBeforeEof(output[s])
  BY <1>1 DEF WhyMissing
<1>5. Captured(s)
  BY <1>3 DEF Captured
<1>6. /\ ~ContainsSlice(Capture(delivered[s], args.limit), n)
      /\ delivered[s] \in Seq(Bytes) /\ pipe[s] \in Seq(Bytes)
      /\ args.limit \in Nat
  BY <1>1, <1>2, <1>3, <1>5, AtTheFinalCheck
<1>7. \/ Len(delivered[s]) > args.limit
      \/ /\ Len(Capture(delivered[s], args.limit)) = args.limit
         /\ task[s] # "finished"
  BY <1>1, <1>2, <1>4, <1>5, AtTheFinalCheck DEF BoundaryBeforeEof
<1>8. /\ Len(delivered[s]) \in Nat /\ Len(pipe[s]) \in Nat
      /\ Len(Capture(delivered[s], args.limit))
            = Least(Len(delivered[s]), args.limit)
  BY <1>6, CaptureProperties, LenProperties
<1>9. Len(delivered[s]) >= args.limit
  BY <1>6, <1>7, <1>8 DEF Least
<1>10. Len(Written(s)) = Len(delivered[s]) + Len(pipe[s])
  BY <1>6, ConcatProperties DEF Written
<1>11. ~ContainsSlice(Visible(s), n)
  BY <1>6, <1>9, FullStaysSame DEF Visible, Written
<1> DEFINE read == Len(delivered[s])
           left == Len(pipe[s])
           all  == Len(Written(s))
<1>12. /\ read \in Nat /\ left \in Nat /\ args.limit \in Nat
       /\ all = read + left /\ read >= args.limit
       /\ read > args.limit \/ task[s] # "finished"
  BY <1>6, <1>7, <1>8, <1>9, <1>10
<1> HIDE DEF read, left, all
<1>13. all >= args.limit /\ (all = args.limit => task[s] # "finished")
  BY <1>12
<1>14. /\ Written(s)' = Written(s) /\ Needles(s)' = Needles(s)
       /\ Visible(s)' = Visible(s)
  BY <1>2 DEF Written, Needles, Visible
<1>15. QED
  BY <1>1, <1>2, <1>11, <1>12, <1>13, <1>14 DEF LimitIsReal, all

VerdictInv == HealthyIsEarned /\ AbsenceIsProven /\ LimitIsReal

LEMMA VerdictStep ==
    ASSUME TypeOK, ControlInv, TaskInv, CaptureInv, SettledInv, VerdictInv,
           [Next]_vars
    PROVE  VerdictInv'
<1>1. CASE pc = "done"
  <2>1. UNCHANGED vars
    BY <1>1, DoneIsFinal
  <2>2. UNCHANGED <<args, verdict, blamed, status, holders, pipe, delivered,
                    task>>
    BY <2>1 DEF vars, mainVars, childVars, pipeVars, readerVars
  <2>3. QED
    BY <2>2 DEF VerdictInv, HealthyIsEarned, AbsenceIsProven, LimitIsReal,
                Visible, Written, Needles, SuccessCodes
<1>2. CASE pc # "done"
  <2>1. verdict = "none"
    BY <1>2 DEF ControlInv
  <2>2. CASE verdict' \in {"healthy", "missing", "limit"}
    <3>1. Judge
      BY <2>1, <2>2, OnlyJudgeJudges
    <3>2. QED
      BY <2>2, <3>1, HealthyStep, AbsenceStep, LimitStep
         DEF VerdictInv, HealthyIsEarned, AbsenceIsProven, LimitIsReal
  <2>3. CASE verdict' \notin {"healthy", "missing", "limit"}
    BY <2>3 DEF VerdictInv, HealthyIsEarned, AbsenceIsProven, LimitIsReal
  <2>4. QED
    BY <2>2, <2>3
<1>3. QED
  BY <1>1, <1>2

-----------------------------------------------------------------------------
(* Processes and what they have written. *)
LEMMA WrittenLength ==
    ASSUME TypeOK, NEW s \in Streams
    PROVE  /\ Written(s) \in Seq(Bytes)
           /\ Len(delivered[s]) \in Nat /\ Len(pipe[s]) \in Nat
           /\ Len(Written(s)) = Len(delivered[s]) + Len(pipe[s])
<1>1. delivered[s] \in Seq(Bytes) /\ pipe[s] \in Seq(Bytes)
  BY DEF TypeOK
<1>2. QED
  BY <1>1, LenProperties, ConcatProperties DEF Written

(* Reading moves bytes from the pipe to what was delivered. *)
LEMMA ReadMoves ==
    ASSUME TypeOK, NEW s \in Streams, ReadChunk(s)
    PROVE  /\ Written(s)' = Written(s)
           /\ Len(delivered[s]) < Len(delivered'[s])
           /\ Len(delivered'[s]) \in Nat
           /\ \A x \in Streams \ {s} : /\ delivered'[x] = delivered[x]
                                       /\ pipe'[x] = pipe[x]
<1> DEFINE n     == Least(ReadSize, Len(pipe[s]))
           chunk == SubSeq(pipe[s], 1, n)
<1>1. /\ delivered[s] \in Seq(Bytes) /\ pipe[s] \in Seq(Bytes)
      /\ Len(delivered[s]) \in Nat /\ Len(pipe[s]) \in Nat \ {0}
      /\ pipe[s] # <<>>
  BY LenProperties, EmptySeq DEF TypeOK, ReadChunk
<1>2. n \in Nat \ {0} /\ n <= Len(pipe[s])
  BY <1>1, SizeAssumption DEF Least
<1>3. /\ pipe'[s] = Suffix(pipe[s], n)
      /\ delivered'[s] = delivered[s] \o chunk
      /\ \A x \in Streams \ {s} : delivered'[x] = delivered[x]
                                  /\ pipe'[x] = pipe[x]
  BY DEF ReadChunk, TypeOK
<1> HIDE DEF n
<1>4. /\ chunk \in Seq(Bytes) /\ Len(chunk) = n
      /\ Suffix(pipe[s], n) \in Seq(Bytes)
      /\ chunk \o Suffix(pipe[s], n) = pipe[s]
  BY <1>1, <1>2, Prefix, SuffixProperties, PrefixAndSuffix
<1> HIDE DEF chunk
<1>5. (delivered[s] \o chunk) \o Suffix(pipe[s], n)
          = delivered[s] \o (chunk \o Suffix(pipe[s], n))
  <2>1. \A u, v, w \in Seq(Bytes) : (u \o v) \o w = u \o (v \o w)
    BY ConcatAssociative
  <2>2. QED
    BY <1>1, <1>4, <2>1
<1>6. Len(delivered[s] \o chunk) = Len(delivered[s]) + n
  BY <1>1, <1>4, ConcatProperties
<1>7. QED
  BY <1>1, <1>2, <1>3, <1>4, <1>5, <1>6 DEF Written

LEMMA ProcInit == Init => ProcInv
<1>1. Len(<<>> \o <<>>) = 0
  OBVIOUS
<1>2. QED
  BY <1>1 DEF Init, ProcInv, Written

(* No signal brings a process back or ends it at once. *)
LEMMA KillSpares ==
    ASSUME TypeOK, NEW ps, proc' = Kill(ps) \/ UNCHANGED proc
    PROVE  \A p \in Procs :
              \/ proc'[p] = proc[p]
              \/ proc[p] \in {"member", "away"} /\ proc'[p] = "dying"
BY DEF TypeOK, Kill, Alive

LEMMA ProcStep ==
    ASSUME TypeOK, ControlInv, ProcInv, [Next]_vars
    PROVE  ProcInv'
<1> USE DEF ProcInv
<1>1. ASSUME UNCHANGED <<holders, status, atExit>>,
             \A s \in Streams : Len(Written(s)) <= Len(Written(s))',
             \A p \in Procs :
                \/ proc'[p] = proc[p]
                \/ proc[p] \in {"member", "away"} /\ proc'[p] \in {"away", "dying"}
      PROVE  ProcInv'
  <2>1. \A s \in Streams : /\ Len(Written(s)) \in Int /\ Len(Written(s))' \in Int
                           /\ atExit[s] \in Nat
    BY TypeStep, WrittenLength DEF TypeOK
  <2>2. \A s \in Streams : atExit'[s] <= Len(Written(s))'
    BY <1>1, <2>1
  <2>3. QED
    BY <1>1, <2>2 DEF TypeOK, Procs
<1>2. ASSUME UNCHANGED <<pipe, delivered>>
      PROVE  \A s \in Streams : Len(Written(s)) <= Len(Written(s))'
  <2>1. \A s \in Streams : Written(s)' = Written(s)
    BY <1>2 DEF Written
  <2>2. QED
    BY <2>1, WrittenLength
<1>3. ASSUME UNCHANGED <<pipe, delivered, holders, status, atExit, proc>>
      PROVE  ProcInv'
  BY <1>1, <1>2, <1>3
<1>4. ASSUME NEW ps, proc' = Kill(ps) \/ UNCHANGED proc,
             UNCHANGED <<pipe, delivered, holders, status, atExit>>
      PROVE  ProcInv'
  BY <1>1, <1>2, <1>4, KillSpares
<1>5. CASE Reject \/ SpawnFails \/ Deadline
  BY <1>3, <1>5 DEF Reject, SpawnFails, Deadline, pipeVars, childVars
<1>6. CASE DeadlineOverflows \/ WaitFails \/ WaitTimesOut
  BY <1>4, <1>6 DEF DeadlineOverflows, WaitFails, WaitTimesOut, TerminateChild,
                    pipeVars
<1>7. CASE AcceptCode \/ RefuseCode \/ Judge
  BY <1>4, <1>7 DEF AcceptCode, RefuseCode, Judge, Terminate, pipeVars
<1>8. CASE Spawn
  <2>1. /\ proc[Leader] = "unborn" /\ proc'[Leader] = "member"
        /\ \A s \in Streams : holders'[s] \subseteq {Leader}
        /\ UNCHANGED <<status, atExit, pipe, delivered>>
    BY <1>8 DEF Spawn, ControlInv, TypeOK, Procs
  <2>2. status = NoStatus
    BY <2>1
  <2>3. \A s \in Streams : atExit'[s] <= Len(Written(s))'
    BY <2>1 DEF Written
  <2>4. QED
    BY <2>1, <2>2, <2>3
<1>9. CASE WaitReady
  <2>1. /\ proc[Leader] = "zombie" /\ proc'[Leader] = "gone"
        /\ \A p \in Procs \ {Leader} : proc'[p] = proc[p]
        /\ UNCHANGED <<holders, status, atExit, pipe, delivered>>
    BY <1>9 DEF WaitReady, TypeOK, Procs, pipeVars
  <2>2. \A s \in Streams : Leader \notin holders[s] /\ holders[s] \subseteq Procs
    BY <2>1 DEF TypeOK
  <2>3. \A s \in Streams : atExit'[s] <= Len(Written(s))'
    BY <2>1 DEF Written
  <2>4. QED
    BY <2>1, <2>2, <2>3
<1>10. ASSUME NEW s \in Streams, Collect(s)
       PROVE  ProcInv'
  <2>1. UNCHANGED <<pipe, delivered, holders, status, atExit>>
    BY <1>10 DEF Collect, CollectNothing, CollectFinished, CollectDecided,
                 CollectOutOfTime, CollectStale, BeginSettle, SettleJoined,
                 SettleChanged, SettleTimesOut, CollectUnchanged, pipeVars
  <2>2. ASSUME Join(s)  PROVE proc' = Kill(Members) \/ UNCHANGED proc
    BY <2>2, Zenon DEF Join, Collected, CollectFails, Terminate
  <2>3. proc' = Kill(Members) \/ UNCHANGED proc
    BY <1>10, <2>2
       DEF Collect, CollectNothing, CollectFinished, CollectDecided,
           CollectOutOfTime, CollectStale, BeginSettle, SettleJoined,
           SettleChanged, SettleTimesOut, TakeSnapshot, Collected
  <2>4. QED
    BY <2>1, <2>3, <1>4
<1>11. ASSUME NEW s \in Streams, ReaderStep(s) \/ ReadFails(s)
       PROVE  ProcInv'
  <2>1. UNCHANGED <<holders, status, atExit, proc>>
    BY <1>11 DEF ReaderStep, ReadChunk, ReadEof, ReadFails, childVars, pipeVars
  <2>2. CASE ReadEof(s) \/ ReadFails(s)
    BY <2>1, <2>2, <1>3 DEF ReadEof, ReadFails, pipeVars
  <2>3. CASE ReadChunk(s)
    <3>1. \A x \in Streams : Written(x)' = Written(x)
      BY <2>3, ReadMoves DEF Written
    <3>2. \A x \in Streams : Len(Written(x)) <= Len(Written(x))'
      BY <3>1, WrittenLength
    <3>3. QED
      BY <2>1, <3>2, <1>1
  <2>4. QED
    BY <1>11, <2>2, <2>3 DEF ReaderStep
<1>12. ASSUME NEW p \in Procs, NEW st, Ends(p, st), proc[p] # "unborn",
              proc[p] # "gone"
       PROVE  ProcInv'
  <2>1. /\ \A s \in Streams : holders'[s] = holders[s] \ {p}
        /\ \A q \in Procs \ {p} : proc'[q] = proc[q]
        /\ UNCHANGED <<pipe, delivered>>
    BY <1>12 DEF Ends, Release, TypeOK
  <2>2. \A s \in Streams : Written(s)' = Written(s)
    BY <2>1 DEF Written
  <2>3. CASE p = Leader
    <3>1. /\ proc'[Leader] = "zombie"
          /\ \A s \in Streams : atExit'[s] = Len(Written(s))
      BY <1>12, <2>3 DEF Ends, TypeOK
    <3>2. \A s \in Streams : atExit'[s] <= Len(Written(s))'
      BY <3>1, <2>2, WrittenLength
    <3>3. QED
      BY <2>1, <3>1, <3>2 DEF TypeOK
  <2>4. CASE p # Leader
    <3>1. UNCHANGED <<status, atExit>> /\ proc'[Leader] = proc[Leader]
      BY <1>12, <2>1, <2>4 DEF Ends, Procs
    <3>2. \A s \in Streams : atExit'[s] <= Len(Written(s))'
      BY <3>1, <2>2
    <3>3. QED
      BY <2>1, <3>1, <3>2 DEF TypeOK
  <2>5. QED
    BY <2>3, <2>4
<1>13. ASSUME NEW p \in Procs, ProcessStep(p)
       PROVE  ProcInv'
  <2>1. ASSUME NEW s \in Streams, CloseStream(p, s)
        PROVE  ProcInv'
    <3>1. /\ \A x \in Streams : holders'[x] \subseteq holders[x]
          /\ UNCHANGED <<pipe, delivered, status, atExit, proc>>
      BY <2>1 DEF CloseStream, TypeOK, childVars
    <3>2. \A x \in Streams : atExit'[x] <= Len(Written(x))'
      BY <3>1 DEF Written
    <3>3. QED
      BY <3>1, <3>2 DEF TypeOK
  <2>2. ASSUME NEW s \in Streams, NEW b \in Bytes, Write(p, s, b)
        PROVE  ProcInv'
    <3>1. /\ UNCHANGED <<holders, status, atExit, proc, delivered>>
          /\ pipe'[s] = Append(pipe[s], b)
          /\ \A x \in Streams \ {s} : pipe'[x] = pipe[x]
      BY <2>2 DEF Write, childVars, TypeOK
    <3>2. \A x \in Streams : Len(pipe[x]) <= Len(pipe'[x]) /\ Len(pipe'[x]) \in Nat
      <4>1. Len(pipe'[s]) = Len(pipe[s]) + 1
        BY <3>1, AppendProperties DEF TypeOK
      <4>2. \A x \in Streams : Len(pipe[x]) \in Nat
        BY WrittenLength
      <4>3. QED
        BY <3>1, <4>1, <4>2
    <3>3. ASSUME NEW x \in Streams
          PROVE  /\ Len(Written(x)) = Len(delivered[x]) + Len(pipe[x])
                 /\ Len(Written(x))' = Len(delivered[x]) + Len(pipe'[x])
                 /\ Len(delivered[x]) \in Nat /\ Len(pipe[x]) \in Nat
      <4>1. TypeOK'
        BY TypeStep
      <4>2. delivered[x] \in Seq(Bytes) /\ pipe'[x] \in Seq(Bytes)
        BY <4>1 DEF TypeOK
      <4>3. Len(delivered[x] \o pipe'[x]) = Len(delivered[x]) + Len(pipe'[x])
        BY <4>2, ConcatProperties
      <4>4. QED
        BY <3>1, <4>3, WrittenLength DEF Written
    <3>4. ASSUME NEW x \in Streams
          PROVE  Len(Written(x)) <= Len(Written(x))'
      <4>1. /\ Len(pipe[x]) <= Len(pipe'[x]) /\ Len(pipe'[x]) \in Nat
            /\ Len(pipe[x]) \in Nat /\ Len(delivered[x]) \in Nat
        BY <3>2, <3>3
      <4>2. Len(delivered[x]) + Len(pipe[x]) <= Len(delivered[x]) + Len(pipe'[x])
        BY <4>1
      <4>3. QED
        BY <3>3, <4>2
    <3>5. QED
      BY <3>1, <3>4, <1>1
  <2>3. ASSUME NEW d \in Descendants, Fork(p, d)
        PROVE  ProcInv'
    <3>1. /\ proc[p] \in {"member", "away"} /\ proc[d] = "unborn"
          /\ proc'[d] = proc[p]
          /\ \A q \in Procs \ {d} : proc'[q] = proc[q]
          /\ \A s \in Streams : holders'[s] \subseteq holders[s] \cup {d}
          /\ UNCHANGED <<pipe, delivered, status, atExit>>
          /\ d \in Procs
      BY <2>3 DEF Fork, TypeOK, Alive, Procs
    <3>2. \A s \in Streams : atExit'[s] <= Len(Written(s))'
      BY <3>1 DEF Written
    <3>3. Leader \in Procs \ {d}
      BY ProcAssumption DEF Procs
    <3>4. \A s \in Streams : holders[s] \subseteq Procs
      BY DEF TypeOK
    <3>5. QED
      BY <3>1, <3>2, <3>3, <3>4
  <2>4. CASE p \in Descendants /\ LeaveGroup(p)
    <3>1. /\ proc[p] = "member" /\ proc'[p] = "away"
          /\ \A q \in Procs \ {p} : proc'[q] = proc[q]
          /\ UNCHANGED <<pipe, delivered, holders, status, atExit>>
      BY <2>4 DEF LeaveGroup, TypeOK, pipeVars
    <3>2. QED
      BY <3>1, <1>1, <1>2
  <2>5. CASE Exit(p)
    BY <2>5, <1>12 DEF Exit, Alive
  <2>6. CASE Die(p)
    BY <2>6, <1>12 DEF Die
  <2>7. QED
    BY <1>13, <2>1, <2>2, <2>3, <2>4, <2>5, <2>6 DEF ProcessStep
<1>14. CASE Tick \/ Terminated \/ UNCHANGED vars
  BY <1>14, <1>3 DEF Tick, Terminated, vars, childVars, pipeVars
<1>15. QED
  BY <1>5, <1>6, <1>7, <1>8, <1>9, <1>10, <1>11, <1>13, <1>14
     DEF Next, MainStep, Failure

-----------------------------------------------------------------------------
(* What await_output_task may do with a stream: go on with it, move on to   *)
(* the next one for one of five reasons, or fail.                           *)
GoesOn(s) == CollectStale(s) \/ BeginSettle(s) \/ SettleChanged(s)

MovesOn(s) ==
    /\ cur' = "stderr"
    /\ s = "stdout" => pc' = "collect" /\ outputBy' = OutputDeadline
    /\ s = "stderr" => pc' = "judge"
    /\ UNCHANGED <<proc, verdict>>
    /\ \A x \in Streams : \/ task'[x] = task[x]
                          \/ x = s /\ task[x] = "running" /\ task'[x] = "aborted"
    /\ \/ ~Captured(s)
       \/ task[s] = "finished"
       \/ progress[s].matched \/ progress[s].incomplete
       \/ pc = "collect" /\ task[s] = "running" /\ SettleLimit(s) <= now
       \/ pc = "settle" /\ settleBy <= now

GivesUp(s) ==
    /\ pc' = "done"
    /\ task[s] \in {"failed", "aborted"} /\ task'[s] = task[s]

LEMMA CollectCases ==
    ASSUME TypeOK, NEW s \in Streams, Collect(s)
    PROVE  /\ pc \in {"collect", "settle"} /\ cur = s
           /\ UNCHANGED <<args, reapedAt, now, status, atExit, holders, pipe,
                          delivered, found, out, progress>>
           /\ GoesOn(s) \/ MovesOn(s) \/ GivesUp(s)
<1>1. /\ pc \in {"collect", "settle"} /\ cur = s
      /\ UNCHANGED <<args, reapedAt, now, status, atExit, holders, pipe,
                     delivered, found, out, progress>>
  BY DEF Collect, CollectNothing, CollectFinished, CollectDecided,
         CollectOutOfTime, CollectStale, BeginSettle, SettleJoined,
         SettleChanged, SettleTimesOut, Undecided, CollectUnchanged, pipeVars
<1>2. ASSUME NEW result, Collected(s, result)
      PROVE  /\ cur' = "stderr"
             /\ s = "stdout" => pc' = "collect" /\ outputBy' = OutputDeadline
             /\ s = "stderr" => pc' = "judge"
             /\ UNCHANGED <<proc, verdict>>
  BY <1>2 DEF Collected
<1>3. ASSUME task' = Aborted({s})
      PROVE  \A x \in Streams : \/ task'[x] = task[x]
                                \/ /\ x = s /\ task[x] = "running"
                                   /\ task'[x] = "aborted"
  BY <1>3 DEF Aborted, TypeOK
<1>4. CASE CollectNothing(s)
  <2>1. Collected(s, NoOutput) /\ ~Captured(s) /\ task' = task
    BY <1>4 DEF CollectNothing
  <2>2. /\ cur' = "stderr"
        /\ s = "stdout" => pc' = "collect" /\ outputBy' = OutputDeadline
        /\ s = "stderr" => pc' = "judge"
        /\ UNCHANGED <<proc, verdict>>
    BY <1>2, <2>1
  <2>3. QED
    BY <1>1, <2>1, <2>2 DEF MovesOn
<1>5. CASE CollectFinished(s) \/ SettleJoined(s)
  <2>1. Join(s)
    BY <1>5 DEF CollectFinished, SettleJoined
  <2>2. CASE task[s] = "finished" /\ Collected(s, out[s]) /\ UNCHANGED task
    <3>1. Collected(s, out[s]) /\ task[s] = "finished" /\ task' = task
      BY <2>2
    <3>2. /\ cur' = "stderr"
          /\ s = "stdout" => pc' = "collect" /\ outputBy' = OutputDeadline
          /\ s = "stderr" => pc' = "judge"
          /\ UNCHANGED <<proc, verdict>>
      BY <1>2, <3>1
    <3>3. QED
      BY <1>1, <3>1, <3>2 DEF MovesOn
  <2>3. ASSUME NEW v, task[s] \in {"failed", "aborted"}, CollectFails(s, v)
        PROVE  GivesUp(s)
    BY <2>3 DEF CollectFails, Return, Aborted, TypeOK, GivesUp
  <2>4. QED
    BY <1>1, <2>1, <2>2, <2>3 DEF Join
<1>6. CASE CollectDecided(s) \/ CollectOutOfTime(s) \/ SettleTimesOut(s)
  <2>1. task' = Aborted({s}) /\ Collected(s, out[s])
    BY <1>6 DEF CollectDecided, CollectOutOfTime, SettleTimesOut, TakeSnapshot
  <2>2. \/ progress[s].matched \/ progress[s].incomplete
        \/ pc = "collect" /\ task[s] = "running" /\ SettleLimit(s) <= now
        \/ pc = "settle" /\ settleBy <= now
    BY <1>6, <1>1, SMT
       DEF CollectDecided, CollectOutOfTime, SettleTimesOut, Undecided
  <2>3. QED
    BY <1>1, <1>2, <1>3, <2>1, <2>2 DEF MovesOn
<1>7. CASE GoesOn(s)
  BY <1>1, <1>7
<1>8. QED
  BY <1>4, <1>5, <1>6, <1>7, <1>1 DEF Collect, GoesOn

-----------------------------------------------------------------------------
(* The graces. *)
LEMMA Graces ==
    /\ {MaxGrace, EofGrace, IdleGrace, Timeout} \subseteq Nat \ {0}
    /\ TypeOK => /\ \A s \in Streams : GraceOf(s) \in Nat /\ BegunBy(s) \in Nat
                 /\ BegunBy("stderr") = BegunBy("stdout") + GraceOf("stdout")
                 /\ now \in Nat /\ outputBy \in Nat /\ settleBy \in Nat
                 /\ args.limit \in Nat
<1>1. {MaxGrace, EofGrace, IdleGrace, Timeout} \subseteq Nat \ {0}
  BY TimeAssumption
<1>2. ASSUME TypeOK
      PROVE  /\ reapedAt \in Nat /\ now \in Nat /\ outputBy \in Nat
             /\ settleBy \in Nat /\ args.limit \in Nat
  BY <1>2, RequestFields DEF TypeOK
<1>3. ASSUME TypeOK
      PROVE  /\ \A s \in Streams : GraceOf(s) \in Nat
             /\ \A s \in Streams : BegunBy(s) \in Nat
             /\ BegunBy("stderr") = BegunBy("stdout") + GraceOf("stdout")
  <2>1. \A s \in Streams : GraceOf(s) \in Nat
    BY <1>1 DEF GraceOf
  <2>2. QED
    BY <1>2, <1>3, <2>1 DEF BegunBy
<1>4. QED
  BY <1>1, <1>2, <1>3

LEMMA GracesStay ==
    ASSUME args' = args, reapedAt' = reapedAt
    PROVE  \A s \in Streams : /\ GraceOf(s)' = GraceOf(s)
                              /\ BegunBy(s)' = BegunBy(s)
BY RequestIsFixed DEF GraceOf, BegunBy

LEMMA DeadlineSpan ==
    ASSUME TypeOK, TimeInv
    PROVE  /\ now <= OutputDeadline /\ OutputDeadline <= now + MaxGrace
           /\ now < Timeout => now < OutputDeadline
           /\ OutputDeadline \in Nat
BY TimeAssumption DEF TypeOK, TimeInv, OutputDeadline, Least

(* What the progress of a reader says of what was read. *)
LEMMA ProgressIsExact ==
    ASSUME TypeOK, TaskInv, CaptureInv, GraceInv, NEW s \in Streams,
           task[s] # "none"
    PROVE  /\ progress[s].incomplete <=> Overfull(s)
           /\ progress[s].limitReached <=> Full(s)
           /\ progress[s].matched <=> out[s].matched
           /\ Len(delivered[s]) \in Nat
<1>1. /\ out[s].content.bytes = Capture(delivered[s], args.limit)
      /\ out[s].content.incomplete <=> Len(delivered[s]) > args.limit
      /\ out[s].limitReached <=> Len(out[s].content.bytes) = args.limit
  BY DEF CaptureInv
<1>2. /\ delivered[s] \in Seq(Bytes) /\ args.limit \in Nat
      /\ Len(delivered[s]) \in Nat
  BY RequestFields, LenProperties DEF TypeOK
<1>3. Len(Capture(delivered[s], args.limit)) = Least(Len(delivered[s]), args.limit)
  BY <1>2, CaptureProperties
<1>4. Least(Len(delivered[s]), args.limit) = args.limit <=> Full(s)
  BY <1>2 DEF Least, Full
<1>5. progress[s] = ProgressOf(out[s])
  BY DEF GraceInv
<1>6. QED
  BY <1>1, <1>2, <1>3, <1>4, <1>5 DEF ProgressOf, Overfull

LEMMA GraceInit == Init => GraceInv
BY DEF Init, GraceInv, Procs

LEMMA GraceStep ==
    ASSUME TypeOK, ControlInv, TimeInv, TaskInv, CaptureInv, GraceInv,
           [Next]_vars
    PROVE  GraceInv'
<1> USE DEF GraceInv
<1>0. args' = args /\ TypeOK'
  BY ArgsNeverChange, TypeStep
<1>1. ASSUME UNCHANGED <<pc, cur, outputBy, settleBy, now, reapedAt, task,
                         delivered, out, progress, unseen>>,
             pc \in {"start", "spawned", "wait", "judge", "done"}
                 => (proc'[Leader] = "gone" <=> proc[Leader] = "gone")
      PROVE  GraceInv'
  <2>1. /\ \A s \in Streams : /\ GraceOf(s)' = GraceOf(s)
                              /\ BegunBy(s)' = BegunBy(s)
                              /\ Captured(s)' <=> Captured(s)
        /\ cur \in Streams
    BY <1>0, <1>1, GracesStay, RequestIsFixed DEF TypeOK
  <2>2. \A s \in Streams : /\ Ended(s)' <=> Ended(s)
                           /\ Overfull(s)' <=> Overfull(s)
                           /\ Full(s)' <=> Full(s)
    BY <1>0, <1>1 DEF Ended, Overfull, Full
  <2>3. QED
    BY <1>1, <2>1, <2>2
<1>2. CASE Reject \/ SpawnFails
  <2>1. /\ pc' = "done" /\ UNCHANGED <<out, progress>>
        /\ proc'[Leader] # "gone"
    BY <1>2 DEF Reject, SpawnFails, Return, ControlInv, readerVars, childVars,
                Procs
  <2>2. QED
    BY <2>1
<1>3. CASE Spawn
  <2>1. pc' = "spawned" /\ UNCHANGED <<out, progress>> /\ proc'[Leader] = "member"
    BY <1>3 DEF Spawn, TypeOK, Procs
  <2>2. QED
    BY <2>1
<1>4. CASE Deadline
  BY <1>4 DEF Deadline, readerVars, childVars
<1>5. CASE DeadlineOverflows \/ WaitFails \/ WaitTimesOut
  <2>1. /\ pc' = "done" /\ UNCHANGED <<out, progress>>
        /\ pc \in {"spawned", "wait"}
        /\ proc' = Kill(Members \cup {Leader})
    BY <1>5 DEF DeadlineOverflows, WaitFails, WaitTimesOut, Return,
                TerminateChild, readerVars
  <2>2. proc'[Leader] # "gone"
    BY <2>1 DEF Kill, Procs
  <2>3. QED
    BY <2>1, <2>2
<1>6. CASE WaitReady
  BY <1>6 DEF WaitReady, readerVars
<1>7. CASE AcceptCode
  <2>1. /\ pc = "reaped" /\ pc' = "collect" /\ cur = "stdout"
        /\ outputBy' = OutputDeadline
        /\ UNCHANGED <<cur, now, reapedAt, out, progress>>
    <3>1. pc = "reaped" /\ cur = "stdout"
      BY <1>7 DEF AcceptCode, ControlInv, Before
    <3>2. QED
      BY <1>7, <3>1 DEF AcceptCode, readerVars
  <2>2. now = BegunBy(cur)
    BY <2>1, Graces DEF BegunBy, TypeOK
  <2>3. /\ outputBy' <= BegunBy(cur) + MaxGrace
        /\ now <= outputBy'
        /\ now <= BegunBy(cur) + GraceOf(cur)
    <3>1. now \in Nat /\ GraceOf(cur) \in Nat
      BY Graces DEF TypeOK
    <3>2. now <= OutputDeadline /\ OutputDeadline <= now + MaxGrace
      BY DeadlineSpan
    <3>3. QED
      BY <2>1, <2>2, <3>1, <3>2
  <2>4. /\ GraceOf(cur)' = GraceOf(cur) /\ BegunBy(cur)' = BegunBy(cur)
    BY <2>1, <1>0, GracesStay
  <2>5. QED
    BY <2>1, <2>3, <2>4
<1>8. CASE RefuseCode
  <2>1. /\ pc = "reaped" /\ pc' = "done"
        /\ UNCHANGED <<now, reapedAt, out, progress>>
    BY <1>8 DEF RefuseCode, Return
  <2>2. now <= BegunBy("stderr") + GraceOf("stderr")
    BY <2>1, Graces DEF BegunBy, TypeOK
  <2>3. QED
    BY <2>1, <2>2, <1>0, GracesStay
<1>9. CASE Judge
  <2>1. /\ pc = "judge" /\ pc' = "done"
        /\ UNCHANGED <<now, reapedAt, out, progress>>
        /\ proc[Leader] = "gone"
    BY <1>9 DEF Judge, Return, readerVars, ControlInv, After
  <2>2. QED
    BY <2>1, <1>0, GracesStay
<1>10. ASSUME NEW s \in Streams, Collect(s)
       PROVE  GraceInv'
  <2>1. /\ pc \in {"collect", "settle"} /\ cur = s
        /\ UNCHANGED <<args, reapedAt, now, delivered, out, progress>>
        /\ GoesOn(s) \/ MovesOn(s) \/ GivesUp(s)
    BY <1>10, CollectCases
  <2>2. now <= BegunBy(s) + GraceOf(s)
    BY <2>1, Graces
  <2>3. now <= BegunBy("stderr") + GraceOf("stderr")
    BY <2>1, <2>2, Graces
  <2>4. \A x \in Streams : GraceOf(x)' = GraceOf(x) /\ BegunBy(x)' = BegunBy(x)
    BY <2>1, GracesStay
  <2>5. CASE GivesUp(s)
    BY <2>1, <2>3, <2>4, <2>5 DEF GivesUp
  <2>6. CASE MovesOn(s)
    <3>1. CASE s = "stderr"
      BY <2>1, <2>3, <2>4, <2>6, <3>1 DEF MovesOn
    <3>2. CASE s = "stdout"
      <4>1. pc' = "collect" /\ cur' = "stderr" /\ outputBy' = OutputDeadline
        BY <2>6, <3>2 DEF MovesOn
      <4>2. now <= BegunBy("stderr")
        BY <2>2, <3>2, Graces
      <4>3. outputBy' <= BegunBy("stderr") + MaxGrace /\ now <= outputBy'
        BY <4>1, <4>2, Graces, DeadlineSpan
      <4>4. QED
        BY <2>1, <2>3, <2>4, <4>1, <4>3
    <3>3. QED
      BY <3>1, <3>2
  <2>7. CASE CollectStale(s)
    <3>1. /\ UNCHANGED <<pc, cur, outputBy, task>> /\ pc = "collect"
      BY <2>7 DEF CollectStale, Undecided
    <3>2. /\ Ended(s)' <=> Ended(s)
          /\ Overfull(s)' <=> Overfull(s)
      BY <2>1, <3>1 DEF Ended, Overfull
    <3>3. QED
      BY <2>1, <2>4, <3>1, <3>2
  <2>8. CASE SettleChanged(s)
    <3>1. /\ UNCHANGED <<cur, outputBy, task>> /\ pc = "settle"
          /\ pc' = "collect" /\ unseen[s]
      BY <2>8 DEF SettleChanged
    <3>2. /\ Ended(s)' <=> Ended(s)
          /\ Overfull(s)' <=> Overfull(s)
      BY <2>1, <3>1 DEF Ended, Overfull
    <3>3. now <= outputBy \/ Ended(s) \/ Overfull(s)
      BY <2>1, <3>1, Graces
    <3>4. QED
      BY <2>1, <2>2, <2>4, <3>1, <3>2, <3>3
  <2>9. CASE BeginSettle(s)
    <3>1. /\ UNCHANGED <<cur, outputBy, unseen>> /\ pc = "collect"
          /\ pc' = "settle" /\ ~unseen[s]
          /\ task[s] = "running" /\ ~progress[s].incomplete
          /\ now < SettleLimit(s)
          /\ settleBy' = Least(now + Grace(s), SettleLimit(s))
      BY <2>9 DEF BeginSettle, Undecided
    <3>2. /\ progress[s].incomplete <=> Overfull(s)
          /\ progress[s].limitReached <=> Full(s)
          /\ Captured(s)
      BY <3>1, ProgressIsExact DEF TaskInv
    <3>3. now <= outputBy /\ outputBy <= BegunBy(s) + MaxGrace
          /\ GraceOf(s) = MaxGrace + EofGrace
      BY <2>1, <3>1, <3>2 DEF Ended, GraceOf
    <3>4. CASE Full(s)
      <4>1. settleBy' = Least(now + EofGrace, Timeout)
        BY <3>1, <3>2, <3>4 DEF Grace, SettleLimit
      <4>2. now <= settleBy' /\ settleBy' <= BegunBy(s) + GraceOf(s)
        BY <4>1, <3>3, Graces DEF Least, TimeInv
      <4>3. Full(s)'
        BY <2>1, <3>4 DEF Full
      <4>4. QED
        BY <2>1, <2>4, <3>1, <3>2, <3>3, <4>2, <4>3, RequestIsFixed
    <3>5. CASE ~Full(s)
      <4>1. settleBy' = Least(now + IdleGrace, outputBy) /\ now < outputBy
        BY <3>1, <3>2, <3>5 DEF Grace, SettleLimit
      <4>2. now <= settleBy' /\ settleBy' <= outputBy
        BY <4>1, Graces DEF Least
      <4>3. settleBy' <= BegunBy(s) + GraceOf(s)
        BY <4>1, <4>2, <3>3, Graces DEF Least
      <4>4. QED
        BY <2>1, <2>4, <3>1, <3>2, <3>3, <4>2, <4>3, RequestIsFixed
    <3>6. QED
      BY <3>4, <3>5
  <2>10. QED
    BY <2>1, <2>5, <2>6, <2>7, <2>8, <2>9 DEF GoesOn
<1>11. ASSUME NEW s \in Streams, ReaderStep(s) \/ ReadFails(s)
       PROVE  GraceInv'
  <2>1. /\ UNCHANGED <<pc, cur, outputBy, settleBy, now, reapedAt, proc>>
        /\ pc \in {"wait", "settle"} /\ task[s] = "running"
    BY <1>11 DEF ReaderStep, ReadChunk, ReadEof, ReadFails, Scheduled, mainVars,
                 childVars
  <2>2. /\ \A x \in Streams \ {s} : /\ progress'[x] = progress[x]
                                    /\ out'[x] = out[x] /\ unseen'[x] = unseen[x]
                                    /\ task'[x] = task[x]
                                    /\ delivered'[x] = delivered[x]
        /\ progress'[s] = ProgressOf(out[s])'
    <3>1. CASE ReadEof(s)
      BY <3>1 DEF ReadEof, Publish, TypeOK, pipeVars
    <3>2. CASE ReadFails(s)
      BY <3>2 DEF ReadFails, Publish, TypeOK, pipeVars
    <3>3. CASE ReadChunk(s)
      BY <3>3 DEF ReadChunk, Publish, TypeOK, pipeVars
    <3>4. QED
      BY <1>11, <3>1, <3>2, <3>3 DEF ReaderStep
  <2>3. Full(s) => Full(s)' /\ (Ended(s)' \/ Overfull(s)')
    <3>1. CASE ReadEof(s) \/ ReadFails(s)
      BY <3>1, <1>0 DEF ReadEof, ReadFails, pipeVars, Ended, Full, TypeOK
    <3>2. CASE ReadChunk(s)
      <4>1. /\ Len(delivered[s]) < Len(delivered'[s])
            /\ Len(delivered[s]) \in Nat /\ Len(delivered'[s]) \in Nat
            /\ args.limit \in Nat /\ args' = args
        BY <3>2, <1>0, ReadMoves, Graces, WrittenLength
      <4>2. QED
        BY <4>1 DEF Full, Overfull
    <3>3. QED
      BY <1>11, <3>1, <3>2 DEF ReaderStep
  <2>5. /\ \A x \in Streams \ {s} : /\ Ended(x)' <=> Ended(x)
                                    /\ Overfull(x)' <=> Overfull(x)
                                    /\ Full(x)' <=> Full(x)
        /\ \A x \in Streams : /\ GraceOf(x)' = GraceOf(x)
                              /\ BegunBy(x)' = BegunBy(x)
                              /\ Captured(x)' <=> Captured(x)
    BY <2>1, <2>2, <1>0, GracesStay, RequestIsFixed DEF Ended, Overfull, Full
  <2>6. cur \in Streams
    BY DEF TypeOK
  <2>7. CASE pc = "wait"
    BY <2>1, <2>2, <2>7
  <2>8. CASE pc = "settle"
    BY <2>1, <2>2, <2>3, <2>5, <2>6, <2>8
  <2>9. QED
    BY <2>1, <2>7, <2>8
<1>12. ASSUME NEW p \in Procs, ProcessStep(p)
       PROVE  GraceInv'
  <2>1. UNCHANGED <<pc, cur, outputBy, settleBy, now, reapedAt, task, delivered,
                    out, progress, unseen>>
    BY <1>12 DEF ProcessStep, CloseStream, Write, Fork, LeaveGroup, Exit, Die,
                 Ends, mainVars, readerVars, pipeVars
  <2>2. pc \notin {"start", "done"}
    BY <1>12 DEF ProcessStep, CloseStream, Write, Fork, LeaveGroup, Exit, Die,
                 Running
  <2>3. proc'[Leader] = "gone" => proc[Leader] = "gone"
    <3>1. ASSUME NEW st, Ends(p, st)
          PROVE  proc'[Leader] = "gone" => proc[Leader] = "gone"
      BY <3>1 DEF Ends, TypeOK, Procs
    <3>2. ASSUME NEW d \in Descendants, Fork(p, d)
          PROVE  proc'[Leader] = proc[Leader]
      BY <3>2, ProcAssumption DEF Fork, TypeOK, Procs
    <3>3. ASSUME p \in Descendants, LeaveGroup(p)
          PROVE  proc'[Leader] = proc[Leader]
      BY <3>3, ProcAssumption DEF LeaveGroup, TypeOK, Procs
    <3>4. QED
      BY <1>12, <3>1, <3>2, <3>3
         DEF ProcessStep, CloseStream, Write, Exit, Die, childVars
  <2>4. pc = "judge" => proc'[Leader] = "gone"
    <3>1. CASE pc = "judge"
      <4>1. proc[Leader] = "gone"
        BY <3>1 DEF ControlInv, After
      <4>2. pc' = "judge" /\ ControlInv'
        BY <2>1, <3>1, ControlStep
      <4>3. QED
        BY <4>2 DEF ControlInv, After
    <3>2. QED
      BY <3>1
  <2>5. pc = "judge" => proc[Leader] = "gone"
    BY DEF ControlInv, After
  <2>6. QED
    BY <2>1, <2>2, <2>3, <2>4, <2>5, <1>1
<1>13. CASE Tick
  <2>1. /\ now' = now + 1 /\ pc \in {"wait", "settle"}
        /\ pc = "settle" => now < settleBy
        /\ UNCHANGED <<pc, cur, outputBy, settleBy, reapedAt, task, delivered,
                       out, progress, unseen, proc>>
    BY <1>13 DEF Tick, mainVars, readerVars, childVars, pipeVars
  <2>2. CASE pc = "wait"
    BY <2>1, <2>2
  <2>3. CASE pc = "settle"
    <3>1. now + 1 <= settleBy
      BY <2>1, <2>3, Graces
    <3>2. /\ \A s \in Streams : /\ GraceOf(s)' = GraceOf(s)
                                /\ BegunBy(s)' = BegunBy(s)
                                /\ Captured(s)' <=> Captured(s)
          /\ cur \in Streams
      BY <1>0, <2>1, GracesStay, RequestIsFixed DEF TypeOK
    <3>3. \A s \in Streams : /\ Ended(s)' <=> Ended(s)
                             /\ Overfull(s)' <=> Overfull(s)
                             /\ Full(s)' <=> Full(s)
      BY <1>0, <2>1 DEF Ended, Overfull, Full
    <3>4. QED
      BY <2>1, <2>3, <3>1, <3>2, <3>3
  <2>4. QED
    BY <2>1, <2>2, <2>3
<1>14. CASE Terminated \/ UNCHANGED vars
  BY <1>14, <1>1 DEF Terminated, vars, mainVars, readerVars, childVars, pipeVars
<1>15. QED
  BY <1>2, <1>3, <1>4, <1>5, <1>6, <1>7, <1>8, <1>9, <1>10, <1>11, <1>12,
     <1>13, <1>14 DEF Next, MainStep, Failure

-----------------------------------------------------------------------------
(* A host without delays. *)

(* A reader that is not running is not started again, and what it has read  *)
(* or found is not taken back.                                              *)
LEMMA PromptStep ==
    ASSUME TypeOK, ControlInv, TimeInv, TaskInv, CaptureInv, SettledInv,
           GraceInv, ProcInv, PromptInv, [Next]_vars
    PROVE  PromptInv'
<1> SUFFICES ASSUME Prompt, reapedAt' < Timeout, After'
             PROVE  PromptInv'
  BY DEF PromptInv
<1> USE DEF After
<1> DEFINE Known(s) ==
        Captured(s) /\ Settled(s) =>
            /\ \/ task[s] = "failed" \/ out[s].matched
               \/ Overfull(s) \/ CaughtUp(s)
            /\ Alone => \/ task[s] \in {"failed", "finished"}
                        \/ out[s].matched \/ Overfull(s)
<1>0. /\ args' = args /\ TypeOK'
      /\ \A s \in Streams : Captured(s)' <=> Captured(s)
  BY ArgsNeverChange, TypeStep, RequestIsFixed
<1>1. /\ now \in Nat /\ reapedAt \in Nat /\ outputBy \in Nat /\ settleBy \in Nat
      /\ Timeout \in Nat /\ cur \in Streams
  BY TimeAssumption DEF TypeOK
<1>2. ASSUME UNCHANGED <<reapedAt, now>>, After,
             ~Alone => ~Alone',
             now = reapedAt => /\ pc' # "judge" => now < outputBy'
                               /\ pc' = "settle" => now < settleBy',
             \A s \in Streams : Ended(s) \/ CaughtUp(s)
                                    => Ended(s)' \/ CaughtUp(s)',
             \A s \in Streams : Known(s)'
      PROVE  PromptInv'
  BY <1>2 DEF PromptInv
<1>3. ASSUME NEW s \in Streams, Settled(s)' => Settled(s), Known(s),
             Alone' => Alone, UNCHANGED <<atExit, args>>,
             task'[s] = task[s], delivered'[s] = delivered[s],
             out'[s] = out[s]
      PROVE  Known(s)'
  BY <1>0, <1>3 DEF Overfull, CaughtUp
<1>4. ASSUME After, reapedAt < Timeout
      PROVE  \A s \in Streams : Known(s)
  BY <1>4 DEF PromptInv
<1>5. ASSUME UNCHANGED proc
      PROVE  Alone' <=> Alone
  BY <1>5 DEF Alone
<1>6. CASE Reject \/ SpawnFails \/ Spawn \/ Deadline \/ DeadlineOverflows
           \/ WaitReady \/ WaitFails \/ WaitTimesOut \/ RefuseCode \/ Judge
  BY <1>6 DEF Reject, SpawnFails, Spawn, Deadline, DeadlineOverflows, WaitReady,
              WaitFails, WaitTimesOut, RefuseCode, Judge, Return
<1>7. CASE AcceptCode
  <2>1. /\ now = reapedAt /\ pc' = "collect" /\ cur' = "stdout"
        /\ outputBy' = OutputDeadline /\ UNCHANGED <<now, reapedAt>>
    BY <1>7 DEF AcceptCode, GraceInv, ControlInv, Before
  <2>2. now < outputBy'
    BY <2>1, DeadlineSpan
  <2>3. \A s \in Streams : ~Settled(s)'
    BY <2>1 DEF Settled
  <2>4. QED
    BY <2>1, <2>2, <2>3, <1>1 DEF PromptInv
<1>8. ASSUME NEW s \in Streams, Collect(s)
      PROVE  PromptInv'
  <2>1. /\ pc \in {"collect", "settle"} /\ cur = s
        /\ UNCHANGED <<args, reapedAt, now, atExit, delivered, out, progress,
                       pipe>>
        /\ GoesOn(s) \/ MovesOn(s) \/ GivesUp(s)
    BY <1>8, CollectCases
  <2>2. \A x \in Streams : Known(x)
    BY <2>1, <1>4
  <2>3. CASE GivesUp(s)
    BY <2>3 DEF GivesUp
  <2>4. CASE GoesOn(s)
    <3>1. UNCHANGED <<cur, outputBy, task, proc>> /\ pc' \in {"collect", "settle"}
      BY <2>1, <2>4 DEF GoesOn, CollectStale, BeginSettle, SettleChanged
    <3>2. \A x \in Streams : Known(x)'
      BY <2>1, <2>2, <3>1, <1>3, <1>5 DEF Settled
    <3>3. ASSUME now = reapedAt
          PROVE  now < outputBy' /\ (pc' = "settle" => now < settleBy')
      <4>1. now < outputBy /\ (pc = "settle" => now < settleBy)
        BY <2>1, <3>3 DEF PromptInv
      <4>2. CASE BeginSettle(s)
        <5>1. /\ settleBy' = Least(now + Grace(s), SettleLimit(s))
              /\ now < SettleLimit(s)
          BY <4>2 DEF BeginSettle
        <5>2. SettleLimit(s) \in Nat /\ Grace(s) \in Nat \ {0}
          BY <1>1, Graces DEF SettleLimit, Grace
        <5>3. now < settleBy'
          BY <5>1, <5>2, <1>1 DEF Least
        <5>4. QED
          BY <3>1, <4>1, <5>3
      <4>3. CASE CollectStale(s) \/ SettleChanged(s)
        <5>1. UNCHANGED settleBy /\ (pc' = pc \/ pc' = "collect")
          BY <4>3 DEF CollectStale, SettleChanged
        <5>2. QED
          BY <3>1, <4>1, <5>1
      <4>4. QED
        BY <2>4, <4>2, <4>3 DEF GoesOn
    <3>4. \A x \in Streams : /\ Ended(x)' <=> Ended(x)
                             /\ CaughtUp(x)' <=> CaughtUp(x)
      BY <2>1, <3>1 DEF Ended, CaughtUp
    <3>5. Alone' <=> Alone
      BY <3>1, <1>5
    <3>6. QED
      BY <2>1, <3>2, <3>3, <3>4, <3>5, <1>2
  <2>5. CASE MovesOn(s)
    <3>1. /\ cur' = "stderr"
          /\ s = "stdout" => pc' = "collect" /\ outputBy' = OutputDeadline
          /\ s = "stderr" => pc' = "judge"
          /\ UNCHANGED proc
          /\ \A x \in Streams : \/ task'[x] = task[x]
                                \/ /\ x = s /\ task[x] = "running"
                                   /\ task'[x] = "aborted"
      BY <2>5 DEF MovesOn
    <3>2. now = reapedAt => /\ pc' # "judge" => now < outputBy'
                            /\ pc' = "settle" => now < settleBy'
      BY <2>1, <3>1, DeadlineSpan
    <3>3. \A x \in Streams : /\ Ended(x) => Ended(x)'
                             /\ CaughtUp(x)' <=> CaughtUp(x)
      BY <2>1, <3>1 DEF Ended, CaughtUp
    <3>4. ASSUME NEW x \in Streams, x # s
          PROVE  Known(x)'
      <4>1. Settled(x)' => Settled(x)
        BY <2>1, <3>1, <3>4 DEF Settled
      <4>2. QED
        BY <2>1, <2>2, <3>1, <3>4, <4>1, <1>3, <1>5
    <3>5. ASSUME Captured(s)
          PROVE  /\ \/ task'[s] = "failed" \/ out[s].matched
                    \/ Overfull(s) \/ CaughtUp(s)
                 /\ Alone => \/ task'[s] \in {"failed", "finished"}
                             \/ out[s].matched \/ Overfull(s)
      <4>1. /\ task[s] \in {"running", "finished", "failed"}
            /\ reapedAt < Timeout
        <5>1. task[s] # "none" /\ task[s] # "aborted"
          BY <2>1, <3>5 DEF TaskInv, Settled
        <5>2. QED
          BY <2>1, <5>1 DEF TypeOK
      <4>2. CASE task[s] = "finished"
        <5>1. pipe[s] = <<>> /\ delivered[s] \in Seq(Bytes)
          BY <4>2 DEF TaskInv, TypeOK
        <5>2. Written(s) = delivered[s]
          BY <5>1, ConcatEmptySeq DEF Written
        <5>3. CaughtUp(s)
          BY <5>2 DEF ProcInv, CaughtUp
        <5>4. QED
          BY <3>1, <4>2, <5>3
      <4>3. CASE progress[s].matched \/ progress[s].incomplete
        BY <4>1, <4>3, ProgressIsExact
      <4>4. CASE \/ pc = "collect" /\ task[s] = "running" /\ SettleLimit(s) <= now
                 \/ pc = "settle" /\ settleBy <= now
        <5>1. now # reapedAt
          BY <2>1, <4>1, <4>4, <1>1 DEF PromptInv, SettleLimit
        <5>2. /\ ~Alone
              /\ Ended(s) \/ CaughtUp(s)
          BY <2>1, <4>1, <5>1, <1>1 DEF PromptInv
        <5>3. CASE task[s] = "running"
          BY <5>2, <5>3 DEF Ended
        <5>4. CASE task[s] = "failed"
          BY <3>1, <5>4
        <5>5. QED
          BY <4>1, <4>2, <5>3, <5>4
      <4>5. QED
        BY <2>5, <3>5, <4>2, <4>3, <4>4 DEF MovesOn
    <3>6. Known(s)'
      BY <2>1, <3>1, <3>5, <1>0, <1>5 DEF Overfull, CaughtUp
    <3>7. QED
      BY <2>1, <3>1, <3>2, <3>3, <3>4, <3>6, <1>2, <1>5
  <2>6. QED
    BY <2>1, <2>3, <2>4, <2>5
<1>9. ASSUME NEW s \in Streams, ReaderStep(s) \/ ReadFails(s)
      PROVE  PromptInv'
  <2>1. /\ UNCHANGED <<pc, cur, outputBy, settleBy, now, reapedAt, proc, atExit>>
        /\ task[s] = "running"
    BY <1>9 DEF ReaderStep, ReadChunk, ReadEof, ReadFails, Scheduled, mainVars,
                childVars
  <2>2. /\ \A x \in Streams \ {s} : /\ out'[x] = out[x] /\ task'[x] = task[x]
                                    /\ delivered'[x] = delivered[x]
    BY <1>9 DEF ReaderStep, ReadChunk, ReadEof, ReadFails, Publish, TypeOK,
                pipeVars
  <2>3. Ended(s)' \/ (CaughtUp(s) => CaughtUp(s)')
    <3>1. CASE ReadEof(s) \/ ReadFails(s)
      BY <3>1 DEF ReadEof, ReadFails, Ended, TypeOK
    <3>2. CASE ReadChunk(s)
      <4>1. /\ Len(delivered[s]) < Len(delivered'[s])
            /\ Len(delivered[s]) \in Nat /\ Len(delivered'[s]) \in Nat
            /\ atExit[s] \in Nat /\ atExit' = atExit
        BY <3>2, <2>1, ReadMoves, WrittenLength DEF TypeOK
      <4>2. QED
        BY <4>1 DEF CaughtUp
    <3>3. QED
      BY <1>9, <3>1, <3>2 DEF ReaderStep
  <2>4. \A x \in Streams : Settled(x)' <=> Settled(x)
    BY <2>1 DEF Settled
  <2>5. ~Settled(s)
    BY <2>1 DEF SettledInv
  <2>6. \A x \in Streams : Known(x)'
    BY <2>1, <2>2, <2>4, <2>5, <1>0, <1>3, <1>4, <1>5
  <2>7. \A x \in Streams \ {s} : /\ Ended(x)' <=> Ended(x)
                                 /\ CaughtUp(x)' <=> CaughtUp(x)
    BY <2>1, <2>2 DEF Ended, CaughtUp
  <2>8. ~Ended(s)
    BY <2>1 DEF Ended
  <2>9. now = reapedAt => /\ pc # "judge" => now < outputBy
                          /\ pc = "settle" => now < settleBy
    BY <2>1 DEF PromptInv
  <2>10. QED
    BY <2>1, <2>3, <2>6, <2>7, <2>8, <2>9, <1>2, <1>5
<1>10. ASSUME NEW p \in Procs, ProcessStep(p)
       PROVE  PromptInv'
  <2>1. UNCHANGED <<pc, cur, outputBy, settleBy, now, reapedAt, task, delivered,
                    out>>
    BY <1>10 DEF ProcessStep, CloseStream, Write, Fork, LeaveGroup, Exit, Die,
                 Ends, mainVars, readerVars, pipeVars
  <2>2. proc[Leader] = "gone" /\ Leader \in Procs
    BY <2>1 DEF ControlInv, Procs
  <2>3. ASSUME NEW st, Ends(p, st), proc[p] # "gone", proc[p] # "unborn"
        PROVE  atExit' = atExit /\ (Alone' => Alone)
    BY <2>2, <2>3 DEF Ends, Alone, TypeOK, Procs
  <2>4. ASSUME NEW d \in Descendants, Fork(p, d)
        PROVE  atExit' = atExit /\ (Alone' => Alone)
    <3>1. proc'[d] # "unborn" /\ atExit' = atExit
      BY <2>4 DEF Fork, Alive, TypeOK, Procs
    <3>2. QED
      BY <3>1 DEF Alone
  <2>5. ASSUME p \in Descendants, LeaveGroup(p)
        PROVE  atExit' = atExit /\ (Alone' => Alone)
    <3>1. proc'[p] # "unborn" /\ atExit' = atExit
      BY <2>5 DEF LeaveGroup, TypeOK, Procs
    <3>2. QED
      BY <2>5, <3>1 DEF Alone
  <2>6. atExit' = atExit /\ (Alone' => Alone)
    <3>1. ASSUME UNCHANGED <<atExit, proc>>
          PROVE  atExit' = atExit /\ (Alone' => Alone)
      BY <3>1, <1>5
    <3>2. QED
      BY <1>10, <2>3, <2>4, <2>5, <3>1
         DEF ProcessStep, CloseStream, Write, Exit, Die, Alive, childVars
  <2>7. \A s \in Streams : /\ Settled(s)' <=> Settled(s)
                           /\ Ended(s)' <=> Ended(s)
                           /\ CaughtUp(s)' <=> CaughtUp(s)
    BY <2>1, <2>6 DEF Settled, Ended, CaughtUp
  <2>8. \A s \in Streams : Known(s)'
    BY <2>1, <2>6, <2>7, <1>0, <1>3, <1>4
  <2>9. now = reapedAt => /\ pc # "judge" => now < outputBy
                          /\ pc = "settle" => now < settleBy
    BY <2>1 DEF PromptInv
  <2>10. QED
    BY <2>1, <2>6, <2>7, <2>8, <2>9, <1>2
<1>11. CASE Tick
  <2>1. /\ now' = now + 1 /\ pc = "settle" /\ Quiescent
        /\ UNCHANGED <<pc, cur, outputBy, settleBy, reapedAt, task, delivered,
                       out, proc, atExit, pipe, holders>>
    BY <1>11 DEF Tick, mainVars, readerVars, childVars, pipeVars
  <2>2. reapedAt <= now /\ reapedAt < Timeout
    BY <2>1 DEF PromptInv
  <2>3. ASSUME NEW s \in Streams, task[s] = "running"
        PROVE  pipe[s] = <<>> /\ holders[s] # {}
    BY <2>1, <2>3 DEF Quiescent, ReaderReady, Scheduled
  <2>4. ~Alone
    <3>1. task[cur] = "running"
      BY <2>1 DEF Quiescent
    <3>2. PICK p \in holders[cur] : TRUE
      BY <2>3, <3>1, <1>1
    <3>3. p \in Procs /\ proc[p] \in {"member", "away", "dying"}
      BY <3>2, <1>1 DEF ProcInv, TypeOK
    <3>4. proc[Leader] = "gone"
      BY <2>1 DEF ControlInv
    <3>5. QED
      BY <3>3, <3>4 DEF Alone, Procs
  <2>5. ASSUME NEW s \in Streams
        PROVE  Ended(s)' \/ CaughtUp(s)'
    <3>1. CASE task[s] = "running"
      <4>1. pipe[s] = <<>> /\ delivered[s] \in Seq(Bytes)
        BY <2>3, <3>1 DEF TypeOK
      <4>2. Written(s) = delivered[s]
        BY <4>1, ConcatEmptySeq DEF Written
      <4>3. QED
        BY <2>1, <4>2 DEF ProcInv, CaughtUp
    <3>2. CASE task[s] # "running"
      BY <2>1, <3>2 DEF Ended
    <3>3. QED
      BY <3>1, <3>2
  <2>6. \A s \in Streams : Settled(s)' <=> Settled(s)
    BY <2>1 DEF Settled
  <2>7. \A s \in Streams : Known(s)'
    BY <2>1, <2>2, <2>6, <1>0, <1>3, <1>4, <1>5
  <2>8. reapedAt' < now' /\ ~Alone'
    BY <2>1, <2>2, <2>4, <1>1, <1>5
  <2>9. QED
    BY <2>5, <2>7, <2>8, <1>1, <2>1 DEF PromptInv
<1>12. CASE Terminated
  BY <1>12 DEF Terminated, vars, mainVars
<1>13. CASE UNCHANGED vars
  <2>1. UNCHANGED <<pc, cur, outputBy, settleBy, reapedAt, now, task, delivered,
                    out, proc, atExit>>
    BY <1>13 DEF vars, mainVars, childVars, readerVars, pipeVars
  <2>2. \A s \in Streams : /\ Settled(s)' <=> Settled(s)
                           /\ Ended(s)' <=> Ended(s)
                           /\ CaughtUp(s)' <=> CaughtUp(s)
    BY <2>1 DEF Settled, Ended, CaughtUp
  <2>3. \A s \in Streams : Known(s)'
    BY <2>1, <2>2, <1>0, <1>3, <1>4, <1>5
  <2>4. now = reapedAt => /\ pc # "judge" => now < outputBy
                          /\ pc = "settle" => now < settleBy
    BY <2>1 DEF PromptInv
  <2>5. QED
    BY <2>1, <2>2, <2>3, <2>4, <1>2, <1>5
<1>14. QED
  BY <1>6, <1>7, <1>8, <1>9, <1>10, <1>11, <1>12, <1>13
     DEF Next, MainStep, Failure

-----------------------------------------------------------------------------
(* What is said of a command on a host without delays. *)

(* Whatever run() returns, an exit status among the success codes excludes  *)
(* every verdict but those about the output.                                *)
LEMMA DeservedReturns ==
    ASSUME TypeOK, ControlInv, GraceInv, ProcInv, [Next]_vars,
           pc # "done", pc' = "done", Prompt, Deserved',
           verdict' # "waitError", verdict' # "internal"
    PROVE  Judge
<1>0. /\ args' = args
      /\ ValidRequest' <=> ValidRequest
      /\ SuccessCodes' = SuccessCodes
      /\ \A s \in Streams : Captured(s)' <=> Captured(s)
  BY ArgsNeverChange, RequestIsFixed
<1>1. /\ ValidRequest /\ args.deadlineFits
      /\ status' \in SuccessCodes /\ SuccessCodes \subseteq 0 .. 255
      /\ status' # NoStatus /\ status' # Signalled
      /\ \A s \in Streams : task'[s] # "failed"
  BY <1>0 DEF Deserved, ValidRequest, NoStatus, Signalled
<1>2. ASSUME status = NoStatus, UNCHANGED status
      PROVE  FALSE
  BY <1>1, <1>2
<1>3. ~Reject /\ ~DeadlineOverflows
  BY <1>1 DEF Reject, DeadlineOverflows
<1>4. ~SpawnFails
  <2>1. ASSUME SpawnFails  PROVE FALSE
    <3>1. proc[Leader] = "unborn" /\ UNCHANGED status
      BY <2>1 DEF SpawnFails, ControlInv, Procs, childVars
    <3>2. QED
      BY <3>1, <1>2 DEF ProcInv
  <2>2. QED
    BY <2>1
<1>5. ~WaitTimesOut
  <2>1. ASSUME WaitTimesOut  PROVE FALSE
    <3>1. /\ proc[Leader] # "zombie" /\ proc[Leader] # "gone"
          /\ UNCHANGED status
      BY <2>1 DEF WaitTimesOut, GraceInv
    <3>2. QED
      BY <3>1, <1>2 DEF ProcInv
  <2>2. QED
    BY <2>1
<1>6. ~WaitFails
  BY DEF WaitFails, Return
<1>7. ~RefuseCode
  BY <1>1 DEF RefuseCode
<1>8. ASSUME NEW s \in Streams, Collect(s)
      PROVE  FALSE
  <2>1. GoesOn(s) \/ MovesOn(s) \/ GivesUp(s)
    BY <1>8, CollectCases
  <2>2. ~GoesOn(s)
    BY DEF GoesOn, CollectStale, BeginSettle, SettleChanged, Undecided
  <2>3. ~MovesOn(s)
    BY DEF MovesOn
  <2>4. task[s] = "aborted" /\ task'[s] = "aborted"
    BY <2>1, <2>2, <2>3, <1>1 DEF GivesUp
  <2>5. Join(s)
    BY <1>8, <2>4
       DEF Collect, CollectNothing, CollectFinished, CollectDecided,
           CollectOutOfTime, CollectStale, BeginSettle, SettleJoined,
           SettleChanged, SettleTimesOut, Undecided, TakeSnapshot, Collected
  <2>6. QED
    BY <2>4, <2>5 DEF Join, CollectFails, Return
<1>9. ASSUME NEW s \in Streams, ReaderStep(s) \/ ReadFails(s)
      PROVE  FALSE
  BY <1>9 DEF ReaderStep, ReadChunk, ReadEof, ReadFails, mainVars
<1>10. ASSUME NEW p \in Procs, ProcessStep(p)
       PROVE  FALSE
  BY <1>10 DEF ProcessStep, CloseStream, Write, Fork, LeaveGroup, Exit, Die,
               Ends, mainVars
<1>11. ~Tick /\ ~Terminated /\ ~UNCHANGED vars
  BY DEF Tick, Terminated, vars, mainVars
<1>12. ~Spawn /\ ~Deadline /\ ~WaitReady /\ ~AcceptCode
  BY DEF Spawn, Deadline, WaitReady, AcceptCode
<1>13. QED
  BY <1>3, <1>4, <1>5, <1>6, <1>7, <1>8, <1>9, <1>10, <1>11, <1>12
     DEF Next, MainStep, Failure

(* A text within what was written at the exit is in a snapshot that was     *)
(* taken for one of the good reasons.                                       *)
LEMMA WrittenIsCaptured ==
    ASSUME TypeOK, ControlInv, TaskInv, CaptureInv, ProcInv,
           NEW s \in Streams, task[s] # "none", NEW n \in Needles(s),
           out[s].matched \/ Overfull(s) \/ CaughtUp(s),
           ContainsSlice(SubSeq(Visible(s), 1,
                                Least(atExit[s], Len(Visible(s)))), n)
    PROVE  ContainsSlice(out[s].content.bytes, n)
<1> DEFINE d == delivered[s]
           w == Written(s)
           v == Visible(s)
           k == Least(atExit[s], Len(v))
           p == SubSeq(v, 1, k)
           L == args.limit
           c == Capture(d, L)
<1>1. /\ d \in Seq(Bytes) /\ pipe[s] \in Seq(Bytes) /\ w \in Seq(Bytes)
      /\ Len(d) \in Nat /\ Len(w) \in Nat /\ Len(d) <= Len(w)
      /\ L \in Nat /\ atExit[s] \in Nat /\ n \in Seq(Bytes)
  BY WrittenLength, RequestFields DEF TypeOK
<1>2. /\ v \in Seq(Bytes) /\ Len(v) = Least(Len(w), L)
      /\ \A i \in 1 .. Least(Len(w), L) : v[i] = w[i]
  BY <1>1, CaptureProperties DEF Visible
<1>3. k \in Nat /\ k <= Len(v) /\ k <= atExit[s] /\ Len(v) \in Nat
      /\ Len(v) <= Len(w) /\ Len(v) <= L
  BY <1>1, <1>2 DEF Least
<1> HIDE DEF k, v
<1>4. p \in Seq(Bytes) /\ Len(p) = k /\ \A i \in 1 .. k : p[i] = v[i]
  BY <1>2, <1>3, Prefix
<1> HIDE DEF p
<1>5. /\ out[s].content.bytes = c
      /\ found[s] = {m \in Needles(s) : ContainsSlice(c, m)}
      /\ out[s].matched <=> found[s] = Needles(s)
  BY DEF CaptureInv
<1>6. c \in Seq(Bytes) /\ Len(c) = Least(Len(d), L)
      /\ \A i \in 1 .. Least(Len(d), L) : c[i] = d[i]
  BY <1>1, CaptureProperties
<1> HIDE DEF c
<1>7. ContainsSlice(p, n)
  BY DEF p, k, v
<1>8. CASE out[s].matched
  BY <1>5, <1>8
<1>9. CASE Overfull(s)
  <2>1. c = v
    BY <1>1, <1>9, FullStaysSame DEF Overfull, Visible, Written, c, v
  <2>2. ContainsSlice(v, n)
    BY <1>1, <1>2, <1>3, <1>4, <1>7, LongerContains
  <2>3. QED
    BY <1>5, <2>1, <2>2
<1>10. CASE CaughtUp(s) /\ ~Overfull(s)
  <2>1. k <= Len(d) /\ Len(d) <= L /\ Len(c) = Len(d)
    BY <1>1, <1>3, <1>6, <1>10 DEF CaughtUp, Overfull, Least
  <2>2. ASSUME NEW i \in 1 .. k  PROVE c[i] = p[i]
    <3>1. /\ i \in 1 .. Least(Len(d), L) /\ i \in 1 .. Least(Len(w), L)
          /\ i \in 1 .. Len(d)
      BY <1>1, <1>2, <1>3, <1>6, <2>1
    <3>2. w[i] = d[i]
      <4>1. Len(pipe[s]) \in Nat
        BY WrittenLength
      <4>2. \A j \in 1 .. Len(d) + Len(pipe[s]) :
               (d \o pipe[s])[j] = IF j <= Len(d) THEN d[j]
                                   ELSE pipe[s][j - Len(d)]
        BY <1>1, ConcatProperties
      <4>3. i \in 1 .. Len(d) + Len(pipe[s]) /\ i <= Len(d)
        <5>1. \A x, y \in Nat : \A j \in 1 .. x : j \in 1 .. x + y /\ j <= x
          OBVIOUS
        <5>2. Len(d) \in Nat
          BY <1>1
        <5>3. QED
          BY <3>1, <4>1, <5>1, <5>2
      <4>4. QED
        BY <4>2, <4>3 DEF Written
    <3>3. QED
      BY <1>2, <1>4, <1>6, <3>1, <3>2
  <2>3. ContainsSlice(c, n)
    BY <1>1, <1>4, <1>6, <1>7, <2>1, <2>2, LongerContains
  <2>4. QED
    BY <1>5, <2>3
<1>11. QED
  BY <1>8, <1>9, <1>10

LEMMA DeservedJudge ==
    ASSUME TypeOK, ControlInv, TaskInv, CaptureInv, SettledInv, ProcInv,
           PromptInv, Judge, Prompt, Deserved'
    PROVE  verdict' = "healthy"
<1>1. SUFFICES ASSUME NEW s \in Streams, Lacking(s)  PROVE FALSE
  BY DEF Judge, Return
<1>2. /\ pc = "judge"
      /\ UNCHANGED <<args, task, reapedAt, atExit, pipe, delivered>>
  BY DEF Judge, pipeVars, readerVars
<1>3. PICK n \in Needles(s) : ~ContainsSlice(output[s].content.bytes, n)
  BY <1>1 DEF Lacking, MissingNeedles
<1>4. /\ Captured(s) /\ output[s] = out[s] /\ task[s] # "none"
  BY <1>2, <1>3, AtTheFinalCheck DEF Captured
<1>5. Visible(s)' = Visible(s) /\ Needles(s)' = Needles(s)
  BY <1>2 DEF Visible, Written, Needles
<1>6. /\ reapedAt < Timeout /\ task[s] # "failed"
      /\ ContainsSlice(SubSeq(Visible(s), 1,
                              Least(atExit[s], Len(Visible(s)))), n)
  BY <1>2, <1>3, <1>5 DEF Deserved
<1>7. out[s].matched \/ Overfull(s) \/ CaughtUp(s)
  BY <1>2, <1>4, <1>6 DEF PromptInv, After, Settled
<1>8. QED
  BY <1>3, <1>4, <1>6, <1>7, WrittenIsCaptured

LEMMA MissedStep ==
    ASSUME TypeOK, ControlInv, TaskInv, CaptureInv, SettledInv, GraceInv,
           ProcInv, PromptInv, NothingMissed, [Next]_vars,
           verdict' # "internal"
    PROVE  NothingMissed'
<1>1. CASE pc = "done"
  <2>1. UNCHANGED vars
    BY <1>1, DoneIsFinal
  <2>2. UNCHANGED <<args, pc, verdict, reapedAt, status, atExit, pipe,
                    delivered, task>>
    BY <2>1 DEF vars, mainVars, childVars, pipeVars, readerVars
  <2>3. Deserved' <=> Deserved
    BY <2>2 DEF Deserved, ValidRequest, SuccessCodes, Captured, Needles,
                Visible, Written
  <2>4. QED
    BY <2>2, <2>3 DEF NothingMissed
<1>2. CASE pc # "done"
  BY <1>2, DeservedReturns, DeservedJudge DEF NothingMissed
<1>3. QED
  BY <1>1, <1>2

LEMMA OpenStep ==
    ASSUME TypeOK, ControlInv, TaskInv, CaptureInv, SettledInv, PromptInv,
           OpenIsReal, [Next]_vars
    PROVE  OpenIsReal'
<1>1. CASE pc = "done"
  <2>1. UNCHANGED <<verdict, blamed, reapedAt, task, proc>>
    BY <1>1, DoneIsFinal DEF vars, mainVars, childVars, readerVars
  <2>2. QED
    BY <2>1 DEF OpenIsReal
<1>2. CASE pc # "done"
  <2>1. SUFFICES ASSUME Prompt, verdict' = "open", reapedAt' < Timeout,
                        task'[blamed'] # "failed",
                        \A d \in Descendants : proc'[d] = "unborn"
                 PROVE  FALSE
    BY DEF OpenIsReal
  <2>2. Judge
    BY <1>2, <2>1, OnlyJudgeJudges DEF ControlInv
  <2>3. PICK s \in Streams : /\ s = blamed' /\ Lacking(s)
                             /\ WhyMissing(output[s]) = "open"
    BY <2>1, <2>2, JudgeBlames
  <2>4. /\ pc = "judge" /\ UNCHANGED <<task, reapedAt>>
        /\ proc' = IF armed THEN Kill(Members) ELSE proc
    BY <2>2 DEF Judge, Terminate, readerVars
  <2>5. Alone
    <3>1. proc' = proc
      BY <2>4 DEF ControlInv, After
    <3>2. QED
      BY <2>1, <3>1 DEF Alone
  <2>6. PICK n \in Needles(s) : ~ContainsSlice(output[s].content.bytes, n)
    BY <2>3 DEF Lacking, MissingNeedles
  <2>7. Captured(s)
    BY <2>6 DEF Captured
  <2>8. /\ output[s] = out[s] /\ task[s] # "none"
        /\ out[s].content.incomplete <=> Overfull(s)
        /\ out[s].complete <=> task[s] = "finished"
    BY <2>4, <2>7, AtTheFinalCheck DEF Overfull
  <2>9. ~Overfull(s) /\ task[s] # "finished"
    BY <2>3, <2>8 DEF WhyMissing, BoundaryBeforeEof
  <2>10. out[s].matched
    BY <2>1, <2>3, <2>4, <2>5, <2>7, <2>9 DEF PromptInv, After, Settled
  <2>11. ContainsSlice(out[s].content.bytes, n)
    BY <2>6, <2>8, <2>10 DEF CaptureInv
  <2>12. QED
    BY <2>6, <2>8, <2>11
<1>3. QED
  BY <1>1, <1>2

(* The strengthening all of it rests on is inductive. *)
THEOREM Inductive == Spec => []IInv
<1>1. Init => IInv /\ NoInternalError
  <2>1. Init => VerdictInv /\ OpenIsReal /\ NothingMissed /\ PromptInv
                /\ NoInternalError
    BY DEF Init, VerdictInv, HealthyIsEarned, AbsenceIsProven, LimitIsReal,
           OpenIsReal, NothingMissed, PromptInv, After, NoInternalError
  <2>2. QED
    BY <2>1, TypeInit, ControlInit, TimeInit, TaskInit, CaptureInit, GraceInit,
       ProcInit DEF IInv, VerdictInv
<1>2. IInv /\ NoInternalError' /\ [Next]_vars => IInv'
  <2> SUFFICES ASSUME IInv, NoInternalError', [Next]_vars  PROVE IInv'
    OBVIOUS
  <2>1. TypeOK' /\ ControlInv' /\ TimeInv' /\ TaskInv' /\ SettledInv'
        /\ CaptureInv'
    BY TypeStep, ControlStep, TimeStep, TaskStep, CaptureStep DEF IInv
  <2>2. GraceInv' /\ ProcInv' /\ PromptInv'
    BY GraceStep, ProcStep, PromptStep DEF IInv
  <2>3. VerdictInv' /\ OpenIsReal' /\ NothingMissed'
    BY VerdictStep, OpenStep, MissedStep DEF IInv, VerdictInv, NoInternalError
  <2>4. QED
    BY <2>1, <2>2, <2>3 DEF IInv, VerdictInv
<1>3. QED
  BY <1>1, <1>2, NoAbortedJoin, PTL DEF Spec

(* A healthy probe means the command ended with an accepted exit code and   *)
(* wrote every required text within the first --max-output bytes.           *)
THEOREM HealthyHolds == Spec => []HealthyIsEarned
<1>1. IInv => HealthyIsEarned
  BY DEF IInv
<1>2. QED
  BY <1>1, Inductive, PTL

(* "does not contain required text" is never said of a stream that may      *)
(* still contain it.                                                        *)
THEOREM AbsenceHolds == Spec => []AbsenceIsProven
<1>1. IInv => AbsenceIsProven
  BY DEF IInv
<1>2. QED
  BY <1>1, Inductive, PTL

(* "reached --max-output" is never said of a shorter output, of one that    *)
(* has all the required text, or of one seen to end exactly at the limit.   *)
THEOREM LimitHolds == Spec => []LimitIsReal
<1>1. IInv => LimitIsReal
  BY DEF IInv
<1>2. QED
  BY <1>1, Inductive, PTL

(* On a host without delays "remained open" is never said of a command that *)
(* started no other process and ended before the deadline.                  *)
THEOREM OpenHolds == Spec => []OpenIsReal
<1>1. IInv => OpenIsReal
  BY DEF IInv
<1>2. QED
  BY <1>1, Inductive, PTL

(* On a host without delays and I/O errors, a command that ended in time    *)
(* with an accepted code, all the required text written, is healthy.        *)
THEOREM MissedHolds == Spec => []NothingMissed
<1>1. IInv => NothingMissed
  BY DEF IInv
<1>2. QED
  BY <1>1, Inductive, PTL

(* However long a daemon keeps writing, the probe outlives the command by   *)
(* the graces of the captured streams at most.                              *)
THEOREM GraceHolds == Spec => []GraceIsBounded
<1>1. TypeOK /\ ControlInv /\ GraceInv => GraceIsBounded
  <2> SUFFICES ASSUME TypeOK, ControlInv, GraceInv, proc[Leader] = "gone"
               PROVE  now <= BegunBy("stderr") + GraceOf("stderr")
    BY TimeAssumption DEF GraceIsBounded, BegunBy, GraceOf, TypeOK
  <2>1. CASE pc \in {"start", "spawned", "wait"}
    BY <2>1 DEF GraceInv
  <2>2. CASE pc = "reaped"
    <3>1. now = reapedAt
      BY <2>2 DEF GraceInv
    <3>2. /\ reapedAt \in Nat /\ GraceOf("stdout") \in Nat
          /\ GraceOf("stderr") \in Nat
      BY Graces DEF TypeOK
    <3>3. QED
      BY <3>1, <3>2 DEF BegunBy
  <2>3. CASE pc \in {"collect", "settle"}
    <3>1. now <= BegunBy(cur) + GraceOf(cur) /\ cur \in Streams
      <4>1. CASE pc = "collect"
        BY <4>1 DEF GraceInv, TypeOK
      <4>2. CASE pc = "settle"
        <5>1. /\ now <= settleBy /\ settleBy <= BegunBy(cur) + GraceOf(cur)
              /\ cur \in Streams
          BY <4>2 DEF GraceInv, TypeOK
        <5>2. QED
          BY <5>1, Graces
      <4>3. QED
        BY <2>3, <4>1, <4>2
    <3>2. /\ now \in Nat
          /\ GraceOf("stdout") \in Nat /\ GraceOf("stderr") \in Nat
          /\ BegunBy("stdout") \in Nat
          /\ BegunBy("stderr") = BegunBy("stdout") + GraceOf("stdout")
      BY Graces
    <3>3. cur = "stdout" \/ cur = "stderr"
      BY <3>1
    <3>4. QED
      BY <3>1, <3>2, <3>3
  <2>4. CASE pc \in {"judge", "done"}
    BY <2>4 DEF GraceInv
  <2>5. QED
    BY <2>1, <2>2, <2>3, <2>4 DEF TypeOK
<1>2. IInv => TypeOK /\ ControlInv /\ GraceInv
  BY DEF IInv
<1>3. QED
  BY <1>1, <1>2, Inductive, PTL
=============================================================================
