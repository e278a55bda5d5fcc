--------------------------- MODULE OutputCapture ---------------------------
(***************************************************************************)
(* src/src/probes/exec.rs, the data the reader task of one output stream   *)
(* shares with the probe: BufferedOutput, the OutputProgress it publishes,  *)
(* and what one chunk or the end of the stream does to them.               *)
(***************************************************************************)
EXTENDS CaptureBuffer

(* BufferedOutput::default *)
NoOutput == [content      |-> EmptyBuffer,
             matched      |-> FALSE,
             limitReached |-> FALSE,
             complete     |-> FALSE]

(* OutputProgress::from(&BufferedOutput) *)
ProgressOf(output) == [incomplete   |-> output.content.incomplete,
                       matched      |-> output.matched,
                       limitReached |-> output.limitReached]

(* The needles the task's matcher knows after a chunk was appended. *)
FoundAfter(needles, found, output, chunk, limit) ==
    ObserveAppended(needles, found,
                    AppendLimited(output.content, chunk, limit).bytes,
                    Len(output.content.bytes))

(* Mutated: the limit counts as reached one byte early. *)
AbsorbEarlyLimit(needles, found, output, chunk, limit) ==
    LET content == AppendLimited(output.content, chunk, limit) IN
    [content      |-> content,
     matched      |-> /\ needles # {}
                      /\ AllMatched(needles,
                            FoundAfter(needles, found, output, chunk, limit)),
     limitReached |-> needles # {} /\ Len(content.bytes) + 1 >= limit,
     complete     |-> FALSE]

(* The shared state after a chunk, under the lock of one loop iteration of  *)
(* read_limited_with_snapshots.                                            *)
Absorb(needles, found, output, chunk, limit) ==
    LET content == AppendLimited(output.content, chunk, limit) IN
    [content      |-> content,
     matched      |-> /\ needles # {}
                      /\ AllMatched(needles,
                            FoundAfter(needles, found, output, chunk, limit)),
     limitReached |-> needles # {} /\ Len(content.bytes) = limit,
     complete     |-> FALSE]

(* Mutated: a truncated output whose end was seen counts as whole. *)
BoundaryOnlyWhileOpen(output) == output.limitReached /\ ~output.complete

(* BufferedOutput::reached_capture_boundary_before_eof *)
BoundaryBeforeEof(output) ==
    output.content.incomplete \/ (output.limitReached /\ ~output.complete)

(* Mutated: only an output that was read to its end can lack a needle. *)
MissingWhenComplete(needles, output) ==
    {n \in needles : /\ output.complete
                     /\ ~ContainsSlice(output.content.bytes, n)}

(* The needles that the final check of run() does not find in the captured  *)
(* bytes, and the class of error missing_required_output_error gives them.  *)
MissingNeedles(needles, output) ==
    {n \in needles : ~ContainsSlice(output.content.bytes, n)}

WhyMissing(output) ==
    IF BoundaryBeforeEof(output) THEN "limit"
    ELSE IF ~output.complete THEN "open"
    ELSE "missing"
=============================================================================
