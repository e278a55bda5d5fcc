--------------------------- MODULE CaptureBuffer ---------------------------
(***************************************************************************)
(* src/src/capture.rs: the bounded buffer every content assertion is        *)
(* evaluated on.  It keeps the first limit bytes it is given and remembers, *)
(* in incomplete, that the bytes it kept are not the whole stream.          *)
(***************************************************************************)
EXTENDS TextMatch

EmptyBuffer == [bytes |-> <<>>, incomplete |-> FALSE]

(* Mutated: one byte of room is left unused. *)
AppendBelowLimit(buffer, chunk, limit) ==
    LET remaining == SaturatingSub(limit, Len(buffer.bytes) + 1)
    IN  [bytes      |-> buffer.bytes
                          \o SubSeq(chunk, 1, Least(Len(chunk), remaining)),
         incomplete |-> buffer.incomplete \/ Len(chunk) > remaining]

(* CaptureBuffer::append_limited.  The code also returns the length before  *)
(* the append; a caller reads it as Len(buffer.bytes) of the old buffer.    *)
AppendLimited(buffer, chunk, limit) ==
    LET remaining == SaturatingSub(limit, Len(buffer.bytes))
    IN  [bytes      |-> buffer.bytes
                          \o SubSeq(chunk, 1, Least(Len(chunk), remaining)),
         incomplete |-> buffer.incomplete \/ Len(chunk) > remaining]

(* CaptureBuffer::mark_incomplete *)
MarkIncomplete(buffer) == [buffer EXCEPT !.incomplete = TRUE]

(* What a buffer holds of a stream that was appended chunk by chunk.        *)
Capture(stream, limit) == SubSeq(stream, 1, Least(Len(stream), limit))
=============================================================================
