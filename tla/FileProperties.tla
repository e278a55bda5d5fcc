--------------------------- MODULE FileProperties ---------------------------
(***************************************************************************)
(* What the file probe promises.                                            *)
(***************************************************************************)
EXTENDS FileProbe

(* Every variable of the file probe has its type. *)
TypeOK ==
    /\ check \in Checks
    /\ prompt \in BOOLEAN
    /\ pc \in {"start", "metadata", "open", "hang", "read", "judge", "done"}
    /\ verdict \in {"none", "healthy", "invalid", "absent", "noMetadata",
                    "irregular", "smaller", "larger", "empty", "future", "older",
                    "unopened", "readError", "missing", "truncated",
                    "timeout"}
    /\ {size, offset, changes, now} \subseteq Nat
    /\ fd \in Files \cup {None}
    /\ body \in [bytes : Seq(Bytes), incomplete : BOOLEAN]
    /\ found \subseteq check.contains
    /\ path \in Files \cup {None}
    /\ disk \in [Files -> FileType]
    /\ {swapped, truncated} \subseteq BOOLEAN
    /\ pc \in {"read", "judge"} => fd # None

-----------------------------------------------------------------------------
Required == check.contains

(* Nobody has written to a file in place, except at its end. *)
AppendOnly == ~truncated

(* What was captured is the beginning of what the opened file holds, cut at *)
(* --max-read, although the file grows while it is read, and the matcher    *)
(* that may end the reading has found what a search of all of it finds.     *)
CaptureIsPrefix ==
    AppendOnly /\ fd # None =>
        /\ offset <= Len(disk[fd].content)
        /\ body.bytes = Capture(SubSeq(disk[fd].content, 1, offset),
                                check.maxRead)
        /\ body.incomplete <=> offset > check.maxRead
        /\ found = {n \in Required : ContainsSlice(body.bytes, n)}

(* A healthy verdict is earned.  The required texts are in the first        *)
(* --max-read bytes of the file that was opened; and when nothing else was  *)
(* put in its place, that file also has the size that was asked for, at the *)
(* end of the probe no less than at its beginning.                          *)
HealthyIsEarned ==
    AppendOnly /\ verdict = "healthy" =>
        /\ check.readable \/ Required # {} => fd # None
        /\ \A n \in Required :
              ContainsSlice(Capture(disk[fd].content, check.maxRead), n)
        /\ ~swapped =>
              /\ path # None /\ disk[path].kind = "regular"
              /\ ~Below(Len(disk[path].content), check.minSize)
              /\ check.nonEmpty => disk[path].content # <<>>
              /\ fd \in {path, None}

(* "truncated" is said of a file that is longer than --max-read and whose   *)
(* beginning lacks a required text.                                         *)
CutIsReal ==
    AppendOnly /\ verdict = "truncated" =>
        /\ Len(disk[fd].content) > check.maxRead
        /\ \E n \in Required :
              ~ContainsSlice(Capture(disk[fd].content, check.maxRead), n)

(* When the probe comes to the conclusion that a text is missing, it has    *)
(* just seen the end of the file, and what it has read is all of it.        *)
AbsenceIsProven ==
    [][/\ AppendOnly
       /\ pc = "read" /\ pc' = "judge"
       /\ ~body'.incomplete /\ Missing' # {}
       => body'.bytes = disk[fd].content]_vars

(* On a host without delays only a path that was made to name something     *)
(* else can time the probe out: it does not open what is no regular file,   *)
(* and a file that keeps growing is read to --max-read at most.             *)
OnlySwapsHang == prompt /\ verdict = "timeout" => swapped

Readable(f) == f.open \/ ~(check.readable \/ Required # {})

Fresh(f) == check.maxAge # None =>
                f.modified <= now /\ now - f.modified <= check.maxAge

(* The file meets every assertion of the check. *)
Meets(f) ==
    /\ f.kind = "regular"
    /\ check.minSize # None => Len(f.content) >= check.minSize
    /\ check.maxSize # None => Len(f.content) <= check.maxSize
    /\ check.nonEmpty => f.content # <<>>
    /\ Fresh(f) /\ Readable(f)
    /\ \A n \in Required : ContainsSlice(Capture(f.content, check.maxRead), n)

(* Of a file that nobody touches, and without errors of the system, the     *)
(* verdict is healthy exactly if the file meets every assertion, and it is  *)
(* said not to exist exactly if there is none.                              *)
VerdictIsRight ==
    /\ prompt /\ changes = 0 /\ pc = "done"
    /\ verdict \notin {"invalid", "noMetadata", "readError"}
    => /\ verdict = "healthy" <=> path # None /\ Meets(disk[path])
       /\ verdict = "absent" <=> path = None

(* Every file probe ends, also one that is led to open a FIFO. *)
Terminates == <>(pc = "done")

-----------------------------------------------------------------------------
(* The verdicts as the callers of the probes tell them apart. *)
Outcome == IF verdict \in {"none", "healthy", "invalid", "timeout"} THEN verdict
           ELSE "failure"

Phase == IF pc = "start" THEN "given" ELSE IF pc = "done" THEN "ended"
         ELSE "probing"

Contract == INSTANCE ProbeContract
              WITH timeout <- Timeout, phase <- Phase, outcome <- Outcome,
                   deadline <- Start + Timeout

(* The file probe implements what main_entry expects of a probe, also when  *)
(* it hangs on a FIFO that was put in place of the file.                    *)
KeepsContract == Contract!Spec
=============================================================================
