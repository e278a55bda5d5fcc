----------------------------- MODULE FileProbe -----------------------------
(***************************************************************************)
(* src/src/probes/file.rs: the file probe looks at the metadata of a path,  *)
(* opens the path and reads until the required texts are found, the file    *)
(* ends or --max-read is passed.  Every step is a system call of its own:   *)
(* other programs write to the file, or put another one in its place, in    *)
(* between.                                                                 *)
(***************************************************************************)
EXTENDS CaptureBuffer

CONSTANTS
    Bytes,        \* the bytes of a file
    Checks,       \* the invocations (FileArgs) to explore
    None,         \* an option that is not given; a path that names nothing
    Files,        \* the files (inodes) the path can name
    Contents,     \* what a file can hold at first
    Ages,         \* modification times at first, before and after the start
    Changes,      \* which changes other programs make
    MaxChanges,   \* bound on their number
    MaxSize,      \* bound on the size of a file
    ReadSize,     \* the buffer of read_file, 4096 bytes in the code
    MaxCapture,   \* MAX_CAPTURE_BYTES
    Start,        \* the time the probe starts
    Timeout       \* options.timeout

CheckType ==
    [path : BOOLEAN, minSize : Nat \cup {None}, maxSize : Nat \cup {None},
     nonEmpty : BOOLEAN, maxAge : Nat \cup {None}, readable : BOOLEAN,
     contains : SUBSET Seq(Bytes), maxRead : Nat]

ChangeKinds == {"append", "truncate", "replace", "remove", "chmod"}

ASSUME ChecksAssumption == Checks \subseteq CheckType
ASSUME NoneAssumption   == None \notin Nat \cup Files
ASSUME ChangeAssumption == Changes \subseteq ChangeKinds /\ MaxChanges \in Nat
ASSUME FilesAssumption  == Contents \subseteq Seq(Bytes) /\ Ages \subseteq Nat
ASSUME SizesAssumption  == /\ {ReadSize, MaxCapture} \subseteq Nat \ {0}
                           /\ MaxSize \in Nat
ASSUME ClockAssumption  == Start \in Nat /\ Timeout \in Nat \ {0}

VARIABLES
    check,      \* the invocation
    prompt,     \* the host delays nothing runnable past a clock tick
    pc,         \* the system call that is next
    verdict,    \* how the probe ended, "none" before it has
    size,       \* metadata.len(), also reported at the end
    fd,         \* the opened file
    offset,     \* its read position
    body,       \* the CaptureBuffer
    found,      \* the TextMatcher
    path,       \* the file the path names
    disk,       \* the files
    changes,    \* bound: how often other programs changed something
    swapped,    \* history: the path was made to name another file
    truncated,  \* history: a file was made shorter
    now         \* the clock

given    == <<check, prompt>>
readVars == <<size, fd, offset, body, found>>
diskVars == <<path, disk, changes, swapped, truncated>>
vars     == <<given, pc, verdict, readVars, diskVars, now>>

FileType == [kind : {"regular", "fifo", "directory"}, content : Seq(Bytes),
             modified : Nat, open : BOOLEAN]

ValidCheck ==
    /\ check.path
    /\ check.minSize # None /\ check.maxSize # None =>
          check.minSize <= check.maxSize
    /\ <<>> \notin check.contains
    /\ check.contains # {} => check.maxRead \in 1 .. MaxCapture
    /\ check.maxAge # 0

(* Only regular files have contents to read and an age that is looked at. *)
InitialFiles ==
    [kind : {"regular"}, content : Contents, modified : Ages, open : BOOLEAN]
    \cup [kind : {"fifo", "directory"}, content : {<<>>}, modified : {Start},
          open : BOOLEAN]

Init ==
    /\ check \in Checks
    /\ prompt \in BOOLEAN
    /\ pc = "start"
    /\ verdict = "none"
    /\ size = 0
    /\ fd = None
    /\ offset = 0
    /\ body = EmptyBuffer
    /\ found = {}
    /\ path \in Files \cup {None}
    /\ disk \in [Files -> InitialFiles]
    /\ changes = 0
    /\ swapped = FALSE
    /\ truncated = FALSE
    /\ now = Start

Return(v) == pc' = "done" /\ verdict' = v

-----------------------------------------------------------------------------
(* The probe *)

Validate ==
    /\ pc = "start"
    /\ IF ValidCheck THEN pc' = "metadata" /\ UNCHANGED verdict
                     ELSE Return("invalid")
    /\ UNCHANGED <<given, readVars, diskVars, now>>

(* Mutated: a FIFO will do; the greatest size is already too large. *)
RegularOrFifo(f)    == f.kind # "directory"
AboveOrAt(n, bound) == bound # None /\ n >= bound

Regular(f)      == f.kind = "regular"
Below(n, bound) == bound # None /\ n < bound
Above(n, bound) == bound # None /\ n > bound

(* What the checks of the metadata say, in their order; "healthy" for a     *)
(* file that passes them all.                                               *)
MetadataVerdict(f) ==
    IF ~Regular(f) THEN "irregular"
    ELSE IF Below(Len(f.content), check.minSize) THEN "smaller"
    ELSE IF Above(Len(f.content), check.maxSize) THEN "larger"
    ELSE IF check.nonEmpty /\ f.content = <<>> THEN "empty"
    ELSE IF check.maxAge # None /\ f.modified > now THEN "future"
    ELSE IF check.maxAge # None /\ now - f.modified > check.maxAge THEN "older"
    ELSE "healthy"

Metadata ==
    /\ pc = "metadata"
    /\ \/ path = None /\ Return("absent") /\ UNCHANGED size
       \/ /\ path # None /\ MetadataVerdict(disk[path]) # "healthy"
          /\ Return(MetadataVerdict(disk[path])) /\ UNCHANGED size
       \/ /\ path # None /\ MetadataVerdict(disk[path]) = "healthy"
          /\ size' = Len(disk[path].content)
          /\ IF check.readable \/ check.contains # {}
               THEN pc' = "open" /\ UNCHANGED verdict
               ELSE Return("healthy")
    /\ UNCHANGED <<given, fd, offset, body, found, diskVars, now>>

(* A directory on the way may not be searched, or an I/O error. *)
MetadataFails ==
    /\ pc = "metadata"
    /\ Return("noMetadata")
    /\ UNCHANGED <<given, readVars, diskVars, now>>

Opened(f) == fd' = f /\ found' = NewMatcher(check.contains)

CanOpen == path # None /\ disk[path].open

(* File::open: by path, whatever that names now.  A FIFO without a writer   *)
(* does not open; a directory opens and cannot be read.                     *)
Open ==
    /\ pc = "open"
    /\ \/ ~CanOpen /\ Return("unopened") /\ UNCHANGED <<fd, found>>
       \/ /\ CanOpen /\ disk[path].kind = "fifo"
          /\ pc' = "hang" /\ UNCHANGED <<verdict, fd, found>>
       \/ /\ CanOpen /\ disk[path].kind # "fifo"
          /\ Opened(path)
          /\ IF check.contains # {} THEN pc' = "read" /\ UNCHANGED verdict
                                    ELSE Return("healthy")
    /\ UNCHANGED <<given, size, offset, body, diskVars, now>>

Unread == Suffix(disk[fd].content, Least(offset, Len(disk[fd].content)))

Enough == AllMatched(check.contains, found') \/ body'.incomplete

(* One turn of the loop of read_file; a read may be short. *)
ReadChunk(n) ==
    /\ pc = "read"
    /\ disk[fd].kind = "regular"
    /\ n <= Len(Unread)
    /\ body' = AppendLimited(body, SubSeq(Unread, 1, n), check.maxRead)
    /\ found' = ObserveAppended(check.contains, found, body'.bytes,
                                Len(body.bytes))
    /\ offset' = offset + n
    /\ pc' = IF Enough THEN "judge" ELSE "read"
    /\ UNCHANGED <<given, verdict, size, fd, diskVars, now>>

ReadEof ==
    /\ pc = "read"
    /\ disk[fd].kind = "regular"
    /\ Unread = <<>>
    /\ pc' = "judge"
    /\ UNCHANGED <<given, verdict, readVars, diskVars, now>>

ReadDirectory ==
    /\ pc = "read"
    /\ disk[fd].kind = "directory"
    /\ Return("readError")
    /\ UNCHANGED <<given, readVars, diskVars, now>>

(* An I/O error. *)
ReadFails ==
    /\ pc = "read"
    /\ disk[fd].kind = "regular"
    /\ Return("readError")
    /\ UNCHANGED <<given, readVars, diskVars, now>>

(* Mutated: what lies beyond the limit is given the benefit of the doubt. *)
MissingWhenWhole == {n \in check.contains : /\ ~body.incomplete
                                            /\ ~ContainsSlice(body.bytes, n)}

Missing == {n \in check.contains : ~ContainsSlice(body.bytes, n)}

Judge ==
    /\ pc = "judge"
    /\ Return(IF Missing = {} THEN "healthy"
              ELSE IF body.incomplete THEN "truncated" ELSE "missing")
    /\ UNCHANGED <<given, readVars, diskVars, now>>

(* Mutated: opening is outside of the timeout. *)
SuspendedOnRead == pc \in {"metadata", "open", "read"}

Suspended == pc \in {"metadata", "open", "hang", "read"}

(* Mutated: the clock is a tick fast. *)
ExpiredEarly == now + 1 >= Start + Timeout

Expired == now >= Start + Timeout

(* with_probe_timeout *)
TimesOut ==
    /\ Suspended /\ Expired
    /\ prompt => pc = "hang"
    /\ Return("timeout")
    /\ UNCHANGED <<given, readVars, diskVars, now>>

-----------------------------------------------------------------------------
(* Other programs *)
Changed(kind) ==
    /\ kind \in Changes
    /\ pc \notin {"start", "done"}
    /\ changes < MaxChanges
    /\ changes' = changes + 1
    /\ UNCHANGED <<given, pc, verdict, readVars, now>>

Write(f, kind, content) ==
    /\ Changed(kind)
    /\ disk[f].kind = "regular"
    /\ disk' = [disk EXCEPT ![f].content = content, ![f].modified = now]
    /\ truncated' = (truncated \/ kind = "truncate")
    /\ UNCHANGED <<path, swapped>>

Extend(f, b) ==
    Len(disk[f].content) < MaxSize
        /\ Write(f, "append", Append(disk[f].content, b))

Truncate(f) == disk[f].content # <<>> /\ Write(f, "truncate", <<>>)

Chmod(f) ==
    /\ Changed("chmod")
    /\ disk' = [disk EXCEPT ![f].open = ~@]
    /\ UNCHANGED <<path, swapped, truncated>>

Rename(target) ==
    /\ target # path
    /\ path' = target
    /\ swapped' = TRUE
    /\ UNCHANGED <<disk, truncated>>

Replace(f) == Changed("replace") /\ Rename(f)
Remove     == Changed("remove") /\ Rename(None)

Tick ==
    /\ Suspended /\ ~Expired
    /\ prompt => pc = "hang"
    /\ now' = now + 1
    /\ UNCHANGED <<given, pc, verdict, readVars, diskVars>>

Terminated == pc = "done" /\ UNCHANGED vars

-----------------------------------------------------------------------------
ProbeStep ==
    \/ Validate \/ Metadata \/ Open
    \/ \E n \in 1 .. ReadSize : ReadChunk(n)
    \/ ReadEof \/ ReadDirectory \/ Judge \/ TimesOut

OtherStep ==
    \/ \E f \in Files : \/ \E b \in Bytes : Extend(f, b)
                        \/ Truncate(f)
                        \/ Chmod(f)
                        \/ Replace(f)
    \/ Remove

Next == ProbeStep \/ MetadataFails \/ ReadFails \/ OtherStep \/ Tick \/ Terminated

Spec == Init /\ [][Next]_vars

(* A system call that does not block returns, and the clock goes on.        *)
FairSpec == Spec /\ WF_vars(ProbeStep) /\ WF_vars(Tick)
=============================================================================
