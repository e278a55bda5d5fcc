----------------------------- MODULE FileProofs -----------------------------
(***************************************************************************)
(* Proofs that the file probe keeps its promises, for every set of files,   *)
(* contents, invocations and limits, and however often other programs       *)
(* change what it reads.                                                    *)
(***************************************************************************)
EXTENDS FileProperties, CaptureProofs

(* The verdict is the last thing that changes. *)
ControlInv == verdict # "none" <=> pc = "done"

(* Nothing is captured before the file is open. *)
UntouchedInv ==
    pc \in {"start", "metadata", "open", "hang"} =>
        fd = None /\ offset = 0 /\ body = EmptyBuffer

Sized(f) ==
    /\ f.kind = "regular"
    /\ ~Below(Len(f.content), check.minSize)
    /\ check.nonEmpty => f.content # <<>>

(* A path that nobody changed names a file that has the size it had when    *)
(* its metadata were looked at, or more.                                    *)
SizeInv ==
    /\ AppendOnly /\ ~swapped
    /\ pc \in {"open", "hang", "read", "judge"}
    => path # None /\ Sized(disk[path]) /\ fd \in {path, None}

(* The inductive invariant: what the promises leave unsaid of the way to    *)
(* them.                                                                    *)
FileInv ==
    /\ TypeOK
    /\ ControlInv
    /\ UntouchedInv
    /\ SizeInv
    /\ CaptureIsPrefix
    /\ HealthyIsEarned
    /\ CutIsReal
-----------------------------------------------------------------------------
(* Types *)

LEMMA CheckFields ==
    ASSUME TypeOK
    PROVE  /\ check.contains \in SUBSET Seq(Bytes)
           /\ check.maxRead \in Nat
           /\ check.minSize \in Nat \cup {None}
           /\ check.nonEmpty \in BOOLEAN /\ check.readable \in BOOLEAN
BY ChecksAssumption DEF TypeOK, CheckType

LEMMA DiskFields ==
    ASSUME TypeOK, NEW f \in Files
    PROVE  /\ disk[f].content \in Seq(Bytes)
           /\ Len(disk[f].content) \in Nat
           /\ disk[f].open \in BOOLEAN
<1>1. disk[f].content \in Seq(Bytes) /\ disk[f].open \in BOOLEAN
  BY DEF TypeOK, FileType
<1>2. QED
  BY <1>1, LenProperties

LEMMA TypeInit == Init => TypeOK
<1> SUFFICES ASSUME Init  PROVE TypeOK
  OBVIOUS
<1>1. <<>> \in Seq(Bytes)
  BY EmptySeq
<1>2. InitialFiles \subseteq FileType
  BY <1>1, FilesAssumption, ClockAssumption DEF InitialFiles, FileType
<1>3. disk \in [Files -> FileType]
  BY <1>2 DEF Init
<1>4. {size, offset, changes, now} \subseteq Nat
  BY ClockAssumption DEF Init
<1>5. body \in [bytes : Seq(Bytes), incomplete : BOOLEAN]
  BY <1>1 DEF Init, EmptyBuffer
<1>6. QED
  BY <1>3, <1>4, <1>5 DEF Init, TypeOK

(* What another program writes to a file. *)
LEMMA WriteType ==
    ASSUME TypeOK, NEW f \in Files, NEW kind, NEW content \in Seq(Bytes),
           Write(f, kind, content)
    PROVE  TypeOK'
<1>1. [disk[f] EXCEPT !.content = content, !.modified = now] \in FileType
  BY DEF TypeOK, FileType
<1>2. disk' \in [Files -> FileType]
  BY <1>1 DEF TypeOK, Write
<1>3. changes' \in Nat /\ truncated' \in BOOLEAN
  BY DEF TypeOK, Write, Changed
<1>4. QED
  BY <1>2, <1>3 DEF TypeOK, Write, Changed, given, readVars

(* One turn of the loop of read_file. *)
LEMMA ReadChunkType ==
    ASSUME TypeOK, NEW n \in 1 .. ReadSize, ReadChunk(n)
    PROVE  TypeOK'
<1> DEFINE chunk == SubSeq(Unread, 1, n)
<1>1. fd \in Files /\ n \in Nat /\ n <= Len(Unread)
  BY SizesAssumption DEF TypeOK, ReadChunk
<1>2. disk[fd].content \in Seq(Bytes) /\ Len(disk[fd].content) \in Nat
  BY <1>1, DiskFields
<1>3. Unread \in Seq(Bytes)
  <2>1. /\ Least(offset, Len(disk[fd].content)) \in Nat
        /\ Least(offset, Len(disk[fd].content)) <= Len(disk[fd].content)
    BY <1>2 DEF TypeOK, Least
  <2>2. QED
    BY <2>1, <1>2, SuffixProperties DEF Unread
<1>4. chunk \in Seq(Bytes)
  BY <1>1, <1>3, Prefix
<1> HIDE DEF chunk
<1>5. body.bytes \in Seq(Bytes) /\ body.incomplete \in BOOLEAN
  BY DEF TypeOK
<1>6. body' = AppendLimited(body, chunk, check.maxRead)
  BY DEF ReadChunk, chunk
<1>7. AppendLimited(body, chunk, check.maxRead)
          \in [bytes : Seq(Bytes), incomplete : BOOLEAN]
  <2>1. AppendLimited(body, chunk, check.maxRead).bytes \in Seq(Bytes)
    BY <1>4, <1>5, CheckFields, AppendExtends
  <2>2. QED
    BY <2>1, <1>5 DEF AppendLimited
<1>8. found' \subseteq check.contains
  BY DEF TypeOK, ReadChunk, ObserveAppended
<1>9. offset' \in Nat /\ pc' \in {"read", "judge"}
  BY <1>1 DEF TypeOK, ReadChunk
<1>10. QED
  BY <1>6, <1>7, <1>8, <1>9 DEF TypeOK, ReadChunk, given, diskVars

LEMMA TypeStep == TypeOK /\ [Next]_vars => TypeOK'
<1> SUFFICES ASSUME TypeOK, [Next]_vars  PROVE TypeOK'
  OBVIOUS
<1> USE DEF Return, given, readVars, diskVars
<1>1. CASE Validate
  BY <1>1 DEF TypeOK, Validate
<1>2. CASE Metadata
  <2>1. path # None => Len(disk[path].content) \in Nat
    BY DiskFields DEF TypeOK
  <2>2. size' \in Nat
    BY <1>2, <2>1 DEF TypeOK, Metadata
  <2>3. pc' \in {"open", "done"}
    BY <1>2 DEF Metadata
  <2>4. verdict' \in {verdict, "healthy", "absent", "irregular", "smaller",
                      "larger", "empty", "future", "older"}
    BY <1>2 DEF Metadata, MetadataVerdict
  <2>5. QED
    BY <1>2, <2>2, <2>3, <2>4 DEF TypeOK, Metadata
<1>3. CASE Open
  BY <1>3 DEF TypeOK, Open, Opened, NewMatcher, CanOpen
<1>4. ASSUME NEW n \in 1 .. ReadSize, ReadChunk(n)  PROVE TypeOK'
  BY <1>4, ReadChunkType
<1>5. CASE ReadEof \/ ReadDirectory \/ ReadFails \/ MetadataFails
  BY <1>5 DEF TypeOK, ReadEof, ReadDirectory, ReadFails, MetadataFails
<1>6. CASE Judge
  BY <1>6 DEF TypeOK, Judge
<1>7. CASE TimesOut
  BY <1>7 DEF TypeOK, TimesOut
<1>8. ASSUME NEW f \in Files, NEW b \in Bytes, Extend(f, b)  PROVE TypeOK'
  <2>1. Append(disk[f].content, b) \in Seq(Bytes)
    BY DiskFields, AppendProperties
  <2>2. QED
    BY <1>8, <2>1, WriteType DEF Extend
<1>9. ASSUME NEW f \in Files, Truncate(f)  PROVE TypeOK'
  BY <1>9, EmptySeq, WriteType DEF Truncate
<1>10. ASSUME NEW f \in Files, Chmod(f)  PROVE TypeOK'
  <2>1. disk' = [disk EXCEPT ![f].open = ~@]
    BY <1>10 DEF Chmod
  <2>2. [disk[f] EXCEPT !.open = ~@] \in FileType
    <3>1. disk[f] \in FileType
      BY DEF TypeOK
    <3>2. (~disk[f].open) \in BOOLEAN
      OBVIOUS
    <3>3. \A g \in FileType, o \in BOOLEAN : [g EXCEPT !.open = o] \in FileType
      BY DEF FileType
    <3>4. QED
      BY <3>1, <3>2, <3>3, Zenon
  <2>3. disk' \in [Files -> FileType]
    BY <2>1, <2>2 DEF TypeOK
  <2>4. QED
    BY <1>10, <2>3 DEF TypeOK, Chmod, Changed
<1>11. ASSUME NEW f \in Files, Replace(f)  PROVE TypeOK'
  BY <1>11 DEF TypeOK, Replace, Rename, Changed
<1>12. CASE Remove
  BY <1>12 DEF TypeOK, Remove, Rename, Changed
<1>13. CASE Tick
  BY <1>13 DEF TypeOK, Tick
<1>14. CASE Terminated \/ UNCHANGED vars
  BY <1>14 DEF TypeOK, Terminated, vars
<1>15. QED
  BY <1>1, <1>2, <1>3, <1>4, <1>5, <1>6, <1>7, <1>8, <1>9, <1>10, <1>11,
     <1>12, <1>13, <1>14 DEF Next, ProbeStep, OtherStep

(* The variables of the file probe have their types. *)
THEOREM TypeCorrect == Spec => []TypeOK
BY TypeInit, TypeStep, PTL DEF Spec

-----------------------------------------------------------------------------
(* What other programs do *)

(* Each file has the content it had, or more. *)
Grown == \A f \in Files : \E t \in Seq(Bytes) :
             disk'[f].kind = disk[f].kind
             /\ disk'[f].content = disk[f].content \o t

LEMMA SameIsGrown ==
    ASSUME TypeOK, NEW f \in Files
    PROVE  \E t \in Seq(Bytes) : disk[f].content = disk[f].content \o t
<1>1. <<>> \in Seq(Bytes)
  BY EmptySeq
<1>2. disk[f].content = disk[f].content \o <<>>
  BY DiskFields, ConcatEmptySeq
<1>3. QED
  BY <1>1, <1>2

(* One change: the probe's own state stays, and unless something is         *)
(* truncated or the path changes the file is the same or longer.            *)
LEMMA OthersOnlyAppend ==
    ASSUME TypeOK, OtherStep
    PROVE  /\ UNCHANGED <<given, pc, verdict, readVars, now>>
           /\ pc \notin {"start", "done"}
           /\ AppendOnly' => AppendOnly /\ Grown
           /\ ~swapped' => ~swapped /\ path' = path
<1>1. ASSUME NEW f \in Files, NEW b \in Bytes, Extend(f, b)
      PROVE  Grown
  <2>1. <<b>> \in Seq(Bytes)
    OBVIOUS
  <2>2. Append(disk[f].content, b) = disk[f].content \o <<b>>
    BY DiskFields, AppendIsConcat
  <2>3. disk' = [disk EXCEPT ![f].content = Append(disk[f].content, b),
                             ![f].modified = now]
    BY <1>1 DEF Extend, Write
  <2>4. ASSUME NEW g \in Files
        PROVE  \E t \in Seq(Bytes) :
                   disk'[g].kind = disk[g].kind
                   /\ disk'[g].content = disk[g].content \o t
    <3>1. CASE g = f
      <4>1. /\ disk'[f].content = disk[f].content \o <<b>>
            /\ disk'[f].kind = disk[f].kind
        BY <2>2, <2>3 DEF TypeOK, FileType
      <4>2. QED
        BY <3>1, <4>1, <2>1
    <3>2. CASE g # f
      <4>1. disk'[g] = disk[g]
        BY <2>3, <3>2 DEF TypeOK
      <4>2. QED
        BY <4>1, SameIsGrown
    <3>3. QED
      BY <3>1, <3>2
  <2>5. QED
    BY <2>4 DEF Grown
<1>2. ASSUME NEW f \in Files, Chmod(f)
      PROVE  Grown
  <2>1. \A g \in Files : /\ disk'[g].kind = disk[g].kind
                         /\ disk'[g].content = disk[g].content
    BY <1>2 DEF TypeOK, FileType, Chmod
  <2>2. QED
    BY <2>1, SameIsGrown DEF Grown
<1>3. ASSUME UNCHANGED disk  PROVE Grown
  BY <1>3, SameIsGrown DEF Grown
<1> HIDE DEF Grown
<1> USE DEF AppendOnly, Changed
<1>4. ASSUME NEW f \in Files, NEW b \in Bytes, Extend(f, b)
      PROVE  /\ UNCHANGED <<given, pc, verdict, readVars, now>>
             /\ pc \notin {"start", "done"}
             /\ AppendOnly' => AppendOnly
             /\ UNCHANGED <<path, swapped>>
  BY <1>4 DEF Extend, Write, TypeOK
<1>5. ASSUME NEW f \in Files, Truncate(f)
      PROVE  /\ UNCHANGED <<given, pc, verdict, readVars, now>>
             /\ pc \notin {"start", "done"}
             /\ ~AppendOnly'
             /\ UNCHANGED <<path, swapped>>
  BY <1>5 DEF Truncate, Write, TypeOK
<1>6. ASSUME NEW f \in Files, Chmod(f)
      PROVE  /\ UNCHANGED <<given, pc, verdict, readVars, now>>
             /\ pc \notin {"start", "done"}
             /\ UNCHANGED <<truncated, path, swapped>>
  BY <1>6 DEF Chmod
<1>7. ASSUME NEW target, Changed("replace") \/ Changed("remove"), Rename(target)
      PROVE  /\ UNCHANGED <<given, pc, verdict, readVars, now>>
             /\ pc \notin {"start", "done"}
             /\ UNCHANGED <<truncated, disk>> /\ swapped'
  BY <1>7 DEF Rename
<1>8. QED
  <2>1. CASE \E f \in Files, b \in Bytes : Extend(f, b)
    BY <2>1, <1>1, <1>4
  <2>2. CASE \E f \in Files : Truncate(f)
    BY <2>2, <1>5
  <2>3. CASE \E f \in Files : Chmod(f)
    BY <2>3, <1>2, <1>6
  <2>4. CASE Remove \/ \E f \in Files : Replace(f)
    BY <2>4, <1>3, <1>7 DEF Remove, Replace
  <2>5. QED
    BY <2>1, <2>2, <2>3, <2>4 DEF OtherStep

-----------------------------------------------------------------------------
(* What was read is a prefix of the file *)

ReadPart == SubSeq(disk[fd].content, 1, offset)

(* CaptureIsPrefix in the words of the lemmas on buffers. *)
LEMMA WhatIsRead ==
    ASSUME TypeOK, CaptureIsPrefix, AppendOnly, fd # None
    PROVE  /\ fd \in Files /\ offset \in Nat
           /\ offset <= Len(disk[fd].content)
           /\ ReadPart \in Seq(Bytes) /\ Len(ReadPart) = offset
           /\ Holds(body, ReadPart, check.maxRead)
           /\ found = Occurring(check.contains, body.bytes)
<1>1. fd \in Files /\ offset \in Nat /\ offset <= Len(disk[fd].content)
  BY DEF TypeOK, CaptureIsPrefix
<1>2. ReadPart \in Seq(Bytes) /\ Len(ReadPart) = offset
  BY <1>1, DiskFields, Prefix DEF ReadPart
<1>3. /\ body.bytes = Capture(ReadPart, check.maxRead)
      /\ body.incomplete <=> offset > check.maxRead
      /\ found = Occurring(check.contains, body.bytes)
  BY DEF CaptureIsPrefix, ReadPart, Occurring, Required
<1>4. QED
  BY <1>1, <1>2, <1>3 DEF Holds

(* The file may grow under the probe. *)
LEMMA PrefixKept ==
    ASSUME TypeOK, CaptureIsPrefix, UNCHANGED <<given, readVars>>,
           AppendOnly' => AppendOnly /\ Grown
    PROVE  CaptureIsPrefix'
<1> SUFFICES ASSUME AppendOnly', fd' # None
             PROVE  CaptureIsPrefix'
  BY DEF CaptureIsPrefix
<1>1. fd' = fd /\ offset' = offset /\ body' = body /\ found' = found
      /\ check' = check
  BY DEF given, readVars
<1>2. fd \in Files /\ offset \in Nat /\ offset <= Len(disk[fd].content)
  BY <1>1, WhatIsRead
<1>3. PICK t \in Seq(Bytes) : disk'[fd].content = disk[fd].content \o t
  BY <1>2 DEF Grown
<1>4. /\ disk[fd].content \in Seq(Bytes) /\ Len(disk[fd].content) \in Nat
      /\ Len(t) \in Nat
  BY <1>2, DiskFields, LenProperties
<1>5. offset <= Len(disk'[fd].content)
  <2>1. Len(disk[fd].content \o t) = Len(disk[fd].content) + Len(t)
    BY <1>4, ConcatProperties
  <2>2. QED
    BY <2>1, <1>2, <1>3, <1>4
<1>6. SubSeq(disk'[fd].content, 1, offset) = SubSeq(disk[fd].content, 1, offset)
  BY <1>2, <1>3, <1>4, PrefixOfLonger
<1>7. QED
  BY <1>1, <1>5, <1>6 DEF CaptureIsPrefix, Required

(* One turn of the loop of read_file. *)
LEMMA ReadChunkExact ==
    ASSUME TypeOK, CaptureIsPrefix, NEW n \in 1 .. ReadSize, ReadChunk(n)
    PROVE  CaptureIsPrefix'
<1> SUFFICES ASSUME AppendOnly', fd' # None
             PROVE  CaptureIsPrefix'
  BY DEF CaptureIsPrefix
<1>1. fd' = fd /\ disk' = disk /\ check' = check /\ AppendOnly /\ fd # None
  BY DEF ReadChunk, diskVars, given, AppendOnly
<1> DEFINE content == disk[fd].content
           chunk   == SubSeq(Suffix(content, offset), 1, n)
           longer  == SubSeq(content, 1, offset + n)
           limit   == check.maxRead
<1>2. /\ offset \in Nat /\ offset <= Len(content)
      /\ content \in Seq(Bytes) /\ Len(content) \in Nat
      /\ ReadPart \in Seq(Bytes) /\ Holds(body, ReadPart, limit)
      /\ found = Occurring(check.contains, body.bytes)
      /\ limit \in Nat /\ check.contains \in SUBSET Seq(Bytes)
  BY <1>1, WhatIsRead, DiskFields, CheckFields
<1>3. n \in Nat \ {0}
  BY SizesAssumption
<1>4. Unread = Suffix(content, offset)
  BY <1>2 DEF Unread, Least
<1>5. /\ body' = AppendLimited(body, chunk, limit)
      /\ found' = ObserveAppended(check.contains, found, body'.bytes,
                                  Len(body.bytes))
      /\ offset' = offset + n
      /\ n <= Len(Suffix(content, offset))
  BY <1>4 DEF ReadChunk
<1>6. /\ Suffix(content, offset) \in Seq(Bytes)
      /\ Len(Suffix(content, offset)) = Len(content) - offset
  BY <1>2, SuffixProperties
<1>7. chunk \in Seq(Bytes)
  BY <1>3, <1>5, <1>6, Prefix
<1>8. ReadPart \o chunk = longer
  BY <1>2, <1>3, <1>5, PrefixGrows DEF ReadPart
<1>9. /\ offset + n \in Nat /\ offset + n <= Len(content)
      /\ Len(longer) = offset + n
  <2>1. offset + n \in Nat /\ offset + n <= Len(content)
    BY <1>2, <1>3, <1>5, <1>6
  <2>2. QED
    BY <2>1, <1>2, Prefix
<1> HIDE DEF content, chunk, longer, limit
<1>10. Holds(body', longer, limit)
  BY <1>2, <1>5, <1>7, <1>8, AppendHolds
<1>11. found' = Occurring(check.contains, body'.bytes)
  <2>1. body.bytes \in Seq(Bytes)
    BY DEF TypeOK
  <2>2. /\ body'.bytes \in Seq(Bytes)
        /\ Len(body.bytes) <= Len(body'.bytes)
        /\ \A i \in 1 .. Len(body.bytes) : body'.bytes[i] = body.bytes[i]
    BY <2>1, <1>2, <1>5, <1>7, AppendExtends
  <2>3. /\ check.contains \in SUBSET Seq(Bytes)
        /\ found = Occurring(check.contains, body.bytes)
    BY <1>2
  <2>4. ObserveAppended(check.contains, found, body'.bytes, Len(body.bytes))
            = Occurring(check.contains, body'.bytes)
    BY <2>1, <2>2, <2>3, ObserveIsExact, ZenonT(60)
  <2>5. QED
    BY <2>4, <1>5
<1>12. QED
  BY <1>1, <1>5, <1>9, <1>10, <1>11
     DEF CaptureIsPrefix, Holds, Required, Occurring, content, longer, limit

LEMMA PrefixStep ==
    ASSUME TypeOK, UntouchedInv, CaptureIsPrefix, [Next]_vars
    PROVE  CaptureIsPrefix'
<1>1. CASE OtherStep
  BY <1>1, OthersOnlyAppend, PrefixKept
<1>2. ASSUME UNCHANGED <<given, readVars, disk, truncated>>
      PROVE  CaptureIsPrefix'
  BY <1>2 DEF CaptureIsPrefix, AppendOnly, given, readVars, Required
<1>3. ASSUME NEW n \in 1 .. ReadSize, ReadChunk(n)  PROVE CaptureIsPrefix'
  BY <1>3, ReadChunkExact
<1>4. CASE Metadata
  BY <1>4 DEF Metadata, given, diskVars, CaptureIsPrefix, AppendOnly, Required
<1>5. CASE Open
  <2>1. CASE UNCHANGED <<fd, found>>
    BY <2>1, <1>2, <1>5 DEF Open, given, diskVars, readVars
  <2>2. CASE CanOpen /\ Opened(path)
    <3>1. /\ fd' = path /\ path \in Files /\ disk' = disk /\ check' = check
          /\ found' = NewMatcher(check.contains)
          /\ offset' = 0 /\ body' = EmptyBuffer
      BY <1>5, <2>2 DEF Open, Opened, CanOpen, UntouchedInv, TypeOK, given,
                        diskVars
    <3>2. 0 <= Len(disk[path].content) /\ disk[path].content \in Seq(Bytes)
      BY <3>1, DiskFields
    <3>3. SubSeq(disk[path].content, 1, 0) = <<>>
      BY <3>2, SubSeqEmpty
    <3>4. Holds(EmptyBuffer, <<>>, check.maxRead)
      BY CheckFields, EmptyHolds
    <3>5. ~(0 > check.maxRead)
      BY CheckFields
    <3>6. NewMatcher(check.contains)
              = {m \in check.contains : ContainsSlice(<<>>, m)}
      BY CheckFields, EmptyContains DEF NewMatcher
    <3>7. EmptyBuffer.bytes = <<>> /\ EmptyBuffer.incomplete = FALSE
      BY DEF EmptyBuffer
    <3>8. QED
      BY <3>1, <3>2, <3>3, <3>4, <3>5, <3>6, <3>7
         DEF CaptureIsPrefix, Holds, Required
  <2>3. QED
    BY <2>1, <2>2, <1>5 DEF Open, CanOpen
<1>6. QED
  BY <1>1, <1>2, <1>3, <1>4, <1>5
     DEF Next, ProbeStep, Validate, ReadEof, ReadDirectory, ReadFails,
         MetadataFails, Judge, TimesOut, Tick, Terminated, vars, diskVars

-----------------------------------------------------------------------------
(* The rest of the invariant *)

LEMMA ControlStep ==
    ASSUME TypeOK, ControlInv, UntouchedInv, [Next]_vars
    PROVE  ControlInv' /\ UntouchedInv'
<1> USE DEF ControlInv, UntouchedInv, Return, given, readVars, diskVars
<1>1. CASE OtherStep
  BY <1>1, OthersOnlyAppend
<1>2. CASE Validate
  BY <1>2 DEF Validate
<1>3. CASE Metadata
  BY <1>3 DEF Metadata, MetadataVerdict
<1>4. CASE Open
  BY <1>4 DEF Open
<1>5. ASSUME NEW n \in 1 .. ReadSize, ReadChunk(n)
      PROVE  ControlInv' /\ UntouchedInv'
  BY <1>5 DEF ReadChunk
<1>6. CASE ReadEof \/ ReadDirectory \/ ReadFails \/ MetadataFails \/ Judge
           \/ TimesOut
  BY <1>6 DEF ReadEof, ReadDirectory, ReadFails, MetadataFails, Judge, TimesOut
<1>7. CASE Tick \/ Terminated \/ UNCHANGED vars
  BY <1>7 DEF Tick, Terminated, vars
<1>8. QED
  BY <1>1, <1>2, <1>3, <1>4, <1>5, <1>6, <1>7 DEF Next, ProbeStep

(* A file that grew still has the size that was asked for. *)
LEMMA SizedStays ==
    ASSUME TypeOK, NEW f \in Files, Sized(disk[f]), Grown, check' = check
    PROVE  Sized(disk[f])'
<1>1. PICK t \in Seq(Bytes) : /\ disk'[f].kind = disk[f].kind
                            /\ disk'[f].content = disk[f].content \o t
  BY DEF Grown
<1>2. /\ disk[f].content \in Seq(Bytes) /\ Len(disk[f].content) \in Nat
      /\ Len(t) \in Nat
  BY DiskFields, LenProperties
<1>3. Len(disk'[f].content) = Len(disk[f].content) + Len(t)
  BY <1>1, <1>2, ConcatProperties
<1>4. Len(disk'[f].content) \in Nat
      /\ Len(disk'[f].content) >= Len(disk[f].content)
  BY <1>2, <1>3
<1>5. disk[f].content # <<>> => disk'[f].content # <<>>
  <2>1. ASSUME disk[f].content # <<>>  PROVE Len(disk[f].content) # 0
    BY <2>1, <1>2, EmptySeq
  <2>2. ASSUME disk'[f].content = <<>>  PROVE Len(disk'[f].content) = 0
    BY <2>2, EmptySeq
  <2>3. QED
    BY <2>1, <2>2, <1>2, <1>3
<1>6. check.minSize \in Nat \cup {None}
  BY CheckFields
<1>7. QED
  BY <1>1, <1>2, <1>4, <1>5, <1>6 DEF Sized, Below
LEMMA SizeStep ==
    ASSUME TypeOK, UntouchedInv, SizeInv, [Next]_vars
    PROVE  SizeInv'
<1> SUFFICES ASSUME AppendOnly', ~swapped',
                    pc' \in {"open", "hang", "read", "judge"}
             PROVE  path' # None /\ Sized(disk[path])' /\ fd' \in {path', None}
  BY DEF SizeInv
<1>1. CASE OtherStep
  <2>1. /\ UNCHANGED <<check, pc, fd, path>> /\ AppendOnly /\ ~swapped
        /\ Grown
    BY <1>1, OthersOnlyAppend DEF given, readVars
  <2>2. path \in Files /\ Sized(disk[path]) /\ fd \in {path, None}
    BY <2>1 DEF SizeInv, TypeOK
  <2>3. Sized(disk[path])'
    BY <2>1, <2>2, SizedStays
  <2>4. QED
    BY <2>1, <2>2, <2>3, NoneAssumption
<1>2. CASE Metadata
  <2>1. /\ path # None /\ MetadataVerdict(disk[path]) = "healthy"
        /\ UNCHANGED <<check, fd, path, disk>> /\ pc = "metadata"
    BY <1>2 DEF Metadata, Return, given, diskVars
  <2>2. Sized(disk[path])
    BY <2>1 DEF MetadataVerdict, Sized, Regular
  <2>3. fd = None
    BY <2>1 DEF UntouchedInv
  <2>4. QED
    BY <2>1, <2>2, <2>3 DEF Sized, Below
<1>3. ASSUME UNCHANGED <<check, path, disk, swapped, truncated>>,
             pc \in {"open", "hang", "read", "judge"},
             fd' = fd \/ fd' = path
      PROVE  path' # None /\ Sized(disk[path])' /\ fd' \in {path', None}
  BY <1>3 DEF SizeInv, Sized, Below, AppendOnly
<1>4. CASE Validate
  BY <1>4 DEF Validate, Return
<1>5. CASE Open
  BY <1>5, <1>3 DEF Open, Opened, Return, given, diskVars
<1>6. ASSUME NEW n \in 1 .. ReadSize, ReadChunk(n)
      PROVE  path' # None /\ Sized(disk[path])' /\ fd' \in {path', None}
  BY <1>6, <1>3 DEF ReadChunk, given, diskVars
<1>7. CASE ReadEof
  BY <1>7, <1>3 DEF ReadEof, given, readVars, diskVars
<1>8. CASE ReadDirectory \/ ReadFails \/ MetadataFails \/ Judge \/ TimesOut
  BY <1>8 DEF ReadDirectory, ReadFails, MetadataFails, Judge, TimesOut, Return
<1>9. CASE Tick
  BY <1>9 DEF Tick, given, readVars, diskVars, SizeInv, Sized, Below, AppendOnly
<1>10. CASE Terminated \/ UNCHANGED vars
  BY <1>10 DEF Terminated, vars, given, readVars, diskVars, SizeInv, Sized,
               Below, AppendOnly
<1>11. QED
  BY <1>1, <1>2, <1>4, <1>5, <1>6, <1>7, <1>8, <1>9, <1>10
     DEF Next, ProbeStep

-----------------------------------------------------------------------------
(* What the verdicts mean *)

(* Once there is a verdict nothing changes any more. *)
LEMMA VerdictIsFinal ==
    ASSUME TypeOK, ControlInv, [Next]_vars, verdict # "none"
    PROVE  UNCHANGED vars
<1>1. pc = "done"
  BY DEF ControlInv
<1>2. ~OtherStep
  BY <1>1, OthersOnlyAppend
<1>3. QED
  BY <1>1, <1>2
     DEF Next, ProbeStep, Validate, Metadata, Open, ReadChunk, ReadEof,
         ReadDirectory, ReadFails, MetadataFails, Judge, TimesOut, Suspended,
         Tick, Terminated

(* What run_inner knows when it has read and judges what it captured. *)
LEMMA AtJudge ==
    ASSUME TypeOK, CaptureIsPrefix, AppendOnly, pc = "judge"
    PROVE  /\ fd \in Files /\ fd # None
           /\ \A n \in check.contains :
                 ContainsSlice(body.bytes, n) =>
                     ContainsSlice(Capture(disk[fd].content, check.maxRead), n)
           /\ body.incomplete =>
                 /\ Len(disk[fd].content) > check.maxRead
                 /\ body.bytes = Capture(disk[fd].content, check.maxRead)
<1> DEFINE content == disk[fd].content
           rest    == Suffix(content, offset)
           limit   == check.maxRead
<1>1. fd # None
  BY DEF TypeOK
<1>2. /\ fd \in Files /\ offset \in Nat /\ offset <= Len(content)
      /\ ReadPart \in Seq(Bytes) /\ Len(ReadPart) = offset
      /\ Holds(body, ReadPart, limit)
      /\ content \in Seq(Bytes) /\ Len(content) \in Nat
      /\ limit \in Nat /\ check.contains \in SUBSET Seq(Bytes)
  BY <1>1, WhatIsRead, DiskFields, CheckFields
<1>3. rest \in Seq(Bytes) /\ ReadPart \o rest = content
  BY <1>2, SuffixProperties, PrefixAndSuffix DEF ReadPart
<1>4. body.bytes = Capture(ReadPart, limit)
      /\ (body.incomplete <=> offset > limit)
  BY <1>2 DEF Holds
<1> HIDE DEF content, rest, limit
<1>5. ASSUME NEW n \in check.contains, ContainsSlice(body.bytes, n)
      PROVE  ContainsSlice(Capture(content, limit), n)
  <2>1. n \in Seq(Bytes) /\ ContainsSlice(Capture(ReadPart, limit), n)
    BY <1>2, <1>4, <1>5
  <2>2. ContainsSlice(Capture(ReadPart \o rest, limit), n)
    BY <2>1, <1>2, <1>3, FoundStaysFound
  <2>3. QED
    BY <2>2, <1>3
<1>6. ASSUME body.incomplete
      PROVE  Len(content) > limit /\ body.bytes = Capture(content, limit)
  <2>1. offset > limit
    BY <1>4, <1>6
  <2>2. Len(content) > limit /\ Len(ReadPart) >= limit
    BY <2>1, <1>2
  <2>3. Capture(ReadPart \o rest, limit) = Capture(ReadPart, limit)
    BY <2>2, <1>2, <1>3, FullStaysSame
  <2>4. QED
    BY <2>2, <2>3, <1>3, <1>4
<1>7. QED
  BY <1>1, <1>2, <1>5, <1>6 DEF content, limit

LEMMA HealthyStep ==
    ASSUME TypeOK, ControlInv, UntouchedInv, SizeInv, SizeInv', CaptureIsPrefix,
           HealthyIsEarned, [Next]_vars
    PROVE  HealthyIsEarned'
<1> SUFFICES ASSUME AppendOnly', verdict' = "healthy"
             PROVE  HealthyIsEarned'
  BY DEF HealthyIsEarned
<1> USE DEF Return, given, readVars, diskVars
<1>1. CASE verdict # "none"
  <2>1. UNCHANGED vars
    BY <1>1, VerdictIsFinal
  <2>2. QED
    BY <2>1 DEF vars, HealthyIsEarned, AppendOnly, Required, Below
<1>2. CASE verdict = "none" /\ Metadata
  <2>1. /\ path # None /\ MetadataVerdict(disk[path]) = "healthy"
        /\ ~(check.readable \/ check.contains # {})
        /\ UNCHANGED <<check, fd, path, disk>> /\ pc = "metadata"
    BY <1>2 DEF Metadata
  <2>2. Sized(disk[path])
    BY <2>1 DEF MetadataVerdict, Sized, Regular
  <2>3. fd = None
    BY <2>1 DEF UntouchedInv
  <2>4. QED
    BY <2>1, <2>2, <2>3 DEF HealthyIsEarned, Required, Sized, Below
<1>3. CASE verdict = "none" /\ Open
  <2>1. /\ CanOpen /\ Opened(path) /\ check.contains = {} /\ pc = "open"
        /\ UNCHANGED <<check, path, disk, swapped, truncated>>
    BY <1>3 DEF Open
  <2>2. fd' = path /\ path # None
    BY <2>1 DEF Opened, CanOpen
  <2>3. ~swapped => Sized(disk[path])
    BY <2>1 DEF SizeInv, AppendOnly
  <2>4. QED
    BY <2>1, <2>2, <2>3 DEF HealthyIsEarned, Required, Sized, Below
<1>4. CASE verdict = "none" /\ Judge
  <2>1. /\ pc = "judge" /\ Missing = {} /\ AppendOnly
        /\ UNCHANGED <<check, path, disk, swapped, truncated, fd, body>>
    BY <1>4 DEF Judge, AppendOnly
  <2>2. \A n \in check.contains : ContainsSlice(body.bytes, n)
    BY <2>1 DEF Missing
  <2>3. /\ fd # None
        /\ \A n \in check.contains :
              ContainsSlice(Capture(disk[fd].content, check.maxRead), n)
    BY <2>1, <2>2, AtJudge
  <2>4. ~swapped => path # None /\ Sized(disk[path]) /\ fd \in {path, None}
    BY <2>1 DEF SizeInv
  <2>5. QED
    BY <2>1, <2>3, <2>4 DEF HealthyIsEarned, Required, Sized, Below
<1>5. CASE verdict = "none" /\ OtherStep
  BY <1>5, OthersOnlyAppend
<1>6. QED
  BY <1>1, <1>2, <1>3, <1>4, <1>5
     DEF Next, ProbeStep, Validate, ReadChunk, ReadEof, ReadDirectory,
         ReadFails, MetadataFails, TimesOut, Tick, Terminated, vars

LEMMA CutStep ==
    ASSUME TypeOK, ControlInv, CaptureIsPrefix, CutIsReal, [Next]_vars
    PROVE  CutIsReal'
<1> SUFFICES ASSUME AppendOnly', verdict' = "truncated"
             PROVE  CutIsReal'
  BY DEF CutIsReal
<1> USE DEF Return, given, readVars, diskVars
<1>1. CASE verdict # "none"
  <2>1. UNCHANGED vars
    BY <1>1, VerdictIsFinal
  <2>2. QED
    BY <2>1 DEF vars, CutIsReal, AppendOnly, Required
<1>2. CASE verdict = "none" /\ Judge
  <2>1. /\ pc = "judge" /\ Missing # {} /\ body.incomplete /\ AppendOnly
        /\ UNCHANGED <<check, disk, fd>>
    BY <1>2 DEF Judge, AppendOnly
  <2>2. PICK n \in check.contains : ~ContainsSlice(body.bytes, n)
    BY <2>1 DEF Missing
  <2>3. /\ Len(disk[fd].content) > check.maxRead
        /\ body.bytes = Capture(disk[fd].content, check.maxRead)
    BY <2>1, AtJudge
  <2>4. QED
    BY <2>1, <2>2, <2>3 DEF CutIsReal, Required
<1>3. CASE verdict = "none" /\ OtherStep
  BY <1>3, OthersOnlyAppend
<1>4. CASE verdict = "none" /\ Metadata
  BY <1>4 DEF Metadata, MetadataVerdict
<1>5. QED
  BY <1>1, <1>2, <1>3, <1>4
     DEF Next, ProbeStep, Validate, Open, ReadChunk, ReadEof, ReadDirectory,
         ReadFails, MetadataFails, TimesOut, Tick, Terminated, vars

-----------------------------------------------------------------------------
LEMMA FileInvInit == Init => FileInv
<1> SUFFICES ASSUME Init  PROVE FileInv
  OBVIOUS
<1>1. TypeOK
  BY TypeInit
<1>2. ControlInv /\ UntouchedInv /\ SizeInv
  BY DEF Init, ControlInv, UntouchedInv, SizeInv
<1>3. CaptureIsPrefix /\ HealthyIsEarned /\ CutIsReal
  BY DEF Init, CaptureIsPrefix, HealthyIsEarned, CutIsReal
<1>4. QED
  BY <1>1, <1>2, <1>3 DEF FileInv

LEMMA FileInvStep == FileInv /\ [Next]_vars => FileInv'
<1> SUFFICES ASSUME FileInv, [Next]_vars  PROVE FileInv'
  OBVIOUS
<1>1. TypeOK'
  BY TypeStep DEF FileInv
<1>2. ControlInv' /\ UntouchedInv' /\ SizeInv'
  BY ControlStep, SizeStep DEF FileInv
<1>3. CaptureIsPrefix'
  BY PrefixStep DEF FileInv
<1>4. HealthyIsEarned' /\ CutIsReal'
  BY <1>2, HealthyStep, CutStep DEF FileInv
<1>5. QED
  BY <1>1, <1>2, <1>3, <1>4 DEF FileInv

(* The inductive invariant holds in every reachable state. *)
THEOREM FileInvHolds == Spec => []FileInv
BY FileInvInit, FileInvStep, PTL DEF Spec

(* read_file holds a prefix of the file, however short its reads are and    *)
(* however the file grows meanwhile.                                        *)
THEOREM PrefixHolds == Spec => []CaptureIsPrefix
<1>1. FileInv => CaptureIsPrefix
  BY DEF FileInv
<1>2. QED
  BY <1>1, FileInvHolds, PTL

(* run_inner says healthy only of a file that has what was asked for. *)
THEOREM HealthyHolds == Spec => []HealthyIsEarned
<1>1. FileInv => HealthyIsEarned
  BY DEF FileInv
<1>2. QED
  BY <1>1, FileInvHolds, PTL

(* run_inner blames --max-read only when it cut the file. *)
THEOREM CutHolds == Spec => []CutIsReal
<1>1. FileInv => CutIsReal
  BY DEF FileInv
<1>2. QED
  BY <1>1, FileInvHolds, PTL

(* When reading stops short of all texts, the captured bytes are all of the *)
(* file.                                                                    *)
LEMMA AbsenceStep ==
    ASSUME FileInv, [Next]_vars, AppendOnly, pc = "read", pc' = "judge",
           ~body'.incomplete, Missing' # {}
    PROVE  body'.bytes = disk[fd].content
<1>1. TypeOK /\ CaptureIsPrefix /\ fd # None
  BY DEF FileInv, TypeOK
<1>2. ASSUME NEW n \in 1 .. ReadSize, ReadChunk(n)  PROVE FALSE
  <2>1. CaptureIsPrefix' /\ AppendOnly' /\ fd' # None /\ check' = check
    BY <1>1, <1>2, ReadChunkExact DEF ReadChunk, diskVars, given, AppendOnly
  <2>2. found' = {m \in check.contains : ContainsSlice(body'.bytes, m)}
    BY <2>1 DEF CaptureIsPrefix, Required
  <2>3. found' = check.contains
    BY <1>2 DEF ReadChunk, Enough, AllMatched
  <2>4. Missing' = {m \in check.contains : ~ContainsSlice(body'.bytes, m)}
    BY <2>1 DEF Missing
  <2>5. QED
    BY <2>2, <2>3, <2>4
<1>3. CASE ReadEof
  <2>1. Unread = <<>> /\ body' = body
    BY <1>3 DEF ReadEof, readVars
  <2>2. /\ fd \in Files /\ offset \in Nat /\ offset <= Len(disk[fd].content)
        /\ Len(ReadPart) = offset /\ ReadPart \in Seq(Bytes)
        /\ Holds(body, ReadPart, check.maxRead)
        /\ disk[fd].content \in Seq(Bytes) /\ Len(disk[fd].content) \in Nat
        /\ check.maxRead \in Nat
    BY <1>1, WhatIsRead, DiskFields, CheckFields
  <2>3. Unread = Suffix(disk[fd].content, offset)
    BY <2>2 DEF Unread, Least
  <2>4. ReadPart = disk[fd].content
    <3>1. ReadPart \o Suffix(disk[fd].content, offset) = disk[fd].content
      BY <2>2, PrefixAndSuffix DEF ReadPart
    <3>2. ReadPart \o <<>> = ReadPart
      BY <2>2, ConcatEmptySeq
    <3>3. QED
      BY <3>1, <3>2, <2>1, <2>3
  <2>5. Len(ReadPart) <= check.maxRead
    BY <2>1, <2>2 DEF Holds
  <2>6. Capture(ReadPart, check.maxRead) = ReadPart
    BY <2>2, <2>5, CaptureWhole
  <2>7. QED
    BY <2>1, <2>2, <2>4, <2>6 DEF Holds
<1>4. CASE OtherStep
  BY <1>1, <1>4, OthersOnlyAppend
<1>5. QED
  BY <1>2, <1>3, <1>4
     DEF Next, ProbeStep, Validate, Metadata, Open, Return, ReadDirectory,
         ReadFails, MetadataFails, Judge, TimesOut, Tick, Terminated, vars, given

(* The probe calls a text missing only after it has seen all of the file. *)
THEOREM AbsenceHolds == Spec => AbsenceIsProven
<1>1. FileInv /\ [Next]_vars
      => [/\ AppendOnly
          /\ pc = "read" /\ pc' = "judge"
          /\ ~body'.incomplete /\ Missing' # {}
          => body'.bytes = disk[fd].content]_vars
  BY AbsenceStep
<1>2. QED
  BY <1>1, FileInvHolds, PTL DEF Spec, AbsenceIsProven

-----------------------------------------------------------------------------
(* The refinement of the contract of a probe *)

(* The timer starts at Start. *)
StartInv == pc = "start" => now = Start

LEMMA StartStep == TypeOK /\ StartInv /\ [Next]_vars => StartInv'
<1> SUFFICES ASSUME TypeOK, StartInv, [Next]_vars, pc' = "start"
             PROVE  pc = "start" /\ now' = now
  BY DEF StartInv
<1>1. CASE OtherStep
  BY <1>1, OthersOnlyAppend
<1>2. CASE ~OtherStep
  BY <1>2 DEF Next, ProbeStep, Validate, Metadata, Open, ReadChunk, ReadEof,
              ReadDirectory, ReadFails, MetadataFails, Judge, TimesOut, Tick,
              Terminated,
              Suspended, Return, vars
<1>3. QED
  BY <1>1, <1>2

LEMMA ContractInit == Init => Contract!Init
BY ClockAssumption DEF Init, Contract!Init, Phase, Outcome

(* What a step looks like from outside. *)
LEMMA ContractCases ==
    ASSUME TypeOK, ControlInv, UNCHANGED <<given, now>>,
           \/ UNCHANGED <<pc, verdict>>
           \/ /\ pc \notin {"start", "done"}
              /\ pc' \notin {"start", "done"} /\ UNCHANGED verdict
           \/ /\ pc \notin {"start", "done"} /\ pc' = "done"
              /\ verdict' # "none"
              /\ verdict' = "timeout" => Expired
    PROVE  [Contract!Next]_(Contract!vars)
<1> USE DEF Phase, Outcome, given
<1>1. ASSUME pc \notin {"start", "done"}, pc' = "done", verdict' # "none",
             verdict' = "timeout" => Expired
      PROVE  Contract!Next
  <2>1. Outcome' \in Contract!Outcomes /\ Outcome = "none"
    BY <1>1 DEF Contract!Outcomes, ControlInv
  <2>2. Contract!End(Outcome')
    BY <1>1, <2>1 DEF Contract!End, ControlInv, Expired
  <2>3. QED
    BY <2>1, <2>2 DEF Contract!Next
<1>2. CASE UNCHANGED <<pc, verdict>>
  BY <1>2 DEF Contract!vars
<1>3. CASE /\ pc \notin {"start", "done"}
           /\ pc' \notin {"start", "done"} /\ UNCHANGED verdict
  BY <1>3 DEF Contract!vars
<1>4. QED
  BY <1>1, <1>2, <1>3

LEMMA ContractStep ==
    TypeOK /\ ControlInv /\ StartInv /\ [Next]_vars
        => [Contract!Next]_(Contract!vars)
<1> SUFFICES ASSUME TypeOK, ControlInv, StartInv, [Next]_vars
             PROVE  [Contract!Next]_(Contract!vars)
  OBVIOUS
<1>0. Start \in Nat /\ Timeout \in Nat /\ now \in Nat
  BY ClockAssumption DEF TypeOK
<1>1. CASE Validate /\ ValidCheck
  <2>1. Contract!Begin
    BY <1>0, <1>1 DEF Validate, StartInv, ControlInv, given, Contract!Begin,
                      Phase, Outcome
  <2>2. QED
    BY <2>1 DEF Contract!Next
<1>2. CASE Validate /\ ~ValidCheck
  <2>1. Contract!Refuse
    BY <1>2 DEF Validate, Return, given, Contract!Refuse, Phase, Outcome
  <2>2. QED
    BY <2>1 DEF Contract!Next, Contract!Outcomes
<1>3. CASE Tick
  <2>1. Contract!Wait
    BY <1>0, <1>3 DEF Tick, Suspended, Expired, given, Contract!Wait, Phase,
                      Outcome
  <2>2. QED
    BY <2>1 DEF Contract!Next
<1>4. CASE Metadata
  <2>1. \/ pc' = "open" /\ UNCHANGED verdict
        \/ pc' = "done" /\ verdict' \in {"absent", "irregular", "smaller",
                                         "larger", "empty", "future", "older",
                                         "healthy"}
    BY <1>4 DEF Metadata, MetadataVerdict, Return
  <2>2. QED
    BY <1>4, <2>1, ContractCases DEF Metadata
<1>5. CASE Open
  <2>1. \/ pc' \in {"hang", "read"} /\ UNCHANGED verdict
        \/ pc' = "done" /\ verdict' \in {"unopened", "healthy"}
    BY <1>5 DEF Open, Return
  <2>2. QED
    BY <1>5, <2>1, ContractCases DEF Open
<1>6. ASSUME NEW n \in 1 .. ReadSize, ReadChunk(n)
      PROVE  [Contract!Next]_(Contract!vars)
  <2>1. pc' \in {"judge", "read"}
    BY <1>6 DEF ReadChunk
  <2>2. QED
    BY <1>6, <2>1, ContractCases DEF ReadChunk
<1>7. CASE ReadEof
  BY <1>7, ContractCases DEF ReadEof
<1>8. CASE ReadDirectory \/ ReadFails \/ MetadataFails
  BY <1>8, ContractCases DEF ReadDirectory, ReadFails, MetadataFails, Return
<1>9. CASE Judge
  <2>1. pc' = "done" /\ verdict' \in {"healthy", "truncated", "missing"}
    BY <1>9 DEF Judge, Return
  <2>2. QED
    BY <1>9, <2>1, ContractCases DEF Judge
<1>10. CASE TimesOut
  BY <1>10, ContractCases DEF TimesOut, Suspended, Return
<1>11. CASE OtherStep
  BY <1>11, OthersOnlyAppend, ContractCases
<1>12. CASE Terminated \/ UNCHANGED vars
  BY <1>12, ContractCases DEF Terminated, vars
<1>13. QED
  BY <1>1, <1>2, <1>3, <1>4, <1>5, <1>6, <1>7, <1>8, <1>9, <1>10, <1>11, <1>12
     DEF Next, ProbeStep

(* The file probe implements the contract of a probe, whatever other        *)
(* programs do to the file meanwhile, and also when it hangs on a FIFO.     *)
THEOREM ContractKept == Spec => KeepsContract
<1>1. Init => StartInv
  BY DEF Init, StartInv
<1>2. FileInv => TypeOK /\ ControlInv
  BY DEF FileInv
<1>3. TypeOK /\ StartInv /\ [Next]_vars => StartInv'
  BY StartStep
<1>4. QED
  BY <1>1, <1>2, <1>3, ContractInit, ContractStep, FileInvHolds, PTL
     DEF Spec, KeepsContract, Contract!Spec

-----------------------------------------------------------------------------
(* What can hang *)

(* A path that nobody changed names, once its metadata were looked at, the  *)
(* regular file they were of.                                               *)
HangInv ==
    /\ prompt /\ verdict = "timeout" => swapped
    /\ pc \in {"open", "hang"} /\ ~swapped =>
          path # None /\ disk[path].kind = "regular"
    /\ pc = "hang" => swapped

LEMMA HangStep == TypeOK /\ HangInv /\ [Next]_vars => HangInv'
<1> SUFFICES ASSUME TypeOK, HangInv, [Next]_vars  PROVE HangInv'
  OBVIOUS
<1> USE DEF Return, given, readVars, diskVars
<1>1. CASE Metadata
  <2>1. \/ pc' = "open" /\ verdict' = verdict
           /\ path # None /\ MetadataVerdict(disk[path]) = "healthy"
        \/ pc' = "done" /\ verdict' # "timeout"
    BY <1>1 DEF Metadata, MetadataVerdict
  <2>2. pc' = "open" => disk[path].kind = "regular"
    BY <2>1 DEF MetadataVerdict, Regular
  <2>3. UNCHANGED <<given, diskVars>>
    BY <1>1 DEF Metadata
  <2>4. QED
    BY <2>1, <2>2, <2>3 DEF HangInv
<1>2. CASE Open
  BY <1>2 DEF Open, HangInv
<1>3. CASE Validate
  BY <1>3 DEF Validate, HangInv
<1>4. ASSUME NEW n \in 1 .. ReadSize, ReadChunk(n)  PROVE HangInv'
  BY <1>4 DEF ReadChunk, HangInv
<1>5. CASE ReadEof \/ ReadDirectory \/ ReadFails \/ MetadataFails \/ Judge
  BY <1>5 DEF ReadEof, ReadDirectory, ReadFails, MetadataFails, Judge, HangInv
<1>6. CASE TimesOut
  BY <1>6 DEF TimesOut, HangInv
<1>7. CASE Tick \/ Terminated \/ UNCHANGED vars
  BY <1>7 DEF Tick, Terminated, vars, HangInv
<1>8. CASE OtherStep
  <2>1. UNCHANGED <<given, pc, verdict>>
    BY <1>8, OthersOnlyAppend
  <2>2. swapped' \/ UNCHANGED <<path, swapped>>
    BY <1>8 DEF OtherStep, Extend, Truncate, Write, Chmod, Replace, Remove,
                Rename
  <2>3. \A f \in Files : disk'[f].kind = disk[f].kind
    <3>1. ASSUME NEW g \in Files, NEW kind, NEW content, Write(g, kind, content)
          PROVE  \A f \in Files : disk'[f].kind = disk[f].kind
      BY <3>1 DEF Write, TypeOK, FileType
    <3>2. ASSUME NEW g \in Files, Chmod(g)
          PROVE  \A f \in Files : disk'[f].kind = disk[f].kind
      BY <3>2 DEF Chmod, TypeOK, FileType
    <3>3. CASE UNCHANGED disk
      BY <3>3
    <3>4. QED
      BY <1>8, <3>1, <3>2, <3>3
         DEF OtherStep, Extend, Truncate, Replace, Remove, Rename
  <2>4. QED
    BY <2>1, <2>2, <2>3 DEF HangInv, TypeOK
<1>9. QED
  BY <1>1, <1>2, <1>3, <1>4, <1>5, <1>6, <1>7, <1>8 DEF Next, ProbeStep

(* On a host that delays nothing the probe times out only if the path was   *)
(* made to name something else under it.                                    *)
THEOREM HangHolds == Spec => []OnlySwapsHang
<1>1. Init => HangInv
  BY DEF Init, HangInv
<1>2. HangInv => OnlySwapsHang
  BY DEF HangInv, OnlySwapsHang
<1>3. QED
  BY <1>1, <1>2, TypeInit, TypeStep, HangStep, PTL DEF Spec

-----------------------------------------------------------------------------
(* The verdict on a file that nobody touches *)

Idle == prompt /\ changes = 0

(* The assertions that are checked before the file is opened. *)
Admitted(f) ==
    /\ f.kind = "regular"
    /\ check.minSize # None => Len(f.content) >= check.minSize
    /\ check.maxSize # None => Len(f.content) <= check.maxSize
    /\ check.nonEmpty => f.content # <<>>
    /\ Fresh(f)

TextsInside(f) ==
    \A n \in check.contains : ContainsSlice(Capture(f.content, check.maxRead), n)

(* What run_inner has found out, step by step, as long as nobody touches    *)
(* the file: it is never wrong and, where it goes on, what it has checked   *)
(* so far still holds.                                                      *)
IdleInv ==
    Idle =>
        /\ ~swapped /\ ~truncated
        /\ pc \in {"open", "read", "judge"} =>
              /\ path # None /\ Admitted(disk[path])
              /\ check.readable \/ check.contains # {}
        /\ pc \in {"read", "judge"} => fd = path /\ disk[path].open
        /\ pc = "judge" /\ ~body.incomplete /\ Missing # {} =>
              body.bytes = disk[path].content
        /\ pc = "done" /\ verdict \notin {"invalid", "noMetadata", "readError"} =>
              /\ verdict = "healthy" <=> path # None /\ Meets(disk[path])
              /\ verdict = "absent" <=> path = None

LEMMA MeetsIsAdmitted ==
    \A f : Meets(f) <=> Admitted(f) /\ Readable(f) /\ TextsInside(f)
BY DEF Meets, Admitted, TextsInside, Required

LEMMA OthersCount ==
    ASSUME TypeOK, OtherStep
    PROVE  changes' # 0
<1>1. changes' = changes + 1
  BY DEF OtherStep, Extend, Truncate, Write, Chmod, Replace, Remove, Changed
<1>2. QED
  BY <1>1 DEF TypeOK

(* The checks of the metadata are the assertions on metadata. *)
LEMMA MetadataIsRight ==
    ASSUME TypeOK, NEW f \in Files
    PROVE  MetadataVerdict(disk[f]) = "healthy" <=> Admitted(disk[f])
<1>1. /\ Len(disk[f].content) \in Nat /\ disk[f].modified \in Nat /\ now \in Nat
      /\ check.minSize \in Nat \cup {None} /\ check.maxSize \in Nat \cup {None}
      /\ check.maxAge \in Nat \cup {None}
  BY DiskFields, ChecksAssumption DEF TypeOK, FileType, CheckType
<1>2. /\ ~Below(Len(disk[f].content), check.minSize) <=>
            (check.minSize # None => Len(disk[f].content) >= check.minSize)
      /\ ~Above(Len(disk[f].content), check.maxSize) <=>
            (check.maxSize # None => Len(disk[f].content) <= check.maxSize)
  BY <1>1 DEF Below, Above
<1>3. Fresh(disk[f]) <=>
          /\ ~(check.maxAge # None /\ disk[f].modified > now)
          /\ ~(check.maxAge # None /\ now - disk[f].modified > check.maxAge)
  BY <1>1 DEF Fresh
<1>4. QED
  BY <1>2, <1>3 DEF MetadataVerdict, Admitted, Regular

(* What was captured has the texts that the file has up to the limit.       *)
LEMMA JudgedRightly ==
    ASSUME FileInv, AppendOnly, pc = "judge",
           ~body.incomplete /\ Missing # {} => body.bytes = disk[fd].content
    PROVE  Missing = {} <=> TextsInside(disk[fd])
<1>1. TypeOK /\ CaptureIsPrefix
  BY DEF FileInv
<1>2. /\ fd \in Files /\ fd # None
      /\ \A n \in check.contains :
            ContainsSlice(body.bytes, n) =>
                ContainsSlice(Capture(disk[fd].content, check.maxRead), n)
      /\ body.incomplete =>
            body.bytes = Capture(disk[fd].content, check.maxRead)
  BY <1>1, AtJudge
<1>3. CASE Missing = {}
  BY <1>2, <1>3 DEF TextsInside, Missing
<1>4. CASE Missing # {} /\ body.incomplete
  BY <1>2, <1>4 DEF TextsInside, Missing
<1>5. CASE Missing # {} /\ ~body.incomplete
  <2>1. body.bytes = disk[fd].content
    BY <1>5
  <2>2. /\ disk[fd].content \in Seq(Bytes) /\ Len(disk[fd].content) \in Nat
        /\ check.maxRead \in Nat /\ ReadPart \in Seq(Bytes)
        /\ Holds(body, ReadPart, check.maxRead)
    BY <1>1, <1>2, DiskFields, CheckFields, WhatIsRead
  <2>3. Len(disk[fd].content) <= check.maxRead
    BY <2>1, <2>2, CaptureProperties DEF Holds
  <2>4. Capture(disk[fd].content, check.maxRead) = disk[fd].content
    BY <2>2, <2>3, CaptureWhole
  <2>5. QED
    BY <1>5, <2>1, <2>4 DEF TextsInside, Missing
<1>6. QED
  BY <1>3, <1>4, <1>5

LEMMA IdleStep == FileInv /\ HangInv /\ IdleInv /\ [Next]_vars => IdleInv'
<1> SUFFICES ASSUME FileInv, HangInv, IdleInv, [Next]_vars, Idle'
             PROVE  IdleInv'
  BY DEF IdleInv
<1>1. TypeOK /\ ControlInv /\ CaptureIsPrefix
  BY DEF FileInv
<1>2. ~OtherStep
  BY <1>1, OthersCount DEF Idle
<1>3. Idle /\ UNCHANGED <<given, diskVars>>
  BY <1>2 DEF Idle, Next, ProbeStep, Validate, Metadata, Open, ReadChunk,
              ReadEof, ReadDirectory, ReadFails, MetadataFails, Judge,
              TimesOut, Tick, Terminated, vars, given, diskVars
<1>4. /\ ~swapped /\ ~truncated
      /\ pc \in {"open", "read", "judge"} =>
            /\ path # None /\ Admitted(disk[path])
            /\ check.readable \/ check.contains # {}
      /\ pc \in {"read", "judge"} => fd = path /\ disk[path].open
      /\ pc = "judge" /\ ~body.incomplete /\ Missing # {} =>
            body.bytes = disk[path].content
      /\ pc = "done" /\ verdict \notin {"invalid", "noMetadata", "readError"} =>
            /\ verdict = "healthy" <=> path # None /\ Meets(disk[path])
            /\ verdict = "absent" <=> path = None
  BY <1>3 DEF IdleInv
<1>5. pc # "hang"
  BY <1>4 DEF HangInv
<1>6. now' = now
  BY <1>2, <1>3, <1>5 DEF Idle, Next, ProbeStep, Validate, Metadata, Open,
       ReadChunk, ReadEof, ReadDirectory, ReadFails, MetadataFails, Judge,
       TimesOut, Tick, Terminated, vars
<1>7. /\ ~swapped' /\ ~truncated' /\ path' = path /\ disk' = disk
      /\ check' = check /\ prompt' = prompt
  BY <1>3, <1>4 DEF given, diskVars
<1>8. \A f : /\ Admitted(f)' <=> Admitted(f)
             /\ Readable(f)' <=> Readable(f)
             /\ Meets(f)' <=> Meets(f)
  BY <1>6, <1>7 DEF Admitted, Readable, Meets, Fresh, Required
<1> USE DEF Return
<1>9. CASE Validate
  BY <1>4, <1>7, <1>9 DEF Validate, IdleInv
<1>10. CASE Metadata
  <2>1. ASSUME path # None
        PROVE  /\ path \in Files
               /\ MetadataVerdict(disk[path]) = "healthy"
                      <=> Admitted(disk[path])
    BY <1>1, <2>1, MetadataIsRight DEF TypeOK
  <2>2. CASE path = None \/ ~Admitted(disk[path])
    <3>1. /\ pc' = "done" /\ verdict' # "healthy"
          /\ verdict' = "absent" <=> path = None
      BY <1>10, <2>1, <2>2 DEF Metadata, MetadataVerdict
    <3>2. ~(path # None /\ Meets(disk[path]))
      BY <2>2, MeetsIsAdmitted
    <3>3. QED
      BY <1>7, <1>8, <3>1, <3>2 DEF IdleInv
  <2>3. CASE path # None /\ Admitted(disk[path])
    <3>1. MetadataVerdict(disk[path]) = "healthy"
      BY <2>1, <2>3
    <3>2. IF check.readable \/ check.contains # {}
            THEN pc' = "open" ELSE pc' = "done" /\ verdict' = "healthy"
      BY <1>10, <2>3, <3>1 DEF Metadata
    <3>3. ~(check.readable \/ check.contains # {}) => Meets(disk[path])
      BY <2>3, MeetsIsAdmitted DEF Readable, TextsInside, Required
    <3>4. QED
      BY <1>7, <1>8, <2>3, <3>2, <3>3 DEF IdleInv
  <2>4. QED
    BY <2>2, <2>3
<1>11. CASE Open
  <2>1. /\ path # None /\ Admitted(disk[path])
        /\ check.readable \/ check.contains # {}
    BY <1>4, <1>11 DEF Open
  <2>2. CASE ~disk[path].open
    <3>1. pc' = "done" /\ verdict' = "unopened"
      BY <1>11, <2>1, <2>2 DEF Open, CanOpen
    <3>2. ~Meets(disk[path])
      BY <2>1, <2>2 DEF Meets, Readable, Required
    <3>3. QED
      BY <1>7, <1>8, <2>1, <3>1, <3>2 DEF IdleInv
  <2>3. CASE disk[path].open
    <3>1. /\ fd' = path
          /\ IF check.contains # {} THEN pc' = "read"
                                    ELSE pc' = "done" /\ verdict' = "healthy"
      BY <1>11, <2>1, <2>3 DEF Open, CanOpen, Opened, Admitted
    <3>2. check.contains = {} => Meets(disk[path])
      BY <2>1, <2>3, MeetsIsAdmitted DEF Readable, TextsInside
    <3>3. QED
      BY <1>7, <1>8, <2>1, <2>3, <3>1, <3>2 DEF IdleInv
  <2>4. QED
    BY <2>2, <2>3
<1>12. ASSUME pc = "read", pc' \in {"read", "judge"}, fd' = fd
       PROVE  IdleInv'
  <2>1. pc' = "judge" /\ ~body'.incomplete /\ Missing' # {} =>
            body'.bytes = disk[fd].content
    BY <1>4, <1>12, AbsenceStep DEF AppendOnly
  <2>2. QED
    BY <1>4, <1>7, <1>8, <1>12, <2>1 DEF IdleInv
<1>13. ASSUME NEW n \in 1 .. ReadSize, ReadChunk(n)  PROVE IdleInv'
  BY <1>12, <1>13 DEF ReadChunk
<1>14. CASE ReadEof
  BY <1>12, <1>14 DEF ReadEof, readVars
<1>15. CASE ReadDirectory \/ ReadFails \/ MetadataFails
  BY <1>7, <1>15 DEF ReadDirectory, ReadFails, MetadataFails, IdleInv
<1>16. CASE Judge
  <2>1. /\ path # None /\ Admitted(disk[path]) /\ fd = path /\ disk[path].open
        /\ ~body.incomplete /\ Missing # {} => body.bytes = disk[fd].content
    BY <1>4, <1>16 DEF Judge
  <2>2. Missing = {} <=> TextsInside(disk[path])
    BY <1>4, <1>16, <2>1, JudgedRightly DEF Judge, AppendOnly
  <2>3. /\ pc' = "done" /\ verdict' # "absent"
        /\ verdict' = "healthy" <=> Missing = {}
    BY <1>16 DEF Judge
  <2>4. Meets(disk[path]) <=> TextsInside(disk[path])
    BY <2>1, MeetsIsAdmitted DEF Readable
  <2>5. QED
    BY <1>7, <1>8, <2>1, <2>2, <2>3, <2>4 DEF IdleInv
<1>17. CASE TimesOut
  BY <1>3, <1>5, <1>17 DEF TimesOut, Idle
<1>18. CASE Tick \/ Terminated \/ UNCHANGED vars
  <2>1. UNCHANGED <<pc, verdict, fd, body>>
    BY <1>18 DEF Tick, Terminated, vars, readVars
  <2>2. Missing' = Missing
    BY <1>7, <2>1 DEF Missing
  <2>3. QED
    BY <1>4, <1>7, <1>8, <2>1, <2>2 DEF IdleInv
<1>19. QED
  BY <1>2, <1>9, <1>10, <1>11, <1>13, <1>14, <1>15, <1>16, <1>17, <1>18
     DEF Next, ProbeStep

(* Of a file that nobody touches, on a host that delays nothing, run_inner  *)
(* says healthy if and only if the file meets every assertion.              *)
THEOREM VerdictHolds == Spec => []VerdictIsRight
<1>1. Init => HangInv /\ IdleInv
  BY DEF Init, HangInv, IdleInv
<1>2. IdleInv => VerdictIsRight
  BY DEF IdleInv, VerdictIsRight, Idle
<1>3. FileInv /\ HangInv /\ [Next]_vars => HangInv'
  BY HangStep DEF FileInv
<1>4. QED
  BY <1>1, <1>2, <1>3, FileInvHolds, IdleStep, PTL DEF Spec
=============================================================================
