--------------------------- MODULE CaptureProofs ---------------------------
(***************************************************************************)
(* Facts about the capture buffer and the incremental matcher, for every    *)
(* set of bytes, every needle and every way a stream is cut into chunks.    *)
(***************************************************************************)
EXTENDS OutputCapture, SequenceTheorems, TLAPS

(* A prefix of a sequence, as the capture buffer takes it. *)
LEMMA Prefix ==
    ASSUME NEW S, NEW s \in Seq(S), NEW n \in Nat, n <= Len(s)
    PROVE  /\ SubSeq(s, 1, n) \in Seq(S)
           /\ Len(SubSeq(s, 1, n)) = n
           /\ \A i \in 1 .. n : SubSeq(s, 1, n)[i] = s[i]
<1>1. \A i \in 1 .. n : s[i] \in S
  BY ElementOfSeq, LenProperties
<1>2. QED
  BY <1>1, SubSeqProperties

(* The rest of a sequence after its first n elements. *)
LEMMA SuffixProperties ==
    ASSUME NEW S, NEW s \in Seq(S), NEW n \in Nat, n <= Len(s)
    PROVE  /\ Suffix(s, n) \in Seq(S)
           /\ Len(Suffix(s, n)) = Len(s) - n
           /\ \A i \in 1 .. Len(s) - n : Suffix(s, n)[i] = s[n + i]
<1>1. Len(s) \in Nat
  BY LenProperties
<1>2. \A i \in n + 1 .. Len(s) : s[i] \in S
  BY <1>1, ElementOfSeq
<1>3. /\ SubSeq(s, n + 1, Len(s)) \in Seq(S)
      /\ Len(SubSeq(s, n + 1, Len(s))) =
             IF n + 1 <= Len(s) THEN Len(s) - (n + 1) + 1 ELSE 0
      /\ \A i \in 1 .. Len(s) - (n + 1) + 1 :
             SubSeq(s, n + 1, Len(s))[i] = s[n + 1 + i - 1]
  BY <1>1, <1>2, SubSeqProperties
<1>4. \A i \in Int : n + 1 + i - 1 = n + i
  OBVIOUS
<1>5. QED
  BY <1>1, <1>3, <1>4 DEF Suffix

(* What a buffer of a stream holds: its first limit bytes. *)
LEMMA CaptureProperties ==
    ASSUME NEW S, NEW s \in Seq(S), NEW limit \in Nat
    PROVE  /\ Capture(s, limit) \in Seq(S)
           /\ Len(Capture(s, limit)) = Least(Len(s), limit)
           /\ Len(Capture(s, limit)) <= limit
           /\ \A i \in 1 .. Least(Len(s), limit) : Capture(s, limit)[i] = s[i]
<1>1. Least(Len(s), limit) \in Nat /\ Least(Len(s), limit) <= Len(s)
      /\ Least(Len(s), limit) <= limit
  BY LenProperties DEF Least
<1>2. QED
  BY <1>1, Prefix DEF Capture

(* A buffer holds a stream: the first limit bytes of it, marked incomplete  *)
(* iff there are more.                                                      *)
Holds(buffer, stream, limit) ==
    /\ buffer.bytes = Capture(stream, limit)
    /\ buffer.incomplete <=> Len(stream) > limit

(* The empty buffer holds the empty stream. *)
LEMMA EmptyHolds ==
    ASSUME NEW limit \in Nat
    PROVE  Holds(EmptyBuffer, <<>>, limit)
<1>1. Len(<<>>) = 0
  BY EmptySeq
<1>2. Least(0, limit) = 0
  BY DEF Least
<1>3. SubSeq(<<>>, 1, 0) = <<>>
  BY SubSeqEmpty
<1>4. ~(0 > limit)
  OBVIOUS
<1>5. EmptyBuffer.bytes = <<>> /\ EmptyBuffer.incomplete = FALSE
  BY DEF EmptyBuffer
<1>6. Capture(<<>>, limit) = <<>>
  BY <1>1, <1>2, <1>3 DEF Capture
<1>7. QED
  BY <1>1, <1>4, <1>5, <1>6 DEF Holds

(* CaptureBuffer::append_limited takes a buffer of a stream to the buffer   *)
(* of the longer stream, wherever the stream is cut into chunks.            *)
LEMMA AppendHolds ==
    ASSUME NEW S, NEW stream \in Seq(S), NEW chunk \in Seq(S),
           NEW limit \in Nat, NEW buffer, Holds(buffer, stream, limit)
    PROVE  Holds(AppendLimited(buffer, chunk, limit), stream \o chunk, limit)
<1> DEFINE remaining == SaturatingSub(limit, Len(buffer.bytes))
           taken     == SubSeq(chunk, 1, Least(Len(chunk), remaining))
           longer    == stream \o chunk
           kept      == Len(buffer.bytes)
           both      == buffer.bytes \o taken
<1>1. Len(stream) \in Nat /\ Len(chunk) \in Nat
  BY LenProperties
<1>2. /\ longer \in Seq(S)
      /\ Len(longer) = Len(stream) + Len(chunk)
      /\ \A i \in 1 .. Len(stream) + Len(chunk) :
            longer[i] = IF i <= Len(stream) THEN stream[i]
                        ELSE chunk[i - Len(stream)]
  BY ConcatProperties
<1>3. /\ buffer.bytes \in Seq(S)
      /\ kept = Least(Len(stream), limit)
      /\ \A i \in 1 .. kept : buffer.bytes[i] = stream[i]
  BY CaptureProperties DEF Holds
<1> HIDE DEF remaining, taken, longer, kept, both
<1>4. /\ kept \in Nat /\ remaining \in Nat
      /\ Least(Len(chunk), remaining) \in Nat
      /\ kept <= Len(stream) /\ Least(Len(chunk), remaining) <= Len(chunk)
      /\ kept + Least(Len(chunk), remaining) = Least(Len(longer), limit)
      /\ Least(Len(longer), limit) <= Len(longer)
      /\ Least(Len(chunk), remaining) > 0 => kept = Len(stream)
      /\ (Len(stream) > limit \/ Len(chunk) > remaining)
             <=> Len(longer) > limit
  <2>1. remaining = SaturatingSub(limit, kept)
    BY DEF remaining, kept
  <2>2. Len(longer) = Len(stream) + Len(chunk) /\ kept = Least(Len(stream), limit)
    BY <1>2, <1>3
  <2> DEFINE m == Len(stream)
             c == Len(chunk)
             room == remaining
             k == kept
  <2>3. m \in Nat /\ c \in Nat /\ k = Least(m, limit)
        /\ room = SaturatingSub(limit, k)
    BY <2>1, <2>2, <1>1
  <2> HIDE DEF m, c, room, k
  <2>4. /\ k \in Nat /\ room \in Nat /\ Least(c, room) \in Nat
        /\ k <= m /\ Least(c, room) <= c
        /\ k + Least(c, room) = Least(m + c, limit)
        /\ Least(m + c, limit) <= m + c
        /\ Least(c, room) > 0 => k = m
        /\ (m > limit \/ c > room) <=> m + c > limit
    BY <2>3 DEF Least, SaturatingSub
  <2>5. QED
    BY <2>2, <2>4 DEF m, c, room, k
<1>5. /\ taken \in Seq(S)
      /\ Len(taken) = Least(Len(chunk), remaining)
      /\ \A i \in 1 .. Len(taken) : taken[i] = chunk[i]
  BY <1>4, Prefix DEF taken
<1>6. /\ both \in Seq(S)
      /\ Len(both) = kept + Len(taken)
      /\ \A i \in 1 .. kept + Len(taken) :
            both[i] = IF i <= kept THEN buffer.bytes[i] ELSE taken[i - kept]
  BY <1>3, <1>5, ConcatProperties DEF both, kept
<1>7. /\ Capture(longer, limit) \in Seq(S)
      /\ Len(Capture(longer, limit)) = Least(Len(longer), limit)
      /\ \A i \in 1 .. Least(Len(longer), limit) :
            Capture(longer, limit)[i] = longer[i]
  BY <1>2, CaptureProperties, ZenonT(60)
<1>8. ASSUME NEW i \in 1 .. Len(both)
      PROVE  both[i] = Capture(longer, limit)[i]
  <2>1. i \in 1 .. Least(Len(longer), limit) /\ i \in 1 .. Len(longer)
    BY <1>1, <1>2, <1>4, <1>5, <1>6
  <2>2. CASE i <= kept
    <3>1. i \in 1 .. kept /\ i <= Len(stream)
      BY <2>1, <2>2, <1>1, <1>4
    <3>2. both[i] = stream[i]
      BY <2>1, <2>2, <3>1, <1>3, <1>4, <1>5, <1>6
    <3>3. longer[i] = stream[i]
      BY <2>1, <3>1, <1>1, <1>2
    <3>4. QED
      BY <2>1, <3>2, <3>3, <1>7
  <2>3. CASE i > kept
    <3>1. i - kept \in 1 .. Len(taken) /\ kept = Len(stream)
      BY <2>1, <2>3, <1>1, <1>4, <1>5, <1>6
    <3>2. both[i] = chunk[i - Len(stream)]
      BY <2>1, <2>3, <3>1, <1>4, <1>5, <1>6
    <3>3. longer[i] = chunk[i - Len(stream)]
      BY <2>1, <2>3, <3>1, <1>1, <1>2
    <3>4. QED
      BY <2>1, <3>2, <3>3, <1>7
  <2>4. QED
    BY <2>2, <2>3, <1>4
<1>9. both = Capture(longer, limit)
  BY <1>4, <1>5, <1>6, <1>7, <1>8, SeqEqual
<1>10. /\ AppendLimited(buffer, chunk, limit).bytes = both
       /\ AppendLimited(buffer, chunk, limit).incomplete =
             (buffer.incomplete \/ Len(chunk) > remaining)
  BY DEF AppendLimited, both, taken, remaining
<1>11. (buffer.incomplete \/ Len(chunk) > remaining) <=> Len(longer) > limit
  BY <1>4 DEF Holds
<1>12. QED
  BY <1>9, <1>10, <1>11 DEF Holds, longer

(* A needle occurs in old \o extra iff it occurs in old, or from where      *)
(* observe_appended resumes its search.                                     *)
LEMMA SearchResumes ==
    ASSUME NEW S, NEW old \in Seq(S), NEW new \in Seq(S), NEW n \in Seq(S),
           Len(old) <= Len(new),
           \A i \in 1 .. Len(old) : new[i] = old[i]
    PROVE  ContainsSlice(new, n) <=>
              \/ ContainsSlice(old, n)
              \/ ContainsSlice(Suffix(new, SearchStart(Len(old), n)), n)
<1> DEFINE start == SearchStart(Len(old), n)
           rest  == Suffix(new, start)
<1>1. Len(old) \in Nat /\ Len(new) \in Nat /\ Len(n) \in Nat
  BY LenProperties
<1>2. /\ start \in Nat
      /\ start <= Len(old)
      /\ start = 0 \/ start = Len(old) - Len(n) + 1 \/ Len(n) = 0
  BY <1>1 DEF SearchStart, SaturatingSub
<1>3. /\ Len(rest) = Len(new) - start
      /\ \A i \in 1 .. Len(new) - start : rest[i] = new[start + i]
  <2> HIDE DEF start
  <2>1. start <= Len(new)
    BY <1>1, <1>2
  <2>2. QED
    BY <2>1, <1>2, SuffixProperties
<1> HIDE DEF start, rest
<1>4. ASSUME ContainsSlice(old, n)  PROVE ContainsSlice(new, n)
  <2>1. PICK i \in 0 .. Len(old) - Len(n) :
            \A j \in 1 .. Len(n) : old[i + j] = n[j]
    BY <1>4 DEF ContainsSlice
  <2>2. i \in 0 .. Len(new) - Len(n)
    BY <1>1
  <2>3. \A j \in 1 .. Len(n) : new[i + j] = n[j]
    BY <2>1, <1>1
  <2>4. QED
    BY <2>2, <2>3 DEF ContainsSlice
<1>5. ASSUME ContainsSlice(rest, n)  PROVE ContainsSlice(new, n)
  <2>1. PICK i \in 0 .. Len(rest) - Len(n) :
            \A j \in 1 .. Len(n) : rest[i + j] = n[j]
    BY <1>5 DEF ContainsSlice
  <2>2. start + i \in 0 .. Len(new) - Len(n)
    BY <1>1, <1>2, <1>3
  <2>3. ASSUME NEW j \in 1 .. Len(n)  PROVE new[(start + i) + j] = n[j]
    <3>1. i + j \in 1 .. Len(new) - start /\ start + (i + j) = (start + i) + j
      BY <1>1, <1>2, <1>3
    <3>2. QED
      BY <3>1, <2>1, <1>3
  <2>4. QED
    BY <2>2, <2>3 DEF ContainsSlice
<1>6. ASSUME ContainsSlice(new, n), ~ContainsSlice(old, n)
      PROVE  ContainsSlice(rest, n)
  <2>1. PICK i \in 0 .. Len(new) - Len(n) :
            \A j \in 1 .. Len(n) : new[i + j] = n[j]
    BY <1>6 DEF ContainsSlice
  <2>2. i + Len(n) > Len(old)
    <3>1. SUFFICES ASSUME i + Len(n) <= Len(old)  PROVE FALSE
      BY <1>1
    <3>2. i \in 0 .. Len(old) - Len(n)
      BY <3>1, <1>1
    <3>3. \A j \in 1 .. Len(n) : old[i + j] = n[j]
      BY <2>1, <3>1, <1>1
    <3>4. QED
      BY <3>2, <3>3, <1>6 DEF ContainsSlice
  <2>3. Len(n) > 0
    <3>1. SUFFICES ASSUME Len(n) = 0  PROVE FALSE
      BY <1>1
    <3>2. 0 \in 0 .. Len(old) - Len(n) /\ \A j \in 1 .. Len(n) : FALSE
      BY <3>1, <1>1
    <3>3. QED
      BY <3>2, <1>6 DEF ContainsSlice
  <2>4. i >= start
    BY <2>2, <2>3, <1>1, <1>2
  <2>5. i - start \in 0 .. Len(rest) - Len(n)
    BY <2>4, <1>1, <1>2, <1>3
  <2>6. ASSUME NEW j \in 1 .. Len(n)  PROVE rest[(i - start) + j] = n[j]
    <3>1. /\ (i - start) + j \in 1 .. Len(new) - start
          /\ start + ((i - start) + j) = i + j
      <4>1. /\ i \in Nat /\ start \in Nat /\ Len(n) \in Nat /\ Len(new) \in Nat
            /\ i + Len(n) <= Len(new) /\ start <= i
        BY <2>4, <1>1, <1>2
      <4>2. QED
        BY <4>1
    <3>2. rest[(i - start) + j] = new[start + ((i - start) + j)]
      BY <3>1, <1>3
    <3>3. new[i + j] = n[j]
      BY <2>1
    <3>4. QED
      BY <3>1, <3>2, <3>3
  <2>7. QED
    BY <2>5, <2>6 DEF ContainsSlice
<1>7. QED
  BY <1>4, <1>5, <1>6 DEF rest, start

(* What a complete search of the buffer would find.                         *)
Occurring(needles, bytes) == {n \in needles : ContainsSlice(bytes, n)}

(* TextMatcher::observe_appended is exact: if it knew the needles of the    *)
(* buffer before the append, it knows those of the buffer after it.         *)
LEMMA ObserveIsExact ==
    ASSUME NEW S, NEW old \in Seq(S), NEW new \in Seq(S),
           NEW needles \in SUBSET Seq(S),
           Len(old) <= Len(new),
           \A i \in 1 .. Len(old) : new[i] = old[i],
           NEW matched, matched = Occurring(needles, old)
    PROVE  ObserveAppended(needles, matched, new, Len(old)) =
               Occurring(needles, new)
<1>1. Least(Len(old), Len(new)) = Len(old)
  BY LenProperties DEF Least
<1>2. \A n \in needles :
          ContainsSlice(new, n) <=>
              \/ ContainsSlice(old, n)
              \/ ContainsSlice(Suffix(new, SearchStart(Len(old), n)), n)
  BY SearchResumes
<1>3. ObserveAppended(needles, matched, new, Len(old)) =
          matched \cup {n \in needles \ matched :
              ContainsSlice(Suffix(new, SearchStart(Len(old), n)), n)}
  BY <1>1 DEF ObserveAppended
<1>4. QED
  BY <1>2, <1>3 DEF Occurring

(* The empty buffer contains only the empty needle, which is what           *)
(* TextMatcher::new starts from.                                            *)
LEMMA EmptyContains ==
    ASSUME NEW S, NEW n \in Seq(S)
    PROVE  /\ ContainsSlice(<<>>, n) <=> Len(n) = 0
           /\ Len(n) = 0 <=> n = <<>>
<1>1. Len(n) \in Nat /\ Len(<<>>) = 0
  BY LenProperties, EmptySeq
<1>2. Len(n) = 0 <=> n = <<>>
  BY <1>1, EmptySeq
<1>3. ASSUME Len(n) = 0  PROVE ContainsSlice(<<>>, n)
  <2>1. 0 \in 0 .. Len(<<>>) - Len(n) /\ 1 .. Len(n) = {}
    BY <1>1, <1>3
  <2>2. QED
    BY <2>1 DEF ContainsSlice
<1>4. ASSUME Len(n) # 0  PROVE ~ContainsSlice(<<>>, n)
  <2>1. 0 .. Len(<<>>) - Len(n) = {}
    BY <1>1, <1>4
  <2>2. QED
    BY <2>1 DEF ContainsSlice
<1>5. QED
  BY <1>2, <1>3, <1>4

(* An append only extends what is captured.                                 *)
LEMMA AppendExtends ==
    ASSUME NEW S, NEW chunk \in Seq(S), NEW limit \in Nat,
           NEW buffer, buffer.bytes \in Seq(S)
    PROVE  LET new == AppendLimited(buffer, chunk, limit).bytes
           IN  /\ new \in Seq(S)
               /\ Len(buffer.bytes) <= Len(new)
               /\ \A i \in 1 .. Len(buffer.bytes) : new[i] = buffer.bytes[i]
<1> DEFINE old   == buffer.bytes
           take  == Least(Len(chunk), SaturatingSub(limit, Len(old)))
           taken == SubSeq(chunk, 1, take)
<1>1. Len(chunk) \in Nat /\ Len(old) \in Nat
  BY LenProperties
<1>2. take \in Nat /\ take <= Len(chunk)
  BY <1>1 DEF Least, SaturatingSub
<1>3. taken \in Seq(S) /\ Len(taken) = take
  BY <1>2, Prefix
<1>4. AppendLimited(buffer, chunk, limit).bytes = old \o taken
  BY DEF AppendLimited
<1> HIDE DEF old, taken, take
<1>5. /\ old \o taken \in Seq(S)
      /\ Len(old \o taken) = Len(old) + Len(taken)
      /\ \A i \in 1 .. Len(old) + Len(taken) :
            (old \o taken)[i] = IF i <= Len(old) THEN old[i]
                                ELSE taken[i - Len(old)]
  BY <1>3, ConcatProperties DEF old
<1>6. \A i \in 1 .. Len(old) : (old \o taken)[i] = old[i]
  BY <1>1, <1>2, <1>3, <1>5
<1>7. Len(old) <= Len(old \o taken)
  BY <1>1, <1>2, <1>3, <1>5
<1>8. QED
  BY <1>4, <1>5, <1>6, <1>7 DEF old

(* What a sequence contains, every longer one that begins with it contains. *)
LEMMA LongerContains ==
    ASSUME NEW S, NEW s \in Seq(S), NEW t \in Seq(S), NEW n \in Seq(S),
           Len(s) <= Len(t), \A i \in 1 .. Len(s) : t[i] = s[i],
           ContainsSlice(s, n)
    PROVE  ContainsSlice(t, n)
<1>1. Len(s) \in Nat /\ Len(t) \in Nat /\ Len(n) \in Nat
  BY LenProperties
<1>2. PICK i \in 0 .. Len(s) - Len(n) :
          \A j \in 1 .. Len(n) : s[i + j] = n[j]
  BY DEF ContainsSlice
<1>3. i \in 0 .. Len(t) - Len(n)
  BY <1>1
<1>4. ASSUME NEW j \in 1 .. Len(n)  PROVE t[i + j] = n[j]
  <2>1. i + j \in 1 .. Len(s)
    BY <1>1
  <2>2. QED
    BY <2>1, <1>2
<1>5. QED
  BY <1>3, <1>4 DEF ContainsSlice

(* What is found in the captured part of a stream stays found when the      *)
(* stream grows.                                                            *)
LEMMA FoundStaysFound ==
    ASSUME NEW S, NEW s \in Seq(S), NEW t \in Seq(S), NEW n \in Seq(S),
           NEW limit \in Nat, ContainsSlice(Capture(s, limit), n)
    PROVE  ContainsSlice(Capture(s \o t, limit), n)
<1> DEFINE long == s \o t
           cs   == Capture(s, limit)
           cl   == Capture(long, limit)
<1>1. Len(s) \in Nat /\ Len(t) \in Nat /\ Len(n) \in Nat
  BY LenProperties
<1>2. /\ long \in Seq(S)
      /\ Len(long) = Len(s) + Len(t)
      /\ \A i \in 1 .. Len(s) + Len(t) :
            long[i] = IF i <= Len(s) THEN s[i] ELSE t[i - Len(s)]
  BY ConcatProperties
<1> HIDE DEF long
<1>3. /\ Len(cs) = Least(Len(s), limit)
      /\ \A i \in 1 .. Least(Len(s), limit) : cs[i] = s[i]
  BY CaptureProperties
<1>4. /\ Len(cl) = Least(Len(long), limit)
      /\ \A i \in 1 .. Least(Len(long), limit) : cl[i] = long[i]
  BY <1>2, CaptureProperties, ZenonT(60)
<1> HIDE DEF cs, cl
<1>5. /\ Len(cs) \in Nat /\ Len(cl) \in Nat /\ Len(cs) <= Len(cl)
      /\ Len(cs) <= Len(s) /\ Len(cl) <= Len(long)
  BY <1>1, <1>2, <1>3, <1>4 DEF Least
<1>6. ASSUME NEW i \in 1 .. Len(cs)  PROVE cl[i] = cs[i]
  <2>1. i \in 1 .. Len(s) + Len(t) /\ i <= Len(s) /\ i \in 1 .. Len(cl)
    BY <1>1, <1>5
  <2>2. long[i] = s[i]
    BY <2>1, <1>2
  <2>3. QED
    BY <2>1, <2>2, <1>3, <1>4
<1>7. PICK i \in 0 .. Len(cs) - Len(n) :
          \A j \in 1 .. Len(n) : cs[i + j] = n[j]
  BY DEF ContainsSlice, cs
<1>8. i \in 0 .. Len(cl) - Len(n)
  BY <1>1, <1>5
<1>9. ASSUME NEW j \in 1 .. Len(n)  PROVE cl[i + j] = n[j]
  <2>1. i + j \in 1 .. Len(cs)
    BY <1>1, <1>5
  <2>2. QED
    BY <2>1, <1>6, <1>7
<1>10. QED
  BY <1>8, <1>9 DEF ContainsSlice, cl, long

(* A full buffer does not change any more.                                  *)
LEMMA FullStaysSame ==
    ASSUME NEW S, NEW s \in Seq(S), NEW t \in Seq(S), NEW limit \in Nat,
           Len(s) >= limit
    PROVE  Capture(s \o t, limit) = Capture(s, limit)
<1> DEFINE long == s \o t
           cs   == Capture(s, limit)
           cl   == Capture(long, limit)
<1>1. Len(s) \in Nat /\ Len(t) \in Nat
  BY LenProperties
<1>2. /\ long \in Seq(S)
      /\ Len(long) = Len(s) + Len(t)
      /\ \A i \in 1 .. Len(s) + Len(t) :
            long[i] = IF i <= Len(s) THEN s[i] ELSE t[i - Len(s)]
  BY ConcatProperties
<1> HIDE DEF long
<1>3. Least(Len(s), limit) = limit /\ Least(Len(long), limit) = limit
  BY <1>1, <1>2 DEF Least
<1>4. cs \in Seq(S) /\ Len(cs) = limit /\ \A i \in 1 .. limit : cs[i] = s[i]
  BY <1>3, CaptureProperties
<1>5. cl \in Seq(S) /\ Len(cl) = limit /\ \A i \in 1 .. limit : cl[i] = long[i]
  <2>1. /\ cl \in Seq(S)
        /\ Len(cl) = Least(Len(long), limit)
        /\ \A i \in 1 .. Least(Len(long), limit) : cl[i] = long[i]
    BY <1>2, CaptureProperties, ZenonT(60)
  <2>2. QED
    BY <2>1, <1>3
<1> HIDE DEF cs, cl
<1>6. ASSUME NEW i \in 1 .. limit  PROVE cl[i] = cs[i]
  <2>1. i \in 1 .. Len(s) + Len(t) /\ i <= Len(s)
    BY <1>1
  <2>2. long[i] = s[i]
    BY <2>1, <1>2
  <2>3. QED
    BY <2>2, <1>4, <1>5
<1>7. cl = cs
  BY <1>4, <1>5, <1>6, SeqEqual
<1>8. QED
  BY <1>7 DEF cl, cs, long

(* A stream that fits is captured whole. *)
LEMMA CaptureWhole ==
    ASSUME NEW S, NEW s \in Seq(S), NEW limit \in Nat, Len(s) <= limit
    PROVE  Capture(s, limit) = s
<1> DEFINE cs == Capture(s, limit)
<1>1. Len(s) \in Nat /\ Least(Len(s), limit) = Len(s)
  BY LenProperties DEF Least
<1>2. /\ cs \in Seq(S) /\ Len(cs) = Least(Len(s), limit)
      /\ \A i \in 1 .. Least(Len(s), limit) : cs[i] = s[i]
  BY CaptureProperties
<1> HIDE DEF cs
<1>3. cs = s
  BY <1>1, <1>2, SeqEqual
<1>4. QED
  BY <1>3 DEF cs

(* A sequence is its first n elements and the others. *)
LEMMA PrefixAndSuffix ==
    ASSUME NEW S, NEW s \in Seq(S), NEW n \in Nat, n <= Len(s)
    PROVE  SubSeq(s, 1, n) \o Suffix(s, n) = s
<1>1. Len(s) \in Nat
  BY LenProperties
<1>2. 1 \in 1 .. Len(s) + 1 /\ n \in 1 - 1 .. Len(s) /\ Len(s) \in n .. Len(s)
  BY <1>1
<1>3. SubSeq(s, 1, n) \o SubSeq(s, n + 1, Len(s)) = SubSeq(s, 1, Len(s))
  BY <1>2, ConcatAdjacentSubSeq
<1>4. QED
  BY <1>3, SubSeqFull DEF Suffix

(* A prefix of a sequence that is extended. *)
LEMMA PrefixOfLonger ==
    ASSUME NEW S, NEW s \in Seq(S), NEW t \in Seq(S), NEW n \in Nat, n <= Len(s)
    PROVE  SubSeq(s \o t, 1, n) = SubSeq(s, 1, n)
<1>1. Len(s) \in Nat
  BY LenProperties
<1>2. CASE n = 0
  <2>1. SubSeq(s, 1, 0) = <<>> /\ SubSeq(s \o t, 1, 0) = <<>>
    BY ConcatProperties, SubSeqEmpty
  <2>2. QED
    BY <1>2, <2>1
<1>3. CASE n # 0
  <2>1. 1 \in 1 .. Len(s) /\ n \in 1 .. Len(s)
    BY <1>1, <1>3
  <2>2. QED
    BY <2>1, SubSeqOfConcat1
<1>4. QED
  BY <1>2, <1>3

(* A prefix and the chunk that follows it are a longer prefix. *)
LEMMA PrefixGrows ==
    ASSUME NEW S, NEW s \in Seq(S), NEW n \in Nat, n <= Len(s),
           NEW k \in Nat \ {0}, k <= Len(Suffix(s, n))
    PROVE  SubSeq(s, 1, n) \o SubSeq(Suffix(s, n), 1, k) = SubSeq(s, 1, n + k)
<1>1. Len(s) \in Nat /\ Len(Suffix(s, n)) = Len(s) - n
  BY LenProperties, SuffixProperties
<1>2. SubSeq(Suffix(s, n), 1, k) = SubSeq(s, n + 1, n + k)
  <2>1. /\ n + 1 \in 1 .. Len(s) /\ Len(s) \in 1 .. Len(s)
        /\ 1 \in 1 .. Len(s) - (n + 1) + 1
        /\ k \in 1 .. Len(s) - (n + 1) + 1
    BY <1>1
  <2>2. SubSeq(SubSeq(s, n + 1, Len(s)), 1, k)
            = SubSeq(s, n + 1 + 1 - 1, n + 1 + k - 1)
    BY <2>1, SubSeqOfSubSeq
  <2>3. n + 1 + 1 - 1 = n + 1 /\ n + 1 + k - 1 = n + k
    OBVIOUS
  <2>4. QED
    BY <2>2, <2>3 DEF Suffix
<1>3. 1 \in 1 .. Len(s) + 1 /\ n \in 1 - 1 .. Len(s) /\ n + k \in n .. Len(s)
  BY <1>1
<1>4. SubSeq(s, 1, n) \o SubSeq(s, n + 1, n + k) = SubSeq(s, 1, n + k)
  BY <1>3, ConcatAdjacentSubSeq
<1>5. QED
  BY <1>2, <1>4
=============================================================================
