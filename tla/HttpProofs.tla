----------------------------- MODULE HttpProofs -----------------------------
(***************************************************************************)
(* Proofs that the evaluation of an HTTP response keeps its promises, for   *)
(* every set of bytes, every assertion and limit, and however the server    *)
(* cuts a body into frames, ends it, breaks it off or leaves it open.       *)
(***************************************************************************)
EXTENDS HttpProperties, CaptureProofs

-----------------------------------------------------------------------------
(* How frames make up a body *)

(* The frames are what follows, in the stream, the first cuts[0] bytes.     *)
Cut(stream, list, cuts) ==
    /\ cuts \in [0 .. Len(list) -> 0 .. Len(stream)]
    /\ cuts[Len(list)] = Len(stream)
    /\ \A i \in 1 .. Len(list) :
          /\ cuts[i - 1] <= cuts[i]
          /\ list[i] = SubSeq(stream, cuts[i - 1] + 1, cuts[i])

(* The list is what the stream goes on with after n bytes. *)
Begins(stream, list, n) == \E cuts : Cut(stream, list, cuts) /\ cuts[0] = n

(* A piece from the middle of a sequence. *)
LEMMA Piece ==
    ASSUME NEW S, NEW s \in Seq(S), NEW m \in Nat, NEW n \in Nat,
           m <= n, n <= Len(s)
    PROVE  /\ SubSeq(s, m + 1, n) \in Seq(S)
           /\ Len(SubSeq(s, m + 1, n)) = n - m
           /\ \A i \in 1 .. n - m : SubSeq(s, m + 1, n)[i] = s[m + i]
<1>1. Len(s) \in Nat
  BY LenProperties
<1>2. \A i \in m + 1 .. n : s[i] \in S
  BY <1>1, ElementOfSeq
<1>3. /\ SubSeq(s, m + 1, n) \in Seq(S)
      /\ Len(SubSeq(s, m + 1, n)) = IF m + 1 <= n THEN n - (m + 1) + 1 ELSE 0
      /\ \A i \in 1 .. n - (m + 1) + 1 : SubSeq(s, m + 1, n)[i] = s[m + 1 + i - 1]
  BY <1>1, <1>2, SubSeqProperties
<1>4. \A i \in Int : m + 1 + i - 1 = m + i
  OBVIOUS
<1>5. n - (m + 1) + 1 = n - m /\ (~(m + 1 <= n) => n - m = 0)
  OBVIOUS
<1>6. QED
  BY <1>1, <1>3, <1>4, <1>5

(* What is in the middle stays there when the stream grows. *)
LEMMA PieceOfLonger ==
    ASSUME NEW S, NEW s \in Seq(S), NEW t \in Seq(S), NEW m \in Nat, NEW n \in Nat,
           m <= n, n <= Len(s)
    PROVE  SubSeq(s \o t, m + 1, n) = SubSeq(s, m + 1, n)
<1>1. /\ Len(s) \in Nat /\ Len(t) \in Nat
      /\ s \o t \in Seq(S) /\ Len(s \o t) = Len(s) + Len(t)
      /\ \A i \in 1 .. Len(s) : (s \o t)[i] = s[i]
  BY LenProperties, ConcatProperties
<1> DEFINE p == SubSeq(s, m + 1, n)
           q == SubSeq(s \o t, m + 1, n)
<1>2. /\ p \in Seq(S) /\ Len(p) = n - m
      /\ \A i \in 1 .. n - m : p[i] = s[m + i]
  BY Piece
<1>3. n <= Len(s \o t)
  BY <1>1
<1>4. /\ q \in Seq(S) /\ Len(q) = n - m
      /\ \A i \in 1 .. n - m : q[i] = (s \o t)[m + i]
  BY <1>1, <1>3, Piece
<1>5. \A i \in 1 .. n - m : m + i \in 1 .. Len(s)
  BY <1>1
<1> HIDE DEF p, q
<1>6. \A i \in 1 .. Len(q) : q[i] = p[i]
  BY <1>1, <1>2, <1>4, <1>5
<1>7. q = p
  BY <1>2, <1>4, <1>6, SeqEqual
<1>8. QED
  BY <1>7 DEF p, q

(* A prefix and the piece that follows it are a longer prefix. *)
LEMMA PrefixAndPiece ==
    ASSUME NEW S, NEW s \in Seq(S), NEW m \in Nat, NEW n \in Nat,
           m <= n, n <= Len(s)
    PROVE  SubSeq(s, 1, m) \o SubSeq(s, m + 1, n) = SubSeq(s, 1, n)
<1> DEFINE p == SubSeq(s, 1, m)
           q == SubSeq(s, m + 1, n)
           r == SubSeq(s, 1, n)
<1>0. Len(s) \in Nat
  BY LenProperties
<1>1. p \in Seq(S) /\ Len(p) = m /\ \A i \in 1 .. m : p[i] = s[i]
  BY <1>0, Prefix
<1>2. r \in Seq(S) /\ Len(r) = n /\ \A i \in 1 .. n : r[i] = s[i]
  BY <1>0, Prefix
<1>3. /\ q \in Seq(S) /\ Len(q) = n - m
      /\ \A i \in 1 .. n - m : q[i] = s[m + i]
  BY Piece
<1> HIDE DEF p, q, r
<1>4. /\ p \o q \in Seq(S) /\ Len(p \o q) = n
      /\ \A i \in 1 .. n : (p \o q)[i] = IF i <= m THEN p[i] ELSE q[i - m]
  <2>1. Len(p) + Len(q) = n /\ Len(p) = m
    BY <1>1, <1>3
  <2>2. /\ p \o q \in Seq(S) /\ Len(p \o q) = Len(p) + Len(q)
        /\ \A i \in 1 .. Len(p) + Len(q) :
              (p \o q)[i] = IF i <= Len(p) THEN p[i] ELSE q[i - Len(p)]
    BY <1>1, <1>3, ConcatProperties, Z3
  <2>3. QED
    BY <2>1, <2>2
<1>5. ASSUME NEW i \in 1 .. n  PROVE (p \o q)[i] = r[i]
  <2>1. CASE i <= m
    BY <1>1, <1>2, <1>4, <2>1
  <2>2. CASE ~(i <= m)
    <3>1. i - m \in 1 .. n - m /\ m + (i - m) = i
      BY <2>2
    <3>2. q[i - m] = s[i]
      BY <1>3, <3>1
    <3>3. QED
      BY <1>2, <1>4, <2>2, <3>2
  <2>3. QED
    BY <2>1, <2>2
<1>6. p \o q = r
  BY <1>2, <1>4, <1>5, SeqEqual
<1>7. QED
  BY <1>6 DEF p, q, r

LEMMA CutNothing == Cut(<<>>, <<>>, [i \in 0 .. 0 |-> 0])
<1>1. Len(<<>>) = 0
  BY EmptySeq
<1>2. QED
  BY <1>1 DEF Cut

(* A frame is sent. *)
LEMMA CutSend ==
    ASSUME NEW s \in Seq(Bytes), NEW list \in Seq(Seq(Bytes)), NEW f \in Seq(Bytes),
           NEW cuts, Cut(s, list, cuts)
    PROVE  Begins(s \o f, Append(list, f), cuts[0])
<1> DEFINE n      == Len(list)
           more   == Append(list, f)
           longer == [i \in 0 .. n + 1 |->
                        IF i = n + 1 THEN Len(s) + Len(f) ELSE cuts[i]]
<1>1. n \in Nat /\ Len(s) \in Nat /\ Len(f) \in Nat
  BY LenProperties
<1>2. s \o f \in Seq(Bytes) /\ Len(s \o f) = Len(s) + Len(f)
  BY ConcatProperties
<1>3. /\ Len(more) = n + 1 /\ more[n + 1] = f
      /\ \A i \in 1 .. n : more[i] = list[i]
  BY AppendProperties
<1>4. /\ \A i \in 0 .. n : cuts[i] \in 0 .. Len(s)
      /\ cuts[n] = Len(s)
  BY <1>1 DEF Cut
<1>5. longer \in [0 .. n + 1 -> 0 .. Len(s \o f)]
  <2>1. ASSUME NEW i \in 0 .. n + 1
        PROVE  (IF i = n + 1 THEN Len(s) + Len(f) ELSE cuts[i])
                  \in 0 .. Len(s \o f)
    <3>1. CASE i = n + 1
      BY <1>1, <1>2, <3>1
    <3>2. CASE i # n + 1
      <4>1. cuts[i] \in 0 .. Len(s)
        BY <1>1, <1>4, <3>2
      <4>2. QED
        BY <1>1, <1>2, <3>2, <4>1
    <3>3. QED
      BY <3>1, <3>2
  <2>2. QED
    BY <2>1
<1>6. longer[n + 1] = Len(s \o f) /\ \A i \in 0 .. n : longer[i] = cuts[i]
  BY <1>1, <1>2
<1> HIDE DEF longer, more
<1>7. ASSUME NEW i \in 1 .. n + 1
      PROVE  /\ longer[i - 1] <= longer[i]
             /\ more[i] = SubSeq(s \o f, longer[i - 1] + 1, longer[i])
  <2>1. CASE i = n + 1
    <3>1. longer[i - 1] = Len(s) /\ longer[i] = Len(s) + Len(f)
      BY <1>1, <1>2, <1>4, <1>6, <2>1
    <3>2. SubSeq(s \o f, Len(s) + 1, Len(s) + Len(f)) = f
      <4> DEFINE q == SubSeq(s \o f, Len(s) + 1, Len(s) + Len(f))
      <4>1. /\ q \in Seq(Bytes) /\ Len(q) = Len(s) + Len(f) - Len(s)
            /\ \A j \in 1 .. Len(s) + Len(f) - Len(s) : q[j] = (s \o f)[Len(s) + j]
        BY <1>1, <1>2, Piece
      <4>2. Len(s) + Len(f) - Len(s) = Len(f)
        BY <1>1
      <4>3. \A j \in 1 .. Len(f) : (s \o f)[Len(s) + j] = f[j]
        <5> SUFFICES ASSUME NEW j \in 1 .. Len(f)
                     PROVE  (s \o f)[Len(s) + j] = f[j]
          OBVIOUS
        <5>1. /\ Len(s) + j \in 1 .. Len(s) + Len(f)
              /\ ~(Len(s) + j <= Len(s)) /\ Len(s) + j - Len(s) = j
          BY <1>1
        <5>2. QED
          BY <5>1, ConcatProperties
      <4> HIDE DEF q
      <4>4. q = f
        BY <4>1, <4>2, <4>3, SeqEqual
      <4>5. QED
        BY <4>4 DEF q
    <3>3. QED
      BY <1>1, <1>3, <2>1, <3>1, <3>2
  <2>2. CASE i # n + 1
    <3>1. i \in 1 .. n /\ i - 1 \in 0 .. n /\ i \in 0 .. n
      BY <1>1, <2>2
    <3>2. /\ cuts[i - 1] <= cuts[i]
          /\ list[i] = SubSeq(s, cuts[i - 1] + 1, cuts[i])
          /\ cuts[i - 1] \in Nat /\ cuts[i] \in Nat /\ cuts[i] <= Len(s)
      BY <1>1, <1>4, <3>1 DEF Cut
    <3>3. SubSeq(s \o f, cuts[i - 1] + 1, cuts[i]) = list[i]
      BY <3>2, PieceOfLonger, ZenonT(60)
    <3>4. QED
      BY <1>3, <1>6, <3>1, <3>2, <3>3
  <2>3. QED
    BY <2>1, <2>2
<1>8. Cut(s \o f, more, longer)
  BY <1>3, <1>5, <1>6, <1>7 DEF Cut
<1>9. longer[0] = cuts[0]
  BY <1>1, <1>6
<1>10. QED
  BY <1>8, <1>9 DEF more, Begins

(* A frame is read. *)
LEMMA CutRead ==
    ASSUME NEW s \in Seq(Bytes), NEW list \in Seq(Seq(Bytes)), list # <<>>,
           NEW cuts, Cut(s, list, cuts)
    PROVE  /\ Tail(list) \in Seq(Seq(Bytes)) /\ Head(list) \in Seq(Bytes)
           /\ \E rest : /\ Cut(s, Tail(list), rest)
                        /\ cuts[0] \in Nat
                        /\ rest[0] = cuts[0] + Len(Head(list))
                        /\ rest[0] \in 0 .. Len(s)
                        /\ SubSeq(s, 1, cuts[0]) \o Head(list)
                             = SubSeq(s, 1, rest[0])
<1> DEFINE n    == Len(list)
           less == Tail(list)
           rest == [i \in 0 .. n - 1 |-> cuts[i + 1]]
<1>1. n \in Nat \ {0} /\ Len(s) \in Nat
  BY LenProperties, EmptySeq
<1>2. /\ less \in Seq(Seq(Bytes)) /\ Len(less) = n - 1
      /\ \A i \in 1 .. n - 1 : less[i] = list[i + 1]
      /\ Head(list) = list[1] /\ Head(list) \in Seq(Bytes)
  <2>1. /\ less \in Seq(Seq(Bytes)) /\ Len(less) = n - 1
        /\ \A i \in 1 .. n - 1 : less[i] = list[i + 1]
    BY HeadTailProperties
  <2>2. Head(list) \in Seq(Bytes)
    BY HeadTailProperties
  <2>3. Head(list) = list[1]
    OBVIOUS
  <2>4. QED
    BY <2>1, <2>2, <2>3
<1>3. \A i \in 0 .. n : cuts[i] \in 0 .. Len(s)
  BY <1>1 DEF Cut
<1>4. rest \in [0 .. n - 1 -> 0 .. Len(s)]
  BY <1>1, <1>3
<1>5. \A i \in 0 .. n - 1 : rest[i] = cuts[i + 1]
  OBVIOUS
<1> HIDE DEF rest, less
<1>6. rest[n - 1] = Len(s)
  <2>1. n - 1 \in 0 .. n - 1 /\ (n - 1) + 1 = n
    BY <1>1
  <2>2. QED
    BY <1>5, <2>1 DEF Cut
<1>7. ASSUME NEW i \in 1 .. n - 1
      PROVE  /\ rest[i - 1] <= rest[i]
             /\ less[i] = SubSeq(s, rest[i - 1] + 1, rest[i])
  <2>1. /\ i + 1 \in 1 .. n /\ i - 1 \in 0 .. n - 1 /\ i \in 0 .. n - 1
        /\ (i - 1) + 1 = i /\ (i + 1) - 1 = i
    BY <1>1
  <2>2. rest[i - 1] = cuts[i] /\ rest[i] = cuts[i + 1] /\ less[i] = list[i + 1]
    BY <1>2, <1>5, <2>1
  <2>3. /\ cuts[(i + 1) - 1] <= cuts[i + 1]
        /\ list[i + 1] = SubSeq(s, cuts[(i + 1) - 1] + 1, cuts[i + 1])
    BY <2>1 DEF Cut
  <2>4. QED
    BY <2>1, <2>2, <2>3
<1>8. Cut(s, less, rest)
  BY <1>2, <1>4, <1>6, <1>7 DEF Cut
<1>9. rest[0] = cuts[1] /\ cuts[1] \in 0 .. Len(s) /\ cuts[0] \in 0 .. Len(s)
  <2>1. 0 \in 0 .. n - 1 /\ 0 \in 0 .. n /\ 1 \in 0 .. n /\ 0 + 1 = 1
    BY <1>1
  <2>2. QED
    BY <1>3, <1>5, <2>1
<1>10. cuts[0] <= cuts[1] /\ Head(list) = SubSeq(s, cuts[0] + 1, cuts[1])
  <2>1. 1 \in 1 .. n /\ 1 - 1 = 0
    BY <1>1
  <2>2. cuts[1 - 1] <= cuts[1] /\ list[1] = SubSeq(s, cuts[1 - 1] + 1, cuts[1])
    BY <2>1 DEF Cut
  <2>3. QED
    BY <1>2, <2>1, <2>2
<1>11. cuts[0] \in Nat /\ cuts[1] \in Nat /\ cuts[1] <= Len(s)
  BY <1>1, <1>9
<1>12. Len(Head(list)) = cuts[1] - cuts[0]
  BY <1>10, <1>11, Piece, SMTT(60)
<1>13. SubSeq(s, 1, cuts[0]) \o Head(list) = SubSeq(s, 1, cuts[1])
  BY <1>10, <1>11, PrefixAndPiece
<1>14. rest[0] = cuts[0] + Len(Head(list))
  BY <1>9, <1>11, <1>12
<1>15. QED
  BY <1>2, <1>8, <1>9, <1>11, <1>13, <1>14 DEF less

(* All has been read. *)
LEMMA CutAll ==
    ASSUME NEW s, NEW cuts, Cut(s, <<>>, cuts)
    PROVE  cuts[0] = Len(s)
<1>1. Len(<<>>) = 0
  BY EmptySeq
<1>2. QED
  BY <1>1 DEF Cut

-----------------------------------------------------------------------------
(* Prefixes *)

(* What a prefix contains, the whole contains. *)
LEMMA PrefixContains ==
    ASSUME NEW S, NEW p \in Seq(S), NEW s \in Seq(S), NEW n \in Seq(S),
           IsPrefixOf(p, s), ContainsSlice(p, n)
    PROVE  ContainsSlice(s, n)
<1>1. Len(p) \in Nat /\ Len(s) \in Nat /\ Len(n) \in Nat /\ Len(p) <= Len(s)
  BY LenProperties DEF IsPrefixOf
<1>2. PICK i \in 0 .. Len(p) - Len(n) :
         \A j \in 1 .. Len(n) : p[i + j] = n[j]
  BY DEF ContainsSlice
<1>3. i \in 0 .. Len(s) - Len(n)
  BY <1>1
<1>4. ASSUME NEW j \in 1 .. Len(n)  PROVE s[i + j] = n[j]
  <2>1. i + j \in 1 .. Len(p)
    BY <1>1
  <2>2. QED
    BY <1>2, <2>1 DEF IsPrefixOf
<1>5. QED
  BY <1>3, <1>4 DEF ContainsSlice

LEMMA PrefixOfPrefix ==
    ASSUME NEW S, NEW p \in Seq(S), NEW s \in Seq(S), NEW t \in Seq(S),
           IsPrefixOf(p, s), IsPrefixOf(s, t)
    PROVE  IsPrefixOf(p, t)
<1>1. /\ Len(p) \in Nat /\ Len(s) \in Nat /\ Len(t) \in Nat
      /\ Len(p) <= Len(s) /\ Len(s) <= Len(t)
  BY LenProperties DEF IsPrefixOf
<1>2. \A i \in 1 .. Len(p) : i \in 1 .. Len(s)
  BY <1>1
<1>3. \A i \in 1 .. Len(p) : p[i] = t[i]
  BY <1>2 DEF IsPrefixOf
<1>4. QED
  BY <1>1, <1>3 DEF IsPrefixOf

(* What is captured of a prefix is a prefix of the whole. *)
LEMMA CaptureIsPrefix ==
    ASSUME NEW S, NEW s \in Seq(S), NEW n \in Nat, n <= Len(s), NEW limit \in Nat
    PROVE  IsPrefixOf(Capture(SubSeq(s, 1, n), limit), s)
<1> DEFINE p == SubSeq(s, 1, n)
           c == Capture(p, limit)
<1>0. Len(s) \in Nat
  BY LenProperties
<1>1. p \in Seq(S) /\ Len(p) = n /\ \A i \in 1 .. n : p[i] = s[i]
  BY Prefix
<1> HIDE DEF p
<1>2. /\ Len(c) = Least(Len(p), limit) /\ Len(c) \in Nat
      /\ \A i \in 1 .. Least(Len(p), limit) : c[i] = p[i]
  BY <1>1, CaptureProperties, LenProperties
<1>3. Least(Len(p), limit) <= n
  BY <1>1 DEF Least
<1> HIDE DEF c
<1>4. IsPrefixOf(c, s)
  BY <1>0, <1>1, <1>2, <1>3 DEF IsPrefixOf
<1>5. QED
  BY <1>4 DEF c, p

-----------------------------------------------------------------------------
(* Types *)

LEMMA CheckFacts ==
    ASSUME TypeOK
    PROVE  /\ check.equals \in Seq(Bytes) \cup {None}
           /\ check.contains \in SUBSET Seq(Bytes)
           /\ check.notContains \in SUBSET Seq(Bytes)
           /\ check.limit \in Nat
           /\ check.equals # None => check.equals \in Seq(Bytes)
           /\ Timeout \in Nat /\ BodyGrace \in Nat
BY ChecksAssumption, BoundsAssumption DEF TypeOK, CheckType

LEMMA FrameFacts ==
    ASSUME TypeOK, frames # <<>>
    PROVE  /\ Head(frames) \in Seq(Bytes)
           /\ Tail(frames) \in Seq(Seq(Bytes))
BY HeadTailProperties DEF TypeOK

LEMMA TypeInit == Init => TypeOK
<1> SUFFICES ASSUME Init PROVE TypeOK
  OBVIOUS
<1>1. <<>> \in Seq(Bytes) /\ <<>> \in Seq(Seq(Bytes))
  BY EmptySeq
<1>2. content \in [bytes : Seq(Bytes), incomplete : BOOLEAN]
  BY <1>1 DEF Init, EmptyBuffer
<1>3. 0 \in Nat /\ declared \in Nat \cup {None}
  BY DEF Init
<1>4. /\ check \in Checks /\ prompt \in BOOLEAN /\ impossible \in BOOLEAN
      /\ pc = "start" /\ verdict = "none" /\ ended = "no"
      /\ required \subseteq check.contains /\ forbidden \subseteq check.notContains
  BY DEF Init
<1>5. /\ {graceBy, now, lastAt, endedAt} \subseteq Nat
      /\ sent \in Seq(Bytes) /\ frames \in Seq(Seq(Bytes))
  BY <1>1, <1>3 DEF Init
<1>6. QED
  BY <1>2, <1>3, <1>4, <1>5 DEF TypeOK, Verdicts

LEMMA MarkType ==
    ASSUME TypeOK
    PROVE  /\ MarkIncomplete(content) \in [bytes : Seq(Bytes), incomplete : BOOLEAN]
           /\ MarkIncomplete(content).bytes = content.bytes
           /\ MarkIncomplete(content).incomplete
BY DEF TypeOK, MarkIncomplete

LEMMA ServerTypes ==
    ASSUME TypeOK,
           \/ \E length \in Lengths, statusOk, headersOk \in BOOLEAN :
                 Respond(length, statusOk, headersOk)
           \/ \E f \in Frames : SendFrame(f)
           \/ \E trailers \in BOOLEAN : EndBody(trailers)
           \/ BreakBody
           \/ RequestFails
    PROVE  TypeOK'
<1> USE DEF TypeOK, Verdicts, given, readVars, serverVars
<1>1. ASSUME NEW length \in Lengths, NEW statusOk, NEW headersOk,
             Respond(length, statusOk, headersOk)
      PROVE  TypeOK'
  <2>1. declared' \in Nat \cup {None} /\ ended' \in {"no", "complete"}
    BY <1>1, BoundsAssumption DEF Respond, Lengths
  <2>2. /\ required' \subseteq check.contains /\ forbidden' \subseteq check.notContains
        /\ content' = content /\ impossible' \in BOOLEAN
    BY <1>1 DEF Respond, NewMatcher, WrongLength, Return
  <2>3. pc' \in {"read", "judge", "done"} /\ verdict' \in Verdicts
    BY <1>1 DEF Respond, Return
  <2>4. QED
    BY <1>1, <2>1, <2>2, <2>3 DEF Respond
<1>2. ASSUME NEW f \in Frames, SendFrame(f)  PROVE TypeOK'
  <2>1. f \in Seq(Bytes)
    <3>1. PICK k \in 1 .. MaxFrame : f \in [1 .. k -> Bytes]
      BY <1>2 DEF Frames
    <3>2. k \in Nat
      BY BoundsAssumption
    <3>3. f \in [1 .. k -> Bytes]
      BY <3>1
    <3>4. Seq(Bytes) = UNION {[1 .. m -> Bytes] : m \in Nat}
      BY SeqDef
    <3>5. QED
      BY <3>2, <3>3, <3>4
  <2>2. sent' \in Seq(Bytes) /\ frames' \in Seq(Seq(Bytes))
    BY <1>2, <2>1, ConcatProperties, AppendProperties DEF SendFrame
  <2>3. ended' \in {"no", "complete"}
    BY <1>2 DEF SendFrame
  <2>4. QED
    BY <1>2, <2>2, <2>3 DEF SendFrame
<1>3. ASSUME NEW trailers \in BOOLEAN, EndBody(trailers)  PROVE TypeOK'
  <2>1. frames' \in Seq(Seq(Bytes))
    BY <1>3, EmptySeq, AppendProperties DEF EndBody
  <2>2. QED
    BY <1>3, <2>1 DEF EndBody
<1>4. CASE BreakBody \/ RequestFails
  BY <1>4 DEF BreakBody, RequestFails, Return
<1>5. QED
  BY <1>1, <1>2, <1>3, <1>4

LEMMA ReadTypes ==
    ASSUME TypeOK, ReadFrame
    PROVE  TypeOK'
<1> USE DEF TypeOK, given, serverVars
<1> DEFINE new == AppendLimited(content, Head(frames), check.limit)
<1>1. Head(frames) \in Seq(Bytes) /\ frames' \in Seq(Seq(Bytes))
  BY FrameFacts DEF ReadFrame
<1>2. new.bytes \in Seq(Bytes)
  BY <1>1, CheckFacts, AppendExtends
<1>3. new = [bytes |-> new.bytes, incomplete |-> new.incomplete]
      /\ new.incomplete \in BOOLEAN
  BY DEF AppendLimited
<1> HIDE DEF new
<1>4. content' \in {new, MarkIncomplete(new)}
  BY DEF ReadFrame, new
<1>5. content' \in [bytes : Seq(Bytes), incomplete : BOOLEAN]
  <2>1. new \in [bytes : Seq(Bytes), incomplete : BOOLEAN]
    BY <1>2, <1>3
  <2>2. MarkIncomplete(new) \in [bytes : Seq(Bytes), incomplete : BOOLEAN]
    BY <2>1 DEF MarkIncomplete
  <2>3. QED
    BY <1>4, <2>1, <2>2
<1>6. required' \subseteq check.contains /\ forbidden' \subseteq check.notContains
  BY DEF ReadFrame, ObserveAppended
<1>7. impossible' \in BOOLEAN
  BY DEF ReadFrame
<1>8. pc' \in {"read", "grace", "judge"}
  BY DEF ReadFrame
<1>9. graceBy' \in Nat
  <2>1. GraceDeadline \in Nat /\ graceBy \in Nat
    BY CheckFacts DEF GraceDeadline
  <2>2. graceBy' = GraceDeadline \/ graceBy' = graceBy
    BY DEF ReadFrame
  <2>3. QED
    BY <2>1, <2>2
<1>10. QED
  BY <1>1, <1>5, <1>6, <1>7, <1>8, <1>9 DEF ReadFrame

LEMMA TypeStep == TypeOK /\ [Next]_vars => TypeOK'
<1> SUFFICES ASSUME TypeOK, [Next]_vars PROVE TypeOK'
  OBVIOUS
<1>1. CASE Prepare \/ ReadEnd \/ ReadBroken \/ TimesOut
  BY <1>1 DEF TypeOK, Verdicts, Prepare, ReadEnd, ReadBroken, TimesOut, Return,
     given, readVars, serverVars
<1>2. CASE SkipFrame \/ GraceMore \/ GraceTimesOut
  <2>1. frames' \in Seq(Seq(Bytes))
    BY <1>2, FrameFacts DEF SkipFrame, GraceMore, GraceTimesOut, TypeOK
  <2>2. content' \in [bytes : Seq(Bytes), incomplete : BOOLEAN]
    BY <1>2, MarkType DEF SkipFrame, GraceMore, GraceTimesOut, TypeOK, readVars
  <2>3. QED
    BY <1>2, <2>1, <2>2 DEF SkipFrame, GraceMore, GraceTimesOut, TypeOK, given,
       readVars, serverVars
<1>3. CASE Judge
  <2>1. verdict' \in Verdicts /\ pc' = "done"
    BY <1>3 DEF Judge, Return, ExactVerdict, RequiredVerdict, ForbiddenVerdict,
                Verdicts
  <2>2. QED
    BY <1>3, <2>1 DEF Judge, TypeOK, given, readVars, serverVars
<1>4. CASE Tick
  BY <1>4 DEF Tick, TypeOK, given, readVars, serverVars
<1>5. CASE UNCHANGED vars
  BY <1>5 DEF vars, TypeOK, given, readVars, serverVars
<1>6. QED
  BY <1>1, <1>2, <1>3, <1>4, <1>5, ReadTypes, ServerTypes
     DEF Next, ProbeStep, ServerStep, Terminated

(* Every variable of the response evaluation has its type. *)
THEOREM TypeCorrect == Spec => []TypeOK
BY TypeInit, TypeStep, PTL DEF Spec

-----------------------------------------------------------------------------
(* The inductive invariant *)

(* Nothing of a body there is before the response. *)
EarlyInv ==
    pc \in {"start", "request"} =>
        /\ content = EmptyBuffer /\ sent = <<>> /\ frames = <<>>
        /\ ended = "no"
        /\ pc = "request" => ValidCheck

ClockInv == lastAt <= now /\ (pc = "start" => now = 0)

(* hyper reports the end of a body of declared length at its last byte. *)
DeclaredInv == declared # None /\ ended = "complete" => Len(sent) = declared

(* n bytes of what was sent have been read; the rest is in the frames.      *)
Unread(n) == Begins(sent, frames, n)

(* What the matchers and the buffer say of the first n bytes. *)
Account(n) ==
    /\ content.bytes = Capture(SubSeq(sent, 1, n), check.limit)
    /\ required = Occurring(check.contains, content.bytes)
    /\ forbidden = Occurring(check.notContains, content.bytes)
    /\ impossible =>
          /\ check.equals # None
          /\ WrongLength(declared) \/ ~IsPrefixOf(content.bytes, check.equals)

(* As long as the loop goes on, nothing is decided or cut. *)
Reading(n) ==
    /\ n <= check.limit
    /\ ~content.incomplete
    /\ ~Decided(required, forbidden, impossible)
    /\ check.equals # None => IsPrefixOf(content.bytes, check.equals)

(* At the limit, the probe waits for the end of the body. *)
AtLimit(n) ==
    /\ n = check.limit
    /\ MayExceed
    /\ Len(sent) = n => lastAt + BodyGrace <= graceBy

(* The body goes on beyond the limit, or was left open there. *)
Beyond ==
    /\ Len(sent) >= check.limit
    /\ Len(content.bytes) = check.limit
    /\ \/ Len(sent) > check.limit
       \/ declared # None /\ declared > check.limit
       \/ /\ declared = None
          /\ now >= lastAt + BodyGrace
          /\ prompt /\ ended = "complete" => endedAt >= lastAt + BodyGrace

(* When the loop ends there is a reason for it. *)
Judging(n) ==
    IF content.incomplete THEN Beyond
    ELSE /\ n <= check.limit
         /\ \/ Decided(required, forbidden, impossible)
            \/ ended = "complete" /\ frames = <<>>

BodyInv ==
    pc \in {"read", "grace", "judge"} =>
        /\ ValidCheck /\ HasBodyAssertions
        /\ \E n \in Nat :
              /\ Unread(n) /\ n <= Len(sent)
              /\ Account(n)
              /\ pc \in {"read", "grace"} => Reading(n)
              /\ pc = "grace" => AtLimit(n)
              /\ pc = "judge" => Judging(n)

(* What a verdict says of the server. *)
VerdictInv ==
    /\ verdict = "none" <=> pc # "done"
    /\ verdict = "forbidden" => ForbiddenSeen
    /\ verdict = "differs" => check.equals # None
    /\ prompt /\ verdict = "timeout" => ended = "no"
    /\ verdict = "readError" => ended = "broken"
    /\ verdict \in {"invalid", "requestError"} => ended = "no"

(* A verdict says nothing false about the body. *)
Truthful == VerdictInv /\ HealthyIsEarned /\ DenialIsProven /\ CutIsReal

HttpInv ==
    /\ TypeOK /\ EarlyInv /\ ClockInv /\ DeclaredInv /\ BodyInv /\ Truthful

-----------------------------------------------------------------------------
(* The simple parts *)

LEMMA EarlyStep == TypeOK /\ EarlyInv /\ [Next]_vars => EarlyInv'
<1> SUFFICES ASSUME TypeOK, EarlyInv, [Next]_vars PROVE EarlyInv'
  OBVIOUS
<1> USE DEF EarlyInv, given, readVars, serverVars, Return, ValidCheck,
            HasBodyAssertions
<1>1. CASE Prepare \/ ReadEnd \/ ReadBroken \/ TimesOut \/ SkipFrame \/ GraceMore
           \/ GraceTimesOut \/ Judge \/ ReadFrame
  BY <1>1 DEF Prepare, ReadEnd, ReadBroken, TimesOut, SkipFrame, GraceMore,
     GraceTimesOut, Judge, ReadFrame
<1>2. CASE Tick \/ Terminated \/ UNCHANGED vars
  BY <1>2 DEF Tick, Terminated, vars
<1>3. CASE \E length \in Lengths, statusOk, headersOk \in BOOLEAN :
              Respond(length, statusOk, headersOk)
  BY <1>3 DEF Respond
<1>4. CASE \/ \E f \in Frames : SendFrame(f)
           \/ \E trailers \in BOOLEAN : EndBody(trailers)
           \/ BreakBody \/ RequestFails
  BY <1>4 DEF SendFrame, EndBody, BreakBody, RequestFails, Serving
<1>5. QED
  BY <1>1, <1>2, <1>3, <1>4 DEF Next, ProbeStep, ServerStep

LEMMA ClockStep == TypeOK /\ ClockInv /\ [Next]_vars => ClockInv'
<1> SUFFICES ASSUME TypeOK, ClockInv, [Next]_vars PROVE ClockInv'
  OBVIOUS
<1> USE DEF ClockInv, given, readVars, serverVars, TypeOK, Return, Waiting, Serving
<1>1. CASE Prepare \/ ReadEnd \/ ReadBroken \/ TimesOut \/ SkipFrame \/ GraceMore
           \/ GraceTimesOut \/ Judge \/ ReadFrame
  BY <1>1 DEF Prepare, ReadEnd, ReadBroken, TimesOut, SkipFrame, GraceMore,
     GraceTimesOut, Judge, ReadFrame
<1>2. CASE Tick \/ Terminated \/ UNCHANGED vars
  BY <1>2 DEF Tick, Terminated, vars
<1>3. CASE \E length \in Lengths, statusOk, headersOk \in BOOLEAN :
              Respond(length, statusOk, headersOk)
  BY <1>3 DEF Respond
<1>4. CASE \/ \E f \in Frames : SendFrame(f)
           \/ \E trailers \in BOOLEAN : EndBody(trailers)
           \/ BreakBody \/ RequestFails
  BY <1>4 DEF SendFrame, EndBody, BreakBody, RequestFails
<1>5. QED
  BY <1>1, <1>2, <1>3, <1>4 DEF Next, ProbeStep, ServerStep

LEMMA DeclaredStep ==
    TypeOK /\ EarlyInv /\ DeclaredInv /\ [Next]_vars => DeclaredInv'
<1> SUFFICES ASSUME TypeOK, EarlyInv, DeclaredInv, [Next]_vars PROVE DeclaredInv'
  OBVIOUS
<1> USE DEF DeclaredInv, given, readVars, serverVars
<1>1. CASE Prepare \/ ReadEnd \/ ReadBroken \/ TimesOut \/ SkipFrame \/ GraceMore
           \/ GraceTimesOut \/ Judge \/ ReadFrame
  BY <1>1 DEF Prepare, ReadEnd, ReadBroken, TimesOut, SkipFrame, GraceMore,
     GraceTimesOut, Judge, ReadFrame
<1>2. CASE Tick \/ Terminated \/ UNCHANGED vars
  BY <1>2 DEF Tick, Terminated, vars
<1>3. ASSUME NEW length \in Lengths, NEW statusOk, NEW headersOk,
             Respond(length, statusOk, headersOk)
      PROVE  DeclaredInv'
  <2>1. sent' = <<>> /\ declared' = length
    BY <1>3 DEF Respond, EarlyInv
  <2>2. ended' = "complete" => length = 0
    BY <1>3 DEF Respond
  <2>3. QED
    BY <2>1, <2>2, EmptySeq
<1>4. CASE \/ \E f \in Frames : SendFrame(f)
           \/ \E trailers \in BOOLEAN : EndBody(trailers)
           \/ BreakBody \/ RequestFails
  BY <1>4 DEF SendFrame, EndBody, BreakBody, RequestFails
<1>5. QED
  BY <1>1, <1>2, <1>3, <1>4 DEF Next, ProbeStep, ServerStep

-----------------------------------------------------------------------------
(* The body *)

(* At the response nothing is read yet. *)
LEMMA BodyOfResponse ==
    ASSUME TypeOK, EarlyInv,
           NEW length \in Lengths, NEW statusOk, NEW headersOk,
           Respond(length, statusOk, headersOk)
    PROVE  BodyInv'
<1> USE DEF given
<1>0. /\ content = EmptyBuffer /\ sent = <<>> /\ frames = <<>>
      /\ Len(<<>>) = 0 /\ <<>> \in Seq(Bytes)
  BY EmptySeq DEF EarlyInv, Respond
<1> SUFFICES ASSUME pc' \in {"read", "grace", "judge"} PROVE BodyInv'
  BY DEF BodyInv
<1>1. /\ HasBodyAssertions
      /\ pc' = IF WrongLength(length) THEN "judge" ELSE "read"
      /\ required' = NewMatcher(check.contains)
      /\ forbidden' = NewMatcher(check.notContains)
      /\ impossible' = WrongLength(length)
      /\ content' = EmptyBuffer /\ sent' = <<>> /\ frames' = <<>>
      /\ declared' = length /\ UNCHANGED given
  BY <1>0 DEF Respond, Return
<1>2. content'.bytes = <<>> /\ ~content'.incomplete
  BY <1>1 DEF EmptyBuffer
<1>3. ASSUME NEW needles \in SUBSET Seq(Bytes)
      PROVE  NewMatcher(needles) = Occurring(needles, <<>>)
  <2>1. \A n \in needles : ContainsSlice(<<>>, n) <=> Len(n) = 0
    BY EmptyContains
  <2>2. QED
    BY <2>1 DEF NewMatcher, Occurring
<1>4. Unread(0)'
  BY <1>1, CutNothing DEF Unread, Begins
<1>5. Account(0)'
  <2>1. Capture(SubSeq(<<>>, 1, 0), check.limit) = <<>>
    <3>1. SubSeq(<<>>, 1, 0) = <<>>
      BY SubSeqEmpty
    <3>2. Least(0, check.limit) = 0
      BY CheckFacts DEF Least
    <3>3. QED
      BY <1>0, <3>1, <3>2 DEF Capture
  <2>2. required' = Occurring(check.contains, <<>>)
        /\ forbidden' = Occurring(check.notContains, <<>>)
    BY <1>1, <1>3, CheckFacts
  <2>3. impossible' => check.equals # None /\ WrongLength(length)
    BY <1>1 DEF WrongLength
  <2>4. WrongLength(declared)' <=> WrongLength(length)
    BY <1>1 DEF WrongLength
  <2>5. QED
    BY <1>1, <1>2, <2>1, <2>2, <2>3, <2>4 DEF Account
<1>6. ASSUME pc' = "read"  PROVE Reading(0)'
  <2>1. ~WrongLength(length)
    BY <1>1, <1>6
  <2>2. \A n \in check.contains \cup check.notContains : Len(n) # 0
    BY CheckFacts, EmptyContains DEF ValidCheck, EarlyInv, Respond
  <2>3. required' = {} /\ forbidden' = {} /\ impossible' = FALSE
    BY <1>1, <2>1, <2>2 DEF NewMatcher
  <2>4. ~Decided(required, forbidden, impossible)'
    BY <1>1, <2>3 DEF Decided, AnyMatched, AllMatched
  <2>5. check.equals # None => IsPrefixOf(<<>>, check.equals)
    BY <1>0, CheckFacts, LenProperties DEF IsPrefixOf
  <2>6. QED
    BY <1>1, <1>2, <2>4, <2>5, CheckFacts DEF Reading, IsPrefixOf
<1>7. ASSUME pc' = "judge"  PROVE Judging(0)'
  <2>1. impossible' /\ check.equals # None
    BY <1>1, <1>7 DEF WrongLength
  <2>2. Decided(required, forbidden, impossible)'
    BY <1>1, <2>1 DEF Decided
  <2>3. QED
    BY <1>1, <1>2, <2>2, CheckFacts DEF Judging
<1>8. ValidCheck' /\ HasBodyAssertions' /\ 0 <= Len(sent')
  <2>1. ValidCheck
    BY DEF EarlyInv, Respond
  <2>2. QED
    BY <1>0, <1>1, <2>1 DEF ValidCheck, HasBodyAssertions
<1>9. pc' # "grace" /\ 0 \in Nat
  BY <1>1
<1>10. \E n \in Nat :
          /\ Unread(n)' /\ n <= Len(sent')
          /\ Account(n)'
          /\ pc' \in {"read", "grace"} => Reading(n)'
          /\ pc' = "grace" => AtLimit(n)'
          /\ pc' = "judge" => Judging(n)'
  BY <1>4, <1>5, <1>6, <1>7, <1>8, <1>9
<1>11. QED
  BY <1>8, <1>10 DEF BodyInv

(* The witness of BodyInv, for the steps that start in the loop. *)
Witness(n) ==
    /\ Unread(n) /\ n <= Len(sent)
    /\ Account(n)
    /\ pc \in {"read", "grace"} => Reading(n)
    /\ pc = "grace" => AtLimit(n)
    /\ pc = "judge" => Judging(n)

(* The account of what was read stays true while the server goes on.        *)
LEMMA AccountStays ==
    ASSUME TypeOK, TypeOK', NEW n \in Nat, n <= Len(sent), Account(n),
           NEW more \in Seq(Bytes), sent' = sent \o more,
           UNCHANGED <<given, declared, required, forbidden, impossible>>,
           content'.bytes = content.bytes
    PROVE  Account(n)'
<1>1. SubSeq(sent', 1, n) = SubSeq(sent, 1, n)
  BY PrefixOfLonger DEF TypeOK
<1>2. QED
  BY <1>1 DEF Account, given, WrongLength, IsPrefixOf

(* What one frame of data adds to the account. *)
LEMMA AccountOfFrame ==
    ASSUME TypeOK, ReadFrame, NEW n \in Nat, Unread(n), n <= Len(sent),
           Account(n), Reading(n),
           NEW new, new = AppendLimited(content, Head(frames), check.limit)
    PROVE  \E m \in Nat :
              /\ Unread(m)' /\ m <= Len(sent)
              /\ new.bytes = Capture(SubSeq(sent, 1, m), check.limit)
              /\ Len(new.bytes) = Least(m, check.limit)
              /\ new.incomplete <=> m > check.limit
              /\ required' = Occurring(check.contains, new.bytes)
              /\ forbidden' = Occurring(check.notContains, new.bytes)
<1> DEFINE f   == Head(frames)
           old == content.bytes
<1>1. PICK cuts : Cut(sent, frames, cuts) /\ cuts[0] = n
  BY DEF Unread, Begins
<1>2. frames # <<>> /\ frames \in Seq(Seq(Bytes)) /\ sent \in Seq(Bytes)
  BY DEF ReadFrame, TypeOK
<1>3. f \in Seq(Bytes)
  BY <1>2, FrameFacts
<1>4. PICK rest : /\ Cut(sent, Tail(frames), rest)
                  /\ rest[0] \in 0 .. Len(sent)
                  /\ SubSeq(sent, 1, cuts[0]) \o f = SubSeq(sent, 1, rest[0])
  <2>1. \E rest : /\ Cut(sent, Tail(frames), rest)
                  /\ cuts[0] \in Nat
                  /\ rest[0] = cuts[0] + Len(Head(frames))
                  /\ rest[0] \in 0 .. Len(sent)
                  /\ SubSeq(sent, 1, cuts[0]) \o Head(frames)
                       = SubSeq(sent, 1, rest[0])
    BY <1>1, <1>2, CutRead
  <2>2. QED
    BY <2>1
<1>5. PICK m : m = rest[0]
  OBVIOUS
<1>6. m \in Nat /\ m <= Len(sent) /\ Len(sent) \in Nat
  BY <1>2, <1>4, <1>5, LenProperties
<1>7. Unread(m)'
  BY <1>4, <1>5 DEF Unread, Begins, ReadFrame, serverVars
<1>8. /\ SubSeq(sent, 1, n) \in Seq(Bytes) /\ Len(SubSeq(sent, 1, n)) = n
      /\ SubSeq(sent, 1, m) \in Seq(Bytes) /\ Len(SubSeq(sent, 1, m)) = m
  BY <1>2, <1>6, Prefix
<1>9. Holds(content, SubSeq(sent, 1, n), check.limit)
  BY <1>8, CheckFacts DEF Holds, Account, Reading
<1>10. Holds(new, SubSeq(sent, 1, n) \o f, check.limit)
  BY <1>3, <1>8, <1>9, CheckFacts, AppendHolds
<1>11. SubSeq(sent, 1, n) \o f = SubSeq(sent, 1, m)
  BY <1>1, <1>4, <1>5
<1>12. /\ new.bytes = Capture(SubSeq(sent, 1, m), check.limit)
       /\ new.incomplete <=> m > check.limit
  BY <1>8, <1>10, <1>11 DEF Holds
<1>13. Len(new.bytes) = Least(m, check.limit)
  <2>1. ASSUME NEW s \in Seq(Bytes)
        PROVE  Len(Capture(s, check.limit)) = Least(Len(s), check.limit)
    BY CheckFacts, CaptureProperties
  <2>2. QED
    BY <1>8, <1>12, <2>1
<1>14. /\ new.bytes \in Seq(Bytes) /\ old \in Seq(Bytes)
       /\ Len(old) <= Len(new.bytes)
       /\ \A i \in 1 .. Len(old) : new.bytes[i] = old[i]
  <2>1. old \in Seq(Bytes)
    BY DEF TypeOK
  <2>2. QED
    BY <1>3, <2>1, CheckFacts, AppendExtends
<1>15. /\ required = Occurring(check.contains, old)
       /\ forbidden = Occurring(check.notContains, old)
  BY DEF Account
<1>16. /\ ObserveAppended(check.contains, required, new.bytes, Len(old))
             = Occurring(check.contains, new.bytes)
       /\ ObserveAppended(check.notContains, forbidden, new.bytes, Len(old))
             = Occurring(check.notContains, new.bytes)
  BY <1>14, <1>15, CheckFacts, ObserveIsExact
<1>17. /\ required' = ObserveAppended(check.contains, required, new.bytes, Len(old))
       /\ forbidden' = ObserveAppended(check.notContains, forbidden, new.bytes,
                                       Len(old))
  BY DEF ReadFrame
<1>18. QED
  BY <1>6, <1>7, <1>12, <1>13, <1>16, <1>17

(* An exact match is impossible exactly if the bytes are no prefix.         *)
LEMMA ImpossibleOfFrame ==
    ASSUME TypeOK, ReadFrame, NEW n \in Nat, Account(n), Reading(n),
           NEW new, new = AppendLimited(content, Head(frames), check.limit)
    PROVE  /\ impossible' => check.equals # None
                             /\ ~IsPrefixOf(new.bytes, check.equals)
           /\ check.equals # None /\ ~impossible'
                 => IsPrefixOf(new.bytes, check.equals)
<1>1. ~impossible
  BY DEF Account, Reading, Decided
<1>2. impossible' <=> check.equals # None
                      /\ Deviates(new.bytes, Len(content.bytes))
  BY <1>1 DEF ReadFrame
<1>3. /\ new.bytes \in Seq(Bytes) /\ content.bytes \in Seq(Bytes)
      /\ Len(content.bytes) <= Len(new.bytes)
      /\ \A i \in 1 .. Len(content.bytes) : new.bytes[i] = content.bytes[i]
  <2>1. content.bytes \in Seq(Bytes) /\ Head(frames) \in Seq(Bytes)
    BY FrameFacts DEF TypeOK, ReadFrame
  <2>2. QED
    BY <2>1, CheckFacts, AppendExtends
<1>4. Len(new.bytes) \in Nat /\ Len(content.bytes) \in Nat
  BY <1>3, LenProperties
<1>5. ASSUME check.equals # None
      PROVE  Deviates(new.bytes, Len(content.bytes))
                <=> ~IsPrefixOf(new.bytes, check.equals)
  <2>1. Len(check.equals) \in Nat
    BY <1>5, CheckFacts, LenProperties
  <2>2. \A i \in 1 .. Len(content.bytes) : new.bytes[i] = check.equals[i]
    BY <1>3, <1>5 DEF Reading, IsPrefixOf
  <2>3. \A i \in 1 .. Len(new.bytes) :
           \/ i \in 1 .. Len(content.bytes)
           \/ i \in Len(content.bytes) + 1 .. Len(new.bytes)
    BY <1>4
  <2>4. Len(content.bytes) + 1 .. Len(new.bytes) \subseteq 1 .. Len(new.bytes)
    BY <1>4
  <2>5. Len(new.bytes) > Len(check.equals)
           <=> ~(Len(new.bytes) <= Len(check.equals))
    BY <1>4, <2>1
  <2>6. QED
    BY <2>2, <2>3, <2>4, <2>5 DEF Deviates, IsPrefixOf
<1>6. QED
  BY <1>2, <1>5

(* One turn of the loop of read_body. *)
LEMMA BodyOfFrame ==
    ASSUME TypeOK, TypeOK', ClockInv, ReadFrame, NEW n \in Nat, Witness(n)
    PROVE  \E m \in Nat : Witness(m)'
<1> DEFINE limit == check.limit
<1>1. PICK new : new = AppendLimited(content, Head(frames), limit)
  OBVIOUS
<1>2. Unread(n) /\ n <= Len(sent) /\ Account(n) /\ Reading(n)
  BY DEF Witness, ReadFrame
<1>3. PICK m \in Nat :
         /\ Unread(m)' /\ m <= Len(sent)
         /\ new.bytes = Capture(SubSeq(sent, 1, m), limit)
         /\ Len(new.bytes) = Least(m, limit)
         /\ new.incomplete <=> m > limit
         /\ required' = Occurring(check.contains, new.bytes)
         /\ forbidden' = Occurring(check.notContains, new.bytes)
  BY <1>1, <1>2, AccountOfFrame
<1>4. /\ impossible' => check.equals # None
                        /\ ~IsPrefixOf(new.bytes, check.equals)
      /\ check.equals # None /\ ~impossible' => IsPrefixOf(new.bytes, check.equals)
  BY <1>1, <1>2, ImpossibleOfFrame
<1>5. /\ UNCHANGED <<given, declared, now, sent, ended, lastAt, endedAt>>
      /\ limit \in Nat /\ Len(sent) \in Nat
  BY CheckFacts, LenProperties DEF ReadFrame, serverVars, TypeOK
<1>6. check' = check
  BY <1>5 DEF given
<1>7. content'.bytes = new.bytes
  BY <1>1 DEF ReadFrame, MarkIncomplete, AppendLimited
<1>8. Account(m)'
  BY <1>3, <1>4, <1>5, <1>6, <1>7 DEF Account, IsPrefixOf
<1>9. m > limit => Len(sent) > limit /\ Len(new.bytes) = limit
  BY <1>3, <1>5 DEF Least
<1>10. m <= limit => Len(new.bytes) = m
  BY <1>3, <1>5 DEF Least
<1>11. Decided(required', forbidden', impossible')
          <=> Decided(required, forbidden, impossible)'
  BY <1>6 DEF Decided
<1>12. CASE Decided(required', forbidden', impossible')
  <2>1. pc' = "judge" /\ content' = new
    BY <1>1, <1>12 DEF ReadFrame
  <2>2. Judging(m)'
    <3>1. CASE new.incomplete
      BY <1>3, <1>5, <1>6, <1>9, <2>1, <3>1 DEF Judging, Beyond
    <3>2. CASE ~new.incomplete
      BY <1>3, <1>5, <1>6, <1>11, <1>12, <2>1, <3>2 DEF Judging
    <3>3. QED
      BY <3>1, <3>2
  <2>3. QED
    BY <1>3, <1>5, <1>8, <2>1, <2>2 DEF Witness
<1>13. CASE /\ ~Decided(required', forbidden', impossible')
            /\ new.incomplete \/ (WillExceed /\ Len(new.bytes) = limit)
  <2>1. pc' = "judge" /\ content' = MarkIncomplete(new)
    BY <1>1, <1>13 DEF ReadFrame
  <2>2. content'.incomplete
    BY <1>1, <2>1 DEF MarkIncomplete, AppendLimited
  <2>3. Len(sent) >= limit /\ Len(new.bytes) = limit
        /\ (Len(sent) > limit \/ WillExceed)
    BY <1>3, <1>5, <1>9, <1>10, <1>13
  <2>4. Beyond'
    BY <1>5, <1>6, <1>7, <2>3 DEF Beyond, WillExceed
  <2>5. QED
    BY <1>3, <1>5, <1>8, <2>1, <2>2, <2>4 DEF Witness, Judging
<1>14. CASE /\ ~Decided(required', forbidden', impossible')
            /\ ~new.incomplete /\ ~(WillExceed /\ Len(new.bytes) = limit)
  <2>1. /\ content' = new
        /\ IF Len(new.bytes) = limit /\ MayExceed
             THEN pc' = "grace" /\ graceBy' = GraceDeadline
             ELSE UNCHANGED <<pc, graceBy>>
    BY <1>1, <1>14 DEF ReadFrame
  <2>2. m <= limit /\ pc = "read"
    BY <1>3, <1>5, <1>14 DEF ReadFrame
  <2>3. check.equals # None => ~impossible'
    BY <1>14 DEF Decided
  <2>4. Reading(m)'
    BY <1>4, <1>6, <1>11, <1>14, <2>1, <2>2, <2>3 DEF Reading, IsPrefixOf
  <2>5. ASSUME pc' = "grace"  PROVE AtLimit(m)'
    <3>1. Len(new.bytes) = limit /\ MayExceed /\ graceBy' = GraceDeadline
      BY <2>1, <2>2, <2>5
    <3>2. lastAt + BodyGrace <= GraceDeadline
      BY CheckFacts DEF ClockInv, GraceDeadline, TypeOK
    <3>3. MayExceed'
      BY <1>5, <1>6, <3>1 DEF MayExceed, WillExceed
    <3>4. QED
      BY <1>5, <1>6, <1>10, <2>2, <3>1, <3>2, <3>3 DEF AtLimit
  <2>6. pc' # "judge"
    BY <2>1, <2>2
  <2>7. QED
    BY <1>3, <1>5, <1>8, <2>4, <2>5, <2>6 DEF Witness
<1>15. QED
  BY <1>12, <1>13, <1>14

LEMMA BeginsAsBefore ==
    ASSUME NEW s \in Seq(Bytes), NEW list \in Seq(Seq(Bytes)), NEW f \in Seq(Bytes),
           NEW n, Begins(s, list, n)
    PROVE  Begins(s \o f, Append(list, f), n)
<1>1. PICK cuts : Cut(s, list, cuts) /\ cuts[0] = n
  BY DEF Begins
<1>2. QED
  BY <1>1, CutSend

(* What the server adds while the probe reads. *)
LEMMA BodyOfServer ==
    ASSUME TypeOK, TypeOK', NEW n \in Nat, Witness(n), Serving,
           NEW more \in Seq(Bytes), sent' = sent \o more,
           \/ frames' = Append(frames, more)
           \/ frames' = frames /\ more = <<>>,
           more # <<>> \/ UNCHANGED lastAt,
           UNCHANGED <<given, pc, verdict, declared, readVars, graceBy, now>>
    PROVE  Witness(n)'
<1>1. Begins(sent, frames, n)
  BY DEF Witness, Unread, Begins
<1>2. /\ sent \in Seq(Bytes) /\ frames \in Seq(Seq(Bytes))
      /\ Len(sent) \in Nat /\ Len(more) \in Nat
      /\ Len(sent') = Len(sent) + Len(more)
      /\ more # <<>> => Len(more) > 0
  BY LenProperties, ConcatProperties, EmptySeq DEF TypeOK
<1>3. Unread(n)'
  <2>1. CASE frames' = Append(frames, more)
    <3>1. Begins(sent \o more, Append(frames, more), n)
      BY <1>1, <1>2, BeginsAsBefore
    <3>2. QED
      BY <2>1, <3>1 DEF Unread, Begins
  <2>2. CASE frames' = frames /\ more = <<>>
    <3>1. sent' = sent
      BY <1>2, <2>2, ConcatEmptySeq
    <3>2. QED
      BY <1>1, <2>2, <3>1 DEF Unread, Begins
  <2>3. QED
    BY <2>1, <2>2
<1>4. n <= Len(sent) /\ Account(n) /\ Reading(n) /\ pc \in {"read", "grace"}
  BY DEF Witness, Serving
<1>5. Account(n)'
  BY <1>4, AccountStays DEF readVars
<1>6. Reading(n)'
  BY <1>4 DEF Reading, Decided, IsPrefixOf, given, readVars
<1>7. ASSUME pc = "grace"  PROVE AtLimit(n)'
  <2>1. AtLimit(n)
    BY <1>7 DEF Witness
  <2>2. Len(sent') = n => more = <<>>
    BY <1>2, <1>4
  <2>3. Len(sent') = n => Len(sent) = n
    BY <1>2, <1>4
  <2>4. QED
    BY <2>1, <2>2, <2>3 DEF AtLimit, MayExceed, WillExceed, given
<1>8. QED
  BY <1>2, <1>3, <1>4, <1>5, <1>6, <1>7 DEF Witness

(* A step that leaves the buffer as it is and the loop where it is.         *)
LEMMA BodyOfSkip ==
    ASSUME TypeOK, NEW n \in Nat, Witness(n), SkipFrame
    PROVE  Witness(n)'
<1>1. PICK cuts : Cut(sent, frames, cuts) /\ cuts[0] = n
  BY DEF Witness, Unread, Begins
<1>2. sent \in Seq(Bytes) /\ frames \in Seq(Seq(Bytes)) /\ frames # <<>>
  BY DEF TypeOK, SkipFrame
<1>3. \E rest : /\ Cut(sent, Tail(frames), rest)
                /\ cuts[0] \in Nat
                /\ rest[0] = cuts[0] + Len(Head(frames))
                /\ rest[0] \in 0 .. Len(sent)
                /\ SubSeq(sent, 1, cuts[0]) \o Head(frames)
                     = SubSeq(sent, 1, rest[0])
  BY <1>1, <1>2, CutRead
<1>4. \E rest : Cut(sent, Tail(frames), rest) /\ rest[0] = n
  <2>1. Len(Head(frames)) = 0
    BY EmptySeq DEF SkipFrame
  <2>2. QED
    BY <1>1, <1>3, <2>1
<1>5. Unread(n)'
  BY <1>4 DEF Unread, Begins, SkipFrame, serverVars
<1>6. /\ Account(n) => Account(n)'
      /\ Reading(n) => Reading(n)'
      /\ AtLimit(n) => AtLimit(n)'
  BY DEF SkipFrame, given, readVars, serverVars, Account, Reading, AtLimit,
     WrongLength, Decided, IsPrefixOf, MayExceed, WillExceed
<1>7. QED
  BY <1>5, <1>6 DEF SkipFrame, Witness, serverVars

(* The loop ends with a mark, after a full buffer. *)
LEMMA BodyOfMark ==
    ASSUME TypeOK, TypeOK', NEW n \in Nat, Witness(n), GraceMore \/ GraceTimesOut
    PROVE  \E m \in Nat : Witness(m)'
<1>1. /\ pc' = "judge" /\ content' = MarkIncomplete(content)
      /\ UNCHANGED <<given, declared, required, forbidden, impossible, serverVars,
                     now, graceBy>>
      /\ pc = "grace"
  BY DEF GraceMore, GraceTimesOut
<1>2. content'.bytes = content.bytes /\ content'.incomplete
  BY <1>1, MarkType
<1>3. n <= Len(sent) /\ Account(n) /\ AtLimit(n) /\ Unread(n)
  BY <1>1 DEF Witness
<1>4. /\ sent \in Seq(Bytes) /\ Len(sent) \in Nat /\ now \in Nat /\ lastAt \in Nat
      /\ graceBy \in Nat /\ BodyGrace \in Nat /\ frames \in Seq(Seq(Bytes))
      /\ check.limit \in Nat
  BY LenProperties, CheckFacts DEF TypeOK
<1>5. Len(content.bytes) = check.limit
  <2>1. SubSeq(sent, 1, n) \in Seq(Bytes) /\ Len(SubSeq(sent, 1, n)) = n
    BY <1>3, <1>4, Prefix
  <2>2. Len(Capture(SubSeq(sent, 1, n), check.limit))
           = Least(Len(SubSeq(sent, 1, n)), check.limit)
    BY <1>4, <2>1, CaptureProperties
  <2>3. n = check.limit
    BY <1>3 DEF AtLimit
  <2>4. QED
    BY <1>3, <2>1, <2>2, <2>3 DEF Account, Least
<1>6. PICK cuts : Cut(sent, frames, cuts) /\ cuts[0] = n
  BY <1>3 DEF Unread, Begins
<1>7. ASSUME GraceMore
      PROVE  /\ Len(sent) > check.limit
             /\ \E m \in Nat : /\ m >= n /\ m <= Len(sent) /\ Unread(m)'
  <2>1. frames # <<>> /\ Head(frames) # <<>>
    BY <1>7 DEF GraceMore
  <2>2. Head(frames) \in Seq(Bytes)
    BY <2>1, FrameFacts
  <2>3. Len(Head(frames)) \in Nat \ {0}
    BY <2>1, <2>2, EmptySeq
  <2>4. PICK rest : /\ Cut(sent, Tail(frames), rest)
                    /\ cuts[0] \in Nat
                    /\ rest[0] = cuts[0] + Len(Head(frames))
                    /\ rest[0] \in 0 .. Len(sent)
                    /\ SubSeq(sent, 1, cuts[0]) \o Head(frames)
                         = SubSeq(sent, 1, rest[0])
    BY <1>4, <1>6, <2>1, CutRead
  <2>5. n < rest[0] /\ rest[0] <= Len(sent) /\ rest[0] \in Nat
    BY <1>4, <1>6, <2>3, <2>4
  <2>6. Len(sent) > check.limit
    BY <1>3, <1>4, <2>5 DEF AtLimit
  <2>7. Unread(rest[0])'
    BY <1>1, <1>7, <2>4 DEF Unread, Begins, GraceMore, serverVars
  <2>8. QED
    BY <2>5, <2>6, <2>7
<1>8. ASSUME GraceTimesOut
      PROVE  /\ Beyond'
             /\ \E m \in Nat : /\ m >= n /\ m <= Len(sent) /\ Unread(m)'
  <2>1. /\ now >= graceBy /\ UNCHANGED frames
        /\ prompt => ended = "no"
    BY <1>1, <1>8 DEF GraceTimesOut, Ready
  <2>2. \/ Len(sent) > check.limit
        \/ declared # None /\ declared > check.limit
        \/ declared = None /\ now >= lastAt + BodyGrace
    <3>1. CASE Len(sent) = n
      BY <1>3, <1>4, <2>1, <3>1 DEF AtLimit, MayExceed, WillExceed
    <3>2. CASE Len(sent) # n
      BY <1>3, <1>4, <3>2 DEF AtLimit
    <3>3. QED
      BY <3>1, <3>2
  <2>3. Len(sent) >= check.limit
    BY <1>3, <1>4 DEF AtLimit
  <2>4. Beyond'
    BY <1>1, <1>2, <1>5, <2>1, <2>2, <2>3 DEF Beyond, given, serverVars
  <2>5. Unread(n)'
    BY <1>1, <1>3, <2>1 DEF Unread, serverVars
  <2>6. QED
    BY <1>3, <1>4, <2>4, <2>5
<1>9. Beyond'
  <2>1. CASE GraceMore
    BY <1>1, <1>2, <1>4, <1>5, <1>7, <2>1 DEF Beyond, given, serverVars
  <2>2. QED
    BY <1>8, <2>1
<1>10. PICK m \in Nat : m >= n /\ m <= Len(sent) /\ Unread(m)'
  BY <1>7, <1>8
<1>11. Account(m)'
  <2>1. Capture(SubSeq(sent, 1, m), check.limit)
           = Capture(SubSeq(sent, 1, n), check.limit)
    <3> DEFINE p == SubSeq(sent, 1, n)
               q == SubSeq(sent, n + 1, m)
    <3>1. p \in Seq(Bytes) /\ Len(p) = n /\ Len(p) >= check.limit
      BY <1>3, <1>4, Prefix DEF AtLimit
    <3>2. q \in Seq(Bytes)
      BY <1>4, <1>10, Piece
    <3>3. p \o q = SubSeq(sent, 1, m)
      BY <1>4, <1>10, PrefixAndPiece
    <3> HIDE DEF p, q
    <3>4. Capture(p \o q, check.limit) = Capture(p, check.limit)
      BY <1>4, <3>1, <3>2, FullStaysSame
    <3>5. QED
      BY <3>3, <3>4 DEF p
  <2>2. QED
    BY <1>1, <1>2, <1>3, <2>1 DEF Account, given, serverVars, WrongLength, IsPrefixOf
<1>12. QED
  BY <1>1, <1>2, <1>9, <1>10, <1>11 DEF Witness, Judging, serverVars

LEMMA BodyStep ==
    ASSUME TypeOK, TypeOK', EarlyInv, ClockInv, BodyInv, [Next]_vars
    PROVE  BodyInv'
<1>0. ASSUME ValidCheck, HasBodyAssertions, UNCHANGED given,
             NEW n \in Nat, Witness(n)'
      PROVE  BodyInv'
  BY <1>0 DEF BodyInv, Witness, ValidCheck, HasBodyAssertions, given
<1>1. ASSUME pc' \in {"start", "request", "done"}  PROVE BodyInv'
  BY <1>1 DEF BodyInv
<1>2. ASSUME pc \in {"read", "grace", "judge"}
      PROVE  ValidCheck /\ HasBodyAssertions /\ \E n \in Nat : Witness(n)
  BY <1>2 DEF BodyInv, Witness
<1>3. ASSUME NEW length \in Lengths, NEW statusOk \in BOOLEAN,
             NEW headersOk \in BOOLEAN, Respond(length, statusOk, headersOk)
      PROVE  BodyInv'
  BY <1>3, BodyOfResponse
<1>4. ASSUME NEW f \in Frames, SendFrame(f)  PROVE BodyInv'
  <2>1. PICK n \in Nat : Witness(n)
    BY <1>2, <1>4 DEF SendFrame, Serving
  <2>2. f \in Seq(Bytes) /\ f # <<>>
    <3>1. PICK k \in 1 .. MaxFrame : f \in [1 .. k -> Bytes]
      BY DEF Frames
    <3>2. k \in Nat \ {0} /\ f \in [1 .. k -> Bytes]
      BY <3>1, BoundsAssumption
    <3>3. Seq(Bytes) = UNION {[1 .. m -> Bytes] : m \in Nat}
      BY SeqDef
    <3>4. f \in Seq(Bytes)
      BY <3>2, <3>3
    <3>5. Len(f) = k
      BY <3>2, <3>4, LenProperties
    <3>6. QED
      BY <3>2, <3>4, <3>5, EmptySeq
  <2>3. Witness(n)'
    BY <1>4, <2>1, <2>2, BodyOfServer DEF SendFrame
  <2>4. QED
    BY <1>0, <1>2, <1>4, <2>3 DEF SendFrame, Serving
<1>5. ASSUME \/ \E trailers \in BOOLEAN : EndBody(trailers)
             \/ BreakBody
      PROVE  BodyInv'
  <2>0. /\ Serving
        /\ UNCHANGED <<given, pc, verdict, declared, readVars, graceBy, now,
                       sent, lastAt>>
        /\ frames' = frames \/ frames' = Append(frames, <<>>)
    BY <1>5 DEF EndBody, BreakBody
  <2>1. PICK n \in Nat : Witness(n)
    BY <1>2, <2>0 DEF Serving
  <2>2. sent \o <<>> = sent /\ <<>> \in Seq(Bytes)
    BY ConcatEmptySeq, EmptySeq DEF TypeOK
  <2>3. Witness(n)'
    BY <2>0, <2>1, <2>2, BodyOfServer
  <2>4. QED
    BY <1>0, <1>2, <2>0, <2>3 DEF Serving
<1>6. CASE ReadFrame
  <2>1. PICK n \in Nat : Witness(n)
    BY <1>2, <1>6 DEF ReadFrame
  <2>2. PICK m \in Nat : Witness(m)'
    BY <1>6, <2>1, BodyOfFrame
  <2>3. QED
    BY <1>0, <1>2, <1>6, <2>2 DEF ReadFrame
<1>7. CASE SkipFrame
  <2>1. PICK n \in Nat : Witness(n)
    BY <1>2, <1>7 DEF SkipFrame
  <2>2. Witness(n)'
    BY <1>7, <2>1, BodyOfSkip
  <2>3. QED
    BY <1>0, <1>2, <1>7, <2>2 DEF SkipFrame
<1>8. CASE GraceMore \/ GraceTimesOut
  <2>0. pc = "grace" /\ UNCHANGED given
    BY <1>8 DEF GraceMore, GraceTimesOut
  <2>1. PICK n \in Nat : Witness(n)
    BY <1>2, <2>0
  <2>2. PICK m \in Nat : Witness(m)'
    BY <1>8, <2>1, BodyOfMark
  <2>3. QED
    BY <1>0, <1>2, <2>0, <2>2
<1>9. CASE ReadEnd
  <2>0. /\ pc \in {"read", "grace"} /\ frames = <<>> /\ ended = "complete"
        /\ pc' = "judge"
        /\ UNCHANGED <<given, declared, readVars, graceBy, now, serverVars, frames>>
    BY <1>9 DEF ReadEnd
  <2>1. PICK n \in Nat : Witness(n)
    BY <1>2, <2>0
  <2>2. /\ Unread(n)' /\ n <= Len(sent') /\ Account(n)'
    BY <2>0, <2>1 DEF Witness, Unread, Account, WrongLength, IsPrefixOf, given,
       readVars, serverVars
  <2>3. Judging(n)'
    BY <2>0, <2>1 DEF Witness, Reading, Judging, given, readVars, serverVars
  <2>4. QED
    BY <1>0, <1>2, <2>0, <2>2, <2>3 DEF Witness
<1>10. CASE Tick
  <2>0. /\ pc \in {"request", "read", "grace"}
        /\ UNCHANGED <<given, pc, declared, readVars, graceBy, serverVars, frames>>
    BY <1>10 DEF Tick, Waiting
  <2>1. CASE pc = "request"
    BY <1>1, <2>0, <2>1
  <2>2. CASE pc # "request"
    <3>1. PICK n \in Nat : Witness(n)
      BY <1>2, <2>0, <2>2
    <3>2. Witness(n)'
      BY <2>0, <2>2, <3>1 DEF Witness, Unread, Account, Reading, AtLimit, WrongLength,
         IsPrefixOf, Decided, MayExceed, WillExceed, given, readVars, serverVars
    <3>3. QED
      BY <1>0, <1>2, <2>0, <2>2, <3>2
  <2>3. QED
    BY <2>1, <2>2
<1>11. CASE Prepare \/ RequestFails \/ ReadBroken \/ TimesOut \/ Judge \/ Terminated
  BY <1>1, <1>11 DEF Prepare, RequestFails, ReadBroken, TimesOut, Judge, Terminated,
     Return, vars
<1>12. CASE UNCHANGED vars
  BY <1>12 DEF vars, BodyInv, Unread, Account, Reading, AtLimit, Judging, Beyond,
     WrongLength, IsPrefixOf, Decided, MayExceed, WillExceed, ValidCheck,
     HasBodyAssertions, given, readVars, serverVars
<1>13. QED
  BY <1>3, <1>4, <1>5, <1>6, <1>7, <1>8, <1>9, <1>10, <1>11, <1>12
     DEF Next, ProbeStep, ServerStep

-----------------------------------------------------------------------------
(* The verdict *)

(* What is known when the captured bytes are judged. *)
LEMMA AtJudgement ==
    ASSUME TypeOK, BodyInv, pc = "judge"
    PROVE  /\ HasBodyAssertions
           /\ IsPrefixOf(content.bytes, sent)
           /\ \A m \in Seq(Bytes) : ContainsSlice(content.bytes, m) =>
                 /\ ContainsSlice(sent, m)
                 /\ ContainsSlice(Capture(sent, check.limit), m)
           /\ content.incomplete => Beyond
           /\ ~content.incomplete =>
                 \/ Present # {}
                 \/ check.equals # None /\ impossible
                 \/ check.equals = None /\ check.notContains = {} /\ Missing = {}
                 \/ SeenWhole /\ Len(sent) <= check.limit /\ content.bytes = sent
           /\ impossible => check.equals # None /\ CannotEqual
<1> DEFINE bytes == content.bytes
           limit == check.limit
<1>1. PICK n \in Nat : Unread(n) /\ n <= Len(sent) /\ Account(n) /\ Judging(n)
  BY DEF BodyInv
<1>2. /\ sent \in Seq(Bytes) /\ bytes \in Seq(Bytes) /\ Len(sent) \in Nat
      /\ Len(bytes) \in Nat /\ limit \in Nat
  BY CheckFacts, LenProperties DEF TypeOK
<1>3. /\ SubSeq(sent, 1, n) \in Seq(Bytes) /\ Len(SubSeq(sent, 1, n)) = n
      /\ bytes = Capture(SubSeq(sent, 1, n), limit)
  BY <1>1, <1>2, Prefix DEF Account
<1>4. IsPrefixOf(bytes, sent)
  BY <1>1, <1>2, <1>3, CaptureIsPrefix
<1>5. ASSUME NEW m \in Seq(Bytes), ContainsSlice(bytes, m)
      PROVE  ContainsSlice(sent, m) /\ ContainsSlice(Capture(sent, limit), m)
  <2>1. ContainsSlice(sent, m)
    BY <1>2, <1>4, <1>5, PrefixContains
  <2>2. Suffix(sent, n) \in Seq(Bytes) /\ SubSeq(sent, 1, n) \o Suffix(sent, n) = sent
    BY <1>1, <1>2, SuffixProperties, PrefixAndSuffix
  <2> DEFINE p == SubSeq(sent, 1, n)
             q == Suffix(sent, n)
  <2>3. p \in Seq(Bytes) /\ q \in Seq(Bytes) /\ ContainsSlice(Capture(p, limit), m)
        /\ p \o q = sent
    BY <1>3, <1>5, <2>2
  <2> HIDE DEF p, q
  <2>4. ContainsSlice(Capture(p \o q, limit), m)
    BY <1>2, <2>3, FoundStaysFound
  <2>5. QED
    BY <2>1, <2>3, <2>4
<1>6. AnyMatched(forbidden) <=> Present # {}
  BY <1>1 DEF Account, Occurring, Present, AnyMatched
<1>7. AllMatched(check.contains, required) <=> Missing = {}
  BY <1>1 DEF Account, Occurring, Missing, AllMatched
<1>8. ASSUME ended = "complete" /\ frames = <<>>, n <= limit
      PROVE  SeenWhole /\ Len(sent) <= limit /\ bytes = sent
  <2>1. n = Len(sent)
    BY <1>1, <1>8, CutAll DEF Unread, Begins
  <2>2. SubSeq(sent, 1, n) = sent
    <3> DEFINE p == SubSeq(sent, 1, n)
    <3>1. p \in Seq(Bytes) /\ Len(p) = Len(sent) /\ \A i \in 1 .. Len(p) : p[i] = sent[i]
      BY <1>2, <2>1, Prefix
    <3> HIDE DEF p
    <3>2. p = sent
      BY <1>2, <3>1, SeqEqual
    <3>3. QED
      BY <3>2 DEF p
  <2>3. Capture(sent, limit) = sent
    BY <1>2, <1>8, <2>1, CaptureWhole
  <2>4. QED
    BY <1>3, <1>8, <2>1, <2>2, <2>3 DEF SeenWhole
<1>9. ASSUME impossible  PROVE check.equals # None /\ CannotEqual
  <2>1. check.equals # None
    BY <1>1, <1>9 DEF Account
  <2>2. CASE WrongLength(declared)
    BY <2>1, <2>2 DEF WrongLength, CannotEqual
  <2>3. CASE ~IsPrefixOf(bytes, check.equals)
    <3>1. check.equals \in Seq(Bytes)
      BY <2>1, CheckFacts
    <3>2. ~IsPrefixOf(sent, check.equals)
      BY <1>2, <1>4, <2>3, <3>1, PrefixOfPrefix
    <3>3. QED
      BY <2>1, <3>2 DEF CannotEqual
  <2>4. QED
    BY <1>1, <1>9, <2>1, <2>2, <2>3 DEF Account
<1>10. ~content.incomplete =>
          \/ Present # {}
          \/ check.equals # None /\ impossible
          \/ check.equals = None /\ check.notContains = {} /\ Missing = {}
          \/ SeenWhole /\ Len(sent) <= limit /\ bytes = sent
  BY <1>1, <1>6, <1>7, <1>8 DEF Judging, Decided
<1>11. HasBodyAssertions /\ (content.incomplete => Beyond)
  BY <1>1 DEF BodyInv, Judging
<1>12. QED
  BY <1>4, <1>5, <1>9, <1>10, <1>11

(* Every other way to a verdict, or none. *)
Elsewise ==
    \/ pc # "done" /\ verdict = "none"
    \/ /\ pc = "done"
       /\ \/ verdict \in {"invalid", "requestError"} /\ ended = "no"
          \/ verdict \in {"status", "headers"}
          \/ verdict = "healthy" /\ ~HasBodyAssertions
          \/ verdict = "readError" /\ ended = "broken"
          \/ verdict = "timeout" /\ (prompt => ended = "no")

LEMMA NewVerdict ==
    ASSUME TypeOK, EarlyInv, VerdictInv, [Next]_vars
    PROVE  Judge \/ UNCHANGED vars \/ Elsewise'
<1> USE DEF given, Return, Elsewise
<1>0. pc # "done" => verdict = "none"
  BY DEF VerdictInv
<1>1. CASE Prepare \/ RequestFails
  BY <1>0, <1>1 DEF Prepare, RequestFails, serverVars, EarlyInv
<1>2. CASE ReadBroken
  BY <1>2 DEF ReadBroken, serverVars
<1>3. CASE TimesOut
  <2>1. prompt => ended = "no"
    <3>1. CASE pc = "request"
      BY <3>1 DEF EarlyInv
    <3>2. CASE pc # "request"
      BY <1>3, <3>2 DEF TimesOut, Waiting, Ready
    <3>3. QED
      BY <3>1, <3>2
  <2>2. QED
    BY <1>3, <2>1 DEF TimesOut, serverVars
<1>4. CASE ReadFrame \/ SkipFrame \/ ReadEnd \/ GraceMore \/ GraceTimesOut
  BY <1>0, <1>4 DEF ReadFrame, SkipFrame, ReadEnd, GraceMore, GraceTimesOut
<1>5. ASSUME NEW length \in Lengths, NEW statusOk \in BOOLEAN,
             NEW headersOk \in BOOLEAN, Respond(length, statusOk, headersOk)
      PROVE  Elsewise'
  BY <1>0, <1>5 DEF Respond, HasBodyAssertions
<1>6. CASE \/ \E f \in Frames : SendFrame(f)
           \/ \E trailers \in BOOLEAN : EndBody(trailers)
           \/ BreakBody
  BY <1>0, <1>6 DEF SendFrame, EndBody, BreakBody, Serving
<1>7. CASE Tick
  BY <1>0, <1>7 DEF Tick, Waiting
<1>8. QED
  BY <1>1, <1>2, <1>3, <1>4, <1>5, <1>6, <1>7
     DEF Next, ProbeStep, ServerStep, Terminated

LEMMA JudgementIsTruthful ==
    ASSUME TypeOK, BodyInv, Judge
    PROVE  Truthful'
<1> DEFINE v == verdict'
<1>1. /\ pc = "judge" /\ pc' = "done"
      /\ UNCHANGED <<given, declared, readVars, now, serverVars, frames>>
      /\ v = IF ExactVerdict # "healthy" THEN ExactVerdict
             ELSE IF RequiredVerdict # "healthy" THEN RequiredVerdict
             ELSE ForbiddenVerdict
  BY DEF Judge, Return
<1>2. /\ ExactVerdict \in {"healthy", "differs", "cutExact"}
      /\ RequiredVerdict \in {"healthy", "lacks", "cutRequired"}
      /\ ForbiddenVerdict \in {"healthy", "forbidden", "cutNegative"}
  BY DEF ExactVerdict, RequiredVerdict, ForbiddenVerdict
<1>3. /\ v = "healthy" =>
            /\ ExactVerdict = "healthy" /\ RequiredVerdict = "healthy"
            /\ ForbiddenVerdict = "healthy"
      /\ v = "differs" => ExactVerdict = "differs"
      /\ v = "lacks" => ExactVerdict = "healthy" /\ RequiredVerdict = "lacks"
      /\ v = "forbidden" => ForbiddenVerdict = "forbidden"
      /\ v \in {"cutExact", "cutRequired", "cutNegative"} =>
            v \in {ExactVerdict, RequiredVerdict, ForbiddenVerdict}
      /\ v \notin {"none", "timeout", "readError", "invalid", "requestError"}
  BY <1>1, <1>2
<1>4. Present # {} => ForbiddenSeen
  BY <1>1, AtJudgement, CheckFacts DEF Present, ForbiddenSeen
<1>5. /\ ForbiddenVerdict = "forbidden" => Present # {}
      /\ ExactVerdict = "differs" => check.equals # None
  BY DEF ForbiddenVerdict, ExactVerdict
<1>6. VerdictInv'
  BY <1>1, <1>3, <1>4, <1>5 DEF VerdictInv, ForbiddenSeen, given, serverVars
<1>7. ASSUME v \in {"cutExact", "cutRequired", "cutNegative"}  PROVE Beyond
  <2>1. content.incomplete
    BY <1>3, <1>7 DEF ExactVerdict, RequiredVerdict, ForbiddenVerdict
  <2>2. QED
    BY <1>1, <2>1, AtJudgement
<1>8. CutIsReal'
  BY <1>1, <1>7 DEF CutIsReal, Beyond, given, readVars, serverVars
<1>9. ASSUME v = "differs"  PROVE CannotEqual \/ ForbiddenSeen
  <2>1. /\ check.equals # None
        /\ impossible \/ content.bytes # check.equals
        /\ ~(content.incomplete /\ IsPrefixOf(content.bytes, check.equals))
    BY <1>3, <1>9 DEF ExactVerdict
  <2>2. CASE impossible
    BY <1>1, <2>2, AtJudgement
  <2>3. CASE ~impossible /\ content.incomplete
    <3>1. IsPrefixOf(content.bytes, sent) /\ ~IsPrefixOf(content.bytes, check.equals)
      BY <1>1, <2>1, <2>3, AtJudgement
    <3>2. /\ content.bytes \in Seq(Bytes) /\ sent \in Seq(Bytes)
          /\ check.equals \in Seq(Bytes)
      BY <2>1, CheckFacts DEF TypeOK
    <3>3. ~IsPrefixOf(sent, check.equals)
      BY <3>1, <3>2, PrefixOfPrefix
    <3>4. QED
      BY <2>1, <3>3 DEF CannotEqual
  <2>4. CASE ~impossible /\ ~content.incomplete
    <3>1. \/ Present # {}
          \/ SeenWhole /\ content.bytes = sent
      BY <1>1, <2>1, <2>4, AtJudgement
    <3>2. QED
      BY <1>4, <2>1, <2>4, <3>1 DEF CannotEqual, SeenWhole
  <2>5. QED
    BY <2>2, <2>3, <2>4
<1>10. ASSUME v = "lacks"
       PROVE  \/ /\ SeenWhole /\ Len(sent) <= check.limit
                 /\ \E m \in check.contains : ~ContainsSlice(sent, m)
              \/ ForbiddenSeen
  <2>1. /\ Missing # {} /\ ~content.incomplete
        /\ check.equals # None => ~impossible
    BY <1>3, <1>10 DEF ExactVerdict, RequiredVerdict
  <2>2. \/ Present # {}
        \/ SeenWhole /\ Len(sent) <= check.limit /\ content.bytes = sent
    BY <1>1, <2>1, AtJudgement
  <2>3. QED
    BY <1>4, <2>1, <2>2 DEF Missing
<1>11. DenialIsProven'
  BY <1>1, <1>3, <1>9, <1>10 DEF DenialIsProven, CannotEqual, ForbiddenSeen,
     SeenWhole, IsPrefixOf, given, serverVars
<1>12. ASSUME v = "healthy"
       PROVE  /\ \A m \in check.contains :
                    ContainsSlice(Capture(sent, check.limit), m)
              /\ check.equals # None \/ check.notContains # {} =>
                    SeenWhole /\ Len(sent) <= check.limit /\ Meets(sent)
  <2>1. /\ Missing = {} /\ Present = {}
        /\ check.notContains # {} => ~content.incomplete
        /\ check.equals # None =>
              ~impossible /\ content.bytes = check.equals /\ ~content.incomplete
    BY <1>3, <1>12 DEF ExactVerdict, RequiredVerdict, ForbiddenVerdict
  <2>2. \A m \in check.contains : ContainsSlice(Capture(sent, check.limit), m)
    BY <1>1, <2>1, AtJudgement, CheckFacts DEF Missing
  <2>3. ASSUME check.equals # None \/ check.notContains # {}
        PROVE  SeenWhole /\ Len(sent) <= check.limit /\ Meets(sent)
    <3>1. SeenWhole /\ Len(sent) <= check.limit /\ content.bytes = sent
      BY <1>1, <2>1, <2>3, AtJudgement
    <3>2. Meets(sent)
      BY <2>1, <3>1 DEF Meets, Missing, Present
    <3>3. QED
      BY <3>1, <3>2
  <2>4. QED
    BY <2>2, <2>3
<1>13. HealthyIsEarned'
  BY <1>1, <1>12 DEF HealthyIsEarned, SeenWhole, Meets, given, serverVars
<1>14. QED
  BY <1>6, <1>8, <1>11, <1>13 DEF Truthful

LEMMA TruthStays ==
    ASSUME Truthful, UNCHANGED vars
    PROVE  Truthful'
BY DEF Truthful, VerdictInv, HealthyIsEarned, DenialIsProven, CutIsReal,
   CannotEqual, ForbiddenSeen, SeenWhole, Meets, IsPrefixOf, HasBodyAssertions, vars,
   given, readVars, serverVars

LEMMA TruthStep ==
    ASSUME TypeOK, EarlyInv, BodyInv, Truthful, [Next]_vars
    PROVE  Truthful'
<1>1. Elsewise' => Truthful'
  BY DEF Elsewise, Truthful, VerdictInv, HealthyIsEarned, DenialIsProven, CutIsReal
<1>2. Judge \/ UNCHANGED vars \/ Elsewise'
  BY NewVerdict DEF Truthful
<1>3. QED
  BY <1>1, <1>2, JudgementIsTruthful, TruthStays

-----------------------------------------------------------------------------
LEMMA HttpInvInit == Init => HttpInv
<1> SUFFICES ASSUME Init PROVE HttpInv
  OBVIOUS
<1>1. TypeOK
  BY TypeInit
<1>2. Truthful
  BY DEF Init, Truthful, VerdictInv, HealthyIsEarned, DenialIsProven, CutIsReal
<1>3. QED
  BY <1>1, <1>2, BoundsAssumption DEF Init, HttpInv, EarlyInv, ClockInv,
     DeclaredInv, BodyInv

LEMMA HttpInvStep == HttpInv /\ [Next]_vars => HttpInv'
BY TypeStep, EarlyStep, ClockStep, DeclaredStep, BodyStep, TruthStep DEF HttpInv

(* Whatever the server does, the probe has an exact account of what it read *)
(* and every verdict is true.                                               *)
THEOREM HttpInvHolds == Spec => []HttpInv
BY HttpInvInit, HttpInvStep, PTL DEF Spec

(* A healthy verdict is earned. *)
THEOREM HealthyHolds == Spec => []HealthyIsEarned
<1>1. HttpInv => HealthyIsEarned
  BY DEF HttpInv, Truthful
<1>2. QED
  BY <1>1, HttpInvHolds, PTL

(* "does not equal" and "does not contain" are proofs, but for a body with  *)
(* forbidden text.                                                          *)
THEOREM DenialHolds == Spec => []DenialIsProven
<1>1. HttpInv => DenialIsProven
  BY DEF HttpInv, Truthful
<1>2. QED
  BY <1>1, HttpInvHolds, PTL

(* A body is called truncated only if it went beyond the limit, was         *)
(* declared to, or was left open there for the whole grace.                 *)
THEOREM CutHolds == Spec => []CutIsReal
<1>1. HttpInv => CutIsReal
  BY DEF HttpInv, Truthful
<1>2. QED
  BY <1>1, HttpInvHolds, PTL

(* The probe does not read on after the byte that decides. *)
THEOREM StopHolds == Spec => []StopsWhenDecided
<1>1. HttpInv => StopsWhenDecided
  <2> SUFFICES ASSUME HttpInv, pc \in {"read", "grace"} PROVE StopsWhenDecided
    BY DEF StopsWhenDecided
  <2>1. PICK n \in Nat : Account(n) /\ Reading(n)
    BY DEF HttpInv, BodyInv
  <2>2. /\ required = Occurring(check.contains, content.bytes)
        /\ forbidden = Occurring(check.notContains, content.bytes)
        /\ ~Decided(required, forbidden, impossible)
        /\ check.equals # None => IsPrefixOf(content.bytes, check.equals)
    BY <2>1 DEF Account, Reading
  <2>3. \A m \in check.notContains : ~ContainsSlice(content.bytes, m)
    BY <2>2 DEF Decided, AnyMatched, Occurring
  <2>4. ASSUME check.equals = None, check.notContains = {}
        PROVE  \E m \in check.contains : ~ContainsSlice(content.bytes, m)
    <3>1. check.contains # {}
      BY <2>4 DEF HttpInv, BodyInv, HasBodyAssertions
    <3>2. required # check.contains
      BY <2>2, <2>4, <3>1 DEF Decided, AllMatched
    <3>3. QED
      BY <2>2, <3>2 DEF Occurring
  <2>5. QED
    BY <2>2, <2>3, <2>4 DEF StopsWhenDecided
<1>2. QED
  BY <1>1, HttpInvHolds, PTL

(* A good body that ends in time is never missed on a host without delays. *)
THEOREM MissedHolds == Spec => []NothingMissed
<1>1. HttpInv => NothingMissed
  <2> SUFFICES ASSUME HttpInv, prompt, pc = "done",
                      verdict \notin {"status", "headers"}, ended = "complete",
                      endedAt < Timeout, Meets(sent),
                      \/ Len(sent) < check.limit
                      \/ /\ Len(sent) = check.limit
                         /\ endedAt < lastAt + BodyGrace
               PROVE  verdict = "healthy"
    BY DEF NothingMissed
  <2> USE DEF HttpInv, Truthful
  <2>1. /\ verdict \notin {"none", "timeout", "readError", "invalid",
                           "requestError"}
        /\ verdict \in Verdicts
    BY DEF VerdictInv, TypeOK
  <2>2. ~ForbiddenSeen
    BY DEF Meets, ForbiddenSeen
  <2>3. verdict # "forbidden"
    BY <2>2 DEF VerdictInv
  <2>4. /\ sent \in Seq(Bytes) /\ Len(sent) \in Nat /\ check.limit \in Nat
        /\ declared \in Nat \cup {None} /\ BodyGrace \in Nat
        /\ endedAt \in Nat /\ lastAt \in Nat
    BY CheckFacts, LenProperties DEF TypeOK
  <2>5. verdict # "lacks"
    BY <2>2 DEF DenialIsProven, Meets
  <2>6. verdict # "differs"
    <3> SUFFICES ASSUME verdict = "differs" PROVE FALSE
      OBVIOUS
    <3>1. CannotEqual
      BY <2>2 DEF DenialIsProven
    <3>2. CASE check.equals = None
      BY <2>1, <3>2 DEF HttpInv, VerdictInv
    <3>3. CASE check.equals # None
      <4>1. sent = check.equals
        BY <3>3 DEF Meets
      <4>2. IsPrefixOf(sent, check.equals)
        BY <2>4, <4>1 DEF IsPrefixOf
      <4>3. declared # None => declared = Len(check.equals)
        BY <4>1 DEF DeclaredInv
      <4>4. QED
        BY <3>1, <4>1, <4>2, <4>3 DEF CannotEqual
    <3>4. QED
      BY <3>2, <3>3
  <2>7. verdict \notin {"cutExact", "cutRequired", "cutNegative"}
    <3> SUFFICES ASSUME verdict \in {"cutExact", "cutRequired", "cutNegative"}
                 PROVE  FALSE
      OBVIOUS
    <3>1. /\ Len(sent) = check.limit /\ endedAt < lastAt + BodyGrace
          /\ ~(Len(sent) > check.limit)
      BY <2>4 DEF CutIsReal
    <3>2. declared # None => ~(declared > check.limit)
      BY <2>4, <3>1 DEF DeclaredInv
    <3>3. endedAt >= lastAt + BodyGrace
      BY <3>1, <3>2 DEF CutIsReal
    <3>4. QED
      BY <2>4, <3>1, <3>3
  <2>8. QED
    BY <2>1, <2>3, <2>5, <2>6, <2>7 DEF Verdicts
<1>2. QED
  BY <1>1, HttpInvHolds, PTL

-----------------------------------------------------------------------------
(* The refinement *)

LEMMA ContractInit == Init => Contract!Init
BY BoundsAssumption DEF Init, Contract!Init, Phase, Outcome

LEMMA ContractStep ==
    HttpInv /\ [Next]_vars => [Contract!Next]_(Contract!vars)
<1> SUFFICES ASSUME TypeOK, ClockInv, VerdictInv, [Next]_vars
             PROVE  [Contract!Next]_(Contract!vars)
  BY DEF HttpInv, Truthful
<1> USE DEF Phase, Outcome
<1>0. /\ Timeout \in Nat /\ now \in Nat
      /\ pc # "done" => verdict = "none"
      /\ pc = "start" => now = 0
  BY BoundsAssumption DEF TypeOK, VerdictInv, ClockInv
<1>1. CASE Prepare
  <2>1. CASE ValidCheck
    <3>1. Contract!Begin
      BY <1>0, <1>1, <2>1 DEF Prepare, given, Contract!Begin
    <3>2. QED
      BY <3>1 DEF Contract!Next
  <2>2. CASE ~ValidCheck
    <3>1. Contract!Refuse
      BY <1>0, <1>1, <2>2 DEF Prepare, Return, given, Contract!Refuse
    <3>2. QED
      BY <3>1 DEF Contract!Next, Contract!Outcomes
  <2>3. QED
    BY <2>1, <2>2
<1>2. ASSUME pc \notin {"start", "done"}, pc' = "done",
             verdict' \in Verdicts \ {"none"},
             verdict' = "timeout" => now >= Timeout,
             UNCHANGED <<prompt, now>>
      PROVE  Contract!Next
  <2>1. Outcome' \in Contract!Outcomes /\ Outcome = "none"
    BY <1>0, <1>2 DEF Contract!Outcomes, Verdicts
  <2>2. Contract!End(Outcome')
    BY <1>2, <2>1 DEF Contract!End
  <2>3. QED
    BY <2>1, <2>2 DEF Contract!Next
<1>3. ASSUME pc \notin {"start", "done"}, pc' \notin {"start", "done"},
             UNCHANGED <<prompt, now, verdict>>
      PROVE  UNCHANGED Contract!vars
  BY <1>3 DEF Contract!vars
<1>4. CASE Tick
  <2>1. Contract!Wait
    BY <1>0, <1>4 DEF Tick, Waiting, given, TypeOK, Contract!Wait
  <2>2. QED
    BY <2>1 DEF Contract!Next
<1>5. CASE UNCHANGED vars
  BY <1>5 DEF vars, given, Contract!vars
<1>6. ASSUME NEW length \in Lengths, NEW statusOk \in BOOLEAN,
             NEW headersOk \in BOOLEAN, Respond(length, statusOk, headersOk)
      PROVE  [Contract!Next]_(Contract!vars)
  <2>1. CASE pc' = "done"
    <3>1. verdict' \in {"status", "headers", "healthy"}
      BY <1>6, <2>1 DEF Respond, Return
    <3>2. QED
      BY <1>2, <1>6, <2>1, <3>1 DEF Respond, given, Verdicts
  <2>2. CASE pc' # "done"
    <3>1. verdict' = verdict /\ pc' \in {"judge", "read"}
      BY <1>6, <2>2 DEF Respond, Return
    <3>2. QED
      BY <1>3, <1>6, <3>1 DEF Respond, given
  <2>3. QED
    BY <2>1, <2>2
<1>7. CASE ReadFrame
  <2>1. pc' \in {"read", "judge", "grace"}
    BY <1>7 DEF ReadFrame
  <2>2. QED
    BY <1>3, <1>7, <2>1 DEF ReadFrame, given
<1>8. CASE SkipFrame \/ ReadEnd \/ GraceMore \/ GraceTimesOut
  BY <1>3, <1>8 DEF SkipFrame, ReadEnd, GraceMore, GraceTimesOut, given
<1>9. CASE RequestFails \/ ReadBroken \/ TimesOut
  BY <1>2, <1>9
     DEF RequestFails, ReadBroken, TimesOut, Waiting, Return, given, Verdicts
<1>10. CASE Judge
  <2>1. verdict' \in {"healthy", "differs", "cutExact", "cutRequired", "lacks",
                      "forbidden", "cutNegative"}
    BY <1>10 DEF Judge, Return, ExactVerdict, RequiredVerdict, ForbiddenVerdict
  <2>2. QED
    BY <1>2, <1>10, <2>1 DEF Judge, Return, given, Verdicts
<1>11. ASSUME NEW f \in Frames, SendFrame(f)
       PROVE  [Contract!Next]_(Contract!vars)
  BY <1>3, <1>11 DEF SendFrame, Serving, given
<1>12. CASE BreakBody \/ \E trailers \in BOOLEAN : EndBody(trailers)
  BY <1>3, <1>12 DEF BreakBody, EndBody, Serving, given
<1>13. CASE Terminated
  BY <1>5, <1>13 DEF Terminated
<1>14. QED
  BY <1>1, <1>4, <1>5, <1>6, <1>7, <1>8, <1>9, <1>10, <1>11, <1>12, <1>13
     DEF Next, ServerStep, ProbeStep

(* The HTTP probe implements the contract of a probe, whatever the server   *)
(* does.                                                                    *)
THEOREM ContractKept == Spec => KeepsContract
BY ContractInit, ContractStep, HttpInvHolds, PTL
   DEF Spec, KeepsContract, Contract!Spec
=============================================================================
