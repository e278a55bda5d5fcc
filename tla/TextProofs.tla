----------------------------- MODULE TextProofs -----------------------------
(***************************************************************************)
(* Proofs about the expansion of one argument, for every text, every set of *)
(* variables and all their values; and about what is accepted as a target,  *)
(* a --status and a header, for every text and every class of characters.   *)
(***************************************************************************)
EXTENDS TextProperties, SequenceTheorems, FiniteSetTheorems,
        WellFoundedInduction, TLAPS

Texts == Seq(Chars)

-----------------------------------------------------------------------------
(* Induction, in its set form. *)

LEMMA Smallest ==
    ASSUME NEW T \in SUBSET Nat, T # {}
    PROVE  \E m \in T : \A k \in T : m <= k
<1> DEFINE R == OpToRel(<, Nat)
<1>1. IsWellFoundedOn(R, Nat)
  BY NatLessThanWellFounded
<1>2. \A k, m \in Nat : k < m => <<k, m>> \in R
  BY DEF OpToRel
<1> HIDE DEF R
<1>3. PICK m \in T : \A k \in T : ~(<<k, m>> \in R)
  BY <1>1, WFMin
<1>4. \A k \in T : k \in Nat /\ m \in Nat /\ ~(k < m)
  BY <1>2, <1>3
<1>5. \A k \in T : m <= k
  BY <1>4
<1>6. QED
  BY <1>5

LEMMA Induction ==
    ASSUME NEW T, 0 \in T, \A n \in Nat : n \in T => n + 1 \in T
    PROVE  \A n \in Nat : n \in T
<1> SUFFICES ASSUME Nat \ T # {}  PROVE FALSE
  OBVIOUS
<1>1. PICK m \in Nat \ T : \A k \in Nat \ T : m <= k
  BY Smallest
<1>2. m # 0 /\ m - 1 \in Nat
  OBVIOUS
<1>3. m - 1 \in T
  BY <1>1, <1>2
<1>4. QED
  BY <1>2, <1>3

LEMMA InductionBetween ==
    ASSUME NEW T, NEW k \in Nat, NEW m \in Nat, k \in T,
           \A n \in k .. m - 1 : n \in T => n + 1 \in T
    PROVE  \A n \in k .. m : n \in T
<1> DEFINE U == {n \in Nat : k + n <= m => k + n \in T}
<1>1. 0 \in U
  OBVIOUS
<1>2. ASSUME NEW n \in Nat, n \in U  PROVE n + 1 \in U
  <2>1. SUFFICES ASSUME k + (n + 1) <= m  PROVE k + (n + 1) \in T
    OBVIOUS
  <2>2. k + n \in k .. m - 1 /\ k + n \in T
    BY <1>2, <2>1
  <2>3. (k + n) + 1 \in T
    BY <2>2
  <2>4. QED
    BY <2>3
<1>3. \A n \in Nat : n \in U
  <2> HIDE DEF U
  <2>1. QED
    BY <1>1, <1>2, Induction
<1>4. ASSUME NEW n \in k .. m  PROVE n \in T
  <2>1. n - k \in U /\ k + (n - k) = n /\ n <= m
    BY <1>3
  <2>2. QED
    BY <2>1
<1>5. QED
  BY <1>4

-----------------------------------------------------------------------------
(* Texts and their parts *)

LEMMA FirstOfIsFirst ==
    ASSUME NEW places \in SUBSET (Nat \ {0})
    PROVE  /\ FirstOf(places) = 0 <=> places = {}
           /\ places # {} => /\ FirstOf(places) \in places
                             /\ \A j \in places : FirstOf(places) <= j
<1>1. CASE places = {}
  BY <1>1 DEF FirstOf
<1>2. CASE places # {}
  <2>1. \E i \in places : \A j \in places : i <= j
    BY <1>2, Smallest
  <2> DEFINE i == CHOOSE i \in places : \A j \in places : i <= j
  <2>2. FirstOf(places) = i
    BY <1>2 DEF FirstOf
  <2>3. i \in places /\ \A j \in places : i <= j
    BY <2>1
  <2> HIDE DEF i
  <2>4. QED
    BY <1>2, <2>2, <2>3
<1>3. QED
  BY <1>1, <1>2

LEMMA TextIs ==
    ASSUME NEW t \in Texts
    PROVE  /\ Len(t) \in Nat /\ DOMAIN t = 1 .. Len(t)
           /\ \A i \in 1 .. Len(t) : t[i] \in Chars
           /\ Len(t) = 0 <=> t = <<>>
BY LenProperties, ElementOfSeq, EmptySeq DEF Texts

LEMMA Cut ==
    ASSUME NEW t \in Texts, NEW m \in Nat \ {0}, NEW n \in Nat, n <= Len(t)
    PROVE  /\ SubSeq(t, m, n) \in Texts
           /\ Len(SubSeq(t, m, n)) = IF m <= n THEN n - m + 1 ELSE 0
           /\ \A i \in 1 .. n - m + 1 : SubSeq(t, m, n)[i] = t[m + i - 1]
<1>1. m \in Int /\ n \in Int /\ \A i \in m .. n : t[i] \in Chars
  BY TextIs
<1>2. QED
  BY <1>1, SubSeqProperties DEF Texts

LEMMA AfterIs ==
    ASSUME NEW t \in Texts, NEW k \in 0 .. Len(t)
    PROVE  /\ After(t, k) \in Texts
           /\ Len(After(t, k)) = Len(t) - k
           /\ \A i \in 1 .. Len(t) - k : After(t, k)[i] = t[k + i]
<1>1. Len(t) \in Nat /\ k + 1 \in Nat \ {0}
  BY TextIs
<1>2. /\ SubSeq(t, k + 1, Len(t)) \in Texts
      /\ Len(SubSeq(t, k + 1, Len(t))) =
            IF k + 1 <= Len(t) THEN Len(t) - (k + 1) + 1 ELSE 0
      /\ \A i \in 1 .. Len(t) - (k + 1) + 1 :
            SubSeq(t, k + 1, Len(t))[i] = t[(k + 1) + i - 1]
  BY <1>1, Cut
<1>3. \A i \in 1 .. Len(t) - k : (k + 1) + i - 1 = k + i
                                 /\ i \in 1 .. Len(t) - (k + 1) + 1
  BY <1>1
<1>4. QED
  BY <1>1, <1>2, <1>3 DEF After

LEMMA Joined ==
    ASSUME NEW s \in Texts, NEW t \in Texts
    PROVE  /\ s \o t \in Texts
           /\ Len(s \o t) = Len(s) + Len(t)
           /\ \A i \in 1 .. Len(s) : (s \o t)[i] = s[i]
           /\ \A i \in 1 .. Len(t) : (s \o t)[Len(s) + i] = t[i]
<1>1. Len(s) \in Nat /\ Len(t) \in Nat
  BY TextIs
<1>2. /\ s \o t \in Texts
      /\ Len(s \o t) = Len(s) + Len(t)
      /\ \A i \in 1 .. Len(s) + Len(t) :
            (s \o t)[i] = IF i <= Len(s) THEN s[i] ELSE t[i - Len(s)]
  BY ConcatProperties DEF Texts
<1>3. \A i \in 1 .. Len(s) : i \in 1 .. Len(s) + Len(t) /\ i <= Len(s)
  BY <1>1
<1>4. \A i \in 1 .. Len(t) : /\ Len(s) + i \in 1 .. Len(s) + Len(t)
                             /\ ~(Len(s) + i <= Len(s))
                             /\ (Len(s) + i) - Len(s) = i
  BY <1>1
<1>5. QED
  BY <1>2, <1>3, <1>4

(* What is left of a text and another one, when less than the first is gone *)
LEMMA AfterJoined ==
    ASSUME NEW s \in Texts, NEW t \in Texts, NEW k \in 0 .. Len(s)
    PROVE  After(s \o t, k) = After(s, k) \o t
<1>1. Len(s) \in Nat /\ Len(t) \in Nat
  BY TextIs
<1> DEFINE a == After(s \o t, k)
           b == After(s, k) \o t
           n == Len(s) - k
<1>2. /\ a \in Texts /\ Len(a) = n + Len(t)
      /\ \A i \in 1 .. n + Len(t) : a[i] = (s \o t)[k + i]
  <2>1. s \o t \in Texts /\ Len(s \o t) = Len(s) + Len(t)
    BY Joined
  <2>2. k \in 0 .. Len(s \o t) /\ Len(s \o t) - k = n + Len(t)
    BY <1>1, <2>1
  <2>3. QED
    BY <2>1, <2>2, AfterIs
<1>3. /\ After(s, k) \in Texts /\ Len(After(s, k)) = n
      /\ \A i \in 1 .. n : After(s, k)[i] = s[k + i]
  BY AfterIs
<1>4. /\ b \in Texts /\ Len(b) = n + Len(t)
      /\ \A i \in 1 .. n : b[i] = s[k + i]
      /\ \A i \in 1 .. Len(t) : b[n + i] = t[i]
  <2> DEFINE c == After(s, k)
  <2>1. c \in Texts /\ Len(c) = n /\ \A i \in 1 .. n : c[i] = s[k + i]
    BY <1>3
  <2> HIDE DEF c
  <2>2. /\ c \o t \in Texts /\ Len(c \o t) = Len(c) + Len(t)
        /\ \A i \in 1 .. Len(c) : (c \o t)[i] = c[i]
        /\ \A i \in 1 .. Len(t) : (c \o t)[Len(c) + i] = t[i]
    BY <2>1, Joined
  <2>3. b = c \o t
    BY DEF c
  <2> HIDE DEF b
  <2>4. QED
    BY <2>1, <2>2, <2>3
<1> HIDE DEF a, b
<1>5. ASSUME NEW i \in 1 .. n + Len(t)  PROVE a[i] = b[i]
  <2>1. CASE i <= n
    <3>1. i \in 1 .. n /\ k + i \in 1 .. Len(s)
      BY <1>1, <2>1
    <3>2. a[i] = (s \o t)[k + i] /\ b[i] = s[k + i]
      BY <1>2, <1>4, <3>1
    <3>3. (s \o t)[k + i] = s[k + i]
      BY <3>1, Joined
    <3>4. QED
      BY <3>2, <3>3
  <2>2. CASE ~(i <= n)
    <3>1. PICK j \in 1 .. Len(t) : i = n + j /\ k + i = Len(s) + j
      <4>1. i - n \in 1 .. Len(t) /\ i = n + (i - n) /\ k + i = Len(s) + (i - n)
        BY <1>1, <2>2
      <4>2. QED
        BY <4>1
    <3>2. a[i] = (s \o t)[k + i] /\ b[i] = t[j]
      BY <1>2, <1>4, <3>1
    <3>3. (s \o t)[Len(s) + j] = t[j]
      BY Joined
    <3>4. QED
      BY <3>1, <3>2, <3>3
  <2>3. QED
    BY <2>1, <2>2
<1>6. a = b
  BY <1>2, <1>4, <1>5, SeqEqual DEF Texts
<1>7. QED
  BY <1>6 DEF a, b

LEMMA MarksAre ==
    /\ {Dollar, Open, Close, Colon, Dash} \subseteq Chars
    /\ Letters \cup Digits \subseteq Chars
    /\ Dollar # Open /\ Colon # Dash
    /\ Close \notin {Dollar, Open, Colon, Dash}
    /\ \A c \in Letters \cup Digits : c \notin {Dollar, Open, Close, Colon, Dash}
<1>1. /\ {Dollar, Open, Close, Colon, Dash} \subseteq Chars
      /\ Letters \cup Digits \subseteq Chars
  BY NamesAssumption DEF Marks
<1>2. Dollar # Open /\ Colon # Dash /\ Close # Dollar /\ Close # Open
      /\ Close # Colon /\ Close # Dash
  BY Zenon DEF Dollar, Open, Close, Colon, Dash
<1>3. \A c \in Letters \cup Digits : c \notin {Dollar, Open, Close, Colon, Dash}
  BY NamesAssumption DEF Marks
<1>4. QED
  BY <1>1, <1>2, <1>3

LEMMA OneIs ==
    ASSUME NEW c \in Chars
    PROVE  <<c>> \in Texts /\ Len(<<c>>) = 1 /\ <<c>>[1] = c
BY DEF Texts

LEMMA JoinsOnce ==
    ASSUME NEW s \in Texts, NEW t \in Texts, NEW u \in Texts
    PROVE  /\ (s \o t) \o u = s \o (t \o u)
           /\ s \o <<>> = s /\ <<>> \o s = s
           /\ <<>> \in Texts
BY ConcatAssociative, ConcatEmptySeq, EmptySeq DEF Texts

LEMMA AfterAll ==
    ASSUME NEW t \in Texts
    PROVE  After(t, 0) = t /\ After(t, Len(t)) = <<>>
<1>1. Len(t) \in Nat /\ 0 \in 0 .. Len(t) /\ Len(t) \in 0 .. Len(t)
  BY TextIs
<1>2. After(t, Len(t)) \in Texts /\ Len(After(t, Len(t))) = 0
  BY <1>1, AfterIs
<1>3. After(t, Len(t)) = <<>>
  BY <1>2, TextIs
<1>4. After(t, 0) = t
  BY SubSeqFull DEF After, Texts
<1>5. QED
  BY <1>3, <1>4

-----------------------------------------------------------------------------
(* Results *)

Results == {Done(t) : t \in Texts} \cup {Failed}

LEMMA ResultIs ==
    ASSUME NEW r \in Results
    PROVE  /\ r.ok \in BOOLEAN /\ r.text \in Texts
           /\ r.ok => r = Done(r.text)
           /\ ~r.ok => r = Failed
<1>1. CASE r = Failed
  BY <1>1, JoinsOnce, EmptySeq DEF Failed, Texts
<1>2. ASSUME NEW t \in Texts, r = Done(t)
      PROVE  r.ok = TRUE /\ r.text = t
  BY <1>2 DEF Done
<1>3. QED
  BY <1>1, <1>2 DEF Results

LEMMA DoneIs ==
    ASSUME NEW t
    PROVE  /\ Done(t).ok = TRUE /\ Done(t).text = t
           /\ Failed.ok = FALSE
           /\ t \in Texts => Done(t) \in Results
           /\ Failed \in Results
BY DEF Done, Failed, Results

LEMMA ThenIs ==
    ASSUME NEW t \in Texts, NEW r \in Results
    PROVE  /\ Then(t, r) \in Results
           /\ Then(t, r).ok <=> r.ok
           /\ r.ok => Then(t, r).text = t \o r.text
<1>1. CASE r.ok
  <2>1. Then(t, r) = Done(t \o r.text) /\ r.text \in Texts
    BY <1>1, ResultIs DEF Then
  <2>2. t \o r.text \in Texts
    BY <2>1, Joined
  <2>3. QED
    BY <1>1, <2>1, <2>2, DoneIs
<1>2. CASE ~r.ok
  BY <1>2, DoneIs DEF Then
<1>3. QED
  BY <1>1, <1>2

LEMMA ThenJoins ==
    ASSUME NEW s \in Texts, NEW t \in Texts, NEW r \in Results
    PROVE  Then(s \o t, r) = Then(s, Then(t, r))
<1>1. CASE r.ok
  <2> DEFINE u == r.text
  <2>1. (s \o t) \o u = s \o (t \o u)
    <3>1. u \in Texts
      BY ResultIs
    <3> HIDE DEF u
    <3>2. QED
      BY <3>1, JoinsOnce
  <2>2. Then(t, r) = Done(t \o r.text)
    BY <1>1, Zenon DEF Then
  <2>3. QED
    BY <1>1, <2>1, <2>2, DoneIs DEF Then
<1>2. CASE ~r.ok
  BY <1>2, DoneIs DEF Then
<1>3. QED
  BY <1>1, <1>2

LEMMA ThenNothing ==
    ASSUME NEW t \in Texts, NEW r \in Results
    PROVE  Then(t, Done(<<>>)) = Done(t) /\ Then(<<>>, r) = r
<1>1. Then(t, Done(<<>>)) = Done(t)
  BY JoinsOnce, DoneIs DEF Then
<1>2. Then(<<>>, r) = r
  <2>1. CASE r.ok
    <3>1. r.text \in Texts /\ r = Done(r.text)
      BY <2>1, ResultIs
    <3>2. <<>> \o r.text = r.text
      BY <3>1, JoinsOnce
    <3>3. QED
      BY <2>1, <3>1, <3>2 DEF Then
  <2>2. CASE ~r.ok
    BY <2>2, ResultIs DEF Then
  <2>3. QED
    BY <2>1, <2>2
<1>3. QED
  BY <1>1, <1>2

-----------------------------------------------------------------------------
(* The first part of a text *)

LEMMA EndIs ==
    ASSUME NEW t \in Texts
    PROVE  /\ End(t) \in 0 .. Len(t)
           /\ End(t) = 0 <=> \A i \in 1 .. Len(t) : t[i] # Close
           /\ End(t) # 0 => /\ t[End(t)] = Close
                            /\ \A i \in 1 .. Len(t) : t[i] = Close => End(t) <= i
<1> DEFINE ends == {i \in 1 .. Len(t) : t[i] = Close}
<1>1. Len(t) \in Nat /\ DOMAIN t = 1 .. Len(t)
  BY TextIs
<1>2. End(t) = FirstOf(ends)
  BY <1>1 DEF End
<1>3. ends \in SUBSET (Nat \ {0})
  BY <1>1
<1>4. \A i : i \in ends <=> i \in 1 .. Len(t) /\ t[i] = Close
  OBVIOUS
<1> HIDE DEF ends
<1>5. /\ FirstOf(ends) = 0 <=> ends = {}
      /\ ends # {} => /\ FirstOf(ends) \in ends
                      /\ \A j \in ends : FirstOf(ends) <= j
  BY <1>3, FirstOfIsFirst
<1>6. QED
  BY <1>1, <1>2, <1>4, <1>5

LEMMA SizeIs ==
    ASSUME NEW t \in Texts, t # <<>>
    PROVE  Size(t) \in 1 .. Len(t)
<1>1. Len(t) \in Nat \ {0}
  BY TextIs
<1>2. CASE Peeks(t, Dollar)
  BY <1>1, <1>2 DEF Size, Peeks
<1>3. CASE ~Peeks(t, Dollar) /\ Peeks(t, Open)
  BY <1>1, <1>3, EndIs DEF Size
<1>4. CASE ~Peeks(t, Dollar) /\ ~Peeks(t, Open)
  BY <1>1, <1>4 DEF Size
<1>5. QED
  BY <1>2, <1>3, <1>4

LEMMA DefaultAtIs ==
    ASSUME NEW t \in Texts
    PROVE  /\ DefaultAt(t) \in 0 .. Len(t)
           /\ DefaultAt(t) # 0 =>
                 /\ DefaultAt(t) \in 1 .. Len(t) - 1
                 /\ t[DefaultAt(t)] = Colon /\ t[DefaultAt(t) + 1] = Dash
           /\ \A i \in 1 .. Len(t) - 1 :
                 t[i] = Colon /\ t[i + 1] = Dash =>
                    DefaultAt(t) # 0 /\ DefaultAt(t) <= i
<1> DEFINE at == {i \in 1 .. Len(t) - 1 : t[i] = Colon /\ t[i + 1] = Dash}
<1>1. Len(t) \in Nat
  BY TextIs
<1>2. DefaultAt(t) = FirstOf(at)
  BY DEF DefaultAt
<1>3. at \in SUBSET (Nat \ {0})
  BY <1>1
<1>4. \A i : i \in at <=> i \in 1 .. Len(t) - 1 /\ t[i] = Colon /\ t[i + 1] = Dash
  OBVIOUS
<1> HIDE DEF at
<1>5. /\ FirstOf(at) = 0 <=> at = {}
      /\ at # {} => /\ FirstOf(at) \in at
                    /\ \A j \in at : FirstOf(at) <= j
  BY <1>3, FirstOfIsFirst
<1>6. CASE at = {}
  <2>1. DefaultAt(t) = 0
    BY <1>2, <1>5, <1>6
  <2>2. \A i \in 1 .. Len(t) - 1 : ~(t[i] = Colon /\ t[i + 1] = Dash)
    BY <1>4, <1>6
  <2>3. QED
    BY <1>1, <2>1, <2>2
<1>7. CASE at # {}
  <2>1. DefaultAt(t) \in at /\ \A j \in at : DefaultAt(t) <= j
    BY <1>2, <1>5, <1>7
  <2>2. /\ DefaultAt(t) \in 1 .. Len(t) - 1
        /\ t[DefaultAt(t)] = Colon /\ t[DefaultAt(t) + 1] = Dash
    BY <1>4, <2>1
  <2>3. DefaultAt(t) \in 0 .. Len(t) /\ DefaultAt(t) # 0
    BY <1>1, <2>2
  <2>4. \A i \in 1 .. Len(t) - 1 :
           t[i] = Colon /\ t[i + 1] = Dash => DefaultAt(t) <= i
    BY <1>4, <2>1
  <2>5. QED
    BY <2>2, <2>3, <2>4
<1>8. QED
  BY <1>6, <1>7

LEMMA ExpressionIs ==
    ASSUME NEW t \in Texts
    PROVE  ExpandExpression(t) \in Results
<1> DEFINE at   == DefaultAt(t)
           name == IF at = 0 THEN t ELSE Before(t, at)
<1>1. CASE ~ValidName(name)
  BY <1>1, DoneIs DEF ExpandExpression
<1>2. CASE ValidName(name) /\ name \in DOMAIN Values
           /\ (at = 0 \/ Values[name] # <<>>)
  <2>1. Values[name] \in Texts
    BY <1>2, ValuesAssumption DEF Texts
  <2>2. ExpandExpression(t) = Done(Values[name])
    BY <1>2 DEF ExpandExpression
  <2>3. QED
    BY <2>1, <2>2, DoneIs
<1>3. CASE /\ ValidName(name) /\ at # 0
           /\ ~(name \in DOMAIN Values /\ (at = 0 \/ Values[name] # <<>>))
  <2>1. at + 1 \in 0 .. Len(t)
    BY <1>3, DefaultAtIs, TextIs
  <2>2. After(t, at + 1) \in Texts
    BY <2>1, AfterIs
  <2>3. ExpandExpression(t) = Done(After(t, at + 1))
    BY <1>3 DEF ExpandExpression
  <2>4. QED
    BY <2>2, <2>3, DoneIs
<1>4. CASE /\ ValidName(name) /\ at = 0
           /\ ~(name \in DOMAIN Values /\ (at = 0 \/ Values[name] # <<>>))
  BY <1>4, DoneIs DEF ExpandExpression
<1>5. QED
  BY <1>1, <1>2, <1>3, <1>4

LEMMA MeaningIs ==
    ASSUME NEW t \in Texts, t # <<>>
    PROVE  Meaning(t) \in Results
<1>0. Len(t) \in Nat \ {0}
  BY TextIs
<1>1. Len(t) \in Nat \ {0} /\ t[1] \in Chars
  <2>1. 1 \in 1 .. Len(t)
    BY <1>0
  <2>2. QED
    BY <1>0, <2>1, TextIs
<1>2. <<Dollar>> \in Texts /\ <<t[1]>> \in Texts
  BY <1>1, MarksAre, OneIs
<1>3. CASE Peeks(t, Dollar)
  BY <1>2, <1>3, DoneIs DEF Meaning
<1>4. CASE ~Peeks(t, Dollar) /\ Peeks(t, Open) /\ End(t) = 0
  BY <1>4, DoneIs DEF Meaning
<1>5. CASE ~Peeks(t, Dollar) /\ Peeks(t, Open) /\ End(t) # 0
  <2>1. End(t) - 1 \in Nat /\ End(t) - 1 <= Len(t)
    BY <1>1, <1>5, EndIs
  <2>2. SubSeq(t, 3, End(t) - 1) \in Texts
    BY <2>1, Cut
  <2>3. Meaning(t) = ExpandExpression(SubSeq(t, 3, End(t) - 1))
    BY <1>5 DEF Meaning
  <2>4. QED
    BY <2>2, <2>3, ExpressionIs
<1>6. CASE ~Peeks(t, Dollar) /\ ~Peeks(t, Open)
  BY <1>2, <1>6, DoneIs DEF Meaning
<1>7. QED
  BY <1>3, <1>4, <1>5, <1>6

-----------------------------------------------------------------------------
(* The turns of the loop *)

States == [rest : Texts, result : Results]

Start(raw) == [rest |-> raw, result |-> Done(<<>>)]

LEMMA TurnsExist ==
    ASSUME NEW raw \in Texts
    PROVE  Turns(raw) = [n \in 0 .. Len(raw) |->
                            IF n = 0 THEN Start(raw) ELSE Turn(Turns(raw)[n - 1])]
<1> DEFINE Upto(m, f) == f = [n \in 0 .. m |-> IF n = 0 THEN Start(raw)
                                               ELSE Turn(f[n - 1])]
           T == {m \in Nat : \E f : Upto(m, f)}
<1>1. 0 \in T
  <2>1. Upto(0, [n \in 0 .. 0 |-> Start(raw)])
    OBVIOUS
  <2> HIDE DEF Upto
  <2>2. QED
    BY <2>1
<1>2. ASSUME NEW m \in Nat, m \in T  PROVE m + 1 \in T
  <2>1. PICK f : Upto(m, f)
    BY <1>2
  <2> DEFINE g == [n \in 0 .. m + 1 |-> IF n <= m THEN f[n] ELSE Turn(f[m])]
  <2>2. ASSUME NEW n \in 0 .. m + 1
        PROVE  g[n] = IF n = 0 THEN Start(raw) ELSE Turn(g[n - 1])
    <3>1. CASE n <= m
      <4>1. g[n] = f[n] /\ n \in 0 .. m
        BY <3>1
      <4>2. n # 0 => n - 1 \in 0 .. m + 1 /\ n - 1 <= m /\ g[n - 1] = f[n - 1]
        BY <3>1
      <4>3. f[n] = IF n = 0 THEN Start(raw) ELSE Turn(f[n - 1])
        BY <2>1, <4>1
      <4> HIDE DEF g
      <4>4. QED
        BY <4>1, <4>2, <4>3
    <3>2. CASE n = m + 1
      <4>1. g[n] = Turn(f[m]) /\ g[m] = f[m] /\ n - 1 = m /\ n # 0
        BY <3>2
      <4> HIDE DEF g
      <4>2. QED
        BY <3>2, <4>1
    <3>3. QED
      BY <3>1, <3>2
  <2>3. g = [n \in 0 .. m + 1 |-> g[n]]
    OBVIOUS
  <2> HIDE DEF g
  <2>4. Upto(m + 1, g)
    BY <2>2, <2>3
  <2> HIDE DEF Upto
  <2>5. QED
    BY <2>4
<1>3. \A m \in Nat : m \in T
  <2> HIDE DEF T
  <2>1. QED
    BY <1>1, <1>2, Induction
<1>4. \E f : Upto(Len(raw), f)
  BY <1>3, TextIs
<1>5. Turns(raw) = CHOOSE f : Upto(Len(raw), f)
  BY DEF Turns, Start
<1>6. Upto(Len(raw), Turns(raw))
  <2> HIDE DEF Upto
  <2>1. QED
    BY <1>4, <1>5
<1>7. QED
  BY <1>6

LEMMA TurnsStep ==
    ASSUME NEW raw \in Texts
    PROVE  /\ Turns(raw)[0] = Start(raw)
           /\ \A n \in 0 .. Len(raw) - 1 : Turns(raw)[n + 1] = Turn(Turns(raw)[n])
<1>1. Len(raw) \in Nat
  BY TextIs
<1> DEFINE f == Turns(raw)
<1>2. f = [n \in 0 .. Len(raw) |-> IF n = 0 THEN Start(raw) ELSE Turn(f[n - 1])]
  BY TurnsExist
<1> HIDE DEF f
<1>3. f[0] = Start(raw)
  BY <1>1, <1>2
<1>4. ASSUME NEW n \in 0 .. Len(raw) - 1
      PROVE  f[n + 1] = Turn(f[n])
  <2>1. n + 1 \in 0 .. Len(raw) /\ n + 1 # 0 /\ (n + 1) - 1 = n
    BY <1>1
  <2>2. f[n + 1] = Turn(f[(n + 1) - 1])
    BY <1>2, <2>1
  <2>3. QED
    BY <2>1, <2>2
<1>5. QED
  BY <1>3, <1>4 DEF f

LEMMA StateIs ==
    ASSUME NEW s \in States
    PROVE  s.rest \in Texts /\ s.result \in Results
BY DEF States

(* A state is over when there is nothing left or the expansion failed *)
Over(s) == s.rest = <<>> \/ ~s.result.ok

LEMMA TurnIs ==
    ASSUME NEW s \in States
    PROVE  /\ Turn(s) \in States
           /\ Over(s) => Turn(s) = s
           /\ ~Over(s) =>
                 /\ Turn(s).rest = After(s.rest, Size(s.rest))
                 /\ Turn(s).result = Then(s.result.text, Meaning(s.rest))
                 /\ Len(Turn(s).rest) < Len(s.rest)
<1>1. CASE Over(s)
  BY <1>1 DEF Turn, Over
<1>2. CASE ~Over(s)
  <2>1. s.rest \in Texts /\ s.rest # <<>> /\ s.result.text \in Texts
    BY <1>2, StateIs, ResultIs DEF Over
  <2>2. Size(s.rest) \in 1 .. Len(s.rest) /\ Len(s.rest) \in Nat
    BY <2>1, SizeIs, TextIs
  <2> DEFINE n == Size(s.rest)
             r == After(s.rest, n)
             x == Then(s.result.text, Meaning(s.rest))
  <2>3. n \in 0 .. Len(s.rest)
    BY <2>2
  <2>4. r \in Texts /\ Len(r) = Len(s.rest) - n
    BY <2>1, <2>3, AfterIs
  <2>5. x \in Results
    BY <2>1, MeaningIs, ThenIs
  <2>6. Turn(s) = [rest |-> r, result |-> x]
    BY <1>2 DEF Turn, Over
  <2> HIDE DEF r, x
  <2>7. Turn(s) \in States /\ Turn(s).rest = r /\ Turn(s).result = x
    BY <2>4, <2>5, <2>6 DEF States
  <2>8. Len(Turn(s).rest) < Len(s.rest)
    BY <2>2, <2>4, <2>7
  <2>9. QED
    BY <1>2, <2>7, <2>8 DEF r, x
<1>3. QED
  BY <1>1, <1>2

(* After as many turns as there are characters, the loop is over *)
LEMMA TurnsTyped ==
    ASSUME NEW raw \in Texts, NEW n \in 0 .. Len(raw)
    PROVE  /\ Turns(raw)[n] \in States
           /\ Over(Turns(raw)[n]) \/ Len(Turns(raw)[n].rest) <= Len(raw) - n
<1> DEFINE f == Turns(raw)
           T == {k \in 0 .. Len(raw) :
                   /\ f[k] \in States
                   /\ Over(f[k]) \/ Len(f[k].rest) <= Len(raw) - k}
<1>0. Len(raw) \in Nat
  BY TextIs
<1>1. 0 \in T
  <2>1. f[0] = Start(raw) /\ Start(raw).rest = raw
    BY TurnsStep DEF Start
  <2>2. Start(raw) \in States
    BY JoinsOnce, DoneIs DEF Start, States
  <2>3. QED
    BY <1>0, <2>1, <2>2
<1>2. ASSUME NEW k \in 0 .. Len(raw) - 1, k \in T  PROVE k + 1 \in T
  <2>1. f[k + 1] = Turn(f[k]) /\ f[k] \in States
    BY <1>2, TurnsStep
  <2> HIDE DEF f
  <2>2. f[k + 1] \in States /\ f[k].rest \in Texts /\ f[k + 1].rest \in Texts
    BY <2>1, TurnIs, StateIs
  <2>3. Len(f[k].rest) \in Nat /\ Len(f[k + 1].rest) \in Nat
    BY <2>2, TextIs
  <2>4. CASE Over(f[k])
    <3>1. f[k + 1] = f[k]
      BY <2>1, <2>4, TurnIs
    <3>2. QED
      BY <1>0, <2>2, <2>4, <3>1
  <2>5. CASE ~Over(f[k])
    <3>1. Len(f[k + 1].rest) < Len(f[k].rest)
      <4>1. Len(Turn(f[k]).rest) < Len(f[k].rest)
        BY <2>1, <2>5, TurnIs
      <4>2. QED
        BY <2>1, <4>1
    <3>2. Len(f[k].rest) <= Len(raw) - k
      BY <1>2, <2>5
    <3>3. Len(f[k + 1].rest) <= Len(raw) - (k + 1)
      <4> DEFINE p == Len(f[k + 1].rest)
                 q == Len(f[k].rest)
                 l == Len(raw)
      <4>1. p \in Nat /\ q \in Nat /\ l \in Nat /\ k \in Nat
        BY <1>0, <2>3
      <4>2. p < q /\ q <= l - k
        BY <3>1, <3>2
      <4> HIDE DEF p, q, l
      <4>3. p <= l - (k + 1)
        BY <4>1, <4>2
      <4>4. QED
        BY <4>3 DEF p, l
    <3>4. QED
      BY <1>0, <2>2, <3>3
  <2>6. QED
    BY <2>4, <2>5
<1>3. \A k \in 0 .. Len(raw) : k \in T
  <2> HIDE DEF T
  <2>1. \A k \in 0 .. Len(raw) - 1 : k \in T => k + 1 \in T
    BY <1>2
  <2>2. QED
    BY <1>0, <1>1, <2>1, InductionBetween
<1>4. QED
  BY <1>3

LEMMA ExpandTyped ==
    ASSUME NEW raw \in Texts
    PROVE  /\ ExpandText(raw) \in Results
           /\ Over(Turns(raw)[Len(raw)])
<1> DEFINE s == Turns(raw)[Len(raw)]
<1>1. Len(raw) \in Nat
  BY TextIs
<1>2. s \in States /\ (Over(s) \/ Len(s.rest) <= Len(raw) - Len(raw))
  BY <1>1, TurnsTyped
<1>3. ExpandText(raw) = s.result
  BY DEF ExpandText
<1> HIDE DEF s
<1>4. s.rest \in Texts /\ s.result \in Results
  BY <1>2, StateIs
<1>5. Over(s)
  <2>1. CASE Len(s.rest) <= Len(raw) - Len(raw)
    <3>1. Len(s.rest) = 0
      BY <1>1, <1>4, <2>1, TextIs
    <3>2. s.rest = <<>>
      BY <1>4, <3>1, TextIs
    <3>3. QED
      BY <3>2 DEF Over
  <2>2. QED
    BY <1>2, <2>1
<1>6. QED
  BY <1>3, <1>4, <1>5 DEF s

(* What is over stays as it is *)
LEMMA OverStays ==
    ASSUME NEW raw \in Texts, NEW n \in 0 .. Len(raw), Over(Turns(raw)[n])
    PROVE  Turns(raw)[Len(raw)] = Turns(raw)[n]
<1> DEFINE f == Turns(raw)
           T == {k \in 0 .. Len(raw) : f[k] = f[n]}
<1>0. Len(raw) \in Nat
  BY TextIs
<1>1. n \in T
  OBVIOUS
<1>2. ASSUME NEW k \in n .. Len(raw) - 1, k \in T  PROVE k + 1 \in T
  <2>1. k \in 0 .. Len(raw) - 1 /\ k \in 0 .. Len(raw) /\ k + 1 \in 0 .. Len(raw)
    BY <1>0
  <2>2. f[k + 1] = Turn(f[k]) /\ f[k] \in States
    BY <2>1, TurnsStep, TurnsTyped
  <2>3. f[k] = f[n]
    BY <1>2
  <2> HIDE DEF f
  <2>4. Over(f[k])
    BY <2>3 DEF f
  <2>5. f[k + 1] = f[k]
    BY <2>2, <2>4, TurnIs
  <2>6. QED
    BY <2>1, <2>3, <2>5
<1>3. \A k \in n .. Len(raw) : k \in T
  <2> HIDE DEF T
  <2>1. \A k \in n .. Len(raw) - 1 : k \in T => k + 1 \in T
    BY <1>2
  <2>2. n \in Nat
    BY <1>0
  <2>3. QED
    BY <1>0, <1>1, <2>1, <2>2, InductionBetween
<1>4. Len(raw) \in T
  BY <1>0, <1>3
<1>5. QED
  BY <1>4

-----------------------------------------------------------------------------
(* ExpandText, part by part *)

LEMMA ExpandEmpty == ExpandText(<<>>) = Done(<<>>)
<1>1. <<>> \in Texts /\ Len(<<>>) = 0
  BY EmptySeq DEF Texts
<1>2. Turns(<<>>)[0] = Start(<<>>)
  BY <1>1, TurnsStep
<1>3. ExpandText(<<>>) = Start(<<>>).result
  BY <1>1, <1>2 DEF ExpandText
<1>4. QED
  BY <1>3 DEF Start

LEMMA FirstTurn ==
    ASSUME NEW raw \in Texts, raw # <<>>
    PROVE  /\ Len(raw) \in Nat \ {0}
           /\ Turns(raw)[1].rest = After(raw, Size(raw))
           /\ Turns(raw)[1].result = Meaning(raw)
<1>1. Len(raw) \in Nat \ {0} /\ 0 \in 0 .. Len(raw) - 1
  BY TextIs
<1>2. Turns(raw)[0] = Start(raw) /\ Turns(raw)[0 + 1] = Turn(Turns(raw)[0])
  BY <1>1, TurnsStep
<1>3. /\ Start(raw).rest = raw /\ Start(raw).result = Done(<<>>)
      /\ Start(raw) \in States
  BY JoinsOnce, DoneIs DEF Start, States
<1>4. ~Over(Start(raw)) /\ Done(<<>>).text = <<>>
  BY <1>3, DoneIs DEF Over
<1>5. /\ Turn(Start(raw)).rest = After(raw, Size(raw))
      /\ Turn(Start(raw)).result = Then(<<>>, Meaning(raw))
  BY <1>3, <1>4, TurnIs
<1>6. Then(<<>>, Meaning(raw)) = Meaning(raw)
  BY JoinsOnce, MeaningIs, ThenNothing
<1>7. QED
  BY <1>1, <1>2, <1>5, <1>6

(* After its first part a text is expanded as what is left of it is *)
LEMMA TurnsShift ==
    ASSUME NEW raw \in Texts, raw # <<>>, Meaning(raw).ok,
           NEW n \in 0 .. Len(After(raw, Size(raw)))
    PROVE  /\ n + 1 \in 0 .. Len(raw)
           /\ Turns(raw)[n + 1].rest = Turns(After(raw, Size(raw)))[n].rest
           /\ Turns(raw)[n + 1].result =
                 Then(Meaning(raw).text, Turns(After(raw, Size(raw)))[n].result)
<1> DEFINE tail == After(raw, Size(raw))
           x    == Meaning(raw).text
           f    == Turns(raw)
           g    == Turns(tail)
           T    == {k \in 0 .. Len(tail) :
                       /\ f[k + 1].rest = g[k].rest
                       /\ f[k + 1].result = Then(x, g[k].result)}
<1>1. Len(raw) \in Nat /\ Size(raw) \in 1 .. Len(raw)
  BY SizeIs, TextIs
<1>2. tail \in Texts /\ Len(tail) \in Nat /\ Len(tail) < Len(raw)
  <2>1. Size(raw) \in 0 .. Len(raw)
    BY <1>1
  <2>2. tail \in Texts /\ Len(tail) = Len(raw) - Size(raw)
    BY <2>1, AfterIs
  <2>3. QED
    BY <1>1, <2>2
<1>3. x \in Texts /\ Meaning(raw) \in Results /\ Meaning(raw) = Done(x)
  BY MeaningIs, ResultIs
<1>4. 0 \in T
  <2>1. g[0] = Start(tail)
    BY <1>2, TurnsStep
  <2>2. f[0 + 1].rest = tail /\ f[0 + 1].result = Done(x)
    BY <1>3, FirstTurn
  <2>3. Start(tail).rest = tail /\ Start(tail).result = Done(<<>>)
    BY DEF Start
  <2>4. Then(x, Done(<<>>)) = Done(x)
    BY <1>3, ThenNothing, DoneIs, JoinsOnce
  <2> HIDE DEF f, g, tail, x
  <2>5. QED
    BY <1>2, <2>1, <2>2, <2>3, <2>4
<1>5. ASSUME NEW k \in 0 .. Len(tail) - 1, k \in T  PROVE k + 1 \in T
  <2>1. /\ k \in 0 .. Len(tail) /\ k + 1 \in 0 .. Len(tail)
        /\ k + 1 \in 0 .. Len(raw) - 1 /\ k + 1 \in 0 .. Len(raw)
    BY <1>1, <1>2
  <2>2. /\ f[(k + 1) + 1] = Turn(f[k + 1]) /\ f[k + 1] \in States
        /\ g[k + 1] = Turn(g[k]) /\ g[k] \in States
    BY <1>2, <2>1, TurnsStep, TurnsTyped
  <2>3. f[k + 1].rest = g[k].rest /\ f[k + 1].result = Then(x, g[k].result)
    BY <1>5
  <2> DEFINE s == f[k + 1]
             u == g[k]
  <2> HIDE DEF f, g, tail
  <2>4. /\ s \in States /\ u \in States /\ s.rest = u.rest
        /\ s.result = Then(x, u.result) /\ u.result \in Results
    BY <2>2, <2>3, StateIs
  <2>5. f[(k + 1) + 1] = Turn(s) /\ g[k + 1] = Turn(u)
    BY <2>2
  <2> HIDE DEF s, u, x
  <2>6. s.result.ok <=> u.result.ok
    BY <1>3, <2>4, ThenIs
  <2>7. CASE Over(u)
    <3>1. Over(s)
      BY <2>4, <2>6, <2>7 DEF Over
    <3>2. Turn(s) = s /\ Turn(u) = u
      BY <2>4, <2>7, <3>1, TurnIs
    <3>3. QED
      BY <2>1, <2>4, <2>5, <3>2
  <2>8. CASE ~Over(u)
    <3>1. ~Over(s) /\ u.result.ok /\ u.rest # <<>>
      BY <2>4, <2>6, <2>8 DEF Over
    <3>2. s.result.text = x \o u.result.text /\ u.result.text \in Texts
      <4>1. u.result \in Results /\ x \in Texts
        BY <1>3, <2>4
      <4>2. Then(x, u.result).text = x \o u.result.text
        BY <3>1, <4>1, ThenIs
      <4>3. u.result.text \in Texts
        BY <4>1, ResultIs
      <4>4. QED
        BY <2>4, <4>2, <4>3
    <3>3. u.rest \in Texts /\ Meaning(u.rest) \in Results
      BY <2>4, <3>1, StateIs, MeaningIs
    <3>4. /\ Turn(s).rest = Turn(u).rest
          /\ Turn(s).result = Then(x \o u.result.text, Meaning(u.rest))
          /\ Turn(u).result = Then(u.result.text, Meaning(u.rest))
      BY <2>4, <2>8, <3>1, <3>2, TurnIs
    <3>5. Then(x \o u.result.text, Meaning(u.rest)) =
             Then(x, Then(u.result.text, Meaning(u.rest)))
      BY <1>3, <3>2, <3>3, ThenJoins
    <3>6. QED
      BY <2>1, <2>5, <3>4, <3>5
  <2>9. QED
    BY <2>7, <2>8
<1>6. \A k \in 0 .. Len(tail) : k \in T
  <2> HIDE DEF T, tail
  <2>1. \A k \in 0 .. Len(tail) - 1 : k \in T => k + 1 \in T
    BY <1>5
  <2>2. QED
    BY <1>2, <1>4, <2>1, InductionBetween
<1>7. n \in T /\ n + 1 \in 0 .. Len(raw)
  BY <1>1, <1>2, <1>6
<1>8. QED
  BY <1>7

LEMMA ExpandStep ==
    ASSUME NEW raw \in Texts, raw # <<>>
    PROVE  ExpandText(raw) =
              IF Meaning(raw).ok
                THEN Then(Meaning(raw).text, ExpandText(After(raw, Size(raw))))
                ELSE Failed
<1> DEFINE tail == After(raw, Size(raw))
           x    == Meaning(raw).text
<1>1. Len(raw) \in Nat \ {0} /\ Size(raw) \in 1 .. Len(raw)
  BY SizeIs, TextIs
<1>2. tail \in Texts /\ Len(tail) \in Nat
  <2>1. Size(raw) \in 0 .. Len(raw)
    BY <1>1
  <2>2. QED
    BY <2>1, AfterIs, TextIs
<1>3. CASE Meaning(raw).ok
  <2> DEFINE m == Len(tail)
             u == Turns(tail)[m]
             s == Turns(raw)[m + 1]
  <2>1. /\ m + 1 \in 0 .. Len(raw) /\ s.rest = u.rest
        /\ s.result = Then(x, u.result)
    <3>1. m \in 0 .. Len(tail)
      BY <1>2
    <3>2. QED
      BY <1>3, <3>1, TurnsShift
  <2>2. ExpandText(tail) = u.result /\ Over(u) /\ u.result \in Results
    BY <1>2, ExpandTyped DEF ExpandText
  <2>3. x \in Texts
    BY MeaningIs, ResultIs
  <2>4. Over(s)
    <3> HIDE DEF s, u, x
    <3>1. s.result.ok <=> u.result.ok
      BY <2>1, <2>2, <2>3, ThenIs
    <3>2. QED
      BY <2>1, <2>2, <3>1 DEF Over
  <2>5. Turns(raw)[Len(raw)] = s
    BY <2>1, <2>4, OverStays
  <2>6. ExpandText(raw) = s.result
    BY <2>5 DEF ExpandText
  <2>7. QED
    BY <1>3, <2>1, <2>2, <2>6
<1>4. CASE ~Meaning(raw).ok
  <2>1. Turns(raw)[1].result = Failed
    BY <1>4, FirstTurn, MeaningIs, ResultIs
  <2>2. Over(Turns(raw)[1]) /\ 1 \in 0 .. Len(raw)
    <3>1. ~Failed.ok
      BY DoneIs
    <3>2. Over(Turns(raw)[1])
      BY <2>1, <3>1 DEF Over
    <3>3. QED
      BY <1>1, <3>2
  <2>3. Turns(raw)[Len(raw)] = Turns(raw)[1]
    BY <2>2, OverStays
  <2>4. QED
    BY <1>4, <2>1, <2>3 DEF ExpandText
<1>5. QED
  BY <1>3, <1>4

-----------------------------------------------------------------------------
(* What comes after a complete part *)

LEMMA CutJoined ==
    ASSUME NEW x \in Texts, NEW y \in Texts, NEW m \in Nat \ {0}, NEW n \in Nat,
           n <= Len(x)
    PROVE  SubSeq(x \o y, m, n) = SubSeq(x, m, n)
<1> DEFINE a == SubSeq(x \o y, m, n)
           b == SubSeq(x, m, n)
<1>1. Len(x) \in Nat /\ Len(y) \in Nat
  BY TextIs
<1>2. /\ x \o y \in Texts /\ Len(x \o y) = Len(x) + Len(y)
      /\ \A i \in 1 .. Len(x) : (x \o y)[i] = x[i]
  BY Joined
<1>3. n <= Len(x \o y)
  BY <1>1, <1>2
<1>4. /\ a \in Texts /\ Len(a) = IF m <= n THEN n - m + 1 ELSE 0
      /\ \A i \in 1 .. n - m + 1 : a[i] = (x \o y)[m + i - 1]
  <2> DEFINE z == x \o y
  <2>1. z \in Texts /\ n <= Len(z) /\ m \in Nat \ {0} /\ n \in Nat
    BY <1>2, <1>3
  <2> HIDE DEF z
  <2>2. /\ SubSeq(z, m, n) \in Texts
        /\ Len(SubSeq(z, m, n)) = IF m <= n THEN n - m + 1 ELSE 0
        /\ \A i \in 1 .. n - m + 1 : SubSeq(z, m, n)[i] = z[m + i - 1]
    BY <2>1, Cut
  <2>3. QED
    BY <2>2 DEF z
<1>5. /\ b \in Texts /\ Len(b) = IF m <= n THEN n - m + 1 ELSE 0
      /\ \A i \in 1 .. n - m + 1 : b[i] = x[m + i - 1]
  <2>1. m \in Nat \ {0} /\ n \in Nat /\ n <= Len(x) /\ x \in Texts
    OBVIOUS
  <2>2. QED
    BY <2>1, Cut
<1> HIDE DEF a, b
<1>6. ASSUME NEW i \in 1 .. Len(a)  PROVE a[i] = b[i]
  <2>1. i \in 1 .. n - m + 1 /\ m + i - 1 \in 1 .. Len(x)
    BY <1>1, <1>4
  <2>2. QED
    BY <1>2, <1>4, <1>5, <2>1
<1>7. a = b
  BY <1>4, <1>5, <1>6, SeqEqual DEF Texts
<1>8. QED
  BY <1>7 DEF a, b

(* The text does not end in the middle of a part that $ begins. *)
Ended(x) == x = <<>> \/ x[Len(x)] # Dollar

LEMMA FirstPartStays ==
    ASSUME NEW x \in Texts, NEW y \in Texts, x # <<>>, Ended(x), Meaning(x).ok
    PROVE  Size(x \o y) = Size(x) /\ Meaning(x \o y) = Meaning(x)
<1>1. Len(x) \in Nat \ {0} /\ Len(y) \in Nat /\ x[Len(x)] # Dollar
  BY TextIs DEF Ended
<1>2. /\ x \o y \in Texts /\ Len(x \o y) = Len(x) + Len(y)
      /\ \A i \in 1 .. Len(x) : (x \o y)[i] = x[i]
  BY Joined
<1>3. (x \o y)[1] = x[1]
  <2>1. 1 \in 1 .. Len(x)
    BY <1>1
  <2>2. QED
    BY <1>2, <2>1
<1>4. ASSUME NEW c  PROVE Peeks(x \o y, c) <=> Peeks(x, c)
  <2>1. CASE Len(x) = 1
    <3>1. x[1] # Dollar
      BY <1>1, <2>1
    <3>2. ~Peeks(x, c)
      BY <3>1 DEF Peeks
    <3>3. ~Peeks(x \o y, c)
      BY <1>3, <3>1 DEF Peeks
    <3>4. QED
      BY <3>2, <3>3
  <2>2. CASE Len(x) > 1
    <3>1. 2 \in 1 .. Len(x) /\ Len(x) > 1 /\ Len(x \o y) > 1
      <4>1. Len(x \o y) = Len(x) + Len(y)
        BY <1>2
      <4>2. Len(x) \in Nat /\ Len(y) \in Nat
        BY <1>1
      <4>3. QED
        BY <2>2, <4>1, <4>2
    <3>2. (x \o y)[2] = x[2]
      BY <1>2, <3>1
    <3>3. QED
      BY <1>3, <3>1, <3>2 DEF Peeks
  <2>3. Len(x) = 1 \/ Len(x) > 1
    <3> DEFINE n == Len(x)
    <3>1. n \in Nat \ {0}
      BY <1>1
    <3> HIDE DEF n
    <3>2. n = 1 \/ n > 1
      BY <3>1
    <3>3. QED
      BY <3>2 DEF n
  <2>4. QED
    BY <2>1, <2>2, <2>3
<1>5. CASE Peeks(x, Dollar)
  BY <1>4, <1>5 DEF Size, Meaning
<1>6. CASE ~Peeks(x, Dollar) /\ ~Peeks(x, Open)
  BY <1>3, <1>4, <1>6 DEF Size, Meaning
<1>7. CASE ~Peeks(x, Dollar) /\ Peeks(x, Open)
  <2>1. End(x) # 0
    BY <1>7, DoneIs DEF Meaning
  <2>2. /\ End(x) \in 1 .. Len(x) /\ x[End(x)] = Close
        /\ \A i \in 1 .. Len(x) : x[i] = Close => End(x) <= i
    BY <1>1, <2>1, EndIs
  <2>3. End(x) \in 1 .. Len(x \o y) /\ (x \o y)[End(x)] = Close
    BY <1>1, <1>2, <2>2
  <2>4. /\ End(x \o y) \in 0 .. Len(x \o y)
        /\ End(x \o y) # 0
        /\ (x \o y)[End(x \o y)] = Close
        /\ End(x \o y) <= End(x)
    BY <1>2, <2>3, EndIs
  <2>5. End(x \o y) \in 1 .. Len(x)
    BY <1>1, <1>2, <2>2, <2>4
  <2>6. End(x) <= End(x \o y)
    BY <1>2, <2>2, <2>4, <2>5
  <2>7. End(x \o y) = End(x)
    BY <2>2, <2>4, <2>5, <2>6
  <2>8. SubSeq(x \o y, 3, End(x) - 1) = SubSeq(x, 3, End(x) - 1)
    <3>1. End(x) - 1 \in Nat /\ End(x) - 1 <= Len(x)
      BY <1>1, <2>2
    <3>2. QED
      BY <3>1, CutJoined
  <2>9. Size(x \o y) = Size(x)
    BY <1>4, <1>7, <2>1, <2>7 DEF Size
  <2>10. Meaning(x \o y) = Meaning(x)
    BY <1>4, <1>7, <2>1, <2>7, <2>8 DEF Meaning
  <2>11. QED
    BY <2>9, <2>10
<1>8. QED
  BY <1>5, <1>6, <1>7

LEMMA PartsJoin ==
    ASSUME NEW x \in Texts, NEW y \in Texts, Ended(x), ExpandText(x).ok
    PROVE  ExpandText(x \o y) = Then(ExpandText(x).text, ExpandText(y))
<1> DEFINE Joins(t) ==
              Ended(t) /\ ExpandText(t).ok =>
                 ExpandText(t \o y) = Then(ExpandText(t).text, ExpandText(y))
           T == {n \in Nat : \A t \in Texts : Len(t) <= n => Joins(t)}
<1>0. ExpandText(y) \in Results
  BY ExpandTyped
<1>1. 0 \in T
  <2>1. ASSUME NEW t \in Texts, Len(t) <= 0  PROVE Joins(t)
    <3>1. t = <<>>
      BY <2>1, TextIs
    <3>2. /\ ExpandText(t) = Done(<<>>) /\ Done(<<>>).text = <<>>
          /\ t \o y = y
      BY <3>1, ExpandEmpty, DoneIs, JoinsOnce
    <3>3. Then(<<>>, ExpandText(y)) = ExpandText(y)
      BY <1>0, JoinsOnce, ThenNothing
    <3>4. QED
      BY <3>2, <3>3
  <2>2. QED
    BY <2>1
<1>2. ASSUME NEW n \in Nat, n \in T  PROVE n + 1 \in T
  <2>1. ASSUME NEW t \in Texts, Len(t) <= n + 1, t # <<>>,
               Ended(t), ExpandText(t).ok
        PROVE  ExpandText(t \o y) = Then(ExpandText(t).text, ExpandText(y))
    <3> DEFINE tail == After(t, Size(t))
               m    == Meaning(t)
    <3>1. Len(t) \in Nat \ {0} /\ Size(t) \in 1 .. Len(t) /\ Size(t) \in 0 .. Len(t)
      <4>1. Len(t) \in Nat \ {0} /\ Size(t) \in 1 .. Len(t)
        BY <2>1, SizeIs, TextIs
      <4>2. QED
        BY <4>1
    <3>2. /\ tail \in Texts /\ Len(tail) = Len(t) - Size(t)
          /\ \A i \in 1 .. Len(t) - Size(t) : tail[i] = t[Size(t) + i]
      BY <3>1, AfterIs
    <3>3. m \in Results /\ m.text \in Texts
      BY <2>1, MeaningIs, ResultIs
    <3>4. ExpandText(t) = Then(m.text, ExpandText(tail)) /\ m.ok
      BY <2>1, ExpandStep, DoneIs
    <3>5. /\ t \o y \in Texts /\ t \o y # <<>>
          /\ Size(t \o y) = Size(t) /\ Meaning(t \o y) = m
      <4>1. t \o y \in Texts /\ Len(t \o y) = Len(t) + Len(y)
        BY Joined
      <4>2. t \o y # <<>>
        BY <3>1, <4>1, TextIs
      <4>3. QED
        BY <2>1, <3>4, <4>1, <4>2, FirstPartStays
    <3>6. After(t \o y, Size(t)) = tail \o y
      BY <3>1, AfterJoined
    <3>7. ExpandText(t \o y) = Then(m.text, ExpandText(tail \o y))
      BY <3>4, <3>5, <3>6, ExpandStep
    <3>8. Ended(tail)
      <4>1. CASE Len(tail) = 0
        BY <3>2, <4>1, TextIs DEF Ended
      <4>2. CASE Len(tail) # 0
        <5>1. /\ Len(tail) \in 1 .. Len(t) - Size(t)
              /\ Size(t) + Len(tail) = Len(t)
          BY <3>1, <3>2, <4>2
        <5>2. tail[Len(tail)] = t[Len(t)]
          BY <3>2, <5>1
        <5>3. t[Len(t)] # Dollar
          BY <2>1 DEF Ended
        <5>4. QED
          BY <5>2, <5>3 DEF Ended
      <4>3. QED
        BY <4>1, <4>2
    <3>9. /\ ExpandText(tail) \in Results /\ ExpandText(tail).ok
          /\ ExpandText(tail).text \in Texts
      <4>1. ExpandText(tail) \in Results
        BY <3>2, ExpandTyped
      <4> HIDE DEF tail, m
      <4>2. QED
        BY <2>1, <3>3, <3>4, <4>1, ThenIs, ResultIs
    <3>10. ExpandText(tail \o y) = Then(ExpandText(tail).text, ExpandText(y))
      <4>1. Len(tail) <= n
        BY <2>1, <3>1, <3>2
      <4> HIDE DEF tail
      <4>2. QED
        BY <1>2, <3>2, <3>8, <3>9, <4>1
    <3> HIDE DEF tail, m
    <3>11. ExpandText(t).text = m.text \o ExpandText(tail).text
      BY <3>3, <3>4, <3>9, ThenIs
    <3>12. Then(m.text \o ExpandText(tail).text, ExpandText(y)) =
              Then(m.text, Then(ExpandText(tail).text, ExpandText(y)))
      BY <1>0, <3>3, <3>9, ThenJoins
    <3>13. QED
      BY <3>7, <3>10, <3>11, <3>12
  <2>2. ASSUME NEW t \in Texts, Len(t) <= n + 1, t = <<>>
        PROVE  Joins(t)
    <3>1. Len(t) <= 0
      BY <2>2, TextIs
    <3>2. QED
      BY <1>1, <3>1
  <2>3. QED
    BY <2>1, <2>2
<1>3. \A n \in Nat : n \in T
  <2> HIDE DEF T
  <2>1. QED
    BY <1>1, <1>2, Induction
<1>4. Len(x) \in Nat
  BY TextIs
<1>5. Len(x) \in T
  BY <1>3, <1>4
<1>6. Joins(x)
  BY <1>4, <1>5
<1>7. QED
  BY <1>6

-----------------------------------------------------------------------------
(* Doubled dollars *)

LEMMA AfterFirst ==
    ASSUME NEW s \in Texts, NEW t \in Texts
    PROVE  After(s \o t, Len(s)) = t
<1>1. Len(s) \in Nat /\ Len(s) \in 0 .. Len(s)
  BY TextIs
<1>2. After(s \o t, Len(s)) = After(s, Len(s)) \o t
  BY <1>1, AfterJoined
<1>3. QED
  BY <1>2, AfterAll, JoinsOnce

LEMMA AfterStep ==
    ASSUME NEW t \in Texts, NEW k \in 0 .. Len(t) - 1
    PROVE  After(t, k) = <<t[k + 1]>> \o After(t, k + 1)
<1>1. Len(t) \in Nat /\ k + 1 \in 1 .. Len(t) /\ Len(t) \in k + 1 .. Len(t)
  BY TextIs
<1>2. SubSeq(t, k + 1, Len(t)) = <<t[k + 1]>> \o SubSeq(t, (k + 1) + 1, Len(t))
  BY <1>1, SubSeqRecursiveFirst DEF Texts
<1>3. QED
  BY <1>2 DEF After

LEMMA TwoIs ==
    ASSUME NEW c \in Chars, NEW d \in Chars
    PROVE  /\ <<c, d>> \in Texts /\ Len(<<c, d>>) = 2
           /\ <<c, d>>[1] = c /\ <<c, d>>[2] = d
BY DEF Texts

(* What a character and a doubled dollar become *)
LEMMA ExpandChar ==
    ASSUME NEW c \in Chars, c # Dollar, NEW z \in Texts
    PROVE  /\ <<c>> \o z \in Texts
           /\ ExpandText(<<c>> \o z) = Then(<<c>>, ExpandText(z))
<1> DEFINE s   == <<c>>
           raw == s \o z
<1>1. s \in Texts /\ Len(s) = 1 /\ s[1] = c
  BY OneIs
<1>2. Len(z) \in Nat
  BY TextIs
<1> HIDE DEF s
<1>3. raw \in Texts /\ Len(raw) = 1 + Len(z) /\ raw[1] = c
  <2>1. /\ raw \in Texts /\ Len(raw) = Len(s) + Len(z)
        /\ \A i \in 1 .. Len(s) : raw[i] = s[i]
    BY <1>1, Joined
  <2> HIDE DEF raw
  <2>2. QED
    BY <1>1, <2>1
<1>4. raw # <<>>
  BY <1>2, <1>3, TextIs
<1>5. After(raw, 1) = z
  BY <1>1, AfterFirst
<1> HIDE DEF raw
<1>6. ~Peeks(raw, Dollar) /\ ~Peeks(raw, Open)
  BY <1>3 DEF Peeks
<1>7. Size(raw) = 1 /\ Meaning(raw) = Done(<<c>>)
  BY <1>3, <1>6 DEF Size, Meaning
<1>8. ExpandText(raw) = Then(<<c>>, ExpandText(z))
  BY <1>3, <1>4, <1>5, <1>7, ExpandStep, DoneIs
<1>9. QED
  BY <1>3, <1>8 DEF raw, s

LEMMA ExpandDollar ==
    ASSUME NEW z \in Texts
    PROVE  /\ <<Dollar, Dollar>> \o z \in Texts
           /\ ExpandText(<<Dollar, Dollar>> \o z) = Then(<<Dollar>>, ExpandText(z))
<1> DEFINE s   == <<Dollar, Dollar>>
           raw == s \o z
<1>1. s \in Texts /\ Len(s) = 2 /\ s[1] = Dollar /\ s[2] = Dollar
  BY MarksAre, TwoIs
<1>2. Len(z) \in Nat
  BY TextIs
<1> HIDE DEF s
<1>3. raw \in Texts /\ Len(raw) = 2 + Len(z) /\ raw[1] = Dollar /\ raw[2] = Dollar
  <2>1. /\ raw \in Texts /\ Len(raw) = Len(s) + Len(z)
        /\ \A i \in 1 .. Len(s) : raw[i] = s[i]
    BY <1>1, Joined
  <2> HIDE DEF raw
  <2>2. QED
    BY <1>1, <2>1
<1>4. raw # <<>>
  BY <1>2, <1>3, TextIs
<1>5. After(raw, 2) = z
  BY <1>1, AfterFirst
<1> HIDE DEF raw
<1>6. Peeks(raw, Dollar)
  BY <1>2, <1>3 DEF Peeks
<1>7. Size(raw) = 2 /\ Meaning(raw) = Done(<<Dollar>>)
  BY <1>6 DEF Size, Meaning
<1>8. ExpandText(raw) = Then(<<Dollar>>, ExpandText(z))
  BY <1>3, <1>4, <1>5, <1>7, ExpandStep, DoneIs
<1>9. QED
  BY <1>3, <1>8 DEF raw, s

Escaped(c) == IF c = Dollar THEN <<Dollar, Dollar>> ELSE <<c>>

LEMMA EscapesExist ==
    ASSUME NEW t \in Texts
    PROVE  Escapes(t) = [n \in 0 .. Len(t) |->
                            IF n = 0 THEN <<>>
                            ELSE Escaped(t[Len(t) + 1 - n]) \o Escapes(t)[n - 1]]
<1> DEFINE More(n, z) == Escaped(t[Len(t) + 1 - n]) \o z
           Upto(m, f) == f = [n \in 0 .. m |-> IF n = 0 THEN <<>>
                                               ELSE More(n, f[n - 1])]
           T == {m \in Nat : \E f : Upto(m, f)}
<1>1. 0 \in T
  <2> HIDE DEF More
  <2>1. Upto(0, [n \in 0 .. 0 |-> <<>>])
    OBVIOUS
  <2> HIDE DEF Upto
  <2>2. QED
    BY <2>1
<1>2. ASSUME NEW m \in Nat, m \in T  PROVE m + 1 \in T
  <2> HIDE DEF More
  <2>1. PICK f : Upto(m, f)
    BY <1>2
  <2> DEFINE g == [n \in 0 .. m + 1 |-> IF n <= m THEN f[n] ELSE More(n, f[m])]
  <2>2. ASSUME NEW n \in 0 .. m + 1
        PROVE  g[n] = IF n = 0 THEN <<>> ELSE More(n, g[n - 1])
    <3>1. CASE n <= m
      <4>1. g[n] = f[n] /\ n \in 0 .. m
        BY <3>1
      <4>2. n # 0 => n - 1 \in 0 .. m + 1 /\ n - 1 <= m /\ g[n - 1] = f[n - 1]
        BY <3>1
      <4>3. f[n] = IF n = 0 THEN <<>> ELSE More(n, f[n - 1])
        BY <2>1, <4>1
      <4> HIDE DEF g
      <4>4. QED
        BY <4>1, <4>2, <4>3
    <3>2. CASE n = m + 1
      <4>1. g[n] = More(n, f[m]) /\ g[m] = f[m] /\ n - 1 = m /\ n # 0
        BY <3>2
      <4> HIDE DEF g
      <4>2. QED
        BY <3>2, <4>1
    <3>3. QED
      BY <3>1, <3>2
  <2>3. g = [n \in 0 .. m + 1 |-> g[n]]
    OBVIOUS
  <2> HIDE DEF g
  <2>4. Upto(m + 1, g)
    BY <2>2, <2>3
  <2> HIDE DEF Upto
  <2>5. QED
    BY <2>4
<1>3. \A m \in Nat : m \in T
  <2> HIDE DEF T
  <2>1. QED
    BY <1>1, <1>2, Induction
<1>4. \E f : Upto(Len(t), f)
  BY <1>3, TextIs
<1>5. Escapes(t) = CHOOSE f : Upto(Len(t), f)
  BY DEF Escapes, Escaped
<1>6. Upto(Len(t), Escapes(t))
  <2> HIDE DEF Upto
  <2>1. QED
    BY <1>4, <1>5
<1>7. QED
  BY <1>6

(* However many of its characters are taken, from the last on *)
LEMMA EscapesExpand ==
    ASSUME NEW t \in Texts, NEW n \in 0 .. Len(t)
    PROVE  /\ Escapes(t)[n] \in Texts
           /\ ExpandText(Escapes(t)[n]) = Done(After(t, Len(t) - n))
<1> DEFINE f == Escapes(t)
           T == {k \in 0 .. Len(t) :
                   /\ f[k] \in Texts
                   /\ ExpandText(f[k]) = Done(After(t, Len(t) - k))}
<1>0. Len(t) \in Nat
  BY TextIs
<1>1. f = [k \in 0 .. Len(t) |-> IF k = 0 THEN <<>>
                                 ELSE Escaped(t[Len(t) + 1 - k]) \o f[k - 1]]
  BY EscapesExist
<1> HIDE DEF f
<1>2. 0 \in T
  <2>1. f[0] = <<>>
    BY <1>0, <1>1
  <2>2. Len(t) - 0 = Len(t) /\ 0 \in 0 .. Len(t)
    BY <1>0
  <2>3. ExpandText(f[0]) = Done(After(t, Len(t) - 0))
    BY <2>1, <2>2, ExpandEmpty, AfterAll
  <2>4. QED
    BY <2>1, <2>2, <2>3, JoinsOnce
<1>3. ASSUME NEW k \in 0 .. Len(t) - 1, k \in T  PROVE k + 1 \in T
  <2> DEFINE j == Len(t) - (k + 1)
             c == t[j + 1]
             z == f[k]
  <2>1. /\ k + 1 \in 0 .. Len(t) /\ k + 1 # 0 /\ (k + 1) - 1 = k
        /\ j \in 0 .. Len(t) - 1 /\ j + 1 \in 1 .. Len(t)
        /\ Len(t) + 1 - (k + 1) = j + 1 /\ Len(t) - k = j + 1
    BY <1>0
  <2>2. f[k + 1] = Escaped(t[Len(t) + 1 - (k + 1)]) \o f[(k + 1) - 1]
    BY <1>1, <2>1
  <2>3. f[k + 1] = Escaped(c) \o z
    BY <2>1, <2>2
  <2>4. z \in Texts /\ ExpandText(z) = Done(After(t, j + 1))
    BY <1>3, <2>1
  <2>5. After(t, j) = <<c>> \o After(t, j + 1) /\ c \in Chars
    BY <2>1, AfterStep, TextIs
  <2>6. After(t, j + 1) \in Texts
    <3>1. j + 1 \in 0 .. Len(t)
      BY <1>0, <2>1
    <3>2. QED
      BY <3>1, AfterIs
  <2> HIDE DEF c, z
  <2>7. f[k + 1] \in Texts /\ ExpandText(f[k + 1]) = Then(<<c>>, ExpandText(z))
    <3>1. CASE c = Dollar
      <4>1. f[k + 1] = <<Dollar, Dollar>> \o z
        BY <2>3, <3>1 DEF Escaped
      <4>2. QED
        BY <2>4, <3>1, <4>1, ExpandDollar
    <3>2. CASE c # Dollar
      <4>1. f[k + 1] = <<c>> \o z
        BY <2>3, <3>2 DEF Escaped
      <4>2. QED
        BY <2>4, <2>5, <3>2, <4>1, ExpandChar
    <3>3. QED
      BY <3>1, <3>2
  <2>8. Then(<<c>>, Done(After(t, j + 1))) = Done(<<c>> \o After(t, j + 1))
    BY DoneIs DEF Then
  <2>9. ExpandText(f[k + 1]) = Done(After(t, j))
    BY <2>4, <2>5, <2>7, <2>8
  <2>10. QED
    BY <2>1, <2>7, <2>9
<1>4. \A k \in 0 .. Len(t) : k \in T
  <2> HIDE DEF T
  <2>1. \A k \in 0 .. Len(t) - 1 : k \in T => k + 1 \in T
    BY <1>3
  <2>2. QED
    BY <1>0, <1>2, <2>1, InductionBetween
<1>5. n \in T
  BY <1>4
<1>6. QED
  BY <1>5 DEF f

LEMMA EscapeIs ==
    ASSUME NEW t \in Texts
    PROVE  ExpandText(Escape(t)) = Done(t)
<1>1. Len(t) \in Nat /\ Len(t) \in 0 .. Len(t) /\ Len(t) - Len(t) = 0
  BY TextIs
<1>2. ExpandText(Escapes(t)[Len(t)]) = Done(After(t, Len(t) - Len(t)))
  BY <1>1, EscapesExpand
<1>3. QED
  BY <1>1, <1>2, AfterAll DEF Escape

-----------------------------------------------------------------------------
(* Defaults *)

LEMMA ExpandDefault ==
    ASSUME NEW c \in Letters, NEW t \in Texts, \A i \in 1 .. Len(t) : t[i] # Close
    PROVE  ExpandText(<<Dollar, Open, c, Colon, Dash>> \o t \o <<Close>>) =
              IF <<c>> \in DOMAIN Values /\ Values[<<c>>] # <<>>
                THEN Done(Values[<<c>>]) ELSE Done(t)
<1> DEFINE h   == <<Dollar, Open, c, Colon, Dash>>
           w   == h \o t
           raw == w \o <<Close>>
           e   == SubSeq(raw, 3, End(raw) - 1)
<1>1. Len(t) \in Nat
  BY TextIs
<1>2. /\ h \in Texts /\ Len(h) = 5 /\ h[1] = Dollar /\ h[2] = Open
      /\ h[3] = c /\ h[4] = Colon /\ h[5] = Dash
  <2>1. {Dollar, Open, c, Colon, Dash} \subseteq Chars
    BY MarksAre
  <2>2. QED
    BY <2>1 DEF Texts
<1>3. \A i \in 1 .. 5 : h[i] # Close
  <2>1. Close \notin {Dollar, Open, c, Colon, Dash}
    BY MarksAre
  <2>2. \A i \in 1 .. 5 : i = 1 \/ i = 2 \/ i = 3 \/ i = 4 \/ i = 5
    OBVIOUS
  <2> HIDE DEF h
  <2>3. QED
    BY <1>2, <2>1, <2>2
<1> HIDE DEF h
<1>4. /\ w \in Texts /\ Len(w) = 5 + Len(t)
      /\ \A i \in 1 .. 5 : w[i] = h[i]
      /\ \A i \in 1 .. Len(t) : w[5 + i] = t[i]
  <2>1. /\ w \in Texts /\ Len(w) = Len(h) + Len(t)
        /\ \A i \in 1 .. Len(h) : w[i] = h[i]
        /\ \A i \in 1 .. Len(t) : w[Len(h) + i] = t[i]
    BY <1>2, Joined
  <2> HIDE DEF w
  <2>2. QED
    BY <1>2, <2>1
<1>5. \A i \in 1 .. 5 + Len(t) : w[i] # Close
  <2>1. ASSUME NEW i \in 1 .. 5 + Len(t)  PROVE w[i] # Close
    <3>1. CASE i <= 5
      <4>1. i \in 1 .. 5
        BY <3>1
      <4>2. QED
        BY <1>3, <1>4, <4>1
    <3>2. CASE ~(i <= 5)
      <4>1. i - 5 \in 1 .. Len(t) /\ 5 + (i - 5) = i
        BY <1>1, <3>2
      <4>2. w[5 + (i - 5)] = t[i - 5]
        BY <1>4, <4>1
      <4>3. QED
        BY <4>1, <4>2
    <3>3. QED
      BY <3>1, <3>2
  <2>2. QED
    BY <2>1
<1> HIDE DEF w
<1>6. /\ raw \in Texts /\ Len(raw) = 6 + Len(t)
      /\ \A i \in 1 .. 5 + Len(t) : raw[i] = w[i]
      /\ raw[6 + Len(t)] = Close
  <2> DEFINE u == <<Close>>
  <2>1. u \in Texts /\ Len(u) = 1 /\ u[1] = Close
    BY MarksAre, OneIs
  <2> HIDE DEF u
  <2>2. /\ w \o u \in Texts /\ Len(w \o u) = Len(w) + 1
        /\ \A i \in 1 .. Len(w) : (w \o u)[i] = w[i]
        /\ (w \o u)[Len(w) + 1] = u[1]
    <3>1. /\ w \o u \in Texts /\ Len(w \o u) = Len(w) + Len(u)
          /\ \A i \in 1 .. Len(w) : (w \o u)[i] = w[i]
          /\ \A i \in 1 .. Len(u) : (w \o u)[Len(w) + i] = u[i]
      <4>1. w \in Texts /\ u \in Texts
        BY <1>4, <2>1
      <4>2. QED
        BY <4>1, Joined
    <3>2. 1 \in 1 .. Len(u)
      BY <2>1
    <3>3. QED
      BY <2>1, <3>1, <3>2
  <2>3. raw = w \o u
    BY DEF u
  <2>4. Len(w) + 1 = 6 + Len(t)
    BY <1>1, <1>4
  <2> HIDE DEF raw
  <2>5. QED
    BY <1>4, <2>1, <2>2, <2>3, <2>4
<1> HIDE DEF raw
<1>7. /\ raw[1] = Dollar /\ raw[2] = Open /\ raw[3] = c
      /\ raw[4] = Colon /\ raw[5] = Dash
      /\ \A i \in 1 .. Len(t) : raw[5 + i] = t[i]
  <2>1. \A i \in 1 .. 5 : raw[i] = h[i]
    BY <1>1, <1>4, <1>6
  <2>2. \A i \in 1 .. Len(t) : 5 + i \in 1 .. 5 + Len(t)
    BY <1>1
  <2>3. QED
    BY <1>2, <1>4, <1>6, <2>1, <2>2
<1>8. End(raw) = 6 + Len(t)
  <2>1. /\ End(raw) \in 0 .. 6 + Len(t) /\ End(raw) # 0 /\ raw[End(raw)] = Close
    <3>1. 6 + Len(t) \in 1 .. Len(raw)
      BY <1>1, <1>6
    <3>2. QED
      BY <1>6, <3>1, EndIs
  <2>2. ~(End(raw) \in 1 .. 5 + Len(t))
    BY <1>5, <1>6, <2>1
  <2>3. QED
    BY <1>1, <2>1, <2>2
<1>9. /\ e \in Texts /\ Len(e) = 3 + Len(t)
      /\ e[1] = c /\ e[2] = Colon /\ e[3] = Dash
      /\ \A i \in 1 .. Len(t) : e[3 + i] = t[i]
  <2> DEFINE n == 5 + Len(t)
  <2>1. n \in Nat /\ n <= Len(raw) /\ End(raw) - 1 = n /\ 3 <= n /\ n - 3 + 1 = 3 + Len(t)
    BY <1>1, <1>6, <1>8
  <2> HIDE DEF n
  <2>2. e = SubSeq(raw, 3, n)
    BY <2>1
  <2> HIDE DEF e
  <2>3. /\ e \in Texts /\ Len(e) = 3 + Len(t)
        /\ \A i \in 1 .. 3 + Len(t) : e[i] = raw[3 + i - 1]
    <3> DEFINE m == 3
    <3>1. m \in Nat \ {0} /\ m = 3 /\ m <= n /\ n - m + 1 = 3 + Len(t)
      BY <2>1
    <3> HIDE DEF m
    <3>2. /\ SubSeq(raw, m, n) \in Texts
          /\ Len(SubSeq(raw, m, n)) = IF m <= n THEN n - m + 1 ELSE 0
          /\ \A i \in 1 .. n - m + 1 : SubSeq(raw, m, n)[i] = raw[m + i - 1]
      BY <1>6, <2>1, <3>1, Cut
    <3>3. e = SubSeq(raw, m, n)
      BY <2>2, <3>1
    <3>4. QED
      BY <3>1, <3>2, <3>3
  <2>4. e[1] = raw[3] /\ e[2] = raw[4] /\ e[3] = raw[5]
    <3>1. 1 \in 1 .. 3 + Len(t) /\ 2 \in 1 .. 3 + Len(t) /\ 3 \in 1 .. 3 + Len(t)
      BY <1>1
    <3>2. e[1] = raw[3 + 1 - 1] /\ e[2] = raw[3 + 2 - 1] /\ e[3] = raw[3 + 3 - 1]
      BY <2>3, <3>1
    <3>3. QED
      BY <3>2
  <2>5. ASSUME NEW i \in 1 .. Len(t)  PROVE e[3 + i] = t[i]
    <3>1. 3 + i \in 1 .. 3 + Len(t) /\ 3 + (3 + i) - 1 = 5 + i
      BY <1>1
    <3>2. e[3 + i] = raw[3 + (3 + i) - 1]
      BY <2>3, <3>1
    <3>3. QED
      BY <1>7, <3>1, <3>2
  <2>6. QED
    BY <1>7, <2>3, <2>4, <2>5
<1> HIDE DEF e
<1>10. DefaultAt(e) = 2
  <2>1. 2 \in 1 .. Len(e) - 1 /\ e[2] = Colon /\ e[2 + 1] = Dash
    BY <1>1, <1>9
  <2>2. DefaultAt(e) # 0 /\ DefaultAt(e) <= 2
    BY <1>9, <2>1, DefaultAtIs
  <2>3. DefaultAt(e) \in 1 .. Len(e) - 1 /\ e[DefaultAt(e)] = Colon
    BY <1>9, <2>2, DefaultAtIs
  <2>4. e[1] # Colon
    BY <1>9, MarksAre
  <2>5. DefaultAt(e) # 1
    BY <2>3, <2>4
  <2>6. QED
    BY <1>1, <1>9, <2>2, <2>3, <2>5
<1>11. Before(e, 2) = <<c>>
  <2> DEFINE b == SubSeq(e, 1, 1)
  <2>1. b \in Texts /\ Len(b) = 1 /\ b[1] = c
    <3>1. 1 <= Len(e) /\ 1 \in Nat \ {0} /\ 1 \in Nat
      BY <1>1, <1>9
    <3>2. /\ SubSeq(e, 1, 1) \in Texts
          /\ Len(SubSeq(e, 1, 1)) = IF 1 <= 1 THEN 1 - 1 + 1 ELSE 0
          /\ \A i \in 1 .. 1 - 1 + 1 : SubSeq(e, 1, 1)[i] = e[1 + i - 1]
      BY <1>9, <3>1, Cut
    <3>3. QED
      BY <1>9, <3>2
  <2> HIDE DEF b
  <2>2. <<c>> \in Texts /\ Len(<<c>>) = 1 /\ <<c>>[1] = c
    BY MarksAre, OneIs
  <2>3. \A i \in 1 .. Len(b) : b[i] = <<c>>[i]
    BY <2>1, <2>2
  <2>4. b = <<c>>
    BY <2>1, <2>2, <2>3, SeqEqual DEF Texts
  <2>5. QED
    BY <2>4 DEF Before, b
<1>12. ValidName(<<c>>)
  BY DEF ValidName
<1>13. After(e, 3) = t
  <2> DEFINE a == After(e, 3)
  <2>1. /\ a \in Texts /\ Len(a) = Len(t)
        /\ \A i \in 1 .. Len(t) : a[i] = e[3 + i]
    <3>1. 3 \in 0 .. Len(e) /\ Len(e) - 3 = Len(t)
      BY <1>1, <1>9
    <3>2. /\ a \in Texts /\ Len(a) = Len(e) - 3
          /\ \A i \in 1 .. Len(e) - 3 : a[i] = e[3 + i]
      BY <1>9, <3>1, AfterIs
    <3> HIDE DEF a
    <3>3. QED
      BY <3>1, <3>2
  <2> HIDE DEF a
  <2>2. \A i \in 1 .. Len(a) : a[i] = t[i]
    BY <1>9, <2>1
  <2>3. a = t
    BY <2>1, <2>2, SeqEqual DEF Texts
  <2>4. QED
    BY <2>3 DEF a
<1>14. ExpandExpression(e) = IF <<c>> \in DOMAIN Values /\ Values[<<c>>] # <<>>
                               THEN Done(Values[<<c>>]) ELSE Done(t)
  BY <1>10, <1>11, <1>12, <1>13 DEF ExpandExpression
<1>15. Peeks(raw, Open) /\ ~Peeks(raw, Dollar) /\ raw # <<>> /\ End(raw) # 0
  <2>1. Len(raw) > 1 /\ Dollar # Open /\ End(raw) # 0
    BY <1>1, <1>6, <1>8, MarksAre
  <2>2. raw # <<>>
    BY <1>6, <2>1, TextIs
  <2>3. QED
    BY <1>7, <2>1, <2>2 DEF Peeks
<1>16. Size(raw) = Len(raw) /\ Meaning(raw) = ExpandExpression(e)
  BY <1>6, <1>8, <1>15 DEF Size, Meaning, e
<1>17. After(raw, Size(raw)) = <<>>
  BY <1>6, <1>16, AfterAll
<1>18. ExpandExpression(e).ok /\ ExpandExpression(e) \in Results
  BY <1>9, <1>14, ExpressionIs, DoneIs
<1>19. ExpandText(raw) = Then(ExpandExpression(e).text, Done(<<>>))
  BY <1>6, <1>15, <1>16, <1>17, <1>18, ExpandStep, ExpandEmpty
<1>20. ExpandText(raw) = ExpandExpression(e)
  <2>1. /\ ExpandExpression(e).text \in Texts
        /\ ExpandExpression(e) = Done(ExpandExpression(e).text)
    BY <1>18, ResultIs
  <2>2. QED
    BY <1>19, <2>1, ThenNothing, DoneIs, JoinsOnce
<1>21. QED
  BY <1>14, <1>20 DEF raw, w, h

-----------------------------------------------------------------------------
(* Every text that is reached is one *)
Typed == kind \in DOMAIN Pieces /\ text \in Texts

LEMMA TextTyped == Spec => []Typed
<1>1. Init => Typed
  BY TextsAssumption DEF Init, Typed, Texts
<1>2. Typed /\ [Next]_<<kind, text, left>> => Typed'
  <2> SUFFICES ASSUME Typed, [Next]_<<kind, text, left>>  PROVE Typed'
    OBVIOUS
  <2>1. ASSUME NEW piece \in Pieces[kind], Continue(piece)  PROVE Typed'
    <3>1. piece \in Texts
      BY TextsAssumption DEF Typed, Texts
    <3>2. text \o piece \in Texts
      BY <3>1, Joined DEF Typed
    <3>3. QED
      BY <2>1, <3>2 DEF Continue, Typed
  <2>2. CASE Finished
    BY <2>2 DEF Finished, Typed
  <2>3. CASE UNCHANGED <<kind, text, left>>
    BY <2>3 DEF Typed
  <2>4. QED
    BY <2>1, <2>2, <2>3 DEF Next
<1>3. QED
  BY <1>1, <1>2, PTL DEF Spec

(* The expansion is right about every text, of any length, whatever the     *)
(* variables and their values are.                                          *)
LEMMA TypedIsRight == Typed => ExpansionIsRight
<1> SUFFICES ASSUME Typed  PROVE ExpansionIsRight
  OBVIOUS
<1>1. text \in Texts /\ Len(text) \in Nat /\ DOMAIN text = 1 .. Len(text)
  BY TextIs DEF Typed
<1>2. EscapesRoundTrip
  BY <1>1, EscapeIs DEF EscapesRoundTrip
<1>3. PartsExpandAlone
  <2>1. ASSUME NEW i \in 1 .. Len(text), text[i] # Dollar,
               ExpandText(SubSeq(text, 1, i)).ok
        PROVE  ExpandText(text) = Then(ExpandText(SubSeq(text, 1, i)).text,
                                       ExpandText(SubSeq(text, i + 1, Len(text))))
    <3> DEFINE x == SubSeq(text, 1, i)
               y == SubSeq(text, i + 1, Len(text))
    <3>1. /\ x \in Texts /\ Len(x) = i
          /\ \A j \in 1 .. i : x[j] = text[j]
      <4>1. 1 \in Nat \ {0} /\ i \in Nat /\ i <= Len(text) /\ 1 <= i /\ i - 1 + 1 = i
        BY <1>1
      <4>2. /\ SubSeq(text, 1, i) \in Texts
            /\ Len(SubSeq(text, 1, i)) = i - 1 + 1
            /\ \A j \in 1 .. i - 1 + 1 : SubSeq(text, 1, i)[j] = text[1 + j - 1]
        BY <1>1, <4>1, Cut
      <4>3. \A j \in 1 .. i : j \in 1 .. i - 1 + 1 /\ 1 + j - 1 = j
        BY <4>1
      <4>4. QED
        BY <4>1, <4>2, <4>3
    <3>2. y \in Texts
      <4>1. i \in 0 .. Len(text)
        BY <1>1
      <4>2. After(text, i) \in Texts
        BY <1>1, <4>1, AfterIs
      <4>3. QED
        BY <4>2 DEF After
    <3>3. x \o y = text
      <4>1. /\ 1 \in 1 .. Len(text) + 1 /\ i \in 1 - 1 .. Len(text)
            /\ Len(text) \in i .. Len(text)
        BY <1>1
      <4>2. x \o y = SubSeq(text, 1, Len(text))
        BY <1>1, <4>1, ConcatAdjacentSubSeq DEF Texts
      <4>3. SubSeq(text, 1, Len(text)) = text
        BY <1>1, SubSeqFull DEF Texts
      <4>4. QED
        BY <4>2, <4>3
    <3>4. Ended(x)
      <4>1. i \in 1 .. i
        BY <1>1
      <4> HIDE DEF x
      <4>2. QED
        BY <2>1, <3>1, <4>1 DEF Ended
    <3>5. ExpandText(x).ok
      BY <2>1
    <3> HIDE DEF x, y
    <3>6. ExpandText(x \o y) = Then(ExpandText(x).text, ExpandText(y))
      BY <3>1, <3>2, <3>4, <3>5, PartsJoin
    <3>7. QED
      BY <3>3, <3>6 DEF x, y
  <2>2. QED
    BY <1>1, <2>1 DEF PartsExpandAlone
<1>4. DefaultIsVerbatim
  BY <1>1, ExpandDefault DEF DefaultIsVerbatim
<1>5. QED
  BY <1>2, <1>3, <1>4 DEF ExpansionIsRight

THEOREM ExpansionHolds == Spec => []ExpansionIsRight
BY TextTyped, TypedIsRight, PTL

-----------------------------------------------------------------------------
(* Parts of texts, and the classes of characters *)

(* The classes of characters *)
LEMMA SpaceIs ==
    /\ Headers!Space = Target!Space
    /\ Target!Space \notin {"@", "/", "#", "%", ":", "[", "]", "+", "-", "none"}
BY Zenon DEF Headers!Space, Target!Space

LEMMA ClassesAre ==
    /\ \A c \in DOMAIN Places : c \in Hex /\ c # "+" /\ c # "-"
    /\ \A c \in Hex : c \in NameChars
    /\ \A c \in NameChars :
          /\ c # Target!Space /\ c # "@" /\ c # "/" /\ c # "#" /\ c # "%"
          /\ c # ":" /\ c # "[" /\ c # "]" /\ c # "none"
    /\ \A c \in DOMAIN DefaultPort :
          c # Target!Space /\ c # "#" /\ c # "%" /\ c # ":"
    /\ \A c \in DOMAIN LowerCase : c # Target!Space /\ c # ":"
<1>1. /\ \A c \in DOMAIN Places : c \in Hex
      /\ \A c \in Hex : c \in NameChars
  BY Zenon, ClassesAssumption
<1>2. \A c \in DOMAIN Places : c # "+" /\ c # "-"
  BY Zenon, ClassesAssumption
<1>3. \A c \in NameChars :
          /\ c # Target!Space /\ c # "@" /\ c # "/" /\ c # "#" /\ c # "%"
          /\ c # ":" /\ c # "[" /\ c # "]" /\ c # "none"
  BY Zenon, ClassesAssumption DEF Target!Space
<1>4. \A c \in DOMAIN DefaultPort :
          c # Target!Space /\ c # "#" /\ c # "%" /\ c # ":"
  BY Zenon, ClassesAssumption DEF Target!Space
<1>5. \A c \in DOMAIN LowerCase : c # Target!Space /\ c # ":"
  BY Zenon, ClassesAssumption DEF Target!Space
<1>6. QED
  BY <1>1, <1>2, <1>3, <1>4, <1>5

(* A part of a text *)
LEMMA Part ==
    ASSUME NEW t \in Texts, NEW m \in 1 .. Len(t) + 1, NEW n \in m - 1 .. Len(t)
    PROVE  /\ SubSeq(t, m, n) \in Texts
           /\ Len(SubSeq(t, m, n)) = n - m + 1
           /\ \A i \in 1 .. n - m + 1 : SubSeq(t, m, n)[i] = t[m + i - 1]
<1>1. Len(t) \in Nat
  BY TextIs
<1>2. m \in Nat \ {0} /\ n \in Nat /\ n <= Len(t) /\ m <= n + 1
  BY <1>1
<1>3. /\ SubSeq(t, m, n) \in Texts
      /\ Len(SubSeq(t, m, n)) = IF m <= n THEN n - m + 1 ELSE 0
      /\ \A i \in 1 .. n - m + 1 : SubSeq(t, m, n)[i] = t[m + i - 1]
  BY <1>2, Cut
<1>4. (IF m <= n THEN n - m + 1 ELSE 0) = n - m + 1
  BY <1>2
<1>5. QED
  BY <1>3, <1>4

(* What has the characters of a part, is the part *)
LEMMA PartIs ==
    ASSUME NEW t \in Texts, NEW m \in 1 .. Len(t) + 1, NEW n \in m - 1 .. Len(t),
           NEW u \in Texts, Len(u) = n - m + 1,
           \A i \in 1 .. Len(u) : u[i] = t[m + i - 1]
    PROVE  SubSeq(t, m, n) = u
<1> DEFINE s == SubSeq(t, m, n)
<1>1. s \in Texts /\ Len(s) = Len(u) /\ \A i \in 1 .. Len(u) : s[i] = t[m + i - 1]
  BY Part
<1> HIDE DEF s
<1>2. \A i \in 1 .. Len(s) : s[i] = u[i]
  BY <1>1
<1>3. s = u
  BY <1>1, <1>2, SeqEqual DEF Texts
<1>4. QED
  BY <1>3 DEF s

LEMMA PartNone ==
    ASSUME NEW t \in Texts, NEW m \in 1 .. Len(t) + 1
    PROVE  SubSeq(t, m, m - 1) = <<>>
<1>1. Len(t) \in Nat
  BY TextIs
<1>2. m - 1 \in m - 1 .. Len(t) /\ m - 1 - m + 1 = 0
  BY <1>1
<1>3. SubSeq(t, m, m - 1) \in Texts /\ Len(SubSeq(t, m, m - 1)) = m - 1 - m + 1
  BY <1>2, Part
<1>4. QED
  BY <1>2, <1>3, TextIs

(* A part of a part *)
LEMMA PartPart ==
    ASSUME NEW t \in Texts, NEW m \in 1 .. Len(t) + 1, NEW n \in m - 1 .. Len(t),
           NEW a \in 1 .. n - m + 2, NEW b \in a - 1 .. n - m + 1
    PROVE  SubSeq(SubSeq(t, m, n), a, b) = SubSeq(t, m + a - 1, m + b - 1)
<1> DEFINE s == SubSeq(t, m, n)
           u == SubSeq(s, a, b)
           p == m + a - 1
           q == m + b - 1
<1>1. Len(t) \in Nat
  BY TextIs
<1>2. s \in Texts /\ Len(s) = n - m + 1 /\ \A i \in 1 .. n - m + 1 : s[i] = t[m + i - 1]
  BY Part
<1> HIDE DEF s
<1>3. a \in 1 .. Len(s) + 1 /\ b \in a - 1 .. Len(s)
  BY <1>1, <1>2
<1>4. u \in Texts /\ Len(u) = b - a + 1 /\ \A i \in 1 .. b - a + 1 : u[i] = s[a + i - 1]
  BY <1>2, <1>3, Part
<1> HIDE DEF u
<1>5. p \in 1 .. Len(t) + 1 /\ q \in p - 1 .. Len(t) /\ q - p + 1 = b - a + 1
  BY <1>1
<1>6. ASSUME NEW i \in 1 .. Len(u)  PROVE u[i] = t[p + i - 1]
  <2>1. a + i - 1 \in 1 .. n - m + 1 /\ i \in 1 .. b - a + 1
    BY <1>1, <1>4
  <2>2. u[i] = s[a + i - 1] /\ s[a + i - 1] = t[m + (a + i - 1) - 1]
    BY <1>2, <1>4, <2>1
  <2>3. m + (a + i - 1) - 1 = p + i - 1
    OBVIOUS
  <2>4. QED
    BY <2>2, <2>3
<1> HIDE DEF p, q
<1>7. p \in 1 .. Len(t) + 1 /\ q \in p - 1 .. Len(t) /\ Len(u) = q - p + 1
  BY <1>4, <1>5
<1>8. SubSeq(t, p, q) = u
  BY Zenon, <1>4, <1>6, <1>7, PartIs
<1>9. QED
  BY <1>8 DEF p, q, u, s

LEMMA PartWithin ==
    ASSUME NEW t \in Texts, NEW m \in 1 .. Len(t) + 1, NEW n \in m - 1 .. Len(t), NEW C
    PROVE  Target!Within(SubSeq(t, m, n), C) <=> \A j \in m .. n : t[j] \in C
<1> DEFINE s == SubSeq(t, m, n)
<1>1. Len(t) \in Nat
  BY TextIs
<1>2. s \in Texts /\ Len(s) = n - m + 1 /\ \A i \in 1 .. n - m + 1 : s[i] = t[m + i - 1]
  BY Part
<1> HIDE DEF s
<1>3. DOMAIN s = 1 .. n - m + 1
  BY <1>2, TextIs
<1>4. ASSUME \A i \in 1 .. n - m + 1 : s[i] \in C, NEW j \in m .. n
      PROVE  t[j] \in C
  <2>1. j - m + 1 \in 1 .. n - m + 1 /\ m + (j - m + 1) - 1 = j
    BY <1>1
  <2>2. s[j - m + 1] = t[m + (j - m + 1) - 1]
    BY <1>2, <2>1
  <2>3. QED
    BY <1>4, <2>1, <2>2
<1>5. ASSUME \A j \in m .. n : t[j] \in C, NEW i \in 1 .. n - m + 1
      PROVE  s[i] \in C
  <2>1. m + i - 1 \in m .. n
    BY <1>1
  <2>2. QED
    BY <1>2, <1>5, <2>1
<1>6. QED
  BY <1>3, <1>4, <1>5 DEF Target!Within, s

LEMMA PartHolds ==
    ASSUME NEW t \in Texts, NEW m \in 1 .. Len(t) + 1, NEW n \in m - 1 .. Len(t), NEW C
    PROVE  Target!Holds(SubSeq(t, m, n), C) <=> \E j \in m .. n : t[j] \in C
<1> DEFINE s == SubSeq(t, m, n)
<1>1. Len(t) \in Nat
  BY TextIs
<1>2. s \in Texts /\ Len(s) = n - m + 1 /\ \A i \in 1 .. n - m + 1 : s[i] = t[m + i - 1]
  BY Part
<1> HIDE DEF s
<1>3. DOMAIN s = 1 .. n - m + 1
  BY <1>2, TextIs
<1>4. ASSUME NEW j \in m .. n, t[j] \in C
      PROVE  \E i \in 1 .. n - m + 1 : s[i] \in C
  <2>1. j - m + 1 \in 1 .. n - m + 1 /\ m + (j - m + 1) - 1 = j
    BY <1>1
  <2>2. s[j - m + 1] = t[m + (j - m + 1) - 1]
    BY <1>2, <2>1
  <2>3. QED
    BY <1>4, <2>1, <2>2
<1>5. ASSUME NEW i \in 1 .. n - m + 1, s[i] \in C
      PROVE  \E j \in m .. n : t[j] \in C
  <2>1. m + i - 1 \in m .. n
    BY <1>1
  <2>2. QED
    BY <1>2, <1>5, <2>1
<1>6. QED
  BY <1>3, <1>4, <1>5 DEF Target!Holds, s

(* The first place of a character *)
LEMMA FirstIs ==
    ASSUME NEW t \in Texts, NEW c, Target!Holds(t, {c})
    PROVE  /\ Target!First(t, c) \in 1 .. Len(t)
           /\ t[Target!First(t, c)] = c
           /\ \A j \in 1 .. Target!First(t, c) - 1 : t[j] # c
<1> DEFINE T == {i \in 1 .. Len(t) : t[i] = c}
<1>1. Len(t) \in Nat /\ DOMAIN t = 1 .. Len(t)
  BY TextIs
<1>2. T # {} /\ T \in SUBSET Nat
  BY <1>1 DEF Target!Holds
<1>3. PICK m \in T : \A k \in T : m <= k
  BY <1>2, Smallest
<1>4. m \in 1 .. Len(t) /\ t[m] = c
  BY <1>3
<1>5. \A j \in 1 .. m - 1 : t[j] # c
  <2>1. ASSUME NEW j \in 1 .. m - 1, t[j] = c  PROVE FALSE
    <3>1. j \in 1 .. Len(t) /\ m \in Nat /\ ~(m <= j)
      BY <1>1, <1>4
    <3>2. j \in T
      BY <2>1, <3>1
    <3>3. QED
      BY <1>3, <3>1, <3>2
  <2>2. QED
    BY <2>1
<1> HIDE DEF T
<1>6. \E i \in DOMAIN t : t[i] = c /\ \A j \in 1 .. i - 1 : t[j] # c
  BY <1>1, <1>4, <1>5
<1>7. QED
  BY <1>1, <1>6 DEF Target!First

LEMMA FirstAt ==
    ASSUME NEW t \in Texts, NEW c, NEW i \in 1 .. Len(t), t[i] = c,
           \A j \in 1 .. i - 1 : t[j] # c
    PROVE  Target!First(t, c) = i /\ Target!Holds(t, {c})
<1>1. Len(t) \in Nat /\ DOMAIN t = 1 .. Len(t)
  BY TextIs
<1>2. Target!Holds(t, {c})
  BY <1>1 DEF Target!Holds
<1> DEFINE f == Target!First(t, c)
<1>3. f \in 1 .. Len(t) /\ t[f] = c /\ \A j \in 1 .. f - 1 : t[j] # c
  BY <1>2, FirstIs
<1> HIDE DEF f
<1>4. ~(f \in 1 .. i - 1) /\ ~(i \in 1 .. f - 1)
  BY <1>3
<1>5. f = i
  BY <1>1, <1>3, <1>4
<1>6. QED
  BY <1>2, <1>5 DEF f

-----------------------------------------------------------------------------
(* Blanks around a part *)

(* The greatest of a bounded set, and what CHOOSE makes of an extremum *)
LEMMA Greatest ==
    ASSUME NEW n \in Nat, NEW T \in SUBSET (0 .. n), T # {}
    PROVE  \E m \in T : \A k \in T : k <= m
<1> DEFINE U == {n - k : k \in T}
<1>1. U \in SUBSET Nat /\ U # {}
  <2>1. \A k \in T : n - k \in Nat
    OBVIOUS
  <2>2. QED
    BY <2>1
<1>2. PICK u \in U : \A v \in U : u <= v
  BY <1>1, Smallest
<1>3. PICK m \in T : u = n - m
  OBVIOUS
<1>4. \A k \in T : n - m <= n - k
  BY <1>2, <1>3
<1>5. \A k \in T : k <= m
  BY <1>4
<1>6. QED
  BY <1>5

LEMMA ChosenLeast ==
    ASSUME NEW S, NEW x \in S, x \in Int, \A i \in S : i \in Int /\ x <= i
    PROVE  (CHOOSE i \in S : \A j \in S : i <= j) = x
<1> DEFINE c == CHOOSE i \in S : \A j \in S : i <= j
<1>1. \E i \in S : \A j \in S : i <= j
  OBVIOUS
<1>2. c \in S /\ \A j \in S : c <= j
  BY <1>1
<1> HIDE DEF c
<1>3. c \in Int /\ x <= c /\ c <= x
  BY <1>2
<1>4. c = x
  BY <1>3
<1>5. QED
  BY <1>4 DEF c

LEMMA ChosenGreatest ==
    ASSUME NEW S, NEW x \in S, x \in Int, \A i \in S : i \in Int /\ x >= i
    PROVE  (CHOOSE i \in S : \A j \in S : i >= j) = x
<1> DEFINE c == CHOOSE i \in S : \A j \in S : i >= j
<1>1. \E i \in S : \A j \in S : i >= j
  OBVIOUS
<1>2. c \in S /\ \A j \in S : c >= j
  BY <1>1
<1> HIDE DEF c
<1>3. c \in Int /\ x >= c /\ c >= x
  BY <1>2
<1>4. c = x
  BY <1>3
<1>5. QED
  BY <1>4 DEF c

(* Blanks around a part, and none at its ends *)
Core(t, a, b, p, q) ==
    /\ p \in a .. b + 1 /\ q \in p - 1 .. b
    /\ \A k \in a .. b : k < p \/ k > q => t[k] = Target!Space
    /\ p <= q => t[p] # Target!Space /\ t[q] # Target!Space

LEMMA CoreExists ==
    ASSUME NEW t \in Texts, NEW a \in 1 .. Len(t) + 1, NEW b \in a - 1 .. Len(t)
    PROVE  \E p, q : Core(t, a, b, p, q)
<1> DEFINE T == {k \in a .. b : t[k] # Target!Space}
<1>1. Len(t) \in Nat
  BY TextIs
<1>2. CASE T = {}
  <2>1. \A k \in a .. b : t[k] = Target!Space
    BY <1>2
  <2>2. Core(t, a, b, b + 1, b)
    BY <1>1, <2>1 DEF Core
  <2>3. QED
    BY <2>2
<1>3. CASE T # {}
  <2>1. T \in SUBSET Nat /\ T \in SUBSET (0 .. b) /\ b \in Nat
    BY <1>1
  <2>2. PICK p \in T : \A k \in T : p <= k
    BY <1>3, <2>1, Smallest
  <2>3. PICK q \in T : \A k \in T : k <= q
    BY <1>3, <2>1, Greatest
  <2>4. p \in a .. b /\ q \in a .. b /\ p <= q
    BY <2>2, <2>3
  <2>5. t[p] # Target!Space /\ t[q] # Target!Space
    BY <2>2, <2>3
  <2>6. ASSUME NEW k \in a .. b, k < p \/ k > q  PROVE t[k] = Target!Space
    <3>1. ~(p <= k) \/ ~(k <= q)
      BY <1>1, <2>4, <2>6
    <3>2. k \notin T
      BY <2>2, <2>3, <3>1
    <3>3. QED
      BY <3>2
  <2> HIDE DEF T
  <2>7. Core(t, a, b, p, q)
    BY <1>1, <2>4, <2>5, <2>6 DEF Core
  <2>8. QED
    BY <2>7
<1>4. QED
  BY <1>2, <1>3

LEMMA CoreTrim ==
    ASSUME NEW t \in Texts, NEW a \in 1 .. Len(t) + 1, NEW b \in a - 1 .. Len(t),
           NEW p, NEW q, Core(t, a, b, p, q)
    PROVE  Target!Trim(SubSeq(t, a, b)) = SubSeq(t, p, q)
<1> DEFINE s == SubSeq(t, a, b)
           kept == {i \in DOMAIN s : s[i] # Target!Space}
<1>1. Len(t) \in Nat
  BY TextIs
<1>2. /\ s \in Texts /\ Len(s) = b - a + 1
      /\ \A i \in 1 .. b - a + 1 : s[i] = t[a + i - 1]
  BY Part
<1> HIDE DEF s
<1>3. DOMAIN s = 1 .. b - a + 1
  BY <1>2, TextIs
<1>4. p \in a .. b + 1 /\ q \in p - 1 .. b
  BY DEF Core
<1>5. \A i \in 1 .. b - a + 1 : i \in kept => a + i - 1 >= p /\ a + i - 1 <= q
  <2>1. ASSUME NEW i \in 1 .. b - a + 1, i \in kept
        PROVE  a + i - 1 >= p /\ a + i - 1 <= q
    <3>1. a + i - 1 \in a .. b /\ t[a + i - 1] # Target!Space
      BY <1>1, <1>2, <2>1
    <3>2. ~(a + i - 1 < p \/ a + i - 1 > q)
      BY <3>1 DEF Core
    <3>3. QED
      BY <1>1, <1>4, <3>1, <3>2
  <2>2. QED
    BY <2>1
<1>6. CASE ~(p <= q)
  <2>1. q = p - 1
    BY <1>1, <1>4, <1>6
  <2>2. kept = {}
    BY <1>1, <1>3, <1>4, <1>5, <2>1
  <2>3. Target!Trim(s) = <<>>
    BY <2>2 DEF Target!Trim
  <2>4. p \in 1 .. Len(t) + 1
    BY <1>1, <1>4
  <2>5. QED
    BY <2>1, <2>3, <2>4, PartNone DEF s
<1>7. CASE p <= q
  <2> DEFINE x == p - a + 1
             y == q - a + 1
  <2>1. x \in 1 .. b - a + 1 /\ y \in 1 .. b - a + 1 /\ a + x - 1 = p /\ a + y - 1 = q
    BY <1>1, <1>4, <1>7
  <2>2. x \in kept /\ y \in kept
    <3>1. t[p] # Target!Space /\ t[q] # Target!Space
      BY <1>7 DEF Core
    <3>2. s[x] = t[a + x - 1] /\ s[y] = t[a + y - 1]
      BY <1>2, <2>1
    <3>3. QED
      BY <1>3, <2>1, <3>1, <3>2
  <2>3. \A i \in kept : i \in Int /\ x <= i /\ y >= i
    <3>1. ASSUME NEW i \in kept  PROVE i \in Int /\ x <= i /\ y >= i
      <4>1. i \in 1 .. b - a + 1
        BY <1>3
      <4>2. a + i - 1 >= p /\ a + i - 1 <= q
        BY <1>5, <4>1
      <4>3. QED
        BY <1>1, <1>4, <4>1, <4>2
    <3>2. QED
      BY <3>1
  <2>4. x \in Int /\ y \in Int
    BY <2>1
  <2> HIDE DEF x, y, kept
  <2>5. (CHOOSE i \in kept : \A j \in kept : i <= j) = x
    BY <2>2, <2>3, <2>4, ChosenLeast
  <2>6. (CHOOSE i \in kept : \A j \in kept : i >= j) = y
    BY <2>2, <2>3, <2>4, ChosenGreatest
  <2>7. Target!Trim(s) = SubSeq(s, x, y)
    <3>1. kept # {}
      BY <2>2
    <3>2. QED
      BY <2>5, <2>6, <3>1 DEF Target!Trim, kept
  <2>8. SubSeq(s, x, y) = SubSeq(t, a + x - 1, a + y - 1)
    <3>1. x \in 1 .. b - a + 2 /\ y \in x - 1 .. b - a + 1
      BY <1>1, <1>4, <1>7 DEF x, y
    <3>2. QED
      BY <3>1, PartPart DEF s
  <2>9. QED
    BY <2>1, <2>7, <2>8 DEF s
<1>8. QED
  BY <1>6, <1>7

LEMMA WholeIs ==
    ASSUME NEW t \in Texts
    PROVE  SubSeq(t, 1, Len(t)) = t
BY SubSeqFull DEF Texts

LEMMA TrimWhole ==
    ASSUME NEW t \in Texts, NEW p, NEW q, Core(t, 1, Len(t), p, q)
    PROVE  Target!Trim(t) = SubSeq(t, p, q)
<1> DEFINE a == 1
           b == Len(t)
<1>1. a \in 1 .. Len(t) + 1 /\ b \in a - 1 .. Len(t) /\ Core(t, a, b, p, q)
  BY TextIs
<1>2. SubSeq(t, a, b) = t
  BY WholeIs
<1> HIDE DEF a, b
<1>3. Target!Trim(SubSeq(t, a, b)) = SubSeq(t, p, q)
  BY <1>1, CoreTrim
<1>4. QED
  BY <1>2, <1>3

(* Blanks around a part change nothing *)
LEMMA TrimWider ==
    ASSUME NEW t \in Texts, NEW a \in 1 .. Len(t) + 1, NEW b \in a - 1 .. Len(t),
           NEW c \in a .. b + 1, NEW d \in c - 1 .. b,
           \A k \in a .. b : k < c \/ k > d => t[k] = Target!Space
    PROVE  Target!Trim(SubSeq(t, a, b)) = Target!Trim(SubSeq(t, c, d))
<1>1. Len(t) \in Nat
  BY TextIs
<1>2. c \in 1 .. Len(t) + 1 /\ d \in c - 1 .. Len(t)
  BY <1>1
<1>3. PICK p, q : Core(t, c, d, p, q)
  BY <1>2, CoreExists
<1>4. Core(t, a, b, p, q)
  <2>1. p \in c .. d + 1 /\ q \in p - 1 .. d
    BY <1>3 DEF Core
  <2>2. p \in a .. b + 1 /\ q \in p - 1 .. b
    BY <1>1, <2>1
  <2>3. ASSUME NEW k \in a .. b, k < p \/ k > q  PROVE t[k] = Target!Space
    <3>1. CASE k \in c .. d
      BY <1>3, <2>3, <3>1 DEF Core
    <3>2. CASE k \notin c .. d
      <4>1. k < c \/ k > d
        BY <1>1, <3>2
      <4>2. QED
        BY <4>1
    <3>3. QED
      BY <3>1, <3>2
  <2>4. QED
    BY <1>3, <2>2, <2>3 DEF Core
<1>5. Target!Trim(SubSeq(t, c, d)) = SubSeq(t, p, q)
  BY <1>2, <1>3, CoreTrim
<1>6. Target!Trim(SubSeq(t, a, b)) = SubSeq(t, p, q)
  BY <1>4, CoreTrim
<1>7. QED
  BY <1>5, <1>6

-----------------------------------------------------------------------------
(* --status *)

(* The number that a text is, with or without + *)
Means(x, n) == \/ IsNumber(x, n)
               \/ x # <<>> /\ x[1] = "+" /\ IsNumber(SubSeq(x, 2, Len(x)), n)

LEMMA StatusCodeIs ==
    ASSUME NEW x \in Texts
    PROVE  /\ Target!StatusCode(x) \in (MinCode .. MaxCode) \cup {Target!NoCode}
           /\ \A n \in MinCode .. MaxCode : Target!StatusCode(x) = n <=> Means(x, n)
           /\ Target!NoCode \notin MinCode .. MaxCode
<1>1. Target!NoCode \notin MinCode .. MaxCode
  BY NumbersAssumption DEF Target!NoCode
<1>2. Target!StartsWith(x, "+") <=> x # <<>> /\ x[1] = "+"
  BY DEF Target!StartsWith
<1> DEFINE d == IF Target!StartsWith(x, "+") THEN Tail(x) ELSE x
           c == IF d # <<>> /\ Target!Within(d, DOMAIN Places)
                  THEN Target!Number(d) ELSE Target!NoCode
<1>3. Target!StatusCode(x) = IF c \in MinCode .. MaxCode THEN c ELSE Target!NoCode
  BY DEF Target!StatusCode
<1>4. ASSUME NEW n  PROVE Means(x, n) <=> IsNumber(d, n)
  <2>1. CASE x # <<>> /\ x[1] = "+"
    <3>1. d = SubSeq(x, 2, Len(x))
      BY <1>2, <2>1, TailIsSubSeq DEF Texts
    <3>2. ~IsNumber(x, n)
      <4>1. 1 \in DOMAIN x
        BY <2>1, TextIs
      <4>2. x[1] \notin DOMAIN Places
        BY <2>1, ClassesAre
      <4>3. QED
        BY <4>1, <4>2 DEF IsNumber, Target!Within
    <3>3. QED
      BY <2>1, <3>1, <3>2 DEF Means
  <2>2. CASE ~(x # <<>> /\ x[1] = "+")
    BY <1>2, <2>2 DEF Means
  <2>3. QED
    BY <2>1, <2>2
<1> HIDE DEF d
<1>5. \A n : IsNumber(d, n) <=> /\ d # <<>> /\ Target!Within(d, DOMAIN Places)
                                /\ n = Target!Number(d)
  BY DEF IsNumber
<1>6. CASE d # <<>> /\ Target!Within(d, DOMAIN Places)
  BY <1>1, <1>3, <1>4, <1>5, <1>6
<1>7. CASE ~(d # <<>> /\ Target!Within(d, DOMAIN Places))
  BY <1>1, <1>3, <1>4, <1>5, <1>7
<1>8. QED
  BY <1>6, <1>7

LEMMA SpaceIsNoDigit == Target!Space \notin DOMAIN Places /\ Target!Space # "+"
BY SpaceIs, ClassesAre

(* What IsCode finds in a text begins and ends where the blanks do *)
LEMMA CodeIs ==
    ASSUME NEW t \in Texts, NEW n, NEW i \in 1 .. Len(t), NEW j \in i .. Len(t)
    PROVE  Means(SubSeq(t, i, j), n) <=>
              \/ IsNumber(SubSeq(t, i, j), n)
              \/ t[i] = "+" /\ IsNumber(SubSeq(t, i + 1, j), n)
<1> DEFINE s == SubSeq(t, i, j)
<1>1. Len(t) \in Nat
  BY TextIs
<1>2. i \in 1 .. Len(t) + 1 /\ j \in i - 1 .. Len(t)
  BY <1>1
<1>3. s \in Texts /\ Len(s) = j - i + 1 /\ \A k \in 1 .. j - i + 1 : s[k] = t[i + k - 1]
  BY <1>2, Part
<1>4. s # <<>> /\ s[1] = t[i]
  <2>1. 1 \in 1 .. j - i + 1 /\ i + 1 - 1 = i /\ Len(s) # 0
    BY <1>1, <1>3
  <2>2. s[1] = t[i + 1 - 1]
    BY <1>3, <2>1
  <2>3. QED
    BY <1>3, <2>1, <2>2, TextIs
<1>5. SubSeq(s, 2, Len(s)) = SubSeq(t, i + 1, j)
  <2> DEFINE a == 2
             b == j - i + 1
  <2>1. a \in 1 .. j - i + 2 /\ b \in a - 1 .. j - i + 1
    BY <1>1
  <2>2. i + a - 1 = i + 1 /\ i + b - 1 = j /\ Len(s) = b
    BY <1>1, <1>3
  <2> HIDE DEF a, b
  <2>3. SubSeq(s, a, b) = SubSeq(t, i + a - 1, i + b - 1)
    BY <1>2, <2>1, PartPart
  <2> HIDE DEF s
  <2>4. QED
    BY <2>2, <2>3 DEF a
<1>6. QED
  BY <1>4, <1>5 DEF Means

LEMMA CodeIsSolid ==
    ASSUME NEW t \in Texts, NEW n, NEW i \in 1 .. Len(t), NEW j \in i .. Len(t),
           Means(SubSeq(t, i, j), n)
    PROVE  \A k \in i .. j : t[k] \in DOMAIN Places \/ t[k] = "+"
<1>1. Len(t) \in Nat
  BY TextIs
<1>2. i \in 1 .. Len(t) + 1 /\ j \in i - 1 .. Len(t)
  BY <1>1
<1>3. CASE IsNumber(SubSeq(t, i, j), n)
  <2>1. Target!Within(SubSeq(t, i, j), DOMAIN Places)
    BY <1>3 DEF IsNumber
  <2>2. QED
    BY <1>2, <2>1, PartWithin
<1>4. CASE t[i] = "+" /\ IsNumber(SubSeq(t, i + 1, j), n)
  <2>1. Target!Within(SubSeq(t, i + 1, j), DOMAIN Places)
    BY <1>4 DEF IsNumber
  <2>2. i + 1 \in 1 .. Len(t) + 1 /\ j \in (i + 1) - 1 .. Len(t)
    BY <1>1
  <2>3. \A k \in i + 1 .. j : t[k] \in DOMAIN Places
    BY <2>1, <2>2, PartWithin
  <2>4. \A k \in i .. j : k = i \/ k \in i + 1 .. j
    BY <1>1
  <2>5. QED
    BY <1>4, <2>3, <2>4
<1>5. QED
  BY <1>3, <1>4, CodeIs

LEMMA IsCodeTrim ==
    ASSUME NEW t \in Texts, NEW n
    PROVE  IsCode(t, n) <=> Means(Target!Trim(t), n)
<1>1. Len(t) \in Nat /\ 1 \in 1 .. Len(t) + 1 /\ Len(t) \in 1 - 1 .. Len(t)
  BY TextIs
<1>2. ASSUME NEW p, NEW q, Core(t, 1, Len(t), p, q)
      PROVE  Target!Trim(t) = SubSeq(t, p, q)
  BY <1>2, TrimWhole
<1>3. IsCode(t, n) <=>
         \E i, j \in 1 .. Len(t) :
            /\ i <= j /\ Means(SubSeq(t, i, j), n)
            /\ \A k \in 1 .. Len(t) : k < i \/ k > j => t[k] = Target!Space
  <2>1. \A i, j \in 1 .. Len(t) : i <= j =>
           (Means(SubSeq(t, i, j), n) <=>
              \/ IsNumber(SubSeq(t, i, j), n)
              \/ t[i] = "+" /\ IsNumber(SubSeq(t, i + 1, j), n))
    <3>1. \A i, j \in 1 .. Len(t) : i <= j => j \in i .. Len(t)
      BY <1>1
    <3>2. QED
      BY <3>1, CodeIs
  <2>2. QED
    BY <2>1 DEF IsCode
<1>4. ASSUME NEW i \in 1 .. Len(t), NEW j \in 1 .. Len(t),
             i <= j, Means(SubSeq(t, i, j), n),
             \A k \in 1 .. Len(t) : k < i \/ k > j => t[k] = Target!Space
      PROVE  Means(Target!Trim(t), n)
  <2>1. j \in i .. Len(t) /\ i \in i .. j /\ j \in i .. j
    BY <1>1, <1>4
  <2>2. \A k \in i .. j : t[k] \in DOMAIN Places \/ t[k] = "+"
    BY <1>4, <2>1, CodeIsSolid
  <2>3. t[i] # Target!Space /\ t[j] # Target!Space
    BY <2>1, <2>2, SpaceIsNoDigit
  <2>4. i \in 1 .. Len(t) + 1 /\ j \in i - 1 .. Len(t)
    BY <1>1, <1>4
  <2>5. Core(t, 1, Len(t), i, j)
    BY <1>4, <2>3, <2>4 DEF Core
  <2>6. QED
    BY <1>2, <1>4, <2>5
<1>5. ASSUME Means(Target!Trim(t), n)
      PROVE  \E i, j \in 1 .. Len(t) :
                /\ i <= j /\ Means(SubSeq(t, i, j), n)
                /\ \A k \in 1 .. Len(t) : k < i \/ k > j => t[k] = Target!Space
  <2>1. PICK p, q : Core(t, 1, Len(t), p, q)
    BY <1>1, CoreExists
  <2>2. Target!Trim(t) = SubSeq(t, p, q)
    BY <1>2, <2>1
  <2>3. p \in 1 .. Len(t) + 1 /\ q \in p - 1 .. Len(t)
    BY <2>1 DEF Core
  <2>4. p <= q
    <3>1. SubSeq(t, p, q) # <<>>
      BY <1>5, <2>2 DEF Means, IsNumber
    <3>2. q = p - 1 \/ p <= q
      BY <1>1, <2>3
    <3>3. QED
      BY <2>3, <3>1, <3>2, PartNone
  <2>5. p \in 1 .. Len(t) /\ q \in 1 .. Len(t)
    BY <1>1, <2>3, <2>4
  <2>6. \A k \in 1 .. Len(t) : k < p \/ k > q => t[k] = Target!Space
    BY <2>1 DEF Core
  <2>7. QED
    BY <1>5, <2>2, <2>4, <2>5, <2>6
<1>6. QED
  BY <1>3, <1>4, <1>5

LEMMA CodeHasNoDash ==
    ASSUME NEW t \in Texts, NEW n, IsCode(t, n)
    PROVE  \A k \in 1 .. Len(t) : t[k] # "-"
<1>1. Len(t) \in Nat
  BY TextIs
<1>2. PICK i, j \in 1 .. Len(t) :
         /\ i <= j /\ \A k \in 1 .. Len(t) : k < i \/ k > j => t[k] = Target!Space
         /\ \/ IsNumber(SubSeq(t, i, j), n)
            \/ t[i] = "+" /\ IsNumber(SubSeq(t, i + 1, j), n)
  BY DEF IsCode
<1>3. j \in i .. Len(t)
  BY <1>1, <1>2
<1>4. Means(SubSeq(t, i, j), n)
  BY <1>2, <1>3, CodeIs
<1>5. \A k \in i .. j : t[k] \in DOMAIN Places \/ t[k] = "+"
  BY <1>3, <1>4, CodeIsSolid
<1>6. \A k \in 1 .. Len(t) : k \in i .. j \/ k < i \/ k > j
  BY <1>1
<1>7. \A k \in 1 .. Len(t) : t[k] \in DOMAIN Places \/ t[k] = "+" \/ t[k] = Target!Space
  BY <1>2, <1>5, <1>6
<1>8. "-" \notin DOMAIN Places /\ "-" # "+" /\ "-" # Target!Space
  BY ClassesAre, SpaceIs
<1>9. QED
  BY <1>7, <1>8

(* The type of a trimmed text; both modules trim alike *)
LEMMA TrimTyped ==
    ASSUME NEW t \in Texts
    PROVE  Target!Trim(t) \in Texts /\ Headers!Trim(t) = Target!Trim(t)
<1>1. Target!Trim(t) \in Texts
  <2>1. Len(t) \in Nat /\ 1 \in 1 .. Len(t) + 1 /\ Len(t) \in 1 - 1 .. Len(t)
    BY TextIs
  <2>2. PICK p, q : Core(t, 1, Len(t), p, q)
    BY <2>1, CoreExists
  <2>3. Target!Trim(t) = SubSeq(t, p, q)
    BY <2>2, TrimWhole
  <2>4. p \in 1 .. Len(t) + 1 /\ q \in p - 1 .. Len(t)
    BY <2>2 DEF Core
  <2>5. QED
    BY <2>3, <2>4, Part
<1>2. Headers!Trim(t) = Target!Trim(t)
  <2>1. Headers!Space = Target!Space
    BY SpaceIs
  <2>2. QED
    BY <2>1 DEF Headers!Trim, Target!Trim
<1>3. QED
  BY <1>1, <1>2

(* A code is read where the grammar has one *)
LEMMA StatusCodeOf ==
    ASSUME NEW t \in Texts
    PROVE  /\ Target!StatusCode(Target!Trim(t)) \in (MinCode .. MaxCode) \cup {Target!NoCode}
           /\ \A n \in MinCode .. MaxCode :
                 IsCode(t, n) <=> Target!StatusCode(Target!Trim(t)) = n
           /\ Target!NoCode \notin MinCode .. MaxCode
BY TrimTyped, StatusCodeIs, IsCodeTrim

(* What StatusIsRight allows for a text, with - and without *)
Ranges(t) == {code \in MinCode .. MaxCode :
                \/ IsCode(t, code)
                \/ \E i \in DOMAIN t, from, to \in MinCode .. MaxCode :
                      /\ t[i] = "-"
                      /\ IsCode(SubSeq(t, 1, i - 1), from)
                      /\ IsCode(SubSeq(t, i + 1, Len(t)), to)
                      /\ from <= code /\ code <= to}

LEMMA OneStatus ==
    ASSUME NEW t \in Texts, \A k \in 1 .. Len(t) : t[k] # "-"
    PROVE  Target!StatusRange(t) = Ranges(t)
<1> DEFINE s == Target!Trim(t)
           c == Target!StatusCode(s)
<1>1. Len(t) \in Nat /\ 1 \in 1 .. Len(t) + 1 /\ Len(t) \in 1 - 1 .. Len(t)
      /\ DOMAIN t = 1 .. Len(t)
  BY TextIs
<1>2. ~Target!Holds(s, {"-"})
  <2>1. PICK p, q : Core(t, 1, Len(t), p, q)
    BY <1>1, CoreExists
  <2>2. Target!Trim(t) = SubSeq(t, p, q)
    BY <2>1, TrimWhole
  <2>3. p \in 1 .. Len(t) + 1 /\ q \in p - 1 .. Len(t)
    BY <2>1 DEF Core
  <2>4. s = SubSeq(t, p, q)
    BY <2>2
  <2>5. \A k \in p .. q : k \in 1 .. Len(t)
    BY <1>1, <2>3
  <2> HIDE DEF s
  <2>6. QED
    BY <2>3, <2>4, <2>5, PartHolds
<1>3. /\ c \in (MinCode .. MaxCode) \cup {Target!NoCode}
      /\ \A n \in MinCode .. MaxCode : IsCode(t, n) <=> c = n
      /\ Target!NoCode \notin MinCode .. MaxCode
  BY StatusCodeOf
<1>4. Target!StatusRange(t) = IF c = Target!NoCode THEN {} ELSE {c}
  BY <1>2 DEF Target!StatusRange
<1>5. Ranges(t) = {code \in MinCode .. MaxCode : IsCode(t, code)}
  BY <1>1 DEF Ranges
<1> HIDE DEF c
<1>6. QED
  BY <1>3, <1>4, <1>5

LEMMA StatusFromTo ==
    ASSUME NEW t \in Texts, \E k \in 1 .. Len(t) : t[k] = "-"
    PROVE  Target!StatusRange(t) = Ranges(t)
<1> DEFINE s == Target!Trim(t)
           f == Target!First(s, "-")
<1>1. Len(t) \in Nat /\ 1 \in 1 .. Len(t) + 1 /\ Len(t) \in 1 - 1 .. Len(t)
      /\ DOMAIN t = 1 .. Len(t)
  BY TextIs
<1>2. PICK p, q : Core(t, 1, Len(t), p, q)
  BY <1>1, CoreExists
<1>3. p \in 1 .. Len(t) + 1 /\ q \in p - 1 .. Len(t)
  BY <1>2 DEF Core
<1>4. s = SubSeq(t, p, q)
  BY <1>2, TrimWhole
<1>5. s \in Texts /\ Len(s) = q - p + 1 /\ \A k \in 1 .. q - p + 1 : s[k] = t[p + k - 1]
  BY <1>3, <1>4, Part
<1>6. \A k \in 1 .. Len(t) : k < p \/ k > q => t[k] = Target!Space
  BY <1>2 DEF Core
<1>7. Target!Holds(s, {"-"})
  <2>1. PICK k \in 1 .. Len(t) : t[k] = "-"
    OBVIOUS
  <2>2. ~(k < p \/ k > q)
    BY <1>6, <2>1, SpaceIs
  <2>3. k \in p .. q
    BY <1>1, <1>3, <2>2
  <2>4. QED
    BY <1>3, <1>4, <2>1, <2>3, PartHolds
<1> HIDE DEF s
<1>8. f \in 1 .. Len(s) /\ s[f] = "-" /\ \A j \in 1 .. f - 1 : s[j] # "-"
  BY <1>5, <1>7, FirstIs
<1> DEFINE g == p + f - 1
           x == SubSeq(t, 1, g - 1)
           y == SubSeq(t, g + 1, Len(t))
           from == Target!StatusCode(Target!Trim(x))
           to   == Target!StatusCode(Target!Trim(y))
<1> HIDE DEF f
<1>9. g \in p .. q /\ g \in 1 .. Len(t) /\ f = g - p + 1 /\ f \in 1 .. q - p + 1
  BY <1>1, <1>3, <1>5, <1>8
<1>10. t[g] = "-"
  BY <1>5, <1>8, <1>9
<1>11. \A k \in 1 .. g - 1 : t[k] # "-"
  <2>1. ASSUME NEW k \in 1 .. g - 1  PROVE t[k] # "-"
    <3>1. CASE k < p
      BY <1>1, <1>6, <1>9, <3>1, SpaceIs
    <3>2. CASE ~(k < p)
      <4>1. k - p + 1 \in 1 .. f - 1 /\ k - p + 1 \in 1 .. q - p + 1 /\ p + (k - p + 1) - 1 = k
        BY <1>1, <1>3, <1>9, <3>2
      <4>2. s[k - p + 1] = t[p + (k - p + 1) - 1] /\ s[k - p + 1] # "-"
        BY <1>5, <1>8, <4>1
      <4>3. QED
        BY <4>1, <4>2
    <3>3. QED
      BY <3>1, <3>2
  <2>2. QED
    BY <2>1
<1> HIDE DEF g
<1>12. Target!Trim(Target!Head1(s, "-")) = Target!Trim(x)
  <2>1. f - 1 \in 1 - 1 .. q - p + 1 /\ 1 \in 1 .. q - p + 2
        /\ p + 1 - 1 = p /\ p + (f - 1) - 1 = g - 1
    BY <1>1, <1>3, <1>9
  <2>2. SubSeq(SubSeq(t, p, q), 1, f - 1) = SubSeq(t, p + 1 - 1, p + (f - 1) - 1)
    BY <1>3, <2>1, PartPart
  <2>3. Target!Head1(s, "-") = SubSeq(t, p, g - 1)
    BY <1>4, <2>1, <2>2 DEF Target!Head1, f
  <2>4. /\ 1 \in 1 .. Len(t) + 1 /\ g - 1 \in 1 - 1 .. Len(t)
        /\ p \in 1 .. (g - 1) + 1 /\ g - 1 \in p - 1 .. g - 1
    BY <1>1, <1>3, <1>9
  <2>5. \A k \in 1 .. g - 1 : k < p \/ k > g - 1 => t[k] = Target!Space
    BY <1>1, <1>6, <1>9
  <2>6. Target!Trim(SubSeq(t, 1, g - 1)) = Target!Trim(SubSeq(t, p, g - 1))
    BY <2>4, <2>5, TrimWider
  <2>7. QED
    BY <2>3, <2>6
<1>13. Target!Trim(Target!Rest1(s, "-")) = Target!Trim(y)
  <2>1. /\ f + 1 \in 1 .. q - p + 2 /\ q - p + 1 \in (f + 1) - 1 .. q - p + 1
        /\ p + (f + 1) - 1 = g + 1 /\ p + (q - p + 1) - 1 = q
    BY <1>1, <1>3, <1>9
  <2>2. SubSeq(SubSeq(t, p, q), f + 1, q - p + 1) =
           SubSeq(t, p + (f + 1) - 1, p + (q - p + 1) - 1)
    BY <1>3, <2>1, PartPart
  <2>3. Target!Rest1(s, "-") = SubSeq(t, g + 1, q)
    BY <1>4, <1>5, <2>1, <2>2 DEF Target!Rest1, f
  <2>4. /\ g + 1 \in 1 .. Len(t) + 1 /\ Len(t) \in (g + 1) - 1 .. Len(t)
        /\ g + 1 \in g + 1 .. Len(t) + 1 /\ q \in (g + 1) - 1 .. Len(t)
    BY <1>1, <1>3, <1>9
  <2>5. \A k \in g + 1 .. Len(t) : k < g + 1 \/ k > q => t[k] = Target!Space
    BY <1>1, <1>6, <1>9
  <2>6. Target!Trim(SubSeq(t, g + 1, Len(t))) = Target!Trim(SubSeq(t, g + 1, q))
    BY <2>4, <2>5, TrimWider
  <2>7. QED
    BY <2>3, <2>6
<1>14. Target!StatusRange(t) =
          IF from = Target!NoCode \/ to = Target!NoCode THEN {} ELSE from .. to
  BY <1>7, <1>12, <1>13 DEF Target!StatusRange, s
<1>15. x \in Texts /\ y \in Texts
  <2>1. /\ 1 \in 1 .. Len(t) + 1 /\ g - 1 \in 1 - 1 .. Len(t)
        /\ g + 1 \in 1 .. Len(t) + 1 /\ Len(t) \in (g + 1) - 1 .. Len(t)
    BY <1>1, <1>9
  <2>2. QED
    BY <2>1, Part
<1>16. /\ from \in (MinCode .. MaxCode) \cup {Target!NoCode}
       /\ to \in (MinCode .. MaxCode) \cup {Target!NoCode}
       /\ \A n \in MinCode .. MaxCode : /\ IsCode(x, n) <=> from = n
                                        /\ IsCode(y, n) <=> to = n
       /\ Target!NoCode \notin MinCode .. MaxCode
  BY <1>15, StatusCodeOf
<1>17. \A n : ~IsCode(t, n)
  BY <1>9, <1>10, CodeHasNoDash
<1>18. ASSUME NEW i \in 1 .. Len(t), NEW n, t[i] = "-", IsCode(SubSeq(t, 1, i - 1), n)
       PROVE  i = g
  <2>1. i - 1 \in 1 - 1 .. Len(t) /\ ~(i \in 1 .. g - 1)
    BY <1>1, <1>11, <1>18
  <2>2. ASSUME g \in 1 .. i - 1  PROVE FALSE
    <3> DEFINE z == SubSeq(t, 1, i - 1)
               d == i - 1
    <3>1. d \in 1 - 1 .. Len(t) /\ g \in 1 .. d - 1 + 1 /\ 1 + g - 1 = g
      BY <1>9, <2>1, <2>2
    <3> HIDE DEF d
    <3>2. /\ SubSeq(t, 1, d) \in Texts /\ Len(SubSeq(t, 1, d)) = d - 1 + 1
          /\ \A k \in 1 .. d - 1 + 1 : SubSeq(t, 1, d)[k] = t[1 + k - 1]
      BY <1>1, <3>1, Part
    <3>3. z \in Texts /\ g \in 1 .. Len(z) /\ z[g] = "-"
      BY <1>10, <3>1, <3>2 DEF d
    <3> HIDE DEF z
    <3>4. IsCode(z, n)
      BY <1>18 DEF z
    <3>5. QED
      BY <3>3, <3>4, CodeHasNoDash
  <2>3. QED
    BY <1>9, <2>1, <2>2
<1>19. ASSUME NEW code \in MinCode .. MaxCode
       PROVE  code \in Ranges(t) <=> /\ from # Target!NoCode /\ to # Target!NoCode
                                     /\ from <= code /\ code <= to
  <2>1. code \in Ranges(t) <=>
           \E i \in 1 .. Len(t), a, b \in MinCode .. MaxCode :
              /\ t[i] = "-"
              /\ IsCode(SubSeq(t, 1, i - 1), a)
              /\ IsCode(SubSeq(t, i + 1, Len(t)), b)
              /\ a <= code /\ code <= b
    BY <1>1, <1>17 DEF Ranges
  <2>2. ASSUME NEW i \in 1 .. Len(t), NEW a \in MinCode .. MaxCode,
               NEW b \in MinCode .. MaxCode, t[i] = "-",
               IsCode(SubSeq(t, 1, i - 1), a), IsCode(SubSeq(t, i + 1, Len(t)), b),
               a <= code, code <= b
        PROVE  /\ from # Target!NoCode /\ to # Target!NoCode
               /\ from <= code /\ code <= to
    <3>1. i = g
      BY <1>18, <2>2
    <3>2. IsCode(x, a) /\ IsCode(y, b)
      BY <2>2, <3>1
    <3> HIDE DEF from, to, x, y
    <3>3. from = a /\ to = b
      BY <1>16, <3>2
    <3>4. QED
      BY <1>16, <2>2, <3>3
  <2>3. ASSUME from # Target!NoCode, to # Target!NoCode, from <= code, code <= to
        PROVE  \E i \in 1 .. Len(t), a, b \in MinCode .. MaxCode :
                  /\ t[i] = "-"
                  /\ IsCode(SubSeq(t, 1, i - 1), a)
                  /\ IsCode(SubSeq(t, i + 1, Len(t)), b)
                  /\ a <= code /\ code <= b
    <3> HIDE DEF from, to
    <3>1. from \in MinCode .. MaxCode /\ to \in MinCode .. MaxCode
      BY <1>16, <2>3
    <3>2. IsCode(SubSeq(t, 1, g - 1), from) /\ IsCode(SubSeq(t, g + 1, Len(t)), to)
      BY <1>16, <3>1
    <3>3. QED
      BY <1>9, <1>10, <2>3, <3>1, <3>2
  <2>4. QED
    BY <2>1, <2>2, <2>3
<1> HIDE DEF from, to
<1>20. \A c : c \in Ranges(t) => c \in MinCode .. MaxCode
  BY DEF Ranges
<1>21. from \in MinCode .. MaxCode /\ to \in MinCode .. MaxCode =>
          \A c : c \in from .. to <=> /\ c \in MinCode .. MaxCode
                                      /\ from <= c /\ c <= to
  BY NumbersAssumption
<1>22. \A c : c \in Target!StatusRange(t) <=> c \in Ranges(t)
  <2>1. CASE from = Target!NoCode \/ to = Target!NoCode
    BY <1>14, <1>19, <1>20, <2>1
  <2>2. CASE ~(from = Target!NoCode \/ to = Target!NoCode)
    <3>1. from \in MinCode .. MaxCode /\ to \in MinCode .. MaxCode
      BY <1>16, <2>2
    <3>2. Target!StatusRange(t) = from .. to
      BY <1>14, <2>2
    <3>3. QED
      BY <1>19, <1>20, <1>21, <2>2, <3>1, <3>2
  <2>3. QED
    BY <2>1, <2>2
<1>23. QED
  BY <1>22

(* Every --status allows what the grammar says *)
LEMMA StatusHolds == Typed => StatusIsRight
<1> SUFFICES ASSUME Typed  PROVE StatusIsRight
  OBVIOUS
<1>1. text \in Texts
  BY DEF Typed
<1>2. Target!StatusRange(text) = Ranges(text)
  BY <1>1, OneStatus, StatusFromTo
<1>3. QED
  BY <1>2 DEF StatusIsRight, Ranges

-----------------------------------------------------------------------------
(* --header and the assertions on headers *)

(* There is one way to leave out the blanks around a text *)
LEMMA CoresAre ==
    ASSUME NEW t \in Texts
    PROVE  Cores(t) = {Target!Trim(t)}
<1>1. Len(t) \in Nat /\ 1 \in 1 .. Len(t) + 1 /\ Len(t) \in 1 - 1 .. Len(t)
  BY TextIs
<1> DEFINE Around == {p \in (1 .. Len(t) + 1) \X (0 .. Len(t)) :
                   /\ p[1] <= p[2] + 1
                   /\ Blank(SubSeq(t, 1, p[1] - 1))
                   /\ Blank(SubSeq(t, p[2] + 1, Len(t)))
                   /\ p[1] <= p[2] => t[p[1]] # Target!Space /\ t[p[2]] # Target!Space}
<1>2. Cores(t) = {SubSeq(t, c[1], c[2]) : c \in Around}
  BY DEF Cores
<1>3. ASSUME NEW p \in 1 .. Len(t) + 1, NEW q \in 0 .. Len(t), p <= q + 1
      PROVE  /\ Blank(SubSeq(t, 1, p - 1)) <=> \A k \in 1 .. p - 1 : t[k] = Target!Space
             /\ Blank(SubSeq(t, q + 1, Len(t))) <=>
                   \A k \in q + 1 .. Len(t) : t[k] = Target!Space
  <2>1. /\ p - 1 \in 1 - 1 .. Len(t)
        /\ q + 1 \in 1 .. Len(t) + 1 /\ Len(t) \in (q + 1) - 1 .. Len(t)
    BY <1>1
  <2>2. \A k \in 1 .. Len(t) : t[k] \in {Target!Space} <=> t[k] = Target!Space
    OBVIOUS
  <2>3. Target!Within(SubSeq(t, 1, p - 1), {Target!Space}) <=>
           \A k \in 1 .. p - 1 : t[k] \in {Target!Space}
    BY <1>1, <2>1, PartWithin
  <2>4. Target!Within(SubSeq(t, q + 1, Len(t)), {Target!Space}) <=>
           \A k \in q + 1 .. Len(t) : t[k] \in {Target!Space}
    BY <1>1, <2>1, PartWithin
  <2>5. QED
    BY <2>3, <2>4 DEF Blank
<1>4. ASSUME NEW p \in 1 .. Len(t) + 1, NEW q \in 0 .. Len(t)
      PROVE  <<p, q>> \in Around <=> Core(t, 1, Len(t), p, q)
  <2>1. <<p, q>> \in Around <=>
           /\ p <= q + 1
           /\ Blank(SubSeq(t, 1, p - 1)) /\ Blank(SubSeq(t, q + 1, Len(t)))
           /\ p <= q => t[p] # Target!Space /\ t[q] # Target!Space
    OBVIOUS
  <2>2. p <= q + 1 <=> p \in 1 .. Len(t) + 1 /\ q \in p - 1 .. Len(t)
    BY <1>1
  <2>3. \A k \in 1 .. Len(t) : /\ k < p <=> k \in 1 .. p - 1
                               /\ k > q <=> k \in q + 1 .. Len(t)
    BY <1>1
  <2>4. \A k : /\ k \in 1 .. p - 1 => k \in 1 .. Len(t)
               /\ k \in q + 1 .. Len(t) => k \in 1 .. Len(t)
    BY <1>1
  <2> HIDE DEF Around
  <2>5. QED
    BY <1>3, <2>1, <2>2, <2>3, <2>4 DEF Core
<1>5. PICK p, q : Core(t, 1, Len(t), p, q)
  BY <1>1, CoreExists
<1>6. p \in 1 .. Len(t) + 1 /\ q \in 0 .. Len(t)
  BY <1>1, <1>5 DEF Core
<1>7. ASSUME NEW a, NEW b, Core(t, 1, Len(t), a, b)
      PROVE  SubSeq(t, a, b) = Target!Trim(t)
  BY <1>7, TrimWhole
<1>8. \A c \in Around : SubSeq(t, c[1], c[2]) = Target!Trim(t)
  <2>1. ASSUME NEW c \in Around  PROVE SubSeq(t, c[1], c[2]) = Target!Trim(t)
    <3>1. c[1] \in 1 .. Len(t) + 1 /\ c[2] \in 0 .. Len(t) /\ c = <<c[1], c[2]>>
      OBVIOUS
    <3>2. Core(t, 1, Len(t), c[1], c[2])
      BY <1>4, <3>1
    <3>3. QED
      BY <1>7, <3>2
  <2>2. QED
    BY <2>1
<1>9. <<p, q>> \in Around /\ <<p, q>>[1] = p /\ <<p, q>>[2] = q
  BY <1>4, <1>5, <1>6
<1> HIDE DEF Around
<1>10. QED
  BY <1>2, <1>8, <1>9

(* Lower case leaves no name empty *)
LEMMA LoweredIs ==
    ASSUME NEW n \in Texts
    PROVE  Lowered(n) = <<>> <=> n = <<>>
<1>1. Len(n) \in Nat /\ DOMAIN n = 1 .. Len(n)
  BY TextIs
<1>2. DOMAIN Lowered(n) = 1 .. Len(n)
  BY <1>1 DEF Lowered
<1>3. Lowered(n) = <<>> => n = <<>>
  <2>1. DOMAIN <<>> = {}
    OBVIOUS
  <2>2. Lowered(n) = <<>> => Len(n) = 0
    BY <1>1, <1>2, <2>1
  <2>3. QED
    BY <2>2, TextIs
<1>4. n = <<>> => Lowered(n) = <<>>
  <2>1. ASSUME n = <<>>  PROVE Lowered(n) = <<>>
    <3> DEFINE S == {LowerCase[n[k]] : k \in DOMAIN n}
               l == Lowered(n)
    <3>1. l \in [1 .. 0 -> S]
      BY <1>1, <2>1 DEF Lowered
    <3> HIDE DEF l, S
    <3>2. l \in Seq(S) /\ Len(l) = 0
      BY <3>1, SeqDef, LenProperties
    <3>3. QED
      BY <3>2, EmptySeq DEF l
  <2>2. QED
    BY <2>1
<1>5. QED
  BY <1>3, <1>4

(* What is refused has no name *)
LEMMA RefusedIs ==
    /\ Headers!Refused.name = <<>> /\ Headers!Refused.value = <<>>
    /\ \A n, v : /\ Headers!Header(n, v).name = n /\ Headers!Header(n, v).value = v
                 /\ n # <<>> => Headers!Header(n, v) # Headers!Refused
BY DEF Headers!Refused, Headers!Header

(* Before a colon that follows another one there is no name *)
LEMMA NameHasNoColon ==
    ASSUME NEW t \in Texts, NEW i \in 1 .. Len(t),
           IsName(Target!Trim(SubSeq(t, 1, i - 1)))
    PROVE  \A k \in 1 .. i - 1 : t[k] # ":"
<1>1. Len(t) \in Nat /\ 1 \in 1 .. Len(t) + 1 /\ i - 1 \in 1 - 1 .. Len(t)
  BY TextIs
<1>2. PICK p, q : Core(t, 1, i - 1, p, q)
  BY <1>1, CoreExists
<1>3. Target!Trim(SubSeq(t, 1, i - 1)) = SubSeq(t, p, q)
  BY <1>1, <1>2, CoreTrim
<1>4. p \in 1 .. (i - 1) + 1 /\ q \in p - 1 .. i - 1
  BY <1>2 DEF Core
<1>5. p \in 1 .. Len(t) + 1 /\ q \in p - 1 .. Len(t)
  BY <1>1, <1>4
<1>6. \A k \in p .. q : t[k] \in DOMAIN LowerCase
  <2>1. Target!Within(SubSeq(t, p, q), DOMAIN LowerCase)
    BY <1>3 DEF IsName
  <2>2. QED
    BY <1>5, <2>1, PartWithin
<1>7. ASSUME NEW k \in 1 .. i - 1  PROVE t[k] # ":"
  <2>1. CASE k \in p .. q
    BY <1>6, <2>1, ClassesAre
  <2>2. CASE k \notin p .. q
    <3>1. k < p \/ k > q
      BY <1>1, <1>4, <2>2
    <3>2. t[k] = Target!Space
      BY <1>2, <3>1 DEF Core
    <3>3. QED
      BY <3>2, SpaceIs
  <2>3. QED
    BY <2>1, <2>2
<1>8. QED
  BY <1>7

(* parse_pair finds the one reading of a header, if there is one *)
LEMMA PairIs ==
    ASSUME NEW t \in Texts
    PROVE  /\ Headers!ParsePair(t) = Headers!Refused => HeaderReadings(t) = {}
           /\ Headers!ParsePair(t) # Headers!Refused =>
                 /\ HeaderReadings(t) = {Headers!ParsePair(t)}
                 /\ Headers!ParsePair(t).name # <<>>
           /\ Headers!ParsePair(t).value \in Texts
<1> DEFINE Front(i) == Target!Trim(SubSeq(t, 1, i - 1))
           Back(i)  == Target!Trim(SubSeq(t, i + 1, Len(t)))
           colons    == {j \in DOMAIN t : t[j] = ":"}
           pair      == Headers!ParsePair(t)
<1>1. Len(t) \in Nat /\ DOMAIN t = 1 .. Len(t)
  BY TextIs
<1>2. ASSUME NEW i \in 1 .. Len(t)
      PROVE  /\ SubSeq(t, 1, i - 1) \in Texts /\ SubSeq(t, i + 1, Len(t)) \in Texts
             /\ Cores(SubSeq(t, 1, i - 1)) = {Front(i)}
             /\ Cores(SubSeq(t, i + 1, Len(t))) = {Back(i)}
             /\ Front(i) \in Texts /\ Back(i) \in Texts
  <2>1. /\ 1 \in 1 .. Len(t) + 1 /\ i - 1 \in 1 - 1 .. Len(t)
        /\ i + 1 \in 1 .. Len(t) + 1 /\ Len(t) \in (i + 1) - 1 .. Len(t)
    BY <1>1
  <2>2. SubSeq(t, 1, i - 1) \in Texts /\ SubSeq(t, i + 1, Len(t)) \in Texts
    BY <2>1, Part
  <2>3. QED
    BY <2>2, CoresAre, TrimTyped
<1> HIDE DEF Front, Back
<1>3. \A r : r \in HeaderReadings(t) <=>
                \E i \in colons : /\ IsName(Front(i))
                                  /\ r = Headers!Header(Lowered(Front(i)), Back(i))
  <2> DEFINE Of(i) == {Headers!Header(Lowered(n), v) :
                          n \in {c \in Cores(SubSeq(t, 1, i - 1)) : IsName(c)},
                          v \in Cores(SubSeq(t, i + 1, Len(t)))}
  <2>1. HeaderReadings(t) = UNION {Of(i) : i \in colons}
    BY DEF HeaderReadings
  <2>2. ASSUME NEW i \in colons, NEW r
        PROVE  r \in Of(i) <=> /\ IsName(Front(i))
                               /\ r = Headers!Header(Lowered(Front(i)), Back(i))
    <3>1. i \in 1 .. Len(t)
      BY <1>1
    <3>2. r \in Of(i) <=>
             \E n \in Cores(SubSeq(t, 1, i - 1)), v \in Cores(SubSeq(t, i + 1, Len(t))) :
                IsName(n) /\ r = Headers!Header(Lowered(n), v)
      OBVIOUS
    <3> HIDE DEF Of
    <3>3. Cores(SubSeq(t, 1, i - 1)) = {Front(i)}
          /\ Cores(SubSeq(t, i + 1, Len(t))) = {Back(i)}
      BY <1>2, <3>1
    <3>4. QED
      BY <3>2, <3>3
  <2> HIDE DEF Of
  <2>3. QED
    BY <2>1, <2>2
<1>4. CASE colons = {}
  <2>1. pair = Headers!Refused
    BY <1>4 DEF Headers!ParsePair
  <2>2. HeaderReadings(t) = {}
    BY <1>3, <1>4
  <2>3. QED
    BY <2>1, <2>2, RefusedIs, JoinsOnce
<1>5. CASE colons # {}
  <2> DEFINE at == CHOOSE i \in colons : \A j \in colons : i <= j
  <2>1. at \in colons /\ \A j \in colons : at <= j
    <3>1. colons \in SUBSET Nat
      BY <1>1
    <3>2. \E i \in colons : \A j \in colons : i <= j
      BY <1>5, <3>1, Smallest
    <3>3. QED
      BY <3>2
  <2> DEFINE name  == Headers!ParseName(SubSeq(t, 1, at - 1))
             value == Headers!Trim(SubSeq(t, at + 1, Len(t)))
  <2>2. pair = IF name = <<>> THEN Headers!Refused ELSE Headers!Header(name, value)
    BY <1>5 DEF Headers!ParsePair
  <2> HIDE DEF at
  <2>3. at \in 1 .. Len(t) /\ t[at] = ":"
    BY <1>1, <2>1
  <2>4. value = Back(at)
    BY <1>2, <2>3, TrimTyped DEF Back
  <2>5. name = IF Target!Within(Front(at), DOMAIN LowerCase)
                 THEN Lowered(Front(at)) ELSE <<>>
    <3>1. Headers!Trim(SubSeq(t, 1, at - 1)) = Front(at)
      BY <1>2, <2>3, TrimTyped DEF Front
    <3>2. QED
      BY <3>1 DEF Headers!ParseName, Target!Within, Lowered
  <2> HIDE DEF name, value
  <2>6. name # <<>> <=> IsName(Front(at))
    BY <1>2, <2>3, <2>5, LoweredIs DEF IsName
  <2>7. ASSUME NEW i \in colons, IsName(Front(i))  PROVE i = at
    <3>1. i \in 1 .. Len(t) /\ at <= i
      BY <1>1, <2>1
    <3>2. \A k \in 1 .. i - 1 : t[k] # ":"
      BY <2>7, <3>1, NameHasNoColon DEF Front
    <3>3. ~(at \in 1 .. i - 1)
      BY <2>3, <3>2
    <3>4. QED
      BY <1>1, <2>3, <3>1, <3>3
  <2>8. \A r : r \in HeaderReadings(t) <=>
                  name # <<>> /\ r = Headers!Header(name, value)
    <3>1. IsName(Front(at)) => name = Lowered(Front(at))
      BY <2>5 DEF IsName
    <3> HIDE DEF colons
    <3>2. QED
      BY <1>3, <2>1, <2>4, <2>6, <2>7, <3>1
  <2>9. value \in Texts
    BY <1>2, <2>3, <2>4
  <2>10. CASE name = <<>>
    <3>1. pair = Headers!Refused /\ HeaderReadings(t) = {}
      BY <2>2, <2>8, <2>10
    <3>2. QED
      BY <3>1, RefusedIs, JoinsOnce
  <2>11. CASE name # <<>>
    <3>1. pair = Headers!Header(name, value) /\ HeaderReadings(t) = {pair}
      BY <2>2, <2>8, <2>11
    <3>2. pair # Headers!Refused /\ pair.name = name /\ pair.value = value
      BY <2>11, <3>1, RefusedIs
    <3>3. QED
      BY <2>9, <2>11, <3>1, <3>2
  <2>12. QED
    BY <2>10, <2>11
<1>6. QED
  BY <1>4, <1>5

-----------------------------------------------------------------------------
(* What a request carries *)

LEMMA GetAllJoined ==
    ASSUME NEW S, NEW s \in Seq(S), NEW u \in Seq(S), NEW n
    PROVE  Headers!GetAll(s \o u, n) = Headers!GetAll(s, n) \cup Headers!GetAll(u, n)
<1>1. /\ Len(s) \in Nat /\ DOMAIN s = 1 .. Len(s)
      /\ Len(u) \in Nat /\ DOMAIN u = 1 .. Len(u)
  BY LenProperties
<1>2. /\ s \o u \in Seq(S) /\ Len(s \o u) = Len(s) + Len(u)
      /\ \A i \in 1 .. Len(s) + Len(u) :
            (s \o u)[i] = IF i <= Len(s) THEN s[i] ELSE u[i - Len(s)]
  BY ConcatProperties
<1>3. DOMAIN (s \o u) = 1 .. Len(s) + Len(u)
  BY <1>2, LenProperties
<1>4. \A h, v : v \in Headers!GetAll(h, n) <=>
                   \E i \in DOMAIN h : h[i].name = n /\ v = h[i].value
  BY DEF Headers!GetAll
<1> DEFINE w == s \o u
<1> HIDE DEF w
<1>5. ASSUME NEW v, NEW i \in 1 .. Len(s), s[i].name = n, v = s[i].value
      PROVE  v \in Headers!GetAll(w, n)
  <2>1. i \in 1 .. Len(s) + Len(u) /\ w[i] = s[i]
    BY <1>1, <1>2 DEF w
  <2>2. QED
    BY <1>3, <1>4, <1>5, <2>1 DEF w
<1>6. ASSUME NEW v, NEW i \in 1 .. Len(u), u[i].name = n, v = u[i].value
      PROVE  v \in Headers!GetAll(w, n)
  <2> DEFINE j == Len(s) + i
  <2>1. j \in 1 .. Len(s) + Len(u) /\ ~(j <= Len(s)) /\ j - Len(s) = i
    BY <1>1
  <2> HIDE DEF j
  <2>2. w[j] = u[i]
    BY <1>2, <2>1 DEF w
  <2>3. QED
    BY <1>3, <1>4, <1>6, <2>1, <2>2 DEF w
<1>7. ASSUME NEW v, v \in Headers!GetAll(w, n)
      PROVE  v \in Headers!GetAll(s, n) \cup Headers!GetAll(u, n)
  <2>1. PICK i \in 1 .. Len(s) + Len(u) : w[i].name = n /\ v = w[i].value
    <3>1. DOMAIN w = 1 .. Len(s) + Len(u)
      BY <1>3 DEF w
    <3>2. \E i \in DOMAIN w : w[i].name = n /\ v = w[i].value
      BY <1>4, <1>7
    <3>3. QED
      BY <3>1, <3>2
  <2>2. CASE i <= Len(s)
    <3>1. i \in DOMAIN s /\ w[i] = s[i]
      BY <1>1, <1>2, <2>2 DEF w
    <3>2. QED
      BY <1>4, <2>1, <3>1
  <2>3. CASE ~(i <= Len(s))
    <3>1. i - Len(s) \in DOMAIN u /\ w[i] = u[i - Len(s)]
      BY <1>1, <1>2, <2>3 DEF w
    <3>2. QED
      BY <1>4, <2>1, <3>1
  <2>4. QED
    BY <2>2, <2>3
<1>8. \A v : v \in Headers!GetAll(w, n) <=>
                v \in Headers!GetAll(s, n) \cup Headers!GetAll(u, n)
  BY <1>1, <1>4, <1>5, <1>6, <1>7
<1>9. Headers!GetAll(w, n) = Headers!GetAll(s, n) \cup Headers!GetAll(u, n)
  BY <1>8
<1>10. QED
  BY <1>9 DEF w

LEMMA GetAllJoinedTwice ==
    ASSUME NEW S, NEW s \in Seq(S), NEW u \in Seq(S), NEW w \in Seq(S), NEW n
    PROVE  Headers!GetAll((s \o u) \o w, n) =
              Headers!GetAll(s, n) \cup Headers!GetAll(u, n) \cup Headers!GetAll(w, n)
<1>1. s \o u \in Seq(S)
  BY ConcatProperties
<1>2. Headers!GetAll(s \o u, n) = Headers!GetAll(s, n) \cup Headers!GetAll(u, n)
  BY GetAllJoined
<1>3. Headers!GetAll((s \o u) \o w, n) =
         Headers!GetAll(s \o u, n) \cup Headers!GetAll(w, n)
  <2> DEFINE c == s \o u
  <2>1. c \in Seq(S)
    BY <1>1
  <2> HIDE DEF c
  <2>2. Headers!GetAll(c \o w, n) = Headers!GetAll(c, n) \cup Headers!GetAll(w, n)
    BY <2>1, GetAllJoined
  <2>3. QED
    BY <2>2 DEF c
<1>4. QED
  BY <1>2, <1>3

LEMMA GetAllFew ==
    ASSUME NEW h, NEW n
    PROVE  /\ Headers!GetAll(<<>>, n) = {}
           /\ Headers!GetAll(<<h>>, n) = IF h.name = n THEN {h.value} ELSE {}
BY DEF Headers!GetAll

(* Who is asked, who asks, and what was given *)
LEMMA RequestIs ==
    ASSUME NEW host, NEW agent, NEW h, NEW given, NEW n,
           given = <<>> \/ given = <<h>>
    PROVE  Headers!GetAll(Headers!RequestHeaders(host, agent, given), n) =
              (IF n = HostName THEN {host} ELSE {})
              \cup (IF n = AgentName /\ (given = <<>> \/ h.name # AgentName)
                      THEN {agent} ELSE {})
              \cup (IF given # <<>> /\ h.name = n THEN {h.value} ELSE {})
<1> DEFINE a  == Headers!Header(HostName, host)
           b  == Headers!Header(AgentName, agent)
           S  == {a, b, h}
           bs == IF \E i \in DOMAIN given : given[i].name = AgentName THEN <<>> ELSE <<b>>
<1>1. Headers!RequestHeaders(host, agent, given) = (<<a>> \o bs) \o given
  BY DEF Headers!RequestHeaders
<1>2. a.name = HostName /\ a.value = host /\ b.name = AgentName /\ b.value = agent
  BY RefusedIs
<1>3. bs = IF given # <<>> /\ h.name = AgentName THEN <<>> ELSE <<b>>
  <2>1. CASE given = <<>>
    BY <2>1
  <2>2. CASE given = <<h>>
    BY <2>2
  <2>3. QED
    BY <2>1, <2>2
<1> HIDE DEF a, b
<1>4. <<a>> \in Seq(S) /\ bs \in Seq(S) /\ given \in Seq(S)
  <2>1. a \in S /\ b \in S /\ h \in S
    OBVIOUS
  <2> HIDE DEF S, bs
  <2>2. \A x \in S : <<x>> \in Seq(S)
    OBVIOUS
  <2>3. <<>> \in Seq(S)
    BY EmptySeq
  <2>4. bs \in {<<>>, <<b>>}
    BY <1>3
  <2>5. QED
    BY <2>1, <2>2, <2>3, <2>4
<1> HIDE DEF S, bs
<1>6. Headers!GetAll((<<a>> \o bs) \o given, n) =
         Headers!GetAll(<<a>>, n) \cup Headers!GetAll(bs, n) \cup Headers!GetAll(given, n)
  <2> DEFINE s == <<a>>
             u == bs
             w == given
  <2>1. s \in Seq(S) /\ u \in Seq(S) /\ w \in Seq(S)
    BY <1>4
  <2> HIDE DEF s, u, w
  <2>2. Headers!GetAll((s \o u) \o w, n) =
           Headers!GetAll(s, n) \cup Headers!GetAll(u, n) \cup Headers!GetAll(w, n)
    BY <2>1, GetAllJoinedTwice
  <2>3. QED
    BY <2>2 DEF s, u, w
<1>7. Headers!GetAll(<<a>>, n) = IF n = HostName THEN {host} ELSE {}
  BY <1>2, GetAllFew
<1>8. Headers!GetAll(bs, n) =
         IF n = AgentName /\ (given = <<>> \/ h.name # AgentName) THEN {agent} ELSE {}
  BY <1>2, <1>3, GetAllFew
<1>9. Headers!GetAll(given, n) = IF given # <<>> /\ h.name = n THEN {h.value} ELSE {}
  BY GetAllFew
<1>10. QED
  BY <1>1, <1>6, <1>7, <1>8, <1>9

(* A request with the header that h is, or with none when it is refused *)
Given(h) == IF h = Headers!Refused THEN <<>> ELSE <<h>>

LEMMA GivenIs ==
    ASSUME NEW h
    PROVE  Given(h) \in {<<>>, <<h>>} /\ (Given(h) = <<>> <=> h = Headers!Refused)
<1>1. <<h>> # <<>>
  OBVIOUS
<1>2. QED
  BY <1>1 DEF Given

(* Every text of --header and of the assertions is read as the grammar says *)
LEMMA HeaderHolds == Typed => HeaderIsRight
<1> SUFFICES ASSUME Typed, kind = "header"  PROVE HeaderIsRight
  BY DEF HeaderIsRight
<1> DEFINE readings == HeaderReadings(text)
           pair == Headers!ParsePair(text)
           h    == Headers!ParseHeader(text)
           sent == Headers!RequestHeaders(<<"h">>, <<"a">>, Given(h))
<1>1. text \in Texts
  BY DEF Typed
<1>2. /\ pair = Headers!Refused => readings = {}
      /\ pair # Headers!Refused => readings = {pair} /\ pair.name # <<>>
      /\ pair.value \in Texts
  BY <1>1, PairIs
<1>3. Headers!Refused.value = <<>>
  BY RefusedIs
<1>4. h = IF \/ pair.name \in {HostName} \cup Reserved
             \/ \E i \in DOMAIN pair.value : pair.value[i] \notin ValueChars
            THEN Headers!Refused ELSE pair
  BY DEF Headers!ParseHeader
<1>5. /\ Headers!ParseAssertion(text, TRUE) = pair
      /\ Headers!ParseAssertion(text, FALSE) =
            IF pair.value = <<>> THEN Headers!Refused ELSE pair
  BY DEF Headers!ParseAssertion
<1>6. h # Headers!Refused => /\ h = pair /\ h.name # HostName /\ h.name \notin Reserved
  BY <1>4
<1>7. ASSUME NEW n
      PROVE  Headers!GetAll(sent, n) =
                (IF n = HostName THEN {<<"h">>} ELSE {})
                \cup (IF n = AgentName /\ (h = Headers!Refused \/ h.name # AgentName)
                        THEN {<<"a">>} ELSE {})
                \cup (IF h # Headers!Refused /\ h.name = n THEN {h.value} ELSE {})
  <2> HIDE DEF h
  <2>1. /\ Given(h) \in {<<>>, <<h>>}
        /\ Given(h) = <<>> <=> h = Headers!Refused
    BY GivenIs
  <2> DEFINE g == Given(h)
             x == <<"h">>
             y == <<"a">>
  <2>3. g = <<>> \/ g = <<h>>
    BY <2>1
  <2> HIDE DEF g, x, y
  <2>2. Headers!GetAll(Headers!RequestHeaders(x, y, g), n) =
           (IF n = HostName THEN {x} ELSE {})
           \cup (IF n = AgentName /\ (g = <<>> \/ h.name # AgentName) THEN {y} ELSE {})
           \cup (IF g # <<>> /\ h.name = n THEN {h.value} ELSE {})
    BY <2>3, RequestIs
  <2>4. QED
    BY <2>1, <2>2 DEF g, x, y
<1> HIDE DEF sent, readings, pair, h
<1>8. {Headers!ParseAssertion(text, TRUE)} \ {Headers!Refused} = readings
  BY <1>2, <1>5
<1>9. {Headers!ParseAssertion(text, FALSE)} \ {Headers!Refused} =
         {r \in readings : r.value # <<>>}
  <2>1. CASE pair = Headers!Refused
    BY <1>2, <1>5, <2>1
  <2>2. CASE pair # Headers!Refused
    BY <1>2, <1>5, <2>2
  <2>3. QED
    BY <2>1, <2>2
<1>10. {h} \ {Headers!Refused} =
          {r \in readings : /\ r.name \notin Reserved \cup {HostName}
                            /\ Target!Within(r.value, ValueChars)}
  <2>1. CASE pair = Headers!Refused
    BY <1>2, <1>4, <2>1
  <2>2. CASE pair # Headers!Refused
    <3>1. h = IF pair.name \notin Reserved \cup {HostName}
                 /\ Target!Within(pair.value, ValueChars)
                THEN pair ELSE Headers!Refused
      BY <1>4 DEF Target!Within
    <3>2. QED
      BY <1>2, <2>2, <3>1
  <2>3. QED
    BY <2>1, <2>2
<1>11. Headers!GetAll(sent, HostName) = {<<"h">>}
  <2>1. AgentName # HostName
    BY HeadersAssumption
  <2>2. QED
    BY <1>6, <1>7, <2>1
<1>12. Cardinality(Headers!GetAll(sent, AgentName)) = 1
  <2>1. AgentName # HostName
    BY HeadersAssumption
  <2>2. CASE h = Headers!Refused \/ h.name # AgentName
    <3>1. Headers!GetAll(sent, AgentName) = {<<"a">>}
      BY <1>7, <2>1, <2>2
    <3>2. QED
      BY <3>1, FS_Singleton
  <2>3. CASE ~(h = Headers!Refused \/ h.name # AgentName)
    <3>1. Headers!GetAll(sent, AgentName) = {h.value}
      BY <1>7, <2>1, <2>3
    <3>2. QED
      BY <3>1, FS_Singleton
  <2>4. QED
    BY <2>2, <2>3
<1>13. ASSUME NEW n \in Reserved  PROVE Headers!GetAll(sent, n) = {}
  <2>1. n # HostName /\ n # AgentName
    BY HeadersAssumption
  <2>2. QED
    BY <1>6, <1>7, <2>1
<1>14. QED
  BY <1>8, <1>9, <1>10, <1>11, <1>12, <1>13
     DEF HeaderIsRight, sent, readings, h, Given

LEMMA ContainsItself ==
    ASSUME NEW v \in Texts
    PROVE  Headers!ContainsSlice(v, v)
<1>1. Len(v) \in Nat /\ 0 \in 0 .. Len(v) - Len(v)
  BY TextIs
<1>2. \A j \in 1 .. Len(v) : v[0 + j] = v[j]
  BY <1>1
<1>3. QED
  BY <1>1, <1>2 DEF Headers!ContainsSlice

(* Whatever the header and the responses, the assertions fit together *)
LEMMA AssertionsHold == Typed => AssertionsFit
<1> SUFFICES ASSUME Typed, kind = "header"  PROVE AssertionsFit
  BY DEF AssertionsFit
<1> DEFINE pair == Headers!ParsePair(text)
           h    == Headers!ParseHeader(text)
           a    == Headers!ParseAssertion(text, FALSE)
           sent == Headers!RequestHeaders(<<"h">>, <<"a">>, <<h>>)
           Passes(r, names, equals, contains, notContains) ==
                Headers!AssertResponseHeaders(r, names, equals, contains, notContains)
<1>1. pair.value \in Texts
  BY PairIs DEF Typed
<1>2. Headers!ParseAssertion(text, TRUE) = pair /\ a \in {pair, Headers!Refused}
  BY DEF Headers!ParseAssertion
<1>3. h \in {pair, Headers!Refused}
  BY DEF Headers!ParseHeader
<1> HIDE DEF pair, h, a
<1>4. ASSUME h # Headers!Refused
      PROVE  Passes(sent, {HostName, AgentName, h.name}, {pair}, {a} \ {Headers!Refused}, {})
  <2>1. h = pair /\ {a} \ {Headers!Refused} \subseteq {h}
    BY <1>2, <1>3, <1>4
  <2>2. ASSUME NEW n
        PROVE  Headers!GetAll(sent, n) =
                 (IF n = HostName THEN {<<"h">>} ELSE {})
                 \cup (IF n = AgentName /\ (<<h>> = <<>> \/ h.name # AgentName)
                         THEN {<<"a">>} ELSE {})
                 \cup (IF <<h>> # <<>> /\ h.name = n THEN {h.value} ELSE {})
    <3> DEFINE g == <<h>>
               x == <<"h">>
               y == <<"a">>
    <3>1. g = <<>> \/ g = <<h>>
      OBVIOUS
    <3> HIDE DEF g, x, y
    <3>2. Headers!GetAll(Headers!RequestHeaders(x, y, g), n) =
             (IF n = HostName THEN {x} ELSE {})
             \cup (IF n = AgentName /\ (g = <<>> \/ h.name # AgentName) THEN {y} ELSE {})
             \cup (IF g # <<>> /\ h.name = n THEN {h.value} ELSE {})
      BY <3>1, RequestIs
    <3>3. QED
      BY <3>2 DEF g, x, y
  <2>3. <<h>> # <<>>
    OBVIOUS
  <2> HIDE DEF sent
  <2>4. Headers!GetAll(sent, HostName) # {}
    BY <2>2
  <2>5. Headers!GetAll(sent, AgentName) # {}
    BY <2>2, <2>3
  <2>6. h.value \in Headers!GetAll(sent, h.name)
    BY <2>2, <2>3
  <2>7. Headers!SomeContains(sent, h)
    BY <1>1, <2>1, <2>6, ContainsItself DEF Headers!SomeContains
  <2>8. Headers!Present(sent, {HostName, AgentName, h.name})
    BY <2>4, <2>5, <2>6 DEF Headers!Present
  <2>9. Headers!Equals(sent, {pair})
    BY <2>1, <2>6 DEF Headers!Equals
  <2>10. Headers!Contains(sent, {a} \ {Headers!Refused})
    BY <2>1, <2>7 DEF Headers!Contains
  <2>11. Headers!ContainsNone(sent, {})
    BY DEF Headers!ContainsNone
  <2>12. QED
    BY <2>8, <2>9, <2>10, <2>11 DEF Headers!AssertResponseHeaders
<1>5. ASSUME a # Headers!Refused, NEW r \in Responses
      PROVE  /\ Passes(r, {}, {a}, {}, {}) => Passes(r, {}, {}, {a}, {})
             /\ Passes(r, {}, {}, {a}, {}) => Passes(r, {a.name}, {}, {}, {})
             /\ Passes(r, {}, {}, {a}, {}) <=> ~Passes(r, {}, {}, {}, {a})
  <2>1. a.value \in Texts
    BY <1>1, <1>2, <1>5
  <2>2. ASSUME NEW n, NEW e, NEW c, NEW x
        PROVE  Passes(r, n, e, c, x) <=>
                 /\ \A m \in n : Headers!GetAll(r, m) # {}
                 /\ \A k \in e : k.value \in Headers!GetAll(r, k.name)
                 /\ \A k \in c : Headers!SomeContains(r, k)
                 /\ \A k \in x : ~Headers!SomeContains(r, k)
    BY DEF Headers!AssertResponseHeaders, Headers!Present, Headers!Equals,
           Headers!Contains, Headers!ContainsNone
  <2>3. a.value \in Headers!GetAll(r, a.name) => Headers!SomeContains(r, a)
    BY <2>1, ContainsItself DEF Headers!SomeContains
  <2>4. Headers!SomeContains(r, a) => Headers!GetAll(r, a.name) # {}
    BY DEF Headers!SomeContains
  <2> HIDE DEF Passes
  <2>5. /\ Passes(r, {}, {a}, {}, {}) <=> a.value \in Headers!GetAll(r, a.name)
        /\ Passes(r, {}, {}, {a}, {}) <=> Headers!SomeContains(r, a)
        /\ Passes(r, {a.name}, {}, {}, {}) <=> Headers!GetAll(r, a.name) # {}
        /\ Passes(r, {}, {}, {}, {a}) <=> ~Headers!SomeContains(r, a)
    BY <2>2
  <2>6. QED
    BY <2>3, <2>4, <2>5
<1>6. QED
  BY <1>2, <1>4, <1>5 DEF AssertionsFit, h, a

-----------------------------------------------------------------------------
(* host and host:port *)

(* An IPv6 address has two colons, and nothing but colons and digits *)
LEMMA FewAre ==
    ASSUME NEW S, NEW x, S \subseteq {x}
    PROVE  Cardinality(S) \in {0, 1}
<1>1. S = {} \/ S = {x}
  OBVIOUS
<1>2. Cardinality({}) = 0 /\ Cardinality({x}) = 1
  BY FS_EmptySet, FS_Singleton
<1>3. QED
  BY <1>1, <1>2

(* Authority's Cardinality is the one of the library's theorems. *)
LEMMA CardinalityIs == \A S : Target!Cardinality(S) = Cardinality(S)
BY DEF Target!Cardinality, Cardinality

LEMMA GroupsWithin ==
    ASSUME NEW x \in Texts, NEW n, Target!IsGroups(x, n)
    PROVE  Target!Within(x, Hex \cup {":"})
<1>1. CASE x = <<>>
  BY <1>1 DEF Target!Within
<1>2. CASE x # <<>>
  BY <1>2 DEF Target!IsGroups
<1>3. QED
  BY <1>1, <1>2

LEMMA Ipv6Within ==
    ASSUME NEW x \in Texts, Target!IsIpv6(x)
    PROVE  \A k \in 1 .. Len(x) : x[k] \in Hex \cup {":"}
<1>1. Len(x) \in Nat /\ DOMAIN x = 1 .. Len(x)
  BY TextIs
<1>2. CASE Target!IsGroups(x, Groups)
  BY <1>1, <1>2, GroupsWithin DEF Target!Within
<1>3. ASSUME NEW i \in 1 .. Len(x) - 1, x[i] = ":", x[i + 1] = ":",
             NEW m, NEW n, Target!IsGroups(SubSeq(x, 1, i - 1), m),
             Target!IsGroups(SubSeq(x, i + 2, Len(x)), n)
      PROVE  \A k \in 1 .. Len(x) : x[k] \in Hex \cup {":"}
  <2>1. /\ 1 \in 1 .. Len(x) + 1 /\ i - 1 \in 1 - 1 .. Len(x)
        /\ i + 2 \in 1 .. Len(x) + 1 /\ Len(x) \in (i + 2) - 1 .. Len(x)
    BY <1>1
  <2>2. SubSeq(x, 1, i - 1) \in Texts /\ SubSeq(x, i + 2, Len(x)) \in Texts
    BY <2>1, Part
  <2>3. /\ Target!Within(SubSeq(x, 1, i - 1), Hex \cup {":"})
        /\ Target!Within(SubSeq(x, i + 2, Len(x)), Hex \cup {":"})
    BY <1>3, <2>2, GroupsWithin
  <2>4. \A k \in 1 .. i - 1 : x[k] \in Hex \cup {":"}
    BY <2>1, <2>3, PartWithin
  <2>5. \A k \in i + 2 .. Len(x) : x[k] \in Hex \cup {":"}
    BY <2>1, <2>3, PartWithin
  <2>6. \A k \in 1 .. Len(x) : k \in 1 .. i - 1 \/ k = i \/ k = i + 1 \/ k \in i + 2 .. Len(x)
    BY <1>1
  <2>7. QED
    BY <1>3, <2>4, <2>5, <2>6
<1>4. QED
  BY <1>2, <1>3 DEF Target!IsIpv6

LEMMA Ipv6HasColons ==
    ASSUME NEW x \in Texts, Target!IsIpv6(x)
    PROVE  \E i, j \in 1 .. Len(x) : i # j /\ x[i] = ":" /\ x[j] = ":"
<1>1. Len(x) \in Nat /\ DOMAIN x = 1 .. Len(x)
  BY TextIs
<1>2. CASE Target!IsGroups(x, Groups)
  <2> DEFINE C == {i \in DOMAIN x : x[i] = ":"}
  <2>1. Cardinality(C) = Groups - 1
    <3>1. Groups # 0
      BY NumbersAssumption
    <3>2. Target!Cardinality(C) = Groups - 1
      BY <1>2, <3>1 DEF Target!IsGroups
    <3>3. QED
      BY <3>2, CardinalityIs
  <2>2. Cardinality(C) # 0 /\ Cardinality(C) # 1
    BY <2>1, NumbersAssumption
  <2> HIDE DEF C
  <2>3. \A y : ~(C \subseteq {y})
    BY <2>2, FewAre
  <2>4. PICK i \in C : TRUE
    BY <2>3
  <2>5. PICK j \in C : j # i
    BY <2>3
  <2>6. QED
    BY <1>1, <2>4, <2>5 DEF C
<1>3. ASSUME NEW i \in 1 .. Len(x) - 1, x[i] = ":", x[i + 1] = ":"
      PROVE  \E k, j \in 1 .. Len(x) : k # j /\ x[k] = ":" /\ x[j] = ":"
  <2>1. i \in 1 .. Len(x) /\ i + 1 \in 1 .. Len(x) /\ i # i + 1
    BY <1>1
  <2>2. QED
    BY <1>3, <2>1
<1>4. QED
  BY <1>2, <1>3 DEF Target!IsIpv6

-----------------------------------------------------------------------------
(* A text is the parts before and after a colon *)
LEMMA SplitAt ==
    ASSUME NEW t \in Texts, NEW i \in 1 .. Len(t), t[i] = ":"
    PROVE  t = SubSeq(t, 1, i - 1) \o <<":">> \o SubSeq(t, i + 1, Len(t))
<1>1. /\ Len(t) \in Nat /\ 1 \in 1 .. Len(t) /\ i \in 1 .. Len(t)
      /\ 1 \in 1 .. Len(t) + 1 /\ i \in 1 - 1 .. Len(t) /\ Len(t) \in i .. Len(t)
  BY TextIs
<1>2. SubSeq(t, 1, i) = SubSeq(t, 1, i - 1) \o <<t[i]>>
  BY <1>1, SubSeqRecursiveSecond DEF Texts
<1>3. SubSeq(t, 1, i) \o SubSeq(t, i + 1, Len(t)) = SubSeq(t, 1, Len(t))
  BY <1>1, ConcatAdjacentSubSeq DEF Texts
<1>4. SubSeq(t, 1, Len(t)) = t
  BY WholeIs
<1>5. QED
  BY <1>2, <1>3, <1>4

LEMMA JoinedAre ==
    ASSUME NEW s \in Texts, NEW u \in Texts, NEW t, t = s \o u
    PROVE  /\ Len(t) = Len(s) + Len(u)
           /\ \A i \in 1 .. Len(s) : t[i] = s[i]
           /\ \A i \in 1 .. Len(u) : t[Len(s) + i] = u[i]
BY Zenon, Joined

LEMMA JoinedParts ==
    ASSUME NEW h \in Texts, NEW p \in Texts, NEW t \in Texts,
           NEW o, o = <<":">>, t = h \o o \o p
    PROVE  /\ Len(t) = Len(h) + 1 + Len(p)
           /\ t[Len(h) + 1] = ":"
           /\ SubSeq(t, 1, Len(h)) = h
           /\ SubSeq(t, Len(h) + 2, Len(t)) = p
<1>1. Len(h) \in Nat /\ Len(p) \in Nat
  BY TextIs
<1> DEFINE a == h \o o
<1>2. o \in Texts /\ Len(o) = 1 /\ o[1] = ":"
  BY MarksAre, OneIs DEF Colon
<1>3. /\ a \in Texts /\ Len(a) = Len(h) + Len(o)
      /\ \A i \in 1 .. Len(h) : a[i] = h[i]
      /\ \A i \in 1 .. Len(o) : a[Len(h) + i] = o[i]
  BY <1>2, Joined
<1>4. Len(a) = Len(h) + 1 /\ a[Len(h) + 1] = ":"
  <2>1. 1 \in 1 .. Len(o)
    BY <1>2
  <2> HIDE DEF a
  <2>2. QED
    BY <1>2, <1>3, <2>1
<1> HIDE DEF a
<1>5. t = a \o p
  BY DEF a
<1>6. /\ Len(t) = Len(a) + Len(p)
      /\ \A i \in 1 .. Len(a) : t[i] = a[i]
      /\ \A i \in 1 .. Len(p) : t[Len(a) + i] = p[i]
  BY <1>3, <1>5, JoinedAre
<1>7. Len(t) = Len(h) + 1 + Len(p)
  BY <1>1, <1>4, <1>6
<1>8. t[Len(h) + 1] = ":"
  <2>1. Len(h) + 1 \in 1 .. Len(a)
    BY <1>1, <1>4
  <2>2. QED
    BY <1>4, <1>6, <2>1
<1>9. SubSeq(t, 1, Len(h)) = h
  <2> DEFINE m == 1
             n == Len(h)
  <2>1. m \in 1 .. Len(t) + 1 /\ n \in m - 1 .. Len(t) /\ Len(h) = n - m + 1
    BY <1>1, <1>7
  <2>2. \A i \in 1 .. Len(h) : i \in 1 .. Len(a) /\ m + i - 1 = i
    BY <1>1, <1>4
  <2>3. \A i \in 1 .. Len(h) : h[i] = t[m + i - 1]
    BY <1>3, <1>6, <2>2
  <2> HIDE DEF m, n
  <2>4. SubSeq(t, m, n) = h
    BY <2>1, <2>3, PartIs
  <2>5. QED
    BY <2>4 DEF m, n
<1>10. SubSeq(t, Len(h) + 2, Len(t)) = p
  <2> DEFINE m == Len(h) + 2
             n == Len(t)
  <2>1. m \in 1 .. Len(t) + 1 /\ n \in m - 1 .. Len(t) /\ Len(p) = n - m + 1
    BY <1>1, <1>7
  <2>2. \A i \in 1 .. Len(p) : m + i - 1 = Len(a) + i
    BY <1>1, <1>4
  <2>3. \A i \in 1 .. Len(p) : p[i] = t[m + i - 1]
    BY <1>6, <2>2
  <2> HIDE DEF m, n
  <2>4. SubSeq(t, m, n) = p
    BY <2>1, <2>3, PartIs
  <2>5. QED
    BY <2>4 DEF m, n
<1>11. QED
  BY <1>7, <1>8, <1>9, <1>10

(* Where the host of a text ends: before the colon of a port or at the end *)
HostEnds(t, i) ==
    /\ i \in 1 .. Len(t) + 1
    /\ IsHost(SubSeq(t, 1, i - 1))
    /\ i <= Len(t) => t[i] = ":" /\ IsPort(SubSeq(t, i + 1, Len(t)))

PortAfter(t, i) == IF i <= Len(t) THEN SubSeq(t, i + 1, Len(t)) ELSE <<>>

(* The readings of a text are the places where its host ends *)
LEMMA ReadingEnds ==
    ASSUME NEW t \in Texts, NEW h \in Texts, NEW p \in Texts, IsAuthority(t, h, p)
    PROVE  \E i : HostEnds(t, i) /\ h = SubSeq(t, 1, i - 1) /\ p = PortAfter(t, i)
<1>1. Len(t) \in Nat /\ Len(h) \in Nat /\ Len(p) \in Nat
  BY TextIs
<1>2. IsHost(h)
  BY DEF IsAuthority
<1>3. CASE p = <<>> /\ t = h
  <2> DEFINE i == Len(t) + 1
  <2>1. i \in 1 .. Len(t) + 1 /\ ~(i <= Len(t)) /\ i - 1 = Len(t)
    BY <1>1
  <2> HIDE DEF i
  <2>2. SubSeq(t, 1, i - 1) = h
    BY <1>3, <2>1, WholeIs
  <2>3. HostEnds(t, i)
    BY <1>2, <2>1, <2>2 DEF HostEnds
  <2>4. PortAfter(t, i) = p
    BY <1>3, <2>1 DEF PortAfter
  <2>5. QED
    BY <2>2, <2>3, <2>4
<1>4. CASE IsPort(p) /\ t = h \o <<":">> \o p
  <2> DEFINE i == Len(h) + 1
             o == <<":">>
  <2>0. o = <<":">> /\ t = h \o o \o p
    BY <1>4
  <2> HIDE DEF o
  <2>1. /\ Len(t) = Len(h) + 1 + Len(p)
        /\ t[Len(h) + 1] = ":"
        /\ SubSeq(t, 1, Len(h)) = h
        /\ SubSeq(t, Len(h) + 2, Len(t)) = p
    BY <2>0, JoinedParts
  <2>2. i \in 1 .. Len(t) + 1 /\ i <= Len(t) /\ i - 1 = Len(h) /\ i + 1 = Len(h) + 2
    BY <1>1, <2>1
  <2>3. t[i] = ":"
    BY <2>1
  <2> HIDE DEF i
  <2>4. SubSeq(t, 1, i - 1) = h /\ SubSeq(t, i + 1, Len(t)) = p
    BY <2>1, <2>2
  <2>5. HostEnds(t, i)
    BY <1>2, <1>4, <2>2, <2>3, <2>4 DEF HostEnds
  <2>6. PortAfter(t, i) = p
    BY <2>2, <2>4 DEF PortAfter
  <2>7. QED
    BY <2>4, <2>5, <2>6
<1>5. QED
  BY <1>3, <1>4 DEF IsAuthority

LEMMA CutIs ==
    ASSUME NEW t, NEW a \in 0 .. Len(t), NEW b \in 1 .. Len(t) + 1
    PROVE  <<SubSeq(t, 1, a), SubSeq(t, b, Len(t))>> \in Cuts(t)
BY DEF Cuts

LEMMA EndReads ==
    ASSUME NEW t \in Texts, NEW i, HostEnds(t, i)
    PROVE  <<SubSeq(t, 1, i - 1), PortAfter(t, i)>> \in Readings(t)
<1>1. Len(t) \in Nat /\ i \in 1 .. Len(t) + 1
  BY TextIs DEF HostEnds
<1> DEFINE h == SubSeq(t, 1, i - 1)
           p == PortAfter(t, i)
<1>2. IsHost(h)
  BY DEF HostEnds
<1>3. CASE i <= Len(t)
  <2>1. p = SubSeq(t, i + 1, Len(t)) /\ IsPort(p) /\ t[i] = ":"
    BY <1>3 DEF HostEnds, PortAfter
  <2>2. i \in 1 .. Len(t) /\ i - 1 \in 0 .. Len(t) /\ i + 1 \in 1 .. Len(t) + 1
    BY <1>1, <1>3
  <2>3. t = h \o <<":">> \o SubSeq(t, i + 1, Len(t))
    BY <2>1, <2>2, SplitAt
  <2>4. <<h, SubSeq(t, i + 1, Len(t))>> \in Cuts(t)
    BY <2>2 DEF Cuts
  <2> HIDE DEF h, p
  <2>5. IsAuthority(t, h, p)
    BY <1>2, <2>1, <2>3 DEF IsAuthority
  <2>6. <<h, p>> \in Cuts(t)
    BY <2>1, <2>4
  <2> DEFINE c == <<h, p>>
  <2>7. c[1] = h /\ c[2] = p /\ c \in Cuts(t)
    BY <2>6
  <2> HIDE DEF c
  <2>8. c \in Readings(t)
    BY <2>5, <2>7 DEF Readings
  <2>9. QED
    BY <2>8 DEF c, h, p
<1>4. CASE ~(i <= Len(t))
  <2>1. i - 1 = Len(t) /\ p = <<>>
    BY <1>1, <1>4 DEF PortAfter
  <2>2. h = t
    BY <2>1, WholeIs
  <2>3. Len(t) \in 0 .. Len(t) /\ Len(t) + 1 \in 1 .. Len(t) + 1 /\ Len(t) + 1 - 1 = Len(t)
    BY <1>1
  <2>4. SubSeq(t, Len(t) + 1, Len(t)) = <<>>
    BY <2>3, PartNone
  <2>5. SubSeq(t, 1, Len(t)) = t
    BY WholeIs
  <2>6. <<SubSeq(t, 1, Len(t)), SubSeq(t, Len(t) + 1, Len(t))>> \in Cuts(t)
    BY <2>3, CutIs
  <2> HIDE DEF h, p
  <2>7. IsAuthority(t, h, p)
    BY <1>2, <2>1, <2>2 DEF IsAuthority
  <2> DEFINE c == <<h, p>>
  <2>8. c[1] = h /\ c[2] = p /\ c \in Cuts(t)
    <3>1. h = SubSeq(t, 1, Len(t)) /\ p = SubSeq(t, Len(t) + 1, Len(t))
      BY <2>1, <2>2, <2>4, <2>5
    <3>2. c \in Cuts(t)
      BY <2>6, <3>1
    <3>3. QED
      BY <3>2
  <2> HIDE DEF c
  <2>9. c \in Readings(t)
    BY <2>7, <2>8 DEF Readings
  <2>10. QED
    BY <2>9 DEF c, h, p
<1>5. QED
  BY <1>3, <1>4

LEMMA ReadingIs ==
    ASSUME NEW t \in Texts, NEW c, c \in Readings(t)
    PROVE  \E i : HostEnds(t, i) /\ c[1] = SubSeq(t, 1, i - 1) /\ c[2] = PortAfter(t, i)
<1>1. c \in Cuts(t) /\ IsAuthority(t, c[1], c[2])
  BY DEF Readings
<1>2. PICK a \in 0 .. Len(t), b \in 1 .. Len(t) + 1 :
         c = <<SubSeq(t, 1, a), SubSeq(t, b, Len(t))>>
  BY <1>1 DEF Cuts
<1> DEFINE h == SubSeq(t, 1, a)
           p == SubSeq(t, b, Len(t))
<1>3. Len(t) \in Nat
  BY TextIs
<1>4. h \in Texts /\ p \in Texts
  <2>1. 1 \in Nat \ {0} /\ a \in Nat /\ a <= Len(t) /\ b \in Nat \ {0} /\ Len(t) <= Len(t)
    BY <1>3
  <2>2. QED
    BY <1>3, <2>1, Cut
<1> HIDE DEF h, p
<1>5. c[1] = h /\ c[2] = p
  BY <1>2 DEF h, p
<1>6. QED
  BY <1>1, <1>4, <1>5, ReadingEnds

(* A host without brackets, and one in brackets *)
LEMMA HostIs ==
    ASSUME NEW t \in Texts, NEW i \in 1 .. Len(t) + 1
    PROVE  IsHost(SubSeq(t, 1, i - 1)) <=>
              \/ i > 1 /\ \A k \in 1 .. i - 1 : t[k] \in NameChars
              \/ /\ i > 3 /\ t[1] = "[" /\ t[i - 1] = "]"
                 /\ Target!IsIpv6(SubSeq(t, 2, i - 2))
<1> DEFINE h == SubSeq(t, 1, i - 1)
           n == i - 1
<1>1. Len(t) \in Nat
  BY TextIs
<1>2. 1 \in 1 .. Len(t) + 1 /\ n \in 1 - 1 .. Len(t) /\ n - 1 + 1 = n
  BY <1>1
<1>3. /\ h \in Texts /\ Len(h) = n /\ \A k \in 1 .. n : h[k] = t[1 + k - 1]
      /\ Target!Within(h, NameChars) <=> \A k \in 1 .. n : t[k] \in NameChars
  BY <1>2, Part, PartWithin
<1>4. \A k \in 1 .. n : h[k] = t[k]
  BY <1>3
<1>5. h # <<>> <=> i > 1
  <2> HIDE DEF h
  <2>1. h = <<>> <=> n = 0
    BY <1>3, TextIs
  <2>2. QED
    BY <1>1, <2>1
<1>6. ASSUME i > 3  PROVE SubSeq(h, 2, n - 1) = SubSeq(t, 2, i - 2)
  <2> DEFINE a == 2
             b == n - 1
  <2>1. a \in 1 .. n - 1 + 2 /\ b \in a - 1 .. n - 1 + 1
    BY <1>1, <1>6
  <2>2. 1 + a - 1 = a /\ 1 + b - 1 = i - 2
    BY <1>1
  <2> HIDE DEF a, b, n
  <2>3. SubSeq(SubSeq(t, 1, n), a, b) = SubSeq(t, 1 + a - 1, 1 + b - 1)
    BY <1>2, <2>1, PartPart
  <2>4. QED
    BY <2>2, <2>3 DEF a, b, n
<1>7. n > 2 <=> i > 3
  BY <1>1
<1>8. i > 3 => h[1] = t[1] /\ h[n] = t[i - 1]
  BY <1>1, <1>4
<1> HIDE DEF h
<1>9. CASE i > 3
  <2>1. IsHost(h) <=> \/ h # <<>> /\ Target!Within(h, NameChars)
                      \/ h[1] = "[" /\ h[n] = "]" /\ Target!IsIpv6(SubSeq(h, 2, n - 1))
    BY <1>3, <1>7, <1>9 DEF IsHost
  <2>2. QED
    BY <1>3, <1>5, <1>6, <1>8, <1>9, <2>1 DEF h
<1>10. CASE ~(i > 3)
  <2>1. IsHost(h) <=> h # <<>> /\ Target!Within(h, NameChars)
    BY <1>3, <1>7, <1>10 DEF IsHost
  <2>2. QED
    BY <1>3, <1>5, <1>10, <2>1 DEF h
<1>11. QED
  BY <1>9, <1>10

LEMMA PortIs ==
    ASSUME NEW t \in Texts, NEW i \in 1 .. Len(t), IsPort(SubSeq(t, i + 1, Len(t)))
    PROVE  /\ i < Len(t)
           /\ \A k \in i + 1 .. Len(t) : t[k] \in DOMAIN Places
<1>1. Len(t) \in Nat
  BY TextIs
<1>2. i + 1 \in 1 .. Len(t) + 1 /\ Len(t) \in (i + 1) - 1 .. Len(t)
  BY <1>1
<1>3. SubSeq(t, i + 1, Len(t)) # <<>> /\ Target!Within(SubSeq(t, i + 1, Len(t)), DOMAIN Places)
  BY DEF IsPort
<1>4. i = Len(t) => SubSeq(t, i + 1, Len(t)) = <<>>
  <2>1. Len(t) + 1 \in 1 .. Len(t) + 1 /\ Len(t) + 1 - 1 = Len(t)
    BY <1>1
  <2>2. SubSeq(t, Len(t) + 1, Len(t)) = <<>>
    BY <2>1, PartNone
  <2>3. QED
    BY <2>2
<1>5. i < Len(t)
  BY <1>1, <1>3, <1>4
<1>6. QED
  BY <1>2, <1>3, <1>5, PartWithin

(* What follows the first character of a text *)
LEMMA TailPart ==
    ASSUME NEW t \in Texts, NEW a \in 1 .. Len(t), NEW b \in a .. Len(t)
    PROVE  /\ SubSeq(t, a, b) # <<>> /\ SubSeq(t, a, b)[1] = t[a]
           /\ Tail(SubSeq(t, a, b)) = SubSeq(t, a + 1, b)
           /\ Tail(SubSeq(t, a, b)) \in Texts
<1> DEFINE s == SubSeq(t, a, b)
           m == 2
           n == b - a + 1
<1>1. Len(t) \in Nat
  BY TextIs
<1>2. a \in 1 .. Len(t) + 1 /\ b \in a - 1 .. Len(t)
  BY <1>1
<1>3. s \in Texts /\ Len(s) = n /\ \A i \in 1 .. n : s[i] = t[a + i - 1]
  BY <1>2, Part
<1>4. m \in 1 .. n + 1 /\ n \in m - 1 .. n /\ 1 \in 1 .. n /\ a + 1 - 1 = a
  BY <1>1
<1>5. s[1] = t[a]
  <2>1. s[1] = t[a + 1 - 1]
    BY <1>3, <1>4
  <2>2. QED
    BY <1>4, <2>1
<1>6. s # <<>>
  <2> HIDE DEF s
  <2>1. Len(s) # 0
    BY <1>3, <1>4
  <2>2. QED
    BY <1>3, <2>1, TextIs
<1>7. Tail(s) = SubSeq(s, m, n)
  <2> HIDE DEF s
  <2>1. Tail(s) = SubSeq(s, 2, Len(s))
    BY <1>3, <1>6, TailIsSubSeq DEF Texts
  <2>2. QED
    BY <1>3, <2>1
<1>8. SubSeq(s, m, n) = SubSeq(t, a + m - 1, a + n - 1) /\ SubSeq(s, m, n) \in Texts
  <2>1. m \in 1 .. b - a + 2 /\ n \in m - 1 .. b - a + 1
    BY <1>4
  <2> HIDE DEF m, n
  <2>2. SubSeq(SubSeq(t, a, b), m, n) = SubSeq(t, a + m - 1, a + n - 1)
    BY <1>2, <2>1, PartPart
  <2> HIDE DEF s
  <2>3. SubSeq(s, m, n) \in Texts
    BY <1>3, <1>4, Part
  <2>4. QED
    BY <2>2, <2>3 DEF s
<1>9. a + m - 1 = a + 1 /\ a + n - 1 = b
  BY <1>1
<1>10. QED
  BY <1>5, <1>6, <1>7, <1>8, <1>9 DEF s

(* What is read of a text with a bracket at its beginning and at b *)
LEMMA BracketParts ==
    ASSUME NEW t \in Texts, NEW b \in 1 .. Len(t), t[1] = "[", t[b] = "]",
           \A k \in 1 .. b - 1 : t[k] # "]"
    PROVE  /\ b > 1 /\ Target!StartsWith(t, "[")
           /\ Target!First(t, "]") = b /\ Target!Holds(t, {"]"})
           /\ Target!Head1(Tail(t), "]") = SubSeq(t, 2, b - 1)
           /\ Target!StartsWith(Tail(t), "]") <=> b = 2
           /\ Target!Rest1(t, "]") = <<>> <=> b = Len(t)
           /\ Target!StartsWith(Target!Rest1(t, "]"), ":") <=> b < Len(t) /\ t[b + 1] = ":"
           /\ b < Len(t) => Tail(Target!Rest1(t, "]")) = SubSeq(t, b + 2, Len(t))
<1> DEFINE u == Tail(t)
           n == Len(t)
<1>1. n \in Nat /\ DOMAIN t = 1 .. n
  BY TextIs
<1>2. b > 1 /\ n >= b
  <2>1. b # 1
    OBVIOUS
  <2>2. QED
    BY <1>1, <2>1
<1>3. 1 \in 1 .. n /\ n \in 1 .. n /\ SubSeq(t, 1, n) = t
  BY <1>1, <1>2, WholeIs
<1>4. t # <<>> /\ u = SubSeq(t, 2, n) /\ u \in Texts
  <2>1. /\ SubSeq(t, 1, n) # <<>>
        /\ Tail(SubSeq(t, 1, n)) = SubSeq(t, 1 + 1, n)
        /\ Tail(SubSeq(t, 1, n)) \in Texts
    BY <1>1, <1>3, TailPart
  <2>2. 1 + 1 = 2
    OBVIOUS
  <2>3. QED
    BY <1>3, <2>1, <2>2
<1>5. Target!StartsWith(t, "[")
  BY <1>4 DEF Target!StartsWith
<1>6. Target!First(t, "]") = b /\ Target!Holds(t, {"]"})
  BY FirstAt
<1>7. /\ Len(u) = n - 1
      /\ \A k \in 1 .. n - 1 : u[k] = t[k + 1]
  <2> DEFINE m == 2
  <2>1. m \in 1 .. Len(t) + 1 /\ n \in m - 1 .. Len(t) /\ n - m + 1 = n - 1
    BY <1>1, <1>2
  <2>2. \A k \in 1 .. n - 1 : m + k - 1 = k + 1
    BY <1>1
  <2> HIDE DEF m, u
  <2>3. /\ Len(SubSeq(t, m, n)) = n - m + 1
        /\ \A k \in 1 .. n - m + 1 : SubSeq(t, m, n)[k] = t[m + k - 1]
    BY <2>1, Part
  <2>4. u = SubSeq(t, m, n)
    BY <1>4 DEF m
  <2>5. QED
    BY <2>1, <2>2, <2>3, <2>4
<1> HIDE DEF u
<1>8. Target!First(u, "]") = b - 1
  <2> DEFINE c == b - 1
  <2>1. c \in 1 .. Len(u) /\ u[c] = "]"
    BY <1>1, <1>2, <1>7
  <2>2. \A k \in 1 .. c - 1 : u[k] # "]"
    <3>1. \A k \in 1 .. c - 1 : k \in 1 .. n - 1 /\ k + 1 \in 1 .. b - 1
      BY <1>1, <1>2
    <3>2. QED
      BY <1>7, <3>1
  <2> HIDE DEF c
  <2>3. Target!First(u, "]") = c
    BY <1>4, <2>1, <2>2, FirstAt
  <2>4. QED
    BY <2>3 DEF c
<1>9. Target!Head1(u, "]") = SubSeq(t, 2, b - 1)
  <2> DEFINE m == 2
             x == 1
             y == b - 2
  <2>1. /\ m \in 1 .. Len(t) + 1 /\ n \in m - 1 .. Len(t)
        /\ x \in 1 .. n - m + 2 /\ y \in x - 1 .. n - m + 1
    BY <1>1, <1>2
  <2>2. m + x - 1 = 2 /\ m + y - 1 = b - 1 /\ (b - 1) - 1 = y
    BY <1>1, <1>2
  <2>3. Target!Head1(u, "]") = SubSeq(u, x, y)
    BY <1>8, <2>2 DEF Target!Head1
  <2>4. u = SubSeq(t, m, n)
    BY <1>4
  <2> HIDE DEF m, x, y, n
  <2>5. SubSeq(SubSeq(t, m, n), x, y) = SubSeq(t, m + x - 1, m + y - 1)
    BY <2>1, PartPart
  <2>6. QED
    BY <2>2, <2>3, <2>4, <2>5
<1>10. Target!StartsWith(u, "]") <=> b = 2
  <2>1. u # <<>>
    <3>1. Len(u) # 0
      BY <1>1, <1>2, <1>7
    <3>2. QED
      BY <1>4, <3>1, TextIs
  <2>2. 1 \in 1 .. n - 1 /\ 1 + 1 = 2
    BY <1>1, <1>2
  <2>3. u[1] = t[2]
    BY <1>7, <2>2
  <2>4. b = 2 \/ 2 \in 1 .. b - 1
    BY <1>1, <1>2
  <2>5. t[2] = "]" <=> b = 2
    BY <2>4
  <2>6. QED
    BY <2>1, <2>3, <2>5 DEF Target!StartsWith
<1> DEFINE r == Target!Rest1(t, "]")
<1>11. r = SubSeq(t, b + 1, n)
  BY <1>6 DEF Target!Rest1
<1>12. CASE b = n
  <2>1. n + 1 \in 1 .. Len(t) + 1 /\ n + 1 - 1 = n
    BY <1>1
  <2>2. SubSeq(t, n + 1, n) = <<>>
    BY <2>1, PartNone
  <2>3. r = <<>> /\ ~Target!StartsWith(r, ":")
    BY <1>11, <1>12, <2>2 DEF Target!StartsWith
  <2> HIDE DEF r
  <2>4. QED
    BY <1>1, <1>2, <1>4, <1>5, <1>6, <1>9, <1>10, <1>12, <2>3 DEF r, u
<1>13. CASE b < n
  <2> DEFINE a == b + 1
  <2>1. a \in 1 .. Len(t) /\ n \in a .. Len(t) /\ a + 1 = b + 2
    BY <1>1, <1>13
  <2> HIDE DEF a, n
  <2>2. /\ SubSeq(t, a, n) # <<>> /\ SubSeq(t, a, n)[1] = t[a]
        /\ Tail(SubSeq(t, a, n)) = SubSeq(t, a + 1, n)
    BY <2>1, TailPart
  <2> HIDE DEF r
  <2>3. r # <<>> /\ r[1] = t[b + 1] /\ Tail(r) = SubSeq(t, b + 2, n)
    BY <1>11, <2>1, <2>2 DEF a
  <2>4. Target!StartsWith(r, ":") <=> t[b + 1] = ":"
    BY <2>3 DEF Target!StartsWith
  <2>5. b # n
    BY <1>1, <1>13
  <2>6. QED
    BY <1>2, <1>5, <1>6, <1>9, <1>10, <1>13, <2>3, <2>4, <2>5 DEF r, u, n
<1>14. b = n \/ b < n
  <2>1. b \in Int /\ n \in Int /\ b <= n
    BY <1>1, <1>2
  <2> HIDE DEF n, r
  <2>2. QED
    BY <2>1
<1> HIDE DEF n
<1>15. QED
  BY Zenon, <1>12, <1>13, <1>14

AuthorityChars == NameChars \cup {":", "[", "]"}

(* The port that is read when the host ends before i *)
PortText(t, i) == IF i <= Len(t) THEN SubSeq(t, i + 1, Len(t)) ELSE Target!NoPort

LEMMA AuthorityCharsAre ==
    \A c \in AuthorityChars :
        c # Target!Space /\ c # "@" /\ c # "/" /\ c # "#" /\ c # "%" /\ c # "none"
BY SpaceIs, ClassesAre DEF AuthorityChars

LEMMA NoOthers ==
    ASSUME NEW t \in Texts, \A k \in 1 .. Len(t) : t[k] \in AuthorityChars
    PROVE  /\ ~Target!Holds(t, {Target!Space, "@", "/"})
           /\ Target!Within(t, NameChars \cup {":", "[", "]"})
<1>1. DOMAIN t = 1 .. Len(t)
  BY TextIs
<1>2. ~Target!Holds(t, {Target!Space, "@", "/"})
  BY <1>1, AuthorityCharsAre DEF Target!Holds
<1>3. QED
  BY <1>1, <1>2 DEF Target!Within, AuthorityChars

(* validate_port is the grammar's port *)
LEMMA PortFits ==
    ASSUME NEW p
    PROVE  Target!ValidPort(p) <=> IsPort(p)
BY DEF Target!ValidPort, IsPort

(* The colons outside brackets, as ParsesAsAuthority counts them *)
LEMMA OneColon ==
    ASSUME NEW t \in Texts, NEW i, NEW n,
           \A k \in 1 .. Len(t) : t[k] = ":" /\ k > n => k = i
    PROVE  Target!Cardinality({k \in Target!Spots(t, ":") : k > n}) <= 1
<1> DEFINE S == {k \in Target!Spots(t, ":") : k > n}
<1>1. S \subseteq {i}
  BY TextIs DEF Target!Spots
<1> HIDE DEF S
<1>2. Cardinality(S) \in {0, 1}
  BY <1>1, FewAre
<1>3. Target!Cardinality(S) = Cardinality(S)
  BY CardinalityIs
<1>4. QED
  BY <1>2, <1>3 DEF S

LEMMA NoSpot ==
    ASSUME NEW t \in Texts, NEW c, \A k \in 1 .. Len(t) : t[k] # c
    PROVE  /\ Target!Cardinality(Target!Spots(t, c)) = 0
           /\ Target!OneSpot(t, c) = 0
<1>1. Target!Spots(t, c) = {}
  BY TextIs DEF Target!Spots
<1>2. Cardinality({}) = 0
  BY FS_EmptySet
<1>3. QED
  BY <1>1, <1>2, CardinalityIs DEF Target!OneSpot

LEMMA SingleSpot ==
    ASSUME NEW t \in Texts, NEW c, NEW i \in 1 .. Len(t), t[i] = c,
           \A k \in 1 .. Len(t) : t[k] = c => k = i
    PROVE  /\ Target!Cardinality(Target!Spots(t, c)) = 1
           /\ Target!OneSpot(t, c) = i
<1>1. Target!Spots(t, c) = {i}
  BY TextIs DEF Target!Spots
<1>2. Cardinality({i}) = 1
  BY FS_Singleton
<1>3. QED
  BY <1>1, <1>2, CardinalityIs DEF Target!OneSpot

LEMMA Parses ==
    ASSUME NEW t \in Texts, t # <<>>, \A k \in 1 .. Len(t) : t[k] \in AuthorityChars,
           NEW i, NEW m, NEW n, NEW x, m \in Int, n \in Int, m <= n, x \in {0, 1},
           \A k \in 1 .. Len(t) : t[k] = ":" /\ k > n => k = i,
           Target!Cardinality(Target!Spots(t, "[")) = x, Target!OneSpot(t, "[") = m,
           Target!Cardinality(Target!Spots(t, "]")) = x, Target!OneSpot(t, "]") = n
    PROVE  Target!ParsesAsAuthority(t)
<1>1. Target!Cardinality({k \in Target!Spots(t, ":") : k > n}) <= 1
  BY OneColon
<1>2. Target!Within(t, NameChars \cup {":", "[", "]"})
  BY NoOthers
<1>3. x <= 1
  OBVIOUS
<1>4. QED
  BY <1>1, <1>2, <1>3 DEF Target!ParsesAsAuthority

(* A text whose host is a name *)
LEMMA NamedValid ==
    ASSUME NEW t \in Texts, NEW i \in 1 .. Len(t) + 1, i > 1,
           \A k \in 1 .. i - 1 : t[k] \in NameChars,
           i <= Len(t) => t[i] = ":" /\ IsPort(SubSeq(t, i + 1, Len(t)))
    PROVE  /\ Target!ValidAuthority(t, FALSE)
           /\ Target!HostOf(t) = SubSeq(t, 1, i - 1)
           /\ Target!ExplicitPort(t) = PortText(t, i)
<1>1. Len(t) \in Nat /\ DOMAIN t = 1 .. Len(t)
  BY TextIs
<1>2. \A k \in 1 .. Len(t) : k # i => t[k] \in NameChars
  <2>1. ASSUME NEW k \in 1 .. Len(t), k # i  PROVE t[k] \in NameChars
    <3>1. CASE k < i
      BY <1>1, <3>1
    <3>2. CASE k > i
      <4>1. i \in 1 .. Len(t) /\ k \in i + 1 .. Len(t)
        BY <1>1, <3>2
      <4>2. \A m \in i + 1 .. Len(t) : t[m] \in DOMAIN Places
        BY <1>1, <4>1, PortIs
      <4>3. QED
        BY <4>1, <4>2, ClassesAre
    <3>3. QED
      BY <1>1, <2>1, <3>1, <3>2
  <2>2. QED
    BY <2>1
<1>3. \A k \in 1 .. Len(t) : t[k] = ":" <=> k = i
  BY <1>2, ClassesAre
<1>4. \A k \in 1 .. Len(t) : t[k] # "[" /\ t[k] # "]"
  <2>1. \A k \in 1 .. Len(t) : k = i => t[k] = ":"
    BY <1>3
  <2>2. QED
    BY <1>2, <2>1, ClassesAre
<1>5. /\ 1 \in 1 .. Len(t) /\ t # <<>> /\ t[1] \in NameChars
  <2>1. 1 \in 1 .. Len(t) /\ 1 # i
    BY <1>1
  <2>2. QED
    BY <1>1, <1>2, <2>1, TextIs
<1>6. ~Target!StartsWith(t, "[") /\ ~Target!StartsWith(t, ":")
  BY <1>5, ClassesAre DEF Target!StartsWith
<1>7. ~Target!Holds(t, {"[", "]"})
  BY <1>1, <1>4 DEF Target!Holds
<1>8. Target!Holds(t, {":"}) <=> i <= Len(t)
  BY <1>1, <1>3 DEF Target!Holds
<1>9. i <= Len(t) => Target!First(t, ":") = i
  <2>1. ASSUME i <= Len(t)  PROVE Target!First(t, ":") = i
    <3>1. i \in 1 .. Len(t) /\ \A k \in 1 .. i - 1 : k \in 1 .. Len(t) /\ k # i
      BY <1>1, <2>1
    <3>2. t[i] = ":" /\ \A k \in 1 .. i - 1 : t[k] # ":"
      BY <1>3, <3>1
    <3>3. QED
      BY <3>1, <3>2, FirstAt
  <2>2. QED
    BY <2>1
<1>10. Target!ExplicitPort(t) = PortText(t, i)
  BY <1>6, <1>8, <1>9 DEF Target!ExplicitPort, Target!Rest1, PortText
<1>11. Target!HostOf(t) = SubSeq(t, 1, i - 1)
  <2>1. Target!HostOf(t) = IF i <= Len(t) THEN SubSeq(t, 1, i - 1) ELSE t
    BY <1>6, <1>8, <1>9 DEF Target!HostOf, Target!Head1
  <2>2. ~(i <= Len(t)) => i - 1 = Len(t)
    BY <1>1
  <2>3. QED
    BY <2>1, <2>2, WholeIs
<1>12. Target!HostOf(t) # <<>>
  <2>1. 1 \in 1 .. Len(t) + 1 /\ i - 1 \in 1 - 1 .. Len(t) /\ (i - 1) - 1 + 1 # 0
    BY <1>1
  <2>2. /\ SubSeq(t, 1, i - 1) \in Texts
        /\ Len(SubSeq(t, 1, i - 1)) = (i - 1) - 1 + 1
    BY <2>1, Part
  <2>3. QED
    BY <1>11, <2>1, <2>2, TextIs
<1>13. ~Target!UnbracketedIpv6(t)
  <2>1. ~Target!IsIpv6(t)
    BY <1>3, Ipv6HasColons
  <2>2. ASSUME NEW k \in DOMAIN t, t[k] = ":", Target!IsIpv6(SubSeq(t, 1, k - 1))
        PROVE  FALSE
    <3>1. k = i /\ k \in 1 .. Len(t)
      BY <1>1, <1>3, <2>2
    <3> DEFINE n == i - 1
               s == SubSeq(t, 1, n)
    <3>2. 1 \in 1 .. Len(t) + 1 /\ n \in 1 - 1 .. Len(t) /\ n - 1 + 1 = n
      BY <1>1
    <3>3. s \in Texts /\ Len(s) = n /\ \A m \in 1 .. n : s[m] = t[1 + m - 1]
      BY <3>2, Part
    <3> HIDE DEF s
    <3>4. \A m \in 1 .. n : s[m] = t[m]
      BY <3>3
    <3>5. Target!IsIpv6(s)
      BY <2>2, <3>1 DEF s
    <3>6. PICK a \in 1 .. Len(s) : s[a] = ":"
      BY <3>3, <3>5, Ipv6HasColons
    <3>7. a \in 1 .. n /\ a \in 1 .. Len(t) /\ a # i
      BY <1>1, <3>2, <3>3, <3>6
    <3>8. t[a] = ":"
      BY <3>4, <3>6, <3>7
    <3>9. QED
      BY <1>3, <3>7, <3>8
  <2>3. ASSUME NEW k \in 1 .. Len(t) - 1, t[k] = ":", t[k + 1] = ":"  PROVE FALSE
    <3>1. k \in 1 .. Len(t) /\ k + 1 \in 1 .. Len(t) /\ k # k + 1
      BY <1>1
    <3>2. QED
      BY <1>3, <2>3, <3>1
  <2>4. QED
    BY <2>1, <2>2, <2>3 DEF Target!UnbracketedIpv6
<1>14. \A k \in 1 .. Len(t) : t[k] \in AuthorityChars
  BY <1>2, <1>3 DEF AuthorityChars
<1>15. Target!ParsesAsAuthority(t)
  <2>1. /\ Target!Cardinality(Target!Spots(t, "[")) = 0 /\ Target!OneSpot(t, "[") = 0
        /\ Target!Cardinality(Target!Spots(t, "]")) = 0 /\ Target!OneSpot(t, "]") = 0
    BY <1>4, NoSpot
  <2>2. \A k \in 1 .. Len(t) : t[k] = ":" /\ k > 0 => k = i
    BY <1>3
  <2> DEFINE x == 0
  <2>3. x \in Int /\ x <= x /\ x \in {0, 1}
    OBVIOUS
  <2> HIDE DEF x
  <2>4. /\ Target!Cardinality(Target!Spots(t, "[")) = x /\ Target!OneSpot(t, "[") = x
        /\ Target!Cardinality(Target!Spots(t, "]")) = x /\ Target!OneSpot(t, "]") = x
        /\ \A k \in 1 .. Len(t) : t[k] = ":" /\ k > x => k = i
    BY <2>1, <2>2 DEF x
  <2>5. QED
    BY <1>5, <1>14, <2>3, <2>4, Parses
<1>16. Target!ExplicitPort(t) # Target!NoPort => Target!ValidPort(Target!ExplicitPort(t))
  BY <1>10, PortFits DEF PortText
<1>17. Target!BracketsFit(t) /\ ~Target!RawHostIsEmpty(t)
  BY <1>5, <1>6, <1>7 DEF Target!BracketsFit, Target!RawHostIsEmpty
<1>18. QED
  BY <1>10, <1>11, <1>12, <1>13, <1>14, <1>15, <1>16, <1>17, NoOthers
     DEF Target!ValidAuthority

(* A text whose host is an address in brackets *)
LEMMA BracketedValid ==
    ASSUME NEW t \in Texts, NEW i \in 1 .. Len(t) + 1, i > 3,
           t[1] = "[", t[i - 1] = "]", Target!IsIpv6(SubSeq(t, 2, i - 2)),
           i <= Len(t) => t[i] = ":" /\ IsPort(SubSeq(t, i + 1, Len(t)))
    PROVE  /\ Target!ValidAuthority(t, FALSE)
           /\ Target!HostOf(t) = SubSeq(t, 1, i - 1)
           /\ Target!ExplicitPort(t) = PortText(t, i)
<1> DEFINE b == i - 1
<1>1. Len(t) \in Nat /\ DOMAIN t = 1 .. Len(t)
  BY TextIs
<1>2. /\ b \in 1 .. Len(t) /\ t[b] = "]" /\ i = b + 1 /\ b > 2 /\ i - 2 = b - 1
      /\ i + 1 = b + 2
  BY <1>1
<1>3. \A k \in 2 .. b - 1 : t[k] \in Hex \cup {":"}
  <2> DEFINE m == 2
             n == b - 1
             s == SubSeq(t, m, n)
  <2>1. m \in 1 .. Len(t) + 1 /\ n \in m - 1 .. Len(t)
    BY <1>1, <1>2
  <2>2. s \in Texts
    BY <2>1, Part
  <2>3. DOMAIN s = 1 .. Len(s) /\ \A k \in 1 .. Len(s) : s[k] \in Hex \cup {":"}
    BY <1>2, <2>2, Ipv6Within, TextIs
  <2> HIDE DEF s
  <2>4. Target!Within(s, Hex \cup {":"})
    BY <2>3 DEF Target!Within
  <2> HIDE DEF m, n
  <2>5. \A k \in m .. n : t[k] \in Hex \cup {":"}
    BY <2>1, <2>4, PartWithin DEF s
  <2>6. QED
    BY <2>5 DEF m, n
<1> HIDE DEF b
<1>4. b < Len(t) => i \in 1 .. Len(t) /\ i <= Len(t) /\ t[i] = ":" /\ IsPort(SubSeq(t, i + 1, Len(t)))
  BY <1>1, <1>2
<1>5. \A k \in 1 .. Len(t) : k > b => k = i \/ t[k] \in DOMAIN Places
  <2>1. ASSUME NEW k \in 1 .. Len(t), k > b, k # i  PROVE t[k] \in DOMAIN Places
    <3>1. b < Len(t) /\ k \in i + 1 .. Len(t)
      BY <1>1, <1>2, <2>1
    <3>2. \A m \in i + 1 .. Len(t) : t[m] \in DOMAIN Places
      BY <1>4, <3>1, PortIs
    <3>3. QED
      BY <3>1, <3>2
  <2>2. QED
    BY <2>1
<1>6. \A k \in 1 .. Len(t) : \/ k = 1 \/ k \in 2 .. b - 1 \/ k = b
                             \/ k > b /\ b < Len(t) /\ (k = i \/ t[k] \in DOMAIN Places)
  <2>1. \A k \in 1 .. Len(t) : k = 1 \/ k \in 2 .. b - 1 \/ k = b \/ k > b
    BY <1>1, <1>2
  <2>2. \A k \in 1 .. Len(t) : k > b => b < Len(t)
    BY <1>1, <1>2
  <2>3. QED
    BY <1>5, <2>1, <2>2
<1>7. \A k \in 1 .. Len(t) :
         \/ k = 1 /\ t[k] = "["
         \/ k < b /\ (t[k] \in Hex \/ t[k] = ":")
         \/ k = b /\ t[k] = "]"
         \/ k > b /\ k = i /\ t[k] = ":"
         \/ k > b /\ t[k] \in Hex
  <2>1. \A k \in 2 .. b - 1 : k < b
    BY <1>2
  <2>2. QED
    BY <1>2, <1>3, <1>4, <1>6, <2>1, ClassesAre
<1>8. \A k \in 1 .. Len(t) : /\ t[k] \in AuthorityChars
                             /\ t[k] = "[" => k = 1
                             /\ t[k] = "]" => k = b
                             /\ t[k] = ":" /\ k > b => k = i
  <2>1. \A c \in Hex : c # "[" /\ c # "]" /\ c # ":" /\ c \in AuthorityChars
    BY ClassesAre DEF AuthorityChars
  <2>2. "[" \in AuthorityChars /\ "]" \in AuthorityChars /\ ":" \in AuthorityChars
    BY DEF AuthorityChars
  <2>3. ASSUME NEW k \in 1 .. Len(t)
        PROVE  /\ t[k] \in AuthorityChars
               /\ t[k] = "[" => k = 1
               /\ t[k] = "]" => k = b
               /\ t[k] = ":" /\ k > b => k = i
    <3>1. \/ k = 1 /\ t[k] = "["
          \/ k < b /\ (t[k] \in Hex \/ t[k] = ":")
          \/ k = b /\ t[k] = "]"
          \/ k > b /\ k = i /\ t[k] = ":"
          \/ k > b /\ t[k] \in Hex
      BY <1>7
    <3>2. ~(1 > b) /\ ~(b > b) /\ (k < b => ~(k > b))
      BY <1>1, <1>2
    <3>3. QED
      BY <2>1, <2>2, <3>1, <3>2
  <2>4. QED
    BY <2>3
<1>9. \A k \in 1 .. b - 1 : t[k] # "]"
  <2>1. \A k \in 1 .. b - 1 : k \in 1 .. Len(t) /\ k # b
    BY <1>1, <1>2
  <2>2. QED
    BY <1>8, <2>1
<1>10. /\ Target!StartsWith(t, "[")
       /\ Target!First(t, "]") = b /\ Target!Holds(t, {"]"})
       /\ Target!Head1(Tail(t), "]") = SubSeq(t, 2, b - 1)
       /\ Target!StartsWith(Tail(t), "]") <=> b = 2
       /\ Target!Rest1(t, "]") = <<>> <=> b = Len(t)
       /\ Target!StartsWith(Target!Rest1(t, "]"), ":") <=> b < Len(t) /\ t[b + 1] = ":"
       /\ b < Len(t) => Tail(Target!Rest1(t, "]")) = SubSeq(t, b + 2, Len(t))
  BY <1>2, <1>9, BracketParts
<1>11. Target!StartsWith(Target!Rest1(t, "]"), ":") <=> b < Len(t)
  BY <1>2, <1>4, <1>10
<1>12. b = Len(t) \/ b < Len(t)
  <2> DEFINE n == Len(t)
  <2>1. b \in Int /\ n \in Int /\ b <= n
    BY <1>1, <1>2
  <2> HIDE DEF n
  <2>2. b = n \/ b < n
    BY <2>1
  <2>3. QED
    BY <2>2 DEF n
<1>13. i <= Len(t) <=> b < Len(t)
  BY <1>1, <1>2
<1>14. Target!ExplicitPort(t) = PortText(t, i)
  BY <1>2, <1>10, <1>11, <1>13 DEF Target!ExplicitPort, PortText
<1>15. Target!HostOf(t) = SubSeq(t, 1, i - 1)
  BY <1>10 DEF Target!HostOf, b
<1>16. Target!HostOf(t) # <<>>
  <2>1. 1 \in 1 .. Len(t) /\ b \in 1 .. Len(t) /\ SubSeq(t, 1, b) # <<>>
    <3>1. 1 \in 1 .. Len(t) /\ b \in 1 .. Len(t)
      BY <1>1, <1>2
    <3>2. QED
      BY <3>1, TailPart
  <2>2. QED
    BY <1>15, <2>1 DEF b
<1>17. Target!BracketsFit(t)
  <2>1. Target!IsIpv6(Target!Head1(Tail(t), "]"))
    BY <1>2, <1>10
  <2>2. QED
    BY <1>10, <1>11, <1>12, <2>1 DEF Target!BracketsFit
<1>18. ~Target!UnbracketedIpv6(t)
  BY <1>10 DEF Target!UnbracketedIpv6
<1>19. ~Target!RawHostIsEmpty(t)
  <2>1. b # 2
    BY <1>2
  <2>2. QED
    BY <1>10, <2>1 DEF Target!RawHostIsEmpty
<1>20. Target!ParsesAsAuthority(t)
  <2>1. 1 \in 1 .. Len(t) /\ 1 <= b
    BY <1>1, <1>2
  <2>2. Target!Cardinality(Target!Spots(t, "[")) = 1 /\ Target!OneSpot(t, "[") = 1
    BY <1>8, <2>1, SingleSpot
  <2>3. Target!Cardinality(Target!Spots(t, "]")) = 1 /\ Target!OneSpot(t, "]") = b
    BY <1>2, <1>8, SingleSpot
  <2>4. t # <<>>
    BY <1>1, <2>1, TextIs
  <2> DEFINE x == 1
  <2>5. x \in Int /\ b \in Int /\ x <= b /\ x \in {0, 1}
    BY <1>1, <1>2, <2>1
  <2> HIDE DEF x
  <2>6. /\ Target!Cardinality(Target!Spots(t, "[")) = x
        /\ Target!OneSpot(t, "[") = x
        /\ Target!Cardinality(Target!Spots(t, "]")) = x
    BY <2>2, <2>3 DEF x
  <2>7. /\ \A k \in 1 .. Len(t) : t[k] \in AuthorityChars
        /\ \A k \in 1 .. Len(t) : t[k] = ":" /\ k > b => k = i
    BY <1>8
  <2>8. QED
    BY <2>3, <2>4, <2>5, <2>6, <2>7, Parses
<1>21. Target!ExplicitPort(t) # Target!NoPort => Target!ValidPort(Target!ExplicitPort(t))
  BY <1>14, PortFits DEF PortText
<1>22. QED
  BY <1>8, <1>14, <1>15, <1>16, <1>17, <1>18, <1>19, <1>20, <1>21, NoOthers
     DEF Target!ValidAuthority

(* What the grammar takes is accepted, and read as the grammar reads it *)
LEMMA EndValid ==
    ASSUME NEW t \in Texts, NEW i, HostEnds(t, i)
    PROVE  /\ Target!ValidAuthority(t, FALSE)
           /\ Target!HostOf(t) = SubSeq(t, 1, i - 1)
           /\ Target!ExplicitPort(t) = PortText(t, i)
<1>1. /\ i \in 1 .. Len(t) + 1
      /\ IsHost(SubSeq(t, 1, i - 1))
      /\ i <= Len(t) => t[i] = ":" /\ IsPort(SubSeq(t, i + 1, Len(t)))
  BY DEF HostEnds
<1>2. CASE i > 1 /\ \A k \in 1 .. i - 1 : t[k] \in NameChars
  BY <1>1, <1>2, NamedValid
<1>3. CASE /\ i > 3 /\ t[1] = "[" /\ t[i - 1] = "]"
           /\ Target!IsIpv6(SubSeq(t, 2, i - 2))
  BY <1>1, <1>3, BracketedValid
<1>4. QED
  BY <1>1, <1>2, <1>3, HostIs

LEMMA NotNoPort ==
    ASSUME NEW t \in Texts, NEW m \in 1 .. Len(t) + 1,
           \A k \in 1 .. Len(t) : t[k] \in AuthorityChars
    PROVE  SubSeq(t, m, Len(t)) # Target!NoPort
<1> DEFINE s == SubSeq(t, m, Len(t))
<1>1. Len(t) \in Nat
  BY TextIs
<1>2. /\ s \in Texts /\ Len(s) = Len(t) - m + 1
      /\ \A k \in 1 .. Len(t) - m + 1 : s[k] = t[m + k - 1]
  <2>1. Len(t) \in m - 1 .. Len(t)
    BY <1>1
  <2>2. QED
    BY <2>1, Part
<1> HIDE DEF s
<1>3. ASSUME s = <<"none">>  PROVE FALSE
  <2>1. Len(s) = 1 /\ s[1] = "none"
    BY <1>3
  <2>2. 1 \in 1 .. Len(t) - m + 1 /\ m \in 1 .. Len(t) /\ m + 1 - 1 = m
    <3>1. Len(t) - m + 1 = 1
      BY <1>2, <2>1
    <3>2. m \in Int /\ 1 <= m
      BY <1>1
    <3> DEFINE n == Len(t)
    <3>3. n \in Int /\ n - m + 1 = 1
      BY <1>1, <3>1
    <3> HIDE DEF n
    <3>4. 1 \in 1 .. n - m + 1 /\ m \in 1 .. n /\ m + 1 - 1 = m
      BY <3>2, <3>3
    <3>5. QED
      BY <3>4 DEF n
  <2>3. s[1] = t[m]
    BY <1>2, <2>2
  <2>4. QED
    BY <2>1, <2>2, <2>3, AuthorityCharsAre
<1>4. QED
  BY <1>3 DEF Target!NoPort, s

LEMMA PortHasNoDots ==
    ASSUME NEW p, IsPort(p)
    PROVE  p # Target!NoPort
<1>1. ASSUME p = <<"none">>  PROVE FALSE
  <2>1. 1 \in DOMAIN p /\ p[1] = "none"
    BY <1>1
  <2>2. "none" \in DOMAIN Places
    BY <2>1 DEF IsPort, Target!Within
  <2>3. QED
    BY <2>2, ClassesAre
<1>2. QED
  BY <1>1 DEF Target!NoPort

(* What is accepted, the grammar takes *)
LEMMA ValidEnds ==
    ASSUME NEW t \in Texts, Target!ValidAuthority(t, FALSE)
    PROVE  \E i : HostEnds(t, i)
<1>1. Len(t) \in Nat /\ DOMAIN t = 1 .. Len(t)
  BY TextIs
<1>2. /\ Target!BracketsFit(t) /\ ~Target!RawHostIsEmpty(t)
      /\ Target!ExplicitPort(t) # Target!NoPort => IsPort(Target!ExplicitPort(t))
      /\ Target!ParsesAsAuthority(t)
  BY PortFits DEF Target!ValidAuthority
<1>3. \A k \in 1 .. Len(t) : t[k] \in AuthorityChars
  BY <1>1, <1>2 DEF Target!ParsesAsAuthority, Target!Within, AuthorityChars
<1>4. CASE Target!StartsWith(t, "[")
  <2>1. t[1] = "[" /\ Target!Holds(t, {"]"})
    BY <1>2, <1>4 DEF Target!StartsWith, Target!BracketsFit
  <2> DEFINE b == Target!First(t, "]")
             i == b + 1
  <2>2. b \in 1 .. Len(t) /\ t[b] = "]" /\ \A k \in 1 .. b - 1 : t[k] # "]"
    BY <2>1, FirstIs
  <2> HIDE DEF b
  <2>3. /\ b > 1
        /\ Target!First(t, "]") = b /\ Target!Holds(t, {"]"})
        /\ Target!Head1(Tail(t), "]") = SubSeq(t, 2, b - 1)
        /\ Target!StartsWith(Tail(t), "]") <=> b = 2
        /\ Target!Rest1(t, "]") = <<>> <=> b = Len(t)
        /\ Target!StartsWith(Target!Rest1(t, "]"), ":") <=> b < Len(t) /\ t[b + 1] = ":"
        /\ b < Len(t) => Tail(Target!Rest1(t, "]")) = SubSeq(t, b + 2, Len(t))
    BY <2>1, <2>2, BracketParts
  <2>4. b # 2
    BY <1>2, <1>4, <2>3 DEF Target!RawHostIsEmpty
  <2>5. Target!IsIpv6(SubSeq(t, 2, b - 1))
    BY <1>2, <1>4, <2>3 DEF Target!BracketsFit
  <2>6. b = Len(t) \/ (b < Len(t) /\ t[b + 1] = ":")
    <3>1. Target!Rest1(t, "]") = <<>> \/ Target!StartsWith(Target!Rest1(t, "]"), ":")
      BY <1>2, <1>4 DEF Target!BracketsFit
    <3>2. QED
      BY <2>3, <3>1
  <2>7. /\ i \in 1 .. Len(t) + 1 /\ i > 3 /\ i - 1 = b /\ i - 2 = b - 1 /\ i + 1 = b + 2
        /\ i <= Len(t) => b # Len(t)
    <3> DEFINE n == Len(t)
    <3>0. b > 1
      BY <2>3
    <3>1. b \in Int /\ n \in Int /\ 1 < b /\ b <= n /\ b # 2
      BY <1>1, <2>2, <2>4, <3>0
    <3> HIDE DEF n
    <3>2. /\ i \in 1 .. n + 1 /\ i > 3 /\ i - 1 = b /\ i - 2 = b - 1 /\ i + 1 = b + 2
          /\ i <= n => b # n
      BY <3>1
    <3>3. QED
      BY <3>2 DEF n
  <2>8. i <= Len(t) => t[i] = ":" /\ IsPort(SubSeq(t, i + 1, Len(t)))
    <3>1. ASSUME b < Len(t), t[b + 1] = ":"  PROVE IsPort(SubSeq(t, b + 2, Len(t)))
      <4>1. Target!ExplicitPort(t) = SubSeq(t, b + 2, Len(t))
        BY <1>4, <2>3, <3>1 DEF Target!ExplicitPort
      <4>2. b + 2 \in 1 .. Len(t) + 1
        BY <1>1, <2>2, <3>1
      <4>3. SubSeq(t, b + 2, Len(t)) # Target!NoPort
        BY <1>3, <4>2, NotNoPort
      <4>4. QED
        BY <1>2, <4>1, <4>3
    <3>2. QED
      BY <2>6, <2>7, <3>1
  <2> HIDE DEF i
  <2>9. IsHost(SubSeq(t, 1, i - 1))
    <3>1. t[i - 1] = "]" /\ Target!IsIpv6(SubSeq(t, 2, i - 2))
      BY <2>2, <2>5, <2>7
    <3>2. QED
      BY <2>1, <2>7, <3>1, HostIs
  <2>10. QED
    BY <2>7, <2>8, <2>9 DEF HostEnds
<1>5. CASE ~Target!StartsWith(t, "[")
  <2>1. ~Target!Holds(t, {"[", "]"})
    BY <1>2, <1>5 DEF Target!BracketsFit
  <2>2. \A k \in 1 .. Len(t) : t[k] \in NameChars \/ t[k] = ":"
    BY <1>1, <1>3, <2>1 DEF Target!Holds, AuthorityChars
  <2>3. t # <<>> /\ t[1] # ":"
    BY <1>2, <1>5 DEF Target!RawHostIsEmpty, Target!StartsWith
  <2>4. Len(t) > 0
    BY <1>1, <2>3, TextIs
  <2>5. CASE Target!Holds(t, {":"})
    <3> DEFINE i == Target!First(t, ":")
    <3>1. i \in 1 .. Len(t) /\ t[i] = ":" /\ \A k \in 1 .. i - 1 : t[k] # ":"
      BY <2>5, FirstIs
    <3>2. Target!ExplicitPort(t) = SubSeq(t, i + 1, Len(t))
      BY <1>5, <2>5 DEF Target!ExplicitPort, Target!Rest1
    <3> HIDE DEF i
    <3>3. i \in 1 .. Len(t) + 1 /\ i + 1 \in 1 .. Len(t) + 1
      BY <1>1, <3>1
    <3>4. i # 1
      BY <2>3, <3>1
    <3>5. i > 1
      BY <1>1, <3>1, <3>4
    <3>6. \A k \in 1 .. i - 1 : t[k] \in NameChars
      <4>1. \A k \in 1 .. i - 1 : k \in 1 .. Len(t)
        BY <1>1, <3>1
      <4>2. QED
        BY <2>2, <3>1, <4>1
    <3>7. IsPort(SubSeq(t, i + 1, Len(t)))
      <4>1. SubSeq(t, i + 1, Len(t)) # Target!NoPort
        <5> DEFINE m == i + 1
        <5>1. m \in 1 .. Len(t) + 1
          BY <3>3
        <5> HIDE DEF m
        <5>2. SubSeq(t, m, Len(t)) # Target!NoPort
          BY <1>3, <5>1, NotNoPort
        <5>3. QED
          BY <5>2 DEF m
      <4>2. QED
        BY <1>2, <3>2, <4>1
    <3>8. IsHost(SubSeq(t, 1, i - 1))
      BY <3>3, <3>5, <3>6, HostIs
    <3>9. QED
      BY <3>1, <3>3, <3>7, <3>8 DEF HostEnds
  <2>6. CASE ~Target!Holds(t, {":"})
    <3> DEFINE i == Len(t) + 1
    <3>1. \A k \in 1 .. Len(t) : t[k] \in NameChars
      BY <1>1, <2>2, <2>6 DEF Target!Holds
    <3>2. i \in 1 .. Len(t) + 1 /\ i > 1 /\ i - 1 = Len(t) /\ ~(i <= Len(t))
      BY <1>1, <2>4
    <3> HIDE DEF i
    <3>3. \A k \in 1 .. i - 1 : t[k] \in NameChars
      BY <3>1, <3>2
    <3>4. IsHost(SubSeq(t, 1, i - 1))
      BY <3>2, <3>3, HostIs
    <3>5. QED
      BY <3>2, <3>4 DEF HostEnds
  <2>7. QED
    BY <2>5, <2>6
<1>6. QED
  BY <1>4, <1>5

(* The port is named exactly when the host ends before the end *)
LEMMA PortNamed ==
    ASSUME NEW t \in Texts, NEW i, HostEnds(t, i)
    PROVE  /\ PortText(t, i) # Target!NoPort <=> i <= Len(t)
           /\ PortAfter(t, i) # <<>> <=> i <= Len(t)
<1>1. i <= Len(t) => IsPort(SubSeq(t, i + 1, Len(t)))
  BY DEF HostEnds
<1>2. CASE i <= Len(t)
  <2>1. SubSeq(t, i + 1, Len(t)) # <<>>
    BY <1>1, <1>2 DEF IsPort
  <2>2. SubSeq(t, i + 1, Len(t)) # Target!NoPort
    BY <1>1, <1>2, PortHasNoDots
  <2>3. QED
    BY <1>2, <2>1, <2>2 DEF PortText, PortAfter
<1>3. CASE ~(i <= Len(t))
  BY <1>3 DEF PortText, PortAfter
<1>4. QED
  BY <1>2, <1>3

LEMMA ValidWithPort ==
    ASSUME NEW t
    PROVE  Target!ValidAuthority(t, TRUE) <=>
              Target!ValidAuthority(t, FALSE) /\ Target!ExplicitPort(t) # Target!NoPort
BY DEF Target!ValidAuthority

(* Every text is accepted as an authority if and only if it is one *)
LEMMA AuthorityHolds == Typed => AuthorityIsRight
<1> SUFFICES ASSUME text \in Texts  PROVE AuthorityIsRight
  BY DEF Typed
<1>1. Target!ValidAuthority(text, FALSE) <=> \E i : HostEnds(text, i)
  BY EndValid, ValidEnds
<1>2. ASSUME NEW i, HostEnds(text, i)
      PROVE  <<SubSeq(text, 1, i - 1), PortAfter(text, i)>> \in Readings(text)
  BY <1>2, EndReads
<1>3. ASSUME NEW c, c \in Readings(text)
      PROVE  \E i : HostEnds(text, i) /\ c[2] = PortAfter(text, i)
  BY <1>3, ReadingIs
<1>4. Target!ValidAuthority(text, FALSE) <=> Readings(text) # {}
  BY <1>1, <1>2, <1>3
<1>5. ASSUME Target!ValidAuthority(text, TRUE)
      PROVE  \E reading \in Readings(text) : reading[2] # <<>>
  <2>1. Target!ValidAuthority(text, FALSE) /\ Target!ExplicitPort(text) # Target!NoPort
    BY <1>5, ValidWithPort
  <2>2. PICK i : HostEnds(text, i)
    BY <1>1, <2>1
  <2>3. PortAfter(text, i) # <<>>
    BY <2>1, <2>2, EndValid, PortNamed
  <2> DEFINE c == <<SubSeq(text, 1, i - 1), PortAfter(text, i)>>
  <2>4. c \in Readings(text) /\ c[2] # <<>>
    BY <1>2, <2>2, <2>3
  <2>5. QED
    BY <2>4
<1>6. ASSUME NEW c \in Readings(text), c[2] # <<>>
      PROVE  Target!ValidAuthority(text, TRUE)
  <2>1. PICK i : HostEnds(text, i) /\ c[2] = PortAfter(text, i)
    BY <1>3
  <2>2. Target!ExplicitPort(text) # Target!NoPort
    BY <1>6, <2>1, EndValid, PortNamed
  <2>3. QED
    BY <1>1, <2>1, <2>2, ValidWithPort
<1>7. QED
  BY <1>4, <1>5, <1>6 DEF AuthorityIsRight

-----------------------------------------------------------------------------
(* Percent-encoding, and --path with --sock *)

(* From i on, every % begins an encoded character *)
AllEncoded(t, i) == \A p \in Target!Percents(t) : p >= i => Target!Encoded(t, p)

(* One step of the loop over the % of a text *)
LEMMA NextIs ==
    ASSUME NEW t \in Texts, NEW i \in 1 .. Len(t) + 3,
           ~(\A p \in Target!Percents(t) : p < i)
    PROVE  LET n == Target!NextPercent(t, i) IN
           /\ n \in 1 .. Len(t) /\ n >= i
           /\ AllEncoded(t, i) <=> Target!Encoded(t, n) /\ AllEncoded(t, n + 3)
<1> DEFINE P == {p \in Target!Percents(t) : p >= i}
           n == Target!NextPercent(t, i)
<1>1. Len(t) \in Nat /\ DOMAIN t = 1 .. Len(t)
  BY TextIs
<1>2. \A p : p \in Target!Percents(t) <=> p \in 1 .. Len(t) /\ t[p] = "%"
  BY <1>1 DEF Target!Percents
<1>3. P # {} /\ P \in SUBSET Nat
  <2>1. PICK p \in Target!Percents(t) : ~(p < i)
    OBVIOUS
  <2>2. p >= i
    BY <1>1, <1>2, <2>1
  <2>3. \A q \in Target!Percents(t) : q \in Nat
    BY <1>1, <1>2
  <2>4. QED
    BY <2>1, <2>2, <2>3
<1>4. PICK m \in P : \A k \in P : m <= k
  <2> HIDE DEF P
  <2>1. QED
    BY <1>3, Smallest
<1>5. \E p \in Target!Percents(t) :
         p >= i /\ \A k \in Target!Percents(t) : k >= i => p <= k
  BY <1>4
<1>6. /\ n \in Target!Percents(t) /\ n >= i
      /\ \A k \in Target!Percents(t) : k >= i => n <= k
  BY <1>5 DEF Target!NextPercent
<1> HIDE DEF n
<1>7. n \in 1 .. Len(t)
  BY <1>2, <1>6
<1>8. ASSUME Target!Encoded(t, n)
      PROVE  \A p \in Target!Percents(t) : p >= i => p = n \/ p >= n + 3
  <2>1. n + 2 <= Len(t) /\ t[n + 1] \in Hex /\ t[n + 2] \in Hex
    BY <1>8 DEF Target!Encoded
  <2>2. n + 1 \notin Target!Percents(t) /\ n + 2 \notin Target!Percents(t)
    BY <1>2, <2>1, ClassesAre
  <2>3. ASSUME NEW p \in Target!Percents(t), p >= i  PROVE p = n \/ p >= n + 3
    <3>1. n <= p /\ p # n + 1 /\ p # n + 2 /\ p \in Int /\ n \in Int
      BY <1>2, <1>6, <1>7, <2>2, <2>3
    <3>2. QED
      BY <3>1
  <2>4. QED
    BY <2>3
<1>9. \A p \in Target!Percents(t) : p >= n + 3 => p >= i
  BY <1>1, <1>2, <1>6, <1>7
<1>10. AllEncoded(t, i) => Target!Encoded(t, n) /\ AllEncoded(t, n + 3)
  BY <1>6, <1>9 DEF AllEncoded
<1>11. Target!Encoded(t, n) /\ AllEncoded(t, n + 3) => AllEncoded(t, i)
  BY <1>8 DEF AllEncoded
<1>12. QED
  BY <1>6, <1>7, <1>10, <1>11 DEF n

LEMMA NoneLeft ==
    ASSUME NEW t \in Texts, NEW i \in 1 .. Len(t) + 3,
           \A p \in Target!Percents(t) : p < i
    PROVE  AllEncoded(t, i)
<1>1. Len(t) \in Nat /\ DOMAIN t = 1 .. Len(t)
  BY TextIs
<1>2. \A p \in Target!Percents(t) : p \in Int /\ i \in Int
  BY <1>1 DEF Target!Percents
<1>3. QED
  BY <1>2 DEF AllEncoded

(* The loop, which the model defines by what remains of the text: the       *)
(* function exists, and the last place where it could differ from          *)
(* AllEncoded cannot be.                                                    *)
LEMMA ValidFromIs ==
    ASSUME NEW t \in Texts
    PROVE  Target!ValidPercent(t) <=> AllEncoded(t, 1)
<1> DEFINE D == 1 .. Len(t) + 3
           StepAt(f, i) == \/ \A p \in Target!Percents(t) : p < i
                           \/ /\ Target!Encoded(t, Target!NextPercent(t, i))
                              /\ f[Target!NextPercent(t, i) + 3]
           F(f) == f = [i \in D |-> StepAt(f, i)]
           g == [i \in D |-> AllEncoded(t, i)]
           ok == Target!ValidFrom(t)
<1>1. Len(t) \in Nat
  BY TextIs
<1>2. ASSUME NEW i \in D, ~(\A p \in Target!Percents(t) : p < i)
      PROVE  LET n == Target!NextPercent(t, i) IN
             /\ n + 3 \in D /\ n + 3 > i
             /\ AllEncoded(t, i) <=> Target!Encoded(t, n) /\ AllEncoded(t, n + 3)
  <2> DEFINE n == Target!NextPercent(t, i)
  <2>1. /\ n \in 1 .. Len(t) /\ n >= i
        /\ AllEncoded(t, i) <=> Target!Encoded(t, n) /\ AllEncoded(t, n + 3)
    BY <1>2, NextIs
  <2> HIDE DEF n
  <2>2. n + 3 \in D /\ n + 3 > i
    BY <1>1, <2>1
  <2>3. QED
    BY <2>1, <2>2 DEF n
<1>3. F(g)
  <2>1. ASSUME NEW i \in D  PROVE AllEncoded(t, i) <=> StepAt(g, i)
    <3>1. CASE \A p \in Target!Percents(t) : p < i
      BY <3>1, NoneLeft
    <3>2. CASE ~(\A p \in Target!Percents(t) : p < i)
      <4> DEFINE n == Target!NextPercent(t, i)
      <4>1. /\ n + 3 \in D
            /\ AllEncoded(t, i) <=> Target!Encoded(t, n) /\ AllEncoded(t, n + 3)
        BY <1>2, <3>2
      <4> HIDE DEF n
      <4>2. g[n + 3] = AllEncoded(t, n + 3)
        BY <4>1
      <4>3. QED
        BY <3>2, <4>1, <4>2 DEF n
    <3>3. QED
      BY <3>1, <3>2
  <2>2. \A i \in D : AllEncoded(t, i) = StepAt(g, i)
    <3>1. \A i \in D : AllEncoded(t, i) <=> StepAt(g, i)
      BY <2>1
    <3>2. \A i \in D : AllEncoded(t, i) \in BOOLEAN /\ StepAt(g, i) \in BOOLEAN
      BY DEF AllEncoded
    <3> HIDE DEF StepAt
    <3>3. QED
      BY <3>1, <3>2
  <2> HIDE DEF StepAt, D
  <2>3. QED
    BY <2>2
<1>4. ok = CHOOSE f : F(f)
  BY DEF Target!ValidFrom
<1> HIDE DEF g
<1>5. F(ok)
  <2> HIDE DEF F, ok
  <2>1. QED
    BY <1>3, <1>4
<1> HIDE DEF ok
<1>6. \A i \in D : ok[i] <=> StepAt(ok, i)
  <2> HIDE DEF StepAt, D
  <2>1. QED
    BY <1>5
<1> DEFINE Bad == {i \in D : ~(ok[i] <=> AllEncoded(t, i))}
<1>7. CASE Bad # {}
  <2>1. Len(t) + 3 \in Nat /\ Bad \in SUBSET (0 .. Len(t) + 3)
    BY <1>1
  <2> HIDE DEF Bad
  <2>2. PICK i \in Bad : \A k \in Bad : k <= i
    BY <1>7, <2>1, Greatest
  <2>3. i \in D /\ ~(ok[i] <=> AllEncoded(t, i))
    BY <2>2 DEF Bad
  <2>4. CASE \A p \in Target!Percents(t) : p < i
    BY <1>6, <2>3, <2>4, NoneLeft
  <2>5. CASE ~(\A p \in Target!Percents(t) : p < i)
    <3> DEFINE n == Target!NextPercent(t, i)
    <3>1. /\ n + 3 \in D /\ n + 3 > i
          /\ AllEncoded(t, i) <=> Target!Encoded(t, n) /\ AllEncoded(t, n + 3)
      BY <1>2, <2>3, <2>5
    <3>2. ok[i] <=> Target!Encoded(t, n) /\ ok[n + 3]
      BY <1>6, <2>3, <2>5
    <3> HIDE DEF n
    <3>3. n + 3 \notin Bad
      <4>1. ~(n + 3 <= i)
        BY <1>1, <2>3, <3>1
      <4>2. QED
        BY <2>2, <4>1
    <3>4. ok[n + 3] <=> AllEncoded(t, n + 3)
      BY <3>1, <3>3 DEF Bad
    <3>5. QED
      BY <2>3, <3>1, <3>2, <3>4
  <2>6. QED
    BY <2>4, <2>5
<1>8. CASE Bad = {}
  <2>1. 1 \in D
    BY <1>1
  <2>2. ok[1] <=> AllEncoded(t, 1)
    BY <1>8, <2>1
  <2>3. QED
    BY <2>2 DEF ok, Target!ValidPercent
<1>9. QED
  BY <1>7, <1>8

(* Every --path is accepted if and only if it is absolute *)
LEMMA SocketPathHolds == Typed => SocketPathIsRight
<1> SUFFICES ASSUME text \in Texts
             PROVE  Target!ValidSocketPath(text) <=> text # <<>> /\ IsRest(text)
  BY DEF Typed, SocketPathIsRight
<1>1. Len(text) \in Nat /\ DOMAIN text = 1 .. Len(text)
  BY TextIs
<1>2. Target!StartsWith(text, "/") <=> text # <<>> /\ text[1] = "/"
  BY DEF Target!StartsWith
<1>3. ~Target!Holds(text, {Target!Space, "#"}) <=>
         ~Target!Holds(text, {Target!Space}) /\ ~Target!Holds(text, {"#"})
  BY DEF Target!Holds
<1>4. AllEncoded(text, 1) <=>
         \A i \in DOMAIN text : text[i] = "%" =>
            i + 2 <= Len(text) /\ {text[i + 1], text[i + 2]} \subseteq Hex
  <2>1. \A i \in DOMAIN text : i >= 1
    BY <1>1
  <2>2. AllEncoded(text, 1) <=> \A i \in DOMAIN text : text[i] = "%" => Target!Encoded(text, i)
    BY <2>1 DEF AllEncoded, Target!Percents
  <2>3. \A i \in DOMAIN text : Target!Encoded(text, i) <=>
            i + 2 <= Len(text) /\ {text[i + 1], text[i + 2]} \subseteq Hex
    BY DEF Target!Encoded
  <2>4. QED
    BY <2>2, <2>3
<1>5. QED
  BY <1>2, <1>3, <1>4, ValidFromIs DEF Target!ValidSocketPath, Target!UriText, IsRest

-----------------------------------------------------------------------------
(* --url *)

(* scheme:// *)
UrlStart(t) == /\ Len(t) >= 4 /\ t[1] \in DOMAIN DefaultPort
               /\ t[2] = ":" /\ t[3] = "/" /\ t[4] = "/"

(* What follows e is a path or nothing *)
RestFrom(t, e) ==
    /\ e = Len(t) \/ t[e + 1] = "/"
    /\ \A k \in e + 1 .. Len(t) : /\ t[k] # Target!Space /\ t[k] # "#"
                                  /\ t[k] = "%" => Target!Encoded(t, k)

LEMMA RestIs ==
    ASSUME NEW t \in Texts, NEW e \in 0 .. Len(t)
    PROVE  IsRest(SubSeq(t, e + 1, Len(t))) <=> RestFrom(t, e)
<1> DEFINE n == Len(t)
           m == e + 1
           r == SubSeq(t, m, n)
<1>1. n \in Nat /\ DOMAIN t = 1 .. n
  BY TextIs
<1>2. m \in 1 .. Len(t) + 1 /\ n \in m - 1 .. Len(t) /\ n - m + 1 = n - e
  BY <1>1
<1>3. r \in Texts /\ Len(r) = n - e /\ \A k \in 1 .. n - e : r[k] = t[e + k]
  <2>1. \A k \in 1 .. n - m + 1 : m + k - 1 = e + k
    BY <1>1
  <2> HIDE DEF m, n
  <2>2. r \in Texts /\ Len(r) = n - m + 1 /\ \A k \in 1 .. n - m + 1 : r[k] = t[m + k - 1]
    BY <1>2, Part
  <2> HIDE DEF r
  <2>3. QED
    BY <1>2, <2>1, <2>2
<1>4. e \in Nat /\ n \in Nat /\ e <= n /\ n = Len(t)
  BY <1>1
<1> HIDE DEF r, n, m
<1>0. DOMAIN r = 1 .. n - e
  BY <1>3, TextIs
<1>5. r = <<>> <=> e = n
  <2>1. r = <<>> <=> n - e = 0
    BY <1>3, TextIs
  <2>2. QED
    BY <1>4, <2>1
<1>6. r # <<>> => r[1] = t[e + 1]
  <2>1. e # n => 1 \in 1 .. n - e
    BY <1>4
  <2>2. QED
    BY <1>3, <1>5, <2>1
<1>7. \A k \in e + 1 .. n : k - e \in 1 .. n - e /\ e + (k - e) = k
  BY <1>4
<1>8. \A k \in 1 .. n - e : e + k \in e + 1 .. n
  BY <1>4
<1>9. ~Target!Holds(r, {Target!Space, "#"}) <=>
         \A k \in e + 1 .. n : t[k] # Target!Space /\ t[k] # "#"
  <2>1. ~Target!Holds(r, {Target!Space, "#"}) <=>
           \A k \in 1 .. n - e : r[k] # Target!Space /\ r[k] # "#"
    BY <1>0 DEF Target!Holds
  <2>2. ASSUME \A k \in 1 .. n - e : r[k] # Target!Space /\ r[k] # "#",
               NEW k \in e + 1 .. n
        PROVE  t[k] # Target!Space /\ t[k] # "#"
    <3>1. k - e \in 1 .. n - e /\ r[k - e] = t[e + (k - e)] /\ e + (k - e) = k
      BY <1>3, <1>7
    <3>2. QED
      BY <2>2, <3>1
  <2>3. ASSUME \A k \in e + 1 .. n : t[k] # Target!Space /\ t[k] # "#",
               NEW k \in 1 .. n - e
        PROVE  r[k] # Target!Space /\ r[k] # "#"
    BY <1>3, <1>8, <2>3
  <2>4. QED
    BY <2>1, <2>2, <2>3
<1>10. ASSUME NEW k \in 1 .. n - e
       PROVE  k + 2 <= Len(r) /\ {r[k + 1], r[k + 2]} \subseteq Hex
                 <=> Target!Encoded(t, e + k)
  <2>1. k + 2 <= Len(r) <=> (e + k) + 2 <= n
    BY <1>3, <1>4
  <2>2. ASSUME k + 2 <= Len(r)
        PROVE  r[k + 1] = t[(e + k) + 1] /\ r[k + 2] = t[(e + k) + 2]
    <3>1. /\ k + 1 \in 1 .. n - e /\ k + 2 \in 1 .. n - e
          /\ e + (k + 1) = (e + k) + 1 /\ e + (k + 2) = (e + k) + 2
      BY <1>3, <1>4, <2>2
    <3>2. r[k + 1] = t[e + (k + 1)] /\ r[k + 2] = t[e + (k + 2)]
      BY <1>3, <3>1
    <3>3. QED
      BY <3>1, <3>2
  <2>3. QED
    BY <1>4, <2>1, <2>2 DEF Target!Encoded
<1>11. (\A k \in DOMAIN r : r[k] = "%" =>
            k + 2 <= Len(r) /\ {r[k + 1], r[k + 2]} \subseteq Hex)
         <=> \A k \in e + 1 .. n : t[k] = "%" => Target!Encoded(t, k)
  <2>1. ASSUME \A k \in 1 .. n - e : r[k] = "%" =>
                  k + 2 <= Len(r) /\ {r[k + 1], r[k + 2]} \subseteq Hex,
               NEW k \in e + 1 .. n, t[k] = "%"
        PROVE  Target!Encoded(t, k)
    <3> DEFINE i == k - e
    <3>1. i \in 1 .. n - e /\ e + i = k
      BY <1>7
    <3> HIDE DEF i
    <3>2. r[i] = "%"
      BY <1>3, <2>1, <3>1
    <3>3. Target!Encoded(t, e + i)
      BY <1>10, <2>1, <3>1, <3>2
    <3>4. QED
      BY <3>1, <3>3
  <2>2. ASSUME \A k \in e + 1 .. n : t[k] = "%" => Target!Encoded(t, k),
               NEW k \in 1 .. n - e, r[k] = "%"
        PROVE  k + 2 <= Len(r) /\ {r[k + 1], r[k + 2]} \subseteq Hex
    <3>1. t[e + k] = "%" /\ e + k \in e + 1 .. n
      BY <1>3, <1>8, <2>2
    <3>2. Target!Encoded(t, e + k)
      BY <2>2, <3>1
    <3>3. QED
      BY <1>10, <3>2
  <2>3. QED
    BY <1>0, <2>1, <2>2
<1>12. IsRest(r) <=>
          /\ e = n \/ t[e + 1] = "/"
          /\ \A k \in e + 1 .. n : t[k] # Target!Space /\ t[k] # "#"
          /\ \A k \in e + 1 .. n : t[k] = "%" => Target!Encoded(t, k)
  BY <1>5, <1>6, <1>9, <1>11 DEF IsRest
<1>13. QED
  BY <1>12 DEF r, n, m, RestFrom

LEMMA StartIs ==
    ASSUME NEW t \in Texts, Len(t) >= 4
    PROVE  SubSeq(t, 2, 4) = <<":", "/", "/">>
              <=> t[2] = ":" /\ t[3] = "/" /\ t[4] = "/"
<1> DEFINE m == 2
           n == 4
           s == SubSeq(t, m, n)
           u == <<":", "/", "/">>
<1>1. /\ Len(t) \in Nat /\ m \in 1 .. Len(t) + 1 /\ n \in m - 1 .. Len(t)
      /\ n - m + 1 = 3 /\ m + 1 - 1 = 2 /\ m + 2 - 1 = 3 /\ m + 3 - 1 = 4
      /\ 1 \in 1 .. 3 /\ 2 \in 1 .. 3 /\ 3 \in 1 .. 3
  BY TextIs
<1>2. Len(u) = 3 /\ u[1] = ":" /\ u[2] = "/" /\ u[3] = "/"
  OBVIOUS
<1> HIDE DEF u
<1>3. s[1] = t[2] /\ s[2] = t[3] /\ s[3] = t[4]
  <2> HIDE DEF m, n
  <2>1. \A k \in 1 .. n - m + 1 : s[k] = t[m + k - 1]
    BY <1>1, Part
  <2>2. s[1] = t[m + 1 - 1] /\ s[2] = t[m + 2 - 1] /\ s[3] = t[m + 3 - 1]
    BY <1>1, <2>1
  <2>3. QED
    BY <1>1, <2>2
<1>4. s = u => t[2] = ":" /\ t[3] = "/" /\ t[4] = "/"
  BY <1>2, <1>3
<1>5. ASSUME t[2] = ":", t[3] = "/", t[4] = "/"  PROVE s = u
  <2>1. 2 \in 1 .. Len(t) /\ 3 \in 1 .. Len(t)
    BY <1>1
  <2>2. ":" \in Chars /\ "/" \in Chars
    BY <1>5, <2>1, TextIs
  <2>3. u \in Texts
    BY <2>2 DEF u, Texts
  <2> HIDE DEF m, n
  <2>4. \A k \in 1 .. Len(u) : k = 1 \/ k = 2 \/ k = 3
    BY <1>2
  <2>5. \A k \in 1 .. Len(u) : u[k] = t[m + k - 1]
    BY <1>1, <1>2, <1>5, <2>4
  <2>6. Len(u) = n - m + 1
    BY <1>1, <1>2
  <2>7. QED
    BY <1>1, <2>3, <2>5, <2>6, PartIs
<1>6. QED
  BY <1>4, <1>5 DEF m, n, u

LEMMA SchemeIs ==
    ASSUME NEW t \in Texts
    PROVE  /\ UrlStart(t) => Target!HttpScheme(t) /\ Target!First(t, ":") = 2
           /\ /\ Target!HttpScheme(t)
              /\ Len(t) >= 4 /\ t[3] = "/" /\ t[4] = "/"
              => UrlStart(t)
<1>1. Len(t) \in Nat
  BY TextIs
<1>2. ASSUME Target!Holds(t, {":"})
      PROVE  /\ Target!First(t, ":") \in 1 .. Len(t)
             /\ t[Target!First(t, ":")] = ":"
             /\ Len(Target!Head1(t, ":")) = Target!First(t, ":") - 1
  <2> DEFINE f == Target!First(t, ":")
  <2>1. f \in 1 .. Len(t) /\ t[f] = ":"
    BY <1>2, FirstIs
  <2> DEFINE a == 1
             b == f - 1
  <2> HIDE DEF f
  <2>2. a \in 1 .. Len(t) + 1 /\ b \in a - 1 .. Len(t) /\ b - a + 1 = f - 1
    BY <1>1, <2>1
  <2> HIDE DEF a, b
  <2>3. Len(SubSeq(t, a, b)) = b - a + 1
    BY <2>2, Part
  <2>4. Target!Head1(t, ":") = SubSeq(t, a, b)
    BY DEF Target!Head1, a, b, f
  <2>5. QED
    BY <2>1, <2>2, <2>3, <2>4 DEF f
<1>3. ASSUME UrlStart(t)  PROVE Target!HttpScheme(t) /\ Target!First(t, ":") = 2
  <2> DEFINE i == 2
  <2>1. i \in 1 .. Len(t) /\ t[i] = ":" /\ \A j \in 1 .. i - 1 : j = 1
    BY <1>1, <1>3 DEF UrlStart
  <2>2. t[1] # ":" /\ t[1] \in DOMAIN DefaultPort
    BY <1>3, ClassesAre DEF UrlStart
  <2>3. \A j \in 1 .. i - 1 : t[j] # ":"
    BY <2>1, <2>2
  <2> HIDE DEF i
  <2>4. Target!First(t, ":") = i /\ Target!Holds(t, {":"})
    BY <2>1, <2>3, FirstAt
  <2>5. i - 1 = 1
    BY DEF i
  <2>6. QED
    BY <1>2, <2>2, <2>4, <2>5 DEF i, Target!HttpScheme
<1>4. ASSUME Target!HttpScheme(t), Len(t) >= 4, t[3] = "/", t[4] = "/"  PROVE UrlStart(t)
  <2> DEFINE f == Target!First(t, ":")
  <2>1. /\ f \in 1 .. Len(t) /\ t[f] = ":" /\ f - 1 = 1
        /\ t[1] \in DOMAIN DefaultPort
    BY <1>2, <1>4 DEF Target!HttpScheme
  <2> HIDE DEF f
  <2>2. f = 2
    BY <1>1, <2>1
  <2>3. QED
    BY <1>4, <2>1, <2>2 DEF UrlStart
<1>5. QED
  BY <1>3, <1>4

(* Where the authority of a URL ends *)
AuthorityEnds(t, e) ==
    /\ e \in 4 .. Len(t)
    /\ \A k \in 5 .. e : t[k] # "/" /\ t[k] # "#"
    /\ e = Len(t) \/ t[e + 1] = "/" \/ t[e + 1] = "#"

(* raw_url_authority stops where the authority ends *)
LEMMA UrlAuthorityIs ==
    ASSUME NEW t \in Texts, UrlStart(t)
    PROVE  \E e : AuthorityEnds(t, e) /\ Target!UrlAuthority(t) = SubSeq(t, 5, e)
<1> DEFINE n == Len(t)
           m == 5
           r == SubSeq(t, m, n)
           E == {i \in DOMAIN r : r[i] \in {"/", "#"}}
<1>1. n \in Nat /\ n >= 4
  BY TextIs DEF UrlStart
<1>2. m \in 1 .. Len(t) + 1 /\ n \in m - 1 .. Len(t) /\ n - m + 1 = n - 4
  BY <1>1
<1>3. r \in Texts /\ Len(r) = n - 4 /\ \A k \in 1 .. n - 4 : r[k] = t[k + 4]
  <2>1. \A k \in 1 .. n - 4 : m + k - 1 = k + 4
    BY <1>1
  <2> HIDE DEF m, n
  <2>2. r \in Texts /\ Len(r) = n - m + 1 /\ \A k \in 1 .. n - m + 1 : r[k] = t[m + k - 1]
    BY <1>2, Part
  <2> HIDE DEF r
  <2>3. QED
    BY <1>2, <2>1, <2>2
<1>4. Target!First(t, ":") + 3 = 5
  <2>1. Target!First(t, ":") = 2
    BY SchemeIs
  <2> HIDE DEF n, m, r, E
  <2>2. QED
    BY <2>1
<1>5. Target!UrlAuthority(t) =
         IF E = {} THEN r ELSE SubSeq(r, 1, (CHOOSE i \in E : \A j \in E : i <= j) - 1)
  <2> DEFINE Ends(s) == {i \in DOMAIN s : s[i] \in {"/", "#"}}
             UpTo(s) == IF Ends(s) = {} THEN s
                        ELSE SubSeq(s, 1, (CHOOSE i \in Ends(s) :
                                              \A j \in Ends(s) : i <= j) - 1)
  <2>1. Target!UrlAuthority(t) = UpTo(SubSeq(t, Target!First(t, ":") + 3, Len(t)))
    BY DEF Target!UrlAuthority
  <2> HIDE DEF UpTo
  <2>2. Target!UrlAuthority(t) = UpTo(r)
    BY <1>4, <2>1
  <2>3. QED
    BY <2>2 DEF UpTo
<1> HIDE DEF r
<1>6. DOMAIN r = 1 .. n - 4
  BY <1>3, TextIs
<1>7. \A i : i \in E <=> i \in 1 .. n - 4 /\ (t[i + 4] = "/" \/ t[i + 4] = "#")
  BY <1>3, <1>6
<1> HIDE DEF E
<1>8. CASE E = {}
  <2>1. ASSUME NEW k \in 5 .. n  PROVE t[k] # "/" /\ t[k] # "#"
    <3> DEFINE i == k - 4
    <3>1. i \in 1 .. n - 4 /\ i + 4 = k
      BY <1>1
    <3> HIDE DEF i
    <3>2. QED
      BY <1>7, <1>8, <3>1
  <2>2. AuthorityEnds(t, n)
    BY <1>1, <2>1 DEF AuthorityEnds
  <2>3. QED
    BY <1>5, <1>8, <2>2 DEF r
<1>9. CASE E # {}
  <2>1. E \in SUBSET Nat
    BY <1>1, <1>7
  <2>2. PICK i \in E : \A j \in E : i <= j
    BY <1>9, <2>1, Smallest
  <2>3. (CHOOSE k \in E : \A j \in E : k <= j) = i
    <3>1. i \in Int /\ \A j \in E : j \in Int /\ i <= j
      BY <2>1, <2>2
    <3>2. QED
      BY <3>1, ChosenLeast
  <2> DEFINE e == i + 3
             a == 1
             b == i - 1
  <2>4. i \in 1 .. n - 4 /\ (t[i + 4] = "/" \/ t[i + 4] = "#")
    BY <1>7
  <2>5. SubSeq(r, a, b) = SubSeq(t, 5, e)
    <3>1. /\ a \in 1 .. n - m + 2 /\ b \in a - 1 .. n - m + 1
          /\ m + a - 1 = 5 /\ m + b - 1 = e
      BY <1>1, <2>4
    <3> HIDE DEF a, b, m, n
    <3>2. SubSeq(SubSeq(t, m, n), a, b) = SubSeq(t, m + a - 1, m + b - 1)
      BY <1>2, <3>1, PartPart
    <3> HIDE DEF e
    <3>3. QED
      BY <3>1, <3>2 DEF r
  <2>6. ASSUME NEW k \in 5 .. e  PROVE t[k] # "/" /\ t[k] # "#"
    <3> DEFINE j == k - 4
    <3>1. j \in 1 .. n - 4 /\ j + 4 = k /\ ~(i <= j)
      BY <1>1, <2>4
    <3> HIDE DEF j
    <3>2. j \notin E
      BY <2>2, <3>1
    <3>3. QED
      BY <1>7, <3>1, <3>2
  <2>7. e \in 4 .. n /\ e + 1 = i + 4
    BY <1>1, <2>4
  <2> HIDE DEF e
  <2>8. AuthorityEnds(t, e)
    BY <2>4, <2>6, <2>7 DEF AuthorityEnds
  <2>9. QED
    BY <1>5, <1>9, <2>3, <2>5, <2>8
<1>10. QED
  BY <1>8, <1>9

LEMMA ValidChars ==
    ASSUME NEW t \in Texts, Target!ValidAuthority(t, FALSE)
    PROVE  t # <<>> /\ \A k \in 1 .. Len(t) : t[k] \in AuthorityChars
<1>1. Target!ParsesAsAuthority(t)
  BY DEF Target!ValidAuthority
<1>2. QED
  BY <1>1, TextIs DEF Target!ParsesAsAuthority, Target!Within, AuthorityChars

(* The whole URL: nothing to refuse after its authority *)
LEMMA TextFits ==
    ASSUME NEW t \in Texts, UrlStart(t), NEW e \in 4 .. Len(t),
           \A k \in 5 .. e : t[k] \in AuthorityChars
    PROVE  Target!UriText(t) /\ ~Target!Holds(t, {"#"}) <=>
              \A k \in e + 1 .. Len(t) : /\ t[k] # Target!Space /\ t[k] # "#"
                                         /\ t[k] = "%" => Target!Encoded(t, k)
<1>1. Len(t) \in Nat /\ DOMAIN t = 1 .. Len(t)
  BY TextIs
<1>2. ASSUME NEW k \in 1 .. e  PROVE t[k] # Target!Space /\ t[k] # "#" /\ t[k] # "%"
  <2>1. k = 1 \/ k = 2 \/ k = 3 \/ k = 4 \/ k \in 5 .. e
    BY <1>1
  <2>2. t[1] # Target!Space /\ t[1] # "#" /\ t[1] # "%"
    BY ClassesAre DEF UrlStart
  <2>3. \A j \in {2, 3, 4} : t[j] # Target!Space /\ t[j] # "#" /\ t[j] # "%"
    BY SpaceIs DEF UrlStart
  <2>4. QED
    BY <2>1, <2>2, <2>3, AuthorityCharsAre
<1>3. \A k \in 1 .. Len(t) : k \in 1 .. e \/ k \in e + 1 .. Len(t)
  BY <1>1
<1>4. \A k \in e + 1 .. Len(t) : k \in 1 .. Len(t)
  BY <1>1
<1>5. Target!UriText(t) /\ ~Target!Holds(t, {"#"}) <=>
         \A k \in 1 .. Len(t) : /\ t[k] # Target!Space /\ t[k] # "#"
                                /\ t[k] = "%" => Target!Encoded(t, k)
  <2>1. AllEncoded(t, 1) <=> \A k \in 1 .. Len(t) : t[k] = "%" => Target!Encoded(t, k)
    <3>1. \A k \in 1 .. Len(t) : k >= 1
      BY <1>1
    <3>2. QED
      BY <1>1, <3>1 DEF AllEncoded, Target!Percents
  <2>2. QED
    BY <1>1, <2>1, ValidFromIs DEF Target!UriText, Target!Holds
<1>6. QED
  BY <1>2, <1>3, <1>4, <1>5

(* The checks of prepare_url_target, without those that others imply *)
LEMMA ValidUrlIs ==
    ASSUME NEW t \in Texts
    PROVE  Target!ValidUrl(t) <=> /\ UrlStart(t)
                                  /\ Target!UriText(t) /\ ~Target!Holds(t, {"#"})
                                  /\ Target!ValidAuthority(Target!UrlAuthority(t), FALSE)
<1>1. Len(t) >= 4 => t # <<>>
  <2>1. t = <<>> => Len(t) = 0
    BY TextIs
  <2>2. QED
    BY <2>1
<1>2. Target!ValidUrl(t) => UrlStart(t)
  BY SchemeIs DEF Target!ValidUrl, Target!ValidUrlAuthority
<1>3. UrlStart(t) => /\ Target!HttpScheme(t) /\ t # <<>>
                     /\ Len(t) >= 4 /\ t[3] = "/" /\ t[4] = "/"
  BY <1>1, SchemeIs DEF UrlStart
<1>4. QED
  BY <1>2, <1>3 DEF Target!ValidUrl, Target!ValidUrlAuthority

LEMMA UrlPart ==
    ASSUME NEW t \in Texts, NEW e \in 4 .. Len(t)
    PROVE  /\ SubSeq(t, 5, e) \in Texts /\ Len(SubSeq(t, 5, e)) = e - 4
           /\ \A k \in 1 .. e - 4 : SubSeq(t, 5, e)[k] = t[k + 4]
           /\ (\A k \in 1 .. e - 4 : SubSeq(t, 5, e)[k] \in AuthorityChars)
                 => \A k \in 5 .. e : t[k] \in AuthorityChars
<1> DEFINE m == 5
           s == SubSeq(t, m, e)
<1>1. /\ Len(t) \in Nat /\ m \in 1 .. Len(t) + 1 /\ e \in m - 1 .. Len(t)
      /\ e - m + 1 = e - 4
  BY TextIs
<1>2. \A k \in 1 .. e - 4 : m + k - 1 = k + 4
  BY <1>1
<1>3. \A k \in 5 .. e : k - 4 \in 1 .. e - 4 /\ (k - 4) + 4 = k
  BY <1>1
<1> HIDE DEF m
<1>4. s \in Texts /\ Len(s) = e - m + 1 /\ \A k \in 1 .. e - m + 1 : s[k] = t[m + k - 1]
  BY <1>1, Part
<1> HIDE DEF s
<1>5. s \in Texts /\ Len(s) = e - 4 /\ \A k \in 1 .. e - 4 : s[k] = t[k + 4]
  BY <1>1, <1>2, <1>4
<1>6. ASSUME \A k \in 1 .. e - 4 : s[k] \in AuthorityChars, NEW k \in 5 .. e
      PROVE  t[k] \in AuthorityChars
  <2> DEFINE i == k - 4
  <2>1. i \in 1 .. e - 4 /\ i + 4 = k
    BY <1>3
  <2> HIDE DEF i
  <2>2. s[i] = t[i + 4] /\ s[i] \in AuthorityChars
    BY <1>5, <1>6, <2>1
  <2>3. QED
    BY <2>1, <2>2
<1>7. (\A k \in 1 .. e - 4 : s[k] \in AuthorityChars) => \A k \in 5 .. e : t[k] \in AuthorityChars
  BY <1>6
<1>8. QED
  BY <1>5, <1>7 DEF s, m

(* The readings of a URL are those of its authority *)
UrlEnds(t, e, i) ==
    /\ UrlStart(t) /\ e \in 5 .. Len(t) /\ RestFrom(t, e)
    /\ HostEnds(SubSeq(t, 5, e), i)

LEMMA UrlReadingIs ==
    ASSUME NEW t \in Texts, NEW c, c \in UrlReadings(t)
    PROVE  \E e, i : /\ UrlEnds(t, e, i)
                     /\ c[1] = SubSeq(SubSeq(t, 5, e), 1, i - 1)
                     /\ c[2] = PortAfter(SubSeq(t, 5, e), i)
<1>1. Len(t) \in Nat
  BY TextIs
<1>2. ~(Len(t) < 4 \/ t[1] \notin DOMAIN DefaultPort \/ SubSeq(t, 2, 4) # <<":", "/", "/">>)
  BY DEF UrlReadings
<1>3. Len(t) >= 4
  BY <1>1, <1>2
<1>4. UrlStart(t)
  BY <1>2, <1>3, StartIs DEF UrlStart
<1>5. c \in UNION {Readings(SubSeq(t, 5, i)) :
                     i \in {j \in 5 .. Len(t) : IsRest(SubSeq(t, j + 1, Len(t)))}}
  BY <1>2 DEF UrlReadings
<1>6. PICK e \in 5 .. Len(t) : /\ IsRest(SubSeq(t, e + 1, Len(t)))
                               /\ c \in Readings(SubSeq(t, 5, e))
  BY <1>5
<1>7. e \in 0 .. Len(t) /\ e \in 4 .. Len(t)
  BY <1>1
<1>8. RestFrom(t, e)
  BY <1>6, <1>7, RestIs
<1> DEFINE s == SubSeq(t, 5, e)
<1>9. s \in Texts /\ c \in Readings(s)
  BY <1>6, <1>7, UrlPart
<1> HIDE DEF s
<1>10. PICK i : HostEnds(s, i) /\ c[1] = SubSeq(s, 1, i - 1) /\ c[2] = PortAfter(s, i)
  BY <1>9, ReadingIs
<1>11. UrlEnds(t, e, i)
  BY <1>4, <1>6, <1>8, <1>10 DEF UrlEnds, s
<1>12. QED
  BY <1>10, <1>11 DEF s

LEMMA UrlEndReads ==
    ASSUME NEW t \in Texts, NEW e, NEW i, UrlEnds(t, e, i)
    PROVE  UrlReadings(t) # {}
<1>1. Len(t) \in Nat /\ e \in 5 .. Len(t) /\ Len(t) >= 4 /\ UrlStart(t)
  BY TextIs DEF UrlEnds, UrlStart
<1>2. ~(Len(t) < 4 \/ t[1] \notin DOMAIN DefaultPort \/ SubSeq(t, 2, 4) # <<":", "/", "/">>)
  BY <1>1, StartIs DEF UrlStart
<1>3. e \in 0 .. Len(t) /\ e \in 4 .. Len(t)
  BY <1>1
<1>4. IsRest(SubSeq(t, e + 1, Len(t)))
  BY <1>3, RestIs DEF UrlEnds
<1> DEFINE s == SubSeq(t, 5, e)
<1>5. s \in Texts /\ HostEnds(s, i)
  BY <1>3, UrlPart DEF UrlEnds
<1>6. PICK c : c \in Readings(s)
  <2> HIDE DEF s
  <2>1. QED
    BY <1>5, EndReads
<1>7. c \in UNION {Readings(SubSeq(t, 5, k)) :
                     k \in {j \in 5 .. Len(t) : IsRest(SubSeq(t, j + 1, Len(t)))}}
  BY <1>1, <1>4, <1>6
<1>8. c \in UrlReadings(t)
  BY <1>2, <1>7 DEF UrlReadings
<1>9. QED
  BY <1>8

(* What is connected to, and named as the host, is what the URL names *)
LEMMA UrlEndValid ==
    ASSUME NEW t \in Texts, NEW e, NEW i, UrlEnds(t, e, i)
    PROVE  /\ Target!UrlAuthority(t) = SubSeq(t, 5, e)
           /\ Target!ValidUrl(t)
<1> DEFINE s == SubSeq(t, 5, e)
<1>1. Len(t) \in Nat /\ e \in 5 .. Len(t) /\ UrlStart(t) /\ RestFrom(t, e) /\ e \in 4 .. Len(t)
  BY TextIs DEF UrlEnds
<1>2. s \in Texts /\ HostEnds(s, i) /\ Len(s) = e - 4
  BY <1>1, UrlPart DEF UrlEnds
<1>3. Target!ValidAuthority(s, FALSE)
  <2> HIDE DEF s
  <2>1. QED
    BY <1>2, EndValid
<1>4. \A k \in 1 .. e - 4 : s[k] \in AuthorityChars
  <2> HIDE DEF s
  <2>1. QED
    BY <1>2, <1>3, ValidChars
<1>5. \A k \in 5 .. e : t[k] \in AuthorityChars
  BY <1>1, <1>4, UrlPart
<1>6. PICK x : AuthorityEnds(t, x) /\ Target!UrlAuthority(t) = SubSeq(t, 5, x)
  BY <1>1, UrlAuthorityIs
<1>7. x = e
  <2>1. x \in 4 .. Len(t)
    BY <1>6 DEF AuthorityEnds
  <2>2. CASE x < e
    <3>1. x # Len(t) /\ x + 1 \in 5 .. e
      BY <1>1, <2>1, <2>2
    <3>2. t[x + 1] = "/" \/ t[x + 1] = "#"
      BY <1>6, <3>1 DEF AuthorityEnds
    <3>3. QED
      BY <1>5, <3>1, <3>2, AuthorityCharsAre
  <2>3. CASE x > e
    <3>1. e # Len(t) /\ e + 1 \in 5 .. x
      BY <1>1, <2>1, <2>3
    <3>2. t[e + 1] = "/"
      BY <1>1, <3>1 DEF RestFrom
    <3>3. QED
      BY <1>6, <3>1, <3>2 DEF AuthorityEnds
  <2>4. QED
    BY <1>1, <2>1, <2>2, <2>3
<1>8. Target!UriText(t) /\ ~Target!Holds(t, {"#"})
  BY <1>1, <1>5, TextFits DEF RestFrom
<1>9. Target!UrlAuthority(t) = s
  BY <1>6, <1>7
<1> HIDE DEF s
<1>10. Target!ValidUrl(t)
  BY <1>1, <1>3, <1>8, <1>9, ValidUrlIs
<1>11. QED
  BY <1>9, <1>10 DEF s

LEMMA ValidUrlEnds ==
    ASSUME NEW t \in Texts, Target!ValidUrl(t)
    PROVE  \E e, i : UrlEnds(t, e, i)
<1>1. /\ UrlStart(t) /\ Target!UriText(t) /\ ~Target!Holds(t, {"#"})
      /\ Target!ValidAuthority(Target!UrlAuthority(t), FALSE)
  BY ValidUrlIs
<1>2. PICK e : AuthorityEnds(t, e) /\ Target!UrlAuthority(t) = SubSeq(t, 5, e)
  BY <1>1, UrlAuthorityIs
<1>3. Len(t) \in Nat /\ e \in 4 .. Len(t)
  BY <1>2, TextIs DEF AuthorityEnds
<1> DEFINE s == SubSeq(t, 5, e)
<1>4. s \in Texts /\ Len(s) = e - 4 /\ Target!ValidAuthority(s, FALSE)
  BY <1>1, <1>2, <1>3, UrlPart
<1>5. PICK i : HostEnds(s, i)
  <2> HIDE DEF s
  <2>1. QED
    BY <1>4, ValidEnds
<1>6. s # <<>> /\ \A k \in 1 .. e - 4 : s[k] \in AuthorityChars
  <2> HIDE DEF s
  <2>1. QED
    BY <1>4, ValidChars
<1>7. e \in 5 .. Len(t)
  <2>1. e - 4 # 0
    <3> HIDE DEF s
    <3>1. QED
      BY <1>4, <1>6, TextIs
  <2>2. QED
    BY <1>3, <2>1
<1>8. \A k \in 5 .. e : t[k] \in AuthorityChars
  BY <1>3, <1>6, UrlPart
<1>9. \A k \in e + 1 .. Len(t) : /\ t[k] # Target!Space /\ t[k] # "#"
                                 /\ t[k] = "%" => Target!Encoded(t, k)
  BY <1>1, <1>3, <1>8, TextFits
<1>10. e = Len(t) \/ t[e + 1] = "/"
  <2>1. e # Len(t) => e + 1 \in e + 1 .. Len(t)
    BY <1>3
  <2>2. e # Len(t) => t[e + 1] # "#"
    BY <1>9, <2>1
  <2>3. QED
    BY <1>2, <2>2 DEF AuthorityEnds
<1>11. UrlEnds(t, e, i)
  BY <1>1, <1>5, <1>7, <1>9, <1>10 DEF UrlEnds, RestFrom
<1>12. QED
  BY <1>11

(* Every --url is accepted if and only if it is one, and its host and port   *)
(* are those of the Host header *)
LEMMA UrlHolds == Typed => UrlIsRight
<1> SUFFICES ASSUME text \in Texts  PROVE UrlIsRight
  BY DEF Typed
<1>1. Target!ValidUrl(text) <=> UrlReadings(text) # {}
  <2>1. Target!ValidUrl(text) => UrlReadings(text) # {}
    BY ValidUrlEnds, UrlEndReads
  <2>2. ASSUME NEW c, c \in UrlReadings(text)  PROVE Target!ValidUrl(text)
    BY <2>2, UrlReadingIs, UrlEndValid
  <2>3. QED
    BY <2>1, <2>2
<1>2. ASSUME NEW c, c \in UrlReadings(text)
      PROVE  LET header  == Target!HostHeader(text)
                 default == DefaultPort[text[1]]
             IN  /\ header.host = c[1]
                 /\ (IF header.port = 0 THEN default ELSE header.port)
                    = (IF c[2] = <<>> THEN default ELSE Target!Number(c[2]))
  <2>1. PICK e, i : /\ UrlEnds(text, e, i)
                    /\ c[1] = SubSeq(SubSeq(text, 5, e), 1, i - 1)
                    /\ c[2] = PortAfter(SubSeq(text, 5, e), i)
    BY <1>2, UrlReadingIs
  <2> DEFINE s == SubSeq(text, 5, e)
             header == Target!HostHeader(text)
             default == DefaultPort[text[1]]
             p == Target!ExplicitPort(s)
  <2>2. Target!UrlAuthority(text) = s
    BY <2>1, UrlEndValid
  <2>3. s \in Texts /\ HostEnds(s, i) /\ c[1] = SubSeq(s, 1, i - 1) /\ c[2] = PortAfter(s, i)
    <3>1. e \in 4 .. Len(text)
      <4>1. Len(text) \in Nat /\ e \in 5 .. Len(text)
        BY <2>1, TextIs DEF UrlEnds
      <4>2. QED
        BY <4>1
    <3>2. QED
      BY <2>1, <3>1, UrlPart DEF UrlEnds
  <2> HIDE DEF s
  <2>4. Target!HostOf(s) = c[1] /\ p = PortText(s, i)
    BY <2>3, EndValid
  <2>5. /\ p # Target!NoPort <=> i <= Len(s)
        /\ c[2] # <<>> <=> i <= Len(s)
    BY <2>3, <2>4, PortNamed
  <2>6. i <= Len(s) => p = c[2] /\ IsPort(p)
    BY <2>3, <2>4 DEF PortText, PortAfter, HostEnds
  <2>7. header = IF p # Target!NoPort /\ Target!Number(p) # default
                   THEN [host |-> c[1], port |-> Target!Number(p)]
                   ELSE [host |-> c[1], port |-> 0]
    BY <2>2, <2>4 DEF Target!HostHeader
  <2>8. p # Target!NoPort => Target!Number(p) # 0
    <3>1. p # Target!NoPort => Target!Number(p) \in 1 .. MaxPort
      BY <2>5, <2>6 DEF IsPort
    <3>2. QED
      BY <3>1, NumbersAssumption
  <2> HIDE DEF header, default, p
  <2>9. header.host = c[1]
    BY <2>7
  <2>10. CASE p # Target!NoPort
    <3>1. c[2] # <<>> /\ Target!Number(c[2]) = Target!Number(p)
      BY <2>5, <2>6, <2>10
    <3>2. header.port = IF Target!Number(p) # default THEN Target!Number(p) ELSE 0
      BY <2>7, <2>10
    <3>3. QED
      BY <2>8, <2>9, <2>10, <3>1, <3>2 DEF header, default
  <2>11. CASE p = Target!NoPort
    <3>1. c[2] = <<>> /\ header.port = 0
      BY <2>5, <2>7, <2>11
    <3>2. QED
      BY <2>9, <3>1 DEF header, default
  <2>12. QED
    BY <2>10, <2>11
<1>3. QED
  BY <1>1, <1>2 DEF UrlIsRight

-----------------------------------------------------------------------------
LEMMA TypedRequestIsRight == Typed => RequestIsRight
BY AuthorityHolds, UrlHolds, SocketPathHolds, StatusHolds, HeaderHolds, AssertionsHold
   DEF RequestIsRight

(* Whatever text stands for a target, a --status or a header, the program   *)
(* takes it if and only if the grammar has it, and reads it as the grammar  *)
(* says: validate_authority, prepare_url_target, prepare_uds_request_uri,   *)
(* parse_status_ranges and the header parsers, for all texts.               *)
THEOREM RequestHolds == Spec => []RequestIsRight
BY TextTyped, TypedRequestIsRight, PTL
=============================================================================
