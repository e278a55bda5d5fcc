----------------------------- MODULE SalusProofs -----------------------------
(***************************************************************************)
(* Proofs about the runner: that the scanner of argv.rs agrees with clap    *)
(* about every command line, of any length, and that what the program       *)
(* prints and returns is right for all lines, environments and limits.      *)
(***************************************************************************)
EXTENDS SalusProperties, WellFoundedInduction, TLAPS

-----------------------------------------------------------------------------
(* Induction.  The library states it for operators, which the provers       *)
(* cannot instantiate; these are its set form.                              *)

LEMMA Smallest ==
    ASSUME NEW T \in SUBSET Nat, T # {}
    PROVE  \E m \in T : \A k \in T : m <= k
<1> DEFINE R == OpToRel(<, Nat)
<1>1. IsWellFoundedOn(R, Nat)
  BY NatLessThanWellFounded
<1>2. \A k, m \in Nat : k < m => <<k, m>> \in R
  BY DEF OpToRel
<1> HIDE DEF R
<1>3. PICK m \in T : \A k \in T : ~(<<k, m>> \in R)
  BY <1>1, WFMin
<1>4. \A k \in T : k \in Nat /\ m \in Nat /\ ~(k < m)
  BY <1>2, <1>3
<1>5. \A k \in T : m <= k
  BY <1>4
<1>6. QED
  BY <1>5

LEMMA Induction ==
    ASSUME NEW T, 0 \in T, \A n \in Nat : n \in T => n + 1 \in T
    PROVE  \A n \in Nat : n \in T
<1> SUFFICES ASSUME Nat \ T # {}  PROVE FALSE
  OBVIOUS
<1>1. PICK m \in Nat \ T : \A k \in Nat \ T : m <= k
  BY Smallest
<1>2. m # 0 /\ m - 1 \in Nat
  OBVIOUS
<1>3. m - 1 \in T
  BY <1>1, <1>2
<1>4. QED
  BY <1>2, <1>3

LEMMA InductionBetween ==
    ASSUME NEW T, NEW k \in Nat, NEW m \in Nat, k \in T,
           \A n \in k .. m - 1 : n \in T => n + 1 \in T
    PROVE  \A n \in k .. m : n \in T
<1> DEFINE U == {n \in Nat : k + n <= m => k + n \in T}
<1>1. 0 \in U
  OBVIOUS
<1>2. ASSUME NEW n \in Nat, n \in U  PROVE n + 1 \in U
  <2>1. SUFFICES ASSUME k + (n + 1) <= m  PROVE k + (n + 1) \in T
    OBVIOUS
  <2>2. k + n \in k .. m - 1 /\ k + n \in T
    BY <1>2, <2>1
  <2>3. (k + n) + 1 \in T
    BY <2>2
  <2>4. QED
    BY <2>3
<1>3. \A n \in Nat : n \in U
  <2> HIDE DEF U
  <2>1. QED
    BY <1>1, <1>2, Induction
<1>4. ASSUME NEW n \in k .. m  PROVE n \in T
  <2>1. n - k \in U /\ k + (n - k) = n /\ n <= m
    BY <1>3
  <2>2. QED
    BY <2>1
<1>5. QED
  BY <1>4

-----------------------------------------------------------------------------
(* The tables of options *)

(* No option has a name that the readers treat on their own, but the two    *)
(* flags that they listen to.                                               *)
Kinds    == {"number", "numbers", "flag", "text", "texts", "path"}
Flags    == {"quiet", "verbose"}
Reserved == {"help", "version", "none"}

Sound(table) == \A n \in DOMAIN table :
                    table[n] \in Kinds /\ n \notin Reserved \cup Flags

LEMMA SoundOptions ==
    ASSUME NEW kind \in Kinds, NEW names, names \cap (Reserved \cup Flags) = {}
    PROVE  Sound(Options(kind, names))
BY DEF Sound, Options

LEMMA SoundWith ==
    ASSUME NEW s, NEW t, Sound(s), Sound(t)
    PROVE  Sound(With(s, t))
BY DEF Sound, With

LEMMA SoundTables == \A c \in Commands : Sound(OptionsOf[c])
<1>1. Sound(TlsOptions)
  <2>1. Sound(Options("path", {"ca", "cert", "key"}))
    BY SoundOptions DEF Kinds, Reserved, Flags
  <2>2. Sound(Options("text", {"server-name"}))
    BY SoundOptions DEF Kinds, Reserved, Flags
  <2>3. Sound(Options("flag", {"insecure-skip-verify"}))
    BY SoundOptions DEF Kinds, Reserved, Flags
  <2>4. QED
    BY <2>1, <2>2, <2>3, SoundWith DEF TlsOptions
<1>2. Sound(HttpOptions)
  <2>1. Sound(Options("text", {"url", "path", "method", "host", "body-equals"}))
    BY SoundOptions DEF Kinds, Reserved, Flags
  <2>2. Sound(Options("path", {"sock"}))
    BY SoundOptions DEF Kinds, Reserved, Flags
  <2>3. Sound(Options("texts", {"header", "header-present", "header-equals",
                                "header-contains", "header-not-contains",
                                "contains", "not-contains"}))
    BY SoundOptions DEF Kinds, Reserved, Flags
  <2>4. Sound(Options("numbers", {"status"}))
    BY SoundOptions DEF Kinds, Reserved, Flags
  <2>5. Sound(Options("number", {"max-body"}))
    BY SoundOptions DEF Kinds, Reserved, Flags
  <2>6. QED
    BY <1>1, <2>1, <2>2, <2>3, <2>4, <2>5, SoundWith DEF HttpOptions
<1>3. Sound(TcpOptions)
  BY SoundOptions DEF TcpOptions, Kinds, Reserved, Flags
<1>4. Sound(GrpcOptions)
  <2>1. Sound(Options("text", {"addr", "service", "authority"}))
    BY SoundOptions DEF Kinds, Reserved, Flags
  <2>2. Sound(Options("flag", {"tls"}))
    BY SoundOptions DEF Kinds, Reserved, Flags
  <2>3. QED
    BY <1>1, <2>1, <2>2, SoundWith DEF GrpcOptions
<1>5. Sound(ExecOptions)
  <2>1. Sound(Options("numbers", {"exit-code"}))
    BY SoundOptions DEF Kinds, Reserved, Flags
  <2>2. Sound(Options("texts", {"stdout-contains", "stderr-contains"}))
    BY SoundOptions DEF Kinds, Reserved, Flags
  <2>3. Sound(Options("number", {"max-output"}))
    BY SoundOptions DEF Kinds, Reserved, Flags
  <2>4. QED
    BY <2>1, <2>2, <2>3, SoundWith DEF ExecOptions
<1>6. Sound(FileOptions)
  <2>1. Sound(Options("path", {"path"}))
    BY SoundOptions DEF Kinds, Reserved, Flags
  <2>2. Sound(Options("flag", {"readable", "non-empty"}))
    BY SoundOptions DEF Kinds, Reserved, Flags
  <2>3. Sound(Options("texts", {"contains"}))
    BY SoundOptions DEF Kinds, Reserved, Flags
  <2>4. Sound(Options("number", {"min-size", "max-size", "max-age", "max-read"}))
    BY SoundOptions DEF Kinds, Reserved, Flags
  <2>5. QED
    BY <2>1, <2>2, <2>3, <2>4, SoundWith DEF FileOptions
<1>7. QED
  BY <1>2, <1>3, <1>4, <1>5, <1>6 DEF Commands, OptionsOf

LEMMA SoundRoot ==
    /\ {"quiet", "verbose"} \subseteq DOMAIN RootOptions
    /\ \A n \in DOMAIN RootOptions :
          /\ RootOptions[n] \in Kinds /\ n \notin Reserved
          /\ n \in Flags => RootOptions[n] = "flag"
BY DEF RootOptions, With, Options, Kinds, Reserved, Flags

LEMMA CommandNames == Commands = {"http", "tcp", "grpc", "exec", "file"}
BY DEF Commands, OptionsOf

(* What OptionOf says of any argument. *)
LEMMA OptionIsKnown ==
    ASSUME NEW c, NEW w
    PROVE  LET option == OptionOf(c, w) IN
           /\ option \in Kinds \cup {"unknown"}
           /\ option # "unknown" => w.form \in {"long", "inline"}
                                    /\ w.name \notin Reserved
           /\ option # "unknown" /\ w.name \in Flags => option = "flag"
<1>1. CASE w.form \notin {"long", "inline"}
  BY <1>1 DEF OptionOf
<1>2. CASE w.form \in {"long", "inline"} /\ c \in Commands
           /\ w.name \in DOMAIN OptionsOf[c]
  <2>1. Sound(OptionsOf[c])
    BY <1>2, SoundTables
  <2>2. OptionOf(c, w) = OptionsOf[c][w.name]
    BY <1>2 DEF OptionOf
  <2>3. QED
    BY <1>2, <2>1, <2>2 DEF Sound
<1>3. CASE w.form \in {"long", "inline"}
           /\ ~(c \in Commands /\ w.name \in DOMAIN OptionsOf[c])
  BY <1>3, SoundRoot DEF OptionOf
<1>4. QED
  BY <1>1, <1>2, <1>3

-----------------------------------------------------------------------------
(* The two recursive functions, and that they satisfy their equations *)

Line(words) == Len(words) \in Nat /\ DOMAIN words = 1 .. Len(words)

LEMMA ReadingsExist ==
    ASSUME NEW words, Line(words)
    PROVE  Readings(words) =
               [n \in 0 .. Len(words) |->
                   IF n = 0 THEN Beginning
                   ELSE Read(Readings(words)[n - 1], words[n])]
<1> DEFINE Upto(m, f) == f = [n \in 0 .. m |-> IF n = 0 THEN Beginning
                                               ELSE Read(f[n - 1], words[n])]
           T == {m \in Nat : \E f : Upto(m, f)}
<1>1. 0 \in T
  <2>1. Upto(0, [n \in 0 .. 0 |-> Beginning])
    OBVIOUS
  <2> HIDE DEF Upto
  <2>2. QED
    BY <2>1
<1>2. ASSUME NEW m \in Nat, m \in T  PROVE m + 1 \in T
  <2>1. PICK f : Upto(m, f)
    BY <1>2
  <2> DEFINE g == [n \in 0 .. m + 1 |-> IF n <= m THEN f[n]
                                        ELSE Read(f[m], words[m + 1])]
  <2>2. ASSUME NEW n \in 0 .. m + 1
        PROVE  g[n] = IF n = 0 THEN Beginning ELSE Read(g[n - 1], words[n])
    <3>1. CASE n <= m
      <4>1. g[n] = f[n] /\ n \in 0 .. m
        BY <3>1
      <4>2. n # 0 => n - 1 \in 0 .. m + 1 /\ n - 1 <= m /\ g[n - 1] = f[n - 1]
        BY <3>1
      <4>3. f[n] = IF n = 0 THEN Beginning ELSE Read(f[n - 1], words[n])
        BY <2>1, <4>1
      <4> HIDE DEF g
      <4>4. QED
        BY <4>1, <4>2, <4>3
    <3>2. CASE n = m + 1
      <4>1. g[n] = Read(f[m], words[m + 1]) /\ g[m] = f[m] /\ n - 1 = m /\ n # 0
        BY <3>2
      <4> HIDE DEF g
      <4>2. QED
        BY <3>2, <4>1
    <3>3. QED
      BY <3>1, <3>2
  <2>3. g = [n \in 0 .. m + 1 |-> g[n]]
    OBVIOUS
  <2> HIDE DEF g
  <2>4. Upto(m + 1, g)
    BY <2>2, <2>3
  <2> HIDE DEF Upto
  <2>5. QED
    BY <2>4
<1>3. \A m \in Nat : m \in T
  <2> HIDE DEF T
  <2>1. QED
    BY <1>1, <1>2, Induction
<1>4. \E f : Upto(Len(words), f)
  BY <1>3 DEF Line
<1>5. Readings(words) = CHOOSE f : Upto(Len(words), f)
  BY DEF Readings
<1>6. Upto(Len(words), Readings(words))
  <2> HIDE DEF Upto
  <2>1. QED
    BY <1>4, <1>5
<1>7. QED
  BY <1>6

LEMMA ScansExist ==
    ASSUME NEW words, NEW q, Line(words)
    PROVE  Scans(words, q) =
               [n \in 0 .. Len(words) |->
                   IF n = 0 THEN Scanner
                   ELSE Scan(words, Scans(words, q)[n - 1], q)]
<1> DEFINE Upto(m, f) == f = [n \in 0 .. m |-> IF n = 0 THEN Scanner
                                               ELSE Scan(words, f[n - 1], q)]
           T == {m \in Nat : \E f : Upto(m, f)}
<1>1. 0 \in T
  <2>1. Upto(0, [n \in 0 .. 0 |-> Scanner])
    OBVIOUS
  <2> HIDE DEF Upto
  <2>2. QED
    BY <2>1
<1>2. ASSUME NEW m \in Nat, m \in T  PROVE m + 1 \in T
  <2>1. PICK f : Upto(m, f)
    BY <1>2
  <2> DEFINE g == [n \in 0 .. m + 1 |-> IF n <= m THEN f[n]
                                        ELSE Scan(words, f[m], q)]
  <2>2. ASSUME NEW n \in 0 .. m + 1
        PROVE  g[n] = IF n = 0 THEN Scanner ELSE Scan(words, g[n - 1], q)
    <3>1. CASE n <= m
      <4>1. g[n] = f[n] /\ n \in 0 .. m
        BY <3>1
      <4>2. n # 0 => n - 1 \in 0 .. m + 1 /\ n - 1 <= m /\ g[n - 1] = f[n - 1]
        BY <3>1
      <4>3. f[n] = IF n = 0 THEN Scanner ELSE Scan(words, f[n - 1], q)
        BY <2>1, <4>1
      <4> HIDE DEF g
      <4>4. QED
        BY <4>1, <4>2, <4>3
    <3>2. CASE n = m + 1
      <4>1. g[n] = Scan(words, f[m], q) /\ g[m] = f[m] /\ n - 1 = m /\ n # 0
        BY <3>2
      <4> HIDE DEF g
      <4>2. QED
        BY <3>2, <4>1
    <3>3. QED
      BY <3>1, <3>2
  <2>3. g = [n \in 0 .. m + 1 |-> g[n]]
    OBVIOUS
  <2> HIDE DEF g
  <2>4. Upto(m + 1, g)
    BY <2>2, <2>3
  <2> HIDE DEF Upto
  <2>5. QED
    BY <2>4
<1>3. \A m \in Nat : m \in T
  <2> HIDE DEF T
  <2>1. QED
    BY <1>1, <1>2, Induction
<1>4. \E f : Upto(Len(words), f)
  BY <1>3 DEF Line
<1>5. Scans(words, q) = CHOOSE f : Upto(Len(words), f)
  BY DEF Scans
<1>6. Upto(Len(words), Scans(words, q))
  <2> HIDE DEF Upto
  <2>1. QED
    BY <1>4, <1>5
<1>7. QED
  BY <1>6

LEMMA ReadingsStep ==
    ASSUME NEW words, Line(words)
    PROVE  /\ Readings(words)[0] = Beginning
           /\ \A n \in 0 .. Len(words) - 1 :
                 Readings(words)[n + 1] = Read(Readings(words)[n], words[n + 1])
<1>1. Len(words) \in Nat
  BY DEF Line
<1> DEFINE f == Readings(words)
<1>2. f = [n \in 0 .. Len(words) |-> IF n = 0 THEN Beginning
                                     ELSE Read(f[n - 1], words[n])]
  BY ReadingsExist
<1> HIDE DEF f
<1>3. f[0] = Beginning
  BY <1>1, <1>2
<1>4. ASSUME NEW n \in 0 .. Len(words) - 1
      PROVE  f[n + 1] = Read(f[n], words[n + 1])
  <2>1. n + 1 \in 0 .. Len(words) /\ n + 1 # 0 /\ (n + 1) - 1 = n
    BY <1>1
  <2>2. f[n + 1] = Read(f[(n + 1) - 1], words[n + 1])
    BY <1>2, <2>1
  <2>3. QED
    BY <2>1, <2>2
<1>5. QED
  BY <1>3, <1>4 DEF f

LEMMA ScansStep ==
    ASSUME NEW words, NEW q, Line(words)
    PROVE  /\ Scans(words, q)[0] = Scanner
           /\ \A n \in 0 .. Len(words) - 1 :
                 Scans(words, q)[n + 1] = Scan(words, Scans(words, q)[n], q)
<1>1. Len(words) \in Nat
  BY DEF Line
<1> DEFINE f == Scans(words, q)
<1>2. f = [n \in 0 .. Len(words) |-> IF n = 0 THEN Scanner
                                     ELSE Scan(words, f[n - 1], q)]
  BY ScansExist
<1> HIDE DEF f
<1>3. f[0] = Scanner
  BY <1>1, <1>2
<1>4. ASSUME NEW n \in 0 .. Len(words) - 1
      PROVE  f[n + 1] = Scan(words, f[n], q)
  <2>1. n + 1 \in 0 .. Len(words) /\ n + 1 # 0 /\ (n + 1) - 1 = n
    BY <1>1
  <2>2. f[n + 1] = Scan(words, f[(n + 1) - 1], q)
    BY <1>2, <2>1
  <2>3. QED
    BY <2>1, <2>2
<1>5. QED
  BY <1>3, <1>4 DEF f

-----------------------------------------------------------------------------
(* What clap's reading may be *)

Ends == {"open", "escape", "command", "help", "helpCommand", "topic",
         "noTopic", "topicHelp", "moreThanTopic", "usage"}

Levels == Commands \cup {None}
Names  == (UNION {DOMAIN OptionsOf[c] : c \in Commands})
          \cup DOMAIN RootOptions

ReadingType == [command : Levels, pending : Names \cup {None},
                seen : SUBSET (Levels \X Names), refused : BOOLEAN,
                dash : BOOLEAN, end : Ends]

LEMMA KnownIsNamed ==
    ASSUME NEW c, NEW w, OptionOf(c, w) # "unknown"
    PROVE  w.name \in Names
<1>1. CASE c \in Commands /\ w.name \in DOMAIN OptionsOf[c]
  BY <1>1 DEF Names
<1>2. CASE w.name \in DOMAIN RootOptions
  BY <1>2 DEF Names
<1>3. QED
  BY <1>1, <1>2 DEF OptionOf

LEMMA ReadTyped ==
    ASSUME NEW r \in ReadingType, NEW w
    PROVE  Read(r, w) \in ReadingType
<1> USE DEF ReadingType
<1>1. ASSUME NEW e \in Ends  PROVE [r EXCEPT !.end = e] \in ReadingType
  OBVIOUS
<1>2. ReadValue(r, w) \in ReadingType
  <2> DEFINE a == r.refused \/ Refused(OptionNamed(r, r.pending), w)
             b == r.dash \/ (w.form = "dash" /\ ~Numeric(OptionNamed(r, r.pending)))
  <2>1. [r EXCEPT !.pending = None, !.refused = a, !.dash = b] \in ReadingType
    OBVIOUS
  <2>2. ReadValue(r, w) \in {[r EXCEPT !.pending = None, !.refused = a, !.dash = b],
                             [r EXCEPT !.end = "usage"]}
    BY DEF ReadValue
  <2>3. QED
    BY <1>1, <2>1, <2>2 DEF Ends
<1>3. ReadOption(r, w) \in ReadingType
  <2> DEFINE o == OptionOf(r.command, w)
             a == r.refused \/ Repeats(r, w) \/ (w.form = "inline" /\ Refused(o, w))
             x == IF w.form = "long" /\ TakesValue(o) THEN w.name ELSE None
  <2>1. CASE o = "unknown" \/ (w.form = "inline" /\ o = "flag")
    BY <1>1, <2>1 DEF ReadOption, Ends
  <2>2. CASE ~(o = "unknown" \/ (w.form = "inline" /\ o = "flag"))
    <3>1. w.name \in Names
      BY <2>2, KnownIsNamed
    <3>2. [r EXCEPT !.seen = @ \cup {<<r.command, w.name>>}, !.refused = a,
                    !.pending = x] \in ReadingType
      <4>1. r.seen \cup {<<r.command, w.name>>} \in SUBSET (Levels \X Names)
        BY <3>1
      <4>2. x \in Names \cup {None} /\ a \in BOOLEAN
        BY <3>1
      <4> HIDE DEF a, x, o
      <4>3. QED
        BY <4>1, <4>2
    <3>3. QED
      BY <2>2, <3>2 DEF ReadOption
  <2>3. QED
    BY <2>1, <2>2
<1>4. ReadPlain(r, w) \in ReadingType
  <2>1. CASE ~IsCommand(w)
    BY <1>1, <2>1 DEF ReadPlain, Ends, Levels, IsCommand
  <2>2. CASE IsCommand(w)
    BY <1>1, <2>2 DEF ReadPlain, Ends, Levels, IsCommand
  <2>3. QED
    BY <2>1, <2>2
<1>5. Read(r, w) \in {ReadValue(r, w), ReadOption(r, w), ReadPlain(r, w), r}
                         \cup {[r EXCEPT !.end = e] : e \in Ends}
  BY DEF Read, Ends
<1>6. QED
  BY <1>1, <1>2, <1>3, <1>4, <1>5

LEMMA ReadingsTyped ==
    ASSUME NEW words, Line(words)
    PROVE  \A n \in 0 .. Len(words) : Readings(words)[n] \in ReadingType
<1> DEFINE T == {n \in Nat : Readings(words)[n] \in ReadingType}
<1>1. Len(words) \in Nat
  BY DEF Line
<1>2. Beginning \in ReadingType
  BY DEF Beginning, ReadingType, Levels, Ends
<1>3. 0 \in T
  BY <1>2, ReadingsStep
<1>4. ASSUME NEW n \in 0 .. Len(words) - 1, n \in T  PROVE n + 1 \in T
  <2>1. Read(Readings(words)[n], words[n + 1]) \in ReadingType
    BY <1>4, ReadTyped
  <2>2. QED
    BY <1>1, <2>1, ReadingsStep
<1>5. \A n \in 0 .. Len(words) : n \in T
  <2> HIDE DEF T
  <2>1. QED
    BY <1>1, <1>3, <1>4, InductionBetween
<1>6. QED
  BY <1>5

-----------------------------------------------------------------------------
(* What further arguments leave as it is                                    *)

(* q comes after r: flags are only added, and once the reading is over,     *)
(* what was read and the kind of the end stay.                              *)
Later(r, q) ==
    /\ Heard(r) \subseteq Heard(q)
    /\ r.dash => q.dash
    /\ r.end # "open" =>
          /\ q.end # "open" /\ q.command = r.command /\ q.dash = r.dash
          /\ Heard(q) = Heard(r)
    /\ r.end = "help" => q.end = "help"
    /\ r.end = "noTopic" => q.end = "noTopic"
    /\ r.end \in {"topic", "topicHelp", "moreThanTopic"} =>
          q.end \in {"topic", "topicHelp", "moreThanTopic"}
    /\ r.end \in {"usage", "escape", "command"} =>
          q.end \in {"usage", "escape", "command"}

Adds(r, q, c, n) == q.seen = r.seen \cup {<<c, n>>}

LEMMA HeardMore ==
    ASSUME NEW r, NEW q, NEW c, NEW n, Adds(r, q, c, n)
    PROVE  Heard(q) = Heard(r) \cup (Flags \cap {n})
<1> USE DEF Adds
<1>1. \A s \in {t[2] : t \in q.seen} : s \in {t[2] : t \in r.seen} \cup {n}
  OBVIOUS
<1>2. \A s \in {t[2] : t \in r.seen} \cup {n} : s \in {t[2] : t \in q.seen}
  <2>1. <<c, n>> \in q.seen /\ <<c, n>>[2] = n
    OBVIOUS
  <2>2. n \in {t[2] : t \in q.seen}
    BY <2>1
  <2>3. QED
    BY <2>2
<1>3. {t[2] : t \in q.seen} = {t[2] : t \in r.seen} \cup {n}
  BY <1>1, <1>2
<1>4. QED
  BY <1>3 DEF Heard, Flags

LEMMA HeardSame ==
    ASSUME NEW r, NEW q, q.seen = r.seen
    PROVE  Heard(q) = Heard(r)
BY DEF Heard

(* The three readers of an argument. *)
LEMMA ReadsValue ==
    ASSUME NEW r \in ReadingType, NEW w
    PROVE  LET option == OptionNamed(r, r.pending)
               q      == ReadValue(r, w) IN
           /\ q.seen = r.seen /\ q.command = r.command
           /\ r.dash => q.dash
           /\ \/ /\ q.end = r.end /\ q.pending = None
                 /\ \/ w.form \in {"plain", "bytes"} /\ q.dash = r.dash
                    \/ w.form \in {"number", "dash"} /\ Numeric(option)
                       /\ q.dash = r.dash
                    \/ w.form = "dash" /\ ~Numeric(option) /\ q.dash
              \/ /\ q.end = "usage"
                 /\ w.form \notin {"plain", "bytes", "dash"}
                 /\ ~(w.form = "number" /\ Numeric(option))
BY DEF ReadingType, ReadValue

LEMMA ReadsOption ==
    ASSUME NEW r \in ReadingType, NEW w
    PROVE  LET option == OptionOf(r.command, w)
               q      == ReadOption(r, w) IN
           IF option = "unknown" \/ (w.form = "inline" /\ option = "flag")
           THEN q = [r EXCEPT !.end = "usage"]
           ELSE /\ q.seen = r.seen \cup {<<r.command, w.name>>}
                /\ q.command = r.command /\ q.dash = r.dash /\ q.end = r.end
                /\ q.pending = IF w.form = "long" /\ TakesValue(option)
                               THEN w.name ELSE None
BY DEF ReadingType, ReadOption

LEMMA ReadsPlain ==
    ASSUME NEW r \in ReadingType, NEW w
    PROVE  LET q == ReadPlain(r, w) IN
           /\ q.seen = r.seen /\ q.dash = r.dash /\ q.pending = r.pending
           /\ \/ r.command = None /\ IsCommand(w)
                 /\ q.command = w.name /\ q.end = r.end
              \/ r.command = None /\ ~IsCommand(w) /\ IsHelpCommand(w)
                 /\ q = [r EXCEPT !.end = "helpCommand"]
              \/ r.command = None /\ ~IsCommand(w) /\ ~IsHelpCommand(w)
                 /\ q = [r EXCEPT !.end = "usage"]
              \/ r.command # None
                 /\ q \in {[r EXCEPT !.end = "command"], [r EXCEPT !.end = "usage"]}
BY DEF ReadingType, ReadPlain

LEMMA ReadIsLater ==
    ASSUME NEW r \in ReadingType, NEW w
    PROVE  Later(r, Read(r, w))
<1> DEFINE q == Read(r, w)
<1>1. r.end \in Ends
  BY DEF ReadingType
<1>2. ASSUME NEW e \in Ends, q = [r EXCEPT !.end = e], e # "open",
             \/ r.end = "open"
             \/ r.end = "help" /\ e = "help"
             \/ r.end = "noTopic" /\ e = "noTopic"
             \/ r.end = "helpCommand"
             \/ {r.end, e} \subseteq {"topic", "topicHelp", "moreThanTopic"}
             \/ {r.end, e} \subseteq {"usage", "escape", "command"}
      PROVE  Later(r, q)
  <2>1. /\ q.seen = r.seen /\ q.command = r.command /\ q.dash = r.dash
        /\ q.end = e
    BY <1>2 DEF ReadingType
  <2>2. Heard(q) = Heard(r)
    BY <2>1, HeardSame
  <2> HIDE DEF q
  <2>3. QED
    BY <1>1, <1>2, <2>1, <2>2 DEF Later, Ends
<1>3. ASSUME r.end = "open", r.seen \subseteq q.seen, r.dash => q.dash
      PROVE  Later(r, q)
  <2>1. Heard(r) \subseteq Heard(q)
    BY <1>3 DEF Heard
  <2> HIDE DEF q
  <2>2. QED
    BY <1>3, <2>1 DEF Later
<1>4. CASE r.end = "open" /\ r.pending # None
  <2>1. q = ReadValue(r, w)
    BY <1>4 DEF Read
  <2>2. QED
    BY <1>3, <1>4, <2>1, ReadsValue
<1>5. CASE r.end = "open" /\ r.pending = None
  <2>1. q \in {[r EXCEPT !.end = e] : e \in Ends}
           \cup {ReadPlain(r, w), ReadOption(r, w)}
    BY <1>5 DEF Read, Ends
  <2>2. ASSUME NEW e \in Ends, q = [r EXCEPT !.end = e]  PROVE Later(r, q)
    <3>1. q.seen = r.seen /\ q.dash = r.dash
      BY <2>2 DEF ReadingType
    <3>2. QED
      BY <1>3, <1>5, <3>1
  <2>3. CASE q = ReadPlain(r, w)
    BY <1>3, <1>5, <2>3, ReadsPlain
  <2>4. CASE q = ReadOption(r, w)
    <3>1. CASE q = [r EXCEPT !.end = "usage"]
      BY <2>2, <3>1 DEF Ends
    <3>2. CASE q # [r EXCEPT !.end = "usage"]
      BY <1>3, <1>5, <2>4, <3>2, ReadsOption
    <3>3. QED
      BY <3>1, <3>2
  <2>5. QED
    BY <2>1, <2>2, <2>3, <2>4
<1>6. CASE r.end \in {"escape", "helpCommand", "topic"}
  BY <1>2, <1>6 DEF Read, Ends
<1>7. CASE r.end \in {"command", "help", "noTopic", "topicHelp",
                      "moreThanTopic", "usage"}
  <2>1. q = r
    BY <1>7 DEF Read
  <2>2. QED
    BY <1>7, <2>1 DEF Later
<1>8. QED
  BY <1>1, <1>4, <1>5, <1>6, <1>7 DEF Ends

LEMMA ReadingIsLater ==
    ASSUME NEW words, Line(words), NEW k \in 0 .. Len(words),
           NEW m \in k .. Len(words)
    PROVE  Later(Readings(words)[k], Readings(words)[m])
<1> DEFINE read == Readings(words)
           T    == {n \in Nat : Later(read[k], read[n])}
<1>1. Len(words) \in Nat /\ k \in Nat /\ m \in Nat
  BY DEF Line
<1>2. k \in T
  BY <1>1 DEF Later
<1>3. ASSUME NEW n \in k .. m - 1, n \in T  PROVE n + 1 \in T
  <2>1. n \in 0 .. Len(words) - 1 /\ n \in 0 .. Len(words) /\ n + 1 \in Nat
    BY <1>1
  <2>2. Later(read[n], read[n + 1])
    BY <2>1, ReadIsLater, ReadingsStep, ReadingsTyped
  <2>3. Later(read[k], read[n])
    BY <1>3
  <2> HIDE DEF read
  <2>4. Later(read[k], read[n + 1])
    BY <2>2, <2>3 DEF Later
  <2>5. QED
    BY <2>1, <2>4
<1>4. \A n \in k .. m : n \in T
  <2> HIDE DEF T
  <2>1. QED
    BY <1>1, <1>2, <1>3, InductionBetween
<1>5. m \in T
  BY <1>1, <1>4
<1>6. QED
  BY <1>5

-----------------------------------------------------------------------------
(* The scanner and clap, side by side                                       *)

ScannerType == [index : Nat \ {0}, command : Levels, heard : SUBSET Flags]

(* Where the scanner stands, clap waits for an argument, has read the same  *)
(* command and the same flags; or, for --quiet, clap is done: it has read   *)
(* a request for exec's help.                                               *)
Follows(r, s) ==
    /\ r.end = "open" /\ r.pending = None
    /\ r.command = s.command /\ Heard(r) = s.heard

PastHelp(r, s) == r.end = "help" /\ r.command = "exec" /\ s.command = "exec"

Together(words, s, forQuiet) ==
    /\ s \in ScannerType
    /\ s.index <= Len(words) + 1
    /\ s.command # None => s.index > 1
    /\ LET r == Readings(words)[s.index - 1] IN
          Follows(r, s) \/ (forQuiet /\ PastHelp(r, s))

(* Where the scanner stays. *)
Stops(words, s, forQuiet) ==
    LET w      == words[s.index]
        option == OptionOf(s.command, w)
    IN  /\ TakesValue(option) => Stuck(words, s.index, option)
        /\ ~IsFlag(w, option)
        /\ ~(s.command = None /\ IsCommand(w))
        /\ ~(forQuiet /\ s.command = "exec" /\ IsHelp(w))

LEMMA ScanCases ==
    ASSUME NEW words, NEW s \in ScannerType, NEW forQuiet,
           Len(words) \in Nat, s.index <= Len(words)
    PROVE  LET w      == words[s.index]
               option == OptionOf(s.command, w)
               t      == Scan(words, s, forQuiet)
           IN  \/ Stops(words, s, forQuiet) /\ t = s
               \/ /\ TakesValue(option) /\ ~Stuck(words, s.index, option)
                  /\ t = [s EXCEPT !.index = AfterOption(words, s.index)]
               \/ /\ IsFlag(w, option)
                  /\ t = [s EXCEPT !.index = s.index + 1,
                                   !.heard = s.heard \cup (Flags \cap {w.name})]
               \/ /\ s.command = None /\ IsCommand(w)
                  /\ t = [s EXCEPT !.index = s.index + 1, !.command = w.name]
               \/ /\ forQuiet /\ s.command = "exec" /\ IsHelp(w)
                  /\ t = [s EXCEPT !.index = s.index + 1]
<1> DEFINE w      == words[s.index]
           option == OptionOf(s.command, w)
<1>1. s.index \in Nat /\ ~(s.index > Len(words))
  BY DEF ScannerType
<1>2. CASE TakesValue(option)
  <2>1. ~IsFlag(w, option)
    BY <1>2 DEF TakesValue, IsFlag
  <2>2. w.form \in {"long", "inline"} /\ w.name \notin Reserved
    BY <1>2, OptionIsKnown DEF TakesValue
  <2>3. ~IsCommand(w) /\ ~IsHelp(w)
    BY <2>2 DEF IsCommand, IsHelp, Reserved
  <2>4. Scan(words, s, forQuiet)
          = IF Stuck(words, s.index, option) THEN s
            ELSE [s EXCEPT !.index = AfterOption(words, s.index)]
    BY <1>1, <1>2, <2>1, <2>3 DEF Scan
  <2>5. QED
    BY <1>2, <2>1, <2>3, <2>4 DEF Stops
<1>3. CASE ~TakesValue(option)
  <2>1. IsFlag(w, option) => ~IsCommand(w) /\ ~IsHelp(w)
    <3>1. IsFlag(w, option) => w.form = "long" /\ w.name \notin Reserved
      BY OptionIsKnown DEF IsFlag
    <3>2. QED
      BY <3>1 DEF IsCommand, IsHelp, Reserved
  <2>2. CASE IsFlag(w, option)
    BY <1>1, <1>3, <2>1, <2>2 DEF Scan, Flags
  <2>3. CASE s.command = None /\ IsCommand(w)
    BY <1>1, <1>3, <2>1, <2>3 DEF Scan
  <2>4. CASE forQuiet /\ s.command = "exec" /\ IsHelp(w)
    BY <1>1, <1>3, <2>1, <2>4 DEF Scan, None
  <2>5. CASE ~IsFlag(w, option) /\ ~(s.command = None /\ IsCommand(w))
             /\ ~(forQuiet /\ s.command = "exec" /\ IsHelp(w))
    BY <1>1, <1>3, <2>5 DEF Scan, Stops
  <2>6. QED
    BY <2>2, <2>3, <2>4, <2>5
<1>4. QED
  BY <1>2, <1>3

(* What clap makes of the arguments that the scanner passes over. *)
LEMMA TakesOption ==
    ASSUME NEW r \in ReadingType, NEW w, r.end = "open", r.pending = None,
           w.form \in {"long", "inline"}, ~IsHelp(w), ~IsVersion(w)
    PROVE  Read(r, w) = ReadOption(r, w)
BY DEF Read

Hears(s, t, w) == t.heard = s.heard \cup (Flags \cap {w.name})

LEMMA FollowsFlag ==
    ASSUME NEW r \in ReadingType, NEW s, NEW t, NEW w, Follows(r, s),
           IsFlag(w, OptionOf(s.command, w)),
           t.command = s.command, Hears(s, t, w)
    PROVE  Follows(Read(r, w), t)
<1> DEFINE option == OptionOf(r.command, w)
           q      == Read(r, w)
<1>1. /\ option = "flag" /\ w.form = "long" /\ w.name \notin Reserved
      /\ r.end = "open" /\ r.pending = None /\ r.command = s.command
      /\ Heard(r) = s.heard
  BY OptionIsKnown DEF Follows, IsFlag
<1>2. q = ReadOption(r, w)
  BY <1>1, TakesOption DEF IsHelp, IsVersion, Reserved
<1>3. /\ q.seen = r.seen \cup {<<r.command, w.name>>}
      /\ q.command = r.command /\ q.end = "open" /\ q.pending = None
  BY <1>1, <1>2, ReadsOption DEF TakesValue
<1> HIDE DEF q
<1>4. Heard(q) = Heard(r) \cup (Flags \cap {w.name})
  <2>1. Adds(r, q, r.command, w.name)
    BY <1>3 DEF Adds
  <2>2. QED
    BY <2>1, HeardMore
<1>5. QED
  BY <1>1, <1>3, <1>4 DEF Follows, Hears, q

LEMMA FollowsCommand ==
    ASSUME NEW r \in ReadingType, NEW s, NEW t, NEW w, Follows(r, s),
           s.command = None, IsCommand(w),
           t.command = w.name, t.heard = s.heard
    PROVE  Follows(Read(r, w), t)
<1> DEFINE q == Read(r, w)
<1>1. r.end = "open" /\ r.pending = None /\ r.command = None /\ w.form = "plain"
  BY DEF Follows, IsCommand
<1>2. q = ReadPlain(r, w)
  BY <1>1 DEF Read, IsHelp, IsVersion
<1>3. /\ q.seen = r.seen /\ q.pending = None
      /\ q.command = w.name /\ q.end = "open"
  BY <1>1, <1>2, ReadsPlain
<1>4. Heard(q) = Heard(r)
  BY <1>3, HeardSame
<1> HIDE DEF q
<1>5. QED
  BY <1>3, <1>4 DEF Follows, q

(* An option that takes a value: what clap waits for. *)
LEMMA ReadsTaking ==
    ASSUME NEW r \in ReadingType, NEW s, NEW w, Follows(r, s),
           TakesValue(OptionOf(s.command, w))
    PROVE  LET q == Read(r, w) IN
           /\ q.command = r.command /\ q.end = "open" /\ q.dash = r.dash
           /\ Heard(q) = Heard(r)
           /\ w.form \in {"long", "inline"}
           /\ w.form = "inline" => q.pending = None
           /\ w.form = "long" => q.pending # None
                                 /\ OptionNamed(q, q.pending) = OptionOf(s.command, w)
<1> DEFINE option == OptionOf(r.command, w)
           q      == Read(r, w)
<1>1. /\ option = OptionOf(s.command, w) /\ option \notin {"flag", "unknown"}
      /\ w.form \in {"long", "inline"} /\ w.name \notin Reserved \cup Flags
      /\ r.end = "open" /\ r.pending = None
  BY OptionIsKnown DEF Follows, TakesValue
<1>2. q = ReadOption(r, w)
  BY <1>1, TakesOption DEF IsHelp, IsVersion, Reserved
<1>3. /\ q.seen = r.seen \cup {<<r.command, w.name>>}
      /\ q.command = r.command /\ q.end = "open" /\ q.dash = r.dash
      /\ q.pending = IF w.form = "long" THEN w.name ELSE None
  BY <1>1, <1>2, ReadsOption DEF TakesValue
<1> HIDE DEF q
<1>4. Heard(q) = Heard(r) \cup (Flags \cap {w.name})
  <2>1. Adds(r, q, r.command, w.name)
    BY <1>3 DEF Adds
  <2>2. QED
    BY <2>1, HeardMore
<1>5. Heard(q) = Heard(r)
  BY <1>1, <1>4
<1>6. ASSUME w.form = "long"
      PROVE  OptionNamed(q, q.pending) = option /\ q.pending # None
  <2>1. q.pending = w.name /\ q.command = r.command /\ w.name # None
    BY <1>1, <1>3, <1>6 DEF Reserved, None
  <2>2. OptionOf(r.command, Word("long", w.name)) = OptionOf(r.command, w)
    BY <1>6 DEF OptionOf, Word
  <2>3. QED
    BY <2>1, <2>2 DEF OptionNamed
<1>7. QED
  BY <1>1, <1>3, <1>5, <1>6 DEF q

LEMMA ReadsFollowing ==
    ASSUME NEW q \in ReadingType, NEW w, q.end = "open", q.pending # None
    PROVE  LET option == OptionNamed(q, q.pending)
               p      == Read(q, w) IN
           /\ p.command = q.command /\ Heard(p) = Heard(q)
           /\ CanFollow(w, option) => /\ p.end = "open" /\ p.pending = None
                                      /\ p.dash = q.dash
           /\ ~CanFollow(w, option) => p.end = "usage" \/ p.dash
<1> DEFINE p == Read(q, w)
<1>1. p = ReadValue(q, w)
  BY DEF Read
<1>2. p.seen = q.seen /\ p.command = q.command
  BY <1>1, ReadsValue
<1>3. Heard(p) = Heard(q)
  BY <1>2, HeardSame
<1> DEFINE option == OptionNamed(q, q.pending)
<1> HIDE DEF option
<1>4. \/ /\ p.end = "open" /\ p.pending = None
         /\ \/ w.form \in {"plain", "bytes"} /\ p.dash = q.dash
            \/ w.form \in {"number", "dash"} /\ Numeric(option) /\ p.dash = q.dash
            \/ w.form = "dash" /\ ~Numeric(option) /\ p.dash
      \/ /\ p.end = "usage"
         /\ w.form \notin {"plain", "bytes", "dash"}
         /\ ~(w.form = "number" /\ Numeric(option))
  BY <1>1, ReadsValue DEF option
<1> HIDE DEF p
<1>5. CanFollow(w, option) => /\ p.end = "open" /\ p.pending = None
                              /\ p.dash = q.dash
  BY <1>4 DEF CanFollow
<1>6. ~CanFollow(w, option) => p.end = "usage" \/ p.dash
  BY <1>4 DEF CanFollow
<1>7. QED
  BY <1>2, <1>3, <1>5, <1>6 DEF p, option

LEMMA ReadingAt ==
    ASSUME NEW words, Line(words), NEW i \in 1 .. Len(words)
    PROVE  /\ Readings(words)[i] = Read(Readings(words)[i - 1], words[i])
           /\ Readings(words)[i - 1] \in ReadingType
           /\ Readings(words)[i] \in ReadingType
<1>1. i - 1 \in 0 .. Len(words) - 1 /\ i - 1 \in 0 .. Len(words)
      /\ i \in 0 .. Len(words) /\ (i - 1) + 1 = i
  BY DEF Line
<1>2. Readings(words)[(i - 1) + 1] = Read(Readings(words)[i - 1], words[(i - 1) + 1])
  BY <1>1, ReadingsStep
<1>3. QED
  BY <1>1, <1>2, ReadingsTyped

LEMMA StepTogether ==
    ASSUME NEW words, Line(words), NEW forQuiet \in BOOLEAN, NEW s,
           Together(words, s, forQuiet), s.index <= Len(words)
    PROVE  LET t == Scan(words, s, forQuiet) IN
           /\ Together(words, t, forQuiet)
           /\ t.index > s.index \/ (t = s /\ Stops(words, s, forQuiet))
<1>0. SUFFICES ASSUME NEW t, t = Scan(words, s, forQuiet),
                      NEW i, i = s.index, NEW w, w = words[i],
                      NEW r, r = Readings(words)[i - 1],
                      NEW q, q = Readings(words)[i],
                      NEW option, option = OptionOf(s.command, w)
               PROVE  /\ Together(words, t, forQuiet)
                      /\ t.index > i \/ (t = s /\ Stops(words, s, forQuiet))
  OBVIOUS
<1>1. /\ Len(words) \in Nat /\ s \in ScannerType /\ i \in 1 .. Len(words)
      /\ s.command # None => i > 1
      /\ Follows(r, s) \/ (forQuiet /\ PastHelp(r, s))
  BY <1>0 DEF Line, Together, ScannerType
<1>2. r \in ReadingType /\ q \in ReadingType /\ q = Read(r, w)
  BY <1>0, <1>1, ReadingAt
<1>3. ASSUME t \in ScannerType, NEW k, k = t.index - 1, k >= i, k <= Len(words),
             NEW p, p = Readings(words)[k],
             Follows(p, t) \/ (forQuiet /\ PastHelp(p, t))
      PROVE  Together(words, t, forQuiet) /\ t.index > i
  <2>1. t.index \in Nat /\ i \in Nat /\ i >= 1 /\ Len(words) \in Nat
    BY <1>1, <1>3 DEF ScannerType
  <2>2. t.index > i /\ t.index > 1 /\ t.index <= Len(words) + 1
    BY <1>3, <2>1
  <2>3. QED
    BY <1>3, <2>2 DEF Together
<1>4. CASE t = s /\ Stops(words, s, forQuiet)
  BY <1>0, <1>4
<1>5. CASE TakesValue(option) /\ ~Stuck(words, i, option)
           /\ t = [s EXCEPT !.index = AfterOption(words, i)]
  <2>1. CASE w.form = "inline"
    <3>1. t.index = i + 1 /\ t \in ScannerType /\ t.index - 1 = i
          /\ t.command = s.command /\ t.heard = s.heard
      BY <1>0, <1>1, <1>5, <2>1 DEF AfterOption, ScannerType
    <3>2. Follows(r, s) => Follows(q, t)
      BY <1>0, <1>2, <1>5, <2>1, <3>1, ReadsTaking DEF Follows
    <3>3. PastHelp(r, s) => PastHelp(q, t)
      BY <1>2, <3>1 DEF PastHelp, Read
    <3>4. i >= i /\ i <= Len(words)
      BY <1>1
    <3>5. QED
      BY <1>0, <1>1, <1>3, <3>1, <3>2, <3>3, <3>4
  <2>2. CASE w.form = "long"
    <3>1. i + 1 \in 1 .. Len(words) /\ CanFollow(words[i + 1], option)
      BY <1>0, <1>1, <1>5, <2>2 DEF Stuck
    <3>2. t.index = i + 2 /\ t \in ScannerType /\ t.index - 1 = i + 1
          /\ t.command = s.command /\ t.heard = s.heard
      BY <1>0, <1>1, <1>5, <2>2 DEF AfterOption, ScannerType
    <3> DEFINE p == Readings(words)[i + 1]
    <3>3. p = Read(q, words[i + 1])
      <4>1. (i + 1) - 1 = i
        BY <1>1
      <4>2. p = Read(Readings(words)[(i + 1) - 1], words[i + 1])
        BY <3>1, ReadingAt
      <4>3. QED
        BY <1>0, <4>1, <4>2
    <3> HIDE DEF p
    <3>4. ASSUME Follows(r, s)  PROVE Follows(p, t)
      <4>1. /\ q.command = r.command /\ q.end = "open" /\ Heard(q) = Heard(r)
            /\ q.pending # None /\ OptionNamed(q, q.pending) = option
        BY <1>0, <1>2, <1>5, <2>2, <3>4, ReadsTaking
      <4>2. /\ p.command = q.command /\ Heard(p) = Heard(q)
            /\ p.end = "open" /\ p.pending = None
        BY <1>2, <3>1, <3>3, <4>1, ReadsFollowing
      <4>3. QED
        BY <3>2, <3>4, <4>1, <4>2 DEF Follows
    <3>5. PastHelp(r, s) => PastHelp(p, t)
      <4>1. PastHelp(r, s) => q = r
        BY <1>2 DEF PastHelp, Read
      <4>2. PastHelp(r, s) => p = q
        BY <3>3, <4>1 DEF PastHelp, Read
      <4>3. QED
        BY <3>2, <4>1, <4>2 DEF PastHelp
    <3>6. i + 1 >= i /\ i + 1 <= Len(words)
      BY <1>1, <3>1
    <3>7. QED
      BY <1>1, <1>3, <3>2, <3>4, <3>5, <3>6 DEF p
  <2>3. TakesValue(option) => w.form \in {"long", "inline"}
    BY <1>0, OptionIsKnown DEF TakesValue
  <2>4. QED
    BY <1>5, <2>1, <2>2, <2>3
<1>6. ASSUME t \in ScannerType, t.index = i + 1,
             Follows(r, s) => Follows(q, t) \/ (forQuiet /\ PastHelp(q, t)),
             PastHelp(r, s) => t.command = "exec"
      PROVE  Together(words, t, forQuiet) /\ t.index > i
  <2>1. i = t.index - 1 /\ i >= i /\ i <= Len(words)
    BY <1>1, <1>6
  <2>2. PastHelp(r, s) => PastHelp(q, t)
    BY <1>2, <1>6 DEF PastHelp, Read
  <2>3. QED
    BY <1>0, <1>1, <1>3, <1>6, <2>1, <2>2
<1>7. CASE IsFlag(w, option)
           /\ t = [s EXCEPT !.index = i + 1,
                            !.heard = s.heard \cup (Flags \cap {w.name})]
  <2>1. t \in ScannerType /\ t.index = i + 1 /\ t.command = s.command
        /\ Hears(s, t, w)
    <3> DEFINE h == s.heard \cup (Flags \cap {w.name})
    <3>1. h \in SUBSET Flags /\ i + 1 \in Nat \ {0}
      BY <1>1 DEF ScannerType
    <3> HIDE DEF h
    <3>2. t = [s EXCEPT !.index = i + 1, !.heard = h]
      BY <1>7 DEF h
    <3>3. t \in ScannerType /\ t.index = i + 1 /\ t.command = s.command /\ t.heard = h
      BY <1>1, <3>1, <3>2 DEF ScannerType
    <3>4. QED
      BY <3>3 DEF Hears, h
  <2>2. Follows(r, s) => Follows(q, t)
    <3>1. IsFlag(w, OptionOf(s.command, w))
      BY <1>0, <1>7
    <3>2. Follows(r, s) => Follows(Read(r, w), t)
      BY <1>2, <2>1, <3>1, FollowsFlag
    <3>3. QED
      BY <1>2, <3>2
  <2>3. QED
    BY <1>6, <2>1, <2>2 DEF PastHelp
<1>8. CASE s.command = None /\ IsCommand(w)
           /\ t = [s EXCEPT !.index = i + 1, !.command = w.name]
  <2>1. t \in ScannerType /\ t.index = i + 1 /\ t.command = w.name
        /\ t.heard = s.heard
    <3>1. w.name \in Levels /\ i + 1 \in Nat \ {0}
      BY <1>1, <1>8 DEF IsCommand, Levels
    <3>2. QED
      BY <1>1, <1>8, <3>1 DEF ScannerType
  <2>2. Follows(r, s) => Follows(q, t)
    BY <1>2, <1>8, <2>1, FollowsCommand
  <2>3. QED
    BY <1>6, <1>8, <2>1, <2>2 DEF PastHelp, None
<1>9. CASE forQuiet /\ s.command = "exec" /\ IsHelp(w)
           /\ t = [s EXCEPT !.index = i + 1]
  <2>1. t \in ScannerType /\ t.index = i + 1 /\ t.command = "exec"
    BY <1>1, <1>9 DEF ScannerType
  <2>2. Follows(r, s) => PastHelp(q, t)
    <3>1. Follows(r, s) => q = [r EXCEPT !.end = "help"]
      BY <1>2, <1>9 DEF Follows, Read, IsHelp, IsVersion
    <3>2. [r EXCEPT !.end = "help"].end = "help"
          /\ [r EXCEPT !.end = "help"].command = r.command
      BY <1>2 DEF ReadingType
    <3>3. QED
      BY <1>9, <2>1, <3>1, <3>2 DEF PastHelp, Follows
  <2>3. QED
    BY <1>6, <1>9, <2>1, <2>2
<1>10. s.index <= Len(words)
  OBVIOUS
<1>11. QED
  BY <1>0, <1>1, <1>4, <1>5, <1>7, <1>8, <1>9, <1>10, ScanCases

LEMMA StopsStay ==
    ASSUME NEW words, NEW s \in ScannerType, NEW forQuiet,
           Len(words) \in Nat, s.index <= Len(words), Stops(words, s, forQuiet)
    PROVE  Scan(words, s, forQuiet) = s
BY ScanCases DEF Stops

LEMMA StaysAtTheEnd ==
    ASSUME NEW words, NEW s \in ScannerType, NEW forQuiet,
           Len(words) \in Nat, s.index > Len(words)
    PROVE  Scan(words, s, forQuiet) = s
<1>1. ~(s.index <= Len(words))
  BY DEF ScannerType
<1>2. QED
  BY <1>1 DEF Scan

(* The scanner has read all, or stands where it stays. *)
Finished(words, s, forQuiet) ==
    /\ Together(words, s, forQuiet)
    /\ s.index <= Len(words) => Stops(words, s, forQuiet)

LEMMA ScanFinishes ==
    ASSUME NEW words, Line(words), NEW forQuiet \in BOOLEAN
    PROVE  Finished(words, Scanned(words, forQuiet), forQuiet)
<1> DEFINE scan == Scans(words, forQuiet)
           T == {n \in Nat : /\ Together(words, scan[n], forQuiet)
                             /\ scan[n].index > n
                                  \/ Finished(words, scan[n], forQuiet)}
<1>1. Len(words) \in Nat
  BY DEF Line
<1>2. 0 \in T
  <2>1. scan[0] = Scanner
    BY ScansStep
  <2>2. Scanner \in ScannerType /\ Scanner.index = 1 /\ Scanner.command = None
    BY DEF Scanner, ScannerType, Levels
  <2>3. Follows(Readings(words)[0], Scanner)
    BY ReadingsStep DEF Follows, Scanner, Beginning, Heard
  <2>4. 1 - 1 = 0 /\ 1 > 0 /\ 1 <= Len(words) + 1
    BY <1>1
  <2>5. Together(words, Scanner, forQuiet)
    BY <2>2, <2>3, <2>4 DEF Together
  <2>6. QED
    BY <2>1, <2>2, <2>4, <2>5
<1>3. ASSUME NEW n \in 0 .. Len(words) - 1, n \in T  PROVE n + 1 \in T
  <2>0. SUFFICES ASSUME NEW s, s = scan[n], NEW t, t = Scan(words, s, forQuiet),
                        Together(words, s, forQuiet),
                        s.index > n \/ Finished(words, s, forQuiet)
                 PROVE  /\ Together(words, t, forQuiet)
                        /\ t.index > n + 1 \/ Finished(words, t, forQuiet)
    <3>1. n + 1 \in Nat /\ scan[n + 1] = Scan(words, scan[n], forQuiet)
      BY <1>1, ScansStep
    <3> HIDE DEF scan
    <3>2. QED
      BY <1>3, <3>1
  <2>1. s \in ScannerType /\ s.index \in Nat /\ n \in Nat /\ n < Len(words)
    BY <1>1, <2>0 DEF Together, ScannerType
  <2>2. CASE s.index > Len(words)
    <3>1. t = s
      BY <1>1, <2>0, <2>1, <2>2, StaysAtTheEnd
    <3>2. ~(s.index <= Len(words))
      BY <1>1, <2>1, <2>2
    <3>3. QED
      BY <2>0, <3>1, <3>2 DEF Finished
  <2>3. CASE s.index <= Len(words)
    <3>1. /\ Together(words, t, forQuiet)
          /\ t.index > s.index \/ (t = s /\ Stops(words, s, forQuiet))
      BY <2>0, <2>3, StepTogether
    <3>2. CASE Stops(words, s, forQuiet)
      <4>1. t = s
        BY <1>1, <2>0, <2>1, <2>3, <3>2, StopsStay
      <4>2. QED
        BY <2>0, <3>2, <4>1 DEF Finished
    <3>3. CASE ~Stops(words, s, forQuiet)
      <4>1. t.index > s.index /\ t.index \in Nat
        BY <3>1, <3>3 DEF Together, ScannerType
      <4>2. s.index > n
        BY <2>0, <2>3, <3>3 DEF Finished
      <4>3. QED
        BY <2>1, <3>1, <4>1, <4>2
    <3>4. QED
      BY <3>2, <3>3
  <2>4. QED
    BY <1>1, <2>1, <2>2, <2>3
<1>4. \A n \in 0 .. Len(words) : n \in T
  <2> HIDE DEF T
  <2>1. QED
    BY <1>1, <1>2, <1>3, InductionBetween
<1>5. Len(words) \in T
  BY <1>1, <1>4
<1>6. SUFFICES ASSUME NEW s, s = Scanned(words, forQuiet),
                      Together(words, s, forQuiet),
                      s.index > Len(words) \/ Finished(words, s, forQuiet)
               PROVE  Finished(words, s, forQuiet)
  BY <1>5 DEF Scanned
<1>7. s.index > Len(words) => ~(s.index <= Len(words))
  BY <1>1, <1>6 DEF Together, ScannerType
<1>8. QED
  BY <1>6, <1>7 DEF Finished

-----------------------------------------------------------------------------
(* Where the scanner stays, clap stops as well                              *)

(* Requests for help: by an option, and by the command help. *)
HelpOption(c, w) == IsHelp(w) \/ (c = None /\ IsVersion(w))
HelpWord(c, w)   == c = None /\ IsHelpCommand(w)

LEMMA ReadsStop ==
    ASSUME NEW r \in ReadingType, NEW s, NEW w, Follows(r, s),
           LET option == OptionOf(s.command, w) IN
              ~TakesValue(option) /\ ~IsFlag(w, option),
           ~(s.command = None /\ IsCommand(w))
    PROVE  LET q == Read(r, w) IN
           /\ q.end # "open" /\ Heard(q) = Heard(r) /\ q.command = r.command
           /\ q.dash = r.dash
           /\ HelpOption(s.command, w) => q.end = "help"
           /\ ~HelpOption(s.command, w) =>
                 IF HelpWord(s.command, w) THEN q.end = "helpCommand"
                 ELSE q.end \in {"usage", "escape", "command"}
<1> USE DEF HelpOption, HelpWord
<1> DEFINE q == Read(r, w)
<1>1. r.end = "open" /\ r.pending = None /\ r.command = s.command
  BY DEF Follows
<1>2. ASSUME NEW e, q = [r EXCEPT !.end = e]
      PROVE  /\ q.end = e /\ Heard(q) = Heard(r) /\ q.command = r.command
             /\ q.dash = r.dash
  <2>1. q.end = e /\ q.seen = r.seen /\ q.command = r.command /\ q.dash = r.dash
    BY <1>2 DEF ReadingType
  <2>2. QED
    BY <2>1, HeardSame
<1>3. CASE IsHelp(w)
  <2>1. q = [r EXCEPT !.end = "help"]
    BY <1>1, <1>3 DEF Read, IsHelp, IsVersion
  <2>2. QED
    BY <1>2, <1>3, <2>1
<1>4. CASE IsVersion(w)
  <2>1. ~IsHelp(w) /\ ~IsHelpCommand(w)
    BY <1>4 DEF IsHelp, IsVersion, IsHelpCommand
  <2>2. q = [r EXCEPT !.end = IF r.command = None THEN "help" ELSE "usage"]
    BY <1>1, <1>4, <2>1 DEF Read, IsVersion
  <2>3. QED
    BY <1>1, <1>2, <1>4, <2>1, <2>2
<1>5. ASSUME ~IsHelp(w), ~IsVersion(w), ~IsHelpCommand(w), NEW e,
             q = [r EXCEPT !.end = e], e \in {"usage", "escape", "command"}
      PROVE  /\ q.end = e /\ Heard(q) = Heard(r) /\ q.command = r.command
             /\ q.dash = r.dash /\ e \notin {"open", "help", "helpCommand"}
  BY <1>2, <1>5
<1>6. CASE ~IsHelp(w) /\ ~IsVersion(w) /\ w.form = "escape"
  <2>1. q = [r EXCEPT !.end = "escape"] /\ ~IsHelpCommand(w)
    BY <1>1, <1>6 DEF Read, IsHelpCommand
  <2>2. QED
    BY <1>5, <1>6, <2>1
<1>7. CASE ~IsHelp(w) /\ ~IsVersion(w) /\ w.form = "number"
  <2>1. q = [r EXCEPT !.end = "usage"] /\ ~IsHelpCommand(w)
    BY <1>1, <1>7 DEF Read, IsHelpCommand
  <2>2. QED
    BY <1>5, <1>7, <2>1
<1>8. CASE ~IsHelp(w) /\ ~IsVersion(w) /\ w.form \in {"plain", "bytes", "dash"}
  <2>1. q = ReadPlain(r, w)
    BY <1>1, <1>8 DEF Read
  <2>2. CASE s.command = None /\ IsHelpCommand(w)
    <3>1. q = [r EXCEPT !.end = "helpCommand"]
      BY <1>1, <2>1, <2>2, ReadsPlain
    <3>2. QED
      BY <1>2, <1>8, <2>2, <3>1
  <2>3. CASE ~(s.command = None /\ IsHelpCommand(w))
    <3>1. q \in {[r EXCEPT !.end = "usage"], [r EXCEPT !.end = "command"]}
      BY <1>1, <2>1, <2>3, ReadsPlain
    <3>2. QED
      BY <1>2, <1>8, <2>3, <3>1
  <2>4. QED
    BY <2>2, <2>3
<1>9. CASE ~IsHelp(w) /\ ~IsVersion(w)
           /\ w.form \notin {"escape", "number", "plain", "bytes", "dash"}
  <2>1. q = ReadOption(r, w) /\ ~IsHelpCommand(w)
    BY <1>1, <1>9 DEF Read, IsHelpCommand
  <2>2. OptionOf(r.command, w) = "unknown"
        \/ (w.form = "inline" /\ OptionOf(r.command, w) = "flag")
    BY <1>1, OptionIsKnown DEF TakesValue, IsFlag
  <2>3. q = [r EXCEPT !.end = "usage"]
    BY <2>1, <2>2, ReadsOption
  <2>4. QED
    BY <1>5, <1>9, <2>1, <2>3
<1>10. QED
  BY <1>3, <1>4, <1>6, <1>7, <1>8, <1>9

(* What becomes of a line whose reading has come to k. *)
LEMMA AtTheEnd ==
    ASSUME NEW words, Line(words), NEW k \in 0 .. Len(words)
    PROVE  /\ Later(Readings(words)[k], Reading(words))
           /\ k = Len(words) => Reading(words) = Readings(words)[k]
<1>1. Len(words) \in k .. Len(words)
  BY DEF Line
<1>2. QED
  BY <1>1, ReadingIsLater DEF Reading

(* The scanner stays because an option lacks its value. *)
LEMMA StuckAgrees ==
    ASSUME NEW words, Line(words), NEW s \in ScannerType, s.index <= Len(words),
           Follows(Readings(words)[s.index - 1], s),
           LET option == OptionOf(s.command, words[s.index]) IN
              TakesValue(option) /\ Stuck(words, s.index, option)
    PROVE  LET R == Reading(words) IN
           /\ s.heard \subseteq Heard(R)
           /\ ~R.dash => /\ s.heard = Heard(R)
                         /\ R.end \in {"open", "usage", "escape", "command"}
<1>0. SUFFICES ASSUME NEW i, i = s.index, NEW w, w = words[i],
                      NEW r, r = Readings(words)[i - 1],
                      NEW q, q = Readings(words)[i],
                      NEW R, R = Reading(words),
                      NEW option, option = OptionOf(s.command, w)
               PROVE  /\ s.heard \subseteq Heard(R)
                      /\ ~R.dash => /\ s.heard = Heard(R)
                                    /\ R.end \in {"open", "usage", "escape", "command"}
  OBVIOUS
<1>1. /\ Len(words) \in Nat /\ i \in 1 .. Len(words)
      /\ Follows(r, s) /\ TakesValue(option) /\ Stuck(words, i, option)
  BY <1>0 DEF Line, ScannerType
<1>2. r \in ReadingType /\ q \in ReadingType /\ q = Read(r, w)
  BY <1>0, <1>1, ReadingAt
<1>3. w.form = "long" /\ (i = Len(words) \/ ~CanFollow(words[i + 1], option))
  BY <1>0, <1>1 DEF Stuck
<1>4. /\ q.end = "open" /\ Heard(q) = s.heard /\ q.pending # None
      /\ OptionNamed(q, q.pending) = option
  BY <1>0, <1>1, <1>2, <1>3, ReadsTaking DEF Follows
<1>5. CASE i = Len(words)
  <2>1. R = q
    BY <1>0, <1>1, <1>5, AtTheEnd
  <2>2. QED
    BY <1>4, <2>1
<1>6. CASE i # Len(words)
  <2>1. i + 1 \in 1 .. Len(words) /\ i + 1 \in 0 .. Len(words) /\ (i + 1) - 1 = i
    BY <1>1, <1>6
  <2> DEFINE p == Readings(words)[i + 1]
  <2>2. p = Read(q, words[i + 1])
    BY <1>0, <2>1, ReadingAt
  <2>3. Later(p, R)
    BY <1>0, <2>1, AtTheEnd
  <2> HIDE DEF p
  <2>4. Heard(p) = Heard(q) /\ (p.end = "usage" \/ p.dash)
    BY <1>2, <1>3, <1>4, <1>6, <2>2, ReadsFollowing
  <2>5. QED
    BY <1>4, <2>3, <2>4 DEF Later
<1>7. QED
  BY <1>5, <1>6

(* The scanner stays at anything else. *)
LEMMA StopAgrees ==
    ASSUME NEW words, Line(words), NEW s \in ScannerType, s.index <= Len(words),
           Follows(Readings(words)[s.index - 1], s),
           Stops(words, s, FALSE),
           ~TakesValue(OptionOf(s.command, words[s.index]))
    PROVE  LET w == words[s.index]
               q == Readings(words)[s.index]
               R == Reading(words)
           IN  /\ s.heard = Heard(R)
               /\ HelpOption(s.command, w) => R.end = "help"
               /\ ~HelpOption(s.command, w) =>
                     IF HelpWord(s.command, w) THEN q.end = "helpCommand"
                     ELSE R.end \in {"usage", "escape", "command"}
<1>0. SUFFICES ASSUME NEW i, i = s.index, NEW w, w = words[i],
                      NEW r, r = Readings(words)[i - 1],
                      NEW q, q = Readings(words)[i],
                      NEW R, R = Reading(words)
               PROVE  /\ s.heard = Heard(R)
                      /\ HelpOption(s.command, w) => R.end = "help"
                      /\ ~HelpOption(s.command, w) =>
                            IF HelpWord(s.command, w) THEN q.end = "helpCommand"
                            ELSE R.end \in {"usage", "escape", "command"}
  OBVIOUS
<1>1. Len(words) \in Nat /\ i \in 1 .. Len(words) /\ i \in 0 .. Len(words)
      /\ Follows(r, s)
  BY <1>0 DEF Line, ScannerType
<1>2. r \in ReadingType /\ q = Read(r, w) /\ Later(q, R)
  BY <1>0, <1>1, ReadingAt, AtTheEnd
<1>3. LET option == OptionOf(s.command, w) IN
         ~TakesValue(option) /\ ~IsFlag(w, option) /\ ~(s.command = None /\ IsCommand(w))
  BY <1>0 DEF Stops
<1>4. /\ q.end # "open" /\ Heard(q) = Heard(r)
      /\ HelpOption(s.command, w) => q.end = "help"
      /\ ~HelpOption(s.command, w) =>
            IF HelpWord(s.command, w) THEN q.end = "helpCommand"
            ELSE q.end \in {"usage", "escape", "command"}
  BY <1>0, <1>1, <1>2, <1>3, ReadsStop
<1>5. QED
  BY <1>1, <1>2, <1>4 DEF Later, Follows

(* Whether --quiet was given: the scanner and clap agree, for lines of any  *)
(* length, unless clap stopped at a request for exec's help.  What the      *)
(* scanner heard, clap has heard; and a text option with the value - apart, *)
(* the other way round.                                                     *)
THEOREM QuietAgrees ==
    ASSUME NEW words, Line(words)
    PROVE  LET R     == Reading(words)
               heard == Scanned(words, TRUE).heard
           IN  \/ R.end = "help" /\ R.command = "exec"
               \/ /\ heard \subseteq Heard(R)
                  /\ ~R.dash => heard = Heard(R)
<1>0. SUFFICES ASSUME NEW s, s = Scanned(words, TRUE), NEW i, i = s.index,
                      NEW r, r = Readings(words)[i - 1],
                      NEW R, R = Reading(words)
               PROVE  \/ R.end = "help" /\ R.command = "exec"
                      \/ /\ s.heard \subseteq Heard(R)
                         /\ ~R.dash => s.heard = Heard(R)
  OBVIOUS
<1>1. /\ s \in ScannerType /\ i \in 1 .. Len(words) + 1 /\ Len(words) \in Nat
      /\ Follows(r, s) \/ PastHelp(r, s)
      /\ i <= Len(words) => Stops(words, s, TRUE)
  <2>1. Finished(words, s, TRUE)
    BY <1>0, ScanFinishes
  <2>2. s \in ScannerType /\ Len(words) \in Nat /\ i <= Len(words) + 1
    BY <1>0, <2>1 DEF Finished, Together, Line
  <2>3. i \in 1 .. Len(words) + 1
    <3>1. s.index \in Nat /\ s.index # 0
      BY <2>2 DEF ScannerType
    <3>2. i \in Nat /\ i # 0
      BY <1>0, <3>1
    <3>3. QED
      BY <2>2, <3>2
  <2>4. QED
    BY <1>0, <2>1, <2>2, <2>3 DEF Finished, Together
<1>2. i - 1 \in 0 .. Len(words) /\ (i > Len(words) => i - 1 = Len(words))
  BY <1>1
<1>3. Later(r, R) /\ (i > Len(words) => R = r)
  BY <1>0, <1>2, AtTheEnd
<1>4. CASE PastHelp(r, s)
  BY <1>3, <1>4 DEF PastHelp, Later
<1>5. CASE Follows(r, s) /\ i > Len(words)
  BY <1>3, <1>5 DEF Follows
<1>6. CASE Follows(r, s) /\ i <= Len(words)
           /\ TakesValue(OptionOf(s.command, words[i]))
  BY <1>0, <1>1, <1>6, StuckAgrees DEF Stops
<1>7. CASE Follows(r, s) /\ i <= Len(words)
           /\ ~TakesValue(OptionOf(s.command, words[i]))
  BY <1>0, <1>1, <1>7, StopAgrees DEF Stops
<1>8. QED
  BY <1>1, <1>4, <1>5, <1>6, <1>7

-----------------------------------------------------------------------------
(* The line that asks for help and nothing else                             *)

LEMMA ShortLines ==
    ASSUME NEW v, NEW w
    PROVE  /\ Line(<<v>>) /\ Line(<<v, w>>)
           /\ Reading(<<v>>) = Read(Beginning, v)
           /\ Reading(<<v, w>>) = Read(Read(Beginning, v), w)
<1>1. Line(<<v>>) /\ Line(<<v, w>>)
  BY DEF Line
<1>2. /\ Len(<<v>>) = 1 /\ Len(<<v, w>>) = 2 /\ <<v>>[1] = v
      /\ <<v, w>>[1] = v /\ <<v, w>>[2] = w
  OBVIOUS
<1>3. Reading(<<v>>) = Read(Beginning, v)
  <2>1. 0 \in 0 .. 1 - 1 /\ 0 + 1 = 1
    OBVIOUS
  <2>2. Readings(<<v>>)[0 + 1] = Read(Readings(<<v>>)[0], <<v>>[0 + 1])
    BY <1>1, <1>2, <2>1, ReadingsStep
  <2>3. QED
    BY <1>1, <1>2, <2>1, <2>2, ReadingsStep DEF Reading
<1>4. Reading(<<v, w>>) = Read(Read(Beginning, v), w)
  <2> DEFINE words == <<v, w>>
  <2>1. 0 \in 0 .. 2 - 1 /\ 0 + 1 = 1 /\ 1 \in 0 .. 2 - 1 /\ 1 + 1 = 2
    OBVIOUS
  <2>2. Line(words) /\ Len(words) = 2 /\ words[1] = v /\ words[2] = w
    BY <1>1, <1>2
  <2> HIDE DEF words
  <2>3. Readings(words)[0 + 1] = Read(Readings(words)[0], words[0 + 1])
    BY <2>1, <2>2, ReadingsStep
  <2>4. Readings(words)[1 + 1] = Read(Readings(words)[1], words[1 + 1])
    BY <2>1, <2>2, ReadingsStep
  <2>5. Readings(words)[0] = Beginning
    BY <2>2, ReadingsStep
  <2>6. Reading(words) = Read(Read(Beginning, v), w)
    BY <2>1, <2>2, <2>3, <2>4, <2>5 DEF Reading
  <2>7. QED
    BY <2>6 DEF words
<1>5. QED
  BY <1>1, <1>3, <1>4

(* A reading that has met nothing but a command. *)
Fresh(r, c) ==
    /\ r \in ReadingType
    /\ r.end = "open" /\ r.pending = None /\ r.command = c /\ ~r.refused
    /\ Heard(r) = {}

LEMMA BeginsFresh == Fresh(Beginning, None)
BY DEF Fresh, Beginning, ReadingType, Levels, Ends, Heard

LEMMA FreshCommand ==
    ASSUME NEW c \in Commands
    PROVE  Fresh(Read(Beginning, Word("plain", c)), c)
<1> DEFINE w == Word("plain", c)
           q == [Beginning EXCEPT !.command = c]
<1>1. w.form = "plain" /\ w.name = c
  BY DEF Word
<1> HIDE DEF w
<1>2. Read(Beginning, w) = ReadPlain(Beginning, w)
  BY <1>1 DEF Read, Beginning, IsHelp, IsVersion
<1>3. ReadPlain(Beginning, w) = q
  BY <1>1 DEF ReadPlain, Beginning, IsCommand
<1>4. Fresh(q, c)
  BY DEF Fresh, Beginning, ReadingType, Levels, Ends, Heard
<1>5. QED
  BY <1>2, <1>3, <1>4 DEF w

(* One more argument that ends the reading. *)
Closes(r, q, e) == /\ q.end = e /\ ~q.refused /\ Heard(q) = Heard(r)
                   /\ q.command = r.command

LEMMA ClosingSets ==
    ASSUME NEW r \in ReadingType, NEW e, ~r.refused
    PROVE  Closes(r, [r EXCEPT !.end = e], e)
BY HeardSame DEF Closes, ReadingType, Heard

LEMMA HelpOptionCloses ==
    ASSUME NEW r, NEW c, NEW w, Fresh(r, c), HelpOption(c, w)
    PROVE  Closes(r, Read(r, w), "help")
<1>1. Read(r, w) = [r EXCEPT !.end = "help"]
  BY DEF Read, HelpOption, IsHelp, IsVersion, Fresh
<1>2. QED
  BY <1>1, ClosingSets DEF Fresh

LEMMA HelpWordCloses ==
    ASSUME NEW r, NEW w, Fresh(r, None), IsHelpCommand(w)
    PROVE  Closes(r, Read(r, w), "helpCommand")
<1>1. Read(r, w) = ReadPlain(r, w)
  BY DEF Read, IsHelpCommand, IsHelp, IsVersion, Fresh
<1>2. ReadPlain(r, w) = [r EXCEPT !.end = "helpCommand"]
  BY CommandNames DEF ReadPlain, IsHelpCommand, IsCommand, Fresh
<1>3. QED
  BY <1>1, <1>2, ClosingSets DEF Fresh

TopicEnd(v) == IF IsCommand(v) \/ IsHelpCommand(v) THEN "topic"
               ELSE IF IsHelp(v) THEN "topicHelp" ELSE "noTopic"

LEMMA TopicCloses ==
    ASSUME NEW r \in ReadingType, NEW v, r.end = "helpCommand"
    PROVE  /\ Read(r, v).end = TopicEnd(v)
           /\ ~r.refused => Closes(r, Read(r, v), TopicEnd(v))
<1>1. Read(r, v) = [r EXCEPT !.end = TopicEnd(v)]
  BY DEF Read, TopicEnd
<1>2. QED
  BY <1>1, ClosingSets DEF ReadingType

LEMMA HelpOutcomes ==
    ASSUME NEW words, ~Reading(words).refused
    PROVE  /\ Reading(words).end \in {"help", "helpCommand", "topic"} =>
                 ParseOutcomes(words) = {"help"}
           /\ Reading(words).end = "noTopic" => ParseOutcomes(words) = {"usage"}
BY DEF ParseOutcomes

(* Whether help is asked for: a line for which the scanner finds a request  *)
(* is one that clap would take for a request, whatever else is on it, and   *)
(* the line that replaces it asks for it as well; where the scanner finds   *)
(* none, clap would not either, a text option with the value - apart.       *)
THEOREM HelpAgrees ==
    ASSUME NEW words, Line(words)
    PROVE  LET R    == Reading(words)
               help == HelpScan(words)
           IN  /\ help = NoHelp => R.dash \/ ~AsksForHelp(R)
               /\ help # NoHelp =>
                     /\ Line(help) /\ Len(help) <= Len(words)
                     /\ \/ AsksForHelp(R) /\ ParseOutcomes(help) = {"help"}
                        \/ /\ R.end = "noTopic" /\ ParseOutcomes(help) = {"usage"}
                           /\ Heard(Reading(help)) = {}
                           /\ Reading(help).end = "noTopic"
<1> DEFINE Right(help) ==
              /\ help # NoHelp
              /\ Line(help) /\ Len(help) <= Len(words)
              /\ \/ AsksForHelp(Reading(words)) /\ ParseOutcomes(help) = {"help"}
                 \/ /\ Reading(words).end = "noTopic"
                    /\ ParseOutcomes(help) = {"usage"}
                    /\ Heard(Reading(help)) = {}
                    /\ Reading(help).end = "noTopic"
<1>0. SUFFICES ASSUME NEW help, help = HelpScan(words),
                      NEW s, s = Scanned(words, FALSE), NEW i, i = s.index,
                      NEW w, w = words[i],
                      NEW r, r = Readings(words)[i - 1],
                      NEW q, q = Readings(words)[i],
                      NEW R, R = Reading(words)
               PROVE  \/ help = NoHelp /\ (R.dash \/ ~AsksForHelp(R))
                      \/ Right(help)
  OBVIOUS
<1>1. /\ s \in ScannerType /\ i \in 1 .. Len(words) + 1 /\ Len(words) \in Nat
      /\ Follows(r, s) /\ (s.command # None => i > 1)
      /\ i <= Len(words) => Stops(words, s, FALSE)
  <2>1. Finished(words, s, FALSE)
    BY <1>0, ScanFinishes
  <2>2. s \in ScannerType /\ Len(words) \in Nat /\ i <= Len(words) + 1
    BY <1>0, <2>1 DEF Finished, Together, Line
  <2>3. i \in 1 .. Len(words) + 1
    <3>1. s.index \in Nat /\ s.index # 0
      BY <2>2 DEF ScannerType
    <3>2. i \in Nat /\ i # 0
      BY <1>0, <3>1
    <3>3. QED
      BY <2>2, <3>2
  <2>4. QED
    BY <1>0, <2>1, <2>2, <2>3 DEF Finished, Together
<1>2. CASE i > Len(words)
  <2>1. i - 1 = Len(words) /\ i - 1 \in 0 .. Len(words)
    BY <1>1, <1>2
  <2>2. R = r
    BY <1>0, <2>1, AtTheEnd
  <2>3. help = NoHelp
    BY <1>0, <1>2 DEF HelpScan
  <2>4. QED
    BY <1>1, <2>2, <2>3 DEF Follows, AsksForHelp
<1>3. CASE i <= Len(words) /\ TakesValue(OptionOf(s.command, w))
  <2>1. help = NoHelp
    BY <1>0, <1>3 DEF HelpScan
  <2>2. R.dash \/ R.end \in {"open", "usage", "escape", "command"}
    BY <1>0, <1>1, <1>3, StuckAgrees DEF Stops
  <2>3. QED
    BY <2>1, <2>2 DEF AsksForHelp
<1>4. CASE i <= Len(words) /\ ~TakesValue(OptionOf(s.command, w))
  <2>1. i \in 1 .. Len(words) /\ i \in 0 .. Len(words) /\ ~(i > Len(words))
    BY <1>1, <1>4
  <2>2. q \in ReadingType /\ Later(q, R)
    BY <1>0, <2>1, ReadingAt, AtTheEnd
  <2>3. /\ HelpOption(s.command, w) => R.end = "help"
        /\ ~HelpOption(s.command, w) =>
              IF HelpWord(s.command, w) THEN q.end = "helpCommand"
              ELSE R.end \in {"usage", "escape", "command"}
    BY <1>0, <1>1, <1>4, StopAgrees
  <2>4. help = IF IsHelp(w) THEN Control(s.command, w)
               ELSE IF s.command = None /\ IsVersion(w) THEN Control(None, w)
               ELSE IF s.command = None /\ IsHelpCommand(w)
                 THEN HelpCommand(words, i)
               ELSE NoHelp
    BY <1>0, <1>4, <2>1 DEF HelpScan
  <2>5. CASE HelpOption(s.command, w)
    <3>1. help = Control(s.command, w) /\ AsksForHelp(R)
      BY <2>3, <2>4, <2>5 DEF HelpOption, AsksForHelp
    <3>2. CASE s.command = None
      <4>1. help = <<w>>
        BY <3>1, <3>2 DEF Control
      <4>2. Closes(Beginning, Reading(<<w>>), "help")
        <5>1. HelpOption(None, w)
          BY <2>5, <3>2
        <5>2. Closes(Beginning, Read(Beginning, w), "help")
          BY <5>1, BeginsFresh, HelpOptionCloses
        <5>3. Reading(<<w>>) = Read(Beginning, w)
          BY ShortLines
        <5>4. QED
          BY <5>2, <5>3
      <4>3. Len(<<w>>) = 1 /\ <<w>> # NoHelp /\ 1 <= Len(words)
        BY <1>1, <2>1 DEF NoHelp
      <4>4. ParseOutcomes(<<w>>) = {"help"}
        <5>1. ~Reading(<<w>>).refused /\ Reading(<<w>>).end = "help"
          BY <4>2 DEF Closes
        <5>2. QED
          BY <5>1, HelpOutcomes
      <4>5. Line(<<w>>)
        BY ShortLines
      <4>6. QED
        BY <1>0, <3>1, <4>1, <4>3, <4>4, <4>5
    <3>3. CASE s.command # None
      <4> DEFINE c == Word("plain", s.command)
      <4>1. help = <<c, w>>
        BY <3>1, <3>3 DEF Control
      <4>2. s.command \in Commands
        BY <1>1, <3>3 DEF ScannerType, Levels
      <4>3. Closes(Read(Beginning, c), Reading(<<c, w>>), "help")
        <5>1. Fresh(Read(Beginning, c), s.command)
          BY <4>2, FreshCommand
        <5> HIDE DEF c
        <5>2. Closes(Read(Beginning, c), Read(Read(Beginning, c), w), "help")
          BY <2>5, <5>1, HelpOptionCloses
        <5>3. Reading(<<c, w>>) = Read(Read(Beginning, c), w)
          BY ShortLines
        <5>4. QED
          BY <5>2, <5>3
      <4>4. Len(<<c, w>>) = 2 /\ <<c, w>> # NoHelp /\ 2 <= Len(words)
        BY <1>1, <2>1, <3>3 DEF NoHelp
      <4> HIDE DEF c
      <4>5. ~Reading(<<c, w>>).refused /\ Reading(<<c, w>>).end = "help"
        BY <4>3 DEF Closes
      <4>6. ParseOutcomes(<<c, w>>) = {"help"}
        BY <4>5, HelpOutcomes
      <4>7. Line(<<c, w>>)
        BY ShortLines
      <4>8. QED
        BY <1>0, <3>1, <4>1, <4>4, <4>6, <4>7
    <3>4. QED
      BY <3>2, <3>3
  <2>6. CASE ~HelpOption(s.command, w) /\ HelpWord(s.command, w)
    <3> DEFINE h == Word("plain", "help")
    <3>1. help = HelpCommand(words, i) /\ q.end = "helpCommand"
      BY <2>3, <2>4, <2>6 DEF HelpOption, HelpWord
    <3>2. IsHelpCommand(h) /\ ~IsCommand(h)
      BY CommandNames DEF IsHelpCommand, IsCommand, Word
    <3>3. Closes(Beginning, Read(Beginning, h), "helpCommand")
      BY <3>2, BeginsFresh, HelpWordCloses
    <3>4. Read(Beginning, h) \in ReadingType
      BY BeginsFresh, ReadTyped DEF Fresh
    <3>5. Heard(Beginning) = {}
      BY BeginsFresh DEF Fresh
    <3> HIDE DEF h
    <3>6. CASE i = Len(words)
      <4>1. help = <<h>> /\ R = q
        BY <1>0, <2>1, <3>1, <3>6, AtTheEnd DEF HelpCommand, h
      <4>2. Len(<<h>>) = 1 /\ <<h>> # NoHelp /\ 1 <= Len(words)
        BY <1>1, <2>1 DEF NoHelp
      <4>3. Closes(Beginning, Reading(<<h>>), "helpCommand")
        BY <3>3, ShortLines
      <4>4. ParseOutcomes(<<h>>) = {"help"}
        <5>1. ~Reading(<<h>>).refused /\ Reading(<<h>>).end = "helpCommand"
          BY <4>3 DEF Closes
        <5>2. QED
          BY <5>1, HelpOutcomes
      <4>5. Line(<<h>>) /\ AsksForHelp(R)
        BY <3>1, <4>1, ShortLines DEF AsksForHelp
      <4>6. QED
        BY <1>0, <4>1, <4>2, <4>4, <4>5
    <3>7. CASE i # Len(words)
      <4> DEFINE v == words[i + 1]
                 x == IF IsHelp(v) THEN h ELSE v
                 p == Readings(words)[i + 1]
      <4>1. i + 1 \in 1 .. Len(words) /\ i + 1 \in 0 .. Len(words)
            /\ (i + 1) - 1 = i
        BY <1>1, <2>1, <3>7
      <4>2. p = Read(q, v) /\ Later(p, R)
        BY <1>0, <4>1, ReadingAt, AtTheEnd
      <4>3. help = <<h, x>>
        BY <3>1, <3>7 DEF HelpCommand, h
      <4> HIDE DEF v, x, p
      <4>4. p.end = TopicEnd(v)
        BY <2>2, <3>1, <4>2, TopicCloses
      <4>5. Closes(Read(Beginning, h), Reading(<<h, x>>), TopicEnd(x))
        <5>1. Read(Beginning, h).end = "helpCommand" /\ ~Read(Beginning, h).refused
          BY <3>3 DEF Closes
        <5>2. Closes(Read(Beginning, h), Read(Read(Beginning, h), x), TopicEnd(x))
          BY <3>4, <5>1, TopicCloses
        <5>3. Reading(<<h, x>>) = Read(Read(Beginning, h), x)
          BY ShortLines
        <5>4. QED
          BY <5>2, <5>3
      <4>6. \/ TopicEnd(x) = "topic" /\ TopicEnd(v) \in {"topic", "topicHelp"}
            \/ TopicEnd(x) = "noTopic" /\ TopicEnd(v) = "noTopic"
        BY <3>2 DEF TopicEnd, x
      <4>7. Len(<<h, x>>) = 2 /\ <<h, x>> # NoHelp /\ 2 <= Len(words)
        BY <1>1, <2>1, <3>7 DEF NoHelp
      <4>8. CASE TopicEnd(x) = "topic" /\ TopicEnd(v) \in {"topic", "topicHelp"}
        <5>1. AsksForHelp(R)
          BY <4>2, <4>4, <4>8 DEF Later, AsksForHelp
        <5>2. ParseOutcomes(<<h, x>>) = {"help"}
          <6>1. ~Reading(<<h, x>>).refused /\ Reading(<<h, x>>).end = "topic"
            BY <4>5, <4>8 DEF Closes
          <6>2. QED
            BY <6>1, HelpOutcomes
        <5>3. Line(<<h, x>>)
          BY ShortLines
        <5>4. QED
          BY <1>0, <4>3, <4>7, <5>1, <5>2, <5>3
      <4>9. CASE TopicEnd(x) = "noTopic" /\ TopicEnd(v) = "noTopic"
        <5>1. R.end = "noTopic"
          BY <4>2, <4>4, <4>9 DEF Later
        <5>2. /\ ParseOutcomes(<<h, x>>) = {"usage"}
              /\ Reading(<<h, x>>).end = "noTopic"
              /\ Heard(Reading(<<h, x>>)) = {}
          <6>1. ~Reading(<<h, x>>).refused /\ Reading(<<h, x>>).end = "noTopic"
                /\ Heard(Reading(<<h, x>>)) = {}
            BY <3>3, <3>5, <4>5, <4>9 DEF Closes
          <6>2. QED
            BY <6>1, HelpOutcomes
        <5>3. Line(<<h, x>>)
          BY ShortLines
        <5>4. QED
          BY <1>0, <4>3, <4>7, <5>1, <5>2, <5>3
      <4>10. QED
        BY <4>6, <4>8, <4>9
    <3>8. QED
      BY <3>6, <3>7
  <2>7. CASE ~HelpOption(s.command, w) /\ ~HelpWord(s.command, w)
    <3>1. help = NoHelp /\ R.end \in {"usage", "escape", "command"}
      BY <2>3, <2>4, <2>7 DEF HelpOption, HelpWord
    <3>2. QED
      BY <3>1 DEF AsksForHelp
  <2>8. QED
    BY <2>5, <2>6, <2>7
<1>5. QED
  BY <1>1, <1>2, <1>3, <1>4

-----------------------------------------------------------------------------
(* The inductive invariant *)

LinesInv ==
    /\ Line(raw) /\ Line(args)
    /\ \A i \in DOMAIN raw : raw[i] \in Alphabets[Len(raw) + 1]
    /\ Len(args) <= Len(raw)
    /\ {rawRead, lastRead} \subseteq Summaries

(* What clap gets is the line that the scanner replaced, or the expanded    *)
(* one; and nobody who asked for help has it run.                           *)
ReadInv ==
    /\ pc = "parse" =>
          /\ rawRead = Summary(raw)
          /\ HelpScan(raw) # NoHelp => args = HelpScan(raw)
    /\ pc \in {"run", "probe", "report"} =>
          /\ cli = lastRead.heard
          /\ rawRead.dash \/ ~AsksForHelp(rawRead)

(* What was measured is what the probe took; a probe that is running or     *)
(* done has begun.                                                          *)
SpanInv ==
    /\ pc \in {"start", "parse", "run"} =>
          phase = "given" /\ outcome = "none" /\ span = 0
    /\ pc = "probe" => /\ outcome = "none" /\ now = started + span
                       /\ phase = "probing" => began
    /\ pc = "report" => outcome = "healthy" /\ elapsed = span /\ began

OtherTypes ==
    /\ env \in Environments
    /\ pc \in {"start", "parse", "run", "probe", "report", "exited"}
    /\ cli \in SUBSET {"quiet", "verbose"}
    /\ maxLatency \in Latencies \cup {NoLimit}
    /\ {prompt, began} \subseteq BOOLEAN
    /\ phase \in {"given", "probing", "ended"}
    /\ outcome \in Probe!Outcomes \cup {"none"}
    /\ {timeout, deadline, now, started, elapsed, span} \subseteq Nat
    /\ code \in {0, 1, 3, 4}
    /\ shown \in {"nothing", "stdout", "stderr"}

IInv ==
    /\ LinesInv /\ OtherTypes /\ ReadInv /\ SpanInv
    /\ ExitCodeIsTrue /\ HelpIsRight /\ OutputIsAsked

-----------------------------------------------------------------------------
(* Lines *)

LEMMA FunctionIsLine ==
    ASSUME NEW n \in Nat, NEW S, NEW f \in [1 .. n -> S]
    PROVE  Line(f) /\ Len(f) = n
BY DEF Line

LEMMA PartialIsLine ==
    ASSUME NEW words, NEW e, Line(words)
    PROVE  Line(Partial(words, e)) /\ Len(Partial(words, e)) = Len(words)
<1> DEFINE f == Partial(words, e)
           S == {f[i] : i \in 1 .. Len(words)}
<1>1. Len(words) \in Nat /\ DOMAIN words = 1 .. Len(words)
  BY DEF Line
<1>2. f = [i \in 1 .. Len(words) |-> f[i]]
  BY <1>1 DEF Partial
<1> HIDE DEF f
<1>3. f \in [1 .. Len(words) -> S]
  BY <1>2
<1> HIDE DEF S
<1>4. Line(f) /\ Len(f) = Len(words)
  BY <1>1, <1>3, FunctionIsLine
<1>5. QED
  BY <1>4 DEF f

LEMMA EmptyLine == Line(<<>>) /\ Len(<<>>) = 0
BY DEF Line

LEMMA ReadingTyped ==
    ASSUME NEW words, Line(words)
    PROVE  Reading(words) \in ReadingType
<1>1. Len(words) \in 0 .. Len(words)
  BY DEF Line
<1>2. QED
  BY <1>1, ReadingsTyped DEF Reading

LEMMA SummaryTyped ==
    ASSUME NEW words, Line(words)
    PROVE  Summary(words) \in Summaries
<1>1. Reading(words) \in ReadingType
  BY ReadingTyped
<1>2. Heard(Reading(words)) \in SUBSET {"quiet", "verbose"}
  BY DEF Heard
<1>3. QED
  BY <1>1, <1>2 DEF Summary, Summaries, ReadingType, Ends

(* The two theorems, as the runner uses them. *)
LEMMA SummaryQuiet ==
    ASSUME NEW words, Line(words)
    PROVE  LET sum == Summary(words) IN
           /\ QuietScan(words) => "quiet" \in sum.heard \/ sum.execHelp
           /\ sum.heard = {"quiet"} /\ ~sum.dash /\ ~sum.execHelp =>
                 QuietScan(words)
<1>1. LET sum == Summary(words)
          R   == Reading(words) IN
      /\ sum.heard = Heard(R) /\ sum.dash = R.dash
      /\ sum.execHelp <=> R.end = "help" /\ R.command = "exec"
  BY DEF Summary
<1>2. QED
  <2>0. SUFFICES ASSUME NEW sum, sum = Summary(words), NEW R, R = Reading(words),
                        NEW heard, heard = Scanned(words, TRUE).heard
                 PROVE  /\ Quiet(heard) => "quiet" \in sum.heard \/ sum.execHelp
                        /\ sum.heard = {"quiet"} /\ ~sum.dash /\ ~sum.execHelp =>
                              Quiet(heard)
    BY DEF QuietScan
  <2>1. \/ sum.execHelp
        \/ heard \subseteq sum.heard /\ (~sum.dash => heard = sum.heard)
    BY <1>1, <2>0, QuietAgrees
  <2>2. sum.heard = {"quiet"} => Quiet(sum.heard)
    BY DEF Quiet
  <2>3. QED
    BY <2>1, <2>2 DEF Quiet

LEMMA SummaryAsks ==
    ASSUME NEW words
    PROVE  LET sum == Summary(words)
               R   == Reading(words) IN
           /\ AsksForHelp(sum) <=> AsksForHelp(R)
           /\ sum.dash = R.dash /\ sum.end = R.end
BY DEF Summary, AsksForHelp

-----------------------------------------------------------------------------
LEMMA InitInv == Init => IInv
<1> SUFFICES ASSUME Init  PROVE IInv
  OBVIOUS
<1>1. LinesInv
  <2>1. PICK n \in DOMAIN Alphabets : raw \in [1 .. n - 1 -> Alphabets[n]]
    BY DEF Init
  <2>2. n - 1 \in Nat /\ (n - 1) + 1 = n
    BY LinesAssumption
  <2>3. Line(raw) /\ Len(raw) = n - 1
    BY <2>1, <2>2, FunctionIsLine
  <2>4. \A i \in DOMAIN raw : raw[i] \in Alphabets[Len(raw) + 1]
    BY <2>1, <2>2, <2>3
  <2>5. args = <<>> /\ rawRead = Summary(<<>>) /\ lastRead = Summary(<<>>)
    BY DEF Init
  <2>6. 0 <= Len(raw)
    BY <2>2, <2>3
  <2>7. QED
    BY <2>3, <2>4, <2>5, <2>6, EmptyLine, SummaryTyped DEF LinesInv
<1>2. OtherTypes
  <2>1. env \in Environments
    BY LinesAssumption DEF Init, NoEnvironment
  <2>2. {prompt, began} \subseteq BOOLEAN
    BY DEF Init
  <2>3. QED
    BY <2>1, <2>2 DEF OtherTypes, Init
<1>3. ReadInv /\ SpanInv /\ ExitCodeIsTrue /\ HelpIsRight /\ OutputIsAsked
  BY DEF Init, ReadInv, SpanInv, ExitCodeIsTrue, HelpIsRight, HelpNeedsNothing,
         HelpIsAsked, OutputIsAsked, SilenceIsAsked, QuietIsHeard, SuccessIsSilent
<1>4. QED
  BY <1>1, <1>2, <1>3 DEF IInv

-----------------------------------------------------------------------------
(* The steps *)

LEMMA ForgetLines ==
    ASSUME LinesInv, NEW words, Line(words), Forget(words),
           UNCHANGED rawRead \/ rawRead' = Summary(raw)
    PROVE  LinesInv'
<1>1. raw' = <<>> /\ args' = <<>> /\ lastRead' = Summary(words)
  BY DEF Forget
<1>2. Line(raw') /\ Line(args') /\ Len(raw') = 0 /\ Len(args') = 0
  BY <1>1, EmptyLine
<1>3. DOMAIN raw' = {} /\ Len(args') <= Len(raw')
  BY <1>2 DEF Line
<1>4. rawRead' \in Summaries /\ lastRead' \in Summaries
  BY <1>1, SummaryTyped DEF LinesInv
<1>5. QED
  BY <1>2, <1>3, <1>4 DEF LinesInv

LEMMA UnscannedIsLine ==
    ASSUME LinesInv
    PROVE  Line(Unscanned)
BY DEF LinesInv, Unscanned

LEMMA LinesStep ==
    ASSUME LinesInv, [Next]_vars
    PROVE  LinesInv'
<1>1. ASSUME UNCHANGED lineVars  PROVE LinesInv'
  BY <1>1 DEF LinesInv, lineVars
<1>2. ASSUME UNCHANGED <<raw, lastRead>>, rawRead' = Summary(raw), Line(args'),
             Len(args') <= Len(raw)
      PROVE  LinesInv'
  BY <1>2, SummaryTyped DEF LinesInv
<1>3. CASE Prescan
  <2>1. Line(HelpScan(raw)) /\ Len(HelpScan(raw)) <= Len(raw)
    BY <1>3, HelpAgrees DEF Prescan, LinesInv
  <2>2. QED
    BY <1>2, <1>3, <2>1 DEF Prescan
<1>4. CASE ExpandAll
  <2>1. Line(Partial(raw, env)) /\ Len(Partial(raw, env)) = Len(raw)
    BY PartialIsLine DEF LinesInv
  <2>2. Len(raw) <= Len(raw)
    BY DEF LinesInv, Line
  <2>3. QED
    BY <1>2, <1>4, <2>1, <2>2 DEF ExpandAll
<1>5. CASE ExpansionFails
  BY <1>5, ForgetLines, PartialIsLine DEF ExpansionFails, LinesInv
<1>6. CASE ParseShows
  BY <1>6, ForgetLines, UnscannedIsLine DEF ParseShows
<1>7. CASE ParseRefuses
  BY <1>7, ForgetLines, UnscannedIsLine DEF ParseRefuses
<1>8. CASE ParseAccepts
  BY <1>8, ForgetLines DEF ParseAccepts, LinesInv
<1>9. CASE RunRefuses \/ RunStarts \/ ProbeBegins \/ Tick \/ ProbeHealthy
           \/ ProbeRefuses \/ ProbeFails \/ ReportTooSlow \/ Report \/ Exited
           \/ UNCHANGED vars
  BY <1>1, <1>9 DEF RunRefuses, RunStarts, ProbeBegins, Tick, ProbeHealthy,
                    ProbeRefuses, ProbeFails, ReportTooSlow, Report, Exited, vars
<1>10. QED
  BY <1>3, <1>4, <1>5, <1>6, <1>7, <1>8, <1>9 DEF Next

LEMMA TypesStep ==
    ASSUME OtherTypes, SpanInv, [Next]_vars
    PROVE  OtherTypes'
<1> USE DEF OtherTypes
<1>0. NoEnvironment \in Environments
  BY LinesAssumption DEF NoEnvironment
<1>1. CASE Prescan \/ ExpandAll
  BY <1>1 DEF Prescan, ExpandAll, probeVars, timeVars
<1>2. CASE ExpansionFails \/ ParseShows \/ ParseRefuses
  BY <1>0, <1>2 DEF ExpansionFails, ParseShows, ParseRefuses, Fail, Exit, Forget,
                    probeVars, timeVars
<1>3. CASE ParseAccepts
  <2>1. cli' \in SUBSET {"quiet", "verbose"}
    BY <1>3 DEF ParseAccepts, Heard
  <2>2. timeout' \in Nat
    BY <1>3, BoundsAssumption DEF ParseAccepts
  <2>3. QED
    BY <1>0, <1>3, <2>1, <2>2 DEF ParseAccepts, Forget, timeVars
<1>4. CASE RunRefuses \/ ReportTooSlow \/ Report
  BY <1>4 DEF RunRefuses, ReportTooSlow, Report, Fail, Exit, lineVars, probeVars,
              timeVars
<1>5. CASE RunStarts
  BY <1>5 DEF RunStarts, lineVars, probeVars
<1>6. CASE ProbeBegins
  <2>1. deadline' \in Nat
    BY <1>6 DEF ProbeBegins, Probe!Begin
  <2>2. QED
    BY <1>6, <2>1 DEF ProbeBegins, Probe!Begin, lineVars, timeVars
<1>7. CASE Tick
  <2>1. now' \in Nat /\ span' \in Nat
    BY <1>7 DEF Tick
  <2>2. QED
    BY <1>7, <2>1 DEF Tick, Probe!Wait, lineVars
<1>8. CASE ProbeHealthy
  <2>1. elapsed' \in Nat
    BY <1>8 DEF ProbeHealthy, SpanInv
  <2>2. QED
    BY <1>8, <2>1 DEF ProbeHealthy, Probe!End, Probe!Outcomes, lineVars
<1>9. CASE ProbeFails
  <2>1. PICK o \in DOMAIN ExitCode :
           Probe!End(o) /\ Fail(ExitCode[o], "quiet" \in cli)
    BY <1>9, Zenon DEF ProbeFails
  <2>2. ExitCode[o] \in {1, 3, 4}
    BY DEF ExitCode
  <2>3. outcome' \in Probe!Outcomes /\ phase' = "ended"
        /\ UNCHANGED <<prompt, timeout, deadline, now>>
    BY <2>1 DEF Probe!End, Probe!Outcomes
  <2>4. QED
    BY <1>9, <2>1, <2>2, <2>3 DEF ProbeFails, Fail, Exit, lineVars, timeVars
<1>10. CASE ProbeRefuses
  BY <1>10 DEF ProbeRefuses, Probe!Refuse, Probe!Outcomes, ExitCode, Fail, Exit,
               lineVars, timeVars
<1>11. CASE Exited \/ UNCHANGED vars
  <2>1. UNCHANGED vars
    BY <1>11 DEF Exited
  <2>2. QED
    BY <2>1 DEF vars, lineVars, probeVars, timeVars
<1>12. QED
  BY <1>1, <1>2, <1>3, <1>4, <1>5, <1>6, <1>7, <1>8, <1>9, <1>10, <1>11 DEF Next

LEMMA ReadStep ==
    ASSUME LinesInv, ReadInv, [Next]_vars
    PROVE  ReadInv'
<1>1. CASE Prescan \/ ExpandAll
  BY <1>1 DEF Prescan, ExpandAll, ReadInv
<1>2. CASE ParseAccepts
  <2>1. cli' = lastRead'.heard
    BY <1>2 DEF ParseAccepts, Forget, Summary
  <2>2. rawRead'.dash \/ ~AsksForHelp(rawRead')
    <3>1. rawRead' = Summary(raw) /\ Line(raw)
          /\ (HelpScan(raw) # NoHelp => args = HelpScan(raw))
          /\ "run" \in ParseOutcomes(args)
      BY <1>2 DEF ParseAccepts, ReadInv, LinesInv
    <3>2. HelpScan(raw) = NoHelp
      BY <3>1, HelpAgrees
    <3>3. QED
      BY <3>1, <3>2, HelpAgrees, SummaryAsks
  <2>3. pc' = "run"
    BY <1>2 DEF ParseAccepts
  <2>4. QED
    BY <2>1, <2>2, <2>3 DEF ReadInv
<1>3. CASE ExpansionFails \/ ParseShows \/ ParseRefuses \/ RunRefuses \/ ProbeRefuses
           \/ ProbeFails \/ ReportTooSlow \/ Report
  BY <1>3 DEF ExpansionFails, ParseShows, ParseRefuses, RunRefuses, ProbeRefuses,
              ProbeFails, ReportTooSlow, Report, Fail, Exit, ReadInv
<1>4. CASE RunStarts \/ ProbeBegins \/ Tick \/ ProbeHealthy
  <2>1. UNCHANGED <<lineVars, cli>>
        /\ pc \in {"run", "probe", "report"} /\ pc' \in {"run", "probe", "report"}
    BY <1>4 DEF RunStarts, ProbeBegins, Tick, ProbeHealthy
  <2>2. QED
    BY <2>1 DEF ReadInv, lineVars
<1>5. CASE Exited \/ UNCHANGED vars
  BY <1>5 DEF Exited, vars, lineVars, ReadInv
<1>6. QED
  BY <1>1, <1>2, <1>3, <1>4, <1>5 DEF Next

LEMMA SpanStep ==
    ASSUME OtherTypes, SpanInv, [Next]_vars
    PROVE  SpanInv'
<1> USE DEF SpanInv
<1>1. CASE Prescan \/ ExpandAll
  BY <1>1 DEF Prescan, ExpandAll, probeVars, timeVars
<1>2. CASE ParseAccepts
  BY <1>2 DEF ParseAccepts, timeVars
<1>3. CASE ExpansionFails \/ ParseShows \/ ParseRefuses \/ RunRefuses \/ ProbeRefuses
           \/ ProbeFails \/ ReportTooSlow \/ Report
  BY <1>3 DEF ExpansionFails, ParseShows, ParseRefuses, RunRefuses, ProbeRefuses,
              ProbeFails, ReportTooSlow, Report, Fail, Exit
<1>4. CASE RunStarts
  BY <1>4 DEF RunStarts, probeVars, OtherTypes
<1>5. CASE ProbeBegins
  BY <1>5 DEF ProbeBegins, Probe!Begin, timeVars
<1>6. CASE Tick
  BY <1>6 DEF Tick, Probe!Wait, OtherTypes
<1>7. CASE ProbeHealthy
  <2>1. elapsed' = span /\ outcome' = "healthy" /\ pc' = "report" /\ span' = span
        /\ began'
    BY <1>7 DEF ProbeHealthy, Probe!End, OtherTypes
  <2>2. QED
    BY <2>1
<1>8. CASE Exited \/ UNCHANGED vars
  BY <1>8 DEF Exited, vars, probeVars, timeVars
<1>9. QED
  BY <1>1, <1>2, <1>3, <1>4, <1>5, <1>6, <1>7, <1>8 DEF Next

(* No action but these ends the program. *)
LEMMA StillRunning ==
    ASSUME [Next]_vars, pc' = "exited"
    PROVE  \/ ExpansionFails \/ ParseShows \/ ParseRefuses \/ RunRefuses \/ ProbeRefuses
           \/ ProbeFails \/ ReportTooSlow \/ Report
           \/ UNCHANGED vars
BY DEF Next, Prescan, ExpandAll, ParseAccepts, RunStarts, ProbeBegins, Tick,
       ProbeHealthy, Exited

LEMMA ExitCodeStep ==
    ASSUME OtherTypes, SpanInv, ExitCodeIsTrue, [Next]_vars
    PROVE  ExitCodeIsTrue'
<1> USE DEF Fail, Exit
<1>0. SUFFICES ASSUME pc' = "exited"  PROVE ExitCodeIsTrue'
  BY DEF ExitCodeIsTrue
<1>1. CASE ExpansionFails \/ ParseRefuses \/ RunRefuses
  <2>1. code' = 3 /\ outcome' = "none"
    BY <1>1 DEF ExpansionFails, ParseRefuses, RunRefuses, SpanInv, probeVars
  <2>2. QED
    BY <2>1 DEF ExitCodeIsTrue
<1>2. CASE ParseShows
  <2>1. code' = 0 /\ shown' = "stdout" /\ outcome' = "none"
    BY <1>2 DEF ParseShows, SpanInv, probeVars
  <2>2. QED
    BY <2>1 DEF ExitCodeIsTrue
<1>3. CASE ProbeRefuses \/ ProbeFails
  <2>1. CASE ProbeRefuses
    BY <2>1 DEF ProbeRefuses, Probe!Refuse, ExitCodeIsTrue, ExitCode
  <2>2. CASE ProbeFails
    <3>1. PICK o \in DOMAIN ExitCode : outcome' = o /\ code' = ExitCode[o]
      BY <2>2 DEF ProbeFails, Probe!End
    <3>2. began'
      BY <2>2 DEF ProbeFails, Probe!End, SpanInv, timeVars
    <3>3. QED
      BY <3>1, <3>2 DEF ExitCodeIsTrue, ExitCode
  <2>3. QED
    BY <1>3, <2>1, <2>2
<1>4. CASE ReportTooSlow
  <2>1. code' = 1 /\ outcome' = "healthy" /\ maxLatency' # NoLimit
        /\ span' > maxLatency' /\ began'
    BY <1>4 DEF ReportTooSlow, TooSlow, SpanInv, probeVars, timeVars
  <2>2. QED
    BY <2>1 DEF ExitCodeIsTrue
<1>5. CASE Report
  <2>1. code' = 0 /\ outcome' = "healthy" /\ began'
        /\ UNCHANGED <<maxLatency, span>>
        /\ (maxLatency = NoLimit \/ ~(span > maxLatency))
    BY <1>5 DEF Report, TooSlow, SpanInv, probeVars, timeVars
  <2>2. maxLatency # NoLimit => maxLatency \in Nat
    BY BoundsAssumption DEF OtherTypes
  <2>3. maxLatency' # NoLimit => span' <= maxLatency'
    BY <2>1, <2>2 DEF OtherTypes
  <2>4. QED
    BY <2>1, <2>3 DEF ExitCodeIsTrue
<1>6. CASE UNCHANGED vars
  BY <1>6 DEF vars, probeVars, timeVars, ExitCodeIsTrue
<1>7. QED
  BY <1>0, <1>1, <1>2, <1>3, <1>4, <1>5, <1>6, StillRunning

(* What the parser says of the line that it gets, replaced or not.          *)
LEMMA ParsedLine ==
    ASSUME LinesInv, ReadInv, pc = "parse", NEW sum, sum = Summary(Unscanned)
    PROVE  /\ "help" \in ParseOutcomes(args) => AsksForHelp(sum)
           /\ "usage" \in ParseOutcomes(args) =>
                 \/ HelpScan(raw) = NoHelp /\ Unscanned = args
                 \/ sum.end = "noTopic" /\ ~QuietScan(args)
<1>1. CASE HelpScan(raw) = NoHelp
  <2>1. Unscanned = args
    BY <1>1 DEF Unscanned
  <2>2. "help" \in ParseOutcomes(args) => AsksForHelp(Reading(args))
    BY DEF ParseOutcomes, AsksForHelp
  <2>3. QED
    BY <1>1, <2>1, <2>2, SummaryAsks
<1>2. CASE HelpScan(raw) # NoHelp
  <2>1. Unscanned = raw /\ args = HelpScan(raw) /\ Line(raw) /\ Line(args)
    BY <1>2 DEF Unscanned, ReadInv, LinesInv
  <2>2. \/ AsksForHelp(Reading(raw)) /\ ParseOutcomes(args) = {"help"}
        \/ /\ Reading(raw).end = "noTopic" /\ ParseOutcomes(args) = {"usage"}
           /\ Heard(Reading(args)) = {} /\ Reading(args).end = "noTopic"
    BY <1>2, <2>1, HelpAgrees
  <2>3. CASE AsksForHelp(Reading(raw)) /\ ParseOutcomes(args) = {"help"}
    BY <2>1, <2>3, SummaryAsks
  <2>4. ASSUME Reading(raw).end = "noTopic", ParseOutcomes(args) = {"usage"},
               Heard(Reading(args)) = {}, Reading(args).end = "noTopic"
        PROVE  sum.end = "noTopic" /\ ~QuietScan(args)
    <3>1. Summary(args).heard = {} /\ ~Summary(args).execHelp
      BY <2>4 DEF Summary
    <3>2. ~QuietScan(args)
      BY <2>1, <3>1, SummaryQuiet
    <3>3. QED
      BY <2>1, <2>4, <3>2, SummaryAsks
  <2>5. QED
    BY <2>2, <2>3, <2>4
<1>3. QED
  BY <1>1, <1>2

LEMMA HelpStep ==
    ASSUME LinesInv, ReadInv, HelpIsRight, [Next]_vars
    PROVE  HelpIsRight'
<1> USE DEF Fail, Exit
<1>0. SUFFICES ASSUME pc' = "exited"  PROVE HelpIsRight'
  BY DEF HelpIsRight, HelpNeedsNothing, HelpIsAsked
<1>1. ASSUME shown' # "stdout", rawRead'.dash \/ ~AsksForHelp(rawRead')
      PROVE  HelpIsRight'
  BY <1>1 DEF HelpIsRight, HelpNeedsNothing, HelpIsAsked
<1>2. CASE ExpansionFails
  <2>1. shown' # "stdout" /\ rawRead' = Summary(raw) /\ HelpScan(raw) = NoHelp
        /\ Line(raw)
    BY <1>2 DEF ExpansionFails, LinesInv
  <2>2. rawRead'.dash \/ ~AsksForHelp(rawRead')
    BY <2>1, HelpAgrees, SummaryAsks
  <2>3. QED
    BY <1>1, <2>1, <2>2
<1>3. CASE ParseShows
  <2>1. pc = "parse" /\ "help" \in ParseOutcomes(args) /\ code' = 0
        /\ shown' = "stdout" /\ lastRead' = Summary(Unscanned)
    BY <1>3 DEF ParseShows, Forget
  <2>2. AsksForHelp(lastRead')
    BY <2>1, ParsedLine
  <2>3. QED
    BY <2>1, <2>2 DEF HelpIsRight, HelpNeedsNothing, HelpIsAsked
<1>4. CASE ParseRefuses
  <2>1. shown' # "stdout" /\ rawRead' = Summary(raw) /\ Line(raw)
        /\ "usage" \in ParseOutcomes(args) /\ pc = "parse"
        /\ (HelpScan(raw) # NoHelp => args = HelpScan(raw))
    BY <1>4 DEF ParseRefuses, LinesInv, ReadInv
  <2>2. Reading(raw).dash \/ ~AsksForHelp(Reading(raw))
    <3>1. CASE HelpScan(raw) = NoHelp
      BY <2>1, <3>1, HelpAgrees
    <3>2. CASE HelpScan(raw) # NoHelp
      <4>1. ParseOutcomes(args) # {"help"}
        BY <2>1
      <4>2. Reading(raw).end = "noTopic"
        BY <2>1, <3>2, <4>1, HelpAgrees
      <4>3. QED
        BY <4>2 DEF AsksForHelp
    <3>3. QED
      BY <3>1, <3>2
  <2>3. QED
    BY <1>1, <2>1, <2>2, SummaryAsks
<1>5. CASE RunRefuses \/ ProbeRefuses \/ ProbeFails \/ ReportTooSlow \/ Report
  <2>1. shown' # "stdout" /\ pc \in {"run", "probe", "report"} /\ UNCHANGED rawRead
    BY <1>5 DEF RunRefuses, ProbeRefuses, ProbeFails, ReportTooSlow, Report, lineVars
  <2>2. QED
    BY <1>1, <2>1 DEF ReadInv
<1>6. CASE UNCHANGED vars
  BY <1>6 DEF vars, lineVars, HelpIsRight, HelpNeedsNothing, HelpIsAsked, AsksForHelp
<1>7. QED
  BY <1>0, <1>2, <1>3, <1>4, <1>5, <1>6, StillRunning

LEMMA OutputStep ==
    ASSUME LinesInv, OtherTypes, ReadInv, SpanInv, OutputIsAsked, [Next]_vars
    PROVE  OutputIsAsked'
<1> USE DEF Fail, Exit
<1>0. SUFFICES ASSUME pc' = "exited"  PROVE OutputIsAsked'
  BY DEF OutputIsAsked, SilenceIsAsked, QuietIsHeard, SuccessIsSilent
(* A failure before the probe: what the scanner hears decides.              *)
<1>1. ASSUME NEW words, Line(words), lastRead' = Summary(words), code' # 0,
             shown' = IF QuietScan(words) THEN "nothing" ELSE "stderr"
      PROVE  OutputIsAsked'
  <2>1. SilenceIsAsked' /\ QuietIsHeard'
    BY <1>1, SummaryQuiet DEF SilenceIsAsked, QuietIsHeard
  <2>2. QED
    BY <1>1, <2>1 DEF OutputIsAsked, SuccessIsSilent
(* A failure after it: what clap heard decides.                             *)
<1>2. ASSUME cli = lastRead.heard, UNCHANGED lastRead, code' # 0,
             shown' = IF "quiet" \in cli THEN "nothing" ELSE "stderr"
      PROVE  OutputIsAsked'
  BY <1>2 DEF OutputIsAsked, SilenceIsAsked, QuietIsHeard, SuccessIsSilent
<1>3. CASE ExpansionFails
  <2>1. Line(Partial(raw, env))
    BY PartialIsLine DEF LinesInv
  <2>2. QED
    BY <1>1, <1>3, <2>1 DEF ExpansionFails, Forget
<1>4. CASE ParseShows
  <2>1. code' = 0 /\ outcome' = "none"
    BY <1>4 DEF ParseShows, SpanInv, probeVars
  <2>2. QED
    BY <2>1 DEF OutputIsAsked, SilenceIsAsked, QuietIsHeard, SuccessIsSilent
<1>5. CASE ParseRefuses
  <2>1. /\ pc = "parse" /\ "usage" \in ParseOutcomes(args) /\ Line(args)
        /\ lastRead' = Summary(Unscanned) /\ code' # 0
        /\ shown' = IF QuietScan(args) THEN "nothing" ELSE "stderr"
    BY <1>5 DEF ParseRefuses, Forget, LinesInv
  <2>2. CASE Unscanned = args
    BY <1>1, <2>1, <2>2
  <2>3. CASE lastRead'.end = "noTopic" /\ ~QuietScan(args)
    BY <2>1, <2>3 DEF OutputIsAsked, SilenceIsAsked, QuietIsHeard, SuccessIsSilent
  <2>4. QED
    BY <2>1, <2>2, <2>3, ParsedLine
<1>6. CASE RunRefuses \/ ProbeRefuses \/ ReportTooSlow
  BY <1>2, <1>6 DEF RunRefuses, ProbeRefuses, ReportTooSlow, ReadInv, ExitCode,
                    lineVars
<1>7. CASE ProbeFails
  <2>1. PICK o \in DOMAIN ExitCode : Fail(ExitCode[o], "quiet" \in cli)
    BY <1>7 DEF ProbeFails
  <2>2. code' # 0 /\ shown' = IF "quiet" \in cli THEN "nothing" ELSE "stderr"
    BY <2>1 DEF ExitCode
  <2>3. QED
    BY <1>2, <1>7, <2>2 DEF ProbeFails, ReadInv, lineVars
<1>8. CASE Report
  <2>1. cli \in SUBSET {"quiet", "verbose"} /\ UNCHANGED cli /\ code' = 0
        /\ shown' = IF "verbose" \in cli /\ "quiet" \notin cli THEN "stderr"
                    ELSE "nothing"
    BY <1>8 DEF Report, OtherTypes
  <2>2. "verbose" \in cli /\ "quiet" \notin cli <=> cli = {"verbose"}
    BY <2>1
  <2>3. QED
    BY <2>1, <2>2 DEF OutputIsAsked, SilenceIsAsked, QuietIsHeard, SuccessIsSilent
<1>9. CASE UNCHANGED vars
  BY <1>9 DEF vars, lineVars, probeVars, OutputIsAsked, SilenceIsAsked, QuietIsHeard,
              SuccessIsSilent
<1>10. QED
  BY <1>0, <1>3, <1>4, <1>5, <1>6, <1>7, <1>8, <1>9, StillRunning

-----------------------------------------------------------------------------
LEMMA Inductive == IInv /\ [Next]_vars => IInv'
<1> SUFFICES ASSUME IInv, [Next]_vars  PROVE IInv'
  OBVIOUS
<1>1. LinesInv' /\ ReadInv'
  BY LinesStep, ReadStep DEF IInv
<1>2. OtherTypes' /\ SpanInv'
  BY TypesStep, SpanStep DEF IInv
<1>3. ExitCodeIsTrue' /\ HelpIsRight' /\ OutputIsAsked'
  BY ExitCodeStep, HelpStep, OutputStep DEF IInv
<1>4. QED
  BY <1>1, <1>2, <1>3 DEF IInv

(* On every line, in every environment and with every probe that keeps its  *)
(* contract the runner stays within its invariant.                          *)
THEOREM InvariantHolds == Spec => []IInv
BY InitInv, Inductive, PTL DEF Spec

(* Every variable of the runner keeps its type.                             *)
THEOREM TypeCorrect == Spec => []TypeOK
<1>1. IInv => TypeOK
  BY DEF IInv, LinesInv, OtherTypes, TypeOK
<1>2. QED
  BY InvariantHolds, <1>1, PTL

(* Whatever the line: a failure is silent only if --quiet was given as an   *)
(* option, a --quiet that clap would have read is heard even where the line *)
(* does not expand or parse, and a success says nothing unasked.            *)
THEOREM OutputHolds == Spec => []OutputIsAsked
<1>1. IInv => OutputIsAsked
  BY DEF IInv
<1>2. QED
  BY InvariantHolds, <1>1, PTL

(* Whatever the line: who asks for help or the version gets it, and nobody  *)
(* else does.                                                               *)
THEOREM HelpHolds == Spec => []HelpIsRight
<1>1. IInv => HelpIsRight
  BY DEF IInv
<1>2. QED
  BY InvariantHolds, <1>1, PTL

(* The exit code tells the truth about the probe and its latency: 0, short  *)
(* of help, only after a healthy probe within --max-latency, 1 only after   *)
(* one that began and failed, timed out or was too slow, and 3 for every    *)
(* one that never began, a command that cannot be started among them.       *)
THEOREM ExitCodeHolds == Spec => []ExitCodeIsTrue
<1>1. IInv => ExitCodeIsTrue
  BY DEF IInv
<1>2. QED
  BY InvariantHolds, <1>1, PTL
=============================================================================
