---------------------------- MODULE RemoteProofs ----------------------------
(***************************************************************************)
(* Proofs that the gRPC and the HTTP probe keep their promises, for every   *)
(* set of hosts, authorities and files, however the files are rotated and   *)
(* whatever the network answers.                                            *)
(***************************************************************************)
EXTENDS RemoteProperties, Integers, SequenceTheorems, TLAPS

-----------------------------------------------------------------------------
(* The inductive invariant *)

(* What may be left of the files to read, and which files those are. *)
Rests == {<<>>, <<"ca">>, <<"key">>, <<"key", "ca">>, <<"cert", "key">>,
          <<"cert", "key", "ca">>}

CertPending == todo \in {<<"cert", "key">>, <<"cert", "key", "ca">>}
KeyPending  == CertPending \/ todo \in {<<"key">>, <<"key", "ca">>}
CaPending   == todo \in {<<"ca">>, <<"key", "ca">>, <<"cert", "key", "ca">>}

(* What the proofs need of the types. *)
Fields == [cert : Seq(Parties), key : Parties \cup {None}, ca : Seq(Parties)]

TypesInv ==
    /\ check \in CheckType
    /\ bundled \in SUBSET Parties
    /\ prompt \in BOOLEAN
    /\ files \in [Paths -> Content]
    /\ seen \in [Paths -> SUBSET Content]
    /\ \A path \in Paths : files[path] \in seen[path]
    /\ todo \in Rests
    /\ loaded \in Fields
    /\ now \in Nat /\ deadline \in Nat
    /\ pc \in {"start", "inspect", "open", "blocked", "connect", "handshake",
               "send", "answer", "done"}
    /\ verdict \in {"none", "healthy", "failure", "invalid", "timeout"}
    /\ verdict = "none" <=> pc # "done"

Checked == pc \notin {"start", "done"} \/ Begun

(* Nothing is read, and nobody connected to, before the options are known   *)
(* to be valid; each file is to be read only if its option is given.        *)
ValidInv ==
    /\ Checked => ValidCheck
    /\ pc \in {"open", "blocked"} => todo # <<>>
    /\ pc = "start" => todo = <<>> /\ loaded = NothingLoaded
    /\ todo # <<>> => ValidCheck /\ check.tls
    /\ CertPending => check.opts.cert # None
    /\ KeyPending => check.opts.key # None
    /\ CaPending => check.opts.ca # None

(* The certificates were in some version of the regular file at a path. *)
FoundAt(path, certs) ==
    /\ path \in Paths
    /\ \E v \in seen[path] :
          v.sort = "regular" /\ v.certs = certs /\ v.certs # Garbled

KeyFoundAt(path, key) ==
    /\ path \in Paths
    /\ \E v \in seen[path] : v.sort = "regular" /\ v.key = key

(* Whatever was loaded is in some version of the file of its option.        *)
SourceInv ==
    /\ loaded.cert # <<>> => FoundAt(check.opts.cert, loaded.cert)
    /\ loaded.key # None => KeyFoundAt(check.opts.key, loaded.key)
    /\ loaded.ca # <<>> => FoundAt(check.opts.ca, loaded.ca)

(* Whatever is asked for is loaded or still to be loaded. *)
WholeInv ==
    /\ Checked =>
          /\ check.opts.cert # None => loaded.cert # <<>> \/ CertPending
          /\ check.opts.key # None => loaded.key # None \/ KeyPending
          /\ check.opts.ca # None => loaded.ca # <<>> \/ CaPending
    /\ Begun => todo = <<>> /\ Paired(loaded)

(* A connection that a request may be sent over. *)
Fit(c) ==
    /\ c.to = check.host
    /\ check.tls =>
          /\ c.secured
          /\ AcceptsPeer(check.opts, Trusted(loaded, bundled), check.host, c.peer)
          /\ c.client = loaded.key

ConnInv ==
    /\ pc = "handshake" => conn.to = check.host
    /\ pc = "send" => Fit(conn)
    /\ request # None => pc \in {"answer", "done"} /\ Begun /\ Fit(request.over)

RemoteInv == TypesInv /\ ValidInv /\ SourceInv /\ WholeInv /\ ConnInv

-----------------------------------------------------------------------------
(* The files to read *)

(* The lists of files differ by their first label or by their length. *)
LEMMA Heads ==
    /\ Head(<<"ca">>) = "ca"
    /\ Head(<<"key">>) = "key"
    /\ Head(<<"key", "ca">>) = "key"
    /\ Head(<<"cert", "key">>) = "cert"
    /\ Head(<<"cert", "key", "ca">>) = "cert"
OBVIOUS

LEMMA Tails ==
    /\ Tail(<<"ca">>) = <<>>
    /\ Tail(<<"key">>) = <<>>
    /\ Tail(<<"key", "ca">>) = <<"ca">>
    /\ Tail(<<"cert", "key">>) = <<"key">>
    /\ Tail(<<"cert", "key", "ca">>) = <<"key", "ca">>
OBVIOUS

LEMMA Lengths ==
    /\ Len(<<>>) = 0
    /\ Len(<<"ca">>) = 1
    /\ Len(<<"key">>) = 1
    /\ Len(<<"key", "ca">>) = 2
    /\ Len(<<"cert", "key">>) = 2
    /\ Len(<<"cert", "key", "ca">>) = 3
OBVIOUS

LEMMA Rest ==
    ASSUME TypesInv, todo # <<>>
    PROVE  \/ /\ Head(todo) = "cert" /\ CertPending
              /\ \/ todo = <<"cert", "key">> /\ Tail(todo) = <<"key">>
                 \/ /\ todo = <<"cert", "key", "ca">>
                    /\ Tail(todo) = <<"key", "ca">>
           \/ /\ Head(todo) = "key" /\ KeyPending /\ ~CertPending
              /\ \/ todo = <<"key">> /\ Tail(todo) = <<>>
                 \/ todo = <<"key", "ca">> /\ Tail(todo) = <<"ca">>
           \/ /\ Head(todo) = "ca" /\ CaPending /\ ~KeyPending
              /\ todo = <<"ca">> /\ Tail(todo) = <<>>
<1> USE Heads, Tails, Lengths
<1>1. CASE todo = <<"ca">>
  BY <1>1 DEF CertPending, KeyPending, CaPending
<1>2. CASE todo = <<"key">>
  BY <1>2 DEF CertPending, KeyPending
<1>3. CASE todo = <<"key", "ca">>
  BY <1>3 DEF CertPending, KeyPending
<1>4. CASE todo = <<"cert", "key">>
  BY <1>4 DEF CertPending
<1>5. CASE todo = <<"cert", "key", "ca">>
  BY <1>5 DEF CertPending
<1>6. QED
  BY <1>1, <1>2, <1>3, <1>4, <1>5 DEF TypesInv, Rests

LEMMA RestIsRest ==
    ASSUME TypesInv, todo # <<>>
    PROVE  Tail(todo) \in Rests
BY Rest DEF Rests

LEMMA AllToLoad ==
    ASSUME NEW opts
    PROVE  /\ Loads(opts) \in Rests
           /\ Loads(opts) \in {<<"cert", "key">>, <<"cert", "key", "ca">>}
                 <=> opts.cert # None
           /\ Loads(opts) \in {<<"ca">>, <<"cert", "key", "ca">>}
                 <=> opts.ca # None /\ ~opts.insecure
           /\ Loads(opts) \notin {<<"key">>, <<"key", "ca">>}
<1> DEFINE ca == opts.ca # None /\ ~opts.insecure
<1> USE Heads, Lengths
<1>0. /\ <<"cert", "key">> \o <<"ca">> = <<"cert", "key", "ca">>
      /\ <<"cert", "key">> \o <<>> = <<"cert", "key">>
      /\ <<>> \o <<"ca">> = <<"ca">>
      /\ <<>> \o <<>> = <<>>
  <2>1. <<"cert", "key">> \o <<"ca">> = <<"cert", "key", "ca">>
    <3> DEFINE s == <<"cert", "key">> \o <<"ca">>
               t == <<"cert", "key", "ca">>
    <3>1. s \in Seq({"cert", "key", "ca"})
      <4>1. <<"cert", "key">> \in Seq({"cert", "key", "ca"}) /\ <<"ca">> \in Seq({"cert", "key", "ca"})
        OBVIOUS
      <4>2. QED
        BY <4>1, ConcatProperties
    <3>2. t \in Seq({"cert", "key", "ca"}) /\ Len(s) = 3 /\ Len(t) = 3
      OBVIOUS
    <3>3. s[1] = t[1]
      OBVIOUS
    <3>4. s[2] = t[2]
      OBVIOUS
    <3>5. s[3] = t[3]
      OBVIOUS
    <3> HIDE DEF s, t
    <3>6. \A i \in 1 .. 3 : s[i] = t[i]
      BY <3>3, <3>4, <3>5
    <3>7. s = t
      BY <3>1, <3>2, <3>6, SeqEqual
    <3>8. QED
      BY <3>7 DEF s, t
  <2>2. <<"cert", "key">> \o <<>> = <<"cert", "key">>
    OBVIOUS
  <2>3. <<>> \o <<"ca">> = <<"ca">>
    OBVIOUS
  <2>4. <<>> \o <<>> = <<>>
    OBVIOUS
  <2>5. QED
    BY <2>1, <2>2, <2>3, <2>4
<1>1. CASE opts.cert # None /\ ca
  <2>1. Loads(opts) = <<"cert", "key", "ca">>
    BY <1>0, <1>1 DEF Loads
  <2>2. QED
    BY <1>1, <2>1 DEF Rests
<1>2. CASE opts.cert # None /\ ~ca
  <2>1. Loads(opts) = <<"cert", "key">>
    BY <1>0, <1>2 DEF Loads
  <2>2. QED
    BY <1>2, <2>1 DEF Rests
<1>3. CASE opts.cert = None /\ ca
  <2>1. Loads(opts) = <<"ca">>
    BY <1>0, <1>3 DEF Loads
  <2>2. QED
    BY <1>3, <2>1 DEF Rests
<1>4. CASE opts.cert = None /\ ~ca
  <2>1. Loads(opts) = <<>>
    BY <1>0, <1>4 DEF Loads
  <2>2. QED
    BY <1>4, <2>1 DEF Rests
<1>5. QED
  BY <1>1, <1>2, <1>3, <1>4

(* Whatever option a file is read for, it is given and names a path.        *)
LEMMA PathIsOne ==
    ASSUME TypesInv, ValidInv, todo # <<>>
    PROVE  Path \in Paths /\ check.tls
<1>1. ValidTlsOptions(check.opts, bundled) /\ check.tls
  BY DEF ValidInv, ValidCheck
<1>2. check.opts \in TlsArgs
  BY DEF TypesInv, CheckType
<1>3. \A label \in {"cert", "key", "ca"} :
          check.opts[label] # None => check.opts[label] \in Paths
  BY <1>1, <1>2 DEF ValidTlsOptions, TlsArgs
<1>4. Head(todo) \in {"cert", "key", "ca"} /\ check.opts[Head(todo)] # None
  BY Rest DEF ValidInv
<1>5. QED
  BY <1>1, <1>3, <1>4 DEF Path

(* What a file that holds what it should does to what was loaded. *)
LEMMA LoadEffect ==
    ASSUME TypesInv, todo # <<>>, NEW content \in Content,
           Holds(Head(todo), content), Load(content)
    PROVE  /\ todo' = Tail(todo) /\ pc' = "inspect" /\ UNCHANGED verdict
           /\ loaded' \in Fields
           /\ \/ /\ Head(todo) = "cert"
                 /\ content.certs # Garbled
                 /\ loaded'.cert = content.certs /\ loaded'.cert # <<>>
                 /\ loaded'.key = loaded.key /\ loaded'.ca = loaded.ca
              \/ /\ Head(todo) = "key"
                 /\ loaded'.key = content.key /\ loaded'.key # None
                 /\ loaded'.cert = loaded.cert /\ loaded'.ca = loaded.ca
              \/ /\ Head(todo) = "ca"
                 /\ content.certs # Garbled
                 /\ loaded'.ca = content.certs /\ loaded'.ca # <<>>
                 /\ loaded'.cert = loaded.cert /\ loaded'.key = loaded.key
<1>1. /\ todo' = Tail(todo) /\ pc' = "inspect" /\ UNCHANGED verdict
      /\ loaded' = [loaded EXCEPT ![Head(todo)] = Wanted(Head(todo), content)]
  BY DEF Load
<1>2. loaded \in Fields
  BY DEF TypesInv
<1>3. CASE Head(todo) = "cert"
  <2>1. content.certs \in Seq(Parties) /\ content.certs \notin {Garbled, <<>>}
    BY <1>3 DEF Holds, Content
  <2>2. loaded' = [loaded EXCEPT !.cert = content.certs]
    BY <1>1, <1>3 DEF Wanted
  <2>3. QED
    BY <1>1, <1>2, <1>3, <2>1, <2>2 DEF Fields
<1>4. CASE Head(todo) = "key"
  <2>1. content.key \in Parties /\ content.key # None
    BY <1>4, NoneAssumption DEF Holds, Content
  <2>2. loaded' = [loaded EXCEPT !.key = content.key]
    BY <1>1, <1>4 DEF Wanted
  <2>3. QED
    BY <1>1, <1>2, <1>4, <2>1, <2>2 DEF Fields
<1>5. CASE Head(todo) = "ca"
  <2>1. content.certs \in Seq(Parties) /\ content.certs \notin {Garbled, <<>>}
    BY <1>5 DEF Holds, Content
  <2>2. loaded' = [loaded EXCEPT !.ca = content.certs]
    BY <1>1, <1>5 DEF Wanted
  <2>3. QED
    BY <1>1, <1>2, <1>5, <2>1, <2>2 DEF Fields
<1>6. QED
  BY <1>3, <1>4, <1>5, Rest

-----------------------------------------------------------------------------
(* Types *)

LEMMA TypesInit == Init => TypesInv
<1> SUFFICES ASSUME Init PROVE TypesInv
  OBVIOUS
<1>1. check \in CheckType /\ bundled \in SUBSET Parties /\ files \in [Paths -> Content]
  BY ChecksAssumption, FilesAssumption DEF Init
<1>2. /\ seen \in [Paths -> SUBSET Content]
      /\ \A path \in Paths : files[path] \in seen[path]
  BY <1>1 DEF Init
<1>3. loaded \in Fields
  BY DEF Init, NothingLoaded, Fields
<1>4. QED
  BY <1>1, <1>2, <1>3 DEF Init, TypesInv, Rests

LEMMA TypesStep ==
    ASSUME TypesInv, ValidInv, [Next]_vars
    PROVE  TypesInv'
<1>0. Timeout \in Nat
  BY TimesAssumption
<1> USE DEF TypesInv
<1>1. CASE Validate
  <2>1. todo' \in Rests
    BY <1>1, AllToLoad DEF Validate, Rests
  <2>2. QED
    BY <1>1, <2>1 DEF Validate, Return, given, fileVars
<1>2. CASE Inspect
  BY <1>2 DEF Inspect, Return, given, fileVars
<1>3. ASSUME NEW content \in Content, Load(content), pc \in {"open", "blocked"},
             UNCHANGED <<given, files, conn, request, deadline, now>>,
             seen' \in [Paths -> SUBSET Content],
             \A path \in Paths : files[path] \in seen'[path]
      PROVE  TypesInv'
  <2>1. CASE Holds(Head(todo), content)
    BY <1>3, <2>1, LoadEffect, RestIsRest DEF ValidInv, given
  <2>2. CASE ~Holds(Head(todo), content)
    BY <1>3, <2>2 DEF Load, Return, given
  <2>3. QED
    BY <2>1, <2>2
<1>4. CASE Open
  <2>1. CASE files[Path].sort = "regular" /\ Load(files[Path])
    <3>1. files[Path] \in Content
      BY <1>4, PathIsOne DEF Open, ValidInv
    <3>2. QED
      BY <1>3, <1>4, <2>1, <3>1 DEF Open, fileVars
  <2>2. CASE ~(files[Path].sort = "regular" /\ Load(files[Path]))
    BY <1>4, <2>2 DEF Open, Return, given, fileVars
  <2>3. QED
    BY <2>1, <2>2
<1>5. CASE Begin
  BY <1>0, <1>5 DEF Begin, Return, given, fileVars
<1>6. CASE Connect \/ Reconnect \/ Send
  BY <1>6 DEF Connect, Reconnect, Send, given, fileVars
<1>7. CASE NetworkFails \/ TimesOut \/ \E good \in BOOLEAN : Answer(good)
  BY <1>7 DEF NetworkFails, TimesOut, Answer, Return, Networking, given, fileVars
<1>8. ASSUME NEW peer \in Peers, Handshake(peer)  PROVE TypesInv'
  BY <1>8 DEF Handshake, Return, given, fileVars
<1>9. ASSUME NEW content \in Rotated, NEW p \in Paths, ChangeFile(p, content)
      PROVE  TypesInv'
  <2>1. content \in Content
    BY FilesAssumption
  <2>2. /\ files' \in [Paths -> Content] /\ seen' \in [Paths -> SUBSET Content]
        /\ \A path \in Paths : files'[path] \in seen'[path]
    BY <1>9, <2>1 DEF ChangeFile
  <2>3. QED
    BY <1>9, <2>2 DEF ChangeFile, given
<1>10. ASSUME NEW content \in Rotated, ServePipe(content)  PROVE TypesInv'
  <2>1. content \in Content
    BY FilesAssumption
  <2>2. /\ seen' \in [Paths -> SUBSET Content]
        /\ \A path \in Paths : files[path] \in seen'[path]
    BY <1>10, <2>1 DEF ServePipe
  <2>3. QED
    BY <1>3, <1>10, <2>1, <2>2 DEF ServePipe
<1>11. CASE Tick
  BY <1>11 DEF Tick, given, fileVars
<1>12. CASE UNCHANGED vars
  BY <1>12 DEF vars, given, fileVars
<1>13. QED
  BY <1>1, <1>2, <1>4, <1>5, <1>6, <1>7, <1>8, <1>9, <1>10, <1>11, <1>12
     DEF Next, ProbeStep, NetworkStep, FileStep, Terminated

-----------------------------------------------------------------------------
(* What each kind of step leaves alone *)

(* Once it has begun, the probe changes neither the files nor what it read. *)
Unread == UNCHANGED <<given, files, seen, todo, loaded>>

LEMMA LateStep ==
    ASSUME NetworkStep \/ Send \/ TimesOut \/ Tick
    PROVE  /\ Unread /\ UNCHANGED changes
           /\ ~Tick => /\ Networking
                       /\ Networking' \/ verdict' \in {"healthy", "failure",
                                                       "timeout"}
           /\ Tick => UNCHANGED <<pc, verdict, conn, request>>
<1> USE DEF Unread, Networking, given, fileVars, Return
<1>1. CASE Connect \/ Reconnect \/ NetworkFails \/ TimesOut \/ Send
  BY <1>1 DEF Connect, Reconnect, NetworkFails, TimesOut, Send, Tick
<1>2. CASE \E peer \in Peers : Handshake(peer)
  BY <1>2 DEF Handshake, Tick
<1>3. CASE \E good \in BOOLEAN : Answer(good)
  BY <1>3 DEF Answer, Tick
<1>4. CASE Tick
  BY <1>4 DEF Tick
<1>5. QED
  BY <1>1, <1>2, <1>3, <1>4 DEF NetworkStep

-----------------------------------------------------------------------------
(* The options *)

LEMMA ValidStep ==
    ASSUME TypesInv, ValidInv, [Next]_vars
    PROVE  ValidInv'
<1> USE DEF Begun, Checked, Networking, ValidCheck, CertPending, KeyPending,
            CaPending
<1>1. CASE Validate
  <2>1. CASE ~ValidCheck
    <3>1. UNCHANGED <<given, loaded, todo>> /\ pc' = "done" /\ verdict' = "invalid"
      BY <1>1, <2>1 DEF Validate, Return
    <3>2. todo = <<>>
      BY <1>1 DEF Validate, ValidInv
    <3>3. QED
      BY <3>1, <3>2, Heads, Lengths DEF ValidInv, given
  <2>2. CASE ValidCheck /\ ~check.tls
    <3>1. UNCHANGED <<given, loaded>> /\ todo' = <<>> /\ pc' = "inspect"
      BY <1>1, <2>2 DEF Validate
    <3>2. QED
      BY <2>2, <3>1, Lengths DEF ValidInv, given
  <2>3. CASE ValidCheck /\ check.tls
    <3>1. /\ UNCHANGED <<given, loaded>> /\ pc' = "inspect"
          /\ todo' = Loads(check.opts)
      BY <1>1, <2>3 DEF Validate
    <3>2. check.opts.cert # None => check.opts.key # None
      BY <2>3 DEF ValidTlsOptions
    <3>3. /\ CertPending' => check.opts.cert # None
          /\ KeyPending' => check.opts.cert # None
          /\ CaPending' => check.opts.ca # None
      BY <3>1, AllToLoad
    <3>4. QED
      BY <2>3, <3>1, <3>2, <3>3 DEF ValidInv, given
  <2>4. QED
    BY <2>1, <2>2, <2>3
<1>2. ASSUME NEW content \in Content, Load(content), pc \in {"open", "blocked"},
             UNCHANGED given
      PROVE  ValidInv'
  <2>1. CASE Holds(Head(todo), content)
    <3>1. todo # <<>>
      BY <1>2 DEF ValidInv
    <3>2. todo' = Tail(todo) /\ pc' = "inspect" /\ UNCHANGED verdict
      BY <1>2, <2>1, <3>1, LoadEffect
    <3>3. /\ CertPending' => FALSE
          /\ KeyPending' => KeyPending
          /\ CaPending' => CaPending
      <4> USE Heads, Lengths
      <4>1. CASE Head(todo) = "cert"
        <5>1. \/ todo' = <<"key">>
              \/ todo' = <<"key", "ca">> /\ todo = <<"cert", "key", "ca">>
          BY <3>1, <3>2, <4>1, Rest
        <5>2. QED
          BY <3>1, <4>1, <5>1, Rest
      <4>2. CASE Head(todo) = "key"
        <5>1. \/ todo' = <<>>
              \/ todo' = <<"ca">> /\ todo = <<"key", "ca">>
          BY <3>1, <3>2, <4>2, Rest
        <5>2. QED
          BY <5>1
      <4>3. CASE Head(todo) = "ca"
        <5>1. todo' = <<>>
          BY <3>1, <3>2, <4>3, Rest
        <5>2. QED
          BY <5>1
      <4>4. QED
        BY <3>1, <4>1, <4>2, <4>3, Rest
    <3>4. QED
      BY <1>2, <3>1, <3>2, <3>3 DEF ValidInv, given
  <2>2. CASE ~Holds(Head(todo), content)
    <3>1. UNCHANGED <<loaded, todo>> /\ pc' = "done" /\ verdict' = "invalid"
      BY <1>2, <2>2 DEF Load, Return
    <3>2. QED
      BY <1>2, <3>1 DEF ValidInv, given
  <2>3. QED
    BY <2>1, <2>2
<1>3. CASE Open
  <2>1. CASE files[Path].sort = "regular" /\ Load(files[Path])
    <3>1. files[Path] \in Content
      BY <1>3, PathIsOne DEF Open, ValidInv, TypesInv
    <3>2. QED
      BY <1>2, <1>3, <2>1, <3>1 DEF Open
  <2>2. CASE ~(files[Path].sort = "regular" /\ Load(files[Path]))
    <3>1. /\ UNCHANGED <<given, loaded, todo>>
          /\ \/ pc' = "blocked" /\ UNCHANGED verdict
             \/ pc' = "done" /\ verdict' = "invalid"
      BY <1>3, <2>2 DEF Open, Return
    <3>2. QED
      BY <1>3, <3>1 DEF ValidInv, given, Open
  <2>3. QED
    BY <2>1, <2>2
<1>4. CASE Inspect \/ Begin
  <2>1. /\ UNCHANGED <<given, loaded, todo>> /\ pc = "inspect"
        /\ pc' \in {"open", "connect"} \/ (pc' = "done" /\ verdict' = "invalid")
        /\ pc' = "open" => todo # <<>>
    BY <1>4 DEF Inspect, Begin, Return
  <2>2. QED
    BY <2>1 DEF ValidInv, given
<1>5. CASE NetworkStep \/ Send \/ TimesOut \/ Tick
  <2>1. UNCHANGED <<given, loaded, todo>>
    BY <1>5, LateStep DEF Unread
  <2>2. CASE Tick
    BY <2>1, <2>2 DEF Tick, ValidInv, given
  <2>3. CASE ~Tick
    <3>1. /\ pc \in {"connect", "handshake", "send", "answer"}
          /\ pc' \notin {"start", "open", "blocked"}
      BY <1>5, <2>3, LateStep DEF NetworkStep, Connect, Reconnect, NetworkFails,
         Handshake, Answer, Send, TimesOut, Return
    <3>2. QED
      BY <2>1, <3>1 DEF ValidInv, given
  <2>4. QED
    BY <2>2, <2>3
<1>6. CASE FileStep
  <2>1. ASSUME NEW content \in Rotated, ServePipe(content)  PROVE ValidInv'
    BY <1>2, <2>1, FilesAssumption DEF ServePipe
  <2>2. ASSUME NEW content \in Rotated, NEW p \in Paths, ChangeFile(p, content)
        PROVE  ValidInv'
    BY <2>2 DEF ChangeFile, ValidInv, given
  <2>3. QED
    BY <1>6, <2>1, <2>2 DEF FileStep
<1>7. CASE UNCHANGED vars
  BY <1>7 DEF vars, ValidInv, given
<1>8. QED
  BY <1>1, <1>3, <1>4, <1>5, <1>6, <1>7 DEF Next, ProbeStep, Terminated

-----------------------------------------------------------------------------
(* Where what was loaded comes from *)

LEMMA SourceStep ==
    ASSUME TypesInv, ValidInv, SourceInv, [Next]_vars
    PROVE  SourceInv'
<1> USE DEF FoundAt, KeyFoundAt
<1>1. ASSUME UNCHANGED <<given, loaded>>,
             \A path \in Paths : seen[path] \subseteq seen'[path]
      PROVE  SourceInv'
  BY <1>1 DEF SourceInv, given
<1>2. ASSUME NEW content \in Content, content.sort = "regular", Load(content),
             UNCHANGED given, pc \in {"open", "blocked"},
             \A path \in Paths : seen[path] \subseteq seen'[path],
             content \in seen'[Path]
      PROVE  SourceInv'
  <2>1. CASE Holds(Head(todo), content)
    <3>0. todo # <<>>
      BY <1>2 DEF ValidInv
    <3>1. Path \in Paths
      BY <3>0, PathIsOne
    <3>2. CASE Head(todo) = "cert"
      <4>1. Path = check.opts.cert
        BY <3>2 DEF Path
      <4>2. /\ loaded'.cert = content.certs /\ content.certs # Garbled
            /\ loaded'.key = loaded.key /\ loaded'.ca = loaded.ca
        BY <1>2, <2>1, <3>0, <3>2, LoadEffect
      <4>3. QED
        BY <1>2, <3>1, <4>1, <4>2 DEF SourceInv, given
    <3>3. CASE Head(todo) = "key"
      <4>1. Path = check.opts.key
        BY <3>3 DEF Path
      <4>2. /\ loaded'.key = content.key
            /\ loaded'.cert = loaded.cert /\ loaded'.ca = loaded.ca
        BY <1>2, <2>1, <3>0, <3>3, LoadEffect
      <4>3. QED
        BY <1>2, <3>1, <4>1, <4>2 DEF SourceInv, given
    <3>4. CASE Head(todo) = "ca"
      <4>1. Path = check.opts.ca
        BY <3>4 DEF Path
      <4>2. /\ loaded'.ca = content.certs /\ content.certs # Garbled
            /\ loaded'.cert = loaded.cert /\ loaded'.key = loaded.key
        BY <1>2, <2>1, <3>0, <3>4, LoadEffect
      <4>3. QED
        BY <1>2, <3>1, <4>1, <4>2 DEF SourceInv, given
    <3>5. QED
      BY <3>0, <3>2, <3>3, <3>4, Rest
  <2>2. CASE ~Holds(Head(todo), content)
    <3>1. UNCHANGED loaded
      BY <1>2, <2>2 DEF Load
    <3>2. QED
      BY <1>1, <1>2, <3>1
  <2>3. QED
    BY <2>1, <2>2
<1>3. CASE Open
  <2>1. CASE files[Path].sort = "regular" /\ Load(files[Path])
    <3>1. files[Path] \in Content /\ files[Path] \in seen[Path]
      BY <1>3, PathIsOne DEF Open, ValidInv, TypesInv
    <3>2. QED
      BY <1>2, <1>3, <2>1, <3>1 DEF Open, fileVars
  <2>2. CASE ~(files[Path].sort = "regular" /\ Load(files[Path]))
    BY <1>1, <1>3, <2>2 DEF Open, fileVars
  <2>3. QED
    BY <2>1, <2>2
<1>4. CASE Validate \/ Inspect \/ Begin
  BY <1>1, <1>4 DEF Validate, Inspect, Begin, fileVars
<1>5. CASE NetworkStep \/ Send \/ TimesOut \/ Tick
  BY <1>1, <1>5, LateStep DEF Unread
<1>6. CASE FileStep
  <2>1. ASSUME NEW content \in Rotated, ServePipe(content)  PROVE SourceInv'
    <3>1. content \in Content /\ Path \in Paths
      BY <2>1, FilesAssumption, PathIsOne DEF ServePipe, ValidInv
    <3>2. /\ \A path \in Paths : seen[path] \subseteq seen'[path]
          /\ content \in seen'[Path]
      BY <2>1, <3>1 DEF ServePipe, TypesInv
    <3>3. QED
      BY <1>2, <2>1, <3>1, <3>2 DEF ServePipe
  <2>2. ASSUME NEW content \in Rotated, NEW p \in Paths, ChangeFile(p, content)
        PROVE  SourceInv'
    <3>1. \A path \in Paths : seen[path] \subseteq seen'[path]
      BY <2>2 DEF ChangeFile, TypesInv
    <3>2. QED
      BY <1>1, <2>2, <3>1 DEF ChangeFile
  <2>3. QED
    BY <1>6, <2>1, <2>2 DEF FileStep
<1>7. CASE UNCHANGED vars
  BY <1>1, <1>7 DEF vars, fileVars
<1>8. QED
  BY <1>3, <1>4, <1>5, <1>6, <1>7 DEF Next, ProbeStep, Terminated

-----------------------------------------------------------------------------
(* Whatever is asked for is loaded *)

LEMMA NotPending ==
    ASSUME todo = <<>>
    PROVE  ~CertPending /\ ~KeyPending /\ ~CaPending
BY Lengths DEF CertPending, KeyPending, CaPending

LEMMA WholeStep ==
    ASSUME TypesInv, ValidInv, WholeInv, [Next]_vars
    PROVE  WholeInv'
<1> USE DEF Begun, Checked, Networking
<1>1. CASE Validate
  <2>1. CASE ~ValidCheck
    BY <1>1, <2>1 DEF Validate, Return, WholeInv
  <2>2. CASE ValidCheck /\ ~check.tls
    <3>1. UNCHANGED given /\ pc' = "inspect" /\ UNCHANGED verdict
      BY <1>1, <2>2 DEF Validate
    <3>2. check.opts = NoTls
      BY <2>2 DEF ValidCheck, HasTlsFlags
    <3>3. verdict = "none"
      BY <1>1 DEF Validate, TypesInv
    <3>4. QED
      BY <3>1, <3>2, <3>3 DEF WholeInv, given, NoTls
  <2>3. CASE ValidCheck /\ check.tls
    <3>1. /\ UNCHANGED <<given, verdict>> /\ pc' = "inspect"
          /\ todo' = Loads(check.opts)
      BY <1>1, <2>3 DEF Validate
    <3>2. /\ check.opts.cert = None <=> check.opts.key = None
          /\ check.opts.ca # None => ~check.opts.insecure
      BY <2>3 DEF ValidCheck, ValidTlsOptions
    <3>3. /\ check.opts.cert # None => CertPending'
          /\ check.opts.cert # None => KeyPending'
          /\ check.opts.ca # None => CaPending'
      BY <3>1, <3>2, AllToLoad DEF CertPending, KeyPending, CaPending
    <3>4. verdict = "none"
      BY <1>1 DEF Validate, TypesInv
    <3>5. QED
      BY <3>1, <3>2, <3>3, <3>4 DEF WholeInv, given
  <2>4. QED
    BY <2>1, <2>2, <2>3
<1>2. ASSUME NEW content \in Content, Load(content), pc \in {"open", "blocked"},
             UNCHANGED given
      PROVE  WholeInv'
  <2>0. verdict = "none" /\ todo # <<>>
    BY <1>2 DEF TypesInv, ValidInv
  <2>1. CASE Holds(Head(todo), content)
    <3>1. todo' = Tail(todo) /\ pc' = "inspect" /\ UNCHANGED verdict
      BY <1>2, <2>0, <2>1, LoadEffect
    <3>2. /\ loaded.cert # <<>> \/ CertPending => loaded'.cert # <<>> \/ CertPending'
          /\ loaded.key # None \/ KeyPending => loaded'.key # None \/ KeyPending'
          /\ loaded.ca # <<>> \/ CaPending => loaded'.ca # <<>> \/ CaPending'
      <4>1. CASE Head(todo) = "cert"
        <5>1. /\ loaded'.cert # <<>>
              /\ loaded'.key = loaded.key /\ loaded'.ca = loaded.ca
          BY <1>2, <2>0, <2>1, <4>1, LoadEffect
        <5>2. todo' = <<"key">> \/ todo' = <<"key", "ca">>
          BY <2>0, <3>1, <4>1, Rest
        <5>3. CaPending => CaPending'
          <6>1. todo = <<"cert", "key">> => ~CaPending
            BY Heads, Lengths DEF CaPending
          <6>2. todo = <<"cert", "key", "ca">> => todo' = <<"key", "ca">>
            BY <3>1, Tails
          <6>3. QED
            BY <2>0, <4>1, <6>1, <6>2, Rest DEF CaPending
        <5>4. QED
          BY <5>1, <5>2, <5>3 DEF KeyPending
      <4>2. CASE Head(todo) = "key"
        <5>1. /\ loaded'.key # None
              /\ loaded'.cert = loaded.cert /\ loaded'.ca = loaded.ca
          BY <1>2, <2>0, <2>1, <4>2, LoadEffect
        <5>2. ~CertPending
          BY <2>0, <4>2, Rest
        <5>3. CaPending => CaPending'
          BY <2>0, <3>1, <4>2, Rest, Heads, Lengths DEF CaPending
        <5>4. QED
          BY <5>1, <5>2, <5>3
      <4>3. CASE Head(todo) = "ca"
        <5>1. /\ loaded'.ca # <<>>
              /\ loaded'.cert = loaded.cert /\ loaded'.key = loaded.key
          BY <1>2, <2>0, <2>1, <4>3, LoadEffect
        <5>2. ~CertPending /\ ~KeyPending
          BY <2>0, <4>3, Rest DEF KeyPending
        <5>3. QED
          BY <5>1, <5>2
      <4>4. QED
        BY <2>0, <4>1, <4>2, <4>3, Rest
    <3>3. WholeInv!1
      BY <1>2 DEF WholeInv
    <3>4. QED
      BY <1>2, <2>0, <3>1, <3>2, <3>3 DEF WholeInv, given
  <2>2. CASE ~Holds(Head(todo), content)
    BY <1>2, <2>2 DEF Load, Return, WholeInv
  <2>3. QED
    BY <2>1, <2>2
<1>3. CASE Open
  <2>1. CASE files[Path].sort = "regular" /\ Load(files[Path])
    <3>1. files[Path] \in Content
      BY <1>3, PathIsOne DEF Open, ValidInv, TypesInv
    <3>2. QED
      BY <1>2, <1>3, <2>1, <3>1 DEF Open
  <2>2. CASE ~(files[Path].sort = "regular" /\ Load(files[Path]))
    <3>1. /\ UNCHANGED <<given, loaded, todo>>
          /\ \/ pc' = "blocked" /\ UNCHANGED verdict
             \/ pc' = "done" /\ verdict' = "invalid"
      BY <1>3, <2>2 DEF Open, Return
    <3>2. QED
      BY <1>3, <3>1 DEF WholeInv, CertPending, KeyPending, CaPending, given,
                        Open, TypesInv
  <2>3. QED
    BY <2>1, <2>2
<1>4. CASE Inspect \/ Begin
  <2>1. /\ UNCHANGED <<given, loaded, todo>> /\ pc = "inspect"
        /\ \/ pc' = "open" /\ UNCHANGED verdict
           \/ /\ pc' = "connect" /\ UNCHANGED verdict
              /\ todo = <<>> /\ Paired(loaded)
           \/ pc' = "done" /\ verdict' = "invalid"
    BY <1>4 DEF Inspect, Begin, Return
  <2>2. Paired(loaded)' <=> Paired(loaded)
    BY <2>1 DEF Paired
  <2>3. verdict = "none"
    BY <2>1 DEF TypesInv
  <2>4. QED
    BY <2>1, <2>2, <2>3 DEF WholeInv, CertPending, KeyPending, CaPending, given
<1>5. ASSUME UNCHANGED <<given, loaded, todo>>, Checked' => Checked,
             Begun' => Begun
      PROVE  WholeInv'
  BY <1>5 DEF WholeInv, CertPending, KeyPending, CaPending, given, Paired
<1>6. CASE NetworkStep \/ Send \/ TimesOut \/ Tick
  <2>1. CASE Tick
    BY <1>5, <2>1 DEF Tick
  <2>2. CASE ~Tick
    BY <1>5, <1>6, <2>2, LateStep DEF Unread
  <2>3. QED
    BY <2>1, <2>2
<1>7. CASE FileStep
  <2>1. ASSUME NEW content \in Rotated, ServePipe(content)  PROVE WholeInv'
    BY <1>2, <2>1, FilesAssumption DEF ServePipe
  <2>2. ASSUME NEW content \in Rotated, NEW p \in Paths, ChangeFile(p, content)
        PROVE  WholeInv'
    BY <1>5, <2>2 DEF ChangeFile
  <2>3. QED
    BY <1>7, <2>1, <2>2 DEF FileStep
<1>8. CASE UNCHANGED vars
  BY <1>5, <1>8 DEF vars
<1>9. QED
  BY <1>1, <1>3, <1>4, <1>6, <1>7, <1>8 DEF Next, ProbeStep, Terminated

-----------------------------------------------------------------------------
(* The connection *)

LEMMA FitStays ==
    ASSUME UNCHANGED <<given, loaded>>, NEW c, Fit(c)
    PROVE  Fit(c)'
BY DEF Fit, given, Trusted

LEMMA ConnStep ==
    ASSUME TypesInv, WholeInv, ConnInv, [Next]_vars
    PROVE  ConnInv'
<1> USE DEF Begun, Networking
<1>1. CASE Connect
  <2>1. /\ pc' = IF check.tls THEN "handshake" ELSE "send"
        /\ conn' = [to |-> check.host, secured |-> FALSE, peer |-> None,
                    client |-> None]
        /\ UNCHANGED <<given, loaded, request>> /\ pc = "connect"
    BY <1>1 DEF Connect
  <2>2. conn'.to = check.host
    BY <2>1
  <2>3. pc' = "send" => ~check.tls
    BY <2>1
  <2>4. request = None
    BY <2>1 DEF ConnInv
  <2>5. QED
    BY <2>1, <2>2, <2>3, <2>4 DEF ConnInv, Fit, given
<1>2. ASSUME NEW peer \in Peers, Handshake(peer)  PROVE ConnInv'
  <2>1. request = None /\ conn.to = check.host /\ UNCHANGED <<given, loaded, request>>
    BY <1>2 DEF ConnInv, Handshake
  <2>2. CASE AcceptsPeer(check.opts, Trusted(loaded, bundled), conn.to, peer)
    <3>1. /\ conn' = [conn EXCEPT !.secured = TRUE, !.peer = peer,
                                  !.client = loaded.key]
          /\ pc' = "send"
      BY <1>2, <2>2 DEF Handshake
    <3>2. QED
      BY <2>1, <2>2, <3>1 DEF ConnInv, Fit, given
  <2>3. CASE ~AcceptsPeer(check.opts, Trusted(loaded, bundled), conn.to, peer)
    BY <1>2, <2>1, <2>3 DEF Handshake, Return, ConnInv
  <2>4. QED
    BY <2>2, <2>3
<1>3. CASE Send
  <2>1. Fit(conn)' /\ conn' = conn
    BY <1>3, FitStays DEF Send, ConnInv
  <2>2. request'.over = conn' /\ pc' = "answer"
    BY <1>3 DEF Send
  <2>3. QED
    BY <2>1, <2>2 DEF ConnInv, Fit
<1>4. ASSUME UNCHANGED <<given, loaded, request>>,
             pc' \in {"handshake", "send"} => pc' = pc /\ conn' = conn,
             pc \in {"answer", "done"} /\ Begun =>
                 pc' \in {"answer", "done"} /\ Begun'
      PROVE  ConnInv'
  <2>1. CASE pc' = "handshake"
    BY <1>4, <2>1 DEF ConnInv, given
  <2>2. pc' = "send" => Fit(conn)'
    BY <1>4, FitStays DEF ConnInv
  <2>3. request # None => Fit(request.over)'
    BY <1>4, FitStays DEF ConnInv
  <2>4. QED
    BY <1>4, <2>1, <2>2, <2>3 DEF ConnInv
<1>5. ASSUME pc \in {"start", "inspect", "open", "blocked"},
             UNCHANGED <<given, conn, request>>,
             pc' \in {"inspect", "open", "blocked", "connect", "done"}
      PROVE  ConnInv'
  BY <1>5 DEF ConnInv, TypesInv
<1>6. CASE Validate \/ Inspect \/ Open \/ Begin
  BY <1>5, <1>6 DEF Validate, Inspect, Open, Begin, Load, Return
<1>7. CASE Reconnect \/ NetworkFails \/ TimesOut \/ \E good \in BOOLEAN : Answer(good)
  BY <1>4, <1>7 DEF Reconnect, NetworkFails, TimesOut, Answer, Return
<1>8. CASE FileStep
  <2>1. ASSUME NEW content \in Rotated, ServePipe(content)  PROVE ConnInv'
    BY <1>5, <2>1 DEF ServePipe, Load, Return
  <2>2. ASSUME NEW content \in Rotated, NEW p \in Paths, ChangeFile(p, content)
        PROVE  ConnInv'
    BY <1>4, <2>2 DEF ChangeFile
  <2>3. QED
    BY <1>8, <2>1, <2>2 DEF FileStep
<1>9. CASE Tick
  BY <1>4, <1>9 DEF Tick
<1>10. CASE UNCHANGED vars
  BY <1>4, <1>10 DEF vars
<1>11. QED
  BY <1>1, <1>2, <1>3, <1>6, <1>7, <1>8, <1>9, <1>10
     DEF Next, ProbeStep, NetworkStep, Terminated

-----------------------------------------------------------------------------
LEMMA RemoteInit == Init => RemoteInv
<1> SUFFICES ASSUME Init PROVE RemoteInv
  OBVIOUS
<1>1. ~CertPending /\ ~KeyPending /\ ~CaPending
  BY NotPending DEF Init
<1>2. loaded.cert = <<>> /\ loaded.key = None /\ loaded.ca = <<>>
  BY DEF Init, NothingLoaded
<1>3. QED
  BY <1>1, <1>2, TypesInit DEF Init, RemoteInv, ValidInv, SourceInv, WholeInv,
     ConnInv, Begun, Checked, Networking

(* Whatever other programs and the network do, the probe has validated what *)
(* it uses, has loaded what was asked for, and keeps to its host.           *)
THEOREM RemoteInvHolds == Spec => []RemoteInv
<1>1. RemoteInv /\ [Next]_vars => RemoteInv'
  BY TypesStep, ValidStep, SourceStep, WholeStep, ConnStep DEF RemoteInv
<1>2. QED
  BY <1>1, RemoteInit, PTL DEF Spec

(* No request leaves in clear when TLS is asked for, or to a peer nobody    *)
(* vouches for, or as a client whose certificate and key were not given.    *)
THEOREM ProtectionHolds == Spec => []RequestIsProtected
<1>1. RemoteInv => RequestIsProtected
  <2> SUFFICES ASSUME RemoteInv, request # None  PROVE RequestIsProtected
    BY DEF RequestIsProtected
  <2>1. Fit(request.over) /\ Checked
    BY DEF RemoteInv, ConnInv, Checked
  <2>2. todo = <<>> /\ Paired(loaded)
    BY DEF RemoteInv, ConnInv, WholeInv
  <2>3. ASSUME check.tls, ~check.opts.insecure
        PROVE  Vouched(request.over.peer)
    <3> DEFINE peer == request.over.peer
    <3>1. peer.issuer \in Trusted(loaded, bundled)
          /\ peer.name = ExpectedName(check.opts, check.host)
      BY <2>1, <2>3 DEF Fit, AcceptsPeer
    <3>2. CASE peer.issuer \in bundled
      BY <3>1, <3>2 DEF Vouched, ExpectedName
    <3>3. CASE \E i \in DOMAIN loaded.ca : loaded.ca[i] = peer.issuer
      <4>1. loaded.ca # <<>>
        BY <3>3
      <4>2. FoundAt(check.opts.ca, loaded.ca)
        BY <4>1 DEF RemoteInv, SourceInv
      <4>3. check.opts.ca # None /\ Listed(peer.issuer, check.opts.ca)
        BY <3>3, <4>2, NoneAssumption DEF FoundAt, Listed
      <4>4. QED
        BY <3>1, <4>3 DEF Vouched, ExpectedName
    <3>4. QED
      BY <3>1, <3>2, <3>3 DEF Trusted
  <2>4. ASSUME check.tls, check.opts.cert # None
        PROVE  /\ \E v \in seen[check.opts.cert] :
                     /\ v.certs \notin {Garbled, <<>>}
                     /\ Head(v.certs) = request.over.client
               /\ \E v \in seen[check.opts.key] : v.key = request.over.client
    <3>1. check.opts.key # None
      BY <2>1, <2>4 DEF RemoteInv, ValidInv, ValidCheck, ValidTlsOptions
    <3>2. loaded.cert # <<>> /\ loaded.key # None
      BY <2>1, <2>2, <2>4, <3>1, NotPending DEF RemoteInv, WholeInv
    <3>3. Head(loaded.cert) = loaded.key /\ request.over.client = loaded.key
      BY <2>1, <2>2, <2>4, <3>2 DEF Paired, Fit
    <3>4. /\ FoundAt(check.opts.cert, loaded.cert)
          /\ KeyFoundAt(check.opts.key, loaded.key)
      BY <3>2 DEF RemoteInv, SourceInv
    <3>5. QED
      BY <3>2, <3>3, <3>4 DEF FoundAt, KeyFoundAt
  <2>5. QED
    BY <2>1, <2>3, <2>4 DEF RequestIsProtected, Fit
<1>2. QED
  BY <1>1, RemoteInvHolds, PTL

-----------------------------------------------------------------------------
(* The rest of the types *)

(* What the types need besides the invariant: nothing is read for longer    *)
(* than MaxDelay, and what is connected is a connection.                    *)
OrderInv ==
    LET all == Loads(check.opts) IN
    /\ todo = SubSeq(all, Len(all) - Len(todo) + 1, Len(all))
    /\ Len(todo) <= Len(all)

PeerInv ==
    /\ conn \in Connections \cup {None}
    /\ pc \in {"handshake", "send"} => conn \in Connections
    /\ request \in [authority : Hosts, over : Connections] \cup {None}

ClockInv ==
    /\ check \in Checks /\ bundled \in Bundles
    /\ changes \in 0 .. MaxChanges
    /\ pc \in {"start", "inspect", "open", "blocked"} => now <= MaxDelay
    /\ now <= Horizon /\ deadline <= Horizon

(* No step but Validate and Load touches what is still to be read. *)
LEMMA TodoSteps ==
    ASSUME [Next]_vars
    PROVE  /\ UNCHANGED given
           /\ \/ UNCHANGED todo
              \/ pc = "start" /\ todo' \in {Loads(check.opts), <<>>}
              \/ pc \in {"open", "blocked"} /\ todo' = Tail(todo)
<1>1. CASE Validate \/ Inspect \/ Begin
  BY <1>1 DEF Validate, Inspect, Begin
<1>2. CASE Open
  BY <1>2 DEF Open, Load
<1>3. CASE NetworkStep \/ Send \/ TimesOut \/ Tick
  BY <1>3, LateStep DEF Unread
<1>4. CASE FileStep
  BY <1>4 DEF FileStep, ServePipe, ChangeFile, Load
<1>5. CASE UNCHANGED vars
  BY <1>5 DEF vars
<1>6. QED
  BY <1>1, <1>2, <1>3, <1>4, <1>5 DEF Next, ProbeStep, Terminated

LEMMA OrderStep ==
    ASSUME TypesInv, ValidInv, OrderInv, [Next]_vars
    PROVE  OrderInv'
<1> DEFINE all == Loads(check.opts)
           labels == {"cert", "key", "ca"}
<1>1. all \in Rests /\ all' = all
  BY TodoSteps, AllToLoad DEF given
<1>2. \A s \in Rests : s \in Seq(labels) /\ Len(s) \in Nat
  <2>1. <<>> \in Seq(labels)
    OBVIOUS
  <2>2. <<"ca">> \in Seq(labels)
    OBVIOUS
  <2>3. <<"key">> \in Seq(labels)
    OBVIOUS
  <2>4. <<"key", "ca">> \in Seq(labels)
    OBVIOUS
  <2>5. <<"cert", "key">> \in Seq(labels)
    OBVIOUS
  <2>6. <<"cert", "key", "ca">> \in Seq(labels)
    OBVIOUS
  <2>7. QED
    BY <2>1, <2>2, <2>3, <2>4, <2>5, <2>6, Lengths DEF Rests
<1>3. all \in Seq(labels) /\ todo \in Seq(labels)
      /\ Len(all) \in Nat /\ Len(todo) \in Nat
  BY <1>1, <1>2 DEF TypesInv
<1> HIDE DEF all, labels
<1>4. CASE UNCHANGED todo
  BY <1>1, <1>4 DEF OrderInv, all
<1>5. CASE todo' = all
  <2>1. SubSeq(all, Len(all) - Len(all) + 1, Len(all)) = all
    <3>1. Len(all) - Len(all) + 1 = 1
      BY <1>3
    <3>2. QED
      BY <1>3, <3>1, SubSeqFull
  <2>2. QED
    BY <1>1, <1>3, <1>5, <2>1 DEF OrderInv, all
<1>6. CASE todo' = <<>>
  <2>1. Len(<<>>) = 0 /\ SubSeq(all, Len(all) - 0 + 1, Len(all)) = <<>>
    BY <1>3, Lengths, SubSeqEmpty
  <2>2. QED
    BY <1>1, <1>3, <1>6, <2>1 DEF OrderInv, all
<1>7. CASE pc \in {"open", "blocked"} /\ todo' = Tail(todo)
  <2> DEFINE m == Len(all) - Len(todo) + 1
  <2>1. todo # <<>>
    BY <1>7 DEF ValidInv
  <2>2. Len(Tail(todo)) = Len(todo) - 1 /\ Len(todo) # 0
    BY <1>3, <2>1, HeadTailProperties, EmptySeq
  <2>3. todo = SubSeq(all, m, Len(all)) /\ Len(todo) <= Len(all)
    BY DEF OrderInv, all
  <2>4. m \in 1 .. Len(all) /\ Len(all) \in m .. Len(all)
    BY <1>3, <2>2, <2>3
  <2>5. Tail(SubSeq(all, m, Len(all))) = SubSeq(all, m + 1, Len(all))
    BY <1>3, <2>4, HeadTailOfSubSeq
  <2>6. m + 1 = Len(all) - Len(todo') + 1 /\ Len(todo') <= Len(all)
    BY <1>3, <1>7, <2>2, <2>3
  <2> HIDE DEF m
  <2>7. todo' = SubSeq(all, Len(all) - Len(todo') + 1, Len(all))
    BY <1>7, <2>3, <2>5, <2>6
  <2>8. QED
    BY <1>1, <2>6, <2>7 DEF OrderInv, all
<1>8. QED
  BY <1>4, <1>5, <1>6, <1>7, TodoSteps DEF all

LEMMA PeerStep ==
    ASSUME TypesInv, ValidInv, PeerInv, [Next]_vars
    PROVE  PeerInv'
<1> USE DEF PeerInv
<1>1. CASE Connect
  <2>1. check.host \in Hosts
    BY <1>1 DEF Connect, ValidInv, Checked, ValidCheck, TypesInv, CheckType
  <2>2. conn' \in Connections /\ UNCHANGED request
    BY <1>1, <2>1 DEF Connect, Connections
  <2>3. QED
    BY <2>2
<1>2. ASSUME NEW peer \in Peers, Handshake(peer)  PROVE PeerInv'
  <2>1. conn \in Connections /\ UNCHANGED request /\ loaded.key \in Parties \cup {None}
    BY <1>2 DEF Handshake, TypesInv, Fields
  <2>2. [conn EXCEPT !.secured = TRUE, !.peer = peer, !.client = loaded.key]
            \in Connections
    BY <2>1 DEF Connections
  <2>3. \/ conn' = [conn EXCEPT !.secured = TRUE, !.peer = peer,
                                !.client = loaded.key]
        \/ UNCHANGED conn
    BY <1>2 DEF Handshake
  <2>4. QED
    BY <2>1, <2>2, <2>3
<1>3. CASE Send
  <2>1. /\ check.host \in Hosts /\ check.as \in Hosts \cup {None}
        /\ pc' = "answer" /\ UNCHANGED conn /\ conn \in Connections
    BY <1>3 DEF Send, ValidInv, Checked, ValidCheck, TypesInv, CheckType
  <2>2. request' \in [authority : Hosts, over : Connections]
    BY <1>3, <2>1 DEF Send
  <2>3. QED
    BY <2>1, <2>2
<1>4. CASE Reconnect
  BY <1>4 DEF Reconnect
<1>5. ASSUME UNCHANGED <<conn, request>>, pc' \in {"handshake", "send"} => pc' = pc
      PROVE  PeerInv'
  BY <1>5
<1>6. CASE Validate \/ Inspect \/ Open \/ Begin \/ NetworkFails \/ TimesOut
           \/ \E good \in BOOLEAN : Answer(good)
  BY <1>5, <1>6 DEF Validate, Inspect, Open, Begin, Load, NetworkFails, TimesOut,
                    Answer, Return
<1>7. CASE FileStep
  <2>1. ASSUME NEW content \in Rotated, ServePipe(content)  PROVE PeerInv'
    BY <1>5, <2>1 DEF ServePipe, Load, Return
  <2>2. ASSUME NEW content \in Rotated, NEW p \in Paths, ChangeFile(p, content)
        PROVE  PeerInv'
    BY <1>5, <2>2 DEF ChangeFile
  <2>3. QED
    BY <1>7, <2>1, <2>2 DEF FileStep
<1>8. CASE Tick \/ UNCHANGED vars
  BY <1>5, <1>8 DEF Tick, vars
<1>9. QED
  BY <1>1, <1>2, <1>3, <1>4, <1>6, <1>7, <1>8
     DEF Next, ProbeStep, NetworkStep, Terminated

LEMMA ClockStep ==
    ASSUME TypesInv, ClockInv, [Next]_vars
    PROVE  ClockInv'
<1>0. /\ now \in Nat /\ deadline \in Nat /\ Timeout \in Nat /\ MaxDelay \in Nat
      /\ Horizon \in Nat /\ MaxChanges \in Nat /\ MaxDelay + Timeout < Horizon
  BY TimesAssumption DEF TypesInv
<1> USE DEF ClockInv
<1>1. ASSUME UNCHANGED <<given, changes, now, deadline>>,
             pc' \in {"start", "inspect", "open", "blocked"}
                 => pc \in {"start", "inspect", "open", "blocked"}
      PROVE  ClockInv'
  BY <1>1 DEF given
<1>2. CASE Validate \/ Inspect
  BY <1>1, <1>2 DEF Validate, Inspect, Return, fileVars
<1>3. CASE Open
  BY <1>1, <1>3 DEF Open, fileVars
<1>4. CASE Begin
  BY <1>0, <1>4 DEF Begin, Return, given, fileVars
<1>5. CASE Connect \/ Reconnect \/ Send \/ NetworkFails \/ TimesOut
  BY <1>1, <1>5 DEF Connect, Reconnect, Send, NetworkFails, TimesOut, Return,
                    fileVars
<1>6. CASE \/ \E peer \in Peers : Handshake(peer)
           \/ \E good \in BOOLEAN : Answer(good)
  BY <1>1, <1>6 DEF Handshake, Answer, Return, fileVars
<1>7. ASSUME NEW content \in Rotated, ServePipe(content)  PROVE ClockInv'
  BY <1>1, <1>7 DEF ServePipe
<1>8. ASSUME NEW content \in Rotated, NEW p \in Paths, ChangeFile(p, content)
      PROVE  ClockInv'
  BY <1>0, <1>8 DEF ChangeFile, given
<1>9. CASE Tick
  <2>1. /\ UNCHANGED <<given, changes, pc, deadline>> /\ now' = now + 1
        /\ \/ pc \in {"inspect", "open", "blocked"} /\ now < MaxDelay
           \/ /\ pc \notin {"start", "inspect", "open", "blocked"}
              /\ now < deadline \/ now < Horizon
    BY <1>9 DEF Tick, Loading, Networking, fileVars
  <2>2. QED
    BY <1>0, <2>1 DEF given
<1>10. CASE UNCHANGED vars
  BY <1>1, <1>10 DEF vars, fileVars
<1>11. QED
  BY <1>2, <1>3, <1>4, <1>5, <1>6, <1>7, <1>8, <1>9, <1>10
     DEF Next, ProbeStep, NetworkStep, FileStep, Terminated

(* Every variable of the HTTP and gRPC probes keeps its type, and what is   *)
(* still to be read is the last of what the options ask for.                *)
THEOREM TypeCorrect == Spec => []TypeOK
<1>1. Init => OrderInv /\ PeerInv /\ ClockInv
  <2> SUFFICES ASSUME Init PROVE OrderInv /\ PeerInv /\ ClockInv
    OBVIOUS
  <2>1. PeerInv /\ ClockInv
    BY TimesAssumption DEF Init, PeerInv, ClockInv
  <2>2. OrderInv
    <3> DEFINE all == Loads(check.opts)
    <3>1. all \in Rests
      BY AllToLoad
    <3>2. Len(all) \in Nat
      BY <3>1, Lengths DEF Rests
    <3> HIDE DEF all
    <3>3. SubSeq(all, Len(all) - 0 + 1, Len(all)) = <<>>
      BY <3>2, SubSeqEmpty
    <3>4. QED
      BY <3>2, <3>3, Lengths DEF Init, OrderInv, all
  <2>3. QED
    BY <2>1, <2>2
<1>2. RemoteInv /\ OrderInv /\ PeerInv /\ ClockInv /\ [Next]_vars
          => OrderInv' /\ PeerInv' /\ ClockInv'
  BY OrderStep, PeerStep, ClockStep DEF RemoteInv
<1>3. RemoteInv /\ OrderInv /\ PeerInv /\ ClockInv => TypeOK
  <2> SUFFICES ASSUME RemoteInv, OrderInv, PeerInv, ClockInv  PROVE TypeOK
    OBVIOUS
  <2>1. {deadline, now} \subseteq 0 .. Horizon
    BY TimesAssumption DEF RemoteInv, TypesInv, ClockInv
  <2>2. loaded \in [cert : Seq(Parties), key : Parties \cup {None},
                    ca : Seq(Parties)]
    BY DEF RemoteInv, TypesInv, Fields
  <2>3. QED
    BY <2>1, <2>2 DEF TypeOK, RemoteInv, TypesInv, ValidInv, OrderInv, PeerInv,
                      ClockInv
<1>4. QED
  BY <1>1, <1>2, <1>3, RemoteInvHolds, PTL DEF Spec

-----------------------------------------------------------------------------
(* The answer to an invalid invocation *)

LEMMA SomeChoice ==
    ASSUME NEW A, NEW C, NEW K, NEW a \in A, NEW c \in C, NEW k \in K
    PROVE  [ca |-> a, cert |-> c, key |-> k]
              \in {[ca |-> x, cert |-> y, key |-> z] : x \in A, y \in C, z \in K}
OBVIOUS

(* Every option has a version to choose. *)
LEMMA SomeVersion ==
    ASSUME TypesInv
    PROVE  /\ VersionsOf("ca") # {} /\ VersionsOf("cert") # {}
           /\ VersionsOf("key") # {}
BY DEF TypesInv, VersionsOf

(* The options the code refuses do not fit, whatever the files hold.        *)
LEMMA RefusedIsUnfit ==
    ASSUME TypesInv, ~ValidCheck, NEW v
    PROVE  ~Fits(v)
<1> SUFFICES ASSUME Fits(v) PROVE ValidCheck
  OBVIOUS
<1>1. /\ check.other /\ check.host # Bad /\ check.as # Bad
      /\ HasTlsFlags(check.opts) => check.tls
  BY NoneAssumption DEF Fits, HasTlsFlags
<1>2. ASSUME check.tls  PROVE ValidTlsOptions(check.opts, bundled)
  <2>1. check.opts.serverName # Bad
    BY <1>2, NoneAssumption DEF Fits
  <2>2. check.opts.cert = None <=> check.opts.key = None
    BY <1>2 DEF Fits
  <2>3. Bad \notin {check.opts.ca, check.opts.cert, check.opts.key}
    BY <1>2, NoneAssumption DEF Fits
  <2>4. /\ ~(check.opts.insecure /\ check.opts.ca # None)
        /\ check.opts.insecure \/ check.opts.ca # None \/ bundled # {}
    BY <1>2 DEF Fits
  <2>5. QED
    BY <2>1, <2>2, <2>3, <2>4 DEF ValidTlsOptions
<1>3. QED
  BY <1>1, <1>2 DEF ValidCheck

(* A file that does not serve leaves a choice that does not fit. *)
LEMMA UselessIsUnfit ==
    ASSUME TypesInv, ValidInv, todo # <<>>,
           NEW a, NEW c, NEW k, NEW content,
           /\ Head(todo) = "ca" => content = a
           /\ Head(todo) = "cert" => content = c
           /\ Head(todo) = "key" => content = k,
           content.sort # "regular" \/ ~Holds(Head(todo), content)
    PROVE  ~Fits([ca |-> a, cert |-> c, key |-> k])
<1> DEFINE v == [ca |-> a, cert |-> c, key |-> k]
<1>1. v["ca"] = a /\ v["cert"] = c /\ v["key"] = k
  OBVIOUS
<1> HIDE DEF v
<1> SUFFICES ASSUME Fits(v) PROVE FALSE
  BY DEF v
<1>2. check.tls /\ check.opts[Head(todo)] # None
  BY Rest DEF ValidInv
<1>3. Head(todo) \in {"ca", "cert", "key"}
  BY Rest
<1>4. content = v[Head(todo)]
  BY <1>1, <1>3
<1>5. /\ content.sort = "regular"
      /\ IF Head(todo) = "key" THEN content.key \in Parties
         ELSE content.certs \notin {Garbled, <<>>}
  BY <1>2, <1>3, <1>4 DEF Fits
<1>6. QED
  BY <1>5 DEF Holds

InvalidIsTrue == verdict = "invalid" => \E v \in Chosen : ~Fits(v)

LEMMA UselessIsChosen ==
    ASSUME TypesInv, ValidInv, TypesInv', UNCHANGED given, todo # <<>>,
           NEW label, label = Head(todo),
           NEW content, content \in VersionsOf(label)',
           content.sort # "regular" \/ ~Holds(Head(todo), content)
    PROVE  InvalidIsTrue'
<1>1. /\ VersionsOf("ca")' # {} /\ VersionsOf("cert")' # {}
      /\ VersionsOf("key")' # {}
  BY DEF TypesInv, VersionsOf
<1>2. ASSUME NEW a \in VersionsOf("ca")', NEW c \in VersionsOf("cert")',
             NEW k \in VersionsOf("key")',
             /\ Head(todo) = "ca" => content = a
             /\ Head(todo) = "cert" => content = c
             /\ Head(todo) = "key" => content = k
      PROVE  InvalidIsTrue'
  <2>1. ~Fits([ca |-> a, cert |-> c, key |-> k])
    BY <1>2, UselessIsUnfit
  <2>2. ~Fits([ca |-> a, cert |-> c, key |-> k])'
    BY <2>1 DEF Fits, given
  <2>3. [ca |-> a, cert |-> c, key |-> k] \in Chosen'
    BY SomeChoice DEF Chosen
  <2>4. QED
    BY <2>2, <2>3 DEF InvalidIsTrue
<1>3. CASE Head(todo) = "ca"
  BY <1>1, <1>2, <1>3
<1>4. CASE Head(todo) = "cert"
  BY <1>1, <1>2, <1>4
<1>5. CASE Head(todo) = "key"
  BY <1>1, <1>2, <1>5
<1>6. QED
  BY <1>3, <1>4, <1>5, Rest

LEMMA InvalidStep ==
    ASSUME RemoteInv, RemoteInv', InvalidIsTrue, [Next]_vars
    PROVE  InvalidIsTrue'
<1> USE DEF RemoteInv
<1>1. CASE Validate
  <2>1. CASE ValidCheck
    BY <1>1, <2>1 DEF Validate, InvalidIsTrue, TypesInv
  <2>2. CASE ~ValidCheck
    <3>1. UNCHANGED <<given, seen>>
      BY <1>1 DEF Validate, fileVars
    <3>2. PICK a \in VersionsOf("ca"), c \in VersionsOf("cert"),
               k \in VersionsOf("key") : TRUE
      BY SomeVersion
    <3>3. [ca |-> a, cert |-> c, key |-> k] \in Chosen
      BY SomeChoice DEF Chosen
    <3>4. Chosen' = Chosen
      BY <3>1 DEF Chosen, VersionsOf, given
    <3>5. \A v \in Chosen : ~Fits(v)'
      BY <2>2, <3>1, RefusedIsUnfit DEF Fits, given
    <3>6. QED
      BY <3>3, <3>4, <3>5 DEF InvalidIsTrue
  <2>3. QED
    BY <2>1, <2>2
<1>2. ASSUME verdict' # "invalid"  PROVE InvalidIsTrue'
  BY <1>2 DEF InvalidIsTrue
<1>3. ASSUME UNCHANGED <<given, seen, verdict>>  PROVE InvalidIsTrue'
  <2>1. Chosen' = Chosen /\ \A v : Fits(v)' <=> Fits(v)
    BY <1>3 DEF Chosen, VersionsOf, Fits, given
  <2>2. QED
    BY <1>3, <2>1 DEF InvalidIsTrue
<1>4. ASSUME todo # <<>>, NEW content, content \in seen'[Path],
             UNCHANGED given,
             content.sort # "regular" \/ ~Holds(Head(todo), content)
      PROVE  InvalidIsTrue'
  <2>1. Path \in Paths /\ check.opts[Head(todo)] = Path
    BY <1>4, PathIsOne DEF Path
  <2>2. PICK label : label = Head(todo)
    OBVIOUS
  <2>3. content \in VersionsOf(label)'
    BY <1>4, <2>1, <2>2 DEF VersionsOf, given
  <2>4. QED
    BY <1>4, <2>2, <2>3, UselessIsChosen
<1>5. ASSUME NEW content, content \in seen'[Path], Load(content),
             pc \in {"open", "blocked"}, UNCHANGED given
      PROVE  InvalidIsTrue'
  <2>1. CASE Holds(Head(todo), content)
    BY <1>2, <1>5, <2>1 DEF Load, TypesInv
  <2>2. CASE ~Holds(Head(todo), content)
    BY <1>4, <1>5, <2>2 DEF ValidInv
  <2>3. QED
    BY <2>1, <2>2
<1>6. CASE Inspect \/ Open
  <2>1. /\ todo # <<>> /\ UNCHANGED <<given, seen>>
    BY <1>6 DEF Inspect, Open, ValidInv, fileVars
  <2>2. files[Path] \in seen'[Path]
    BY <2>1, PathIsOne DEF TypesInv
  <2>3. CASE files[Path].sort # "regular"
    BY <1>4, <2>1, <2>2, <2>3
  <2>4. CASE files[Path].sort = "regular"
    <3>1. CASE Inspect
      BY <1>2, <2>4, <3>1 DEF Inspect, Inspects, TypesInv
    <3>2. CASE Open
      BY <1>5, <2>2, <2>4, <3>2 DEF Open
    <3>3. QED
      BY <1>6, <3>1, <3>2
  <2>5. QED
    BY <2>3, <2>4
<1>7. CASE Begin
  <2>1. CASE Paired(loaded)
    BY <1>2, <1>7, <2>1 DEF Begin, TypesInv
  <2>2. CASE ~Paired(loaded)
    <3>1. loaded.key # None /\ Head(loaded.cert) # loaded.key
      BY <2>2 DEF Paired
    <3>2. PICK k \in seen[check.opts.key] : k.key = loaded.key
      BY <3>1 DEF SourceInv, KeyFoundAt
    <3>3. check.opts.key \in Paths /\ check.opts.key # None
      BY <3>1, NoneAssumption DEF SourceInv, KeyFoundAt
    <3>4. ValidCheck /\ todo = <<>>
      BY <1>7 DEF Begin, ValidInv, Checked
    <3>5. check.tls
      BY <3>3, <3>4 DEF ValidCheck, HasTlsFlags, NoTls
    <3>6. check.opts.cert # None
      BY <3>3, <3>4, <3>5 DEF ValidCheck, ValidTlsOptions
    <3>7. loaded.cert # <<>>
      BY <1>7, <3>4, <3>6, NotPending DEF Begin, WholeInv, Checked
    <3>8. PICK c \in seen[check.opts.cert] : c.certs = loaded.cert
      BY <3>7 DEF SourceInv, FoundAt
    <3>9. check.opts.cert \in Paths
      BY <3>7 DEF SourceInv, FoundAt
    <3>10. PICK a \in VersionsOf("ca") : TRUE
      BY SomeVersion
    <3>11. c \in VersionsOf("cert") /\ k \in VersionsOf("key")
      BY <3>3, <3>9 DEF VersionsOf
    <3> DEFINE v == [ca |-> a, cert |-> c, key |-> k]
    <3>12. v \in Chosen
      BY <3>11, SomeChoice DEF Chosen
    <3>13. v["cert"].certs = loaded.cert /\ v["key"].key = loaded.key
      BY <3>2, <3>8
    <3> HIDE DEF v
    <3>14. ~Fits(v)
      BY <3>1, <3>5, <3>6, <3>13 DEF Fits
    <3>15. UNCHANGED <<given, seen>>
      BY <1>7 DEF Begin, fileVars
    <3>16. Chosen' = Chosen /\ ~Fits(v)'
      BY <3>14, <3>15 DEF Chosen, VersionsOf, Fits, given
    <3>17. QED
      BY <3>12, <3>16 DEF InvalidIsTrue
  <2>3. QED
    BY <2>1, <2>2
<1>8. CASE NetworkStep \/ Send \/ TimesOut \/ Tick
  <2>1. CASE Tick
    BY <1>3, <2>1 DEF Tick, fileVars
  <2>2. CASE ~Tick
    BY <1>2, <1>8, <2>2, LateStep DEF Networking, TypesInv
  <2>3. QED
    BY <2>1, <2>2
<1>9. CASE FileStep
  <2>1. ASSUME NEW content \in Rotated, ServePipe(content)
        PROVE  InvalidIsTrue'
    <3>1. Path \in Paths
      BY <2>1, PathIsOne DEF ServePipe, ValidInv
    <3>2. content \in seen'[Path]
      BY <2>1, <3>1 DEF ServePipe, TypesInv
    <3>3. QED
      BY <1>5, <2>1, <3>2 DEF ServePipe
  <2>2. ASSUME NEW content \in Rotated, NEW p \in Paths, ChangeFile(p, content)
        PROVE  InvalidIsTrue'
    BY <1>2, <2>2 DEF ChangeFile, Loading, TypesInv
  <2>3. QED
    BY <1>9, <2>1, <2>2 DEF FileStep
<1>10. CASE UNCHANGED vars
  BY <1>3, <1>10 DEF vars, fileVars
<1>11. QED
  BY <1>1, <1>6, <1>7, <1>8, <1>9, <1>10 DEF Next, ProbeStep, Terminated

(* What has been checked and loaded is an invocation that can run. *)
LEMMA BegunIsFit ==
    ASSUME RemoteInv, Begun
    PROVE  \E v \in Chosen : Fits(v)
<1> USE DEF RemoteInv
<1>1. ValidCheck /\ todo = <<>> /\ Paired(loaded) /\ Checked
  BY DEF ValidInv, WholeInv, Checked
<1>2. /\ check.opts.cert # None => FoundAt(check.opts.cert, loaded.cert)
                                   /\ loaded.cert # <<>>
      /\ check.opts.key # None => KeyFoundAt(check.opts.key, loaded.key)
                                  /\ loaded.key # None
      /\ check.opts.ca # None => FoundAt(check.opts.ca, loaded.ca)
                                 /\ loaded.ca # <<>>
  BY <1>1, NotPending DEF WholeInv, SourceInv
<1>3. PICK a \in VersionsOf("ca") :
         check.opts.ca # None => /\ check.opts.ca \in Paths
                                 /\ a.sort = "regular"
                                 /\ a.certs \notin {Garbled, <<>>}
  BY <1>2, SomeVersion DEF FoundAt, VersionsOf
<1>4. PICK c \in VersionsOf("cert") :
         check.opts.cert # None => /\ check.opts.cert \in Paths
                                   /\ c.sort = "regular"
                                   /\ c.certs \notin {Garbled, <<>>}
                                   /\ c.certs = loaded.cert
  BY <1>2, SomeVersion DEF FoundAt, VersionsOf
<1>5. loaded.key \in Parties \cup {None}
  BY DEF TypesInv, Fields
<1>6. PICK k \in VersionsOf("key") :
         check.opts.key # None => /\ check.opts.key \in Paths
                                  /\ k.sort = "regular"
                                  /\ k.key \in Parties
                                  /\ k.key = loaded.key
  BY <1>2, <1>5, SomeVersion DEF KeyFoundAt, VersionsOf
<1> DEFINE v == [ca |-> a, cert |-> c, key |-> k]
<1>7. v \in Chosen
  BY SomeChoice DEF Chosen
<1>8. v["ca"] = a /\ v["cert"] = c /\ v["key"] = k
  OBVIOUS
<1> HIDE DEF v
<1>9. check.other /\ check.host \in Hosts /\ check.as \in Hosts \cup {None}
  BY <1>1 DEF ValidCheck, TypesInv, CheckType
<1>10. ~check.tls => check.opts = NoTls
  BY <1>1 DEF ValidCheck, HasTlsFlags
<1>11. ASSUME check.tls
       PROVE  /\ check.opts.serverName \in Hosts \cup {None}
              /\ \A label \in {"ca", "cert", "key"} :
                    check.opts[label] # None =>
                        /\ check.opts[label] \in Paths
                        /\ v[label].sort = "regular"
                        /\ IF label = "key" THEN v[label].key \in Parties
                           ELSE v[label].certs \notin {Garbled, <<>>}
              /\ {check.opts.cert, check.opts.key} \cap {None} # {}
                    => check.opts.cert = check.opts.key
              /\ check.opts.cert # None => Head(v["cert"].certs) = v["key"].key
              /\ IF check.opts.insecure THEN check.opts.ca = None
                 ELSE check.opts.ca # None \/ bundled # {}
  <2>1. ValidTlsOptions(check.opts, bundled)
    BY <1>1, <1>11 DEF ValidCheck
  <2>2. check.opts \in TlsArgs
    BY DEF TypesInv, CheckType
  <2>3. check.opts.serverName \in Hosts \cup {None}
    BY <2>1, <2>2 DEF ValidTlsOptions, TlsArgs
  <2>4. check.opts.cert = None <=> check.opts.key = None
    BY <2>1 DEF ValidTlsOptions
  <2>5. check.opts.cert # None => Head(loaded.cert) = loaded.key
    BY <1>1, <1>2, <2>4 DEF Paired
  <2>6. IF check.opts.insecure THEN check.opts.ca = None
        ELSE check.opts.ca # None \/ bundled # {}
    BY <2>1 DEF ValidTlsOptions
  <2>7. check.opts.cert # None => Head(v["cert"].certs) = v["key"].key
    BY <1>4, <1>6, <1>8, <2>4, <2>5
  <2>8. \A label \in {"ca", "cert", "key"} :
           check.opts[label] # None =>
               /\ check.opts[label] \in Paths
               /\ v[label].sort = "regular"
               /\ IF label = "key" THEN v[label].key \in Parties
                  ELSE v[label].certs \notin {Garbled, <<>>}
    BY <1>3, <1>4, <1>6, <1>8
  <2>9. QED
    BY <2>3, <2>4, <2>6, <2>7, <2>8
<1>12. Fits(v)
  BY <1>9, <1>10, <1>11 DEF Fits
<1>13. QED
  BY <1>7, <1>12

(* An invocation is refused only for what is wrong with it or with a file   *)
(* as it was at some time, and none that cannot run reaches the network.    *)
THEOREM RejectionHolds == Spec => []RejectionIsTrue
<1>1. Init => InvalidIsTrue
  BY DEF Init, InvalidIsTrue
<1>2. RemoteInv /\ RemoteInv' /\ InvalidIsTrue /\ [Next]_vars => InvalidIsTrue'
  BY InvalidStep
<1>3. RemoteInv /\ InvalidIsTrue => RejectionIsTrue
  BY BegunIsFit DEF RejectionIsTrue, InvalidIsTrue
<1>4. QED
  BY <1>1, <1>2, <1>3, RemoteInvHolds, PTL DEF Spec

-----------------------------------------------------------------------------
(* The contract of a probe *)

LEMMA ContractInit == Init => Contract!Init
<1> SUFFICES ASSUME Init PROVE Contract!Init
  OBVIOUS
<1>1. Phase = "given"
  <2>1. /\ pc \in {"start", "inspect", "open", "blocked"}
        /\ ~Networking /\ pc # "done"
    BY DEF Init, Networking
  <2>2. QED
    BY <2>1, Zenon DEF Phase
<1>2. QED
  BY <1>1, TimesAssumption DEF Init, Contract!Init

(* A step of the network leaves the probe running or ends it. *)
Proceeds ==
    /\ UNCHANGED <<prompt, deadline, now>> /\ Networking
    /\ \/ Networking' /\ UNCHANGED verdict
       \/ /\ pc' = "done"
          /\ verdict' \in {"healthy", "failure", "timeout"}
          /\ verdict' = "timeout" => now >= deadline

LEMMA ContractStep ==
    RemoteInv /\ [Next]_vars => [Contract!Next]_(Contract!vars)
<1> SUFFICES ASSUME RemoteInv, [Next]_vars
             PROVE  [Contract!Next]_(Contract!vars)
  OBVIOUS
<1> USE DEF RemoteInv, Networking, Proceeds
<1>0. Timeout \in Nat /\ now \in Nat /\ deadline \in Nat
  BY TimesAssumption DEF TypesInv
<1>1. ASSUME pc \in {"start", "inspect", "open", "blocked"},
             pc' \in {"inspect", "open", "blocked"},
             UNCHANGED <<prompt, verdict, deadline, now>>
      PROVE  UNCHANGED Contract!vars
  BY <1>1 DEF Contract!vars, Phase
<1>2. ASSUME pc \in {"start", "inspect", "open", "blocked"},
             pc' = "done", verdict' = "invalid",
             UNCHANGED <<prompt, deadline, now>>
      PROVE  Contract!Next
  <2>1. Phase = "given" /\ Phase' = "ended"
    BY <1>2 DEF Phase
  <2>2. Contract!Refuse
    BY <1>2, <2>1 DEF Contract!Refuse
  <2>3. QED
    BY <2>2 DEF Contract!Next, Contract!Outcomes
<1>3. CASE Validate \/ Inspect
  BY <1>1, <1>2, <1>3 DEF Validate, Inspect, Return, given
<1>4. ASSUME NEW content, Load(content), pc \in {"open", "blocked"},
             UNCHANGED <<given, deadline, now>>
      PROVE  [Contract!Next]_(Contract!vars)
  BY <1>1, <1>2, <1>4 DEF Load, Return, given
<1>5. CASE Open
  BY <1>1, <1>2, <1>4, <1>5 DEF Open, Return, given
<1>6. CASE Begin
  <2>1. CASE Paired(loaded)
    <3>1. Phase = "given" /\ Phase' = "probing"
      BY <1>6, <2>1 DEF Begin, Phase
    <3>2. Contract!Begin
      BY <1>6, <2>1, <3>1 DEF Begin, Contract!Begin, given
    <3>3. QED
      BY <3>2 DEF Contract!Next
  <2>2. CASE ~Paired(loaded)
    BY <1>2, <1>6, <2>2 DEF Begin, Return, given
  <2>3. QED
    BY <2>1, <2>2
<1>7. CASE NetworkStep \/ Send \/ TimesOut
  <2>1. Proceeds
    <3>1. CASE Connect \/ Reconnect \/ NetworkFails \/ TimesOut \/ Send
      BY <3>1 DEF Connect, Reconnect, NetworkFails, TimesOut, Send, Return, given
    <3>2. ASSUME NEW peer \in Peers, Handshake(peer)  PROVE Proceeds
      BY <3>2 DEF Handshake, Return, given
    <3>3. ASSUME NEW good \in BOOLEAN, Answer(good)  PROVE Proceeds
      BY <3>3 DEF Answer, Return, given
    <3>4. QED
      BY <1>7, <3>1, <3>2, <3>3 DEF NetworkStep
  <2>2. CASE Networking' /\ UNCHANGED verdict
    BY <2>1, <2>2 DEF Contract!vars, Phase
  <2>3. CASE ~(Networking' /\ UNCHANGED verdict)
    <3>1. Phase = "probing" /\ Phase' = "ended"
      BY <2>1, <2>3 DEF Phase
    <3>2. Contract!End(verdict')
      BY <2>1, <2>3, <3>1 DEF Contract!End, Contract!Outcomes
    <3>3. QED
      BY <2>1, <2>3, <3>2 DEF Contract!Next, Contract!Outcomes
  <2>4. QED
    BY <2>2, <2>3
<1>8. CASE FileStep
  <2>1. ASSUME NEW content \in Rotated, ServePipe(content)
        PROVE  [Contract!Next]_(Contract!vars)
    BY <1>4, <2>1 DEF ServePipe
  <2>2. ASSUME NEW content \in Rotated, NEW p \in Paths, ChangeFile(p, content)
        PROVE  UNCHANGED Contract!vars
    BY <1>1, <2>2 DEF ChangeFile, Loading, given
  <2>3. QED
    BY <1>8, <2>1, <2>2 DEF FileStep
<1>9. CASE Tick
  <2>1. Phase # "ended" /\ UNCHANGED <<prompt, verdict, deadline, Phase>>
    BY <1>9 DEF Tick, Loading, Phase, given
  <2>2. /\ now' \in Nat /\ now' > now
        /\ prompt /\ Phase = "probing" => now' <= deadline
    BY <1>0, <1>9 DEF Tick, Loading, Phase
  <2>3. Contract!Wait
    BY <2>1, <2>2 DEF Contract!Wait
  <2>4. QED
    BY <2>3 DEF Contract!Next
<1>10. CASE UNCHANGED vars
  BY <1>10 DEF vars, Contract!vars, Phase, given
<1>11. QED
  BY <1>3, <1>5, <1>6, <1>7, <1>8, <1>9, <1>10 DEF Next, ProbeStep, Terminated

(* The gRPC and the HTTP probe implement the contract of a probe, however   *)
(* long the preparation takes.                                              *)
THEOREM ContractKept == Spec => KeepsContract
BY ContractInit, ContractStep, RemoteInvHolds, PTL
   DEF Spec, KeepsContract, Contract!Spec
=============================================================================
