----------------------------- MODULE RemoteProbe -----------------------------
(***************************************************************************)
(* How the gRPC and the HTTP probe get to an answer: src/src/probes/grpc.rs *)
(* and run_url, run_unix_socket and what they prepare, of probes/http.rs.   *)
(* The invocation is validated, the PEM files are read, and only then the   *)
(* timer starts under which the probe connects, shakes hands, sends its     *)
(* request and awaits the answer.                                           *)
(*                                                                         *)
(* Other programs rotate the PEM files while they are read, and the network *)
(* answers with any certificate, or not at all.                             *)
(***************************************************************************)
EXTENDS TlsConfig

CONSTANTS
    Checks,      \* the invocations to explore
    Bundles,     \* the builds to explore: the roots they bundle
    FileSystems, \* the initial contents of the paths to explore
    Rotated,     \* what other programs put at a path
    Timeout,     \* options.timeout
    MaxChanges,  \* bound on what other programs do to the files
    MaxDelay,    \* bound on the time the files take
    Horizon      \* bound on the clock

(* as is --host or --authority, other whether all other arguments are valid *)
CheckType == [kind : {"grpc", "url", "unix"}, tls : BOOLEAN, other : BOOLEAN,
              host : Hosts \cup {Bad}, as : Hosts \cup {None, Bad},
              opts : TlsArgs]

ASSUME ChecksAssumption ==
    /\ Checks \subseteq CheckType
    /\ \A c \in Checks : c.kind = "unix" => ~c.tls
ASSUME FilesAssumption == /\ FileSystems \subseteq [Paths -> Content]
                          /\ Rotated \subseteq Content
                          /\ \A roots \in Bundles : roots \subseteq Parties
ASSUME TimesAssumption == /\ {Timeout, MaxChanges, MaxDelay, Horizon} \subseteq Nat
                          /\ MaxDelay + Timeout < Horizon

VARIABLES
    check,     \* the invocation
    bundled,   \* the roots the build bundles
    prompt,    \* the host delays nothing runnable past a clock tick
    files,     \* what the paths lead to
    changes,   \* how often other programs changed that
    pc,        \* where the probe's future stands
    verdict,   \* how the probe ended, "none" before it has
    todo,      \* the PEM files still to be read
    loaded,    \* what was read from them
    conn,      \* the connection, None without one
    request,   \* the request, once it is sent, and what it was sent over
    deadline,  \* when the timer fires
    now,       \* the clock
    seen       \* history: what each path led to

given    == <<check, bundled, prompt>>
fileVars == <<files, changes, seen>>
vars     == <<given, fileVars, pc, verdict, todo, loaded, conn, request,
              deadline, now>>

Init ==
    /\ check \in Checks
    /\ bundled \in Bundles
    /\ prompt \in BOOLEAN
    /\ files \in FileSystems
    /\ changes = 0
    /\ pc = "start"
    /\ verdict = "none"
    /\ todo = <<>>
    /\ loaded = NothingLoaded
    /\ conn = None
    /\ request = None
    /\ deadline = 0
    /\ now = 0
    /\ seen = [p \in Paths |-> {files[p]}]

Return(v) == pc' = "done" /\ verdict' = v

-----------------------------------------------------------------------------
(* The validation of run() in grpc.rs; prepare_http_probe.                  *)
ValidCheck ==
    /\ check.other
    /\ check.host # Bad /\ check.as # Bad
    /\ HasTlsFlags(check.opts) => check.tls
    /\ check.tls => ValidTlsOptions(check.opts, bundled)

Validate ==
    /\ pc = "start"
    /\ IF ValidCheck
         THEN /\ pc' = "inspect"
              /\ todo' = IF check.tls THEN Loads(check.opts) ELSE <<>>
              /\ UNCHANGED verdict
         ELSE Return("invalid") /\ UNCHANGED todo
    /\ UNCHANGED <<given, fileVars, loaded, conn, request, deadline, now>>

Path == check.opts[Head(todo)]

Inspect ==
    /\ pc = "inspect"
    /\ todo # <<>>
    /\ IF Inspects(files[Path]) THEN pc' = "open" /\ UNCHANGED verdict
                                ELSE Return("invalid")
    /\ UNCHANGED <<given, fileVars, todo, loaded, conn, request, deadline, now>>

(* File::open, the rest of load_client_identity and load_root_store.  The   *)
(* open of a pipe without a writer returns to nobody, the timer included.   *)
Load(content) ==
    IF Holds(Head(todo), content)
      THEN /\ loaded' = [loaded EXCEPT
                           ![Head(todo)] = Wanted(Head(todo), content)]
           /\ todo' = Tail(todo)
           /\ pc' = "inspect"
           /\ UNCHANGED verdict
      ELSE Return("invalid") /\ UNCHANGED <<loaded, todo>>

Open ==
    /\ pc = "open"
    /\ \/ /\ files[Path].sort = "fifo"
          /\ pc' = "blocked"
          /\ UNCHANGED <<verdict, todo, loaded>>
       \/ /\ files[Path].sort \in {"missing", "unreadable", "directory"}
          /\ Return("invalid")
          /\ UNCHANGED <<todo, loaded>>
       \/ files[Path].sort = "regular" /\ Load(files[Path])
    /\ UNCHANGED <<given, fileVars, conn, request, deadline, now>>

(* build_client_config ends, and with_probe_timeout begins.                 *)
Begin ==
    /\ pc = "inspect"
    /\ todo = <<>>
    /\ IF Paired(loaded)
         THEN pc' = "connect" /\ deadline' = now + Timeout /\ UNCHANGED verdict
         ELSE Return("invalid") /\ UNCHANGED deadline
    /\ UNCHANGED <<given, fileVars, todo, loaded, conn, request, now>>

-----------------------------------------------------------------------------
Networking == pc \in {"connect", "handshake", "send", "answer"}

(* Always to the address or the URL's authority: FixedConnectUriConnector,  *)
(* and Endpoint::origin for gRPC, keep --host and --authority out of it.    *)
Connect ==
    /\ pc = "connect"
    /\ conn' = [to |-> check.host, secured |-> FALSE, peer |-> None,
                client |-> None]
    /\ pc' = IF check.tls THEN "handshake" ELSE "send"
    /\ UNCHANGED <<given, fileVars, verdict, todo, loaded, request, deadline, now>>

(* Mutated: the name to verify is the one the request asks for. *)
HandshakeAsAuthority(peer) ==
    /\ pc = "handshake"
    /\ LET name == IF check.as # None THEN check.as ELSE conn.to IN
       IF AcceptsPeer(check.opts, Trusted(loaded, bundled), name, peer)
         THEN /\ conn' = [conn EXCEPT !.secured = TRUE, !.peer = peer,
                                      !.client = loaded.key]
              /\ pc' = "send"
              /\ UNCHANGED verdict
         ELSE Return("failure") /\ UNCHANGED conn
    /\ UNCHANGED <<given, fileVars, todo, loaded, request, deadline, now>>

(* hyper-rustls, with the server name resolver of build_https_client and of *)
(* build_grpc_tls_connector.                                                *)
Handshake(peer) ==
    /\ pc = "handshake"
    /\ IF AcceptsPeer(check.opts, Trusted(loaded, bundled), conn.to, peer)
         THEN /\ conn' = [conn EXCEPT !.secured = TRUE, !.peer = peer,
                                      !.client = loaded.key]
              /\ pc' = "send"
              /\ UNCHANGED verdict
         ELSE Return("failure") /\ UNCHANGED conn
    /\ UNCHANGED <<given, fileVars, todo, loaded, request, deadline, now>>

(* build_request, or the health client's check: the request names its       *)
(* authority, default or override.                                          *)
Send ==
    /\ pc = "send"
    /\ request' = [authority |-> IF check.as # None THEN check.as
                                 ELSE check.host,
                   over |-> conn]
    /\ pc' = "answer"
    /\ UNCHANGED <<given, fileVars, verdict, todo, loaded, conn, deadline, now>>

(* The channel of a gRPC client connects again when its connection is lost  *)
(* before a request is sent.                                                *)
Reconnect ==
    /\ pc = "send"
    /\ check.kind = "grpc"
    /\ pc' = "connect"
    /\ conn' = None
    /\ UNCHANGED <<given, fileVars, verdict, todo, loaded, request, deadline, now>>

(* SERVING, or a response that passes evaluate_response: see HttpBody.      *)
Answer(good) ==
    /\ pc = "answer"
    /\ Return(IF good THEN "healthy" ELSE "failure")
    /\ UNCHANGED <<given, fileVars, todo, loaded, conn, request, deadline, now>>

(* Refused, reset, closed, or gRPC's own connect_timeout. *)
NetworkFails ==
    /\ Networking
    /\ Return("failure")
    /\ UNCHANGED <<given, fileVars, todo, loaded, conn, request, deadline, now>>

(* Mutated: an answer may take its time. *)
TimesOutUnsent ==
    /\ Networking /\ pc # "answer"
    /\ now >= deadline
    /\ Return("timeout")
    /\ UNCHANGED <<given, fileVars, todo, loaded, conn, request, deadline, now>>

(* Mutated: the timer fires a tick early. *)
TimesOutEarly ==
    /\ Networking
    /\ now + 1 >= deadline
    /\ Return("timeout")
    /\ UNCHANGED <<given, fileVars, todo, loaded, conn, request, deadline, now>>

TimesOut ==
    /\ Networking
    /\ now >= deadline
    /\ Return("timeout")
    /\ UNCHANGED <<given, fileVars, todo, loaded, conn, request, deadline, now>>

-----------------------------------------------------------------------------
(* Other programs, and the clock.  A change after the files have been read  *)
(* changes nothing for the probe.                                           *)
Loading == pc \in {"inspect", "open", "blocked"} /\ todo # <<>>

ChangeFile(p, content) ==
    /\ Loading
    /\ p \in {check.opts[todo[i]] : i \in DOMAIN todo}
    /\ changes < MaxChanges
    /\ content # files[p]
    /\ files' = [files EXCEPT ![p] = content]
    /\ changes' = changes + 1
    /\ seen' = [seen EXCEPT ![p] = @ \cup {content}]
    /\ UNCHANGED <<given, pc, verdict, todo, loaded, conn, request, deadline, now>>

(* A writer opens the pipe, writes and closes it. *)
ServePipe(content) ==
    /\ pc = "blocked"
    /\ content.sort = "regular"
    /\ seen' = [seen EXCEPT ![Path] = @ \cup {content}]
    /\ Load(content)
    /\ UNCHANGED <<given, files, changes, conn, request, deadline, now>>

(* A disk, and a pipe, may take their time on any host. *)
Tick ==
    /\ \/ Loading /\ now < MaxDelay
       \/ Networking /\ now < IF prompt THEN deadline ELSE Horizon
    /\ now' = now + 1
    /\ UNCHANGED <<given, fileVars, pc, verdict, todo, loaded, conn, request,
                   deadline>>

Terminated == pc = "done" /\ UNCHANGED vars

-----------------------------------------------------------------------------
Peers == [issuer : Parties, name : Hosts]

ProbeStep == Validate \/ Inspect \/ Open \/ Begin \/ Send \/ TimesOut

NetworkStep ==
    \/ Connect \/ Reconnect \/ NetworkFails
    \/ \E peer \in Peers : Handshake(peer)
    \/ \E good \in BOOLEAN : Answer(good)

FileStep ==
    \E content \in Rotated :
        ServePipe(content) \/ \E p \in Paths : ChangeFile(p, content)

Next == ProbeStep \/ NetworkStep \/ FileStep \/ Tick \/ Terminated

Spec == Init /\ [][Next]_vars

(* The probe is polled when it can go on, and the clock goes on; network    *)
(* and other programs owe nothing.                                          *)
FairSpec == Spec /\ WF_vars(ProbeStep) /\ WF_vars(Tick)
=============================================================================
