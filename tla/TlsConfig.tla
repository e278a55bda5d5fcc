------------------------------ MODULE TlsConfig ------------------------------
(***************************************************************************)
(* src/src/tls.rs: which TLS options are accepted, which files are read for *)
(* them and in which order, what a file must hold, and which peer the       *)
(* resulting configuration accepts.  Certificates and keys are known by the *)
(* party they belong to.                                                    *)
(***************************************************************************)
EXTENDS Naturals, Sequences

CONSTANTS
    Hosts,     \* the names of hosts
    Parties,   \* authorities and clients that have keys
    Paths,     \* the paths of PEM files
    None,      \* an option that is not given
    Bad,       \* a text that is no host name, a path that is empty
    Garbled    \* PEM that does not parse

ASSUME NoneAssumption ==
    /\ {None, Bad, Garbled} \cap (Hosts \cup Parties \cup Paths) = {}
    /\ None # Bad /\ None # Garbled

TlsArgs == [serverName : Hosts \cup {None, Bad}, insecure : BOOLEAN,
            ca : Paths \cup {None, Bad}, cert : Paths \cup {None, Bad},
            key : Paths \cup {None, Bad}]

NoTls == [serverName |-> None, insecure |-> FALSE, ca |-> None, cert |-> None,
          key |-> None]

(* has_tls_flags, of the HTTP and of the gRPC probe *)
HasTlsFlags(tls) == tls # NoTls

(* validate_tls_options; bundled is what webpki adds, nothing when the      *)
(* build goes without.                                                      *)
ValidTlsOptions(tls, bundled) ==
    /\ tls.serverName # Bad
    /\ tls.cert = None <=> tls.key = None
    /\ ~(tls.insecure /\ tls.ca # None)
    /\ Bad \notin {tls.ca, tls.cert, tls.key}
    /\ tls.insecure \/ tls.ca # None \/ bundled # {}

-----------------------------------------------------------------------------
(* What a path may lead to. *)
Content == [sort : {"missing", "regular", "unreadable", "directory", "fifo"},
            certs : Seq(Parties) \cup {Garbled},
            key : Parties \cup {None, Garbled}]

(* The files build_client_config reads, in its order. *)
Loads(tls) ==
    (IF tls.cert # None THEN <<"cert", "key">> ELSE <<>>)
    \o (IF tls.ca # None /\ ~tls.insecure THEN <<"ca">> ELSE <<>>)

(* The first half of open_regular_pem_file. *)
Inspects(content) == content.sort \in {"regular", "unreadable"}

(* The contents serve as what they are read for. *)
Holds(label, content) ==
    IF label = "key" THEN content.key \in Parties
    ELSE content.certs \notin {Garbled, <<>>}

Wanted(label, content) ==
    IF label = "key" THEN content.key ELSE content.certs

NothingLoaded == [cert |-> <<>>, key |-> None, ca |-> <<>>]

(* Mutated: any certificate of the chain may be the client's. *)
PairedAnywhere(loaded) ==
    loaded.key = None \/ \E i \in DOMAIN loaded.cert : loaded.cert[i] = loaded.key

(* with_client_auth_cert: the key is that of the leaf. *)
Paired(loaded) == loaded.key = None \/ Head(loaded.cert) = loaded.key

-----------------------------------------------------------------------------
(* load_root_store: --ca adds to the bundled roots. *)
Trusted(loaded, bundled) ==
    bundled \cup {loaded.ca[i] : i \in DOMAIN loaded.ca}

(* The name the certificate must bear: the override, or the host that is    *)
(* connected to.                                                            *)
ExpectedName(tls, host) ==
    IF tls.serverName # None THEN tls.serverName ELSE host

(* The verifier of the configuration: InsecureVerifier, or that of rustls   *)
(* over the root store.                                                     *)
AcceptsPeer(tls, trusted, host, peer) ==
    \/ tls.insecure
    \/ peer.issuer \in trusted /\ peer.name = ExpectedName(tls, host)
=============================================================================
