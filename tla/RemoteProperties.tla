-------------------------- MODULE RemoteProperties --------------------------
(***************************************************************************)
(* What the preparation and the connection of the gRPC and the HTTP probe   *)
(* promise.                                                                 *)
(***************************************************************************)
EXTENDS RemoteProbe

Connections == [to : Hosts, secured : BOOLEAN, peer : Peers \cup {None},
                client : Parties \cup {None}]

(* Every variable has its type, and the files still to be read are the last *)
(* of those the options ask for.                                            *)
TypeOK ==
    /\ check \in Checks /\ bundled \in Bundles /\ prompt \in BOOLEAN
    /\ files \in [Paths -> Content]
    /\ changes \in 0 .. MaxChanges
    /\ pc \in {"start", "inspect", "open", "blocked", "connect", "handshake",
               "send", "answer", "done"}
    /\ verdict \in {"none", "healthy", "failure", "invalid", "timeout"}
    /\ LET all == Loads(check.opts) IN
       todo = SubSeq(all, Len(all) - Len(todo) + 1, Len(all))
    /\ pc \in {"open", "blocked"} => todo # <<>>
    /\ loaded \in [cert : Seq(Parties), key : Parties \cup {None},
                   ca : Seq(Parties)]
    /\ conn \in Connections \cup {None}
    /\ request \in [authority : Hosts, over : Connections] \cup {None}
    /\ {deadline, now} \subseteq 0 .. Horizon

-----------------------------------------------------------------------------
(* The party is one whose certificate some version of the file holds. *)
Listed(party, path) ==
    \E version \in seen[path] :
        /\ version.certs # Garbled
        /\ \E i \in DOMAIN version.certs : version.certs[i] = party

(* The peer proved to be who it should, to somebody the user trusts.        *)
Vouched(peer) ==
    /\ peer.name = (IF check.opts.serverName # None THEN check.opts.serverName
                    ELSE check.host)
    /\ peer.issuer \in bundled \/ (check.opts.ca # None /\ Listed(peer.issuer, check.opts.ca))

(* No request leaves the probe for another host than the one given, nor,    *)
(* with TLS, in clear or to a peer that is not vouched for, over whichever  *)
(* connection it goes and however the files are rotated; and the client it  *)
(* is sent as has both its certificate and its key in the files given.      *)
RequestIsProtected ==
    request # None =>
        /\ request.over.to = check.host
        /\ check.tls =>
              /\ request.over.secured
              /\ ~check.opts.insecure => Vouched(request.over.peer)
              /\ check.opts.cert # None =>
                    /\ \E v \in seen[check.opts.cert] :
                          /\ v.certs \notin {Garbled, <<>>}
                          /\ Head(v.certs) = request.over.client
                    /\ \E v \in seen[check.opts.key] :
                          v.key = request.over.client

-----------------------------------------------------------------------------
(* The options and the files they name, one version of each, are those of a *)
(* probe that can run, as the help of the options has it.                   *)
Fits(version) ==
    LET o == check.opts IN
    /\ check.other /\ check.host \in Hosts /\ check.as \in Hosts \cup {None}
    /\ ~check.tls => o = NoTls
    /\ check.tls =>
          /\ o.serverName \in Hosts \cup {None}
          /\ \A label \in {"ca", "cert", "key"} :
                o[label] # None =>
                    /\ o[label] \in Paths
                    /\ version[label].sort = "regular"
                    /\ IF label = "key" THEN version[label].key \in Parties
                       ELSE version[label].certs \notin {Garbled, <<>>}
          /\ {o.cert, o.key} \cap {None} # {} => o.cert = o.key
          /\ o.cert # None => Head(version["cert"].certs) = version["key"].key
          /\ IF o.insecure THEN o.ca = None ELSE o.ca # None \/ bundled # {}

(* One version of each file there was, chosen for each option on its own:   *)
(* two options may name one file, and read it at two times.                 *)
VersionsOf(label) == IF check.opts[label] \in Paths THEN seen[check.opts[label]]
                     ELSE {None}

Chosen == {[ca |-> a, cert |-> c, key |-> k] :
             a \in VersionsOf("ca"), c \in VersionsOf("cert"),
             k \in VersionsOf("key")}

Begun == Networking \/ verdict \in {"healthy", "failure", "timeout"}

(* An invocation is called invalid exactly if it is: without changes of the *)
(* files as they are, else as some choice of the versions there were, and   *)
(* a probe that cannot run never reaches the network.                       *)
RejectionIsTrue ==
    /\ verdict = "invalid" => \E v \in Chosen : ~Fits(v)
    /\ Begun => \E v \in Chosen : Fits(v)

(* README.md, Timing Semantics: --timeout is a hard execution deadline for  *)
(* the whole probe, which fails if it does not finish before that limit.    *)
DeadlineIsHard == prompt /\ verdict = "healthy" => now <= Timeout

(* Every probe ends, whatever network and files do, unless a pipe took the  *)
(* place of a regular file after it was inspected: then the one thread of   *)
(* the program waits in open(2) for a writer.  A pipe that was there before *)
(* is refused.                                                              *)
SwappedForPipe ==
    \E before \in seen[Path] : before.sort \in {"regular", "unreadable"}

Ends == <>(pc = "done") \/ <>[](pc = "blocked" /\ SwappedForPipe)

-----------------------------------------------------------------------------
Phase == CASE pc \in {"start", "inspect", "open", "blocked"} -> "given"
           [] Networking -> "probing"
           [] pc = "done" -> "ended"

Contract == INSTANCE ProbeContract
              WITH timeout <- Timeout, phase <- Phase, outcome <- verdict

(* Both probes implement what main_entry expects of a probe, from the end   *)
(* of the preparation on.                                                   *)
KeepsContract == Contract!Spec
=============================================================================
