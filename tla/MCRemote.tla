------------------------------ MODULE MCRemote ------------------------------
(* Instances of the gRPC and the HTTP probe for TLC. *)
EXTENDS RemoteProperties, TLC

CONSTANTS svc, alias, root, corp, one, two, p, q, r

Invocation(kind, tls, as, opts) ==
    [kind |-> kind, tls |-> tls, other |-> TRUE, host |-> svc, as |-> as,
     opts |-> opts]

Opts(name, ca, cert, key, insecure) ==
    [serverName |-> name, insecure |-> insecure, ca |-> ca, cert |-> cert,
     key |-> key]

(* In clear, over a socket, and with every way to be trusted and to trust;  *)
(* certificate and key also from one file.                                  *)
Proper ==
    {Invocation(kind, FALSE, as, NoTls) :
       kind \in {"grpc", "url", "unix"}, as \in {None, alias}}
    \cup {Invocation("grpc", TRUE, alias, o) :
            o \in {NoTls, Opts(alias, p, None, None, FALSE),
                   Opts(None, p, q, r, FALSE)}}
    \cup {Invocation("url", TRUE, alias, o) :
            o \in {Opts(None, None, q, q, TRUE),
                   Opts(None, p, None, None, FALSE)}}

(* What the validation refuses. *)
Improper ==
    LET base == Invocation("grpc", TRUE, None, NoTls) IN
    {[base EXCEPT !.host = Bad], [base EXCEPT !.as = Bad],
     [base EXCEPT !.other = FALSE],
     [base EXCEPT !.opts = Opts(Bad, None, None, None, FALSE)],
     [base EXCEPT !.opts = Opts(None, Bad, None, None, FALSE)],
     [base EXCEPT !.opts = Opts(None, None, q, None, FALSE)],
     [base EXCEPT !.opts = Opts(None, None, None, r, FALSE)],
     [base EXCEPT !.opts = Opts(None, p, None, None, TRUE)],
     Invocation("url", FALSE, None, Opts(None, None, None, None, TRUE)),
     Invocation("unix", FALSE, None, Opts(alias, None, None, None, FALSE))}

All == Proper \cup Improper

-----------------------------------------------------------------------------
Pem(certs, key) == [sort |-> "regular", certs |-> certs, key |-> key]

NoFile(sort) == [sort |-> sort, certs |-> <<>>, key |-> None]

Trust == Pem(<<root>>, None)
Chain == Pem(<<one, corp>>, one)

Odd == {NoFile("missing"), NoFile("directory"), NoFile("fifo"),
        NoFile("unreadable"), Pem(Garbled, Garbled), Pem(<<>>, None),
        Pem(<<corp, one>>, one)}

(* All files in order, or one of them not. *)
InOrder  == (p :> Trust) @@ (q :> Chain) @@ (r :> Pem(<<>>, one))
OneIsOdd == {[InOrder EXCEPT ![path] = odd] : path \in {p, q, r}, odd \in Odd}

AllFiles == {InOrder} \cup OneIsOdd
InOrderOnly == {InOrder}

Rotations == {NoFile("fifo"), Pem(Garbled, Garbled), Pem(<<corp>>, None),
              Pem(<<two>>, two)}

Builds == {{}, {corp}}
=============================================================================
