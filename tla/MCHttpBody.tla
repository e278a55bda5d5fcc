----------------------------- MODULE MCHttpBody -----------------------------
(* Instances of the HTTP probe for TLC. *)
EXTENDS HttpProperties

CONSTANTS a, b

Check(eq, yes, no, lim) ==
    [method |-> "GET", equals |-> eq, contains |-> yes, notContains |-> no,
     limit |-> lim]

(* Each kind of assertion alone, and the three together; texts of two bytes *)
(* can straddle two frames, and a body can end below, at or beyond a limit. *)
Plain == {Check(<<a, b>>, {}, {}, lim) : lim \in {1, 2, 3}}
         \cup {Check(None, {<<a, b>>}, {}, lim) : lim \in {2, 3}}
         \cup {Check(None, {}, {<<a, b>>}, lim) : lim \in {2, 3}}

Mixed == {Check(None, {<<b>>}, {<<a, a>>}, 3), Check(<<a, a, b>>, {<<b>>}, {}, 3),
          Check(<<a, b, a>>, {}, {<<b, b>>}, 3)}

(* What prepare_http_probe refuses, and a check without body assertions.    *)
Odd == {Check(<<>>, {}, {}, 1), Check(None, {}, {}, 0), Check(<<a>>, {}, {}, 0),
        Check(<<a>>, {}, {}, 4), Check(None, {<<>>}, {}, 2),
        Check(None, {}, {<<>>}, 2),
        [Check(<<a>>, {}, {}, 1) EXCEPT !.method = "HEAD"],
        [Check(None, {}, {}, 1) EXCEPT !.method = "HEAD"]}

All == Plain \cup Mixed \cup Odd
=============================================================================
