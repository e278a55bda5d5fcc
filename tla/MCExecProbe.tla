---------------------------- MODULE MCExecProbe ----------------------------
(* Instances of the exec probe for TLC. *)
EXTENDS ExecInvariant

CONSTANTS a, b, d1

Request(needlesOut, needlesErr, lim) ==
    [command |-> "program", codes |-> {}, limit |-> lim,
     needles |-> [s \in Streams |-> IF s = "stdout" THEN needlesOut
                                    ELSE needlesErr],
     deadlineFits |-> TRUE]

(* One captured stream: a needle of two bytes that can straddle two reads,  *)
(* with a limit it fits in exactly and a limit it fits in with room.        *)
OneStream == {Request({<<a, b>>}, {}, lim) : lim \in {2, 3}}

(* Two captured streams. *)
TwoStreams == {Request({<<a>>}, {<<b>>}, 1)}

(* A needle that never comes, under a limit that takes long to reach.       *)
Patient == {Request({<<a, a, a, a, a, a, a>>}, {}, 6)}

(* Everything run() refuses, and no assertion at all. *)
Odd == {[Request({<<a>>}, {}, 2) EXCEPT !.command = c] :
            c \in {"none", "empty"}}
       \cup {Request({<<a>>}, {}, lim) : lim \in {0, 4}}
       \cup {Request({<<>>}, {}, 2), Request({}, {<<>>}, 2)}
       \cup {[Request({<<a>>}, {}, 2) EXCEPT !.codes = {300}]}
       \cup {[Request({}, {<<a>>}, 1) EXCEPT !.codes = {0, 7},
                                             !.deadlineFits = x] :
                x \in BOOLEAN}
       \cup {Request({}, {}, 0)}

StreamOrOdd == OneStream \cup Odd
Either      == OneStream \cup TwoStreams
=============================================================================
