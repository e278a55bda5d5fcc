----------------------------- MODULE MCFileProbe -----------------------------
(* Instances of the file probe for TLC. *)
EXTENDS FileProperties

CONSTANTS a, b, f1, f2

Plain == [path |-> TRUE, minSize |-> None, maxSize |-> None, nonEmpty |-> FALSE,
          maxAge |-> None, readable |-> FALSE, contains |-> {}, maxRead |-> 2]

(* A text of two bytes under a limit it fits in exactly and one with room,  *)
(* with and without other assertions.                                       *)
Texts == {[Plain EXCEPT !.contains = {<<a, b>>}, !.maxRead = n] : n \in {2, 3}}
         \cup {[Plain EXCEPT !.contains = {<<a>>}, !.minSize = 2,
                             !.nonEmpty = TRUE]}

(* The assertions on metadata, and what is refused. *)
Others == {Plain, [Plain EXCEPT !.readable = TRUE],
           [Plain EXCEPT !.minSize = 1, !.maxSize = 2],
           [Plain EXCEPT !.nonEmpty = TRUE, !.readable = TRUE],
           [Plain EXCEPT !.maxAge = 1],
           [Plain EXCEPT !.path = FALSE],
           [Plain EXCEPT !.minSize = 2, !.maxSize = 1],
           [Plain EXCEPT !.maxAge = 0],
           [Plain EXCEPT !.contains = {<<>>}],
           [Plain EXCEPT !.contains = {<<a>>}, !.maxRead = 0],
           [Plain EXCEPT !.contains = {<<a>>}, !.maxRead = 5]}

All == Texts \cup Others

(* An empty file, one that fits every limit, and one whose text begins at   *)
(* the last byte of the smaller limit.                                      *)
Short == {<<>>, <<a, b>>, <<b, a, b>>}
=============================================================================
