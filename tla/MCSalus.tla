------------------------------- MODULE MCSalus -------------------------------
(* The command lines to explore. *)
EXTENDS SalusProperties

Plain(name) == Word("plain", name)
Bad(w)      == [w EXCEPT !.good = FALSE]
Needs(w)    == [w EXCEPT !.var = "V"]

Long  == {Word("long", n) : n \in {"timeout", "quiet", "verbose", "help",
                                   "path", "exit-code", "bogus"}}
Other == {Plain("exec"), Plain("file"), Plain("help"), Bad(Plain("sh")),
          Word("number", "-1"), Word("dash", "-"), Word("escape", "--"),
          Word("short", "V"), Bad(Word("bytes", "")),
          Needs(Plain("${V}")), Needs(Word("inline", "path")),
          Bad(Word("inline", "quiet")), Bad(Word("inline", "exit-code"))}

(* For longer lines, those that matter for expansion, help and --quiet: an  *)
(* option, a value, an error, a flag.                                       *)
Core == {Word("long", "timeout"), Word("long", "quiet"), Word("long", "help"),
         Word("long", "path"), Word("long", "bogus"), Word("dash", "-"),
         Plain("file"), Plain("exec"), Needs(Plain("${V}"))}

(* Lines of no to five arguments. *)
All == <<{}, Long \cup Other, Long \cup Other, Long \cup Other,
         Long \cup Other, Core>>

(* Variables that change the shape of the line, one that cannot be expanded *)
(* and one that is not set.                                                 *)
Values == {Unset, Word("long", "quiet"), Word("long", "help"), Plain("exec"),
           Word("escape", "--"), Bad(Word("bytes", ""))}

Envs == {[V |-> v] : v \in Values}
=============================================================================
