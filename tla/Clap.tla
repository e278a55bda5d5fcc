-------------------------------- MODULE Clap --------------------------------
(***************************************************************************)
(* The command line as clap reads it, from the options that cli.rs          *)
(* declares.  clap is a library: this module is what the program relies on, *)
(* as its tests state it.  Unlike the scanner of argv.rs, which looks ahead,*)
(* clap goes from argument to argument and remembers the option that still  *)
(* lacks a value.                                                           *)
(***************************************************************************)
EXTENDS Argv

(* command: the subcommand; pending: an option that lacks its value; seen:  *)
(* the options so far, by level; refused: a value or a repetition was       *)
(* refused; dash: - was the value of a text option; end: why the reading    *)
(* is over, "open" while it is not.                                         *)
Beginning == [command |-> None, pending |-> None, seen |-> {},
              refused |-> FALSE, dash |-> FALSE, end |-> "open"]

OptionNamed(r, name) == OptionOf(r.command, Word("long", name))

Refused(option, w) == \/ Numeric(option) /\ ~w.good
                      \/ w.form = "bytes" /\ option # "path"

Repeats(r, w) == /\ <<r.command, w.name>> \in r.seen
                 /\ OptionOf(r.command, w) \notin {"texts", "numbers"}

ReadValue(r, w) ==
    LET option == OptionNamed(r, r.pending) IN
    IF \/ w.form \in {"plain", "bytes", "dash"}
       \/ w.form = "number" /\ Numeric(option)
    THEN [r EXCEPT !.pending = None,
                   !.refused = @ \/ Refused(option, w),
                   !.dash = @ \/ (w.form = "dash" /\ ~Numeric(option))]
    ELSE [r EXCEPT !.end = "usage"]

ReadOption(r, w) ==
    LET option == OptionOf(r.command, w) IN
    IF option = "unknown" \/ (w.form = "inline" /\ option = "flag")
    THEN [r EXCEPT !.end = "usage"]
    ELSE [r EXCEPT !.seen = @ \cup {<<r.command, w.name>>},
                   !.refused = @ \/ Repeats(r, w)
                                 \/ (w.form = "inline" /\ Refused(option, w)),
                   !.pending = IF w.form = "long" /\ TakesValue(option)
                               THEN w.name ELSE None]

(* After exec's options the first other argument begins the command. *)
ReadPlain(r, w) ==
    IF r.command = None
    THEN IF IsCommand(w) THEN [r EXCEPT !.command = w.name]
         ELSE [r EXCEPT !.end = IF IsHelpCommand(w) THEN "helpCommand"
                                ELSE "usage"]
    ELSE [r EXCEPT !.end = IF r.command = "exec" THEN "command" ELSE "usage"]

Read(r, w) ==
    CASE r.end = "open" /\ r.pending # None -> ReadValue(r, w)
      [] r.end = "open" /\ r.pending = None ->
           (CASE IsHelp(w) -> [r EXCEPT !.end = "help"]
              [] IsVersion(w) -> [r EXCEPT !.end = IF r.command = None
                                                  THEN "help" ELSE "usage"]
              [] w.form = "escape" -> [r EXCEPT !.end = "escape"]
              [] w.form \in {"plain", "bytes", "dash"} -> ReadPlain(r, w)
              [] w.form = "number" -> [r EXCEPT !.end = "usage"]
              [] OTHER -> ReadOption(r, w))
      [] r.end = "escape" -> [r EXCEPT !.end = IF r.command = "exec"
                                               THEN "command" ELSE "usage"]
      [] r.end = "helpCommand" ->
           [r EXCEPT !.end = IF IsCommand(w) \/ IsHelpCommand(w) THEN "topic"
                             ELSE IF IsHelp(w) THEN "topicHelp" ELSE "noTopic"]
      [] r.end = "topic" -> [r EXCEPT !.end = "moreThanTopic"]
      [] OTHER -> r

(* How far the reading is after each argument, and at the end.              *)
Readings(words) ==
    LET read[n \in 0 .. Len(words)] ==
            IF n = 0 THEN Beginning ELSE Read(read[n - 1], words[n])
    IN  read

Reading(words) == Readings(words)[Len(words)]

(* The flags that were read before the reading ended. *)
Heard(r) == {s[2] : s \in r.seen} \cap {"quiet", "verbose"}

Needed == [http |-> {}, tcp |-> {"addr"}, grpc |-> {"addr"}, exec |-> {},
           file |-> {"path"}]

Complete(r) ==
    /\ r.pending = None
    /\ r.command # None
    /\ r.command = "exec" => r.end = "command"
    /\ \A n \in Needed[r.command] : <<r.command, n>> \in r.seen

Conflict(r) == \E c \in Commands \cup {None} :
                   {<<c, "quiet">>, <<c, "verbose">>} \subseteq r.seen

(* What clap may do with a line.  Whether it notices that --quiet and       *)
(* --verbose conflict when one is given before the subcommand and the other *)
(* after it is left open.                                                   *)
ParseOutcomes(words) ==
    LET r == Reading(words) IN
    IF r.refused \/ r.end \in {"usage", "noTopic", "topicHelp",
                               "moreThanTopic"}
      THEN {"usage"}
    ELSE IF r.end \in {"help", "helpCommand", "topic"} THEN {"help"}
    ELSE IF ~Complete(r) \/ Conflict(r) THEN {"usage"}
    ELSE IF Heard(r) = {"quiet", "verbose"} THEN {"usage", "run"}
    ELSE {"run"}
=============================================================================
