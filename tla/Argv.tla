-------------------------------- MODULE Argv --------------------------------
(***************************************************************************)
(* The options of src/src/cli.rs, the environment expansion of whole        *)
(* arguments (src/src/env_expand.rs) and the scanner of src/src/argv.rs,    *)
(* which reads the command line before clap does: to find a request for     *)
(* help that must not need the environment, and to find --quiet when the    *)
(* line turns out not to parse.                                             *)
(*                                                                         *)
(* An argument is a record.  Its form is what its first characters make it: *)
(* "long" is --name, "inline" is --name=value, "short" is -h or -V,         *)
(* "number" is -1, "dash" is - and "escape" is --; "bytes" is not UTF-8;    *)
(* anything else is "plain".  var is the variable its ${...} refers to, and *)
(* good says whether a value parser takes it.                               *)
(***************************************************************************)
EXTENDS Naturals, Sequences

CONSTANTS NoVar,   \* an argument without ${...}
          Unset    \* a variable that is not set

Word(form, name) == [form |-> form, name |-> name, var |-> NoVar, good |-> TRUE]

None == "none"

-----------------------------------------------------------------------------
(* The options: what follows them, and whether they may be given again.     *)
Options(kind, names) == [n \in names |-> kind]

With(s, t) == [n \in DOMAIN s \cup DOMAIN t |->
                  IF n \in DOMAIN s THEN s[n] ELSE t[n]]

RootOptions == With(Options("number", {"timeout", "max-latency"}),
                    Options("flag", {"quiet", "verbose"}))

TlsOptions == With(Options("path", {"ca", "cert", "key"}),
              With(Options("text", {"server-name"}),
                   Options("flag", {"insecure-skip-verify"})))

HttpOptions ==
    With(Options("text", {"url", "path", "method", "host", "body-equals"}),
    With(Options("path", {"sock"}),
    With(Options("texts", {"header", "header-present", "header-equals",
                           "header-contains", "header-not-contains",
                           "contains", "not-contains"}),
    With(Options("numbers", {"status"}),
    With(Options("number", {"max-body"}),
         TlsOptions)))))

TcpOptions == Options("text", {"addr"})

GrpcOptions == With(Options("text", {"addr", "service", "authority"}),
               With(Options("flag", {"tls"}),
                    TlsOptions))

ExecOptions == With(Options("numbers", {"exit-code"}),
               With(Options("texts", {"stdout-contains", "stderr-contains"}),
                    Options("number", {"max-output"})))

FileOptions == With(Options("path", {"path"}),
               With(Options("flag", {"readable", "non-empty"}),
               With(Options("texts", {"contains"}),
                    Options("number", {"min-size", "max-size", "max-age",
                                       "max-read"}))))

OptionsOf == [http |-> HttpOptions, tcp |-> TcpOptions, grpc |-> GrpcOptions,
              exec |-> ExecOptions, file |-> FileOptions]

Commands == DOMAIN OptionsOf

(* Scanner::option_spec: the options of the command, if there is one yet,   *)
(* and then those of the root.                                              *)
OptionOf(command, w) ==
    IF w.form \notin {"long", "inline"} THEN "unknown"
    ELSE IF command \in Commands /\ w.name \in DOMAIN OptionsOf[command]
      THEN OptionsOf[command][w.name]
    ELSE IF w.name \in DOMAIN RootOptions THEN RootOptions[w.name]
    ELSE "unknown"

Numeric(option)    == option \in {"number", "numbers"}
TakesValue(option) == option \notin {"flag", "unknown"}

-----------------------------------------------------------------------------
(* expand_argv_with_partial *)

(* lookup_env and the UTF-8 check of expand_arg_os; an argument without a $ *)
(* need not be UTF-8.                                                       *)
Expandable(w, env) ==
    w.var # NoVar =>
        w.form # "bytes" /\ env[w.var] # Unset /\ env[w.var].form # "bytes"

(* The value of an option is replaced in place; an argument that is nothing *)
(* but ${...} becomes whatever the variable holds.                          *)
Expand(w, env) ==
    IF w.var = NoVar THEN w
    ELSE IF w.form = "inline"
      THEN [w EXCEPT !.var = NoVar, !.good = env[w.var].good]
    ELSE env[w.var]

AllExpandable(words, env) ==
    \A i \in DOMAIN words : Expandable(words[i], env)

(* All arguments expanded, or else those before the first that cannot be.   *)
(* The others stay as they are.                                             *)
Partial(words, env) ==
    [i \in DOMAIN words |->
        IF \A j \in 1 .. i : Expandable(words[j], env)
        THEN Expand(words[i], env) ELSE words[i]]

-----------------------------------------------------------------------------
(* The scanner.  It looks one argument ahead at the value of an option.     *)

(* Mutated: whatever follows an option is its value. *)
AnyCanFollow(value, option) == value.form # "escape"

(* value_can_follow_option; is_negative_number_like("-") holds. *)
CanFollow(value, option) ==
    \/ value.form \in {"plain", "bytes"}
    \/ value.form \in {"number", "dash"} /\ Numeric(option)

(* next_index_after_option_value: the scan cannot go on from words[i]. *)
Stuck(words, i, option) ==
    /\ words[i].form = "long"
    /\ i = Len(words) \/ ~CanFollow(words[i + 1], option)

AfterOption(words, i) == IF words[i].form = "inline" THEN i + 1 ELSE i + 2

IsHelp(w)    == \/ w.form = "short" /\ w.name = "h"
                \/ w.form = "long" /\ w.name = "help"
IsVersion(w) == \/ w.form = "short" /\ w.name = "V"
                \/ w.form = "long" /\ w.name = "version"
IsFlag(w, option) == w.form = "long" /\ option = "flag"
IsCommand(w) == w.form = "plain" /\ w.name \in Commands
IsHelpCommand(w) == w.form = "plain" /\ w.name = "help"

NoHelp == <<>>

(* control_args *)
Control(command, flag) == IF command = None THEN <<flag>>
                          ELSE <<Word("plain", command), flag>>

(* help_subcommand_args, for words[i] = help *)
HelpCommand(words, i) ==
    LET help == Word("plain", "help") IN
    IF i = Len(words) THEN <<help>>
    ELSE <<help, IF IsHelp(words[i + 1]) THEN help ELSE words[i + 1]>>

(* Scanner::new; heard is OutputRequest. *)
Scanner == [index |-> 1, command |-> None, heard |-> {}]

(* One turn of the loops: an option with its value, a flag or the command   *)
(* is passed over; at anything else the scanner stays.  The loop for        *)
(* --quiet also goes on after a request for help of exec.                   *)
Scan(words, s, forQuiet) ==
    LET w      == words[s.index]
        option == OptionOf(s.command, w)
    IN  CASE s.index > Len(words) -> s
          [] s.index <= Len(words) /\ TakesValue(option) ->
               IF Stuck(words, s.index, option) THEN s
               ELSE [s EXCEPT !.index = AfterOption(words, @)]
          [] s.index <= Len(words) /\ IsFlag(w, option) ->
               [s EXCEPT !.index = @ + 1,
                         !.heard = @ \cup ({"quiet", "verbose"} \cap {w.name})]
          [] s.index <= Len(words) /\ s.command = None /\ IsCommand(w) ->
               [s EXCEPT !.index = @ + 1, !.command = w.name]
          [] /\ s.index <= Len(words) /\ forQuiet
             /\ s.command = "exec" /\ IsHelp(w) -> [s EXCEPT !.index = @ + 1]
          [] OTHER -> s

(* The scanner after each turn, and where it ends.                          *)
Scans(words, forQuiet) ==
    LET scan[n \in 0 .. Len(words)] ==
            IF n = 0 THEN Scanner ELSE Scan(words, scan[n - 1], forQuiet)
    IN  scan

Scanned(words, forQuiet) == Scans(words, forQuiet)[Len(words)]

(* help_or_version_args, and trailing_help_or_version_args, which does the  *)
(* same for exec: the line that asks for the same help and nothing else.    *)
HelpScan(words) ==
    LET s == Scanned(words, FALSE)
        w == words[s.index]
    IN  IF s.index > Len(words) \/ TakesValue(OptionOf(s.command, w)) THEN NoHelp
        ELSE IF IsHelp(w) THEN Control(s.command, w)
        ELSE IF s.command = None /\ IsVersion(w) THEN Control(None, w)
        ELSE IF s.command = None /\ IsHelpCommand(w)
          THEN HelpCommand(words, s.index)
        ELSE NoHelp

(* OutputRequest::quiet *)
Quiet(heard) == "quiet" \in heard /\ "verbose" \notin heard

(* Mutated: the command's own arguments are looked at as well. *)
QuietScanOn(words) ==
    Quiet({"quiet", "verbose"} \cap {words[i].name : i \in DOMAIN words})

(* requests_quiet and trailing_requests_quiet *)
QuietScan(words) == Quiet(Scanned(words, TRUE).heard)
=============================================================================
