--------------------------- MODULE SalusProperties ---------------------------
(***************************************************************************)
(* What a caller of the program, such as a container runtime, may rely on.  *)
(***************************************************************************)
EXTENDS Salus

Summaries == [end : {"open", "escape", "command", "help", "helpCommand", "topic",
                     "noTopic", "topicHelp", "moreThanTopic", "usage"},
              heard : SUBSET {"quiet", "verbose"}, dash : BOOLEAN,
              execHelp : BOOLEAN]

(* Every variable of the runner has its type. *)
TypeOK ==
    /\ \A i \in DOMAIN raw : raw[i] \in Alphabets[Len(raw) + 1]
    /\ Len(args) <= Len(raw)
    /\ env \in Environments
    /\ pc \in {"start", "parse", "run", "probe", "report", "exited"}
    /\ cli \in SUBSET {"quiet", "verbose"}
    /\ maxLatency \in Latencies \cup {NoLimit}
    /\ {prompt, began} \subseteq BOOLEAN
    /\ phase \in {"given", "probing", "ended"}
    /\ outcome \in Probe!Outcomes \cup {"none"}
    /\ {timeout, deadline, now, started, elapsed, span} \subseteq Nat
    /\ code \in {0, 1, 3, 4}
    /\ shown \in {"nothing", "stdout", "stderr"}
    /\ {rawRead, lastRead} \subseteq Summaries

-----------------------------------------------------------------------------
(* A failure is kept silent only if --quiet was given as an option: not as  *)
(* the value of another option, not as an argument of exec's command, not   *)
(* after --, and not beyond the point where the line stops making sense.    *)
(* The scanner that decides this when expansion or parsing fails is not the *)
(* parser; the two must agree.  Not covered: exec's --help, out of a        *)
(* variable, on a line that fails for another reason.  clap reads nothing   *)
(* after it; the scanner does.                                              *)
SilenceIsAsked ==
    pc = "exited" /\ code # 0 /\ shown = "nothing" =>
        "quiet" \in lastRead.heard \/ lastRead.execHelp

(* A --quiet that clap would have read before the error silences the error, *)
(* unless --verbose contradicts it.  Not covered: exec's --help as above, a *)
(* text option whose value is -, which the scanner takes for an option, and *)
(* help for a command that does not exist, whose replacement line drops     *)
(* --quiet.                                                                 *)
QuietIsHeard ==
    /\ pc = "exited" /\ code # 0
    /\ lastRead.heard = {"quiet"}
    /\ ~lastRead.dash /\ ~lastRead.execHelp /\ lastRead.end # "noTopic"
    => shown = "nothing"

AsksForHelp(r) == r.end \in {"help", "helpCommand", "topic", "topicHelp",
                              "moreThanTopic"}

(* Who asks for help or the version gets it, whatever the environment lacks *)
(* and whatever the values of the other options are.                        *)
HelpNeedsNothing ==
    /\ pc = "exited"
    /\ AsksForHelp(rawRead)
    /\ ~rawRead.dash
    => code = 0 /\ shown = "stdout"

(* And nobody else gets it: a health check that shows help and exits with 0 *)
(* would pass for a healthy probe.  In particular no argument of exec's     *)
(* command, no option value and nothing after -- is a request for help.     *)
HelpIsAsked ==
    pc = "exited" /\ shown = "stdout" => AsksForHelp(lastRead)

(* Exit code 0 without help means that the probe ran, was healthy and took, *)
(* from the validation of the options to its report, no longer than         *)
(* --max-latency; 1 means that it ran and failed, timed out or took longer, *)
(* and never that it could not be started, which is 3 as for the line and   *)
(* the options; 4 means that it ran and broke.                              *)
ExitCodeIsTrue ==
    pc = "exited" =>
        /\ code = 0 /\ shown # "stdout" =>
              outcome = "healthy" /\ (maxLatency # NoLimit => span <= maxLatency)
        /\ code \in {1, 4} \/ outcome = "healthy" => began
        /\ code = 1 =>
              \/ outcome \in {"failure", "timeout"}
              \/ outcome = "healthy" /\ maxLatency # NoLimit /\ span > maxLatency
        /\ code = 4 => outcome = "internal"
        /\ code = 3 => outcome \in {"none", "invalid"}

(* Nothing is said of a success unless --verbose asks for it, so that a     *)
(* passing check adds nothing to a log; and what a probe says goes to       *)
(* stderr.                                                                  *)
SuccessIsSilent ==
    pc = "exited" /\ outcome = "healthy" /\ code = 0 =>
        (shown = "stderr" <=> cli = {"verbose"})

-----------------------------------------------------------------------------
(* What is printed is what was asked for, on every path through the runner: *)
(* no failure is swallowed and no silence broken.                           *)
OutputIsAsked == SilenceIsAsked /\ QuietIsHeard /\ SuccessIsSilent

(* Help goes to those who ask for it and to nobody else, although it is     *)
(* looked for by another reader than the parser.                            *)
HelpIsRight == HelpNeedsNothing /\ HelpIsAsked
=============================================================================
