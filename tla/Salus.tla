-------------------------------- MODULE Salus --------------------------------
(***************************************************************************)
(* src/src/lib.rs, main_entry: from the arguments to the exit code.  The    *)
(* line is scanned for help, expanded, scanned for --quiet and parsed; the  *)
(* options that concern every probe are validated; one probe runs; its      *)
(* latency is judged; what is to be said is printed.  The probe itself is   *)
(* any that keeps ProbeContract.                                            *)
(***************************************************************************)
EXTENDS Clap

CONSTANTS
    Alphabets,     \* the arguments to explore, by the length of the line
    Environments,  \* the environments to explore
    Timeouts,      \* values of --timeout
    Latencies,     \* values of --max-latency, NoLimit among them
    NoLimit,       \* no --max-latency
    TooLong,       \* a --timeout that overflows Instant
    Horizon        \* bound on the clock

ASSUME LinesAssumption == /\ DOMAIN Alphabets \subseteq Nat \ {0}
                          /\ Environments # {}

ASSUME BoundsAssumption == /\ Horizon \in Nat
                           /\ Timeouts \subseteq Nat
                           /\ Latencies \subseteq Nat \cup {NoLimit}
                           /\ TooLong \in Nat /\ TooLong > Horizon

VARIABLES
    raw,         \* the arguments as given
    env,         \* the environment
    pc,          \* where main_entry stands
    args,        \* the arguments clap gets
    cli,         \* --quiet and --verbose, as parsed
    maxLatency,  \* cli.max_latency
    prompt, timeout, phase, outcome, deadline, now,   \* of the probe
    began,       \* history: the timer of the probe has started
    started,     \* Instant::now() before the probe
    elapsed,     \* ProbeReport.elapsed
    code,        \* the exit code
    shown,       \* what was printed: "nothing", "stdout" or "stderr"
    rawRead,     \* history: how clap would have read the line as given
    lastRead,    \* history: how it reads the expanded line, scan or no scan
    span         \* history: how long the probe took, all of it

probeVars == <<prompt, timeout, phase, outcome, deadline, now>>
lineVars  == <<raw, env, args, rawRead, lastRead>>
timeVars  == <<began, started, elapsed, span>>
vars      == <<lineVars, pc, cli, maxLatency, probeVars, timeVars, code, shown>>

Probe == INSTANCE ProbeContract

Summary(words) == LET r == Reading(words) IN
                  [end |-> r.end, heard |-> Heard(r), dash |-> r.dash,
                   execHelp |-> r.end = "help" /\ r.command = "exec"]

NoEnvironment == CHOOSE e \in Environments : TRUE

Init ==
    /\ \E n \in DOMAIN Alphabets : raw \in [1 .. n - 1 -> Alphabets[n]]
    /\ env \in IF \E i \in DOMAIN raw : raw[i].var # NoVar THEN Environments
               ELSE {NoEnvironment}
    /\ pc = "start"
    /\ args = <<>>
    /\ cli = {}
    /\ maxLatency = NoLimit
    /\ prompt = TRUE /\ timeout = 0 /\ deadline = 0 /\ now = 0
    /\ phase = "given" /\ outcome = "none" /\ Probe!Init
    /\ began = FALSE
    /\ started = 0
    /\ elapsed = 0
    /\ code = 0
    /\ shown = "nothing"
    /\ rawRead = Summary(<<>>)
    /\ lastRead = Summary(<<>>)
    /\ span = 0

Exit(c, where) == pc' = "exited" /\ code' = c /\ shown' = where

(* print_and_exit_code_with_quiet, of AppError: a line on stderr.           *)
Fail(c, silent) == Exit(c, IF silent THEN "nothing" ELSE "stderr")

(* The line itself is no longer needed once it is parsed or refused.        *)
Forget(words) ==
    /\ raw' = <<>> /\ env' = NoEnvironment /\ args' = <<>>
    /\ lastRead' = Summary(words)

-----------------------------------------------------------------------------
(* A request for help or the version: the line is replaced before anything  *)
(* is expanded.                                                             *)
Prescan ==
    /\ pc = "start"
    /\ HelpScan(raw) # NoHelp
    /\ args' = HelpScan(raw)
    /\ rawRead' = Summary(raw)
    /\ pc' = "parse"
    /\ UNCHANGED <<raw, env, lastRead, cli, maxLatency, probeVars,
                   timeVars, code, shown>>

ExpandAll ==
    /\ pc = "start"
    /\ HelpScan(raw) = NoHelp
    /\ AllExpandable(raw, env)
    /\ args' = Partial(raw, env)
    /\ rawRead' = Summary(raw)
    /\ pc' = "parse"
    /\ UNCHANGED <<raw, env, lastRead, cli, maxLatency, probeVars,
                   timeVars, code, shown>>

(* A variable is not set or not UTF-8: whether to say so is found out from  *)
(* what could be expanded and the raw rest.                                 *)
ExpansionFails ==
    /\ pc = "start"
    /\ HelpScan(raw) = NoHelp
    /\ ~AllExpandable(raw, env)
    /\ Fail(3, QuietScan(Partial(raw, env)))
    /\ rawRead' = Summary(raw)
    /\ Forget(Partial(raw, env))
    /\ UNCHANGED <<cli, maxLatency, probeVars, timeVars>>

(* The line that clap would have got without the scan for help.             *)
Unscanned == IF HelpScan(raw) # NoHelp THEN raw ELSE args

(* Cli::try_parse_from: help goes to stdout whatever --quiet says.          *)
ParseShows ==
    /\ pc = "parse"
    /\ "help" \in ParseOutcomes(args)
    /\ Exit(0, "stdout")
    /\ Forget(Unscanned)
    /\ UNCHANGED <<cli, maxLatency, probeVars, timeVars, rawRead>>

(* Mutated: clap's own exit code for a usage error. *)
ParseRefusesAsClap ==
    /\ pc = "parse"
    /\ "usage" \in ParseOutcomes(args)
    /\ Fail(2, QuietScan(args))
    /\ Forget(Unscanned)
    /\ UNCHANGED <<cli, maxLatency, probeVars, timeVars, rawRead>>

ParseRefuses ==
    /\ pc = "parse"
    /\ "usage" \in ParseOutcomes(args)
    /\ Fail(3, QuietScan(args))
    /\ Forget(Unscanned)
    /\ UNCHANGED <<cli, maxLatency, probeVars, timeVars, rawRead>>

ParseAccepts ==
    /\ pc = "parse"
    /\ "run" \in ParseOutcomes(args)
    /\ pc' = "run"
    /\ cli' = Heard(Reading(args))
    /\ timeout' \in Timeouts
    /\ maxLatency' \in Latencies
    /\ prompt' \in BOOLEAN
    /\ Forget(args)
    /\ UNCHANGED <<phase, outcome, deadline, now, timeVars, code, shown,
                   rawRead>>

-----------------------------------------------------------------------------
(* run(): --timeout is positive and fits, --max-latency is positive.        *)
ValidOptions == /\ timeout > 0 /\ timeout < TooLong
                /\ maxLatency # 0

RunRefuses ==
    /\ pc = "run"
    /\ ~ValidOptions
    /\ Fail(3, "quiet" \in cli)
    /\ UNCHANGED <<lineVars, cli, maxLatency, probeVars, timeVars>>

RunStarts ==
    /\ pc = "run"
    /\ ValidOptions
    /\ started' = now
    /\ pc' = "probe"
    /\ UNCHANGED <<lineVars, cli, maxLatency, probeVars, began, elapsed, span,
                   code, shown>>

(* The probe prepares and begins; time passes while it does.                *)
ProbeBegins ==
    /\ pc = "probe"
    /\ Probe!Begin
    /\ began' = TRUE
    /\ UNCHANGED <<lineVars, pc, cli, maxLatency, started, elapsed, span, code,
                   shown>>

Tick ==
    /\ pc = "probe"
    /\ now < Horizon
    /\ now' = now + 1 /\ Probe!Wait
    /\ span' = span + 1
    /\ UNCHANGED <<lineVars, pc, cli, maxLatency, began, started, elapsed, code,
                   shown>>

(* Mutated: only the time since the timer started counts. *)
ProbeHealthySinceTimer ==
    /\ pc = "probe"
    /\ Probe!End("healthy")
    /\ elapsed' = now - (deadline - timeout)
    /\ pc' = "report"
    /\ UNCHANGED <<lineVars, cli, maxLatency, began, started, span, code, shown>>

(* ProbeReport::new *)
ProbeHealthy ==
    /\ pc = "probe"
    /\ Probe!End("healthy")
    /\ elapsed' = now - started
    /\ pc' = "report"
    /\ UNCHANGED <<lineVars, cli, maxLatency, began, started, span, code, shown>>

(* AppError::exit_code *)
ExitCode == [failure |-> 1, timeout |-> 1, invalid |-> 3, internal |-> 4]

(* The probe is refused before it begins. *)
ProbeRefuses ==
    /\ pc = "probe"
    /\ Probe!Refuse
    /\ Fail(ExitCode.invalid, "quiet" \in cli)
    /\ UNCHANGED <<lineVars, cli, maxLatency, timeVars>>

ProbeFails ==
    /\ pc = "probe"
    /\ \E o \in DOMAIN ExitCode :
          /\ Probe!End(o)
          /\ Fail(ExitCode[o], "quiet" \in cli)
    /\ UNCHANGED <<lineVars, cli, maxLatency, timeVars>>

(* enforce_max_latency *)
TooSlow == maxLatency # NoLimit /\ elapsed > maxLatency

ReportTooSlow ==
    /\ pc = "report"
    /\ TooSlow
    /\ Fail(1, "quiet" \in cli)
    /\ UNCHANGED <<lineVars, cli, maxLatency, probeVars, timeVars>>

(* ProbeReport::print_and_exit_code *)
Report ==
    /\ pc = "report"
    /\ ~TooSlow
    /\ Exit(0, IF "verbose" \in cli /\ "quiet" \notin cli THEN "stderr"
               ELSE "nothing")
    /\ UNCHANGED <<lineVars, cli, maxLatency, probeVars, timeVars>>

Exited == pc = "exited" /\ UNCHANGED vars

Next ==
    \/ Prescan \/ ExpandAll \/ ExpansionFails
    \/ ParseShows \/ ParseRefuses \/ ParseAccepts
    \/ RunRefuses \/ RunStarts
    \/ ProbeRefuses \/ ProbeBegins \/ Tick \/ ProbeHealthy \/ ProbeFails
    \/ ReportTooSlow \/ Report
    \/ Exited

Spec == Init /\ [][Next]_vars
=============================================================================
