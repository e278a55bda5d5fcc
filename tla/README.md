# salus: TLA+ models, model checks and proofs

`salus` is a command that probes a service once (over HTTP, TCP or gRPC, by
running a command, or by looking at a file) and reports healthy (exit code 0),
unhealthy (1), invalid configuration (3) or an internal error (4). It is used as a
container health check, so two mistakes matter: a *healthy* that was not earned,
and a failure whose reason is not true. Both hang on control that is hard to test:
a child process with descendants of its own, reader tasks that race a deadline,
bytes cut off at a limit, a server that stops anywhere, certificates that are
rotated while they are read, a command line that is read twice.

This directory models that control in TLA+, checks it with TLC on small
instances and proves the central safety properties with TLAPS for all
instances. Paths below are those of the repository (`src/probes/exec.rs`, ...);
`PROJECT.json` maps every definition to its lines.

## 1. Inventory

The program is one process with a single-threaded tokio runtime
(`src/main.rs:14`). It runs one probe and exits; nothing is persisted.

| Component | State it keeps | Operations | Talks to | What makes it correct |
|---|---|---|---|---|
| exec probe, `probes/exec.rs` | child, process group id, per stream a reader task, a mutex-protected `BufferedOutput` and a watch channel, two deadlines | validate, spawn, wait, kill the group, read a chunk, see the end, settle after the exit, judge | the command and its descendants (pipes, signals), capture buffer, matcher, runtime timers | healthy is earned; absence is proven; truncation is real; the deadline holds; no process of the group survives |
| capture buffer, `capture.rs`; matcher, `text_match.rs` | the first bytes of a stream and an `incomplete` flag; which texts were found | append up to a limit, observe what was appended | exec, HTTP and file probes | the buffer is a prefix and says so; the incremental search is exact |
| HTTP probe, evaluation, `probes/http.rs:669-1223` | status, headers, body capture, two matchers, the wait at the limit | evaluate the response, read frames, wait for the end, judge | server, hyper's frames, probe timeout | as for exec, for bodies that are framed, broken off or left open |
| HTTP probe, preparation and connection, `probes/http.rs:53-668` | what is prepared, a client with its connection | validate URL, socket path, method, headers, ranges; load TLS; connect by URL or socket; send the request | authority validation, TLS options, server | what is refused is refused before anything is sent; the request goes where it was asked to go, over a connection that was verified for it |
| TCP probe, `probes/tcp.rs` | list of addresses, shared deadline | look up, try addresses in turn, share out the time | resolver, peers, timeout | connects if some address answers in its share; ends in time |
| file probe, `probes/file.rs` | metadata, then contents | check metadata, open, read, match | file system, which changes meanwhile; capture, matcher | each claim is true of the file at some moment of the probe |
| gRPC probe, `probes/grpc.rs` | a channel that may connect again | validate, load TLS, connect, shake hands, call `Check`, compare the status | TLS options, tonic, server | address, verified name and authority of the request stay three different things; nothing is sent unprotected |
| TLS options, `tls.rs` | certificates, key and roots, once loaded | validate combinations, inspect, open and parse PEM files, build a verifier | file system, HTTP and gRPC probes | no option is silently ignored; a configuration that is accepted can authenticate and be authenticated |
| probe runner, `lib.rs`, `main.rs`, `probe.rs`, `validation.rs`, `error.rs` | timeout, latency limit, quiet and verbose, the report | validate, run one probe, enforce the latency, print, exit | all probes, argument scanner, parser | exit code and output tell the same story, and the true one |
| argument scanner, `argv.rs` | position in the line, command found so far | find `--help`, `--version` and `help` before expansion, `--quiet` when expansion or parsing fails | parser, environment expansion | reads the line as the parser does |
| environment expansion, `env_expand.rs` | none | `${VAR}`, `${VAR:-default}`, `$$` in every argument | environment | each argument expanded once, part by part |
| authority validation, `authority.rs` | none | split and validate host and port | HTTP, TCP, gRPC | accepts exactly host and host:port |
| CLI declarations, `cli.rs` | none | declare commands and options | parser, scanner | scanner and parser know the same options |
| printing, `output.rs`, `diagnostic.rs` | none | quote and print | runner | no control of their own |

What is hard in it, and where (`hazards` in `PROJECT.json` gives the lines):

* **Concurrency with processes that owe us nothing.** A command can exit while a
  daemon it left keeps its stdout open; the last chunk, the end of file, the
  grace timer and the exit come in any order.
* **Snapshots.** A verdict is given on a copy of shared state taken when a task
  is aborted, read after other state that decided to take it.
* **Limits.** Exactly full, one byte more, a text cut in half at the limit, a
  text that straddles two chunks.
* **Time.** Graces within a deadline; a deadline racing an answer; time that no
  timer counts, and a latency that must count all of it.
* **Files that change.** Looked at by path, then opened by path; certificate and
  key rotated one after the other, read one after the other.
* **Two readers of one line.** The scanner of `argv.rs` and clap must agree on
  what is an option, before and after the expansion of variables that may
  themselves turn into options.
* **Three names.** Where to connect, whom to verify and what to ask for.
* **Cleanup on every return path**, without signalling a process-group id that
  may have been given to a stranger.

## 2. Modules

| Module | What it is |
|---|---|
| `TextMatch` | `text_match.rs` as operators: `ContainsSlice`, `NewMatcher`, `ObserveAppended`, `AllMatched`, `AnyMatched` |
| `CaptureBuffer` | `capture.rs` as operators: `AppendLimited`, `MarkIncomplete`; `Capture(seq, limit)` is what they should amount to |
| `OutputCapture` | the data an exec reader shares with the probe: `BufferedOutput`, `OutputProgress`, one chunk (`Absorb`), and the class of error for a missing text |
| `ExecProbe`, `ExecProperties`, `MCExecProbe` | the exec probe as a state machine with its environment, its promises, its instances |
| `ExecInvariant` | its inductive invariant `IInv` |
| `HttpBody`, `HttpProperties`, `MCHttpBody` | evaluation of an HTTP response, its promises and instances |
| `TcpProbe`, `TcpProperties` | the TCP probe and its promises (the configurations run `TcpProperties`) |
| `FileProbe`, `FileProperties`, `MCFileProbe` | the file probe, its promises and instances |
| `TlsConfig` | `tls.rs` as operators: which options are accepted, what is read in which order, what a file must hold, which peer is accepted |
| `RemoteProbe`, `RemoteProperties`, `MCRemote` | the gRPC and the HTTP probe from the validated options to the answer, their promises and instances |
| `ProbeContract` | the abstract specification of any probe: refused, or run under a deadline to one outcome |
| `Argv` | the options of `cli.rs`, expansion of whole arguments, the scanner of `argv.rs` |
| `Clap` | the command line as clap reads it: a library, modelled by what the program and its tests rely on |
| `Salus`, `SalusProperties`, `MCSalus` | `main_entry`, from the line to the exit code, around any probe that keeps the contract |
| `EnvExpand` | expansion of the text of one argument |
| `Authority`, `HttpTarget` | host and port; `--url`, `--path`, `--status` and the default Host header |
| `HttpHeaders` | `--header` and the header assertions: what is accepted, what a request carries, when a response passes |
| `TextProperties`, `MCText` | texts put together piece by piece, and grammars for what must become of them |
| `CaptureProofs` | lemmas on buffer and matcher |
| `ExecProofs` | exec probe: types, cleanup, deadline, readers, contract; the inductive invariant and the meaning of each verdict |
| `FileProofs`, `TcpProofs`, `RemoteProofs`, `HttpProofs` | the proofs about the other four probe models |
| `TextProofs` | what expansion makes of an argument; which texts are accepted as target, status or header, and how they are read |
| `SalusProofs` | the two readers of the line agree on every line; the runner's types, output, help and exit codes |

How they compose. `OutputCapture` and `HttpBody` extend `CaptureBuffer`, which
extends `TextMatch`; `FileProbe` uses both as well. `RemoteProbe` extends
`TlsConfig`; its `Answer` is the place where `HttpBody` begins for HTTP. Each of
the five probe models instantiates `ProbeContract` with a refinement mapping
(`Contract`, with `Phase` and `Outcome` as its mapping) and implements it
(`KeepsContract`). `Salus` instantiates the same `ProbeContract` as its probe:
what is checked of `Salus` therefore holds around each of them. `Salus` extends
`Clap`, which extends `Argv`.

The runner needs little of a probe, and `ProbeContract` says just that: it is
refused before it begins (`Refuse`), which makes the invocation invalid and says
nothing of the service, or its timer starts (`Begin`) and it ends with one outcome
(`End`); a timeout is never early, and on an idle host no time
passes beyond the deadline (`Wait`). `Begin` may come late: `Wait` before it is
the time that the preparation of a gRPC or HTTP probe takes, which no timer
counts.

### ExecProbe

*State.* `pc` is where `run()`'s future stands: `start`, `spawned` (before
`deadline_after`), `wait` (in `child.wait()`), `reaped`, `collect` (at the head of
the loop of `await_output_task`), `settle` (in the `select!`), `judge`, `done`.
`cur` is the stream being awaited, `output` what was returned for each,
`outputBy`/`settleBy` the deadlines, `armed` whether `ProcessGroupCleanup` still
holds the group id. Per stream: `task` (the join handle), `found` (the matcher),
`out` (behind the mutex), `progress` and `unseen` (the watch channel: its value
and whether its version is newer than the one seen). Outside: `proc`, `status`,
`holders` (who holds the write end), `pipe`, and the history `delivered`,
`atExit`, `reapedAt`, `lateSignals`, which only properties read.

*Actions.* One per stretch of code that runs without suspending, since the
runtime has one thread: readers take steps only while the probe's future is
suspended (`Scheduled`), processes and the kernel at any time. `Collect*` are the
cases at the head of the loop, in the order of the code; `Settle*` the three
branches of the `select!`, all enabled together since it is not biased. Every
return goes through `Terminate` (the `Drop` of the cleanup) or `TerminateChild`
(`kill_on_drop`). A command that cannot be started (`SpawnFails`), whatever the
reason, makes the invocation invalid, as in `exec.rs:86-94`; `KeepsContract` would
not allow it to count as a command that failed.

*Environment* (`external` in the map). Members of the group fork, leave the group
(`setsid`), write, close a stream, exit with any code or by signal; a killed
process dies some time later. Leaving out nothing a shell script can do to the
two pipes.

*Time* is an integer clock. It stands still in a stretch of code and advances
while the future is suspended and its timer has not fired. With `Prompt = FALSE`
any runnable process or task may be delayed arbitrarily past a tick: this is the
loaded host, and the setting in which all safety properties are checked and
proved. With `Prompt = TRUE` the clock waits for everything runnable
(`Quiescent`): the idle host, in which it makes sense to ask that nothing good is
missed. In the other probes the same choice is a variable, `prompt`, so that
one run covers both hosts.

### HttpBody

*State.* `pc`: `start`, `request` (sent, no response yet), `read` (in the loop of
`read_body`), `grace` (in `wait_for_body_eof_after_limit`), `judge`, `done`;
`content`, `required`, `forbidden`, `impossible` are the locals of `read_body`,
`declared` the exact `size_hint`. The server's side is `sent`, `ended`
(`no`/`complete`/`broken`) and `frames`, those not yet read; a frame `<<>>` stands
for trailers, which the code skips.

*Actions.* `Prepare` (validation of the body assertions), `Respond` (status, then
headers, then the shortcut of a declared length that cannot be right),
`ReadFrame` (one turn of the loop with all its exits, in their order), `SkipFrame`,
`ReadEnd`, `ReadBroken`, `GraceMore`, `GraceTimesOut`, `Judge`
(`assert_response_body`) and `TimesOut` (`with_probe_timeout`, around all of it).
Whether status and headers are acceptable is an input; `HttpTarget` and
`HttpHeaders` say what decides it. The server sends frames of
any size, ends, breaks off or hangs.

### TcpProbe

*State.* `pc`: `start`, `lookup`, `next` (head of the loop over addresses),
`connect`, `done`. `addrs` are the addresses with what each peer will do: accept
or refuse after some time, or stay silent. `errors` are the errors of the attempts
that ended; the code keeps the last one (`last_error`), and its length plus one is
the index of the loop. `deadline` is taken after the lookup
(`tcp.rs:45`), the timeout of `TimesOut` counts from the start.

*Time.* `MinAttempt` is the millisecond of `per_attempt_timeout` in units of the
clock. On an idle host (`prompt`) a connection that is ready when its time is up
is taken and timers fire on time; on a loaded one the process may be held up
anywhere, also between the lookup and the first attempt, and timers fire late.

### FileProbe

*Actions.* One per system call, with what the code concludes from it at once.
`Metadata` finds the file or not; `MetadataFails` is any other error of the call
(`file.rs:67`), which a verdict must not take for a file that does not exist.

*State.* `pc` names the system call that comes next; `size`, `fd`, `offset`, `body`,
`found` are the locals of `run_inner` and `read_file`. `path` is the file the path
names now, `disk` the files. Opening a FIFO leads to `hang`.

*Environment.* Other programs append to a file, truncate it, put another file in
its place, remove it and change its permissions, between any two system calls.
What was captured is a prefix of the file only as long as nobody has truncated it,
and this condition is part of the properties (`AppendOnly`; the history variables
`truncated` and `swapped` remember what was done). A healthy verdict may join the
size of one file with the contents of another that took its place;
`HealthyIsEarned` says what is left then, and what holds when no file was swapped.

### RemoteProbe

*State.* `pc`: `start`, `inspect` and `open` (the two system calls on a PEM file),
`blocked` (in `open(2)` of a pipe), `connect`, `handshake`, `send`, `answer`,
`done`. `todo` are the files still to be read, by the option that names them
(`Loads`: certificate, key, roots), `loaded` what was read, `conn` the connection
with the peer it was verified against, `request` the request with its authority
and what it was sent over. An invocation has a host, an override `as` of the name
in the request (`--host`, `--authority`) and the options of TLS, with
`--server-name` among them. `other` stands for the validity of all other
arguments, which have no part in what follows. Certificates are known by the party
they belong to.

*Actions.* `Validate`, then `Inspect` and `Open` for each file, then `Begin`, which
also finds out whether certificate and key are of one party, and starts the timer.
`Connect`, `Handshake`, `Send` and `Answer`; a gRPC channel may lose its connection
and connect again (`Reconnect`). The network may fail at any point, a peer may
present any certificate, nobody needs to answer.

*Environment.* Other programs replace the files while they are being read, with
other certificates and keys, garbage or a pipe; a pipe that is waited for may be
served (`ServePipe`). `seen` remembers every version of every file. Reading may
take up to `MaxDelay`, also on an idle host: no property of a scheduler makes a
disk fast.

### Salus

*State.* `raw` is the line as given, `args` the line that clap gets, `cli` the
flags it found; then the variables of `ProbeContract`, the history variable `began`
(the probe's timer has started), the times of the latency, the exit code and where
something was printed. An argument is a record: its form
(`long`, `inline`, `short`, `number`, `dash`, `escape`, `bytes`, `plain`), its
name, the variable it refers to and whether a value parser takes it.

*Actions.* `Prescan` (a request for help, found before expansion), `ExpandAll` or
`ExpansionFails` (with what is left of the line when the first variable fails),
`ParseShows`, `ParseRefuses`, `ParseAccepts`; `RunRefuses` and `RunStarts`; the
probe's own steps, `ProbeRefuses` (exit code 3) and `ProbeFails`; `ReportTooSlow`,
`Report`. The value of
`--timeout` and `--max-latency` is drawn when the line is accepted.

*Two readers.* `Scan` is one turn of the loops of `argv.rs`, which pass over an
option with its value, a flag or the command and stay at anything else; `Scans` are
the turns, `Scanned` is where the scanner ends, and `HelpScan` and `QuietScan` are
what it concludes. The code has four loops: one pair looks for help, the other for
`--quiet`, and within a pair the second loop takes over after `exec`. They differ
in one turn, the one that passes over `exec --help` (`forQuiet`). `Read` is one
step of clap, from one argument to the next, `Reading` the last of them. Properties
compare what the scanner decided with `Reading` of the same line. Both are recursive
functions over the positions of the line, so that they can be proved about.

### Texts

`TextProperties` builds texts out of pieces: arguments with `$`, `${`, `}`, `:-`;
authorities with colons, brackets, digits; URLs; status ranges; headers. A
character stands for its class, and the names of headers that the code knows have
one or two characters. `EnvExpand`, `Authority`, `HttpTarget` and `HttpHeaders` say
how the code reads them, in the order of the code; the properties say what they are, without an
order: `Readings(t)` are all ways to cut a text into host and port, whoever finds
them. In `EnvExpand`, `Turn` is one part taken by the loop of `expand_text`: a
doubled dollar, an expression up to its first `}`, or one character; `Size` says
how far it reaches and `Meaning` what it becomes. `Turns` are the turns, one for
each character at most. `AssertionsFit` says how the assertions on a response relate to each other
and to the request, for every header and a fixed set of responses, in which a
header may be missing or come twice with different values.

## 3. Runs

| Run | Question | Properties | Bounds | Distinct states |
|---|---|---|---|---|
| `exec_stream` | what a verdict means and what is left behind, one stream; also what `run()` refuses, an overflowing deadline, other exit codes, no assertion | `HealthyIsEarned`, `AbsenceIsProven`, `LimitIsReal`, `NoStrays`, `ReadersAreRight`, `SignalsOnlyWhenReaped`, `KeepsContract` | text of 2 bytes, limits 2 and 3, up to one byte beyond, reads and pipe of 2, one descendant, timeout 3 | 686,192 |
| `exec_two` | two streams under one deadline: the inductive invariant, with it the truth of each verdict about the right stream, and no grace beyond the deadline | `IInv`, `KeepsContract` | one byte per text, limit 1, 2 bytes per stream, timeout 2 | 3,565,105 |
| `exec_prompt` | nothing good is missed on an idle host, with one and with two streams | `OpenIsReal`, `NothingMissed` | as the two above, reads and pipe of 1, timeout 2 | 2,871,978 |
| `exec_live` | every probe ends, and soon after the exit although a daemon writes on | `GraceIsBounded`, `Terminates` | timeout 8, graces 1, 1 and 2, 6 bytes | 169,483 |
| `http_body` | what a verdict on a body means, that nothing good is missed, that the probe ends | `HealthyIsEarned`, `DenialIsProven`, `CutIsReal`, `StopsWhenDecided`, `NothingMissed`, `KeepsContract`, `Terminates` | every kind of assertion, limits 1 to 3, bodies up to 4 bytes in frames of 1 and 2, two frames queued, grace 2, timeout 4 | 472,000 |
| `http_lack` | a claim of `capture.rs:4-5` that the code breaks (see Findings) | `LackIsTrue` (violated) | limit 3, bodies up to 3 bytes | |
| `tcp_probe` | who is found, what a failure means, that the probe ends and ends in time | `NothingMissed`, `FailureIsTrue`, `KeepsContract`, `Terminates` | 4 addresses, timeout 7 (shares of 2 to 7 that do not divide evenly, and of 1, below the least time of an attempt, 2), answers after 2 or 3, clock to 8 | 730,471 |
| `file_probe` | a file that changes under the probe: what was captured, what a verdict means, what can make it hang | `CaptureIsPrefix`, `HealthyIsEarned`, `OnlySwapsHang`, `VerdictIsRight`, `KeepsContract`, `Terminates` | two files, up to 3 bytes, ages 0, 1, 3 against a start at 2, 2 changes, reads of 1 or 2 bytes, 14 invocations | 2,555,196 |
| `remote` | where a request may go and over what, what is called invalid, that the probe ends unless a pipe blocks it | `RequestIsProtected`, `RejectionIsTrue`, `KeepsContract`, `Ends` | 21 invocations, files in order or with one of 7 faults in one of three files, 2 rotations out of 4 contents, with and without bundled roots, timeout 2, one tick for the files | 785,600 |
| `remote_deadline` | a claim of `README.md:70` that the code breaks (see Findings) | `DeadlineIsHard` (violated) | files that nobody changes, one tick to read them | |
| `salus` | every line and what becomes of it: who is kept silent, who is shown help, what an exit code means | `TypeOK`, `OutputIsAsked`, `HelpIsRight`, `ExitCodeIsTrue` | up to 4 arguments out of 20, 5 out of 9; 6 values of the variable; timeouts 0, 1 and one that overflows; latency limits none, 0, 1; clock to 3 | 1,156,702 |
| `text` | what expansion, the validators, `--status`, `--header` and the header assertions make of every text; how the assertions judge responses | `ExpansionIsRight`, `RequestIsRight` | up to 6 pieces, for headers 5 of 9; IPv6 addresses of three groups, ports to 10, codes 1 to 3 | 789,600 |

*Why these bounds.* The two-byte text is the shortest that can straddle two chunks
and be cut at the limit. Limits 2 and 3 against 4 bytes give output below, at and
beyond the limit, and one byte beyond one that was already full. Reads smaller
than what was written and a pipe that fills up give every split. One descendant
suffices to hold a stream open after the exit, in the group or out of it. The
timeout exceeds the graces in `exec_live` and cuts them short in the others. In
`tcp_probe`, seven units for four addresses give each less than an attempt takes at
least, so that the first ones use up what the last would need. In
`remote`, one rotation gives a probe the certificate of one pair and the key of
another, and two replace the whole pair or put a pipe in the place of what
replaced it; two names and two authorities are what it takes to mistake one for
the other. In `salus`, five arguments hold a root option with its value, a
command, an option of the command and one more argument, which is the longest
distance over which the scanner looks; the longest lines use only the arguments
that matter to it. In `text`, three groups make `::` stand for none, one or two,
at either end or in the middle, and a port of two digits be within the bound or
beyond it. Proofs lift all of this for the properties they cover.

Deadlock is checked in every run: only a probe or a program that has ended may
stop. A blocked `open(2)` is no deadlock in the model, since somebody may still
write to the pipe or the clock go on; `Ends` names it instead.

*Fairness* (runs with a liveness property). `WF(MainStep)`, `WF(ReaderStep)`:
tokio polls a woken task again. `WF(Tick)`: clocks go on. `WF(Die)`: SIGKILL takes
effect. Nothing is assumed of the command or the server; failures of the operating
system are never owed. HTTP, TCP, file, remote: `WF(ProbeStep)` and `WF(Tick)`,
where `ProbeStep` is what the probe can do by itself; servers, resolver, peers,
network and other programs owe nothing.

Each property has a mutant in `PROJECT.json`: a small bug in a mapped definition
(its operator stands before the original, marked `Mutated`) that the run detects.

## 4. Findings

`http_lack`: `read_body` stops at the first forbidden text and leaves the buffer's
`incomplete` flag clear, although the rest of the body was not read;
`assert_response_body` judges required texts first. With `b` required and `aa`
forbidden, the body `aab` is reported as "does not contain required text". The
probe is right to fail; the reason it prints is false, and `capture.rs:4-5`
describes the flag as set whenever the captured bytes cannot prove the full
contents. `DenialIsProven` states what does hold: a denial is true, or the body
has forbidden text.

`remote_deadline`: `README.md:70` calls `--timeout` a hard deadline for the whole
probe. The PEM files are read with blocking calls before the timer starts
(`grpc.rs:65` before `grpc.rs:72`, `http.rs:93` before `http.rs:96`), and the
timer does not count what they took: a probe whose files lie on a slow file system
is healthy after `--timeout`. `KeepsContract` states what does hold: the deadline
counts from the end of the preparation. `--max-latency` does count it
(`ExitCodeIsTrue`).

Smaller things that the models came upon, and that the properties leave out by name:

* The scanner takes a `-` that is the value of a text option for an option
  (`argv.rs:345`), so `salus file --path - --quiet ${UNSET}` prints its error.
  `QuietIsHeard` and `HelpNeedsNothing` except lines with such a value (`dash`).
* After `exec --exit-code=bad --help` clap reads nothing more, while the scanner for
  `--quiet` passes over the `--help` and goes on (`argv.rs:186`). Where the `--help`
  comes out of a variable, so that the scan for help does not find it first, `exec
  --exit-code=bad ${V} --quiet` is refused in silence. `SilenceIsAsked` and
  `QuietIsHeard` except such lines (`execHelp`).
* `salus --quiet help nosuch`: the line that replaces a request for help has no
  `--quiet` any more, so the error is printed (`noTopic`).
* `AbortOnDrop` around the connection task of a Unix socket aborts a task that the
  single-threaded runtime would drop with itself in any case.

## 5. Proofs

The named assumptions say that constants are of their types: invocations are
well-typed, times and sizes are naturals (positive where the code has a positive
constant), exit codes are 0..255, the leader is not a descendant, `None` is no
value of anything, no name of a variable holds a character that has a meaning in an
expansion. Of texts they say that classes of characters that the code tells apart
are disjoint (`ClassesAssumption`: a digit is hexadecimal and may be in a name; no
such character is a blank, bracket, colon or percent sign), that an IPv6 address
has at least three groups and the smallest status is positive
(`NumbersAssumption`: 8 and 100 in the code), and that `Host` and `User-Agent` are
two headers that a request may set (`HeadersAssumption`). Bytes, texts, limits,
frames, addresses, files, hosts, numbers of processes and timeouts are arbitrary.

*Lemmas* (`CaptureProofs`). `AppendHolds`: appending a chunk to a buffer that holds
`Capture(s, limit)` gives `Capture(s \o chunk, limit)`, `incomplete` iff there was
more. `SearchResumes`: a text that ends in the new part begins at or after
needle length minus one before the old end. `ObserveIsExact`: hence the chunk-wise
matcher agrees with a search of the whole buffer.

*Exec probe, directly* (`ExecProofs`). `TypeCorrect` first; on it `GroupIsKilled`
(once `armed` is down no member is left, and nobody can join an empty group),
`NoLateSignal`, `DeadlineHolds` (no timer is set beyond the deadline and the clock
stops at a timer), `PipesStayOpen`, `NoAbortedJoin` (an aborted task's stream is
never awaited again), `ReadersKept` from these two, and `ContractKept`.

*Exec probe, the inductive invariant* (`ExecProofs`, second half). None of `HealthyIsEarned`,
`AbsenceIsProven`, `LimitIsReal` is inductive: they speak of `done` and say nothing
of how it is reached. `IInv` adds what each point of the run knows:

* `ControlInv`: what `pc` says about group, leader and exit code;
* `TimeInv`: no timer beyond the deadline;
* `TaskInv`: a reader finishes only when nobody holds the pipe and it is empty,
  and is aborted only when its stream is done with;
* `CaptureInv`: what is behind the mutex is an exact account of what was read;
* `SettledInv`: the copy in the hands of `run()` equals the shared state, because
  nothing is read after it was taken;
* `GraceInv`: how far the clock can be past the exit at each point of the two
  waits. One grace may begin as late as the other ends, but only once: a byte
  beyond the limit decides;
* `ProcInv`: who has ended holds no pipe;
* `PromptInv`, for the idle host: the clock moves past the exit only when the
  readers have caught up with what the command had written, and only for the sake
  of a descendant; a stream that is settled without a match had caught up or was
  beyond its limit.

Given these, a verdict is a fact about what was *written*: the reader's prefix is
a prefix of it, a finished reader has read it all, and nobody can write any
more. `Inductive` proves `Spec => []IInv`, one step per action; `HealthyHolds`,
`AbsenceHolds`, `LimitHolds`, `CaptureHolds`, `OpenHolds`, `MissedHolds` and
`GraceHolds` follow. `DeservedJudge` is the heart of `MissedHolds`: when `run()`
judges the output of a command that deserves to pass, every needle is in what was
captured.

*File probe* (`FileProofs`). `OthersOnlyAppend` sums up the environment: unless
something is truncated or the path is changed, each file stays the same or gets
longer. `FileInv` adds to the properties that nothing is captured before the file
is open (`UntouchedInv`), that a verdict is final (`ControlInv`) and that a file
under an unchanged path still has the size it was admitted with (`SizeInv`);
`CaptureIsPrefix` is the heart of it. `AbsenceHolds` is the action property: the
loop ends without all texts and without a cut only at the end of the file, with
all of it captured. `HangHolds`: under a path that nobody changed lies the regular
file that was looked at, and opening that returns at once. `VerdictHolds` is about
a file that nobody touches: `IdleInv` keeps the path at the file that was looked
at and open, `MeetsIsAdmitted` splits what is asserted into what metadata decides
and what is read, and then the verdict is exactly what the assertions say of the
content.

*TCP probe* (`TcpProofs`). `FairDivision` is the arithmetic: of `r` with `r >=
left * share`, the quotient by `left` is at least `share` and what remains is at
least `(left - 1) * share`. Hence `SharesInv`: between attempts every address that
is left is sure of its share, and during an attempt so is every address after it;
rounding up to `MinAttempt` takes nothing away as long as the shares are not below
it. `ErrorsInv` keeps each error true of its address: whoever was given up would
have needed more than its share, and more than `MinAttempt` where that is longer. `NothingMissed` needs in
addition that the lookup did not use up the shares of the addresses behind, since
the outer timeout counts it.

*HTTP and gRPC up to the answer* (`RemoteProofs`). `RemoteInv` is made of
`ValidInv` (options are known to be valid before anything is read or anybody is
connected to), `SourceInv` (whatever was loaded is in some version of the file it
was to come from), `WholeInv` (whatever is asked for is loaded or still to be
loaded) and `ConnInv` (a connection that a request may be sent over was verified
with what was loaded). `ProtectionHolds` follows. `RejectionHolds` takes both
directions from it: an `invalid` names a version of a file that does not fit
(`InvalidIsTrue`), and a probe that has begun has loaded, from versions of the
files that fit, all that was asked for (`BegunIsFit`). `TypeCorrect` is of the
same specification.

*HTTP response* (`HttpProofs`). The frames that wait are the rest of what was
sent, cut somewhere (`Cut`, with the places of the cuts as a witness), so that at
each moment some `n` bytes are read (`Unread(n)`) and buffer, matchers and the
exact-match flag are what the first `n` bytes make them (`Account(n)`). While the
loop goes on nothing is decided or cut (`Reading`), at the limit the wait has not
ended early (`AtLimit`), and once it is left there is a reason: a decision, the
end, or bytes beyond the limit (`Judging`, `Beyond`). The meaning of each verdict
is then a fact about the server's body. `MissedHolds` needs no induction of its
own: each verdict other than healthy would be a false statement about a good body.

*Runner* (`SalusProofs`). Two recursive functions go through the line, the scanner
by one or two arguments at a time, clap by one. `Induction` and `InductionBetween`
are stated of a set of numbers, not of a predicate, and follow from the
well-foundedness of `<` (`WFMin`), so the induction over the line is an ordinary
proof. `SoundTables` says that no option is named `help` or `version`.

* `StepTogether` is the simulation. `Follows(r, s)` says that clap's reading `r`
  stands where the scanner `s` does: at the same command, between two options, with
  the same output flags heard. After a turn of the scanner clap follows it again,
  one or two arguments later, unless an option with the value `-` was read or clap
  is past exec's `--help` (`Together`).
* `ScanFinishes`: after as many turns as the line has arguments the scanner is at
  the end or at an argument at which it stays (`Finished`). `ReadsStop`,
  `StuckAgrees` and `StopAgrees`: from such an argument on clap hears nothing more.
* `QuietAgrees` and `HelpAgrees` are the two theorems, for lines of any length and
  any arguments. The second also reads the line that replaces a request for help.

With them `IInv` is short: what is known of the line between the actions
(`LinesInv`, `ReadInv`), and the clock (`SpanInv`: what was measured is what the
probe took, and a probe that is running or done has begun). `ExitCodeHolds` needs
the latter: exit code 1 is never that of a probe that could not be started.
`OutputHolds`, `HelpHolds`, `ExitCodeHolds` and `TypeCorrect` follow.

*Texts* (`TextProofs`). The theorem is `ExpansionHolds`, for every argument, however
long, and all variables. `ExpandStep` turns the loop into a recursion from the front:
an argument is its first part, followed by what becomes of the rest. For that,
`TurnsShift` compares the turns of an argument with those of its rest, one turn
later, and `OverStays` says that a loop that is over does nothing more, so that it
does not matter that the rest has fewer turns. Each part of `ExpansionIsRight` then
is an induction or none: `PartsJoin` on the length of what comes first
(`FirstPartStays`: unless it ends in a dollar, what is appended changes neither where
the first part ends nor what it becomes), `EscapesExpand` on the number of
characters, from the last on, and `ExpandDefault` by reading one expression.

*Requests* (`TextProofs`, second part). `RequestHolds` says, of texts of any length,
that what the code accepts by scanning is what the grammar has. There is one lemma for each
kind of text, each proved in both directions, and one argument behind each:

* Authorities (`AuthorityHolds`). The code looks for the first colon or the bracket
  that closes; the grammar tries every cut. `HostEnds` are the places where a host
  may end; `Readings` are those places, one for one, and an accepted text has
  exactly one. For a host in brackets this needs that an address holds no bracket;
  for a name, that it holds no colon. Three checks of the code overlap
  (`BracketsFit`, `UnbracketedIpv6`, `ParsesAsAuthority`), and each alone accepts too
  much: the parser of the `http` crate forgets the colons before a closing
  bracket.
* URLs (`UrlHolds`) rest on it: the first colon ends the scheme, the first `/`, `?` or
  `#` after it the authority, and a text cut there has no other cut.
* Percent signs. The loop goes from one `%` past its two digits to the next. That
  it is over and accepts exactly when every `%` is followed by two digits needs an
  induction on the text, without `RECURSIVE` operators: a function that solves
  the loop's equations is written down, and two solutions cannot differ, because
  there would be a last place where they do (`ValidFromIs`). Skipping the digits misses nothing
  because a hexadecimal digit is no percent sign.
* Blanks. What `trim` leaves is the one core of a text: it begins and ends with no
  blank, and only blanks are around it. `--status` (`StatusHolds`) and
  headers (`HeaderHolds`) are this and the first dash or colon.
* Assertions (`AssertionsHold`): a header that is sent and comes back passes its own
  assertion; equal implies containing, which implies present; containing and not
  containing exclude each other. A text is contained in itself (`ContainsItself`), and of several headers of one name each must be looked at.

*Refinement.* `ContractKept`, in each of the five: the initial states map to the
contract's, and under the invariant each step maps to `Refuse`, `Begin`, `Wait`,
`End` or a stutter.

*Only proved* (no run lists them, because the proof covers more than a run would):
type correctness of all models of probes, `DeadlineRespected`,
`CaptureIsExact`, `NoBrokenPipe` and `NoInternalError` one by one, and, for
files, `CutIsReal` and `AbsenceIsProven`.

*Only model-checked*: liveness (`Terminates`, `Ends`), which is beyond TLAPS here.
Every invariant that a run checks is stated by a theorem.

*What the attempts found.* Two properties that held in their runs were false.
`NothingMissed` said nothing of an invocation that is refused or whose deadline
overflows after the command was started: `Deserved` now asks for a valid one. And
`SilenceIsAsked` and `QuietIsHeard` did not except what follows exec's `--help`
(see Findings); the run had no argument that made it happen, and now has one.
`FailureIsTrue` had spoken only of shares that are at least `MinAttempt`; it holds,
and is proved, of all.
`AuthorityIsRight` needs an address to have three groups at least: were there two,
`is_unbracketed_ipv6_authority` would take `a:1`, a name and its port, for an
address. With eight it cannot.

## 6. Abstractions and what is not modelled

* Wording of messages, labels, quoting (`output.rs` in part, `diagnostic.rs`);
  `termination_suffix`. Of printing, only whether and where.
* In `RemoteProbe`, the verdict of the text validators (`HttpTarget`, `HttpHeaders`)
  and the choice among `--url`, `--sock` and `--path` (`http.rs:338`) are one bit of
  an invocation (`other`); in `HttpBody`, whether the header assertions hold is one
  bit of a response. The operators that decide these bits have no state and are
  checked by themselves.
* PEM, X.509, TLS, HTTP/2 and the gRPC health message: as what callers see of
  rustls, hyper and tonic. A certificate is the party it names, and verification
  is whether an authority that is trusted issued it for the name.
* Validity periods of certificates, several addresses of one HTTP or gRPC host.
* clap: `Clap` is what the program relies on, as its tests have it. Default values
  and help texts are left out.
* Characters stand for classes; UTF-8 is either valid or not.
* Non-Unix builds (no process groups, no sockets).
* A poisoned mutex (no code panics while holding it).
* The reaper task spawned at a timeout: the process exits before it could run.
* A slow `spawn()`: the deadline is taken after it, so what it takes is counted
  for `--max-latency` and not for `--timeout`, as for PEM files.
* A file that is truncated and written again while it is read: what is captured
  may be a mix that the file never held; nothing that reads by system calls can
  exclude it.

## 7. Plan

Done: all five probes, TLS options, the runner with its two readers of the line,
expansion and validators; the contract that ties the probes to the runner, checked
for each and proved for each; inductive invariants for all five and the runner.
Every invariant that a run checks is a theorem. What is left: the code paths of
`RemoteProbe` and `HttpBody` joined into one probe, with the operators of
`HttpHeaders` and `HttpTarget` in place of the bits.
