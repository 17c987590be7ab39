# tlsping in TLA+

tlsping measures one HTTP(S) target over and over. A *cold* probe builds a connection from
scratch (lookup, dial, handshake, request); a *warm* probe repeats the request on one kept-alive
connection. The table, JSON or CSV it prints compares the two. This directory holds the TLA+
specifications of that program, the TLC instances that check them, and TLAPS proofs about them.

Everything is translated from the Go source. Paths below are relative to the repository root.

## 1. The system

| component | source | state | operations |
|---|---|---|---|
| runner | `internal/probe/runner.go` | loop variables, `consecutiveFails`, two warning latches, `seq`, method, pinned address | `Preflight`, `Run`, `roundOrder`, `probeOnce`, `backoffTrigger`, `sleepFor`, `Close` |
| main and collect | `main.go` | context, signal handler, sample channel, sample slice, exit code | `run`, `collect`, `exitCode` |
| tracer | `internal/probe/trace.go` | phases, open dial attempts, retry count, all under one mutex | eight httptrace hooks, `resetAttempt`, `result` |
| exchange and sample | `request.go`, `types.go` | one probe's phases and total | `do`, `finish`, `Timed`, `NewConn`, `PhaseSum`, `HandshakeSum`, `Classify` |
| cold and warm probes | `cold.go`, `warm.go`, `transport.go` | warm: the connection pool; cold: the TLS session cache | `probe`, `close` |
| resolver and dialer | `resolve.go` | the pinned address | `lookup`, `setPin`, `DialContext` |
| statistics | `internal/stats` | none (pure) | `Compute`, `Median`, `Percentile`, `Mdev` |
| table renderer | `internal/render/table.go`, `summary.go` | pending rounds, buffered samples, running medians, sticky write error | `Header`, `Sample`, `Warn`, `Summary` |
| JSON and CSV | `internal/render/json.go` | samples and warnings (JSON), header flag (CSV), sticky write error | the same four |
| command line | `internal/cli/config.go` | none | `Parse`, `validate`, `Probe` |
| terminal | `color.go`, `width.go`, `term_*.go` | none | `ColorEnabled`, `TerminalWidth`, `PickLayout` |

How they interact:

* `main.run` parses the command line, runs the preflight, starts a goroutine with `Runner.Run`
  and receives samples from a channel of eight slots until it is closed.
* `Run` calls `probeOnce` for each mode of each round. A probe creates a tracer whose hooks
  net/http calls from its dial, TLS, write and read goroutines; its result becomes a `Sample`,
  which is sent on the channel *before* the safety stops look at it.
* `Run` raises warnings by a callback into the renderer, from its own goroutine, while main hands
  samples to the same renderer.
* Ctrl+C cancels the context that sleeps and probes wait on, and a helper goroutine then gives
  SIGINT back to the system, so a second Ctrl+C kills.

What is hard about it:

* four activities interleave: the runner, collect, the user's Ctrl+C, and the goroutine that
  releases the handler;
* the runner blocks on a full channel on purpose, so whether the program ends depends on collect
  draining until close, on every return path;
* three stops compete: count, failure guard, rate limit, and each may cut a round between its
  two modes;
* the clock is read outside the tracer's mutex; two dials and a retry interleave their hooks;
* rounds are scheduled against the start of the run and can be overtaken by slow answers;
* a dial outlives the request that asked for it, and what the transports keep, drop and share
  decides which connection, and which server, a later probe is timed on.

What makes each component correct:

* **runner, main**: no probe is lost or reported twice; a stop is final, prompt and explained;
  the schedule is the documented alternation; the exit code is honest; every run ends.
* **timing**: rounds are never early, the rate is bounded, no drift, a pause between the modes of
  a round.
* **tracer**: each phase is one real interval of one connection, of the attempt that answered.
* **exchange, sample**: no time is counted twice, the remainder is exact, the attempt that answered
  decides whether a warm sample is timed.
* **cold and warm probes, preflight, dialer**: both modes meet one server or the user was warned;
  warm reuses only a connection that was fully drained; each cold probe has one connection and all
  warm probes share one; nothing of one probe goes on beside the next.
* **command line**: what is refused never runs, and a value that is changed, or that empties the
  statistics, is warned of.
* **statistics**: warmup, failures and re-dialled warm samples never enter a figure; each sample
  ends in one count.
* **renderers**: every sample is printed once, an incomplete round included; a failed write is
  sticky and reaches the exit code.

## 2. Modules

| module | what it is | lines it stands for |
|---|---|---|
| `ProbeLog` | the abstract specification of a run | the contract in `runner.go` (comment above `Run`) |
| `Runner` | `Runner.Run`, `collect`, `main.run`, Ctrl+C | `runner.go:176-319`, `main.go:48-155` |
| `CommandLine` | what the flags are refused for, changed to and warned of, and what the runner is given | `cli/config.go:118-324` |
| `MCRunner` | command lines (through `CommandLine`) and probe outcomes for TLC | - |
| `RunnerProofs` | theorems about `Runner` | - |
| `Pacing` | the same loop with time in place of outcomes | `runner.go:182-319` |
| `PacingProofs` | theorems about `Pacing` | - |
| `Tracer` | the hooks, each in two steps around the mutex | `trace.go:16-185`, `request.go:54-91` |
| `TracerProofs` | theorems about `Tracer` | - |
| `Renderer` | the abstract contract of every renderer | the interfaces in `table.go:14-45` |
| `Exchange` | one probe as a time line, and what its sample says | `request.go`, `cold.go`, `warm.go`, `types.go:79-190` |
| `ExchangeProofs` | theorems about `Exchange` | - |
| `Stats` | the figures and the running medians | `stats.go`, `summary.go` of `internal/stats`, `color.go:59-82` |
| `StatsProofs` | theorems about `Stats`, and about sorting | - |
| `Connections` | preflight, cold and warm probes: which connection, to which server | `runner.go:36-167`, `276-287`, `cold.go`, `warm.go`, `resolve.go`, `transport.go`, `request.go:58-91` |
| `MCConnections` | command lines (through `CommandLine`) and surroundings for TLC | - |
| `ConnectionsProofs` | theorems about `Connections` | - |
| `Report` | the five renderers that keep it | `table.go`, `summary.go`, `json.go`, `main.go:68-155` |
| `ReportProofs` | theorems about `Report` | - |
| `Selection` | the loops that copy the samples of one kind, used by `Report` and `Stats` | `table.go:213-221` |
| `SequenceLemmas` | lemmas on `Select`, `FlattenSeq` and `ToSet`, and induction over numbers and sequences | - |

### ProbeLog

Three variables: what was *taken*, what was *delivered*, and a *phase*. Probes are taken one at a
time while running; the oldest undelivered one may be delivered; after the stop nothing is taken;
the report needs everything delivered. An abort (failed preflight, kill) gives no report.

### Runner

State: the command line `cfg`; the context (`cancelled`) and `handler`; the runner's control
`rpc`, its loop variables `round`, `slot`, its sample `hand`, `fails` and the latches; the channel
`ch`, `closed`; main's control `mpc`, `samples`, `printed`, `doc`, `code`. `seqAtCancel` is a
history variable.

| action | code |
|---|---|
| `RoundTop`, `SleepRound`, `ModeTop`, `SleepMode` | the two loop headers and the two sleeps, `runner.go:187-213` |
| `Launch`, `ProbeDone` | `probeOnce`: the sequence number, then any outcome the context allows |
| `Send` | `out <- s`, blocking |
| `Judge` | everything after the send: warnings, failure guard, rate-limit stop, loop increments |
| `Close` | the deferred `r.Close()` and `close(ch)` |
| `PreflightOk`, `PreflightFails`, `Receive`, `Finish` | `main.run` and `collect` |
| `Interrupt`, `ReleaseHandler`, `Kill` | first Ctrl+C, the goroutine that calls `stop()`, a later Ctrl+C |

A probe's outcome is a record of what `Run` and `exitCode` look at: the kind of error, the status,
Retry-After, overflow, and whether the residual is over 20%; `Outcomes` says for each command
line what its probes may meet. A sleep is "the timer fired, or the
context was done": when both hold, either branch of the `select` is taken, as Go does. A probe
launched under a cancelled context fails with it; one in flight may still succeed.

### CommandLine

Pure operators: a command line is the record of its flag values, `Accepted` is what `Parse` lets
through, `Interval` and `Warnings` what `validate` changes and announces, `Probe` the runner's
configuration. `Given` is what a run starts from. The two MC modules write command lines and pass
the accepted ones on, so that `Runner` and `Connections` run under configurations the program can
really have.

### Connections

The preflight and the probes of a run, one request after the other. `at` follows the current
request (lookup, connect, dial, exchange, return), `who` and `seq` say whose it is. The rest is
what the code keeps across requests: the runner's `pinned` address and `method`, the dialer's
`aim`, the warm transport's idle connection `kept`, the cold runner's session cache (`tickets`),
and the dials in flight, each with the request it was made for.

| action | code |
|---|---|
| `PreflightLookup`, `PreflightReturns` | `Preflight`, with `preflightOnce` once or twice |
| `BeginProbe`, `ColdLookup`, `LookupFails`, `ProbeReturns` | `probeOnce`, `coldRunner.probe`, `warmRunner.probe` |
| `Answered`, `Abandoned` | `do`, from the response to the end of its body |
| `Close` | `Runner.Close` |
| `TakeIdle`, `Dial`, `Connected`, `DialFails`, `GiveUpDial`, `LateDial`, `FoundDead`, `Ticket`, `Broken`, `ServerCloses` | external: net/http, TLS and the server |

The pool is net/http's: a dial goes on when its request is over, and a keep-alive transport keeps
what it connects to; over HTTP/1 a connection returns to the pool when its body was read to the
end, over HTTP/2 it never leaves it. `CloseIdleConnections` ends idle connections and the dials
nobody waits for, in one step; a stream a deadline has just cut may still be closing then, so its
HTTP/2 connection may survive. `peers`, `dialled`, `begun`, `losses` and `spoiled` are history
variables. The order of the probes is `Runner`'s subject: here any mode of the command line may
be next, and the run may end after any probe, which includes every order `Runner` allows.

### Pacing

Time is a counter that may not pass a pending timer. A probe takes anything from 0 to `Timeout`;
a round is due at `(k-1) * Interval`; the second mode sleeps a quarter of the interval. Running
code takes no time, so the margins are exact.

### Tracer

The fields of `tracer` are one record, the hooks are functions from record to record. A thread
*enters* a hook by reading the clock and *returns* from it by applying the body under the lock;
anything can happen between. net/http is external: it is the order in which it calls the hooks
(pooled connection or up to two concurrent dials, handshake on https, write and read on their own
goroutines, a retry each time a pooled connection turns out dead, an end at any point). A phase is kept
as its two clock readings instead of their difference, so that properties can say *which*
interval was measured.

### Renderer and Report

`Renderer` has what main may rely on: samples are *given*, *shown* at once or later and never
unshown, and the *verdict* is "delivered" only when all that was given is shown.

`Report` is the state of a renderer between calls: `pending` rounds (wide and mid tables), `buf`
(minimal table, JSON), the lines of `out` that reached the reader and the sticky `err`. Its
actions are the calls of main: `Header`, `GiveSample`, `Summary`, `Exit`. A call writes a few
lines, and every write may be the one that fails; a line is what it is about (a heading, a row
with its samples, the statistics), never its characters. The statistics are one line: `errWriter`
keeps its first error, so a block that lost one of its writes is a block the reader does not have. The samples come as the runner sends
them: round by round, a round's modes in either order, the run cut after any sample.

### Exchange

One probe from the start of its clock: lookup (cold), a pooled or a dialled connection, handshake
(https), write, first byte, body. A stage takes any time up to `MaxStep` and may fail. The end of
the probe is `Finish`, which folds phases and total into the sample as `finish()` does; `rest`
is a history variable that adds up the time no phase covers. The hooks come in their order here;
their interleavings are `Tracer`'s subject. Answered, reused, retried and dialled are what
net/http reports; from one probe to the next, that is the subject of `Connections`. Which rounds
are warmup is known to the run alone: `Timed` here is about a sample outside warmup, `Stats` has the rest.

### Stats

The samples of a run arrive one by one; the running medians are updated by insertion, and the
figures (`Agg`, `Gain`, `PairedGain`, `Overheads`, ...) are operators over the samples so far,
as `Compute` would be called if the run were cut there. Durations are small integers and division
truncates toward zero as in Go. `sort.Slice` is modelled by what it promises: `SortedCopy` is
some arrangement of the values in which none is less than the one before (`OneSortedSequence` in
`StatsProofs` shows that there is only one). `Add` puts a value at its `Place`, the index
where the loop of `color.go` stops.

## 3. Runs

| run | instance | states | what it shows |
|---|---|---|---|
| `runner_run` | 8 accepted command lines and one configuration without guard (both modes in each order, one mode, all-warmup, interval under the floor, unlimited); outcomes ok / failed / cancelled over 3 rounds, and ten outcomes (429 with and without a failed body, 503 with and without Retry-After, overflow, residual) over 2 rounds of both or 3 of cold; channel of 2 | 256 000 | nothing lost; the failure guard, the rate-limit stop and the interrupt final; schedule; early stops and empty statistics explained; warnings complete and once; exit code; implements `ProbeLog`; a counted run ends, Ctrl+C ends every run |
| `pacing_schedule` | floor 2, interval 4, timeout 6, two modes, 3 rounds | 292 000 | rate bounded, no drift, a quarter interval between the modes of a round |
| `tracer_hooks` | http and https, two dialers, up to two dead pooled connections | 245 000 | one connect per tcp phase, nesting, last attempt only |
| `report_all` | five renderers, three run modes, 2 rounds (one warmup), samples timed / re-dialled / failed | 17 400 | printed once, no hole, success is delivered; implements `Renderer` |
| `exchange_probe` | both modes, both schemes, stages of 0 to 2, up to 2 retries | 128 000 | no time is counted twice, the remainder is exact, the answering attempt decides what is timed, the handshake is known when it took place |
| `stats_figures` | totals 1, 2, 4; 3 rounds, 0 or 1 of them warmup | 78 700 | medians and ranks by counting, running medians, signs of the gains, each sample in one count |
| `connections_run` | 6 command lines (both modes pinned and not, -4 or -6, method found out or given, one mode alone), all 8 combinations of proxy, HTTP/2 and HEAD refused, 3 addresses of two families, 3 probes, 1 kept connection closed by the server | 619 000 | one server or a warning, clean reuse, connection count, nothing in the background, first cold handshake full |
| `pacing_floor`, `tracer_reset`, `tracer_srv`, `report_newconn`, `exchange_other` | - | - | expected violations, section 6 |

Why the bounds are enough:

* Three rounds of two modes hold six samples: three failures in a row, three with a success in
  between, and a third failure in either slot of a round. The limit itself is the command line's
  three (`cli/config.go`), or none.
* A channel of 2 slots is full and empty within a run; 8 slots would only be full in longer
  ones. The proofs hold for every capacity.
* A stop in the first or second slot of a round, in a first, middle or last round, with or
  without Ctrl+C before, during and after: all occur within two or three rounds. An unlimited run
  (`count = 0`) is followed up to `MaxRound`; beyond it only Ctrl+C is left to happen.
* `Timeout > Interval` in `Pacing`, and a round of two slow probes takes more than three intervals,
  so a round may overrun the due times of all its successors.
* `PoolSize = 2`: net/http retries once for each pooled connection it finds dead, so two give a
  retry of a retry. A connection that enters the pool while the request is dialling is not followed.
* `Report`: the runner never leaves more than one round open, so two rounds hold a complete and a
  cut one, a warmup and a measured one; writes fail in every call and at every line of a call.
* `Connections`: three probes are a mode before, between and after the other: a probe that leaves
  something behind, one that meets it, and one of the other mode. Two addresses of one family let
  a later lookup differ from the first one, the third lets `-4` and `-6` exclude it. One loss is a
  loss in every place; the proofs hold for any number of probes, losses and addresses.
* `Exchange`: stages of 0, 1 and 2 units make all sums and differences of phases distinguishable.
* `Stats`: three values of each kind give odd and even counts; 1, 2, 4 give odd sums and negative
  odd differences. `MinP95Samples` is 2 instead of 20, so that it is reached; ranks are checked
  for five percentages. In the code the rank goes through float64 (`p / 100 * n`), here it is exact.

Liveness assumes weak fairness of the runner goroutine and of main, each as a whole: Go schedules
every runnable goroutine, a probe ends by its timeout (`context.WithTimeout` in `probeOnce`), a
timer fires, and the terminal or file a renderer writes to accepts the bytes. Nothing is assumed
of the user. `runner_run` bounds unlimited runs at `MaxRound`, where the loop waits for Ctrl+C:
`Terminates` is stated for counted runs and `InterruptEnds` for all.

Deadlock is checked in every run; ended runs stutter by an explicit action.

## 4. Theorems

All are proved for every value of the constants: any set of command lines, outcomes and addresses,
any channel capacity, any bound on rounds, probes and losses. In `RunnerProofs`:

* `TypeSafety`: `Spec => []TypeOK`, the channel bound included.
* `NoSampleIsLost`, `RateLimitIsFinal`, `FailureGuardIsFinal`, `InterruptIsFinal`: the invariants
  `NothingLost`, `PolitenessStop`, `FailureGuard`, `InterruptIsPrompt`.
* `RunImplementsProbeLog`: `Spec => ImplementsProbeLog`.
* `ScheduleFollowsFromPosition`, `TheReportIsComplete`, `EarlyStopsAreExplained`,
  `ExitZeroIsAlwaysEarned`: the invariants `ScheduleIsFixed`, `ReportIsComplete`,
  `EarlyStopIsExplained`, `ExitZeroIsEarned`.
* `AcceptedLinesAreConfigs`: what `CommandLine` gives for any flags `Parse` accepts satisfies what
  `Runner` assumes of its configurations.

In the other modules:

* `PacingProofs`: `PacingTypes`, `RoundsAreNeverEarly`, `ScheduleDoesNotDrift` and `RateHolds`:
  `TypeOK`, `NeverEarly`, `NoDrift` and `RateIsBounded`, for every interval, timeout and number of rounds. `NeverEarly` is not checked by
  a run: the rate bound follows from it.
* `ConnectionsProofs`: `ConnectionTypes`, `OneServerOrAWarning`, `WarmReusesCleanly`,
  `ConnectionsAreCounted`, `QuietBetweenProbes` and `FirstColdHandshakeIsFull`, the invariants of
  `connections_run`.
* `TracerProofs`: `TracerTypes`, `TcpIsAlwaysOneConnect`, `PhasesAlwaysNest` and
  `PhasesAreOfLastAttempt`, the invariants of `tracer_hooks`, for every number of pooled connections
  and a clock without bound.
* `ExchangeProofs`: `ExchangeTypes`, `TimeIsAlwaysCountedOnce`, `TheAnswerIsJudgedByItsAttempt` and
  `HandshakeIsAlwaysKnown`, the invariants of `exchange_probe`, for stages of any length.
* `ReportProofs`: `ReportTypes`, `EachSampleIsPrintedOnce`, `OutputHasNoHole`,
  `SuccessMeansDelivered`, the invariants of `report_all`, and `RenderersKeepTheContract`, that
  `Report` implements `Renderer`, for any number of rounds.
* `StatsProofs`: `StatsTypes`, `InsertionGivesTheMedian`, `MediansAreCentral`,
  `PercentilesAreNearestRanks`, `GainsKeepTheirSign` and `CountsAddUp`, the invariants of `stats_figures`, for any
  number of rounds and any finite set of totals.

So every invariant of a passing run is a theorem, and so are both refinements.

None of the safety invariants is inductive. The strengthening in `RunnerProofs` has layers:

1. `Typed`: `TypeOK`, with `slot` inside the modes of the round.
2. `Bookkeeping`: `Control` ties the two program counters (the runner has not started before the
   preflight ended; the channel is closed only when it is done; a report only after close) and
   `Counted` says how many samples the log holds at each program point. This is what makes
   "nothing is lost" inductive: the sample in `hand` belongs to the log from `Send` on.
3. `Final`: when the runner is judging, `hand` is the last entry of the log (`HandIsLast`), and at
   the points where another probe may still start, the log so far contains no sample that should
   have stopped the run (`Polite`, `Prompt`, `Guarded`); `FailsCounted` says that
   `consecutiveFails` is the length of the run of failures at the end of the log.
4. `Plan`: the k-th sample of the log has the round and the slot that k gives it (`Placed`), and the
   log is within the count; the schedule follows.
5. `Voiced`: each latch is on exactly when its warning was raised and when a sample already judged
   called for it (`Latched`), a stop warning is there once the loop was left by a stop, and a loop
   left early without one was interrupted. `Closing` adds what main read when it wrote the report.
   Together they give the warnings of the report, the explanation of an early stop and the exit code.

One lemma, `LogSteps`, says for every action whether the log is unchanged or extended by the
sample in hand; the safety layers and the refinement rest on it. The refinement maps `taken` to
the log, `delivered` to `samples`, and the phase to the pair of program counters; each action is a
step of `ProbeLog` or a stutter.

`PacingProofs` uses the same method: `InStep` says how the lengths of the two histories follow
from `round` and `slot`, `Sleeping` what `due` is at each program point and that a sleep is no
longer than it has to be. The rate bound then follows from `NeverEarly` by arithmetic alone.

The strengthening in `ConnectionsProofs` has one part per concern, and one lemma shows that every
step keeps it: `Settled` (nothing is pinned, warned of or dialled before the first lookup answered,
and from then on pin and warnings are those of the command line), `Aimed` (every dial and every
server met is a `RightServer`), `Alone` (at most one dial is in flight, by the current request: this
is what the deferred `CloseIdleConnections` buys), `PoolIsClean` (what is kept between two probes was
read to its end), `TicketsAreEarned` (a ticket in the cache is from an earlier cold probe), and the
three counts. `WarmCounted` is the least obvious: the bound leaves room for one more dial exactly
while no usable warm connection is `Held`, and a probe that was not drained counts as holding one
until it has been counted as spoiled.

`TracerProofs` has one part for each group of fields. `Hooks` says which thread can be in which hook
at which place. `Spans` ties the history to the clock readings the connect hooks carry, all of them
later than the last `GetConn`. `Attempts` ties the open attempts of the tracer to the dialers: an entry
has the start of its own dialer and is open while that one connects, so that whichever `ConnectDone`
comes first finds its own start. `Tcp`, `Tls`, `Wait`, `Write` say where each measured phase begins
and ends and which reading precedes which; `Pool` that nothing is dialled while a pooled connection is
tried, so that a retry leaves no hook of an earlier attempt behind.

`ExchangeProofs`: `Measuring` says which phases are measured at each stage; `ColdTime` and
`WarmTime` that the phases measured so far and the rest add up to the clock. The remainder of the
finished sample is then arithmetic. On top of it `Attempting` says that what the result tells of its
connection is what the attempt under way did, and that every attempt given up is in the rest: with what
`finish` copies, that gives which samples are timed.

`ReportProofs`: between two calls, what a renderer holds back is a function of its kind and of
what it was given (`Holding`), and without a write error what is printed and what is held back are
together what was given (`Accounted`). `Ordered` is the same with the order of the lines;
`Delivered` and `Coded` lead from the write error to the verdict and to the exit code. The
refinement maps `given` to the set of samples given, and `shown` to those of the lines that
reached the reader.

In `StatsProofs` the invariant says, beyond types, the round and mode of each sample from its place
(`Scheduled`) and that each running median is the sorted copy of the totals so far
(`Running`). It rests on facts about sorting: two sorted arrangements of one sequence are equal
(`OneSortedSequence`), inserting at the place found by the search keeps one (`AddToSortedCopy`), and the
k-th value of a sorted sequence is the k-th smallest by counting (`KthByCounting`). That a gain keeps
its sign needs that medians are monotone (`MedianIsMonotone`): if each warm total is at most the cold
total of its round, the warm median is at most the cold one. The counts
add up because each is the length of a selection from the samples (`CountsAre`), and what two kinds
without a common member select adds up (`SelectSplits`).

The library's induction theorems take an operator as a parameter, which the provers cannot
instantiate. `SequenceLemmas` states induction for sets instead: a set of numbers (or of sequences)
that holds the start and is closed under one step holds all of them (`SetInduction`, `SeqInduction`). A
recursive function is unfolded with these, and so are the lemmas about `FlattenSeq` and `Select`.

The assumptions used are the ones the modules name: `ConfigsAssumption`, `OutcomesAssumption`,
`ChanCapAssumption`, `MaxRoundAssumption`, `WarningsAssumption`, `TimingAssumption`,
`AddrsAssumption`, `BoundsAssumption`, `PoolAssumption`, `ExchangeAssumption`, `ReportAssumption`,
`StatsAssumption`. TLC evaluates them on the instances. Of these `WarningsAssumption` says
something about the code: what the warnings of an accepted command line are.
`AcceptedLinesAreConfigs` proves it, and the membership in `ConfigType`, from `CommandLine`.

Model-checked only: the two liveness properties, `Terminates` and `InterruptEnds`, which are out of the
prover's reach, and the five expected violations of section 6.

## 5. Not modelled, and what is left

No safety property of a run is left without a proof.

Left out for good: terminal queries, colour and cell layout (pure output); `Mdev` and `Loss`
(floating point); `Classify`, a table over error types without state; TLS details that are only
copied (version, ALPN, chain length); the preflight's texts about a redirect or a protocol other
than the one asked for, which decide nothing; the spelling of flags, URLs, methods and headers;
the inside of net/http, which `Tracer`, `Exchange` and `Connections` have as their environment.

The data race freedom of the program is not a property of these models: each mutex section and
each channel operation is one step.

## 6. Where the code and its words part

* **`tracer_reset`** (`trace.go:47`, `78-81`): the reset of an abandoned attempt keeps `reused`,
  `remoteAddr` and `idleTime`. A retry that ends before it gets a connection reports that it
  reused one.
* **`tracer_srv`** (`trace.go:166`, test at `trace_test.go:108`): the clock is read before the
  lock, so a first byte read early can be applied after a write read late, and `srv` is measured
  and negative.
* **`report_newconn`** (`summary.go:178`, comment at `133-136`, `README.md:178`): the vertical
  summary of the narrowest layout leaves the new-conn counter out, although it must be surfaced
  "whenever it is non-zero".
* **`exchange_other`** (`types.go:179`, `README.md:140-148`): the phase sum asks for a TLS phase over
  plain http too, so a cold sample over http never shows its remainder.
* **`pacing_floor`** (`runner.go:194`, `config.go:22`): the interval floor bounds the average rate
  and not the gap: after a slow round the overdue rounds follow at once. `RateIsBounded` is what
  does hold.
