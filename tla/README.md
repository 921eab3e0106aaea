# A specification of envconsul

envconsul runs a command with an environment compiled from Consul and Vault, restarts
it when the data changes, and passes signals on to it. This directory holds TLA+
modules that model the program, TLC configurations that check them on small instances,
and TLAPS proofs of what holds for every instance. Line numbers refer to the commit the
modules were written from; `runner.go` and `cli.go` are in the root of the repository.

## The system

| Component | State | Operations | Hard behaviour | What makes it correct |
|---|---|---|---|---|
| Event loop of a runner, `Runner.Start` (runner.go:135) | `data`, timers, local `exitCh`, `ExitCh`, `ErrCh` | one case of a `select` per event, then `Run` | data, timers, errors, exits and `DoneCh` in any order; errors and exits also reach `Run` | the command ends up with the latest data; its exit ends the program with the right code |
| Command management, `Runner.Run`, `stopChild`, `Signal` | `env`, `child` | compile, compare, stop the old process, start the new one | `child` is shared with `Stop` without a common lock; starting and publishing a process are two steps | one process per runner; none is launched for an environment that did not change |
| `Runner.Stop` (runner.go:229) | `stopped`, `DoneCh` | stop watchers, stop child, remove the pid file, close `DoneCh` | runs in the goroutine of the CLI against a live event loop | what it sees is dead when it returns; each runner is stopped once |
| Pid file (runner.go:854-898) | the file | create at the start, remove in `Stop` | the old and the new runner of a reload share a path | there while a runner runs, gone afterwards |
| Compilation of the environment, `init`, `append*` (runner.go:462-830) | dependencies, block configurations, the map that is filled | one loop per kind of dependency | names are decorated, sanitized and upcased, and may collide; errors end a loop early; Go's map order | the bottom-most block decides, secrets before all; names are clean |
| Environment of the command, `applyConfigEnv` (runner.go:978) | none | filter and add | five lists and two kinds of pristine interact | nothing denied passes, custom variables always do |
| CLI loop, `CLI.Run` (cli.go:77) | current runner, `signalCh` | load, reload, exit, error, signals | one place in the signal channel; reload while the old goroutine lives | a kill signal ends the program; Stop and Signal return |
| Quiescence timers (runner.go:152-182) | `minTimer`, `maxTimer` | arm on data, clear when one fires | only the minimum starts over with new data; errors and exits reach `Run` and leave both armed | data is applied within `wait.max`, and not before `wait.min` without a reason |
| Flags (`ParseFlags`, cli.go:226-739) | the configuration of the flags, `-no-prefix`, `-config` | one function per flag, then `-no-prefix` and the command | flags that refer to the ones before them (formats, `-no-prefix`); deprecated flags that write several settings | each flag reaches what it is about and nothing else |
| Configuration files (config.go, config_prefix.go, config_service.go) | structures of pointers | parse, move deprecated keys, merge | seven deprecated keys move into stanzas that may exist already; one bad file fails all | precedence from left to right; a deprecated key changes only its own |
| Finalizing and reloading (`loadConfigs`, `Finalize`, `Copy`) | configuration saved at the start, lists of pointers | copy, merge, finalize, three times per load | lists are compacted in place; blocks are shared between the saved configuration and that of every load | a reload gives what a fresh start would; nothing invalid runs |
| Child processes, watchers (consul-template) | library | `New/Start/Stop/Signal/ExitCh`, `Add/Stop/DataCh/ErrCh` | their goroutines | outside the repository |

The CLI creates a runner (`NewRunner`) and starts its event loop in a goroutine. The
loop talks back through `ErrCh` and `ExitCh`; the CLI calls `Stop` and `Signal` on it.
Watchers put views in `DataCh`. On a reload the CLI stops the runner, loads the
configuration again and makes a new runner; the goroutine of the old one may still be
anywhere in `Start` or `Run`, and ends when its `select` picks `DoneCh`. When
`CLI.Run` returns, `main` exits: goroutines vanish and child processes do not.

## Modules

| Module | Models |
|---|---|
| `Actors` | the set of runners |
| `Child` | the child package as runner.go uses it (external): process, stop lock, reaper, exit channel |
| `Watcher` | store, views, `DataCh`, `ErrCh` (external) |
| `Runner` | runner.go:96-269 and the control flow of 273-382, 832-898: `Start`, `Run`, `Stop` |
| `Envconsul` | cli.go:77-207 and the composition of everything; properties, fairness |
| `ManagedChild` | the abstract specification of what a runner promises about its command |
| `Environment` | what `Run` computes: runner.go:273-353, 462-830, 978-1075 |
| `Quiescence` | the timers of `Start` with durations: runner.go:152-226 |
| `Flags` | the flags and the settings each of them writes: cli.go:226-739, flags.go |
| `Config` | configurations as values: config.go, config_prefix.go, config_service.go |
| `Configuration` | from the command line and the files to the configuration of a runner, and again on every reload: `ParseFlags`, `loadConfigs`, the checks of `CLI.Run` and `NewRunner` |
| `MCEnvconsul`, `MCSafety`, `MCLiveness`, `MCEnvironment`, `MCConfiguration` | the instances for TLC |
| `EnvconsulProofs` | types, and where the goroutine of the CLI is |
| `ManagedChildProofs` | processes, and that `Envconsul` implements `ManagedChild` |
| `LifecycleProofs` | stopped runners, the pid file, the exit code |
| `DeliveryProofs` | data that reaches the command; `-once` |
| `EnvironmentProofs`, `QuiescenceProofs` | the theorems about `Environment` and `Quiescence` |
| `ConfigProofs` | lemmas about `Config`: joining, merging, compacting and moving keys, for inputs of any length |
| `ConfigurationProofs` | the theorems about `Configuration` |

`Envconsul` composes `Runner` with `Child` and `Watcher`. `Environment` refines one
operator of it: `Renders(data)`, the set of the environments `Run` may compute from
complete data, is what `Environment` computes in detail. `Quiescence` is the loop of
`Runner` with durations in the place of timers that fire at any moment, and without
processes. `Configuration` is the part of `CLI.Run` that `Envconsul` takes in one step
(`LoadRunner`, `LoadFail`): `Configs` there stands for the configurations it can produce.

### How Runner and Envconsul correspond to the code

* `rpc[r]` is the place of the goroutine of `Start`, with `Run` split where the two
  goroutines can meet: `run` (compile and compare), `stopChild` (call of
  `child.Stop`), `awaitChild` (its return), `spawn` (`child.New`, `child.Start`),
  `publish` (`r.child = child` and the new `exitCh`). `sendExit` and `sendErr` are the
  two channel sends that can block.
* `stopPc[r]` is the place of a call of `Stop` in the goroutine of the CLI; `stopped`
  is `r.stopped` with `DoneCh` closed. `stopping[r]` is the value of `r.child` that
  `stopChild` read. `childLock` is only ever read-locked, so it orders nothing and is
  left out. `dependenciesLock` is taken by the goroutine of `Start` alone.
* `cliPc`, `cur`, `after` are the place of the CLI, its local `runner`, and what it
  does when `Stop` returns.
* A child is a process with the goroutine that reaps it. `exitChan` is its channel: open,
  holding a code, or closed. A receive from a closed channel gives 0, as in Go.
* A configuration is what the control flow needs: whether quiescence is on, and the
  path of the pid file. The reload and kill signals do not change over a reload.

### Abstractions

* `DataCh` is the set of views in it: the value is read on receipt (`data.Data()`), so
  order and multiplicity do not matter. Receive and drain are one step.
* Time: a timer is armed or not and may fire whenever it is armed. Durations
  are in `Quiescence`. `kill_timeout` and
  `splay` are the time `ChildStopReturn` takes.
* A signal before `signal.Notify` (cli.go:132) has its default effect and is left out.
* An existing pid file can be removed. The exit status that an error may carry
  (`ErrExitable`, cli.go:140) is not told apart from the generic one.
* The cases `stopCh` and `DoneCh` of the `select` of the CLI are left out: nothing calls
  `CLI.stop`, and `StopsEachRunnerOnce` shows that the CLI never selects on a runner it
  has stopped.
* A step of one goroutine between two accesses to shared state is atomic.

### How Environment corresponds to the code

A step is one round of a loop: one pair of a prefix, one service, one key of a secret
(taken in any order, as Go does). Names are abstract: prefixing, formatting, sanitizing
and upcasing are constant operators of which the module assumes only that sanitizing is
idempotent and survives upcasing. A format may fail to parse (the empty name) or
fail to execute (the rest of the dependency is skipped, and `Run` ignores the error).
Two dependencies of the same name share data and configuration, that of the later
block, as `configPrefixMap` has it. `Run` is called twice on the same data.

### How Quiescence corresponds to the code

Time is discrete, in ticks. A timer is `Nil` or the ticks that are left; one that has
expired stays ready, as a Go timer channel does. The loop takes no time of its own: time
passes in `Run`, which may take any time, and in the `select` only while no case of it is
ready. Data and errors come whenever they like, and if both data and an expired timer are
ready the `select` picks either. That a runner stops, and that with `-once` an error
ends the loop, are in `Runner`. `unapplied`, `age`, `quiet` and `stale` are
history: whether data has been received since `Run` began, for how long, how long there
was none, and whether `Run` began with timers armed, which then belong to data that has
been applied.

### How Configuration corresponds to the code

* A configuration is a function on the settings that are not nil, a setting being the
  sequence of keys that lead to it (`<<"consul", "retry", "backoff">>`), and three lists.
  So `Merge`, a hundred lines of `if o.X != nil` per stanza, is one function override,
  and `Finalize` one function with defaults; the values are symbols. What a default is
  matters for `log_level` alone, which comes from the environment.
* The lists hold pointers, of which the code copies some and shares others. `heap` has the
  blocks by owner: those the flags gave (`cli`), shared by the saved configuration and
  everything made of it, and those of the current load (`own`). `Finalize` writes into
  both. `Compact` is the loop that shortens a local slice over the shared array and
  stores no length. With three entries without a path at the head of a list, even two passes
  of it leave a block whose nil fields were not filled in. No code is disturbed, since all of
  it reads fields with `config.StringVal`, for which nil and the empty string are one; so
  `AsFreshStart` compares what lists mean (`Meant`), and `TypeOK` asks only that no pointer
  dangles.
* `phase` is where `CLI.Run` is: `flags` (parsing, a flag a step), `loading`, `loaded`,
  `logging`, `running`, `exited`, or `panicked` (a format flag before any service).
  `Reload` goes back to `loading`, without parsing flags.
* A file is a sequence of statements. `Parse` has the flattening (the last statement of a
  repeated key counts), the moves of the deprecated keys, the stanzas that may be written as a
  plain value (`consul = "address"`, `wait = "10s:20s"`), unknown keys and refused values. A
  directory is the sequence of its files in lexical order.
* One given setting does not survive `Finalize`: the Vault token, when there is an agent's
  token file (`Finalized`). `NewRunner` fails (`Refused`) for a secret without a path, a service
  without a query, and a path that is a template which cannot be executed.
* `Edit` is somebody who changes a file before the start or between two loads.

## Runs

In a run without a violation TLC visits all reachable states of the instance.

| Run | Instance | Properties | Shows |
|---|---|---|---|
| `MCSafety` | two instances in one run: 1 runner, 3 processes, 1 change, 1 error, quiescence or not, once or not, kill and another signal; 2 runners with one pid file, 2 processes, 1 change, one reload | `TypeOK`, `SettledChildRunsCurrentEnv`, `StopKillsWhatItSees`, `OnceLaunchesOnce`, `RefinesManagedChild`, `OneChildPerRunner`, `StopsEachRunnerOnce`, `PidFileWhileRunning`, `ExitCodeGenuine` | supervision of the command under changing data; an old and a new runner do not disturb each other |
| `MCLiveness` | two instances in one run: a runner with quiescence, 1 change, kill and another signal; two runners, a reload and a kill | `AcceptedKillEnds`, `ChildExitEnds`, `CliComesBack`, `CurrentEnvEventually` | an accepted kill ends the program, so does the exit of the command, `Stop` and `Signal` return, and the command comes to run with the final contents of the store |
| `MCEnvironment` | 208 configurations of prefixes, a service, secrets, formats, lists; 2 calls of `Run` | `TypeOK`, `VaultPrecedence`, `BottomMostWins`, `SanitizedNames`, `ListsDecide` | the compiled environment and what reaches the command |
| `MCConfiguration` | command lines of up to 3 arguments, 2 files in a directory, an empty directory and a missing path, edits and reloads | `TypeOK`, `AsFreshStart`, `Precedence`, `BlocksInOrder`, `FormatReachesItsService`, `NoPrefixReachesFlagBlocks`, `DeprecatedChangesOnlyItsOwn`, `RunsOnlyValid` | who wins each setting and list, what a reload keeps, what ends the program |
| `MCTimers` | `Min` 3, `Max` 7 | `TypeOK`, `UnappliedIsTimed`, `NeverLate`, `QuietOrOverdue` | the timers are neither late nor early |
| `MCStopHalts` | 2 runners | `StopHaltsSubprocesses` is violated | finding 1 |
| `MCPidOnExit` | 1 runner with a pid file | `PidRemovedOnExit` is violated | finding 2 |
| `MCQuiescence` | 1 runner, quiescence, 1 error | `QuiescenceRespected` is violated | finding 3 |
| `MCKillSignal` | 1 runner, kill and SIGURG | `KillSignalHonoured` is violated | finding 4 |
| `MCSameData` | 1 secret with `a-b` and `a_b` | `SameDataSameEnvironment` is violated | finding 5 |
| `MCNoPath` | as `MCConfiguration`, without `-prefix /` | `PathlessIgnored` is violated | finding 6 |
| `MCFormatFirst` | as `MCConfiguration` | `FormatNeedsQuery` is violated | finding 7 |

Bounds. One dependency is enough for the control flow: `Run` distinguishes complete data
from incomplete data and one environment from another. Two values and one change of the store
give a first environment and a second one, with a change at any moment of the program; three
processes give a replacement of a replacement. Two runners are enough for a reload: a
runner only meets its predecessor through the pid file and the CLI. `MaxSent` bounds the
signals per kind, `MaxErrs` the errors of the watchers, `MaxChanges` the writes to the
store, `Runs` the calls of `Run`. SIGCHLD is not in that bound: every exit delivers one.
`OneOfTwoInstances` in `MCSafety` and `MCLiveness` restricts what the outside does
(signals, changes, errors of the watchers, the configuration that is loaded, how a process
ends) and how many processes there are, and nothing the code decides, so that two small
instances share a run. No run declares a symmetry. `InOrder` of `MCSafety` does what
one would: runners and processes that were never used are alike, so they are taken in order.

`Budget` bounds arguments and statements of `MCConfiguration` together. Arguments whose
order matters and statements cost 1, so that three of them are combined in all ways;
rare ones (refused values, `-help`, a missing path) cost 2; every flag of `Flags` is given
alone, for 3, with the defaults of all others to disturb. Three entries are what
`Compact` needs to shift a list and duplicate an entry, what a deprecated key needs to
meet its stanza and another key, and what a format needs between two services. One
edit between two loads is enough: a load reads the files as they are. An edit may also take
back a statement, so a reload after a reload is reached in a finite graph, and a setting that
a file no longer has is seen to be gone. `Max` of `MCTimers` is more than twice `Min`, so
that the minimum can start over several times before the maximum fires; the proofs
then cover every value. A program that has exited stops, so `MCConfiguration` does not
check for deadlock; neither do `MCNoPath` and `MCFormatFirst`.

`Resting` keeps TLC's deadlock check useful: both loops waiting in their `select`, and a
program that has exited, are the only states in which the program may stand still.

Fairness. `FairSpec` has weak fairness for each goroutine of the program (the Go
scheduler is preemptive) and nothing stronger: a `select` with several ready cases owes
nothing to any one of them. A stopped process dies, since `Stop` ends with SIGKILL. A
view polls until the program ends (retries are enabled by default). Nothing is assumed of
signals, writes, errors, timers beyond firing, or of a process that nobody stops.

## Findings

1. `Stop` may return with a process of its runner alive (runner.go:379 against 847):
   `Run` has started a process that `r.child` does not name yet, or starts one
   afterwards, since it never looks at `r.stopped`. The comment at runner.go:228 says
   that `Stop` halts the subprocesses. After a reload two commands run side by side.
2. The error case of the CLI (cli.go:136-143) does not call `Stop`; the pid file, which
   `deletePid` is "used to remove on exit" (runner.go:876), stays.
3. An error of a watcher (runner.go:183-202) makes `Start` call `Run` with the quiescence
   timers armed, against README.md:507 and the comment at runner.go:210.
4. A kill signal that finds `signalCh` (capacity 1, cli.go:70) full is dropped, against
   README.md:550.
5. Keys of one secret whose names become equal are decided by Go's map order, on every call
   of `Run` anew (runner.go:670); the comment at runner.go:283 means to avoid that.
6. `PrefixConfigs.Finalize` shortens a local slice and never stores it
   (config_prefix.go:186-203): an entry without a path, which the comment at :196 and
   README.md:337 say is ignored, can stay. `NewKVListQuery("")` then watches the whole
   store. With other blocks around it one of them can be lost or come twice.
   `BlocksInOrder` holds for the lists in which every entry has a path.
7. The flags for the format of a service return the error "format must be specified before
   query" when `LastSeviceConfig` is nil (cli.go:449-451 and the four like it). It is nil
   for a nil list only, and the list of `DefaultConfig` is empty: config_service.go:152 indexes
   it at -1, and the program panics. `FormatReachesItsService` takes either ending.

## Theorems

The proofs are checked by TLAPS and hold for every choice of the constants that satisfies
the assumptions of the modules: `ActorsAssumption`, `ChildAssumption`, `WatcherAssumption`,
`RunnerAssumption`, `EnvconsulAssumption`, `EnvironmentAssumption`, `ConfigAssumption`,
`PayloadAssumption`, `QuiescenceAssumption` and `ConfigurationAssumption`. TLC evaluates these on every run.

* `EnvconsulProofs!TypeCorrect`: `Spec => []TypeOK`. `TypeOK` alone is not inductive: the
  CLI calls `Stop` on `cur`, which has to be a runner by then, and returns `after`,
  which has to be a code. `CliControl` adds where the CLI can be with which `cur` and
  `after`, and `TypeInv` is the conjunction.
* `ManagedChildProofs!OneChild`: `Spec => []OneChildPerRunner`,
  `ManagedChildProofs!StopKills`: `Spec => []StopKillsWhatItSees`, and
  `ManagedChildProofs!Refinement`: `Spec => RefinesManagedChild`. The inductive invariant is
  `ProcInv`: a live process of a runner is the one `r.child` names or the one about to be
  published (`Belongs`); a child whose `Stop` has returned is dead (`StopSound`); in each
  place of `Run` the old child is as that place expects, dead from `spawn` on
  (`RunSound`); `r.env` is what the last launch was given, or differs from it on the way
  to the next launch (`EnvSound`); `Stop` is past its wait only for a dead child
  (`StopWaits`). Without `StopSound` the waits of `Run` and `Stop` for each other's stop
  would prove nothing; without `EnvSound` a launch could not be shown to be of a new
  environment. Every action is one step of the proof; steps that do not touch
  processes go through `ProcStutter` and `ProcLoop`.

* `LifecycleProofs!StopsOnce`: `Spec => []StopsEachRunnerOnce`. `StopInv` adds that while
  the CLI is in a call of `Stop`, it is that of `cur`, and every other runner that was born
  has been stopped; a runner that is not born has not been.
* `LifecycleProofs!PidFileStays`: `Spec => []PidFileWhileRunning`. `PidInv` adds that a runner
  watches nothing before it has stored its pid file. The file of a new runner is safe from
  the old one because `Stop` has returned before the new one starts.
* `LifecycleProofs!GenuineExit`: `Spec => []ExitCodeGenuine`. `ExitInv` follows a code from
  the process to the CLI: what an exit channel holds is the code of a process nobody
  stopped (`CodesSound`), `Start` listens to processes of its own runner
  (`ListensToOwn`), it sends only codes (`SendsCode`), until `Stop` is called the first code
  it sends is genuine, since the channel it selects on is neither closed nor that
  of a stopped process (`FirstCode`), and the CLI keeps what it received while `Stop` runs
  (`AfterGenuine`). The second code a runner sends, and any after `Stop`, may well be
  false; that it is never read is the point of the proof.
* `DeliveryProofs!SettledChild`: `Spec => []SettledChildRunsCurrentEnv`. `SettledInv`: a view that
  is not in `DataCh` holds what the runner has of it (`ViewsArrive`), and `r.env` is an
  environment of the data in every place where no timer is to fire (`EnvOfData`).
* `DeliveryProofs!OnceOnly`: `Deterministic => (Spec => []OnceLaunchesOnce)`. With `-once` a value
  stays once it is received (`DataStays`), so the environment stays that of the data
  (`EnvStays`), and a process is launched only for the first one (`OneLaunch`).
  `Deterministic`, the same data gives one environment, is needed: finding 5 is a
  configuration for which it is false.
* `QuiescenceProofs`: `TypeCorrect`, `AlwaysTimed`, `InTime` (`Spec => []NeverLate`) and
  `NotEarly` (`Spec => QuietOrOverdue`). A minimum timer never fires early, whatever errors
  come in between; a maximum may when an error left it armed (`stale`). `MaxBounds`: the age of the data and what is left of
  the maximum add up to at most `Max`, and to exactly `Max` unless the timers are stale;
  `MinBounds`: what is left of the minimum covers what `quiet` lacks; `RunIsCurrent`:
  nothing is unapplied in `Run`. Nothing is assumed of `Min` and `Max` but that they are
  naturals: the code does not compare them either.
* `EnvironmentProofs`: all five properties of `Environment`. `TypeInv` is `TypeOK` with
  `Placed` (`Run` is at an entry of a dependency, or past the last). `ListsDecide` follows from
  `Built` (the child was built from the last environment that was new),
  `SanitizedNames` is `CleanEnv`, inductive once the raw names are known to be names.
  `BottomMostWins` needs what a loop has left behind so far (`Partial`): of the dependencies
  before the current one the last that yields a variable decides it (`DecidedIn`), unless the
  current loop has written it already (`BottomInv`). A loop over a list overwrites, so the
  last entry counts; a loop over a map may come by in any order, so any of its values may.
  A dependency whose template fails decides nothing for sure, but it can only have written names
  it leaves when it does not fail (`LeavesAll`, `PartialNames`); all others are decided as before.
  `LastExists` (a set of dependencies has a last one) is the well-foundedness of the naturals again.
  `VaultPrecedence` (`VaultInv`): a loop that is broken off in the middle can only have
  overwritten a secret with another secret, secrets being the last dependencies.

* `ConfigurationProofs`: all eight properties of `Configuration`, for command lines, files and
  lists of any length, and any number of edits and reloads.
  * `Loads`: `Spec => []LoadInv`, on which the others rest. `ShapeInv` has the shapes,
    `PhaseInv` the codes and that flags were accepted. `GivenInv`: once the flags
    are parsed, the saved settings stay, and the shared blocks are only ever
    finalized (`Kept`). `LoadedInv`: the settings and lists are what the last load makes of the
    files it read and of `given`, the lists finalized twice. `RunningInv`: the runner has
    these, finalized once more. It is needed because `AsFreshStart` compares with a load
    of blocks nobody has written to; that the blocks written to by earlier loads give the same
    is `FinalizedFrom`: finalizing a block changes neither its name nor whether it has a path
    (`KeptForm`).
  * `TypesCorrect`, `ReloadsAreFresh` and `RunnersAreValid` (`TypeOK`, `AsFreshStart`,
    `RunsOnlyValid`) follow from `LoadInv`; the last needs that a merge is without
    error only if all its files are (`MergeAllOk`).
  * `BlocksKeepOrder` (`BlocksInOrder`) needs `NamesInv`: the names of the blocks the flags
    gave are those the flags name, in order. The runner's list is the files' blocks joined with
    these, and `CompactNothing` shows that compacting a list in which all have a path
    changes nothing and finalizes all.
  * `SwitchReachesFlagBlocks` (`NoPrefixReachesFlagBlocks`) needs `NoPrefixInv`: the last switch
    is remembered, no block has it before the flags end, and all prefixes and secrets of the
    flags have it afterwards. `CompactKeeps` shows that a compacted list holds only pointers
    it held before, so the owner of each is right whatever is lost or duplicated.
  * `FormatsReachTheirService` (`FormatReachesItsService`) needs `FormatInv`: there are as many
    services as queries, and each has the last format given between its query and the next;
    the program has panicked only if some format had no query before it.
  * `LastSourceWins` (`Precedence`) needs `CliInv`, the same for the settings of the command
    line, flags before the words after them; what `Finalize` does with the token file comes
    on top of it. Among the files, `MergeAllSet` gives the last one
    that has a setting, and `MergeAllFlatten` that merging the directories after their files
    were merged is merging all files in a row; it rests on `MergeAssociative`.
  * `DeprecatedKeepsOthers` (`DeprecatedChangesOnlyItsOwn`) needs of the state only that files are
    made of statements (`FilesInv`); the rest is about `moveDeprecated`: outside the places a
    key moves to, what is moved, kept and lost is the same with and without the key, and so is
    what is then made of plain values (`FromStringSame`).

  The loops of the code are recursive functions here (`MergeAll`, `Compact`) or a fold of
  the library (`FlattenSeq`). An induction theorem of the library cannot be applied, so
  `ConfigProofs` inducts by the smallest counterexample: the set of rounds at which a fact fails,
  if it has an element, has a least one (`WFMin` with `NatLessThanWellFounded`), and that
  contradicts the step (`Induction`, `RoundInduction`). What a loop computes is stated once
  per round (`MergeAllRounds`, `FlattenSeqRounds`, `CompactRounds`) and used from there.

  The proofs found two statements of the properties that TLC's instance was too small to refute.
  That a prefix or secret named "/" has no path was said of services too, whose queries
  nothing trims; and the exception for a stanza written as a plain value was made for `consul`
  alone, although `vault = "..."` and `exec = "..."` lose a moved key just the same. Both were
  faults of the statements, not of the code; `MCStatements` now has the second case.

Of the properties of the passing runs, only the liveness ones are model-checked and not proved:
`AcceptedKillEnds`, `ChildExitEnds`, `CliComesBack` and `CurrentEnvEventually`. Fairness
and ENABLED are beyond TLAPS. The properties of the runs that expect a violation are false, each for
the reason its finding gives.

## Not modelled

* HCL and its conversion to structures (mapstructure, consul-template): library code. A file
  is what its statements say; a value is converted or refused.
* Settings without a flag other than `wait.enabled`: the lists of `exec.env` and the `key`
  blocks of a secret as parts of a configuration file. What they do to the environment of
  the command is in `Environment`; they merge like the settings and lists that are modelled.
* A field that a `Merge` or `Copy` forgets: both are one function override here, field by
  field alike, so a slip in one of the hundred `if`s is for a unit test.
* The type assertions of `appendSecrets` (runner.go:604, 654): a secret that is not KV2 but
  has a key `metadata` that is no map makes `Run` panic. The secrets of `Environment` are KV2, or
  have no such key.
* Symbolic links below a configuration directory, and reading errors of a single file.
* `newClientSet`: the hand-over of the options of Consul and Vault to their clients, field by
  field. That it may fail is `LoadFail`.
* What is written to the log or to the terminal: help texts, the version, levels. Setting
  the logger up can fail and end the program, which is modelled.
* The reload and kill signals of `Envconsul` do not change over a reload, although a
  file may change them. The switch of the CLI compares with whatever the last load gave.
* Platform and version files: constants.
* The internals of the child package and of the watcher: outside the repository. `Child` and
  `Watcher` have what runner.go relies on.
