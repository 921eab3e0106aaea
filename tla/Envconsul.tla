------------------------------- MODULE Envconsul -------------------------------
(***************************************************************************)
(* The whole program: the goroutine of CLI.Run (cli.go), the goroutine of  *)
(* every runner it has created, the watchers, the children, and whoever    *)
(* sends signals to envconsul. When CLI.Run returns, main calls os.Exit:   *)
(* every goroutine stops where it is and the children keep running.        *)
(*                                                                         *)
(* Not here: two cases of the select of CLI.Run that cannot happen. The    *)
(* channel stopCh is closed by CLI.stop, which nothing calls; DoneCh of    *)
(* the current runner is closed by Stop only, which CLI.Run calls before   *)
(* it returns or replaces the runner (see StopsEachRunnerOnce).            *)
(***************************************************************************)
EXTENDS Runner

CONSTANTS Signals,      \* the signals that may be sent to envconsul
          NoSignal,
          ReloadSignal, \* cfg.ReloadSignal
          KillSignal,   \* cfg.KillSignal
          SIGCHLD,
          RuntimeSig,   \* SIGURG, which the Go scheduler uses
          MaxSent       \* bound: how often each signal is sent

CliErrors == {"ExitCodeInterrupt", "ExitCodeRunnerError", "ExitCodeConfigError"}

\* The codes of envconsul itself are told apart from those of the command.
ASSUME EnvconsulAssumption ==
    /\ SIGCHLD \in Signals
    /\ ({"none", "reload"} \cup CliErrors) \cap Codes = {}
    /\ NoSignal \notin Signals
    /\ MaxSent \in [Signals -> Nat]

VARIABLES cliPc,    \* "load", "select", "signal", "stop", "exited"
          cur,      \* the local variable runner of CLI.Run
          after,    \* what CLI.Run does when the Stop it called returns
          exitCode, \* what CLI.Run returned
          signalCh, \* cli.signalCh, of capacity 1: its content or NoSignal
          sent      \* signals sent so far

cliVars == <<cliPc, cur, after, exitCode, signalCh, sent>>
vars == <<childVars, watcherVars, runnerVars, cliVars>>

TypeOK ==
    /\ ChildTypeOK
    /\ WatcherTypeOK
    /\ RunnerTypeOK
    /\ cliPc \in {"load", "select", "signal", "stop", "exited"}
    /\ cur \in Runners \cup {NoRunner}
    /\ after \in {"none", "reload"} \cup Codes \cup CliErrors
    /\ exitCode \in {NoCode} \cup Codes \cup CliErrors
    /\ signalCh \in Signals \cup {NoSignal}
    /\ sent \in [Signals -> Nat]

Init ==
    /\ ChildInit
    /\ WatcherInit
    /\ RunnerInit
    /\ cliPc = "load"
    /\ cur = NoRunner
    /\ after = "none"
    /\ exitCode = NoCode
    /\ signalCh = NoSignal
    /\ sent = [s \in Signals |-> 0]

Return(code) == cliPc' = "exited" /\ exitCode' = code

-----------------------------------------------------------------------------
(* Signals                                                                 *)

\* os/signal never blocks: a signal that finds the channel full is dropped.
\* CLI.Run calls signal.Notify when it has its first runner: a signal before
\* that has its default effect and is left out.
Deliver(s) == signalCh' = IF signalCh = NoSignal THEN s ELSE signalCh

SendSignal(s) ==
    /\ cliPc # "exited"
    /\ cur # NoRunner
    /\ sent[s] < MaxSent[s]
    /\ sent' = [sent EXCEPT ![s] = @ + 1]
    /\ Deliver(s)
    /\ UNCHANGED <<childVars, watcherVars, runnerVars, cliPc, cur, after, exitCode>>

\* A process ends, and the kernel tells its parent.
ProcessExit(c, code) ==
    /\ ChildExit(c, code)
    /\ IF cliPc = "exited" THEN UNCHANGED signalCh ELSE Deliver(SIGCHLD)
    /\ UNCHANGED <<watcherVars, runnerVars, cliPc, cur, after, exitCode, sent>>

-----------------------------------------------------------------------------
(* The goroutine of CLI.Run                                                *)

\* Seeded fault: the new runner is assigned to a variable that shadows runner.
SelectRunner_Shadowed(r) == cur' = IF cur = NoRunner THEN r ELSE cur

SelectRunner(r) == cur' = r

\* loadConfigs, NewRunner and `go runner.Start()`, at start-up and on reload.
LoadRunner(r, cf) ==
    /\ cliPc = "load"
    /\ NewRunner(r, cf)
    /\ SelectRunner(r)
    /\ cliPc' = "select"
    /\ UNCHANGED <<after, exitCode, signalCh, sent>>

\* A configuration that does not parse, a missing command, or a client,
\* watcher or dependency that NewRunner cannot create.
LoadFail(code) ==
    /\ cliPc = "load"
    /\ Return(code)
    /\ UNCHANGED <<childVars, watcherVars, runnerVars, cur, after, signalCh, sent>>

\* runner.ErrCh: CLI.Run returns at once, without a call of Stop.
CliRecvErr(r) ==
    /\ cliPc = "select"
    /\ r = cur
    /\ SendErr(r)
    /\ Return("ExitCodeRunnerError")
    /\ UNCHANGED <<cur, after, signalCh, sent>>

\* The call of Stop, and what comes after it: "reload" or the code to return.
CallStop(then) ==
    /\ StopCall(cur)
    /\ cliPc' = "stop"
    /\ after' = then

\* Seeded fault: a command that succeeds does not end envconsul.
HandleExit_IgnoresSuccess(code) ==
    IF code = ExitCodeOK THEN UNCHANGED <<cliPc, stopPc, after>> ELSE CallStop(code)

HandleExit(code) == CallStop(code)

CliRecvExit ==
    /\ cliPc = "select"
    /\ ExitCh[cur] # NoCode
    /\ HandleExit(ExitCh[cur])
    /\ ExitCh' = [ExitCh EXCEPT ![cur] = NoCode]
    /\ UNCHANGED <<childVars, watcherVars, configVars, rpc, data, env, child, fresh,
                   exitCh, minTimer, maxTimer, outCode, pidFiles, stopping,
                   cur, exitCode, signalCh, sent>>

\* Seeded fault: without a child there is nothing to clean up.
HandleSignal_KillNeedsChild(s) ==
    IF s = ReloadSignal
    THEN CallStop("reload")
    ELSE IF s = KillSignal /\ child[cur] # NoChild
    THEN CallStop("ExitCodeInterrupt")
    ELSE UNCHANGED <<cliPc, stopPc, after>>

\* signalCh: the first case of the switch that matches the signal is taken.
HandleSignal(s) ==
    IF s = ReloadSignal
    THEN CallStop("reload")
    ELSE IF s = KillSignal
    THEN CallStop("ExitCodeInterrupt")
    ELSE /\ cliPc' = IF s \in {SIGCHLD, RuntimeSig} THEN "select" ELSE "signal"
         /\ UNCHANGED <<stopPc, after>>

CliRecvSignal ==
    /\ cliPc = "select"
    /\ signalCh # NoSignal
    /\ HandleSignal(signalCh)
    /\ signalCh' = NoSignal
    /\ UNCHANGED <<childVars, watcherVars, configVars, loopVars, pidFiles, stopping,
                   cur, exitCode, sent>>

\* runner.Signal: the signal goes to the child, if r.child names one. It waits
\* for the lock of the child, which a Stop of that child holds.
CliSignalChild ==
    /\ cliPc = "signal"
    /\ child[cur] # NoChild => pstop[child[cur]] # "stopping"
    /\ cliPc' = "select"
    /\ UNCHANGED <<childVars, watcherVars, runnerVars, cur, after, exitCode,
                   signalCh, sent>>

\* One step of Stop, in this goroutine.
CliStopStep ==
    /\ cliPc = "stop"
    /\ \/ StopWatchers(cur)
       \/ StopChild(cur)
       \/ StopAwaitChild(cur)
       \/ StopPid(cur)
       \/ StopDone(cur)
    /\ UNCHANGED cliVars

CliStopReturn ==
    /\ cliPc = "stop"
    /\ Stopped(cur)
    /\ after' = "none"
    /\ IF after = "reload"
       THEN cliPc' = "load" /\ UNCHANGED exitCode
       ELSE Return(after)
    /\ UNCHANGED <<childVars, watcherVars, runnerVars, cur, signalCh, sent>>

-----------------------------------------------------------------------------
(* The composition                                                         *)

\* The event loop of a runner. SendErr is missing: CliRecvErr takes it.
RunnerStep(r) ==
    /\ cliPc # "exited"
    /\ \/ Start(r)
       \/ StartFail(r)
       \/ RecvData(r)
       \/ TimerFires(r)
       \/ \E s \in Sources : RecvErr(r, s)
       \/ RecvExit(r)
       \/ SendExit(r)
       \/ RecvDone(r)
       \/ RunNothing(r)
       \/ \E e \in Renders(data[r]) : RunNewEnv(r, e)
       \/ RunStopChild(r)
       \/ RunAwaitChild(r)
       \/ \E c \in Children : Spawn(r, c)
       \/ SpawnFail(r)
       \/ Publish(r)
    /\ UNCHANGED cliVars

CliStep ==
    \/ \E r \in Runners, cf \in Configs : LoadRunner(r, cf)
    \/ \E code \in {"ExitCodeRunnerError", "ExitCodeConfigError"} : LoadFail(code)
    \/ \E r \in Runners : CliRecvErr(r)
    \/ CliRecvExit
    \/ CliRecvSignal
    \/ CliSignalChild
    \/ CliStopStep
    \/ CliStopReturn

\* The goroutines of the child package: inside Stop, and the reaper.
ChildStep(c) ==
    /\ cliPc # "exited"
    /\ ChildStopReturn(c) \/ ChildReap(c)
    /\ UNCHANGED <<watcherVars, runnerVars, cliVars>>

\* Seeded fault: -once does not reach the watcher.
PollStep_NotOnce(r) ==
    /\ cliPc # "exited"
    /\ \E d \in Deps : Poll(r, d, FALSE)
    /\ UNCHANGED <<childVars, runnerVars, cliVars>>

\* newWatcher passes -once on to the views.
PollStep(r) ==
    /\ cliPc # "exited"
    /\ \E d \in Deps : Poll(r, d, once)
    /\ UNCHANGED <<childVars, runnerVars, cliVars>>

WatchFailStep(r) ==
    /\ cliPc # "exited"
    /\ \E s \in Sources : WatchFail(r, s)
    /\ UNCHANGED <<childVars, runnerVars, cliVars>>

StoreStep ==
    /\ \E d \in Deps, v \in Vals : StoreChange(d, v)
    /\ UNCHANGED <<childVars, runnerVars, cliVars>>

\* The program waits for its environment: both event loops are in their select
\* and nothing is in flight; or it has exited.
Resting ==
    /\ \/ cliPc = "exited"
       \/ cliPc = "select" /\ rpc[cur] = "select"
    /\ UNCHANGED vars

Next ==
    \/ \E r \in Runners : RunnerStep(r)
    \/ CliStep
    \/ \E c \in Children : ChildStep(c)
    \/ \E r \in Runners : PollStep(r)
    \/ \E r \in Runners : WatchFailStep(r)
    \/ StoreStep
    \/ \E s \in Signals : SendSignal(s)
    \/ \E c \in Children, code \in Codes \cup {NoCode} : ProcessExit(c, code)
    \/ Resting

Spec == Init /\ [][Next]_vars

\* Every goroutine that can take a step takes one in the end: the Go scheduler
\* is preemptive. Stop kills what it stops (kill_timeout, then SIGKILL), and a
\* view with retries keeps polling. Nothing is promised of the signals, of the
\* store, of the errors, or of a process that nobody stops.
Fairness ==
    /\ \A r \in Runners : WF_vars(RunnerStep(r)) /\ WF_vars(PollStep(r))
    /\ WF_vars(CliStep)
    /\ \A c \in Children : WF_vars(ChildStep(c)) /\ WF_vars(ProcessExit(c, NoCode))

FairSpec == Spec /\ Fairness

-----------------------------------------------------------------------------
(* Safety                                                                  *)

\* A runner never has two processes alive at once, although it starts one
\* before r.child names it and Stop may be stopping another meanwhile.
OneChildPerRunner == \A r \in Runners : \A c, d \in Live(r) : c = d

\* When the loop of a runner waits in its select, has received all its views
\* have fetched and has no timer armed, the command it started last was given
\* an environment of exactly that data.
SettledChildRunsCurrentEnv ==
    \A r \in Runners :
        (/\ rpc[r] = "select"
         /\ ~minTimer[r]
         /\ pending[r] = {}
         /\ Complete(view[r])) =>
            /\ child[r] # NoChild
            /\ penv[child[r]] \in Renders(view[r])

\* Stop gets past stopChild only when the process it saw in r.child is gone,
\* even if Run has called Stop on the same child, or it died by itself.
StopKillsWhatItSees ==
    \A r \in Runners :
        (stopPc[r] \in {"pid", "done", "stopped"} /\ stopping[r] # NoChild) =>
            pstate[stopping[r]] = "exited"

\* CLI.Run listens to a runner that Stop has not been called on: the DoneCh case
\* of its select is dead, and no runner is stopped twice.
StopsEachRunnerOnce ==
    cliPc \in {"load", "select", "signal"} =>
        \A r \in Runners : IF r = cur /\ cliPc # "load"
                           THEN stopPc[r] = "idle"
                           ELSE rpc[r] # "unborn" => Stopped(r)

\* While envconsul runs with a runner that has started, its pid file is there: a
\* Stop of an earlier runner never removes the file of the current one.
PidFileWhileRunning ==
    (cliPc \in {"select", "signal"} /\ watching[cur]) =>
        config[cur].pidFile \in pidFiles \cup {NoPath}

\* Once a process of the current runner has ended envconsul with a code, that is
\* the code of a process of this runner that ended by itself: neither the zero
\* a closed exit channel yields, nor the status of a process Stop killed.
ExitCodeGenuine ==
    (cliPc = "exited" /\ exitCode \in Codes) =>
        \E c \in Children : owner[c] = cur /\ pstate[c] = "exited" /\ pcode[c] = exitCode

\* With -once a runner launches its command at most once.
OnceLaunchesOnce ==
    once => \A c, d \in Children : (owner[c] = owner[d] /\ owner[c] # NoRunner) => c = d

\* Each runner keeps the promise of ManagedChild.
Launched(r) == IF fresh[r] # NoChild THEN penv[fresh[r]]
               ELSE IF child[r] # NoChild THEN penv[child[r]] ELSE NoEnv

Managed == INSTANCE ManagedChild WITH
               live <- [r \in Runners |-> Live(r)],
               born <- {c \in Children : pstate[c] # "unborn"},
               last <- [r \in Runners |-> Launched(r)]

RefinesManagedChild == Managed!Spec

-----------------------------------------------------------------------------
(* Liveness, under FairSpec                                                *)

\* A kill signal that signalCh has accepted ends envconsul, whatever it is doing.
AcceptedKillEnds == signalCh = KillSignal ~> cliPc = "exited"

\* The process r.child of the current runner names has ended by itself.
CurrentHasExited ==
    /\ cur # NoRunner
    /\ child[cur] # NoChild
    /\ pcode[child[cur]] # NoCode
    /\ pstop[child[cur]] = "no"

\* That ends envconsul, unless the process is stopped as well, for a new
\* environment or by Stop, or a reload puts another runner in its place.
ChildExitEnds == CurrentHasExited ~> (cliPc = "exited" \/ ~CurrentHasExited)

\* CLI.Run never blocks for good in a Stop or in a Signal of the child.
CliComesBack == cliPc \in {"stop", "signal"} ~> cliPc \in {"load", "select", "exited"}

\* When the store stops changing, the command comes to run with what it holds,
\* if envconsul does not end.
CurrentEnvEventually ==
    <>[](\/ cliPc = "exited"
         \/ /\ cur # NoRunner
            /\ child[cur] # NoChild
            /\ penv[child[cur]] \in Renders(store))

-----------------------------------------------------------------------------
(* What the documentation and the comments say                             *)

\* "Stop halts the execution of this runner and its subprocesses" (runner.go:228).
StopHaltsSubprocesses == \A r \in Runners : Stopped(r) => Live(r) = {}

\* "deletePid is used to remove the PID on exit" (runner.go:876).
PidRemovedOnExit == cliPc = "exited" => pidFiles = {}

\* kill_signal is "the signal that Envconsul should listen for to kill itself"
\* (README.md:550): sending it ends envconsul once it has a runner to stop.
KillSignalHonoured == sent[KillSignal] > 0 ~> cliPc = "exited"

\* Quiescence, "the minimum and maximum amount of time to wait for the cluster to
\* reach a consistent state before relaunching the app" (README.md:507): no new
\* environment while minTimer is armed.
QuiescenceRespected == [][\A r \in Runners : env'[r] # env[r] => ~minTimer[r]]_vars
=============================================================================
