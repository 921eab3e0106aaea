-------------------------------- MODULE Runner --------------------------------
(***************************************************************************)
(* runner.go: the event loop Start with the Run it calls (one goroutine    *)
(* per runner), and Stop, which the goroutine of the CLI calls. The two    *)
(* goroutines interleave at every access to what they share: the child,    *)
(* the watchers, the pid file and the channels. r.child is read and        *)
(* written without a common lock, so spawning a process (Spawn) and        *)
(* publishing it (Publish) are two steps.                                  *)
(***************************************************************************)
EXTENDS Child, Watcher

CONSTANTS Renders(_), \* the environments Run may compute from complete data
          Configs,   \* the configurations a (re)load may produce
          OnceModes, \* the values of the -once flag to consider
          NoPath     \* an empty pid_file

\* Two keys of a secret may come out as the same name, and Go ranges over a map
\* in any order: one data may yield several environments (module Environment).
\*
\* A configuration is what the control flow of a runner depends on: whether
\* wait (quiescence) is enabled, and the path of the pid file.
ASSUME RunnerAssumption ==
    /\ \A v \in [Deps -> Vals] : Renders(v) # {} /\ Renders(v) \subseteq Envs
    /\ Configs # {}
    /\ \A cf \in Configs : cf.wait \in BOOLEAN
    /\ OnceModes \subseteq BOOLEAN

VARIABLES config,   \* the configuration of each runner
          once,     \* the -once flag, the same for every runner
          rpc,      \* where the goroutine of Start is
          data,     \* r.data, what has been received
          env,      \* r.env, the last compiled environment
          child,    \* r.child
          fresh,    \* the started child that r.child does not name yet
          exitCh,   \* the local exitCh of Start, named by its child
          minTimer, \* whether r.minTimer is armed
          maxTimer, \* whether r.maxTimer is armed
          ExitCh,   \* r.ExitCh, of capacity 1: its content or NoCode
          outCode,  \* the code Start is sending on r.ExitCh
          pidFiles, \* the pid files that exist
          stopPc,   \* where Stop is; "stopped" means DoneCh is closed
          stopping  \* the child that stopChild, called by Stop, waits for

loopVars == <<rpc, data, env, child, fresh, exitCh, minTimer, maxTimer,
              ExitCh, outCode>>
stopVars == <<stopPc, stopping>>
configVars == <<config, once>>
runnerVars == <<configVars, loopVars, pidFiles, stopVars>>

Paths == {cf.pidFile : cf \in Configs} \ {NoPath}

RunnerTypeOK ==
    /\ config \in [Runners -> Configs]
    /\ once \in BOOLEAN
    /\ rpc \in [Runners -> {"unborn", "start", "select", "sendExit", "run",
                            "stopChild", "awaitChild", "spawn", "publish",
                            "sendErr", "returned"}]
    /\ data \in [Runners -> Views]
    /\ env \in [Runners -> Envs \cup {NoEnv}]
    /\ child \in [Runners -> Children \cup {NoChild}]
    /\ fresh \in [Runners -> Children \cup {NoChild}]
    /\ exitCh \in [Runners -> Children \cup {NoChild}]
    /\ minTimer \in [Runners -> BOOLEAN]
    /\ maxTimer \in [Runners -> BOOLEAN]
    /\ ExitCh \in [Runners -> Codes \cup {NoCode}]
    /\ outCode \in [Runners -> Codes \cup {NoCode}]
    /\ pidFiles \in SUBSET Paths
    /\ stopPc \in [Runners -> {"idle", "watchers", "child", "awaitChild",
                               "pid", "done", "stopped"}]
    /\ stopping \in [Runners -> Children \cup {NoChild}]

RunnerInit ==
    /\ config = [r \in Runners |-> CHOOSE cf \in Configs : TRUE]
    /\ once \in OnceModes
    /\ rpc = [r \in Runners |-> "unborn"]
    /\ data = [r \in Runners |-> [d \in Deps |-> NoData]]
    /\ env = [r \in Runners |-> NoEnv]
    /\ child = [r \in Runners |-> NoChild]
    /\ fresh = [r \in Runners |-> NoChild]
    /\ exitCh = [r \in Runners |-> NoChild]
    /\ minTimer = [r \in Runners |-> FALSE]
    /\ maxTimer = [r \in Runners |-> FALSE]
    /\ ExitCh = [r \in Runners |-> NoCode]
    /\ outCode = [r \in Runners |-> NoCode]
    /\ pidFiles = {}
    /\ stopPc = [r \in Runners |-> "idle"]
    /\ stopping = [r \in Runners |-> NoChild]

Complete(v) == \A d \in Deps : v[d] # NoData
Stopped(r) == stopPc[r] = "stopped"

Goto(r, label) == rpc' = [rpc EXCEPT ![r] = label]

-----------------------------------------------------------------------------
(* NewRunner and storePid                                                  *)

NewRunner(r, cf) ==
    /\ rpc[r] = "unborn"
    /\ Goto(r, "start")
    /\ config' = [config EXCEPT ![r] = cf]
    /\ UNCHANGED <<childVars, watcherVars, once, data, env, child, fresh, exitCh,
                   minTimer, maxTimer, ExitCh, outCode, pidFiles, stopVars>>

storePid(r) == pidFiles' = pidFiles \cup ({config[r].pidFile} \ {NoPath})
deletePid(r) == pidFiles' = pidFiles \ {config[r].pidFile}

Start(r) ==
    /\ rpc[r] = "start"
    /\ storePid(r)
    /\ WatcherAdd(r)
    /\ Goto(r, "select")
    /\ UNCHANGED <<childVars, configVars, data, env, child, fresh, exitCh,
                   minTimer, maxTimer, ExitCh, outCode, stopVars>>

\* storePid cannot open the file, or opens (creates) it and cannot write it.
StartFail(r) ==
    /\ rpc[r] = "start"
    /\ config[r].pidFile # NoPath
    /\ UNCHANGED pidFiles \/ storePid(r)
    /\ Goto(r, "sendErr")
    /\ UNCHANGED <<childVars, watcherVars, configVars, data, env, child, fresh,
                   exitCh, minTimer, maxTimer, ExitCh, outCode, stopVars>>

-----------------------------------------------------------------------------
(* The select of Start, one action per case                                *)

\* Seeded fault: only the first value of a dependency is kept.
Receive_FirstOnly(r) ==
    data' = [data EXCEPT ![r] = [d \in Deps |-> IF d \in pending[r] /\ @[d] = NoData
                                                THEN view[r][d] ELSE @[d]]]

\* Receive of one view and of every other one that DataCh holds.
Receive(r) ==
    data' = [data EXCEPT ![r] = [d \in Deps |-> IF d \in pending[r]
                                                THEN view[r][d] ELSE @[d]]]

\* minTimer starts over with every arrival and maxTimer only when it is nil; a
\* timer is armed or not here, so both have the same form.
ArmTimers(r) ==
    /\ minTimer' = [minTimer EXCEPT ![r] = TRUE]
    /\ maxTimer' = [maxTimer EXCEPT ![r] = TRUE]

ClearTimers(r) ==
    /\ minTimer' = [minTimer EXCEPT ![r] = FALSE]
    /\ maxTimer' = [maxTimer EXCEPT ![r] = FALSE]

RecvData(r) ==
    /\ rpc[r] = "select"
    /\ WatcherDrain(r)
    /\ Receive(r)
    /\ IF config[r].wait
       THEN ArmTimers(r) /\ UNCHANGED rpc
       ELSE Goto(r, "run") /\ UNCHANGED <<minTimer, maxTimer>>
    /\ UNCHANGED <<childVars, configVars, env, child, fresh, exitCh, ExitCh,
                   outCode, pidFiles, stopVars>>

TimerFires(r) ==
    /\ rpc[r] = "select"
    /\ minTimer[r] \/ maxTimer[r]
    /\ ClearTimers(r)
    /\ Goto(r, "run")
    /\ UNCHANGED <<childVars, watcherVars, configVars, data, env, child, fresh,
                   exitCh, ExitCh, outCode, pidFiles, stopVars>>

\* Outside once mode an error is logged, and Run is called all the same.
RecvErr(r, s) ==
    /\ rpc[r] = "select"
    /\ WatcherRecvErr(r, s)
    /\ Goto(r, IF once THEN "sendErr" ELSE "run")
    /\ UNCHANGED <<childVars, configVars, data, env, child, fresh, exitCh,
                   minTimer, maxTimer, ExitCh, outCode, pidFiles, stopVars>>

RecvExit(r) ==
    /\ rpc[r] = "select"
    /\ exitCh[r] # NoChild
    /\ ChildRecvExit(exitCh[r])
    /\ outCode' = [outCode EXCEPT ![r] = ReceivedCode(exitCh[r])]
    /\ Goto(r, "sendExit")
    /\ UNCHANGED <<watcherVars, configVars, data, env, child, fresh, exitCh,
                   minTimer, maxTimer, ExitCh, pidFiles, stopVars>>

\* r.ExitCh <- code blocks while the channel is full.
SendExit(r) ==
    /\ rpc[r] = "sendExit"
    /\ ExitCh[r] = NoCode
    /\ ExitCh' = [ExitCh EXCEPT ![r] = outCode[r]]
    /\ outCode' = [outCode EXCEPT ![r] = NoCode]
    /\ Goto(r, "run")
    /\ UNCHANGED <<childVars, watcherVars, configVars, data, env, child, fresh,
                   exitCh, minTimer, maxTimer, pidFiles, stopVars>>

\* Seeded fault: the pid file is removed when Start returns.
RecvDone_RemovesPid(r) ==
    /\ rpc[r] = "select"
    /\ Stopped(r)
    /\ deletePid(r)
    /\ Goto(r, "returned")
    /\ UNCHANGED <<childVars, watcherVars, configVars, data, env, child, fresh,
                   exitCh, minTimer, maxTimer, ExitCh, outCode, stopVars>>

RecvDone(r) ==
    /\ rpc[r] = "select"
    /\ Stopped(r)
    /\ Goto(r, "returned")
    /\ UNCHANGED <<childVars, watcherVars, configVars, data, env, child, fresh,
                   exitCh, minTimer, maxTimer, ExitCh, outCode, pidFiles, stopVars>>

-----------------------------------------------------------------------------
(* Run                                                                     *)

\* Seeded fault: the check for missing data is dropped.
AllReceived_Unchecked(r) == TRUE

AllReceived(r) == Complete(data[r])

\* Seeded fault: environments of the same length are taken to be equal.
SameEnv_LengthOnly(r, e) == env[r] # NoEnv

SameEnv(r, e) == env[r] = e

\* Run returns at once while a dependency has no data, and when the environment
\* is the one compiled last.
RunNothing(r) ==
    /\ rpc[r] = "run"
    /\ AllReceived(r) => \E e \in Renders(data[r]) : SameEnv(r, e)
    /\ Goto(r, "select")
    /\ UNCHANGED <<childVars, watcherVars, configVars, data, env, child, fresh,
                   exitCh, minTimer, maxTimer, ExitCh, outCode, pidFiles, stopVars>>

\* Seeded fault: the existing child is left running.
AfterNewEnv_NoStop(r) == "spawn"

AfterNewEnv(r) == IF child[r] # NoChild THEN "stopChild" ELSE "spawn"

RunNewEnv(r, e) ==
    /\ rpc[r] = "run"
    /\ AllReceived(r)
    /\ e \in Renders(data[r])
    /\ ~SameEnv(r, e)
    /\ env' = [env EXCEPT ![r] = e]
    /\ Goto(r, AfterNewEnv(r))
    /\ UNCHANGED <<childVars, watcherVars, configVars, data, child, fresh,
                   exitCh, minTimer, maxTimer, ExitCh, outCode, pidFiles, stopVars>>

RunStopChild(r) ==
    /\ rpc[r] = "stopChild"
    /\ ChildStopCall(child[r])
    /\ Goto(r, "awaitChild")
    /\ UNCHANGED <<watcherVars, configVars, data, env, child, fresh, exitCh,
                   minTimer, maxTimer, ExitCh, outCode, pidFiles, stopVars>>

\* Seeded fault: Stop of a child does not wait for the process.
StopReturned_AtOnce(c) == pstop[c] # "no"

StopReturned(c) == pstop[c] = "stopped"

RunAwaitChild(r) ==
    /\ rpc[r] = "awaitChild"
    /\ StopReturned(child[r])
    /\ Goto(r, "spawn")
    /\ UNCHANGED <<childVars, watcherVars, configVars, data, env, child, fresh,
                   exitCh, minTimer, maxTimer, ExitCh, outCode, pidFiles, stopVars>>

\* The process runs before r.child names it.
Spawn(r, c) ==
    /\ rpc[r] = "spawn"
    /\ ChildStart(c, r, env[r])
    /\ fresh' = [fresh EXCEPT ![r] = c]
    /\ Goto(r, "publish")
    /\ UNCHANGED <<watcherVars, configVars, data, env, child, exitCh, minTimer,
                   maxTimer, ExitCh, outCode, pidFiles, stopVars>>

\* CommandPrep, child.New or child.Start fails.
SpawnFail(r) ==
    /\ rpc[r] = "spawn"
    /\ Goto(r, "sendErr")
    /\ UNCHANGED <<childVars, watcherVars, configVars, data, env, child, fresh,
                   exitCh, minTimer, maxTimer, ExitCh, outCode, pidFiles, stopVars>>

\* Seeded fault: Start goes on with the exit channel of its first process.
KeepExitCh_First(r, c) ==
    exitCh' = [exitCh EXCEPT ![r] = IF @ = NoChild THEN c ELSE @]

\* exitCh = nexitCh: Run has returned the exit channel of a new process.
KeepExitCh(r, c) == exitCh' = [exitCh EXCEPT ![r] = c]

\* r.child = child, and the return to Start.
Publish(r) ==
    /\ rpc[r] = "publish"
    /\ child' = [child EXCEPT ![r] = fresh[r]]
    /\ KeepExitCh(r, fresh[r])
    /\ fresh' = [fresh EXCEPT ![r] = NoChild]
    /\ Goto(r, "select")
    /\ UNCHANGED <<childVars, watcherVars, configVars, data, env, minTimer,
                   maxTimer, ExitCh, outCode, pidFiles, stopVars>>

\* r.ErrCh <- err is a rendezvous: the receiver is an action of the CLI.
SendErr(r) ==
    /\ rpc[r] = "sendErr"
    /\ Goto(r, "returned")
    /\ UNCHANGED <<childVars, watcherVars, configVars, data, env, child, fresh,
                   exitCh, minTimer, maxTimer, ExitCh, outCode, pidFiles, stopVars>>

-----------------------------------------------------------------------------
(* Stop, run by the goroutine that calls it                                *)

StopGoto(r, label) == stopPc' = [stopPc EXCEPT ![r] = label]

\* The entry of Stop: nothing is left to do on a runner that is stopped.
StopCall(r) ==
    stopPc' = [stopPc EXCEPT ![r] = IF Stopped(r) THEN @ ELSE "watchers"]

StopWatchers(r) ==
    /\ stopPc[r] = "watchers"
    /\ WatcherStop(r)
    /\ StopGoto(r, "child")
    /\ UNCHANGED <<childVars, configVars, loopVars, pidFiles, stopping>>

\* Seeded fault: Stop does not wait for a child that Run is stopping.
NothingToStop_BeingStopped(r) == child[r] = NoChild \/ pstop[child[r]] # "no"

NothingToStop(r) == child[r] = NoChild

\* stopChild sees the child r.child names now, if any.
StopChild(r) ==
    /\ stopPc[r] = "child"
    /\ stopping' = [stopping EXCEPT ![r] = child[r]]
    /\ IF NothingToStop(r)
       THEN StopGoto(r, "pid") /\ UNCHANGED childVars
       ELSE StopGoto(r, "awaitChild") /\ ChildStopCall(child[r])
    /\ UNCHANGED <<watcherVars, configVars, loopVars, pidFiles>>

\* Seeded fault: r.child is read again after the wait has begun.
StopAwaitChild_Rereads(r) ==
    /\ stopPc[r] = "awaitChild"
    /\ StopReturned(child[r])
    /\ StopGoto(r, "pid")
    /\ UNCHANGED <<childVars, watcherVars, configVars, loopVars, pidFiles, stopping>>

StopAwaitChild(r) ==
    /\ stopPc[r] = "awaitChild"
    /\ StopReturned(stopping[r])
    /\ StopGoto(r, "pid")
    /\ UNCHANGED <<childVars, watcherVars, configVars, loopVars, pidFiles, stopping>>

StopPid(r) ==
    /\ stopPc[r] = "pid"
    /\ deletePid(r)
    /\ StopGoto(r, "done")
    /\ UNCHANGED <<childVars, watcherVars, configVars, loopVars, stopping>>

\* r.stopped = true and close(r.DoneCh).
StopDone(r) ==
    /\ stopPc[r] = "done"
    /\ StopGoto(r, "stopped")
    /\ UNCHANGED <<childVars, watcherVars, configVars, loopVars, pidFiles, stopping>>
=============================================================================
