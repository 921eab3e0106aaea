---------------------------- MODULE EnvconsulProofs ----------------------------
(* Theorems about Envconsul, for every value of its constants.              *)
EXTENDS Envconsul, TLAPS

\* The control of CLI.Run: it has a runner whenever it listens to one, and what
\* it does after a Stop is settled while the Stop runs.
CliControl ==
    /\ cliPc \in {"select", "signal", "stop"} => cur \in Runners
    /\ cliPc = "stop" => after # "none"

TypeInv == TypeOK /\ CliControl

LEMMA CompleteValue ==
    ASSUME NEW v \in Views, Complete(v)
    PROVE  v \in [Deps -> Vals]
BY DEF Views, Complete

LEMMA RenderType == \A v \in Views : Complete(v) => Renders(v) \subseteq Envs
BY CompleteValue, RunnerAssumption DEF RunnerAssumption

LEMMA TypeInit == Init => TypeOK
<1> SUFFICES ASSUME Init PROVE TypeOK
  OBVIOUS
<1>1. ChildTypeOK
  BY DEF Init, ChildInit, ChildTypeOK
<1>2. WatcherTypeOK
  BY WatcherAssumption DEF Init, WatcherInit, WatcherTypeOK, WatcherAssumption, Views
<1>3. RunnerTypeOK
  BY RunnerAssumption DEF Init, RunnerInit, RunnerTypeOK, RunnerAssumption, Views, Paths
<1>4. QED
  BY <1>1, <1>2, <1>3 DEF Init, TypeOK

LEMMA TypeRunner ==
    ASSUME TypeOK, NEW r \in Runners, RunnerStep(r)
    PROVE  TypeOK'
<1> USE DEF TypeOK, ChildTypeOK, WatcherTypeOK, RunnerTypeOK, cliVars, childVars,
        watcherVars, configVars, stopVars, Goto
<1>1. CASE Start(r)
  BY <1>1 DEF RunnerStep, Start, storePid, WatcherAdd, Paths
<1>2. CASE StartFail(r)
  BY <1>2 DEF RunnerStep, StartFail, storePid, Paths
<1>3. CASE RecvData(r)
  <2> DEFINE new == [d \in Deps |-> IF d \in pending[r] THEN view[r][d] ELSE data[r][d]]
  <2>1. new \in Views
    <3>1. view[r] \in Views /\ data[r] \in Views
      OBVIOUS
    <3>2. \A d \in Deps : view[r][d] \in Vals \cup {NoData} /\ data[r][d] \in Vals \cup {NoData}
      BY <3>1 DEF Views
    <3>3. QED
      BY <3>2 DEF Views
  <2>2. data' = [data EXCEPT ![r] = new]
    BY <1>3 DEF RecvData, Receive
  <2>3. data' \in [Runners -> Views]
    BY <2>1, <2>2
  <2>4. pending' \in [Runners -> SUBSET Deps]
    BY <1>3 DEF RecvData, WatcherDrain
  <2>5. /\ rpc' = rpc \/ rpc' = [rpc EXCEPT ![r] = "run"]
        /\ minTimer' \in [Runners -> BOOLEAN]
        /\ maxTimer' \in [Runners -> BOOLEAN]
    <3>1. \/ minTimer' = [minTimer EXCEPT ![r] = TRUE] /\ rpc' = rpc
             /\ maxTimer' = [maxTimer EXCEPT ![r] = TRUE]
          \/ minTimer' = minTimer /\ maxTimer' = maxTimer
             /\ rpc' = [rpc EXCEPT ![r] = "run"]
      BY <1>3 DEF RecvData, ArmTimers
    <3>2. minTimer \in [Runners -> BOOLEAN] /\ maxTimer \in [Runners -> BOOLEAN]
      OBVIOUS
    <3>3. QED
      BY <3>1, <3>2
  <2> HIDE DEF new
  <2>6. QED
    BY <1>3, <2>3, <2>4, <2>5 DEF RunnerStep, RecvData, WatcherDrain
<1>4. CASE TimerFires(r)
  BY <1>4 DEF RunnerStep, TimerFires, ClearTimers
<1>5. CASE \E s \in Sources : RecvErr(r, s)
  BY <1>5 DEF RunnerStep, RecvErr, WatcherRecvErr
<1>6. CASE RecvExit(r)
  BY <1>6, ChildAssumption DEF RunnerStep, RecvExit, ChildRecvExit, ReceivedCode,
        ChildAssumption
<1>7. CASE SendExit(r)
  BY <1>7 DEF RunnerStep, SendExit
<1>8. CASE RecvDone(r)
  BY <1>8 DEF RunnerStep, RecvDone
<1>9. CASE RunNothing(r)
  BY <1>9 DEF RunnerStep, RunNothing
<1>10. ASSUME NEW e \in Renders(data[r]), RunNewEnv(r, e) PROVE TypeOK'
  BY <1>10, RenderType DEF RunnerStep, RunNewEnv, AllReceived, AfterNewEnv
<1>11. CASE RunStopChild(r)
  <2>1. pstop' \in [Children -> {"no", "stopping", "stopped"}]
    BY <1>11 DEF RunStopChild, ChildStopCall
  <2>2. rpc' = [rpc EXCEPT ![r] = "awaitChild"]
    BY <1>11 DEF RunStopChild
  <2>3. UNCHANGED <<pstate, owner, penv, pcode, exitChan, watcherVars, configVars, data,
                    env, child, fresh, exitCh, minTimer, maxTimer, ExitCh, outCode,
                    pidFiles, stopVars, cliVars>>
    BY <1>11 DEF RunnerStep, RunStopChild, ChildStopCall
  <2>4. QED
    BY <2>1, <2>2, <2>3
<1>12. CASE RunAwaitChild(r)
  BY <1>12 DEF RunnerStep, RunAwaitChild
<1>13. ASSUME NEW c \in Children, Spawn(r, c) PROVE TypeOK'
  <2>1. env[r] \in Envs \cup {NoEnv}
    OBVIOUS
  <2>2. /\ pstate' \in [Children -> {"unborn", "running", "exited"}]
        /\ owner' \in [Children -> Runners \cup {NoRunner}]
        /\ penv' \in [Children -> Envs \cup {NoEnv}]
    BY <1>13, <2>1 DEF Spawn, ChildStart
  <2>3. rpc' = [rpc EXCEPT ![r] = "publish"] /\ fresh' = [fresh EXCEPT ![r] = c]
    BY <1>13 DEF Spawn
  <2>4. UNCHANGED <<pcode, pstop, exitChan, watcherVars, configVars, data, env, child,
                    exitCh, minTimer, maxTimer, ExitCh, outCode, pidFiles, stopVars,
                    cliVars>>
    BY <1>13 DEF RunnerStep, Spawn, ChildStart
  <2>5. QED
    BY <2>2, <2>3, <2>4
<1>14. CASE SpawnFail(r)
  BY <1>14 DEF RunnerStep, SpawnFail
<1>15. CASE Publish(r)
  BY <1>15 DEF RunnerStep, Publish, KeepExitCh
<1>16. QED
  BY <1>1, <1>2, <1>3, <1>4, <1>5, <1>6, <1>7, <1>8, <1>9, <1>10, <1>11, <1>12,
     <1>13, <1>14, <1>15 DEF RunnerStep

LEMMA TypeCli ==
    ASSUME TypeInv, CliStep
    PROVE  TypeInv'
<1> USE DEF TypeInv, CliControl, TypeOK, ChildTypeOK, WatcherTypeOK, RunnerTypeOK, cliVars, childVars,
        watcherVars, configVars, stopVars, loopVars, runnerVars, Goto, StopGoto,
        CliErrors, Return
<1>1. ASSUME NEW r \in Runners, NEW cf \in Configs, LoadRunner(r, cf) PROVE TypeInv'
  BY <1>1 DEF LoadRunner, NewRunner, SelectRunner
<1>2. ASSUME NEW code \in {"ExitCodeRunnerError", "ExitCodeConfigError"}, LoadFail(code)
      PROVE TypeInv'
  BY <1>2 DEF LoadFail
<1>3. ASSUME NEW r \in Runners, CliRecvErr(r) PROVE TypeInv'
  BY <1>3 DEF CliRecvErr, SendErr
<1>4. CASE CliRecvExit
  BY <1>4, EnvconsulAssumption DEF EnvconsulAssumption, CliRecvExit, HandleExit, CallStop, StopCall, Stopped
<1>5. CASE CliRecvSignal
  BY <1>5 DEF CliRecvSignal, HandleSignal, CallStop, StopCall, Stopped
<1>6. CASE CliSignalChild
  BY <1>6 DEF CliSignalChild
<1>7. CASE CliStopStep
  <2>1. CASE StopWatchers(cur)
    BY <1>7, <2>1 DEF CliStopStep, StopWatchers, WatcherStop
  <2>2. CASE StopChild(cur)
    <3>1. pstop' \in [Children -> {"no", "stopping", "stopped"}]
      BY <2>2 DEF StopChild, NothingToStop, ChildStopCall
    <3>2. QED
      BY <1>7, <2>2, <3>1 DEF CliStopStep, StopChild, ChildStopCall
  <2>3. CASE StopAwaitChild(cur)
    BY <1>7, <2>3 DEF CliStopStep, StopAwaitChild
  <2>4. CASE StopPid(cur)
    BY <1>7, <2>4 DEF CliStopStep, StopPid, deletePid
  <2>5. CASE StopDone(cur)
    BY <1>7, <2>5 DEF CliStopStep, StopDone
  <2>6. QED
    BY <1>7, <2>1, <2>2, <2>3, <2>4, <2>5 DEF CliStopStep
<1>8. CASE CliStopReturn
  BY <1>8 DEF CliStopReturn
<1>9. QED
  BY <1>1, <1>2, <1>3, <1>4, <1>5, <1>6, <1>7, <1>8 DEF CliStep

LEMMA TypeEnvironment ==
    ASSUME TypeOK,
           \/ \E c \in Children : ChildStep(c)
           \/ \E r \in Runners : PollStep(r) \/ WatchFailStep(r)
           \/ StoreStep
           \/ \E s \in Signals : SendSignal(s)
           \/ \E c \in Children, code \in Codes \cup {NoCode} : ProcessExit(c, code)
           \/ UNCHANGED vars
    PROVE  TypeOK'
<1> USE DEF TypeOK, ChildTypeOK, WatcherTypeOK, RunnerTypeOK, cliVars, childVars,
        watcherVars, configVars, stopVars, loopVars, runnerVars
<1>1. ASSUME NEW c \in Children, ChildStep(c) PROVE TypeOK'
  <2>1. pstop' \in [Children -> {"no", "stopping", "stopped"}]
    BY <1>1 DEF ChildStep, ChildStopReturn, ChildReap
  <2>2. exitChan' \in [Children -> {"open", "code", "closed"}]
    BY <1>1 DEF ChildStep, ChildStopReturn, ChildReap
  <2>3. UNCHANGED <<pstate, owner, penv, pcode, watcherVars, runnerVars, cliVars>>
    BY <1>1 DEF ChildStep, ChildStopReturn, ChildReap
  <2>4. QED
    BY <2>1, <2>2, <2>3
<1>2. ASSUME NEW r \in Runners, PollStep(r) PROVE TypeOK'
  <2>1. PICK d \in Deps : Poll(r, d, once)
    BY <1>2 DEF PollStep
  <2>2. view[r] \in Views /\ store[d] \in Vals
    OBVIOUS
  <2>3. [view[r] EXCEPT ![d] = store[d]] \in Views
    BY <2>2 DEF Views
  <2>4. view' \in [Runners -> Views]
    BY <2>1, <2>3 DEF Poll
  <2>5. pending' \in [Runners -> SUBSET Deps]
    BY <2>1 DEF Poll
  <2>6. QED
    BY <1>2, <2>1, <2>4, <2>5 DEF PollStep, Poll
<1>3. ASSUME NEW r \in Runners, WatchFailStep(r) PROVE TypeOK'
  BY <1>3, WatcherAssumption DEF WatchFailStep, WatchFail, WatcherAssumption
<1>4. CASE StoreStep
  BY <1>4, WatcherAssumption DEF StoreStep, StoreChange, WatcherAssumption
<1>5. ASSUME NEW s \in Signals, SendSignal(s) PROVE TypeOK'
  BY <1>5 DEF SendSignal, Deliver
<1>6. ASSUME NEW c \in Children, NEW code \in Codes \cup {NoCode}, ProcessExit(c, code)
      PROVE TypeOK'
  BY <1>6, EnvconsulAssumption DEF ProcessExit, ChildExit, Deliver, EnvconsulAssumption
<1>7. CASE UNCHANGED vars
  BY <1>7 DEF vars
<1>8. QED
  BY <1>1, <1>2, <1>3, <1>4, <1>5, <1>6, <1>7

\* Only CLI.Run touches its own variables, signalCh and sent aside.
LEMMA OthersKeepControl ==
    ASSUME CliControl,
           \/ \E r \in Runners : RunnerStep(r)
           \/ \E c \in Children : ChildStep(c)
           \/ \E r \in Runners : PollStep(r) \/ WatchFailStep(r)
           \/ StoreStep
           \/ \E s \in Signals : SendSignal(s)
           \/ \E c \in Children, code \in Codes \cup {NoCode} : ProcessExit(c, code)
           \/ UNCHANGED vars
    PROVE  UNCHANGED <<cliPc, cur, after, exitCode>> /\ CliControl'
<1>1. UNCHANGED <<cliPc, cur, after, exitCode>>
  BY DEF RunnerStep, ChildStep, PollStep, WatchFailStep, StoreStep, SendSignal,
         ProcessExit, cliVars, vars
<1>2. QED
  BY <1>1 DEF CliControl

LEMMA TypeNext == TypeInv /\ [Next]_vars => TypeInv'
<1> SUFFICES ASSUME TypeInv, [Next]_vars PROVE TypeInv'
  OBVIOUS
<1>1. ASSUME NEW r \in Runners, RunnerStep(r) PROVE TypeInv'
  BY <1>1, TypeRunner, OthersKeepControl DEF TypeInv
<1>2. CASE CliStep
  BY <1>2, TypeCli
<1>3. CASE \/ \E c \in Children : ChildStep(c)
           \/ \E r \in Runners : PollStep(r) \/ WatchFailStep(r)
           \/ StoreStep
           \/ \E s \in Signals : SendSignal(s)
           \/ \E c \in Children, code \in Codes \cup {NoCode} : ProcessExit(c, code)
           \/ UNCHANGED vars
  <2>1. TypeOK /\ CliControl
    BY DEF TypeInv
  <2>2. TypeOK'
    BY <1>3, <2>1, TypeEnvironment
  <2>3. CliControl'
    BY <1>3, <2>1, OthersKeepControl
  <2>4. QED
    BY <2>2, <2>3 DEF TypeInv
<1>4. QED
  BY <1>1, <1>2, <1>3 DEF Next, Resting

LEMMA TypeInvariant == Spec => []TypeInv
<1>1. Init => TypeInv
  BY TypeInit DEF Init, TypeInv, CliControl
<1>2. TypeInv /\ [Next]_vars => TypeInv'
  BY TypeNext
<1>3. QED
  BY <1>1, <1>2, PTL DEF Spec

\* Every variable keeps its type: in particular Run never compiles, and never
\* stores in r.env, an environment from data of which some is missing.
THEOREM TypeCorrect == Spec => []TypeOK
<1>1. TypeInv => TypeOK
  BY DEF TypeInv
<1>2. QED
  BY <1>1, TypeInvariant, PTL
=============================================================================
