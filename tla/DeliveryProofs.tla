----------------------------- MODULE DeliveryProofs -----------------------------
(***************************************************************************)
(* What the data of a runner leads to.  What the watchers have fetched     *)
(* reaches the command: when the loop of a runner waits with nothing left  *)
(* to receive and no timer armed, its command has been started with an     *)
(* environment of that data.  With -once a runner launches its command at  *)
(* most once, as long as the data determines the environment.              *)
(***************************************************************************)
EXTENDS ManagedChildProofs

-----------------------------------------------------------------------------
(* Every change reaches the command.                                         *)

\* A view that is not in DataCh holds what the runner has of it.
ViewsArrive == \A r \in Runners : \A d \in Deps : d \notin pending[r] => data[r][d] = view[r][d]

\* Before its loop a runner has no data. In Run, from the comparison with the last
\* environment on, r.env is the environment of the data. In the select it is, unless
\* a dependency has no data or minTimer, armed by the data, has yet to fire.
EnvOfData ==
    \A r \in Runners :
        /\ rpc[r] \in {"unborn", "start"} => ~Complete(data[r])
        /\ \/ rpc[r] \in {"stopChild", "awaitChild", "spawn", "publish"}
           \/ rpc[r] = "select" /\ ~minTimer[r] /\ Complete(data[r])
           => env[r] \in Renders(data[r])

SettledInv == ViewsArrive /\ EnvOfData

LEMMA SettledInit == Init => SettledInv
BY WatcherAssumption DEF Init, WatcherInit, RunnerInit, SettledInv, ViewsArrive, EnvOfData,
   Complete, WatcherAssumption

LEMMA SettledRunner ==
    ASSUME TypeInv, SettledInv, NEW r \in Runners, RunnerStep(r)
    PROVE  SettledInv'
<1> USE DEF TypeInv, TypeOK, RunnerTypeOK, WatcherTypeOK, Goto
<1>1. CASE RecvData(r)
  <2>1. /\ data' = [data EXCEPT ![r] = [d \in Deps |-> IF d \in pending[r] THEN view[r][d]
                                                                          ELSE data[r][d]]]
        /\ pending' = [pending EXCEPT ![r] = {}]
        /\ UNCHANGED <<view, env>>
    BY <1>1 DEF RecvData, Receive, WatcherDrain
  <2>2. ViewsArrive'
    BY <2>1 DEF SettledInv, ViewsArrive
  <2>3. \/ rpc' = [rpc EXCEPT ![r] = "run"] /\ UNCHANGED minTimer
        \/ UNCHANGED rpc /\ minTimer' = [minTimer EXCEPT ![r] = TRUE]
    BY <1>1 DEF RecvData, ArmTimers
  <2>4. \A q \in Runners : q # r => data'[q] = data[q]
    BY <2>1
  <2>5. rpc[r] = "select"
    BY <1>1 DEF RecvData
  <2>6. EnvOfData'
    BY <2>1, <2>3, <2>4, <2>5 DEF SettledInv, EnvOfData, Complete
  <2>7. QED
    BY <2>2, <2>6 DEF SettledInv
<1>2. CASE ~RecvData(r)
  <2>1. UNCHANGED <<data, view, pending>>
    BY <1>2 DEF RunnerStep, watcherVars, Start, WatcherAdd, StartFail, TimerFires, RecvErr,
         WatcherRecvErr, RecvExit, SendExit, RecvDone, RunNothing, RunNewEnv, RunStopChild,
         RunAwaitChild, Spawn, SpawnFail, Publish
  <2>2. ViewsArrive'
    BY <2>1 DEF SettledInv, ViewsArrive
  <2>3. EnvOfData'
    <3>1. CASE \E e \in Renders(data[r]) : RunNewEnv(r, e)
      BY <2>1, <3>1 DEF SettledInv, EnvOfData, RunNewEnv, AfterNewEnv, Complete
    <3>2. CASE RunNothing(r)
      BY <2>1, <3>2 DEF SettledInv, EnvOfData, RunNothing, AllReceived, SameEnv, Complete
    <3>3. CASE Start(r)
      BY <2>1, <3>3 DEF SettledInv, EnvOfData, Start, Complete
    <3>4. CASE \/ StartFail(r) \/ TimerFires(r) \/ (\E s \in Sources : RecvErr(r, s))
               \/ RecvExit(r) \/ SendExit(r) \/ RecvDone(r) \/ SpawnFail(r)
      BY <2>1, <3>4 DEF SettledInv, EnvOfData, Complete, StartFail, TimerFires, ClearTimers,
           RecvErr, RecvExit, SendExit, RecvDone, SpawnFail
    <3>5. CASE RunStopChild(r) \/ RunAwaitChild(r) \/ (\E c \in Children : Spawn(r, c))
               \/ Publish(r)
      BY <2>1, <3>5 DEF SettledInv, EnvOfData, Complete, RunStopChild, RunAwaitChild, Spawn,
           Publish
    <3>6. QED
      BY <1>2, <3>1, <3>2, <3>3, <3>4, <3>5 DEF RunnerStep
  <2>4. QED
    BY <2>2, <2>3 DEF SettledInv
<1>3. QED
  BY <1>1, <1>2

\* Steps that leave the loops where they are, or create a runner or end one.
LEMMA SettledOthers ==
    ASSUME SettledInv, ViewsArrive', UNCHANGED <<data, env, minTimer>>,
           \A r \in Runners : \/ rpc'[r] = rpc[r]
                              \/ rpc[r] = "unborn" /\ rpc'[r] = "start"
                              \/ rpc'[r] = "returned"
    PROVE  SettledInv'
BY DEF SettledInv, EnvOfData, Complete

LEMMA SettledNext == TypeInv /\ SettledInv /\ [Next]_vars => SettledInv'
<1> SUFFICES ASSUME TypeInv, SettledInv, [Next]_vars PROVE SettledInv'
  OBVIOUS
<1> USE DEF TypeInv, TypeOK, RunnerTypeOK, WatcherTypeOK
<1>1. ASSUME NEW r \in Runners, RunnerStep(r) PROVE SettledInv'
  BY <1>1, SettledRunner
<1>2. CASE CliStep
  <2>1. UNCHANGED <<data, env, minTimer, view, pending>>
    BY <1>2 DEF CliStep, runnerVars, loopVars, watcherVars, LoadRunner, NewRunner, LoadFail,
         CliRecvErr, SendErr, CliRecvExit, CliRecvSignal, CliSignalChild, CliStopStep,
         StopWatchers, WatcherStop, StopChild, StopAwaitChild, StopPid, StopDone,
         CliStopReturn
  <2>2. \A r \in Runners : \/ rpc'[r] = rpc[r]
                           \/ rpc[r] = "unborn" /\ rpc'[r] = "start"
                           \/ rpc'[r] = "returned"
    BY <1>2 DEF CliStep, runnerVars, loopVars, Goto, LoadRunner, NewRunner, LoadFail,
         CliRecvErr, SendErr, CliRecvExit, CliRecvSignal, CliSignalChild, CliStopStep,
         StopWatchers, StopChild, StopAwaitChild, StopPid, StopDone, CliStopReturn
  <2>3. ViewsArrive'
    BY <2>1 DEF SettledInv, ViewsArrive
  <2>4. QED
    BY <2>1, <2>2, <2>3, SettledOthers
<1>3. ASSUME NEW r \in Runners, PollStep(r) PROVE SettledInv'
  <2>1. PICK d \in Deps : /\ view' = [view EXCEPT ![r][d] = store[d]]
                          /\ pending' = [pending EXCEPT ![r] = @ \cup {d}]
    BY <1>3 DEF PollStep, Poll
  <2>2. \A q \in Runners, e \in Deps : e \notin pending'[q] =>
            e \notin pending[q] /\ view'[q][e] = view[q][e]
    BY <2>1 DEF Views
  <2>3. UNCHANGED runnerVars
    BY <1>3 DEF PollStep
  <2>4. ViewsArrive'
    BY <2>2, <2>3 DEF SettledInv, ViewsArrive, runnerVars, loopVars
  <2>5. QED
    BY <2>3, <2>4, SettledOthers DEF runnerVars, loopVars
<1>4. CASE UNCHANGED <<runnerVars, view, pending>>
  <2>1. ViewsArrive'
    BY <1>4 DEF SettledInv, ViewsArrive, runnerVars, loopVars
  <2>2. QED
    BY <1>4, <2>1, SettledOthers DEF runnerVars, loopVars
<1>5. QED
  BY <1>1, <1>2, <1>3, <1>4 DEF Next, Resting, ChildStep, WatchFailStep, WatchFail, StoreStep,
       StoreChange, SendSignal, ProcessExit, vars, watcherVars

\* The command a waiting runner has started last has the environment of all that
\* its views have fetched (runner.go:152-225, 273-326).
THEOREM SettledChild == Spec => []SettledChildRunsCurrentEnv
<1>1. Init => TypeInv /\ ProcInv /\ SettledInv
  BY TypeInit, ProcInit, SettledInit DEF Init, TypeInv, CliControl
<1>2. (TypeInv /\ ProcInv /\ SettledInv) /\ [Next]_vars => (TypeInv /\ ProcInv /\ SettledInv)'
  BY TypeNext, ProcNext, SettledNext
<1>3. TypeInv /\ ProcInv /\ SettledInv => SettledChildRunsCurrentEnv
  <2> SUFFICES ASSUME TypeInv, ProcInv, SettledInv, NEW r \in Runners, rpc[r] = "select",
                      ~minTimer[r], pending[r] = {}, Complete(view[r])
               PROVE  child[r] # NoChild /\ penv[child[r]] \in Renders(view[r])
    BY DEF SettledChildRunsCurrentEnv
  <2> USE DEF TypeInv, TypeOK, RunnerTypeOK, WatcherTypeOK
  <2>1. data[r] \in Views /\ view[r] \in Views
    OBVIOUS
  <2>2. data[r] = view[r]
    <3>1. \A d \in Deps : data[r][d] = view[r][d]
      BY DEF SettledInv, ViewsArrive
    <3>2. QED
      BY <2>1, <3>1 DEF Views
  <2>3. env[r] \in Renders(view[r])
    BY <2>2 DEF SettledInv, EnvOfData
  <2>4. env[r] \in Envs
    BY <2>1, <2>3, RenderType
  <2>5. fresh[r] = NoChild /\ env[r] = Launched(r)
    BY DEF ProcInv, EnvSound, RunSound
  <2>6. QED
    BY <2>3, <2>4, <2>5, ChildAssumption DEF ChildAssumption, Launched
<1>4. QED
  BY <1>1, <1>2, <1>3, PTL DEF Spec

-----------------------------------------------------------------------------
(* With -once.                                                               *)

\* The same data gives the same environment: no two keys of a secret, no two
\* variables of a service get the same name.
Deterministic == \A v \in Views : Complete(v) => \A e, f \in Renders(v) : e = f

\* A value that was received stays.
DataStays ==
    \A r \in Runners, d \in Deps : data[r][d] # NoData => data[r][d] = view[r][d]

\* An environment was compiled from all the data, and stays its environment.
EnvStays ==
    \A r \in Runners :
        env[r] # NoEnv => Complete(data[r]) /\ env[r] \in Renders(data[r])

\* A process is launched only on the way from the first environment to the end of Run.
OneLaunch ==
    /\ \A r \in Runners :
         /\ rpc[r] \notin {"stopChild", "awaitChild"}
         /\ env[r] = NoEnv \/ rpc[r] = "spawn" => \A c \in Children : owner[c] # r
    /\ OnceLaunchesOnce

OnceInv == once => DataStays /\ EnvStays /\ OneLaunch

LEMMA OnceInit == Init => OnceInv
BY ActorsAssumption
DEF Init, ChildInit, WatcherInit, RunnerInit, OnceInv, DataStays, EnvStays, OneLaunch,
    OnceLaunchesOnce, ActorsAssumption

\* Steps that launch nothing and compile nothing.
LEMMA OnceStutter ==
    ASSUME OnceInv, UNCHANGED <<once, data, view, env, owner>>,
           \A r \in Runners : rpc'[r] # rpc[r] =>
               rpc'[r] \notin {"spawn", "stopChild", "awaitChild"}
    PROVE  OnceInv'
BY DEF OnceInv, DataStays, EnvStays, OneLaunch, OnceLaunchesOnce, Complete

LEMMA OnceRunner ==
    ASSUME Deterministic, TypeInv, ProcInv, OnceInv, NEW r \in Runners, RunnerStep(r)
    PROVE  OnceInv'
<1> USE DEF TypeInv, TypeOK, RunnerTypeOK, WatcherTypeOK, ChildTypeOK, Goto
<1>1. CASE ~once
  <2>1. UNCHANGED once
    BY DEF RunnerStep, configVars, Start, StartFail, RecvData, TimerFires, RecvErr, RecvExit,
       SendExit, RecvDone, RunNothing, RunNewEnv, RunStopChild, RunAwaitChild, Spawn,
       SpawnFail, Publish
  <2>2. QED
    BY <1>1, <2>1 DEF OnceInv
<1>2. CASE once /\ RecvData(r)
  <2>1. /\ data' = [data EXCEPT ![r] = [d \in Deps |-> IF d \in pending[r] THEN view[r][d]
                                                                          ELSE data[r][d]]]
        /\ UNCHANGED <<once, view, env, owner>>
        /\ rpc'[r] # rpc[r] => rpc'[r] = "run"
        /\ \A q \in Runners : q # r => rpc'[q] = rpc[q] /\ data'[q] = data[q]
    BY <1>2 DEF RecvData, Receive, WatcherDrain, configVars, childVars
  <2>2. DataStays'
    BY <1>2, <2>1 DEF OnceInv, DataStays
  <2>3. Complete(data[r]) => data'[r] = data[r]
    <3>1. Complete(data[r]) => \A d \in Deps : data'[r][d] = data[r][d]
      BY <1>2, <2>1 DEF OnceInv, DataStays, Complete
    <3>2. DOMAIN data'[r] = Deps /\ DOMAIN data[r] = Deps /\ data[r] \in Views
      BY <2>1 DEF Views
    <3>3. data'[r] = [d \in Deps |-> data'[r][d]] /\ data[r] = [d \in Deps |-> data[r][d]]
      BY <2>1, <3>2 DEF Views
    <3>4. QED
      BY <3>1, <3>3
  <2>4. EnvStays'
    BY <1>2, <2>1, <2>3 DEF OnceInv, EnvStays
  <2>5. OneLaunch'
    BY <1>2, <2>1 DEF OnceInv, OneLaunch, OnceLaunchesOnce
  <2>6. QED
    BY <2>2, <2>4, <2>5 DEF OnceInv
<1>3. ASSUME once, NEW e \in Renders(data[r]), RunNewEnv(r, e) PROVE OnceInv'
  <2>1. /\ rpc[r] = "run" /\ Complete(data[r]) /\ env[r] # e
        /\ env' = [env EXCEPT ![r] = e] /\ rpc' = [rpc EXCEPT ![r] = AfterNewEnv(r)]
        /\ UNCHANGED <<once, data, view, owner>>
    BY <1>3 DEF RunNewEnv, AllReceived, SameEnv, configVars, watcherVars, childVars
  <2>2. env[r] = NoEnv
    BY <1>3, <2>1 DEF OnceInv, EnvStays, Deterministic
  <2>3. \A c \in Children : owner[c] # r
    BY <1>3, <2>2 DEF OnceInv, OneLaunch
  <2>4. AfterNewEnv(r) = "spawn"
    <3>1. child[r] = NoChild
      BY <2>3 DEF ProcInv, Belongs, Named
    <3>2. QED
      BY <3>1 DEF AfterNewEnv
  <2>5. DataStays' /\ EnvStays' /\ OneLaunch'
    BY <1>3, <2>1, <2>3, <2>4
    DEF OnceInv, DataStays, EnvStays, OneLaunch, OnceLaunchesOnce, Complete
  <2>6. QED
    BY <2>5 DEF OnceInv
<1>4. ASSUME once, NEW c \in Children, Spawn(r, c) PROVE OnceInv'
  <2>1. /\ rpc[r] = "spawn" /\ rpc' = [rpc EXCEPT ![r] = "publish"]
        /\ owner' = [owner EXCEPT ![c] = r]
        /\ UNCHANGED <<once, data, view, env>>
    BY <1>4 DEF Spawn, ChildStart, configVars, watcherVars
  <2>2. \A d \in Children : owner[d] # r
    BY <1>4, <2>1 DEF OnceInv, OneLaunch
  <2>3. env[r] # NoEnv
    BY <2>1, ChildAssumption DEF ProcInv, EnvSound, ChildAssumption
  <2>4. OneLaunch'
    BY <1>4, <2>1, <2>2, <2>3 DEF OnceInv, OneLaunch, OnceLaunchesOnce
  <2>5. DataStays' /\ EnvStays'
    BY <1>4, <2>1 DEF OnceInv, DataStays, EnvStays, Complete
  <2>6. QED
    BY <2>4, <2>5 DEF OnceInv
<1>5. CASE /\ once /\ ~RecvData(r) /\ ~(\E e \in Renders(data[r]) : RunNewEnv(r, e))
           /\ ~(\E c \in Children : Spawn(r, c))
  <2>1. rpc[r] # "awaitChild" /\ rpc[r] # "stopChild"
    BY <1>5 DEF OnceInv, OneLaunch
  <2>2. UNCHANGED <<once, data, view, env, owner>>
    BY <1>5 DEF RunnerStep, configVars, watcherVars, childVars, Start, WatcherAdd, StartFail,
       TimerFires, RecvErr, WatcherRecvErr, RecvExit, ChildRecvExit, SendExit, RecvDone,
       RunNothing, RunStopChild, ChildStopCall, RunAwaitChild, SpawnFail, Publish
  <2>3. \A q \in Runners : rpc'[q] # rpc[q] =>
            rpc'[q] \notin {"spawn", "stopChild", "awaitChild"}
    BY <1>5, <2>1 DEF RunnerStep, Start, StartFail, TimerFires, RecvErr, RecvExit, SendExit,
       RecvDone, RunNothing, RunStopChild, RunAwaitChild, SpawnFail, Publish
  <2>4. QED
    BY <2>2, <2>3, OnceStutter
<1>6. QED
  BY <1>1, <1>2, <1>3, <1>4, <1>5

LEMMA OnceNext ==
    Deterministic /\ TypeInv /\ ProcInv /\ OnceInv /\ [Next]_vars => OnceInv'
<1> SUFFICES ASSUME Deterministic, TypeInv, ProcInv, OnceInv, [Next]_vars PROVE OnceInv'
  OBVIOUS
<1> USE DEF TypeInv, TypeOK, RunnerTypeOK, WatcherTypeOK, ChildTypeOK
<1>1. ASSUME NEW r \in Runners, RunnerStep(r) PROVE OnceInv'
  BY <1>1, OnceRunner
<1>2. CASE CliStep
  <2>1. UNCHANGED <<once, data, view, env, owner>>
    BY <1>2 DEF CliStep, runnerVars, configVars, loopVars, watcherVars, childVars, LoadRunner,
       NewRunner, LoadFail, CliRecvErr, SendErr, CliRecvExit, CliRecvSignal, CliSignalChild,
       CliStopStep, StopWatchers, WatcherStop, StopChild, ChildStopCall, StopAwaitChild,
       StopPid, StopDone, CliStopReturn
  <2>2. \A r \in Runners : rpc'[r] # rpc[r] =>
            rpc'[r] \notin {"spawn", "stopChild", "awaitChild"}
    BY <1>2 DEF CliStep, runnerVars, loopVars, Goto, LoadRunner, NewRunner, LoadFail,
       CliRecvErr, SendErr, CliRecvExit, CliRecvSignal, CliSignalChild, CliStopStep,
       StopWatchers, StopChild, StopAwaitChild, StopPid, StopDone, CliStopReturn
  <2>3. QED
    BY <2>1, <2>2, OnceStutter
<1>3. ASSUME NEW r \in Runners, PollStep(r) PROVE OnceInv'
  <2>1. /\ UNCHANGED <<once, data, env, owner, rpc>>
        /\ \E d \in Deps : /\ once => view[r][d] = NoData
                           /\ view' = [view EXCEPT ![r][d] = store[d]]
    BY <1>3 DEF PollStep, Poll, runnerVars, configVars, loopVars, childVars
  <2>2. once => \A q \in Runners, e \in Deps : view[q][e] # NoData => view'[q][e] = view[q][e]
    BY <2>1 DEF Views
  <2>3. once => DataStays'
    BY <2>1, <2>2 DEF OnceInv, DataStays
  <2>4. once => EnvStays' /\ OneLaunch'
    BY <2>1 DEF OnceInv, EnvStays, OneLaunch, OnceLaunchesOnce, Complete
  <2>5. QED
    BY <2>1, <2>3, <2>4 DEF OnceInv
<1>4. CASE UNCHANGED <<runnerVars, view, owner>>
  BY <1>4, OnceStutter DEF runnerVars, configVars, loopVars
<1>5. QED
  BY <1>1, <1>2, <1>3, <1>4
  DEF Next, Resting, ChildStep, ChildStopReturn, ChildReap, WatchFailStep, WatchFail,
      StoreStep, StoreChange, SendSignal, ProcessExit, ChildExit, vars, watcherVars, childVars

\* With -once a runner launches its command at most once, however often its loop
\* calls Run, as long as the data determines the environment (runner.go:965, 313).
THEOREM OnceOnly == Deterministic => (Spec => []OnceLaunchesOnce)
<1> SUFFICES ASSUME Deterministic PROVE Spec => []OnceLaunchesOnce
  OBVIOUS
<1>1. Init => TypeInv /\ ProcInv /\ OnceInv
  BY TypeInit, ProcInit, OnceInit DEF Init, TypeInv, CliControl
<1>2. (TypeInv /\ ProcInv /\ OnceInv) /\ [Next]_vars => (TypeInv /\ ProcInv /\ OnceInv)'
  BY TypeNext, ProcNext, OnceNext
<1>3. OnceInv => OnceLaunchesOnce
  BY DEF OnceInv, OneLaunch, OnceLaunchesOnce
<1>4. QED
  BY <1>1, <1>2, <1>3, PTL DEF Spec
================================================================================
