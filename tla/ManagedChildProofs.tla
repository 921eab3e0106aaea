--------------------------- MODULE ManagedChildProofs ---------------------------
(***************************************************************************)
(* The command of a runner: at most one process is alive, Stop ends the    *)
(* process it sees, and the runner implements ManagedChild.                *)
(***************************************************************************)
EXTENDS EnvconsulProofs

\* The process a runner can name: r.child, or the one Run has just started.
Named(r) == {child[r], fresh[r]} \ {NoChild}

\* A process belongs to the runner that names it, and a live process is named.
Belongs ==
    /\ \A r \in Runners : \A c \in Named(r) : pstate[c] # "unborn" /\ owner[c] = r
    /\ \A c \in Children : pstate[c] = "running" =>
                               owner[c] \in Runners /\ c \in Named(owner[c])

\* Stop is called on processes that exist, and has returned for dead ones only.
StopSound ==
    \A c \in Children : /\ pstop[c] # "no" => pstate[c] # "unborn"
                        /\ pstop[c] = "stopped" => pstate[c] = "exited"

\* Run stops the child it knows and starts another one when that child is gone.
RunSound ==
    \A r \in Runners :
        /\ fresh[r] # NoChild <=> rpc[r] = "publish"
        /\ rpc[r] \in {"stopChild", "awaitChild"} => child[r] # NoChild
        /\ (rpc[r] \in {"spawn", "publish"} /\ child[r] # NoChild) =>
               pstate[child[r]] = "exited"

\* r.env is the environment of the last launch, but for the time Run takes to
\* replace the process, when it is another one.
EnvSound ==
    \A r \in Runners :
        /\ rpc[r] \in {"unborn", "start", "select", "sendExit", "run", "publish"} =>
               env[r] = Launched(r)
        /\ rpc[r] \in {"stopChild", "awaitChild", "spawn"} =>
               env[r] # Launched(r) /\ env[r] \in Envs

\* Stop waits for the child it has seen.
StopWaits ==
    \A r \in Runners :
        /\ stopPc[r] = "awaitChild" => stopping[r] # NoChild
        /\ (stopPc[r] \in {"pid", "done", "stopped"} /\ stopping[r] # NoChild) =>
               pstop[stopping[r]] = "stopped"

ProcInv == Belongs /\ StopSound /\ RunSound /\ EnvSound /\ StopWaits

procVars == <<pstate, owner, penv, pstop, rpc, env, child, fresh, stopPc, stopping>>

LEMMA ProcInit == Init => ProcInv
<1> SUFFICES ASSUME Init PROVE ProcInv
  OBVIOUS
<1> USE DEF Init, ChildInit, RunnerInit
<1>1. \A r \in Runners : Named(r) = {}
  BY DEF Named
<1>2. \A r \in Runners : Launched(r) = NoEnv
  BY DEF Launched
<1>3. QED
  BY <1>1, <1>2 DEF ProcInv, Belongs, StopSound, RunSound, EnvSound, StopWaits

\* Steps that move the loop of a runner between places where nothing is
\* promised but that r.env is the environment of the last launch.
LEMMA ProcLoop ==
    ASSUME TypeOK, ProcInv, NEW r \in Runners,
           rpc[r] \in {"unborn", "start", "select", "sendExit", "run", "sendErr"},
           NEW label \in {"start", "select", "sendExit", "run", "sendErr", "returned"},
           rpc[r] = "sendErr" => label = "returned",
           rpc' = [rpc EXCEPT ![r] = label],
           UNCHANGED <<pstate, owner, penv, pstop, env, child, fresh, stopPc, stopping>>
    PROVE  ProcInv'
<1> USE DEF TypeOK, RunnerTypeOK
<1>1. Belongs'
  BY DEF ProcInv, Belongs, Named
<1>2. StopSound'
  BY DEF ProcInv, StopSound
<1>3. RunSound'
  BY DEF ProcInv, RunSound
<1>4. \A q \in Runners : Launched(q)' = Launched(q)
  BY DEF Launched
<1>5. EnvSound'
  BY <1>4 DEF ProcInv, EnvSound
<1>6. StopWaits'
  BY DEF ProcInv, StopWaits
<1>7. QED
  BY <1>1, <1>2, <1>3, <1>5, <1>6 DEF ProcInv

LEMMA ProcRunner ==
    ASSUME TypeOK, ProcInv, NEW r \in Runners, RunnerStep(r)
    PROVE  ProcInv'
<1> USE DEF TypeOK, RunnerTypeOK, ChildTypeOK, childVars, stopVars, Goto
<1>1. CASE Start(r)
  BY <1>1, ProcLoop DEF Start
<1>2. CASE StartFail(r)
  BY <1>2, ProcLoop DEF StartFail
<1>3. CASE RecvData(r)
  <2>1. CASE rpc' = [rpc EXCEPT ![r] = "run"]
    BY <1>3, <2>1, ProcLoop DEF RecvData
  <2>2. CASE UNCHANGED rpc
    <3>1. rpc' = [rpc EXCEPT ![r] = "select"]
      BY <1>3, <2>2 DEF RecvData
    <3>2. QED
      BY <1>3, <3>1, ProcLoop DEF RecvData
  <2>3. QED
    BY <1>3, <2>1, <2>2 DEF RecvData
<1>4. CASE TimerFires(r)
  BY <1>4, ProcLoop DEF TimerFires
<1>5. CASE \E s \in Sources : RecvErr(r, s)
  BY <1>5, ProcLoop DEF RecvErr
<1>6. CASE RecvExit(r)
  BY <1>6, ProcLoop DEF RecvExit, ChildRecvExit
<1>7. CASE SendExit(r)
  BY <1>7, ProcLoop DEF SendExit
<1>8. CASE RecvDone(r)
  BY <1>8, ProcLoop DEF RecvDone
<1>9. CASE RunNothing(r)
  BY <1>9, ProcLoop DEF RunNothing
<1>10. ASSUME NEW e \in Renders(data[r]), RunNewEnv(r, e) PROVE ProcInv'
  <2> USE <1>10 DEF RunNewEnv
  <2>1. rpc[r] = "run" /\ env[r] # e /\ e \in Envs
    BY RenderType DEF AllReceived, SameEnv
  <2>2. Belongs' /\ StopSound' /\ StopWaits'
    BY DEF ProcInv, Belongs, Named, StopSound, StopWaits
  <2>3. RunSound'
    BY DEF ProcInv, RunSound, AfterNewEnv
  <2>4. \A q \in Runners : Launched(q)' = Launched(q)
    BY DEF Launched
  <2>5. EnvSound'
    BY <2>1, <2>4 DEF ProcInv, EnvSound, AfterNewEnv
  <2>6. QED
    BY <2>2, <2>3, <2>5 DEF ProcInv
<1>11. CASE RunStopChild(r)
  <2> USE <1>11 DEF RunStopChild, ChildStopCall
  <2>1. child[r] \in Children /\ pstate[child[r]] # "unborn"
    BY DEF ProcInv, RunSound, Belongs, Named
  <2>2. Belongs' /\ StopSound' /\ StopWaits'
    BY <2>1 DEF ProcInv, Belongs, Named, StopSound, StopWaits
  <2>3. RunSound'
    BY DEF ProcInv, RunSound
  <2>4. \A q \in Runners : Launched(q)' = Launched(q)
    BY DEF Launched
  <2>5. EnvSound'
    BY <2>4 DEF ProcInv, EnvSound
  <2>6. QED
    BY <2>2, <2>3, <2>5 DEF ProcInv
<1>12. CASE RunAwaitChild(r)
  <2> USE <1>12 DEF RunAwaitChild, StopReturned
  <2>1. child[r] \in Children /\ pstate[child[r]] = "exited"
    BY DEF ProcInv, RunSound, StopSound
  <2>2. Belongs' /\ StopSound' /\ StopWaits'
    BY DEF ProcInv, Belongs, Named, StopSound, StopWaits
  <2>3. RunSound'
    BY <2>1 DEF ProcInv, RunSound
  <2>4. \A q \in Runners : Launched(q)' = Launched(q)
    BY DEF Launched
  <2>5. EnvSound'
    BY <2>4 DEF ProcInv, EnvSound
  <2>6. QED
    BY <2>2, <2>3, <2>5 DEF ProcInv
<1>13. ASSUME NEW c \in Children, Spawn(r, c) PROVE ProcInv'
  <2> USE <1>13, ChildAssumption DEF Spawn, ChildStart, ChildAssumption
  <2>1. \A q \in Runners : c \notin Named(q)
    BY DEF ProcInv, Belongs
  <2>2. fresh[r] = NoChild
    BY DEF ProcInv, RunSound
  <2>3. \A q \in Runners : Named(q)' = IF q = r THEN Named(q) \cup {c} ELSE Named(q)
    BY <2>2 DEF Named
  <2>4. \A q \in Runners : \A d \in Named(q) : d \in Children /\ d # c
    BY <2>1 DEF Named
  <2>5. Belongs'
    <3>1. \A q \in Runners : \A d \in Named(q)' : pstate'[d] # "unborn" /\ owner'[d] = q
      BY <2>3, <2>4 DEF ProcInv, Belongs
    <3>2. \A d \in Children : pstate'[d] = "running" =>
              owner'[d] \in Runners /\ d \in Named(owner[d])'
      <4> SUFFICES ASSUME NEW d \in Children, pstate'[d] = "running"
                   PROVE  owner'[d] \in Runners /\ d \in Named(owner[d])'
        OBVIOUS
      <4>1. CASE d = c
        BY <4>1, <2>3
      <4>2. CASE d # c
        <5>1. owner'[d] = owner[d] /\ pstate[d] = "running"
          BY <4>2
        <5>2. owner[d] \in Runners /\ d \in Named(owner[d])
          BY <5>1 DEF ProcInv, Belongs
        <5>3. QED
          BY <5>1, <5>2, <2>3
      <4>3. QED
        BY <4>1, <4>2
    <3>3. QED
      BY <3>1, <3>2 DEF Belongs, Named
  <2>6. StopSound' /\ StopWaits'
    BY DEF ProcInv, StopSound, StopWaits
  <2>7. \A q \in Runners : child[q] # c
    BY <2>1 DEF Named
  <2>8. RunSound'
    BY <2>7 DEF ProcInv, RunSound
  <2>9. \A q \in Runners : Launched(q)' = IF q = r THEN env[r] ELSE Launched(q)
    <3>1. \A q \in Runners : child[q] # c /\ fresh[q] # c
      BY <2>1 DEF Named
    <3>2. QED
      BY <3>1 DEF Launched
  <2>10. EnvSound'
    BY <2>9 DEF ProcInv, EnvSound
  <2>11. QED
    BY <2>5, <2>6, <2>8, <2>10 DEF ProcInv
<1>14. CASE SpawnFail(r)
  <2> USE <1>14 DEF SpawnFail
  <2>1. Belongs' /\ StopSound' /\ StopWaits'
    BY DEF ProcInv, Belongs, Named, StopSound, StopWaits
  <2>2. RunSound'
    BY DEF ProcInv, RunSound
  <2>3. \A q \in Runners : Launched(q)' = Launched(q)
    BY DEF Launched
  <2>4. EnvSound'
    BY <2>3 DEF ProcInv, EnvSound
  <2>5. QED
    BY <2>1, <2>2, <2>4 DEF ProcInv
<1>15. CASE Publish(r)
  <2> USE <1>15 DEF Publish
  <2>1. fresh[r] \in Children /\ fresh[r] # NoChild
    BY DEF ProcInv, RunSound
  <2>2. \A q \in Runners : Named(q)' = IF q = r THEN {fresh[r]} ELSE Named(q)
    BY <2>1 DEF Named
  <2>3. Belongs'
    <3>1. \A q \in Runners : \A d \in Named(q)' : pstate'[d] # "unborn" /\ owner'[d] = q
      BY <2>1, <2>2 DEF ProcInv, Belongs, Named
    <3>2. \A d \in Children : pstate'[d] = "running" =>
              owner'[d] \in Runners /\ d \in Named(owner[d])'
      <4> SUFFICES ASSUME NEW d \in Children, pstate[d] = "running"
                   PROVE  owner'[d] \in Runners /\ d \in Named(owner[d])'
        BY DEF ProcInv
      <4>1. owner[d] \in Runners /\ d \in Named(owner[d])
        BY DEF ProcInv, Belongs
      <4>2. owner[d] = r => d # child[r] \/ child[r] = NoChild
        BY DEF ProcInv, RunSound
      <4>3. QED
        BY <4>1, <4>2, <2>2 DEF Named
    <3>3. QED
      BY <3>1, <3>2 DEF Belongs, Named
  <2>4. StopSound' /\ StopWaits'
    BY DEF ProcInv, StopSound, StopWaits
  <2>5. RunSound'
    BY DEF ProcInv, RunSound
  <2>6. \A q \in Runners : Launched(q)' = Launched(q)
    BY <2>1 DEF Launched
  <2>7. EnvSound'
    BY <2>6 DEF ProcInv, EnvSound
  <2>8. QED
    BY <2>3, <2>4, <2>5, <2>7 DEF ProcInv
<1>16. QED
  BY <1>1, <1>2, <1>3, <1>4, <1>5, <1>6, <1>7, <1>8, <1>9, <1>10, <1>11, <1>12,
     <1>13, <1>14, <1>15 DEF RunnerStep

\* Steps that touch no process and leave every runner where it is.
LEMMA ProcStutter ==
    ASSUME ProcInv, UNCHANGED procVars
    PROVE  ProcInv'
<1> USE DEF procVars
<1>1. Belongs' /\ StopSound' /\ RunSound' /\ StopWaits'
  BY DEF ProcInv, Belongs, Named, StopSound, RunSound, StopWaits
<1>2. EnvSound'
  BY DEF ProcInv, EnvSound, Launched
<1>3. QED
  BY <1>1, <1>2 DEF ProcInv

\* Steps of Stop that do nothing to a process.
LEMMA ProcStopLabel ==
    ASSUME TypeOK, ProcInv, NEW r \in Runners, NEW label,
           label \notin {"awaitChild"},
           label \in {"pid", "done", "stopped"} =>
               \/ stopping[r] = NoChild
               \/ pstop[stopping[r]] = "stopped",
           stopPc' = [stopPc EXCEPT ![r] = label],
           UNCHANGED <<pstate, owner, penv, pstop, rpc, env, child, fresh, stopping>>
    PROVE  ProcInv'
<1>1. Belongs' /\ StopSound' /\ RunSound'
  BY DEF ProcInv, Belongs, Named, StopSound, RunSound
<1>2. EnvSound'
  BY DEF ProcInv, EnvSound, Launched
<1>3. StopWaits'
  BY DEF ProcInv, StopWaits, TypeOK, RunnerTypeOK
<1>4. QED
  BY <1>1, <1>2, <1>3 DEF ProcInv

LEMMA ProcStopCall ==
    ASSUME TypeOK, ProcInv, cur \in Runners, StopCall(cur),
           UNCHANGED <<pstate, owner, penv, pstop, rpc, env, child, fresh, stopping>>
    PROVE  ProcInv'
<1>1. CASE Stopped(cur)
  <2>1. UNCHANGED stopPc
    BY <1>1 DEF StopCall, TypeOK, RunnerTypeOK
  <2>2. QED
    BY <2>1, ProcStutter DEF procVars
<1>2. CASE ~Stopped(cur)
  BY <1>2, ProcStopLabel DEF StopCall
<1>3. QED
  BY <1>1, <1>2

LEMMA ProcCli ==
    ASSUME TypeInv, ProcInv, CliStep
    PROVE  ProcInv'
<1> USE DEF TypeInv, childVars, configVars, loopVars, stopVars, runnerVars, StopGoto, Goto
<1>1. ASSUME NEW r \in Runners, NEW cf \in Configs, LoadRunner(r, cf) PROVE ProcInv'
  BY <1>1, ProcLoop DEF LoadRunner, NewRunner
<1>2. ASSUME NEW code \in {"ExitCodeRunnerError", "ExitCodeConfigError"}, LoadFail(code)
      PROVE ProcInv'
  BY <1>2, ProcStutter DEF LoadFail, procVars
<1>3. ASSUME NEW r \in Runners, CliRecvErr(r) PROVE ProcInv'
  BY <1>3, ProcLoop DEF CliRecvErr, SendErr
<1>4. CASE CliRecvExit
  <2>1. cur \in Runners
    BY <1>4 DEF CliRecvExit, CliControl
  <2>2. QED
    BY <1>4, <2>1, ProcStopCall DEF CliRecvExit, HandleExit, CallStop
<1>5. CASE CliRecvSignal
  <2>1. cur \in Runners
    BY <1>5 DEF CliRecvSignal, CliControl
  <2>2. CASE StopCall(cur)
    BY <1>5, <2>1, <2>2, ProcStopCall DEF CliRecvSignal
  <2>3. CASE UNCHANGED stopPc
    BY <1>5, <2>3, ProcStutter DEF CliRecvSignal, procVars
  <2>4. QED
    BY <1>5, <2>2, <2>3 DEF CliRecvSignal, HandleSignal, CallStop
<1>6. CASE CliSignalChild
  BY <1>6, ProcStutter DEF CliSignalChild, procVars
<1>7. CASE CliStopStep
  <2>1. cur \in Runners
    BY <1>7 DEF CliStopStep, CliControl
  <2>2. CASE StopWatchers(cur)
    BY <2>1, <2>2, ProcStopLabel DEF StopWatchers
  <2>3. CASE StopChild(cur)
    <3>1. CASE child[cur] = NoChild
      <4>1. /\ UNCHANGED childVars
            /\ stopPc' = [stopPc EXCEPT ![cur] = "pid"]
            /\ stopping' = [stopping EXCEPT ![cur] = NoChild]
            /\ UNCHANGED <<rpc, env, child, fresh>>
        BY <2>3, <3>1 DEF StopChild, NothingToStop
      <4>2. Belongs' /\ StopSound' /\ RunSound'
        BY <4>1 DEF ProcInv, Belongs, Named, StopSound, RunSound
      <4>3. EnvSound'
        BY <4>1 DEF ProcInv, EnvSound, Launched
      <4>4. StopWaits'
        BY <4>1, <2>1 DEF ProcInv, StopWaits, TypeOK, RunnerTypeOK
      <4>5. QED
        BY <4>2, <4>3, <4>4 DEF ProcInv
    <3>2. CASE child[cur] # NoChild
      <4>1. /\ ChildStopCall(child[cur])
            /\ stopPc' = [stopPc EXCEPT ![cur] = "awaitChild"]
            /\ stopping' = [stopping EXCEPT ![cur] = child[cur]]
            /\ UNCHANGED <<rpc, env, child, fresh>>
        BY <2>3, <3>2 DEF StopChild, NothingToStop
      <4>2. child[cur] \in Children /\ pstate[child[cur]] # "unborn"
        BY <2>1, <3>2 DEF ProcInv, Belongs, Named, TypeOK, RunnerTypeOK
      <4>3. Belongs' /\ RunSound'
        BY <4>1 DEF ChildStopCall, ProcInv, Belongs, Named, RunSound
      <4>4. StopSound'
        BY <4>1, <4>2 DEF ChildStopCall, ProcInv, StopSound, TypeOK, ChildTypeOK
      <4>5. EnvSound'
        BY <4>1 DEF ChildStopCall, ProcInv, EnvSound, Launched
      <4>6. StopWaits'
        <5>1. \A c \in Children : pstop[c] = "stopped" => pstop'[c] = "stopped"
          BY <4>1, <4>2 DEF ChildStopCall, TypeOK, ChildTypeOK
        <5>2. QED
          BY <4>1, <4>2, <3>2, <2>1, <5>1 DEF ProcInv, StopWaits, TypeOK, RunnerTypeOK
      <4>7. QED
        BY <4>3, <4>4, <4>5, <4>6 DEF ProcInv
    <3>3. QED
      BY <3>1, <3>2
  <2>4. CASE StopAwaitChild(cur)
    <3>1. /\ pstop[stopping[cur]] = "stopped"
          /\ stopPc' = [stopPc EXCEPT ![cur] = "pid"]
          /\ UNCHANGED <<pstate, owner, penv, pstop, rpc, env, child, fresh, stopping>>
      BY <2>4 DEF StopAwaitChild, StopReturned
    <3>2. TypeOK
      OBVIOUS
    <3>3. QED
      BY <2>1, <3>1, <3>2, ProcStopLabel
  <2>5. CASE StopPid(cur)
    <3>1. stopping[cur] # NoChild => pstop[stopping[cur]] = "stopped"
      BY <2>1, <2>5 DEF StopPid, ProcInv, StopWaits
    <3>2. /\ stopPc' = [stopPc EXCEPT ![cur] = "done"]
          /\ UNCHANGED <<pstate, owner, penv, pstop, rpc, env, child, fresh, stopping>>
      BY <2>5 DEF StopPid
    <3>3. QED
      BY <2>1, <3>1, <3>2, ProcStopLabel
  <2>6. CASE StopDone(cur)
    <3>1. stopping[cur] # NoChild => pstop[stopping[cur]] = "stopped"
      BY <2>1, <2>6 DEF StopDone, ProcInv, StopWaits
    <3>2. /\ stopPc' = [stopPc EXCEPT ![cur] = "stopped"]
          /\ UNCHANGED <<pstate, owner, penv, pstop, rpc, env, child, fresh, stopping>>
      BY <2>6 DEF StopDone
    <3>3. QED
      BY <2>1, <3>1, <3>2, ProcStopLabel
  <2>7. QED
    BY <1>7, <2>2, <2>3, <2>4, <2>5, <2>6 DEF CliStopStep
<1>8. CASE CliStopReturn
  BY <1>8, ProcStutter DEF CliStopReturn, procVars
<1>9. QED
  BY <1>1, <1>2, <1>3, <1>4, <1>5, <1>6, <1>7, <1>8 DEF CliStep

\* A process ends, by itself or killed.
LEMMA ProcExit ==
    ASSUME TypeOK, ProcInv, NEW c \in Children, NEW code, ChildExit(c, code),
           UNCHANGED <<rpc, env, child, fresh, stopPc, stopping>>
    PROVE  ProcInv'
<1> USE DEF ChildExit, TypeOK, ChildTypeOK
<1>1. Belongs' /\ RunSound'
  BY DEF ProcInv, Belongs, Named, RunSound, RunnerTypeOK
<1>2. StopSound' /\ StopWaits'
  BY DEF ProcInv, StopSound, StopWaits
<1>3. EnvSound'
  BY DEF ProcInv, EnvSound, Launched
<1>4. QED
  BY <1>1, <1>2, <1>3 DEF ProcInv

LEMMA ProcChild ==
    ASSUME TypeOK, ProcInv, NEW c \in Children, ChildStep(c)
    PROVE  ProcInv'
<1> USE DEF ChildStep, runnerVars, configVars, loopVars, stopVars
<1>1. CASE ChildStopReturn(c)
  <2> USE <1>1 DEF ChildStopReturn, TypeOK, ChildTypeOK
  <2>1. Belongs' /\ RunSound'
    BY DEF ProcInv, Belongs, Named, RunSound
  <2>2. StopSound'
    BY DEF ProcInv, StopSound
  <2>3. StopWaits'
    BY DEF ProcInv, StopWaits, RunnerTypeOK
  <2>4. EnvSound'
    BY DEF ProcInv, EnvSound, Launched
  <2>5. QED
    BY <2>1, <2>2, <2>3, <2>4 DEF ProcInv
<1>2. CASE ChildReap(c)
  BY <1>2, ProcStutter DEF ChildReap, procVars
<1>3. QED
  BY <1>1, <1>2

LEMMA ProcNext == TypeInv /\ ProcInv /\ [Next]_vars => ProcInv'
<1> SUFFICES ASSUME TypeInv, ProcInv, [Next]_vars PROVE ProcInv'
  OBVIOUS
<1> USE DEF runnerVars, childVars, configVars, loopVars, stopVars
<1>1. TypeOK
  BY DEF TypeInv
<1>2. ASSUME NEW r \in Runners, RunnerStep(r) PROVE ProcInv'
  BY <1>1, <1>2, ProcRunner
<1>3. CASE CliStep
  BY <1>3, ProcCli
<1>4. ASSUME NEW c \in Children, ChildStep(c) PROVE ProcInv'
  BY <1>1, <1>4, ProcChild
<1>5. ASSUME NEW c \in Children, NEW code \in Codes \cup {NoCode}, ProcessExit(c, code)
      PROVE ProcInv'
  BY <1>1, <1>5, ProcExit DEF ProcessExit
<1>6. CASE \/ \E r \in Runners : PollStep(r) \/ WatchFailStep(r)
           \/ StoreStep
           \/ \E s \in Signals : SendSignal(s)
           \/ UNCHANGED vars
  BY <1>6, ProcStutter DEF PollStep, WatchFailStep, StoreStep, SendSignal, vars, procVars
<1>7. QED
  BY <1>2, <1>3, <1>4, <1>5, <1>6 DEF Next, Resting

LEMMA ProcInvariant == Spec => [](TypeInv /\ ProcInv)
<1>1. Init => TypeInv /\ ProcInv
  BY TypeInit, ProcInit DEF Init, TypeInv, CliControl
<1>2. (TypeInv /\ ProcInv) /\ [Next]_vars => (TypeInv /\ ProcInv)'
  BY TypeNext, ProcNext
<1>3. QED
  BY <1>1, <1>2, PTL DEF Spec

\* No runner ever has two processes alive (runner.go:323-379).
THEOREM OneChild == Spec => []OneChildPerRunner
<1>1. TypeInv /\ ProcInv => OneChildPerRunner
  <2> SUFFICES ASSUME TypeInv, ProcInv, NEW r \in Runners, NEW c \in Live(r), NEW d \in Live(r)
               PROVE  c = d
    BY DEF OneChildPerRunner
  <2>1. c \in Named(r) /\ d \in Named(r) /\ pstate[c] = "running" /\ pstate[d] = "running"
    BY DEF Live, ProcInv, Belongs
  <2>2. CASE fresh[r] = NoChild
    BY <2>1, <2>2 DEF Named
  <2>3. CASE fresh[r] # NoChild
    <3>1. child[r] # NoChild => pstate[child[r]] = "exited"
      BY <2>3 DEF ProcInv, RunSound
    <3>2. QED
      BY <2>1, <3>1 DEF Named
  <2>4. QED
    BY <2>2, <2>3
<1>2. QED
  BY <1>1, ProcInvariant, PTL

\* Stop gets past stopChild only when the process it saw is gone (runner.go:843-851).
THEOREM StopKills == Spec => []StopKillsWhatItSees
<1>1. TypeInv /\ ProcInv => StopKillsWhatItSees
  BY DEF StopKillsWhatItSees, ProcInv, StopWaits, StopSound, TypeInv, TypeOK, RunnerTypeOK
<1>2. QED
  BY <1>1, ProcInvariant, PTL

-----------------------------------------------------------------------------
(* Each runner implements ManagedChild                                     *)

LiveMap == [r \in Runners |-> Live(r)]
BornSet == {c \in Children : pstate[c] # "unborn"}
LastMap == [r \in Runners |-> Launched(r)]
managedVars == <<LiveMap, BornSet, LastMap>>

LEMMA ManagedStutter ==
    ASSUME UNCHANGED <<pstate, owner, penv, child, fresh>>
    PROVE  UNCHANGED managedVars
BY DEF managedVars, LiveMap, BornSet, LastMap, Live, Launched

LEMMA SpawnLaunches ==
    ASSUME TypeOK, ProcInv, NEW r \in Runners, NEW c \in Children, Spawn(r, c)
    PROVE  Managed!Launch(r, c, env[r])
<1> USE ChildAssumption DEF Spawn, ChildStart, ChildAssumption, TypeOK, ChildTypeOK,
        RunnerTypeOK, Goto
<1>1. \A q \in Runners : c \notin Live(q) /\ child[q] # c /\ fresh[q] # c
  BY DEF ProcInv, Belongs, Named, Live
<1>2. Live(r) = {}
  <2>1. fresh[r] = NoChild
    BY DEF ProcInv, RunSound
  <2>2. \A d \in Live(r) : d = child[r] /\ child[r] # NoChild
    BY <2>1 DEF ProcInv, Belongs, Named, Live
  <2>3. child[r] # NoChild => pstate[child[r]] = "exited"
    BY DEF ProcInv, RunSound
  <2>4. QED
    BY <2>2, <2>3 DEF Live
<1>3. \A q \in Runners : Live(q)' = IF q = r THEN {c} ELSE Live(q)
  <2>1. \A q \in Runners : q # r => Live(q)' = Live(q)
    BY <1>1 DEF Live
  <2>2. Live(r)' = {c}
    BY <1>2 DEF Live
  <2>3. QED
    BY <2>1, <2>2
<1>4. LiveMap' = [LiveMap EXCEPT ![r] = {c}]
  BY <1>3 DEF LiveMap
<1>5. BornSet' = BornSet \cup {c} /\ c \notin BornSet
  BY DEF BornSet
<1>6. \A q \in Runners : Launched(q)' = IF q = r THEN env[r] ELSE Launched(q)
  BY <1>1 DEF Launched
<1>7. LastMap' = [LastMap EXCEPT ![r] = env[r]]
  BY <1>6 DEF LastMap
<1>8. env[r] # Launched(r)
  BY DEF ProcInv, EnvSound
<1>9. QED
  BY <1>2, <1>4, <1>5, <1>7, <1>8 DEF Managed!Launch, LiveMap, BornSet, LastMap

LEMMA ExitDies ==
    ASSUME TypeOK, ProcInv, NEW c \in Children, NEW code, ChildExit(c, code),
           UNCHANGED <<child, fresh>>
    PROVE  owner[c] \in Runners /\ Managed!Die(owner[c], c)
<1> USE DEF ChildExit, TypeOK, ChildTypeOK
<1>1. owner[c] \in Runners /\ c \in Live(owner[c])
  BY DEF ProcInv, Belongs, Live
<1>2. \A q \in Runners : Live(q)' = IF q = owner[c] THEN Live(q) \ {c} ELSE Live(q)
  BY DEF Live
<1>3. LiveMap' = [LiveMap EXCEPT ![owner[c]] = @ \ {c}]
  BY <1>1, <1>2 DEF LiveMap
<1>4. BornSet' = BornSet
  BY DEF BornSet
<1>5. LastMap' = LastMap
  BY DEF LastMap, Launched
<1>6. QED
  BY <1>1, <1>3, <1>4, <1>5 DEF Managed!Die, LiveMap, BornSet, LastMap

LEMMA ManagedInit == Init => Managed!Init
BY DEF Init, ChildInit, RunnerInit, Managed!Init, Live, Launched

LEMMA ManagedNext ==
    ASSUME TypeInv, ProcInv, [Next]_vars
    PROVE  Managed!Next \/ UNCHANGED managedVars
<1> USE DEF childVars, configVars, loopVars, stopVars, runnerVars
<1>1. TypeOK
  BY DEF TypeInv
<1>2. ASSUME NEW r \in Runners, RunnerStep(r)
      PROVE  Managed!Next \/ UNCHANGED managedVars
  <2>1. ASSUME NEW c \in Children, Spawn(r, c) PROVE Managed!Next
    <3>1. env[r] \in Envs
      BY <2>1 DEF Spawn, ProcInv, EnvSound
    <3>2. Managed!Launch(r, c, env[r])
      BY <1>1, <2>1, SpawnLaunches
    <3>3. \E e \in Envs : Managed!Launch(r, c, e)
      BY <3>1, <3>2 DEF Managed!Launch
    <3>4. QED
      BY <3>3 DEF Managed!Next, Managed!Launch
  <2>2. CASE Publish(r)
    <3>1. fresh[r] # NoChild
      BY <2>2 DEF Publish, ProcInv, RunSound
    <3>2. \A q \in Runners : Launched(q)' = Launched(q)
      BY <1>1, <2>2, <3>1 DEF Publish, Launched, TypeOK, RunnerTypeOK
    <3>3. QED
      BY <2>2, <3>2 DEF Publish, managedVars, LiveMap, BornSet, LastMap, Live
  <2>3. CASE UNCHANGED <<pstate, owner, penv, child, fresh>>
    BY <2>3, ManagedStutter
  <2>4. QED
    BY <1>2, <2>1, <2>2, <2>3
       DEF RunnerStep, Start, StartFail, RecvData, TimerFires, RecvErr, RecvExit,
           ChildRecvExit, SendExit, RecvDone, RunNothing, RunNewEnv, RunStopChild,
           ChildStopCall, RunAwaitChild, SpawnFail
<1>3. CASE CliStep
  <2>1. UNCHANGED <<pstate, owner, penv, child, fresh>>
    BY <1>3 DEF CliStep, LoadRunner, NewRunner, LoadFail, CliRecvErr, SendErr,
                CliRecvExit, CliRecvSignal, CliSignalChild, CliStopStep, CliStopReturn,
                StopWatchers, StopChild, ChildStopCall, StopAwaitChild, StopPid, StopDone
  <2>2. QED
    BY <2>1, ManagedStutter
<1>4. ASSUME NEW c \in Children, ChildStep(c) PROVE UNCHANGED managedVars
  BY <1>4, ManagedStutter DEF ChildStep, ChildStopReturn, ChildReap
<1>5. ASSUME NEW c \in Children, NEW code \in Codes \cup {NoCode}, ProcessExit(c, code)
      PROVE Managed!Next
  BY <1>1, <1>5, ExitDies DEF ProcessExit, Managed!Next
<1>6. CASE \/ \E r \in Runners : PollStep(r) \/ WatchFailStep(r)
           \/ StoreStep
           \/ \E s \in Signals : SendSignal(s)
           \/ UNCHANGED vars
  BY <1>6, ManagedStutter DEF PollStep, WatchFailStep, StoreStep, SendSignal, vars
<1>7. QED
  BY <1>2, <1>3, <1>4, <1>5, <1>6 DEF Next, Resting

\* Whatever the interleaving with Stop, signals, exits and reloads, a runner only
\* launches a process when its earlier one is gone and the environment is new.
THEOREM Refinement == Spec => RefinesManagedChild
<1>1. Init => Managed!Init
  BY ManagedInit
<1>2. TypeInv /\ ProcInv /\ [Next]_vars => [Managed!Next]_managedVars
  BY ManagedNext
<1>3. QED
  BY <1>1, <1>2, ProcInvariant, PTL
     DEF Spec, RefinesManagedChild, Managed!Spec, managedVars, LiveMap, BornSet, LastMap
=============================================================================
