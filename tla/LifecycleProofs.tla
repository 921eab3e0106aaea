---------------------------- MODULE LifecycleProofs ----------------------------
(***************************************************************************)
(* The runners from the side of CLI.Run: which of them have been stopped,  *)
(* that the pid file is there, and where the exit code comes from.         *)
(***************************************************************************)
EXTENDS ManagedChildProofs

\* Stop is called on the current runner alone, and every earlier one has been
\* stopped before there was a current one.
StopInv ==
    /\ \A r \in Runners : rpc[r] = "unborn" => stopPc[r] = "idle"
    /\ cliPc \in {"select", "signal", "stop"} => rpc[cur] # "unborn"
    /\ cliPc = "stop" =>
         /\ stopPc[cur] # "idle"
         /\ \A r \in Runners : r # cur /\ rpc[r] # "unborn" => Stopped(r)
    /\ StopsEachRunnerOnce

LEMMA StopInit == Init => StopInv
BY DEF Init, RunnerInit, StopInv, StopsEachRunnerOnce

\* Steps that leave the CLI and the calls of Stop alone, and create no runner.
LEMMA StopStutter ==
    ASSUME StopInv, UNCHANGED <<cliPc, cur, stopPc>>,
           \A r \in Runners : rpc'[r] = "unborn" <=> rpc[r] = "unborn",
           cliPc \in {"select", "signal", "stop"} => cur \in Runners
    PROVE  StopInv'
BY DEF StopInv, StopsEachRunnerOnce, Stopped

\* The loop of a runner neither creates a runner nor un-creates its own.
LEMMA LoopBorn ==
    ASSUME TypeOK, NEW r \in Runners, RunnerStep(r)
    PROVE  \A q \in Runners : rpc'[q] = "unborn" <=> rpc[q] = "unborn"
<1> USE DEF TypeOK, RunnerTypeOK, Goto
<1>1. ASSUME NEW label, label # "unborn", rpc[r] # "unborn", rpc' = [rpc EXCEPT ![r] = label]
      PROVE  \A q \in Runners : rpc'[q] = "unborn" <=> rpc[q] = "unborn"
  BY <1>1
<1>2. CASE RecvData(r)
  BY <1>2, <1>1 DEF RecvData
<1>3. CASE ~RecvData(r)
  BY <1>3, <1>1 DEF RunnerStep, Start, StartFail, TimerFires, RecvErr, RecvExit, SendExit,
       RecvDone, RunNothing, RunNewEnv, AfterNewEnv, RunStopChild, RunAwaitChild, Spawn,
       SpawnFail, Publish
<1>4. QED
  BY <1>2, <1>3

LEMMA StopRunner ==
    ASSUME TypeInv, StopInv, NEW r \in Runners, RunnerStep(r)
    PROVE  StopInv'
<1>1. UNCHANGED <<cliPc, cur, stopPc>>
  BY DEF RunnerStep, cliVars, stopVars, Start, StartFail, RecvData, TimerFires, RecvErr,
         RecvExit, SendExit, RecvDone, RunNothing, RunNewEnv, RunStopChild, RunAwaitChild,
         Spawn, SpawnFail, Publish
<1>2. QED
  BY <1>1, LoopBorn, StopStutter DEF TypeInv, CliControl

LEMMA StopCli ==
    ASSUME TypeInv, StopInv, CliStep
    PROVE  StopInv'
<1> USE DEF TypeInv, TypeOK, RunnerTypeOK, CliControl, runnerVars, loopVars, stopVars
<1>1. ASSUME NEW r \in Runners, NEW cf \in Configs, LoadRunner(r, cf) PROVE StopInv'
  BY <1>1 DEF LoadRunner, NewRunner, SelectRunner, Goto, StopInv, StopsEachRunnerOnce, Stopped
<1>2. ASSUME NEW code \in {"ExitCodeRunnerError", "ExitCodeConfigError"}, LoadFail(code)
      PROVE StopInv'
  BY <1>2 DEF LoadFail, Return, StopInv, StopsEachRunnerOnce
<1>3. ASSUME NEW r \in Runners, CliRecvErr(r) PROVE StopInv'
  BY <1>3 DEF CliRecvErr, SendErr, Goto, Return, StopInv, StopsEachRunnerOnce
<1>4. CASE CallStop(after') /\ cliPc = "select" /\ UNCHANGED <<rpc, cur>>
  <2>1. cur \in Runners /\ stopPc[cur] = "idle"
    BY <1>4 DEF StopInv, StopsEachRunnerOnce
  <2>2. stopPc' = [stopPc EXCEPT ![cur] = "watchers"]
    BY <1>4, <2>1 DEF CallStop, StopCall, Stopped
  <2>3. \A r \in Runners : r # cur /\ rpc[r] # "unborn" => Stopped(r)'
    BY <1>4, <2>1, <2>2 DEF StopInv, StopsEachRunnerOnce, Stopped
  <2>4. QED
    BY <1>4, <2>1, <2>2, <2>3 DEF CallStop, StopInv, StopsEachRunnerOnce, Stopped
<1>5. CASE CliRecvExit
  BY <1>4, <1>5 DEF CliRecvExit, HandleExit, CallStop
<1>6. CASE CliRecvSignal
  <2>1. CASE \E then : CallStop(then)
    BY <1>4, <1>6, <2>1 DEF CliRecvSignal, CallStop
  <2>2. CASE cliPc' \in {"select", "signal"} /\ UNCHANGED stopPc
    BY <1>6, <2>2 DEF CliRecvSignal, StopInv, StopsEachRunnerOnce, Stopped
  <2>3. QED
    BY <1>6, <2>1, <2>2 DEF CliRecvSignal, HandleSignal
<1>7. CASE CliSignalChild
  BY <1>7 DEF CliSignalChild, StopInv, StopsEachRunnerOnce, Stopped
<1>8. CASE CliStopStep
  <2>1. ASSUME NEW label \in {"child", "awaitChild", "pid", "done", "stopped"},
               stopPc' = [stopPc EXCEPT ![cur] = label], cliPc = "stop",
               UNCHANGED <<rpc, cur, cliPc>>
        PROVE  StopInv'
    BY <2>1 DEF StopInv, StopsEachRunnerOnce, Stopped
  <2>2. QED
    BY <1>8, <2>1 DEF CliStopStep, cliVars, StopGoto, StopWatchers, StopChild, StopAwaitChild,
         StopPid, StopDone
<1>9. CASE CliStopReturn
  BY <1>9 DEF CliStopReturn, Return, StopInv, StopsEachRunnerOnce, Stopped
<1>10. QED
  BY <1>1, <1>2, <1>3, <1>5, <1>6, <1>7, <1>8, <1>9 DEF CliStep

LEMMA StopNext == TypeInv /\ StopInv /\ [Next]_vars => StopInv'
<1> SUFFICES ASSUME TypeInv, StopInv, [Next]_vars PROVE StopInv'
  OBVIOUS
<1>1. ASSUME NEW r \in Runners, RunnerStep(r) PROVE StopInv'
  BY <1>1, StopRunner
<1>2. CASE CliStep
  BY <1>2, StopCli
<1>3. CASE UNCHANGED <<cliPc, cur, stopPc, rpc>>
  BY <1>3, StopStutter DEF TypeInv, CliControl
<1>4. QED
  BY <1>1, <1>2, <1>3 DEF Next, Resting, ChildStep, PollStep, WatchFailStep, StoreStep,
       SendSignal, ProcessExit, cliVars, runnerVars, loopVars, stopVars, vars

\* CLI.Run only ever listens to a runner it has not stopped, and has stopped
\* every earlier one (cli.go:146-197).
THEOREM StopsOnce == Spec => []StopsEachRunnerOnce
<1>1. Init => TypeInv /\ StopInv
  BY TypeInit, StopInit DEF Init, TypeInv, CliControl
<1>2. (TypeInv /\ StopInv) /\ [Next]_vars => (TypeInv /\ StopInv)'
  BY TypeNext, StopNext
<1>3. StopInv => StopsEachRunnerOnce
  BY DEF StopInv
<1>4. QED
  BY <1>1, <1>2, <1>3, PTL DEF Spec

-----------------------------------------------------------------------------
(* The pid file                                                            *)

\* Start adds the watchers after it has stored the pid file.
PidInv ==
    /\ \A r \in Runners : rpc[r] \in {"unborn", "start"} => ~watching[r]
    /\ PidFileWhileRunning

LEMMA PidNext == TypeInv /\ PidInv /\ [Next]_vars => PidInv'
<1> SUFFICES ASSUME TypeInv, PidInv, [Next]_vars PROVE PidInv'
  OBVIOUS
<1> USE DEF TypeInv, TypeOK, RunnerTypeOK, WatcherTypeOK, CliControl, Goto, cliVars,
        runnerVars, configVars, loopVars, watcherVars
<1>1. ASSUME NEW r \in Runners, Start(r), UNCHANGED cliVars PROVE PidInv'
  BY <1>1 DEF Start, storePid, WatcherAdd, PidInv, PidFileWhileRunning
<1>2. ASSUME NEW r \in Runners, StartFail(r), UNCHANGED cliVars PROVE PidInv'
  BY <1>2 DEF StartFail, storePid, PidInv, PidFileWhileRunning
<1>3. ASSUME NEW r \in Runners, RunnerStep(r), ~Start(r), ~StartFail(r) PROVE PidInv'
  <2>1. UNCHANGED <<watching, config, pidFiles, cliPc, cur>>
    BY <1>3 DEF RunnerStep, RecvData, WatcherDrain, TimerFires, RecvErr, WatcherRecvErr,
         RecvExit, SendExit, RecvDone, RunNothing, RunNewEnv, RunStopChild, RunAwaitChild,
         Spawn, SpawnFail, Publish
  <2>2. \A q \in Runners : rpc'[q] \in {"unborn", "start"} => rpc[q] \in {"unborn", "start"}
    <3>1. CASE RecvData(r)
      BY <3>1 DEF RecvData
    <3>2. CASE ~RecvData(r)
      BY <1>3, <3>2 DEF RunnerStep, TimerFires, RecvErr, RecvExit, SendExit, RecvDone,
           RunNothing, RunNewEnv, AfterNewEnv, RunStopChild, RunAwaitChild, Spawn,
           SpawnFail, Publish
    <3>3. QED
      BY <3>1, <3>2
  <2>3. QED
    BY <2>1, <2>2 DEF PidInv, PidFileWhileRunning
<1>4. ASSUME NEW r \in Runners, NEW cf \in Configs, LoadRunner(r, cf) PROVE PidInv'
  BY <1>4 DEF LoadRunner, NewRunner, SelectRunner, PidInv, PidFileWhileRunning
<1>5. CASE CliStopStep
  <2>1. cliPc' = "stop" /\ UNCHANGED rpc
    BY <1>5 DEF CliStopStep, StopWatchers, StopChild, StopAwaitChild, StopPid, StopDone
  <2>2. \A r \in Runners : watching'[r] => watching[r]
    BY <1>5 DEF CliStopStep, StopWatchers, WatcherStop, StopChild, StopAwaitChild, StopPid,
         StopDone
  <2>3. QED
    BY <2>1, <2>2 DEF PidInv, PidFileWhileRunning
<1>6. CASE CliStep /\ ~CliStopStep /\ ~(\E r \in Runners, cf \in Configs : LoadRunner(r, cf))
  <2>1. UNCHANGED <<watching, config, pidFiles, cur>>
    BY <1>6 DEF CliStep, LoadFail, CliRecvErr, SendErr, CliRecvExit, CliRecvSignal,
         CliSignalChild, CliStopReturn
  <2>2. cliPc' \in {"select", "signal"} => cliPc \in {"select", "signal"}
    BY <1>6 DEF CliStep, LoadFail, CliRecvErr, CliRecvExit, HandleExit, CallStop,
         CliRecvSignal, CliSignalChild, CliStopReturn, Return
  <2>3. \A q \in Runners : rpc'[q] \in {"unborn", "start"} => rpc[q] \in {"unborn", "start"}
    BY <1>6 DEF CliStep, LoadFail, CliRecvErr, SendErr, CliRecvExit, CliRecvSignal,
         CliSignalChild, CliStopReturn
  <2>4. QED
    BY <2>1, <2>2, <2>3 DEF PidInv, PidFileWhileRunning
<1>7. CASE UNCHANGED <<watching, config, pidFiles, cliPc, cur, rpc>>
  BY <1>7 DEF PidInv, PidFileWhileRunning
<1>8. QED
  BY <1>1, <1>2, <1>3, <1>4, <1>5, <1>6, <1>7
     DEF Next, RunnerStep, Resting, ChildStep, PollStep, Poll, WatchFailStep, WatchFail,
         StoreStep, StoreChange, SendSignal, ProcessExit, vars

\* The pid file of the current runner is there while it runs, whatever an earlier
\* runner of a reload does (runner.go:139-148, 242-245).
THEOREM PidFileStays == Spec => []PidFileWhileRunning
<1>1. Init => TypeInv /\ PidInv
  BY TypeInit DEF Init, TypeInv, CliControl, PidInv, PidFileWhileRunning, WatcherInit
<1>2. (TypeInv /\ PidInv) /\ [Next]_vars => (TypeInv /\ PidInv)'
  BY TypeNext, PidNext
<1>3. PidInv => PidFileWhileRunning
  BY DEF PidInv
<1>4. QED
  BY <1>1, <1>2, <1>3, PTL DEF Spec
-----------------------------------------------------------------------------
(* The exit code                                                           *)

\* A process of this runner has ended by itself with this code.
Genuine(r, code) ==
    \E c \in Children : owner[c] = r /\ pstate[c] = "exited" /\ pcode[c] = code

\* What an exit channel holds is the code of a process nobody has stopped.
CodesSound ==
    \A c \in Children :
        /\ pstate[c] = "unborn" => exitChan[c] = "open"
        /\ pstate[c] = "exited" /\ pstop[c] = "no" => pcode[c] # NoCode
        /\ exitChan[c] = "code" => pstate[c] = "exited" /\ pcode[c] # NoCode

\* Start listens to a process of its own runner.
ListensToOwn ==
    \A r \in Runners : exitCh[r] # NoChild =>
        pstate[exitCh[r]] # "unborn" /\ owner[exitCh[r]] = r

\* What Start sends is a code.
SendsCode == \A r \in Runners : rpc[r] = "sendExit" => outCode[r] # NoCode

\* Until Stop is called, the first code a runner sends is genuine: before it, the
\* channel Start selects on is neither closed nor that of a stopped process.
FirstCode ==
    \A r \in Runners : stopPc[r] = "idle" =>
        /\ ExitCh[r] # NoCode => Genuine(r, ExitCh[r])
        /\ outCode[r] # NoCode /\ ExitCh[r] = NoCode => Genuine(r, outCode[r])
        /\ (/\ rpc[r] \in {"unborn", "start", "select", "run"}
            /\ exitCh[r] # NoChild /\ ExitCh[r] = NoCode) =>
               pstop[exitCh[r]] = "no" /\ exitChan[exitCh[r]] # "closed"
        /\ rpc[r] = "publish" => pstop[fresh[r]] = "no" /\ exitChan[fresh[r]] # "closed"

\* CLI.Run keeps the code it has received while Stop runs.
AfterGenuine == cliPc = "stop" /\ after \in Codes => Genuine(cur, after)

ExitInv ==
    CodesSound /\ ListensToOwn /\ SendsCode /\ FirstCode /\ AfterGenuine /\ ExitCodeGenuine
exitVars == <<pstate, owner, pcode, pstop, exitChan, exitCh, ExitCh, outCode, fresh>>

LEMMA ExitInit == Init => ExitInv
BY ChildAssumption DEF Init, ChildInit, RunnerInit, ExitInv, CodesSound, ListensToOwn,
   SendsCode, FirstCode, AfterGenuine, ExitCodeGenuine, ChildAssumption

\* Dead processes stay as they are.
LEMMA GenuineStays ==
    ASSUME \A c \in Children : pstate[c] = "exited" =>
               pstate'[c] = "exited" /\ owner'[c] = owner[c] /\ pcode'[c] = pcode[c]
    PROVE  \A r, code : Genuine(r, code) => Genuine(r, code)'
BY DEF Genuine

LEMMA CodeStays ==
    ASSUME AfterGenuine, ExitCodeGenuine, UNCHANGED <<cliPc, cur, after, exitCode>>,
           \A c \in Children : pstate[c] = "exited" =>
               pstate'[c] = "exited" /\ owner'[c] = owner[c] /\ pcode'[c] = pcode[c]
    PROVE  AfterGenuine' /\ ExitCodeGenuine'
BY DEF AfterGenuine, ExitCodeGenuine, Genuine

\* Steps of a loop that neither send nor receive a code, nor touch a process.
LEMMA ExitLoop ==
    ASSUME ExitInv, UNCHANGED exitVars, UNCHANGED <<stopPc, cliPc, cur, after, exitCode>>,
           \A r \in Runners :
               /\ rpc'[r] \in {"unborn", "start", "select", "run"} =>
                      rpc[r] \in {"unborn", "start", "select", "run"}
               /\ rpc'[r] \in {"publish", "sendExit"} => rpc[r] = rpc'[r]
    PROVE  ExitInv'
<1>1. \A r, code : Genuine(r, code) => Genuine(r, code)'
  BY DEF Genuine, exitVars
<1>2. CodesSound' /\ ListensToOwn' /\ SendsCode'
  BY DEF ExitInv, exitVars, CodesSound, ListensToOwn, SendsCode
<1>3. FirstCode'
  BY <1>1 DEF ExitInv, exitVars, FirstCode
<1>4. AfterGenuine' /\ ExitCodeGenuine'
  BY <1>1 DEF ExitInv, AfterGenuine, ExitCodeGenuine, Genuine, exitVars
<1>5. QED
  BY <1>2, <1>3, <1>4 DEF ExitInv

LEMMA ExitRecvExit ==
    ASSUME TypeInv, ProcInv, ExitInv, NEW r \in Runners, RecvExit(r),
           UNCHANGED <<cliPc, cur, after, exitCode>>
    PROVE  ExitInv'
<1> DEFINE c == exitCh[r]
<1> USE DEF TypeInv, TypeOK, RunnerTypeOK, ChildTypeOK
<1>1. c \in Children /\ owner[c] = r /\ exitChan[c] # "open"
  BY DEF RecvExit, ChildRecvExit, ExitInv, ListensToOwn
<1>2. /\ exitChan' = [exitChan EXCEPT ![c] = "closed"]
      /\ rpc' = [rpc EXCEPT ![r] = "sendExit"]
      /\ outCode' = [outCode EXCEPT ![r] = ReceivedCode(c)]
      /\ UNCHANGED <<pstate, owner, pcode, pstop, exitCh, ExitCh, fresh, stopPc>>
  BY DEF RecvExit, ChildRecvExit, Goto, stopVars
<1> HIDE DEF c
<1>3. \A q, code : Genuine(q, code) => Genuine(q, code)'
  BY <1>2 DEF Genuine
<1>4. CodesSound' /\ ListensToOwn'
  <2>1. pstate[c] # "unborn"
    BY <1>1 DEF ExitInv, CodesSound
  <2>2. QED
    BY <1>1, <1>2, <2>1 DEF ExitInv, CodesSound, ListensToOwn
<1>5. SendsCode'
  <2>1. ReceivedCode(c) # NoCode
    BY <1>1, ChildAssumption DEF ReceivedCode, ExitInv, CodesSound, ChildAssumption
  <2>2. QED
    BY <1>2, <2>1 DEF ExitInv, SendsCode
<1>6. FirstCode'
  <2>1. ASSUME NEW q \in Runners, q # r, stopPc'[q] = "idle"
        PROVE  /\ ExitCh'[q] # NoCode => Genuine(q, ExitCh[q])'
               /\ outCode'[q] # NoCode /\ ExitCh'[q] = NoCode => Genuine(q, outCode[q])'
               /\ (/\ rpc'[q] \in {"unborn", "start", "select", "run"}
                   /\ exitCh'[q] # NoChild /\ ExitCh'[q] = NoCode) =>
                      pstop'[exitCh'[q]] = "no" /\ exitChan'[exitCh'[q]] # "closed"
               /\ rpc'[q] = "publish" => pstop'[fresh'[q]] = "no" /\ exitChan'[fresh'[q]] # "closed"
    <3>1. exitCh[q] # NoChild => exitCh[q] # c
      BY <1>1, <2>1 DEF ExitInv, ListensToOwn
    <3>2. rpc[q] = "publish" => fresh[q] # c
      BY <1>1, <2>1 DEF ProcInv, RunSound, Belongs, Named
    <3>3. QED
      BY <1>1, <1>2, <1>3, <2>1, <3>1, <3>2 DEF ExitInv, FirstCode
  <2>2. ASSUME stopPc[r] = "idle", ExitCh[r] = NoCode PROVE Genuine(r, outCode[r])'
    <3>1. c # NoChild /\ rpc[r] = "select"
      BY DEF RecvExit, c
    <3>2. exitChan[c] = "code"
      BY <1>1, <2>2, <3>1 DEF ExitInv, FirstCode, c
    <3>3. Genuine(r, pcode[c])
      BY <1>1, <3>2 DEF ExitInv, CodesSound, Genuine
    <3>4. outCode'[r] = pcode[c]
      BY <1>2, <3>2 DEF ReceivedCode
    <3>5. QED
      BY <1>2, <3>3, <3>4 DEF Genuine
  <2>3. ExitCh[r] # NoCode /\ stopPc[r] = "idle" => Genuine(r, ExitCh[r])'
    BY <1>2, <1>3 DEF ExitInv, FirstCode
  <2>4. rpc'[r] = "sendExit"
    BY <1>2
  <2>5. QED
    BY <1>2, <2>1, <2>2, <2>3, <2>4 DEF FirstCode
<1>7. AfterGenuine' /\ ExitCodeGenuine'
  BY <1>2, <1>3 DEF ExitInv, AfterGenuine, ExitCodeGenuine, Genuine
<1>8. QED
  BY <1>4, <1>5, <1>6, <1>7 DEF ExitInv

LEMMA ExitSendExit ==
    ASSUME TypeInv, ExitInv, NEW r \in Runners, SendExit(r),
           UNCHANGED <<cliPc, cur, after, exitCode>>
    PROVE  ExitInv'
<1> USE DEF TypeInv, TypeOK, RunnerTypeOK
<1>1. /\ ExitCh[r] = NoCode
      /\ ExitCh' = [ExitCh EXCEPT ![r] = outCode[r]]
      /\ outCode' = [outCode EXCEPT ![r] = NoCode]
      /\ rpc[r] = "sendExit" /\ rpc' = [rpc EXCEPT ![r] = "run"]
      /\ UNCHANGED <<pstate, owner, pcode, pstop, exitChan, exitCh, fresh, stopPc>>
  BY DEF SendExit, Goto, childVars, stopVars
<1>2. \A q, code : Genuine(q, code) => Genuine(q, code)'
  BY <1>1 DEF Genuine
<1>3. CodesSound' /\ ListensToOwn' /\ SendsCode'
  BY <1>1 DEF ExitInv, CodesSound, ListensToOwn, SendsCode
<1>4. FirstCode'
  <2>1. outCode[r] # NoCode
    BY <1>1 DEF ExitInv, SendsCode
  <2>2. QED
    BY <1>1, <1>2, <2>1 DEF ExitInv, FirstCode
<1>5. AfterGenuine' /\ ExitCodeGenuine'
  BY <1>1, <1>2 DEF ExitInv, AfterGenuine, ExitCodeGenuine, Genuine
<1>6. QED
  BY <1>3, <1>4, <1>5 DEF ExitInv
LEMMA ExitSpawn ==
    ASSUME TypeInv, ProcInv, ExitInv, NEW r \in Runners, NEW c \in Children, Spawn(r, c),
           UNCHANGED <<cliPc, cur, after, exitCode>>
    PROVE  ExitInv'
<1> USE DEF TypeInv, TypeOK, RunnerTypeOK, ChildTypeOK
<1>1. /\ pstate[c] = "unborn"
      /\ pstate' = [pstate EXCEPT ![c] = "running"]
      /\ owner' = [owner EXCEPT ![c] = r]
      /\ fresh' = [fresh EXCEPT ![r] = c]
      /\ rpc' = [rpc EXCEPT ![r] = "publish"]
      /\ UNCHANGED <<pcode, pstop, exitChan, exitCh, ExitCh, outCode, stopPc>>
  BY DEF Spawn, ChildStart, Goto, stopVars
<1>2. pstop[c] = "no" /\ exitChan[c] = "open"
  BY <1>1 DEF ProcInv, StopSound, ExitInv, CodesSound
<1>3. \A d \in Children : pstate[d] = "exited" =>
          pstate'[d] = "exited" /\ owner'[d] = owner[d] /\ pcode'[d] = pcode[d]
  BY <1>1
<1>8. \A q, code : Genuine(q, code) => Genuine(q, code)'
  BY <1>3, GenuineStays
<1>4. CodesSound' /\ ListensToOwn' /\ SendsCode'
  BY <1>1, <1>2 DEF ExitInv, CodesSound, ListensToOwn, SendsCode
<1>5. FirstCode'
  <2>1. ASSUME NEW q \in Runners, q # r, rpc[q] = "publish" PROVE fresh'[q] = fresh[q]
    BY <1>1, <2>1
  <2>2. QED
    BY <1>1, <1>2, <1>8, <2>1 DEF ExitInv, FirstCode
<1>6. AfterGenuine' /\ ExitCodeGenuine'
  BY <1>3, CodeStays DEF ExitInv
<1>7. QED
  BY <1>4, <1>5, <1>6 DEF ExitInv

LEMMA ExitPublish ==
    ASSUME TypeInv, ProcInv, ExitInv, NEW r \in Runners, Publish(r),
           UNCHANGED <<cliPc, cur, after, exitCode>>
    PROVE  ExitInv'
<1> USE DEF TypeInv, TypeOK, RunnerTypeOK, ChildTypeOK
<1>1. /\ rpc[r] = "publish" /\ rpc' = [rpc EXCEPT ![r] = "select"]
      /\ exitCh' = [exitCh EXCEPT ![r] = fresh[r]]
      /\ fresh' = [fresh EXCEPT ![r] = NoChild]
      /\ UNCHANGED <<pstate, owner, pcode, pstop, exitChan, ExitCh, outCode, stopPc>>
  BY DEF Publish, KeepExitCh, Goto, childVars, stopVars
<1>2. fresh[r] \in Named(r) /\ pstate[fresh[r]] # "unborn" /\ owner[fresh[r]] = r
  BY <1>1 DEF ProcInv, RunSound, Belongs, Named
<1>3. \A q, code : Genuine(q, code) => Genuine(q, code)'
  BY <1>1 DEF Genuine
<1>4. CodesSound' /\ ListensToOwn' /\ SendsCode'
  BY <1>1, <1>2 DEF ExitInv, CodesSound, ListensToOwn, SendsCode
<1>5. FirstCode'
  BY <1>1, <1>2, <1>3 DEF ExitInv, FirstCode
<1>6. AfterGenuine' /\ ExitCodeGenuine'
  BY <1>1, <1>3 DEF ExitInv, AfterGenuine, ExitCodeGenuine, Genuine
<1>7. QED
  BY <1>4, <1>5, <1>6 DEF ExitInv

\* A Stop of a child is called by Run, which then replaces it, or inside Stop.
LEMMA ExitStopChild ==
    ASSUME TypeInv, ProcInv, ExitInv, NEW r \in Runners, child[r] # NoChild,
           ChildStopCall(child[r]),
           UNCHANGED <<exitCh, ExitCh, outCode, fresh, cliPc, cur, after, exitCode>>,
           \A q \in Runners : q # r => rpc'[q] = rpc[q] /\ stopPc'[q] = stopPc[q],
           \/ rpc'[r] = "awaitChild" /\ stopPc'[r] = stopPc[r]
           \/ rpc'[r] = rpc[r] /\ stopPc'[r] # "idle"
    PROVE  ExitInv'
<1> USE DEF TypeInv, TypeOK, RunnerTypeOK, ChildTypeOK
<1>1. child[r] \in Children /\ owner[child[r]] = r /\ pstate[child[r]] # "unborn"
  BY DEF ProcInv, Belongs, Named
<1>2. /\ \A c \in Children : c # child[r] => pstop'[c] = pstop[c]
      /\ \A c \in Children : pstop'[c] = "no" => pstop[c] = "no"
      /\ UNCHANGED <<pstate, owner, pcode, exitChan>>
  BY <1>1 DEF ChildStopCall
<1>3. \A q, code : Genuine(q, code) => Genuine(q, code)'
  BY <1>2 DEF Genuine
<1>4. CodesSound' /\ ListensToOwn'
  BY <1>2 DEF ExitInv, CodesSound, ListensToOwn
<1>5. SendsCode'
  BY DEF ExitInv, SendsCode
<1>6. FirstCode'
  <2>1. ASSUME NEW q \in Runners, q # r PROVE
           /\ exitCh[q] # NoChild => pstop'[exitCh[q]] = pstop[exitCh[q]]
           /\ rpc[q] = "publish" => pstop'[fresh[q]] = pstop[fresh[q]]
    <3>1. exitCh[q] # NoChild => exitCh[q] # child[r]
      BY <1>1, <2>1 DEF ExitInv, ListensToOwn
    <3>2. rpc[q] = "publish" => fresh[q] \in Children /\ fresh[q] # child[r]
      BY <1>1, <2>1 DEF ProcInv, RunSound, Belongs, Named
    <3>3. QED
      BY <1>2, <3>1, <3>2
  <2>2. \A q \in Runners : q # r => (rpc'[q] = rpc[q] /\ stopPc'[q] = stopPc[q])
    OBVIOUS
  <2>3. QED
    BY <1>2, <1>3, <2>1, <2>2 DEF ExitInv, FirstCode
<1>7. AfterGenuine' /\ ExitCodeGenuine'
  BY <1>2, CodeStays DEF ExitInv
<1>8. QED
  BY <1>4, <1>5, <1>6, <1>7 DEF ExitInv

LEMMA ExitRunner ==
    ASSUME TypeInv, ProcInv, ExitInv, NEW r \in Runners, RunnerStep(r)
    PROVE  ExitInv'
<1> USE DEF TypeInv, TypeOK, RunnerTypeOK, Goto
<1>1. UNCHANGED <<stopPc, cliPc, cur, after, exitCode>>
  BY DEF RunnerStep, cliVars, stopVars, Start, StartFail, RecvData, TimerFires, RecvErr,
         RecvExit, SendExit, RecvDone, RunNothing, RunNewEnv, RunStopChild, RunAwaitChild,
         Spawn, SpawnFail, Publish
<1>2. CASE RecvExit(r)
  BY <1>1, <1>2, ExitRecvExit
<1>3. CASE SendExit(r)
  BY <1>1, <1>3, ExitSendExit
<1>4. CASE RunStopChild(r)
  <2>1. child[r] # NoChild
    BY <1>4 DEF RunStopChild, ProcInv, RunSound
  <2>2. /\ \A q \in Runners : q # r => rpc'[q] = rpc[q] /\ stopPc'[q] = stopPc[q]
        /\ rpc'[r] = "awaitChild"
        /\ UNCHANGED <<exitCh, ExitCh, outCode, fresh>>
        /\ ChildStopCall(child[r])
    BY <1>1, <1>4 DEF RunStopChild
  <2>3. QED
    BY <1>1, <2>1, <2>2, ExitStopChild
<1>5. ASSUME NEW c \in Children, Spawn(r, c) PROVE ExitInv'
  BY <1>1, <1>5, ExitSpawn
<1>6. CASE Publish(r)
  BY <1>1, <1>6, ExitPublish
<1>7. CASE RecvData(r)
  <2>1. UNCHANGED exitVars
    BY <1>7 DEF RecvData, exitVars, childVars
  <2>2. rpc[r] = "select" /\ (rpc' = rpc \/ rpc' = [rpc EXCEPT ![r] = "run"])
    BY <1>7 DEF RecvData
  <2>3. QED
    BY <1>1, <2>1, <2>2, ExitLoop
<1>8. CASE \/ Start(r) \/ StartFail(r) \/ TimerFires(r) \/ (\E s \in Sources : RecvErr(r, s))
           \/ RecvDone(r) \/ RunNothing(r) \/ (\E e \in Renders(data[r]) : RunNewEnv(r, e))
           \/ RunAwaitChild(r) \/ SpawnFail(r)
  <2>1. UNCHANGED exitVars
    BY <1>8 DEF exitVars, childVars, Start, StartFail, TimerFires, RecvErr, RecvDone,
         RunNothing, RunNewEnv, RunAwaitChild, SpawnFail
  <2>2. \E label \in {"select", "sendErr", "run", "returned", "stopChild", "spawn"} :
            /\ rpc' = [rpc EXCEPT ![r] = label]
            /\ label \in {"select", "run"} => rpc[r] \in {"start", "select", "run"}
    BY <1>8 DEF Start, StartFail, TimerFires, RecvErr, RecvDone, RunNothing, RunNewEnv,
         AfterNewEnv, RunAwaitChild, SpawnFail
  <2>3. QED
    BY <1>1, <2>1, <2>2, ExitLoop
<1>9. QED
  BY <1>2, <1>3, <1>4, <1>5, <1>6, <1>7, <1>8 DEF RunnerStep

\* Steps of CLI.Run and of the processes that neither send nor receive a code on
\* an exit channel of a child, and do not stop what is not being stopped.
LEMMA ExitOthers ==
    ASSUME TypeInv, ExitInv, CodesSound', UNCHANGED <<owner, exitCh, outCode, fresh>>,
           \A r \in Runners :
               /\ stopPc'[r] = "idle" => stopPc[r] = "idle" /\ ExitCh'[r] = ExitCh[r]
               /\ \/ rpc'[r] = rpc[r]
                  \/ rpc[r] = "unborn" /\ rpc'[r] = "start"
                  \/ rpc'[r] = "returned",
           \A c \in Children :
               /\ pstate[c] = "exited" => pstate'[c] = "exited" /\ pcode'[c] = pcode[c]
               /\ pstate[c] # "unborn" => pstate'[c] # "unborn"
               /\ pstop[c] = "no" /\ exitChan[c] # "closed" =>
                      pstop'[c] = "no" /\ exitChan'[c] # "closed",
           AfterGenuine', ExitCodeGenuine',
           ProcInv
    PROVE  ExitInv'
<1> USE DEF TypeInv, TypeOK, RunnerTypeOK, ChildTypeOK
<1>1. \A q, code : Genuine(q, code) => Genuine(q, code)'
  BY GenuineStays
<1>2. ListensToOwn' /\ SendsCode'
  BY DEF ExitInv, ListensToOwn, SendsCode
<1>3. FirstCode'
  <2>1. \A r \in Runners : rpc'[r] = "publish" => rpc[r] = "publish" /\ fresh[r] \in Children
    BY DEF ProcInv, RunSound
  <2>2. QED
    BY <1>1, <2>1 DEF ExitInv, FirstCode
<1>4. QED
  BY <1>2, <1>3 DEF ExitInv

LEMMA ExitCli ==
    ASSUME TypeInv, ProcInv, StopInv, ExitInv, CliStep
    PROVE  ExitInv'
<1> USE DEF TypeInv, TypeOK, RunnerTypeOK, ChildTypeOK, CliControl, Goto, Return,
        childVars, watcherVars, configVars, stopVars, loopVars, runnerVars, cliVars
<1>1. CASE CliStopStep
  <2>1. cur \in Runners /\ stopPc[cur] # "idle" /\ UNCHANGED <<rpc, cliPc, cur, after, exitCode>>
    BY <1>1 DEF CliStopStep, StopInv, StopWatchers, StopChild, StopAwaitChild, StopPid, StopDone
  <2>2. CASE StopChild(cur) /\ ~NothingToStop(cur)
    <3>1. /\ child[cur] # NoChild /\ ChildStopCall(child[cur])
          /\ UNCHANGED <<exitCh, ExitCh, outCode, fresh>>
          /\ \A q \in Runners : q # cur => rpc'[q] = rpc[q] /\ stopPc'[q] = stopPc[q]
          /\ rpc'[cur] = rpc[cur] /\ stopPc'[cur] # "idle"
      BY <2>1, <2>2 DEF StopChild, NothingToStop, StopGoto
    <3>2. QED
      BY <2>1, <3>1, ExitStopChild
  <2>3. CASE ~(StopChild(cur) /\ ~NothingToStop(cur))
    <3>1. UNCHANGED <<childVars, exitCh, ExitCh, outCode, fresh>>
      BY <1>1, <2>3 DEF CliStopStep, StopWatchers, StopChild, StopAwaitChild, StopPid, StopDone
    <3>2. \A q \in Runners : stopPc'[q] = "idle" => stopPc[q] = "idle"
      BY <1>1, <2>1 DEF CliStopStep, StopWatchers, StopChild, StopAwaitChild, StopPid, StopDone,
           StopGoto
    <3>3. CodesSound'
      BY <3>1 DEF ExitInv, CodesSound
    <3>4. AfterGenuine' /\ ExitCodeGenuine'
      BY <2>1, <3>1, CodeStays DEF ExitInv
    <3>5. QED
      BY <2>1, <3>1, <3>2, <3>3, <3>4, ExitOthers
  <2>4. QED
    BY <2>2, <2>3
<1>2. CASE ~CliStopStep
  <2>1. UNCHANGED <<pstate, owner, pcode, pstop, exitChan, exitCh, outCode, fresh>>
    BY <1>2 DEF CliStep, LoadRunner, NewRunner, LoadFail, CliRecvErr, SendErr, CliRecvExit,
         CliRecvSignal, CliSignalChild, CliStopReturn
  <2>2. CodesSound'
    BY <2>1 DEF ExitInv, CodesSound
  <2>3. \A r \in Runners :
            \/ rpc'[r] = rpc[r]
            \/ rpc[r] = "unborn" /\ rpc'[r] = "start"
            \/ rpc'[r] = "returned"
    BY <1>2 DEF CliStep, LoadRunner, NewRunner, LoadFail, CliRecvErr, SendErr, CliRecvExit,
         CliRecvSignal, CliSignalChild, CliStopReturn
  <2>4. \A r \in Runners :
            stopPc'[r] = "idle" => stopPc[r] = "idle" /\ ExitCh'[r] = ExitCh[r]
    <3>1. CASE CliRecvExit
      <4>1. /\ ExitCh' = [ExitCh EXCEPT ![cur] = NoCode]
            /\ stopPc' = [stopPc EXCEPT ![cur] = IF Stopped(cur) THEN @ ELSE "watchers"]
            /\ cur \in Runners
        BY <3>1 DEF CliRecvExit, HandleExit, CallStop, StopCall
      <4>2. QED
        BY <4>1 DEF Stopped
    <3>2. CASE ~CliRecvExit
      BY <1>2, <3>2 DEF CliStep, LoadRunner, NewRunner, LoadFail, CliRecvErr, SendErr,
           CliRecvSignal, HandleSignal, CallStop, StopCall, Stopped, CliSignalChild,
           CliStopReturn
    <3>3. QED
      BY <3>1, <3>2
  <2>5. AfterGenuine'
    <3>1. CASE CliRecvExit
      <4>1. /\ cur \in Runners /\ stopPc[cur] = "idle"
            /\ after' = ExitCh[cur] /\ cur' = cur /\ ExitCh[cur] # NoCode
        BY <3>1 DEF CliRecvExit, HandleExit, CallStop, StopInv, StopsEachRunnerOnce
      <4>2. Genuine(cur, ExitCh[cur])
        BY <4>1 DEF ExitInv, FirstCode
      <4>3. QED
        BY <2>1, <4>1, <4>2 DEF AfterGenuine, Genuine
    <3>2. CASE CliRecvSignal
      <4>1. after' \in Codes /\ cliPc' = "stop" => after' \in {"reload", "ExitCodeInterrupt"}
        BY <3>2 DEF CliRecvSignal, HandleSignal, CallStop
      <4>2. QED
        BY <4>1, EnvconsulAssumption DEF EnvconsulAssumption, CliErrors, AfterGenuine
    <3>3. CASE ~CliRecvExit /\ ~CliRecvSignal
      BY <1>2, <3>3 DEF CliStep, LoadRunner, LoadFail, CliRecvErr, CliSignalChild,
           CliStopReturn, AfterGenuine
    <3>4. QED
      BY <3>1, <3>2, <3>3
  <2>6. ExitCodeGenuine'
    <3>1. CASE CliStopReturn
      <4>1. CASE after = "reload"
        BY <3>1, <4>1 DEF CliStopReturn, ExitCodeGenuine
      <4>2. CASE after # "reload"
        <5>1. cliPc = "stop" /\ exitCode' = after /\ cur' = cur
          BY <3>1, <4>2 DEF CliStopReturn
        <5>2. QED
          BY <2>1, <5>1 DEF ExitInv, AfterGenuine, Genuine, ExitCodeGenuine
      <4>3. QED
        BY <4>1, <4>2
    <3>2. CASE ~CliStopReturn
      <4>1. cliPc' = "exited" => exitCode' \in CliErrors
        BY <1>2, <3>2 DEF CliStep, LoadRunner, LoadFail, CliErrors, CliRecvErr, CliRecvExit,
             HandleExit, CliRecvSignal, HandleSignal, CallStop, CliSignalChild
      <4>2. QED
        BY <4>1, EnvconsulAssumption DEF EnvconsulAssumption, ExitCodeGenuine
    <3>3. QED
      BY <3>1, <3>2
  <2>7. QED
    BY <2>1, <2>2, <2>3, <2>4, <2>5, <2>6, ExitOthers
<1>3. QED
  BY <1>1, <1>2

LEMMA ExitProcess ==
    ASSUME TypeInv, ProcInv, ExitInv, NEW c \in Children,
           \/ ChildStopReturn(c) \/ ChildReap(c)
           \/ \E code \in Codes \cup {NoCode} : ChildExit(c, code),
           UNCHANGED <<runnerVars, cliPc, cur, after, exitCode>>
    PROVE  ExitInv'
<1> USE DEF TypeInv, TypeOK, RunnerTypeOK, ChildTypeOK, runnerVars, configVars, loopVars,
        stopVars
<1>1. \A d \in Children :
          /\ owner' = owner
          /\ pstate[d] = "exited" => pstate'[d] = "exited" /\ pcode'[d] = pcode[d]
          /\ pstate[d] # "unborn" => pstate'[d] # "unborn"
          /\ pstop[d] = "no" /\ exitChan[d] # "closed" =>
                 pstop'[d] = "no" /\ exitChan'[d] # "closed"
  BY DEF ChildStopReturn, ChildReap, ChildExit
<1>2. CodesSound'
  BY DEF ExitInv, CodesSound, ChildStopReturn, ChildReap, ChildExit
<1>3. AfterGenuine' /\ ExitCodeGenuine'
  BY <1>1, CodeStays DEF ExitInv
<1>4. QED
  BY <1>1, <1>2, <1>3, ExitOthers

LEMMA ExitNext == TypeInv /\ ProcInv /\ StopInv /\ ExitInv /\ [Next]_vars => ExitInv'
<1> SUFFICES ASSUME TypeInv, ProcInv, StopInv, ExitInv, [Next]_vars PROVE ExitInv'
  OBVIOUS
<1>1. ASSUME NEW r \in Runners, RunnerStep(r) PROVE ExitInv'
  BY <1>1, ExitRunner
<1>2. CASE CliStep
  BY <1>2, ExitCli
<1>3. ASSUME NEW c \in Children, ChildStep(c) PROVE ExitInv'
  BY <1>3, ExitProcess DEF ChildStep, cliVars
<1>4. ASSUME NEW c \in Children, NEW code \in Codes \cup {NoCode}, ProcessExit(c, code)
      PROVE ExitInv'
  BY <1>4, ExitProcess DEF ProcessExit
<1>5. CASE UNCHANGED <<childVars, runnerVars, cliPc, cur, after, exitCode>>
  BY <1>5, ExitLoop DEF childVars, runnerVars, configVars, loopVars, stopVars, exitVars
<1>6. QED
  BY <1>1, <1>2, <1>3, <1>4, <1>5 DEF Next, Resting, PollStep, WatchFailStep, StoreStep,
       SendSignal, vars, cliVars

\* An exit code of a command that envconsul returns is the code with which a
\* process of its current runner has ended by itself (cli.go:146-154,
\* runner.go:203-204).
THEOREM GenuineExit == Spec => []ExitCodeGenuine
<1>1. Init => TypeInv /\ ProcInv /\ StopInv /\ ExitInv
  BY TypeInit, ProcInit, StopInit, ExitInit DEF Init, TypeInv, CliControl
<1>2. (TypeInv /\ ProcInv /\ StopInv /\ ExitInv) /\ [Next]_vars
          => (TypeInv /\ ProcInv /\ StopInv /\ ExitInv)'
  BY TypeNext, ProcNext, StopNext, ExitNext
<1>3. ExitInv => ExitCodeGenuine
  BY DEF ExitInv
<1>4. QED
  BY <1>1, <1>2, <1>3, PTL DEF Spec
=============================================================================
