-------------------------------- MODULE Child --------------------------------
(***************************************************************************)
(* The processes that envconsul supervises, seen through the child package *)
(* of consul-template, which is not part of this repository: the calls     *)
(* runner.go makes are child.New, Start, Stop, Signal and ExitCh.          *)
(*                                                                         *)
(* A child is a process plus the goroutine that reaps it. exitChan is the  *)
(* channel ExitCh() returns: the reaper puts the exit code in it unless    *)
(* Stop has been called, and always closes it.                             *)
(***************************************************************************)
EXTENDS Naturals, Actors

CONSTANTS Children,  \* every process that may ever be spawned
          NoChild,   \* the nil *child.Child
          Envs,      \* rendered environments
          NoEnv,     \* the nil map r.env starts as
          Codes,     \* exit codes of a process
          NoCode,
          ExitCodeOK \* the code a receive from a closed exit channel yields

ASSUME ChildAssumption ==
    /\ NoChild \notin Children
    /\ NoEnv \notin Envs
    /\ NoCode \notin Codes
    /\ ExitCodeOK \in Codes

VARIABLES pstate,   \* "unborn", "running" or "exited"
          owner,    \* the runner that spawned the process
          penv,     \* the environment it was given
          pcode,    \* its exit code, NoCode when it was killed by Stop
          pstop,    \* "no", "stopping" while Stop holds the lock, "stopped"
          exitChan  \* "open", "code" (one code, then closed), "closed"

childVars == <<pstate, owner, penv, pcode, pstop, exitChan>>

ChildTypeOK ==
    /\ pstate \in [Children -> {"unborn", "running", "exited"}]
    /\ owner \in [Children -> Runners \cup {NoRunner}]
    /\ penv \in [Children -> Envs \cup {NoEnv}]
    /\ pcode \in [Children -> Codes \cup {NoCode}]
    /\ pstop \in [Children -> {"no", "stopping", "stopped"}]
    /\ exitChan \in [Children -> {"open", "code", "closed"}]

ChildInit ==
    /\ pstate = [c \in Children |-> "unborn"]
    /\ owner = [c \in Children |-> NoRunner]
    /\ penv = [c \in Children |-> NoEnv]
    /\ pcode = [c \in Children |-> NoCode]
    /\ pstop = [c \in Children |-> "no"]
    /\ exitChan = [c \in Children |-> "open"]

Live(r) == {c \in Children : owner[c] = r /\ pstate[c] = "running"}

-----------------------------------------------------------------------------
\* child.New and child.Start: fork and exec, one command per child.
ChildStart(c, r, e) ==
    /\ pstate[c] = "unborn"
    /\ pstate' = [pstate EXCEPT ![c] = "running"]
    /\ owner' = [owner EXCEPT ![c] = r]
    /\ penv' = [penv EXCEPT ![c] = e]
    /\ UNCHANGED <<pcode, pstop, exitChan>>

\* The call of child.Stop. A second Stop waits for the first on the lock of the
\* child and then does nothing.
ChildStopCall(c) ==
    /\ pstop' = [pstop EXCEPT ![c] = IF @ = "no" THEN "stopping" ELSE @]
    /\ UNCHANGED <<pstate, owner, penv, pcode, exitChan>>

\* child.Stop returns once the process is gone: it waits for splay, sends the
\* kill signal, waits for kill_timeout at most and then sends SIGKILL.
ChildStopReturn(c) ==
    /\ pstop[c] = "stopping"
    /\ pstate[c] # "running"
    /\ pstop' = [pstop EXCEPT ![c] = "stopped"]
    /\ UNCHANGED <<pstate, owner, penv, pcode, exitChan>>

\* The process ends, by itself with some code or because Stop kills it.
ChildExit(c, code) ==
    /\ pstate[c] = "running"
    /\ (pstop[c] = "stopping") <=> (code = NoCode)
    /\ pstate' = [pstate EXCEPT ![c] = "exited"]
    /\ pcode' = [pcode EXCEPT ![c] = code]
    /\ UNCHANGED <<owner, penv, pstop, exitChan>>

\* The reaper of a dead process. It needs the stop lock, which Stop holds.
ChildReap(c) ==
    /\ pstate[c] = "exited"
    /\ exitChan[c] = "open"
    /\ pstop[c] # "stopping"
    /\ exitChan' = [exitChan EXCEPT
                      ![c] = IF pstop[c] = "no" THEN "code" ELSE "closed"]
    /\ UNCHANGED <<pstate, owner, penv, pcode, pstop>>

\* A receive from the exit channel: the code first, zero values ever after.
ChildRecvExit(c) ==
    /\ exitChan[c] # "open"
    /\ exitChan' = [exitChan EXCEPT ![c] = "closed"]
    /\ UNCHANGED <<pstate, owner, penv, pcode, pstop>>

ReceivedCode(c) == IF exitChan[c] = "code" THEN pcode[c] ELSE ExitCodeOK
=============================================================================
