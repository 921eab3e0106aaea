------------------------------ MODULE MCEnvconsul ------------------------------
(* Small instances of Envconsul for TLC.                                    *)
EXTENDS Envconsul, TLC

CONSTANTS PidFile,   \* the one pid file path
          HUP, INT, USR, CHLD, URG,
          success, failure

\* The environment a runner computes from its data, one per tuple of values.
OneRender(v) == {v}
MCEnvs == [Deps -> Vals]

NoWait == {[wait |-> FALSE, pidFile |-> NoPath]}
NoWaitPid == {[wait |-> FALSE, pidFile |-> PidFile]}
WithWait == {[wait |-> TRUE, pidFile |-> NoPath]}
WaitOrNot == {[wait |-> w, pidFile |-> NoPath] : w \in BOOLEAN}

MCCodes == {success, failure}
JustSuccess == {success}
MCSignals == {HUP, INT, USR, CHLD, URG}

\* How often each signal is sent.
ReloadAndKill == (HUP :> 1) @@ (INT :> 1) @@ (USR :> 0) @@ (CHLD :> 0) @@ (URG :> 0)
JustKill == [s \in MCSignals |-> IF s = INT THEN 1 ELSE 0]
KillAndURG == [s \in MCSignals |-> IF s \in {INT, URG} THEN 1 ELSE 0]
=============================================================================
