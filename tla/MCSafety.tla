-------------------------------- MODULE MCSafety --------------------------------
(* Safety over two small instances at once.  In one there is one runner, with *)
(* or without wait or -once, whose store changes and whose watchers fail, and *)
(* envconsul is sent a kill and another signal.  In the other there is a      *)
(* reload, with one pid file for both runners.  The instance is the one that  *)
(* has the pid file.                                                          *)
EXTENDS MCEnvconsul, FiniteSets

CONSTANTS r1, r2, c1, c2, c3, v1, v2

MCConfigs == WaitOrNot \cup NoWaitPid
MCSent == [s \in MCSignals |-> IF s \in {HUP, INT, USR} THEN 1 ELSE 0]

Born == {r \in Runners : rpc[r] # "unborn"}
Processes == {c \in Children : pstate[c] # "unborn"}

\* Only what the code does not decide is restricted: -once, the configuration
\* that is loaded, the signals sent, the changes of the store, the errors of the
\* watchers, how a process ends, and how many processes there are.
OneOfTwoInstances ==
    /\ \A r \in Born :
         IF config[r].pidFile = NoPath
         THEN /\ sent[HUP] = 0
              /\ \A c \in Children : pcode[c] # failure
         ELSE /\ ~once
              /\ \A c \in Children : pcode[c] # success
              /\ sent[INT] = 0 /\ sent[USR] = 0
              /\ changes <= sent[HUP]
              /\ errs = 0
              /\ Cardinality(Processes) <= 2
    /\ Born = {} => changes = 0

\* One unborn runner or process is as good as another: they come in this order.
InOrder ==
    /\ r2 \in Born => r1 \in Born
    /\ c2 \in Processes => c1 \in Processes
    /\ c3 \in Processes => c2 \in Processes

MCSpec == /\ Init /\ store = [d \in Deps |-> v1]
          /\ [][Next /\ (OneOfTwoInstances /\ InOrder)']_vars
=============================================================================
