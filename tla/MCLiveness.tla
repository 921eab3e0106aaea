------------------------------- MODULE MCLiveness -------------------------------
(* Liveness over two small instances at once.  In one a runner has wait       *)
(* enabled, the store changes and there is no reload; in the other there is a *)
(* reload, the runners have no wait and the store stays as it is.             *)
EXTENDS MCEnvconsul

CONSTANTS r1, r2, v1, v2

\* Each of these signals is sent at most once.
MCSent == [s \in MCSignals |-> IF s \in {HUP, INT, USR} THEN 1 ELSE 0]

\* Only the signals sent, the changes of the store, the configuration that is
\* loaded and the name of the runner it is for are restricted: nothing the code
\* does by itself.
OneOfTwoInstances ==
    /\ \A r \in Runners : rpc[r] # "unborn" =>
         IF config[r].wait THEN sent[HUP] = 0
         ELSE changes = 0 /\ sent[USR] = 0 /\ sent[INT] <= sent[HUP]
    /\ (\A r \in Runners : rpc[r] = "unborn") =>
         changes = 0 /\ \A s \in Signals : sent[s] = 0
    /\ rpc[r2] # "unborn" => rpc[r1] # "unborn"

MCSpec == /\ Init /\ store = [d \in Deps |-> v1]
          /\ [][Next /\ OneOfTwoInstances']_vars
          /\ Fairness
=============================================================================
