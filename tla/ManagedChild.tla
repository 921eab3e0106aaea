----------------------------- MODULE ManagedChild -----------------------------
(***************************************************************************)
(* What a runner promises about the command it manages, whatever the       *)
(* interleaving: at most one process of the runner is alive, a process is  *)
(* launched only when the environment differs from the one launched last,  *)
(* and no process is ever launched twice.                                  *)
(***************************************************************************)
CONSTANTS Runners, Children, Envs, NoEnv

VARIABLES live, \* the processes of each runner that are alive
          born, \* every process launched so far
          last  \* the environment of the launch before, NoEnv if none

Init ==
    /\ live = [r \in Runners |-> {}]
    /\ born = {}
    /\ last = [r \in Runners |-> NoEnv]

Launch(r, c, e) ==
    /\ live[r] = {}
    /\ c \notin born
    /\ e # last[r]
    /\ live' = [live EXCEPT ![r] = {c}]
    /\ born' = born \cup {c}
    /\ last' = [last EXCEPT ![r] = e]

Die(r, c) ==
    /\ c \in live[r]
    /\ live' = [live EXCEPT ![r] = @ \ {c}]
    /\ UNCHANGED <<born, last>>

Next == \E r \in Runners, c \in Children :
            \/ \E e \in Envs : Launch(r, c, e)
            \/ Die(r, c)

Spec == Init /\ [][Next]_<<live, born, last>>
=============================================================================
