------------------------------- MODULE Watcher -------------------------------
(***************************************************************************)
(* The data store (Consul, Vault) and the watchers of consul-template that *)
(* poll it, modelled from how runner.go uses them: Add, Stop, DataCh and   *)
(* ErrCh. None of this is in the repository. A view keeps the value it has *)
(* fetched; DataCh carries the view, and the value is read when the runner *)
(* receives it (data.Data()), so a set of views says all DataCh says.      *)
(***************************************************************************)
EXTENDS Naturals, Actors

CONSTANTS Deps,        \* the dependencies a runner watches, from its config
          Vals,        \* what the store may hold for a dependency
          NoData,      \* a view that has not fetched anything yet
          MaxChanges,  \* bound: writes to the store
          MaxErrs      \* bound: errors the watchers report

\* ErrCh is read from the dependency watcher and from the vault token watcher.
Sources == {"watcher", "vaultTokenWatcher"}

ASSUME WatcherAssumption ==
    /\ Deps # {}
    /\ NoData \notin Vals
    /\ MaxChanges \in Nat
    /\ MaxErrs \in Nat

VARIABLES store,    \* the value of every dependency
          changes,  \* writes so far
          view,     \* what each view of each runner last fetched
          pending,  \* the views in DataCh
          watching, \* whether the views of a runner poll
          werr,     \* the watchers blocked in a send on their ErrCh
          errs      \* errors so far

watcherVars == <<store, changes, view, pending, watching, werr, errs>>

Views == [Deps -> Vals \cup {NoData}]

WatcherTypeOK ==
    /\ store \in [Deps -> Vals]
    /\ changes \in 0..MaxChanges
    /\ view \in [Runners -> Views]
    /\ pending \in [Runners -> SUBSET Deps]
    /\ watching \in [Runners -> BOOLEAN]
    /\ werr \in [Runners -> SUBSET Sources]
    /\ errs \in 0..MaxErrs

WatcherInit ==
    /\ store \in [Deps -> Vals]
    /\ changes = 0
    /\ view = [r \in Runners |-> [d \in Deps |-> NoData]]
    /\ pending = [r \in Runners |-> {}]
    /\ watching = [r \in Runners |-> FALSE]
    /\ werr = [r \in Runners |-> {}]
    /\ errs = 0

-----------------------------------------------------------------------------
StoreChange(d, v) ==
    /\ changes < MaxChanges
    /\ store[d] # v
    /\ store' = [store EXCEPT ![d] = v]
    /\ changes' = changes + 1
    /\ UNCHANGED <<view, pending, watching, werr, errs>>

\* A view polls, finds a new value and puts itself in DataCh. In once mode a
\* view stops polling when it has a value.
Poll(r, d, once) ==
    /\ watching[r]
    /\ view[r][d] # store[d]
    /\ once => view[r][d] = NoData
    /\ view' = [view EXCEPT ![r][d] = store[d]]
    /\ pending' = [pending EXCEPT ![r] = @ \cup {d}]
    /\ UNCHANGED <<store, changes, watching, werr, errs>>

WatchFail(r, s) ==
    /\ watching[r]
    /\ errs < MaxErrs
    /\ s \notin werr[r]
    /\ werr' = [werr EXCEPT ![r] = @ \cup {s}]
    /\ errs' = errs + 1
    /\ UNCHANGED <<store, changes, view, pending, watching>>

\* watcher.Add of every dependency; nothing guards it against an earlier Stop.
WatcherAdd(r) ==
    /\ watching' = [watching EXCEPT ![r] = TRUE]
    /\ UNCHANGED <<store, changes, view, pending, werr, errs>>

\* watcher.Stop stops the polling and leaves DataCh as it is.
WatcherStop(r) ==
    /\ watching' = [watching EXCEPT ![r] = FALSE]
    /\ UNCHANGED <<store, changes, view, pending, werr, errs>>

\* A receive from DataCh followed by the drain: DataCh is empty afterwards.
WatcherDrain(r) ==
    /\ pending[r] # {}
    /\ pending' = [pending EXCEPT ![r] = {}]
    /\ UNCHANGED <<store, changes, view, watching, werr, errs>>

WatcherRecvErr(r, s) ==
    /\ s \in werr[r]
    /\ werr' = [werr EXCEPT ![r] = @ \ {s}]
    /\ UNCHANGED <<store, changes, view, pending, watching, errs>>
=============================================================================
