------------------------------ MODULE Quiescence ------------------------------
(* The quiescence timers of the event loop, with time (Start, runner.go): how *)
(* long data that was received may wait before Run applies it, and how early *)
(* it may be applied.  Module Runner has the same loop without durations.    *)
(*                                                                           *)
(* Time is discrete.  The loop takes no time by itself, it waits in select   *)
(* only while no case is ready; Run may take any time.  Data arrives, and    *)
(* watchers report errors, whenever they like.                               *)
EXTENDS Integers

CONSTANTS Min, Max,   \* wait.min and wait.max, in ticks
          Nil         \* a timer that is not armed

\* Nothing compares the two: a file may set a maximum below the minimum.
ASSUME QuiescenceAssumption ==
    /\ Min \in Nat /\ Max \in Nat
    /\ Nil \notin Int

VARIABLES
    pc,         \* "select" or "run"
    pending,    \* whether data is ready on DataCh
    minTimer,   \* r.minTimer: Nil, or the ticks that are left
    maxTimer,   \* r.maxTimer, likewise
    unapplied,  \* whether data was received since Run last began
    age,        \* ticks since the first such data (history)
    quiet,      \* ticks since the last data, at most Min (history)
    stale       \* whether Run began with the timers armed, which are for
                \* data that has been applied since then (history)

vars == <<pc, pending, minTimer, maxTimer, unapplied, age, quiet, stale>>

Init ==
    /\ pc = "select" /\ pending = FALSE
    /\ minTimer = Nil /\ maxTimer = Nil
    /\ unapplied = FALSE /\ age = 0 /\ quiet = 0 /\ stale = FALSE

-----------------------------------------------------------------------------
\* A view has new data.
Arrive ==
    /\ pending' = TRUE
    /\ UNCHANGED <<pc, minTimer, maxTimer, unapplied, age, quiet, stale>>

\* Seeded fault: every arrival starts the maximum over.
ArmTimers_MaxAgain ==
    /\ minTimer' = Min
    /\ maxTimer' = Max

\* Seeded fault: the minimum is armed once, like the maximum.
ArmTimers_MinOnce ==
    /\ minTimer' = IF minTimer = Nil THEN Min ELSE minTimer
    /\ maxTimer' = IF maxTimer = Nil THEN Max ELSE maxTimer

\* Seeded fault: each timer gets the duration of the other.
ArmTimers_Swapped ==
    /\ minTimer' = Max
    /\ maxTimer' = IF maxTimer = Nil THEN Min ELSE maxTimer

\* The minimum starts over with every arrival, the maximum only when it is nil.
ArmTimers ==
    /\ minTimer' = Min
    /\ maxTimer' = IF maxTimer = Nil THEN Max ELSE maxTimer

\* All data that is ready is received, and the timers are set up.
RecvData ==
    /\ pc = "select" /\ pending
    /\ pending' = FALSE
    /\ ArmTimers
    /\ unapplied' = TRUE
    /\ age' = IF unapplied THEN age ELSE 0
    /\ quiet' = 0
    /\ UNCHANGED <<pc, stale>>

\* Seeded fault: only the minimum is cleared.
ClearTimers_MinOnly == minTimer' = Nil /\ UNCHANGED maxTimer

ClearTimers == minTimer' = Nil /\ maxTimer' = Nil

\* Run begins, with all that was received.
BeginRun ==
    /\ pc' = "run"
    /\ unapplied' = FALSE
    /\ UNCHANGED <<pending, age, quiet>>

MinFires ==
    /\ pc = "select" /\ minTimer = 0
    /\ ClearTimers
    /\ BeginRun
    /\ stale' = FALSE

MaxFires ==
    /\ pc = "select" /\ maxTimer = 0
    /\ ClearTimers
    /\ BeginRun
    /\ stale' = FALSE

\* An error of a watcher, and the exit of the command, lead to Run as well, and
\* leave the timers as they are.
RecvErr ==
    /\ pc = "select"
    /\ BeginRun
    /\ stale' = (maxTimer # Nil)
    /\ UNCHANGED <<minTimer, maxTimer>>

RunEnds ==
    /\ pc = "run"
    /\ pc' = "select"
    /\ UNCHANGED <<pending, minTimer, maxTimer, unapplied, age, quiet, stale>>

\* A timer that expired stays ready to be received from.
Left(timer) == IF timer \in {Nil, 0} THEN timer ELSE timer - 1

\* Time passes, in Run or while no case of select is ready.
Tick ==
    /\ pc = "run" \/ (~pending /\ minTimer # 0 /\ maxTimer # 0)
    /\ minTimer' = Left(minTimer)
    /\ maxTimer' = Left(maxTimer)
    /\ age' = IF unapplied THEN age + 1 ELSE age
    /\ quiet' = IF quiet < Min THEN quiet + 1 ELSE quiet
    /\ UNCHANGED <<pc, pending, unapplied, stale>>

Fires == MinFires \/ MaxFires

Next == Arrive \/ RecvData \/ Fires \/ RecvErr \/ RunEnds \/ Tick

Spec == Init /\ [][Next]_vars

-----------------------------------------------------------------------------
\* Types.
TypeOK ==
    /\ pc \in {"select", "run"}
    /\ pending \in BOOLEAN
    /\ minTimer \in 0..Min \cup {Nil}
    /\ maxTimer \in 0..Max \cup {Nil}
    /\ unapplied \in BOOLEAN
    /\ age \in Nat
    /\ quiet \in 0..Min
    /\ stale \in BOOLEAN

\* The two timers are armed and cleared together (runner.go:171, :179), and data
\* that was received never lies there without one: it will be applied, even if
\* nothing else ever arrives.
UnappliedIsTimed ==
    /\ minTimer = Nil <=> maxTimer = Nil
    /\ unapplied => minTimer # Nil

\* However often data keeps arriving, and whatever errors come between, no data
\* received waits longer than wait.max to be applied (README.md:507).
NeverLate == unapplied => age <= Max

\* A timer leads to Run only after wait.min without data, or once some data has
\* waited for wait.max.  One case is left out: after an error has led to Run with
\* the timers armed, the maximum, which is for data applied since, may still fire.
\* The minimum may not, not even then.
QuietOrOverdue ==
    [][Fires => quiet >= Min \/ age >= Max \/ (stale /\ MaxFires)]_vars
=============================================================================
