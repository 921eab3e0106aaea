---------------------------- MODULE QuiescenceProofs ----------------------------
(* For all wait.min and wait.max: received data is applied in time and not    *)
(* too early.                                                                *)
EXTENDS Quiescence, TLAPS

\* The age of unapplied data and what is left of the maximum add up to at most
\* wait.max: exactly, unless the timers are those of data applied before.
MaxBounds ==
    /\ unapplied => maxTimer # Nil /\ age + maxTimer <= Max
    /\ maxTimer # Nil /\ ~stale => unapplied /\ age + maxTimer = Max

\* What is left of the minimum covers what quiet lacks of wait.min.
MinBounds == minTimer # Nil => quiet + minTimer >= Min

\* While Run is at work nothing is unapplied: timers still armed are stale.
RunIsCurrent == pc = "run" => ~unapplied

IInv == TypeOK /\ UnappliedIsTimed /\ MaxBounds /\ MinBounds /\ RunIsCurrent

LEMMA Initially == Init => IInv
<1> SUFFICES ASSUME Init PROVE IInv
  OBVIOUS
<1> USE QuiescenceAssumption DEF Init
<1>1. TypeOK
  <2>1. pending \in BOOLEAN /\ unapplied \in BOOLEAN /\ stale \in BOOLEAN
    BY Zenon
  <2>2. /\ pc \in {"select", "run"} /\ age \in Nat /\ quiet \in 0..Min
        /\ minTimer \in 0..Min \cup {Nil} /\ maxTimer \in 0..Max \cup {Nil}
    OBVIOUS
  <2> QED BY <2>1, <2>2 DEF TypeOK
<1>2. UnappliedIsTimed /\ MaxBounds /\ MinBounds /\ RunIsCurrent
  BY DEF UnappliedIsTimed, MaxBounds, MinBounds, RunIsCurrent
<1> QED BY <1>1, <1>2 DEF IInv

\* Receiving data starts the minimum over; the maximum is new, or covers older
\* data and then covers this too.
LEMMA RecvDataKeeps == IInv /\ RecvData => IInv'
<1> SUFFICES ASSUME IInv, RecvData PROVE IInv'
  OBVIOUS
<1> USE QuiescenceAssumption DEF RecvData, ArmTimers, IInv, TypeOK
<1>1. TypeOK'
  <2>1. pending' \in BOOLEAN /\ unapplied' \in BOOLEAN /\ stale' \in BOOLEAN
    BY Zenon
  <2>2. /\ pc' \in {"select", "run"} /\ age' \in Nat /\ quiet' \in 0..Min
        /\ minTimer' \in 0..Min \cup {Nil} /\ maxTimer' \in 0..Max \cup {Nil}
    OBVIOUS
  <2> QED BY <2>1, <2>2
<1>2. UnappliedIsTimed'
  BY DEF UnappliedIsTimed
<1>3. MaxBounds'
  BY DEF UnappliedIsTimed, MaxBounds
<1>4. MinBounds' /\ RunIsCurrent'
  BY DEF MinBounds, RunIsCurrent
<1> QED BY <1>1, <1>2, <1>3, <1>4

\* Run begins with everything received.
LEMMA BeginRunKeeps == IInv /\ (Fires \/ RecvErr) => IInv'
<1> SUFFICES ASSUME IInv, Fires \/ RecvErr PROVE IInv'
  OBVIOUS
<1>1. CASE Fires
  BY <1>1, QuiescenceAssumption
  DEF Fires, MinFires, MaxFires, ClearTimers, BeginRun, IInv, TypeOK,
      UnappliedIsTimed, MaxBounds, MinBounds, RunIsCurrent
<1>2. CASE RecvErr
  BY <1>2, QuiescenceAssumption
  DEF RecvErr, BeginRun, IInv, TypeOK, UnappliedIsTimed, MaxBounds, MinBounds,
      RunIsCurrent
<1> QED BY <1>1, <1>2

\* In select no armed timer is at zero when time passes; in Run nothing is
\* unapplied, so the maximum may stand at zero.
LEMMA TickKeeps == IInv /\ Tick => IInv'
<1> SUFFICES ASSUME IInv, Tick PROVE IInv'
  OBVIOUS
<1> USE QuiescenceAssumption
<1>1. TypeOK'
  BY DEF Tick, Left, IInv, TypeOK
<1>2. UnappliedIsTimed'
  BY DEF Tick, Left, IInv, TypeOK, UnappliedIsTimed
<1>3. MaxBounds'
  BY DEF Tick, Left, IInv, TypeOK, UnappliedIsTimed, MaxBounds, RunIsCurrent
<1>4. MinBounds'
  BY DEF Tick, Left, IInv, TypeOK, MinBounds
<1>5. RunIsCurrent'
  BY DEF Tick, IInv, RunIsCurrent
<1> QED BY <1>1, <1>2, <1>3, <1>4, <1>5 DEF IInv

LEMMA StepKeeps == IInv /\ [Next]_vars => IInv'
<1> SUFFICES ASSUME IInv, [Next]_vars PROVE IInv'
  OBVIOUS
<1>1. CASE Arrive
  BY <1>1 DEF Arrive, IInv, TypeOK, UnappliedIsTimed, MaxBounds, MinBounds, RunIsCurrent
<1>2. CASE RecvData
  BY <1>2, RecvDataKeeps
<1>3. CASE Fires \/ RecvErr
  BY <1>3, BeginRunKeeps
<1>4. CASE RunEnds
  BY <1>4 DEF RunEnds, IInv, TypeOK, UnappliedIsTimed, MaxBounds, MinBounds, RunIsCurrent
<1>5. CASE Tick
  BY <1>5, TickKeeps
<1>6. CASE UNCHANGED vars
  BY <1>6 DEF vars, IInv, TypeOK, UnappliedIsTimed, MaxBounds, MinBounds, RunIsCurrent
<1> QED BY <1>1, <1>2, <1>3, <1>4, <1>5, <1>6 DEF Next

LEMMA Invariance == Spec => []IInv
<1> QED BY Initially, StepKeeps, PTL DEF Spec

\* The timers stay within wait.min and wait.max, for any two values of them.
THEOREM TypeCorrect == Spec => []TypeOK
<1>1. IInv => TypeOK
  BY DEF IInv
<1> QED BY <1>1, Invariance, PTL

\* Received data never lies there without a timer (runner.go:171, :179).
THEOREM AlwaysTimed == Spec => []UnappliedIsTimed
<1>1. IInv => UnappliedIsTimed
  BY DEF IInv
<1> QED BY <1>1, Invariance, PTL

\* Received data waits at most wait.max, for every minimum and maximum and whatever
\* arrives when (README.md:507).
THEOREM InTime == Spec => []NeverLate
<1>1. IInv => NeverLate
  BY QuiescenceAssumption DEF IInv, TypeOK, MaxBounds, NeverLate
<1> QED BY <1>1, Invariance, PTL

\* No timer leads to Run early, except a maximum that an error left armed.
THEOREM NotEarly == Spec => QuietOrOverdue
<1>1. IInv /\ MinFires => quiet >= Min
  BY QuiescenceAssumption DEF MinFires, IInv, TypeOK, MinBounds
<1>2. IInv /\ MaxFires /\ ~stale => age >= Max
  BY QuiescenceAssumption DEF MaxFires, IInv, TypeOK, MaxBounds
<1>3. stale \/ ~stale
  OBVIOUS
<1>4. IInv /\ [Next]_vars
        => [Fires => quiet >= Min \/ age >= Max \/ (stale /\ MaxFires)]_vars
  BY <1>1, <1>2, <1>3, Zenon DEF Fires
<1> QED BY <1>4, Invariance, PTL DEF Spec, QuietOrOverdue
=============================================================================
