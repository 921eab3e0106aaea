------------------------------ MODULE ConfigProofs ------------------------------
(* What the loops of Config compute, for lists of every length.  Induction   *)
(* over the rounds of a loop is by a smallest round that goes wrong.          *)
EXTENDS Config, Integers, SequenceTheorems, WellFoundedInduction, TLAPS

-----------------------------------------------------------------------------
(* Sequences of anything.                                                    *)

IsSeq(s) == \E S : s \in Seq(S)

LEMMA SeqForm ==
    ASSUME NEW s, IsSeq(s)
    PROVE  /\ Len(s) \in Nat /\ DOMAIN s = 1..Len(s)
           /\ s = [i \in 1..Len(s) |-> s[i]]
           /\ s \in Seq(ToSet(s))
<1>1. PICK S : s \in Seq(S)
  BY DEF IsSeq
<1>2. Len(s) \in Nat /\ DOMAIN s = 1..Len(s) /\ s \in [1..Len(s) -> S]
  BY <1>1, LenProperties
<1>3. s = [i \in 1..Len(s) |-> s[i]]
  BY <1>2
<1>4. s \in Seq(ToSet(s))
  <2>1. s \in [1..Len(s) -> ToSet(s)]
    BY <1>2, <1>3 DEF ToSet
  <2>2. QED
    BY <2>1, <1>2, SeqDef
<1>5. QED
  BY <1>2, <1>3, <1>4

LEMMA TableIsSeq ==
    ASSUME NEW n \in Nat, NEW f, f = [i \in 1..n |-> f[i]]
    PROVE  IsSeq(f) /\ Len(f) = n /\ DOMAIN f = 1..n
<1>1. PICK S : S = {f[i] : i \in 1..n}
  OBVIOUS
<1>2. f \in [1..n -> S]
  BY <1>1
<1>3. f \in Seq(S)
  BY <1>2, SeqDef
<1>4. Len(f) \in Nat /\ DOMAIN f = 1..Len(f) /\ DOMAIN f = 1..n
  BY <1>2, <1>3, LenProperties
<1>5. QED
  BY <1>3, <1>4 DEF IsSeq

LEMMA SeqsEqual ==
    ASSUME NEW s, NEW t, IsSeq(s), IsSeq(t), Len(s) = Len(t),
           \A i \in 1..Len(s) : s[i] = t[i]
    PROVE  s = t
<1>1. s = [i \in 1..Len(s) |-> s[i]] /\ t = [i \in 1..Len(t) |-> t[i]]
  BY SeqForm
<1>2. QED
  BY <1>1

LEMMA Two ==
    ASSUME NEW s, NEW t, IsSeq(s), IsSeq(t)
    PROVE  \E S : s \in Seq(S) /\ t \in Seq(S)
<1>1. PICK S, T : s \in Seq(S) /\ t \in Seq(T)
  BY DEF IsSeq
<1>2. s \in Seq(S \cup T) /\ t \in Seq(S \cup T)
  BY <1>1, SeqMonotonic
<1>3. QED
  BY <1>2

\* Names for what the provers would otherwise rewrite.
Joins(s, t, u) == u = s \o t
Appends(s, e, u) == u = Append(s, e)

LEMMA Concatenation ==
    ASSUME NEW s, NEW t, NEW u, IsSeq(s), IsSeq(t), Joins(s, t, u)
    PROVE  /\ IsSeq(u) /\ Len(u) = Len(s) + Len(t)
           /\ \A i \in 1..Len(s) : u[i] = s[i]
           /\ \A i \in 1..Len(t) : u[Len(s) + i] = t[i]
           /\ \A i \in 1..Len(s) + Len(t) : u[i] = IF i <= Len(s) THEN s[i] ELSE t[i - Len(s)]
<1>1. PICK S : s \in Seq(S) /\ t \in Seq(S)
  BY Two
<1>2. Len(s) \in Nat /\ Len(t) \in Nat
  BY <1>1, LenProperties
<1>3. /\ u \in Seq(S) /\ Len(u) = Len(s) + Len(t)
      /\ \A i \in 1..Len(s) + Len(t) : u[i] = IF i <= Len(s) THEN s[i] ELSE t[i - Len(s)]
  BY <1>1, ConcatProperties DEF Joins
<1>4. ASSUME NEW i \in 1..Len(t) PROVE u[Len(s) + i] = t[i]
  BY <1>2, <1>3
<1>5. \A i \in 1..Len(s) : u[i] = s[i]
  BY <1>2, <1>3
<1>6. QED
  BY <1>3, <1>4, <1>5 DEF IsSeq

LEMMA Appended ==
    ASSUME NEW s, NEW e, NEW u, IsSeq(s), Appends(s, e, u)
    PROVE  /\ IsSeq(u) /\ Len(u) = Len(s) + 1
           /\ \A i \in 1..Len(s) : u[i] = s[i]
           /\ u[Len(s) + 1] = e
<1>1. PICK S : s \in Seq(S)
  BY DEF IsSeq
<1>2. s \in Seq(S \cup {e}) /\ e \in S \cup {e}
  BY <1>1, SeqMonotonic
<1>3. /\ u \in Seq(S \cup {e})
      /\ Len(u) = Len(s) + 1
      /\ \A i \in 1..Len(s) : u[i] = s[i]
      /\ u[Len(s) + 1] = e
  BY <1>2, AppendProperties DEF Appends
<1>4. QED
  BY <1>3 DEF IsSeq

\* The same, named.
IsJoined(s, t, u) ==
    /\ IsSeq(u) /\ Len(u) = Len(s) + Len(t)
    /\ \A i \in 1..Len(s) : u[i] = s[i]
    /\ \A i \in 1..Len(t) : u[Len(s) + i] = t[i]

IsAppended(s, e, u) ==
    /\ IsSeq(u) /\ Len(u) = Len(s) + 1
    /\ \A i \in 1..Len(s) : u[i] = s[i]
    /\ u[Len(s) + 1] = e

LEMMA JoinedForm ==
    ASSUME NEW s, NEW t, NEW u, IsSeq(s), IsSeq(t), Joins(s, t, u)
    PROVE  IsJoined(s, t, u)
BY Concatenation DEF IsJoined

LEMMA AppendedForm ==
    ASSUME NEW s, NEW e, NEW u, IsSeq(s), Appends(s, e, u)
    PROVE  IsAppended(s, e, u)
BY Appended DEF IsAppended

LEMMA Tuples ==
    /\ IsSeq(<<>>) /\ Len(<<>>) = 0
    /\ \A e : IsSeq(<<e>>) /\ Len(<<e>>) = 1 /\ <<e>>[1] = e
<1>1. <<>> \in Seq({}) /\ Len(<<>>) = 0
  BY EmptySeq
<1>2. ASSUME NEW e PROVE <<e>> \in Seq({e}) /\ Len(<<e>>) = 1 /\ <<e>>[1] = e
  OBVIOUS
<1>3. QED
  BY <1>1, <1>2 DEF IsSeq

LEMMA ConcatAssoc ==
    ASSUME NEW s, NEW t, NEW u, IsSeq(s), IsSeq(t), IsSeq(u)
    PROVE  (s \o t) \o u = s \o (t \o u)
<1>1. PICK S : s \in Seq(S) /\ t \in Seq(S)
  BY Two
<1>2. PICK T : u \in Seq(T)
  BY DEF IsSeq
<1>3. s \in Seq(S \cup T) /\ t \in Seq(S \cup T) /\ u \in Seq(S \cup T)
  BY <1>1, <1>2, SeqMonotonic
<1>4. QED
  BY <1>3, ConcatAssociative

LEMMA ConcatEmpty ==
    ASSUME NEW s, IsSeq(s)
    PROVE  s \o <<>> = s /\ <<>> \o s = s
BY ConcatEmptySeq DEF IsSeq

\* Induction over the natural numbers in a set.
LEMMA Induction ==
    ASSUME NEW S, 0 \in S, \A n \in Nat : n \in S => n + 1 \in S
    PROVE  Nat \subseteq S
<1> DEFINE T == Nat \ S
<1> SUFFICES ASSUME T # {} PROVE FALSE
  OBVIOUS
<1>1. PICK n \in T : \A m \in T : ~ (<<m, n>> \in OpToRel(<, Nat))
  BY WFMin, NatLessThanWellFounded, Zenon
<1>2. \A m \in T : ~(m < n)
  BY <1>1, Zenon DEF OpToRel
<1>3. QED
  BY <1>2

-----------------------------------------------------------------------------
(* The rounds of the loops.                                                  *)

\* What has been merged after each of the first n configurations.
Merged(configs, n, m) ==
    m = [i \in 0..n |-> IF i = 0 THEN Empty ELSE Merge(m[i - 1], configs[i])]

LEMMA MergedExists ==
    ASSUME NEW configs, NEW n \in Nat
    PROVE  \E m : Merged(configs, n, m)
<1> DEFINE S == {k \in Nat : \E m : Merged(configs, k, m)}
<1>1. 0 \in S
  <2>1. Merged(configs, 0, [i \in 0..0 |-> Empty])
    BY DEF Merged
  <2>2. QED
    BY <2>1
<1>2. ASSUME NEW k \in Nat, k \in S PROVE k + 1 \in S
  <2>1. PICK m : Merged(configs, k, m)
    BY <1>2
  <2>2. PICK h : h = [i \in 0..k + 1 |-> IF i <= k THEN m[i] ELSE Merge(m[k], configs[k + 1])]
    OBVIOUS
  <2>3. \A i \in 0..k : m[i] = IF i = 0 THEN Empty ELSE Merge(m[i - 1], configs[i])
    BY <2>1 DEF Merged
  <2>4. \A i \in 0..k + 1 : h[i] = IF i = 0 THEN Empty ELSE Merge(h[i - 1], configs[i])
    BY <2>2, <2>3
  <2>5. Merged(configs, k + 1, h)
    BY <2>2, <2>4 DEF Merged
  <2>6. QED
    BY <2>5
<1>3. n \in S
  <2> HIDE DEF S
  <2> QED BY <1>1, <1>2, Induction
<1>4. QED
  BY <1>3

LEMMA MergeAllRounds ==
    ASSUME NEW configs, IsSeq(configs)
    PROVE  \E m : /\ MergeAll(configs) = m[Len(configs)]
                  /\ m[0] = Empty
                  /\ \A i \in 1..Len(configs) : m[i] = Merge(m[i - 1], configs[i])
<1>1. Len(configs) \in Nat
  BY SeqForm
<1>2. \E m : Merged(configs, Len(configs), m)
  BY <1>1, MergedExists
<1>3. PICK m : Merged(configs, Len(configs), m) /\ MergeAll(configs) = m[Len(configs)]
  BY <1>2, Zenon DEF MergeAll, Merged
<1>4. \A i \in 0..Len(configs) : m[i] = IF i = 0 THEN Empty ELSE Merge(m[i - 1], configs[i])
  BY <1>3 DEF Merged
<1>5. QED
  BY <1>1, <1>3, <1>4

\* What has been joined after each of the first n sequences.
Joined(seqs, n, m) ==
    m = [i \in 1..n |-> IF i = 1 THEN seqs[i] ELSE m[i - 1] \o seqs[i]]

LEMMA JoinedExists ==
    ASSUME NEW seqs, NEW n \in Nat
    PROVE  \E m : Joined(seqs, n, m)
<1> DEFINE S == {k \in Nat : \E m : Joined(seqs, k, m)}
<1>1. 0 \in S
  <2>1. Joined(seqs, 0, [i \in 1..0 |-> <<>>])
    BY DEF Joined
  <2>2. QED
    BY <2>1
<1>2. ASSUME NEW k \in Nat, k \in S PROVE k + 1 \in S
  <2>1. PICK m : Joined(seqs, k, m)
    BY <1>2
  <2>2. PICK h : h = [i \in 1..k + 1 |->
                       IF i <= k THEN m[i] ELSE IF i = 1 THEN seqs[1] ELSE m[k] \o seqs[k + 1]]
    OBVIOUS
  <2>3. \A i \in 1..k : m[i] = IF i = 1 THEN seqs[i] ELSE m[i - 1] \o seqs[i]
    BY <2>1 DEF Joined
  <2>4. \A i \in 1..k + 1 : h[i] = IF i = 1 THEN seqs[i] ELSE h[i - 1] \o seqs[i]
    BY <2>2, <2>3
  <2>5. Joined(seqs, k + 1, h)
    BY <2>2, <2>4 DEF Joined
  <2>6. QED
    BY <2>5
<1>3. n \in S
  <2> HIDE DEF S
  <2> QED BY <1>1, <1>2, Induction
<1>4. QED
  BY <1>3

LEMMA FlattenSeqRounds ==
    ASSUME NEW seqs, IsSeq(seqs), \A i \in 1..Len(seqs) : IsSeq(seqs[i])
    PROVE  \E m : /\ FlattenSeq(seqs) = m[Len(seqs)]
                  /\ m[0] = <<>>
                  /\ \A i \in 1..Len(seqs) : m[i] = m[i - 1] \o seqs[i]
<1>1. Len(seqs) \in Nat /\ seqs = [i \in 1..Len(seqs) |-> seqs[i]]
  BY SeqForm
<1>2. CASE Len(seqs) = 0
  <2>1. FlattenSeq(seqs) = <<>>
    BY <1>1, <1>2, SeqsEqual, Tuples DEF FlattenSeq
  <2>2. PICK m : m = [i \in {0} |-> <<>>]
    OBVIOUS
  <2>3. QED
    BY <1>2, <2>1, <2>2
<1>3. CASE Len(seqs) # 0
  <2>1. \E m : Joined(seqs, Len(seqs), m)
    BY <1>1, JoinedExists
  <2>2. PICK f : Joined(seqs, Len(seqs), f) /\ FlattenSeq(seqs) = f[Len(seqs)]
    BY <1>3, <2>1, Zenon DEF FlattenSeq, Joined
  <2>3. \A i \in 1..Len(seqs) : f[i] = IF i = 1 THEN seqs[i] ELSE f[i - 1] \o seqs[i]
    BY <2>2 DEF Joined
  <2>4. PICK m : m = [i \in 0..Len(seqs) |-> IF i = 0 THEN <<>> ELSE f[i]]
    OBVIOUS
  <2>5. m[0] = <<>> /\ \A i \in 1..Len(seqs) : m[i] = f[i]
    BY <1>1, <2>4
  <2>6. ASSUME NEW i \in 1..Len(seqs) PROVE m[i] = m[i - 1] \o seqs[i]
    <3>1. i \in Nat /\ m[i] = f[i] /\ IsSeq(seqs[i])
      BY <1>1, <2>5
    <3>2. CASE i = 1
      <4>1. f[i] = seqs[i] /\ i - 1 = 0
        BY <2>3, <3>2
      <4>2. <<>> \o seqs[i] = seqs[i]
        BY <3>1, ConcatEmpty
      <4>3. m[i - 1] = <<>>
        BY <2>5, <4>1, Zenon
      <4>4. QED
        BY <3>1, <4>1, <4>2, <4>3, Zenon
    <3>3. CASE i # 1
      <4>1. i - 1 \in 1..Len(seqs) /\ f[i] = f[i - 1] \o seqs[i]
        <5>1. i - 1 \in 1..Len(seqs)
          BY <1>1, <3>3
        <5>2. QED
          BY <2>3, <3>3, <5>1
      <4>2. QED
        BY <2>5, <3>1, <4>1
    <3>4. QED
      BY <3>2, <3>3
  <2>7. QED
    BY <1>1, <1>3, <2>2, <2>5, <2>6
<1>4. QED
  BY <1>2, <1>3

\* The array before, and after each of the first n rounds of the loop of Finalize.
Uncompacted(list) == [list |-> list, good |-> 0, done |-> {}]

Compacted(list, pathless, n, m) ==
    m = [i \in 0..n |-> IF i = 0 THEN Uncompacted(list)
                        ELSE CompactStep(m[i - 1], i, pathless)]

LEMMA CompactedExists ==
    ASSUME NEW list, NEW pathless, NEW n \in Nat
    PROVE  \E m : Compacted(list, pathless, n, m)
<1> DEFINE S == {k \in Nat : \E m : Compacted(list, pathless, k, m)}
<1>1. 0 \in S
  <2>1. Compacted(list, pathless, 0, [i \in 0..0 |-> Uncompacted(list)])
    BY DEF Compacted
  <2>2. QED
    BY <2>1
<1>2. ASSUME NEW k \in Nat, k \in S PROVE k + 1 \in S
  <2>1. PICK m : Compacted(list, pathless, k, m)
    BY <1>2
  <2>2. PICK h : h = [i \in 0..k + 1 |->
                       IF i <= k THEN m[i] ELSE CompactStep(m[k], k + 1, pathless)]
    OBVIOUS
  <2>3. \A i \in 0..k : m[i] = IF i = 0 THEN Uncompacted(list)
                               ELSE CompactStep(m[i - 1], i, pathless)
    BY <2>1 DEF Compacted
  <2>4. \A i \in 0..k + 1 : h[i] = IF i = 0 THEN Uncompacted(list)
                                   ELSE CompactStep(h[i - 1], i, pathless)
    BY <2>2, <2>3
  <2>5. Compacted(list, pathless, k + 1, h)
    BY <2>2, <2>4 DEF Compacted
  <2>6. QED
    BY <2>5
<1>3. n \in S
  <2> HIDE DEF S
  <2> QED BY <1>1, <1>2, Induction
<1>4. QED
  BY <1>3

LEMMA CompactRounds ==
    ASSUME NEW list, NEW pathless, IsSeq(list)
    PROVE  \E m : /\ Compact(list, pathless) = m[Len(list)]
                  /\ m[0] = Uncompacted(list)
                  /\ \A i \in 1..Len(list) : m[i] = CompactStep(m[i - 1], i, pathless)
<1>1. Len(list) \in Nat
  BY SeqForm
<1>2. \E m : Compacted(list, pathless, Len(list), m)
  BY <1>1, CompactedExists
<1>3. PICK m : /\ Compacted(list, pathless, Len(list), m)
               /\ Compact(list, pathless) = m[Len(list)]
  BY <1>2, Zenon DEF Compact, Compacted, Uncompacted
<1>4. \A i \in 0..Len(list) :
          m[i] = IF i = 0 THEN Uncompacted(list)
                 ELSE CompactStep(m[i - 1], i, pathless)
  BY <1>3 DEF Compacted
<1>5. QED
  BY <1>1, <1>3, <1>4

-----------------------------------------------------------------------------
(* Induction over rounds, and over sequences.                                *)

LEMMA RoundInduction ==
    ASSUME NEW n \in Nat, NEW S, 0 \in S, \A i \in 1..n : i - 1 \in S => i \in S
    PROVE  \A i \in 0..n : i \in S
<1> DEFINE T == {i \in Nat : i <= n => i \in S}
<1>1. 0 \in T
  OBVIOUS
<1>2. ASSUME NEW i \in Nat, i \in T PROVE i + 1 \in T
  <2>1. SUFFICES ASSUME i + 1 <= n PROVE i + 1 \in S
    OBVIOUS
  <2>2. i + 1 \in 1..n /\ (i + 1) - 1 = i /\ i \in S
    BY <1>2, <2>1
  <2>3. QED
    BY <2>2
<1>3. Nat \subseteq T
  <2> HIDE DEF T
  <2> QED BY <1>1, <1>2, Induction
<1>4. QED
  BY <1>3

LEMMA RoundsAgree ==
    ASSUME NEW n \in Nat, NEW m, NEW h, m[0] = h[0],
           \A i \in 1..n : m[i - 1] = h[i - 1] => m[i] = h[i]
    PROVE  \A i \in 0..n : m[i] = h[i]
<1> DEFINE S == {i \in 0..n : m[i] = h[i]}
<1>1. 0 \in S
  OBVIOUS
<1>2. ASSUME NEW i \in 1..n, i - 1 \in S PROVE i \in S
  BY <1>2
<1>3. \A i \in 0..n : i \in S
  <2> HIDE DEF S
  <2> QED BY <1>1, <1>2, RoundInduction
<1>4. QED
  BY <1>3

\* A sequence that is not empty, without its last element.
LEMMA LastOf ==
    ASSUME NEW s, NEW n \in Nat, IsSeq(s), Len(s) = n + 1
    PROVE  \E t : /\ IsSeq(t) /\ Len(t) = n /\ s = Append(t, s[n + 1])
                  /\ \A i \in 1..n : t[i] = s[i]
<1>1. PICK t : t = [i \in 1..n |-> s[i]]
  OBVIOUS
<1>2. \A i \in 1..n : t[i] = s[i]
  BY <1>1
<1>3. IsSeq(t) /\ Len(t) = n
  BY <1>1, <1>2, TableIsSeq
<1>4. s = Append(t, s[n + 1])
  <2>1. PICK u : Appends(t, s[n + 1], u)
    BY DEF Appends
  <2>2. /\ IsSeq(u) /\ Len(u) = Len(t) + 1
        /\ \A i \in 1..Len(t) : u[i] = t[i]
        /\ u[Len(t) + 1] = s[n + 1]
    BY <1>3, <2>1, Appended
  <2>3. Len(u) = Len(s) /\ \A i \in 1..Len(s) : s[i] = u[i]
    BY <1>2, <1>3, <2>2
  <2>4. s = u
    BY <2>2, <2>3, SeqsEqual
  <2>5. QED
    BY <2>1, <2>4, Zenon DEF Appends
<1>5. QED
  BY <1>2, <1>3, <1>4

-----------------------------------------------------------------------------
(* Joining sequences.                                                        *)

AllSeqs(seqs) == IsSeq(seqs) /\ \A i \in 1..Len(seqs) : IsSeq(seqs[i])

LEMMA FlattenEmpty ==
    ASSUME NEW seqs, IsSeq(seqs), Len(seqs) = 0
    PROVE  FlattenSeq(seqs) = <<>>
BY SeqsEqual, Tuples DEF FlattenSeq

LEMMA FlattenAppend ==
    ASSUME NEW seqs, NEW s, AllSeqs(seqs), IsSeq(s)
    PROVE  /\ AllSeqs(Append(seqs, s))
           /\ FlattenSeq(Append(seqs, s)) = FlattenSeq(seqs) \o s
<1> DEFINE n == Len(seqs)
           more == Append(seqs, s)
<1>0. Appends(seqs, s, more)
  BY DEF Appends
<1>1. n \in Nat /\ IsSeq(seqs)
  BY SeqForm DEF AllSeqs
<1>a. /\ IsSeq(more) /\ Len(more) = n + 1
      /\ \A i \in 1..n : more[i] = seqs[i]
      /\ more[n + 1] = s
  BY <1>0, <1>1, Appended
<1> HIDE DEF more
<1>2. \A i \in 1..n + 1 : IsSeq(more[i])
  BY <1>1, <1>a DEF AllSeqs
<1>3. PICK m : /\ FlattenSeq(seqs) = m[n]
               /\ m[0] = <<>>
               /\ \A i \in 1..n : m[i] = m[i - 1] \o seqs[i]
  BY FlattenSeqRounds, Zenon DEF AllSeqs
<1>4. PICK h : /\ FlattenSeq(more) = h[n + 1]
               /\ h[0] = <<>>
               /\ \A i \in 1..n + 1 : h[i] = h[i - 1] \o more[i]
  <2>1. \A i \in 1..Len(more) : IsSeq(more[i])
    BY <1>a, <1>2
  <2>2. PICK h : /\ FlattenSeq(more) = h[Len(more)]
                 /\ h[0] = <<>>
                 /\ \A i \in 1..Len(more) : h[i] = h[i - 1] \o more[i]
    BY <1>a, <2>1, FlattenSeqRounds, Zenon
  <2>3. Len(more) = n + 1
    BY <1>a
  <2>4. QED
    BY <2>2, <2>3, Zenon
<1> HIDE DEF n
<1>5. \A i \in 0..n : m[i] = h[i]
  <2>1. ASSUME NEW i \in 1..n, m[i - 1] = h[i - 1] PROVE m[i] = h[i]
    <3>1. i \in 1..n + 1
      BY <1>1
    <3>2. m[i] = m[i - 1] \o seqs[i] /\ h[i] = h[i - 1] \o more[i] /\ more[i] = seqs[i]
      BY <1>a, <1>3, <1>4, <3>1, Zenon
    <3>3. QED
      BY <2>1, <3>2, Zenon
  <2>2. m[0] = h[0]
    BY <1>3, <1>4, Zenon
  <2>3. QED
    BY <1>1, <2>1, <2>2, RoundsAgree
<1>6. h[n] = m[n]
  BY <1>1, <1>5
<1>7. h[n + 1] = h[n] \o s
  <2>1. n + 1 \in 1..n + 1 /\ (n + 1) - 1 = n
    BY <1>1
  <2>2. h[n + 1] = h[(n + 1) - 1] \o more[n + 1]
    BY <1>4, <2>1, Zenon
  <2>3. QED
    BY <1>a, <2>1, <2>2
<1>8. QED
  <2>1. FlattenSeq(more) = FlattenSeq(seqs) \o s
    BY <1>3, <1>4, <1>6, <1>7, Zenon
  <2>2. QED
    BY <1>a, <1>2, <2>1, Zenon DEF AllSeqs, more

LEMMA FlattenIsSeq ==
    ASSUME NEW seqs, AllSeqs(seqs)
    PROVE  IsSeq(FlattenSeq(seqs))
<1> DEFINE n == Len(seqs)
<1>1. n \in Nat
  BY SeqForm DEF AllSeqs
<1>2. PICK m : /\ FlattenSeq(seqs) = m[n]
               /\ m[0] = <<>>
               /\ \A i \in 1..n : m[i] = m[i - 1] \o seqs[i]
  BY FlattenSeqRounds DEF AllSeqs
<1>3. \A i \in 1..n : IsSeq(seqs[i])
  BY DEF AllSeqs
<1> HIDE DEF n
<1> DEFINE S == {i \in 0..n : IsSeq(m[i])}
<1>4. 0 \in S
  BY <1>1, <1>2, Tuples
<1>5. ASSUME NEW i \in 1..n, i - 1 \in S PROVE i \in S
  <2>1. i \in 0..n /\ IsSeq(m[i - 1]) /\ IsSeq(seqs[i])
    BY <1>1, <1>3, <1>5
  <2>2. IsSeq(m[i])
    <3>1. Joins(m[i - 1], seqs[i], m[i])
      BY <1>2, Zenon DEF Joins
    <3>2. QED
      BY <2>1, <3>1, Concatenation, Zenon
  <2>3. QED
    BY <2>1, <2>2
<1>6. n \in S
  <2> HIDE DEF S
  <2>1. \A i \in 0..n : i \in S
    BY <1>1, <1>4, <1>5, RoundInduction
  <2>2. QED
    BY <1>1, <2>1
<1>7. QED
  BY <1>2, <1>6

\* Where the elements of the joined sequences come from, and that none is lost.
LEMMA FlattenElements ==
    ASSUME NEW seqs, AllSeqs(seqs)
    PROVE  /\ \A i \in 1..Len(FlattenSeq(seqs)) :
                 \E j \in 1..Len(seqs) : \E l \in 1..Len(seqs[j]) :
                     FlattenSeq(seqs)[i] = seqs[j][l]
           /\ \A j \in 1..Len(seqs) : \A l \in 1..Len(seqs[j]) :
                 \E i \in 1..Len(FlattenSeq(seqs)) : FlattenSeq(seqs)[i] = seqs[j][l]
<1> DEFINE n == Len(seqs)
<1>1. n \in Nat
  BY SeqForm DEF AllSeqs
<1>2. PICK m : /\ FlattenSeq(seqs) = m[n]
               /\ m[0] = <<>>
               /\ \A i \in 1..n : m[i] = m[i - 1] \o seqs[i]
  BY FlattenSeqRounds DEF AllSeqs
<1>3. \A i \in 1..n : IsSeq(seqs[i])
  BY DEF AllSeqs
<1> HIDE DEF n
<1> DEFINE From(r, u) == \A i \in 1..Len(u) :
                 \E j \in 1..r : \E l \in 1..Len(seqs[j]) : u[i] = seqs[j][l]
           Into(r, u) == \A j \in 1..r : \A l \in 1..Len(seqs[j]) :
                 \E i \in 1..Len(u) : u[i] = seqs[j][l]
           S == {r \in 0..n : IsSeq(m[r]) /\ From(r, m[r]) /\ Into(r, m[r])}
<1>4. 0 \in S
  BY <1>1, <1>2, Tuples
<1>5. ASSUME NEW r \in 1..n, r - 1 \in S PROVE r \in S
  <2>1. PICK p, q, u : p = m[r - 1] /\ q = seqs[r] /\ u = m[r]
    OBVIOUS
  <2>2. IsSeq(p) /\ From(r - 1, p) /\ Into(r - 1, p) /\ IsSeq(q)
    BY <1>3, <1>5, <2>1
  <2>3. Joins(p, q, u)
    BY <1>2, <2>1, Zenon DEF Joins
  <2>4. /\ IsSeq(u) /\ Len(u) = Len(p) + Len(q)
        /\ Len(p) \in Nat /\ Len(q) \in Nat
        /\ \A i \in 1..Len(p) : u[i] = p[i]
        /\ \A i \in 1..Len(q) : u[Len(p) + i] = q[i]
        /\ \A i \in 1..Len(p) + Len(q) : u[i] = IF i <= Len(p) THEN p[i] ELSE q[i - Len(p)]
    <3> HIDE DEF From, Into
    <3>1. IsSeq(p) /\ IsSeq(q)
      BY <2>2
    <3>2. QED
      BY <2>3, <3>1, Concatenation, SeqForm
  <2>5. ASSUME NEW i \in 1..Len(u)
        PROVE  \E j \in 1..r : \E l \in 1..Len(seqs[j]) : u[i] = seqs[j][l]
    <3>1. CASE i <= Len(p)
      <4>1. u[i] = p[i] /\ i \in 1..Len(p)
        BY <2>4, <3>1
      <4>2. PICK j \in 1..r - 1 : \E l \in 1..Len(seqs[j]) : p[i] = seqs[j][l]
        BY <2>2, <4>1
      <4>3. j \in 1..r
        BY <1>1
      <4>4. QED
        BY <4>1, <4>2, <4>3
    <3>2. CASE i > Len(p)
      <4>1. i - Len(p) \in 1..Len(q) /\ u[i] = q[i - Len(p)]
        BY <2>4, <3>2
      <4>2. r \in 1..r
        BY <1>1
      <4>3. QED
        BY <2>1, <4>1, <4>2, Zenon
    <3>3. QED
      BY <2>4, <3>1, <3>2
  <2>6. ASSUME NEW j \in 1..r, NEW l \in 1..Len(seqs[j])
        PROVE  \E i \in 1..Len(u) : u[i] = seqs[j][l]
    <3>1. CASE j = r
      <4>a. l \in 1..Len(q)
        BY <2>1, <3>1, Zenon
      <4>1. l \in 1..Len(q) /\ Len(p) + l \in 1..Len(u)
        BY <2>4, <4>a
      <4>2. u[Len(p) + l] = q[l]
        BY <2>4, <4>1
      <4>3. QED
        BY <2>1, <3>1, <4>1, <4>2
    <3>2. CASE j # r
      <4>1. j \in 1..r - 1
        BY <1>1, <3>2
      <4>2. PICK i \in 1..Len(p) : p[i] = seqs[j][l]
        BY <2>2, <4>1
      <4>3. i \in 1..Len(u) /\ u[i] = p[i]
        BY <2>4
      <4>4. QED
        BY <4>2, <4>3
    <3>3. QED
      BY <3>1, <3>2
  <2>7. From(r, u) /\ Into(r, u)
    BY <2>5, <2>6
  <2>8. r \in 0..n /\ IsSeq(u)
    BY <1>1, <2>4
  <2>9. QED
    BY <2>1, <2>7, <2>8, Zenon
<1>6. n \in S
  <2> HIDE DEF S
  <2>1. \A i \in 0..n : i \in S
    BY <1>1, <1>4, <1>5, RoundInduction
  <2>2. QED
    BY <1>1, <2>1
<1>7. From(n, m[n]) /\ Into(n, m[n])
  BY <1>6
<1>8. QED
  BY <1>2, <1>7 DEF n

\* What v has of a sequence u, each element replaced.
Image(u, v, G) == Len(v) = Len(u) /\ \A i \in 1..Len(u) : v[i] = G[u[i]]

\* Joined after each element was replaced, or replaced when they are joined.
LEMMA FlattenMap ==
    ASSUME NEW seqs, NEW mapped, NEW G, AllSeqs(seqs), AllSeqs(mapped),
           Len(mapped) = Len(seqs), \A i \in 1..Len(seqs) : Image(seqs[i], mapped[i], G)
    PROVE  Image(FlattenSeq(seqs), FlattenSeq(mapped), G)
<1> DEFINE n == Len(seqs)
<1>1. n \in Nat /\ Len(mapped) = n /\ \A i \in 1..n : IsSeq(seqs[i]) /\ IsSeq(mapped[i])
  BY SeqForm DEF AllSeqs
<1>2. PICK m : /\ FlattenSeq(seqs) = m[n]
               /\ m[0] = <<>>
               /\ \A i \in 1..n : m[i] = m[i - 1] \o seqs[i]
  BY FlattenSeqRounds, Zenon DEF AllSeqs
<1>3. PICK h : /\ FlattenSeq(mapped) = h[n]
               /\ h[0] = <<>>
               /\ \A i \in 1..n : h[i] = h[i - 1] \o mapped[i]
  <2>1. PICK h : /\ FlattenSeq(mapped) = h[Len(mapped)]
                 /\ h[0] = <<>>
                 /\ \A i \in 1..Len(mapped) : h[i] = h[i - 1] \o mapped[i]
    BY FlattenSeqRounds, Zenon DEF AllSeqs
  <2>2. QED
    BY <1>1, <2>1
<1>4. \A i \in 1..n : Image(seqs[i], mapped[i], G)
  OBVIOUS
<1> HIDE DEF n
<1> DEFINE Fine(u, v) == IsSeq(u) /\ IsSeq(v) /\ Image(u, v, G)
           S == {r \in 0..n : Fine(m[r], h[r])}
<1>5. 0 \in S
  BY <1>1, <1>2, <1>3, Tuples DEF Image
<1>6. ASSUME NEW r \in 1..n, r - 1 \in S PROVE r \in S
  <2>1. PICK p, q, u : p = m[r - 1] /\ q = seqs[r] /\ u = m[r]
    OBVIOUS
  <2>2. PICK pp, qq, uu : pp = h[r - 1] /\ qq = mapped[r] /\ uu = h[r]
    OBVIOUS
  <2>3. Joins(p, q, u) /\ Joins(pp, qq, uu)
    BY <1>2, <1>3, <2>1, <2>2, Zenon DEF Joins
  <2>4. Fine(p, pp)
    BY <1>6, <2>1, <2>2
  <2>5. Fine(q, qq)
    BY <1>1, <1>4, <2>1, <2>2
  <2>6. Fine(u, uu)
    <3>1. /\ IsSeq(u) /\ Len(u) = Len(p) + Len(q)
          /\ \A i \in 1..Len(p) + Len(q) : u[i] = IF i <= Len(p) THEN p[i] ELSE q[i - Len(p)]
      BY <2>3, <2>4, <2>5, Concatenation
    <3>2. /\ IsSeq(uu) /\ Len(uu) = Len(pp) + Len(qq)
          /\ \A i \in 1..Len(pp) + Len(qq) :
                uu[i] = IF i <= Len(pp) THEN pp[i] ELSE qq[i - Len(pp)]
      BY <2>3, <2>4, <2>5, Concatenation
    <3>3. Len(p) \in Nat /\ Len(q) \in Nat
      BY <2>4, <2>5, SeqForm
    <3>4. ASSUME NEW i \in 1..Len(u) PROVE uu[i] = G[u[i]]
      <4>1. CASE i <= Len(p)
        BY <2>4, <3>1, <3>2, <3>3, <3>4, <4>1 DEF Image
      <4>2. CASE i > Len(p)
        <5>1. i - Len(p) \in 1..Len(q) /\ u[i] = q[i - Len(p)] /\ uu[i] = qq[i - Len(p)]
          BY <2>4, <2>5, <3>1, <3>2, <3>3, <4>2 DEF Image
        <5>2. QED
          BY <2>5, <5>1 DEF Image
      <4>3. QED
        BY <3>1, <3>3, <4>1, <4>2
    <3>5. QED
      BY <2>4, <2>5, <3>1, <3>2, <3>4 DEF Image
  <2>7. r \in 0..n
    BY <1>1
  <2>8. QED
    <3> HIDE DEF Fine
    <3> QED BY <2>1, <2>2, <2>6, <2>7, Zenon
<1>7. n \in S
  <2> HIDE DEF S
  <2>1. \A i \in 0..n : i \in S
    BY <1>1, <1>5, <1>6, RoundInduction
  <2>2. QED
    BY <1>1, <2>1
<1>8. Image(m[n], h[n], G)
  BY <1>7
<1>9. QED
  BY <1>2, <1>3, <1>8 DEF n

-----------------------------------------------------------------------------
(* Compacting.                                                               *)

Array(L, g, D) == [list |-> L, good |-> g, done |-> D]

\* The list keeps its length and loses or repeats only what it had, and only
\* entries of the list are finalized.
LEMMA CompactKeeps ==
    ASSUME NEW list, NEW pathless, IsSeq(list)
    PROVE  /\ IsSeq(Compact(list, pathless).list)
           /\ Len(Compact(list, pathless).list) = Len(list)
           /\ \A i \in 1..Len(list) : Compact(list, pathless).list[i] \in ToSet(list)
           /\ Compact(list, pathless).done \subseteq ToSet(list)
<1> DEFINE n == Len(list)
           E == ToSet(list)
<1>1. n \in Nat /\ \A i \in 1..n : list[i] \in E
  BY SeqForm DEF ToSet
<1>2. PICK m : /\ Compact(list, pathless) = m[n]
               /\ m[0] = Uncompacted(list)
               /\ \A i \in 1..n : m[i] = CompactStep(m[i - 1], i, pathless)
  BY CompactRounds, Zenon
<1> HIDE DEF n, E
<1> DEFINE Fine(r, L, g, D) == /\ IsSeq(L) /\ Len(L) = n /\ \A i \in 1..n : L[i] \in E
                               /\ g \in 0..r /\ D \subseteq E
           S == {r \in 0..n : \E L, g, D : /\ m[r] = Array(L, g, D)
                                           /\ Fine(r, L, g, D)}
<1>3. 0 \in S
  <2>1. Fine(0, list, 0, {})
    BY <1>1 DEF n
  <2>2. m[0] = Array(list, 0, {})
    BY <1>2 DEF Uncompacted, Array
  <2>3. QED
    <3> HIDE DEF Fine
    <3> QED BY <1>1, <2>1, <2>2
<1>4. ASSUME NEW r \in 1..n, r - 1 \in S PROVE r \in S
  <2>1. PICK L, g, D : /\ m[r - 1] = Array(L, g, D)
                       /\ Fine(r - 1, L, g, D)
    BY <1>4
  <2>2. r \in 0..n /\ r \in Nat
    BY <1>1
  <2>3. m[r] = CompactStep(Array(L, g, D), r, pathless)
    BY <1>2, <2>1
  <2>4. CASE L[r] \in pathless
    <3>1. PICK M : M = Closed(L, g + 1, Len(L) - (r - 1 - g))
      OBVIOUS
    <3>2. m[r] = Array(M, g, D)
      BY <2>3, <2>4, <3>1 DEF CompactStep, Array
    <3>3. DOMAIN L = 1..n
      BY <2>1, SeqForm
    <3>4. M = [j \in 1..n |-> IF g + 1 <= j /\ j < n - (r - 1 - g) THEN L[j + 1] ELSE L[j]]
      BY <2>1, <3>1, <3>3 DEF Closed
    <3>5. ASSUME NEW j \in 1..n PROVE M[j] \in E
      <4>1. CASE g + 1 <= j /\ j < n - (r - 1 - g)
        <5>1. j + 1 \in 1..n
          BY <1>1, <2>1, <2>2, <4>1
        <5>2. QED
          BY <2>1, <3>4, <4>1, <5>1
      <4>2. CASE ~(g + 1 <= j /\ j < n - (r - 1 - g))
        BY <2>1, <3>4, <4>2
      <4>3. QED
        BY <4>1, <4>2
    <3>6. M = [j \in 1..n |-> M[j]]
      BY <3>4
    <3>7. IsSeq(M) /\ Len(M) = n
      BY <1>1, <3>6, TableIsSeq
    <3>8. Fine(r, M, g, D)
      BY <2>1, <2>2, <3>5, <3>7
    <3>9. QED
      BY <2>2, <3>2, <3>8
  <2>5. CASE L[r] \notin pathless
    <3>1. m[r] = Array(L, g + 1, D \cup {L[r]})
      BY <2>3, <2>5 DEF CompactStep, Array
    <3>2. Fine(r, L, g + 1, D \cup {L[r]})
      BY <2>1, <2>2
    <3>3. QED
      BY <2>2, <3>1, <3>2
  <2>6. QED
    BY <2>4, <2>5
<1>5. n \in S
  <2> HIDE DEF S
  <2>1. \A i \in 0..n : i \in S
    BY <1>1, <1>3, <1>4, RoundInduction
  <2>2. QED
    BY <1>1, <2>1
<1>6. PICK L, g, D : m[n] = Array(L, g, D) /\ Fine(n, L, g, D)
  BY <1>5
<1>7. QED
  BY <1>2, <1>6 DEF Array, n, E

\* When every entry has a path the list stays, and all of it is finalized.
LEMMA CompactNothing ==
    ASSUME NEW list, IsSeq(list)
    PROVE  /\ Compact(list, {}).list = list
           /\ Compact(list, {}).done = ToSet(list)
<1> DEFINE n == Len(list)
<1>1. n \in Nat /\ DOMAIN list = 1..n
  BY SeqForm
<1>2. PICK m : /\ Compact(list, {}) = m[n]
               /\ m[0] = Uncompacted(list)
               /\ \A i \in 1..n : m[i] = CompactStep(m[i - 1], i, {})
  BY CompactRounds, Zenon
<1> HIDE DEF n
<1> DEFINE S == {r \in 0..n : \E D : /\ m[r] = Array(list, r, D)
                                     /\ \A i \in 1..r : list[i] \in D}
<1>3. 0 \in S
  <2>1. m[0] = Array(list, 0, {})
    BY <1>2 DEF Uncompacted, Array
  <2>2. QED
    BY <1>1, <2>1
<1>4. ASSUME NEW r \in 1..n, r - 1 \in S PROVE r \in S
  <2>1. PICK D : /\ m[r - 1] = Array(list, r - 1, D)
                 /\ \A i \in 1..r - 1 : list[i] \in D
    BY <1>4
  <2>2. m[r] = CompactStep(Array(list, r - 1, D), r, {})
    BY <1>2, <2>1
  <2>3. m[r] = Array(list, (r - 1) + 1, D \cup {list[r]})
    BY <2>2 DEF CompactStep, Array
  <2>4. (r - 1) + 1 = r /\ r \in 0..n
    BY <1>1
  <2>5. \A i \in 1..r : list[i] \in D \cup {list[r]}
    BY <1>1, <2>1
  <2>6. QED
    BY <2>3, <2>4, <2>5
<1>5. n \in S
  <2> HIDE DEF S
  <2>1. \A i \in 0..n : i \in S
    BY <1>1, <1>3, <1>4, RoundInduction
  <2>2. QED
    BY <1>1, <2>1
<1>6. PICK D : /\ m[n] = Array(list, n, D)
               /\ \A i \in 1..n : list[i] \in D
  BY <1>5
<1>7. Compact(list, {}).list = list /\ ToSet(list) \subseteq Compact(list, {}).done
  BY <1>1, <1>2, <1>6 DEF Array, ToSet
<1>8. QED
  BY <1>7, CompactKeeps

-----------------------------------------------------------------------------
(* Merging.                                                                  *)

IsFunction(f) == f = [s \in DOMAIN f |-> f[s]]

LEMMA OverForm ==
    ASSUME NEW o, NEW c
    PROVE  /\ IsFunction(Over(o, c))
           /\ DOMAIN Over(o, c) = DOMAIN o \cup DOMAIN c
           /\ \A s \in DOMAIN o : Over(o, c)[s] = o[s]
           /\ \A s \in DOMAIN c \ DOMAIN o : Over(o, c)[s] = c[s]
BY DEF Over, IsFunction

LEMMA FunctionsEqual ==
    ASSUME NEW f, NEW g, IsFunction(f), IsFunction(g), DOMAIN f = DOMAIN g,
           \A s \in DOMAIN f : f[s] = g[s]
    PROVE  f = g
BY DEF IsFunction

LEMMA OverAssociative ==
    ASSUME NEW a, NEW b, NEW c
    PROVE  Over(a, Over(b, c)) = Over(Over(a, b), c)
<1> DEFINE f == Over(a, Over(b, c))
           g == Over(Over(a, b), c)
<1>1. IsFunction(f) /\ IsFunction(g)
  BY OverForm
<1>2. DOMAIN f = DOMAIN g
  <2>1. DOMAIN f = DOMAIN a \cup (DOMAIN b \cup DOMAIN c)
    BY DEF Over
  <2>2. DOMAIN g = (DOMAIN a \cup DOMAIN b) \cup DOMAIN c
    BY DEF Over
  <2>3. QED
    BY <2>1, <2>2
<1>3. ASSUME NEW s \in DOMAIN f PROVE f[s] = g[s]
  <2>1. CASE s \in DOMAIN a
    BY <2>1 DEF Over
  <2>2. CASE s \in DOMAIN b \ DOMAIN a
    BY <2>2 DEF Over
  <2>3. CASE s \in (DOMAIN c \ DOMAIN b) \ DOMAIN a
    BY <2>3 DEF Over
  <2>4. QED
    BY <2>1, <2>2, <2>3 DEF Over
<1>4. QED
  <2> HIDE DEF f, g
  <2>1. f = g
    BY <1>1, <1>2, <1>3, FunctionsEqual
  <2>2. QED
    BY <2>1 DEF f, g

LEMMA OverNothing ==
    ASSUME NEW f, IsFunction(f)
    PROVE  Over(f, Nothing) = f /\ Over(Nothing, f) = f
BY DEF Over, IsFunction, Nothing

\* The lists of blocks of a configuration.
AreBlocks(b) == b = [k \in Kinds |-> b[k]] /\ \A k \in Kinds : IsSeq(b[k])

IsConfig(c) ==
    /\ c = [ok |-> c.ok, set |-> c.set, blocks |-> c.blocks]
    /\ c.ok \in BOOLEAN /\ IsFunction(c.set) /\ AreBlocks(c.blocks)

LEMMA MergeListsForm ==
    ASSUME NEW b, NEW c, AreBlocks(b), AreBlocks(c)
    PROVE  /\ AreBlocks(MergeLists(b, c))
           /\ \A k \in Kinds : Joins(b[k], c[k], MergeLists(b, c)[k])
<1>1. PICK m : m = MergeLists(b, c)
  OBVIOUS
<1>2. m = [k \in Kinds |-> b[k] \o c[k]]
  BY <1>1 DEF MergeLists
<1>3. \A k \in Kinds : Joins(b[k], c[k], m[k])
  BY <1>2 DEF Joins
<1>4. \A k \in Kinds : IsSeq(m[k])
  BY <1>3, Concatenation DEF AreBlocks
<1>5. m = [k \in Kinds |-> m[k]]
  BY <1>2
<1>6. QED
  BY <1>1, <1>3, <1>4, <1>5 DEF AreBlocks

LEMMA MergeListsAssociative ==
    ASSUME NEW b, NEW c, NEW d, AreBlocks(b), AreBlocks(c), AreBlocks(d)
    PROVE  MergeLists(MergeLists(b, c), d) = MergeLists(b, MergeLists(c, d))
<1>1. ASSUME NEW k \in Kinds
      PROVE  (b[k] \o c[k]) \o d[k] = b[k] \o (c[k] \o d[k])
  <2>1. PICK p, q, r : p = b[k] /\ q = c[k] /\ r = d[k]
    OBVIOUS
  <2>2. IsSeq(p) /\ IsSeq(q) /\ IsSeq(r)
    BY <2>1 DEF AreBlocks
  <2>3. (p \o q) \o r = p \o (q \o r)
    BY <2>2, ConcatAssoc
  <2>4. QED
    BY <2>1, <2>3, Zenon
<1>2. QED
  BY <1>1 DEF MergeLists

LEMMA MergeListsEmpty ==
    ASSUME NEW b, AreBlocks(b)
    PROVE  MergeLists([k \in Kinds |-> <<>>], b) = b
<1>1. \A k \in Kinds : <<>> \o b[k] = b[k]
  BY ConcatEmpty, Zenon DEF AreBlocks
<1>2. QED
  BY <1>1 DEF MergeLists, AreBlocks

LEMMA EmptyIsConfig == IsConfig(Empty) /\ Empty.ok /\ DOMAIN Empty.set = {}
<1>1. AreBlocks([k \in Kinds |-> <<>>])
  BY Tuples DEF AreBlocks
<1>2. IsFunction(Nothing) /\ DOMAIN Nothing = {}
  BY DEF IsFunction, Nothing
<1>3. QED
  BY <1>1, <1>2 DEF IsConfig, Empty

LEMMA FailedIsConfig == IsConfig(Failed) /\ ~Failed.ok
<1>1. IsFunction(Nothing) /\ AreBlocks(Empty.blocks)
  BY EmptyIsConfig DEF IsConfig, Empty
<1>2. QED
  <2> HIDE DEF Empty, Nothing
  <2> QED BY <1>1 DEF IsConfig, Failed

LEMMA MergeForm ==
    ASSUME NEW c, NEW o, IsConfig(c), IsConfig(o)
    PROVE  /\ IsConfig(Merge(c, o))
           /\ Merge(c, o).ok <=> c.ok /\ o.ok
           /\ Merge(c, o).set = Over(o.set, c.set)
           /\ Merge(c, o).blocks = MergeLists(c.blocks, o.blocks)
<1>1. PICK r : r = Merge(c, o)
  OBVIOUS
<1>2. r = [ok |-> c.ok /\ o.ok, set |-> Over(o.set, c.set),
           blocks |-> MergeLists(c.blocks, o.blocks)]
  BY <1>1 DEF Merge
<1>3. IsFunction(r.set) /\ AreBlocks(r.blocks)
  BY <1>2, OverForm, MergeListsForm DEF IsConfig
<1>4. r.ok \in BOOLEAN /\ r = [ok |-> r.ok, set |-> r.set, blocks |-> r.blocks]
  BY <1>2
<1>5. r.set = Over(o.set, c.set) /\ r.blocks = MergeLists(c.blocks, o.blocks)
  BY <1>2
<1>6. r.ok <=> c.ok /\ o.ok
  BY <1>2 DEF IsConfig
<1>7. QED
  BY <1>1, <1>3, <1>4, <1>5, <1>6 DEF IsConfig

LEMMA ConfigsEqual ==
    ASSUME NEW c, NEW d, IsConfig(c), IsConfig(d),
           c.ok <=> d.ok, c.set = d.set, c.blocks = d.blocks
    PROVE  c = d
<1>1. c.ok = d.ok
  BY DEF IsConfig
<1>2. QED
  BY <1>1 DEF IsConfig

\* Merging is associative, and a configuration without anything changes nothing.
LEMMA MergeAssociative ==
    ASSUME NEW c, NEW d, NEW e, IsConfig(c), IsConfig(d), IsConfig(e)
    PROVE  Merge(Merge(c, d), e) = Merge(c, Merge(d, e))
<1>1. PICK l, r : l = Merge(Merge(c, d), e) /\ r = Merge(c, Merge(d, e))
  OBVIOUS
<1>2. /\ IsConfig(l) /\ (l.ok <=> c.ok /\ d.ok /\ e.ok)
      /\ l.set = Over(e.set, Over(d.set, c.set))
      /\ l.blocks = MergeLists(MergeLists(c.blocks, d.blocks), e.blocks)
  BY <1>1, MergeForm
<1>3. /\ IsConfig(r) /\ (r.ok <=> c.ok /\ d.ok /\ e.ok)
      /\ r.set = Over(Over(e.set, d.set), c.set)
      /\ r.blocks = MergeLists(c.blocks, MergeLists(d.blocks, e.blocks))
  BY <1>1, MergeForm
<1>4. l.set = r.set
  BY <1>2, <1>3, OverAssociative
<1>5. l.blocks = r.blocks
  BY <1>2, <1>3, MergeListsAssociative DEF IsConfig
<1>6. QED
  BY <1>1, <1>2, <1>3, <1>4, <1>5, ConfigsEqual

LEMMA MergeEmpty ==
    ASSUME NEW c, IsConfig(c)
    PROVE  Merge(Empty, c) = c /\ Merge(c, Empty) = c
<1>1. /\ Empty.ok /\ Empty.set = Nothing /\ Empty.blocks = [k \in Kinds |-> <<>>]
      /\ IsConfig(Empty)
  BY EmptyIsConfig DEF Empty
<1>2. Merge(Empty, c) = c
  <2>1. PICK r : r = Merge(Empty, c)
    OBVIOUS
  <2>2. /\ IsConfig(r) /\ (r.ok <=> c.ok) /\ r.set = Over(c.set, Nothing)
        /\ r.blocks = MergeLists([k \in Kinds |-> <<>>], c.blocks)
    BY <1>1, <2>1, MergeForm
  <2>3. r.set = c.set
    BY <2>2, OverNothing DEF IsConfig
  <2>4. r.blocks = c.blocks
    BY <2>2, MergeListsEmpty DEF IsConfig
  <2>5. QED
    BY <2>1, <2>2, <2>3, <2>4, ConfigsEqual
<1>3. Merge(c, Empty) = c
  <2>1. PICK r : r = Merge(c, Empty)
    OBVIOUS
  <2>2. /\ IsConfig(r) /\ (r.ok <=> c.ok) /\ r.set = Over(Nothing, c.set)
        /\ r.blocks = MergeLists(c.blocks, [k \in Kinds |-> <<>>])
    BY <1>1, <2>1, MergeForm
  <2>3. r.set = c.set
    BY <2>2, OverNothing DEF IsConfig
  <2>4. r.blocks = c.blocks
    <3>1. \A k \in Kinds : c.blocks[k] \o <<>> = c.blocks[k]
      BY ConcatEmpty, Zenon DEF IsConfig, AreBlocks
    <3>2. c.blocks = [k \in Kinds |-> c.blocks[k]]
      BY Zenon DEF IsConfig, AreBlocks
    <3>3. QED
      BY <2>2, <3>1, <3>2 DEF MergeLists
  <2>5. QED
    BY <2>1, <2>2, <2>3, <2>4, ConfigsEqual
<1>4. QED
  BY <1>2, <1>3

\* A sequence of configurations, and what merging them gives.
AllConfigs(cs) == IsSeq(cs) /\ \A i \in 1..Len(cs) : IsConfig(cs[i])

LEMMA MergeAllIsConfig ==
    ASSUME NEW cs, AllConfigs(cs)
    PROVE  IsConfig(MergeAll(cs))
<1> DEFINE n == Len(cs)
<1>1. n \in Nat
  BY SeqForm DEF AllConfigs
<1>2. PICK m : /\ MergeAll(cs) = m[n] /\ m[0] = Empty
               /\ \A i \in 1..n : m[i] = Merge(m[i - 1], cs[i])
  BY MergeAllRounds, Zenon DEF AllConfigs
<1>3. \A i \in 1..n : IsConfig(cs[i])
  BY DEF AllConfigs
<1> HIDE DEF n
<1> DEFINE S == {i \in 0..n : IsConfig(m[i])}
<1>4. 0 \in S
  BY <1>1, <1>2, EmptyIsConfig
<1>5. ASSUME NEW i \in 1..n, i - 1 \in S PROVE i \in S
  <2>1. IsConfig(m[i - 1]) /\ IsConfig(cs[i]) /\ i \in 0..n
    BY <1>1, <1>3, <1>5
  <2>2. IsConfig(Merge(m[i - 1], cs[i]))
    BY <2>1, MergeForm, Zenon
  <2>3. QED
    BY <1>2, <2>1, <2>2
<1>6. n \in S
  <2> HIDE DEF S
  <2>1. \A i \in 0..n : i \in S
    BY <1>1, <1>4, <1>5, RoundInduction
  <2>2. QED
    BY <1>1, <2>1
<1>7. QED
  BY <1>2, <1>6

\* The merge of all of them is valid when each of them is.
LEMMA MergeAllOk ==
    ASSUME NEW cs, AllConfigs(cs)
    PROVE  MergeAll(cs).ok <=> \A i \in 1..Len(cs) : cs[i].ok
<1> DEFINE n == Len(cs)
<1>1. n \in Nat
  BY SeqForm DEF AllConfigs
<1>2. PICK m : /\ MergeAll(cs) = m[n] /\ m[0] = Empty
               /\ \A i \in 1..n : m[i] = Merge(m[i - 1], cs[i])
  BY MergeAllRounds, Zenon DEF AllConfigs
<1>3. \A i \in 1..n : IsConfig(cs[i])
  BY DEF AllConfigs
<1> HIDE DEF n
<1> DEFINE S == {i \in 0..n : IsConfig(m[i]) /\ (m[i].ok <=> \A j \in 1..i : cs[j].ok)}
<1>4. 0 \in S
  BY <1>1, <1>2, EmptyIsConfig
<1>5. ASSUME NEW i \in 1..n, i - 1 \in S PROVE i \in S
  <2>1. /\ IsConfig(m[i - 1]) /\ IsConfig(cs[i]) /\ i \in 0..n
        /\ m[i - 1].ok <=> \A j \in 1..i - 1 : cs[j].ok
    BY <1>1, <1>3, <1>5
  <2>2. m[i] = Merge(m[i - 1], cs[i])
    BY <1>2
  <2>3. IsConfig(m[i]) /\ (m[i].ok <=> m[i - 1].ok /\ cs[i].ok)
    BY <2>1, <2>2, MergeForm
  <2>4. \A j \in 1..i : j = i \/ j \in 1..i - 1
    BY <1>1
  <2>5. \A j \in 1..i - 1 : j \in 1..i
    BY <1>1
  <2>6. i \in 1..i
    BY <1>1
  <2>7. QED
    BY <2>1, <2>3, <2>4, <2>5, <2>6
<1>6. n \in S
  <2> HIDE DEF S
  <2>1. \A i \in 0..n : i \in S
    BY <1>1, <1>4, <1>5, RoundInduction
  <2>2. QED
    BY <1>1, <2>1
<1>7. QED
  BY <1>2, <1>6 DEF n

\* A setting has the value that the last of them gives it.
IsLast(i, I) == i \in I /\ \A j \in I : j <= i

LEMMA MergeAllSet ==
    ASSUME NEW cs, AllConfigs(cs), NEW s
    PROVE  LET by == {i \in 1..Len(cs) : s \in DOMAIN cs[i].set}
           IN  /\ s \in DOMAIN MergeAll(cs).set <=> by # {}
               /\ by # {} => \E i \in by : IsLast(i, by) /\ MergeAll(cs).set[s] = cs[i].set[s]
<1> DEFINE n == Len(cs)
<1>1. n \in Nat
  BY SeqForm DEF AllConfigs
<1>2. PICK m : /\ MergeAll(cs) = m[n] /\ m[0] = Empty
               /\ \A i \in 1..n : m[i] = Merge(m[i - 1], cs[i])
  BY MergeAllRounds, Zenon DEF AllConfigs
<1>3. \A i \in 1..n : IsConfig(cs[i])
  BY DEF AllConfigs
<1> HIDE DEF n
<1> DEFINE By(r) == {i \in 1..r : s \in DOMAIN cs[i].set}
           Has(r, c) == /\ s \in DOMAIN c.set <=> By(r) # {}
                        /\ By(r) # {} => \E i \in By(r) : IsLast(i, By(r)) /\ c.set[s] = cs[i].set[s]
           S == {r \in 0..n : IsConfig(m[r]) /\ Has(r, m[r])}
<1>4. 0 \in S
  BY <1>1, <1>2, EmptyIsConfig
<1>5. ASSUME NEW r \in 1..n, r - 1 \in S PROVE r \in S
  <2>1. PICK c, d, e : c = m[r - 1] /\ d = cs[r] /\ e = m[r]
    OBVIOUS
  <2>2. IsConfig(c) /\ IsConfig(d) /\ r \in 0..n /\ Has(r - 1, c)
    <3>1. r \in 0..n
      BY <1>1
    <3>2. QED
      BY <1>3, <1>5, <2>1, <3>1
  <2>3. e = Merge(c, d)
    BY <1>2, <2>1
  <2>4. IsConfig(e) /\ e.set = Over(d.set, c.set)
    BY <2>2, <2>3, MergeForm
  <2>5. CASE s \in DOMAIN d.set
    <3>1. s \in DOMAIN e.set /\ e.set[s] = d.set[s]
      BY <2>4, <2>5 DEF Over
    <3>2. r \in By(r)
      BY <1>1, <2>1, <2>5
    <3>3. \A j \in By(r) : j <= r
      BY <1>1
    <3>4. Has(r, e)
      BY <2>1, <3>1, <3>2, <3>3 DEF IsLast
    <3>5. QED
      BY <2>1, <2>2, <2>4, <3>4
  <2>6. CASE s \notin DOMAIN d.set
    <3>1. /\ s \in DOMAIN e.set <=> s \in DOMAIN c.set
          /\ s \in DOMAIN c.set => e.set[s] = c.set[s]
      BY <2>4, <2>6 DEF Over
    <3>2. By(r) = By(r - 1)
      BY <1>1, <2>1, <2>6
    <3>3. Has(r, e)
      BY <2>2, <3>1, <3>2
    <3>4. QED
      BY <2>1, <2>2, <2>4, <3>3
  <2>7. QED
    BY <2>5, <2>6
<1>6. n \in S
  <2> HIDE DEF S
  <2>1. \A i \in 0..n : i \in S
    BY <1>1, <1>4, <1>5, RoundInduction
  <2>2. QED
    BY <1>1, <2>1
<1>7. Has(n, m[n])
  BY <1>6
<1>8. QED
  BY <1>2, <1>7 DEF n

\* The blocks of all of them, one after the other.
LEMMA MergeAllBlocks ==
    ASSUME NEW cs, AllConfigs(cs), NEW k \in Kinds, NEW lists, IsSeq(lists),
           Len(lists) = Len(cs), \A i \in 1..Len(cs) : lists[i] = cs[i].blocks[k]
    PROVE  AllSeqs(lists) /\ MergeAll(cs).blocks[k] = FlattenSeq(lists)
<1> DEFINE n == Len(cs)
<1>1. n \in Nat
  BY SeqForm DEF AllConfigs
<1>2. PICK m : /\ MergeAll(cs) = m[n] /\ m[0] = Empty
               /\ \A i \in 1..n : m[i] = Merge(m[i - 1], cs[i])
  BY MergeAllRounds, Zenon DEF AllConfigs
<1>3. \A i \in 1..n : IsConfig(cs[i])
  BY DEF AllConfigs
<1> HIDE DEF n
<1>4. \A i \in 1..n : lists[i] = cs[i].blocks[k] /\ IsSeq(lists[i])
  BY <1>3 DEF IsConfig, AreBlocks, n
<1>5. IsSeq(lists) /\ Len(lists) = n
  BY DEF n
<1>6. AllSeqs(lists)
  BY <1>4, <1>5 DEF AllSeqs
<1>7. PICK h : /\ FlattenSeq(lists) = h[n] /\ h[0] = <<>>
               /\ \A i \in 1..n : h[i] = h[i - 1] \o lists[i]
  <2>1. IsSeq(lists) /\ \A i \in 1..Len(lists) : IsSeq(lists[i])
    BY <1>6, Zenon DEF AllSeqs
  <2>2. PICK h : /\ FlattenSeq(lists) = h[Len(lists)] /\ h[0] = <<>>
                 /\ \A i \in 1..Len(lists) : h[i] = h[i - 1] \o lists[i]
    BY <2>1, FlattenSeqRounds, Zenon
  <2>3. QED
    BY <1>5, <2>2
<1> DEFINE S == {i \in 0..n : IsConfig(m[i]) /\ m[i].blocks[k] = h[i]}
<1>8. 0 \in S
  BY <1>1, <1>2, <1>7, EmptyIsConfig DEF Empty
<1>9. ASSUME NEW r \in 1..n, r - 1 \in S PROVE r \in S
  <2>1. PICK c, d, e : c = m[r - 1] /\ d = cs[r] /\ e = m[r]
    OBVIOUS
  <2>2. IsConfig(c) /\ IsConfig(d) /\ r \in 0..n /\ c.blocks[k] = h[r - 1]
    <3>1. r \in 0..n
      BY <1>1
    <3>2. QED
      BY <1>3, <1>9, <2>1, <3>1
  <2>3. e = Merge(c, d)
    BY <1>2, <2>1
  <2>4. IsConfig(e) /\ e.blocks = MergeLists(c.blocks, d.blocks)
    BY <2>2, <2>3, MergeForm
  <2>5. Joins(c.blocks[k], d.blocks[k], e.blocks[k])
    BY <2>2, <2>4, MergeListsForm DEF IsConfig
  <2>6. Joins(h[r - 1], lists[r], h[r])
    BY <1>7, Zenon DEF Joins
  <2>7. d.blocks[k] = lists[r]
    BY <1>4, <2>1
  <2>8. e.blocks[k] = h[r]
    BY <2>2, <2>5, <2>6, <2>7 DEF Joins
  <2>9. QED
    BY <2>1, <2>2, <2>4, <2>8
<1>10. n \in S
  <2> HIDE DEF S
  <2>1. \A i \in 0..n : i \in S
    BY <1>1, <1>8, <1>9, RoundInduction
  <2>2. QED
    BY <1>1, <2>1
<1>11. QED
  BY <1>2, <1>5, <1>6, <1>7, <1>10 DEF n

\* Two sequences merged one after the other.
LEMMA MergeAllConcat ==
    ASSUME NEW a, NEW b, NEW u, AllConfigs(a), AllConfigs(b), Joins(a, b, u)
    PROVE  AllConfigs(u) /\ MergeAll(u) = Merge(MergeAll(a), MergeAll(b))
<1>1. IsSeq(a) /\ IsSeq(b)
  BY DEF AllConfigs
<1>2. PICK l, n : l = Len(a) /\ n = Len(b)
  OBVIOUS
<1>3. /\ IsSeq(u) /\ Len(u) = l + n /\ l \in Nat /\ n \in Nat
      /\ \A i \in 1..l : u[i] = a[i]
      /\ \A i \in 1..n : u[l + i] = b[i]
      /\ \A i \in 1..l + n : u[i] = IF i <= l THEN a[i] ELSE b[i - l]
  BY <1>1, <1>2, Concatenation, SeqForm
<1>4. /\ \A i \in 1..l : IsConfig(a[i])
      /\ \A i \in 1..n : IsConfig(b[i])
  BY <1>2 DEF AllConfigs
<1>5. AllConfigs(u)
  <2>1. ASSUME NEW i \in 1..l + n PROVE IsConfig(u[i])
    <3>1. CASE i <= l
      BY <1>3, <1>4, <3>1
    <3>2. CASE i > l
      <4>1. i - l \in 1..n /\ u[i] = b[i - l]
        BY <1>3, <3>2
      <4>2. QED
        BY <1>4, <4>1
    <3>3. QED
      BY <1>3, <3>1, <3>2
  <2>2. QED
    BY <1>3, <2>1 DEF AllConfigs
<1>6. PICK f : /\ MergeAll(a) = f[l] /\ f[0] = Empty
               /\ \A i \in 1..l : f[i] = Merge(f[i - 1], a[i])
  BY <1>1, <1>2, MergeAllRounds
<1>7. PICK g : /\ MergeAll(b) = g[n] /\ g[0] = Empty
               /\ \A i \in 1..n : g[i] = Merge(g[i - 1], b[i])
  BY <1>1, <1>2, MergeAllRounds
<1>8. PICK h : /\ MergeAll(u) = h[l + n] /\ h[0] = Empty
               /\ \A i \in 1..l + n : h[i] = Merge(h[i - 1], u[i])
  <2>1. PICK h : /\ MergeAll(u) = h[Len(u)] /\ h[0] = Empty
                 /\ \A i \in 1..Len(u) : h[i] = Merge(h[i - 1], u[i])
    BY <1>3, MergeAllRounds
  <2>2. QED
    BY <1>3, <2>1
<1>9. h[l] = f[l]
  <2>1. ASSUME NEW i \in 1..l, h[i - 1] = f[i - 1] PROVE h[i] = f[i]
    <3>1. i \in 1..l + n
      BY <1>3
    <3>2. QED
      BY <1>3, <1>6, <1>8, <2>1, <3>1
  <2>2. h[0] = f[0] /\ l \in Nat
    BY <1>3, <1>6, <1>8
  <2>3. \A i \in 0..l : h[i] = f[i]
    BY <2>1, <2>2, RoundsAgree
  <2>4. QED
    BY <1>3, <2>3
<1> DEFINE M == MergeAll(a)
           S == {j \in 0..n : IsConfig(g[j]) /\ h[l + j] = Merge(M, g[j])}
<1>10. IsConfig(M)
  BY MergeAllIsConfig
<1>11. 0 \in S
  <2>1. h[l + 0] = M
    BY <1>3, <1>6, <1>9
  <2>2. M = Merge(M, Empty)
    BY <1>10, MergeEmpty
  <2>3. QED
    <3> HIDE DEF M
    <3> QED BY <1>3, <1>7, <2>1, <2>2, EmptyIsConfig
<1> HIDE DEF M
<1>12. ASSUME NEW j \in 1..n, j - 1 \in S PROVE j \in S
  <2>1. PICK c, d : c = g[j - 1] /\ d = b[j]
    OBVIOUS
  <2>2. IsConfig(c) /\ IsConfig(d) /\ h[l + (j - 1)] = Merge(M, c)
    BY <1>4, <1>12, <2>1
  <2>3. g[j] = Merge(c, d)
    BY <1>7, <2>1
  <2>4. h[l + j] = Merge(h[l + (j - 1)], d)
    <3>1. l + j \in 1..l + n /\ (l + j) - 1 = l + (j - 1) /\ u[l + j] = b[j]
      BY <1>3
    <3>2. h[l + j] = Merge(h[(l + j) - 1], u[l + j])
      BY <1>8, <3>1, Zenon
    <3>3. QED
      BY <2>1, <3>1, <3>2
  <2>5. h[l + j] = Merge(M, Merge(c, d))
    BY <1>10, <2>2, <2>4, MergeAssociative
  <2>6. IsConfig(g[j])
    BY <2>2, <2>3, MergeForm
  <2>7. j \in 0..n
    BY <1>3
  <2>8. QED
    BY <2>3, <2>5, <2>6, <2>7
<1>13. n \in S
  <2> HIDE DEF S
  <2>1. \A i \in 0..n : i \in S
    BY <1>3, <1>11, <1>12, RoundInduction
  <2>2. QED
    BY <1>3, <2>1
<1>14. QED
  BY <1>5, <1>7, <1>8, <1>13 DEF M

\* Merging what was merged, or everything at once.
LEMMA MergeAllFlatten ==
    ASSUME NEW css, AllSeqs(css), \A i \in 1..Len(css) : AllConfigs(css[i]),
           NEW merged, merged = [i \in 1..Len(css) |-> MergeAll(css[i])]
    PROVE  /\ AllConfigs(merged) /\ AllConfigs(FlattenSeq(css))
           /\ MergeAll(merged) = MergeAll(FlattenSeq(css))
<1>1. PICK n : n = Len(css) /\ n \in Nat
  BY SeqForm DEF AllSeqs
<1>2. \A i \in 1..n : IsSeq(css[i]) /\ AllConfigs(css[i]) /\ merged[i] = MergeAll(css[i])
  BY <1>1 DEF AllSeqs
<1>3. IsSeq(merged) /\ Len(merged) = n
  <2>1. merged = [i \in 1..n |-> merged[i]]
    BY <1>1
  <2>2. QED
    BY <1>1, <2>1, TableIsSeq
<1>4. AllConfigs(merged)
  BY <1>2, <1>3, MergeAllIsConfig DEF AllConfigs
<1>5. PICK m : /\ FlattenSeq(css) = m[n] /\ m[0] = <<>>
               /\ \A i \in 1..n : m[i] = m[i - 1] \o css[i]
  <2>1. IsSeq(css) /\ \A i \in 1..Len(css) : IsSeq(css[i])
    BY DEF AllSeqs
  <2>2. PICK m : /\ FlattenSeq(css) = m[Len(css)] /\ m[0] = <<>>
                 /\ \A i \in 1..Len(css) : m[i] = m[i - 1] \o css[i]
    BY <2>1, FlattenSeqRounds, Zenon
  <2>3. QED
    BY <1>1, <2>2
<1>6. PICK h : /\ MergeAll(merged) = h[n] /\ h[0] = Empty
               /\ \A i \in 1..n : h[i] = Merge(h[i - 1], merged[i])
  BY <1>3, MergeAllRounds
<1> DEFINE S == {i \in 0..n : AllConfigs(m[i]) /\ MergeAll(m[i]) = h[i]}
<1>7. 0 \in S
  <2>1. AllConfigs(<<>>)
    BY Tuples DEF AllConfigs
  <2>2. MergeAll(<<>>) = Empty
    <3>1. IsSeq(<<>>) /\ Len(<<>>) = 0
      BY Tuples
    <3>2. PICK e : e = <<>>
      OBVIOUS
    <3>3. PICK f : MergeAll(e) = f[Len(e)] /\ f[0] = Empty
      BY <3>1, <3>2, MergeAllRounds
    <3>4. QED
      BY <3>1, <3>2, <3>3
  <2>3. QED
    BY <1>1, <1>5, <1>6, <2>1, <2>2
<1>8. ASSUME NEW r \in 1..n, r - 1 \in S PROVE r \in S
  <2>1. PICK p, q, u : p = m[r - 1] /\ q = css[r] /\ u = m[r]
    OBVIOUS
  <2>2. AllConfigs(p) /\ MergeAll(p) = h[r - 1] /\ AllConfigs(q) /\ merged[r] = MergeAll(q)
    BY <1>2, <1>8, <2>1
  <2>3. Joins(p, q, u)
    BY <1>5, <2>1, Zenon DEF Joins
  <2>4. AllConfigs(u) /\ MergeAll(u) = Merge(MergeAll(p), MergeAll(q))
    BY <2>2, <2>3, MergeAllConcat
  <2>5. h[r] = Merge(h[r - 1], merged[r])
    BY <1>6
  <2>6. r \in 0..n
    BY <1>1
  <2>7. QED
    BY <2>1, <2>2, <2>4, <2>5, <2>6
<1>9. n \in S
  <2> HIDE DEF S
  <2>1. \A i \in 0..n : i \in S
    BY <1>1, <1>7, <1>8, RoundInduction
  <2>2. QED
    BY <1>1, <2>1
<1>10. QED
  BY <1>4, <1>5, <1>6, <1>9

-----------------------------------------------------------------------------
(* Files.                                                                    *)

LEMMA BlocksOfForm ==
    ASSUME NEW file, IsSeq(file), NEW k
    PROVE  /\ IsSeq(BlocksOf(file, k))
           /\ \A i \in 1..Len(BlocksOf(file, k)) :
                 \E j \in DOMAIN file : file[j].key = k /\ BlocksOf(file, k)[i] = file[j].set
<1>1. PICK n : n = Len(file) /\ n \in Nat /\ DOMAIN file = 1..n
  BY SeqForm
<1>2. PICK lists : lists = [i \in DOMAIN file |-> IF file[i].key = k THEN <<file[i].set>> ELSE <<>>]
  OBVIOUS
<1>3. BlocksOf(file, k) = FlattenSeq(lists)
  BY <1>2 DEF BlocksOf
<1>4. ASSUME NEW i \in 1..n
      PROVE  /\ IsSeq(lists[i])
             /\ \A l \in 1..Len(lists[i]) : file[i].key = k /\ lists[i][l] = file[i].set
  <2>1. CASE file[i].key = k
    <3>1. lists[i] = <<file[i].set>>
      BY <1>1, <1>2, <2>1
    <3>2. QED
      BY <2>1, <3>1, Tuples
  <2>2. CASE file[i].key # k
    <3>1. lists[i] = <<>>
      BY <1>1, <1>2, <2>2
    <3>2. QED
      BY <3>1, Tuples
  <2>3. QED
    BY <2>1, <2>2
<1>5. IsSeq(lists) /\ Len(lists) = n
  <2>1. lists = [i \in 1..n |-> lists[i]]
    BY <1>1, <1>2
  <2>2. QED
    BY <1>1, <2>1, TableIsSeq
<1>6. AllSeqs(lists)
  BY <1>4, <1>5 DEF AllSeqs
<1>7. IsSeq(FlattenSeq(lists))
  BY <1>6, FlattenIsSeq
<1>8. ASSUME NEW i \in 1..Len(FlattenSeq(lists))
      PROVE  \E j \in DOMAIN file : file[j].key = k /\ FlattenSeq(lists)[i] = file[j].set
  <2>1. PICK j \in 1..Len(lists) :
               \E l \in 1..Len(lists[j]) : FlattenSeq(lists)[i] = lists[j][l]
    BY <1>6, FlattenElements
  <2>2. QED
    BY <1>1, <1>4, <1>5, <2>1
<1>9. QED
  BY <1>3, <1>7, <1>8

LEMMA ParseForm ==
    ASSUME NEW file, IsSeq(file)
    PROVE  /\ IsConfig(Parse(file))
           /\ Parse(file).ok => /\ Parse(file).set = Settled(flattenKeys(file))
                                /\ DOMAIN Settled(flattenKeys(file)) \subseteq Settings
                                /\ \A k \in Kinds : Parse(file).blocks[k] = BlocksOf(file, k)
<1>1. PICK set, blocks : /\ set = Settled(flattenKeys(file))
                         /\ blocks = [k \in Kinds |-> BlocksOf(file, k)]
  OBVIOUS
<1>2. \/ /\ Parse(file) = [ok |-> TRUE, set |-> set, blocks |-> blocks]
         /\ DOMAIN set \subseteq Settings
      \/ Parse(file) = Failed
  BY <1>1, Zenon DEF Parse
<1>3. IsFunction(set)
  BY <1>1 DEF IsFunction, Settled, StringToWaitDuration, FromString
<1>4. AreBlocks(blocks)
  BY <1>1, BlocksOfForm DEF AreBlocks
<1>5. CASE /\ Parse(file) = [ok |-> TRUE, set |-> set, blocks |-> blocks]
           /\ DOMAIN set \subseteq Settings
  <2>1. IsConfig(Parse(file))
    BY <1>3, <1>4, <1>5 DEF IsConfig
  <2>2. Parse(file).set = set /\ Parse(file).blocks = blocks
    BY <1>5
  <2>3. QED
    BY <1>1, <1>5, <2>1, <2>2
<1>6. CASE Parse(file) = Failed
  BY <1>6, FailedIsConfig
<1>7. QED
  BY <1>2, <1>5, <1>6

\* The files of a walk parsed, in its order.
Parsed(walk, files) == [i \in DOMAIN walk |-> Parse(files[walk[i]])]

LEMMA ParsedForm ==
    ASSUME NEW walk, NEW files, IsSeq(walk), \A i \in 1..Len(walk) : IsSeq(files[walk[i]])
    PROVE  /\ AllConfigs(Parsed(walk, files)) /\ Len(Parsed(walk, files)) = Len(walk)
           /\ \A i \in 1..Len(walk) : Parsed(walk, files)[i] = Parse(files[walk[i]])
<1>1. PICK n : n = Len(walk) /\ n \in Nat /\ DOMAIN walk = 1..n
  BY SeqForm
<1>2. PICK p : p = Parsed(walk, files)
  OBVIOUS
<1>3. p = [i \in 1..n |-> p[i]] /\ \A i \in 1..n : p[i] = Parse(files[walk[i]])
  BY <1>1, <1>2 DEF Parsed
<1>4. IsSeq(p) /\ Len(p) = n
  BY <1>1, <1>3, TableIsSeq
<1>5. \A i \in 1..n : IsConfig(p[i])
  BY <1>1, <1>3, ParseForm
<1>6. QED
  BY <1>1, <1>2, <1>3, <1>4, <1>5 DEF AllConfigs

\* The files below the paths of a command line, in the order they are merged.
Walked(paths, tree) == FlattenSeq([i \in DOMAIN paths |-> tree[paths[i]]])

LEMMA WalkedForm ==
    ASSUME NEW F, NEW paths, NEW tree, IsSeq(paths), tree \in [DOMAIN tree -> Seq(F)],
           \A i \in 1..Len(paths) : paths[i] \in DOMAIN tree
    PROVE  /\ IsSeq(Walked(paths, tree))
           /\ \A i \in 1..Len(Walked(paths, tree)) : Walked(paths, tree)[i] \in F
<1>1. PICK n : n = Len(paths) /\ n \in Nat /\ DOMAIN paths = 1..n
  BY SeqForm
<1>2. PICK walks : walks = [i \in DOMAIN paths |-> tree[paths[i]]]
  OBVIOUS
<1>3. walks = [i \in 1..n |-> walks[i]] /\ \A i \in 1..n : walks[i] = tree[paths[i]]
  BY <1>1, <1>2
<1>4. IsSeq(walks) /\ Len(walks) = n
  BY <1>1, <1>3, TableIsSeq
<1>5. \A i \in 1..n : walks[i] \in Seq(F)
  BY <1>1, <1>3
<1>6. AllSeqs(walks)
  BY <1>4, <1>5 DEF AllSeqs, IsSeq
<1>7. \A i \in 1..n : \A l \in 1..Len(walks[i]) : walks[i][l] \in F
  BY <1>5, ElementOfSeq
<1>8. ASSUME NEW i \in 1..Len(FlattenSeq(walks)) PROVE FlattenSeq(walks)[i] \in F
  <2>1. PICK j \in 1..Len(walks) : \E l \in 1..Len(walks[j]) : FlattenSeq(walks)[i] = walks[j][l]
    BY <1>6, FlattenElements, Zenon
  <2>2. QED
    BY <1>4, <1>7, <2>1, Zenon
<1>9. QED
  BY <1>2, <1>6, <1>8, FlattenIsSeq DEF Walked

\* A path that is missing fails the whole; if none is, the paths give what all
\* files below them give, merged one after the other.
LEMMA FromPathsForm ==
    ASSUME NEW F, NEW paths, NEW tree, NEW files, IsSeq(paths),
           tree \in [DOMAIN tree -> Seq(F)], \A f \in F : IsSeq(files[f])
    PROVE  /\ IsConfig(FromPaths(paths, tree, files))
           /\ FromPaths(paths, tree, files).ok =>
                 \A i \in 1..Len(paths) : paths[i] \in DOMAIN tree
           /\ (\A i \in 1..Len(paths) : paths[i] \in DOMAIN tree) =>
                 FromPaths(paths, tree, files) = MergeAll(Parsed(Walked(paths, tree), files))
<1>1. PICK n : n = Len(paths) /\ n \in Nat /\ DOMAIN paths = 1..n
  BY SeqForm
<1>2. PICK cs : cs = [i \in DOMAIN paths |->
                        IF paths[i] \in DOMAIN tree THEN FromPath(tree[paths[i]], files)
                                                    ELSE Failed]
  OBVIOUS
<1>3. FromPaths(paths, tree, files) = MergeAll(cs)
  BY <1>2 DEF FromPaths
<1>4. IsSeq(cs) /\ Len(cs) = n
  <2>1. cs = [i \in 1..n |-> cs[i]]
    BY <1>1, <1>2
  <2>2. QED
    BY <1>1, <2>1, TableIsSeq
<1>5. ASSUME NEW w \in Seq(F)
      PROVE  IsSeq(w) /\ AllConfigs(Parsed(w, files)) /\ Len(Parsed(w, files)) = Len(w)
  <2>1. IsSeq(w)
    BY DEF IsSeq
  <2>2. \A i \in 1..Len(w) : IsSeq(files[w[i]])
    BY ElementOfSeq
  <2>3. QED
    BY <2>1, <2>2, ParsedForm
<1>6. ASSUME NEW i \in 1..n
      PROVE  /\ paths[i] \in DOMAIN tree =>
                   /\ tree[paths[i]] \in Seq(F)
                   /\ cs[i] = MergeAll(Parsed(tree[paths[i]], files))
             /\ paths[i] \notin DOMAIN tree => cs[i] = Failed
  BY <1>1, <1>2, Zenon DEF FromPath, Parsed
<1>7. ASSUME NEW i \in 1..n PROVE IsConfig(cs[i])
  <2>1. CASE paths[i] \in DOMAIN tree
    BY <1>5, <1>6, <2>1, MergeAllIsConfig
  <2>2. CASE paths[i] \notin DOMAIN tree
    BY <1>6, <2>2, FailedIsConfig
  <2>3. QED
    BY <2>1, <2>2
<1>8. AllConfigs(cs)
  BY <1>4, <1>7 DEF AllConfigs
<1>9. ASSUME MergeAll(cs).ok PROVE \A i \in 1..n : paths[i] \in DOMAIN tree
  BY <1>4, <1>6, <1>8, <1>9, MergeAllOk, FailedIsConfig
<1>10. ASSUME \A i \in 1..n : paths[i] \in DOMAIN tree
       PROVE  MergeAll(cs) = MergeAll(Parsed(Walked(paths, tree), files))
  <2>1. PICK walks : walks = [i \in DOMAIN paths |-> tree[paths[i]]]
    OBVIOUS
  <2>2. walks = [i \in 1..n |-> walks[i]] /\ \A i \in 1..n : walks[i] = tree[paths[i]]
    BY <1>1, <2>1
  <2>3. IsSeq(walks) /\ Len(walks) = n
    BY <1>1, <2>2, TableIsSeq
  <2>4. \A i \in 1..n : walks[i] \in Seq(F)
    BY <1>6, <1>10, <2>2
  <2>5. AllSeqs(walks)
    BY <1>5, <2>3, <2>4 DEF AllSeqs
  <2>6. PICK css : css = [i \in 1..n |-> Parsed(walks[i], files)]
    OBVIOUS
  <2>7. /\ IsSeq(css) /\ Len(css) = n
        /\ \A i \in 1..n : css[i] = Parsed(walks[i], files)
        /\ \A i \in 1..n : AllConfigs(css[i]) /\ Len(css[i]) = Len(walks[i])
    <3>1. css = [i \in 1..n |-> css[i]] /\ \A i \in 1..n : css[i] = Parsed(walks[i], files)
      BY <2>6
    <3>2. IsSeq(css) /\ Len(css) = n
      BY <1>1, <3>1, TableIsSeq
    <3>3. QED
      BY <1>5, <2>4, <3>1, <3>2
  <2>8. AllSeqs(css)
    BY <2>7 DEF AllSeqs, AllConfigs
  <2>9. cs = [i \in 1..Len(css) |-> MergeAll(css[i])]
    <3>1. \A i \in 1..n : cs[i] = MergeAll(css[i])
      BY <1>6, <1>10, <2>2, <2>7
    <3>2. cs = [i \in 1..n |-> cs[i]]
      BY <1>1, <1>2
    <3>3. QED
      BY <2>7, <3>1, <3>2
  <2>10. MergeAll(cs) = MergeAll(FlattenSeq(css)) /\ AllConfigs(FlattenSeq(css))
    BY <2>7, <2>8, <2>9, MergeAllFlatten
  <2>11. PICK walk : walk = Walked(paths, tree)
    OBVIOUS
  <2>12. walk = FlattenSeq(walks) /\ IsSeq(walk) /\ \A i \in 1..Len(walk) : walk[i] \in F
    <3>1. walk = FlattenSeq(walks)
      BY <2>1, <2>11 DEF Walked
    <3>2. IsSeq(walk) /\ \A i \in 1..Len(walk) : walk[i] \in F
      BY <1>1, <1>10, <2>11, WalkedForm
    <3>3. QED
      BY <3>1, <3>2
  <2>13. PICK G : G = [f \in F |-> Parse(files[f])]
    OBVIOUS
  <2>14. ASSUME NEW i \in 1..n
         PROVE  Image(walks[i], css[i], G)
    <3>1. walks[i] \in Seq(F) /\ css[i] = Parsed(walks[i], files) /\ Len(css[i]) = Len(walks[i])
      BY <2>4, <2>7
    <3>2. PICK w : w = walks[i]
      OBVIOUS
    <3>3. ASSUME NEW j \in 1..Len(w) PROVE Parsed(w, files)[j] = G[w[j]]
      <4>1. w[j] \in F /\ IsSeq(w) /\ \A l \in 1..Len(w) : w[l] \in F
        BY <3>1, <3>2, ElementOfSeq, <1>5
      <4>2. Parsed(w, files)[j] = Parse(files[w[j]])
        BY <4>1, ParsedForm
      <4>3. QED
        BY <2>13, <4>1, <4>2
    <3>4. QED
      BY <3>1, <3>2, <3>3 DEF Image
  <2>15. /\ Len(FlattenSeq(css)) = Len(walk)
         /\ \A i \in 1..Len(walk) : FlattenSeq(css)[i] = G[walk[i]]
    <3>1. Len(css) = Len(walks) /\ \A i \in 1..Len(walks) : Image(walks[i], css[i], G)
      BY <2>3, <2>7, <2>14
    <3>2. Image(FlattenSeq(walks), FlattenSeq(css), G)
      BY <2>5, <2>8, <3>1, FlattenMap
    <3>3. QED
      BY <2>12, <3>2 DEF Image
  <2>16. FlattenSeq(css) = Parsed(walk, files)
    <3>1. PICK p, q : p = FlattenSeq(css) /\ q = Parsed(walk, files)
      OBVIOUS
    <3>2. IsSeq(q) /\ Len(q) = Len(walk) /\ \A i \in 1..Len(walk) : q[i] = Parse(files[walk[i]])
      BY <2>12, <3>1, ParsedForm DEF AllConfigs
    <3>3. IsSeq(p) /\ Len(p) = Len(walk) /\ \A i \in 1..Len(walk) : p[i] = Parse(files[walk[i]])
      BY <2>10, <2>12, <2>13, <2>15, <3>1 DEF AllConfigs
    <3>4. p = q
      BY <3>2, <3>3, SeqsEqual
    <3>5. QED
      BY <3>1, <3>4
  <2>17. QED
    BY <2>10, <2>11, <2>16
<1>11. QED
  BY <1>1, <1>3, <1>8, <1>9, <1>10, MergeAllIsConfig

\* A set of places of a list has a last one.
LEMMA LastExists ==
    ASSUME NEW n \in Nat, NEW I \in SUBSET (1..n), I # {}
    PROVE  \E i \in I : IsLast(i, I)
<1> DEFINE T == {n - i : i \in I}
<1>1. T \subseteq Nat /\ T # {}
  <2>1. \A i \in I : n - i \in Nat
    OBVIOUS
  <2>2. PICK i : i \in I
    OBVIOUS
  <2>3. n - i \in T
    BY <2>2
  <2>4. QED
    BY <2>1, <2>3
<1>2. PICK d \in T : \A m \in T : ~ (<<m, d>> \in OpToRel(<, Nat))
  BY <1>1, WFMin, NatLessThanWellFounded, Zenon
<1>3. \A m \in T : ~(m < d)
  BY <1>1, <1>2, Zenon DEF OpToRel
<1>4. PICK i \in I : d = n - i
  OBVIOUS
<1>5. ASSUME NEW j \in I PROVE j <= i
  <2>1. n - j \in T
    OBVIOUS
  <2>2. ~(n - j < n - i)
    BY <1>3, <1>4, <2>1
  <2>3. n \in Nat /\ i \in Nat /\ j \in Nat
    BY <1>4
  <2>4. QED
    BY <2>2, <2>3
<1>6. QED
  BY <1>5 DEF IsLast

\* A key of a file has what one of its statements says.
LEMMA KeysForm ==
    ASSUME NEW file, IsSeq(file), NEW key \in DOMAIN flattenKeys(file)
    PROVE  \E i \in DOMAIN file : file[i].key = key /\ flattenKeys(file)[key] = file[i].set
<1>1. PICK n : n \in Nat /\ DOMAIN file = 1..n
  BY SeqForm
<1>2. PICK I : I = {i \in DOMAIN file : file[i].key = key}
  OBVIOUS
<1>3. I # {} /\ I \in SUBSET (1..n)
  BY <1>1, <1>2 DEF flattenKeys
<1>4. PICK l \in I : IsLast(l, I)
  BY <1>1, <1>3, LastExists
<1>5. /\ l \in DOMAIN file /\ file[l].key = key
      /\ \A j \in DOMAIN file : file[j].key = key => j <= l
  BY <1>2, <1>4 DEF IsLast
<1> DEFINE c == CHOOSE i \in DOMAIN file :
                  /\ file[i].key = key
                  /\ \A j \in DOMAIN file : file[j].key = key => j <= i
<1>6. c \in DOMAIN file /\ file[c].key = key
  BY <1>5
<1>7. flattenKeys(file)[key] = file[c].set
  <2>1. key \in {file[i].key : i \in DOMAIN file}
    BY DEF flattenKeys
  <2>2. QED
    BY <2>1, Zenon DEF flattenKeys
<1>8. QED
  BY <1>6, <1>7

-----------------------------------------------------------------------------
(* Deprecated keys.                                                          *)

LEMMA SubSeqForm ==
    ASSUME NEW s, IsSeq(s), Len(s) >= 2
    PROVE  IsSeq(SubSeq(s, 1, 2)) /\ Len(SubSeq(s, 1, 2)) = 2
           /\ SubSeq(s, 1, 2)[1] = s[1] /\ SubSeq(s, 1, 2)[2] = s[2]
<1>1. PICK S : s \in Seq(S)
  BY DEF IsSeq
<1>2. \A i \in 1..2 : s[i] \in S
  BY <1>1
<1>3. PICK t : t = SubSeq(s, 1, 2)
  OBVIOUS
<1>4. t \in Seq(S) /\ Len(t) = 2 /\ \A i \in 1..2 : t[i] = s[1 + i - 1]
  BY <1>2, <1>3, SubSeqProperties
<1>5. QED
  BY <1>3, <1>4 DEF IsSeq

\* The stanza or value that a key replaces begins all that it sets, and is no
\* stanza.
LEMMA ReplacedForm ==
    ASSUME NEW place, IsSeq(place), Len(place) >= 2
    PROVE  /\ \A rest, s : IsSeq(rest) /\ Joins(place, rest, s) => IsPrefix(Replaced(place), s)
           /\ \A e : ~IsPrefix(Replaced(place), <<e>>)
<1>1. PICK p : p = Replaced(place)
  OBVIOUS
<1>2. IsSeq(p) /\ Len(p) = 2 /\ p[1] = place[1] /\ p[2] = place[2]
  BY <1>1, SubSeqForm DEF Replaced
<1>3. ASSUME NEW rest, NEW s, IsSeq(rest), Joins(place, rest, s) PROVE IsPrefix(p, s)
  <2>1. IsJoined(place, rest, s)
    BY <1>3, JoinedForm, Zenon
  <2>2. Len(place) \in Nat /\ Len(rest) \in Nat
    BY <1>3, SeqForm
  <2>3. IsSeq(s) /\ Len(s) >= 2 /\ s[1] = place[1] /\ s[2] = place[2]
    <3>1. /\ IsSeq(s) /\ Len(s) = Len(place) + Len(rest)
          /\ \A i \in 1..Len(place) : s[i] = place[i]
      BY <2>1 DEF IsJoined
    <3>2. 1 \in 1..Len(place) /\ 2 \in 1..Len(place) /\ Len(place) + Len(rest) >= 2
      BY <2>2
    <3>3. QED
      BY <3>1, <3>2
  <2>4. PICK a, b : a = SubSeq(p, 1, 2) /\ b = SubSeq(s, 1, 2)
    OBVIOUS
  <2>5. IsSeq(a) /\ Len(a) = 2 /\ a[1] = p[1] /\ a[2] = p[2]
    BY <1>2, <2>4, SubSeqForm
  <2>6. IsSeq(b) /\ Len(b) = 2 /\ b[1] = s[1] /\ b[2] = s[2]
    BY <2>3, <2>4, SubSeqForm
  <2>7. a = b
    <3>1. \A i \in 1..2 : i = 1 \/ i = 2
      OBVIOUS
    <3>2. \A i \in 1..2 : a[i] = b[i]
      BY <1>2, <2>3, <2>5, <2>6, <3>1
    <3>3. QED
      BY <2>5, <2>6, <3>2, SeqsEqual
  <2>8. QED
    BY <1>2, <2>3, <2>4, <2>7 DEF IsPrefix
<1>4. ASSUME NEW e PROVE ~IsPrefix(p, <<e>>)
  <2>1. PICK t : t = <<e>>
    OBVIOUS
  <2>2. Len(t) = 1
    BY <2>1, Tuples
  <2>3. ~IsPrefix(p, t)
    BY <1>2, <2>2 DEF IsPrefix
  <2>4. QED
    BY <2>1, <2>3
<1>5. QED
  BY <1>1, <1>3, <1>4

\* A function taken from many, where it is taken from the same.
LEMMA TogetherSame ==
    ASSUME NEW F, NEW G, NEW s, {g \in F : s \in DOMAIN g} = {g \in G : s \in DOMAIN g}
    PROVE  /\ s \in DOMAIN Together(F) <=> s \in DOMAIN Together(G)
           /\ s \in DOMAIN Together(F) => Together(F)[s] = Together(G)[s]
<1>1. ASSUME NEW H
      PROVE  /\ s \in DOMAIN Together(H) <=> {g \in H : s \in DOMAIN g} # {}
             /\ s \in DOMAIN Together(H) =>
                   Together(H)[s] = (CHOOSE f \in {g \in H : s \in DOMAIN g} : TRUE)[s]
  BY Zenon DEF Together
<1>2. (CHOOSE f \in {g \in F : s \in DOMAIN g} : TRUE)
      = (CHOOSE f \in {g \in G : s \in DOMAIN g} : TRUE)
  BY Zenon
<1>3. QED
  BY <1>1, <1>2, Zenon

================================================================================
