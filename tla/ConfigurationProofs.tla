--------------------------- MODULE ConfigurationProofs ---------------------------
(* For all flags, files, paths and environments: what a runner is given.     *)
(*                                                                           *)
(* LoadInv is the invariant the others rest on: the configuration of a load  *)
(* is a function of the files it read and of the flags, whatever was loaded  *)
(* before.  Beside it, each of NamesInv, NoPrefixInv, FormatInv and CliInv   *)
(* says what the flags parsed so far have left behind.                       *)
EXTENDS Configuration, ConfigProofs, FiniteSetTheorems

-----------------------------------------------------------------------------
(* Finalizing a block.                                                       *)

LEMMA FinalizeBlockTwice ==
    ASSUME NEW k, NEW b
    PROVE  FinalizeBlock(k, FinalizeBlock(k, b)) = FinalizeBlock(k, b)
<1>1. PICK c : c = FinalizeBlock(k, b)
  OBVIOUS
<1>2. IsFunction(c) /\ Fields(k) \ {"no_prefix"} \subseteq DOMAIN c
  BY <1>1 DEF FinalizeBlock, Over, IsFunction
<1>3. PICK d : d = FinalizeBlock(k, c)
  OBVIOUS
<1>4. IsFunction(d) /\ DOMAIN d = DOMAIN c /\ \A f \in DOMAIN c : d[f] = c[f]
  BY <1>2, <1>3 DEF FinalizeBlock, Over, IsFunction
<1>5. d = c
  BY <1>2, <1>4, FunctionsEqual
<1>6. QED
  BY <1>1, <1>3, <1>5

LEMMA FinalizeBlockKeeps ==
    ASSUME NEW k \in Kinds, NEW b
    PROVE  /\ NameOf(k, FinalizeBlock(k, b)) = NameOf(k, b)
           /\ NoPrefixOf(FinalizeBlock(k, b)) = NoPrefixOf(b)
           /\ k # "service" => (Pathless(FinalizeBlock(k, b)) <=> Pathless(b))
<1>1. PICK c : c = FinalizeBlock(k, b)
  OBVIOUS
<1>2. /\ DOMAIN c = DOMAIN b \cup (Fields(k) \ {"no_prefix"})
      /\ \A f \in DOMAIN b : c[f] = b[f]
      /\ \A f \in Fields(k) \ {"no_prefix"} : f \notin DOMAIN b => c[f] = ""
  BY <1>1 DEF FinalizeBlock, Over, IsFunction
<1>3. NameOf(k, c) = NameOf(k, b)
  BY <1>2 DEF NameOf, Fields
<1>4. NoPrefixOf(c) = NoPrefixOf(b)
  BY <1>2 DEF NoPrefixOf, Fields
<1>5. k # "service" => (Pathless(c) <=> Pathless(b))
  BY <1>2 DEF Pathless, Fields
<1>6. QED
  BY <1>1, <1>3, <1>4, <1>5

\* A block as it was given, or finalized since.
Kept(k, b, c) == b = c \/ b = FinalizeBlock(k, c)

LEMMA KeptForm ==
    ASSUME NEW k \in Kinds, NEW b, NEW c, Kept(k, b, c)
    PROVE  /\ Kept(k, FinalizeBlock(k, b), c)
           /\ FinalizeBlock(k, b) = FinalizeBlock(k, c)
           /\ NameOf(k, b) = NameOf(k, c) /\ NoPrefixOf(b) = NoPrefixOf(c)
           /\ k # "service" => (Pathless(b) <=> Pathless(c))
BY FinalizeBlockTwice, FinalizeBlockKeeps DEF Kept

LEMMA KeptTransitive ==
    ASSUME NEW k \in Kinds, NEW b, NEW c, NEW d, Kept(k, b, c), Kept(k, c, d)
    PROVE  Kept(k, b, d)
BY FinalizeBlockTwice DEF Kept

-----------------------------------------------------------------------------
(* Finalizing the lists.                                                     *)

IsPointer(p) == p = [owner |-> p.owner, at |-> p.at]

\* Where a pointer leads there is a block.
Leads(h, k, p) == IsPointer(p) /\ p.owner \in Owners /\ p.at \in 1..Len(h[p.owner][k])

IsHeap(h) == h = [o \in Owners |-> h[o]] /\ \A o \in Owners : AreBlocks(h[o])

AreLists(l, h) == AreBlocks(l) /\ \A k \in Kinds : \A i \in 1..Len(l[k]) : Leads(h, k, l[k][i])

\* A heap with the blocks of another one, finalized or not.
KeptHeap(h, g) ==
    \A o \in Owners : \A k \in Kinds :
        /\ Len(h[o][k]) = Len(g[o][k])
        /\ \A i \in 1..Len(g[o][k]) : Kept(k, h[o][k][i], g[o][k][i])

\* A list in which every prefix and every secret has a path.
NonePathless(h, k, list) ==
    k = "service" \/ \A i \in 1..Len(list) : ~Pathless(Deref(h, k, list[i]))

\* What finalizing a list makes of it.
IsFinalized(h, k, list, res) ==
    /\ IsSeq(res.list) /\ Len(res.list) = Len(list)
    /\ \A i \in 1..Len(list) : \E j \in 1..Len(list) : res.list[i] = list[j]
    /\ res.done \subseteq ToSet(list)
    /\ NonePathless(h, k, list) => res.list = list /\ res.done = ToSet(list)

LEMMA FinalizeListForm ==
    ASSUME NEW h, NEW k \in Kinds, NEW list, IsSeq(list)
    PROVE  IsFinalized(h, k, list, FinalizeList(h, k, list))
<1>0. PICK res : res = FinalizeList(h, k, list)
  OBVIOUS
<1> DEFINE pathless == {p \in ToSet(list) : Pathless(Deref(h, k, p))}
<1>1. ToSet(list) = {list[j] : j \in 1..Len(list)}
  BY SeqForm DEF ToSet
<1> DEFINE Goal ==
      /\ IsSeq(res.list) /\ Len(res.list) = Len(list)
      /\ \A i \in 1..Len(list) : \E j \in 1..Len(list) : res.list[i] = list[j]
      /\ res.done \subseteq ToSet(list)
      /\ NonePathless(h, k, list) => res.list = list /\ res.done = ToSet(list)
<1>2. ASSUME k = "service" PROVE Goal
  BY <1>0, <1>2 DEF FinalizeList
<1>3. ASSUME k # "service" PROVE Goal
  <2>1. res = Compact(list, pathless)
    BY <1>0, <1>3 DEF FinalizeList
  <2>2. ASSUME NonePathless(h, k, list) PROVE pathless = {}
    BY <1>1, <1>3, <2>2 DEF NonePathless
  <2> HIDE DEF pathless
  <2>3. /\ IsSeq(res.list) /\ Len(res.list) = Len(list)
        /\ \A i \in 1..Len(list) : res.list[i] \in ToSet(list)
        /\ res.done \subseteq ToSet(list)
    <3>1. /\ IsSeq(Compact(list, pathless).list)
          /\ Len(Compact(list, pathless).list) = Len(list)
          /\ \A i \in 1..Len(list) : Compact(list, pathless).list[i] \in ToSet(list)
          /\ Compact(list, pathless).done \subseteq ToSet(list)
      BY CompactKeeps, Zenon
    <3>2. QED
      BY <2>1, <3>1
  <2>4. NonePathless(h, k, list) => res.list = list /\ res.done = ToSet(list)
    BY <2>1, <2>2, CompactNothing
  <2>5. \A i \in 1..Len(list) : \E j \in 1..Len(list) : res.list[i] = list[j]
    BY <1>1, <2>3
  <2>6. QED
    BY <2>3, <2>4, <2>5
<1>4. IsFinalized(h, k, list, res)
  BY <1>2, <1>3 DEF IsFinalized
<1>5. QED
  BY <1>0, <1>4, Zenon

\* What finalizing the lists makes of them.
AreFinalized(lists, h, r) ==
    /\ IsHeap(r.heap) /\ KeptHeap(r.heap, h) /\ AreLists(r.lists, r.heap)
    /\ \A k \in Kinds :
         /\ Len(r.lists[k]) = Len(lists[k])
         /\ r.lists[k] = FinalizeList(h, k, lists[k]).list
         /\ \A i \in 1..Len(lists[k]) : \E j \in 1..Len(lists[k]) :
               r.lists[k][i] = lists[k][j]
         /\ NonePathless(h, k, lists[k]) =>
               /\ r.lists[k] = lists[k]
               /\ \A i \in 1..Len(lists[k]) :
                     Deref(r.heap, k, lists[k][i]) =
                         FinalizeBlock(k, Deref(h, k, lists[k][i]))

LEMMA FinalizeListsForm ==
    ASSUME NEW lists, NEW h, IsHeap(h), AreLists(lists, h)
    PROVE  AreFinalized(lists, h, FinalizeLists([lists |-> lists, heap |-> h]))
<1>0. PICK r : r = FinalizeLists([lists |-> lists, heap |-> h])
  OBVIOUS
<1>1. PICK result : result = [k \in Kinds |-> FinalizeList(h, k, lists[k])]
  OBVIOUS
<1>2. PICK l, g :
        /\ l = [k \in Kinds |-> result[k].list]
        /\ g = [o \in Owners |-> [k \in Kinds |-> [i \in DOMAIN h[o][k] |->
                  IF [owner |-> o, at |-> i] \in result[k].done
                  THEN FinalizeBlock(k, h[o][k][i]) ELSE h[o][k][i]]]]
  OBVIOUS
<1>3. r.lists = l /\ r.heap = g
  BY <1>0, <1>1, <1>2 DEF FinalizeLists
<1>4. ASSUME NEW k \in Kinds
      PROVE  /\ IsSeq(lists[k]) /\ result[k] = FinalizeList(h, k, lists[k])
             /\ IsSeq(l[k]) /\ Len(l[k]) = Len(lists[k])
             /\ l[k] = FinalizeList(h, k, lists[k]).list
             /\ \A i \in 1..Len(lists[k]) : \E j \in 1..Len(lists[k]) : l[k][i] = lists[k][j]
             /\ result[k].done \subseteq ToSet(lists[k])
             /\ NonePathless(h, k, lists[k]) => /\ l[k] = lists[k]
                                                /\ result[k].done = ToSet(lists[k])
  <2>1. IsSeq(lists[k]) /\ result[k] = FinalizeList(h, k, lists[k]) /\ l[k] = result[k].list
    BY <1>1, <1>2 DEF AreLists, AreBlocks
  <2>2. IsFinalized(h, k, lists[k], result[k])
    <3>1. IsFinalized(h, k, lists[k], FinalizeList(h, k, lists[k]))
      BY <2>1, FinalizeListForm, Zenon
    <3>2. QED
      BY <2>1, <3>1, Zenon
  <2>3. QED
    BY <2>1, <2>2 DEF IsFinalized
<1>5. ASSUME NEW o \in Owners, NEW k \in Kinds
      PROVE  /\ IsSeq(h[o][k]) /\ IsSeq(g[o][k]) /\ Len(g[o][k]) = Len(h[o][k])
             /\ \A i \in 1..Len(h[o][k]) :
                   /\ Kept(k, g[o][k][i], h[o][k][i])
                   /\ [owner |-> o, at |-> i] \in result[k].done =>
                         g[o][k][i] = FinalizeBlock(k, h[o][k][i])
  <2>1. PICK n : n = Len(h[o][k]) /\ n \in Nat /\ DOMAIN h[o][k] = 1..n /\ IsSeq(h[o][k])
    BY SeqForm DEF IsHeap, AreBlocks
  <2>2. PICK b : b = g[o][k]
    OBVIOUS
  <2>3. b = [i \in 1..n |-> IF [owner |-> o, at |-> i] \in result[k].done
                            THEN FinalizeBlock(k, h[o][k][i]) ELSE h[o][k][i]]
    BY <1>2, <2>1, <2>2
  <2>4. IsSeq(b) /\ Len(b) = n
    <3>1. b = [i \in 1..n |-> b[i]]
      BY <2>3
    <3>2. QED
      BY <2>1, <3>1, TableIsSeq
  <2>5. \A i \in 1..n : /\ Kept(k, b[i], h[o][k][i])
                        /\ [owner |-> o, at |-> i] \in result[k].done =>
                              b[i] = FinalizeBlock(k, h[o][k][i])
    BY <2>3 DEF Kept
  <2>6. QED
    BY <2>1, <2>2, <2>4, <2>5
<1>6. IsHeap(g)
  <2>1. g = [o \in Owners |-> g[o]]
    BY <1>2
  <2>2. \A o \in Owners : g[o] = [k \in Kinds |-> g[o][k]]
    BY <1>2
  <2>3. QED
    BY <1>5, <2>1, <2>2 DEF IsHeap, AreBlocks
<1>7. KeptHeap(g, h)
  BY <1>5 DEF KeptHeap
<1>8. AreLists(l, g)
  <2>1. l = [k \in Kinds |-> l[k]]
    BY <1>2
  <2>2. ASSUME NEW k \in Kinds, NEW i \in 1..Len(l[k]) PROVE Leads(g, k, l[k][i])
    <3>1. PICK j \in 1..Len(lists[k]) : l[k][i] = lists[k][j]
      BY <1>4
    <3>2. Leads(h, k, lists[k][j])
      BY DEF AreLists
    <3>3. QED
      BY <1>5, <3>1, <3>2 DEF Leads
  <2>3. QED
    BY <1>4, <2>1, <2>2 DEF AreLists, AreBlocks
<1>9. ASSUME NEW k \in Kinds, NonePathless(h, k, lists[k]), NEW i \in 1..Len(lists[k])
      PROVE  Deref(g, k, lists[k][i]) = FinalizeBlock(k, Deref(h, k, lists[k][i]))
  <2>1. PICK p : p = lists[k][i]
    OBVIOUS
  <2>2. Leads(h, k, p)
    BY <2>1 DEF AreLists
  <2>3. p \in result[k].done
    <3>1. DOMAIN lists[k] = 1..Len(lists[k])
      BY <1>4, SeqForm
    <3>2. QED
      BY <1>4, <1>9, <2>1, <3>1 DEF ToSet
  <2>4. [owner |-> p.owner, at |-> p.at] \in result[k].done
    BY <2>2, <2>3 DEF Leads, IsPointer
  <2>5. g[p.owner][k][p.at] = FinalizeBlock(k, h[p.owner][k][p.at])
    BY <1>5, <2>2, <2>4 DEF Leads
  <2>6. QED
    BY <2>1, <2>5 DEF Deref
<1>10. AreFinalized(lists, h, r)
  BY <1>3, <1>4, <1>6, <1>7, <1>8, <1>9 DEF AreFinalized
<1>11. QED
  BY <1>0, <1>10, Zenon

\* Which entries are compacted away depends on what was given alone.
LEMMA FinalizeListSame ==
    ASSUME NEW h, NEW g, NEW start, NEW k \in Kinds, NEW list,
           IsSeq(list), \A i \in 1..Len(list) : Leads(start, k, list[i]),
           KeptHeap(h, start), KeptHeap(g, start)
    PROVE  /\ FinalizeList(h, k, list) = FinalizeList(g, k, list)
           /\ NonePathless(h, k, list) <=> NonePathless(g, k, list)
<1>1. ToSet(list) = {list[j] : j \in 1..Len(list)}
  BY SeqForm DEF ToSet
<1>2. ASSUME NEW p \in ToSet(list), k # "service"
      PROVE  Pathless(Deref(h, k, p)) <=> Pathless(Deref(g, k, p))
  <2>1. Leads(start, k, p)
    BY <1>1
  <2>2. PICK b, c, s : b = h[p.owner][k][p.at] /\ c = g[p.owner][k][p.at]
                       /\ s = start[p.owner][k][p.at]
    OBVIOUS
  <2>3. Kept(k, b, s) /\ Kept(k, c, s)
    BY <2>1, <2>2 DEF KeptHeap, Leads
  <2>4. Pathless(b) <=> Pathless(c)
    BY <1>2, <2>3, KeptForm
  <2>5. QED
    BY <2>2, <2>4 DEF Deref
<1>3. k # "service" => {p \in ToSet(list) : Pathless(Deref(h, k, p))}
                     = {p \in ToSet(list) : Pathless(Deref(g, k, p))}
  BY <1>2
<1>4. NonePathless(h, k, list) <=> NonePathless(g, k, list)
  BY <1>1, <1>2 DEF NonePathless
<1>5. QED
  BY <1>3, <1>4 DEF FinalizeList

-----------------------------------------------------------------------------
(* Loading.                                                                  *)

\* The blocks a load has, and the pointers to all of them in order.
Blocks(b, c) == [own |-> b, cli |-> c]

AllOf(b, c) == [k \in Kinds |-> Pointers("own", b[k]) \o Pointers("cli", c[k])]

\* What they are.
AreAll(b, c, h, l) ==
    /\ IsHeap(h) /\ h["own"] = b /\ h["cli"] = c /\ AreLists(l, h)
    /\ \A k \in Kinds :
         /\ Len(l[k]) = Len(b[k]) + Len(c[k])
         /\ \A i \in 1..Len(b[k]) : l[k][i] = [owner |-> "own", at |-> i]
         /\ \A i \in 1..Len(c[k]) : l[k][Len(b[k]) + i] = [owner |-> "cli", at |-> i]
         /\ \A i \in 1..Len(l[k]) :
               l[k][i] = IF i <= Len(b[k]) THEN [owner |-> "own", at |-> i]
                         ELSE [owner |-> "cli", at |-> i - Len(b[k])]

LEMMA AllOfForm ==
    ASSUME NEW b, NEW c, AreBlocks(b), AreBlocks(c)
    PROVE  AreAll(b, c, Blocks(b, c), AllOf(b, c))
<1>0. PICK h, l : h = Blocks(b, c) /\ l = AllOf(b, c)
  OBVIOUS
<1>1. h = [o \in Owners |-> h[o]] /\ h["own"] = b /\ h["cli"] = c
  BY <1>0 DEF Blocks, Owners
<1>2. IsHeap(h)
  BY <1>1 DEF IsHeap, Owners
<1>3. ASSUME NEW k \in Kinds
      PROVE  /\ IsSeq(l[k]) /\ Len(l[k]) = Len(b[k]) + Len(c[k])
             /\ Len(b[k]) \in Nat /\ Len(c[k]) \in Nat
             /\ \A i \in 1..Len(b[k]) : l[k][i] = [owner |-> "own", at |-> i]
             /\ \A i \in 1..Len(c[k]) : l[k][Len(b[k]) + i] = [owner |-> "cli", at |-> i]
             /\ \A i \in 1..Len(l[k]) :
                   l[k][i] = IF i <= Len(b[k]) THEN [owner |-> "own", at |-> i]
                             ELSE [owner |-> "cli", at |-> i - Len(b[k])]
  <2>1. PICK m, n : /\ m = Len(b[k]) /\ m \in Nat /\ DOMAIN b[k] = 1..m
                    /\ n = Len(c[k]) /\ n \in Nat /\ DOMAIN c[k] = 1..n
    BY SeqForm DEF AreBlocks
  <2>2. PICK p, q : /\ p = [i \in 1..m |-> [owner |-> "own", at |-> i]]
                    /\ q = [i \in 1..n |-> [owner |-> "cli", at |-> i]]
    OBVIOUS
  <2>3. PICK u : u = p \o q
    OBVIOUS
  <2>4. l[k] = u
    BY <1>0, <2>1, <2>2, <2>3 DEF AllOf, Pointers
  <2>5. IsSeq(p) /\ Len(p) = m /\ IsSeq(q) /\ Len(q) = n
    <3>1. p = [i \in 1..m |-> p[i]] /\ q = [i \in 1..n |-> q[i]]
      BY <2>2
    <3>2. QED
      BY <2>1, <3>1, TableIsSeq
  <2>6. Joins(p, q, u)
    BY <2>3 DEF Joins
  <2>7. /\ IsSeq(u) /\ Len(u) = m + n
        /\ \A i \in 1..m : u[i] = p[i]
        /\ \A i \in 1..n : u[m + i] = q[i]
        /\ \A i \in 1..m + n : u[i] = IF i <= m THEN p[i] ELSE q[i - m]
    BY <2>5, <2>6, Concatenation
  <2>8. /\ \A i \in 1..m : u[i] = [owner |-> "own", at |-> i]
        /\ \A i \in 1..n : u[m + i] = [owner |-> "cli", at |-> i]
    BY <2>2, <2>7
  <2>9. ASSUME NEW i \in 1..m + n
        PROVE  u[i] = IF i <= m THEN [owner |-> "own", at |-> i]
                      ELSE [owner |-> "cli", at |-> i - m]
    <3>1. CASE i <= m
      BY <2>1, <2>8, <3>1
    <3>2. CASE ~(i <= m)
      <4>1. i - m \in 1..n
        <5>1. m \in Nat /\ n \in Nat
          BY <2>1
        <5>2. QED
          BY <3>2, <5>1
      <4>2. QED
        BY <2>1, <2>2, <2>7, <3>2, <4>1
    <3>3. QED
      BY <3>1, <3>2
  <2>10. QED
    BY <2>1, <2>4, <2>7, <2>8, <2>9
<1>4. AreLists(l, h)
  <2>1. l = [k \in Kinds |-> l[k]]
    BY <1>0 DEF AllOf
  <2>2. ASSUME NEW k \in Kinds, NEW i \in 1..Len(l[k]) PROVE Leads(h, k, l[k][i])
    <3>1. PICK m, n : m = Len(b[k]) /\ m \in Nat /\ n = Len(c[k]) /\ n \in Nat
      BY <1>3
    <3>2. m \in Nat /\ n \in Nat /\ i \in 1..m + n
      BY <1>3, <3>1
    <3>3. CASE i <= m
      <4>1. l[k][i] = [owner |-> "own", at |-> i]
        BY <1>3, <3>1, <3>3
      <4>2. QED
        BY <1>1, <3>1, <3>2, <3>3, <4>1 DEF Leads, IsPointer, Owners
    <3>4. CASE ~(i <= m)
      <4>1. l[k][i] = [owner |-> "cli", at |-> i - m]
        BY <1>3, <3>1, <3>4
      <4>2. i - m \in 1..n
        BY <3>2, <3>4
      <4>3. QED
        BY <1>1, <3>1, <4>1, <4>2 DEF Leads, IsPointer, Owners
    <3>5. QED
      BY <3>3, <3>4
  <2>3. QED
    BY <1>3, <2>1, <2>2 DEF AreLists, AreBlocks
<1>5. AreAll(b, c, h, l)
  BY <1>1, <1>2, <1>3, <1>4 DEF AreAll
<1>6. QED
  BY <1>0, <1>5, Zenon

LEMMA KeptHeapForm ==
    ASSUME NEW h, NEW g, NEW e
    PROVE  /\ KeptHeap(h, h)
           /\ KeptHeap(h, g) /\ KeptHeap(g, e) => KeptHeap(h, e)
<1>1. KeptHeap(h, h)
  BY DEF KeptHeap, Kept
<1>2. ASSUME KeptHeap(h, g), KeptHeap(g, e) PROVE KeptHeap(h, e)
  <2>1. SUFFICES ASSUME NEW o \in Owners, NEW k \in Kinds
                 PROVE  /\ Len(h[o][k]) = Len(e[o][k])
                        /\ \A i \in 1..Len(e[o][k]) : Kept(k, h[o][k][i], e[o][k][i])
    BY DEF KeptHeap
  <2>2. Len(h[o][k]) = Len(g[o][k]) /\ Len(g[o][k]) = Len(e[o][k])
    BY <1>2 DEF KeptHeap
  <2>3. ASSUME NEW i \in 1..Len(e[o][k]) PROVE Kept(k, h[o][k][i], e[o][k][i])
    <3>1. PICK x, y, z : x = h[o][k][i] /\ y = g[o][k][i] /\ z = e[o][k][i]
      OBVIOUS
    <3>2. Kept(k, x, y) /\ Kept(k, y, z)
      BY <1>2, <2>2, <3>1 DEF KeptHeap
    <3>3. Kept(k, x, z)
      BY <3>2, KeptTransitive
    <3>4. QED
      BY <3>1, <3>3
  <2>4. QED
    BY <2>2, <2>3
<1>3. QED
  BY <1>1, <1>2

LEMMA KeptLeads ==
    ASSUME NEW h, NEW g, KeptHeap(h, g), NEW l
    PROVE  /\ \A k \in Kinds : \A p : Leads(h, k, p) <=> Leads(g, k, p)
           /\ AreLists(l, h) <=> AreLists(l, g)
<1>1. \A k \in Kinds : \A p : Leads(h, k, p) <=> Leads(g, k, p)
  BY DEF Leads, KeptHeap
<1>2. QED
  BY <1>1 DEF AreLists

LEMMA KeptDeref ==
    ASSUME NEW h, NEW g, KeptHeap(h, g), NEW k \in Kinds, NEW p, Leads(g, k, p)
    PROVE  Kept(k, Deref(h, k, p), Deref(g, k, p))
BY DEF KeptHeap, Leads, Deref

LEMMA KeptNonePathless ==
    ASSUME NEW h, NEW g, KeptHeap(h, g), NEW k \in Kinds, NEW l,
           \A i \in 1..Len(l) : Leads(g, k, l[i])
    PROVE  NonePathless(h, k, l) <=> NonePathless(g, k, l)
<1>1. ASSUME NEW i \in 1..Len(l), k # "service"
      PROVE  Pathless(Deref(h, k, l[i])) <=> Pathless(Deref(g, k, l[i]))
  <2>1. PICK p : p = l[i]
    OBVIOUS
  <2>2. PICK x, y : x = Deref(h, k, p) /\ y = Deref(g, k, p)
    OBVIOUS
  <2>3. Kept(k, x, y)
    BY <2>1, <2>2, KeptDeref
  <2>4. Pathless(x) <=> Pathless(y)
    BY <1>1, <2>3, KeptForm
  <2>5. QED
    BY <2>1, <2>2, <2>4
<1>2. QED
  BY <1>1 DEF NonePathless

\* Finalizing runs twice.
Twice(h, k, list) == FinalizeList(h, k, FinalizeList(h, k, list).list).list

\* The settings and lists that loading makes of the files' blocks and the
\* flags', and what it finalizes.
LEMMA LoadConfigsForm ==
    ASSUME NEW read, NEW set, NEW c, AreBlocks(read.blocks), AreBlocks(c),
           NEW start, start = Blocks(read.blocks, c),
           NEW l, l = AllOf(read.blocks, c), NEW r, r = loadConfigs(read, set, c)
    PROVE  /\ r.set = FinalizeSettings(Over(set, read.set), environ)
           /\ IsHeap(r.heap) /\ KeptHeap(r.heap, start) /\ AreLists(r.lists, start)
           /\ \A k \in Kinds :
                /\ Len(r.lists[k]) = Len(l[k])
                /\ \A i \in 1..Len(l[k]) : \E j \in 1..Len(l[k]) : r.lists[k][i] = l[k][j]
                /\ NonePathless(start, k, l[k]) => r.lists[k] = l[k]
                /\ r.lists[k] = Twice(start, k, l[k])
<1>1. PICK x : x = FinalizeLists([lists |-> l, heap |-> start])
  OBVIOUS
<1>2. x = [lists |-> x.lists, heap |-> x.heap]
  BY <1>1 DEF FinalizeLists
<1>3. PICK y : y = FinalizeLists([lists |-> x.lists, heap |-> x.heap])
  OBVIOUS
<1>4. PICK b : b = read.blocks
  OBVIOUS
<1>5. l = [k \in Kinds |-> Pointers("own", b[k]) \o Pointers("cli", c[k])]
      /\ start = [own |-> b, cli |-> c]
  BY <1>4 DEF AllOf, Blocks
<1>6. r = [set |-> FinalizeSettings(Over(set, read.set), environ),
           lists |-> FinalizeLists(FinalizeLists([lists |-> l, heap |-> start])).lists,
           heap |-> FinalizeLists(FinalizeLists([lists |-> l, heap |-> start])).heap]
  BY <1>4, <1>5 DEF loadConfigs
<1>7. r.set = FinalizeSettings(Over(set, read.set), environ) /\ r.lists = y.lists /\ r.heap = y.heap
  <2>1. FinalizeLists(FinalizeLists([lists |-> l, heap |-> start])) = y
    BY <1>1, <1>2, <1>3, Zenon
  <2>2. QED
    BY <1>6, <2>1
<1>8. IsHeap(start) /\ AreLists(l, start)
  <2>1. AreBlocks(b)
    BY <1>4
  <2>2. start = Blocks(b, c) /\ l = AllOf(b, c)
    BY <1>4
  <2>3. AreAll(b, c, start, l)
    BY <2>1, <2>2, AllOfForm, Zenon
  <2>4. QED
    BY <2>3 DEF AreAll
<1>9. AreFinalized(l, start, x)
  BY <1>1, <1>8, FinalizeListsForm, Zenon
<1>10. PICK m, g : m = x.lists /\ g = x.heap
  OBVIOUS
<1>11. AreFinalized(m, g, y)
  <2>1. IsHeap(g) /\ AreLists(m, g) /\ y = FinalizeLists([lists |-> m, heap |-> g])
    BY <1>3, <1>9, <1>10 DEF AreFinalized
  <2>2. QED
    BY <2>1, FinalizeListsForm, Zenon
<1>12. KeptHeap(g, start)
  BY <1>9, <1>10 DEF AreFinalized
<1>13. KeptHeap(y.heap, start)
  BY <1>11, <1>12, KeptHeapForm DEF AreFinalized
<1>14. AreLists(y.lists, start) /\ AreLists(m, start)
  <2>1. PICK n, e : n = y.lists /\ e = y.heap
    OBVIOUS
  <2>2. AreLists(n, e) /\ KeptHeap(e, start) /\ AreLists(m, g)
    BY <1>9, <1>10, <1>11, <1>13, <2>1 DEF AreFinalized
  <2>3. AreLists(n, start) /\ AreLists(m, start)
    BY <1>12, <2>2, KeptLeads
  <2>4. QED
    BY <2>1, <2>3
<1>15. ASSUME NEW k \in Kinds
       PROVE  /\ Len(y.lists[k]) = Len(l[k])
              /\ \A i \in 1..Len(l[k]) : \E j \in 1..Len(l[k]) : y.lists[k][i] = l[k][j]
              /\ NonePathless(start, k, l[k]) => y.lists[k] = l[k]
              /\ y.lists[k] = FinalizeList(start, k, FinalizeList(start, k, l[k]).list).list
  <2>1. PICK u : u = m[k]
    OBVIOUS
  <2>2. IsSeq(u) /\ \A i \in 1..Len(u) : Leads(start, k, u[i])
    BY <1>14, <2>1 DEF AreLists, AreBlocks
  <2>3. KeptHeap(start, start)
    BY KeptHeapForm
  <2>4. FinalizeList(g, k, u) = FinalizeList(start, k, u)
        /\ (NonePathless(g, k, u) <=> NonePathless(start, k, u))
    BY <1>12, <2>2, <2>3, FinalizeListSame
  <2>5. y.lists[k] = FinalizeList(start, k, u).list
    BY <1>11, <2>1, <2>4 DEF AreFinalized
  <2>6. u = FinalizeList(start, k, l[k]).list
    BY <1>9, <1>10, <2>1 DEF AreFinalized
  <2>7. Len(u) = Len(l[k]) /\ Len(y.lists[k]) = Len(u)
    BY <1>9, <1>10, <1>11, <2>1 DEF AreFinalized
  <2>8. \A i \in 1..Len(l[k]) : \E j \in 1..Len(l[k]) : y.lists[k][i] = l[k][j]
    <3>1. \A i \in 1..Len(l[k]) : \E j \in 1..Len(l[k]) : u[i] = l[k][j]
      BY <1>9, <1>10, <2>1 DEF AreFinalized
    <3>2. \A i \in 1..Len(u) : \E j \in 1..Len(u) : y.lists[k][i] = u[j]
      BY <1>11, <2>1 DEF AreFinalized
    <3>3. QED
      BY <2>7, <3>1, <3>2
  <2>9. ASSUME NonePathless(start, k, l[k]) PROVE y.lists[k] = l[k]
    <3>1. u = l[k]
      BY <1>9, <1>10, <2>1, <2>9 DEF AreFinalized
    <3>2. NonePathless(g, k, u)
      BY <2>4, <2>9, <3>1
    <3>3. QED
      BY <1>11, <2>1, <3>1, <3>2 DEF AreFinalized
  <2>10. QED
    BY <2>5, <2>6, <2>7, <2>8, <2>9
<1>16. QED
  BY <1>7, <1>11, <1>13, <1>14, <1>15 DEF AreFinalized, Twice

\* Loading again from flags' blocks that were finalized meanwhile makes the same
\* lists.
LEMMA LoadConfigsSame ==
    ASSUME NEW b, NEW c, NEW d, AreBlocks(b), AreBlocks(c), AreBlocks(d),
           \A k \in Kinds : /\ Len(d[k]) = Len(c[k])
                            /\ \A i \in 1..Len(c[k]) : Kept(k, d[k][i], c[k][i])
    PROVE  /\ KeptHeap(Blocks(b, d), Blocks(b, c))
           /\ AllOf(b, d) = AllOf(b, c)
           /\ \A k \in Kinds : Twice(Blocks(b, d), k, AllOf(b, d)[k]) =
                              Twice(Blocks(b, c), k, AllOf(b, c)[k])
<1>1. PICK g, h, l : g = Blocks(b, d) /\ h = Blocks(b, c) /\ l = AllOf(b, c)
  OBVIOUS
<1>2. AreAll(b, c, h, l) /\ AreAll(b, d, g, AllOf(b, d))
  BY <1>1, AllOfForm, Zenon
<1>3. /\ IsHeap(h) /\ h["own"] = b /\ h["cli"] = c /\ AreLists(l, h)
      /\ IsHeap(g) /\ g["own"] = b /\ g["cli"] = d
  BY <1>2 DEF AreAll
<1>4. KeptHeap(g, h)
  BY <1>3 DEF KeptHeap, Kept, Owners
<1>5. AllOf(b, d) = l
  <2>1. ASSUME NEW k \in Kinds PROVE Pointers("cli", d[k]) = Pointers("cli", c[k])
    <3>1. DOMAIN d[k] = DOMAIN c[k]
      BY SeqForm DEF AreBlocks
    <3>2. QED
      BY <3>1 DEF Pointers
  <2>2. QED
    BY <1>1, <2>1 DEF AllOf
<1>6. ASSUME NEW k \in Kinds PROVE Twice(g, k, l[k]) = Twice(h, k, l[k])
  <2>1. KeptHeap(h, h)
    BY KeptHeapForm
  <2>2. PICK u : u = l[k]
    OBVIOUS
  <2>3. IsSeq(u) /\ \A i \in 1..Len(u) : Leads(h, k, u[i])
    BY <1>3, <2>2 DEF AreLists, AreBlocks
  <2>4. FinalizeList(g, k, u) = FinalizeList(h, k, u)
    BY <1>4, <2>1, <2>3, FinalizeListSame
  <2>5. PICK v : v = FinalizeList(h, k, u).list
    OBVIOUS
  <2>6. IsSeq(v) /\ \A i \in 1..Len(v) : Leads(h, k, v[i])
    <3>1. IsFinalized(h, k, u, FinalizeList(h, k, u))
      BY <2>3, FinalizeListForm, Zenon
    <3>2. QED
      BY <2>3, <2>5, <3>1 DEF IsFinalized
  <2>7. FinalizeList(g, k, v) = FinalizeList(h, k, v)
    BY <1>4, <2>1, <2>6, FinalizeListSame
  <2>8. QED
    BY <2>2, <2>4, <2>5, <2>7 DEF Twice
<1>7. QED
  BY <1>1, <1>4, <1>5, <1>6

-----------------------------------------------------------------------------
(* The inductive invariant: types.                                           *)

ShapeInv ==
    /\ IsSeq(args) /\ IsSeq(paths)
    /\ IsFunction(cli) /\ DOMAIN cli \subseteq Settings
    /\ files = [f \in Files |-> files[f]]
    /\ \A f \in Files : IsSeq(files[f]) /\ IsSeq(loaded[f])
    /\ IsHeap(heap) /\ AreBlocks(given.blocks)

\* A program that has not ended by then accepted every flag.
PhaseInv ==
    /\ phase \in {"flags", "loading", "loaded", "logging", "running", "exited", "panicked"}
    /\ exitCode \in {NoCode, ExitCodeOK, ExitCodeParseFlagsError, ExitCodeConfigError,
                     ExitCodeRunnerError}
    /\ exitCode # NoCode <=> phase = "exited"
    /\ cfg # NoConfig => DOMAIN cfg.set = Settings
    /\ phase # "exited" => \A i \in DOMAIN args : Accepted(args[i])

After == phase \in {"loading", "loaded", "logging", "running"}

\* The flags' settings are never written to again, their blocks only finalized.
GivenInv ==
    After =>
        /\ cli = given.set
        /\ \A k \in Kinds :
             /\ Len(heap["cli"][k]) = Len(given.blocks[k])
             /\ \A i \in 1..Len(given.blocks[k]) :
                   Kept(k, heap["cli"][k][i], given.blocks[k][i])

\* What the last load read, and the blocks and pointers it started from.
Reading == FromPaths(paths, Tree, loaded)
Start == Blocks(Reading.blocks, given.blocks)
All == AllOf(Reading.blocks, given.blocks)

\* The configuration is what the files read and the flags given make, however
\* many loads there were before.
LoadedInv ==
    Configured =>
        /\ Reading.ok
        /\ cfg.set = FinalizeSettings(Over(given.set, Reading.set), environ)
        /\ AreLists(cfg.lists, Start)
        /\ \A k \in Kinds : cfg.lists[k] = Twice(Start, k, All[k])
        /\ KeptHeap(heap, Start)

\* The runner has what the configuration has, finalized again.
RunningInv ==
    /\ phase \in {"logging", "running"} => cfg.set[<<"log_level">>] \in Levels
    /\ phase = "running" => AreFinalized(cfg.lists, Start, [lists |-> runner.lists, heap |-> heap])

LoadInv == ShapeInv /\ PhaseInv /\ GivenInv /\ LoadedInv /\ RunningInv

\* Where finalizing starts from does not matter, if it is the same blocks.
LEMMA FinalizedFrom ==
    ASSUME NEW l, NEW g, NEW h, NEW r, KeptHeap(g, h), AreLists(l, h), AreFinalized(l, g, r)
    PROVE  AreFinalized(l, h, r)
<1>1. PICK m, e : m = r.lists /\ e = r.heap
  OBVIOUS
<1>2. IsHeap(e) /\ KeptHeap(e, g) /\ AreLists(m, e)
  BY <1>1 DEF AreFinalized
<1>3. KeptHeap(e, h)
  BY <1>2, KeptHeapForm
<1>4. ASSUME NEW k \in Kinds
      PROVE  /\ Len(m[k]) = Len(l[k])
             /\ m[k] = FinalizeList(h, k, l[k]).list
             /\ \A i \in 1..Len(l[k]) : \E j \in 1..Len(l[k]) : m[k][i] = l[k][j]
             /\ NonePathless(h, k, l[k]) =>
                   /\ m[k] = l[k]
                   /\ \A i \in 1..Len(l[k]) : Deref(e, k, l[k][i]) =
                          FinalizeBlock(k, Deref(h, k, l[k][i]))
  <2>1. PICK u : u = l[k]
    OBVIOUS
  <2>2. IsSeq(u) /\ \A i \in 1..Len(u) : Leads(h, k, u[i])
    BY <2>1 DEF AreLists, AreBlocks
  <2>3. KeptHeap(h, h)
    BY KeptHeapForm
  <2>4. FinalizeList(g, k, u) = FinalizeList(h, k, u)
        /\ (NonePathless(g, k, u) <=> NonePathless(h, k, u))
    BY <2>2, <2>3, FinalizeListSame
  <2>5. /\ Len(m[k]) = Len(u) /\ m[k] = FinalizeList(g, k, u).list
        /\ \A i \in 1..Len(u) : \E j \in 1..Len(u) : m[k][i] = u[j]
        /\ NonePathless(g, k, u) =>
              /\ m[k] = u
              /\ \A i \in 1..Len(u) : Deref(e, k, u[i]) = FinalizeBlock(k, Deref(g, k, u[i]))
    BY <1>1, <2>1 DEF AreFinalized
  <2>6. ASSUME NEW i \in 1..Len(u)
        PROVE  FinalizeBlock(k, Deref(g, k, u[i])) = FinalizeBlock(k, Deref(h, k, u[i]))
    <3>1. PICK p : p = u[i]
      OBVIOUS
    <3>2. PICK x, y : x = Deref(g, k, p) /\ y = Deref(h, k, p)
      OBVIOUS
    <3>3. Kept(k, x, y)
      BY <2>2, <3>1, <3>2, KeptDeref
    <3>4. FinalizeBlock(k, x) = FinalizeBlock(k, y)
      BY <3>3, KeptForm
    <3>5. QED
      BY <3>1, <3>2, <3>4
  <2>7. QED
    BY <2>1, <2>4, <2>5, <2>6
<1>5. QED
  BY <1>1, <1>2, <1>3, <1>4 DEF AreFinalized

-----------------------------------------------------------------------------
(* The steps of the program.                                                 *)

LEMMA LoadInit == ASSUME ConfigurationAssumption, Init PROVE LoadInv
<1>1. IsSeq(args) /\ IsSeq(paths) /\ IsFunction(cli) /\ DOMAIN cli \subseteq Settings
  <2>1. args = <<>> /\ paths = <<>> /\ cli = <<>>
    BY DEF Init, Nothing
  <2>2. <<>> = [s \in {} |-> <<>>[s]] /\ DOMAIN <<>> = {}
    OBVIOUS
  <2>3. IsFunction(cli) /\ DOMAIN cli \subseteq Settings
    BY <2>1, <2>2 DEF IsFunction
  <2>4. QED
    BY <2>1, <2>3, Tuples
<1>2. /\ files = [f \in Files |-> files[f]]
      /\ \A f \in Files : IsSeq(files[f]) /\ IsSeq(loaded[f])
  BY Tuples DEF Init
<1>3. AreBlocks(NoBlocks)
  BY Tuples DEF AreBlocks, NoBlocks
<1>4. IsHeap(heap) /\ AreBlocks(given.blocks)
  BY <1>3 DEF Init, IsHeap
<1>5. args = <<>> /\ phase = "flags" /\ exitCode = NoCode /\ cfg = NoConfig
  BY DEF Init
<1>6. PhaseInv
  BY <1>5 DEF PhaseInv, ConfigurationAssumption
<1>7. GivenInv /\ LoadedInv /\ RunningInv
  BY <1>5 DEF GivenInv, After, LoadedInv, Configured, RunningInv
<1>8. QED
  BY <1>1, <1>2, <1>4, <1>6, <1>7 DEF LoadInv, ShapeInv

LEMMA FlagsWriteSettings ==
    /\ \A f \in DOMAIN Targets : \A v : IsFunction(Writes(f, v)) /\ DOMAIN Writes(f, v) = Targets[f]
    /\ \A f \in DOMAIN Targets : Targets[f] \subseteq Settings
    /\ <<"exec">> \in DOMAIN Targets
<1>1. <<"exec">> \in DOMAIN Targets
  BY DEF Targets, Over, StanzaFlags
<1>2. QED
  BY <1>1 DEF Writes, IsFunction, Settings

\* What the flags' parser keeps.
LEMMA FlagsShape ==
    ASSUME ShapeInv, NEW a, \/ SetFlag(a) \/ AddBlock(a) \/ FormatService(a) \/ SetNoPrefix(a)
                            \/ AddPath(a) \/ AskVersion(a) \/ StopParsing(a)
    PROVE  ShapeInv'
<1>1. IsSeq(args') /\ UNCHANGED <<files, loaded, given>>
  <2>1. args' = Append(args, a) /\ UNCHANGED <<files, loaded, given>>
    BY DEF SetFlag, AddBlock, FormatService, SetNoPrefix, AddPath, AskVersion, StopParsing, Takes
  <2>2. IsSeq(args) /\ Appends(args, a, args')
    BY <2>1 DEF ShapeInv, Appends
  <2>3. QED
    BY <2>1, <2>2, Appended
<1>2. IsSeq(paths')
  <2>1. CASE AddPath(a)
    <3>1. IsSeq(paths) /\ Appends(paths, a.value, paths')
      BY <2>1 DEF AddPath, ShapeInv, Appends
    <3>2. QED
      BY <3>1, Appended
  <2>2. CASE ~AddPath(a)
    BY <2>2 DEF ShapeInv, SetFlag, AddBlock, FormatService, SetNoPrefix, AskVersion, StopParsing, flagVars
  <2>3. QED
    BY <2>1, <2>2
<1>3. IsFunction(cli') /\ DOMAIN cli' \subseteq Settings
  <2>1. CASE SetFlag(a)
    <3>1. PICK w : w = Writes(a.flag, a.value)
      OBVIOUS
    <3>2. cli' = Over(w, cli) /\ DOMAIN w \subseteq Settings
      BY <2>1, <3>1, FlagsWriteSettings DEF SetFlag
    <3>3. QED
      BY <3>2, OverForm DEF ShapeInv
  <2>2. CASE ~SetFlag(a)
    BY <2>2 DEF ShapeInv, AddBlock, FormatService, SetNoPrefix, AddPath, AskVersion, StopParsing, flagVars
  <2>3. QED
    BY <2>1, <2>2
<1>4. IsHeap(heap')
  <2>1. IsHeap(heap) /\ AreBlocks(heap["cli"]) /\ AreBlocks(heap["own"])
    BY DEF ShapeInv, IsHeap, Owners
  <2>2. ASSUME NEW k \in Kinds, NEW s, IsSeq(s), heap' = [heap EXCEPT !.cli[k] = s]
        PROVE  IsHeap(heap')
    <3>1. /\ heap' = [o \in Owners |-> heap'[o]] /\ heap'["own"] = heap["own"]
          /\ heap'["cli"] = [j \in Kinds |-> heap'["cli"][j]]
          /\ heap'["cli"][k] = s
          /\ \A j \in Kinds : j # k => heap'["cli"][j] = heap["cli"][j]
      BY <2>1, <2>2 DEF IsHeap, AreBlocks, Owners
    <3>2. AreBlocks(heap'["cli"])
      BY <2>1, <2>2, <3>1 DEF AreBlocks
    <3>3. QED
      BY <2>1, <3>1, <3>2 DEF IsHeap, Owners
  <2>3. CASE AddBlock(a)
    <3>1. PICK k, e : k \in Kinds /\ heap' = [heap EXCEPT !.cli[k] = Append(@, e)]
      BY <2>3 DEF AddBlock
    <3>2. PICK b, s : b = heap["cli"][k] /\ s = Append(b, e)
      OBVIOUS
    <3>3. IsSeq(s)
      <4>1. IsSeq(b) /\ Appends(b, e, s)
        BY <2>1, <3>1, <3>2 DEF Appends, AreBlocks
      <4>2. QED
        BY <4>1, Appended
    <3>4. k \in Kinds /\ heap' = [heap EXCEPT !.cli[k] = s]
      BY <3>1, <3>2
    <3>5. QED
      BY <2>2, <3>3, <3>4
  <2>4. CASE FormatService(a) /\ heap' # heap
    <3>1. PICK b : b = heap["cli"]["service"]
      OBVIOUS
    <3>2. PICK s, n : s = [b EXCEPT ![n] = Over([f \in {a.flag[2]} |-> a.value], @)]
                      /\ heap' = [heap EXCEPT !.cli["service"] = s]
      BY <2>4, <3>1 DEF FormatService
    <3>3. IsSeq(b)
      BY <2>1, <3>1 DEF AreBlocks, Kinds
    <3>4. PICK m : m = Len(b) /\ m \in Nat /\ b = [i \in 1..m |-> b[i]]
      BY <3>3, SeqForm
    <3>5. s = [i \in 1..m |-> s[i]]
      BY <3>2, <3>4
    <3>6. IsSeq(s)
      BY <3>4, <3>5, TableIsSeq
    <3>7. QED
      BY <2>2, <3>2, <3>6 DEF Kinds
  <2>5. CASE ~AddBlock(a) /\ ~(FormatService(a) /\ heap' # heap)
    BY <2>1, <2>5 DEF SetFlag, SetNoPrefix, AddPath, AskVersion, StopParsing
  <2>6. QED
    BY <2>3, <2>4, <2>5
<1>5. QED
  BY <1>1, <1>2, <1>3, <1>4 DEF ShapeInv

\* What the flags' parser does to the rest of the state.
LEMMA FlagsPhase ==
    ASSUME ConfigurationAssumption, LoadInv, phase = "flags", NEW a,
           \/ SetFlag(a) \/ AddBlock(a) \/ FormatService(a) \/ SetNoPrefix(a)
           \/ AddPath(a) \/ AskVersion(a) \/ StopParsing(a)
    PROVE  PhaseInv' /\ GivenInv' /\ LoadedInv' /\ RunningInv'
<1>1. cfg' = cfg /\ args' = Append(args, a)
  BY DEF SetFlag, AddBlock, FormatService, SetNoPrefix, AddPath, AskVersion, StopParsing, Takes
<1>2. CASE StopParsing(a)
  <2>1. phase' = "exited" /\ exitCode' \in {ExitCodeOK, ExitCodeParseFlagsError}
    BY <1>2 DEF StopParsing
  <2>2. QED
    BY <1>1, <2>1 DEF LoadInv, PhaseInv, ConfigurationAssumption, GivenInv, LoadedInv, RunningInv,
        After, Configured
<1>3. CASE ~StopParsing(a)
  <2>1. phase' \in {"flags", "panicked"} /\ exitCode' = exitCode
    BY <1>3 DEF SetFlag, AddBlock, FormatService, SetNoPrefix, AddPath, AskVersion
  <2>2. Accepted(a)
    <3>1. CASE SetFlag(a) \/ SetNoPrefix(a)
      BY <3>1 DEF SetFlag, SetNoPrefix
    <3>2. CASE AddBlock(a) \/ FormatService(a) \/ AddPath(a) \/ AskVersion(a)
      <4>1. a.flag \in {<<"prefix">>, <<"secret">>, <<"config">>, <<"version">>}
            \/ \E f \in {"query"} \cup Fields("service") : a.flag = <<"service", f>>
        BY <3>2 DEF AddBlock, FormatService, AddPath, AskVersion, IsFormat, FormatFields, Kinds
      <4>2. a.flag[Len(a.flag)] \in {"prefix", "secret", "config", "version", "query"}
                                    \cup Fields("service")
        <5>1. ASSUME NEW f \in {"prefix", "secret", "config", "version"}, a.flag = <<f>>
              PROVE  a.flag[Len(a.flag)] = f
          BY <5>1, Tuples
        <5>2. ASSUME NEW f \in {"query"} \cup Fields("service"), a.flag = <<"service", f>>
              PROVE  a.flag[Len(a.flag)] = f
          BY <5>2
        <5>3. QED
          BY <4>1, <5>1, <5>2
      <4>3. a.flag \notin Typed
        BY <4>2 DEF Typed, Fields
      <4>4. QED
        BY <4>3 DEF Accepted
    <3>3. QED
      BY <1>3, <3>1, <3>2
  <2>3. \A i \in DOMAIN args' : Accepted(args'[i])
    <3>1. IsSeq(args) /\ Appends(args, a, args')
      BY <1>1 DEF LoadInv, ShapeInv, Appends
    <3>2. PICK n : n = Len(args) /\ n \in Nat /\ DOMAIN args = 1..n
      BY <3>1, SeqForm
    <3>3. /\ IsSeq(args') /\ Len(args') = n + 1 /\ args'[n + 1] = a
          /\ \A i \in 1..n : args'[i] = args[i]
      BY <3>1, <3>2, Appended
    <3>4. DOMAIN args' = 1..n + 1
      BY <3>3, SeqForm
    <3>5. \A i \in 1..n : Accepted(args[i])
      BY <3>2 DEF LoadInv, PhaseInv
    <3>6. ASSUME NEW i \in 1..n + 1 PROVE Accepted(args'[i])
      <4>1. CASE i = n + 1
        BY <2>2, <3>3, <4>1
      <4>2. CASE i # n + 1
        <5>1. i \in 1..n
          BY <3>2, <4>2
        <5>2. QED
          BY <3>3, <3>5, <5>1
      <4>3. QED
        BY <4>1, <4>2
    <3>7. QED
      BY <3>4, <3>6
  <2>4. QED
    <3>1. exitCode = NoCode
      BY DEF LoadInv, PhaseInv
    <3>2. PhaseInv'
      BY <1>1, <2>1, <2>3, <3>1 DEF LoadInv, PhaseInv
    <3>3. QED
      BY <2>1, <3>2 DEF GivenInv, LoadedInv, RunningInv, After, Configured
<1>4. QED
  BY <1>2, <1>3

LEMMA EndFlagsLoad ==
    ASSUME LoadInv, phase = "flags", NEW w, EndFlags(w)
    PROVE  LoadInv'
<1>1. PICK b, c : b = heap["cli"] /\ c = NoPrefixed(b)
  OBVIOUS
<1>2. AreBlocks(b)
  BY <1>1 DEF LoadInv, ShapeInv, IsHeap, Owners
<1>3. AreBlocks(c)
  <2>1. ASSUME NEW k \in Kinds PROVE IsSeq(c[k])
    <3>1. PICK s, n : s = b[k] /\ n = Len(s) /\ n \in Nat /\ DOMAIN s = 1..n /\ IsSeq(s)
      BY <1>2, SeqForm DEF AreBlocks
    <3>2. PICK t : t = [i \in 1..n |-> Over([no_prefix |-> noPrefix], s[i])]
      OBVIOUS
    <3>3. c[k] = s \/ c[k] = t
      BY <1>1, <3>1, <3>2 DEF NoPrefixed
    <3>4. t = [i \in 1..n |-> t[i]]
      BY <3>2
    <3>5. IsSeq(t)
      BY <3>1, <3>4, TableIsSeq
    <3>6. QED
      BY <3>1, <3>3, <3>5
  <2>2. c = [k \in Kinds |-> c[k]]
    BY <1>1 DEF NoPrefixed
  <2>3. QED
    BY <2>1, <2>2 DEF AreBlocks
<1>4. /\ given'.blocks = c /\ given'.set = cli' /\ heap' = [heap EXCEPT !.cli = c]
      /\ phase' = "loading" /\ UNCHANGED <<args, paths, files, loaded, exitCode, cfg>>
  BY <1>1 DEF EndFlags
<1>5. heap'["cli"] = c /\ IsHeap(heap')
  <2>1. heap = [o \in Owners |-> heap[o]] /\ AreBlocks(heap["own"])
    BY DEF LoadInv, ShapeInv, IsHeap, Owners
  <2>2. heap' = [o \in Owners |-> heap'[o]] /\ heap'["own"] = heap["own"] /\ heap'["cli"] = c
    BY <1>4, <2>1 DEF Owners
  <2>3. QED
    BY <1>3, <2>1, <2>2 DEF IsHeap, Owners
<1>6. IsFunction(cli') /\ DOMAIN cli' \subseteq Settings
  <2>1. PICK command : cli' = Over(command, cli) /\ (command = Nothing \/ command = Writes(<<"exec">>, w))
    BY DEF EndFlags
  <2>2. DOMAIN command \subseteq Settings
    <3>1. DOMAIN Nothing = {}
      BY DEF Nothing
    <3>2. QED
      BY <2>1, <3>1, FlagsWriteSettings
  <2>3. QED
    BY <2>1, <2>2, OverForm DEF LoadInv, ShapeInv
<1>7. ShapeInv'
  BY <1>3, <1>4, <1>5, <1>6 DEF LoadInv, ShapeInv
<1>8. PhaseInv'
  BY <1>4 DEF LoadInv, PhaseInv
<1>9. GivenInv'
  BY <1>4, <1>5 DEF GivenInv, Kept
<1>10. LoadedInv' /\ RunningInv'
  BY <1>4 DEF LoadedInv, RunningInv, Configured
<1>11. QED
  BY <1>7, <1>8, <1>9, <1>10 DEF LoadInv

LEMMA ReadIsConfig ==
    ASSUME ConfigurationAssumption, ShapeInv
    PROVE  IsConfig(Read) /\ IsConfig(Reading)
<1>1. IsSeq(paths) /\ Tree \in [DOMAIN Tree -> Seq(Files)]
      /\ (\A f \in Files : IsSeq(files[f])) /\ (\A f \in Files : IsSeq(loaded[f]))
  BY DEF ShapeInv, ConfigurationAssumption
<1>2. QED
  BY <1>1, FromPathsForm DEF Read, Reading

LEMMA LoadConfigsLoad ==
    ASSUME ConfigurationAssumption, LoadInv, LoadConfigs
    PROVE  LoadInv'
<1>1. PICK read, c, d : read = Read /\ c = given.blocks /\ d = heap["cli"]
  OBVIOUS
<1>2. PICK r : r = loadConfigs(read, cli, d)
  OBVIOUS
<1>3. /\ phase = "loading" /\ phase' = "loaded" /\ loaded' = files /\ read.ok
      /\ cfg' = [set |-> r.set, lists |-> r.lists] /\ heap' = r.heap
      /\ UNCHANGED <<args, cli, paths, environ, files, exitCode, given>>
  BY <1>1, <1>2 DEF LoadConfigs, flagVars
<1>4. IsConfig(read) /\ AreBlocks(read.blocks) /\ AreBlocks(c) /\ AreBlocks(d)
  <2>1. IsConfig(read)
    BY <1>1, ReadIsConfig DEF LoadInv
  <2>2. AreBlocks(c) /\ AreBlocks(d)
    BY <1>1 DEF LoadInv, ShapeInv, IsHeap, Owners
  <2>3. QED
    BY <2>1, <2>2 DEF IsConfig
<1>5. PICK b : b = read.blocks
  OBVIOUS
<1>6. Reading' = read /\ Start' = Blocks(b, c) /\ All' = AllOf(b, c)
  BY <1>1, <1>3, <1>5 DEF Reading, Read, Start, All
<1>7. cli = given.set /\ \A k \in Kinds : /\ Len(d[k]) = Len(c[k])
                        /\ \A i \in 1..Len(c[k]) : Kept(k, d[k][i], c[k][i])
  BY <1>1, <1>3 DEF LoadInv, GivenInv, After
<1>8. PICK start, old, l : start = Blocks(b, d) /\ old = Blocks(b, c) /\ l = AllOf(b, d)
  OBVIOUS
<1>9. /\ KeptHeap(start, old) /\ l = AllOf(b, c)
      /\ \A k \in Kinds : Twice(start, k, l[k]) = Twice(old, k, l[k])
  <2>1. AreBlocks(b)
    BY <1>4, <1>5
  <2>2. /\ KeptHeap(Blocks(b, d), Blocks(b, c)) /\ AllOf(b, d) = AllOf(b, c)
        /\ \A k \in Kinds : Twice(Blocks(b, d), k, AllOf(b, d)[k]) =
                           Twice(Blocks(b, c), k, AllOf(b, c)[k])
    BY <1>4, <1>7, <2>1, LoadConfigsSame
  <2>3. QED
    BY <1>8, <2>2
<1>10. /\ r.set = FinalizeSettings(Over(cli, read.set), environ)
       /\ IsHeap(r.heap) /\ KeptHeap(r.heap, start) /\ AreLists(r.lists, start)
       /\ \A k \in Kinds : r.lists[k] = Twice(start, k, l[k])
  BY <1>2, <1>4, <1>5, <1>8, LoadConfigsForm
<1>11. PICK g, m : g = r.heap /\ m = r.lists
  OBVIOUS
<1>12. IsHeap(g) /\ KeptHeap(g, start) /\ AreLists(m, start)
       /\ \A k \in Kinds : m[k] = Twice(start, k, l[k])
  BY <1>10, <1>11
<1>13. KeptHeap(g, old) /\ AreLists(m, old)
  BY <1>9, <1>12, KeptHeapForm, KeptLeads
<1>14. heap' = g /\ cfg'.lists = m /\ cfg'.set = FinalizeSettings(Over(given.set, read.set), environ)
  BY <1>3, <1>7, <1>10, <1>11
<1>15. LoadedInv'
  <2>1. \A k \in Kinds : cfg'.lists[k] = Twice(old, k, l[k])
    BY <1>9, <1>12, <1>14
  <2>2. Start' = old /\ All' = l /\ Reading' = read
    BY <1>6, <1>8, <1>9
  <2>3. QED
    BY <1>3, <1>13, <1>14, <2>1, <2>2 DEF LoadedInv
<1>16. GivenInv'
  <2>1. AreAll(b, c, old, AllOf(b, c))
    BY <1>4, <1>5, <1>8, AllOfForm, Zenon
  <2>2. old["cli"] = c
    BY <2>1 DEF AreAll
  <2>3. \A k \in Kinds : /\ Len(g["cli"][k]) = Len(c[k])
                         /\ \A i \in 1..Len(c[k]) : Kept(k, g["cli"][k][i], c[k][i])
    BY <1>13, <2>2 DEF KeptHeap, Owners
  <2>4. QED
    BY <1>1, <1>3, <1>7, <1>14, <2>3 DEF GivenInv
<1>17. ShapeInv'
  BY <1>3, <1>12, <1>14 DEF LoadInv, ShapeInv
<1>18. PhaseInv'
  <2>1. DOMAIN cfg'.set = Settings
    BY <1>14 DEF FinalizeSettings
  <2>2. QED
    BY <1>3, <2>1 DEF LoadInv, PhaseInv
<1>19. RunningInv'
  BY <1>3 DEF RunningInv
<1>20. QED
  BY <1>15, <1>16, <1>17, <1>18, <1>19 DEF LoadInv

LEMMA NewRunnerLoad ==
    ASSUME ConfigurationAssumption, LoadInv, NewRunner
    PROVE  LoadInv'
<1>1. PICK l, r : l = cfg.lists /\ r = FinalizeLists([lists |-> l, heap |-> heap])
  OBVIOUS
<1>2. /\ phase = "logging" /\ heap' = r.heap
      /\ \/ phase' = "exited" /\ exitCode' = ExitCodeRunnerError
         \/ phase' = "running" /\ exitCode' = exitCode /\ runner' = [lists |-> r.lists]
      /\ UNCHANGED <<args, cli, paths, environ, files, cfg, given, loaded>>
  BY <1>1 DEF NewRunner, Initialized, Exit, flagVars
<1>3. IsHeap(heap) /\ KeptHeap(heap, Start) /\ AreLists(l, Start)
  BY <1>1, <1>2 DEF LoadInv, ShapeInv, LoadedInv, Configured
<1>4. AreLists(l, heap)
  BY <1>3, KeptLeads
<1>5. AreFinalized(l, heap, r)
  BY <1>1, <1>3, <1>4, FinalizeListsForm, Zenon
<1>6. AreFinalized(l, Start, r)
  BY <1>3, <1>5, FinalizedFrom, Zenon
<1>7. IsHeap(heap') /\ KeptHeap(heap', Start) /\ KeptHeap(heap', heap)
  BY <1>2, <1>5, <1>6 DEF AreFinalized
<1>8. Start' = Start /\ All' = All /\ Reading' = Reading
  BY <1>2 DEF Start, All, Reading
<1>9. ShapeInv'
  BY <1>2, <1>7 DEF LoadInv, ShapeInv
<1>10. PhaseInv'
  BY <1>2 DEF LoadInv, PhaseInv, ConfigurationAssumption
<1>11. GivenInv'
  <2>1. PICK c, d, e : c = given.blocks /\ d = heap["cli"] /\ e = heap'["cli"]
    OBVIOUS
  <2>2. cli = given.set /\ \A k \in Kinds : /\ Len(d[k]) = Len(c[k])
                        /\ \A i \in 1..Len(c[k]) : Kept(k, d[k][i], c[k][i])
    BY <1>2, <2>1 DEF LoadInv, GivenInv, After
  <2>3. \A k \in Kinds : /\ Len(e[k]) = Len(d[k])
                         /\ \A i \in 1..Len(d[k]) : Kept(k, e[k][i], d[k][i])
    BY <1>7, <2>1 DEF KeptHeap, Owners
  <2>4. \A k \in Kinds : /\ Len(e[k]) = Len(c[k])
                         /\ \A i \in 1..Len(c[k]) : Kept(k, e[k][i], c[k][i])
    <3>1. ASSUME NEW k \in Kinds, NEW i \in 1..Len(c[k]) PROVE Kept(k, e[k][i], c[k][i])
      <4>1. PICK x, y, z : x = e[k][i] /\ y = d[k][i] /\ z = c[k][i]
        OBVIOUS
      <4>2. Kept(k, x, y) /\ Kept(k, y, z)
        BY <2>2, <2>3, <4>1
      <4>3. Kept(k, x, z)
        BY <4>2, KeptTransitive
      <4>4. QED
        BY <4>1, <4>3
    <3>2. QED
      BY <2>2, <2>3, <3>1
  <2>5. QED
    BY <1>2, <2>1, <2>2, <2>4 DEF GivenInv
<1>12. LoadedInv'
  BY <1>2, <1>7, <1>8 DEF LoadInv, LoadedInv, Configured
<1>13. RunningInv'
  <2>1. CASE phase' = "exited"
    BY <2>1 DEF RunningInv
  <2>2. CASE phase' = "running" /\ runner' = [lists |-> r.lists]
    <3>1. [lists |-> runner'.lists, heap |-> heap'] = [lists |-> r.lists, heap |-> r.heap]
      BY <1>2, <2>2
    <3>2. r = [lists |-> r.lists, heap |-> r.heap]
      BY <1>1 DEF FinalizeLists
    <3>3. AreFinalized(cfg'.lists, Start', [lists |-> runner'.lists, heap |-> heap'])
      BY <1>1, <1>2, <1>6, <1>8, <3>1, <3>2
    <3>4. cfg'.set[<<"log_level">>] \in Levels
      BY <1>2 DEF LoadInv, RunningInv
    <3>5. QED
      BY <3>3, <3>4 DEF RunningInv
  <2>3. QED
    BY <1>2, <2>1, <2>2
<1>14. QED
  BY <1>9, <1>10, <1>11, <1>12, <1>13 DEF LoadInv

\* What leaves the blocks, the configuration and what was read as they are.
LEMMA SameLoad ==
    ASSUME LoadInv, UNCHANGED <<args, cli, paths, environ, heap, cfg, given, loaded>>,
           files' = [f \in Files |-> files'[f]], \A f \in Files : IsSeq(files'[f]),
           PhaseInv',
           After' => After, Configured' => Configured,
           phase' \in {"logging", "running"} => cfg.set[<<"log_level">>] \in Levels,
           phase' = "running" => phase = "running" /\ runner' = runner
    PROVE  LoadInv'
<1>1. Start' = Start /\ All' = All /\ Reading' = Reading
  BY DEF Start, All, Reading
<1>2. ShapeInv'
  BY DEF LoadInv, ShapeInv
<1>3. GivenInv'
  <2>1. After' => /\ cli' = given'.set
                  /\ \A k \in Kinds :
                       /\ Len(heap'["cli"][k]) = Len(given'.blocks[k])
                       /\ \A i \in 1..Len(given'.blocks[k]) :
                             Kept(k, heap'["cli"][k][i], given'.blocks[k][i])
    BY DEF LoadInv, GivenInv
  <2>2. QED
    BY <2>1 DEF GivenInv
<1>4. LoadedInv'
  BY <1>1 DEF LoadInv, LoadedInv
<1>5. RunningInv'
  BY <1>1 DEF LoadInv, RunningInv
<1>6. QED
  BY <1>2, <1>3, <1>4, <1>5 DEF LoadInv

LEMMA EditFiles ==
    ASSUME ShapeInv, NEW f \in Files, Edit(f)
    PROVE  files' = [g \in Files |-> files'[g]] /\ \A g \in Files : IsSeq(files'[g])
<1>1. PICK s : s = files[f]
  OBVIOUS
<1>2. IsSeq(s) /\ files = [g \in Files |-> files[g]]
  BY <1>1 DEF ShapeInv
<1>3. PICK t : files' = [files EXCEPT ![f] = t] /\ IsSeq(t)
  <2>1. ASSUME NEW stmt, files' = [files EXCEPT ![f] = Append(@, stmt)]
        PROVE  \E t : files' = [files EXCEPT ![f] = t] /\ IsSeq(t)
    <3>1. PICK t : t = Append(s, stmt)
      OBVIOUS
    <3>2. Appends(s, stmt, t)
      BY <3>1 DEF Appends
    <3>3. IsSeq(t)
      BY <1>2, <3>2, Appended
    <3>4. files' = [files EXCEPT ![f] = t]
      BY <1>1, <2>1, <3>1
    <3>5. QED
      BY <3>3, <3>4
  <2>2. ASSUME s # <<>>, files' = [files EXCEPT ![f] = Front(@)]
        PROVE  \E t : files' = [files EXCEPT ![f] = t] /\ IsSeq(t)
    <3>1. PICK n : n = Len(s) /\ n \in Nat /\ s = [i \in 1..n |-> s[i]]
      BY <1>2, SeqForm
    <3>2. n # 0
      BY <1>2, <2>2, <3>1, SeqsEqual, Tuples
    <3>3. PICK t : t = Front(s)
      OBVIOUS
    <3>4. t = [i \in 1..n - 1 |-> s[i]]
      BY <3>1, <3>2, <3>3 DEF Front
    <3>5. t = [i \in 1..n - 1 |-> t[i]]
      BY <3>4
    <3>6. n - 1 \in Nat
      BY <3>1, <3>2
    <3>7. IsSeq(t)
      BY <3>5, <3>6, TableIsSeq
    <3>8. files' = [files EXCEPT ![f] = t]
      BY <1>1, <2>2, <3>3
    <3>9. QED
      BY <3>7, <3>8
  <2>3. QED
    BY <1>1, <2>1, <2>2 DEF Edit
<1>4. QED
  BY <1>2, <1>3 DEF ShapeInv

LEMMA LoadStep ==
    ASSUME ConfigurationAssumption, LoadInv, [Next]_vars
    PROVE  LoadInv'
<1>1. ASSUME phase = "flags", NEW a \in Arguments,
             \/ SetFlag(a) \/ AddBlock(a) \/ FormatService(a) \/ SetNoPrefix(a)
             \/ AddPath(a) \/ AskVersion(a) \/ StopParsing(a)
      PROVE  LoadInv'
  <2>1. ShapeInv'
    BY <1>1, FlagsShape DEF LoadInv
  <2>2. PhaseInv' /\ GivenInv' /\ LoadedInv' /\ RunningInv'
    BY <1>1, FlagsPhase
  <2>3. QED
    BY <2>1, <2>2 DEF LoadInv
<1>2. ASSUME phase = "flags", NEW w \in Words, EndFlags(w) PROVE LoadInv'
  BY <1>2, EndFlagsLoad
<1>3. CASE LoadConfigs
  BY <1>3, LoadConfigsLoad
<1>4. CASE LoadFails \/ LoggerFails \/ EndBeforeRunner
  <2>1. /\ phase' = "exited" /\ exitCode' \in {ExitCodeOK, ExitCodeConfigError}
        /\ UNCHANGED <<args, cli, paths, environ, files, heap, cfg, given, loaded>>
    BY <1>4 DEF LoadFails, LoggerFails, EndBeforeRunner, Exit, flagVars
  <2>2. PhaseInv'
    BY <2>1 DEF LoadInv, PhaseInv, ConfigurationAssumption
  <2>3. QED
    BY <2>1, <2>2, SameLoad DEF LoadInv, ShapeInv, After, Configured
<1>5. CASE SetupLogger
  <2>1. /\ phase = "loaded" /\ phase' = "logging" /\ cfg.set[<<"log_level">>] \in Levels
        /\ UNCHANGED <<args, cli, paths, environ, files, heap, cfg, given, loaded, exitCode>>
    BY <1>5 DEF SetupLogger, flagVars
  <2>2. PhaseInv'
    BY <2>1 DEF LoadInv, PhaseInv
  <2>3. QED
    BY <2>1, <2>2, SameLoad DEF LoadInv, ShapeInv, After, Configured
<1>6. CASE NewRunner
  BY <1>6, NewRunnerLoad
<1>7. CASE Reload
  <2>1. /\ phase = "running" /\ phase' = "loading"
        /\ UNCHANGED <<args, cli, paths, environ, files, heap, cfg, given, loaded, exitCode>>
    BY <1>7 DEF Reload, flagVars
  <2>2. PhaseInv'
    BY <2>1 DEF LoadInv, PhaseInv
  <2>3. QED
    BY <2>1, <2>2, SameLoad DEF LoadInv, ShapeInv, After, Configured
<1>8. ASSUME NEW f \in Files, Edit(f) PROVE LoadInv'
  <2>1. UNCHANGED <<phase, args, cli, paths, environ, heap, cfg, runner, given, loaded, exitCode>>
    BY <1>8 DEF Edit, flagVars
  <2>2. files' = [g \in Files |-> files'[g]] /\ \A g \in Files : IsSeq(files'[g])
    BY <1>8, EditFiles DEF LoadInv
  <2>3. PhaseInv'
    BY <2>1 DEF LoadInv, PhaseInv
  <2>4. phase' \in {"logging", "running"} => cfg.set[<<"log_level">>] \in Levels
    BY <2>1 DEF LoadInv, RunningInv
  <2>5. QED
    BY <2>1, <2>2, <2>3, <2>4, SameLoad DEF After, Configured
<1>9. CASE UNCHANGED vars
  <2>1. UNCHANGED <<phase, args, cli, paths, environ, files, heap, cfg, runner, given, loaded, exitCode>>
    BY <1>9 DEF vars
  <2>2. PhaseInv'
    BY <2>1 DEF LoadInv, PhaseInv
  <2>3. phase' \in {"logging", "running"} => cfg.set[<<"log_level">>] \in Levels
    BY <2>1 DEF LoadInv, RunningInv
  <2>4. QED
    BY <2>1, <2>2, <2>3, SameLoad DEF LoadInv, ShapeInv, After, Configured
<1>10. QED
  BY <1>1, <1>2, <1>3, <1>4, <1>5, <1>6, <1>7, <1>8, <1>9 DEF Next, ParseFlags

\* However often the files are edited and read again, the configuration is what
\* the last load's files and the flags make of it (loadConfigs, cli.go:748), and
\* the blocks of the flags are only ever finalized.
THEOREM Loads == Spec => []LoadInv
<1>1. Init => LoadInv
  BY LoadInit, ConfigurationAssumption
<1>2. LoadInv /\ [Next]_vars => LoadInv'
  BY LoadStep, ConfigurationAssumption
<1>3. QED
  BY <1>1, <1>2, PTL DEF Spec

-----------------------------------------------------------------------------
(* What follows.                                                             *)

\* Every setting has a value once loaded and every pointer leads to a block, so
\* that what dereferences them may (Finalize, config.go:552).
THEOREM TypesCorrect == Spec => []TypeOK
<1>1. ASSUME LoadInv PROVE TypeOK
  <2>1. ASSUME Configured, NEW k \in Kinds, NEW i \in DOMAIN cfg.lists[k]
        PROVE  /\ cfg.lists[k][i].owner \in Owners
               /\ cfg.lists[k][i].at \in DOMAIN heap[cfg.lists[k][i].owner][k]
    <3>1. AreLists(cfg.lists, Start) /\ KeptHeap(heap, Start) /\ IsHeap(heap)
      BY <1>1, <2>1 DEF LoadInv, LoadedInv, ShapeInv
    <3>2. PICK l : l = cfg.lists
      OBVIOUS
    <3>3. AreLists(l, heap)
      BY <3>1, <3>2, KeptLeads
    <3>4. DOMAIN l[k] = 1..Len(l[k])
      BY <3>3, SeqForm DEF AreLists, AreBlocks
    <3>5. PICK p : p = l[k][i]
      OBVIOUS
    <3>6. Leads(heap, k, p)
      BY <2>1, <3>2, <3>3, <3>4, <3>5 DEF AreLists
    <3>7. DOMAIN heap[p.owner][k] = 1..Len(heap[p.owner][k])
      BY <3>1, <3>6, SeqForm DEF IsHeap, AreBlocks, Leads
    <3>8. QED
      BY <3>2, <3>5, <3>6, <3>7 DEF Leads
  <2>2. QED
    BY <1>1, <2>1 DEF LoadInv, PhaseInv, ShapeInv, TypeOK
<1>2. QED
  BY <1>1, Loads, PTL

\* A reload gives what a fresh start with the same arguments would, whatever was
\* loaded before ("Save original config", cli.go:90).
THEOREM ReloadsAreFresh == Spec => []AsFreshStart
<1>1. ASSUME LoadInv, Configured PROVE AsFreshStart
  <2>1. PICK fresh, read, c : read = Reading /\ c = given.blocks
                              /\ fresh = loadConfigs(read, given.set, c)
    OBVIOUS
  <2>2. /\ cfg.set = FinalizeSettings(Over(given.set, read.set), environ)
        /\ AreLists(cfg.lists, Start) /\ KeptHeap(heap, Start)
        /\ \A k \in Kinds : cfg.lists[k] = Twice(Start, k, All[k])
    BY <1>1, <2>1 DEF LoadInv, LoadedInv
  <2>3. PICK b : b = read.blocks
    OBVIOUS
  <2>4. AreBlocks(b) /\ AreBlocks(c)
    <3>1. IsConfig(read)
      BY <1>1, <2>1, ReadIsConfig, ConfigurationAssumption DEF LoadInv
    <3>2. QED
      BY <1>1, <2>1, <2>3, <3>1 DEF IsConfig, LoadInv, ShapeInv
  <2>5. PICK start, l : start = Blocks(b, c) /\ l = AllOf(b, c)
    OBVIOUS
  <2>6. Start = start /\ All = l
    BY <2>1, <2>3, <2>5 DEF Start, All
  <2>7. /\ fresh.set = FinalizeSettings(Over(given.set, read.set), environ)
        /\ KeptHeap(fresh.heap, start)
        /\ \A k \in Kinds : fresh.lists[k] = Twice(start, k, l[k])
    BY <2>1, <2>3, <2>4, <2>5, LoadConfigsForm
  <2>8. ASSUME NEW k \in Kinds
        PROVE  Meant(k, View(cfg, k)) =
                   Meant(k, [i \in DOMAIN fresh.lists[k] |->
                                Deref(fresh.heap, k, fresh.lists[k][i])])
    <3>1. PICK u, e : u = fresh.lists[k] /\ e = fresh.heap
      OBVIOUS
    <3>2. cfg.lists[k] = u
      BY <2>2, <2>6, <2>7, <3>1
    <3>3. IsSeq(u) /\ DOMAIN u = 1..Len(u) /\ \A i \in 1..Len(u) : Leads(start, k, u[i])
      BY <2>2, <2>6, <3>2, SeqForm DEF AreLists, AreBlocks
    <3>4. ASSUME NEW i \in DOMAIN u
          PROVE  FinalizeBlock(k, Deref(heap, k, u[i])) = FinalizeBlock(k, Deref(e, k, u[i]))
      <4>1. PICK p : p = u[i]
        OBVIOUS
      <4>2. PICK x, y, z : x = Deref(heap, k, p) /\ y = Deref(e, k, p)
                           /\ z = Deref(start, k, p)
        OBVIOUS
      <4>3. Leads(start, k, p) /\ KeptHeap(heap, start) /\ KeptHeap(e, start)
        BY <2>2, <2>6, <2>7, <3>1, <3>3, <4>1
      <4>4. Kept(k, x, z) /\ Kept(k, y, z)
        BY <4>2, <4>3, KeptDeref
      <4>5. FinalizeBlock(k, x) = FinalizeBlock(k, y)
        BY <4>4, KeptForm
      <4>6. QED
        BY <4>1, <4>2, <4>5
    <3>5. QED
      BY <3>1, <3>2, <3>4 DEF Meant, View
  <2>9. cfg.set = fresh.set
    BY <2>2, <2>7
  <2>10. fresh = loadConfigs(FromPaths(paths, Tree, loaded), given.set, given.blocks)
    BY <2>1 DEF Reading
  <2>11. QED
    BY <2>8, <2>9, <2>10 DEF AsFreshStart
<1>2. LoadInv => AsFreshStart
  BY <1>1 DEF AsFreshStart
<1>3. QED
  BY <1>2, Loads, PTL

\* The files a load read are those the walk comes by, and they all parse.
LEMMA ReadFiles ==
    ASSUME ConfigurationAssumption, ShapeInv, Reading.ok
    PROVE  /\ \A i \in DOMAIN paths : paths[i] \in DOMAIN Tree
           /\ IsSeq(Walk) /\ \A i \in DOMAIN Walk : Walk[i] \in Files
           /\ AllConfigs(Parsed(Walk, loaded)) /\ Len(Parsed(Walk, loaded)) = Len(Walk)
           /\ Reading = MergeAll(Parsed(Walk, loaded))
           /\ \A i \in DOMAIN Walk : /\ IsSeq(loaded[Walk[i]]) /\ Parse(loaded[Walk[i]]).ok
                                     /\ Parsed(Walk, loaded)[i] = Parse(loaded[Walk[i]])
<1>1. IsSeq(paths) /\ Tree \in [DOMAIN Tree -> Seq(Files)] /\ \A f \in Files : IsSeq(loaded[f])
  BY DEF ShapeInv, ConfigurationAssumption
<1>2. \A i \in 1..Len(paths) : paths[i] \in DOMAIN Tree
  BY <1>1, FromPathsForm DEF Reading
<1>3. DOMAIN paths = 1..Len(paths)
  BY <1>1, SeqForm
<1>4. PICK w : w = Walk
  OBVIOUS
<1>5. w = Walked(paths, Tree)
  BY <1>4 DEF Walk, Walked
<1>6. IsSeq(w) /\ \A i \in 1..Len(w) : w[i] \in Files
  BY <1>1, <1>2, <1>5, WalkedForm
<1>7. DOMAIN w = 1..Len(w)
  BY <1>6, SeqForm
<1>8. PICK cs : cs = Parsed(w, loaded)
  OBVIOUS
<1>9. /\ AllConfigs(cs) /\ Len(cs) = Len(w)
      /\ \A i \in 1..Len(w) : cs[i] = Parse(loaded[w[i]])
  BY <1>1, <1>6, <1>8, ParsedForm
<1>10. Reading = MergeAll(cs)
  BY <1>1, <1>2, <1>5, <1>8, FromPathsForm DEF Reading
<1>11. \A i \in 1..Len(w) : Parse(loaded[w[i]]).ok
  BY <1>9, <1>10, MergeAllOk
<1>12. QED
  BY <1>1, <1>2, <1>3, <1>4, <1>6, <1>7, <1>8, <1>9, <1>10, <1>11

\* Nothing invalid ever runs: what a runner's files, paths, flags and log level
\* are was checked by the load that made its configuration.
THEOREM RunnersAreValid == Spec => []RunsOnlyValid
<1>1. ASSUME LoadInv, phase = "running" PROVE RunsOnlyValid
  <2>1. ShapeInv /\ Reading.ok
    BY <1>1 DEF LoadInv, LoadedInv, Configured
  <2>2. /\ \A i \in DOMAIN paths : paths[i] \in DOMAIN Tree
        /\ \A i \in DOMAIN Walk : Parse(loaded[Walk[i]]).ok
    BY <2>1, ReadFiles, ConfigurationAssumption
  <2>3. cfg.set[<<"log_level">>] \in Levels /\ \A i \in DOMAIN args : Accepted(args[i])
    BY <1>1 DEF LoadInv, RunningInv, PhaseInv
  <2>4. QED
    BY <2>2, <2>3 DEF RunsOnlyValid
<1>2. LoadInv => RunsOnlyValid
  BY <1>1 DEF RunsOnlyValid
<1>3. QED
  BY <1>2, Loads, PTL

-----------------------------------------------------------------------------
(* The flags.                                                                *)

\* The first keys of the flags that write settings.
StanzaHeads == {"consul", "vault", "exec", "syslog", "wait", "kill_signal", "log_level",
                "max_stale", "pid_file", "pristine", "reload_signal", "sanitize", "upcase"}

Heads == StanzaHeads \cup {"auth", "retry", "splay", "ssl", "ssl_verify", "ssl_ca_cert",
                           "ssl_cert", "timeout", "token"}

LEMMA ClientKeys == \A k \in Client : IsSeq(k)
<1>1. \A k \in Client : (\E x : k = <<x>>) \/ (\E x, y : k = <<x, y>>)
  BY DEF Client
<1>2. ASSUME NEW x, NEW y PROVE IsSeq(<<x, y>>)
  <2>1. <<x, y>> \in Seq({x, y})
    OBVIOUS
  <2>2. QED
    BY <2>1 DEF IsSeq
<1>3. QED
  BY <1>1, <1>2, Tuples

LEMMA UnderForm ==
    ASSUME NEW stanza, NEW k, IsSeq(k), NEW s, s = <<stanza>> \o k
    PROVE  IsSeq(s) /\ Len(s) = Len(k) + 1 /\ s[1] = stanza
           /\ \A i \in 1..Len(k) : s[i + 1] = k[i]
<1>1. PICK t : t = <<stanza>>
  OBVIOUS
<1>2. IsSeq(t) /\ Len(t) = 1 /\ t[1] = stanza
  BY <1>1, Tuples
<1>3. Joins(t, k, s)
  BY <1>1 DEF Joins
<1>4. /\ IsSeq(s) /\ Len(s) = Len(t) + Len(k)
      /\ \A i \in 1..Len(t) : s[i] = t[i]
      /\ \A i \in 1..Len(k) : s[Len(t) + i] = k[i]
  BY <1>2, <1>3, Concatenation
<1>5. Len(k) \in Nat
  BY SeqForm
<1>6. QED
  BY <1>2, <1>4, <1>5

LEMMA FlagHeads ==
    /\ \A f \in OwnFlags : /\ f[1] \in StanzaHeads /\ f # <<"exec">>
                            /\ f # <<"exec", "enabled">> /\ f # <<"exec", "command">>
    /\ \A f \in DOMAIN Targets : f[1] \in Heads
<1>1. ASSUME NEW f \in ConsulFlags PROVE f[1] = "consul"
  <2>1. PICK k \in Client : f = <<"consul">> \o k
    BY DEF ConsulFlags, Under
  <2>2. QED
    BY <2>1, ClientKeys, UnderForm
<1>2. ASSUME NEW f \in VaultFlags PROVE f[1] = "vault"
  <2>1. PICK k : f = <<"vault">> \o k /\ (k \in Client \/ \E e : k = <<e>>)
    BY DEF VaultFlags, Under
  <2>2. IsSeq(k)
    BY <2>1, ClientKeys, Tuples
  <2>3. QED
    BY <2>1, <2>2, UnderForm
<1>3. ASSUME NEW f \in ExecFlags
      PROVE /\ f[1] = "exec" /\ f[2] \in {"kill_signal", "kill_timeout", "splay"}
            /\ f # <<"exec">>
  <2>1. PICK e \in {"kill_signal", "kill_timeout", "splay"} : f = <<"exec">> \o <<e>>
    BY DEF ExecFlags, Under
  <2>2. PICK k : k = <<e>>
    OBVIOUS
  <2>3. IsSeq(k) /\ Len(k) = 1 /\ k[1] = e
    BY <2>2, Tuples
  <2>4. f[1] = "exec" /\ Len(f) = 2 /\ \A i \in 1..Len(k) : f[i + 1] = k[i]
    BY <2>1, <2>2, <2>3, UnderForm
  <2>5. Len(<<"exec">>) = 1
    BY Tuples
  <2>6. QED
    BY <2>3, <2>4, <2>5
<1>4. ASSUME NEW f \in SyslogFlags PROVE f[1] = "syslog"
  <2>1. PICK e : f = <<"syslog">> \o <<e>>
    BY DEF SyslogFlags, Under
  <2>2. PICK k : k = <<e>>
    OBVIOUS
  <2>3. IsSeq(k)
    BY <2>2, Tuples
  <2>4. QED
    BY <2>1, <2>2, <2>3, UnderForm
<1>5. ASSUME NEW f \in TopFlags
      PROVE  f[1] \in StanzaHeads /\ f[1] # "exec"
  BY DEF TopFlags, StanzaHeads
<1>6. ASSUME NEW f \in OwnFlags
      PROVE  /\ f[1] \in StanzaHeads /\ f # <<"exec">>
             /\ f # <<"exec", "enabled">> /\ f # <<"exec", "command">>
  BY <1>1, <1>2, <1>3, <1>4, <1>5 DEF OwnFlags, StanzaHeads
<1>7. \A f \in DOMAIN StanzaFlags \cup DOMAIN DeprecatedFlags : f[1] \in Heads
  BY DEF StanzaFlags, DeprecatedFlags, Heads, StanzaHeads
<1>8. DOMAIN Targets = OwnFlags \cup (DOMAIN StanzaFlags \cup DOMAIN DeprecatedFlags)
  BY DEF Targets, Over
<1>9. QED
  BY <1>6, <1>7, <1>8 DEF Heads

\* The flags, one more given.
Grown(n, a) ==
    /\ n \in Nat /\ n = Len(args) /\ DOMAIN args = 1..n /\ DOMAIN args' = 1..n + 1
    /\ args'[n + 1] = a /\ \A i \in 1..n : args'[i] = args[i]

LEMMA FlagsGrow ==
    ASSUME IsSeq(args), NEW a, args' = Append(args, a)
    PROVE  \E n : Grown(n, a)
<1>1. PICK n : n = Len(args) /\ n \in Nat /\ DOMAIN args = 1..n
  BY SeqForm
<1>2. Appends(args, a, args')
  BY DEF Appends
<1>3. IsSeq(args') /\ Len(args') = n + 1 /\ args'[n + 1] = a /\ \A i \in 1..n : args'[i] = args[i]
  BY <1>1, <1>2, Appended
<1>4. DOMAIN args' = 1..n + 1
  BY <1>3, SeqForm
<1>5. QED
  BY <1>1, <1>3, <1>4 DEF Grown

-----------------------------------------------------------------------------
(* The names of the blocks given by flags.                                   *)

\* The blocks have these names.
NamesOf(k, blocks, names) ==
    Len(blocks) = Len(names) /\ \A i \in 1..Len(names) : NameOf(k, blocks[i]) = names[i]

\* What one flag names, and what several do.
NamedBy(k, a) ==
    IF a.flag # FlagOf(k) THEN <<>>
    ELSE <<IF k # "service" /\ a.value = "/" THEN "" ELSE a.value>>

AllNamed(k, as) == FlattenSeq([i \in DOMAIN as |-> NamedBy(k, as[i])])

LEMMA AllNamedAppend ==
    ASSUME NEW k, NEW as, IsSeq(as), NEW a, NEW bs, Appends(as, a, bs)
    PROVE  /\ IsSeq(AllNamed(k, as)) /\ IsSeq(NamedBy(k, a))
           /\ AllNamed(k, bs) = AllNamed(k, as) \o NamedBy(k, a)
<1>1. \A x : IsSeq(NamedBy(k, x))
  BY Tuples DEF NamedBy
<1>2. PICK n : n = Len(as) /\ n \in Nat /\ DOMAIN as = 1..n
  BY SeqForm
<1>3. PICK s, t, e : /\ s = [i \in DOMAIN as |-> NamedBy(k, as[i])]
                     /\ t = [i \in DOMAIN bs |-> NamedBy(k, bs[i])] /\ e = NamedBy(k, a)
  OBVIOUS
<1>4. IsSeq(s) /\ Len(s) = n
  <2>1. s = [i \in 1..n |-> s[i]]
    BY <1>2, <1>3
  <2>2. QED
    BY <1>2, <2>1, TableIsSeq
<1>5. AllSeqs(s)
  BY <1>1, <1>2, <1>3, <1>4 DEF AllSeqs
<1>6. /\ IsSeq(bs) /\ Len(bs) = n + 1 /\ bs[n + 1] = a /\ \A i \in 1..n : bs[i] = as[i]
  <2>1. IsAppended(as, a, bs)
    BY AppendedForm, Zenon
  <2>2. QED
    BY <1>2, <2>1 DEF IsAppended
<1>7. IsSeq(t) /\ Len(t) = n + 1 /\ DOMAIN bs = 1..n + 1
  <2>1. DOMAIN bs = 1..n + 1 /\ n + 1 \in Nat
    BY <1>2, <1>6, SeqForm
  <2>2. t = [i \in 1..n + 1 |-> t[i]]
    BY <1>3, <2>1
  <2>3. QED
    BY <2>1, <2>2, TableIsSeq
<1>8. t = Append(s, e)
  <2>1. PICK u : u = Append(s, e)
    OBVIOUS
  <2>2. IsSeq(u) /\ Len(u) = n + 1 /\ u[n + 1] = e /\ \A i \in 1..n : u[i] = s[i]
    <3>1. Appends(s, e, u)
      BY <2>1 DEF Appends
    <3>2. IsAppended(s, e, u)
      BY <1>4, <3>1, AppendedForm, Zenon
    <3>3. QED
      BY <1>4, <3>2 DEF IsAppended
  <2>3. ASSUME NEW i \in 1..n + 1 PROVE t[i] = u[i]
    <3>1. CASE i = n + 1
      BY <1>3, <1>6, <1>7, <2>2, <3>1
    <3>2. CASE i # n + 1
      <4>1. i \in 1..n
        <5>1. n \in Nat
          BY <1>2
        <5>2. QED
          BY <3>2, <5>1
      <4>2. QED
        BY <1>2, <1>3, <1>6, <1>7, <2>2, <4>1
    <3>3. QED
      BY <3>1, <3>2
  <2>4. QED
    BY <1>7, <2>1, <2>2, <2>3, SeqsEqual
<1>9. FlattenSeq(t) = FlattenSeq(s) \o e /\ IsSeq(FlattenSeq(s))
  BY <1>1, <1>3, <1>5, <1>8, FlattenAppend, FlattenIsSeq
<1>10. QED
  BY <1>1, <1>3, <1>9 DEF AllNamed

NamesInv ==
    \A k \in Kinds :
        /\ phase = "flags" => NamesOf(k, heap["cli"][k], FlagNames(k))
        /\ After => NamesOf(k, given.blocks[k], FlagNames(k))

LEMMA NamesAppend ==
    ASSUME NEW k, NEW b, NEW names, NEW e, NEW c, NEW x, NEW more, IsSeq(b), IsSeq(names),
           NamesOf(k, b, names), NameOf(k, e) = x, Appends(b, e, c), Joins(names, <<x>>, more)
    PROVE  NamesOf(k, c, more)
<1>1. PICK n : n = Len(b) /\ n \in Nat /\ Len(names) = n
  BY SeqForm DEF NamesOf
<1>2. Len(c) = n + 1 /\ c[n + 1] = e /\ \A i \in 1..n : c[i] = b[i]
  BY <1>1, Appended
<1>3. PICK t : t = <<x>>
  OBVIOUS
<1>4. IsSeq(t) /\ Len(t) = 1 /\ t[1] = x
  BY <1>3, Tuples
<1>5. /\ Len(more) = n + 1 /\ \A i \in 1..n : more[i] = names[i]
      /\ \A i \in 1..1 : more[n + i] = t[i]
  <2>1. Joins(names, t, more)
    BY <1>3
  <2>2. IsJoined(names, t, more)
    BY <1>4, <2>1, JoinedForm, Zenon
  <2>3. QED
    BY <1>1, <1>4, <2>2 DEF IsJoined
<1>6. more[n + 1] = x
  BY <1>4, <1>5
<1>7. ASSUME NEW i \in 1..n + 1 PROVE NameOf(k, c[i]) = more[i]
  <2>1. CASE i = n + 1
    BY <1>2, <1>6, <2>1
  <2>2. CASE i # n + 1
    <3>1. i \in 1..n
      BY <1>1, <2>2
    <3>2. NameOf(k, b[i]) = names[i]
      BY <1>1, <3>1 DEF NamesOf
    <3>3. QED
      BY <1>2, <1>5, <3>1, <3>2
  <2>3. QED
    BY <2>1, <2>2
<1>8. QED
  BY <1>2, <1>5, <1>7 DEF NamesOf

\* What the flags' parser does to the blocks given by flags: it appends one of a
\* kind, or writes a format into the last service.
LEMMA FlagsBlocks ==
    ASSUME ShapeInv, NEW a, \/ SetFlag(a) \/ AddBlock(a) \/ FormatService(a) \/ SetNoPrefix(a)
                            \/ AddPath(a) \/ AskVersion(a),
           NEW k \in Kinds
    PROVE  /\ IsSeq(heap["cli"][k]) /\ IsSeq(heap'["cli"][k])
           /\ a.flag = FlagOf(k) =>
                 \E e : /\ Appends(heap["cli"][k], e, heap'["cli"][k])
                        /\ e = (IF k = "service" THEN ParseServiceConfig(a.value)
                                ELSE ParsePrefixConfig(a.value))
           /\ a.flag # FlagOf(k) =>
                 \/ heap'["cli"][k] = heap["cli"][k]
                 \/ /\ k = "service" /\ FormatService(a) /\ heap["cli"][k] # <<>>
                    /\ heap'["cli"][k] = [heap["cli"][k] EXCEPT ![Len(heap["cli"][k])] =
                                             Over([f \in {a.flag[2]} |-> a.value], @)]
           /\ FormatService(a) /\ a.flag # FlagOf(k) /\ k = "service" =>
                 heap["cli"][k] # <<>> \/ phase' = "panicked"
<1>1. IsHeap(heap) /\ AreBlocks(heap["cli"]) /\ heap = [o \in Owners |-> heap[o]]
      /\ heap["cli"] = [j \in Kinds |-> heap["cli"][j]]
  BY DEF ShapeInv, IsHeap, AreBlocks, Owners
<1>2. IsHeap(heap')
  BY FlagsShape DEF ShapeInv
<1>3. IsSeq(heap["cli"][k]) /\ IsSeq(heap'["cli"][k])
  BY <1>1, <1>2 DEF IsHeap, AreBlocks, Owners
<1>4. FlagOf("prefix") = <<"prefix">> /\ FlagOf("secret") = <<"secret">>
      /\ FlagOf("service") = <<"service", "query">>
  BY DEF FlagOf
<1>5. CASE AddBlock(a)
  <2>1. PICK j, e :
          /\ j \in Kinds
          /\ a.flag = FlagOf(j)
          /\ heap' = [heap EXCEPT !.cli[j] = Append(@, e)]
          /\ e = (IF j = "service" THEN ParseServiceConfig(a.value)
                  ELSE ParsePrefixConfig(a.value))
    BY <1>5 DEF AddBlock, FlagOf
  <2>2. CASE j = k
    <3>1. Appends(heap["cli"][k], e, heap'["cli"][k])
      BY <1>1, <2>1, <2>2 DEF Appends, Owners
    <3>2. ~FormatService(a)
      <4>1. a.flag \in {<<"prefix">>, <<"secret">>, <<"service", "query">>}
        BY <1>4, <2>1 DEF Kinds
      <4>2. QED
        BY <4>1 DEF FormatService, IsFormat, FormatFields
    <3>3. QED
      BY <1>3, <2>1, <2>2, <3>1, <3>2
  <2>3. CASE j # k
    <3>1. FlagOf(j) # FlagOf(k)
      BY <2>3 DEF FlagOf, Kinds
    <3>2. heap'["cli"][k] = heap["cli"][k]
      BY <1>1, <2>1, <2>3 DEF Owners
    <3>3. ~FormatService(a)
      <4>1. a.flag \in {<<"prefix">>, <<"secret">>, <<"service", "query">>}
        BY <1>4, <2>1 DEF Kinds
      <4>2. QED
        BY <4>1 DEF FormatService, IsFormat, FormatFields
    <3>4. QED
      BY <1>3, <2>1, <3>1, <3>2, <3>3
  <2>4. QED
    BY <2>2, <2>3
<1>6. CASE FormatService(a)
  <2>1. PICK g \in FormatFields : a.flag = <<"service", g>>
    BY <1>6 DEF FormatService, IsFormat
  <2>2. a.flag # FlagOf(k)
    BY <1>4, <2>1 DEF FormatFields, Kinds
  <2>3. CASE k = "service"
    BY <1>1, <1>3, <1>6, <2>2, <2>3 DEF FormatService, LastSeviceConfig, Owners
  <2>4. CASE k # "service"
    BY <1>1, <1>3, <1>6, <2>2, <2>4 DEF FormatService, Owners
  <2>5. QED
    BY <2>3, <2>4
<1>7. CASE SetFlag(a) \/ SetNoPrefix(a) \/ AddPath(a) \/ AskVersion(a)
  <2>1. heap' = heap
    BY <1>7 DEF SetFlag, SetNoPrefix, AddPath, AskVersion
  <2>2. a.flag # FlagOf(k)
    <3>1. FlagOf(k)[1] \in {"prefix", "secret", "service"}
      BY <1>4 DEF Kinds
    <3>2. a.flag[1] \in Heads \cup {"no_prefix", "config", "version"}
      BY <1>7, FlagHeads DEF SetFlag, SetNoPrefix, AddPath, AskVersion
    <3>3. QED
      BY <3>1, <3>2 DEF Heads, StanzaHeads
  <2>3. ~FormatService(a)
    <3>1. FormatService(a) => a.flag[1] = "service"
      BY DEF FormatService, IsFormat
    <3>2. a.flag[1] \in Heads \cup {"no_prefix", "config", "version"}
      BY <1>7, FlagHeads DEF SetFlag, SetNoPrefix, AddPath, AskVersion
    <3>3. QED
      BY <3>1, <3>2 DEF Heads, StanzaHeads
  <2>4. QED
    BY <1>3, <2>1, <2>2, <2>3
<1>8. QED
  BY <1>5, <1>6, <1>7

LEMMA NamesFlags ==
    ASSUME LoadInv, NamesInv, phase = "flags", NEW a,
           \/ SetFlag(a) \/ AddBlock(a) \/ FormatService(a) \/ SetNoPrefix(a)
           \/ AddPath(a) \/ AskVersion(a) \/ StopParsing(a)
    PROVE  NamesInv'
<1>1. CASE phase' # "flags"
  <2>1. phase' \in {"exited", "panicked"}
    BY <1>1 DEF SetFlag, AddBlock, FormatService, SetNoPrefix, AddPath, AskVersion, StopParsing
  <2>2. QED
    BY <2>1 DEF NamesInv, After
<1>2. CASE phase' = "flags"
  <2>1. ~StopParsing(a) /\ ShapeInv
    BY <1>2 DEF StopParsing, LoadInv
  <2>2. args' = Append(args, a) /\ IsSeq(args)
    BY <2>1 DEF SetFlag, AddBlock, FormatService, SetNoPrefix, AddPath, AskVersion, Takes, ShapeInv
  <2>3. ASSUME NEW k \in Kinds PROVE NamesOf(k, heap'["cli"][k], FlagNames(k)')
    <3>1. PICK b, c, names, more :
             /\ b = heap["cli"][k] /\ c = heap'["cli"][k]
             /\ names = AllNamed(k, args) /\ more = AllNamed(k, args')
      OBVIOUS
    <3>2. FlagNames(k) = names /\ FlagNames(k)' = more
      BY <3>1 DEF FlagNames, AllNamed, NamedBy
    <3>3. NamesOf(k, b, names)
      BY <3>1, <3>2 DEF NamesInv
    <3>4. Appends(args, a, args')
      BY <2>2 DEF Appends
    <3>5. IsSeq(names) /\ IsSeq(NamedBy(k, a)) /\ more = names \o NamedBy(k, a)
      BY <2>2, <3>1, <3>4, AllNamedAppend
    <3>6. /\ IsSeq(b) /\ IsSeq(c)
          /\ a.flag = FlagOf(k) =>
                \E e : /\ Appends(b, e, c)
                       /\ e = (IF k = "service" THEN ParseServiceConfig(a.value)
                               ELSE ParsePrefixConfig(a.value))
          /\ a.flag # FlagOf(k) =>
                \/ c = b
                \/ /\ k = "service" /\ FormatService(a) /\ b # <<>>
                   /\ c = [b EXCEPT ![Len(b)] = Over([f \in {a.flag[2]} |-> a.value], @)]
      BY <2>1, <3>1, FlagsBlocks
    <3>7. CASE a.flag = FlagOf(k)
      <4>1. PICK e : /\ Appends(b, e, c)
                     /\ e = (IF k = "service" THEN ParseServiceConfig(a.value)
                             ELSE ParsePrefixConfig(a.value))
        BY <3>6, <3>7
      <4>2. PICK x : x = IF k # "service" /\ a.value = "/" THEN "" ELSE a.value
        OBVIOUS
      <4>3. NameOf(k, e) = x
        BY <4>1, <4>2 DEF NameOf, ParseServiceConfig, ParsePrefixConfig
      <4>4. NamedBy(k, a) = <<x>>
        BY <3>7, <4>2 DEF NamedBy
      <4>5. Joins(names, <<x>>, more)
        BY <3>5, <4>4 DEF Joins
      <4>6. NamesOf(k, c, more)
        BY <3>3, <3>5, <3>6, <4>1, <4>3, <4>5, NamesAppend, Zenon
      <4>7. QED
        BY <3>1, <3>2, <4>6
    <3>8. CASE a.flag # FlagOf(k)
      <4>1. more = names
        <5>1. NamedBy(k, a) = <<>>
          BY <3>8 DEF NamedBy
        <5>2. QED
          BY <3>5, <5>1, ConcatEmpty
      <4>2. CASE c = b
        BY <3>1, <3>2, <3>3, <4>1, <4>2
      <4>3. CASE c # b
        <5>1. k = "service" /\ c = [b EXCEPT ![Len(b)] = Over([f \in {a.flag[2]} |-> a.value], @)]
              /\ FormatService(a)
          BY <3>6, <3>8, <4>3
        <5>2. PICK n : n = Len(b) /\ n \in Nat /\ DOMAIN b = 1..n
          BY <3>6, SeqForm
        <5>3. a.flag[2] # "query"
          <6>1. PICK g \in FormatFields : a.flag = <<"service", g>>
            BY <5>1 DEF FormatService, IsFormat
          <6>2. QED
            BY <6>1 DEF FormatFields
        <5>4. DOMAIN c = 1..n
          BY <5>1, <5>2
        <5>5. Len(c) = n
          BY <3>6, <5>2, <5>4, SeqForm
        <5>6. ASSUME NEW i \in 1..n PROVE NameOf(k, c[i]) = NameOf(k, b[i])
          <6>1. CASE i # n
            BY <5>1, <5>2, <6>1
          <6>2. CASE i = n
            <7>1. PICK d : d = b[i]
              OBVIOUS
            <7>2. c[i] = Over([f \in {a.flag[2]} |-> a.value], d)
              BY <5>1, <5>2, <6>2, <7>1
            <7>3. NameOf(k, Over([f \in {a.flag[2]} |-> a.value], d)) = NameOf(k, d)
              BY <5>1, <5>3 DEF NameOf, Over
            <7>4. QED
              BY <7>1, <7>2, <7>3
          <6>3. QED
            BY <6>1, <6>2
        <5>7. NamesOf(k, c, names)
          BY <3>3, <5>2, <5>5, <5>6 DEF NamesOf
        <5>8. QED
          BY <3>1, <3>2, <4>1, <5>7
      <4>4. QED
        BY <4>2, <4>3
    <3>9. QED
      BY <3>7, <3>8
  <2>4. QED
    BY <1>2, <2>3 DEF NamesInv, After
<1>3. QED
  BY <1>1, <1>2

\* The steps after the flags.
Later ==
    \/ LoadConfigs \/ LoadFails \/ SetupLogger \/ LoggerFails
    \/ EndBeforeRunner \/ NewRunner \/ Reload
    \/ \E f \in Files : Edit(f)
    \/ UNCHANGED vars

\* They leave what the flags gave as it is, and only finalize its blocks.
LEMMA LaterSame ==
    ASSUME Later
    PROVE  /\ UNCHANGED <<args, cli, noPrefix, isVersion, words, given, paths, environ>>
           /\ After' => After
           /\ phase' = "flags" => phase = "flags" /\ heap' = heap
           /\ phase' = "panicked" <=> phase = "panicked"
<1>1. CASE LoadConfigs
  BY <1>1 DEF LoadConfigs, flagVars, After
<1>2. CASE LoadFails \/ LoggerFails \/ EndBeforeRunner
  BY <1>2 DEF LoadFails, LoggerFails, EndBeforeRunner, Exit, flagVars, After
<1>3. CASE SetupLogger \/ Reload
  BY <1>3 DEF SetupLogger, Reload, flagVars, After
<1>4. CASE NewRunner
  BY <1>4 DEF NewRunner, Exit, flagVars, After
<1>5. CASE \E f \in Files : Edit(f)
  BY <1>5 DEF Edit, flagVars, After
<1>6. CASE UNCHANGED vars
  BY <1>6 DEF vars, After
<1>7. QED
  BY <1>1, <1>2, <1>3, <1>4, <1>5, <1>6 DEF Later

LEMMA LaterKept ==
    ASSUME ConfigurationAssumption, LoadInv, Later
    PROVE  \A k \in Kinds :
             /\ Len(heap'["cli"][k]) = Len(heap["cli"][k])
             /\ \A i \in 1..Len(heap["cli"][k]) : Kept(k, heap'["cli"][k][i], heap["cli"][k][i])
<1>1. CASE LoadConfigs
  <2>1. PICK read, b, d, r, start, l :
          /\ read = Read /\ b = read.blocks /\ d = heap["cli"] /\ r = loadConfigs(read, cli, d)
          /\ start = Blocks(b, d) /\ l = AllOf(b, d)
    OBVIOUS
  <2>2. AreBlocks(b) /\ AreBlocks(d)
    BY <2>1, ReadIsConfig DEF LoadInv, ShapeInv, IsHeap, Owners, IsConfig
  <2>3. KeptHeap(r.heap, start)
    BY <2>1, <2>2, LoadConfigsForm
  <2>4. heap' = r.heap
    BY <1>1, <2>1 DEF LoadConfigs
  <2>5. AreAll(b, d, start, l)
    BY <2>1, <2>2, AllOfForm, Zenon
  <2>6. start["cli"] = d
    BY <2>5 DEF AreAll
  <2>7. QED
    BY <2>1, <2>3, <2>4, <2>6 DEF KeptHeap, Owners
<1>2. CASE NewRunner
  <2>1. PICK l, r : l = cfg.lists /\ r = FinalizeLists([lists |-> l, heap |-> heap])
    OBVIOUS
  <2>2. heap' = r.heap /\ phase = "logging"
    BY <1>2, <2>1 DEF NewRunner, Initialized
  <2>3. IsHeap(heap) /\ KeptHeap(heap, Start) /\ AreLists(l, Start)
    BY <2>1, <2>2 DEF LoadInv, ShapeInv, LoadedInv, Configured
  <2>4. AreLists(l, heap)
    BY <2>3, KeptLeads
  <2>5. AreFinalized(l, heap, r)
    BY <2>1, <2>3, <2>4, FinalizeListsForm, Zenon
  <2>6. QED
    BY <2>2, <2>5 DEF AreFinalized, KeptHeap, Owners
<1>3. CASE ~LoadConfigs /\ ~NewRunner
  <2>1. heap' = heap
    BY <1>3 DEF Later, LoadFails, LoggerFails, EndBeforeRunner, SetupLogger, Reload, Edit, vars
  <2>2. QED
    BY <2>1 DEF Kept
<1>4. QED
  BY <1>1, <1>2, <1>3

\* Every step is one of these.
LEMMA Steps ==
    ASSUME [Next]_vars
    PROVE  \/ phase = "flags" /\ \E a \in Arguments :
                \/ SetFlag(a) \/ AddBlock(a) \/ FormatService(a) \/ SetNoPrefix(a)
                \/ AddPath(a) \/ AskVersion(a) \/ StopParsing(a)
           \/ phase = "flags" /\ \E w \in Words : EndFlags(w)
           \/ Later
BY DEF Next, ParseFlags, Later

LEMMA NamesEnd ==
    ASSUME LoadInv, NamesInv, phase = "flags", NEW w, EndFlags(w)
    PROVE  NamesInv'
<1>1. /\ given'.blocks = NoPrefixed(heap["cli"]) /\ phase' = "loading" /\ UNCHANGED args
  BY DEF EndFlags
<1>2. ASSUME NEW k \in Kinds PROVE NamesOf(k, given'.blocks[k], FlagNames(k)')
  <2>1. PICK b, c, names : b = heap["cli"][k] /\ c = given'.blocks[k] /\ names = FlagNames(k)
    OBVIOUS
  <2>2. NamesOf(k, b, names) /\ FlagNames(k)' = names
    BY <1>1, <2>1 DEF NamesInv, FlagNames
  <2>3. PICK n : n = Len(b) /\ n \in Nat /\ DOMAIN b = 1..n
    BY <2>1, SeqForm DEF LoadInv, ShapeInv, IsHeap, AreBlocks, Owners
  <2>4. c = b \/ c = [i \in 1..n |-> Over([no_prefix |-> noPrefix], b[i])]
    BY <1>1, <2>1, <2>3 DEF NoPrefixed
  <2>5. CASE c = b
    BY <2>1, <2>2, <2>5
  <2>6. CASE c = [i \in 1..n |-> Over([no_prefix |-> noPrefix], b[i])]
    <3>1. c = [i \in 1..n |-> c[i]]
      BY <2>6
    <3>2. Len(c) = n
      BY <2>3, <3>1, TableIsSeq
    <3>3. ASSUME NEW i \in 1..n PROVE NameOf(k, c[i]) = NameOf(k, b[i])
      <4>1. c[i] = Over([no_prefix |-> noPrefix], b[i])
        BY <2>6
      <4>2. PICK d : d = b[i]
        OBVIOUS
      <4>3. NameOf(k, Over([no_prefix |-> noPrefix], d)) = NameOf(k, d)
        BY DEF NameOf, Over
      <4>4. QED
        BY <4>1, <4>2, <4>3
    <3>4. QED
      BY <2>1, <2>2, <2>3, <3>2, <3>3 DEF NamesOf
  <2>7. QED
    BY <2>4, <2>5, <2>6
<1>3. QED
  BY <1>1, <1>2 DEF NamesInv, After

LEMMA NamesStep ==
    ASSUME ConfigurationAssumption, LoadInv, NamesInv, [Next]_vars
    PROVE  NamesInv'
<1>1. CASE Later
  <2>1. /\ UNCHANGED <<args, given>> /\ (After' => After)
        /\ phase' = "flags" => phase = "flags" /\ heap' = heap
    BY <1>1, LaterSame
  <2>2. \A k \in Kinds : FlagNames(k)' = FlagNames(k)
    BY <2>1 DEF FlagNames
  <2>3. QED
    BY <2>1, <2>2 DEF NamesInv
<1>2. QED
  BY <1>1, Steps, NamesFlags, NamesEnd

LEMMA NamesInit == ASSUME Init PROVE NamesInv
<1>1. args = <<>> /\ phase = "flags" /\ \A k \in Kinds : heap["cli"][k] = <<>>
  BY DEF Init, NoBlocks, Owners
<1>2. ASSUME NEW k \in Kinds PROVE FlagNames(k) = <<>>
  <2>1. PICK s : s = [i \in DOMAIN args |-> NamedBy(k, args[i])]
    OBVIOUS
  <2>2. DOMAIN args = 1..0
    BY <1>1
  <2>3. s = [i \in 1..0 |-> s[i]]
    BY <2>1, <2>2
  <2>4. IsSeq(s) /\ Len(s) = 0
    BY <2>3, TableIsSeq
  <2>5. FlattenSeq(s) = <<>>
    BY <2>4, FlattenEmpty
  <2>6. QED
    BY <2>1, <2>5 DEF FlagNames, NamedBy
<1>3. QED
  BY <1>1, <1>2, Tuples DEF NamesInv, NamesOf, After

\* The names of the flags' blocks are those the flags give, in their order.
THEOREM FlagsName == Spec => []NamesInv
<1>1. Init => NamesInv
  BY NamesInit
<1>2. LoadInv /\ NamesInv /\ [Next]_vars => NamesInv'
  BY NamesStep, ConfigurationAssumption
<1>3. QED
  BY <1>1, <1>2, Loads, PTL DEF Spec

-----------------------------------------------------------------------------
(* The runner's blocks.                                                      *)

LEMMA TwiceForm ==
    ASSUME NEW h, NEW k \in Kinds, NEW l, IsSeq(l)
    PROVE  /\ \A i \in 1..Len(Twice(h, k, l)) : \E j \in 1..Len(l) : Twice(h, k, l)[i] = l[j]
           /\ NonePathless(h, k, l) => Twice(h, k, l) = l
<1>1. PICK m, x : m = FinalizeList(h, k, l).list /\ x = Twice(h, k, l)
  OBVIOUS
<1>2. IsFinalized(h, k, l, FinalizeList(h, k, l))
  BY FinalizeListForm, Zenon
<1>3. /\ IsSeq(m) /\ Len(m) = Len(l)
      /\ \A i \in 1..Len(l) : \E j \in 1..Len(l) : m[i] = l[j]
      /\ NonePathless(h, k, l) => m = l
  BY <1>1, <1>2 DEF IsFinalized
<1>4. IsFinalized(h, k, m, FinalizeList(h, k, m)) /\ x = FinalizeList(h, k, m).list
  BY <1>1, <1>3, FinalizeListForm, Zenon DEF Twice
<1>5. /\ Len(x) = Len(m)
      /\ \A i \in 1..Len(m) : \E j \in 1..Len(m) : x[i] = m[j]
      /\ NonePathless(h, k, m) => x = m
  BY <1>4 DEF IsFinalized
<1>6. \A i \in 1..Len(x) : \E j \in 1..Len(l) : x[i] = l[j]
  BY <1>3, <1>5
<1>7. NonePathless(h, k, l) => x = l
  BY <1>3, <1>5
<1>8. QED
  BY <1>1, <1>6, <1>7

\* The names the files give the blocks of a kind.
FileNames(k) ==
    FlattenSeq([i \in DOMAIN Walk |->
        [j \in DOMAIN BlocksOf(loaded[Walk[i]], k) |-> NameOf(k, BlocksOf(loaded[Walk[i]], k)[j])]])

LEMMA FilesName ==
    ASSUME ConfigurationAssumption, ShapeInv, Reading.ok, NEW k \in Kinds
    PROVE  /\ IsSeq(FileNames(k)) /\ NamesOf(k, Reading.blocks[k], FileNames(k))
           /\ \A i \in 1..Len(Reading.blocks[k]) : \E f \in ToSet(Walk) : \E j \in DOMAIN loaded[f] :
                 loaded[f][j].key = k /\ Reading.blocks[k][i] = loaded[f][j].set
<1>1. PICK w, cs, n : w = Walk /\ cs = Parsed(w, loaded) /\ n = Len(w)
  OBVIOUS
<1>2. /\ IsSeq(w) /\ AllConfigs(cs) /\ Len(cs) = n /\ n \in Nat /\ DOMAIN w = 1..n
      /\ Reading = MergeAll(cs)
      /\ \A i \in 1..n : IsSeq(loaded[w[i]]) /\ Parse(loaded[w[i]]).ok /\ cs[i] = Parse(loaded[w[i]])
  BY <1>1, ReadFiles, SeqForm
<1>3. PICK lists : lists = [i \in 1..n |-> BlocksOf(loaded[w[i]], k)]
  OBVIOUS
<1>4. IsSeq(lists) /\ Len(lists) = n
  <2>1. lists = [i \in 1..n |-> lists[i]]
    BY <1>3
  <2>2. QED
    BY <1>2, <2>1, TableIsSeq
<1>5. \A i \in 1..n : lists[i] = cs[i].blocks[k]
  BY <1>2, <1>3, ParseForm
<1>6. AllSeqs(lists) /\ MergeAll(cs).blocks[k] = FlattenSeq(lists)
  BY <1>2, <1>4, <1>5, MergeAllBlocks
<1>7. PICK b : b = Reading.blocks[k]
  OBVIOUS
<1>8. b = FlattenSeq(lists)
  BY <1>2, <1>6, <1>7
<1>9. PICK mapped : mapped = [i \in 1..n |-> [j \in DOMAIN lists[i] |-> NameOf(k, lists[i][j])]]
  OBVIOUS
<1>10. IsSeq(mapped) /\ Len(mapped) = n
  <2>1. mapped = [i \in 1..n |-> mapped[i]]
    BY <1>9
  <2>2. QED
    BY <1>2, <2>1, TableIsSeq
<1>11. PICK X, G : /\ X = UNION {ToSet(lists[i]) : i \in 1..n}
                   /\ G = [x \in X |-> NameOf(k, x)]
  OBVIOUS
<1>12. ASSUME NEW i \in 1..n PROVE IsSeq(mapped[i]) /\ Image(lists[i], mapped[i], G)
  <2>1. PICK s, t, m : s = lists[i] /\ t = mapped[i] /\ m = Len(s)
    OBVIOUS
  <2>2. IsSeq(s) /\ m \in Nat /\ DOMAIN s = 1..m
    BY <1>4, <1>6, <2>1, SeqForm DEF AllSeqs
  <2>3. t = [j \in 1..m |-> NameOf(k, s[j])]
    BY <1>9, <2>1, <2>2
  <2>4. t = [j \in 1..m |-> t[j]]
    BY <2>3
  <2>5. IsSeq(t) /\ Len(t) = m
    BY <2>2, <2>4, TableIsSeq
  <2>6. ASSUME NEW j \in 1..m PROVE t[j] = G[s[j]]
    <3>1. s[j] \in X
      BY <1>11, <2>1, <2>2 DEF ToSet
    <3>2. QED
      BY <1>11, <2>3, <3>1
  <2>7. QED
    BY <2>1, <2>5, <2>6 DEF Image
<1>13. AllSeqs(mapped)
  BY <1>10, <1>12 DEF AllSeqs
<1>14. PICK names : names = FlattenSeq(mapped)
  OBVIOUS
<1>15. IsSeq(names) /\ Image(b, names, G)
  <2>1. IsSeq(names)
    BY <1>13, <1>14, FlattenIsSeq
  <2>2. Image(FlattenSeq(lists), FlattenSeq(mapped), G)
    BY <1>4, <1>6, <1>10, <1>12, <1>13, FlattenMap
  <2>3. QED
    BY <1>8, <1>14, <2>1, <2>2
<1>16. FileNames(k) = names
  BY <1>1, <1>2, <1>3, <1>9, <1>14 DEF FileNames
<1>17. ASSUME NEW i \in 1..Len(b)
       PROVE  /\ b[i] \in X
              /\ \E f \in ToSet(w) : \E j \in DOMAIN loaded[f] :
                    loaded[f][j].key = k /\ b[i] = loaded[f][j].set
  <2>0. PICK j \in 1..n : \E m \in 1..Len(lists[j]) : b[i] = lists[j][m]
    BY <1>4, <1>6, <1>8, FlattenElements
  <2>1. PICK m \in 1..Len(lists[j]) : b[i] = lists[j][m]
    BY <2>0
  <2>2. PICK s : s = lists[j]
    OBVIOUS
  <2>3. IsSeq(s) /\ DOMAIN s = 1..Len(s) /\ b[i] = s[m] /\ m \in 1..Len(s)
    BY <1>4, <1>6, <2>1, <2>2, SeqForm DEF AllSeqs
  <2>4. b[i] \in X
    BY <1>11, <2>2, <2>3 DEF ToSet
  <2>5. PICK f : f = w[j]
    OBVIOUS
  <2>6. f \in ToSet(w)
    BY <1>2, <2>5 DEF ToSet
  <2>7. IsSeq(loaded[f]) /\ s = BlocksOf(loaded[f], k)
    BY <1>2, <1>3, <2>2, <2>5
  <2>8. \E e \in DOMAIN loaded[f] : loaded[f][e].key = k /\ s[m] = loaded[f][e].set
    BY <2>3, <2>7, BlocksOfForm
  <2>9. QED
    BY <2>3, <2>4, <2>6, <2>8
<1>18. NamesOf(k, b, names)
  BY <1>11, <1>15, <1>17 DEF NamesOf, Image
<1>19. QED
  BY <1>1, <1>7, <1>15, <1>16, <1>17, <1>18

\* What a load starts from has the names of all blocks given, in their order.
LEMMA StartNames ==
    ASSUME ConfigurationAssumption, LoadInv, NamesInv, Configured, NEW k \in Kinds
    PROVE  /\ IsSeq(All[k]) /\ IsSeq(Names(k)) /\ Len(Names(k)) = Len(All[k])
           /\ \A i \in 1..Len(All[k]) : /\ Leads(Start, k, All[k][i])
                                        /\ NameOf(k, Deref(Start, k, All[k][i])) = Names(k)[i]
<1>1. PICK b, c, start, l : /\ b = Reading.blocks /\ c = given.blocks
                            /\ start = Start /\ l = All
  OBVIOUS
<1>2. ShapeInv /\ Reading.ok /\ After
  BY DEF LoadInv, LoadedInv, Configured, After
<1>3. AreBlocks(b) /\ AreBlocks(c)
  BY <1>1, <1>2, ReadIsConfig DEF ShapeInv, IsConfig
<1>4. AreAll(b, c, start, l)
  <2>1. start = Blocks(b, c) /\ l = AllOf(b, c)
    BY <1>1 DEF Start, All
  <2>2. QED
    BY <1>3, <2>1, AllOfForm, Zenon
<1>5. PICK m, n, x, y, u :
        /\ m = Len(b[k]) /\ m \in Nat /\ n = Len(c[k]) /\ n \in Nat
        /\ x = FileNames(k) /\ y = FlagNames(k) /\ u = Names(k)
  BY <1>3, SeqForm DEF AreBlocks
<1>6. IsSeq(x) /\ Len(x) = m /\ \A i \in 1..m : NameOf(k, b[k][i]) = x[i]
  BY <1>1, <1>2, <1>5, FilesName DEF NamesOf
<1>7. IsSeq(y) /\ Len(y) = n /\ \A i \in 1..n : NameOf(k, c[k][i]) = y[i]
  <2>1. NamesOf(k, c[k], y)
    BY <1>1, <1>2, <1>5 DEF NamesInv
  <2>2. IsSeq(args)
    BY <1>2 DEF ShapeInv
  <2>3. IsSeq(AllNamed(k, args))
    <3>1. PICK bs : Appends(args, 0, bs)
      BY DEF Appends
    <3>2. QED
      BY <2>2, <3>1, AllNamedAppend
  <2>4. AllNamed(k, args) = y
    BY <1>5 DEF AllNamed, NamedBy, FlagNames
  <2>5. QED
    BY <1>5, <2>1, <2>3, <2>4 DEF NamesOf
<1>8. IsJoined(x, y, u)
  <2>1. Joins(x, y, u)
    BY <1>5 DEF Joins, Names, FileNames
  <2>2. QED
    BY <1>6, <1>7, <2>1, JoinedForm, Zenon
<1>9. /\ IsSeq(u) /\ Len(u) = m + n
      /\ \A i \in 1..m : u[i] = x[i]
      /\ \A i \in 1..n : u[m + i] = y[i]
  BY <1>6, <1>7, <1>8 DEF IsJoined
<1>10. /\ start["own"] = b /\ start["cli"] = c /\ AreLists(l, start)
       /\ IsSeq(l[k]) /\ Len(l[k]) = m + n
       /\ \A i \in 1..m : l[k][i] = [owner |-> "own", at |-> i]
       /\ \A i \in 1..n : l[k][m + i] = [owner |-> "cli", at |-> i]
  BY <1>4, <1>5 DEF AreAll, AreLists, AreBlocks
<1>11. ASSUME NEW i \in 1..m PROVE NameOf(k, Deref(start, k, l[k][i])) = u[i]
  <2>1. PICK p : p = l[k][i] /\ p = [owner |-> "own", at |-> i]
    BY <1>10, <1>11
  <2>2. Deref(start, k, p) = b[k][i]
    BY <1>10, <2>1 DEF Deref
  <2>3. NameOf(k, b[k][i]) = x[i] /\ u[i] = x[i]
    BY <1>6, <1>9, <1>11
  <2>4. QED
    BY <2>1, <2>2, <2>3
<1>12. ASSUME NEW i \in 1..n PROVE NameOf(k, Deref(start, k, l[k][m + i])) = u[m + i]
  <2>1. PICK p : p = l[k][m + i] /\ p = [owner |-> "cli", at |-> i]
    BY <1>10, <1>12
  <2>2. Deref(start, k, p) = c[k][i]
    BY <1>10, <2>1 DEF Deref
  <2>3. NameOf(k, c[k][i]) = y[i] /\ u[m + i] = y[i]
    BY <1>7, <1>9, <1>12
  <2>4. QED
    BY <2>1, <2>2, <2>3
<1>13. ASSUME NEW i \in 1..m + n PROVE NameOf(k, Deref(start, k, l[k][i])) = u[i]
  <2>1. m \in Nat /\ n \in Nat
    BY <1>5
  <2>2. CASE i \in 1..m
    BY <1>11, <2>2
  <2>3. CASE i \notin 1..m
    <3>1. PICK j \in 1..n : i = m + j
      <4>1. i - m \in 1..n /\ i = m + (i - m)
        BY <2>1, <2>3
      <4>2. QED
        BY <4>1
    <3>2. QED
      BY <1>12, <3>1
  <2>4. QED
    BY <2>2, <2>3
<1>14. \A i \in 1..m + n : Leads(start, k, l[k][i])
  BY <1>10 DEF AreLists
<1>15. QED
  BY <1>1, <1>5, <1>9, <1>10, <1>13, <1>14

\* The bottom-most block and the right-most flag come last: the runner's lists
\* are the blocks of the files and then of the flags, each once, in their order
\* and finalized, after every reload too, unless a prefix or a secret has no
\* path.
THEOREM BlocksKeepOrder == Spec => []BlocksInOrder
<1>1. ASSUME LoadInv, NamesInv, phase = "running", NEW k \in Kinds, Named(k)
      PROVE  /\ ListedNames(runner, k) = Names(k)
             /\ \A i \in DOMAIN runner.lists[k] :
                   Fields(k) \ {"no_prefix"} \subseteq DOMAIN View(runner, k)[i]
  <2>1. PICK l, names, n : l = All[k] /\ names = Names(k) /\ n = Len(l)
    OBVIOUS
  <2>2. Configured
    BY <1>1 DEF Configured
  <2>3. /\ IsSeq(l) /\ IsSeq(names) /\ Len(names) = n /\ n \in Nat
        /\ \A i \in 1..n : Leads(Start, k, l[i]) /\ NameOf(k, Deref(Start, k, l[i])) = names[i]
    BY <1>1, <2>1, <2>2, StartNames, ConfigurationAssumption, SeqForm
  <2>4. DOMAIN names = 1..n /\ DOMAIN l = 1..n
    BY <2>1, <2>3, SeqForm
  <2>5. NonePathless(Start, k, l)
    <3>1. ASSUME k # "service", NEW i \in 1..n PROVE ~Pathless(Deref(Start, k, l[i]))
      <4>1. PICK x : x = Deref(Start, k, l[i])
        OBVIOUS
      <4>2. NameOf(k, x) # ""
        BY <1>1, <2>1, <2>3, <2>4, <3>1, <4>1 DEF Named
      <4>3. ~Pathless(x)
        BY <3>1, <4>2 DEF NameOf, Pathless
      <4>4. QED
        BY <4>1, <4>3
    <3>2. QED
      BY <2>1, <3>1 DEF NonePathless
  <2>6. cfg.lists[k] = l
    <3>1. cfg.lists[k] = Twice(Start, k, l)
      BY <1>1, <2>1, <2>2 DEF LoadInv, LoadedInv
    <3>2. QED
      BY <2>3, <2>5, <3>1, TwiceForm
  <2>7. /\ runner.lists[k] = l
        /\ \A i \in 1..n : Deref(heap, k, l[i]) = FinalizeBlock(k, Deref(Start, k, l[i]))
    <3>1. AreFinalized(cfg.lists, Start, [lists |-> runner.lists, heap |-> heap])
      BY <1>1 DEF LoadInv, RunningInv
    <3>2. QED
      BY <2>1, <2>5, <2>6, <3>1 DEF AreFinalized
  <2>8. ASSUME NEW i \in 1..n
        PROVE  /\ NameOf(k, Deref(heap, k, l[i])) = names[i]
               /\ Fields(k) \ {"no_prefix"} \subseteq DOMAIN Deref(heap, k, l[i])
    <3>1. PICK x, y : x = Deref(heap, k, l[i]) /\ y = Deref(Start, k, l[i])
      OBVIOUS
    <3>2. x = FinalizeBlock(k, y) /\ NameOf(k, y) = names[i]
      BY <2>3, <2>7, <3>1
    <3>3. NameOf(k, x) = names[i]
      BY <3>2, FinalizeBlockKeeps
    <3>4. Fields(k) \ {"no_prefix"} \subseteq DOMAIN x
      BY <3>2 DEF FinalizeBlock, Over
    <3>5. QED
      BY <3>1, <3>3, <3>4
  <2>9. PICK view : view = View(runner, k)
    OBVIOUS
  <2>10. view = [i \in 1..n |-> Deref(heap, k, l[i])]
    BY <2>4, <2>7, <2>9 DEF View
  <2>11. ListedNames(runner, k) = [i \in 1..n |-> NameOf(k, view[i])]
    BY <2>9, <2>10 DEF ListedNames
  <2>12. \A i \in 1..n : NameOf(k, view[i]) = names[i]
    BY <2>8, <2>10
  <2>13. names = [i \in 1..n |-> names[i]]
    BY <2>3, SeqForm
  <2>14. ListedNames(runner, k) = names
    BY <2>11, <2>12, <2>13
  <2>15. \A i \in DOMAIN runner.lists[k] : Fields(k) \ {"no_prefix"} \subseteq DOMAIN view[i]
    BY <2>4, <2>7, <2>8, <2>10
  <2>16. QED
    BY <2>1, <2>9, <2>14, <2>15
<1>2. LoadInv /\ NamesInv => BlocksInOrder
  BY <1>1 DEF BlocksInOrder
<1>3. QED
  BY <1>2, Loads, FlagsName, PTL

-----------------------------------------------------------------------------
(* The flag -no-prefix.                                                      *)

Switches == {i \in DOMAIN args : args[i].flag = <<"no_prefix">>}

LastSwitch ==
    IF Switches = {} THEN noPrefix = "unset"
    ELSE \E l \in Switches : IsLast(l, Switches) /\ noPrefix = args[l].value

\* -no-prefix is kept until the flags end, then written into their blocks.
NoPrefixInv ==
    /\ phase \notin {"exited", "panicked"} => LastSwitch
    /\ \A k \in {"prefix", "secret"} :
         /\ phase = "flags" =>
                \A i \in 1..Len(heap["cli"][k]) : NoPrefixOf(heap["cli"][k][i]) = "unset"
         /\ After => \A i \in 1..Len(given.blocks[k]) : NoPrefixOf(given.blocks[k][i]) = noPrefix

LEMMA NoPrefixFlags ==
    ASSUME LoadInv, NoPrefixInv, phase = "flags", NEW a,
           \/ SetFlag(a) \/ AddBlock(a) \/ FormatService(a) \/ SetNoPrefix(a)
           \/ AddPath(a) \/ AskVersion(a) \/ StopParsing(a)
    PROVE  NoPrefixInv'
<1>1. CASE phase' # "flags"
  <2>1. phase' \in {"exited", "panicked"}
    BY <1>1 DEF SetFlag, AddBlock, FormatService, SetNoPrefix, AddPath, AskVersion, StopParsing
  <2>2. QED
    BY <2>1 DEF NoPrefixInv, After
<1>2. CASE phase' = "flags"
  <2>1. ~StopParsing(a) /\ ShapeInv
    BY <1>2 DEF StopParsing, LoadInv
  <2>2. args' = Append(args, a) /\ IsSeq(args)
    BY <2>1 DEF SetFlag, AddBlock, FormatService, SetNoPrefix, AddPath, AskVersion, Takes, ShapeInv
  <2>3. PICK n : Grown(n, a)
    BY <2>2, FlagsGrow
  <2>4. LastSwitch
    BY DEF NoPrefixInv
  <2>5. LastSwitch'
    <3>1. CASE SetNoPrefix(a)
      <4>1. a.flag = <<"no_prefix">> /\ noPrefix' = a.value
        BY <3>1 DEF SetNoPrefix
      <4>2. n + 1 \in Switches' /\ \A j \in Switches' : j <= n + 1
        BY <2>3, <4>1 DEF Grown, Switches
      <4>3. noPrefix' = args'[n + 1].value
        BY <2>3, <4>1 DEF Grown
      <4>4. QED
        BY <4>2, <4>3 DEF LastSwitch, IsLast
    <3>2. CASE ~SetNoPrefix(a)
      <4>1. noPrefix' = noPrefix
        BY <2>1, <3>2 DEF SetFlag, AddBlock, FormatService, AddPath, AskVersion, flagVars
      <4>2. a.flag # <<"no_prefix">>
        <5>1. a.flag[1] \in Heads \cup {"prefix", "secret", "service", "config", "version"}
          <6>1. CASE SetFlag(a)
            BY <6>1, FlagHeads DEF SetFlag
          <6>2. CASE AddBlock(a)
            <7>1. a.flag \in {<<"prefix">>, <<"secret">>, <<"service", "query">>}
              BY <6>2 DEF AddBlock, Kinds
            <7>2. QED
              BY <7>1
          <6>3. CASE FormatService(a) \/ AddPath(a) \/ AskVersion(a)
            BY <6>3 DEF FormatService, IsFormat, AddPath, AskVersion
          <6>4. QED
            BY <2>1, <3>2, <6>1, <6>2, <6>3
        <5>2. QED
          BY <5>1 DEF Heads, StanzaHeads
      <4>3. Switches' = Switches
        BY <2>3, <4>2 DEF Grown, Switches
      <4>4. \A l \in Switches : args'[l] = args[l]
        BY <2>3 DEF Grown, Switches
      <4>5. QED
        BY <2>4, <4>1, <4>3, <4>4 DEF LastSwitch, IsLast
    <3>3. QED
      BY <3>1, <3>2
  <2>6. ASSUME NEW k \in {"prefix", "secret"}, NEW i \in 1..Len(heap'["cli"][k])
        PROVE  NoPrefixOf(heap'["cli"][k][i]) = "unset"
    <3>1. PICK b, c : b = heap["cli"][k] /\ c = heap'["cli"][k]
      OBVIOUS
    <3>2. k \in Kinds
      BY DEF Kinds
    <3>3. /\ IsSeq(b) /\ IsSeq(c)
          /\ a.flag = FlagOf(k) => \E e : Appends(b, e, c) /\ e = ParsePrefixConfig(a.value)
          /\ a.flag # FlagOf(k) => c = b
      BY <2>1, <3>1, <3>2, FlagsBlocks
    <3>4. \A j \in 1..Len(b) : NoPrefixOf(b[j]) = "unset"
      BY <3>1 DEF NoPrefixInv
    <3>5. CASE a.flag = FlagOf(k)
      <4>1. PICK e : Appends(b, e, c) /\ e = ParsePrefixConfig(a.value)
        BY <3>3, <3>5
      <4>2. NoPrefixOf(e) = "unset"
        BY <4>1 DEF NoPrefixOf, ParsePrefixConfig
      <4>3. IsAppended(b, e, c)
        BY <3>3, <4>1, AppendedForm, Zenon
      <4>4. PICK m : m = Len(b) /\ m \in Nat /\ Len(c) = m + 1 /\ c[m + 1] = e
                     /\ \A j \in 1..m : c[j] = b[j]
        BY <3>3, <4>3, SeqForm DEF IsAppended
      <4>5. i \in 1..m + 1
        BY <3>1, <4>4
      <4>6. CASE i = m + 1
        BY <3>1, <4>2, <4>4, <4>6
      <4>7. CASE i # m + 1
        <5>1. m \in Nat
          BY <4>4
        <5>2. i \in 1..m
          BY <4>5, <4>7, <5>1
        <5>3. QED
          BY <3>1, <3>4, <4>4, <5>2
      <4>8. QED
        BY <4>6, <4>7
    <3>6. CASE a.flag # FlagOf(k)
      BY <3>1, <3>3, <3>4, <3>6
    <3>7. QED
      BY <3>5, <3>6
  <2>7. QED
    BY <1>2, <2>5, <2>6 DEF NoPrefixInv, After
<1>3. QED
  BY <1>1, <1>2

LEMMA NoPrefixEnd ==
    ASSUME LoadInv, NoPrefixInv, phase = "flags", NEW w, EndFlags(w)
    PROVE  NoPrefixInv'
<1>1. /\ given'.blocks = NoPrefixed(heap["cli"]) /\ phase' = "loading"
      /\ UNCHANGED <<args, noPrefix>>
  BY DEF EndFlags
<1>2. LastSwitch'
  BY <1>1 DEF NoPrefixInv, LastSwitch, Switches
<1>3. ASSUME NEW k \in {"prefix", "secret"}, NEW i \in 1..Len(given'.blocks[k])
      PROVE  NoPrefixOf(given'.blocks[k][i]) = noPrefix
  <2>1. PICK b, c : b = heap["cli"][k] /\ c = given'.blocks[k]
    OBVIOUS
  <2>2. k \in Kinds
    BY DEF Kinds
  <2>3. PICK n : n = Len(b) /\ n \in Nat /\ DOMAIN b = 1..n
    BY <2>1, <2>2, SeqForm DEF LoadInv, ShapeInv, IsHeap, AreBlocks, Owners
  <2>4. CASE noPrefix = "unset"
    <3>1. c = b
      BY <1>1, <2>1, <2>2, <2>4 DEF NoPrefixed
    <3>2. QED
      BY <2>1, <2>4, <3>1 DEF NoPrefixInv
  <2>5. CASE noPrefix # "unset"
    <3>1. c = [j \in 1..n |-> Over([no_prefix |-> noPrefix], b[j])]
      BY <1>1, <2>1, <2>2, <2>3, <2>5 DEF NoPrefixed
    <3>2. c = [j \in 1..n |-> c[j]]
      BY <3>1
    <3>3. Len(c) = n
      BY <2>3, <3>2, TableIsSeq
    <3>4. i \in 1..n
      BY <2>1, <3>3
    <3>5. PICK d : d = b[i]
      OBVIOUS
    <3>6. c[i] = Over([no_prefix |-> noPrefix], d)
      BY <3>1, <3>4, <3>5
    <3>7. NoPrefixOf(Over([no_prefix |-> noPrefix], d)) = noPrefix
      BY DEF NoPrefixOf, Over
    <3>8. QED
      BY <2>1, <3>6, <3>7
  <2>6. QED
    BY <2>4, <2>5
<1>4. QED
  BY <1>1, <1>2, <1>3 DEF NoPrefixInv, After

LEMMA NoPrefixStep ==
    ASSUME ConfigurationAssumption, LoadInv, NoPrefixInv, [Next]_vars
    PROVE  NoPrefixInv'
<1>1. CASE Later
  <2>1. /\ UNCHANGED <<args, noPrefix, given>> /\ (After' => After)
        /\ phase' = "flags" => phase = "flags" /\ heap' = heap
        /\ phase' = "panicked" <=> phase = "panicked"
    BY <1>1, LaterSame
  <2>2. phase' \notin {"exited", "panicked"} => phase \notin {"exited", "panicked"}
    <3>1. phase' \in {"flags", "loading", "loaded", "logging", "running", "exited", "panicked"}
      BY LoadStep DEF LoadInv, PhaseInv
    <3>2. QED
      BY <2>1, <3>1 DEF After
  <2>3. LastSwitch' <=> LastSwitch
    BY <2>1 DEF LastSwitch, Switches
  <2>4. QED
    BY <2>1, <2>2, <2>3 DEF NoPrefixInv
<1>2. QED
  BY <1>1, Steps, NoPrefixFlags, NoPrefixEnd

\* The flag -no-prefix is remembered as it was given last, and is what the
\* prefixes and secrets given by flags have, once the flags end.
THEOREM SwitchRemembered == Spec => []NoPrefixInv
<1>1. Init => NoPrefixInv
  <2>1. ASSUME Init PROVE /\ args = <<>> /\ phase = "flags" /\ noPrefix = "unset"
                          /\ \A k \in Kinds : heap["cli"][k] = <<>>
    BY <2>1 DEF Init, NoBlocks, Owners
  <2>2. \A i \in DOMAIN <<>> : FALSE
    OBVIOUS
  <2>3. QED
    BY <2>1, <2>2, Tuples DEF NoPrefixInv, LastSwitch, Switches, After, Kinds
<1>2. LoadInv /\ NoPrefixInv /\ [Next]_vars => NoPrefixInv'
  BY NoPrefixStep, ConfigurationAssumption
<1>3. QED
  BY <1>1, <1>2, Loads, PTL DEF Spec

\* -no-prefix is about every prefix and secret given by a flag, those after it
\* too, and about no block of a file (cli.go:719).
THEOREM SwitchReachesFlagBlocks == Spec => []NoPrefixReachesFlagBlocks
<1>1. ASSUME LoadInv, NoPrefixInv, phase = "running", NEW k \in {"prefix", "secret"},
             NEW i \in DOMAIN runner.lists[k], NEW p, p = runner.lists[k][i],
             NEW x, x = Deref(heap, k, p)
      PROVE  /\ p.owner \in {"own", "cli"}
             /\ p.owner = "own" => \E f \in ToSet(Walk) : \E j \in DOMAIN loaded[f] :
                                       /\ loaded[f][j].key = k
                                       /\ NoPrefixOf(x) = NoPrefixOf(loaded[f][j].set)
             /\ p.owner = "cli" => NoPrefixOf(x) = noPrefix
  <2>1. k \in Kinds /\ Configured /\ ShapeInv /\ Reading.ok /\ After
    BY <1>1 DEF Kinds, Configured, LoadInv, LoadedInv, After
  <2>2. AreFinalized(cfg.lists, Start, [lists |-> runner.lists, heap |-> heap])
        /\ AreLists(cfg.lists, Start)
    BY <1>1, <2>1 DEF LoadInv, RunningInv, LoadedInv
  <2>3. KeptHeap(heap, Start) /\ AreLists(runner.lists, heap)
    BY <2>2 DEF AreFinalized
  <2>4. Leads(heap, k, p)
    <3>1. PICK l : l = runner.lists
      OBVIOUS
    <3>2. DOMAIN l[k] = 1..Len(l[k])
      BY <2>1, <2>3, <3>1, SeqForm DEF AreLists, AreBlocks
    <3>3. QED
      BY <1>1, <2>1, <2>3, <3>1, <3>2 DEF AreLists
  <2>5. PICK h : h = Start
    OBVIOUS
  <2>6. Leads(h, k, p) /\ KeptHeap(heap, h)
    BY <2>1, <2>3, <2>4, <2>5, KeptLeads
  <2>7. PICK y : y = Deref(h, k, p)
    OBVIOUS
  <2>8. Kept(k, x, y)
    BY <1>1, <2>1, <2>6, <2>7, KeptDeref
  <2>9. NoPrefixOf(x) = NoPrefixOf(y)
    BY <2>1, <2>8, KeptForm
  <2>10. PICK b, c : b = Reading.blocks /\ c = given.blocks
    OBVIOUS
  <2>11. h["own"] = b /\ h["cli"] = c
    BY <2>5, <2>10 DEF Start, Blocks
  <2>12. CASE p.owner = "own"
    <3>1. y = b[k][p.at] /\ p.at \in 1..Len(b[k])
      BY <2>6, <2>7, <2>11, <2>12 DEF Deref, Leads
    <3>2. PICK f \in ToSet(Walk) : \E j \in DOMAIN loaded[f] :
             loaded[f][j].key = k /\ y = loaded[f][j].set
      BY <2>1, <2>10, <3>1, FilesName, ConfigurationAssumption
    <3>3. QED
      BY <2>9, <2>12, <3>2
  <2>13. CASE p.owner = "cli"
    <3>1. y = c[k][p.at] /\ p.at \in 1..Len(c[k])
      BY <2>6, <2>7, <2>11, <2>13 DEF Deref, Leads
    <3>2. NoPrefixOf(y) = noPrefix
      BY <1>1, <2>1, <2>10, <3>1 DEF NoPrefixInv
    <3>3. QED
      BY <2>9, <2>13, <3>2
  <2>14. QED
    BY <2>4, <2>12, <2>13 DEF Leads, Owners
<1>2. ASSUME LoadInv, NoPrefixInv, phase = "running" PROVE NoPrefixReachesFlagBlocks
  <2>1. LastSwitch
    BY <1>2 DEF NoPrefixInv
  <2>2. /\ Switches = {} => noPrefix = "unset"
        /\ Switches # {} => \E l \in Switches : /\ \A m \in Switches : m <= l
                                                /\ noPrefix = args[l].value
    BY <2>1 DEF LastSwitch, IsLast
  <2>3. ASSUME NEW k \in {"prefix", "secret"}, NEW i \in DOMAIN runner.lists[k],
               NEW p, p = runner.lists[k][i], NEW b, b = Deref(heap, k, p)
        PROVE  CASE p.owner = "own" ->
                      \E f \in ToSet(Walk) : \E j \in DOMAIN loaded[f] :
                          /\ loaded[f][j].key = k
                          /\ NoPrefixOf(b) = NoPrefixOf(loaded[f][j].set)
                 [] p.owner = "cli" /\ Switches = {} -> NoPrefixOf(b) = "unset"
                 [] p.owner = "cli" /\ Switches # {} ->
                      \E l \in Switches : /\ \A m \in Switches : m <= l
                                          /\ NoPrefixOf(b) = args[l].value
    <3>1. /\ p.owner \in {"own", "cli"}
          /\ p.owner = "own" => \E f \in ToSet(Walk) : \E j \in DOMAIN loaded[f] :
                                    /\ loaded[f][j].key = k
                                    /\ NoPrefixOf(b) = NoPrefixOf(loaded[f][j].set)
          /\ p.owner = "cli" => NoPrefixOf(b) = noPrefix
      BY <1>1, <1>2, <2>3
    <3>2. CASE p.owner = "own"
      BY <3>1, <3>2
    <3>3. CASE p.owner = "cli" /\ Switches = {}
      BY <2>2, <3>1, <3>3
    <3>4. CASE p.owner = "cli" /\ Switches # {}
      BY <2>2, <3>1, <3>4
    <3>5. QED
      BY <3>1, <3>2, <3>3, <3>4
  <2>4. QED
    BY <2>3, Zenon DEF NoPrefixReachesFlagBlocks, Switches
<1>3. LoadInv /\ NoPrefixInv => NoPrefixReachesFlagBlocks
  BY <1>2 DEF NoPrefixReachesFlagBlocks
<1>4. QED
  BY <1>3, Loads, SwitchRemembered, PTL

-----------------------------------------------------------------------------
(* The formats of the services.                                              *)

\* The flags that give the m-th service this format.
FormatsOf(m, f) == {i \in Formats : ServiceAt(i) = m /\ args[i].flag[2] = f}

\* Each format reached its service.
Reached(services) ==
    \A m \in DOMAIN services : \A f \in FormatFields :
        LET by == FormatsOf(m, f)
        IN  IF by = {} THEN f \in DOMAIN services[m] => services[m][f] = ""
            ELSE \E i \in by : /\ IsLast(i, by)
                               /\ f \in DOMAIN services[m]
                               /\ services[m][f] = args[i].value

FormatInv ==
    IF phase = "panicked" THEN \E i \in Formats : ServiceAt(i) = 0
    ELSE /\ Len(heap["cli"]["service"]) = Cardinality(Queries)
         /\ \A i \in Formats : ServiceAt(i) # 0
         /\ Reached(heap["cli"]["service"])

LEMMA QueriesGrow ==
    ASSUME NEW n, NEW a, Grown(n, a)
    PROVE  /\ Cardinality(Queries) \in Nat
           /\ \A i \in 1..n : /\ ServiceAt(i)' = ServiceAt(i)
                              /\ ServiceAt(i) \in Nat /\ ServiceAt(i) <= Cardinality(Queries)
           /\ ServiceAt(n + 1)' = Cardinality(Queries)
           /\ a.flag = Query => /\ Formats' = Formats
                                /\ Cardinality(Queries') = Cardinality(Queries) + 1
           /\ a.flag # Query => Queries' = Queries
           /\ IsFormat(a) => Formats' = Formats \cup {n + 1}
           /\ ~IsFormat(a) => Formats' = Formats
<1>1. Queries \subseteq 1..n /\ IsFiniteSet(1..n)
  BY FS_Interval DEF Grown, Queries
<1>2. IsFiniteSet(Queries) /\ Cardinality(Queries) \in Nat
  BY <1>1, FS_Subset, FS_CardinalityType
<1>3. ASSUME NEW i \in 1..n
      PROVE  /\ ServiceAt(i)' = ServiceAt(i)
             /\ ServiceAt(i) \in Nat /\ ServiceAt(i) <= Cardinality(Queries)
  <2>1. {q \in Queries' : q < i} = {q \in Queries : q < i}
    BY DEF Grown, Queries
  <2>2. PICK Q : Q = {q \in Queries : q < i}
    OBVIOUS
  <2>3. Q \subseteq Queries
    BY <2>2
  <2>4. Cardinality(Q) \in Nat /\ Cardinality(Q) <= Cardinality(Queries)
    BY <1>2, <2>3, FS_Subset, FS_CardinalityType
  <2>5. QED
    BY <2>1, <2>2, <2>4 DEF ServiceAt
<1>4. ServiceAt(n + 1)' = Cardinality(Queries)
  <2>1. {q \in Queries' : q < n + 1} = Queries
    BY DEF Grown, Queries
  <2>2. QED
    BY <2>1 DEF ServiceAt
<1>5. a.flag # Query => Queries' = Queries
  BY DEF Grown, Queries
<1>6. ~IsFormat(a) => Formats' = Formats
  BY DEF Grown, Formats, IsFormat
<1>7. IsFormat(a) => Formats' = Formats \cup {n + 1}
  BY DEF Grown, Formats, IsFormat
<1>8. ASSUME a.flag = Query
      PROVE  Formats' = Formats /\ Cardinality(Queries') = Cardinality(Queries) + 1
  <2>1. ~IsFormat(a)
    BY <1>8 DEF IsFormat, FormatFields, Query
  <2>2. Queries' = Queries \cup {n + 1}
    BY <1>8 DEF Grown, Queries
  <2>3. n + 1 \notin Queries
    BY DEF Grown, Queries
  <2>4. Cardinality(Queries \cup {n + 1}) = Cardinality(Queries) + 1
    BY <1>2, <2>3, FS_AddElement
  <2>5. QED
    BY <1>6, <2>1, <2>2, <2>4
<1>9. QED
  BY <1>2, <1>3, <1>4, <1>5, <1>6, <1>7, <1>8

\* Which flags give a service its formats does not change with later flags,
\* but for the service a further format is about.
LEMMA FormatsGrow ==
    ASSUME NEW n, NEW a, Grown(n, a), NEW m \in Nat, NEW f
    PROVE  /\ FormatsOf(m, f) \subseteq 1..n
           /\ IsFormat(a) /\ m = Cardinality(Queries) /\ f = a.flag[2] =>
                 FormatsOf(m, f)' = FormatsOf(m, f) \cup {n + 1}
           /\ ~IsFormat(a) \/ m # Cardinality(Queries) \/ f # a.flag[2] =>
                 FormatsOf(m, f)' = FormatsOf(m, f)
           /\ m > Cardinality(Queries) => FormatsOf(m, f) = {}
           /\ \A i \in FormatsOf(m, f) : args'[i] = args[i]
<1>1. /\ Cardinality(Queries) \in Nat
      /\ \A i \in 1..n : /\ ServiceAt(i)' = ServiceAt(i)
                         /\ ServiceAt(i) \in Nat /\ ServiceAt(i) <= Cardinality(Queries)
      /\ ServiceAt(n + 1)' = Cardinality(Queries)
      /\ IsFormat(a) => Formats' = Formats \cup {n + 1}
      /\ ~IsFormat(a) => Formats' = Formats
  BY QueriesGrow
<1>2. Formats \subseteq 1..n /\ n \in Nat /\ args'[n + 1] = a /\ \A i \in 1..n : args'[i] = args[i]
  BY DEF Grown, Formats
<1>3. FormatsOf(m, f) = {i \in Formats : ServiceAt(i) = m /\ args[i].flag[2] = f}
  BY DEF FormatsOf
<1>4. FormatsOf(m, f)' = {i \in Formats' : ServiceAt(i)' = m /\ args'[i].flag[2] = f}
  BY DEF FormatsOf
<1>5. {i \in Formats : ServiceAt(i)' = m /\ args'[i].flag[2] = f} = FormatsOf(m, f)
  BY <1>1, <1>2, <1>3
<1>6. ASSUME IsFormat(a), m = Cardinality(Queries), f = a.flag[2]
      PROVE  FormatsOf(m, f)' = FormatsOf(m, f) \cup {n + 1}
  BY <1>1, <1>2, <1>4, <1>5, <1>6
<1>7. ASSUME ~IsFormat(a) \/ m # Cardinality(Queries) \/ f # a.flag[2]
      PROVE  FormatsOf(m, f)' = FormatsOf(m, f)
  BY <1>1, <1>2, <1>4, <1>5, <1>7
<1>8. m > Cardinality(Queries) => FormatsOf(m, f) = {}
  <2>1. ASSUME m > Cardinality(Queries), NEW i \in FormatsOf(m, f) PROVE FALSE
    <3>1. i \in 1..n /\ ServiceAt(i) = m
      BY <1>2, <1>3
    <3>2. m <= Cardinality(Queries)
      BY <1>1, <3>1
    <3>3. QED
      BY <1>1, <2>1, <3>2
  <2>2. QED
    BY <2>1
<1>9. QED
  BY <1>2, <1>3, <1>6, <1>7, <1>8

LEMMA FormatFlags ==
    ASSUME LoadInv, FormatInv, phase = "flags", NEW a,
           \/ SetFlag(a) \/ AddBlock(a) \/ FormatService(a) \/ SetNoPrefix(a)
           \/ AddPath(a) \/ AskVersion(a) \/ StopParsing(a)
    PROVE  FormatInv'
<1>1. args' = Append(args, a) /\ ShapeInv /\ IsSeq(args)
  BY DEF SetFlag, AddBlock, FormatService, SetNoPrefix, AddPath, AskVersion, StopParsing, Takes,
      LoadInv, ShapeInv
<1>2. PICK n : Grown(n, a)
  BY <1>1, FlagsGrow
<1>3. /\ n \in Nat /\ DOMAIN args = 1..n /\ args'[n + 1] = a
      /\ \A i \in 1..n : args'[i] = args[i]
  BY <1>2 DEF Grown
<1>4. PICK C : C = Cardinality(Queries)
  OBVIOUS
<1>5. PICK s, t : s = heap["cli"]["service"] /\ t = heap'["cli"]["service"]
  OBVIOUS
<1>6. Len(s) = C /\ (\A i \in Formats : ServiceAt(i) # 0) /\ Reached(s)
  BY <1>4, <1>5 DEF FormatInv
<1>7. /\ C \in Nat
      /\ \A i \in 1..n : ServiceAt(i)' = ServiceAt(i)
      /\ ServiceAt(n + 1)' = C
      /\ a.flag = Query => Formats' = Formats /\ Cardinality(Queries') = C + 1
      /\ a.flag # Query => Queries' = Queries
      /\ IsFormat(a) => Formats' = Formats \cup {n + 1}
      /\ ~IsFormat(a) => Formats' = Formats
  BY <1>2, <1>4, QueriesGrow
<1>8. Formats \subseteq 1..n
  BY <1>3 DEF Formats
<1>9. IsSeq(s) /\ IsSeq(t) /\ DOMAIN s = 1..C
  <2>1. ShapeInv'
    BY <1>1, FlagsShape
  <2>2. IsSeq(s) /\ IsSeq(t)
    BY <1>1, <1>5, <2>1 DEF ShapeInv, IsHeap, AreBlocks, Owners, Kinds
  <2>3. QED
    BY <1>6, <2>2, SeqForm
<1>10. \A m \in Nat : \A f :
         /\ IsFormat(a) /\ m = C /\ f = a.flag[2] => FormatsOf(m, f)' = FormatsOf(m, f) \cup {n + 1}
         /\ ~IsFormat(a) \/ m # C \/ f # a.flag[2] => FormatsOf(m, f)' = FormatsOf(m, f)
         /\ m > C => FormatsOf(m, f) = {}
         /\ FormatsOf(m, f) \subseteq 1..n
  BY <1>2, <1>4, FormatsGrow
\* What a service has stays right when its flags and it stay the same.
<1>11. ASSUME NEW m \in 1..C, NEW f \in FormatFields, FormatsOf(m, f)' = FormatsOf(m, f),
              NEW x, f \in DOMAIN x <=> f \in DOMAIN s[m], f \in DOMAIN x => x[f] = s[m][f]
       PROVE  IF FormatsOf(m, f)' = {} THEN f \in DOMAIN x => x[f] = ""
              ELSE \E i \in FormatsOf(m, f)' : /\ IsLast(i, FormatsOf(m, f)')
                                               /\ f \in DOMAIN x
                                               /\ x[f] = args'[i].value
  <2>1. PICK by : by = FormatsOf(m, f)
    OBVIOUS
  <2>2. IF by = {} THEN f \in DOMAIN s[m] => s[m][f] = ""
        ELSE \E i \in by : IsLast(i, by) /\ f \in DOMAIN s[m] /\ s[m][f] = args[i].value
    BY <1>6, <1>9, <2>1 DEF Reached
  <2>3. by \subseteq 1..n
    BY <1>7, <1>10, <2>1
  <2>4. QED
    BY <1>3, <1>11, <2>1, <2>2, <2>3
<1>12. CASE a.flag = Query /\ ~StopParsing(a)
  <2>1. PICK e : Appends(s, e, t) /\ e = ParseServiceConfig(a.value)
    BY <1>1, <1>5, <1>12, FlagsBlocks DEF Kinds, FlagOf, Query
  <2>2. IsAppended(s, e, t)
    BY <1>9, <2>1, AppendedForm, Zenon
  <2>3. Len(t) = C + 1 /\ t[C + 1] = e /\ \A i \in 1..C : t[i] = s[i]
    BY <1>6, <2>2 DEF IsAppended
  <2>4. ~IsFormat(a)
    BY <1>12 DEF IsFormat, FormatFields, Query
  <2>5. DOMAIN t = 1..C + 1
    BY <1>9, <2>3, SeqForm
  <2>6. ASSUME NEW m \in 1..C + 1, NEW f \in FormatFields
        PROVE  IF FormatsOf(m, f)' = {} THEN f \in DOMAIN t[m] => t[m][f] = ""
               ELSE \E i \in FormatsOf(m, f)' : /\ IsLast(i, FormatsOf(m, f)')
                                                /\ f \in DOMAIN t[m]
                                                /\ t[m][f] = args'[i].value
    <3>0. C \in Nat
      BY <1>7
    <3>1. m \in Nat /\ (m \in 1..C \/ (m = C + 1 /\ m > C))
      BY <3>0
    <3>2. FormatsOf(m, f)' = FormatsOf(m, f)
      BY <1>10, <2>4, <3>1
    <3>3. CASE m \in 1..C
      <4>1. PICK x : x = t[m]
        OBVIOUS
      <4>2. x = s[m]
        BY <2>3, <3>3, <4>1
      <4>3. (f \in DOMAIN x <=> f \in DOMAIN s[m]) /\ (f \in DOMAIN x => x[f] = s[m][f])
        BY <4>2
      <4>4. QED
        BY <1>11, <3>2, <3>3, <4>1, <4>3
    <3>4. CASE m = C + 1 /\ m > C
      <4>1. FormatsOf(m, f)' = {}
        BY <1>10, <3>1, <3>2, <3>4
      <4>2. f \notin DOMAIN t[m]
        BY <2>1, <2>3, <3>4 DEF ParseServiceConfig, FormatFields
      <4>3. QED
        BY <4>1, <4>2
    <3>5. QED
      BY <3>1, <3>3, <3>4
  <2>7. Reached(t)'
    <3>1. ASSUME NEW m \in DOMAIN t, NEW f \in FormatFields
          PROVE  LET by == FormatsOf(m, f)'
                 IN  IF by = {} THEN f \in DOMAIN t[m] => t[m][f] = ""
                     ELSE \E i \in by : /\ IsLast(i, by)
                                        /\ f \in DOMAIN t[m]
                                        /\ t[m][f] = args'[i].value
      BY <2>5, <2>6
    <3>2. QED
      BY <3>1 DEF Reached
  <2>8. \A i \in Formats' : ServiceAt(i)' # 0
    BY <1>6, <1>7, <1>8, <1>12
  <2>9. phase' # "panicked"
    <3>1. ~FormatService(a)
      BY <2>4 DEF FormatService
    <3>2. QED
      BY <1>12, <3>1 DEF SetFlag, AddBlock, SetNoPrefix, AddPath, AskVersion
  <2>10. Len(t) = Cardinality(Queries')
    BY <1>7, <1>12, <2>3
  <2>11. QED
    BY <1>5, <2>7, <2>8, <2>9, <2>10 DEF FormatInv
<1>13. CASE FormatService(a)
  <2>1. PICK g \in FormatFields : a.flag = <<"service", g>>
    BY <1>13 DEF FormatService, IsFormat
  <2>2. IsFormat(a) /\ a.flag # Query /\ a.flag[2] = g
    BY <2>1 DEF IsFormat, FormatFields, Query
  <2>3. Formats' = Formats \cup {n + 1} /\ Queries' = Queries
    BY <1>7, <2>2
  <2>4. CASE s = <<>>
    <3>1. phase' = "panicked"
      BY <1>5, <1>13, <2>4 DEF FormatService
    <3>2. C = 0
      BY <1>6, <2>4, Tuples
    <3>3. QED
      BY <1>7, <2>3, <3>1, <3>2 DEF FormatInv
  <2>5. CASE s # <<>>
    <3>1. phase' # "panicked"
      BY <1>5, <1>13, <2>5 DEF FormatService
    <3>2. t = [s EXCEPT ![C] = Over([f \in {g} |-> a.value], @)]
      <4>1. heap["cli"]["service"] = s /\ IsHeap(heap)
        BY <1>1, <1>5 DEF ShapeInv
      <4>2. heap = [o \in Owners |-> heap[o]] /\ heap["cli"] = [k \in Kinds |-> heap["cli"][k]]
        BY <4>1 DEF IsHeap, AreBlocks, Owners
      <4>3. heap' = [heap EXCEPT !.cli["service"] = [s EXCEPT ![Len(s)] =
                        Over([f \in {a.flag[2]} |-> a.value], @)]]
        BY <1>5, <1>13, <2>5 DEF FormatService, LastSeviceConfig
      <4>4. t = [s EXCEPT ![Len(s)] = Over([f \in {a.flag[2]} |-> a.value], @)]
        BY <1>5, <4>2, <4>3 DEF Owners, Kinds
      <4>5. QED
        BY <1>6, <2>2, <4>4
    <3>3. DOMAIN t = 1..C
      BY <1>9, <3>2
    <3>4. Len(t) = C
      BY <1>7, <1>9, <3>3, SeqForm
    <3>5. C # 0
      <4>1. ASSUME C = 0 PROVE s = <<>>
        BY <1>6, <1>9, <4>1, SeqsEqual, Tuples
      <4>2. QED
        BY <2>5, <4>1
    <3>6. ASSUME NEW m \in 1..C, NEW f \in FormatFields
          PROVE  IF FormatsOf(m, f)' = {} THEN f \in DOMAIN t[m] => t[m][f] = ""
                 ELSE \E i \in FormatsOf(m, f)' : /\ IsLast(i, FormatsOf(m, f)')
                                                  /\ f \in DOMAIN t[m]
                                                  /\ t[m][f] = args'[i].value
      <4>1. PICK x, y : x = t[m] /\ y = s[m]
        OBVIOUS
      <4>2. m \in Nat
        BY <1>7
      <4>3. CASE m = C /\ f = g
        <5>1. FormatsOf(m, f)' = FormatsOf(m, f) \cup {n + 1} /\ FormatsOf(m, f) \subseteq 1..n
          BY <1>10, <2>2, <4>2, <4>3
        <5>2. n + 1 \in FormatsOf(m, f)' /\ \A j \in FormatsOf(m, f)' : j <= n + 1
          BY <1>3, <5>1
        <5>3. x = Over([h \in {g} |-> a.value], y)
          BY <1>9, <3>2, <4>1, <4>3
        <5>4. f \in DOMAIN x /\ x[f] = a.value
          BY <4>3, <5>3 DEF Over
        <5>5. QED
          BY <1>3, <4>1, <5>2, <5>4 DEF IsLast
      <4>4. CASE ~(m = C /\ f = g)
        <5>1. FormatsOf(m, f)' = FormatsOf(m, f)
          BY <1>10, <2>2, <4>2, <4>4
        <5>2. (f \in DOMAIN x <=> f \in DOMAIN y) /\ (f \in DOMAIN x => x[f] = y[f])
          <6>1. CASE m # C
            BY <1>9, <3>2, <4>1, <6>1
          <6>2. CASE m = C /\ f # g
            <7>1. x = Over([h \in {g} |-> a.value], y)
              BY <1>9, <3>2, <4>1, <6>2
            <7>2. QED
              BY <6>2, <7>1 DEF Over
          <6>3. QED
            BY <4>4, <6>1, <6>2
        <5>3. QED
          BY <1>11, <4>1, <5>1, <5>2
      <4>5. QED
        BY <4>3, <4>4
    <3>7. Reached(t)'
      <4>1. ASSUME NEW m \in DOMAIN t, NEW f \in FormatFields
            PROVE  LET by == FormatsOf(m, f)'
                   IN  IF by = {} THEN f \in DOMAIN t[m] => t[m][f] = ""
                       ELSE \E i \in by : /\ IsLast(i, by)
                                          /\ f \in DOMAIN t[m]
                                          /\ t[m][f] = args'[i].value
        BY <3>3, <3>6
      <4>2. QED
        BY <4>1 DEF Reached
    <3>8. \A i \in Formats' : ServiceAt(i)' # 0
      BY <1>6, <1>7, <1>8, <2>3, <3>5
    <3>9. QED
      BY <1>4, <1>5, <2>3, <3>1, <3>4, <3>7, <3>8 DEF FormatInv
  <2>6. QED
    BY <2>4, <2>5
<1>14. CASE ~FormatService(a) /\ (a.flag # Query \/ StopParsing(a))
  <2>1. a.flag # Query /\ ~IsFormat(a) /\ t = s /\ phase' # "panicked"
    <3>1. CASE StopParsing(a)
      <4>1. a.flag \in {<<"help">>, <<"unknown">>} \/ a.flag \in Typed
        BY <3>1 DEF StopParsing, Accepted
      <4>2. ASSUME NEW f \in Fields("service"), a.flag = <<"service", f>> PROVE FALSE
        <5>1. a.flag[Len(a.flag)] = f
          BY <4>2
        <5>2. a.flag \notin Typed
          BY <5>1 DEF Typed, Fields
        <5>3. a.flag[1] = "service" /\ Len(a.flag) = 2
          BY <4>2
        <5>4. QED
          BY <4>1, <5>2, <5>3
      <4>3. a.flag # Query /\ ~IsFormat(a)
        BY <4>2 DEF Query, IsFormat, FormatFields, Fields
      <4>4. QED
        BY <1>5, <3>1, <4>3 DEF StopParsing
    <3>2. CASE ~StopParsing(a)
      <4>1. a.flag # Query
        BY <1>14, <3>2
      <4>2. t = s
        BY <1>1, <1>5, <1>14, <3>2, <4>1, FlagsBlocks DEF Kinds, FlagOf, Query
      <4>3. a.flag[1] = "service" => FALSE
        <5>1. CASE SetFlag(a)
          BY <5>1, FlagHeads DEF SetFlag, Heads, StanzaHeads
        <5>2. CASE AddBlock(a)
          <6>1. a.flag \in {<<"prefix">>, <<"secret">>, <<"service", "query">>}
            BY <5>2 DEF AddBlock, Kinds
          <6>2. QED
            BY <4>1, <6>1 DEF Query
        <5>3. CASE SetNoPrefix(a) \/ AddPath(a) \/ AskVersion(a)
          BY <5>3 DEF SetNoPrefix, AddPath, AskVersion
        <5>4. QED
          BY <1>14, <3>2, <5>1, <5>2, <5>3
      <4>4. ~IsFormat(a)
        BY <4>3 DEF IsFormat
      <4>5. phase' # "panicked"
        BY <1>14, <3>2 DEF SetFlag, AddBlock, SetNoPrefix, AddPath, AskVersion
      <4>6. QED
        BY <4>1, <4>2, <4>4, <4>5
    <3>3. QED
      BY <3>1, <3>2
  <2>2. Queries' = Queries /\ Formats' = Formats
    BY <1>7, <2>1
  <2>3. \A i \in Formats' : ServiceAt(i)' # 0
    BY <1>6, <1>7, <1>8, <2>2
  <2>4. ASSUME NEW m \in 1..C, NEW f \in FormatFields
        PROVE  IF FormatsOf(m, f)' = {} THEN f \in DOMAIN s[m] => s[m][f] = ""
               ELSE \E i \in FormatsOf(m, f)' : /\ IsLast(i, FormatsOf(m, f)')
                                                /\ f \in DOMAIN s[m]
                                                /\ s[m][f] = args'[i].value
    <3>1. m \in Nat
      BY <1>7
    <3>2. FormatsOf(m, f)' = FormatsOf(m, f)
      BY <1>10, <2>1, <3>1
    <3>3. PICK x : x = s[m]
      OBVIOUS
    <3>4. (f \in DOMAIN x <=> f \in DOMAIN s[m]) /\ (f \in DOMAIN x => x[f] = s[m][f])
      BY <3>3
    <3>5. IF FormatsOf(m, f)' = {} THEN f \in DOMAIN x => x[f] = ""
          ELSE \E i \in FormatsOf(m, f)' : /\ IsLast(i, FormatsOf(m, f)')
                                           /\ f \in DOMAIN x
                                           /\ x[f] = args'[i].value
      BY <1>11, <3>2, <3>4, Zenon
    <3>6. QED
      BY <3>3, <3>5
  <2>5. Reached(t)'
    <3>1. ASSUME NEW m \in DOMAIN t, NEW f \in FormatFields
          PROVE  LET by == FormatsOf(m, f)'
                 IN  IF by = {} THEN f \in DOMAIN t[m] => t[m][f] = ""
                     ELSE \E i \in by : /\ IsLast(i, by)
                                        /\ f \in DOMAIN t[m]
                                        /\ t[m][f] = args'[i].value
      BY <1>9, <2>1, <2>4
    <3>2. QED
      BY <3>1 DEF Reached
  <2>6. QED
    BY <1>4, <1>5, <1>6, <2>1, <2>2, <2>3, <2>5 DEF FormatInv
<1>15. QED
  BY <1>12, <1>13, <1>14

\* Finalizing the services takes no format from them and gives them none.
LEMMA FormatsKept ==
    ASSUME LoadInv, UNCHANGED args, NEW s, NEW t, IsSeq(s), IsSeq(t), Len(t) = Len(s),
           \A i \in 1..Len(s) : Kept("service", t[i], s[i]), Reached(s)
    PROVE  Reached(t)'
<1>1. DOMAIN s = 1..Len(s) /\ DOMAIN t = 1..Len(s)
  BY SeqForm
<1>2. Formats' = Formats /\ \A i : ServiceAt(i)' = ServiceAt(i)
  BY DEF Formats, ServiceAt, Queries
<1>3. ASSUME NEW m \in 1..Len(s), NEW f \in FormatFields
      PROVE  LET by == FormatsOf(m, f)'
             IN  IF by = {} THEN f \in DOMAIN t[m] => t[m][f] = ""
                 ELSE \E i \in by : IsLast(i, by) /\ f \in DOMAIN t[m] /\ t[m][f] = args'[i].value
  <2>1. PICK by : by = FormatsOf(m, f)
    OBVIOUS
  <2>2. FormatsOf(m, f)' = by
    BY <1>2, <2>1 DEF FormatsOf
  <2>3. IF by = {} THEN f \in DOMAIN s[m] => s[m][f] = ""
        ELSE \E i \in by : IsLast(i, by) /\ f \in DOMAIN s[m] /\ s[m][f] = args[i].value
    BY <1>1, <2>1 DEF Reached
  <2>4. PICK x, y : x = t[m] /\ y = s[m]
    OBVIOUS
  <2>5. Kept("service", x, y)
    BY <2>4
  <2>6. /\ f \in DOMAIN y => f \in DOMAIN x /\ x[f] = y[f]
        /\ f \in DOMAIN x /\ f \notin DOMAIN y => x[f] = ""
    <3>1. CASE x = y
      BY <3>1
    <3>2. CASE x = FinalizeBlock("service", y)
      BY <3>2 DEF FinalizeBlock, Over
    <3>3. QED
      BY <2>5, <3>1, <3>2 DEF Kept
  <2>7. args' = args
    OBVIOUS
  <2>8. CASE by = {}
    BY <2>2, <2>3, <2>4, <2>6, <2>8
  <2>9. CASE by # {}
    BY <2>2, <2>3, <2>4, <2>6, <2>7, <2>9
  <2>10. QED
    BY <2>8, <2>9
<1>4. QED
  BY <1>1, <1>3 DEF Reached

LEMMA FormatStep ==
    ASSUME ConfigurationAssumption, LoadInv, FormatInv, [Next]_vars
    PROVE  FormatInv'
<1>1. PICK s, t : s = heap["cli"]["service"] /\ t = heap'["cli"]["service"]
  OBVIOUS
<1>2. ASSUME UNCHANGED args, phase' = "panicked" <=> phase = "panicked", Len(t) = Len(s),
             \A i \in 1..Len(s) : Kept("service", t[i], s[i])
      PROVE  FormatInv'
  <2>1. Queries' = Queries /\ Formats' = Formats /\ \A i : ServiceAt(i)' = ServiceAt(i)
    BY <1>2 DEF Queries, Formats, ServiceAt
  <2>2. CASE phase = "panicked"
    BY <1>2, <2>1, <2>2 DEF FormatInv
  <2>3. CASE phase # "panicked"
    <3>1. Len(s) = Cardinality(Queries) /\ (\A i \in Formats : ServiceAt(i) # 0) /\ Reached(s)
      BY <1>1, <2>3 DEF FormatInv
    <3>2. LoadInv'
      BY LoadStep
    <3>3. IsSeq(s) /\ IsSeq(t)
      BY <1>1, <3>2 DEF LoadInv, ShapeInv, IsHeap, AreBlocks, Owners, Kinds
    <3>4. Reached(t)'
      BY <1>2, <3>1, <3>3, FormatsKept
    <3>5. QED
      BY <1>1, <1>2, <2>1, <2>3, <3>1, <3>4 DEF FormatInv
  <2>4. QED
    BY <2>2, <2>3
<1>3. CASE Later
  <2>1. UNCHANGED args /\ (phase' = "panicked" <=> phase = "panicked")
    BY <1>3, LaterSame
  <2>2. "service" \in Kinds
    BY DEF Kinds
  <2>3. Len(t) = Len(s) /\ \A i \in 1..Len(s) : Kept("service", t[i], s[i])
    BY <1>1, <1>3, <2>2, LaterKept
  <2>4. QED
    BY <1>2, <2>1, <2>3
<1>4. ASSUME NEW w, EndFlags(w), phase = "flags" PROVE FormatInv'
  <2>1. UNCHANGED args /\ phase' # "panicked" /\ phase # "panicked"
    BY <1>4 DEF EndFlags
  <2>2. PICK b : b = NoPrefixed(heap["cli"])
    OBVIOUS
  <2>3. IsHeap(heap)
    BY DEF LoadInv, ShapeInv
  <2>4. heap = [o \in Owners |-> heap[o]]
    BY <2>3 DEF IsHeap
  <2>5. heap' = [heap EXCEPT !.cli = b]
    BY <1>4, <2>2 DEF EndFlags
  <2>6. heap'["cli"] = b
    BY <2>4, <2>5 DEF Owners
  <2>7. b["service"] = s
    BY <1>1, <2>2 DEF NoPrefixed, Kinds
  <2>8. t = s
    BY <1>1, <2>6, <2>7
  <2>9. QED
    BY <1>2, <2>1, <2>8 DEF Kept
<1>5. QED
  BY <1>3, <1>4, Steps, FormatFlags

\* Until the program panics, each service given by a flag has the formats that
\* were given after it, and before the next one.
THEOREM FormatsReach == Spec => []FormatInv
<1>1. Init => FormatInv
  <2>1. ASSUME Init PROVE args = <<>> /\ phase = "flags" /\ heap["cli"]["service"] = <<>>
    BY <2>1 DEF Init, NoBlocks, Owners, Kinds
  <2>2. ASSUME Init PROVE Queries = {} /\ Formats = {}
    BY <2>1, <2>2 DEF Queries, Formats
  <2>3. Cardinality({}) = 0
    BY FS_EmptySet
  <2>4. Len(<<>>) = 0 /\ \A m \in DOMAIN <<>> : FALSE
    BY Tuples
  <2>5. ASSUME Init
        PROVE  /\ phase # "panicked"
               /\ Len(heap["cli"]["service"]) = Cardinality(Queries)
               /\ \A i \in Formats : ServiceAt(i) # 0
               /\ \A m \in DOMAIN heap["cli"]["service"] : FALSE
    BY <2>1, <2>2, <2>3, <2>4, <2>5
  <2>6. QED
    BY <2>5 DEF FormatInv, Reached
<1>2. LoadInv /\ FormatInv /\ [Next]_vars => FormatInv'
  BY FormatStep, ConfigurationAssumption
<1>3. QED
  BY <1>1, <1>2, Loads, PTL DEF Spec

\* A format given by a flag reaches the service of the nearest -service-query
\* before it, and no other, unless a later format of the same service replaces
\* it (FormatService, cli.go:449).  With a format before every query the program
\* ends, one way or another, and no other command line makes it panic.
THEOREM FormatsReachTheirService == Spec => []FormatReachesItsService
<1>1. ASSUME FormatInv PROVE FormatReachesItsService
  <2>1. IF phase = "panicked" THEN \E i \in Formats : ServiceAt(i) = 0
        ELSE /\ \A i \in Formats : ServiceAt(i) # 0
             /\ \A n \in DOMAIN heap["cli"]["service"] : \A f \in FormatFields :
                    LET by == FormatsOf(n, f)
                    IN  IF by = {}
                        THEN f \in DOMAIN heap["cli"]["service"][n] =>
                                 heap["cli"]["service"][n][f] = ""
                        ELSE \E i \in by : /\ \A j \in by : j <= i
                                           /\ f \in DOMAIN heap["cli"]["service"][n]
                                           /\ heap["cli"]["service"][n][f] = args[i].value
    BY <1>1 DEF FormatInv, Reached, IsLast
  <2>2. PICK bad, right :
           /\ bad = (\E i \in Formats : ServiceAt(i) = 0)
           /\ right = (\A n \in DOMAIN heap["cli"]["service"] : \A f \in FormatFields :
                          LET by == FormatsOf(n, f)
                          IN  IF by = {}
                              THEN f \in DOMAIN heap["cli"]["service"][n] =>
                                       heap["cli"]["service"][n][f] = ""
                              ELSE \E i \in by : /\ \A j \in by : j <= i
                                                 /\ f \in DOMAIN heap["cli"]["service"][n]
                                                 /\ heap["cli"]["service"][n][f] = args[i].value)
    OBVIOUS
  <2>3. IF bad THEN phase \in {"panicked", "exited"} ELSE phase # "panicked" /\ right
    <3>1. IF phase = "panicked" THEN bad ELSE ~bad /\ right
      BY <2>1, <2>2, Zenon
    <3>2. QED
      BY <3>1
  <2>4. QED
    BY <2>2, <2>3, Zenon DEF FormatReachesItsService, FormatsOf
<1>2. QED
  BY <1>1, FormatsReach, PTL

-----------------------------------------------------------------------------
(* The settings the flags write.                                             *)

ExecSettings == {<<"exec", "enabled">>, <<"exec", "command">>}

LEMMA UnderOne ==
    ASSUME NEW stanza, NEW e
    PROVE  <<stanza>> \o <<e>> = <<stanza, e>>
<1>1. PICK d, k, s, t : d = <<stanza>> /\ k = <<e>> /\ s = d \o k /\ t = <<stanza, e>>
  OBVIOUS
<1>2. IsSeq(d) /\ Len(d) = 1 /\ d[1] = stanza /\ IsSeq(k) /\ Len(k) = 1 /\ k[1] = e
  BY <1>1, Tuples
<1>3. IsSeq(s) /\ Len(s) = 2 /\ s[1] = stanza /\ s[2] = e
  <2>1. Joins(d, k, s)
    BY <1>1 DEF Joins
  <2>2. IsJoined(d, k, s)
    BY <1>2, <2>1, JoinedForm, Zenon
  <2>3. QED
    BY <1>2, <2>2 DEF IsJoined
<1>4. IsSeq(t) /\ Len(t) = 2 /\ t[1] = stanza /\ t[2] = e
  <2>1. t \in Seq({stanza, e})
    BY <1>1
  <2>2. QED
    BY <1>1, <2>1 DEF IsSeq
<1>5. s = t
  BY <1>3, <1>4, SeqsEqual
<1>6. QED
  BY <1>1, <1>5

\* Only -exec writes the command, and it turns its stanza on.
LEMMA ExecTargets ==
    /\ <<"exec">> \in DOMAIN Targets /\ Targets[<<"exec">>] = ExecSettings
    /\ \A f \in DOMAIN Targets : \A s \in ExecSettings : s \in Targets[f] => f = <<"exec">>
<1>1. Under("exec", {<<"enabled">>, <<"command">>}) = ExecSettings
  <2>1. \A s : s \in Under("exec", {<<"enabled">>, <<"command">>}) <=>
                  s = <<"exec">> \o <<"enabled">> \/ s = <<"exec">> \o <<"command">>
    BY Zenon DEF Under
  <2>2. /\ <<"exec">> \o <<"enabled">> = <<"exec", "enabled">>
        /\ <<"exec">> \o <<"command">> = <<"exec", "command">>
    BY UnderOne
  <2>3. \A s : s \in Under("exec", {<<"enabled">>, <<"command">>}) <=> s \in ExecSettings
    BY <2>1, <2>2, Zenon DEF ExecSettings
  <2>4. QED
    BY <2>3, Zenon
<1>2. /\ \A f \in DOMAIN Targets :
           \/ f \in OwnFlags /\ Targets[f] = {f}
           \/ f \in DOMAIN StanzaFlags /\ Targets[f] = StanzaFlags[f]
           \/ f \in DOMAIN DeprecatedFlags /\ Targets[f] = DeprecatedFlags[f]
      /\ <<"exec">> \in DOMAIN Targets /\ Targets[<<"exec">>] = StanzaFlags[<<"exec">>]
  BY FlagHeads DEF Targets, Over, StanzaFlags
<1>3. Targets[<<"exec">>] = ExecSettings
  <2>1. StanzaFlags[<<"exec">>] = Under("exec", {<<"enabled">>, <<"command">>})
    BY DEF StanzaFlags
  <2>2. QED
    BY <1>1, <1>2, <2>1
<1>4. ASSUME NEW stanza, NEW keys, \A k \in keys : IsSeq(k), stanza # "exec", NEW s \in ExecSettings
      PROVE  s \notin Under(stanza, keys)
  <2>1. \A k \in keys : (<<stanza>> \o k)[1] = stanza
    BY <1>4, UnderForm
  <2>2. s[1] = "exec"
    BY DEF ExecSettings
  <2>3. QED
    BY <1>4, <2>1, <2>2 DEF Under
<1>5. ASSUME NEW keys, \A k \in keys : IsSeq(k), NEW s \in ExecSettings
      PROVE  s \notin InBoth(keys)
  BY <1>4, <1>5 DEF InBoth
<1>6. \A x : IsSeq(<<x>>)
  BY Tuples
<1>7. ASSUME NEW x, NEW y PROVE IsSeq(<<x, y>>)
  <2>1. <<x, y>> \in Seq({x, y})
    OBVIOUS
  <2>2. QED
    BY <2>1 DEF IsSeq
<1>8. ASSUME NEW s \in ExecSettings PROVE s \notin Auth
  <2>1. \A k \in {<<"auth", "username">>, <<"auth", "password">>} : IsSeq(k)
    BY <1>7
  <2>2. QED
    BY <1>4, <2>1 DEF Auth
<1>9. ASSUME NEW f \in DOMAIN DeprecatedFlags, NEW s \in ExecSettings
      PROVE  s \notin DeprecatedFlags[f]
  <2>1. CASE f \in {<<"retry">>, <<"ssl">>, <<"ssl_verify">>, <<"ssl_ca_cert">>, <<"ssl_cert">>}
    <3>1. PICK keys : DeprecatedFlags[f] = InBoth(keys) /\ \A k \in keys : \E x, y : k = <<x, y>>
      BY <2>1 DEF DeprecatedFlags
    <3>2. \A k \in keys : IsSeq(k)
      BY <1>7, <3>1
    <3>3. QED
      BY <1>5, <3>1, <3>2
  <2>2. CASE f = <<"auth">>
    BY <1>8, <2>2 DEF DeprecatedFlags
  <2>3. CASE f \in {<<"consul">>, <<"splay">>, <<"timeout">>, <<"token">>}
    BY <2>3 DEF DeprecatedFlags, ExecSettings
  <2>4. QED
    BY <2>1, <2>2, <2>3 DEF DeprecatedFlags
<1>10. ASSUME NEW f \in DOMAIN StanzaFlags, NEW s \in ExecSettings, s \in StanzaFlags[f]
       PROVE  f = <<"exec">>
  <2>1. CASE f = <<"consul", "auth">>
    BY <1>8, <1>10, <2>1 DEF StanzaFlags
  <2>2. CASE f = <<"wait">>
    <3>1. \A k \in {<<"min">>, <<"max">>} : IsSeq(k)
      BY <1>6
    <3>2. StanzaFlags[f] = Under("wait", {<<"min">>, <<"max">>})
      BY <2>2 DEF StanzaFlags
    <3>3. QED
      BY <1>4, <1>10, <3>1, <3>2
  <2>3. QED
    BY <1>10, <2>1, <2>2 DEF StanzaFlags
<1>11. QED
  BY <1>2, <1>3, <1>9, <1>10, FlagHeads DEF ExecSettings

\* What a flag writes, the flags that write a setting, and the words' command.
Written(a) == IF a.flag \in DOMAIN Targets THEN Writes(a.flag, a.value) ELSE Nothing
Writing(s) == {i \in DOMAIN args : s \in DOMAIN Written(args[i])}
Command == IF words = "" THEN Nothing ELSE Writes(<<"exec">>, words)

\* Every setting is what its last flag gave, or else the words after the flags.
CliInv ==
    phase \notin {"exited", "panicked"} =>
        /\ phase = "flags" => words = ""
        /\ \A s \in Settings :
             IF Writing(s) # {}
             THEN \E i \in Writing(s) : /\ IsLast(i, Writing(s))
                                        /\ s \in DOMAIN cli /\ cli[s] = Written(args[i])[s]
             ELSE /\ s \in DOMAIN cli <=> s \in DOMAIN Command
                  /\ s \in DOMAIN cli => cli[s] = Command[s]

LEMMA NothingForm == DOMAIN Nothing = {}
<1>1. \A i \in DOMAIN <<>> : FALSE
  OBVIOUS
<1>2. QED
  BY <1>1 DEF Nothing

LEMMA WritingGrow ==
    ASSUME NEW n, NEW a, Grown(n, a), NEW s
    PROVE  /\ Writing(s) \subseteq 1..n
           /\ s \in DOMAIN Written(a) => Writing(s)' = Writing(s) \cup {n + 1}
           /\ s \notin DOMAIN Written(a) => Writing(s)' = Writing(s)
BY DEF Grown, Writing

LEMMA CliFlags ==
    ASSUME LoadInv, CliInv, phase = "flags", NEW a,
           \/ SetFlag(a) \/ AddBlock(a) \/ FormatService(a) \/ SetNoPrefix(a)
           \/ AddPath(a) \/ AskVersion(a) \/ StopParsing(a)
    PROVE  CliInv'
<1>1. /\ args' = Append(args, a) /\ IsSeq(args) /\ UNCHANGED words
  BY DEF SetFlag, AddBlock, FormatService, SetNoPrefix, AddPath, AskVersion, StopParsing, Takes,
      LoadInv, ShapeInv
<1>2. PICK n : Grown(n, a)
  BY <1>1, FlagsGrow
<1>3. CASE StopParsing(a)
  BY <1>3 DEF StopParsing, CliInv
<1>4. CASE ~StopParsing(a)
  <2>1. PICK new : new = Written(a)
    OBVIOUS
  <2>2. \A s : /\ s \in DOMAIN new => s \in DOMAIN cli' /\ cli'[s] = new[s]
               /\ s \notin DOMAIN new => /\ s \in DOMAIN cli' <=> s \in DOMAIN cli
                                         /\ s \in DOMAIN cli => cli'[s] = cli[s]
    <3>1. CASE SetFlag(a)
      <4>1. cli' = Over(new, cli)
        BY <2>1, <3>1 DEF SetFlag, Written
      <4>2. QED
        BY <4>1 DEF Over
    <3>2. CASE AddBlock(a) \/ FormatService(a) \/ SetNoPrefix(a) \/ AddPath(a) \/ AskVersion(a)
      <4>1. cli' = cli
        BY <3>2 DEF AddBlock, FormatService, SetNoPrefix, AddPath, AskVersion, flagVars
      <4>2. a.flag[1] \in {"prefix", "secret", "service", "no_prefix", "config", "version"}
        BY <3>2 DEF AddBlock, FormatService, IsFormat, SetNoPrefix, AddPath, AskVersion, Kinds
      <4>3. a.flag \notin DOMAIN Targets
        BY <4>2, FlagHeads DEF Heads, StanzaHeads
      <4>4. DOMAIN new = {}
        BY <2>1, <4>3 DEF Written, Nothing
      <4>5. QED
        BY <4>1, <4>4
    <3>3. QED
      BY <1>4, <3>1, <3>2
  <2>3. words = "" /\ Command' = Command
    BY <1>1 DEF CliInv, Command
  <2>4. ASSUME NEW s \in Settings
        PROVE  IF Writing(s)' # {}
               THEN \E i \in Writing(s)' : /\ IsLast(i, Writing(s)')
                                           /\ s \in DOMAIN cli' /\ cli'[s] = Written(args'[i])[s]
               ELSE /\ s \in DOMAIN cli' <=> s \in DOMAIN Command'
                    /\ s \in DOMAIN cli' => cli'[s] = Command'[s]
    <3>1. PICK W : W = Writing(s)
      OBVIOUS
    <3>2. /\ n \in Nat /\ args'[n + 1] = a /\ \A i \in 1..n : args'[i] = args[i]
          /\ W \subseteq 1..n
          /\ s \in DOMAIN new => Writing(s)' = W \cup {n + 1}
          /\ s \notin DOMAIN new => Writing(s)' = W
      BY <1>2, <2>1, <3>1, WritingGrow DEF Grown
    <3>3. IF W # {}
          THEN \E i \in W : IsLast(i, W) /\ s \in DOMAIN cli /\ cli[s] = Written(args[i])[s]
          ELSE (s \in DOMAIN cli <=> s \in DOMAIN Command) /\ (s \in DOMAIN cli => cli[s] = Command[s])
      BY <3>1 DEF CliInv
    <3>4. CASE s \in DOMAIN new
      <4>1. IsLast(n + 1, W \cup {n + 1})
        BY <3>2 DEF IsLast
      <4>2. s \in DOMAIN cli' /\ cli'[s] = Written(args'[n + 1])[s]
        BY <2>1, <2>2, <3>2, <3>4
      <4>3. QED
        BY <3>2, <3>4, <4>1, <4>2
    <3>5. CASE s \notin DOMAIN new
      <4>1. CASE W # {}
        <5>1. PICK i \in W : IsLast(i, W) /\ s \in DOMAIN cli /\ cli[s] = Written(args[i])[s]
          BY <3>3, <4>1
        <5>2. s \in DOMAIN cli' /\ cli'[s] = Written(args'[i])[s]
          BY <2>2, <3>2, <3>5, <5>1
        <5>3. QED
          BY <3>2, <3>5, <5>1, <5>2
      <4>2. CASE W = {}
        BY <2>2, <2>3, <3>2, <3>3, <3>5, <4>2
      <4>3. QED
        BY <4>1, <4>2
    <3>6. QED
      BY <3>4, <3>5
  <2>5. phase' = "flags" => words' = ""
    BY <1>1, <2>3
  <2>6. QED
    BY <2>4, <2>5 DEF CliInv
<1>5. QED
  BY <1>3, <1>4

LEMMA CliEnd ==
    ASSUME LoadInv, CliInv, phase = "flags", NEW w, EndFlags(w)
    PROVE  CliInv'
<1>1. /\ UNCHANGED args /\ phase' = "loading" /\ words' = w
      /\ cli' = Over(IF <<"exec", "command">> \notin DOMAIN cli /\ w # ""
                     THEN Writes(<<"exec">>, w) ELSE Nothing, cli)
  BY DEF EndFlags
<1>2. \A s : Writing(s)' = Writing(s)
  BY <1>1 DEF Writing
<1>3. words = "" /\ DOMAIN Command = {}
  BY NothingForm DEF CliInv, Command
<1>4. PICK c : c = Writes(<<"exec">>, w)
  OBVIOUS
<1>5. DOMAIN c = ExecSettings
  BY <1>4, ExecTargets, FlagsWriteSettings
<1>6. ExecSettings \subseteq Settings
  BY ExecTargets, FlagsWriteSettings
\* The flags write both settings of the command, or none.
<1>7. ASSUME NEW s \in ExecSettings, NEW t \in ExecSettings PROVE Writing(s) = Writing(t)
  <2>1. ASSUME NEW i \in DOMAIN args, NEW r \in ExecSettings
        PROVE  r \in DOMAIN Written(args[i]) <=> args[i].flag = <<"exec">>
    <3>1. PICK a : a = args[i]
      OBVIOUS
    <3>2. r \in DOMAIN Written(a) <=> a.flag = <<"exec">>
      <4>1. CASE a.flag \in DOMAIN Targets
        <5>1. DOMAIN Written(a) = Targets[a.flag]
          BY <4>1, FlagsWriteSettings DEF Written
        <5>2. QED
          BY <4>1, <5>1, ExecTargets
      <4>2. CASE a.flag \notin DOMAIN Targets
        BY <4>2, ExecTargets DEF Written, Nothing
      <4>3. QED
        BY <4>1, <4>2
    <3>3. QED
      BY <3>1, <3>2
  <2>2. QED
    BY <2>1 DEF Writing
<1>8. PICK W : W = Writing(<<"exec", "command">>)
  OBVIOUS
<1>9. <<"exec", "command">> \in DOMAIN cli <=> W # {}
  <2>1. <<"exec", "command">> \in Settings
    BY <1>6 DEF ExecSettings
  <2>2. QED
    BY <1>3, <1>8, <2>1 DEF CliInv
<1>10. \A s \in ExecSettings : Writing(s) = W
  BY <1>7, <1>8 DEF ExecSettings
<1>11. ASSUME NEW s \in Settings
       PROVE  IF Writing(s) # {}
              THEN \E i \in Writing(s) : /\ IsLast(i, Writing(s))
                                         /\ s \in DOMAIN cli' /\ cli'[s] = Written(args[i])[s]
              ELSE /\ s \in DOMAIN cli' <=> s \in DOMAIN Command'
                   /\ s \in DOMAIN cli' => cli'[s] = Command'[s]
  <2>1. PICK V : V = Writing(s)
    OBVIOUS
  <2>2. IF V # {}
        THEN \E i \in V : IsLast(i, V) /\ s \in DOMAIN cli /\ cli[s] = Written(args[i])[s]
        ELSE s \notin DOMAIN cli
    BY <1>3, <2>1 DEF CliInv
  <2>3. CASE w = ""
    <3>1. cli' = Over(Nothing, cli) /\ DOMAIN Command' = {}
      BY <1>1, <2>3, NothingForm DEF Command
    <3>2. (s \in DOMAIN cli' <=> s \in DOMAIN cli) /\ (s \in DOMAIN cli => cli'[s] = cli[s])
      BY <3>1 DEF Over, Nothing
    <3>3. QED
      BY <2>1, <2>2, <3>1, <3>2
  <2>4. CASE w # "" /\ W # {}
    <3>1. cli' = Over(Nothing, cli) /\ Command' = c
      BY <1>1, <1>4, <1>9, <2>4 DEF Command
    <3>2. (s \in DOMAIN cli' <=> s \in DOMAIN cli) /\ (s \in DOMAIN cli => cli'[s] = cli[s])
      BY <3>1 DEF Over, Nothing
    <3>3. V = {} => s \notin DOMAIN c
      BY <1>5, <1>10, <2>1, <2>4
    <3>4. QED
      BY <2>1, <2>2, <3>1, <3>2, <3>3
  <2>5. CASE w # "" /\ W = {}
    <3>1. cli' = Over(c, cli) /\ Command' = c
      BY <1>1, <1>4, <1>9, <2>5 DEF Command
    <3>2. /\ s \in DOMAIN c => s \in DOMAIN cli' /\ cli'[s] = c[s]
          /\ s \notin DOMAIN c => /\ s \in DOMAIN cli' <=> s \in DOMAIN cli
                                  /\ s \in DOMAIN cli => cli'[s] = cli[s]
      BY <3>1 DEF Over
    <3>3. V # {} => s \notin DOMAIN c
      BY <1>5, <1>10, <2>1, <2>5
    <3>4. QED
      BY <2>1, <2>2, <3>1, <3>2, <3>3
  <2>6. QED
    BY <2>3, <2>4, <2>5
<1>12. QED
  BY <1>1, <1>2, <1>11 DEF CliInv

LEMMA CliStep ==
    ASSUME ConfigurationAssumption, LoadInv, CliInv, [Next]_vars
    PROVE  CliInv'
<1>1. CASE Later
  <2>1. /\ UNCHANGED <<args, cli, words>> /\ (After' => After)
        /\ phase' = "flags" => phase = "flags"
        /\ phase' = "panicked" <=> phase = "panicked"
    BY <1>1, LaterSame
  <2>2. phase' \notin {"exited", "panicked"} => phase \notin {"exited", "panicked"}
    <3>1. phase' \in {"flags", "loading", "loaded", "logging", "running", "exited", "panicked"}
      BY LoadStep DEF LoadInv, PhaseInv
    <3>2. QED
      BY <2>1, <3>1 DEF After
  <2>3. Command' = Command /\ \A s : Writing(s)' = Writing(s)
    BY <2>1 DEF Command, Writing
  <2>4. QED
    BY <2>1, <2>2, <2>3 DEF CliInv
<1>2. QED
  BY <1>1, Steps, CliFlags, CliEnd

\* The settings of the command line are what its flags gave, the last one of a
\* setting winning, and the words after the flags where no flag did.
THEOREM FlagsWrite == Spec => []CliInv
<1>1. Init => CliInv
  <2>1. ASSUME Init PROVE args = <<>> /\ words = "" /\ DOMAIN cli = {}
    BY <2>1, NothingForm DEF Init
  <2>2. ASSUME Init PROVE DOMAIN Command = {}
    BY <2>1, <2>2, NothingForm DEF Command
  <2>3. ASSUME Init, NEW s PROVE Writing(s) = {}
    <3>1. \A i \in DOMAIN <<>> : FALSE
      OBVIOUS
    <3>2. \A i \in DOMAIN args : FALSE
      BY <2>1, <2>3, <3>1
    <3>3. QED
      BY <3>2 DEF Writing
  <2>4. QED
    BY <2>1, <2>2, <2>3 DEF CliInv
<1>2. LoadInv /\ CliInv /\ [Next]_vars => CliInv'
  BY CliStep, ConfigurationAssumption
<1>3. QED
  BY <1>1, <1>2, Loads, PTL DEF Spec

\* All that writes settings, in the order of precedence, by its parts: the files
\* read, the words, and the flags.
AreSources(n, m, u) ==
    /\ n \in Nat /\ m \in Nat /\ DOMAIN Walk = 1..n /\ DOMAIN args = 1..m
    /\ DOMAIN u = 1..n + 1 + m
    /\ \A i \in 1..n : u[i] = Parse(loaded[Walk[i]]).set
    /\ u[n + 1] = Command
    /\ \A j \in 1..m : u[n + 1 + j] = Written(args[j])

LEMMA SourcesForm ==
    ASSUME IsSeq(Walk), IsSeq(args)
    PROVE  \E n, m : AreSources(n, m, Sources)
<1>1. PICK n, m : /\ n = Len(Walk) /\ n \in Nat /\ DOMAIN Walk = 1..n
                  /\ m = Len(args) /\ m \in Nat /\ DOMAIN args = 1..m
  BY SeqForm
<1>2. PICK A, B, c, v, u :
        /\ A = [i \in DOMAIN Walk |-> Parse(loaded[Walk[i]]).set]
        /\ B = [i \in DOMAIN args |-> IF args[i].flag \in DOMAIN Targets
                                      THEN Writes(args[i].flag, args[i].value) ELSE Nothing]
        /\ c = <<IF words = "" THEN Nothing ELSE Writes(<<"exec">>, words)>>
        /\ v = A \o c /\ u = v \o B
  OBVIOUS
<1>3. u = Sources
  BY <1>2 DEF Sources
<1>4. IsSeq(A) /\ Len(A) = n /\ \A i \in 1..n : A[i] = Parse(loaded[Walk[i]]).set
  <2>1. A = [i \in 1..n |-> A[i]] /\ \A i \in 1..n : A[i] = Parse(loaded[Walk[i]]).set
    BY <1>1, <1>2
  <2>2. QED
    BY <1>1, <2>1, TableIsSeq
<1>5. IsSeq(B) /\ Len(B) = m /\ \A j \in 1..m : B[j] = Written(args[j])
  <2>1. B = [j \in 1..m |-> B[j]] /\ \A j \in 1..m : B[j] = Written(args[j])
    BY <1>1, <1>2 DEF Written
  <2>2. QED
    BY <1>1, <2>1, TableIsSeq
<1>6. IsSeq(c) /\ Len(c) = 1 /\ c[1] = Command
  BY <1>2, Tuples DEF Command
<1>7. Joins(A, c, v) /\ Joins(v, B, u)
  BY <1>2 DEF Joins
<1>8. IsJoined(A, c, v)
  BY <1>4, <1>6, <1>7, JoinedForm, Zenon
<1>9. IsSeq(v) /\ Len(v) = n + 1 /\ (\A i \in 1..n : v[i] = A[i]) /\ v[n + 1] = Command
  BY <1>4, <1>6, <1>8 DEF IsJoined
<1>10. IsJoined(v, B, u)
  BY <1>5, <1>7, <1>9, JoinedForm, Zenon
<1>11. /\ IsSeq(u) /\ Len(u) = n + 1 + m /\ (\A i \in 1..n + 1 : u[i] = v[i])
       /\ \A j \in 1..m : u[n + 1 + j] = B[j]
  BY <1>1, <1>5, <1>9, <1>10 DEF IsJoined
<1>12. DOMAIN u = 1..n + 1 + m
  BY <1>11, SeqForm
<1>13. AreSources(n, m, u)
  BY <1>1, <1>4, <1>5, <1>9, <1>11, <1>12 DEF AreSources
<1>14. QED
  BY <1>3, <1>13

LEMMA TokenFileIsSetting == TokenFile \in Settings
<1>1. <<"vault">> \o <<"vault_agent_token_file">> = TokenFile
  BY UnderOne DEF TokenFile
<1>2. TokenFile \in VaultFlags
  BY <1>1 DEF VaultFlags, Under
<1>3. TokenFile \in OwnFlags
  BY <1>2 DEF OwnFlags
<1>4. TokenFile \in DOMAIN Targets /\ TokenFile \in Targets[TokenFile]
  BY <1>3 DEF Targets, Over
<1>5. QED
  BY <1>4 DEF Settings

\* "they are merged left-to-right, and CLI arguments take the top-most
\* precedence" (cli.go:826, README.md:534), for every setting, at the start and
\* after every reload; only a setting nobody gave has its default.  The Vault token
\* is the one in the agent's file if any of them names such a file (README.md:423).
THEOREM LastSourceWins == Spec => []Precedence
<1>1. ASSUME LoadInv, CliInv, phase = "loaded" PROVE Precedence
  <2>1. ShapeInv /\ After /\ Configured /\ Reading.ok
    BY <1>1 DEF LoadInv, LoadedInv, After, Configured
  <2>2. cfg.set = FinalizeSettings(Over(cli, Reading.set), environ)
    BY <1>1, <2>1 DEF LoadInv, LoadedInv, GivenInv
  <2>3. PICK reads : /\ IsSeq(Walk) /\ AllConfigs(reads) /\ Len(reads) = Len(Walk)
                     /\ Reading = MergeAll(reads)
                     /\ \A i \in DOMAIN Walk : reads[i] = Parse(loaded[Walk[i]])
    BY <2>1, ReadFiles, ConfigurationAssumption
  <2>4. PICK n, m : AreSources(n, m, Sources)
    BY <2>1, <2>3, SourcesForm DEF ShapeInv
  <2>5. PICK u : u = Sources
    OBVIOUS
  <2>6. PICK file : file = Reading.set
    OBVIOUS
  <2>7. Len(reads) = n
    BY <2>3, <2>4, SeqForm DEF AreSources
  <2>8. PICK set : set = Over(cli, file)
    OBVIOUS
\* Merged, a setting is given when some source gives it, and by the last one.
  <2>9. ASSUME NEW s \in Settings
        PROVE  IF {i \in DOMAIN u : s \in DOMAIN u[i]} = {}
               THEN s \notin DOMAIN set
               ELSE /\ s \in DOMAIN set
                    /\ \E i \in {i \in DOMAIN u : s \in DOMAIN u[i]} :
                          /\ \A j \in {j \in DOMAIN u : s \in DOMAIN u[j]} : j <= i
                          /\ set[s] = u[i][s]
    <3>1. /\ s \in DOMAIN cli => s \in DOMAIN set /\ set[s] = cli[s]
          /\ s \notin DOMAIN cli /\ s \in DOMAIN file => s \in DOMAIN set /\ set[s] = file[s]
          /\ s \notin DOMAIN cli /\ s \notin DOMAIN file => s \notin DOMAIN set
      BY <2>8 DEF Over
    <3>2. PICK W : W = Writing(s)
      OBVIOUS
    <3>3. IF W # {}
          THEN \E i \in W : IsLast(i, W) /\ s \in DOMAIN cli /\ cli[s] = Written(args[i])[s]
          ELSE (s \in DOMAIN cli <=> s \in DOMAIN Command) /\ (s \in DOMAIN cli => cli[s] = Command[s])
      BY <1>1, <3>2 DEF CliInv
    <3>4. PICK R : R = {i \in 1..n : s \in DOMAIN reads[i].set}
      OBVIOUS
    <3>5. /\ s \in DOMAIN file <=> R # {}
          /\ R # {} => \E i \in R : IsLast(i, R) /\ file[s] = reads[i].set[s]
      <4>1. R = {i \in 1..Len(reads) : s \in DOMAIN reads[i].set} /\ file = MergeAll(reads).set
        BY <2>3, <2>6, <2>7, <3>4
      <4>2. /\ s \in DOMAIN MergeAll(reads).set <=> {i \in 1..Len(reads) : s \in DOMAIN reads[i].set} # {}
            /\ {i \in 1..Len(reads) : s \in DOMAIN reads[i].set} # {} =>
                  \E i \in {i \in 1..Len(reads) : s \in DOMAIN reads[i].set} :
                     /\ IsLast(i, {j \in 1..Len(reads) : s \in DOMAIN reads[j].set})
                     /\ MergeAll(reads).set[s] = reads[i].set[s]
        BY <2>3, MergeAllSet, Zenon
      <4>3. QED
        BY <4>1, <4>2, Zenon
    <3>6. PICK by : by = {i \in DOMAIN u : s \in DOMAIN u[i]}
      OBVIOUS
    <3>7. /\ n \in Nat /\ m \in Nat
          /\ by \subseteq 1..n + 1 + m
          /\ \A i \in 1..n : u[i] = reads[i].set
          /\ u[n + 1] = Command
          /\ \A j \in 1..m : u[n + 1 + j] = Written(args[j])
          /\ W \subseteq 1..m
      BY <2>3, <2>4, <2>5, <3>2, <3>6 DEF AreSources, Writing
    <3>8. /\ \A i \in 1..n : i \in by <=> i \in R
          /\ n + 1 \in by <=> s \in DOMAIN Command
          /\ \A j \in 1..m : n + 1 + j \in by <=> j \in W
      <4>1. DOMAIN u = 1..n + 1 + m /\ W = {j \in 1..m : s \in DOMAIN Written(args[j])}
        BY <2>4, <2>5, <3>2 DEF AreSources, Writing
      <4>2. ASSUME NEW i \in 1..n PROVE i \in by <=> i \in R
        <5>1. i \in 1..n + 1 + m
          BY <3>7
        <5>2. QED
          BY <3>4, <3>6, <3>7, <4>1, <5>1, Zenon
      <4>3. n + 1 \in by <=> s \in DOMAIN Command
        <5>1. n + 1 \in 1..n + 1 + m
          BY <3>7
        <5>2. QED
          BY <3>6, <3>7, <4>1, <5>1, Zenon
      <4>4. ASSUME NEW j \in 1..m PROVE n + 1 + j \in by <=> j \in W
        <5>1. n + 1 + j \in 1..n + 1 + m
          BY <3>7
        <5>2. QED
          BY <3>6, <3>7, <4>1, <5>1, Zenon
      <4>5. QED
        BY <4>2, <4>3, <4>4
    <3>9. ASSUME NEW i \in by
          PROVE  \/ i \in 1..n /\ i \in R
                 \/ i = n + 1 /\ s \in DOMAIN Command
                 \/ \E j \in W : i = n + 1 + j
      <4>1. i \in 1..n \/ i = n + 1 \/ (i - n - 1 \in 1..m /\ i = n + 1 + (i - n - 1))
        BY <3>7
      <4>2. QED
        BY <3>8, <4>1
    <3>10. CASE W # {}
      <4>1. PICK j \in W : IsLast(j, W) /\ s \in DOMAIN cli /\ cli[s] = Written(args[j])[s]
        BY <3>3, <3>10
      <4>2. n + 1 + j \in by /\ s \in DOMAIN set /\ set[s] = u[n + 1 + j][s]
        BY <3>1, <3>7, <3>8, <4>1
      <4>3. \A i \in by : i <= n + 1 + j
        BY <3>7, <3>9, <4>1 DEF IsLast
      <4>4. QED
        BY <3>6, <4>2, <4>3
    <3>11. CASE W = {} /\ s \in DOMAIN Command
      <4>1. n + 1 \in by /\ s \in DOMAIN set /\ set[s] = u[n + 1][s]
        BY <3>1, <3>3, <3>7, <3>8, <3>11
      <4>2. \A i \in by : i <= n + 1
        BY <3>7, <3>9, <3>11
      <4>3. QED
        BY <3>6, <4>1, <4>2
    <3>12. CASE W = {} /\ s \notin DOMAIN Command /\ R # {}
      <4>1. PICK i \in R : IsLast(i, R) /\ file[s] = reads[i].set[s]
        BY <3>5, <3>12
      <4>2. i \in by /\ s \in DOMAIN set /\ set[s] = u[i][s]
        BY <3>1, <3>3, <3>4, <3>5, <3>7, <3>8, <3>12, <4>1
      <4>3. \A j \in by : j <= i
        BY <3>9, <3>12, <4>1 DEF IsLast
      <4>4. QED
        BY <3>6, <4>2, <4>3
    <3>13. CASE W = {} /\ s \notin DOMAIN Command /\ R = {}
      <4>1. by = {}
        BY <3>9, <3>13
      <4>2. QED
        BY <3>1, <3>3, <3>5, <3>6, <3>13, <4>1
    <3>14. QED
      BY <3>10, <3>11, <3>12, <3>13
  <2>10. PICK Giving : Giving = [s \in Settings |-> {i \in DOMAIN u : s \in DOMAIN u[i]}]
    OBVIOUS
  <2>11. \A s \in Settings :
            IF Giving[s] = {} THEN s \notin DOMAIN set
            ELSE s \in DOMAIN set /\ \E i \in Giving[s] : /\ \A j \in Giving[s] : j <= i
                                                        /\ set[s] = u[i][s]
    BY <2>9, <2>10
  <2>12. /\ \A s \in Settings : cfg.set[s] = Finalized(s, set, environ)
         /\ \A s \in Settings :
               FinalizeSettings(Nothing, environ)[s] = Finalized(s, Nothing, environ)
    BY <2>2, <2>6, <2>8 DEF FinalizeSettings
  <2>13. TokenFile \in Settings
    BY TokenFileIsSetting
  <2>14. \A s \in Settings :
            IF s = VaultToken /\ Giving[TokenFile] # {} THEN cfg.set[s] = "read from the file"
            ELSE IF Giving[s] = {} THEN cfg.set[s] = FinalizeSettings(Nothing, environ)[s]
            ELSE \E i \in Giving[s] : (\A j \in Giving[s] : j <= i) /\ cfg.set[s] = u[i][s]
    BY <2>11, <2>12, <2>13, NothingForm DEF Finalized
  <2>15. \A s \in Settings : Giving[s] = {i \in DOMAIN u : s \in DOMAIN u[i]}
    BY <2>10
  <2>16. QED
    BY <2>5, <2>13, <2>14, <2>15, Zenon DEF Precedence
<1>2. LoadInv /\ CliInv => Precedence
  BY <1>1 DEF Precedence
<1>3. QED
  BY <1>2, Loads, FlagsWrite, PTL

-----------------------------------------------------------------------------
(* Deprecated keys.                                                          *)

LEMMA TuplesOfTwo == \A x, y : IsSeq(<<x, y>>) /\ Len(<<x, y>>) = 2
<1>1. ASSUME NEW x, NEW y PROVE IsSeq(<<x, y>>) /\ Len(<<x, y>>) = 2
  <2>1. <<x, y>> \in Seq({x, y})
    OBVIOUS
  <2>2. QED
    BY <2>1 DEF IsSeq
<1>2. QED
  BY <1>1

\* What stands below a stanza begins with its name.
LEMMA UnderHeads ==
    ASSUME NEW stanza, NEW keys, \A k \in keys : IsSeq(k), NEW s \in Under(stanza, keys)
    PROVE  s[1] = stanza
<1>1. PICK k \in keys : s = <<stanza>> \o k
  BY DEF Under
<1>2. QED
  BY <1>1, UnderForm

\* The deprecated keys are no stanzas.
LEMMA StanzasForm == \A key \in Stanzas : key \in StanzaHeads
<1>1. ASSUME NEW f \in OwnFlags PROVE f[1] \in StanzaHeads
  BY FlagHeads
<1>2. ASSUME NEW s \in Auth PROVE s[1] = "consul"
  BY TuplesOfTwo, UnderHeads DEF Auth
<1>3. ASSUME NEW keys, \A k \in keys : \E x, y : k = <<x, y>>, NEW s \in InBoth(keys)
      PROVE  s[1] \in {"consul", "vault"}
  <2>1. \A k \in keys : IsSeq(k)
    BY <1>3, TuplesOfTwo
  <2>2. QED
    BY <1>3, <2>1, UnderHeads DEF InBoth
<1>4. ASSUME NEW f \in DOMAIN DeprecatedFlags, NEW s \in DeprecatedFlags[f]
      PROVE  s[1] \in StanzaHeads
  <2>1. CASE f \in {<<"retry">>, <<"ssl">>, <<"ssl_verify">>, <<"ssl_ca_cert">>, <<"ssl_cert">>}
    <3>1. PICK keys : DeprecatedFlags[f] = InBoth(keys) /\ \A k \in keys : \E x, y : k = <<x, y>>
      BY <2>1 DEF DeprecatedFlags
    <3>2. s[1] \in {"consul", "vault"}
      BY <1>3, <3>1
    <3>3. QED
      BY <3>2 DEF StanzaHeads
  <2>2. CASE f = <<"auth">>
    BY <1>2, <2>2 DEF DeprecatedFlags, StanzaHeads
  <2>3. CASE f \in {<<"consul">>, <<"splay">>, <<"timeout">>, <<"token">>}
    BY <2>3 DEF DeprecatedFlags, StanzaHeads
  <2>4. QED
    BY <2>1, <2>2, <2>3 DEF DeprecatedFlags
<1>5. ASSUME NEW f \in DOMAIN StanzaFlags, NEW s \in StanzaFlags[f]
      PROVE  s[1] \in StanzaHeads
  <2>1. CASE f = <<"consul", "auth">>
    BY <1>2, <2>1 DEF StanzaFlags, StanzaHeads
  <2>2. CASE f = <<"exec">>
    <3>1. s \in Under("exec", {<<"enabled">>, <<"command">>})
      BY <2>2 DEF StanzaFlags
    <3>2. \A k \in {<<"enabled">>, <<"command">>} : IsSeq(k)
      BY Tuples
    <3>3. QED
      BY <3>1, <3>2, UnderHeads DEF StanzaHeads
  <2>3. CASE f = <<"wait">>
    <3>1. s \in Under("wait", {<<"min">>, <<"max">>})
      BY <2>3 DEF StanzaFlags
    <3>2. \A k \in {<<"min">>, <<"max">>} : IsSeq(k)
      BY Tuples
    <3>3. QED
      BY <3>1, <3>2, UnderHeads DEF StanzaHeads
  <2>4. QED
    BY <2>1, <2>2, <2>3 DEF StanzaFlags
<1>6. \A f \in DOMAIN Targets :
         \/ f \in OwnFlags /\ Targets[f] = {f}
         \/ f \in DOMAIN StanzaFlags /\ Targets[f] = StanzaFlags[f]
         \/ f \in DOMAIN DeprecatedFlags /\ Targets[f] = DeprecatedFlags[f]
  BY DEF Targets, Over
<1>7. ASSUME NEW s \in Settings PROVE s[1] \in StanzaHeads
  <2>1. CASE s = <<"wait", "enabled">>
    BY <2>1 DEF StanzaHeads
  <2>2. CASE s # <<"wait", "enabled">>
    <3>1. PICK f \in DOMAIN Targets : s \in Targets[f]
      BY <2>2, Zenon DEF Settings
    <3>2. QED
      BY <1>1, <1>4, <1>5, <1>6, <3>1
  <2>3. QED
    BY <2>1, <2>2
<1>8. QED
  BY <1>7 DEF Stanzas

\* A deprecated key moves to a value of a stanza, or below it.
LEMMA MovesForm ==
    ASSUME NEW key \in DOMAIN Moves
    PROVE  /\ key \notin Kinds /\ key \notin Stanzas
           /\ \A place \in Moves[key] : IsSeq(place) /\ Len(place) >= 2
<1>1. key \in {"auth", "splay", "retry", "ssl", "timeout", "token"}
  BY DEF Moves
<1>2. key \notin Kinds /\ key \notin Stanzas
  BY <1>1, StanzasForm DEF Kinds, StanzaHeads
<1>3. ASSUME NEW stanza, NEW k, IsSeq(k), Len(k) >= 1, NEW s, s = <<stanza>> \o k
      PROVE  IsSeq(s) /\ Len(s) >= 2
  <2>1. IsSeq(s) /\ Len(s) = Len(k) + 1
    BY <1>3, UnderForm
  <2>2. Len(k) \in Nat
    BY <1>3, SeqForm
  <2>3. QED
    BY <1>3, <2>1, <2>2
<1>4. ASSUME NEW keys, \A k \in keys : IsSeq(k) /\ Len(k) >= 1, NEW s \in InBoth(keys)
      PROVE  IsSeq(s) /\ Len(s) >= 2
  <2>1. PICK stanza, k : k \in keys /\ s = <<stanza>> \o k
    BY DEF InBoth, Under
  <2>2. QED
    BY <1>3, <1>4, <2>1
<1>5. ASSUME NEW place \in Moves[key] PROVE IsSeq(place) /\ Len(place) >= 2
  <2>1. CASE key = "retry"
    <3>1. Moves[key] = InBoth({<<"retry", "backoff">>, <<"retry", "max_backoff">>})
      BY <2>1 DEF Moves
    <3>2. \A k \in {<<"retry", "backoff">>, <<"retry", "max_backoff">>} : IsSeq(k) /\ Len(k) >= 1
      BY TuplesOfTwo
    <3>3. QED
      BY <1>4, <3>1, <3>2
  <2>2. CASE key = "ssl"
    <3>1. Moves[key] = InBoth({<<"ssl">>})
      BY <2>2 DEF Moves
    <3>2. \A k \in {<<"ssl">>} : IsSeq(k) /\ Len(k) >= 1
      <4>1. IsSeq(<<"ssl">>) /\ Len(<<"ssl">>) = 1
        BY Tuples
      <4>2. Len(<<"ssl">>) >= 1
        BY <4>1
      <4>3. QED
        BY <4>1, <4>2, Zenon
    <3>3. QED
      BY <1>4, <3>1, <3>2
  <2>3. CASE key \in {"auth", "splay", "timeout", "token"}
    <3>1. \E x, y : place = <<x, y>>
      BY <2>3 DEF Moves
    <3>2. QED
      BY <3>1, TuplesOfTwo
  <2>4. QED
    BY <1>1, <2>1, <2>2, <2>3
<1>6. QED
  BY <1>2, <1>5

\* The parts of moveDeprecated.
OldKeys(keys) == DOMAIN keys \cap DOMAIN Moves
Places(keys) == UNION {Moves[key] : key \in OldKeys(keys)}
MovedParts(keys) == UNION {{At(place, keys[key]) : place \in Moves[key]} : key \in OldKeys(keys)}
KeptParts(keys) == {At(<<key>>, keys[key]) : key \in DOMAIN keys \cap Stanzas}
Displaced(keys, s) ==
    \E place \in Places(keys) : IsPrefix(Replaced(place), s) \/ s = <<place[1]>>

LEMMA MoveForm ==
    ASSUME NEW keys, NEW s
    PROVE  LET moved == Together(MovedParts(keys))
               kept == Together(KeptParts(keys))
           IN  /\ s \in DOMAIN moveDeprecated(keys) <=>
                     s \in DOMAIN moved \/ (s \in DOMAIN kept /\ ~Displaced(keys, s))
               /\ s \in DOMAIN moved => moveDeprecated(keys)[s] = moved[s]
               /\ s \in DOMAIN kept /\ ~Displaced(keys, s) /\ s \notin DOMAIN moved =>
                     moveDeprecated(keys)[s] = kept[s]
<1> DEFINE moved == Together(MovedParts(keys))
           kept == Together(KeptParts(keys))
           lost == {t \in DOMAIN kept : Displaced(keys, t)}
<1>1. moveDeprecated(keys) = Over(moved, [t \in DOMAIN kept \ lost |-> kept[t]])
  BY Zenon DEF moveDeprecated, MovedParts, KeptParts, Displaced, Places, OldKeys
<1>2. PICK m, k, l : m = moved /\ k = kept /\ l = lost
  OBVIOUS
<1>3. s \in l <=> s \in DOMAIN k /\ Displaced(keys, s)
  BY <1>2
<1> HIDE DEF moved, kept, lost
<1>4. PICK r : r = Over(m, [t \in DOMAIN k \ l |-> k[t]])
  OBVIOUS
<1>5. /\ s \in DOMAIN r <=> s \in DOMAIN m \/ (s \in DOMAIN k /\ s \notin l)
      /\ s \in DOMAIN m => r[s] = m[s]
      /\ s \in DOMAIN k /\ s \notin l /\ s \notin DOMAIN m => r[s] = k[s]
  BY <1>4 DEF Over
<1>6. r = moveDeprecated(keys)
  BY <1>1, <1>2, <1>4
<1>7. QED
  BY <1>2, <1>3, <1>5, <1>6 DEF moved, kept

LEMMA PartsForm ==
    ASSUME NEW keys
    PROVE  /\ \A f : f \in MovedParts(keys) <=>
                 \E k \in OldKeys(keys) : \E place \in Moves[k] : f = At(place, keys[k])
           /\ \A place : place \in Places(keys) <=>
                 \E k \in OldKeys(keys) : place \in Moves[k]
<1>1. \A f : f \in MovedParts(keys) <=>
         \E k \in OldKeys(keys) : \E place \in Moves[k] : f = At(place, keys[k])
  <2>1. PICK old : old = OldKeys(keys)
    OBVIOUS
  <2>2. MovedParts(keys) = UNION {{At(place, keys[key]) : place \in Moves[key]} : key \in old}
    BY <2>1, Zenon DEF MovedParts
  <2>3. QED
    BY <2>1, <2>2
<1>2. \A place : place \in Places(keys) <=> \E k \in OldKeys(keys) : place \in Moves[k]
  BY Zenon DEF Places
<1>3. QED
  BY <1>1, <1>2

\* The keys of a file without one; below a key, paths are named; no stanza the
\* key moves into is a plain value; and s is at no place it moves to.
Without(keys, key, less) == less = [k \in DOMAIN keys \ {key} |-> keys[k]]
NamePaths(keys) == \A k \in DOMAIN keys \ Kinds : \A rest \in DOMAIN keys[k] : IsSeq(rest)
NoPlain(keys, key) ==
    \A place \in Moves[key] : ~(place[1] \in DOMAIN keys /\ <<>> \in DOMAIN keys[place[1]])
IsElsewhere(key, s) == \A place \in Moves[key] : ~IsPrefix(Replaced(place), s)

\* Nothing a deprecated key does is felt outside the places it moves to.
LEMMA MoveKeepsOthers ==
    ASSUME NEW keys, NEW key \in DOMAIN Moves,
           NamePaths(keys), NoPlain(keys, key), NEW less, Without(keys, key, less),
           NEW s, IsElsewhere(key, s)
    PROVE  /\ s \in DOMAIN moveDeprecated(keys) <=> s \in DOMAIN moveDeprecated(less)
           /\ s \in DOMAIN moveDeprecated(keys) =>
                 moveDeprecated(keys)[s] = moveDeprecated(less)[s]
<1>1. /\ DOMAIN less = DOMAIN keys \ {key} /\ \A k \in DOMAIN less : less[k] = keys[k]
      /\ key \notin Stanzas /\ key \notin Kinds
      /\ \A place \in Moves[key] : IsSeq(place) /\ Len(place) >= 2
  BY MovesForm DEF Without
<1>2. KeptParts(less) = KeptParts(keys)
  <2>1. DOMAIN less \cap Stanzas = DOMAIN keys \cap Stanzas
    BY <1>1
  <2>2. \A k \in DOMAIN less \cap Stanzas : less[k] = keys[k]
    BY <1>1
  <2>3. \A f : f \in KeptParts(less) <=> f \in KeptParts(keys)
    BY <2>1, <2>2, Zenon DEF KeptParts
  <2>4. QED
    BY <2>3, Zenon
\* What the key moves is below the places it moves to, and s is not.
<1>3. ASSUME NEW place \in Moves[key], key \in DOMAIN keys PROVE s \notin DOMAIN At(place, keys[key])
  <2>1. SUFFICES ASSUME s \in DOMAIN At(place, keys[key]) PROVE FALSE
    OBVIOUS
  <2>2. PICK rest \in DOMAIN keys[key] : s = place \o rest
    BY <2>1 DEF At
  <2>3. IsSeq(rest) /\ Joins(place, rest, s)
    BY <1>1, <1>3, <2>2 DEF Joins, NamePaths
  <2>4. IsPrefix(Replaced(place), s)
    BY <1>1, <2>3, ReplacedForm
  <2>5. QED
    BY <2>4 DEF IsElsewhere
<1>4. \A f : f \in MovedParts(keys) /\ s \in DOMAIN f <=> f \in MovedParts(less) /\ s \in DOMAIN f
  <2>1. ASSUME NEW f, f \in MovedParts(keys), s \in DOMAIN f PROVE f \in MovedParts(less)
    <3>1. PICK k \in OldKeys(keys) : \E place \in Moves[k] : f = At(place, keys[k])
      BY <2>1, PartsForm
    <3>2. PICK place \in Moves[k] : f = At(place, keys[k])
      BY <3>1
    <3>3. k # key
      BY <1>3, <2>1, <3>1, <3>2 DEF OldKeys
    <3>4. k \in OldKeys(less) /\ f = At(place, less[k])
      BY <1>1, <3>1, <3>2, <3>3 DEF OldKeys
    <3>5. QED
      BY <3>2, <3>4, PartsForm
  <2>2. ASSUME NEW f, f \in MovedParts(less), s \in DOMAIN f PROVE f \in MovedParts(keys)
    <3>1. PICK k \in OldKeys(less) : \E place \in Moves[k] : f = At(place, less[k])
      BY <2>2, PartsForm
    <3>2. PICK place \in Moves[k] : f = At(place, less[k])
      BY <3>1
    <3>3. k \in OldKeys(keys) /\ f = At(place, keys[k])
      BY <1>1, <3>1, <3>2 DEF OldKeys
    <3>4. QED
      BY <3>2, <3>3, PartsForm
  <2>3. QED
    BY <2>1, <2>2
<1>5. PICK F, G : F = MovedParts(keys) /\ G = MovedParts(less)
  OBVIOUS
<1>6. {g \in F : s \in DOMAIN g} = {g \in G : s \in DOMAIN g}
  BY <1>4, <1>5
<1>7. PICK m, n, k : m = Together(F) /\ n = Together(G) /\ k = Together(KeptParts(keys))
  OBVIOUS
<1>8. (s \in DOMAIN m <=> s \in DOMAIN n) /\ (s \in DOMAIN m => m[s] = n[s])
  BY <1>6, <1>7, TogetherSame
<1>9. /\ s \in DOMAIN moveDeprecated(keys) <=>
            s \in DOMAIN m \/ (s \in DOMAIN k /\ ~Displaced(keys, s))
      /\ s \in DOMAIN m => moveDeprecated(keys)[s] = m[s]
      /\ s \in DOMAIN k /\ ~Displaced(keys, s) /\ s \notin DOMAIN m =>
            moveDeprecated(keys)[s] = k[s]
  BY <1>5, <1>7, MoveForm
<1>10. /\ s \in DOMAIN moveDeprecated(less) <=>
             s \in DOMAIN n \/ (s \in DOMAIN k /\ ~Displaced(less, s))
       /\ s \in DOMAIN n => moveDeprecated(less)[s] = n[s]
       /\ s \in DOMAIN k /\ ~Displaced(less, s) /\ s \notin DOMAIN n =>
             moveDeprecated(less)[s] = k[s]
  BY <1>2, <1>5, <1>7, MoveForm
\* The key displaces nothing else, no stanza being written as a plain value.
<1>11. s \in DOMAIN k => (Displaced(keys, s) <=> Displaced(less, s))
  <2>1. ASSUME NEW place \in Moves[key], s \in DOMAIN k, s = <<place[1]>> PROVE FALSE
    <3>1. PICK f \in KeptParts(keys) : s \in DOMAIN f
      BY <1>7, <2>1, Zenon DEF Together
    <3>2. PICK j \in DOMAIN keys \cap Stanzas : f = At(<<j>>, keys[j])
      BY <3>1, Zenon DEF KeptParts
    <3>3. PICK rest \in DOMAIN keys[j] : s = <<j>> \o rest
      BY <3>1, <3>2 DEF At
    <3>4. j \notin Kinds
      BY <3>2, StanzasForm DEF StanzaHeads, Kinds
    <3>5. IsSeq(rest)
      BY <3>2, <3>3, <3>4 DEF NamePaths
    <3>6. Len(s) = Len(rest) + 1 /\ s[1] = j
      BY <3>3, <3>5, UnderForm
    <3>7. Len(s) = 1 /\ s[1] = place[1]
      BY <2>1, Tuples
    <3>8. Len(rest) = 0
      <4>1. Len(rest) \in Nat
        BY <3>5, SeqForm
      <4>2. Len(rest) + 1 = 1
        BY <3>6, <3>7
      <4>3. QED
        BY <4>1, <4>2
    <3>9. rest = <<>>
      <4>1. \A i \in 1..0 : FALSE
        OBVIOUS
      <4>2. QED
        BY <3>5, <3>8, <4>1, Tuples, SeqsEqual
    <3>10. QED
      BY <3>2, <3>3, <3>6, <3>7, <3>9 DEF NoPlain
  <2>2. ASSUME s \in DOMAIN k, Displaced(keys, s) PROVE Displaced(less, s)
    <3>1. PICK place \in Places(keys) : IsPrefix(Replaced(place), s) \/ s = <<place[1]>>
      BY <2>2 DEF Displaced
    <3>2. PICK j \in OldKeys(keys) : place \in Moves[j]
      BY <3>1, PartsForm
    <3>3. j # key
      BY <2>1, <2>2, <3>1, <3>2 DEF IsElsewhere
    <3>4. j \in OldKeys(less)
      BY <1>1, <3>2, <3>3 DEF OldKeys
    <3>5. place \in Places(less)
      BY <3>2, <3>4, PartsForm
    <3>6. QED
      BY <3>1, <3>5 DEF Displaced
  <2>3. ASSUME Displaced(less, s) PROVE Displaced(keys, s)
    <3>1. PICK place \in Places(less) : IsPrefix(Replaced(place), s) \/ s = <<place[1]>>
      BY <2>3 DEF Displaced
    <3>2. PICK j \in OldKeys(less) : place \in Moves[j]
      BY <3>1, PartsForm
    <3>3. j \in OldKeys(keys)
      BY <1>1, <3>2 DEF OldKeys
    <3>4. place \in Places(keys)
      BY <3>2, <3>3, PartsForm
    <3>5. QED
      BY <3>1, <3>4 DEF Displaced
  <2>4. QED
    BY <2>2, <2>3
<1>12. QED
  BY <1>8, <1>9, <1>10, <1>11

\* What a plain value that stands for a stanza is made into.
LEMMA FromStringForm ==
    ASSUME NEW set, NEW stanza, NEW settings, NEW r, r = FromString(set, stanza, settings), NEW s
    PROVE  /\ s \in DOMAIN r <=>
                 \/ s \in DOMAIN set /\ s # stanza
                 \/ s \in settings /\ stanza \in DOMAIN set
           /\ s \in DOMAIN r =>
                 r[s] = IF s \in settings /\ stanza \in DOMAIN set THEN set[stanza] ELSE set[s]
<1>1. PICK made : made = {t \in settings : stanza \in DOMAIN set}
  OBVIOUS
<1>2. r = [t \in (DOMAIN set \ {stanza}) \cup made |-> IF t \in made THEN set[stanza] ELSE set[t]]
  BY <1>1, Zenon DEF FromString
<1>3. s \in made <=> s \in settings /\ stanza \in DOMAIN set
  BY <1>1
<1>4. /\ s \in DOMAIN r <=> (s \in DOMAIN set /\ s # stanza) \/ s \in made
      /\ s \in DOMAIN r /\ s \in made => r[s] = set[stanza]
      /\ s \in DOMAIN r /\ s \notin made => r[s] = set[s]
  BY <1>2
<1>5. CASE s \in made
  BY <1>3, <1>4, <1>5
<1>6. CASE s \notin made
  BY <1>3, <1>4, <1>6
<1>7. QED
  BY <1>5, <1>6

\* It keeps what two functions agree on.
LEMMA FromStringSame ==
    ASSUME NEW m, NEW n, NEW stanza, NEW settings, NEW s, NEW p, NEW q,
           p = FromString(m, stanza, settings), q = FromString(n, stanza, settings),
           (s \in DOMAIN m <=> s \in DOMAIN n) /\ (s \in DOMAIN m => m[s] = n[s]),
           stanza \in DOMAIN m <=> stanza \in DOMAIN n,
           stanza \in DOMAIN m => m[stanza] = n[stanza]
    PROVE  (s \in DOMAIN p <=> s \in DOMAIN q) /\ (s \in DOMAIN p => p[s] = q[s])
<1>1. /\ s \in DOMAIN p <=>
            \/ s \in DOMAIN m /\ s # stanza
            \/ s \in settings /\ stanza \in DOMAIN m
      /\ s \in DOMAIN p =>
            p[s] = IF s \in settings /\ stanza \in DOMAIN m THEN m[stanza] ELSE m[s]
  BY FromStringForm
<1>2. /\ s \in DOMAIN q <=>
            \/ s \in DOMAIN n /\ s # stanza
            \/ s \in settings /\ stanza \in DOMAIN n
      /\ s \in DOMAIN q =>
            q[s] = IF s \in settings /\ stanza \in DOMAIN n THEN n[stanza] ELSE n[s]
  BY FromStringForm
<1>3. QED
  BY <1>1, <1>2

\* The same of what a plain value stands for.
LEMMA SettledKeepsOthers ==
    ASSUME NEW keys, NEW key \in DOMAIN Moves,
           NamePaths(keys), NoPlain(keys, key), NEW less, Without(keys, key, less),
           NEW s, IsElsewhere(key, s)
    PROVE  /\ s \in DOMAIN Settled(keys) <=> s \in DOMAIN Settled(less)
           /\ s \in DOMAIN Settled(keys) => Settled(keys)[s] = Settled(less)[s]
<1>1. PICK m, n : m = moveDeprecated(keys) /\ n = moveDeprecated(less)
  OBVIOUS
<1>2. PICK c, w : c = <<"consul">> /\ w = <<"wait">>
  OBVIOUS
<1>3. IsElsewhere(key, c) /\ IsElsewhere(key, w)
  BY <1>2, MovesForm, ReplacedForm DEF IsElsewhere
<1>4. \A t \in {s, c, w} : (t \in DOMAIN m <=> t \in DOMAIN n) /\ (t \in DOMAIN m => m[t] = n[t])
  BY <1>1, <1>3, MoveKeepsOthers
<1>5. PICK a, b : a = {<<"consul", "address">>} /\ b = {<<"wait", "min">>, <<"wait", "max">>}
  OBVIOUS
<1>6. PICK p, q : p = FromString(m, c, a) /\ q = FromString(n, c, a)
  OBVIOUS
<1>7. (s \in DOMAIN p <=> s \in DOMAIN q) /\ (s \in DOMAIN p => p[s] = q[s])
  BY <1>4, <1>6, FromStringSame
<1>8. (w \in DOMAIN p <=> w \in DOMAIN q) /\ (w \in DOMAIN p => p[w] = q[w])
  BY <1>4, <1>6, FromStringSame
<1>9. PICK u, v : u = FromString(p, w, b) /\ v = FromString(q, w, b)
  OBVIOUS
<1>10. (s \in DOMAIN u <=> s \in DOMAIN v) /\ (s \in DOMAIN u => u[s] = v[s])
  BY <1>7, <1>8, <1>9, FromStringSame
<1>11. Settled(keys) = u /\ Settled(less) = v
  BY <1>1, <1>2, <1>5, <1>6, <1>9 DEF Settled, ConsulStringToStruct, StringToWaitDuration
<1>12. QED
  BY <1>10, <1>11

\* Whatever is edited, a file is made of its own statements.
FilesInv ==
    /\ files = [f \in Files |-> files[f]]
    /\ \A f \in Files : files[f] \in Seq(Statements[f])

\* The files are made of the statements they may have, after every edit, so that
\* what is below a key is named by a path.
THEOREM FilesHaveStatements == Spec => []FilesInv
<1>1. Init => FilesInv
  <2>1. ASSUME NEW f \in Files PROVE <<>> \in Seq(Statements[f])
    BY EmptySeq
  <2>2. QED
    BY <2>1 DEF Init, FilesInv
<1>2. ASSUME FilesInv, [Next]_vars PROVE FilesInv'
  <2>1. CASE files' = files
    BY <1>2, <2>1 DEF FilesInv
  <2>2. ASSUME NEW f \in Files, Edit(f) PROVE FilesInv'
    <3>1. PICK s, S : s = files[f] /\ S = Statements[f]
      OBVIOUS
    <3>2. s \in Seq(S)
      BY <1>2, <3>1 DEF FilesInv
    <3>3. ASSUME NEW t \in Seq(S), files' = [files EXCEPT ![f] = t] PROVE FilesInv'
      <4>1. files' = [g \in Files |-> IF g = f THEN t ELSE files[g]]
        BY <1>2, <3>3 DEF FilesInv
      <4>2. \A g \in Files : files'[g] \in Seq(Statements[g])
        BY <1>2, <3>1, <4>1 DEF FilesInv
      <4>3. files' = [g \in Files |-> files'[g]]
        BY <4>1
      <4>4. QED
        BY <4>2, <4>3 DEF FilesInv
    <3>4. CASE \E stmt \in Statements[f] : files' = [files EXCEPT ![f] = Append(@, stmt)]
      <4>1. PICK stmt \in S : files' = [files EXCEPT ![f] = Append(s, stmt)]
        BY <3>1, <3>4
      <4>2. Append(s, stmt) \in Seq(S)
        BY <3>2
      <4>3. QED
        BY <3>3, <4>1, <4>2
    <3>5. CASE s # <<>> /\ files' = [files EXCEPT ![f] = Front(@)]
      <4>1. PICK t : t = Front(s)
        OBVIOUS
      <4>2. files' = [files EXCEPT ![f] = t]
        BY <3>1, <3>5, <4>1
      <4>3. t \in Seq(S)
        <5>1. PICK n : n \in Nat /\ n = Len(s) /\ DOMAIN s = 1..n
          BY <3>2
        <5>2. n # 0
          BY <3>2, <3>5, <5>1
        <5>3. t = [i \in 1..n - 1 |-> s[i]]
          BY <4>1, <5>1 DEF Front
        <5>4. n - 1 \in Nat /\ \A i \in 1..n - 1 : s[i] \in S
          BY <3>2, <5>1, <5>2
        <5>5. QED
          BY <5>3, <5>4
      <4>4. QED
        BY <3>3, <4>2, <4>3
    <3>6. QED
      BY <2>2, <3>1, <3>4, <3>5 DEF Edit
  <2>3. files' = files \/ \E f \in Files : Edit(f)
    BY <1>2 DEF Next, ParseFlags, SetFlag, AddBlock, FormatService, SetNoPrefix, AddPath,
        AskVersion, StopParsing, Takes, EndFlags, LoadConfigs, LoadFails, SetupLogger,
        LoggerFails, EndBeforeRunner, NewRunner, Reload, vars
  <2>4. QED
    BY <2>1, <2>2, <2>3
<1>3. QED
  BY <1>1, <1>2, PTL DEF Spec

\* A deprecated key is moved without touching anything outside the places it
\* moves to (config.go:244): a file without the key sets the same elsewhere,
\* as long as no stanza it moves into is written as a plain value.
THEOREM DeprecatedKeepsOthers == Spec => []DeprecatedChangesOnlyItsOwn
<1>1. ASSUME FilesInv, NEW f \in Files PROVE NamePaths(flattenKeys(files[f]))
  <2>1. PICK file, keys : file = files[f] /\ keys = flattenKeys(file)
    OBVIOUS
  <2>2. file \in Seq(Statements[f])
    BY <1>1, <2>1 DEF FilesInv
  <2>3. IsSeq(file) /\ \A i \in DOMAIN file : file[i] \in Statements[f]
    BY <2>2 DEF IsSeq
  <2>4. ASSUME NEW k \in DOMAIN keys \ Kinds, NEW rest \in DOMAIN keys[k] PROVE IsSeq(rest)
    <3>1. PICK i \in DOMAIN file : file[i].key = k /\ keys[k] = file[i].set
      BY <2>1, <2>3, KeysForm
    <3>2. DOMAIN file[i].set \subseteq Seq(STRING)
      BY <2>3, <2>4, <3>1, ConfigurationAssumption DEF ConfigurationAssumption
    <3>3. QED
      BY <3>1, <3>2 DEF IsSeq
  <2>5. QED
    BY <2>1, <2>4 DEF NamePaths
<1>2. ASSUME NEW keys, NamePaths(keys), NEW key \in DOMAIN Moves
      PROVE  LET with == Settled(keys)
                 without == Settled([k \in DOMAIN keys \ {key} |-> keys[k]])
                 plain == \E place \in Moves[key] :
                     place[1] \in DOMAIN keys /\ <<>> \in DOMAIN keys[place[1]]
                 own == {Replaced(place) : place \in Moves[key]}
                 Elsewhere(set) == {s \in DOMAIN set : \A p \in own : ~IsPrefix(p, s)}
             IN  ~plain => /\ Elsewhere(with) = Elsewhere(without)
                           /\ \A s \in Elsewhere(with) : with[s] = without[s]
  <2>1. PICK less, own : /\ less = [k \in DOMAIN keys \ {key} |-> keys[k]]
                         /\ own = {Replaced(place) : place \in Moves[key]}
    OBVIOUS
  <2>2. Without(keys, key, less)
    BY <2>1 DEF Without
  <2>3. PICK with, without : with = Settled(keys) /\ without = Settled(less)
    OBVIOUS
  <2>4. ASSUME NEW s, \A p \in own : ~IsPrefix(p, s) PROVE IsElsewhere(key, s)
    BY <2>1, <2>4 DEF IsElsewhere
  <2>5. ASSUME NoPlain(keys, key), NEW s, \A p \in own : ~IsPrefix(p, s)
        PROVE  /\ s \in DOMAIN with <=> s \in DOMAIN without
               /\ s \in DOMAIN with => with[s] = without[s]
    BY <1>2, <2>2, <2>3, <2>4, <2>5, SettledKeepsOthers
  <2>6. ASSUME NoPlain(keys, key)
        PROVE  /\ {s \in DOMAIN with : \A p \in own : ~IsPrefix(p, s)}
                      = {s \in DOMAIN without : \A p \in own : ~IsPrefix(p, s)}
               /\ \A s \in {s \in DOMAIN with : \A p \in own : ~IsPrefix(p, s)} : with[s] = without[s]
    BY <2>5, <2>6
  <2>7. NoPlain(keys, key) <=> ~(\E place \in Moves[key] :
                     place[1] \in DOMAIN keys /\ <<>> \in DOMAIN keys[place[1]])
    BY Zenon DEF NoPlain
  <2>8. QED
    BY <2>1, <2>3, <2>6, <2>7, Zenon
<1>3. ASSUME FilesInv PROVE DeprecatedChangesOnlyItsOwn
  BY <1>1, <1>2, <1>3, Zenon DEF DeprecatedChangesOnlyItsOwn
<1>4. QED
  BY <1>3, FilesHaveStatements, PTL

================================================================================
