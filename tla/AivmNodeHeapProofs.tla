--------------------------- MODULE AivmNodeHeapProofs ---------------------------
(***************************************************************************)
(* Proofs about AivmNodeHeap, for every set of opcodes: what the collector *)
(* does to the arena and to every holder of a handle, and from it that the *)
(* arena stays within its arrays, that the list of process arguments stays *)
(* node 1, that a full arena is full of reachable nodes and that programs  *)
(* which root their handles see nodes as values.                           *)
(***************************************************************************)
EXTENDS AivmNodeHeap, ProofLemmas, FiniteSetTheorems, SequenceTheorems, TLAPS

NodeRec   == [obj : Nat, shape : Nat, attrs : Nat, kids : Seq(Nat)]
ObjectRec == [shape : Nat, kids : Seq(Nat)]

\* A function on 1 .. n is a sequence of length n.
LEMMA FunctionIsSeq ==
  ASSUME NEW S, NEW n \in Nat, NEW f \in [1 .. n -> S]
  PROVE  f \in Seq(S) /\ Len(f) = n
<1>1. f \in Seq(S)
  BY SeqDef
<1>2. DOMAIN f = 1 .. n /\ DOMAIN f = 1 .. Len(f) /\ Len(f) \in Nat
  BY <1>1, LenProperties
<1>3. QED BY <1>1, <1>2

-----------------------------------------------------------------------------
(* What the nodes take up.                                                  *)

AttrCounts(ns)  == [k \in 1 .. Len(ns) |-> ns[k].attrs]
ChildCounts(ns) == [k \in 1 .. Len(ns) |-> Len(ns[k].kids)]

LEMMA CountTypes ==
  ASSUME NEW ns \in Seq(NodeRec)
  PROVE  /\ Len(ns) \in Nat
         /\ \A k \in 1 .. Len(ns) : /\ ns[k] \in NodeRec
                                    /\ AttrCounts(ns)[k] = ns[k].attrs /\ AttrCounts(ns)[k] \in Nat
                                    /\ ChildCounts(ns)[k] = Len(ns[k].kids) /\ ChildCounts(ns)[k] \in Nat
<1>1. ASSUME NEW k \in 1 .. Len(ns) PROVE ns[k] \in NodeRec
  OBVIOUS
<1>2. ASSUME NEW k \in 1 .. Len(ns) PROVE ns[k].attrs \in Nat /\ ns[k].kids \in Seq(Nat)
  BY <1>1 DEF NodeRec
<1>3. ASSUME NEW k \in 1 .. Len(ns) PROVE Len(ns[k].kids) \in Nat
  BY <1>2
<1>4. QED BY <1>1, <1>2, <1>3 DEF AttrCounts, ChildCounts

\* AttrsUsed is the last running total of the attribute counts.
LEMMA AttrsTotal ==
  ASSUME NEW ns \in Seq(NodeRec)
  PROVE  \E f : Total(f, AttrCounts(ns), Len(ns)) /\ AttrsUsed(ns) = f[Len(ns)]
<1> DEFINE IsSum(f)  == f = [n \in 0 .. Len(ns) |-> IF n = 0 THEN 0 ELSE f[n - 1] + ns[n].attrs]
           IsSumA(f) == f = [n \in 0 .. Len(ns) |-> IF n = 0 THEN 0 ELSE f[n - 1] + AttrCounts(ns)[n]]
           used == CHOOSE f : IsSum(f)
<1>1. ASSUME NEW f PROVE IsSum(f) <=> IsSumA(f)
  <2>1. [n \in 0 .. Len(ns) |-> IF n = 0 THEN 0 ELSE f[n - 1] + ns[n].attrs]
          = [n \in 0 .. Len(ns) |-> IF n = 0 THEN 0 ELSE f[n - 1] + AttrCounts(ns)[n]]
    <3>1. ASSUME NEW n \in 0 .. Len(ns), n # 0 PROVE ns[n].attrs = AttrCounts(ns)[n]
      <4>1. n \in 1 .. Len(ns)
        BY <3>1, CountTypes
      <4>2. QED BY <4>1, CountTypes
    <3>2. QED BY <3>1
  <2>2. QED BY <2>1
<1>2. (\E f : IsSumA(f)) /\ \A f : IsSumA(f) => Total(f, AttrCounts(ns), Len(ns))
  BY CountTypes, SumIsTotal
<1>3. IsSum(used)
  <2> HIDE DEF IsSum, IsSumA
  <2>1. QED BY <1>1, <1>2
<1>4. AttrsUsed(ns) = used[Len(ns)]
  BY DEF AttrsUsed
<1> HIDE DEF used, IsSum, IsSumA
<1>5. QED BY <1>1, <1>2, <1>3, <1>4

\* ChildrenUsed is the last running total of the child counts.
LEMMA ChildrenTotal ==
  ASSUME NEW ns \in Seq(NodeRec)
  PROVE  \E f : Total(f, ChildCounts(ns), Len(ns)) /\ ChildrenUsed(ns) = f[Len(ns)]
<1> DEFINE IsSum(f)  == f = [n \in 0 .. Len(ns) |-> IF n = 0 THEN 0 ELSE f[n - 1] + Len(ns[n].kids)]
           IsSumA(f) == f = [n \in 0 .. Len(ns) |-> IF n = 0 THEN 0 ELSE f[n - 1] + ChildCounts(ns)[n]]
           used == CHOOSE f : IsSum(f)
<1>1. ASSUME NEW f PROVE IsSum(f) <=> IsSumA(f)
  <2>1. [n \in 0 .. Len(ns) |-> IF n = 0 THEN 0 ELSE f[n - 1] + Len(ns[n].kids)]
          = [n \in 0 .. Len(ns) |-> IF n = 0 THEN 0 ELSE f[n - 1] + ChildCounts(ns)[n]]
    <3>1. ASSUME NEW n \in 0 .. Len(ns), n # 0 PROVE Len(ns[n].kids) = ChildCounts(ns)[n]
      <4>1. n \in 1 .. Len(ns)
        BY <3>1, CountTypes
      <4>2. QED BY <4>1, CountTypes
    <3>2. QED BY <3>1
  <2>2. QED BY <2>1
<1>2. (\E f : IsSumA(f)) /\ \A f : IsSumA(f) => Total(f, ChildCounts(ns), Len(ns))
  BY CountTypes, SumIsTotal
<1>3. IsSum(used)
  <2> HIDE DEF IsSum, IsSumA
  <2>1. QED BY <1>1, <1>2
<1>4. ChildrenUsed(ns) = used[Len(ns)]
  BY DEF ChildrenUsed
<1> HIDE DEF used, IsSum, IsSumA
<1>5. QED BY <1>1, <1>2, <1>3, <1>4

LEMMA UsedTypes ==
  ASSUME NEW ns \in Seq(NodeRec)
  PROVE  AttrsUsed(ns) \in Nat /\ ChildrenUsed(ns) \in Nat
<1>1. Len(ns) \in 0 .. Len(ns)
  BY CountTypes
<1>2. QED BY <1>1, AttrsTotal, ChildrenTotal DEF Total

\* Appending a node takes up what the node has.
LEMMA UsedByOneMore ==
  ASSUME NEW ns \in Seq(NodeRec), NEW node \in NodeRec
  PROVE  /\ Append(ns, node) \in Seq(NodeRec) /\ Len(Append(ns, node)) = Len(ns) + 1
         /\ AttrsUsed(Append(ns, node)) = AttrsUsed(ns) + node.attrs
         /\ ChildrenUsed(Append(ns, node)) = ChildrenUsed(ns) + Len(node.kids)
<1> DEFINE ns2 == Append(ns, node)
           n   == Len(ns)
<1>1. ns2 \in Seq(NodeRec) /\ Len(ns2) = n + 1 /\ n \in Nat
  OBVIOUS
<1>2. (\A k \in 1 .. n : ns2[k] = ns[k]) /\ ns2[n + 1] = node
  OBVIOUS
<1> HIDE DEF ns2
<1>3. \A k \in 1 .. n : k \in 1 .. Len(ns2)
  BY <1>1
<1>4. n + 1 \in 1 .. Len(ns2)
  BY <1>1
<1>5. \A k \in 1 .. n : AttrCounts(ns2)[k] = AttrCounts(ns)[k] /\ ChildCounts(ns2)[k] = ChildCounts(ns)[k]
  BY <1>1, <1>2, <1>3, CountTypes
<1>6. AttrCounts(ns2)[n + 1] = node.attrs /\ ChildCounts(ns2)[n + 1] = Len(node.kids)
  BY <1>1, <1>2, <1>4, CountTypes
<1>7. PICK f : Total(f, AttrCounts(ns), n) /\ AttrsUsed(ns) = f[n]
  BY AttrsTotal
<1>8. PICK g : Total(g, AttrCounts(ns2), n + 1) /\ AttrsUsed(ns2) = g[n + 1]
  BY <1>1, AttrsTotal
<1>9. PICK fc : Total(fc, ChildCounts(ns), n) /\ ChildrenUsed(ns) = fc[n]
  BY ChildrenTotal
<1>10. PICK gc : Total(gc, ChildCounts(ns2), n + 1) /\ ChildrenUsed(ns2) = gc[n + 1]
  BY <1>1, ChildrenTotal
<1>11. /\ \A k \in 1 .. n : AttrCounts(ns)[k] \in Nat
       /\ \A k \in 1 .. n : ChildCounts(ns)[k] \in Nat
  BY CountTypes
<1> HIDE DEF n
<1>12. g[n + 1] = f[n] + AttrCounts(ns2)[n + 1]
  <2>1. \A k \in 1 .. n : AttrCounts(ns2)[k] = AttrCounts(ns)[k]
    BY <1>5
  <2>2. PICK a : a = AttrCounts(ns)
    OBVIOUS
  <2>3. PICK b : b = AttrCounts(ns2)
    OBVIOUS
  <2>4. /\ n \in Nat /\ Total(f, a, n) /\ Total(g, b, n + 1)
        /\ \A k \in 1 .. n : a[k] \in Nat
        /\ \A k \in 1 .. n : b[k] = a[k]
    BY <1>1, <2>1, <2>2, <2>3, <1>7, <1>8, <1>11
  <2>5. g[n + 1] = f[n] + b[n + 1]
    BY <2>4, TotalOfOneMore
  <2>6. QED BY <2>3, <2>5
<1>13. gc[n + 1] = fc[n] + ChildCounts(ns2)[n + 1]
  <2>1. \A k \in 1 .. n : ChildCounts(ns2)[k] = ChildCounts(ns)[k]
    BY <1>5
  <2>2. PICK a : a = ChildCounts(ns)
    OBVIOUS
  <2>3. PICK b : b = ChildCounts(ns2)
    OBVIOUS
  <2>4. /\ n \in Nat /\ Total(fc, a, n) /\ Total(gc, b, n + 1)
        /\ \A k \in 1 .. n : a[k] \in Nat
        /\ \A k \in 1 .. n : b[k] = a[k]
    BY <1>1, <2>1, <2>2, <2>3, <1>9, <1>10, <1>11
  <2>5. gc[n + 1] = fc[n] + b[n + 1]
    BY <2>4, TotalOfOneMore
  <2>6. QED BY <2>3, <2>5
<1>14. QED
  BY <1>1, <1>6, <1>7, <1>8, <1>9, <1>10, <1>12, <1>13 DEF ns2, n

\* The nodes ms have the sizes of the nodes of ns at the increasing positions h.
Picks(ms, ns, h) ==
  /\ \A k \in 1 .. Len(ms) : h[k] \in 1 .. Len(ns)
  /\ \A j, k \in 1 .. Len(ms) : j < k => h[j] < h[k]
  /\ \A k \in 1 .. Len(ms) : /\ ms[k].attrs = ns[h[k]].attrs
                              /\ Len(ms[k].kids) = Len(ns[h[k]].kids)

\* Nodes picked in order from an arena take up no more than the arena.
LEMMA UsedByChosen ==
  ASSUME NEW ns \in Seq(NodeRec), NEW ms \in Seq(NodeRec), NEW h, Picks(ms, ns, h)
  PROVE  AttrsUsed(ms) <= AttrsUsed(ns) /\ ChildrenUsed(ms) <= ChildrenUsed(ns)
<1> USE DEF Picks
<1>1. Len(ns) \in Nat /\ Len(ms) \in Nat
  OBVIOUS
<1>2. /\ \A k \in 1 .. Len(ns) : AttrCounts(ns)[k] \in Nat
      /\ \A k \in 1 .. Len(ns) : ChildCounts(ns)[k] \in Nat
  BY CountTypes
<1>3. ASSUME NEW k \in 1 .. Len(ms)
      PROVE  /\ h[k] \in 1 .. Len(ns)
             /\ AttrCounts(ms)[k] = AttrCounts(ns)[h[k]]
             /\ ChildCounts(ms)[k] = ChildCounts(ns)[h[k]]
  <2>1. h[k] \in 1 .. Len(ns)
    OBVIOUS
  <2>2. AttrCounts(ms)[k] = ms[k].attrs /\ ChildCounts(ms)[k] = Len(ms[k].kids)
    BY CountTypes
  <2>3. AttrCounts(ns)[h[k]] = ns[h[k]].attrs /\ ChildCounts(ns)[h[k]] = Len(ns[h[k]].kids)
    BY <2>1, CountTypes
  <2>4. QED BY <2>1, <2>2, <2>3
<1>4. PICK f : Total(f, AttrCounts(ns), Len(ns)) /\ AttrsUsed(ns) = f[Len(ns)]
  BY AttrsTotal
<1>5. PICK g : Total(g, AttrCounts(ms), Len(ms)) /\ AttrsUsed(ms) = g[Len(ms)]
  BY AttrsTotal
<1>6. PICK fc : Total(fc, ChildCounts(ns), Len(ns)) /\ ChildrenUsed(ns) = fc[Len(ns)]
  BY ChildrenTotal
<1>7. PICK gc : Total(gc, ChildCounts(ms), Len(ms)) /\ ChildrenUsed(ms) = gc[Len(ms)]
  BY ChildrenTotal
<1>8. g[Len(ms)] <= f[Len(ns)]
  <2>1. \A k \in 1 .. Len(ms) : h[k] \in 1 .. Len(ns) /\ AttrCounts(ms)[k] = AttrCounts(ns)[h[k]]
    BY <1>3
  <2>2. PICK a : a = AttrCounts(ns)
    OBVIOUS
  <2>3. PICK b : b = AttrCounts(ms)
    OBVIOUS
  <2>4. PICK n \in Nat : n = Len(ns)
    BY <1>1
  <2>5. PICK m \in Nat : m = Len(ms)
    BY <1>1
  <2>6. /\ Total(f, a, n) /\ Total(g, b, m)
        /\ \A k \in 1 .. n : a[k] \in Nat
        /\ Chosen(b, m, a, n, h)
    BY <1>2, <2>1, <2>2, <2>3, <2>4, <2>5, <1>4, <1>5 DEF Chosen
  <2>7. g[m] <= f[n]
    BY <2>6, TotalOfChosen
  <2>8. QED BY <2>4, <2>5, <2>7
<1>9. gc[Len(ms)] <= fc[Len(ns)]
  <2>1. \A k \in 1 .. Len(ms) : h[k] \in 1 .. Len(ns) /\ ChildCounts(ms)[k] = ChildCounts(ns)[h[k]]
    BY <1>3
  <2>2. PICK a : a = ChildCounts(ns)
    OBVIOUS
  <2>3. PICK b : b = ChildCounts(ms)
    OBVIOUS
  <2>4. PICK n \in Nat : n = Len(ns)
    BY <1>1
  <2>5. PICK m \in Nat : m = Len(ms)
    BY <1>1
  <2>6. /\ Total(fc, a, n) /\ Total(gc, b, m)
        /\ \A k \in 1 .. n : a[k] \in Nat
        /\ Chosen(b, m, a, n, h)
    BY <1>2, <2>1, <2>2, <2>3, <2>4, <2>5, <1>6, <1>7 DEF Chosen
  <2>7. gc[m] <= fc[n]
    BY <2>6, TotalOfChosen
  <2>8. QED BY <2>4, <2>5, <2>7
<1>10. QED BY <1>4, <1>5, <1>6, <1>7, <1>8, <1>9

-----------------------------------------------------------------------------
(* The renaming of a compaction.                                            *)

\* The handles up to a live one: finite and not empty.
LEMMA UpToHandle ==
  ASSUME NEW N \in Nat, NEW live \in SUBSET (1 .. N), NEW h
  PROVE  /\ IsFiniteSet(live) /\ Cardinality(live) \in Nat
         /\ IsFiniteSet({g \in live : g <= h}) /\ NewHandle(live, h) \in 0 .. Cardinality(live)
<1>0. IsFiniteSet(1 .. N)
  BY FS_Interval
<1>1. IsFiniteSet(live)
  BY <1>0, FS_Subset
<1>2. {g \in live : g <= h} \in SUBSET live
  OBVIOUS
<1>3. IsFiniteSet({g \in live : g <= h}) /\ Cardinality({g \in live : g <= h}) <= Cardinality(live)
  BY <1>1, <1>2, FS_Subset
<1>4. Cardinality(live) \in Nat /\ Cardinality({g \in live : g <= h}) \in Nat
  BY <1>1, <1>3, FS_CardinalityType
<1>5. QED BY <1>1, <1>3, <1>4 DEF NewHandle

LEMMA NewHandleGrows ==
  ASSUME NEW N \in Nat, NEW live \in SUBSET (1 .. N), NEW h \in live, NEW g \in live, g < h
  PROVE  NewHandle(live, g) < NewHandle(live, h)
<1> DEFINE G == {x \in live : x <= g}
           H == {x \in live : x <= h}
<1>0. \A x \in live : x \in Int
  OBVIOUS
<1>1. G \in SUBSET H /\ h \in H /\ h \notin G
  <2>1. g \in Int /\ h \in Int
    BY <1>0
  <2>2. ASSUME NEW x \in live, x <= g PROVE x <= h
    BY <2>1, <2>2, <1>0
  <2>3. h <= h /\ ~ (h <= g)
    BY <2>1
  <2>4. QED BY <2>2, <2>3
<1>2. IsFiniteSet(G) /\ IsFiniteSet(H) /\ Cardinality(G) \in Nat /\ Cardinality(H) \in Nat
  BY UpToHandle, FS_CardinalityType
<1> HIDE DEF G, H
<1>3. Cardinality(G) <= Cardinality(H) /\ Cardinality(G) # Cardinality(H)
  BY <1>1, <1>2, FS_Subset
<1>4. QED BY <1>2, <1>3 DEF NewHandle, G, H

LEMMA NewHandlePositive ==
  ASSUME NEW N \in Nat, NEW live \in SUBSET (1 .. N), NEW h \in live
  PROVE  NewHandle(live, h) \in 1 .. Cardinality(live)
<1> DEFINE H == {x \in live : x <= h}
<1>1. h \in H
  OBVIOUS
<1>2. IsFiniteSet(H) /\ NewHandle(live, h) \in 0 .. Cardinality(live) /\ Cardinality(live) \in Nat
  BY UpToHandle
<1>3. Cardinality(H) # 0
  BY <1>1, <1>2, FS_EmptySet
<1>4. NewHandle(live, h) = Cardinality(H)
  BY DEF NewHandle
<1> HIDE DEF H
<1>5. QED BY <1>2, <1>3, <1>4

LEMMA NewHandleDistinct ==
  ASSUME NEW N \in Nat, NEW live \in SUBSET (1 .. N), NEW h \in live, NEW g \in live,
         NewHandle(live, g) = NewHandle(live, h)
  PROVE  g = h
<1>1. NewHandle(live, g) \in 0 .. Cardinality(live) /\ Cardinality(live) \in Nat
  BY UpToHandle
<1>2. g < h => NewHandle(live, g) < NewHandle(live, h)
  BY NewHandleGrows
<1>3. h < g => NewHandle(live, h) < NewHandle(live, g)
  BY NewHandleGrows
<1>4. ~ (g < h) /\ ~ (h < g)
  BY <1>1, <1>2, <1>3
<1>5. g \in Int /\ h \in Int
  OBVIOUS
<1>6. QED BY <1>4, <1>5

\* Handle 1 keeps its name.
LEMMA NewHandleFirst ==
  ASSUME NEW N \in Nat, NEW live \in SUBSET (1 .. N), 1 \in live
  PROVE  NewHandle(live, 1) = 1
<1>0. \A g \in live : g \in Int /\ 1 <= g
  OBVIOUS
<1>1. {g \in live : g <= 1} = {1}
  <2>1. ASSUME NEW g \in live PROVE g <= 1 <=> g = 1
    BY <1>0
  <2>2. QED BY <2>1
<1>2. QED BY <1>1, FS_Singleton DEF NewHandle

\* The node a new handle comes from.
OldHandle(live, n) == CHOOSE h \in live : NewHandle(live, h) = n

LEMMA OldHandleIs ==
  ASSUME NEW N \in Nat, NEW live \in SUBSET (1 .. N)
  PROVE  \A n \in 1 .. Cardinality(live) :
           OldHandle(live, n) \in live /\ NewHandle(live, OldHandle(live, n)) = n
<1> DEFINE new == [h \in live |-> NewHandle(live, h)]
           T   == 1 .. Cardinality(live)
<1>1. new \in [live -> T]
  BY NewHandlePositive
<1>2. \A g, h \in live : new[g] = new[h] => g = h
  BY NewHandleDistinct
<1>3. new \in Injection(live, T)
  BY <1>1, <1>2 DEF Injection, IsInjective
<1>4. IsFiniteSet(T) /\ Cardinality(T) = Cardinality(live)
  <2>1. Cardinality(live) \in Nat
    BY UpToHandle
  <2>2. QED BY <2>1, FS_Interval
<1>5. new \in Surjection(live, T)
  <2> HIDE DEF new, T
  <2>1. QED BY <1>3, <1>4, FS_Injection
<1>6. \A n \in T : \E h \in live : new[h] = n
  BY <1>5 DEF Surjection
<1>7. \A n \in T : \E h \in live : NewHandle(live, h) = n
  BY <1>6
<1> HIDE DEF new
<1>8. QED BY <1>7 DEF OldHandle

LEMMA OldHandleGrows ==
  ASSUME NEW N \in Nat, NEW live \in SUBSET (1 .. N),
         NEW j \in 1 .. Cardinality(live), NEW k \in 1 .. Cardinality(live), j < k
  PROVE  OldHandle(live, j) < OldHandle(live, k)
<1> DEFINE g == OldHandle(live, j)
           h == OldHandle(live, k)
<1>1. g \in live /\ h \in live /\ NewHandle(live, g) = j /\ NewHandle(live, h) = k
  BY OldHandleIs
<1> HIDE DEF g, h
<1>2. j \in Int /\ k \in Int
  OBVIOUS
<1>3. g # h
  BY <1>1, <1>2
<1>4. ~ (h < g)
  <2>1. ASSUME h < g PROVE k < j
    BY <1>1, <2>1, NewHandleGrows
  <2>2. QED BY <2>1, <1>2
<1>5. g < h
  BY <1>1, <1>3, <1>4
<1>6. QED BY <1>5 DEF g, h

-----------------------------------------------------------------------------
(* The holders of handles.                                                  *)

RootsOK(rs) ==
  /\ rs = [r \in RootSets \cup Cached |-> rs[r]]
  /\ \A r \in RootSets : rs[r] \in Seq(Nat)
  /\ \A c \in Cached : rs[c] \in Nat

\* Two holders with the same handles cached by the VM, and those of a program in
\* which argv is node 1 and no host node took its place.
SameCached(rs, rs2) == \A c \in Cached : rs2[c] = rs[c]
ArgvFirst(rs) == rs.argv = 1 /\ rs.window # 1 /\ rs.event # 1

LEMMA HeldIs ==
  ASSUME NEW rs, RootsOK(rs)
  PROVE  /\ \A r \in RootSets : \A i \in 1 .. Len(rs[r]) : rs[r][i] \in Nat /\ (rs[r][i] # 0 => rs[r][i] \in Held(rs))
         /\ \A c \in Cached : rs[c] # 0 => rs[c] \in Held(rs)
         /\ \A h \in Held(rs) : /\ h \in Nat \ {0}
                                /\ \/ \E r \in RootSets : \E i \in 1 .. Len(rs[r]) : h = rs[r][i]
                                   \/ \E c \in Cached : h = rs[c]
<1> DEFINE InSets == UNION {{rs[r][i] : i \in 1 .. Len(rs[r])} : r \in RootSets}
           InCaches == {rs[c] : c \in Cached}
<1>0. Held(rs) = (InSets \cup InCaches) \ {0}
  BY DEF Held
<1>1. ASSUME NEW r \in RootSets, NEW i \in 1 .. Len(rs[r])
      PROVE  rs[r][i] \in Nat /\ (rs[r][i] # 0 => rs[r][i] \in Held(rs))
  <2>1. rs[r] \in Seq(Nat)
    BY DEF RootsOK
  <2>2. rs[r][i] \in Nat
    BY <2>1
  <2>3. rs[r][i] \in UNION {{rs[q][j] : j \in 1 .. Len(rs[q])} : q \in RootSets}
    OBVIOUS
  <2>4. QED BY <2>2, <2>3 DEF Held
<1>2. ASSUME NEW c \in Cached, rs[c] # 0 PROVE rs[c] \in Held(rs)
  <2>1. rs[c] \in InCaches
    OBVIOUS
  <2> HIDE DEF InSets, InCaches
  <2>2. QED BY <1>0, <1>2, <2>1
<1>3. ASSUME NEW h \in Held(rs)
      PROVE  /\ h # 0
             /\ \/ \E r \in RootSets : \E i \in 1 .. Len(rs[r]) : h = rs[r][i]
                \/ \E c \in Cached : h = rs[c]
  <2>1. h # 0 /\ (h \in InSets \/ h \in InCaches)
    <3> HIDE DEF InSets, InCaches
    <3>1. QED BY <1>0
  <2>2. CASE h \in InSets
    <3>1. PICK T \in {{rs[r][i] : i \in 1 .. Len(rs[r])} : r \in RootSets} : h \in T
      BY <2>2
    <3>2. QED BY <2>1, <3>1
  <2>3. CASE h \in InCaches
    BY <2>1, <2>3
  <2>4. QED BY <2>1, <2>2, <2>3
<1>4. ASSUME NEW h \in Held(rs) PROVE h \in Nat
  BY <1>1, <1>3 DEF RootsOK
<1>5. QED BY <1>1, <1>2, <1>3, <1>4

LEMMA PushedOK ==
  ASSUME NEW rs, RootsOK(rs), NEW v \in Nat
  PROVE  /\ RootsOK(Pushed(rs, v)) /\ SameCached(rs, Pushed(rs, v))
         /\ Pushed(rs, v).stack = Append(rs.stack, v) /\ Pushed(rs, v).branches = rs.branches
<1>1. rs.stack \in Seq(Nat)
  BY DEF RootsOK, RootSets
<1>2. Append(rs.stack, v) \in Seq(Nat)
  BY <1>1
<1>3. RootsOK(Pushed(rs, v))
  BY <1>1, <1>2 DEF RootsOK, RootSets, Cached, Pushed
<1>4. QED BY <1>3 DEF RootsOK, RootSets, Cached, Pushed, SameCached

LEMMA DropOK ==
  ASSUME NEW rs, RootsOK(rs), NEW n \in Nat, n <= Len(rs.stack)
  PROVE  /\ RootsOK(Drop(rs, n)) /\ SameCached(rs, Drop(rs, n))
         /\ Drop(rs, n).stack = SubSeq(rs.stack, 1, Len(rs.stack) - n)
         /\ Len(Drop(rs, n).stack) = Len(rs.stack) - n
         /\ \A r \in RootSets \ {"stack"} : Drop(rs, n)[r] = rs[r]
<1>1. rs.stack \in Seq(Nat)
  BY DEF RootsOK, RootSets
<1>2. SubSeq(rs.stack, 1, Len(rs.stack) - n) \in Seq(Nat) /\ Len(SubSeq(rs.stack, 1, Len(rs.stack) - n)) = Len(rs.stack) - n
  BY <1>1
<1>3. RootsOK(Drop(rs, n))
  BY <1>1, <1>2 DEF RootsOK, RootSets, Cached, Drop
<1>4. Drop(rs, n).stack = SubSeq(rs.stack, 1, Len(rs.stack) - n) /\ SameCached(rs, Drop(rs, n))
  BY DEF RootsOK, RootSets, Cached, Drop, SameCached
<1>5. \A r \in RootSets \ {"stack"} : Drop(rs, n)[r] = rs[r]
  BY DEF RootsOK, RootSets, Cached, Drop
<1>6. QED BY <1>2, <1>3, <1>4, <1>5

LEMMA PeekOK ==
  ASSUME NEW rs, RootsOK(rs), NEW k \in Nat, k < Len(rs.stack)
  PROVE  Peek(rs, k) \in Nat /\ (Peek(rs, k) # 0 => Peek(rs, k) \in Held(rs))
<1>1. rs.stack \in Seq(Nat) /\ "stack" \in RootSets
  BY DEF RootsOK, RootSets
<1>2. Len(rs.stack) - k \in 1 .. Len(rs.stack)
  BY <1>1
<1>3. QED BY <1>1, <1>2, HeldIs DEF Peek

LEMMA WithRootsOK ==
  ASSUME NEW rs, RootsOK(rs), NEW r \in RootSets, NEW q \in Seq(Nat)
  PROVE  /\ RootsOK([rs EXCEPT ![r] = q]) /\ SameCached(rs, [rs EXCEPT ![r] = q])
         /\ [rs EXCEPT ![r] = q][r] = q
BY DEF RootsOK, RootSets, Cached, SameCached

LEMMA WithCachedOK ==
  ASSUME NEW rs, RootsOK(rs), NEW c \in Cached, NEW v \in Nat
  PROVE  /\ RootsOK([rs EXCEPT ![c] = v])
         /\ \A d \in Cached : [rs EXCEPT ![c] = v][d] = IF d = c THEN v ELSE rs[d]
BY DEF RootsOK, RootSets, Cached

LEMMA EmptyRootsOK == RootsOK(EmptyRoots(1)) /\ ArgvFirst(EmptyRoots(1))
BY DEF RootsOK, EmptyRoots, RootSets, Cached, ArgvFirst

LEMMA SameArgv ==
  ASSUME NEW rs, NEW rs2, SameCached(rs, rs2), ArgvFirst(rs)
  PROVE  ArgvFirst(rs2)
BY DEF SameCached, ArgvFirst, Cached

\* A renaming keeps every holder and holds exactly the new names.
LEMMA RenamedOK ==
  ASSUME NEW rs, RootsOK(rs), NEW f \in [Held(rs) -> Nat \ {0}]
  PROVE  /\ RootsOK(Renamed(rs, f))
         /\ \A r \in RootSets : /\ Len(Renamed(rs, f)[r]) = Len(rs[r])
                                /\ \A i \in 1 .. Len(rs[r]) :
                                     Renamed(rs, f)[r][i] = IF rs[r][i] = 0 THEN 0 ELSE f[rs[r][i]]
         /\ \A c \in Cached : Renamed(rs, f)[c] = IF rs[c] = 0 THEN 0 ELSE f[rs[c]]
         /\ Held(Renamed(rs, f)) = {f[h] : h \in Held(rs)}
<1> DEFINE name(v) == IF v = 0 THEN 0 ELSE f[v]
           rs2 == Renamed(rs, f)
<1>1. RootSets \cap Cached = {}
  BY DEF RootSets, Cached
<1>2. ASSUME NEW r \in RootSets
      PROVE  /\ rs2[r] = [i \in 1 .. Len(rs[r]) |-> name(rs[r][i])]
             /\ rs2[r] \in Seq(Nat) /\ Len(rs2[r]) = Len(rs[r])
             /\ \A i \in 1 .. Len(rs[r]) : rs2[r][i] = name(rs[r][i])
  <2>1. rs[r] \in Seq(Nat) /\ Len(rs[r]) \in Nat
    BY DEF RootsOK
  <2>2. \A i \in 1 .. Len(rs[r]) : name(rs[r][i]) \in Nat
    BY HeldIs
  <2>3. rs2[r] = [i \in 1 .. Len(rs[r]) |-> name(rs[r][i])]
    BY <1>1 DEF Renamed
  <2> HIDE DEF name, rs2
  <2>4. rs2[r] \in [1 .. Len(rs[r]) -> Nat]
    BY <2>2, <2>3
  <2>5. rs2[r] \in Seq(Nat) /\ Len(rs2[r]) = Len(rs[r])
    BY <2>1, <2>4, FunctionIsSeq
  <2>6. QED BY <2>3, <2>5
<1>3. ASSUME NEW c \in Cached PROVE rs2[c] = name(rs[c]) /\ rs2[c] \in Nat
  <2>1. rs2[c] = name(rs[c])
    BY DEF Renamed
  <2>2. name(rs[c]) \in Nat
    BY HeldIs
  <2>3. QED BY <2>1, <2>2
<1>4. rs2 = [r \in RootSets \cup Cached |-> rs2[r]]
  BY DEF Renamed
<1>5. RootsOK(rs2)
  <2> HIDE DEF rs2, name
  <2>1. QED BY <1>2, <1>3, <1>4 DEF RootsOK
<1>6. ASSUME NEW h \in Held(rs) PROVE f[h] \in Held(rs2)
  <2>1. h # 0 /\ f[h] # 0 /\ name(h) = f[h]
    BY HeldIs
  <2>2. CASE \E r \in RootSets : \E i \in 1 .. Len(rs[r]) : h = rs[r][i]
    <3>0. PICK r \in RootSets : \E i \in 1 .. Len(rs[r]) : h = rs[r][i]
      BY <2>2
    <3>1. PICK i \in 1 .. Len(rs[r]) : h = rs[r][i]
      BY <3>0
    <3>2. rs2[r][i] = f[h] /\ i \in 1 .. Len(rs2[r])
      BY <1>2, <2>1, <3>1
    <3> HIDE DEF rs2, name
    <3>3. QED BY <2>1, <3>2, <1>5, HeldIs
  <2>3. CASE \E c \in Cached : h = rs[c]
    <3>1. PICK c \in Cached : h = rs[c]
      BY <2>3
    <3>2. rs2[c] = f[h]
      BY <1>3, <2>1, <3>1
    <3> HIDE DEF rs2, name
    <3>3. QED BY <2>1, <3>2, <1>5, HeldIs
  <2>4. QED BY <2>2, <2>3, HeldIs
<1>7. ASSUME NEW g \in Held(rs2) PROVE \E h \in Held(rs) : g = f[h]
  <2>1. g # 0
    BY <1>5, HeldIs
  <2>2. CASE \E r \in RootSets : \E i \in 1 .. Len(rs2[r]) : g = rs2[r][i]
    <3>0. PICK r \in RootSets : \E i \in 1 .. Len(rs2[r]) : g = rs2[r][i]
      BY <2>2
    <3>1. PICK i \in 1 .. Len(rs2[r]) : g = rs2[r][i]
      BY <3>0
    <3>2. i \in 1 .. Len(rs[r]) /\ g = name(rs[r][i])
      BY <1>2, <3>1
    <3>3. QED BY <2>1, <3>2, HeldIs
  <2>3. CASE \E c \in Cached : g = rs2[c]
    <3>1. PICK c \in Cached : g = rs2[c]
      BY <2>3
    <3>2. g = name(rs[c])
      BY <1>3, <3>1
    <3>3. QED BY <2>1, <3>2, HeldIs
  <2> HIDE DEF rs2, name
  <2>4. QED BY <2>2, <2>3, <1>5, HeldIs
<1>8. Held(rs2) = {f[h] : h \in Held(rs)}
  BY <1>6, <1>7
<1>9. QED BY <1>2, <1>3, <1>5, <1>8

-----------------------------------------------------------------------------
(* What is live, and what a compaction leaves.                              *)

IsHeap(heap) == DOMAIN heap = {"nodes", "roots", "kids", "sinceGc", "error"}

HeapOK(heap) ==
  /\ heap.nodes \in Seq(NodeRec)
  /\ RootsOK(heap.roots)
  /\ heap.kids \in Seq(Nat)
  /\ heap.sinceGc \in Nat

Handles(heap) == 1 .. Len(heap.nodes)
KidsOf(heap, h) == {heap.nodes[h].kids[i] : i \in 1 .. Len(heap.nodes[h].kids)}
Extra(heap) == {heap.kids[i] : i \in 1 .. Len(heap.kids)}
Closed(heap, S) ==
  /\ Handles(heap) \cap (Held(heap.roots) \cup Extra(heap)) \subseteq S
  /\ \A h \in S : KidsOf(heap, h) \cap Handles(heap) \subseteq S

LEMMA LiveIs ==
  ASSUME NEW heap
  PROVE  Live(heap) = {h \in Handles(heap) : \A S \in SUBSET Handles(heap) : Closed(heap, S) => h \in S}
BY DEF Live, Closed, Handles, KidsOf, Extra

LEMMA LiveFacts ==
  ASSUME NEW heap
  PROVE  /\ Live(heap) \in SUBSET Handles(heap)
         /\ Closed(heap, Live(heap))
         /\ \A S \in SUBSET Handles(heap) : Closed(heap, S) => Live(heap) \subseteq S
<1>1. Live(heap) \in SUBSET Handles(heap) /\ \A S \in SUBSET Handles(heap) : Closed(heap, S) => Live(heap) \subseteq S
  BY LiveIs
<1>2. ASSUME NEW h \in Handles(heap), h \in Held(heap.roots) \cup Extra(heap) PROVE h \in Live(heap)
  BY <1>2, LiveIs DEF Closed
<1>3. ASSUME NEW h \in Live(heap), NEW k \in Handles(heap), k \in KidsOf(heap, h) PROVE k \in Live(heap)
  <2>1. SUFFICES ASSUME NEW S \in SUBSET Handles(heap), Closed(heap, S) PROVE k \in S
    BY LiveIs
  <2>2. h \in S
    BY <1>1, <2>1
  <2>3. QED BY <1>3, <2>1, <2>2 DEF Closed
<1>4. QED BY <1>1, <1>2, <1>3 DEF Closed

\* What is live depends only on the nodes, the roots and the extra roots.
LEMMA LiveSame ==
  ASSUME NEW a, NEW b, a.nodes = b.nodes, a.roots = b.roots, a.kids = b.kids
  PROVE  Live(a) = Live(b)
BY DEF Live

LEMMA CompactIs ==
  ASSUME NEW heap, IsHeap(heap), Mappable(heap, Live(heap))
  PROVE  /\ IsHeap(Compact(heap)) /\ Compact(heap).error = heap.error /\ Compact(heap).sinceGc = 0
         /\ Compact(heap).nodes = CompactedNodes(heap.nodes, Live(heap))
         /\ Compact(heap).roots = Renamed(heap.roots, [h \in Held(heap.roots) |-> NewHandle(Live(heap), h)])
         /\ Compact(heap).kids = [i \in 1 .. Len(heap.kids) |-> NewHandle(Live(heap), heap.kids[i])]
BY DEF Compact, IsHeap

LEMMA CompactFails ==
  ASSUME NEW heap, IsHeap(heap), ~ Mappable(heap, Live(heap))
  PROVE  /\ IsHeap(Compact(heap)) /\ Compact(heap).error = "DANGLING"
         /\ Compact(heap).nodes = heap.nodes /\ Compact(heap).roots = heap.roots
         /\ Compact(heap).kids = heap.kids /\ Compact(heap).sinceGc = heap.sinceGc
BY DEF Compact, IsHeap

LEMMA LiteralHeap ==
  ASSUME NEW ns, NEW rs, NEW kids, NEW n, NEW e, NEW heap,
         heap = [nodes |-> ns, roots |-> rs, kids |-> kids, sinceGc |-> n, error |-> e]
  PROVE  IsHeap(heap)
BY DEF IsHeap

\* node was old before a compaction that kept live.
MovedFrom(node, old, live) ==
  /\ node.obj = old.obj /\ node.shape = old.shape /\ node.attrs = old.attrs
  /\ Len(node.kids) = Len(old.kids)
  /\ \A i \in 1 .. Len(old.kids) : node.kids[i] = NewHandle(live, old.kids[i])

LEMMA MovedNode ==
  ASSUME NEW N \in Nat, NEW live \in SUBSET (1 .. N), NEW old \in NodeRec,
         NEW node, node = [old EXCEPT !.kids = [i \in 1 .. Len(old.kids) |-> NewHandle(live, old.kids[i])]]
  PROVE  node \in NodeRec /\ MovedFrom(node, old, live)
<1> DEFINE ks == [i \in 1 .. Len(old.kids) |-> NewHandle(live, old.kids[i])]
<1>1. old.kids \in Seq(Nat) /\ Len(old.kids) \in Nat
  BY DEF NodeRec
<1>2. \A i \in 1 .. Len(old.kids) : NewHandle(live, old.kids[i]) \in Nat
  <2>1. \A x \in 0 .. Cardinality(live) : x \in Nat
    OBVIOUS
  <2>2. QED BY <2>1, UpToHandle
<1>3. ks \in [1 .. Len(old.kids) -> Nat]
  BY <1>2
<1>4. \A i \in 1 .. Len(old.kids) : ks[i] = NewHandle(live, old.kids[i])
  OBVIOUS
<1>5. node = [old EXCEPT !.kids = ks]
  OBVIOUS
<1> HIDE DEF ks
<1>6. ks \in Seq(Nat) /\ Len(ks) = Len(old.kids)
  BY <1>1, <1>3, FunctionIsSeq
<1>7. /\ node.kids = ks /\ node.obj = old.obj /\ node.shape = old.shape /\ node.attrs = old.attrs
      /\ node \in NodeRec
  BY <1>5, <1>6 DEF NodeRec
<1>8. QED BY <1>4, <1>6, <1>7 DEF MovedFrom

\* The live nodes in order, each with its children renamed.
LEMMA CompactedOK ==
  ASSUME NEW ns \in Seq(NodeRec), NEW live \in SUBSET (1 .. Len(ns))
  PROVE  /\ CompactedNodes(ns, live) \in Seq(NodeRec)
         /\ Len(CompactedNodes(ns, live)) = Cardinality(live)
         /\ \A n \in 1 .. Cardinality(live) :
              /\ OldHandle(live, n) \in live
              /\ MovedFrom(CompactedNodes(ns, live)[n], ns[OldHandle(live, n)], live)
<1> DEFINE N == Len(ns)
           ms == CompactedNodes(ns, live)
<1>0. N \in Nat /\ live \in SUBSET (1 .. N)
  OBVIOUS
<1> HIDE DEF N
<1>1. N \in Nat /\ Cardinality(live) \in Nat
  BY <1>0, UpToHandle
<1>2. ASSUME NEW n \in 1 .. Cardinality(live)
      PROVE  /\ OldHandle(live, n) \in live
             /\ ms[n] \in NodeRec /\ MovedFrom(ms[n], ns[OldHandle(live, n)], live)
  <2> DEFINE old == ns[OldHandle(live, n)]
  <2>1. OldHandle(live, n) \in live
    BY <1>0, OldHandleIs
  <2>2. old \in NodeRec
    <3>1. OldHandle(live, n) \in 1 .. Len(ns)
      BY <2>1
    <3>2. PICK h \in 1 .. Len(ns) : h = OldHandle(live, n)
      BY <3>1
    <3>3. ns[h] \in NodeRec
      BY ElementOfSeq
    <3>4. QED BY <3>2, <3>3
  <2>3. ms[n] = [old EXCEPT !.kids = [i \in 1 .. Len(old.kids) |-> NewHandle(live, old.kids[i])]]
    BY DEF CompactedNodes, OldHandle
  <2> HIDE DEF old, ms
  <2>4. ms[n] \in NodeRec /\ MovedFrom(ms[n], old, live)
    BY <1>0, <2>2, <2>3, MovedNode
  <2>5. QED BY <2>1, <2>4 DEF old
<1>3. ms \in [1 .. Cardinality(live) -> NodeRec]
  <2>1. ms = [n \in 1 .. Cardinality(live) |-> ms[n]]
    BY DEF CompactedNodes
  <2> HIDE DEF ms
  <2>2. QED BY <2>1, <1>2
<1>4. ms \in Seq(NodeRec) /\ Len(ms) = Cardinality(live)
  <2> HIDE DEF ms
  <2>1. QED BY <1>1, <1>3, FunctionIsSeq
<1>5. QED BY <1>2, <1>4

\* A compaction never makes the arena bigger.
LEMMA CompactedFits ==
  ASSUME NEW ns \in Seq(NodeRec), NEW live \in SUBSET (1 .. Len(ns))
  PROVE  /\ Len(CompactedNodes(ns, live)) <= Len(ns)
         /\ AttrsUsed(CompactedNodes(ns, live)) <= AttrsUsed(ns)
         /\ ChildrenUsed(CompactedNodes(ns, live)) <= ChildrenUsed(ns)
<1> DEFINE ms == CompactedNodes(ns, live)
           h  == [n \in 1 .. Cardinality(live) |-> OldHandle(live, n)]
<1>1. /\ ms \in Seq(NodeRec) /\ Len(ms) = Cardinality(live) /\ Len(ns) \in Nat
      /\ \A n \in 1 .. Len(ms) : h[n] \in 1 .. Len(ns) /\ MovedFrom(ms[n], ns[h[n]], live)
  <2>1. ms \in Seq(NodeRec) /\ Len(ms) = Cardinality(live) /\ Len(ns) \in Nat
    BY CompactedOK
  <2>2. ASSUME NEW n \in 1 .. Cardinality(live)
        PROVE  h[n] \in 1 .. Len(ns) /\ MovedFrom(ms[n], ns[h[n]], live)
    <3>1. OldHandle(live, n) \in live /\ MovedFrom(ms[n], ns[OldHandle(live, n)], live)
      BY CompactedOK
    <3>2. h[n] = OldHandle(live, n)
      OBVIOUS
    <3>3. QED BY <3>1, <3>2
  <2> HIDE DEF ms, h
  <2>3. QED BY <2>1, <2>2
<1>2. \A j, k \in 1 .. Len(ms) : j < k => h[j] < h[k]
  BY <1>1, OldHandleGrows
<1>3. \A n \in 1 .. Len(ms) : /\ ms[n].attrs = ns[h[n]].attrs
                              /\ Len(ms[n].kids) = Len(ns[h[n]].kids)
  BY <1>1 DEF MovedFrom
<1>4. Len(ms) <= Len(ns)
  <2>1. IsFiniteSet(1 .. Len(ns)) /\ Cardinality(1 .. Len(ns)) = Len(ns)
    <3>1. PICK n \in Nat : n = Len(ns)
      BY <1>1
    <3>2. IsFiniteSet(1 .. n) /\ Cardinality(1 .. n) = IF 1 > n THEN 0 ELSE n - 1 + 1
      BY FS_Interval
    <3>3. Cardinality(1 .. n) = n
      BY <3>2
    <3>4. QED BY <3>1, <3>2, <3>3
  <2>2. Cardinality(live) <= Cardinality(1 .. Len(ns))
    BY <2>1, FS_Subset
  <2>3. QED BY <1>1, <2>1, <2>2
<1> HIDE DEF ms, h
<1>5. AttrsUsed(ms) <= AttrsUsed(ns) /\ ChildrenUsed(ms) <= ChildrenUsed(ns)
  <2>1. Picks(ms, ns, h)
    BY <1>1, <1>2, <1>3 DEF Picks
  <2>2. QED BY <1>1, <2>1, UsedByChosen
<1>6. QED BY <1>4, <1>5 DEF ms

-----------------------------------------------------------------------------
(* Compacting a heap.                                                       *)

\* The new name of a handle.
New(heap, h) == NewHandle(Live(heap), h)

\* A compaction that succeeds renames every handle of the heap, and leaves only
\* live nodes.
LEMMA CompactOK ==
  ASSUME NEW heap, IsHeap(heap), HeapOK(heap), Mappable(heap, Live(heap)),
         NEW c, c = Compact(heap)
  PROVE  /\ IsHeap(c) /\ HeapOK(c) /\ c.error = heap.error
         /\ Len(c.nodes) = Cardinality(Live(heap))
         /\ Held(c.roots) = {New(heap, h) : h \in Held(heap.roots)}
         /\ \A r \in RootSets : /\ Len(c.roots[r]) = Len(heap.roots[r])
                                /\ \A i \in 1 .. Len(heap.roots[r]) : c.roots[r][i] =
                                     IF heap.roots[r][i] = 0 THEN 0 ELSE New(heap, heap.roots[r][i])
         /\ \A k \in Cached : c.roots[k] = IF heap.roots[k] = 0 THEN 0 ELSE New(heap, heap.roots[k])
         /\ Len(c.kids) = Len(heap.kids)
         /\ \A i \in 1 .. Len(heap.kids) : c.kids[i] = New(heap, heap.kids[i])
<1> DEFINE live == Live(heap)
           f == [h \in Held(heap.roots) |-> NewHandle(live, h)]
<1>1. /\ IsHeap(c) /\ c.error = heap.error /\ c.sinceGc = 0
      /\ c.nodes = CompactedNodes(heap.nodes, live) /\ c.roots = Renamed(heap.roots, f)
      /\ c.kids = [i \in 1 .. Len(heap.kids) |-> NewHandle(live, heap.kids[i])]
  BY CompactIs
<1>2. live \in SUBSET (1 .. Len(heap.nodes)) /\ Len(heap.nodes) \in Nat
  BY LiveFacts DEF Handles, HeapOK
<1>3. Held(heap.roots) \subseteq live /\ \A i \in 1 .. Len(heap.kids) : heap.kids[i] \in live
  BY DEF Mappable
<1> HIDE DEF live
<1>4. \A h \in live : NewHandle(live, h) \in Nat \ {0}
  <2>1. \A x \in 1 .. Cardinality(live) : x \in Nat \ {0}
    OBVIOUS
  <2>2. QED BY <1>2, <2>1, NewHandlePositive
<1>5. c.nodes \in Seq(NodeRec) /\ Len(c.nodes) = Cardinality(live)
  BY <1>1, <1>2, CompactedOK DEF HeapOK
<1>6. f \in [Held(heap.roots) -> Nat \ {0}] /\ \A h \in Held(heap.roots) : f[h] = NewHandle(live, h)
  BY <1>3, <1>4
<1>7. RootsOK(heap.roots) /\ heap.kids \in Seq(Nat) /\ Len(heap.kids) \in Nat
  BY DEF HeapOK
<1> HIDE DEF f
<1>8. /\ RootsOK(c.roots)
      /\ \A r \in RootSets : /\ Len(c.roots[r]) = Len(heap.roots[r])
                             /\ \A i \in 1 .. Len(heap.roots[r]) : c.roots[r][i] =
                                  IF heap.roots[r][i] = 0 THEN 0 ELSE f[heap.roots[r][i]]
      /\ \A k \in Cached : c.roots[k] = IF heap.roots[k] = 0 THEN 0 ELSE f[heap.roots[k]]
      /\ Held(c.roots) = {f[h] : h \in Held(heap.roots)}
  BY <1>1, <1>6, <1>7, RenamedOK
<1>9. /\ \A r \in RootSets : \A i \in 1 .. Len(heap.roots[r]) :
           heap.roots[r][i] # 0 => heap.roots[r][i] \in Held(heap.roots)
      /\ \A k \in Cached : heap.roots[k] # 0 => heap.roots[k] \in Held(heap.roots)
  BY <1>7, HeldIs
<1>10. c.kids \in Seq(Nat) /\ Len(c.kids) = Len(heap.kids)
  <2>1. c.kids \in [1 .. Len(heap.kids) -> Nat]
    BY <1>1, <1>3, <1>4
  <2>2. QED BY <1>7, <2>1, FunctionIsSeq
<1>11. \A i \in 1 .. Len(heap.kids) : c.kids[i] = NewHandle(live, heap.kids[i])
  BY <1>1
<1>12. HeapOK(c)
  BY <1>1, <1>5, <1>8, <1>10 DEF HeapOK
<1>13. Held(c.roots) = {NewHandle(live, h) : h \in Held(heap.roots)}
  BY <1>6, <1>8
<1>14. /\ \A r \in RootSets : \A i \in 1 .. Len(heap.roots[r]) : c.roots[r][i] =
            IF heap.roots[r][i] = 0 THEN 0 ELSE NewHandle(live, heap.roots[r][i])
       /\ \A k \in Cached : c.roots[k] = IF heap.roots[k] = 0 THEN 0 ELSE NewHandle(live, heap.roots[k])
  BY <1>6, <1>8, <1>9
<1>15. QED BY <1>1, <1>5, <1>8, <1>10, <1>11, <1>12, <1>13, <1>14 DEF New, live

\* After a compaction every node is live: a full arena is full of reachable nodes.
LEMMA CompactLeavesLive ==
  ASSUME NEW heap, IsHeap(heap), HeapOK(heap), Mappable(heap, Live(heap)),
         NEW c, c = Compact(heap)
  PROVE  Live(c) = 1 .. Len(c.nodes)
<1> DEFINE live == Live(heap)
           N == Len(heap.nodes)
<1>1. live \in SUBSET (1 .. N) /\ N \in Nat
  BY LiveFacts DEF Handles, HeapOK
<1>2. Len(c.nodes) = Cardinality(live)
  BY CompactOK
<1>3. c.nodes = CompactedNodes(heap.nodes, live)
  BY CompactIs
<1>4. SUFFICES ASSUME NEW S \in SUBSET Handles(c), Closed(c, S), NEW n \in 1 .. Cardinality(live)
               PROVE  n \in S
  <2>1. Live(c) \in SUBSET Handles(c)
    BY LiveFacts
  <2>2. QED BY <1>2, <1>4, <2>1, LiveIs DEF Handles
<1> DEFINE T == {h \in live : NewHandle(live, h) \in S}
<1>5. T \in SUBSET Handles(heap)
  BY <1>1 DEF Handles
<1>6. ASSUME NEW h \in Handles(heap), h \in Held(heap.roots) \cup Extra(heap) PROVE h \in T
  <2>1. h \in live
    BY <1>6, LiveFacts DEF Closed
  <2>2. NewHandle(live, h) \in Handles(c)
    BY <1>1, <1>2, <2>1, NewHandlePositive DEF Handles
  <2>3. CASE h \in Held(heap.roots)
    <3>1. NewHandle(live, h) \in Held(c.roots)
      BY <2>3, CompactOK DEF New
    <3>2. QED BY <1>4, <2>1, <2>2, <3>1 DEF Closed
  <2>4. CASE h \in Extra(heap)
    <3>1. PICK i \in 1 .. Len(heap.kids) : h = heap.kids[i]
      BY <2>4 DEF Extra
    <3>2. c.kids[i] = NewHandle(live, h) /\ i \in 1 .. Len(c.kids)
      BY <3>1, CompactOK DEF New
    <3>3. NewHandle(live, h) \in Extra(c)
      BY <3>2 DEF Extra
    <3>4. QED BY <1>4, <2>1, <2>2, <3>3 DEF Closed
  <2>5. QED BY <1>6, <2>3, <2>4
<1>7. ASSUME NEW h \in T, NEW k \in KidsOf(heap, h), k \in Handles(heap) PROVE k \in T
  <2>1. h \in live /\ NewHandle(live, h) \in S
    OBVIOUS
  <2>2. k \in live
    BY <1>7, <2>1, LiveFacts DEF Closed
  <2>3. PICK i \in 1 .. Len(heap.nodes[h].kids) : k = heap.nodes[h].kids[i]
    BY <1>7 DEF KidsOf
  <2>4. PICK m : m = NewHandle(live, h)
    OBVIOUS
  <2>5. m \in 1 .. Cardinality(live) /\ OldHandle(live, m) = h
    <3>1. m \in 1 .. Cardinality(live)
      BY <1>1, <2>1, <2>4, NewHandlePositive
    <3>2. OldHandle(live, m) \in live /\ NewHandle(live, OldHandle(live, m)) = m
      BY <1>1, <3>1, OldHandleIs
    <3>3. QED BY <1>1, <2>1, <2>4, <3>1, <3>2, NewHandleDistinct
  <2>6. MovedFrom(c.nodes[m], heap.nodes[h], live)
    BY <1>1, <1>3, <2>5, CompactedOK DEF HeapOK
  <2>7. c.nodes[m].kids[i] = NewHandle(live, k) /\ i \in 1 .. Len(c.nodes[m].kids)
    BY <2>3, <2>6 DEF MovedFrom
  <2>8. NewHandle(live, k) \in KidsOf(c, m)
    BY <2>7 DEF KidsOf
  <2>9. NewHandle(live, k) \in Handles(c)
    BY <1>1, <1>2, <2>2, NewHandlePositive DEF Handles
  <2>10. m \in S
    BY <2>1, <2>4
  <2>11. NewHandle(live, k) \in S
    BY <1>4, <2>8, <2>9, <2>10 DEF Closed
  <2>12. QED BY <2>2, <2>11
<1>8. Closed(heap, T)
  <2> HIDE DEF T
  <2>1. QED BY <1>6, <1>7 DEF Closed
<1>9. live \subseteq T
  <2> HIDE DEF T
  <2>1. QED BY <1>5, <1>8, LiveFacts
<1>10. OldHandle(live, n) \in live /\ NewHandle(live, OldHandle(live, n)) = n
  BY <1>1, OldHandleIs
<1>11. QED BY <1>9, <1>10

-----------------------------------------------------------------------------
(* create_node_record.                                                      *)

InBounds(ns) ==
  /\ Len(ns) <= NodeCapacity
  /\ AttrsUsed(ns) <= AttrCapacity
  /\ ChildrenUsed(ns) <= ChildCapacity

ArgvNode(ns) == Len(ns) >= 1 /\ ns[1].obj = 1

\* What every heap on the way through create_node_record keeps: m objects exist,
\* each set of roots is as long as that of rs, and the node has nk children.
Good(heap, m, rs, nk) ==
  /\ IsHeap(heap) /\ HeapOK(heap)
  /\ InBounds(heap.nodes)
  /\ ArgvFirst(heap.roots) /\ ArgvNode(heap.nodes)
  /\ \A n \in 1 .. Len(heap.nodes) : heap.nodes[n].obj \in 1 .. m
  /\ \A r \in RootSets : Len(heap.roots[r]) = Len(rs[r])
  /\ Len(heap.kids) = nk

LEMMA BoundsShrink ==
  ASSUME NEW ns \in Seq(NodeRec), NEW live \in SUBSET (1 .. Len(ns)), InBounds(ns)
  PROVE  InBounds(CompactedNodes(ns, live))
<1> DEFINE ms == CompactedNodes(ns, live)
<1>1. ms \in Seq(NodeRec)
  BY CompactedOK
<1>2. Len(ms) <= Len(ns) /\ AttrsUsed(ms) <= AttrsUsed(ns) /\ ChildrenUsed(ms) <= ChildrenUsed(ns)
  BY CompactedFits
<1> HIDE DEF ms
<1>3. /\ Len(ms) \in Nat /\ AttrsUsed(ms) \in Nat /\ ChildrenUsed(ms) \in Nat
      /\ Len(ns) \in Nat /\ AttrsUsed(ns) \in Nat /\ ChildrenUsed(ns) \in Nat
  BY <1>1, UsedTypes, CountTypes
<1>4. NodeCapacity \in Nat /\ AttrCapacity \in Nat /\ ChildCapacity \in Nat
  BY CapacityAssumption
<1>5. InBounds(ms)
  BY <1>2, <1>3, <1>4 DEF InBounds
<1>6. QED BY <1>5 DEF ms

\* A collection keeps all of this, whether it succeeds or meets a handle that
\* names nothing.
LEMMA CompactGood ==
  ASSUME NEW heap, NEW m \in Nat, NEW rs, NEW nk, Good(heap, m, rs, nk), NEW c, c = Compact(heap)
  PROVE  /\ Good(c, m, rs, nk)
         /\ c.error = heap.error \/ c.error = "DANGLING"
         /\ c.error # "DANGLING" => Live(c) = 1 .. Len(c.nodes)
<1>0. IsHeap(heap) /\ HeapOK(heap)
  BY DEF Good
<1>1. CASE ~ Mappable(heap, Live(heap))
  <2>1. /\ IsHeap(c) /\ c.error = "DANGLING" /\ c.nodes = heap.nodes /\ c.roots = heap.roots
        /\ c.kids = heap.kids /\ c.sinceGc = heap.sinceGc
    BY <1>0, <1>1, CompactFails
  <2>2. QED BY <2>1 DEF Good, HeapOK
<1>2. CASE Mappable(heap, Live(heap))
  <2> DEFINE live == Live(heap)
             ms   == CompactedNodes(heap.nodes, live)
  <2>1. live \in SUBSET (1 .. Len(heap.nodes)) /\ Len(heap.nodes) \in Nat /\ heap.nodes \in Seq(NodeRec)
    BY <1>0, LiveFacts DEF Handles, HeapOK
  <2>2. c.nodes = ms /\ c.error = heap.error
    BY <1>0, <1>2, CompactIs
  <2>3. 1 \in live /\ NewHandle(live, 1) = 1
    <3>1. heap.roots.argv = 1 /\ "argv" \in Cached /\ RootsOK(heap.roots)
      BY <1>0 DEF Good, ArgvFirst, HeapOK, Cached
    <3>2. 1 \in Held(heap.roots)
      BY <3>1, HeldIs
    <3>3. 1 \in live
      BY <1>2, <3>2 DEF Mappable
    <3>4. QED BY <2>1, <3>3, NewHandleFirst
  <2>4. ArgvFirst(c.roots)
    <3>1. \A k \in Cached : c.roots[k] = IF heap.roots[k] = 0 THEN 0 ELSE NewHandle(live, heap.roots[k])
      BY <1>0, <1>2, CompactOK DEF New
    <3>2. c.roots.argv = 1
      BY <3>1, <2>3 DEF Good, ArgvFirst, Cached
    <3>3. ASSUME NEW k \in {"window", "event"} PROVE c.roots[k] # 1
      <4>1. k \in Cached /\ heap.roots[k] # 1
        BY DEF Good, ArgvFirst, Cached
      <4>2. SUFFICES ASSUME heap.roots[k] # 0 PROVE NewHandle(live, heap.roots[k]) # 1
        BY <3>1, <4>1
      <4>3. heap.roots[k] \in live
        <5>1. heap.roots[k] \in Held(heap.roots)
          BY <1>0, <4>1, <4>2, HeldIs DEF HeapOK
        <5>2. QED BY <1>2, <5>1 DEF Mappable
      <4>4. QED BY <2>1, <2>3, <4>1, <4>3, NewHandleDistinct
    <3>4. QED BY <3>2, <3>3 DEF ArgvFirst
  <2>5. /\ Len(ms) = Cardinality(live)
        /\ \A n \in 1 .. Len(ms) : OldHandle(live, n) \in live /\ ms[n].obj = heap.nodes[OldHandle(live, n)].obj
    BY <2>1, CompactedOK DEF MovedFrom
  <2>6. \A n \in 1 .. Len(ms) : ms[n].obj \in 1 .. m
    <3> HIDE DEF ms, live
    <3>1. QED BY <2>1, <2>5 DEF Good
  <2>7. ArgvNode(ms)
    <3>1. 1 \in 1 .. Cardinality(live)
      BY <2>1, <2>3, NewHandlePositive
    <3>2. OldHandle(live, 1) \in live /\ NewHandle(live, OldHandle(live, 1)) = 1
      BY <2>1, <3>1, OldHandleIs
    <3>3. OldHandle(live, 1) = 1
      BY <2>1, <2>3, <3>2, NewHandleDistinct
    <3> HIDE DEF ms, live
    <3>4. ms[1].obj = 1
      BY <2>5, <3>1, <3>3 DEF Good, ArgvNode
    <3>5. Cardinality(live) \in Nat
      BY <2>1, UpToHandle
    <3>6. QED BY <2>5, <3>1, <3>4, <3>5 DEF ArgvNode
  <2>8. InBounds(ms)
    BY <2>1, BoundsShrink DEF Good
  <2>9. /\ IsHeap(c) /\ HeapOK(c) /\ \A r \in RootSets : Len(c.roots[r]) = Len(heap.roots[r])
        /\ Len(c.kids) = Len(heap.kids)
    BY <1>0, <1>2, CompactOK
  <2>10. Live(c) = 1 .. Len(c.nodes)
    BY <1>0, <1>2, CompactLeavesLive
  <2> HIDE DEF ms, live
  <2>11. QED BY <2>2, <2>4, <2>6, <2>7, <2>8, <2>9, <2>10 DEF Good
<1>3. QED BY <1>1, <1>2

\* The heap before the node is appended: one that has room, or one that a
\* collection could not make room in.
Ready(heap, attrs) ==
  \/ heap.error = "NONE" /\ (Fits(heap, attrs) \/ Live(heap) = 1 .. Len(heap.nodes))
  \/ heap.error = "DANGLING"

LEMMA PreparedGood ==
  ASSUME NEW heap, NEW m \in Nat, NEW rs, NEW nk, Good(heap, m, rs, nk), heap.error = "NONE",
         NEW attrs, NEW h \in Prepared(heap, attrs)
  PROVE  Good(h, m, rs, nk) /\ Ready(h, attrs)
<1>1. PICK g : g = AfterProactiveGc(heap, attrs)
  OBVIOUS
<1>2. h = AfterForcedGc(g, attrs)
  BY <1>1 DEF Prepared
<1>3. Good(g, m, rs, nk) /\ g.error \in {"NONE", "DANGLING"}
  BY <1>1, CompactGood DEF AfterProactiveGc
<1>4. CASE g.error = "NONE" /\ ~ Fits(g, attrs)
  <2>1. h = Compact(g)
    BY <1>2, <1>4 DEF AfterForcedGc
  <2>2. QED BY <1>3, <1>4, <2>1, CompactGood DEF Ready
<1>5. CASE ~ (g.error = "NONE" /\ ~ Fits(g, attrs))
  <2>1. h = g
    BY <1>2, <1>5 DEF AfterForcedGc
  <2>2. QED BY <1>3, <1>5, <2>1 DEF Ready
<1>6. QED BY <1>4, <1>5

LEMMA NodeTyped ==
  ASSUME NEW obj \in Nat, NEW shape \in Nat, NEW attrs \in Nat, NEW kids \in Seq(Nat)
  PROVE  /\ Node(obj, shape, attrs, kids) \in NodeRec
         /\ Node(obj, shape, attrs, kids).obj = obj
         /\ Node(obj, shape, attrs, kids).attrs = attrs
         /\ Node(obj, shape, attrs, kids).kids = kids
BY DEF Node, NodeRec

\* What create_node_record leaves.
Created(heap, m, rs, nk) ==
  /\ heap.error = "NONE" => Good(heap, m + 1, rs, nk)
  /\ heap.error # "NONE" => Good(heap, m, rs, nk)
  /\ heap.error \in {"NONE", "DANGLING", "MEMORY_PRESSURE"}
  /\ heap.error = "MEMORY_PRESSURE" => Live(heap) = 1 .. Len(heap.nodes)

\* A node appended to a heap that has room for it.
LEMMA AppendGood ==
  ASSUME NEW heap, NEW m \in Nat, NEW rs, NEW nk, Good(heap, m, rs, nk),
         NEW node \in NodeRec, node.obj \in 1 .. (m + 1),
         Len(heap.nodes) + 1 <= NodeCapacity,
         AttrsUsed(heap.nodes) + node.attrs <= AttrCapacity,
         ChildrenUsed(heap.nodes) + Len(node.kids) <= ChildCapacity
  PROVE  LET ns == Append(heap.nodes, node)
         IN  /\ ns \in Seq(NodeRec) /\ InBounds(ns) /\ ArgvNode(ns)
             /\ Len(ns) = Len(heap.nodes) + 1
             /\ \A n \in 1 .. Len(ns) : ns[n].obj \in 1 .. (m + 1)
<1> DEFINE ns == Append(heap.nodes, node)
<1>1. heap.nodes \in Seq(NodeRec) /\ Len(heap.nodes) \in Nat
  BY DEF Good, HeapOK
<1>2. /\ ns \in Seq(NodeRec) /\ Len(ns) = Len(heap.nodes) + 1
      /\ AttrsUsed(ns) = AttrsUsed(heap.nodes) + node.attrs
      /\ ChildrenUsed(ns) = ChildrenUsed(heap.nodes) + Len(node.kids)
  BY <1>1, UsedByOneMore
<1>3. InBounds(ns)
  BY <1>2 DEF InBounds
<1>4. (\A n \in 1 .. Len(heap.nodes) : ns[n] = heap.nodes[n]) /\ ns[Len(heap.nodes) + 1] = node
  BY <1>1
<1>5. ArgvNode(ns)
  <2>1. 1 \in 1 .. Len(heap.nodes) /\ heap.nodes[1].obj = 1
    BY <1>1 DEF Good, ArgvNode
  <2> HIDE DEF ns
  <2>2. QED BY <1>1, <1>2, <1>4, <2>1 DEF ArgvNode
<1>6. ASSUME NEW n \in 1 .. Len(ns) PROVE ns[n].obj \in 1 .. (m + 1)
  <2>1. CASE n \in 1 .. Len(heap.nodes)
    <3>1. heap.nodes[n].obj \in 1 .. m
      BY <2>1 DEF Good
    <3>2. ns[n] = heap.nodes[n]
      BY <2>1, <1>4
    <3> HIDE DEF ns
    <3>3. QED BY <3>1, <3>2
  <2>2. CASE n = Len(heap.nodes) + 1
    BY <2>2, <1>4
  <2> HIDE DEF ns
  <2>3. QED BY <1>1, <1>2, <2>1, <2>2
<1> HIDE DEF ns
<1>7. QED BY <1>2, <1>3, <1>5, <1>6 DEF ns

LEMMA AppendedGood ==
  ASSUME NEW heap, NEW m \in Nat, NEW rs, NEW nk, NEW shape \in Nat, NEW attrs \in Nat,
         Good(heap, m, rs, nk), Ready(heap, attrs),
         NEW c, c = Appended(heap, shape, attrs, m + 1)
  PROVE  Created(c, m, rs, nk)
<1>0. IsHeap(heap) /\ HeapOK(heap)
  BY DEF Good
<1>1. CASE heap.error # "NONE"
  <2>1. c = heap /\ heap.error = "DANGLING"
    BY <1>1 DEF Appended, Ready
  <2>2. QED BY <1>1, <2>1 DEF Created
<1>2. CASE heap.error = "NONE" /\ ~ Fits(heap, attrs)
  <2>1. /\ IsHeap(c) /\ c.error = "MEMORY_PRESSURE" /\ c.nodes = heap.nodes /\ c.roots = heap.roots
        /\ c.kids = heap.kids /\ c.sinceGc = heap.sinceGc
    BY <1>0, <1>2 DEF Appended, IsHeap
  <2>2. Live(heap) = 1 .. Len(heap.nodes)
    BY <1>2 DEF Ready
  <2>3. Live(c) = Live(heap)
    BY <2>1, LiveSame
  <2>4. Good(c, m, rs, nk)
    BY <2>1 DEF Good, HeapOK
  <2>5. QED BY <2>1, <2>2, <2>3, <2>4 DEF Created
<1>3. CASE heap.error = "NONE" /\ Fits(heap, attrs)
  <2> DEFINE node == Node(m + 1, shape, attrs, heap.kids)
             ns   == Append(heap.nodes, node)
  <2>1. c = [heap EXCEPT !.nodes = ns, !.sinceGc = @ + 1]
    BY <1>3 DEF Appended
  <2>2. node \in NodeRec /\ node.obj = m + 1 /\ node.attrs = attrs /\ node.kids = heap.kids
    <3>1. m + 1 \in Nat /\ heap.kids \in Seq(Nat)
      BY <1>0 DEF HeapOK
    <3>2. QED BY <3>1, NodeTyped
  <2> HIDE DEF node
  <2>3. /\ Len(heap.nodes) + 1 <= NodeCapacity
        /\ AttrsUsed(heap.nodes) + node.attrs <= AttrCapacity
        /\ ChildrenUsed(heap.nodes) + Len(node.kids) <= ChildCapacity
    BY <1>3, <2>2 DEF Fits
  <2>4. node.obj \in 1 .. (m + 1)
    BY <2>2
  <2>5. /\ ns \in Seq(NodeRec) /\ InBounds(ns) /\ ArgvNode(ns)
        /\ \A n \in 1 .. Len(ns) : ns[n].obj \in 1 .. (m + 1)
    BY <2>2, <2>3, <2>4, AppendGood
  <2> HIDE DEF ns
  <2>6. /\ IsHeap(c) /\ c.nodes = ns /\ c.roots = heap.roots /\ c.kids = heap.kids
        /\ c.sinceGc = heap.sinceGc + 1 /\ c.error = "NONE"
    BY <1>0, <1>3, <2>1 DEF IsHeap
  <2>7. Good(c, m + 1, rs, nk)
    BY <2>5, <2>6 DEF Good, HeapOK
  <2>8. QED BY <2>6, <2>7 DEF Created
<1>4. QED BY <1>1, <1>2, <1>3

\* The state of the arena between two allocations, for roots rs.
GoodState(m, rs) ==
  /\ nodes \in Seq(NodeRec) /\ InBounds(nodes) /\ ArgvNode(nodes)
  /\ \A n \in 1 .. Len(nodes) : nodes[n].obj \in 1 .. m
  /\ RootsOK(rs) /\ ArgvFirst(rs) /\ sinceGc \in Nat

LEMMA CreateGood ==
  ASSUME NEW m \in Nat, NEW rs, GoodState(m, rs), NEW shape \in Nat, NEW attrs \in Nat,
         NEW kids \in Seq(Nat), NEW c \in CreateNodeRecord(rs, shape, attrs, kids, m + 1)
  PROVE  Created(c, m, rs, Len(kids))
<1> DEFINE heap == [nodes |-> nodes, roots |-> rs, kids |-> kids, sinceGc |-> sinceGc, error |-> "NONE"]
<1>1. PICK h \in Prepared(heap, attrs) : c = Appended(h, shape, attrs, m + 1)
  BY DEF CreateNodeRecord
<1>2. IsHeap(heap)
  BY LiteralHeap
<1>3. /\ heap.nodes = nodes /\ heap.roots = rs /\ heap.kids = kids
      /\ heap.sinceGc = sinceGc /\ heap.error = "NONE"
  OBVIOUS
<1> HIDE DEF heap
<1>4. Good(heap, m, rs, Len(kids))
  BY <1>2, <1>3 DEF Good, GoodState, HeapOK
<1>5. Good(h, m, rs, Len(kids)) /\ Ready(h, attrs)
  BY <1>3, <1>4, PreparedGood
<1>6. QED BY <1>1, <1>5, AppendedGood

-----------------------------------------------------------------------------
(* The inductive invariant.                                                 *)

Errors == {"NONE", "DANGLING", "MEMORY_PRESSURE", "STRING_PRESSURE", "VM_LIMIT", "SYSCALL"}

\* The C frame of an opcode that makes several nodes: what is left to take is
\* there to be taken.
MakingOK ==
  /\ DOMAIN making = {"op", "left", "kids", "template", "objs", "shape"}
  /\ making.op \in ManyOps \cup {"NONE"}
  /\ making.left \in Nat /\ making.template \in Nat /\ making.shape \in Nat
  /\ making.kids \in Seq(Nat) /\ making.objs \in Seq(Nat)
  /\ making.op = "NONE" => making.left = 0
  /\ making.op = "PAR_JOIN" => making.left + Len(making.kids) = Len(roots.branches)
  /\ making.op \in ManyOps \ {"PAR_JOIN"} => making.left <= Len(roots.stack)

StoreOK == store \in Seq(ObjectRec)
ArenaOK == GoodState(Len(store), roots)

\* The arena keeps its bounds and its first node, the frame of a maker fits the
\* roots, and a full arena is full of live nodes.
HeapInv ==
  /\ StoreOK
  /\ ArenaOK
  /\ MakingOK
  /\ error \in Errors
  /\ PressureMeansFull

LEMMA IdleOK ==
  /\ DOMAIN Idle = {"op", "left", "kids", "template", "objs", "shape"}
  /\ Idle.op = "NONE" /\ Idle.left = 0 /\ Idle.kids = <<>> /\ Idle.template = 0
  /\ Idle.objs = <<>> /\ Idle.shape = 0
BY DEF Idle

LEMMA IdleFrame ==
  ASSUME making' = Idle
  PROVE  MakingOK'
<1>1. <<>> \in Seq(Nat)
  OBVIOUS
<1>2. "NONE" \notin ManyOps /\ "NONE" # "PAR_JOIN"
  BY DEF ManyOps
<1>3. QED BY <1>1, <1>2, IdleOK DEF MakingOK

LEMMA IdleFrameWithKids ==
  ASSUME NEW kids \in Seq(Nat), making' = [Idle EXCEPT !.kids = kids]
  PROVE  MakingOK' /\ making'.kids = kids
<1>1. <<>> \in Seq(Nat)
  OBVIOUS
<1>2. "NONE" \notin ManyOps /\ "NONE" # "PAR_JOIN"
  BY DEF ManyOps
<1>3. /\ DOMAIN making' = {"op", "left", "kids", "template", "objs", "shape"}
      /\ making'.op = "NONE" /\ making'.left = 0 /\ making'.kids = kids /\ making'.template = 0
      /\ making'.objs = <<>> /\ making'.shape = 0
  BY IdleOK
<1>4. /\ making'.op \in ManyOps \cup {"NONE"} /\ making'.left \in Nat /\ making'.template \in Nat
      /\ making'.shape \in Nat /\ making'.kids \in Seq(Nat) /\ making'.objs \in Seq(Nat)
  <2>1. making'.op \in ManyOps \cup {"NONE"}
    BY <1>3
  <2>2. making'.left \in Nat /\ making'.template \in Nat /\ making'.shape \in Nat
    BY <1>3
  <2>3. making'.kids \in Seq(Nat)
    BY <1>3, Zenon
  <2>4. making'.objs \in Seq(Nat)
    BY <1>1, <1>3, Zenon
  <2>5. QED BY <2>1, <2>2, <2>3, <2>4
<1>5. making'.op # "PAR_JOIN" /\ making'.op \notin ManyOps \ {"PAR_JOIN"}
  BY <1>2, <1>3
<1>6. QED BY <1>3, <1>4, <1>5 DEF MakingOK

LEMMA StopKeeps ==
  ASSUME HeapInv, NEW e \in Errors, e # "MEMORY_PRESSURE", Stop(e)
  PROVE  HeapInv'
BY DEF HeapInv, Stop, StoreOK, ArenaOK, GoodState, MakingOK, PressureMeansFull, Errors

\* The heap create_node_record leaves becomes the state.
LEMMA ArenaFrom ==
  ASSUME NEW heap, NEW m \in Nat, NEW rs, NEW nk, Good(heap, m, rs, nk),
         nodes' = heap.nodes, sinceGc' = heap.sinceGc,
         RootsOK(roots'), ArgvFirst(roots'), Len(store') = m
  PROVE  ArenaOK'
BY DEF ArenaOK, GoodState, Good, HeapOK

LEMMA FullFrom ==
  ASSUME NEW heap, NEW m, NEW rs, NEW nk, Created(heap, m, rs, nk),
         nodes' = heap.nodes, roots' = heap.roots, error' = heap.error, making'.kids = heap.kids
  PROVE  PressureMeansFull'
<1> DEFINE h2 == [nodes |-> nodes', roots |-> roots', kids |-> making'.kids]
<1>1. h2.nodes = heap.nodes /\ h2.roots = heap.roots /\ h2.kids = heap.kids
  OBVIOUS
<1>2. Live(h2) = Live(heap)
  <2> HIDE DEF h2
  <2>1. QED BY <1>1, LiveSame
<1>3. QED BY <1>2 DEF Created, PressureMeansFull

LEMMA GrownStore ==
  ASSUME StoreOK, NEW object \in ObjectRec, store' = Append(store, object)
  PROVE  StoreOK' /\ Len(store') = Len(store) + 1
BY DEF StoreOK

\* Making one node and pushing it keeps the invariant.
LEMMA MakeAndPushKeeps ==
  ASSUME HeapInv, NEW rs, RootsOK(rs), ArgvFirst(rs), NEW shape \in Nat, NEW attrs \in Nat,
         NEW kids \in Seq(Nat), NEW object \in ObjectRec,
         MakeAndPush(rs, shape, attrs, kids, object)
  PROVE  HeapInv'
<1>1. CASE Stop("STRING_PRESSURE")
  BY <1>1, StopKeeps DEF Errors
<1>2. ASSUME NEW heap \in CreateNodeRecord(rs, shape, attrs, kids, Fresh),
             nodes' = heap.nodes /\ sinceGc' = heap.sinceGc /\ error' = heap.error,
             IF heap.error = "NONE"
             THEN /\ roots' = Pushed(heap.roots, Len(heap.nodes))
                  /\ making' = Idle
                  /\ store' = Append(store, object)
             ELSE /\ roots' = heap.roots
                  /\ making' = [Idle EXCEPT !.kids = heap.kids]
                  /\ UNCHANGED store
      PROVE  HeapInv'
  <2>1. PICK m \in Nat : m = Len(store)
    BY DEF HeapInv, StoreOK
  <2>2. GoodState(m, rs)
    BY <2>1 DEF HeapInv, ArenaOK, GoodState
  <2>3. Created(heap, m, rs, Len(kids))
    BY <1>2, <2>1, <2>2, CreateGood DEF Fresh
  <2>4. CASE heap.error = "NONE"
    <3>1. Good(heap, m + 1, rs, Len(kids)) /\ RootsOK(heap.roots) /\ ArgvFirst(heap.roots) /\ Len(heap.nodes) \in Nat
      BY <2>3, <2>4 DEF Created, Good, HeapOK
    <3>2. RootsOK(roots') /\ ArgvFirst(roots')
      BY <1>2, <2>4, <3>1, PushedOK, SameArgv
    <3>3. StoreOK' /\ Len(store') = m + 1 /\ m + 1 \in Nat
      BY <1>2, <2>1, <2>4, GrownStore DEF HeapInv
    <3>4. ArenaOK'
      BY <1>2, <3>1, <3>2, <3>3, ArenaFrom
    <3>5. MakingOK'
      BY <1>2, <2>4, IdleFrame
    <3>6. QED BY <1>2, <2>4, <3>3, <3>4, <3>5 DEF HeapInv, PressureMeansFull, Errors
  <2>5. CASE heap.error # "NONE"
    <3>1. Good(heap, m, rs, Len(kids)) /\ RootsOK(heap.roots) /\ ArgvFirst(heap.roots) /\ heap.kids \in Seq(Nat)
      BY <2>3, <2>5 DEF Created, Good, HeapOK
    <3>2. StoreOK' /\ Len(store') = m
      BY <1>2, <2>1, <2>5 DEF HeapInv, StoreOK
    <3>3. ArenaOK'
      BY <1>2, <2>5, <3>1, <3>2, ArenaFrom
    <3>4. MakingOK' /\ making'.kids = heap.kids
      BY <1>2, <2>5, <3>1, IdleFrameWithKids
    <3>5. PressureMeansFull'
      BY <1>2, <2>3, <2>5, <3>4, FullFrom
    <3>6. error' \in Errors
      BY <1>2, <2>3 DEF Created, Errors
    <3>7. QED BY <3>2, <3>3, <3>4, <3>5, <3>6 DEF HeapInv
  <2>6. QED BY <2>4, <2>5
<1>3. QED BY <1>1, <1>2 DEF MakeAndPush

-----------------------------------------------------------------------------
(* The actions.                                                             *)

LEMMA FreshTyped ==
  ASSUME HeapInv
  PROVE  Fresh \in Nat /\ Fresh \in 1 .. (Len(store) + 1) /\ Len(store) \in Nat
BY DEF HeapInv, StoreOK, Fresh

LEMMA ObjectTyped ==
  ASSUME NEW shape \in Nat, NEW kids \in Seq(Nat)
  PROVE  [shape |-> shape, kids |-> kids] \in ObjectRec
BY DEF ObjectRec

LEMMA NewObjectTyped ==
  ASSUME HeapInv
  PROVE  [shape |-> Fresh, kids |-> <<>>] \in ObjectRec
<1>1. <<>> \in Seq(Nat)
  OBVIOUS
<1>2. QED BY <1>1, FreshTyped, ObjectTyped

\* A step that changes only the roots, between two instructions.
LEMMA OnlyRootsKeeps ==
  ASSUME HeapInv, making = Idle, RootsOK(roots'), ArgvFirst(roots'), error = "NONE",
         UNCHANGED <<nodes, sinceGc, making, error, store>>
  PROVE  HeapInv'
<1>1. MakingOK'
  BY IdleFrame
<1>2. QED BY <1>1 DEF HeapInv, StoreOK, ArenaOK, GoodState, PressureMeansFull

LEMMA RootsFacts ==
  ASSUME HeapInv
  PROVE  /\ RootsOK(roots) /\ ArgvFirst(roots) /\ roots.stack \in Seq(Nat) /\ Len(roots.stack) \in Nat
         /\ roots.locals \in Seq(Nat) /\ roots.results \in Seq(Nat) /\ roots.branches \in Seq(Nat)
<1>1. RootsOK(roots) /\ ArgvFirst(roots)
  BY DEF HeapInv, ArenaOK, GoodState
<1>2. /\ roots.stack \in Seq(Nat) /\ roots.locals \in Seq(Nat)
      /\ roots.results \in Seq(Nat) /\ roots.branches \in Seq(Nat)
  BY <1>1 DEF RootsOK, RootSets
<1>3. QED BY <1>1, <1>2

LEMMA NodeFacts ==
  ASSUME HeapInv, NEW h \in 1 .. Len(nodes)
  PROVE  /\ nodes[h] \in NodeRec /\ nodes[h].shape \in Nat /\ nodes[h].attrs \in Nat
         /\ nodes[h].kids \in Seq(Nat) /\ nodes[h].obj \in Nat
         /\ nodes[h].obj \in 1 .. Len(store) /\ store[nodes[h].obj] \in ObjectRec
         /\ store[nodes[h].obj].shape \in Nat
<1>1. nodes[h] \in NodeRec
  BY DEF HeapInv, ArenaOK, GoodState
<1>2. nodes[h].obj \in 1 .. Len(store)
  BY DEF HeapInv, ArenaOK, GoodState
<1>3. store[nodes[h].obj] \in ObjectRec
  BY <1>2 DEF HeapInv, StoreOK
<1>4. store[nodes[h].obj].shape \in Nat
  BY <1>3 DEF ObjectRec
<1>5. nodes[h].shape \in Nat /\ nodes[h].attrs \in Nat /\ nodes[h].kids \in Seq(Nat) /\ nodes[h].obj \in Nat
  BY <1>1 DEF NodeRec
<1>6. QED BY <1>1, <1>2, <1>3, <1>4, <1>5

\* The stack with something taken off still holds the VM's own handles.
LEMMA Dropped ==
  ASSUME HeapInv, NEW n \in Nat, n <= Len(roots.stack)
  PROVE  RootsOK(Drop(roots, n)) /\ ArgvFirst(Drop(roots, n))
BY RootsFacts, DropOK, SameArgv

LEMMA DroppedAndPushed ==
  ASSUME HeapInv, NEW n \in Nat, n <= Len(roots.stack), NEW v \in Nat
  PROVE  RootsOK(Pushed(Drop(roots, n), v)) /\ ArgvFirst(Pushed(Drop(roots, n), v))
<1>1. RootsOK(Drop(roots, n)) /\ ArgvFirst(Drop(roots, n))
  BY Dropped
<1>2. PICK rs : rs = Drop(roots, n)
  OBVIOUS
<1>3. QED BY <1>1, <1>2, PushedOK, SameArgv

LEMMA LeafOpsAre ==
  ASSUME NEW op \in DOMAIN LeafOps
  PROVE  LeafOps[op].pops \in {1, 2, 4} /\ LeafOps[op].pops \in Nat /\ LeafOps[op].attrs \in Nat
BY DEF LeafOps

LEMMA LeafKeeps == HeapInv /\ Leaf => HeapInv'
<1> SUFFICES ASSUME HeapInv, Leaf PROVE HeapInv'
  OBVIOUS
<1>1. PICK op \in DOMAIN LeafOps :
        /\ Room(roots, LeafOps[op].pops)
        /\ MakeAndPush(Drop(roots, LeafOps[op].pops), Fresh, LeafOps[op].attrs, <<>>,
                       [shape |-> Fresh, kids |-> <<>>])
  BY DEF Leaf
<1>2. PICK n \in Nat : n = LeafOps[op].pops
  BY LeafOpsAre
<1>3. PICK attrs \in Nat : attrs = LeafOps[op].attrs
  BY LeafOpsAre
<1>4. n <= Len(roots.stack)
  BY <1>1, <1>2, RootsFacts DEF Room
<1>5. RootsOK(Drop(roots, n)) /\ ArgvFirst(Drop(roots, n))
  BY <1>4, Dropped
<1>6. Fresh \in Nat /\ [shape |-> Fresh, kids |-> <<>>] \in ObjectRec /\ <<>> \in Seq(Nat)
  BY FreshTyped, NewObjectTyped
<1>7. MakeAndPush(Drop(roots, n), Fresh, attrs, <<>>, [shape |-> Fresh, kids |-> <<>>])
  BY <1>1, <1>2, <1>3
<1>8. QED BY <1>5, <1>6, <1>7, MakeAndPushKeeps

LEMMA AppendChildKeeps == HeapInv /\ AppendChild => HeapInv'
<1> SUFFICES ASSUME HeapInv, AppendChild PROVE HeapInv'
  OBVIOUS
<1>1. PICK base : base = Peek(roots, 1)
  OBVIOUS
<1>2. PICK child : child = Peek(roots, 0)
  OBVIOUS
<1>3. Room(roots, 2) /\ 2 <= Len(roots.stack)
  BY RootsFacts DEF AppendChild, Room
<1>4. base \in Nat /\ child \in Nat
  BY <1>1, <1>2, <1>3, RootsFacts, PeekOK
<1>5. CASE Stop("DANGLING") \/ Stop("VM_LIMIT")
  BY <1>5, StopKeeps DEF Errors
<1>6. ASSUME InArena(base), InArena(child),
             MakeAndPush(Drop(roots, 2), nodes[base].shape, nodes[base].attrs,
                         Append(nodes[base].kids, child),
                         [store[nodes[base].obj] EXCEPT !.kids = Append(@, nodes[child].obj)])
      PROVE  HeapInv'
  <2>1. base \in 1 .. Len(nodes) /\ child \in 1 .. Len(nodes)
    BY <1>6 DEF InArena
  <2>2. /\ nodes[base].shape \in Nat /\ nodes[base].attrs \in Nat /\ nodes[base].kids \in Seq(Nat)
        /\ store[nodes[base].obj] \in ObjectRec /\ nodes[child].obj \in Nat
    BY <2>1, NodeFacts
  <2>3. Append(nodes[base].kids, child) \in Seq(Nat)
    BY <1>4, <2>2
  <2>4. [store[nodes[base].obj] EXCEPT !.kids = Append(@, nodes[child].obj)] \in ObjectRec
    <3>1. PICK object \in ObjectRec : object = store[nodes[base].obj]
      BY <2>2
    <3>2. PICK k \in Nat : k = nodes[child].obj
      BY <2>2
    <3>3. object.kids \in Seq(Nat)
      BY DEF ObjectRec
    <3>4. Append(object.kids, k) \in Seq(Nat)
      BY <3>3
    <3>5. [object EXCEPT !.kids = Append(object.kids, k)] \in ObjectRec
      BY <3>4 DEF ObjectRec
    <3>6. QED BY <3>1, <3>2, <3>5
  <2>5. RootsOK(Drop(roots, 2)) /\ ArgvFirst(Drop(roots, 2))
    BY <1>3, Dropped
  <2>6. QED BY <1>6, <2>2, <2>3, <2>4, <2>5, MakeAndPushKeeps
<1>7. QED BY <1>1, <1>2, <1>5, <1>6 DEF AppendChild

LEMMA InspectKeeps == HeapInv /\ Inspect => HeapInv'
<1> SUFFICES ASSUME HeapInv, Inspect PROVE HeapInv'
  OBVIOUS
<1>1. CASE Stop("DANGLING")
  BY <1>1, StopKeeps DEF Errors
<1>2. CASE roots' = Pushed(Drop(roots, 1), 0) /\ UNCHANGED <<nodes, sinceGc, making, error, store>>
  <2>1. 1 <= Len(roots.stack) /\ making = Idle /\ error = "NONE"
    BY RootsFacts DEF Inspect, Uses, Running
  <2>2. RootsOK(roots') /\ ArgvFirst(roots')
    BY <1>2, <2>1, DroppedAndPushed
  <2>3. QED BY <1>2, <2>1, <2>2, OnlyRootsKeeps
<1>3. QED BY <1>1, <1>2 DEF Inspect

LEMMA ChildAtKeeps == HeapInv /\ ChildAt => HeapInv'
<1> SUFFICES ASSUME HeapInv, ChildAt PROVE HeapInv'
  OBVIOUS
<1>0. 2 <= Len(roots.stack) /\ making = Idle /\ error = "NONE"
  BY RootsFacts DEF ChildAt, Uses, Running, Room
<1>1. CASE Stop("DANGLING")
  BY <1>1, StopKeeps DEF Errors
<1>2. ASSUME InArena(Peek(roots, 1)), NEW i \in 1 .. Len(nodes[Peek(roots, 1)].kids),
             roots' = Pushed(Drop(roots, 2), nodes[Peek(roots, 1)].kids[i]),
             UNCHANGED <<nodes, sinceGc, making, error, store>>
      PROVE  HeapInv'
  <2>1. PICK h \in 1 .. Len(nodes) : h = Peek(roots, 1)
    BY <1>2 DEF InArena
  <2>2. nodes[h].kids \in Seq(Nat)
    BY NodeFacts
  <2>3. nodes[h].kids[i] \in Nat
    BY <2>1, <2>2
  <2>4. RootsOK(roots') /\ ArgvFirst(roots')
    BY <1>0, <1>2, <2>1, <2>3, DroppedAndPushed
  <2>5. QED BY <1>0, <1>2, <2>4, OnlyRootsKeeps
<1>3. QED BY <1>1, <1>2 DEF ChildAt

LEMMA ProcessArgsKeeps == HeapInv /\ ProcessArgs => HeapInv'
<1> SUFFICES ASSUME HeapInv, ProcessArgs PROVE HeapInv'
  OBVIOUS
<1>1. making = Idle /\ error = "NONE" /\ roots' = Pushed(roots, 1)
  BY DEF ProcessArgs, Uses, Running
<1>2. RootsOK(roots') /\ ArgvFirst(roots')
  BY <1>1, RootsFacts, PushedOK, SameArgv
<1>3. QED BY <1>1, <1>2, OnlyRootsKeeps DEF ProcessArgs

\* An opcode that only moves values keeps the roots well formed and does not
\* touch the handles the VM caches.
LEMMA MovedOK ==
  ASSUME NEW rs, RootsOK(rs), NEW next, Moved(rs, next)
  PROVE  RootsOK(next) /\ SameCached(rs, next)
<1>0. /\ rs.stack \in Seq(Nat) /\ Len(rs.stack) \in Nat /\ rs.locals \in Seq(Nat)
      /\ rs.results \in Seq(Nat) /\ rs.branches \in Seq(Nat)
      /\ {"stack", "locals", "results", "branches"} \subseteq RootSets
  BY DEF RootsOK, RootSets
<1> DEFINE below == Drop(rs, 1)
<1>1. ASSUME Len(rs.stack) >= 1
      PROVE  /\ RootsOK(below) /\ SameCached(rs, below) /\ Peek(rs, 0) \in Nat
             /\ \A r \in RootSets \ {"stack"} : below[r] = rs[r]
  <2>1. 1 <= Len(rs.stack) /\ 0 < Len(rs.stack)
    BY <1>0, <1>1
  <2>2. QED BY <2>1, DropOK, PeekOK
<1>2. ASSUME Len(rs.stack) >= 1, NEW r \in RootSets, NEW q \in Seq(Nat)
      PROVE  RootsOK([below EXCEPT ![r] = q]) /\ SameCached(rs, [below EXCEPT ![r] = q])
  <2>1. RootsOK(below) /\ SameCached(rs, below)
    BY <1>1, <1>2
  <2> HIDE DEF below
  <2>2. QED BY <2>1, WithRootsOK DEF SameCached
<1> HIDE DEF below
<1>3. CASE next = Pushed(rs, 0)
  BY <1>3, PushedOK
<1>4. CASE Len(rs.stack) >= 1 /\ next = Drop(rs, 1)
  BY <1>1, <1>4 DEF below
<1>5. ASSUME Len(rs.stack) >= 1, NEW i \in 1 .. Len(rs.locals), next = [Drop(rs, 1) EXCEPT !.locals[i] = Peek(rs, 0)]
      PROVE  RootsOK(next) /\ SameCached(rs, next)
  <2>1. below.locals = rs.locals /\ Peek(rs, 0) \in Nat
    BY <1>1, <1>5 DEF RootSets
  <2>2. PICK v \in Nat : v = Peek(rs, 0)
    BY <2>1
  <2>3. [rs.locals EXCEPT ![i] = v] \in Seq(Nat)
    BY <1>0, <1>5, ExceptSeq
  <2>4. next = [below EXCEPT !["locals"] = [rs.locals EXCEPT ![i] = v]]
    BY <1>5, <2>1, <2>2 DEF below
  <2>5. PICK q \in Seq(Nat) : q = [rs.locals EXCEPT ![i] = v]
    BY <2>3
  <2>6. next = [below EXCEPT !["locals"] = q]
    BY <2>4, <2>5
  <2>7. Len(rs.stack) >= 1
    BY <1>5
  <2>8. QED BY <1>0, <1>2, <2>6, <2>7
<1>6. ASSUME Len(rs.stack) >= 1, next = [Drop(rs, 1) EXCEPT !.locals = Append(@, Peek(rs, 0))]
      PROVE  RootsOK(next) /\ SameCached(rs, next)
  <2>1. below.locals = rs.locals /\ Peek(rs, 0) \in Nat
    BY <1>1, <1>6 DEF RootSets
  <2>2. Append(rs.locals, Peek(rs, 0)) \in Seq(Nat)
    BY <1>0, <2>1
  <2>3. next = [below EXCEPT !["locals"] = Append(rs.locals, Peek(rs, 0))]
    BY <1>6, <2>1 DEF below
  <2>4. QED BY <1>0, <1>2, <1>6, <2>2, <2>3
<1>7. ASSUME NEW i \in 1 .. Len(rs.locals), next = Pushed(rs, rs.locals[i])
      PROVE  RootsOK(next) /\ SameCached(rs, next)
  <2>1. rs.locals[i] \in Nat
    BY <1>0, <1>7
  <2>2. QED BY <1>7, <2>1, PushedOK
<1>8. CASE next = [rs EXCEPT !.locals = <<>>]
  <2>1. <<>> \in Seq(Nat)
    OBVIOUS
  <2>2. next = [rs EXCEPT !["locals"] = <<>>]
    BY <1>8
  <2>3. QED BY <1>0, <2>1, <2>2, WithRootsOK
<1>9. ASSUME Len(rs.stack) >= 1,
             next = [Drop(rs, 1) EXCEPT
                       !.results = Append(IF Len(@) < ResultBound THEN @ ELSE Tail(@), Peek(rs, 0))]
      PROVE  RootsOK(next) /\ SameCached(rs, next)
  <2>1. below.results = rs.results /\ Peek(rs, 0) \in Nat
    BY <1>1, <1>9 DEF RootSets
  <2> DEFINE kept == IF Len(rs.results) < ResultBound THEN rs.results ELSE Tail(rs.results)
  <2>2. next = [below EXCEPT !["results"] = Append(kept, Peek(rs, 0))]
    BY <1>9, <2>1 DEF below
  <2>3. QED
    <3>1. CASE rs.results # <<>> \/ Len(rs.results) < ResultBound
      <4>1. kept \in Seq(Nat)
        BY <1>0, <3>1
      <4> HIDE DEF kept
      <4>2. Append(kept, Peek(rs, 0)) \in Seq(Nat)
        BY <2>1, <4>1
      <4>3. QED BY <1>0, <1>2, <1>9, <2>2, <4>2
    <3>2. rs.results = <<>> => Len(rs.results) < ResultBound
      BY CapacityAssumption
    <3>3. QED BY <3>1, <3>2
<1>10. ASSUME NEW i \in 1 .. Len(rs.results), next = Pushed(rs, rs.results[i])
       PROVE  RootsOK(next) /\ SameCached(rs, next)
  <2>1. rs.results[i] \in Nat
    BY <1>0, <1>10
  <2>2. QED BY <1>10, <2>1, PushedOK
<1>11. ASSUME Len(rs.stack) >= 1, next = [Drop(rs, 1) EXCEPT !.branches = Append(@, Peek(rs, 0))]
       PROVE  RootsOK(next) /\ SameCached(rs, next)
  <2>1. below.branches = rs.branches /\ Peek(rs, 0) \in Nat
    BY <1>1, <1>11 DEF RootSets
  <2>2. Append(rs.branches, Peek(rs, 0)) \in Seq(Nat)
    BY <1>0, <2>1
  <2>3. next = [below EXCEPT !["branches"] = Append(rs.branches, Peek(rs, 0))]
    BY <1>11, <2>1 DEF below
  <2>4. QED BY <1>0, <1>2, <1>11, <2>2, <2>3
<1>12. QED
  BY <1>3, <1>4, <1>5, <1>6, <1>7, <1>8, <1>9, <1>10, <1>11 DEF Moved

LEMMA MoveKeeps == HeapInv /\ Move => HeapInv'
<1> SUFFICES ASSUME HeapInv, Move PROVE HeapInv'
  OBVIOUS
<1>1. making = Idle /\ error = "NONE" /\ Moved(roots, roots')
  BY DEF Move, Running
<1>2. RootsOK(roots') /\ ArgvFirst(roots')
  BY <1>1, RootsFacts, MovedOK, SameArgv
<1>3. QED BY <1>1, <1>2, OnlyRootsKeeps DEF Move

LEMMA ArenaFacts ==
  ASSUME HeapInv
  PROVE  /\ nodes \in Seq(NodeRec) /\ Len(nodes) \in Nat /\ AttrsUsed(nodes) \in Nat /\ ChildrenUsed(nodes) \in Nat
         /\ InBounds(nodes) /\ ArgvNode(nodes) /\ sinceGc \in Nat
         /\ \A n \in 1 .. Len(nodes) : nodes[n].obj \in 1 .. Len(store)
<1>1. /\ nodes \in Seq(NodeRec) /\ InBounds(nodes) /\ ArgvNode(nodes) /\ sinceGc \in Nat
      /\ \A n \in 1 .. Len(nodes) : nodes[n].obj \in 1 .. Len(store)
  BY DEF HeapInv, ArenaOK, GoodState
<1>2. QED BY <1>1, UsedTypes

LEMMA HostAttrsTyped == HostAttrs \in Nat /\ NodeCapacity \in Nat /\ AttrCapacity \in Nat /\ ChildCapacity \in Nat
BY CapacityAssumption

\* A node appended by the host.
LEMMA AppendHostNodeKeeps ==
  ASSUME HeapInv, making = Idle, error = "NONE", HasHostRoom,
         NEW rs, RootsOK(rs), ArgvFirst(rs), AppendHostNode(rs)
  PROVE  HeapInv'
<1> DEFINE node == Node(Fresh, Fresh, HostAttrs, <<>>)
           heap == [nodes |-> nodes, roots |-> roots, kids |-> <<>>, sinceGc |-> sinceGc, error |-> "NONE"]
           m    == Len(store)
<1>1. <<>> \in Seq(Nat) /\ Len(<<>>) = 0
  OBVIOUS
<1>2. node \in NodeRec /\ node.obj = Fresh /\ node.attrs = HostAttrs /\ node.kids = <<>>
  <2>1. PICK f \in Nat : f = Fresh
    BY FreshTyped
  <2>2. PICK a \in Nat : a = HostAttrs
    BY HostAttrsTyped
  <2>3. PICK ks \in Seq(Nat) : ks = <<>>
    BY <1>1
  <2>4. /\ Node(f, f, a, ks) \in NodeRec /\ Node(f, f, a, ks).obj = f
        /\ Node(f, f, a, ks).attrs = a /\ Node(f, f, a, ks).kids = ks
    BY NodeTyped
  <2>5. QED BY <2>1, <2>2, <2>3, <2>4
<1>3. IsHeap(heap)
  BY LiteralHeap
<1>4. heap.nodes = nodes /\ heap.roots = roots /\ heap.kids = <<>> /\ heap.sinceGc = sinceGc
  OBVIOUS
<1> HIDE DEF heap, node
<1>5. Good(heap, m, roots, 0)
  BY <1>1, <1>3, <1>4, ArenaFacts, RootsFacts DEF Good, HeapOK
<1>6. /\ Len(heap.nodes) + 1 <= NodeCapacity
      /\ AttrsUsed(heap.nodes) + node.attrs <= AttrCapacity
      /\ ChildrenUsed(heap.nodes) + Len(node.kids) <= ChildCapacity
  BY <1>1, <1>2, <1>4, ArenaFacts, HostAttrsTyped DEF HasHostRoom, InBounds
<1>7. m \in Nat /\ node.obj \in 1 .. (m + 1)
  BY <1>2, FreshTyped
<1> HIDE DEF m
<1>8. LET ns == Append(heap.nodes, node)
      IN  /\ ns \in Seq(NodeRec) /\ InBounds(ns) /\ ArgvNode(ns)
          /\ Len(ns) = Len(heap.nodes) + 1
          /\ \A n \in 1 .. Len(ns) : ns[n].obj \in 1 .. (m + 1)
  BY <1>2, <1>5, <1>6, <1>7, AppendGood
<1>9. nodes' = Append(heap.nodes, node)
  BY <1>4 DEF AppendHostNode, node
<1>10. /\ nodes' \in Seq(NodeRec) /\ InBounds(nodes') /\ ArgvNode(nodes')
       /\ \A n \in 1 .. Len(nodes') : nodes'[n].obj \in 1 .. (m + 1)
  BY <1>8, <1>9
<1>11. StoreOK' /\ Len(store') = m + 1
  BY NewObjectTyped, GrownStore DEF AppendHostNode, HeapInv, m
<1>12. RootsOK(roots') /\ ArgvFirst(roots')
  <2>1. Len(nodes) + 1 \in Nat
    BY ArenaFacts
  <2>2. QED BY <2>1, PushedOK, SameArgv DEF AppendHostNode
<1>13. sinceGc' \in Nat /\ making' = Idle /\ error' = "NONE"
  BY ArenaFacts DEF AppendHostNode
<1>14. ArenaOK'
  BY <1>10, <1>11, <1>12, <1>13 DEF ArenaOK, GoodState, InBounds, ArgvNode
<1>15. MakingOK'
  BY <1>13, IdleFrame
<1>16. QED BY <1>11, <1>13, <1>14, <1>15 DEF HeapInv, PressureMeansFull, Errors

LEMMA HostNodeKeeps == HeapInv /\ HostNode => HeapInv'
<1> SUFFICES ASSUME HeapInv, HostNode PROVE HeapInv'
  OBVIOUS
<1>1. making = Idle /\ error = "NONE"
  BY DEF HostNode, Uses, Running
<1>2. CASE Stop("SYSCALL")
  BY <1>2, StopKeeps DEF Errors
<1>3. CASE HasHostRoom /\ AppendHostNode(roots)
  BY <1>1, <1>3, RootsFacts, AppendHostNodeKeeps
<1>4. QED BY <1>2, <1>3 DEF HostNode

\* Overwriting the event or window node changes what it is, never its size, and
\* never the node of the arguments.
LEMMA OverwriteOK ==
  ASSUME HeapInv, NEW h \in 1 .. Len(nodes), h # 1, NEW obj \in Nat, NEW shape \in Nat,
         obj \in 1 .. (Len(store) + 1),
         NEW ns, ns = [nodes EXCEPT ![h].obj = obj, ![h].shape = shape]
  PROVE  /\ ns \in Seq(NodeRec) /\ InBounds(ns) /\ ArgvNode(ns)
         /\ \A n \in 1 .. Len(ns) : ns[n].obj \in 1 .. (Len(store) + 1)
<1> DEFINE old  == nodes[h]
           new  == [old EXCEPT !.obj = obj]
           node == [new EXCEPT !.shape = shape]
           one  == [nodes EXCEPT ![h] = new]
<1>1. old \in NodeRec /\ nodes \in Seq(NodeRec) /\ Len(nodes) \in Nat
  BY NodeFacts, ArenaFacts
<1>2. new \in NodeRec /\ new.obj = obj /\ new.attrs = old.attrs /\ new.kids = old.kids
  <2> HIDE DEF old
  <2>1. QED BY <1>1 DEF NodeRec
<1>3. node \in NodeRec /\ node.obj = obj /\ node.attrs = old.attrs /\ node.kids = old.kids
  <2> HIDE DEF new
  <2>1. QED BY <1>2 DEF NodeRec
<1>4. one \in Seq(NodeRec) /\ Len(one) = Len(nodes) /\ one[h] = new
  BY <1>1, <1>2, ExceptSeq
<1>5. ns = [one EXCEPT ![h] = node]
  BY <1>1, <1>4
<1>6. /\ ns \in Seq(NodeRec) /\ Len(ns) = Len(nodes) /\ ns[h] = node
      /\ \A n \in 1 .. Len(nodes) : n # h => ns[n] = nodes[n]
  BY <1>1, <1>3, <1>4, <1>5, ExceptSeq
<1> HIDE DEF old, new, node, one
<1>7. \A n \in 1 .. Len(ns) : ns[n].attrs = nodes[n].attrs /\ Len(ns[n].kids) = Len(nodes[n].kids)
  BY <1>3, <1>6 DEF old
<1>8. AttrsUsed(ns) <= AttrsUsed(nodes) /\ ChildrenUsed(ns) <= ChildrenUsed(nodes)
  <2> DEFINE id == [n \in 1 .. Len(nodes) |-> n]
  <2>1. /\ \A n \in 1 .. Len(ns) : id[n] \in 1 .. Len(nodes)
        /\ \A j, k \in 1 .. Len(ns) : j < k => id[j] < id[k]
        /\ \A n \in 1 .. Len(ns) : ns[n].attrs = nodes[id[n]].attrs /\ Len(ns[n].kids) = Len(nodes[id[n]].kids)
    BY <1>6, <1>7
  <2> HIDE DEF id
  <2>2. Picks(ns, nodes, id)
    BY <2>1 DEF Picks
  <2>3. QED BY <1>1, <1>6, <2>2, UsedByChosen
<1>9. InBounds(ns)
  <2>1. AttrsUsed(ns) \in Nat /\ ChildrenUsed(ns) \in Nat
    BY <1>6, UsedTypes
  <2>2. QED BY <1>6, <1>8, <2>1, ArenaFacts, HostAttrsTyped DEF InBounds
<1>10. ArgvNode(ns)
  BY <1>1, <1>6, ArenaFacts DEF ArgvNode
<1>11. ASSUME NEW n \in 1 .. Len(ns) PROVE ns[n].obj \in 1 .. (Len(store) + 1)
  <2>1. CASE n = h
    BY <1>3, <1>6, <2>1
  <2>2. CASE n # h
    <3>1. ns[n] = nodes[n] /\ nodes[n].obj \in 1 .. Len(store) /\ Len(store) \in Nat
      BY <1>6, <2>2, ArenaFacts, FreshTyped
    <3>2. QED BY <3>1
  <2>3. QED BY <2>1, <2>2
<1>12. QED BY <1>6, <1>9, <1>10, <1>11

LEMMA UiNodeKeeps == HeapInv /\ (\E c \in {"window", "event"} : UiNode(c)) => HeapInv'
<1> SUFFICES ASSUME HeapInv, NEW c \in {"window", "event"}, UiNode(c) PROVE HeapInv'
  OBVIOUS
<1>1. making = Idle /\ error = "NONE" /\ c \in Cached /\ c # "argv"
  BY DEF UiNode, Uses, Running, Cached
<1>2. roots[c] \in Nat /\ roots[c] # 1
  BY <1>1, RootsFacts DEF RootsOK, ArgvFirst
<1>3. CASE Stop("SYSCALL")
  BY <1>3, StopKeeps DEF Errors
<1>4. CASE HasHostRoom /\ AppendHostNode([roots EXCEPT ![c] = Len(nodes) + 1])
  <2>1. Len(nodes) + 1 \in Nat /\ Len(nodes) + 1 # 1
    BY ArenaFacts DEF ArgvNode
  <2>2. PICK v \in Nat : v = Len(nodes) + 1
    BY <2>1
  <2>3. PICK rs : rs = [roots EXCEPT ![c] = v]
    OBVIOUS
  <2>4. RootsOK(rs) /\ \A d \in Cached : rs[d] = IF d = c THEN v ELSE roots[d]
    <3>1. PICK r0 : r0 = roots
      OBVIOUS
    <3>2. RootsOK(r0)
      BY <3>1, RootsFacts
    <3>3. /\ RootsOK([r0 EXCEPT ![c] = v])
          /\ \A d \in Cached : [r0 EXCEPT ![c] = v][d] = IF d = c THEN v ELSE r0[d]
      BY <1>1, <3>2, WithCachedOK
    <3>4. QED BY <2>3, <3>1, <3>3
  <2>5. ArgvFirst(rs)
    BY <1>1, <2>1, <2>2, <2>4, RootsFacts DEF ArgvFirst, Cached
  <2>6. AppendHostNode(rs)
    BY <1>4, <2>2, <2>3
  <2>7. QED BY <1>1, <1>4, <2>4, <2>5, <2>6, AppendHostNodeKeeps
<1>5. CASE /\ InArena(roots[c])
           /\ nodes' = [nodes EXCEPT ![roots[c]].obj = Fresh, ![roots[c]].shape = Fresh]
           /\ roots' = Pushed(roots, roots[c])
           /\ store' = Append(store, [shape |-> Fresh, kids |-> <<>>])
           /\ UNCHANGED <<sinceGc, making, error>>
  <2>1. PICK h \in 1 .. Len(nodes) : h = roots[c]
    BY <1>5 DEF InArena
  <2>2. h # 1
    BY <1>2, <2>1
  <2>3. nodes' = [nodes EXCEPT ![h].obj = Fresh, ![h].shape = Fresh]
    BY <1>5, <2>1
  <2>4. /\ nodes' \in Seq(NodeRec) /\ InBounds(nodes') /\ ArgvNode(nodes')
        /\ \A n \in 1 .. Len(nodes') : nodes'[n].obj \in 1 .. (Len(store) + 1)
    BY <2>2, <2>3, FreshTyped, OverwriteOK
  <2>5. StoreOK' /\ Len(store') = Len(store) + 1
    BY <1>5, NewObjectTyped, GrownStore DEF HeapInv
  <2>6. RootsOK(roots') /\ ArgvFirst(roots')
    BY <1>2, <1>5, RootsFacts, PushedOK, SameArgv
  <2>7. sinceGc' \in Nat /\ making' = Idle /\ error' = "NONE"
    BY <1>1, <1>5, ArenaFacts
  <2>8. ArenaOK'
    BY <2>4, <2>5, <2>6, <2>7 DEF ArenaOK, GoodState, InBounds, ArgvNode
  <2>9. MakingOK'
    BY <2>7, IdleFrame
  <2>10. QED BY <2>5, <2>7, <2>8, <2>9 DEF HeapInv, PressureMeansFull, Errors
<1>6. QED BY <1>3, <1>4, <1>5 DEF UiNode

\* What the opcodes that take several children start with.
LEMMA BeginCases ==
  ASSUME NEW rs, NEW n
  PROVE  /\ Begun("MAKE_MAP", rs) = Drop(rs, 1)
         /\ Begun("MAKE_NODE", rs) = Drop(rs, 2)
         /\ Begun("MAKE_FIELD_STRING", rs) = Pushed(Drop(rs, 2), Peek(rs, 0))
         /\ Begun("PAR_JOIN", rs) = rs
         /\ CanBegin("MAKE_MAP", rs, n) => Len(rs.stack) >= 1 + n
         /\ CanBegin("MAKE_NODE", rs, n) => Len(rs.stack) >= 2 + n /\ Peek(rs, 1) # 0
         /\ CanBegin("MAKE_FIELD_STRING", rs, n) => Len(rs.stack) >= 2 /\ n = 1
         /\ CanBegin("PAR_JOIN", rs, n) => n = Len(rs.branches)
<1>1. /\ Begun("MAKE_MAP", rs) = Drop(rs, 1)
      /\ Begun("MAKE_NODE", rs) = Drop(rs, 2)
      /\ Begun("MAKE_FIELD_STRING", rs) = Pushed(Drop(rs, 2), Peek(rs, 0))
      /\ Begun("PAR_JOIN", rs) = rs
  BY DEF Begun
<1>2. /\ CanBegin("MAKE_MAP", rs, n) => Len(rs.stack) >= 1 + n
      /\ CanBegin("MAKE_NODE", rs, n) => Len(rs.stack) >= 2 + n /\ Peek(rs, 1) # 0
      /\ CanBegin("MAKE_FIELD_STRING", rs, n) => Len(rs.stack) >= 2 /\ n = 1
      /\ CanBegin("PAR_JOIN", rs, n) => n = Len(rs.branches)
  BY DEF CanBegin
<1>3. QED BY <1>1, <1>2

LEMMA BegunOK ==
  ASSUME NEW rs, RootsOK(rs), NEW op \in ManyOps, NEW n \in Nat, CanBegin(op, rs, n)
  PROVE  /\ RootsOK(Begun(op, rs)) /\ SameCached(rs, Begun(op, rs))
         /\ op = "PAR_JOIN" => n = Len(Begun(op, rs).branches)
         /\ op # "PAR_JOIN" => n <= Len(Begun(op, rs).stack)
         /\ op = "MAKE_NODE" => Len(rs.stack) >= 2
<1>0. rs.stack \in Seq(Nat) /\ Len(rs.stack) \in Nat
  BY DEF RootsOK, RootSets
<1>1. CASE op = "MAKE_MAP"
  <2>1. Begun(op, rs) = Drop(rs, 1) /\ 1 <= Len(rs.stack) /\ n <= Len(rs.stack) - 1
    BY <1>0, <1>1, BeginCases
  <2>2. QED BY <1>1, <2>1, DropOK
<1>2. CASE op = "MAKE_NODE"
  <2>1. Begun(op, rs) = Drop(rs, 2) /\ 2 <= Len(rs.stack) /\ n <= Len(rs.stack) - 2 /\ Len(rs.stack) >= 2
    BY <1>0, <1>2, BeginCases
  <2>2. QED BY <1>2, <2>1, DropOK
<1>3. CASE op = "MAKE_FIELD_STRING"
  <2>1. Begun(op, rs) = Pushed(Drop(rs, 2), Peek(rs, 0)) /\ 2 <= Len(rs.stack) /\ n = 1 /\ 0 < Len(rs.stack)
    BY <1>0, <1>3, BeginCases
  <2>2. PICK v \in Nat : v = Peek(rs, 0)
    BY <2>1, PeekOK
  <2>3. PICK rs1 : rs1 = Drop(rs, 2)
    OBVIOUS
  <2>4. RootsOK(rs1) /\ SameCached(rs, rs1) /\ Len(rs1.stack) = Len(rs.stack) - 2
    BY <2>1, <2>3, DropOK
  <2>5. RootsOK(Pushed(rs1, v)) /\ SameCached(rs1, Pushed(rs1, v)) /\ Pushed(rs1, v).stack = Append(rs1.stack, v)
    BY <2>4, PushedOK
  <2>6. rs1.stack \in Seq(Nat)
    BY <2>4 DEF RootsOK, RootSets
  <2>7. Len(Append(rs1.stack, v)) = Len(rs1.stack) + 1 /\ Len(rs1.stack) \in Nat
    BY <2>6
  <2>8. n <= Len(Pushed(rs1, v).stack)
    BY <2>1, <2>5, <2>7
  <2>9. QED BY <1>3, <2>1, <2>2, <2>3, <2>4, <2>5, <2>8 DEF SameCached
<1>4. CASE op = "PAR_JOIN"
  BY <1>4, BeginCases DEF SameCached
<1>5. QED BY <1>1, <1>2, <1>3, <1>4 DEF ManyOps

LEMMA BeginKeeps == HeapInv /\ Begin => HeapInv'
<1> SUFFICES ASSUME HeapInv, Begin PROVE HeapInv'
  OBVIOUS
<1>1. PICK op \in ManyOps, n \in 0 .. StackBound :
        /\ Uses(op) /\ CanBegin(op, roots, n)
        /\ LET template == IF op = "MAKE_NODE" THEN Peek(roots, 1) ELSE 0
           IN  IF op = "MAKE_NODE" /\ ~ InArena(template) THEN Stop("DANGLING")
               ELSE /\ making' = [op |-> op, left |-> n, kids |-> <<>>, template |-> template, objs |-> <<>>,
                                  shape |-> IF op = "MAKE_NODE" THEN store[nodes[template].obj].shape ELSE 0]
                    /\ roots' = Begun(op, roots)
                    /\ UNCHANGED <<nodes, sinceGc, error, store>>
  BY DEF Begin
<1>2. n \in Nat /\ error = "NONE"
  BY <1>1, CapacityAssumption DEF Uses, Running
<1>3. PICK template : template = IF op = "MAKE_NODE" THEN Peek(roots, 1) ELSE 0
  OBVIOUS
<1>4. CASE Stop("DANGLING")
  BY <1>4, StopKeeps DEF Errors
<1>5. ASSUME ~ (op = "MAKE_NODE" /\ ~ InArena(template)),
             making' = [op |-> op, left |-> n, kids |-> <<>>, template |-> template, objs |-> <<>>,
                        shape |-> IF op = "MAKE_NODE" THEN store[nodes[template].obj].shape ELSE 0],
             roots' = Begun(op, roots),
             UNCHANGED <<nodes, sinceGc, error, store>>
      PROVE  HeapInv'
  <2>1. /\ RootsOK(roots') /\ SameCached(roots, roots')
        /\ op = "PAR_JOIN" => n = Len(roots'.branches)
        /\ op # "PAR_JOIN" => n <= Len(roots'.stack)
        /\ op = "MAKE_NODE" => Len(roots.stack) >= 2
    BY <1>1, <1>2, <1>5, RootsFacts, BegunOK
  <2>2. template \in Nat
    <3>1. CASE op = "MAKE_NODE"
      <4>1. 1 < Len(roots.stack)
        BY <2>1, <3>1, RootsFacts
      <4>2. QED BY <1>3, <3>1, <4>1, RootsFacts, PeekOK
    <3>2. CASE op # "MAKE_NODE"
      BY <1>3, <3>2
    <3>3. QED BY <3>1, <3>2
  <2>3. PICK shape \in Nat : shape = IF op = "MAKE_NODE" THEN store[nodes[template].obj].shape ELSE 0
    <3>1. CASE op = "MAKE_NODE"
      <4>1. template \in 1 .. Len(nodes)
        BY <1>5, <3>1 DEF InArena
      <4>2. QED BY <3>1, <4>1, NodeFacts
    <3>2. CASE op # "MAKE_NODE"
      BY <3>2
    <3>3. QED BY <3>1, <3>2
  <2>4. making' = [op |-> op, left |-> n, kids |-> <<>>, template |-> template, objs |-> <<>>, shape |-> shape]
    BY <1>5, <2>3
  <2>5. /\ DOMAIN making' = {"op", "left", "kids", "template", "objs", "shape"}
        /\ making'.op = op /\ making'.left = n /\ making'.kids = <<>> /\ making'.template = template
        /\ making'.objs = <<>> /\ making'.shape = shape
    BY <2>4
  <2>6. <<>> \in Seq(Nat) /\ Len(<<>>) = 0 /\ op # "NONE" /\ n + 0 = n
    BY <1>2 DEF ManyOps
  <2>7. MakingOK'
    <3>1. making'.kids \in Seq(Nat) /\ making'.objs \in Seq(Nat) /\ Len(making'.kids) = 0
      BY <2>5, <2>6, Zenon
    <3>2. QED BY <1>2, <2>1, <2>2, <2>5, <2>6, <3>1 DEF MakingOK
  <2>8. ArgvFirst(roots')
    BY <2>1, RootsFacts, SameArgv
  <2>9. QED BY <1>2, <1>5, <2>1, <2>7, <2>8 DEF HeapInv, StoreOK, ArenaOK, GoodState, PressureMeansFull
<1>6. QED BY <1>1, <1>3, <1>4, <1>5

LEMMA WithChildOK ==
  ASSUME NEW op, NEW kids \in Seq(Nat), NEW c \in Nat
  PROVE  WithChild(op, kids, c) \in Seq(Nat) /\ Len(WithChild(op, kids, c)) = Len(kids) + 1
<1>1. Append(kids, c) \in Seq(Nat) /\ Len(Append(kids, c)) = Len(kids) + 1
  OBVIOUS
<1>2. <<c>> \in Seq(Nat) /\ Len(<<c>>) = 1 /\ Len(kids) \in Nat
  OBVIOUS
<1>3. <<c>> \o kids \in Seq(Nat) /\ Len(<<c>> \o kids) = Len(kids) + 1
  BY <1>2, ConcatProperties
<1>4. QED BY <1>1, <1>3 DEF WithChild

\* One child less to take, and one more taken.
LEMMA TookOK ==
  ASSUME MakingOK, making.left > 0, NEW kid \in Nat, NEW obj \in Nat,
         making' = [making EXCEPT !.left = @ - 1, !.kids = WithChild(making.op, @, kid),
                                  !.objs = WithChild(making.op, @, obj)],
         making.op = "PAR_JOIN" => Len(roots'.branches) = Len(roots.branches),
         making.op # "PAR_JOIN" => Len(roots'.stack) = Len(roots.stack) - 1,
         Len(roots.stack) \in Nat
  PROVE  MakingOK'
<1>1. /\ making.left \in Nat /\ making.kids \in Seq(Nat) /\ making.objs \in Seq(Nat) /\ Len(making.kids) \in Nat
      /\ making.op # "NONE" /\ making.op \in ManyOps
  BY DEF MakingOK
<1>2. PICK ks \in Seq(Nat) : ks = WithChild(making.op, making.kids, kid) /\ Len(ks) = Len(making.kids) + 1
  BY <1>1, WithChildOK
<1>3. PICK os \in Seq(Nat) : os = WithChild(making.op, making.objs, obj)
  BY <1>1, WithChildOK
<1>4. PICK left \in Nat : left = making.left - 1
  BY <1>1
<1>5. making' = [making EXCEPT !.left = left, !.kids = ks, !.objs = os]
  BY <1>2, <1>3, <1>4
<1>6. /\ DOMAIN making' = {"op", "left", "kids", "template", "objs", "shape"}
      /\ making'.op = making.op /\ making'.left = left /\ making'.kids = ks /\ making'.objs = os
      /\ making'.template = making.template /\ making'.shape = making.shape
  BY <1>5 DEF MakingOK
<1>7. making'.kids \in Seq(Nat) /\ making'.objs \in Seq(Nat) /\ Len(making'.kids) = Len(making.kids) + 1
  BY <1>2, <1>6, Zenon
<1>8. making.op = "PAR_JOIN" => making.left + Len(making.kids) = Len(roots.branches)
  BY DEF MakingOK
<1>9. making.op # "PAR_JOIN" => making.left <= Len(roots.stack)
  BY <1>1 DEF MakingOK
<1>10. making'.op = "PAR_JOIN" => making'.left + Len(making'.kids) = Len(roots'.branches)
  <2>1. SUFFICES ASSUME making.op = "PAR_JOIN" PROVE left + Len(making'.kids) = Len(roots'.branches)
    BY <1>6
  <2>2. PICK l \in Nat : l = making.left
    BY <1>1
  <2>3. PICK k \in Nat : k = Len(making.kids)
    BY <1>1
  <2>4. l + k = Len(roots'.branches) /\ left = l - 1 /\ Len(making'.kids) = k + 1
    BY <1>4, <1>7, <1>8, <2>1, <2>2, <2>3
  <2>5. left + (k + 1) = l + k
    BY <2>4
  <2>6. QED BY <2>4, <2>5
<1>11. making'.op \in ManyOps \ {"PAR_JOIN"} => making'.left <= Len(roots'.stack)
  BY <1>1, <1>4, <1>6, <1>9
<1>12. QED BY <1>1, <1>6, <1>7, <1>10, <1>11 DEF MakingOK

LEMMA ChildTakenOK ==
  ASSUME HeapInv, making.left > 0
  PROVE  /\ ChildValue(making.op, roots, Len(making.kids)) \in Nat
         /\ RootsOK(ChildTaken(making.op, roots)) /\ ArgvFirst(ChildTaken(making.op, roots))
         /\ making.op = "PAR_JOIN" => ChildTaken(making.op, roots) = roots
         /\ making.op # "PAR_JOIN" => Len(ChildTaken(making.op, roots).stack) = Len(roots.stack) - 1
<1>1. /\ making.left \in Nat /\ making.kids \in Seq(Nat) /\ Len(making.kids) \in Nat
      /\ making.op \in ManyOps
  BY DEF HeapInv, MakingOK
<1>2. CASE making.op = "PAR_JOIN"
  <2>1. making.left + Len(making.kids) = Len(roots.branches)
    BY <1>2 DEF HeapInv, MakingOK
  <2>2. Len(making.kids) + 1 \in 1 .. Len(roots.branches) /\ roots.branches \in Seq(Nat)
    BY <1>1, <2>1, RootsFacts
  <2>3. roots.branches[Len(making.kids) + 1] \in Nat
    BY <2>2
  <2>4. QED BY <1>2, <2>3, RootsFacts DEF ChildValue, ChildTaken
<1>3. CASE making.op # "PAR_JOIN"
  <2>1. making.left <= Len(roots.stack)
    BY <1>1, <1>3 DEF HeapInv, MakingOK
  <2>2. 0 < Len(roots.stack) /\ 1 <= Len(roots.stack)
    BY <1>1, <2>1, RootsFacts
  <2>3. Peek(roots, 0) \in Nat
    BY <2>2, RootsFacts, PeekOK
  <2>4. RootsOK(Drop(roots, 1)) /\ ArgvFirst(Drop(roots, 1)) /\ Len(Drop(roots, 1).stack) = Len(roots.stack) - 1
    BY <2>2, RootsFacts, DropOK, SameArgv
  <2>5. QED BY <1>3, <2>3, <2>4 DEF ChildValue, ChildTaken
<1>4. QED BY <1>2, <1>3

LEMMA TakeChildKeeps == HeapInv /\ TakeChild => HeapInv'
<1> SUFFICES ASSUME HeapInv, TakeChild PROVE HeapInv'
  OBVIOUS
<1> DEFINE op    == making.op
           value == ChildValue(op, roots, Len(making.kids))
           rs    == ChildTaken(op, roots)
           took(kid, obj) == making' = [making EXCEPT !.left = @ - 1,
                                                      !.kids = WithChild(op, @, kid),
                                                      !.objs = WithChild(op, @, obj)]
<1>1. error = "NONE" /\ making.left > 0 /\ MakingOK /\ Len(roots.stack) \in Nat
  BY RootsFacts DEF TakeChild, HeapInv
<1>2. /\ value \in Nat /\ RootsOK(rs) /\ ArgvFirst(rs)
      /\ op = "PAR_JOIN" => rs = roots
      /\ op # "PAR_JOIN" => Len(rs.stack) = Len(roots.stack) - 1
  BY <1>1, ChildTakenOK
<1>3. CASE Stop("STRING_PRESSURE")
  BY <1>3, StopKeeps DEF Errors
<1>4. ASSUME value # 0, took(value, IF InArena(value) THEN nodes[value].obj ELSE 0), roots' = rs,
             UNCHANGED <<nodes, sinceGc, error, store>>
      PROVE  HeapInv'
  <2>1. PICK obj \in Nat : obj = IF InArena(value) THEN nodes[value].obj ELSE 0
    <3>1. CASE InArena(value)
      <4>1. PICK h \in 1 .. Len(nodes) : h = value
        BY <3>1 DEF InArena
      <4>2. QED BY <3>1, <4>1, NodeFacts
    <3>2. CASE ~ InArena(value)
      BY <3>2
    <3>3. QED BY <3>1, <3>2
  <2>2. PICK kid \in Nat : kid = value
    BY <1>2
  <2>3. took(kid, obj)
    BY <1>4, <2>1, <2>2
  <2>4. MakingOK'
    <3> HIDE DEF rs, value
    <3>1. op = "PAR_JOIN" => Len(roots'.branches) = Len(roots.branches)
      BY <1>2, <1>4
    <3>2. op # "PAR_JOIN" => Len(roots'.stack) = Len(roots.stack) - 1
      BY <1>2, <1>4
    <3>3. QED BY <1>1, <2>3, <3>1, <3>2, TookOK
  <2> HIDE DEF rs, value, op
  <2>5. QED BY <1>1, <1>2, <1>4, <2>4 DEF HeapInv, StoreOK, ArenaOK, GoodState, PressureMeansFull
<1>5. ASSUME NEW attrs \in {0, 1}, NEW heap \in CreateNodeRecord(rs, Fresh, attrs, <<>>, Fresh),
             nodes' = heap.nodes /\ roots' = heap.roots /\ sinceGc' = heap.sinceGc /\ error' = heap.error,
             IF heap.error = "NONE"
             THEN /\ took(Len(heap.nodes), Fresh)
                  /\ store' = Append(store, [shape |-> Fresh, kids |-> <<>>])
             ELSE making' = Idle /\ UNCHANGED store
      PROVE  HeapInv'
  <2>1. PICK m \in Nat : m = Len(store) /\ Fresh = m + 1
    BY FreshTyped DEF Fresh
  <2>2. GoodState(m, rs)
    <3> HIDE DEF rs
    <3>1. QED BY <1>2, <2>1 DEF HeapInv, ArenaOK, GoodState
  <2>3. Created(heap, m, rs, 0)
    <3>1. attrs \in Nat /\ <<>> \in Seq(Nat) /\ m + 1 \in Nat
      OBVIOUS
    <3>2. heap \in CreateNodeRecord(rs, m + 1, attrs, <<>>, m + 1)
      BY <1>5, <2>1
    <3> HIDE DEF rs
    <3>3. QED BY <2>2, <3>1, <3>2, CreateGood
  <2>4. heap.error \in Errors
    BY <2>3 DEF Created, Errors
  <2>5. CASE heap.error = "NONE"
    <3>1. /\ Good(heap, m + 1, rs, 0) /\ RootsOK(heap.roots) /\ ArgvFirst(heap.roots)
          /\ Len(heap.nodes) \in Nat /\ \A r \in RootSets : Len(heap.roots[r]) = Len(rs[r])
      BY <2>3, <2>5 DEF Created, Good, HeapOK
    <3>2. StoreOK' /\ Len(store') = m + 1 /\ m + 1 \in Nat
      BY <1>5, <2>1, <2>5, NewObjectTyped, GrownStore DEF HeapInv
    <3>3. ArenaOK'
      BY <1>5, <3>1, <3>2, ArenaFrom
    <3>4. MakingOK'
      <4>1. PICK kid \in Nat : kid = Len(heap.nodes)
        BY <3>1
      <4>2. PICK obj \in Nat : obj = Fresh
        BY FreshTyped
      <4>3. took(kid, obj)
        BY <1>5, <2>5, <4>1, <4>2
      <4>4. Len(roots'.branches) = Len(rs.branches) /\ Len(roots'.stack) = Len(rs.stack)
        BY <1>5, <3>1 DEF RootSets
      <4> HIDE DEF rs
      <4>5. op = "PAR_JOIN" => Len(roots'.branches) = Len(roots.branches)
        BY <1>2, <4>4
      <4>6. op # "PAR_JOIN" => Len(roots'.stack) = Len(roots.stack) - 1
        BY <1>2, <4>4
      <4>7. QED BY <1>1, <4>3, <4>5, <4>6, TookOK
    <3>5. QED BY <1>5, <2>5, <3>2, <3>3, <3>4 DEF HeapInv, PressureMeansFull, Errors
  <2>6. CASE heap.error # "NONE"
    <3>1. Good(heap, m, rs, 0) /\ RootsOK(heap.roots) /\ ArgvFirst(heap.roots)
      BY <2>3, <2>6 DEF Created, Good, HeapOK
    <3>2. StoreOK' /\ Len(store') = m /\ making' = Idle
      BY <1>5, <2>1, <2>6 DEF HeapInv, StoreOK
    <3>3. ArenaOK'
      BY <1>5, <3>1, <3>2, ArenaFrom
    <3>4. MakingOK'
      BY <3>2, IdleFrame
    <3>5. heap.kids = <<>>
      BY <3>1, <1>5, EmptySeq DEF Good, HeapOK
    <3>6. PressureMeansFull'
      BY <1>5, <2>3, <3>2, <3>5, IdleOK, FullFrom
    <3>7. QED BY <1>5, <2>4, <3>2, <3>3, <3>4, <3>6 DEF HeapInv
  <2>7. QED BY <2>5, <2>6
<1>6. QED BY <1>3, <1>4, <1>5 DEF TakeChild

LEMMA JoinedOK ==
  ASSUME HeapInv, NEW op
  PROVE  RootsOK(Joined(op, roots)) /\ ArgvFirst(Joined(op, roots))
<1>1. PICK r0 : r0 = roots
  OBVIOUS
<1>2. RootsOK(r0) /\ ArgvFirst(r0)
  BY <1>1, RootsFacts
<1>3. PICK q \in Seq(Nat) : q = <<>>
  <2>1. <<>> \in Seq(Nat)
    OBVIOUS
  <2>2. QED BY <2>1, Zenon
<1>4. RootsOK([r0 EXCEPT !["branches"] = q]) /\ SameCached(r0, [r0 EXCEPT !["branches"] = q])
  BY <1>2, WithRootsOK DEF RootSets
<1>5. ArgvFirst([r0 EXCEPT !["branches"] = q])
  BY <1>2, <1>4, SameArgv
<1>6. CASE op = "PAR_JOIN"
  <2>1. Joined(op, roots) = [r0 EXCEPT !["branches"] = q]
    BY <1>1, <1>3, <1>6 DEF Joined
  <2>2. QED BY <1>4, <1>5, <2>1
<1>7. CASE op # "PAR_JOIN"
  BY <1>1, <1>2, <1>7 DEF Joined
<1>8. QED BY <1>6, <1>7

LEMMA FinishKeeps == HeapInv /\ Finish => HeapInv'
<1> SUFFICES ASSUME HeapInv, Finish PROVE HeapInv'
  OBVIOUS
<1> DEFINE object == [shape |-> IF making.op = "MAKE_NODE" THEN making.shape ELSE Fresh, kids |-> making.objs]
<1>1. making.kids \in Seq(Nat) /\ making.objs \in Seq(Nat) /\ making.shape \in Nat
  BY DEF HeapInv, MakingOK
<1>2. object \in ObjectRec
  <2>1. PICK shape \in Nat : shape = IF making.op = "MAKE_NODE" THEN making.shape ELSE Fresh
    BY <1>1, FreshTyped
  <2>2. QED BY <1>1, <2>1, ObjectTyped
<1>3. ASSUME NEW shape \in Nat, NEW attrs \in Nat,
             MakeAndPush(Joined(making.op, roots), shape, attrs, making.kids, object)
      PROVE  HeapInv'
  <2>1. PICK rs : rs = Joined(making.op, roots)
    OBVIOUS
  <2>2. RootsOK(rs) /\ ArgvFirst(rs)
    BY <2>1, JoinedOK
  <2> HIDE DEF object
  <2>3. MakeAndPush(rs, shape, attrs, making.kids, object)
    BY <1>3, <2>1
  <2>4. QED BY <1>1, <1>2, <2>2, <2>3, MakeAndPushKeeps
<1>4. CASE MakeAndPush(Joined(making.op, roots), Fresh, 0, making.kids, object)
  BY <1>3, <1>4, FreshTyped
<1>5. CASE MakeAndPush(Joined(making.op, roots), Fresh, 1, making.kids, object)
  BY <1>3, <1>5, FreshTyped
<1>6. CASE /\ InArena(making.template)
           /\ MakeAndPush(Joined(making.op, roots), nodes[making.template].shape,
                          nodes[making.template].attrs, making.kids, object)
  <2>1. PICK h \in 1 .. Len(nodes) : h = making.template
    BY <1>6 DEF InArena
  <2>2. PICK shape \in Nat : shape = nodes[h].shape
    BY NodeFacts
  <2>3. PICK attrs \in Nat : attrs = nodes[h].attrs
    BY NodeFacts
  <2>4. MakeAndPush(Joined(making.op, roots), shape, attrs, making.kids, object)
    BY <1>6, <2>1, <2>2, <2>3
  <2> HIDE DEF object
  <2>5. QED BY <1>3, <2>4
<1>7. ASSUME NEW attrs \in 0 .. AttrCapacity,
             MakeAndPush(Joined(making.op, roots), 0, attrs, making.kids, object)
      PROVE  HeapInv'
  <2>1. attrs \in Nat
    BY HostAttrsTyped
  <2> HIDE DEF object
  <2>2. QED BY <1>3, <1>7, <2>1
<1>8. QED BY <1>4, <1>5, <1>6, <1>7 DEF Finish

-----------------------------------------------------------------------------
(* The state of a VM that was just reset.                                   *)

LEMMA ArgumentsOK ==
  ASSUME NEW n \in ArgvCounts
  PROVE  /\ Arguments(n) \in Seq(NodeRec) /\ InBounds(Arguments(n)) /\ ArgvNode(Arguments(n))
         /\ ArgumentObjects(n) \in Seq(ObjectRec)
         /\ \A h \in 1 .. Len(Arguments(n)) : Arguments(n)[h].obj \in 1 .. Len(ArgumentObjects(n))
<1> DEFINE ns   == Arguments(n)
           list == [i \in 1 .. n |-> i + 1]
<1>1. n \in Nat /\ n < NodeCapacity /\ n <= AttrCapacity /\ n <= ChildCapacity /\ n + 1 \in Nat
  BY CapacityAssumption
<1>2. list \in Seq(Nat) /\ Len(list) = n
  <2>1. list \in [1 .. n -> Nat]
    BY <1>1
  <2> HIDE DEF list
  <2>2. QED BY <1>1, <2>1, FunctionIsSeq
<1>3. <<>> \in Seq(Nat) /\ Len(<<>>) = 0
  OBVIOUS
<1>4. ns = [h \in 1 .. n + 1 |-> IF h = 1 THEN Node(1, 1, 0, list) ELSE Node(h, h, 1, <<>>)]
  BY DEF Arguments
<1> HIDE DEF list, ns
<1>5. \A h \in 1 .. n + 1 : /\ Node(h, h, 1, <<>>) \in NodeRec /\ Node(h, h, 1, <<>>).obj = h
                            /\ Node(h, h, 1, <<>>).attrs = 1 /\ Node(h, h, 1, <<>>).kids = <<>>
  <2>1. \A h \in 1 .. n + 1 : h \in Nat
    OBVIOUS
  <2>2. PICK ks \in Seq(Nat) : ks = <<>>
    BY <1>3, Zenon
  <2>3. ASSUME NEW h \in Nat
        PROVE  /\ Node(h, h, 1, ks) \in NodeRec /\ Node(h, h, 1, ks).obj = h
               /\ Node(h, h, 1, ks).attrs = 1 /\ Node(h, h, 1, ks).kids = ks
    BY NodeTyped
  <2>4. QED BY <2>1, <2>2, <2>3
<1>6. /\ Node(1, 1, 0, list) \in NodeRec /\ Node(1, 1, 0, list).obj = 1
      /\ Node(1, 1, 0, list).attrs = 0 /\ Node(1, 1, 0, list).kids = list
  BY <1>2, NodeTyped
<1>7. \A h \in 1 .. n + 1 : /\ ns[h] \in NodeRec /\ ns[h].obj = h
                            /\ ns[h].attrs = IF h = 1 THEN 0 ELSE 1
                            /\ Len(ns[h].kids) = IF h = 1 THEN n ELSE 0
  BY <1>2, <1>3, <1>4, <1>5, <1>6
<1>8. ns \in Seq(NodeRec) /\ Len(ns) = n + 1
  <2>1. ns \in [1 .. n + 1 -> NodeRec]
    BY <1>4, <1>5, <1>6
  <2>2. QED BY <1>1, <2>1, FunctionIsSeq
<1>9. n + 1 \in 0 .. n + 1 /\ 1 \in 1 .. n + 1
  BY <1>1
<1>10. AttrsUsed(ns) = n
  <2> DEFINE g == [k \in 0 .. n + 1 |-> IF k = 0 THEN 0 ELSE k - 1]
  <2>1. PICK f : Total(f, AttrCounts(ns), n + 1) /\ AttrsUsed(ns) = f[n + 1]
    BY <1>8, AttrsTotal
  <2>2. \A k \in 1 .. n + 1 : AttrCounts(ns)[k] = IF k = 1 THEN 0 ELSE 1
    BY <1>7, <1>8, CountTypes
  <2>3. Total(g, AttrCounts(ns), n + 1)
    <3>1. g \in [0 .. n + 1 -> Nat] /\ g[0] = 0
      BY <1>1
    <3>2. ASSUME NEW k \in 1 .. n + 1 PROVE g[k] = g[k - 1] + AttrCounts(ns)[k]
      <4>1. k \in 0 .. n + 1 /\ k - 1 \in 0 .. n + 1 /\ k # 0
        BY <1>1
      <4>2. g[k] = k - 1
        BY <4>1
      <4>3. CASE k = 1
        <5>1. g[k - 1] = 0
          BY <4>1, <4>3
        <5>2. QED BY <2>2, <4>2, <4>3, <5>1
      <4>4. CASE k # 1
        <5>1. g[k - 1] = (k - 1) - 1
          BY <4>1, <4>4
        <5>2. QED BY <2>2, <4>2, <4>4, <5>1
      <4>5. QED BY <4>3, <4>4
    <3> HIDE DEF g
    <3>3. QED BY <3>1, <3>2 DEF Total
  <2>4. g[n + 1] = n
    BY <1>1, <1>9
  <2> HIDE DEF g
  <2>5. \A k \in 1 .. n + 1 : AttrCounts(ns)[k] \in Nat
    BY <2>2
  <2>6. \A k \in 0 .. n + 1 : f[k] = g[k]
    <3>1. PICK a : a = AttrCounts(ns)
      OBVIOUS
    <3>2. PICK m \in Nat : m = n + 1
      BY <1>1
    <3>3. Total(f, a, m) /\ Total(g, a, m) /\ \A k \in 1 .. m : a[k] \in Nat
      BY <2>1, <2>3, <2>5, <3>1, <3>2
    <3>4. \A k \in 0 .. m : f[k] = g[k]
      BY <3>3, TotalUnique
    <3>5. QED BY <3>2, <3>4
  <2>7. QED BY <1>9, <2>1, <2>4, <2>6
<1>11. ChildrenUsed(ns) = n
  <2> DEFINE g == [k \in 0 .. n + 1 |-> IF k = 0 THEN 0 ELSE n]
  <2>1. PICK f : Total(f, ChildCounts(ns), n + 1) /\ ChildrenUsed(ns) = f[n + 1]
    BY <1>8, ChildrenTotal
  <2>2. \A k \in 1 .. n + 1 : ChildCounts(ns)[k] = IF k = 1 THEN n ELSE 0
    BY <1>7, <1>8, CountTypes
  <2>3. Total(g, ChildCounts(ns), n + 1)
    <3>1. g \in [0 .. n + 1 -> Nat] /\ g[0] = 0
      BY <1>1
    <3>2. ASSUME NEW k \in 1 .. n + 1 PROVE g[k] = g[k - 1] + ChildCounts(ns)[k]
      <4>1. k \in 0 .. n + 1 /\ k - 1 \in 0 .. n + 1 /\ k # 0
        BY <1>1
      <4>2. g[k] = n
        BY <4>1
      <4>3. CASE k = 1
        <5>1. g[k - 1] = 0
          BY <4>1, <4>3
        <5>2. QED BY <1>1, <2>2, <4>2, <4>3, <5>1
      <4>4. CASE k # 1
        <5>1. g[k - 1] = n
          BY <4>1, <4>4
        <5>2. QED BY <1>1, <2>2, <4>2, <4>4, <5>1
      <4>5. QED BY <4>3, <4>4
    <3> HIDE DEF g
    <3>3. QED BY <3>1, <3>2 DEF Total
  <2>4. g[n + 1] = n
    BY <1>1, <1>9
  <2> HIDE DEF g
  <2>5. \A k \in 1 .. n + 1 : ChildCounts(ns)[k] \in Nat
    BY <1>1, <2>2
  <2>6. \A k \in 0 .. n + 1 : f[k] = g[k]
    <3>1. PICK a : a = ChildCounts(ns)
      OBVIOUS
    <3>2. PICK m \in Nat : m = n + 1
      BY <1>1
    <3>3. Total(f, a, m) /\ Total(g, a, m) /\ \A k \in 1 .. m : a[k] \in Nat
      BY <2>1, <2>3, <2>5, <3>1, <3>2
    <3>4. \A k \in 0 .. m : f[k] = g[k]
      BY <3>3, TotalUnique
    <3>5. QED BY <3>2, <3>4
  <2>7. QED BY <1>9, <2>1, <2>4, <2>6
<1>12. InBounds(ns)
  BY <1>1, <1>8, <1>10, <1>11, HostAttrsTyped DEF InBounds
<1>13. ArgvNode(ns)
  BY <1>1, <1>7, <1>8, <1>9 DEF ArgvNode
<1>14. ArgumentObjects(n) \in Seq(ObjectRec) /\ Len(ArgumentObjects(n)) = n + 1
  <2>1. ASSUME NEW o \in 1 .. n + 1 PROVE [shape |-> o, kids |-> IF o = 1 THEN list ELSE <<>>] \in ObjectRec
    <3>1. PICK ks \in Seq(Nat) : ks = IF o = 1 THEN list ELSE <<>>
      BY <1>2, <1>3
    <3>2. o \in Nat
      OBVIOUS
    <3>3. [shape |-> o, kids |-> ks] \in ObjectRec
      BY <3>2, ObjectTyped
    <3>4. QED BY <3>1, <3>3
  <2>2. ArgumentObjects(n) = [o \in 1 .. n + 1 |-> [shape |-> o, kids |-> IF o = 1 THEN list ELSE <<>>]]
    BY DEF ArgumentObjects, list
  <2>3. ArgumentObjects(n) \in [1 .. n + 1 -> ObjectRec]
    BY <2>1, <2>2
  <2>4. QED BY <1>1, <2>3, FunctionIsSeq
<1>15. QED BY <1>7, <1>8, <1>12, <1>13, <1>14 DEF ns

LEMMA ResetState ==
  ASSUME NEW n \in ArgvCounts, nodes' = Arguments(n), store' = ArgumentObjects(n),
         roots' = EmptyRoots(1), sinceGc' = 0, making' = Idle, error' = "NONE"
  PROVE  HeapInv'
<1>1. MakingOK'
  BY IdleFrame
<1>2. QED BY <1>1, ArgumentsOK, EmptyRootsOK
      DEF HeapInv, StoreOK, ArenaOK, GoodState, PressureMeansFull, Errors, InBounds, ArgvNode

LEMMA InitState == Init => HeapInv
<1> SUFFICES ASSUME Init PROVE HeapInv
  OBVIOUS
<1>1. PICK n \in ArgvCounts : nodes = Arguments(n) /\ store = ArgumentObjects(n)
  BY DEF Init
<1>2. roots = EmptyRoots(1) /\ sinceGc = 0 /\ making = Idle /\ error = "NONE"
  BY DEF Init
<1>3. MakingOK
  <2>1. <<>> \in Seq(Nat)
    OBVIOUS
  <2>2. "NONE" \notin ManyOps /\ "NONE" # "PAR_JOIN"
    BY DEF ManyOps
  <2>3. QED BY <1>2, <2>1, <2>2, IdleOK DEF MakingOK
<1>4. QED BY <1>1, <1>2, <1>3, ArgumentsOK, EmptyRootsOK
      DEF HeapInv, StoreOK, ArenaOK, GoodState, PressureMeansFull, Errors

LEMMA ResetKeeps == HeapInv /\ Reset => HeapInv'
<1> SUFFICES ASSUME HeapInv, Reset PROVE HeapInv'
  OBVIOUS
<1>1. PICK n \in ArgvCounts : nodes' = Arguments(n) /\ store' = ArgumentObjects(n)
  BY DEF Reset
<1>2. QED BY <1>1, ResetState DEF Reset

LEMMA StutterKeeps == HeapInv /\ UNCHANGED vars => HeapInv'
BY DEF HeapInv, vars, StoreOK, ArenaOK, GoodState, MakingOK, PressureMeansFull

-----------------------------------------------------------------------------
(* Theorems.                                                                *)

\* HeapInv holds of every state of the node arena, for every set of opcodes a
\* program may use and every capacity, threshold and collection interval.
THEOREM Inductive == Spec => []HeapInv
<1>1. Init => HeapInv
  BY InitState
<1>2. HeapInv /\ [Next]_vars => HeapInv'
  BY MoveKeeps, LeafKeeps, AppendChildKeeps, InspectKeeps, ChildAtKeeps, ProcessArgsKeeps,
     HostNodeKeeps, UiNodeKeeps, BeginKeeps, TakeChildKeeps, FinishKeeps, ResetKeeps, StutterKeeps
  DEF Next
<1>3. QED BY <1>1, <1>2, PTL DEF Spec

\* create_node_record and native_vm_append_host_node never write past the node,
\* attribute or child arrays.
THEOREM ArenaIsBounded == Spec => []WithinArena
<1>1. HeapInv => WithinArena
  BY DEF HeapInv, ArenaOK, GoodState, InBounds, WithinArena
<1>2. QED BY <1>1, Inductive, PTL

\* sys.process.args may answer handle 1: no collection, no UI event and no other
\* host node ever takes its place.
THEOREM ArgvIsNodeOne == Spec => []ArgvStaysFirst
<1>1. HeapInv => ArgvStaysFirst
  BY DEF HeapInv, ArenaOK, GoodState, ArgvNode, ArgvFirst, ArgvStaysFirst
<1>2. QED BY <1>1, Inductive, PTL

\* AIVMM005 is reported only when a collection found every node reachable.
THEOREM FullOfReachable == Spec => []PressureMeansFull
<1>1. HeapInv => PressureMeansFull
  BY DEF HeapInv
<1>2. QED BY <1>1, Inductive, PTL

-----------------------------------------------------------------------------
(* The refinement of NodeValues.  When every handle an opcode holds across  *)
(* an allocation is among the collector's roots, AivmNodeHeap implements    *)
(* NodeValues: for every capacity, threshold and collection interval, no    *)
(* collection shows.                                                        *)

\* No opcode keeps a handle in a C local while it allocates, and no host call
\* overwrites a node.  MAKE_MAP and MAKE_NODE do the first, PAR_JOIN does with
\* two branches or more, the UI syscalls do the second.
RootedOnly ==
  /\ Opcodes \cap {"MAKE_MAP", "MAKE_NODE", "UI"} = {}
  /\ "PAR_JOIN" \in Opcodes => BranchBound <= 1

-----------------------------------------------------------------------------
(* What the program sees.                                                   *)

\* w is the object behind the value v; p those behind the values q; vs those
\* behind the roots rs.
Seen(ns, v, w) ==
  /\ v \in Nat /\ w \in Nat
  /\ v = 0 => w = 0
  /\ v # 0 => v \in 1 .. Len(ns) /\ w = ns[v].obj /\ w # 0
SeenAs(ns, q, p) ==
  /\ p \in Seq(Nat) /\ q \in Seq(Nat) /\ Len(p) = Len(q)
  /\ \A i \in 1 .. Len(q) : Seen(ns, q[i], p[i])
Views(ns, rs, vs) ==
  /\ RootsOK(rs) /\ RootsOK(vs)
  /\ \A r \in RootSets : SeenAs(ns, rs[r], vs[r])
  /\ \A c \in Cached : Seen(ns, rs[c], vs[c])

\* os are the objects behind the handles kids, all in the arena.
SeenKids(ns, kids, os) ==
  /\ Len(os) = Len(kids)
  /\ \A i \in 1 .. Len(kids) : kids[i] \in 1 .. Len(ns) /\ os[i] = ns[kids[i]].obj

\* Every node has the shape of its object, and children that are the object's.
Faithful(ns, st) ==
  \A h \in 1 .. Len(ns) : /\ st[ns[h].obj].shape = ns[h].shape
                          /\ SeenKids(ns, ns[h].kids, st[ns[h].obj].kids)

\* The frame of an opcode under way: at most one child, which it took last.
RootedFrame ==
  /\ making.op \in {"NONE", "MAKE_FIELD_STRING", "PAR_JOIN"}
  /\ making.op = "NONE" => making = Idle
  /\ making.left + Len(making.kids) <= 1
  /\ SeenKids(nodes, making.kids, making.objs)

\* The branches a Par scope may have.
FewBranches(rs) == Len(rs.branches) <= BranchBound

\* While the program runs, everything it can reach is there and is what it was
\* made to be.
ValuesInv ==
  error = "NONE" => /\ Held(roots) \subseteq 1 .. Len(nodes)
                    /\ Faithful(nodes, store)
                    /\ RootedFrame
                    /\ FewBranches(roots)

-----------------------------------------------------------------------------
(* Views follow the moves of values.                                        *)

\* The refinement mapping gives the view.
LEMMA MappingViews ==
  ASSUME NEW ns \in Seq(NodeRec), \A h \in 1 .. Len(ns) : ns[h].obj > 0,
         NEW rs, RootsOK(rs), Held(rs) \subseteq 1 .. Len(ns),
         NEW f, f = [h \in Held(rs) |-> IF h \in 1 .. Len(ns) THEN ns[h].obj ELSE 0 - h]
  PROVE  Views(ns, rs, Renamed(rs, f))
<1>1. ASSUME NEW h \in 1 .. Len(ns) PROVE ns[h].obj \in Nat \ {0}
  <2>1. ns[h] \in NodeRec
    OBVIOUS
  <2>2. QED BY <2>1 DEF NodeRec
<1>2. f \in [Held(rs) -> Nat \ {0}] /\ \A h \in Held(rs) : f[h] = ns[h].obj
  BY <1>1
<1>3. PICK g \in [Held(rs) -> Nat \ {0}] : g = f /\ \A h \in Held(rs) : g[h] = ns[h].obj
  BY <1>2
<1>4. /\ RootsOK(Renamed(rs, g))
      /\ \A r \in RootSets : /\ Len(Renamed(rs, g)[r]) = Len(rs[r])
                             /\ \A i \in 1 .. Len(rs[r]) :
                                  Renamed(rs, g)[r][i] = IF rs[r][i] = 0 THEN 0 ELSE g[rs[r][i]]
      /\ \A c \in Cached : Renamed(rs, g)[c] = IF rs[c] = 0 THEN 0 ELSE g[rs[c]]
  BY RenamedOK
<1>5. /\ \A r \in RootSets : \A i \in 1 .. Len(rs[r]) : rs[r][i] \in Nat /\ (rs[r][i] # 0 => rs[r][i] \in Held(rs))
      /\ \A c \in Cached : rs[c] \in Nat /\ (rs[c] # 0 => rs[c] \in Held(rs))
  BY HeldIs DEF RootsOK
<1>6. ASSUME NEW v \in Nat, v # 0 => v \in Held(rs), NEW w, w = IF v = 0 THEN 0 ELSE g[v]
      PROVE  Seen(ns, v, w)
  BY <1>1, <1>3, <1>6 DEF Seen
<1>7. ASSUME NEW r \in RootSets PROVE SeenAs(ns, rs[r], Renamed(rs, g)[r])
  <2>1. ASSUME NEW i \in 1 .. Len(rs[r]) PROVE Seen(ns, rs[r][i], Renamed(rs, g)[r][i])
    BY <1>4, <1>5, <1>6
  <2>2. QED BY <1>4, <2>1 DEF SeenAs, RootsOK
<1>8. ASSUME NEW c \in Cached PROVE Seen(ns, rs[c], Renamed(rs, g)[c])
  BY <1>4, <1>5, <1>6
<1>9. Views(ns, rs, Renamed(rs, g))
  BY <1>4, <1>7, <1>8 DEF Views
<1>10. QED BY <1>3, <1>9

\* What is seen is in the arena.
LEMMA ViewsHeld ==
  ASSUME NEW ns, NEW rs, NEW vs, Views(ns, rs, vs)
  PROVE  RootsOK(rs) /\ Held(rs) \subseteq 1 .. Len(ns)
<1>1. RootsOK(rs)
  BY DEF Views
<1>2. ASSUME NEW h \in Held(rs) PROVE h \in 1 .. Len(ns)
  <2>1. h # 0 /\ ((\E r \in RootSets : \E i \in 1 .. Len(rs[r]) : h = rs[r][i]) \/ \E c \in Cached : h = rs[c])
    BY <1>1, HeldIs
  <2>2. QED BY <2>1 DEF Views, SeenAs, Seen
<1>3. QED BY <1>1, <1>2

\* There is one view of given roots.
LEMMA OneView ==
  ASSUME NEW ns, NEW rs, NEW vs, NEW ws, Views(ns, rs, vs), Views(ns, rs, ws)
  PROVE  vs = ws
<1>1. ASSUME NEW r \in RootSets PROVE vs[r] = ws[r]
  <2>1. vs[r] \in Seq(Nat) /\ ws[r] \in Seq(Nat) /\ Len(vs[r]) = Len(ws[r])
    BY DEF Views, SeenAs
  <2>2. ASSUME NEW i \in 1 .. Len(vs[r]) PROVE vs[r][i] = ws[r][i]
    <3>1. i \in 1 .. Len(rs[r])
      BY DEF Views, SeenAs
    <3>2. Seen(ns, rs[r][i], vs[r][i]) /\ Seen(ns, rs[r][i], ws[r][i])
      BY <3>1 DEF Views, SeenAs
    <3>3. QED BY <3>2 DEF Seen
  <2>3. QED BY <2>1, <2>2, SeqEqual
<1>2. ASSUME NEW c \in Cached PROVE vs[c] = ws[c]
  BY DEF Views, Seen
<1>3. /\ vs = [r \in RootSets \cup Cached |-> vs[r]]
      /\ ws = [r \in RootSets \cup Cached |-> ws[r]]
  BY DEF Views, RootsOK
<1>4. \A r \in RootSets \cup Cached : vs[r] = ws[r]
  BY <1>1, <1>2
<1>5. [r \in RootSets \cup Cached |-> vs[r]] = [r \in RootSets \cup Cached |-> ws[r]]
  BY <1>4
<1>6. QED BY <1>3, <1>5

\* One set of roots replaced.
LEMMA ViewsWith ==
  ASSUME NEW ns, NEW rs, NEW vs, Views(ns, rs, vs), NEW r \in RootSets,
         NEW q, NEW p, SeenAs(ns, q, p)
  PROVE  Views(ns, [rs EXCEPT ![r] = q], [vs EXCEPT ![r] = p])
<1> DEFINE rs2 == [rs EXCEPT ![r] = q]
           vs2 == [vs EXCEPT ![r] = p]
<1>1. RootsOK(rs) /\ RootsOK(vs) /\ p \in Seq(Nat) /\ q \in Seq(Nat)
  BY DEF Views, SeenAs
<1>2. RootsOK(vs2) /\ SameCached(vs, vs2) /\ vs2[r] = p
  BY <1>1, WithRootsOK
<1>3. RootsOK(rs2) /\ SameCached(rs, rs2) /\ rs2[r] = q
  BY <1>1, WithRootsOK
<1>4. \A s \in RootSets \ {r} : rs2[s] = rs[s] /\ vs2[s] = vs[s]
  BY <1>1 DEF RootsOK, RootSets
<1> HIDE DEF rs2, vs2
<1>5. ASSUME NEW s \in RootSets PROVE SeenAs(ns, rs2[s], vs2[s])
  BY <1>2, <1>3, <1>4 DEF Views
<1>6. ASSUME NEW c \in Cached PROVE Seen(ns, rs2[c], vs2[c])
  BY <1>2, <1>3 DEF Views, SameCached
<1>7. Views(ns, rs2, vs2)
  BY <1>2, <1>3, <1>5, <1>6 DEF Views
<1>8. QED BY <1>7 DEF rs2, vs2

LEMMA SeenAppend ==
  ASSUME NEW ns, NEW q, NEW p, SeenAs(ns, q, p), NEW v, NEW w, Seen(ns, v, w)
  PROVE  SeenAs(ns, Append(q, v), Append(p, w))
<1>1. p \in Seq(Nat) /\ q \in Seq(Nat) /\ Len(p) = Len(q) /\ v \in Nat /\ w \in Nat
  BY DEF SeenAs, Seen
<1>2. Append(p, w) \in Seq(Nat) /\ Append(q, v) \in Seq(Nat) /\ Len(Append(p, w)) = Len(Append(q, v))
  BY <1>1
<1>3. ASSUME NEW i \in 1 .. Len(Append(q, v)) PROVE Seen(ns, Append(q, v)[i], Append(p, w)[i])
  <2>1. CASE i \in 1 .. Len(q)
    <3>1. Append(p, w)[i] = p[i] /\ Append(q, v)[i] = q[i]
      BY <1>1, <2>1
    <3>2. QED BY <2>1, <3>1 DEF SeenAs
  <2>2. CASE i = Len(q) + 1
    <3>1. Append(p, w)[i] = w /\ Append(q, v)[i] = v
      BY <1>1, <2>2
    <3>2. QED BY <3>1
  <2>3. QED BY <1>1, <2>1, <2>2
<1>4. QED BY <1>2, <1>3 DEF SeenAs

LEMMA SeenFront ==
  ASSUME NEW ns, NEW q, NEW p, SeenAs(ns, q, p), NEW n \in Nat, n <= Len(q)
  PROVE  SeenAs(ns, SubSeq(q, 1, Len(q) - n), SubSeq(p, 1, Len(p) - n))
<1>1. p \in Seq(Nat) /\ q \in Seq(Nat) /\ Len(p) = Len(q)
  BY DEF SeenAs
<1>2. PICK k \in Nat : k = Len(q) - n /\ k <= Len(q)
  <2>1. Len(q) \in Nat
    BY <1>1
  <2>2. Len(q) - n \in Nat /\ Len(q) - n <= Len(q)
    BY <2>1
  <2>3. QED BY <2>2
<1>3. /\ SubSeq(q, 1, k) \in Seq(Nat) /\ SubSeq(p, 1, k) \in Seq(Nat)
      /\ Len(SubSeq(q, 1, k)) = k /\ Len(SubSeq(p, 1, k)) = k
      /\ \A i \in 1 .. k : SubSeq(q, 1, k)[i] = q[i] /\ SubSeq(p, 1, k)[i] = p[i]
  <2>1. ASSUME NEW t \in Seq(Nat), k <= Len(t)
        PROVE  /\ SubSeq(t, 1, k) \in Seq(Nat) /\ Len(SubSeq(t, 1, k)) = k
               /\ \A i \in 1 .. k : SubSeq(t, 1, k)[i] = t[i]
    BY <2>1
  <2>2. k <= Len(p)
    BY <1>1, <1>2
  <2>3. QED BY <1>1, <1>2, <2>1, <2>2
<1>4. \A i \in 1 .. k : Seen(ns, q[i], p[i])
  BY <1>1, <1>2 DEF SeenAs
<1>5. SeenAs(ns, SubSeq(q, 1, k), SubSeq(p, 1, k))
  BY <1>3, <1>4 DEF SeenAs
<1>6. QED BY <1>1, <1>2, <1>5

LEMMA SeenTail ==
  ASSUME NEW ns, NEW q, NEW p, SeenAs(ns, q, p), Len(q) > 0
  PROVE  SeenAs(ns, Tail(q), Tail(p))
<1>1. p \in Seq(Nat) /\ q \in Seq(Nat) /\ Len(p) = Len(q)
  BY DEF SeenAs
<1>2. /\ Tail(q) \in Seq(Nat) /\ Tail(p) \in Seq(Nat)
      /\ Len(Tail(q)) = Len(q) - 1 /\ Len(Tail(p)) = Len(q) - 1
      /\ \A i \in 1 .. (Len(q) - 1) : Tail(q)[i] = q[i + 1] /\ Tail(p)[i] = p[i + 1]
  BY <1>1
<1>3. \A i \in 1 .. (Len(q) - 1) : i + 1 \in 1 .. Len(q)
  BY <1>1
<1>4. QED BY <1>2, <1>3 DEF SeenAs

LEMMA SeenAt ==
  ASSUME NEW ns, NEW q, NEW p, SeenAs(ns, q, p), NEW i \in 1 .. Len(q), NEW v, NEW w, Seen(ns, v, w)
  PROVE  SeenAs(ns, [q EXCEPT ![i] = v], [p EXCEPT ![i] = w])
<1>1. p \in Seq(Nat) /\ q \in Seq(Nat) /\ Len(p) = Len(q) /\ v \in Nat /\ w \in Nat
  BY DEF SeenAs, Seen
<1>2. /\ [q EXCEPT ![i] = v] \in Seq(Nat) /\ [p EXCEPT ![i] = w] \in Seq(Nat)
      /\ Len([q EXCEPT ![i] = v]) = Len(q) /\ Len([p EXCEPT ![i] = w]) = Len(q)
  BY <1>1
<1>3. ASSUME NEW j \in 1 .. Len(q) PROVE Seen(ns, [q EXCEPT ![i] = v][j], [p EXCEPT ![i] = w][j])
  BY <1>1 DEF SeenAs
<1>4. QED BY <1>2, <1>3 DEF SeenAs

LEMMA SeenEmpty == ASSUME NEW ns PROVE SeenAs(ns, <<>>, <<>>) /\ Seen(ns, 0, 0)
BY DEF SeenAs, Seen

LEMMA ViewsPushed ==
  ASSUME NEW ns, NEW rs, NEW vs, Views(ns, rs, vs), NEW v, NEW w, Seen(ns, v, w)
  PROVE  Views(ns, Pushed(rs, v), Pushed(vs, w))
<1>1. "stack" \in RootSets
  BY DEF RootSets
<1>2. SeenAs(ns, rs.stack, vs.stack)
  BY <1>1 DEF Views
<1>3. SeenAs(ns, Append(rs.stack, v), Append(vs.stack, w))
  BY <1>2, SeenAppend
<1>4. PICK q, p : q = Append(rs.stack, v) /\ p = Append(vs.stack, w)
  OBVIOUS
<1>5. Views(ns, [rs EXCEPT !["stack"] = q], [vs EXCEPT !["stack"] = p])
  BY <1>1, <1>3, <1>4, ViewsWith
<1>6. Pushed(rs, v) = [rs EXCEPT !["stack"] = q] /\ Pushed(vs, w) = [vs EXCEPT !["stack"] = p]
  BY <1>4 DEF Pushed
<1>7. QED BY <1>5, <1>6

LEMMA ViewsDrop ==
  ASSUME NEW ns, NEW rs, NEW vs, Views(ns, rs, vs), NEW n \in Nat, n <= Len(rs.stack)
  PROVE  Views(ns, Drop(rs, n), Drop(vs, n))
<1>1. "stack" \in RootSets
  BY DEF RootSets
<1>2. SeenAs(ns, rs.stack, vs.stack)
  BY <1>1 DEF Views
<1>3. SeenAs(ns, SubSeq(rs.stack, 1, Len(rs.stack) - n), SubSeq(vs.stack, 1, Len(vs.stack) - n))
  BY <1>2, SeenFront
<1>4. PICK q, p : q = SubSeq(rs.stack, 1, Len(rs.stack) - n) /\ p = SubSeq(vs.stack, 1, Len(vs.stack) - n)
  OBVIOUS
<1>5. Views(ns, [rs EXCEPT !["stack"] = q], [vs EXCEPT !["stack"] = p])
  BY <1>1, <1>3, <1>4, ViewsWith
<1>6. Drop(rs, n) = [rs EXCEPT !["stack"] = q] /\ Drop(vs, n) = [vs EXCEPT !["stack"] = p]
  BY <1>4 DEF Drop
<1>7. QED BY <1>5, <1>6

LEMMA LengthsSeen ==
  ASSUME NEW ns, NEW rs, NEW vs, Views(ns, rs, vs)
  PROVE  /\ Len(vs.stack) = Len(rs.stack) /\ Len(vs.locals) = Len(rs.locals)
         /\ Len(vs.results) = Len(rs.results) /\ Len(vs.branches) = Len(rs.branches)
         /\ Len(rs.stack) \in Nat /\ Len(rs.locals) \in Nat
         /\ Len(rs.results) \in Nat /\ Len(rs.branches) \in Nat
         /\ \A n : Room(rs, n) <=> Room(vs, n)
<1>1. {"stack", "locals", "results", "branches"} = RootSets
  BY DEF RootSets
<1>2. /\ Len(vs.stack) = Len(rs.stack) /\ Len(vs.locals) = Len(rs.locals)
      /\ Len(vs.results) = Len(rs.results) /\ Len(vs.branches) = Len(rs.branches)
  BY <1>1 DEF Views, SeenAs
<1>3. /\ Len(rs.stack) \in Nat /\ Len(rs.locals) \in Nat
      /\ Len(rs.results) \in Nat /\ Len(rs.branches) \in Nat
  BY <1>1 DEF Views, RootsOK
<1>4. QED BY <1>2, <1>3 DEF Room

LEMMA PeekSeen ==
  ASSUME NEW ns, NEW rs, NEW vs, Views(ns, rs, vs), NEW k \in Nat, k < Len(rs.stack)
  PROVE  Seen(ns, Peek(rs, k), Peek(vs, k))
<1>1. Len(rs.stack) \in Nat /\ Len(vs.stack) = Len(rs.stack)
  BY LengthsSeen
<1>2. Len(rs.stack) - k \in 1 .. Len(rs.stack)
  BY <1>1
<1>3. SeenAs(ns, rs.stack, vs.stack)
  BY DEF Views, RootSets
<1>4. QED BY <1>1, <1>2, <1>3 DEF Peek, SeenAs

\* An opcode that moves values moves the objects behind them.
LEMMA MovedViews ==
  ASSUME NEW ns, NEW rs, NEW vs, Views(ns, rs, vs), NEW next, Moved(rs, next)
  PROVE  \E vnext : Moved(vs, vnext) /\ Views(ns, next, vnext)
<1>0. /\ Len(vs.stack) = Len(rs.stack) /\ Len(vs.locals) = Len(rs.locals)
      /\ Len(vs.results) = Len(rs.results) /\ Len(vs.branches) = Len(rs.branches)
      /\ Len(rs.stack) \in Nat /\ Room(rs, 0) <=> Room(vs, 0)
  BY LengthsSeen
<1>1. /\ SeenAs(ns, rs.locals, vs.locals) /\ SeenAs(ns, rs.results, vs.results)
      /\ SeenAs(ns, rs.branches, vs.branches)
      /\ "locals" \in RootSets /\ "results" \in RootSets /\ "branches" \in RootSets
  BY DEF Views, RootSets
<1>2. PICK below, vbelow, v, w : below = Drop(rs, 1) /\ vbelow = Drop(vs, 1) /\ v = Peek(rs, 0) /\ w = Peek(vs, 0)
  OBVIOUS
<1>3. ASSUME Len(rs.stack) >= 1
      PROVE  /\ Views(ns, below, vbelow) /\ Seen(ns, v, w)
             /\ below.locals = rs.locals /\ below.results = rs.results /\ below.branches = rs.branches
             /\ vbelow.locals = vs.locals /\ vbelow.results = vs.results /\ vbelow.branches = vs.branches
  <2>1. 1 <= Len(rs.stack) /\ 0 < Len(rs.stack)
    BY <1>0, <1>3
  <2>2. Views(ns, below, vbelow) /\ Seen(ns, v, w)
    BY <1>2, <2>1, ViewsDrop, PeekSeen
  <2>3. RootsOK(rs) /\ RootsOK(vs)
    BY DEF Views
  <2>4. QED BY <1>2, <2>2, <2>3 DEF Drop, RootsOK, RootSets, Cached
<1>4. CASE "PUSH" \in Opcodes /\ Room(rs, 0) /\ next = Pushed(rs, 0)
  <2>1. Views(ns, next, Pushed(vs, 0))
    BY <1>4, SeenEmpty, ViewsPushed
  <2>2. QED BY <1>0, <1>4, <2>1 DEF Moved
<1>5. CASE "POP" \in Opcodes /\ Len(rs.stack) >= 1 /\ next = Drop(rs, 1)
  BY <1>0, <1>2, <1>3, <1>5 DEF Moved
<1>6. ASSUME "STORE_LOCAL" \in Opcodes, Len(rs.stack) >= 1, NEW i \in 1 .. Len(rs.locals),
             next = [Drop(rs, 1) EXCEPT !.locals[i] = Peek(rs, 0)]
      PROVE  \E vnext : Moved(vs, vnext) /\ Views(ns, next, vnext)
  <2>1. PICK q, p : q = [rs.locals EXCEPT ![i] = v] /\ p = [vs.locals EXCEPT ![i] = w]
    OBVIOUS
  <2>2. SeenAs(ns, q, p)
    BY <1>1, <1>3, <1>6, <2>1, SeenAt
  <2>3. Views(ns, [below EXCEPT !["locals"] = q], [vbelow EXCEPT !["locals"] = p])
    BY <1>1, <1>3, <1>6, <2>2, ViewsWith
  <2>4. next = [below EXCEPT !["locals"] = q]
    BY <1>2, <1>3, <1>6, <2>1
  <2>5. [vbelow EXCEPT !["locals"] = p] = [Drop(vs, 1) EXCEPT !.locals[i] = Peek(vs, 0)]
    BY <1>2, <1>3, <1>6, <2>1
  <2>6. Moved(vs, [Drop(vs, 1) EXCEPT !.locals[i] = Peek(vs, 0)])
    BY <1>0, <1>6 DEF Moved
  <2>7. QED BY <2>3, <2>4, <2>5, <2>6
<1>7. CASE /\ "STORE_LOCAL" \in Opcodes /\ Len(rs.stack) >= 1 /\ Len(rs.locals) < LocalBound
           /\ next = [Drop(rs, 1) EXCEPT !.locals = Append(@, Peek(rs, 0))]
  <2>1. PICK q, p : q = Append(rs.locals, v) /\ p = Append(vs.locals, w)
    OBVIOUS
  <2>2. SeenAs(ns, q, p)
    BY <1>1, <1>3, <1>7, <2>1, SeenAppend
  <2>3. Views(ns, [below EXCEPT !["locals"] = q], [vbelow EXCEPT !["locals"] = p])
    BY <1>1, <1>3, <1>7, <2>2, ViewsWith
  <2>4. next = [below EXCEPT !["locals"] = q]
    BY <1>2, <1>3, <1>7, <2>1
  <2>5. [vbelow EXCEPT !["locals"] = p] = [Drop(vs, 1) EXCEPT !.locals = Append(@, Peek(vs, 0))]
    BY <1>2, <1>3, <1>7, <2>1
  <2>6. Moved(vs, [Drop(vs, 1) EXCEPT !.locals = Append(@, Peek(vs, 0))])
    BY <1>0, <1>7 DEF Moved
  <2>7. QED BY <2>3, <2>4, <2>5, <2>6
<1>8. ASSUME "LOAD_LOCAL" \in Opcodes, Room(rs, 0), NEW i \in 1 .. Len(rs.locals),
             next = Pushed(rs, rs.locals[i])
      PROVE  \E vnext : Moved(vs, vnext) /\ Views(ns, next, vnext)
  <2>1. Seen(ns, rs.locals[i], vs.locals[i])
    BY <1>1 DEF SeenAs
  <2>2. Views(ns, next, Pushed(vs, vs.locals[i]))
    BY <1>8, <2>1, ViewsPushed
  <2>3. Moved(vs, Pushed(vs, vs.locals[i]))
    BY <1>0, <1>8 DEF Moved
  <2>4. QED BY <2>2, <2>3
<1>9. CASE "RET" \in Opcodes /\ next = [rs EXCEPT !.locals = <<>>]
  <2>1. Views(ns, [rs EXCEPT !["locals"] = <<>>], [vs EXCEPT !["locals"] = <<>>])
    BY <1>1, SeenEmpty, ViewsWith
  <2>2. next = [rs EXCEPT !["locals"] = <<>>] /\ Moved(vs, [vs EXCEPT !["locals"] = <<>>])
    BY <1>9 DEF Moved
  <2>3. QED BY <2>1, <2>2
<1>10. CASE /\ "TASK" \in Opcodes /\ Len(rs.stack) >= 1
            /\ next = [Drop(rs, 1) EXCEPT
                         !.results = Append(IF Len(@) < ResultBound THEN @ ELSE Tail(@), Peek(rs, 0))]
  <2>1. PICK kept, vkept : /\ kept = IF Len(rs.results) < ResultBound THEN rs.results ELSE Tail(rs.results)
                           /\ vkept = IF Len(vs.results) < ResultBound THEN vs.results ELSE Tail(vs.results)
    OBVIOUS
  <2>2. SeenAs(ns, kept, vkept)
    <3>1. ResultBound > 0 /\ ResultBound \in Nat
      BY CapacityAssumption
    <3>2. CASE Len(rs.results) < ResultBound
      BY <1>0, <1>1, <2>1, <3>2
    <3>3. CASE ~ (Len(rs.results) < ResultBound)
      <4>1. Len(rs.results) > 0
        BY <3>1, <3>3, LengthsSeen
      <4>2. QED BY <1>0, <1>1, <2>1, <3>3, <4>1, SeenTail
    <3>4. QED BY <3>2, <3>3
  <2>3. PICK q, p : q = Append(kept, v) /\ p = Append(vkept, w)
    OBVIOUS
  <2>4. SeenAs(ns, q, p)
    BY <1>3, <1>10, <2>2, <2>3, SeenAppend
  <2>5. Views(ns, [below EXCEPT !["results"] = q], [vbelow EXCEPT !["results"] = p])
    BY <1>1, <1>3, <1>10, <2>4, ViewsWith
  <2>6. next = [below EXCEPT !["results"] = q]
    BY <1>2, <1>3, <1>10, <2>1, <2>3
  <2>7. [vbelow EXCEPT !["results"] = p] =
          [Drop(vs, 1) EXCEPT !.results = Append(IF Len(@) < ResultBound THEN @ ELSE Tail(@), Peek(vs, 0))]
    BY <1>2, <1>3, <1>10, <2>1, <2>3
  <2>8. Moved(vs, [Drop(vs, 1) EXCEPT
                     !.results = Append(IF Len(@) < ResultBound THEN @ ELSE Tail(@), Peek(vs, 0))])
    BY <1>0, <1>10 DEF Moved
  <2>9. QED BY <2>5, <2>6, <2>7, <2>8
<1>11. ASSUME "AWAIT" \in Opcodes, Room(rs, 0), NEW i \in 1 .. Len(rs.results),
              next = Pushed(rs, rs.results[i])
       PROVE  \E vnext : Moved(vs, vnext) /\ Views(ns, next, vnext)
  <2>1. Seen(ns, rs.results[i], vs.results[i])
    BY <1>1 DEF SeenAs
  <2>2. Views(ns, next, Pushed(vs, vs.results[i]))
    BY <1>11, <2>1, ViewsPushed
  <2>3. Moved(vs, Pushed(vs, vs.results[i]))
    BY <1>0, <1>11 DEF Moved
  <2>4. QED BY <2>2, <2>3
<1>12. CASE /\ "PAR_FORK" \in Opcodes /\ Len(rs.stack) >= 1 /\ Len(rs.branches) < BranchBound
            /\ next = [Drop(rs, 1) EXCEPT !.branches = Append(@, Peek(rs, 0))]
  <2>1. PICK q, p : q = Append(rs.branches, v) /\ p = Append(vs.branches, w)
    OBVIOUS
  <2>2. SeenAs(ns, q, p)
    BY <1>1, <1>3, <1>12, <2>1, SeenAppend
  <2>3. Views(ns, [below EXCEPT !["branches"] = q], [vbelow EXCEPT !["branches"] = p])
    BY <1>1, <1>3, <1>12, <2>2, ViewsWith
  <2>4. next = [below EXCEPT !["branches"] = q]
    BY <1>2, <1>3, <1>12, <2>1
  <2>5. [vbelow EXCEPT !["branches"] = p] = [Drop(vs, 1) EXCEPT !.branches = Append(@, Peek(vs, 0))]
    BY <1>2, <1>3, <1>12, <2>1
  <2>6. Moved(vs, [Drop(vs, 1) EXCEPT !.branches = Append(@, Peek(vs, 0))])
    BY <1>0, <1>12 DEF Moved
  <2>7. QED BY <2>3, <2>4, <2>5, <2>6
<1>13. QED
  BY <1>4, <1>5, <1>6, <1>7, <1>8, <1>9, <1>10, <1>11, <1>12 DEF Moved

LEMMA BranchesStayFew ==
  ASSUME NEW rs, RootsOK(rs), FewBranches(rs)
  PROVE  /\ \A v : FewBranches(Pushed(rs, v))
         /\ \A n : FewBranches(Drop(rs, n))
         /\ \A next : Moved(rs, next) => FewBranches(next)
<1>1. \A v : FewBranches(Pushed(rs, v))
  BY DEF FewBranches, Pushed, RootsOK, RootSets, Cached
<1>2. \A n : FewBranches(Drop(rs, n)) /\ Drop(rs, n).branches = rs.branches
  BY DEF FewBranches, Drop, RootsOK, RootSets, Cached
<1>3. ASSUME NEW next, Moved(rs, next) PROVE FewBranches(next)
  <2>1. PICK below : below = Drop(rs, 1)
    OBVIOUS
  <2>2. /\ below.branches = rs.branches /\ FewBranches(below)
        /\ DOMAIN below = RootSets \cup Cached /\ DOMAIN rs = RootSets \cup Cached
    BY <1>2, <2>1 DEF Drop, RootsOK
  <2>3. rs.branches \in Seq(Nat)
    BY DEF RootsOK, RootSets
  <2>4. \A v : Len(Append(rs.branches, v)) = Len(rs.branches) + 1 /\ Len(rs.branches) \in Nat
    BY <2>3
  <2>5. BranchBound \in Nat
    BY CapacityAssumption
  <2>6. \/ next.branches = rs.branches
        \/ Len(rs.branches) < BranchBound /\ next.branches = Append(rs.branches, Peek(rs, 0))
    BY <1>3, <2>1, <2>2 DEF Moved, RootSets, Cached, Pushed
  <2>7. QED BY <2>4, <2>5, <2>6 DEF FewBranches
<1>4. QED BY <1>1, <1>2, <1>3

-----------------------------------------------------------------------------
(* A collection does not show.                                              *)

\* What a heap shows: the objects vs behind its roots, os behind the children of
\* the node about to be made, and nodes that are what st says.
Shows(heap, st, vs, os) ==
  /\ Views(heap.nodes, heap.roots, vs)
  /\ Faithful(heap.nodes, st)
  /\ SeenKids(heap.nodes, heap.kids, os)

\* A heap that shows something has no handle that names nothing.
LEMMA ShownIsMappable ==
  ASSUME NEW heap, NEW st, NEW vs, NEW os, HeapOK(heap), Shows(heap, st, vs, os)
  PROVE  Mappable(heap, Live(heap))
<1> DEFINE live == Live(heap)
<1>1. live \in SUBSET Handles(heap) /\ Closed(heap, live)
  BY LiveFacts
<1> HIDE DEF live
<1>2. Held(heap.roots) \subseteq live
  <2>1. Held(heap.roots) \subseteq Handles(heap)
    BY ViewsHeld DEF Shows, Handles
  <2>2. QED BY <1>1, <2>1 DEF Closed
<1>3. ASSUME NEW i \in 1 .. Len(heap.kids) PROVE heap.kids[i] \in live
  <2>1. heap.kids[i] \in Handles(heap) /\ heap.kids[i] \in Extra(heap)
    BY DEF Shows, SeenKids, Handles, Extra
  <2>2. QED BY <1>1, <2>1 DEF Closed
<1>4. ASSUME NEW h \in live, NEW i \in 1 .. Len(heap.nodes[h].kids) PROVE heap.nodes[h].kids[i] \in live
  <2>1. heap.nodes[h].kids[i] \in Handles(heap)
    BY <1>1 DEF Shows, Faithful, SeenKids, Handles
  <2>2. heap.nodes[h].kids[i] \in KidsOf(heap, h)
    BY DEF KidsOf
  <2>3. QED BY <1>1, <2>1, <2>2 DEF Closed
<1>5. QED BY <1>2, <1>3, <1>4 DEF Mappable, live

\* A live node has its content under its new handle.
LEMMA KeptNode ==
  ASSUME NEW ns \in Seq(NodeRec), NEW live \in SUBSET (1 .. Len(ns)), NEW h \in live
  PROVE  /\ NewHandle(live, h) \in 1 .. Len(CompactedNodes(ns, live))
         /\ MovedFrom(CompactedNodes(ns, live)[NewHandle(live, h)], ns[h], live)
<1>0. PICK N \in Nat : N = Len(ns)
  OBVIOUS
<1>1. live \in SUBSET (1 .. N)
  BY <1>0
<1>2. PICK n : n = NewHandle(live, h)
  OBVIOUS
<1>3. n \in 1 .. Cardinality(live)
  BY <1>1, <1>2, NewHandlePositive
<1>4. OldHandle(live, n) \in live /\ NewHandle(live, OldHandle(live, n)) = n
  BY <1>1, <1>3, OldHandleIs
<1>5. OldHandle(live, n) = h
  BY <1>1, <1>2, <1>4, NewHandleDistinct
<1>6. /\ Len(CompactedNodes(ns, live)) = Cardinality(live)
      /\ MovedFrom(CompactedNodes(ns, live)[n], ns[OldHandle(live, n)], live)
  BY <1>3, CompactedOK
<1>7. QED BY <1>2, <1>3, <1>5, <1>6

LEMMA CompactShows ==
  ASSUME NEW heap, NEW st, NEW vs, NEW os, IsHeap(heap), HeapOK(heap), Shows(heap, st, vs, os),
         NEW c, c = Compact(heap)
  PROVE  Shows(c, st, vs, os) /\ c.error = heap.error
<1> DEFINE live == Live(heap)
<1>1. Mappable(heap, live)
  BY ShownIsMappable
<1>2. /\ IsHeap(c) /\ HeapOK(c) /\ c.error = heap.error
      /\ \A r \in RootSets : /\ Len(c.roots[r]) = Len(heap.roots[r])
                             /\ \A i \in 1 .. Len(heap.roots[r]) : c.roots[r][i] =
                                  IF heap.roots[r][i] = 0 THEN 0 ELSE NewHandle(live, heap.roots[r][i])
      /\ \A k \in Cached : c.roots[k] = IF heap.roots[k] = 0 THEN 0 ELSE NewHandle(live, heap.roots[k])
      /\ Len(c.kids) = Len(heap.kids)
      /\ \A i \in 1 .. Len(heap.kids) : c.kids[i] = NewHandle(live, heap.kids[i])
  BY <1>1, CompactOK DEF New
<1>3. c.nodes = CompactedNodes(heap.nodes, live)
  BY <1>1, CompactIs
<1>4. live \in SUBSET (1 .. Len(heap.nodes)) /\ heap.nodes \in Seq(NodeRec)
  BY LiveFacts DEF Handles, HeapOK
<1>5. /\ \A h \in live : \A i \in 1 .. Len(heap.nodes[h].kids) : heap.nodes[h].kids[i] \in live
      /\ Held(heap.roots) \subseteq live
      /\ \A i \in 1 .. Len(heap.kids) : heap.kids[i] \in live
  BY <1>1 DEF Mappable
<1> HIDE DEF live
<1>6. ASSUME NEW h \in live
      PROVE  NewHandle(live, h) \in 1 .. Len(c.nodes) /\ MovedFrom(c.nodes[NewHandle(live, h)], heap.nodes[h], live)
  BY <1>3, <1>4, KeptNode
<1>7. ASSUME NEW v, NEW w, Seen(heap.nodes, v, w), v # 0 => v \in live,
             NEW u, u = IF v = 0 THEN 0 ELSE NewHandle(live, v)
      PROVE  Seen(c.nodes, u, w)
  <2>1. CASE v = 0
    BY <1>7, <2>1 DEF Seen
  <2>2. CASE v # 0
    <3>1. u \in 1 .. Len(c.nodes) /\ c.nodes[u].obj = heap.nodes[v].obj
      BY <1>6, <1>7, <2>2 DEF MovedFrom
    <3>2. w \in Nat /\ w = heap.nodes[v].obj /\ w # 0
      BY <1>7, <2>2 DEF Seen
    <3>3. Len(c.nodes) \in Nat
      BY <1>2 DEF HeapOK
    <3>4. u \in Nat /\ u # 0
      BY <3>1, <3>3
    <3>5. QED BY <3>1, <3>2, <3>4 DEF Seen
  <2>3. QED BY <2>1, <2>2
<1>8. ASSUME NEW kids, NEW ws, SeenKids(heap.nodes, kids, ws), \A i \in 1 .. Len(kids) : kids[i] \in live,
             NEW kids2, Len(kids2) = Len(kids),
             \A i \in 1 .. Len(kids) : kids2[i] = NewHandle(live, kids[i])
      PROVE  SeenKids(c.nodes, kids2, ws)
  <2>1. ASSUME NEW i \in 1 .. Len(kids)
        PROVE  kids2[i] \in 1 .. Len(c.nodes) /\ ws[i] = c.nodes[kids2[i]].obj
    <3>1. kids[i] \in live /\ kids2[i] = NewHandle(live, kids[i]) /\ ws[i] = heap.nodes[kids[i]].obj
      BY <1>8 DEF SeenKids
    <3>2. kids2[i] \in 1 .. Len(c.nodes) /\ MovedFrom(c.nodes[kids2[i]], heap.nodes[kids[i]], live)
      BY <1>6, <3>1
    <3>3. QED BY <3>1, <3>2 DEF MovedFrom
  <2>2. QED BY <1>8, <2>1 DEF SeenKids
<1>9. RootsOK(heap.roots) /\ RootsOK(c.roots)
  BY <1>2 DEF HeapOK
<1>10. Views(c.nodes, c.roots, vs)
  <2>1. ASSUME NEW r \in RootSets PROVE SeenAs(c.nodes, c.roots[r], vs[r])
    <3>1. SeenAs(heap.nodes, heap.roots[r], vs[r])
      BY DEF Shows, Views
    <3>2. ASSUME NEW i \in 1 .. Len(heap.roots[r]) PROVE Seen(c.nodes, c.roots[r][i], vs[r][i])
      <4>1. Seen(heap.nodes, heap.roots[r][i], vs[r][i])
        BY <3>1 DEF SeenAs
      <4>2. heap.roots[r][i] # 0 => heap.roots[r][i] \in live
        BY <1>5, <1>9, HeldIs
      <4>3. c.roots[r][i] = IF heap.roots[r][i] = 0 THEN 0 ELSE NewHandle(live, heap.roots[r][i])
        BY <1>2
      <4>4. QED BY <1>7, <4>1, <4>2, <4>3
    <3>3. QED BY <1>2, <1>9, <3>1, <3>2 DEF SeenAs, RootsOK
  <2>2. ASSUME NEW k \in Cached PROVE Seen(c.nodes, c.roots[k], vs[k])
    <3>1. Seen(heap.nodes, heap.roots[k], vs[k])
      BY DEF Shows, Views
    <3>2. heap.roots[k] # 0 => heap.roots[k] \in live
      BY <1>5, <1>9, HeldIs
    <3>3. QED BY <1>2, <1>7, <3>1, <3>2
  <2>3. RootsOK(vs)
    BY DEF Shows, Views
  <2>4. QED BY <1>9, <2>1, <2>2, <2>3 DEF Views
<1>11. Faithful(c.nodes, st)
  <2> SUFFICES ASSUME NEW n \in 1 .. Len(c.nodes)
               PROVE  /\ st[c.nodes[n].obj].shape = c.nodes[n].shape
                      /\ SeenKids(c.nodes, c.nodes[n].kids, st[c.nodes[n].obj].kids)
    BY DEF Faithful
  <2>1. Len(c.nodes) = Cardinality(live)
    BY <1>3, <1>4, CompactedOK
  <2>2. PICK h \in live : MovedFrom(c.nodes[n], heap.nodes[h], live)
    BY <1>3, <1>4, <2>1, CompactedOK
  <2>3. /\ st[heap.nodes[h].obj].shape = heap.nodes[h].shape
        /\ SeenKids(heap.nodes, heap.nodes[h].kids, st[heap.nodes[h].obj].kids)
    BY <1>4 DEF Shows, Faithful
  <2>4. SeenKids(c.nodes, c.nodes[n].kids, st[heap.nodes[h].obj].kids)
    BY <1>5, <1>8, <2>2, <2>3 DEF MovedFrom
  <2>5. QED BY <2>2, <2>3, <2>4 DEF MovedFrom
<1>12. SeenKids(c.nodes, c.kids, os)
  BY <1>2, <1>5, <1>8 DEF Shows
<1>13. QED BY <1>2, <1>10, <1>11, <1>12 DEF Shows

-----------------------------------------------------------------------------
(* Making a node shows as a new object and nothing else.                    *)

\* ns2 has the nodes of ns, and possibly more.
Grown(ns, ns2) == Len(ns) <= Len(ns2) /\ \A h \in 1 .. Len(ns) : h \in 1 .. Len(ns2) /\ ns2[h] = ns[h]

LEMMA SeenInGrown ==
  ASSUME NEW ns, NEW ns2, Grown(ns, ns2)
  PROVE  /\ \A v, w : Seen(ns, v, w) => Seen(ns2, v, w)
         /\ \A rs, vs : Views(ns, rs, vs) => Views(ns2, rs, vs)
         /\ \A kids, os : SeenKids(ns, kids, os) => SeenKids(ns2, kids, os)
<1>1. ASSUME NEW v, NEW w, Seen(ns, v, w) PROVE Seen(ns2, v, w)
  BY <1>1 DEF Seen, Grown
<1>2. ASSUME NEW rs, NEW vs, Views(ns, rs, vs) PROVE Views(ns2, rs, vs)
  BY <1>1, <1>2 DEF Views, SeenAs
<1>3. ASSUME NEW kids, NEW os, SeenKids(ns, kids, os) PROVE SeenKids(ns2, kids, os)
  BY <1>3 DEF SeenKids, Grown
<1>4. QED BY <1>1, <1>2, <1>3

LEMMA AppendIsGrown ==
  ASSUME NEW ns \in Seq(NodeRec), NEW node \in NodeRec
  PROVE  /\ Grown(ns, Append(ns, node)) /\ Len(Append(ns, node)) = Len(ns) + 1
         /\ Append(ns, node)[Len(ns) + 1] = node
<1>1. Len(ns) \in Nat /\ Len(Append(ns, node)) = Len(ns) + 1 /\ Append(ns, node)[Len(ns) + 1] = node
  OBVIOUS
<1>2. \A h \in 1 .. Len(ns) : h \in 1 .. (Len(ns) + 1) /\ Append(ns, node)[h] = ns[h]
  BY <1>1
<1>3. QED BY <1>1, <1>2 DEF Grown

\* A new node for a new object.
LEMMA FaithfulAppend ==
  ASSUME NEW ns \in Seq(NodeRec), NEW st \in Seq(ObjectRec), Faithful(ns, st),
         \A h \in 1 .. Len(ns) : ns[h].obj \in 1 .. Len(st),
         NEW node \in NodeRec, NEW object \in ObjectRec,
         node.obj = Len(st) + 1, node.shape = object.shape, SeenKids(ns, node.kids, object.kids)
  PROVE  Faithful(Append(ns, node), Append(st, object))
<1> DEFINE ns2 == Append(ns, node)
           st2 == Append(st, object)
<1>1. Grown(ns, ns2) /\ Len(ns2) = Len(ns) + 1 /\ ns2[Len(ns) + 1] = node /\ Len(ns) \in Nat
  BY AppendIsGrown
<1>2. st2[Len(st) + 1] = object /\ \A o \in 1 .. Len(st) : st2[o] = st[o]
  OBVIOUS
<1> HIDE DEF ns2, st2
<1>3. SUFFICES ASSUME NEW h \in 1 .. Len(ns2)
               PROVE  /\ st2[ns2[h].obj].shape = ns2[h].shape
                      /\ SeenKids(ns2, ns2[h].kids, st2[ns2[h].obj].kids)
  BY DEF Faithful, ns2, st2
<1>4. CASE h \in 1 .. Len(ns)
  <2>1. ns2[h] = ns[h] /\ st2[ns[h].obj] = st[ns[h].obj]
    BY <1>1, <1>2, <1>4 DEF Grown
  <2>2. st[ns[h].obj].shape = ns[h].shape /\ SeenKids(ns, ns[h].kids, st[ns[h].obj].kids)
    BY <1>4 DEF Faithful
  <2>3. SeenKids(ns2, ns[h].kids, st[ns[h].obj].kids)
    BY <1>1, <2>2, SeenInGrown
  <2>4. QED BY <2>1, <2>2, <2>3
<1>5. CASE h = Len(ns) + 1
  <2>1. ns2[h] = node /\ st2[node.obj] = object
    BY <1>1, <1>2, <1>5
  <2>2. SeenKids(ns2, node.kids, object.kids)
    BY <1>1, SeenInGrown
  <2>3. QED BY <2>1, <2>2
<1>6. QED BY <1>1, <1>3, <1>4, <1>5

LEMMA PreparedShows ==
  ASSUME NEW heap, NEW m \in Nat, NEW rs, NEW nk, Good(heap, m, rs, nk), heap.error = "NONE",
         NEW st, NEW vs, NEW os, Shows(heap, st, vs, os), NEW attrs, NEW h \in Prepared(heap, attrs)
  PROVE  Good(h, m, rs, nk) /\ Shows(h, st, vs, os) /\ h.error = "NONE"
<1>1. PICK g : g = AfterProactiveGc(heap, attrs)
  OBVIOUS
<1>2. h = AfterForcedGc(g, attrs)
  BY <1>1 DEF Prepared
<1>3. ASSUME NEW a, Good(a, m, rs, nk), a.error = "NONE", Shows(a, st, vs, os), NEW b, b = Compact(a)
      PROVE  Good(b, m, rs, nk) /\ Shows(b, st, vs, os) /\ b.error = "NONE"
  <2>1. Good(b, m, rs, nk)
    BY <1>3, CompactGood
  <2>2. IsHeap(a) /\ HeapOK(a)
    BY <1>3 DEF Good
  <2>3. Shows(b, st, vs, os) /\ b.error = a.error
    BY <1>3, <2>2, CompactShows
  <2>4. QED BY <1>3, <2>1, <2>3
<1>4. g = heap \/ g = Compact(heap)
  BY <1>1 DEF AfterProactiveGc
<1>5. Good(g, m, rs, nk) /\ Shows(g, st, vs, os) /\ g.error = "NONE"
  BY <1>3, <1>4
<1>6. h = g \/ h = Compact(g)
  BY <1>2 DEF AfterForcedGc
<1>7. QED BY <1>3, <1>5, <1>6

LEMMA AppendedShows ==
  ASSUME NEW st \in Seq(ObjectRec), NEW m, m = Len(st),
         NEW heap, NEW rs, NEW nk, Good(heap, m, rs, nk), heap.error = "NONE",
         NEW vs, NEW os, Shows(heap, st, vs, os),
         NEW object \in ObjectRec, object.kids = os, NEW attrs \in Nat,
         NEW c, c = Appended(heap, object.shape, attrs, m + 1)
  PROVE  \/ /\ c.error = "NONE" /\ Seen(c.nodes, Len(c.nodes), m + 1)
            /\ Shows(c, Append(st, object), vs, os)
         \/ c.error = "MEMORY_PRESSURE"
<1>0. IsHeap(heap) /\ HeapOK(heap) /\ m \in Nat
  BY DEF Good
<1>1. CASE ~ Fits(heap, attrs)
  <2>1. c.error = "MEMORY_PRESSURE"
    BY <1>0, <1>1 DEF Appended, IsHeap
  <2>2. QED BY <2>1
<1>2. CASE Fits(heap, attrs)
  <2> DEFINE node == Node(m + 1, object.shape, attrs, heap.kids)
             ns   == Append(heap.nodes, node)
  <2>1. c = [heap EXCEPT !.nodes = ns, !.sinceGc = @ + 1]
    BY <1>2 DEF Appended
  <2>2. /\ node \in NodeRec /\ node.obj = m + 1 /\ node.shape = object.shape
        /\ node.kids = heap.kids
    <3>1. m + 1 \in Nat /\ heap.kids \in Seq(Nat) /\ object.shape \in Nat
      BY <1>0 DEF HeapOK, ObjectRec
    <3>2. QED BY <3>1, NodeTyped DEF Node
  <2> HIDE DEF node
  <2>3. heap.nodes \in Seq(NodeRec) /\ Len(heap.nodes) \in Nat
    BY <1>0 DEF HeapOK
  <2>4. Grown(heap.nodes, ns) /\ Len(ns) = Len(heap.nodes) + 1 /\ ns[Len(heap.nodes) + 1] = node
    BY <2>2, <2>3, AppendIsGrown
  <2>5. Faithful(ns, Append(st, object))
    <3>1. \A h \in 1 .. Len(heap.nodes) : heap.nodes[h].obj \in 1 .. Len(st)
      BY DEF Good
    <3>2. Faithful(heap.nodes, st) /\ SeenKids(heap.nodes, node.kids, object.kids)
      BY <2>2 DEF Shows
    <3>3. node.obj = Len(st) + 1 /\ node.shape = object.shape
      BY <2>2
    <3>4. QED BY <2>2, <2>3, <3>1, <3>2, <3>3, FaithfulAppend
  <2> HIDE DEF ns
  <2>6. /\ c.nodes = ns /\ c.roots = heap.roots /\ c.kids = heap.kids /\ c.error = "NONE"
    BY <1>0, <2>1 DEF IsHeap
  <2>7. Shows(c, Append(st, object), vs, os)
    <3>1. Views(ns, heap.roots, vs) /\ SeenKids(ns, heap.kids, os)
      BY <2>4, SeenInGrown DEF Shows
    <3>2. QED BY <2>5, <2>6, <3>1 DEF Shows
  <2>8. Seen(ns, Len(ns), m + 1)
    <3>1. Len(ns) \in Nat /\ Len(ns) # 0 /\ Len(ns) \in 1 .. Len(ns) /\ ns[Len(ns)].obj = m + 1
      BY <2>2, <2>3, <2>4
    <3>2. m + 1 \in Nat /\ m + 1 # 0
      BY <1>0
    <3>3. QED BY <3>1, <3>2 DEF Seen
  <2>9. QED BY <2>6, <2>7, <2>8
<1>3. QED BY <1>1, <1>2

\* The roots rs of the state show vs, and the nodes are what the store says.
StateShows(rs, vs) == Views(nodes, rs, vs) /\ Faithful(nodes, store)

LEMMA CreateShows ==
  ASSUME HeapInv, NEW rs, ArgvFirst(rs), NEW vs, StateShows(rs, vs),
         NEW kids \in Seq(Nat), NEW os, SeenKids(nodes, kids, os),
         NEW object \in ObjectRec, object.kids = os, NEW attrs \in Nat,
         NEW c \in CreateNodeRecord(rs, object.shape, attrs, kids, Fresh)
  PROVE  \/ /\ c.error = "NONE" /\ Seen(c.nodes, Len(c.nodes), Fresh)
            /\ Shows(c, Append(store, object), vs, os)
         \/ c.error = "MEMORY_PRESSURE"
<1>0. PICK m \in Nat : m = Len(store) /\ Fresh = m + 1 /\ store \in Seq(ObjectRec)
  BY FreshTyped DEF HeapInv, StoreOK, Fresh
<1> DEFINE heap == [nodes |-> nodes, roots |-> rs, kids |-> kids, sinceGc |-> sinceGc, error |-> "NONE"]
<1>1. PICK h \in Prepared(heap, attrs) : c = Appended(h, object.shape, attrs, m + 1)
  BY <1>0 DEF CreateNodeRecord
<1>2. IsHeap(heap)
  BY LiteralHeap
<1>3. /\ heap.nodes = nodes /\ heap.roots = rs /\ heap.kids = kids
      /\ heap.sinceGc = sinceGc /\ heap.error = "NONE"
  OBVIOUS
<1> HIDE DEF heap
<1>4. RootsOK(rs)
  BY DEF StateShows, Views
<1>5. Good(heap, m, rs, Len(kids))
  BY <1>0, <1>2, <1>3, <1>4 DEF Good, HeapInv, ArenaOK, GoodState, HeapOK
<1>6. Shows(heap, store, vs, os)
  BY <1>3 DEF Shows, StateShows
<1>7. Good(h, m, rs, Len(kids)) /\ Shows(h, store, vs, os) /\ h.error = "NONE"
  BY <1>3, <1>5, <1>6, PreparedShows
<1>8. PICK st \in Seq(ObjectRec) : st = store
  BY <1>0
<1>9. \/ /\ c.error = "NONE" /\ Seen(c.nodes, Len(c.nodes), m + 1)
         /\ Shows(c, Append(st, object), vs, os)
      \/ c.error = "MEMORY_PRESSURE"
  <2>1. m = Len(st) /\ Shows(h, st, vs, os)
    BY <1>0, <1>7, <1>8
  <2>2. PICK nk : Good(h, m, rs, nk) /\ h.error = "NONE"
    BY <1>7
  <2>3. c = Appended(h, object.shape, attrs, m + 1)
    BY <1>1
  <2>4. QED BY <2>1, <2>2, <2>3, AppendedShows, SMTT(30)
<1>10. QED BY <1>0, <1>8, <1>9

\* The two outcomes of making a node: object is new, and on top of the roots vs;
\* or there was no room.
Pressures == {"MEMORY_PRESSURE", "STRING_PRESSURE", "SYSCALL", "VM_LIMIT"}
Stops == error' \in Pressures /\ UNCHANGED store
Makes(vs, object) ==
  /\ error' = "NONE" /\ making' = Idle /\ store' = Append(store, object)
  /\ Views(nodes', roots', Pushed(vs, Fresh)) /\ Faithful(nodes', store')

LEMMA MakeAndPushShows ==
  ASSUME HeapInv, NEW rs, ArgvFirst(rs), NEW vs, StateShows(rs, vs),
         NEW kids \in Seq(Nat), NEW os, SeenKids(nodes, kids, os),
         NEW object \in ObjectRec, object.kids = os, NEW attrs \in Nat,
         MakeAndPush(rs, object.shape, attrs, kids, object)
  PROVE  Makes(vs, object) \/ Stops
<1>1. CASE Stop("STRING_PRESSURE")
  BY <1>1 DEF Stop, Stops, Pressures
<1>2. ASSUME NEW heap \in CreateNodeRecord(rs, object.shape, attrs, kids, Fresh),
             nodes' = heap.nodes /\ sinceGc' = heap.sinceGc /\ error' = heap.error,
             IF heap.error = "NONE"
             THEN /\ roots' = Pushed(heap.roots, Len(heap.nodes))
                  /\ making' = Idle
                  /\ store' = Append(store, object)
             ELSE /\ roots' = heap.roots
                  /\ making' = [Idle EXCEPT !.kids = heap.kids]
                  /\ UNCHANGED store
      PROVE  Makes(vs, object) \/ Stops
  <2>1. \/ /\ heap.error = "NONE" /\ Seen(heap.nodes, Len(heap.nodes), Fresh)
           /\ Shows(heap, Append(store, object), vs, os)
        \/ heap.error = "MEMORY_PRESSURE"
    BY <1>2, CreateShows
  <2>2. CASE heap.error = "NONE"
    <3>1. Views(heap.nodes, heap.roots, vs) /\ Faithful(heap.nodes, Append(store, object))
      BY <2>1, <2>2 DEF Shows
    <3>2. Views(heap.nodes, Pushed(heap.roots, Len(heap.nodes)), Pushed(vs, Fresh))
      BY <2>1, <2>2, <3>1, ViewsPushed
    <3>3. QED BY <1>2, <2>2, <3>1, <3>2 DEF Makes
  <2>3. CASE heap.error # "NONE"
    BY <1>2, <2>1, <2>3 DEF Stops, Pressures
  <2>4. QED BY <2>2, <2>3
<1>3. QED BY <1>1, <1>2 DEF MakeAndPush

-----------------------------------------------------------------------------
(* The mapping.                                                             *)

AbsRoots  == Renamed(roots, [h \in Held(roots) |-> Object(h)])
AbsMaking == [op |-> making.op, left |-> making.left, kids |-> making.objs, shape |-> making.shape]

\* NodeValues has its own copies of the operators of NodeRoots.
LEMMA SameRootOps ==
  ASSUME NEW rs, NEW n, NEW v
  PROVE  /\ Values!Pushed(rs, v) = Pushed(rs, v) /\ Values!Drop(rs, n) = Drop(rs, n)
         /\ Values!Peek(rs, n) = Peek(rs, n) /\ (Values!Room(rs, n) <=> Room(rs, n))
         /\ (Values!Moved(rs, v) <=> Moved(rs, v))
         /\ Values!EmptyRoots(v) = EmptyRoots(v) /\ Values!Fresh = Fresh
<1>1. /\ Values!Pushed(rs, v) = Pushed(rs, v) /\ Values!Drop(rs, n) = Drop(rs, n)
      /\ Values!Peek(rs, n) = Peek(rs, n) /\ (Values!Room(rs, n) <=> Room(rs, n))
  BY DEF Values!Pushed, Pushed, Values!Drop, Drop, Values!Peek, Peek, Values!Room, Room
<1>2. Values!Moved(rs, v) <=> Moved(rs, v)
  BY DEF Values!Moved, Moved, Values!Pushed, Pushed, Values!Drop, Drop, Values!Peek, Peek, Values!Room, Room
<1>3. Values!EmptyRoots(v) = EmptyRoots(v)
  BY DEF Values!EmptyRoots, EmptyRoots, Values!RootSets, RootSets, Values!Cached, Cached
<1>4. Values!Fresh = Fresh
  BY DEF Values!Fresh, Fresh
<1>5. QED BY <1>1, <1>2, <1>3, <1>4

LEMMA IdleMapped ==
  ASSUME making = Idle
  PROVE  AbsMaking = Values!Idle
BY DEF AbsMaking, Idle, Values!Idle

LEMMA IdleMappedAfter ==
  ASSUME making' = Idle
  PROVE  AbsMaking' = Values!Idle
BY DEF AbsMaking, Idle, Values!Idle

LEMMA MappedNow ==
  ASSUME HeapInv, ValuesInv, error = "NONE"
  PROVE  StateShows(roots, AbsRoots)
<1>1. /\ nodes \in Seq(NodeRec) /\ RootsOK(roots) /\ Held(roots) \subseteq 1 .. Len(nodes)
      /\ \A h \in 1 .. Len(nodes) : nodes[h].obj > 0
      /\ Faithful(nodes, store)
  BY DEF HeapInv, ArenaOK, GoodState, ValuesInv
<1>2. PICK f : f = [h \in Held(roots) |-> IF h \in 1 .. Len(nodes) THEN nodes[h].obj ELSE 0 - h]
  OBVIOUS
<1>3. AbsRoots = Renamed(roots, f)
  BY <1>2 DEF AbsRoots, Object, InArena
<1>4. Views(nodes, roots, Renamed(roots, f))
  BY <1>1, <1>2, MappingViews
<1>5. QED BY <1>1, <1>3, <1>4 DEF StateShows

LEMMA MappedAfter ==
  ASSUME HeapInv', NEW vs, Views(nodes', roots', vs)
  PROVE  AbsRoots' = vs /\ Held(roots') \subseteq 1 .. Len(nodes')
<1>1. /\ nodes' \in Seq(NodeRec) /\ RootsOK(roots') /\ \A h \in 1 .. Len(nodes') : nodes'[h].obj > 0
  BY DEF HeapInv, ArenaOK, GoodState
<1>2. Held(roots') \subseteq 1 .. Len(nodes')
  BY ViewsHeld
<1>3. PICK f : f = [h \in Held(roots') |-> IF h \in 1 .. Len(nodes') THEN nodes'[h].obj ELSE 0 - h]
  OBVIOUS
<1>4. AbsRoots' = Renamed(roots', f)
  BY <1>3 DEF AbsRoots, Object, InArena
<1>5. Views(nodes', roots', Renamed(roots', f))
  BY <1>1, <1>2, <1>3, MappingViews
<1>6. QED BY <1>2, <1>4, <1>5, OneView

LEMMA IdleRooted ==
  ASSUME making' = Idle
  PROVE  RootedFrame'
BY IdleOK DEF RootedFrame, SeenKids

\* A node made here is an object made there.
LEMMA MakesValue ==
  ASSUME HeapInv', error = "NONE", NEW vs, NEW sh, NEW os, NEW object,
         object = [shape |-> sh, kids |-> os], Makes(vs, object), RootsOK(vs), FewBranches(vs)
  PROVE  ValuesInv' /\ Values!Make(vs, sh, os)
<1>1. AbsRoots' = Pushed(vs, Fresh) /\ Held(roots') \subseteq 1 .. Len(nodes')
  BY MappedAfter DEF Makes
<1>2. AbsMaking' = Values!Idle /\ RootedFrame'
  BY IdleMappedAfter, IdleRooted DEF Makes
<1>3. AbsRoots' = Values!Pushed(vs, Values!Fresh)
  BY <1>1, SameRootOps
<1>4. Values!Make(vs, sh, os)
  BY <1>2, <1>3 DEF Values!Make, Makes, AbsRoots, AbsMaking
<1>5. FewBranches(roots')
  <2>1. FewBranches(Pushed(vs, Fresh))
    BY BranchesStayFew
  <2>2. Views(nodes', roots', Pushed(vs, Fresh))
    BY DEF Makes
  <2>3. QED BY <2>1, <2>2, LengthsSeen DEF FewBranches
<1>6. QED BY <1>1, <1>2, <1>4, <1>5 DEF ValuesInv, Makes

LEMMA StopsThere ==
  ASSUME error = "NONE", Stops
  PROVE  ValuesInv' /\ Values!OutOfMemory
BY DEF Stops, Pressures, ValuesInv, Values!OutOfMemory

LEMMA StopStops ==
  ASSUME NEW e \in Pressures, Stop(e)
  PROVE  Stops
BY DEF Stop, Stops

\* A step that only moves handles to vs.
LEMMA RootsOnly ==
  ASSUME HeapInv', ValuesInv, error = "NONE", UNCHANGED <<nodes, making, error, store>>,
         NEW vs, Views(nodes, roots', vs), FewBranches(roots')
  PROVE  ValuesInv' /\ AbsRoots' = vs /\ AbsMaking' = AbsMaking
<1>1. AbsRoots' = vs /\ Held(roots') \subseteq 1 .. Len(nodes')
  BY MappedAfter
<1>2. Faithful(nodes', store') /\ RootedFrame'
  BY DEF ValuesInv, RootedFrame
<1>3. QED BY <1>1, <1>2 DEF ValuesInv, AbsMaking

-----------------------------------------------------------------------------
(* The actions.                                                             *)

\* What is shown of a step from a state that shows vs.
Implements == ValuesInv' /\ Values!Next

LEMMA RunningThere ==
  ASSUME error = "NONE", making = Idle
  PROVE  Values!Running
BY IdleMapped DEF Values!Running, AbsMaking

\* Where an action starts: the objects vs behind the roots, a running program.
LEMMA StartOf ==
  ASSUME HeapInv, ValuesInv, error = "NONE"
  PROVE  \E vs : /\ vs = AbsRoots /\ StateShows(roots, vs) /\ RootsOK(roots) /\ ArgvFirst(roots)
                 /\ FewBranches(roots) /\ FewBranches(vs) /\ RootsOK(vs)
                 /\ Len(vs.stack) = Len(roots.stack) /\ Len(roots.stack) \in Nat
                 /\ \A n : Values!Room(vs, n) <=> Room(roots, n)
<1>1. PICK vs : vs = AbsRoots
  OBVIOUS
<1>2. StateShows(roots, vs)
  BY <1>1, MappedNow
<1>3. RootsOK(roots) /\ ArgvFirst(roots)
  BY DEF HeapInv, ArenaOK, GoodState
<1>4. /\ Len(vs.stack) = Len(roots.stack) /\ Len(roots.stack) \in Nat
      /\ \A n : Room(roots, n) <=> Room(vs, n)
  BY <1>2, LengthsSeen DEF StateShows
<1>5. \A n : Values!Room(vs, n) <=> Room(roots, n)
  BY <1>4, SameRootOps
<1>6. FewBranches(roots) /\ FewBranches(vs) /\ RootsOK(vs)
  BY <1>2, LengthsSeen DEF StateShows, Views, FewBranches, ValuesInv
<1>7. QED BY <1>1, <1>2, <1>3, <1>4, <1>5, <1>6

LEMMA MoveShows == HeapInv /\ HeapInv' /\ ValuesInv /\ Move => Implements
<1> SUFFICES ASSUME HeapInv, HeapInv', ValuesInv, Move PROVE Implements
  OBVIOUS
<1>1. /\ error = "NONE" /\ making = Idle /\ Moved(roots, roots')
      /\ UNCHANGED <<nodes, making, error, store>>
  BY DEF Move, Running
<1>2. PICK vs : vs = AbsRoots /\ StateShows(roots, vs) /\ FewBranches(roots')
  <2>1. RootsOK(roots) /\ FewBranches(roots)
    BY <1>1, StartOf
  <2>2. FewBranches(roots')
    BY <1>1, <2>1, BranchesStayFew
  <2>3. QED BY <1>1, <2>2, StartOf
<1>3. PICK vnext : Moved(vs, vnext) /\ Views(nodes, roots', vnext)
  BY <1>1, <1>2, MovedViews DEF StateShows
<1>4. ValuesInv' /\ AbsRoots' = vnext /\ AbsMaking' = AbsMaking
  BY <1>1, <1>2, <1>3, RootsOnly
<1>5. Values!Moved(AbsRoots, AbsRoots')
  BY <1>2, <1>3, <1>4, SameRootOps
<1>6. Values!Move
  BY <1>1, <1>4, <1>5, RunningThere DEF Values!Move, AbsRoots, AbsMaking
<1>7. QED BY <1>4, <1>6 DEF Implements, Values!Next

LEMMA LeafShows == HeapInv /\ HeapInv' /\ ValuesInv /\ Leaf => Implements
<1> SUFFICES ASSUME HeapInv, HeapInv', ValuesInv, Leaf PROVE Implements
  OBVIOUS
<1>1. PICK op \in DOMAIN LeafOps :
        /\ Uses(op) /\ Room(roots, LeafOps[op].pops)
        /\ MakeAndPush(Drop(roots, LeafOps[op].pops), Fresh, LeafOps[op].attrs, <<>>,
                       [shape |-> Fresh, kids |-> <<>>])
  BY DEF Leaf
<1>2. PICK n, attrs : n = LeafOps[op].pops /\ attrs = LeafOps[op].attrs /\ n \in {1, 2, 4} /\ attrs \in Nat
  BY <1>1, LeafOpsAre
<1>3. error = "NONE" /\ making = Idle
  BY <1>1 DEF Uses, Running
<1>4. PICK vs : /\ vs = AbsRoots /\ StateShows(roots, vs) /\ RootsOK(roots) /\ ArgvFirst(roots)
                /\ FewBranches(vs) /\ RootsOK(vs)
                /\ Len(roots.stack) \in Nat /\ \A k : Values!Room(vs, k) <=> Room(roots, k)
  BY <1>3, StartOf
<1>5. PICK rs : rs = Drop(roots, n)
  OBVIOUS
<1>6. n \in Nat /\ n <= Len(roots.stack)
  BY <1>1, <1>2, <1>4 DEF Room
<1>7. StateShows(rs, Drop(vs, n)) /\ ArgvFirst(rs)
  <2>1. Views(nodes, rs, Drop(vs, n))
    BY <1>4, <1>5, <1>6, ViewsDrop DEF StateShows
  <2>2. ArgvFirst(rs)
    BY <1>4, <1>5, <1>6, DropOK, SameArgv
  <2>3. QED BY <1>4, <2>1, <2>2 DEF StateShows
<1>8. PICK object : object = [shape |-> Fresh, kids |-> <<>>]
  OBVIOUS
<1>9. object \in ObjectRec /\ object.shape = Fresh /\ object.kids = <<>>
  BY <1>8, NewObjectTyped
<1>10. SeenKids(nodes, <<>>, <<>>) /\ <<>> \in Seq(Nat)
  BY DEF SeenKids
<1>11. MakeAndPush(rs, object.shape, attrs, <<>>, object)
  BY <1>1, <1>2, <1>5, <1>8, <1>9
<1>12. Makes(Drop(vs, n), object) \/ Stops
  BY <1>2, <1>7, <1>9, <1>10, <1>11, MakeAndPushShows
<1>13. CASE Makes(Drop(vs, n), object)
  <2>1. PICK ws : ws = Drop(vs, n) /\ FewBranches(ws) /\ RootsOK(ws)
    BY <1>4, <1>7, BranchesStayFew DEF StateShows, Views
  <2>2. ValuesInv' /\ Values!Make(ws, Fresh, <<>>)
    BY <1>3, <1>8, <1>13, <2>1, MakesValue
  <2>3. ws = Values!Drop(AbsRoots, n) /\ Values!Room(AbsRoots, n) /\ Values!Fresh = Fresh
    BY <1>1, <1>2, <1>4, <2>1, SameRootOps
  <2>4. Values!Leaf
    BY <1>2, <1>3, <2>2, <2>3, RunningThere DEF Values!Leaf, AbsRoots
  <2>5. QED BY <2>2, <2>4 DEF Implements, Values!Next
<1>14. CASE Stops
  BY <1>3, <1>14, StopsThere DEF Implements, Values!Next
<1>15. QED BY <1>12, <1>13, <1>14

LEMMA InspectShows == HeapInv /\ HeapInv' /\ ValuesInv /\ Inspect => Implements
<1> SUFFICES ASSUME HeapInv, HeapInv', ValuesInv, Inspect PROVE Implements
  OBVIOUS
<1>1. error = "NONE" /\ making = Idle /\ Len(roots.stack) >= 1 /\ Peek(roots, 0) # 0
  BY DEF Inspect, Uses, Running
<1>2. PICK vs : /\ vs = AbsRoots /\ StateShows(roots, vs) /\ Len(roots.stack) \in Nat
                /\ Len(vs.stack) = Len(roots.stack) /\ FewBranches(roots)
  BY <1>1, StartOf
<1>3. 0 < Len(roots.stack) /\ 1 <= Len(roots.stack)
  BY <1>1, <1>2
<1>4. Seen(nodes, Peek(roots, 0), Peek(vs, 0))
  BY <1>2, <1>3, PeekSeen DEF StateShows
<1>5. InArena(Peek(roots, 0)) /\ Peek(vs, 0) # 0
  BY <1>1, <1>4 DEF Seen, InArena
<1>6. roots' = Pushed(Drop(roots, 1), 0) /\ UNCHANGED <<nodes, making, error, store>>
  BY <1>5 DEF Inspect
<1>7. Views(nodes, Drop(roots, 1), Drop(vs, 1))
  BY <1>2, <1>3, ViewsDrop DEF StateShows
<1>8. PICK ws : ws = Pushed(Drop(vs, 1), 0)
  OBVIOUS
<1>9. Views(nodes, roots', ws)
  BY <1>6, <1>7, <1>8, SeenEmpty, ViewsPushed
<1>10. ValuesInv' /\ AbsRoots' = ws /\ AbsMaking' = AbsMaking
  <2>1. FewBranches(roots')
    BY <1>2, <1>6, <1>7, BranchesStayFew DEF StateShows, Views
  <2>2. QED BY <1>1, <1>6, <1>9, <2>1, RootsOnly
<1>11. /\ AbsRoots' = Values!Pushed(Values!Drop(AbsRoots, 1), 0)
       /\ Len(AbsRoots.stack) >= 1 /\ Values!Peek(AbsRoots, 0) # 0
  BY <1>1, <1>2, <1>5, <1>8, <1>10, SameRootOps
<1>12. Values!Inspect
  BY <1>1, <1>6, <1>10, <1>11, RunningThere DEF Values!Inspect, AbsRoots, AbsMaking
<1>13. QED BY <1>10, <1>12 DEF Implements, Values!Next

LEMMA ProcessArgsShows == HeapInv /\ HeapInv' /\ ValuesInv /\ ProcessArgs => Implements
<1> SUFFICES ASSUME HeapInv, HeapInv', ValuesInv, ProcessArgs PROVE Implements
  OBVIOUS
<1>1. /\ error = "NONE" /\ making = Idle /\ Room(roots, 0) /\ roots' = Pushed(roots, 1)
      /\ UNCHANGED <<nodes, making, error, store>>
  BY DEF ProcessArgs, Uses, Running
<1>2. PICK vs : /\ vs = AbsRoots /\ StateShows(roots, vs) /\ ArgvFirst(roots) /\ FewBranches(roots)
                /\ \A k : Values!Room(vs, k) <=> Room(roots, k)
  BY <1>1, StartOf
<1>3. Seen(nodes, 1, vs.argv)
  <2>1. Seen(nodes, roots["argv"], vs["argv"])
    BY <1>2 DEF StateShows, Views, Cached
  <2>2. QED BY <1>2, <2>1 DEF ArgvFirst
<1>4. PICK ws : ws = Pushed(vs, vs.argv)
  OBVIOUS
<1>5. Views(nodes, roots', ws)
  BY <1>1, <1>2, <1>3, <1>4, ViewsPushed DEF StateShows
<1>6. ValuesInv' /\ AbsRoots' = ws /\ AbsMaking' = AbsMaking
  <2>1. FewBranches(roots')
    BY <1>1, <1>2, BranchesStayFew DEF StateShows, Views
  <2>2. QED BY <1>1, <1>5, <2>1, RootsOnly
<1>7. AbsRoots' = Values!Pushed(AbsRoots, AbsRoots.argv) /\ Values!Room(AbsRoots, 0)
  BY <1>1, <1>2, <1>4, <1>6, SameRootOps
<1>8. Values!ProcessArgs
  BY <1>1, <1>6, <1>7, RunningThere DEF Values!ProcessArgs, AbsRoots, AbsMaking
<1>9. QED BY <1>6, <1>8 DEF Implements, Values!Next

LEMMA ChildAtShows == HeapInv /\ HeapInv' /\ ValuesInv /\ ChildAt => Implements
<1> SUFFICES ASSUME HeapInv, HeapInv', ValuesInv, ChildAt PROVE Implements
  OBVIOUS
<1>1. error = "NONE" /\ making = Idle /\ Room(roots, 2) /\ Peek(roots, 1) # 0
  BY DEF ChildAt, Uses, Running
<1>2. PICK vs : /\ vs = AbsRoots /\ StateShows(roots, vs) /\ Len(roots.stack) \in Nat
                /\ FewBranches(roots) /\ \A k : Values!Room(vs, k) <=> Room(roots, k)
  BY <1>1, StartOf
<1>3. 1 < Len(roots.stack) /\ 2 <= Len(roots.stack)
  BY <1>1, <1>2 DEF Room
<1>4. PICK v, w : v = Peek(roots, 1) /\ w = Peek(vs, 1)
  OBVIOUS
<1>5. Seen(nodes, v, w)
  BY <1>2, <1>3, <1>4, PeekSeen DEF StateShows
<1>6. v \in 1 .. Len(nodes) /\ w = nodes[v].obj /\ w # 0
  BY <1>1, <1>4, <1>5 DEF Seen
<1>7. PICK i \in 1 .. Len(nodes[v].kids) : roots' = Pushed(Drop(roots, 2), nodes[v].kids[i])
  BY <1>4, <1>6 DEF ChildAt, InArena
<1>8. UNCHANGED <<nodes, making, error, store>>
  BY <1>4, <1>6 DEF ChildAt, InArena
<1>9. SeenKids(nodes, nodes[v].kids, store[w].kids)
  BY <1>2, <1>6 DEF StateShows, Faithful
<1>10. i \in 1 .. Len(store[w].kids) /\ Seen(nodes, nodes[v].kids[i], store[w].kids[i])
  <2>1. PICK h : h = nodes[v].kids[i]
    OBVIOUS
  <2>2. i \in 1 .. Len(store[w].kids) /\ h \in 1 .. Len(nodes) /\ store[w].kids[i] = nodes[h].obj
    BY <1>7, <1>9, <2>1 DEF SeenKids
  <2>3. nodes[h].obj \in Nat /\ nodes[h].obj # 0 /\ h \in Nat /\ h # 0
    BY <2>2, NodeFacts
  <2>4. Seen(nodes, h, store[w].kids[i])
    BY <2>2, <2>3 DEF Seen
  <2>5. QED BY <2>1, <2>2, <2>4
<1>11. Views(nodes, Drop(roots, 2), Drop(vs, 2))
  BY <1>2, <1>3, ViewsDrop DEF StateShows
<1>12. PICK ws : ws = Pushed(Drop(vs, 2), store[w].kids[i])
  OBVIOUS
<1>13. Views(nodes, roots', ws)
  BY <1>7, <1>10, <1>11, <1>12, ViewsPushed
<1>14. ValuesInv' /\ AbsRoots' = ws /\ AbsMaking' = AbsMaking
  <2>1. FewBranches(roots')
    BY <1>2, <1>7, <1>11, BranchesStayFew DEF StateShows, Views
  <2>2. QED BY <1>1, <1>8, <1>13, <2>1, RootsOnly
<1>15. /\ w = Values!Peek(AbsRoots, 1) /\ Values!Room(AbsRoots, 2)
       /\ AbsRoots' = Values!Pushed(Values!Drop(AbsRoots, 2), store[w].kids[i])
  BY <1>1, <1>2, <1>4, <1>12, <1>14, SameRootOps
<1>16. Values!ChildAt
  BY <1>1, <1>6, <1>8, <1>10, <1>14, <1>15, RunningThere DEF Values!ChildAt, AbsRoots, AbsMaking
<1>17. QED BY <1>14, <1>16 DEF Implements, Values!Next

LEMMA AppendChildShows == HeapInv /\ HeapInv' /\ ValuesInv /\ AppendChild => Implements
<1> SUFFICES ASSUME HeapInv, HeapInv', ValuesInv, AppendChild PROVE Implements
  OBVIOUS
<1>1. /\ error = "NONE" /\ making = Idle /\ Room(roots, 2) /\ Peek(roots, 1) # 0 /\ Peek(roots, 0) # 0
  BY DEF AppendChild, Uses, Running
<1>2. PICK vs : /\ vs = AbsRoots /\ StateShows(roots, vs) /\ Len(roots.stack) \in Nat
                /\ RootsOK(roots) /\ ArgvFirst(roots) /\ FewBranches(vs) /\ RootsOK(vs)
                /\ \A k : Values!Room(vs, k) <=> Room(roots, k)
  BY <1>1, StartOf
<1>3. 0 < Len(roots.stack) /\ 1 < Len(roots.stack) /\ 2 <= Len(roots.stack)
  BY <1>1, <1>2 DEF Room
<1>4. PICK b, c, vb, vc : /\ b = Peek(roots, 1) /\ c = Peek(roots, 0)
                          /\ vb = Peek(vs, 1) /\ vc = Peek(vs, 0)
  OBVIOUS
<1>5. Seen(nodes, b, vb) /\ Seen(nodes, c, vc)
  BY <1>2, <1>3, <1>4, PeekSeen DEF StateShows
<1>6. /\ b \in 1 .. Len(nodes) /\ vb = nodes[b].obj /\ vb # 0
      /\ c \in 1 .. Len(nodes) /\ vc = nodes[c].obj /\ vc # 0
  BY <1>1, <1>4, <1>5 DEF Seen
<1>7. PICK kids, os, attrs : /\ kids = Append(nodes[b].kids, c) /\ os = Append(store[vb].kids, vc)
                             /\ attrs = nodes[b].attrs
  OBVIOUS
<1>8. /\ attrs \in Nat /\ nodes[b].kids \in Seq(Nat) /\ store[vb] \in ObjectRec
      /\ store[vb].shape = nodes[b].shape /\ SeenKids(nodes, nodes[b].kids, store[vb].kids)
  BY <1>2, <1>6, <1>7, NodeFacts DEF StateShows, Faithful
<1>9. store[vb].kids \in Seq(Nat) /\ store[vb].shape \in Nat /\ c \in Nat /\ vc \in Nat
  BY <1>5, <1>8 DEF ObjectRec, Seen
<1>10. kids \in Seq(Nat) /\ os \in Seq(Nat) /\ SeenKids(nodes, kids, os)
  <2>1. kids \in Seq(Nat) /\ os \in Seq(Nat) /\ Len(kids) = Len(nodes[b].kids) + 1
        /\ Len(os) = Len(store[vb].kids) + 1 /\ Len(nodes[b].kids) \in Nat
    BY <1>7, <1>8, <1>9
  <2>2. Len(store[vb].kids) = Len(nodes[b].kids)
    BY <1>8 DEF SeenKids
  <2>3. ASSUME NEW i \in 1 .. Len(kids) PROVE kids[i] \in 1 .. Len(nodes) /\ os[i] = nodes[kids[i]].obj
    <3>1. CASE i \in 1 .. Len(nodes[b].kids)
      <4>1. kids[i] = nodes[b].kids[i] /\ os[i] = store[vb].kids[i]
        BY <1>7, <1>8, <1>9, <2>2, <3>1
      <4>2. QED BY <1>8, <3>1, <4>1 DEF SeenKids
    <3>2. CASE i = Len(nodes[b].kids) + 1
      <4>1. kids[Len(nodes[b].kids) + 1] = c
        BY <1>7, <1>8, <1>9
      <4>2. os[Len(store[vb].kids) + 1] = vc
        BY <1>7, <1>9
      <4>3. kids[i] = c /\ os[i] = vc
        BY <2>2, <3>2, <4>1, <4>2
      <4>4. QED BY <1>6, <4>3
    <3>3. i \in 1 .. Len(nodes[b].kids) \/ i = Len(nodes[b].kids) + 1
      <4>1. PICK k \in Nat : k = Len(nodes[b].kids) /\ Len(kids) = k + 1
        BY <2>1
      <4>2. i \in 1 .. k + 1
        BY <4>1
      <4>3. QED BY <4>1, <4>2
    <3>4. QED BY <3>1, <3>2, <3>3
  <2>4. QED BY <2>1, <2>2, <2>3 DEF SeenKids
<1>11. PICK sh : sh = store[vb].shape
  OBVIOUS
<1>12. PICK object : object = [store[vb] EXCEPT !.kids = Append(@, vc)]
  OBVIOUS
<1>13. /\ object = [shape |-> sh, kids |-> os] /\ object \in ObjectRec /\ object.shape = sh
       /\ object.kids = os
  <2>1. object = [store[vb] EXCEPT !.kids = os]
    BY <1>7, <1>8, <1>12 DEF ObjectRec
  <2>2. object = [shape |-> sh, kids |-> os]
    BY <1>8, <1>11, <2>1 DEF ObjectRec
  <2>3. [shape |-> sh, kids |-> os] \in ObjectRec
    BY <1>9, <1>10, <1>11, ObjectTyped
  <2>4. QED BY <2>2, <2>3
<1>14. Stop("VM_LIMIT") \/ MakeAndPush(Drop(roots, 2), sh, attrs, kids, object)
  BY <1>4, <1>6, <1>7, <1>8, <1>11, <1>12 DEF AppendChild, InArena
<1>15. CASE Stop("VM_LIMIT")
  <2>1. Stops
    BY <1>15, StopStops DEF Pressures
  <2>2. QED BY <1>1, <2>1, StopsThere DEF Implements, Values!Next
<1>16. CASE MakeAndPush(Drop(roots, 2), sh, attrs, kids, object)
  <2>1. PICK rs, ws : rs = Drop(roots, 2) /\ ws = Drop(vs, 2)
    OBVIOUS
  <2>2. StateShows(rs, ws) /\ ArgvFirst(rs)
    <3>1. Views(nodes, rs, ws)
      BY <1>2, <1>3, <2>1, ViewsDrop DEF StateShows
    <3>2. ArgvFirst(rs)
      BY <1>2, <1>3, <2>1, DropOK, SameArgv
    <3>3. QED BY <1>2, <3>1, <3>2 DEF StateShows
  <2>3. MakeAndPush(rs, object.shape, attrs, kids, object)
    BY <1>13, <1>16, <2>1
  <2>4. Makes(ws, object) \/ Stops
    BY <1>8, <1>10, <1>13, <2>2, <2>3, MakeAndPushShows
  <2>5. CASE Makes(ws, object)
    <3>0. FewBranches(ws) /\ RootsOK(ws)
      BY <1>2, <2>1, <2>2, BranchesStayFew DEF StateShows, Views
    <3>1. ValuesInv' /\ Values!Make(ws, sh, os)
      BY <1>1, <1>13, <2>5, <3>0, MakesValue
    <3>2. /\ ws = Values!Drop(AbsRoots, 2) /\ Values!Room(AbsRoots, 2)
          /\ vb = Values!Peek(AbsRoots, 1) /\ vc = Values!Peek(AbsRoots, 0)
      BY <1>1, <1>2, <1>4, <2>1, SameRootOps
    <3>3. Values!Make(Values!Drop(AbsRoots, 2), store[Values!Peek(AbsRoots, 1)].shape,
                      Append(store[Values!Peek(AbsRoots, 1)].kids, Values!Peek(AbsRoots, 0)))
      BY <1>7, <1>11, <3>1, <3>2
    <3>4. Values!AppendChild
      BY <1>1, <1>6, <3>2, <3>3, RunningThere DEF Values!AppendChild, AbsRoots
    <3>5. QED BY <3>1, <3>4 DEF Implements, Values!Next
  <2>6. CASE Stops
    BY <1>1, <2>6, StopsThere DEF Implements, Values!Next
  <2>7. QED BY <2>4, <2>5, <2>6
<1>17. QED BY <1>14, <1>15, <1>16

LEMMA HostNodeShows == HeapInv /\ HeapInv' /\ ValuesInv /\ HostNode => Implements
<1> SUFFICES ASSUME HeapInv, HeapInv', ValuesInv, HostNode PROVE Implements
  OBVIOUS
<1>1. error = "NONE" /\ making = Idle /\ Room(roots, 0) /\ (AppendHostNode(roots) \/ Stop("SYSCALL"))
  BY DEF HostNode, Uses, Running
<1>2. PICK vs : /\ vs = AbsRoots /\ StateShows(roots, vs) /\ FewBranches(vs) /\ RootsOK(vs)
                /\ \A k : Values!Room(vs, k) <=> Room(roots, k)
  BY <1>1, StartOf
<1>3. CASE Stop("SYSCALL")
  <2>1. Stops
    BY <1>3, StopStops DEF Pressures
  <2>2. QED BY <1>1, <2>1, StopsThere DEF Implements, Values!Next
<1>4. CASE AppendHostNode(roots)
  <2>1. PICK node, object : /\ node = Node(Fresh, Fresh, HostAttrs, <<>>)
                            /\ object = [shape |-> Fresh, kids |-> <<>>]
    OBVIOUS
  <2>2. Fresh \in Nat /\ Fresh = Len(store) + 1 /\ Fresh # 0 /\ <<>> \in Seq(Nat)
    BY FreshTyped DEF Fresh
  <2>3. /\ node \in NodeRec /\ node.obj = Fresh /\ node.shape = Fresh /\ node.kids = <<>>
        /\ object \in ObjectRec /\ object.shape = Fresh /\ object.kids = <<>>
    BY <2>1, <2>2, HostAttrsTyped, NodeTyped, NewObjectTyped DEF Node
  <2>4. /\ nodes \in Seq(NodeRec) /\ store \in Seq(ObjectRec)
        /\ \A h \in 1 .. Len(nodes) : nodes[h].obj \in 1 .. Len(store)
    BY DEF HeapInv, StoreOK, ArenaOK, GoodState
  <2>5. SeenKids(nodes, node.kids, object.kids)
    BY <2>3 DEF SeenKids
  <2>6. /\ nodes' = Append(nodes, node) /\ store' = Append(store, object)
        /\ roots' = Pushed(roots, Len(nodes) + 1) /\ making' = Idle /\ error' = "NONE"
    BY <1>1, <1>4, <2>1 DEF AppendHostNode
  <2>7. Faithful(nodes', store')
    <3>1. node.obj = Len(store) + 1 /\ node.shape = object.shape /\ Faithful(nodes, store)
      BY <1>2, <2>2, <2>3 DEF StateShows
    <3>2. QED BY <2>3, <2>4, <2>5, <2>6, <3>1, FaithfulAppend
  <2>8. Grown(nodes, nodes') /\ Len(nodes') = Len(nodes) + 1 /\ nodes'[Len(nodes) + 1] = node /\ Len(nodes) \in Nat
    BY <2>3, <2>4, <2>6, AppendIsGrown
  <2>9. Views(nodes', roots, vs)
    BY <1>2, <2>8, SeenInGrown DEF StateShows
  <2>10. Seen(nodes', Len(nodes) + 1, Fresh)
    BY <2>2, <2>3, <2>8 DEF Seen
  <2>11. Views(nodes', roots', Pushed(vs, Fresh))
    BY <2>6, <2>9, <2>10, ViewsPushed
  <2>12. Makes(vs, object)
    BY <2>6, <2>7, <2>11 DEF Makes
  <2>13. ValuesInv' /\ Values!Make(vs, Fresh, <<>>)
    BY <1>1, <1>2, <2>1, <2>12, MakesValue
  <2>14. Values!Room(AbsRoots, 0) /\ Values!Fresh = Fresh
    BY <1>1, <1>2, SameRootOps
  <2>15. Values!HostNode
    BY <1>1, <1>2, <2>13, <2>14, RunningThere DEF Values!HostNode, AbsRoots
  <2>16. QED BY <2>13, <2>15 DEF Implements, Values!Next
<1>5. QED BY <1>1, <1>3, <1>4

-----------------------------------------------------------------------------
(* MAKE_FIELD_STRING and PAR_JOIN.                                          *)

LEMMA SameMakerOps ==
  ASSUME NEW op, NEW rs, NEW n, NEW v
  PROVE  /\ Values!ManyOps = ManyOps /\ (Values!CanBegin(op, rs, n) <=> CanBegin(op, rs, n))
         /\ Values!Begun(op, rs) = Begun(op, rs)
         /\ Values!ChildValue(op, rs, n) = ChildValue(op, rs, n)
         /\ Values!ChildTaken(op, rs) = ChildTaken(op, rs)
         /\ Values!WithChild(op, n, v) = WithChild(op, n, v)
         /\ Values!Joined(op, rs) = Joined(op, rs)
<1>1. Values!ManyOps = ManyOps
  BY DEF Values!ManyOps, ManyOps
<1>2. Values!CanBegin(op, rs, n) <=> CanBegin(op, rs, n)
  BY SameRootOps DEF Values!CanBegin, CanBegin
<1>3. Values!Begun(op, rs) = Begun(op, rs)
  BY SameRootOps DEF Values!Begun, Begun
<1>4. /\ Values!ChildValue(op, rs, n) = ChildValue(op, rs, n)
      /\ Values!ChildTaken(op, rs) = ChildTaken(op, rs)
  BY SameRootOps DEF Values!ChildValue, ChildValue, Values!ChildTaken, ChildTaken
<1>5. Values!WithChild(op, n, v) = WithChild(op, n, v) /\ Values!Joined(op, rs) = Joined(op, rs)
  BY DEF Values!WithChild, WithChild, Values!Joined, Joined
<1>6. QED BY <1>1, <1>2, <1>3, <1>4, <1>5

\* What the two opcodes ask of the roots, and start with.
LEMMA RootedBegin ==
  ASSUME NEW rs, NEW n
  PROVE  /\ Begun("MAKE_FIELD_STRING", rs) = Pushed(Drop(rs, 2), Peek(rs, 0))
         /\ Begun("PAR_JOIN", rs) = rs
         /\ CanBegin("MAKE_FIELD_STRING", rs, n) <=> Len(rs.stack) >= 2 /\ Peek(rs, 1) = 0 /\ n = 1
         /\ CanBegin("PAR_JOIN", rs, n) <=> Room(rs, 0) /\ n = Len(rs.branches)
<1>1. CanBegin("MAKE_FIELD_STRING", rs, n) <=> Len(rs.stack) >= 2 /\ Peek(rs, 1) = 0 /\ n = 1
  BY DEF CanBegin
<1>2. CanBegin("PAR_JOIN", rs, n) <=> Room(rs, 0) /\ n = Len(rs.branches)
  BY DEF CanBegin
<1>3. QED BY <1>1, <1>2, BeginCases

LEMMA BegunViews ==
  ASSUME NEW ns, NEW rs, NEW vs, Views(ns, rs, vs), FewBranches(rs),
         NEW op \in {"MAKE_FIELD_STRING", "PAR_JOIN"}, NEW n, CanBegin(op, rs, n)
  PROVE  /\ CanBegin(op, vs, n) /\ Views(ns, Begun(op, rs), Begun(op, vs))
         /\ FewBranches(Begun(op, rs)) /\ (op = "PAR_JOIN" => n <= BranchBound)
         /\ (op # "PAR_JOIN" => n = 1)
<1>0. /\ Len(vs.stack) = Len(rs.stack) /\ Len(rs.stack) \in Nat /\ Len(vs.branches) = Len(rs.branches)
      /\ (Room(rs, 0) <=> Room(vs, 0)) /\ RootsOK(rs)
  BY LengthsSeen DEF Views
<1>1. CASE op = "PAR_JOIN"
  <2>1. Room(rs, 0) /\ n = Len(rs.branches) /\ Begun(op, rs) = rs /\ Begun(op, vs) = vs
    BY <1>1, RootedBegin
  <2>2. CanBegin(op, vs, n)
    BY <1>0, <1>1, <2>1, RootedBegin
  <2>3. QED BY <1>1, <2>1, <2>2 DEF FewBranches
<1>2. CASE op = "MAKE_FIELD_STRING"
  <2>1. /\ Len(rs.stack) >= 2 /\ Peek(rs, 1) = 0 /\ n = 1
        /\ Begun(op, rs) = Pushed(Drop(rs, 2), Peek(rs, 0)) /\ Begun(op, vs) = Pushed(Drop(vs, 2), Peek(vs, 0))
    BY <1>2, RootedBegin
  <2>2. 0 < Len(rs.stack) /\ 1 < Len(rs.stack) /\ 2 <= Len(rs.stack)
    BY <1>0, <2>1
  <2>3. Seen(ns, Peek(rs, 0), Peek(vs, 0)) /\ Seen(ns, Peek(rs, 1), Peek(vs, 1))
    BY <2>2, PeekSeen
  <2>4. Peek(vs, 1) = 0
    BY <2>1, <2>3 DEF Seen
  <2>5. CanBegin(op, vs, n)
    BY <1>0, <1>2, <2>1, <2>4, RootedBegin
  <2>6. Views(ns, Drop(rs, 2), Drop(vs, 2))
    BY <2>2, ViewsDrop
  <2>7. Views(ns, Begun(op, rs), Begun(op, vs))
    BY <2>1, <2>3, <2>6, ViewsPushed
  <2>8. FewBranches(Begun(op, rs))
    <3>1. RootsOK(Drop(rs, 2)) /\ FewBranches(Drop(rs, 2))
      BY <1>0, <2>6, BranchesStayFew DEF Views
    <3>2. QED BY <2>1, <3>1, BranchesStayFew
  <2>9. QED BY <1>2, <2>1, <2>5, <2>7, <2>8
<1>3. QED BY <1>1, <1>2

LEMMA BeginShows == RootedOnly /\ HeapInv /\ HeapInv' /\ ValuesInv /\ Begin => Implements
<1> SUFFICES ASSUME RootedOnly, HeapInv, HeapInv', ValuesInv, Begin PROVE Implements
  OBVIOUS
<1>1. PICK op \in ManyOps, n \in 0 .. StackBound :
        /\ Uses(op) /\ CanBegin(op, roots, n)
        /\ LET template == IF op = "MAKE_NODE" THEN Peek(roots, 1) ELSE 0
           IN  IF op = "MAKE_NODE" /\ ~ InArena(template) THEN Stop("DANGLING")
               ELSE /\ making' = [op |-> op, left |-> n, kids |-> <<>>, template |-> template, objs |-> <<>>,
                                  shape |-> IF op = "MAKE_NODE" THEN store[nodes[template].obj].shape ELSE 0]
                    /\ roots' = Begun(op, roots)
                    /\ UNCHANGED <<nodes, sinceGc, error, store>>
  BY DEF Begin
<1>2. error = "NONE" /\ making = Idle /\ op \in Opcodes
  BY <1>1 DEF Uses, Running
<1>3. op \in {"MAKE_FIELD_STRING", "PAR_JOIN"} /\ op # "MAKE_NODE" /\ op # "NONE"
  BY <1>1, <1>2 DEF RootedOnly, ManyOps
<1>4. /\ making' = [op |-> op, left |-> n, kids |-> <<>>, template |-> 0, objs |-> <<>>, shape |-> 0]
      /\ roots' = Begun(op, roots) /\ UNCHANGED <<nodes, error, store>>
  BY <1>1, <1>3
<1>5. /\ making'.op = op /\ making'.left = n /\ making'.kids = <<>> /\ making'.objs = <<>>
      /\ making'.shape = 0
  BY <1>4
<1>6. PICK vs : vs = AbsRoots /\ StateShows(roots, vs) /\ FewBranches(roots)
  BY <1>2, StartOf
<1>7. /\ CanBegin(op, vs, n) /\ Views(nodes, roots', Begun(op, vs)) /\ FewBranches(roots')
      /\ (op = "PAR_JOIN" => n <= BranchBound) /\ (op # "PAR_JOIN" => n = 1)
  BY <1>1, <1>3, <1>4, <1>6, BegunViews DEF StateShows
<1>8. n <= 1 /\ n \in Nat
  <2>1. n \in Nat /\ BranchBound \in Nat
    BY <1>1, CapacityAssumption
  <2>2. op = "PAR_JOIN" => BranchBound <= 1
    BY <1>2 DEF RootedOnly
  <2>3. QED BY <1>7, <2>1, <2>2
<1>9. RootedFrame'
  <2>1. SeenKids(nodes', <<>>, <<>>) /\ Len(<<>>) = 0 /\ n + 0 <= 1
    BY <1>8 DEF SeenKids
  <2>2. SeenKids(nodes', making'.kids, making'.objs) /\ Len(making'.kids) = 0
    BY <1>5, <2>1, Zenon
  <2>3. QED BY <1>3, <1>5, <2>1, <2>2 DEF RootedFrame
<1>10. AbsRoots' = Begun(op, vs) /\ Held(roots') \subseteq 1 .. Len(nodes')
  BY <1>4, <1>7, MappedAfter
<1>11. ValuesInv'
  <2>1. Faithful(nodes', store')
    BY <1>4, <1>6 DEF StateShows
  <2>2. QED BY <1>7, <1>9, <1>10, <2>1 DEF ValuesInv
<1>12. AbsMaking' = [op |-> op, left |-> n, kids |-> <<>>, shape |-> 0]
  BY <1>5 DEF AbsMaking
<1>13. Values!Begin
  <2>1. op \in Values!ManyOps \cap Opcodes /\ Values!CanBegin(op, AbsRoots, n) /\ AbsRoots' = Values!Begun(op, AbsRoots)
    BY <1>1, <1>2, <1>6, <1>7, <1>10, SameMakerOps
  <2>2. Values!Running /\ UNCHANGED <<store, error>>
    BY <1>2, <1>4, RunningThere
  <2>3. AbsMaking' = [op |-> op, left |-> n, kids |-> <<>>,
                      shape |-> IF op = "MAKE_NODE" THEN store[Values!Peek(AbsRoots, 1)].shape ELSE 0]
    BY <1>3, <1>12
  <2>4. QED BY <1>1, <2>1, <2>2, <2>3 DEF Values!Begin, AbsRoots, AbsMaking
<1>14. QED BY <1>11, <1>13 DEF Implements, Values!Next

\* The opcode under way has one child to take and has taken none.
LEMMA FirstChild ==
  ASSUME HeapInv, RootedFrame, making.left > 0
  PROVE  /\ making.left = 1 /\ making.kids = <<>> /\ making.objs = <<>> /\ Len(making.kids) = 0
         /\ making.op \in {"MAKE_FIELD_STRING", "PAR_JOIN"}
<1>1. /\ making.left \in Nat /\ making.kids \in Seq(Nat) /\ making.objs \in Seq(Nat)
      /\ making.op = "NONE" => making.left = 0
  BY DEF HeapInv, MakingOK
<1>2. PICK l \in Nat : l = making.left
  BY <1>1
<1>3. PICK k \in Nat : k = Len(making.kids)
  <2>1. Len(making.kids) \in Nat
    BY <1>1
  <2>2. QED BY <2>1
<1>4. l = 1 /\ k = 0
  BY <1>2, <1>3 DEF RootedFrame
<1>5. Len(making.objs) = 0
  BY <1>3, <1>4 DEF RootedFrame, SeenKids
<1>6. making.kids = <<>> /\ making.objs = <<>>
  BY <1>1, <1>3, <1>4, <1>5, EmptySeq
<1>7. QED BY <1>1, <1>2, <1>3, <1>4, <1>6 DEF RootedFrame

LEMMA FirstWithChild ==
  ASSUME NEW op, NEW v \in Nat
  PROVE  WithChild(op, <<>>, v) = <<v>> /\ <<v>> \in Seq(Nat) /\ Len(<<v>>) = 1 /\ <<v>>[1] = v
<1>1. Append(<<>>, v) = <<v>>
  OBVIOUS
<1>2. <<v>> \in Seq(Nat) /\ Len(<<v>>) = 1 /\ <<v>>[1] = v
  OBVIOUS
<1>3. <<v>> \o <<>> = <<v>>
  BY <1>2, ConcatEmptySeq
<1>4. QED BY <1>1, <1>2, <1>3 DEF WithChild

\* The frame with the child v, which is the object w.
Took(v, w) == making' = [making EXCEPT !.left = @ - 1, !.kids = WithChild(making.op, @, v),
                                       !.objs = WithChild(making.op, @, w)]
TookThere(w) == AbsMaking' = [AbsMaking EXCEPT !.left = @ - 1, !.kids = Values!WithChild(making.op, @, w)]

LEMMA TookShows ==
  ASSUME HeapInv, RootedFrame, making.left > 0, NEW v, NEW w, Seen(nodes', v, w), v # 0, Took(v, w)
  PROVE  RootedFrame' /\ TookThere(w)
<1>1. /\ making.left = 1 /\ making.kids = <<>> /\ making.objs = <<>>
      /\ making.op \in {"MAKE_FIELD_STRING", "PAR_JOIN"}
  BY FirstChild
<1>2. v \in Nat /\ w \in Nat /\ v \in 1 .. Len(nodes') /\ w = nodes'[v].obj
  BY DEF Seen
<1>3. DOMAIN making = {"op", "left", "kids", "template", "objs", "shape"}
  BY DEF HeapInv, MakingOK
<1>4. PICK ks, os : ks = WithChild(making.op, making.kids, v) /\ os = WithChild(making.op, making.objs, w)
  OBVIOUS
<1>5. ks = <<v>> /\ os = <<w>>
  BY <1>1, <1>2, <1>4, FirstWithChild
<1>6. making' = [making EXCEPT !.left = 0, !.kids = ks, !.objs = os]
  BY <1>1, <1>4 DEF Took
<1>7. /\ making'.op = making.op /\ making'.left = 0 /\ making'.kids = ks /\ making'.objs = os
      /\ making'.shape = making.shape
  BY <1>3, <1>6
<1>8. SeenKids(nodes', ks, os) /\ Len(ks) = 1
  <2>1. Len(ks) = 1 /\ ks[1] = v /\ Len(os) = 1 /\ os[1] = w
    BY <1>2, <1>5, FirstWithChild
  <2>2. QED BY <1>2, <2>1 DEF SeenKids
<1>9. RootedFrame'
  <2>1. SeenKids(nodes', making'.kids, making'.objs) /\ Len(making'.kids) = 1
    BY <1>7, <1>8, Zenon
  <2>2. making'.left + Len(making'.kids) <= 1
    BY <1>7, <2>1
  <2>3. QED BY <1>1, <1>7, <2>1, <2>2 DEF RootedFrame
<1>10. Values!WithChild(making.op, making.objs, w) = os
  BY <1>4, SameMakerOps
<1>11. TookThere(w)
  <2>1. PICK sh, op : sh = making.shape /\ op = making.op
    OBVIOUS
  <2>2. AbsMaking = [op |-> op, left |-> 1, kids |-> making.objs, shape |-> sh]
    BY <1>1, <2>1 DEF AbsMaking
  <2>3. AbsMaking' = [op |-> op, left |-> 0, kids |-> os, shape |-> sh]
    BY <1>7, <2>1 DEF AbsMaking
  <2>4. AbsMaking.left - 1 = 0 /\ Values!WithChild(making.op, AbsMaking.kids, w) = os
    BY <1>10, <2>2
  <2>5. [AbsMaking EXCEPT !.left = 0, !.kids = os] = [op |-> op, left |-> 0, kids |-> os, shape |-> sh]
    <3>1. PICK m, k : m = [op |-> op, left |-> 1, kids |-> k, shape |-> sh] /\ m = AbsMaking
      BY <2>2
    <3>2. PICK r : r = [m EXCEPT !.left = 0, !.kids = os]
      OBVIOUS
    <3>3. r = [i \in {"op", "left", "kids", "shape"} |-> r[i]]
      BY <3>1, <3>2
    <3>4. r.op = op /\ r.left = 0 /\ r.kids = os /\ r.shape = sh
      BY <3>1, <3>2
    <3>5. r = [op |-> op, left |-> 0, kids |-> os, shape |-> sh]
      BY <3>3, <3>4
    <3>6. QED BY <3>1, <3>2, <3>5
  <2>6. QED BY <2>3, <2>4, <2>5 DEF TookThere
<1>12. QED BY <1>9, <1>11

\* The value that becomes the child, and the roots without it.
LEMMA ChildViews ==
  ASSUME HeapInv, RootedFrame, making.left > 0, NEW vs, Views(nodes, roots, vs), FewBranches(roots)
  PROVE  /\ Seen(nodes, ChildValue(making.op, roots, Len(making.kids)),
                        ChildValue(making.op, vs, Len(making.kids)))
         /\ Views(nodes, ChildTaken(making.op, roots), ChildTaken(making.op, vs))
         /\ FewBranches(ChildTaken(making.op, roots))
<1>1. making.left = 1 /\ making.op \in {"MAKE_FIELD_STRING", "PAR_JOIN"} /\ Len(making.kids) = 0
  BY FirstChild
<1>2. CASE making.op = "PAR_JOIN"
  <2>1. Len(roots.branches) = 1
    BY <1>1, <1>2 DEF HeapInv, MakingOK
  <2>2. SeenAs(nodes, roots.branches, vs.branches)
    BY DEF Views, RootSets
  <2>3. Seen(nodes, roots.branches[1], vs.branches[1])
    BY <2>1, <2>2 DEF SeenAs
  <2>4. QED BY <1>1, <1>2, <2>3 DEF ChildValue, ChildTaken
<1>3. CASE making.op = "MAKE_FIELD_STRING"
  <2>1. 1 <= Len(roots.stack) /\ 0 < Len(roots.stack)
    <3>1. making.left <= Len(roots.stack)
      BY <1>3 DEF HeapInv, MakingOK, ManyOps
    <3>2. QED BY <1>1, <3>1, RootsFacts
  <2>2. Seen(nodes, Peek(roots, 0), Peek(vs, 0)) /\ Views(nodes, Drop(roots, 1), Drop(vs, 1))
    BY <2>1, PeekSeen, ViewsDrop
  <2>3. FewBranches(Drop(roots, 1))
    BY RootsFacts, BranchesStayFew
  <2>4. QED BY <1>3, <2>2, <2>3 DEF ChildValue, ChildTaken
<1>4. QED BY <1>1, <1>2, <1>3

LEMMA TakeChildShows == HeapInv /\ HeapInv' /\ ValuesInv /\ TakeChild => Implements
<1> SUFFICES ASSUME HeapInv, HeapInv', ValuesInv, TakeChild PROVE Implements
  OBVIOUS
<1> DEFINE child == ChildValue(making.op, roots, Len(making.kids))
           left  == ChildTaken(making.op, roots)
<1>0. /\ error = "NONE" /\ making.left > 0
      /\ \/ /\ child # 0 /\ Took(child, IF InArena(child) THEN nodes[child].obj ELSE 0)
            /\ roots' = left /\ UNCHANGED <<nodes, error, store>>
         \/ /\ child = 0
            /\ \E attrs \in {0, 1} : \E heap \in CreateNodeRecord(left, Fresh, attrs, <<>>, Fresh) :
                 /\ nodes' = heap.nodes /\ roots' = heap.roots /\ error' = heap.error
                 /\ IF heap.error = "NONE"
                    THEN /\ Took(Len(heap.nodes), Fresh)
                         /\ store' = Append(store, [shape |-> Fresh, kids |-> <<>>])
                    ELSE making' = Idle /\ UNCHANGED store
         \/ Stop("STRING_PRESSURE")
  BY Zenon DEF TakeChild, Took
<1>1. error = "NONE" /\ making.left > 0 /\ RootedFrame
  BY <1>0 DEF ValuesInv
<1>2. PICK vs : /\ vs = AbsRoots /\ StateShows(roots, vs) /\ FewBranches(roots)
  BY <1>1, StartOf
<1>3. PICK op, value, w, rs, ws :
        /\ op = making.op /\ rs = ChildTaken(op, roots) /\ ws = ChildTaken(op, vs)
        /\ value = ChildValue(op, roots, Len(making.kids))
        /\ w = ChildValue(op, vs, Len(making.kids))
  OBVIOUS
<1>4. Seen(nodes, value, w) /\ Views(nodes, rs, ws) /\ FewBranches(rs)
  BY <1>1, <1>2, <1>3, ChildViews DEF StateShows
<1>5. Len(AbsMaking.kids) = Len(making.kids) /\ AbsMaking.op = op /\ AbsMaking.left > 0
  BY <1>1, <1>3, FirstChild DEF AbsMaking
<1>6. /\ w = Values!ChildValue(AbsMaking.op, AbsRoots, Len(AbsMaking.kids))
      /\ ws = Values!ChildTaken(AbsMaking.op, AbsRoots)
  BY <1>2, <1>3, <1>5, SameMakerOps
\* The rest of the step, once the child v is known to be the object o.
<1>7. ASSUME error' = "NONE", Views(nodes', roots', ws), Faithful(nodes', store'),
             NEW v, NEW o, Seen(nodes', v, o), v # 0, o = IF w = 0 THEN Fresh ELSE w,
             Took(v, o),
             store' = IF w = 0 THEN Append(store, [shape |-> Fresh, kids |-> <<>>]) ELSE store
      PROVE  Implements
  <2>1. RootedFrame' /\ TookThere(o)
    BY <1>1, <1>3, <1>7, TookShows
  <2>2. AbsRoots' = ws /\ Held(roots') \subseteq 1 .. Len(nodes')
    BY <1>7, MappedAfter
  <2>3. FewBranches(roots')
    BY <1>4, <1>7, LengthsSeen DEF FewBranches
  <2>4. ValuesInv'
    BY <1>7, <2>1, <2>2, <2>3 DEF ValuesInv
  <2>5. Fresh = Values!Fresh
    BY SameRootOps
  <2>6. Values!TakeChild
    <3>1. AbsMaking' = [AbsMaking EXCEPT !.left = @ - 1, !.kids = Values!WithChild(AbsMaking.op, @, o)]
      BY <1>3, <1>5, <2>1 DEF TookThere
    <3>2. /\ o = IF w = 0 THEN Values!Fresh ELSE w
          /\ store' = IF w = 0 THEN Append(store, [shape |-> Values!Fresh, kids |-> <<>>]) ELSE store
      BY <1>7, <2>5
    <3>3. AbsRoots' = Values!ChildTaken(AbsMaking.op, AbsRoots) /\ UNCHANGED error
      BY <1>1, <1>6, <1>7, <2>2
    <3>4. QED BY <1>1, <1>5, <1>6, <3>1, <3>2, <3>3 DEF Values!TakeChild, AbsRoots, AbsMaking
  <2>7. QED BY <2>4, <2>6 DEF Implements, Values!Next
<1>8. CASE Stop("STRING_PRESSURE")
  <2>1. Stops
    BY <1>8, StopStops DEF Pressures
  <2>2. QED BY <1>1, <2>1, StopsThere DEF Implements, Values!Next
<1>9. ASSUME value # 0, roots' = rs, UNCHANGED <<nodes, error, store>>, NEW o,
             o = (IF InArena(value) THEN nodes[value].obj ELSE 0), Took(value, o)
      PROVE  Implements
  <2>1. value \in 1 .. Len(nodes) /\ w = nodes[value].obj /\ w # 0
    BY <1>4, <1>9 DEF Seen
  <2>2. o = w
    BY <1>9, <2>1 DEF InArena
  <2>3. error' = "NONE" /\ Views(nodes', roots', ws) /\ Faithful(nodes', store') /\ Seen(nodes', value, o)
    BY <1>1, <1>2, <1>4, <1>9, <2>2 DEF StateShows
  <2>4. o = (IF w = 0 THEN Fresh ELSE w)
        /\ store' = IF w = 0 THEN Append(store, [shape |-> Fresh, kids |-> <<>>]) ELSE store
    BY <1>9, <2>1, <2>2
  <2>5. QED BY <1>7, <1>9, <2>3, <2>4
<1>10. ASSUME value = 0, NEW attrs \in {0, 1}, NEW heap \in CreateNodeRecord(rs, Fresh, attrs, <<>>, Fresh),
              nodes' = heap.nodes /\ roots' = heap.roots /\ error' = heap.error,
              IF heap.error = "NONE"
              THEN /\ Took(Len(heap.nodes), Fresh)
                   /\ store' = Append(store, [shape |-> Fresh, kids |-> <<>>])
              ELSE making' = Idle /\ UNCHANGED store
       PROVE  Implements
  <2>1. w = 0 /\ attrs \in Nat
    BY <1>4, <1>10 DEF Seen
  <2>2. PICK object : object = [shape |-> Fresh, kids |-> <<>>]
    OBVIOUS
  <2>3. object \in ObjectRec /\ object.shape = Fresh /\ object.kids = <<>>
    BY <2>2, NewObjectTyped
  <2>4. SeenKids(nodes, <<>>, <<>>) /\ <<>> \in Seq(Nat)
    BY DEF SeenKids
  <2>5. StateShows(rs, ws) /\ ArgvFirst(rs)
    BY <1>1, <1>2, <1>3, <1>4, ChildTakenOK DEF StateShows
  <2>6. \/ /\ heap.error = "NONE" /\ Seen(heap.nodes, Len(heap.nodes), Fresh)
           /\ Shows(heap, Append(store, object), ws, <<>>)
        \/ heap.error = "MEMORY_PRESSURE"
    <3>1. heap \in CreateNodeRecord(rs, object.shape, attrs, <<>>, Fresh)
      BY <1>10, <2>3
    <3>2. QED BY <2>1, <2>3, <2>4, <2>5, <3>1, CreateShows
  <2>7. CASE heap.error = "NONE"
    <3>1. Views(nodes', roots', ws) /\ Faithful(nodes', store') /\ error' = "NONE"
      BY <1>10, <2>2, <2>6, <2>7 DEF Shows
    <3>2. Seen(nodes', Len(heap.nodes), Fresh)
      BY <1>10, <2>6, <2>7
    <3>3. Len(heap.nodes) # 0
      BY <2>6, <2>7, FreshTyped DEF Seen
    <3>4. /\ Fresh = (IF w = 0 THEN Fresh ELSE w)
          /\ store' = IF w = 0 THEN Append(store, [shape |-> Fresh, kids |-> <<>>]) ELSE store
      BY <1>10, <2>1, <2>7
    <3>5. PICK v, o : v = Len(heap.nodes) /\ o = Fresh
      OBVIOUS
    <3>6. Took(v, o)
      BY <1>10, <2>7, <3>5
    <3>7. QED BY <1>7, <3>1, <3>2, <3>3, <3>4, <3>5, <3>6
  <2>8. CASE heap.error # "NONE"
    <3>1. Stops
      BY <1>10, <2>6, <2>8 DEF Stops, Pressures
    <3>2. QED BY <1>1, <3>1, StopsThere DEF Implements, Values!Next
  <2>9. QED BY <2>7, <2>8
<1>11. child = value /\ left = rs
  BY <1>3
<1> HIDE DEF child, left
<1>12. QED BY <1>0, <1>8, <1>9, <1>10, <1>11

LEMMA JoinedViews ==
  ASSUME NEW ns, NEW rs, NEW vs, Views(ns, rs, vs), FewBranches(vs), NEW op
  PROVE  /\ Views(ns, Joined(op, rs), Joined(op, vs))
         /\ FewBranches(Joined(op, vs)) /\ RootsOK(Joined(op, vs))
<1>1. CASE op = "PAR_JOIN"
  <2>1. "branches" \in RootSets /\ SeenAs(ns, <<>>, <<>>)
    BY SeenEmpty DEF RootSets
  <2>2. Views(ns, [rs EXCEPT !["branches"] = <<>>], [vs EXCEPT !["branches"] = <<>>])
    BY <2>1, ViewsWith
  <2>3. PICK ws : ws = [vs EXCEPT !["branches"] = <<>>]
    OBVIOUS
  <2>4. Joined(op, rs) = [rs EXCEPT !["branches"] = <<>>] /\ Joined(op, vs) = ws
    BY <1>1, <2>3 DEF Joined
  <2>5. ws.branches = <<>>
    BY <2>3 DEF Views, RootsOK, RootSets
  <2>6. FewBranches(ws)
    BY <2>5, CapacityAssumption DEF FewBranches
  <2>7. QED BY <2>2, <2>3, <2>4, <2>6 DEF Views
<1>2. CASE op # "PAR_JOIN"
  BY <1>2 DEF Joined, Views
<1>3. QED BY <1>1, <1>2

LEMMA FinishShows == HeapInv /\ HeapInv' /\ ValuesInv /\ Finish => Implements
<1> SUFFICES ASSUME HeapInv, HeapInv', ValuesInv, Finish PROVE Implements
  OBVIOUS
<1>1. error = "NONE" /\ making.op # "NONE" /\ making.left = 0
  BY DEF Finish
<1>2. making.op \in {"MAKE_FIELD_STRING", "PAR_JOIN"} /\ SeenKids(nodes, making.kids, making.objs)
  BY <1>1 DEF ValuesInv, RootedFrame
<1>3. making.kids \in Seq(Nat) /\ making.objs \in Seq(Nat)
  BY DEF HeapInv, MakingOK
<1>4. PICK vs : vs = AbsRoots /\ StateShows(roots, vs) /\ FewBranches(vs)
  BY <1>1, StartOf
<1>5. PICK op, rs, ws, kids, os : /\ op = making.op /\ rs = Joined(op, roots) /\ ws = Joined(op, vs)
                                  /\ kids = making.kids /\ os = making.objs
  OBVIOUS
<1>6. PICK object : object = [shape |-> Fresh, kids |-> os]
  OBVIOUS
<1>7. object \in ObjectRec /\ object.shape = Fresh /\ object.kids = os
  BY <1>3, <1>5, <1>6, FreshTyped, ObjectTyped
<1>8. PICK attrs \in Nat : MakeAndPush(rs, object.shape, attrs, kids, object)
  <2>1. [shape |-> IF making.op = "MAKE_NODE" THEN making.shape ELSE Fresh, kids |-> making.objs] = object
    BY <1>2, <1>5, <1>6
  <2>2. MakeAndPush(rs, Fresh, 0, kids, object) \/ MakeAndPush(rs, Fresh, 1, kids, object)
    BY <1>2, <1>5, <2>1 DEF Finish
  <2>3. QED BY <1>7, <2>2
<1>9. StateShows(rs, ws) /\ ArgvFirst(rs) /\ FewBranches(ws) /\ RootsOK(ws)
  BY <1>4, <1>5, JoinedViews, JoinedOK DEF StateShows
<1>10. Makes(ws, object) \/ Stops
  <2>1. kids \in Seq(Nat) /\ SeenKids(nodes, kids, os)
    BY <1>2, <1>3, <1>5
  <2>2. QED BY <1>7, <1>8, <1>9, <2>1, MakeAndPushShows
<1>11. CASE Makes(ws, object)
  <2>1. ValuesInv' /\ Values!Make(ws, Fresh, os)
    BY <1>1, <1>6, <1>9, <1>11, MakesValue
  <2>2. AbsMaking.op = op /\ AbsMaking.left = 0 /\ AbsMaking.kids = os
    BY <1>1, <1>5 DEF AbsMaking
  <2>3. ws = Values!Joined(AbsMaking.op, AbsRoots) /\ Values!Fresh = Fresh
    BY <1>4, <1>5, <2>2, SameMakerOps, SameRootOps
  <2>4. op # "NONE" /\ op # "MAKE_NODE"
    BY <1>1, <1>2, <1>5
  <2>5. Values!Make(Values!Joined(AbsMaking.op, AbsRoots),
                    IF AbsMaking.op = "MAKE_NODE" THEN AbsMaking.shape ELSE Values!Fresh, AbsMaking.kids)
    BY <2>1, <2>2, <2>3, <2>4
  <2>6. Values!Finish
    BY <1>1, <2>2, <2>4, <2>5 DEF Values!Finish, AbsRoots, AbsMaking
  <2>7. QED BY <2>1, <2>6 DEF Implements, Values!Next
<1>12. CASE Stops
  BY <1>1, <1>12, StopsThere DEF Implements, Values!Next
<1>13. QED BY <1>10, <1>11, <1>12

-----------------------------------------------------------------------------
(* The start of a run.                                                      *)

LEMMA NewRunShows ==
  ASSUME NEW n \in ArgvCounts
  PROVE  /\ Views(Arguments(n), EmptyRoots(1), EmptyRoots(1)) /\ FewBranches(EmptyRoots(1))
         /\ Faithful(Arguments(n), ArgumentObjects(n))
         /\ ArgumentObjects(n) = Values!Arguments(n)
<1>1. n \in Nat /\ n + 1 \in Nat /\ BranchBound \in Nat
  BY CapacityAssumption
<1> DEFINE ns   == Arguments(n)
           st   == ArgumentObjects(n)
           list == [i \in 1 .. n |-> i + 1]
<1>2. st = Values!Arguments(n)
  BY DEF ArgumentObjects, Values!Arguments
<1>3. \A h \in 1 .. n + 1 : /\ ns[h] = IF h = 1 THEN Node(1, 1, 0, list) ELSE Node(h, h, 1, <<>>)
                            /\ st[h] = [shape |-> h, kids |-> IF h = 1 THEN list ELSE <<>>]
  BY <1>1 DEF Arguments, ArgumentObjects
<1>4. Len(list) = n /\ \A i \in 1 .. n : list[i] = i + 1
  <2>1. list \in [1 .. n -> Nat]
    BY <1>1
  <2>2. \A i \in 1 .. n : list[i] = i + 1
    OBVIOUS
  <2> HIDE DEF list
  <2>3. QED BY <1>1, <2>1, <2>2, FunctionIsSeq
<1>5. Len(ns) = n + 1
  <2>1. ns \in Seq(NodeRec)
    BY ArgumentsOK
  <2>2. DOMAIN ns = 1 .. n + 1
    BY DEF Arguments
  <2> HIDE DEF ns
  <2>3. Len(ns) \in Nat /\ DOMAIN ns = 1 .. Len(ns)
    BY <2>1, LenProperties
  <2>4. QED BY <1>1, <2>2, <2>3
<1> HIDE DEF ns, st, list
<1>6. \A h \in 1 .. n + 1 : /\ ns[h].obj = h /\ ns[h].shape = h
                            /\ ns[h].kids = IF h = 1 THEN list ELSE <<>>
                            /\ st[h].shape = h /\ st[h].kids = IF h = 1 THEN list ELSE <<>>
  <2>1. \A o, a, ks : Node(o, o, a, ks).obj = o /\ Node(o, o, a, ks).shape = o /\ Node(o, o, a, ks).kids = ks
    BY DEF Node
  <2>2. SUFFICES ASSUME NEW h \in 1 .. n + 1
                 PROVE  /\ ns[h].obj = h /\ ns[h].shape = h
                        /\ ns[h].kids = IF h = 1 THEN list ELSE <<>>
                        /\ st[h].shape = h /\ st[h].kids = IF h = 1 THEN list ELSE <<>>
    OBVIOUS
  <2>3. PICK ks : ks = IF h = 1 THEN list ELSE <<>>
    OBVIOUS
  <2>4. st[h] = [shape |-> h, kids |-> ks]
    BY <1>3, <2>3
  <2>5. PICK a : ns[h] = Node(h, h, a, ks)
    BY <1>3, <2>3
  <2>6. QED BY <2>1, <2>3, <2>4, <2>5
<1>7. Faithful(ns, st)
  <2> SUFFICES ASSUME NEW h \in 1 .. Len(ns)
               PROVE  st[ns[h].obj].shape = ns[h].shape /\ SeenKids(ns, ns[h].kids, st[ns[h].obj].kids)
    BY DEF Faithful
  <2>1. h \in 1 .. n + 1
    BY <1>5
  <2>2. /\ ns[h].obj = h /\ st[h].shape = h /\ ns[h].shape = h
        /\ ns[h].kids = st[h].kids
    BY <1>6, <2>1
  <2>3. SeenKids(ns, list, list)
    <3>1. \A i \in 1 .. n : i + 1 \in 1 .. n + 1 /\ ns[i + 1].obj = i + 1
      BY <1>1, <1>6
    <3>2. QED BY <1>4, <1>5, <3>1 DEF SeenKids
  <2>4. SeenKids(ns, <<>>, <<>>)
    BY DEF SeenKids
  <2>5. SeenKids(ns, ns[h].kids, ns[h].kids)
    BY <1>6, <2>1, <2>3, <2>4
  <2>6. QED BY <2>2, <2>5
<1>8. PICK e : e = EmptyRoots(1)
  OBVIOUS
<1>9. RootsOK(e)
  BY <1>8, EmptyRootsOK
<1>10. /\ \A r \in RootSets : e[r] = <<>>
       /\ e["argv"] = 1 /\ e["window"] = 0 /\ e["event"] = 0
  BY <1>8 DEF EmptyRoots, RootSets, Cached
<1>11. Seen(ns, 1, 1)
  <2>1. 1 \in 1 .. n + 1
    BY <1>1
  <2>2. ns[1].obj = 1
    BY <1>6, <2>1
  <2>3. QED BY <1>5, <2>1, <2>2 DEF Seen
<1>12. \A c \in Cached : Seen(ns, e[c], e[c])
  BY <1>10, <1>11, SeenEmpty DEF Cached
<1>13. Views(ns, e, e)
  BY <1>9, <1>10, <1>12, SeenEmpty DEF Views
<1>14. FewBranches(e)
  BY <1>1, <1>10 DEF FewBranches, RootSets
<1>15. QED BY <1>2, <1>7, <1>8, <1>13, <1>14 DEF ns, st

LEMMA ResetShows == HeapInv /\ HeapInv' /\ ValuesInv /\ Reset => Implements
<1> SUFFICES ASSUME HeapInv, HeapInv', ValuesInv, Reset PROVE Implements
  OBVIOUS
<1>1. PICK n \in ArgvCounts : nodes' = Arguments(n) /\ store' = ArgumentObjects(n)
  BY DEF Reset
<1>2. roots' = EmptyRoots(1) /\ making' = Idle /\ error' = "NONE" /\ (making = Idle \/ error # "NONE")
  BY DEF Reset
<1>3. /\ Views(nodes', roots', EmptyRoots(1)) /\ FewBranches(roots') /\ Faithful(nodes', store')
      /\ store' = Values!Arguments(n)
  BY <1>1, <1>2, NewRunShows
<1>4. AbsRoots' = EmptyRoots(1) /\ Held(roots') \subseteq 1 .. Len(nodes')
  BY <1>3, MappedAfter
<1>5. ValuesInv'
  BY <1>2, <1>3, <1>4, IdleRooted DEF ValuesInv
<1>6. AbsRoots' = Values!EmptyRoots(1) /\ AbsMaking' = Values!Idle
  BY <1>2, <1>4, SameRootOps, IdleMappedAfter
<1>7. AbsMaking = Values!Idle \/ error # "NONE"
  BY <1>2, IdleMapped
<1>8. Values!Reset
  BY <1>2, <1>3, <1>6, <1>7 DEF Values!Reset, AbsRoots, AbsMaking
<1>9. QED BY <1>5, <1>8 DEF Implements, Values!Next

LEMMA InitShows == Init => ValuesInv /\ Values!Init
<1> SUFFICES ASSUME Init PROVE ValuesInv /\ Values!Init
  OBVIOUS
<1>1. PICK n \in ArgvCounts : nodes = Arguments(n) /\ store = ArgumentObjects(n)
  BY DEF Init
<1>2. roots = EmptyRoots(1) /\ making = Idle /\ error = "NONE"
  BY DEF Init
<1>3. /\ Views(nodes, roots, EmptyRoots(1)) /\ FewBranches(roots) /\ Faithful(nodes, store)
      /\ store = Values!Arguments(n)
  BY <1>1, <1>2, NewRunShows
<1>4. Held(roots) \subseteq 1 .. Len(nodes)
  BY <1>3, ViewsHeld
<1>5. RootedFrame
  BY <1>2, IdleOK DEF RootedFrame, SeenKids
<1>6. ValuesInv
  BY <1>3, <1>4, <1>5 DEF ValuesInv
<1>7. Views(nodes, roots, AbsRoots)
  BY <1>2, <1>6, InitState, MappedNow DEF StateShows
<1>8. AbsRoots = EmptyRoots(1)
  BY <1>3, <1>7, OneView
<1>9. AbsRoots = Values!EmptyRoots(1) /\ AbsMaking = Values!Idle
  BY <1>2, <1>8, SameRootOps, IdleMapped
<1>10. Values!Init
  BY <1>2, <1>3, <1>9 DEF Values!Init, AbsRoots, AbsMaking
<1>11. QED BY <1>6, <1>10

LEMMA StutterShows == ValuesInv /\ UNCHANGED vars => ValuesInv' /\ UNCHANGED Values!vars
<1> SUFFICES ASSUME ValuesInv, UNCHANGED vars PROVE ValuesInv' /\ UNCHANGED Values!vars
  OBVIOUS
<1>1. UNCHANGED <<nodes, roots, making, error, store>>
  BY DEF vars
<1>2. ValuesInv'
  BY <1>1 DEF ValuesInv, RootedFrame
<1>3. AbsRoots' = AbsRoots /\ AbsMaking' = AbsMaking
  BY <1>1 DEF AbsRoots, AbsMaking, Object, InArena
<1>4. QED BY <1>1, <1>2, <1>3 DEF Values!vars, AbsRoots, AbsMaking

-----------------------------------------------------------------------------
(* The theorem.                                                             *)

\* Nodes are values.  create_node_record may move every node of the arena each
\* time it is called (compact_node_arenas_with_map), and a program that keeps its
\* handles where mark_live_node_handles looks never notices: each of its steps is
\* a step of NodeValues, where nodes never move, change or go away, or a stop for
\* want of memory.
THEOREM RootedNodesAreValues ==
  ASSUME RootedOnly
  PROVE  Spec => NodesAreValues
<1>1. Init => ValuesInv /\ Values!Init
  BY InitShows
<1>2. HeapInv /\ HeapInv' /\ ValuesInv /\ [Next]_vars => ValuesInv' /\ [Values!Next]_(Values!vars)
  <2> SUFFICES ASSUME HeapInv, HeapInv', ValuesInv, [Next]_vars
               PROVE  ValuesInv' /\ [Values!Next]_(Values!vars)
    OBVIOUS
  <2>1. CASE UNCHANGED vars
    BY <2>1, StutterShows
  <2>2. CASE Next
    <3>1. ~ \E c \in {"window", "event"} : UiNode(c)
      BY DEF UiNode, Uses, RootedOnly
    <3>2. Implements
      BY <2>2, <3>1, MoveShows, LeafShows, AppendChildShows, InspectShows, ChildAtShows, ProcessArgsShows,
         HostNodeShows, BeginShows, TakeChildShows, FinishShows, ResetShows
      DEF Next
    <3>3. QED BY <3>2 DEF Implements
  <2>3. QED BY <2>1, <2>2
<1>3. QED BY <1>1, <1>2, Inductive, PTL DEF Spec, NodesAreValues, Values!Spec
=============================================================================
