------------------------- MODULE AivmStringArenaProofs -------------------------
(***************************************************************************)
(* Proofs about AivmStringArena, for every size of the arena, limit, growth *)
(* step, number of roots and set of texts: a string reads as what was made, *)
(* the arena is a row of terminated strings, and memory runs out only when  *)
(* live texts fill it.                                                      *)
(***************************************************************************)
EXTENDS AivmStringArena, ProofLemmas, FiniteSetTheorems, SequenceTheorems, TLAPS

Char    == 1 .. 5
Cell    == 0 .. 5
Pointer == [region : {"none", "program", "arena", "frame"}, at : Nat, lit : Seq(Char), want : Seq(Char)]
Arena   == [mem : [1 .. StringCapacity -> Cell], used : Nat, limit : Nat, slot : [Slots -> Pointer],
            status : {"ok", "pressure", "spoilt"}, asked : Nat, compacted : BOOLEAN, out : Nat]

\* The text t stands at offset k of the first u cells, with its NUL.
HereAt(m, u, k, t) ==
  /\ k + Len(t) < u
  /\ \A i \in 1 .. Len(t) : m[k + i] = t[i]
  /\ m[k + Len(t) + 1] = Nul

\* A pointer leads to the text it should.
Right(m, u, p) ==
  /\ p.region = "program" => p.want = p.lit
  /\ p.region = "arena" => HereAt(m, u, p.at, p.want)

\* The first u cells are a row of strings.
Closed(m, u) == u > 0 => m[u] = Nul

Bounded(h) == h.used <= h.limit /\ h.limit <= StringCapacity
Sound(h) == h.status = "ok" => /\ Closed(h.mem, h.used)
                               /\ \A s \in Slots : Right(h.mem, h.used, h.slot[s])

-----------------------------------------------------------------------------
(* Basic facts.                                                             *)

LEMMA MinOfNats ==
  ASSUME NEW S, S \subseteq Nat, S # {}
  PROVE  Min(S) \in S /\ \A y \in S : Min(S) <= y
<1>1. PICK x \in S : \A y \in S : x <= y
  BY Least
<1>2. QED BY <1>1 DEF Min

LEMMA CellFacts ==
  /\ Nul \in Cell /\ Nul \notin Char /\ Char \subseteq Cell
  /\ {Plain, Lead, Cont, Newline, Backslash} \subseteq Char /\ Lead # Cont
BY DEF Nul, Cell, Char, Plain, Lead, Cont, Newline, Backslash

\* The text at an offset is the one that stands there.
LEMMA TextIsHere ==
  ASSUME NEW h \in Arena, NEW k \in Nat, NEW t \in Seq(Char), NEW u \in Nat, u <= StringCapacity,
         HereAt(h.mem, u, k, t)
  PROVE  TextAt(h, k) = t
<1>0. StringCapacity \in Nat /\ h.mem \in [1 .. StringCapacity -> Cell] /\ Len(t) \in Nat
  BY StringAssumption, LenProperties DEF Arena
<1>1. PICK m \in [1 .. StringCapacity -> Cell] : m = h.mem
  BY <1>0
<1>2. PICK n \in Nat : n = Len(t)
  BY <1>0
<1>3. k + n < u /\ (\A i \in 1 .. n : m[k + i] = t[i]) /\ m[k + n + 1] = Nul
  BY <1>1, <1>2 DEF HereAt
<1> DEFINE ends == {j \in k .. StringCapacity - 1 : m[j + 1] = Nul}
<1>4. k + n \in ends
  BY <1>0, <1>3
<1>5. ends \subseteq Nat
  BY <1>0
<1>6. ASSUME NEW j \in ends PROVE k + n <= j
  <2>1. SUFFICES ASSUME j < k + n PROVE FALSE
    BY <1>0
  <2>2. j - k + 1 \in 1 .. n /\ k + (j - k + 1) = j + 1
    BY <2>1
  <2>3. m[j + 1] = t[j - k + 1]
    BY <2>2, <1>3
  <2>4. t[j - k + 1] \in Char
    BY <2>2, <1>2, ElementOfSeq
  <2>5. QED BY <2>3, <2>4, CellFacts
<1>7. Min(ends) = k + n
  <2> HIDE DEF ends
  <2>1. Min(ends) \in ends /\ Min(ends) <= k + n
    BY <1>4, <1>5, MinOfNats
  <2>2. PICK e \in Nat : e = Min(ends)
    BY <2>1, <1>5
  <2>3. k + n <= e /\ e <= k + n
    BY <2>1, <2>2, <1>6
  <2>4. QED BY <2>2, <2>3
<1>8. TextAt(h, k) = SubSeq(m, k + 1, k + n)
  BY <1>1, <1>4, <1>7 DEF TextAt
<1> HIDE DEF ends
<1>9. /\ SubSeq(m, k + 1, k + n) \in Seq(Cell)
      /\ Len(SubSeq(m, k + 1, k + n)) = n
      /\ \A i \in 1 .. n : SubSeq(m, k + 1, k + n)[i] = m[k + i]
  <2>1. k + 1 \in Int /\ k + n \in Int
    OBVIOUS
  <2>2. \A i \in k + 1 .. k + n : m[i] \in Cell
    BY <1>0, <1>3
  <2>3. /\ SubSeq(m, k + 1, k + n) \in Seq(Cell)
        /\ Len(SubSeq(m, k + 1, k + n)) = IF k + 1 <= k + n THEN k + n - (k + 1) + 1 ELSE 0
        /\ \A i \in 1 .. k + n - (k + 1) + 1 : SubSeq(m, k + 1, k + n)[i] = m[k + 1 + i - 1]
    BY <2>1, <2>2, SubSeqProperties
  <2>4. k + n - (k + 1) + 1 = n
    OBVIOUS
  <2>5. QED BY <2>3, <2>4
<1>10. t \in Seq(Cell)
  BY CellFacts, SeqMonotonic
<1>11. QED
  BY <1>2, <1>3, <1>8, <1>9, <1>10, SeqEqual

\* A walk from any offset below used ends at a NUL below used.
LEMMA TextInside ==
  ASSUME NEW h \in Arena, Bounded(h), Closed(h.mem, h.used), NEW k \in Nat, k < h.used
  PROVE  TextAt(h, k) \in Seq(Char) /\ HereAt(h.mem, h.used, k, TextAt(h, k))
<1>0. /\ StringCapacity \in Nat /\ h.mem \in [1 .. StringCapacity -> Cell]
      /\ h.used \in Nat /\ h.limit \in Nat /\ h.used <= StringCapacity
  <2>1. StringCapacity \in Nat /\ h.mem \in [1 .. StringCapacity -> Cell] /\ h.used \in Nat /\ h.limit \in Nat
    BY StringAssumption DEF Arena
  <2>2. QED BY <2>1 DEF Bounded
<1>1. PICK m \in [1 .. StringCapacity -> Cell] : m = h.mem
  BY <1>0
<1>2. PICK u \in Nat : u = h.used
  BY <1>0
<1>3. k < u /\ u <= StringCapacity /\ m[u] = Nul
  BY <1>0, <1>1, <1>2 DEF Closed
<1> DEFINE ends == {j \in k .. StringCapacity - 1 : m[j + 1] = Nul}
<1>4. u - 1 \in ends /\ ends \subseteq Nat
  BY <1>0, <1>3
<1>5. Min(ends) \in ends /\ \A j \in ends : Min(ends) <= j
  <2> HIDE DEF ends
  <2>1. QED BY <1>4, MinOfNats
<1>6. PICK e : e = Min(ends)
  OBVIOUS
<1>7. e \in k .. u - 1 /\ m[e + 1] = Nul /\ \A j \in k .. e - 1 : m[j + 1] # Nul
  <2>1. e \in k .. StringCapacity - 1 /\ m[e + 1] = Nul
    <3>1. e \in ends
      BY <1>5, <1>6
    <3>2. QED BY <3>1
  <2>2. e <= u - 1
    BY <1>4, <1>5, <1>6
  <2>3. ASSUME NEW j \in k .. e - 1, m[j + 1] = Nul PROVE FALSE
    <3>1. j \in ends
      BY <1>0, <2>1, <2>3
    <3>2. e <= j
      BY <3>1, <1>5, <1>6
    <3>3. QED BY <3>2, <2>1
  <2>4. QED BY <1>0, <1>3, <2>1, <2>2, <2>3
<1>8. TextAt(h, k) = SubSeq(m, k + 1, e)
  BY <1>1, <1>4, <1>6 DEF TextAt
<1> HIDE DEF ends
<1>9. \A i \in k + 1 .. e : m[i] \in Char
  <2>1. TAKE i \in k + 1 .. e
  <2>2. i - 1 \in k .. e - 1 /\ i \in 1 .. StringCapacity /\ (i - 1) + 1 = i
    BY <1>0, <1>3, <1>7
  <2>3. m[i] # Nul /\ m[i] \in Cell
    BY <2>2, <1>7
  <2>4. QED BY <2>3 DEF Cell, Char, Nul
<1>10. PICK n \in Nat : n = e - k
  BY <1>7
<1>11. /\ SubSeq(m, k + 1, e) \in Seq(Char)
       /\ Len(SubSeq(m, k + 1, e)) = n
       /\ \A i \in 1 .. n : SubSeq(m, k + 1, e)[i] = m[k + i]
  <2>1. k + 1 \in Int /\ e \in Int
    BY <1>7
  <2>2. /\ SubSeq(m, k + 1, e) \in Seq(Char)
        /\ Len(SubSeq(m, k + 1, e)) = IF k + 1 <= e THEN e - (k + 1) + 1 ELSE 0
        /\ \A i \in 1 .. e - (k + 1) + 1 : SubSeq(m, k + 1, e)[i] = m[k + 1 + i - 1]
    BY <2>1, <1>9, SubSeqProperties
  <2>3. e - (k + 1) + 1 = n
    BY <2>1, <1>10
  <2>4. QED BY <2>1, <2>2, <2>3, <1>10, <1>7
<1>12. PICK t \in Seq(Char) : t = SubSeq(m, k + 1, e)
  BY <1>11
<1>13. Len(t) = n /\ k + n = e
  BY <1>11, <1>12, <1>7, <1>10
<1>14. HereAt(m, u, k, t)
  BY <1>3, <1>7, <1>11, <1>12, <1>13 DEF HereAt
<1>15. QED BY <1>1, <1>2, <1>8, <1>12, <1>14

\* What stands in the first cells stays when nothing but later cells change.
LEMMA RightStays ==
  ASSUME NEW u \in Nat, NEW v \in Nat, u <= v, NEW m, NEW n, \A j \in 1 .. u : n[j] = m[j],
         NEW p \in Pointer, Right(m, u, p)
  PROVE  Right(n, v, p)
<1>1. p.at \in Nat /\ p.want \in Seq(Char) /\ Len(p.want) \in Nat
  BY LenProperties DEF Pointer
<1>2. PICK k \in Nat : k = p.at
  BY <1>1
<1>3. PICK t \in Seq(Char) : t = p.want
  BY <1>1
<1>4. PICK l \in Nat : l = Len(t)
  BY <1>1, <1>3
<1>5. ASSUME HereAt(m, u, k, t) PROVE HereAt(n, v, k, t)
  <2>1. k + l < u /\ (\A i \in 1 .. l : m[k + i] = t[i]) /\ m[k + l + 1] = Nul
    BY <1>4, <1>5 DEF HereAt
  <2>2. k + l + 1 \in 1 .. u /\ \A i \in 1 .. l : k + i \in 1 .. u
    BY <2>1
  <2>3. n[k + l + 1] = Nul /\ \A i \in 1 .. l : n[k + i] = t[i]
    BY <2>1, <2>2
  <2>4. k + l < v
    BY <2>1
  <2>5. QED BY <1>4, <2>3, <2>4 DEF HereAt
<1>6. QED BY <1>2, <1>3, <1>5 DEF Right

\* A readable pointer is read as what it should be, and is known to be in the
\* arena when it is.
LEMMA ReadsRight ==
  ASSUME NEW h \in Arena, Bounded(h), NEW p \in Pointer, Right(h.mem, h.used, p),
         p.region \in {"program", "arena"}
  PROVE  Text(h, p) = p.want /\ (p.region = "arena" => InArena(h, p))
<1>1. /\ p.at \in Nat /\ p.want \in Seq(Char) /\ h.used \in Nat
      /\ h.used <= StringCapacity /\ Len(p.want) \in Nat
  <2>1. p.at \in Nat /\ p.want \in Seq(Char) /\ h.used \in Nat /\ h.limit \in Nat /\ StringCapacity \in Nat
    BY StringAssumption DEF Pointer, Arena
  <2>2. QED BY <2>1, LenProperties DEF Bounded
<1>2. CASE p.region = "program"
  BY <1>2 DEF Text, Right
<1>3. CASE p.region = "arena"
  <2>1. HereAt(h.mem, h.used, p.at, p.want)
    BY <1>3 DEF Right
  <2>2. TextAt(h, p.at) = p.want
    BY <1>1, <2>1, TextIsHere
  <2>3. p.at < h.used
    <3>1. p.at + Len(p.want) < h.used
      BY <2>1 DEF HereAt
    <3>2. QED BY <1>1, <3>1
  <2>4. QED BY <1>3, <2>2, <2>3 DEF Text, InArena
<1>4. QED BY <1>2, <1>3

-----------------------------------------------------------------------------
(* Compaction.                                                              *)

LEMMA RootOrderFacts ==
  /\ Len(RootOrder) \in Nat
  /\ \A k \in 1 .. Len(RootOrder) : RootOrder[k] \in Slots
  /\ \A s \in Slots : \E k \in 1 .. Len(RootOrder) : s = RootOrder[k]
<1>1. RootOrder \in Seq(Slots)
  BY StringAssumption
<1>2. Len(RootOrder) \in Nat /\ DOMAIN RootOrder = 1 .. Len(RootOrder)
  BY <1>1, LenProperties
<1>3. QED BY <1>2 DEF Slots, Range

\* The walk over the root slots.
LiveStep(h, texts, p) ==
  IF InArena(h, p) /\ TextAt(h, p.at) \notin Range(texts) THEN Append(texts, TextAt(h, p.at)) ELSE texts

LEMMA LiveTextsSteps ==
  ASSUME NEW h \in Arena, Bounded(h), Closed(h.mem, h.used)
  PROVE  /\ LiveTexts(h)[0] = <<>>
         /\ \A k \in 1 .. Len(RootOrder) :
              LiveTexts(h)[k] = LiveStep(h, LiveTexts(h)[k - 1], h.slot[RootOrder[k]])
<1> DEFINE n == Len(RootOrder)
           V == Seq(Seq(Char))
           T == [k \in 1 .. n |-> [v \in V |-> LiveStep(h, v, h.slot[RootOrder[k]])]]
<1>1. n \in Nat /\ <<>> \in V
  BY RootOrderFacts, EmptySeq
<1>2. T \in [1 .. n -> [V -> V]]
  <2>1. ASSUME NEW k \in 1 .. n, NEW v \in V PROVE LiveStep(h, v, h.slot[RootOrder[k]]) \in V
    <3>1. PICK p \in Pointer : p = h.slot[RootOrder[k]]
      BY RootOrderFacts DEF Arena
    <3>2. p.at \in Nat
      BY DEF Pointer
    <3>3. InArena(h, p) => TextAt(h, p.at) \in Seq(Char)
      BY <3>2, TextInside DEF InArena
    <3>4. \A t \in Seq(Char) : Append(v, t) \in V
      BY AppendProperties
    <3>5. QED BY <3>1, <3>3, <3>4 DEF LiveStep
  <2>2. QED BY <2>1
<1>3. PICK u : Recursion(u, n, V, <<>>, T)
  <2> HIDE DEF n, V, T
  <2>1. QED BY <1>1, <1>2, RecursionExists
<1>4. ASSUME NEW k \in 1 .. n PROVE u[k] = LiveStep(h, u[k - 1], h.slot[RootOrder[k]])
  <2>1. u[k - 1] \in V
    BY <1>1, <1>3 DEF Recursion
  <2>2. u[k] = T[k][u[k - 1]]
    BY <1>3 DEF Recursion
  <2>3. QED BY <2>1, <2>2
<1>5. u[0] = <<>> /\ DOMAIN u = 0 .. n /\ u \in [0 .. n -> V]
  BY <1>3 DEF Recursion
<1> DEFINE Sol(f) == f = [k \in 0 .. Len(RootOrder) |->
                            IF k = 0 THEN <<>> ELSE LiveStep(h, f[k - 1], h.slot[RootOrder[k]])]
<1>6. Sol(u)
  <2>1. ASSUME NEW k \in 0 .. n, k # 0 PROVE u[k] = LiveStep(h, u[k - 1], h.slot[RootOrder[k]])
    <3>1. k \in 1 .. n
      BY <2>1, <1>1
    <3>2. QED BY <3>1, <1>4
  <2>2. QED BY <1>5, <2>1
<1>7. LiveTexts(h) = CHOOSE f : Sol(f)
  BY DEF LiveTexts, LiveStep
<1>8. Sol(LiveTexts(h))
  <2> HIDE DEF Sol
  <2>1. QED BY <1>6, <1>7
<1>9. PICK f : f = LiveTexts(h)
  OBVIOUS
<1>10. QED
  BY <1>1, <1>8, <1>9

\* The texts of the first k live slots.
LiveUpTo(h, k) == {TextAt(h, h.slot[RootOrder[i]].at) : i \in {j \in 1 .. k : InArena(h, h.slot[RootOrder[j]])}}
Distinct(texts) == \A i, j \in 1 .. Len(texts) : texts[i] = texts[j] => i = j

LEMMA RangeIs ==
  ASSUME NEW S, NEW s \in Seq(S)
  PROVE  Range(s) = {s[i] : i \in 1 .. Len(s)}
BY LenProperties DEF Range

LEMMA LiveStepKeeps ==
  ASSUME NEW h \in Arena, Bounded(h), Closed(h.mem, h.used), NEW p \in Pointer,
         NEW l \in Seq(Seq(Char)), Distinct(l)
  PROVE  /\ LiveStep(h, l, p) \in Seq(Seq(Char)) /\ Distinct(LiveStep(h, l, p))
         /\ InArena(h, p) => TextAt(h, p.at) \in Seq(Char)
         /\ Range(LiveStep(h, l, p)) = IF InArena(h, p) THEN Range(l) \cup {TextAt(h, p.at)} ELSE Range(l)
<1>1. InArena(h, p) => TextAt(h, p.at) \in Seq(Char)
  <2>1. p.at \in Nat
    BY DEF Pointer
  <2>2. QED BY <2>1, TextInside DEF InArena
<1>2. CASE InArena(h, p) /\ TextAt(h, p.at) \notin Range(l)
  <2>1. PICK t \in Seq(Char) : t = TextAt(h, p.at)
    BY <1>1, <1>2
  <2>2. LiveStep(h, l, p) = Append(l, t) /\ t \notin Range(l)
    BY <1>2, <2>1 DEF LiveStep
  <2>3. /\ Append(l, t) \in Seq(Seq(Char)) /\ Len(Append(l, t)) = Len(l) + 1
        /\ (\A i \in 1 .. Len(l) : Append(l, t)[i] = l[i]) /\ Append(l, t)[Len(l) + 1] = t
    BY AppendProperties
  <2>4. PICK g \in Seq(Seq(Char)) : g = Append(l, t)
    BY <2>3
  <2>5. PICK n \in Nat : n = Len(l)
    BY LenProperties
  <2>6. Len(g) = n + 1 /\ (\A i \in 1 .. n : g[i] = l[i]) /\ g[n + 1] = t
    BY <2>3, <2>4, <2>5
  <2>7. \A i \in 1 .. n : l[i] # t /\ l[i] \in Range(l)
    BY <2>2, <2>5, RangeIs
  <2>8. Distinct(g)
    <3>1. ASSUME NEW i \in 1 .. n + 1, NEW j \in 1 .. n + 1, g[i] = g[j] PROVE i = j
      <4>1. CASE i \in 1 .. n /\ j \in 1 .. n
        BY <3>1, <4>1, <2>5, <2>6 DEF Distinct
      <4>2. CASE i = n + 1 \/ j = n + 1
        <5>1. (i \in 1 .. n \/ i = n + 1) /\ (j \in 1 .. n \/ j = n + 1)
          OBVIOUS
        <5>2. (i \in 1 .. n => g[i] # t) /\ (j \in 1 .. n => g[j] # t)
          BY <2>6, <2>7
        <5>3. QED BY <3>1, <4>2, <5>1, <5>2, <2>6
      <4>3. QED BY <4>1, <4>2
    <3>2. QED BY <3>1, <2>6 DEF Distinct
  <2>9. Range(g) = Range(l) \cup {t}
    <3>1. Range(g) = {g[i] : i \in 1 .. n + 1} /\ Range(l) = {l[i] : i \in 1 .. n}
      BY <2>5, <2>6, RangeIs
    <3>2. 1 .. n + 1 = (1 .. n) \cup {n + 1}
      OBVIOUS
    <3>3. {g[i] : i \in 1 .. n + 1} = {g[i] : i \in 1 .. n} \cup {g[n + 1]}
      BY <3>2
    <3>4. {g[i] : i \in 1 .. n} = {l[i] : i \in 1 .. n}
      BY <2>6
    <3>5. QED BY <3>1, <3>3, <3>4, <2>6
  <2>10. QED BY <1>2, <2>1, <2>2, <2>4, <2>8, <2>9
<1>3. CASE ~ (InArena(h, p) /\ TextAt(h, p.at) \notin Range(l))
  BY <1>1, <1>3 DEF LiveStep
<1>4. QED BY <1>1, <1>2, <1>3

\* The walk collects each text once.
LEMMA LiveTextsAre ==
  ASSUME NEW h \in Arena, Bounded(h), Closed(h.mem, h.used)
  PROVE  \E l \in Seq(Seq(Char)) : /\ l = LiveTexts(h)[Len(RootOrder)]
                                   /\ Distinct(l)
                                   /\ Range(l) = LiveUpTo(h, Len(RootOrder))
<1>1. PICK f : f = LiveTexts(h)
  OBVIOUS
<1>2. PICK n \in Nat : n = Len(RootOrder)
  BY RootOrderFacts
<1>3. f[0] = <<>> /\ \A k \in 1 .. n : f[k] = LiveStep(h, f[k - 1], h.slot[RootOrder[k]])
  BY <1>1, <1>2, LiveTextsSteps
<1> DEFINE P(k) == f[k] \in Seq(Seq(Char)) /\ Distinct(f[k]) /\ Range(f[k]) = LiveUpTo(h, k)
           S == {k \in 0 .. n : P(k)}
<1>4. P(0)
  <2>1. f[0] \in Seq(Seq(Char)) /\ Len(f[0]) = 0
    BY <1>3, EmptySeq
  <2>2. PICK g \in Seq(Seq(Char)) : g = f[0]
    BY <2>1
  <2>3. Range(g) = {g[i] : i \in 1 .. Len(g)} /\ 1 .. Len(g) = {}
    BY <2>1, <2>2, RangeIs
  <2>4. Distinct(g) /\ Range(g) = {}
    BY <2>3 DEF Distinct
  <2>5. LiveUpTo(h, 0) = {}
    BY DEF LiveUpTo
  <2>6. QED BY <2>2, <2>4, <2>5
<1>5. ASSUME NEW k \in 1 .. n, P(k - 1) PROVE P(k)
  <2>1. PICK p \in Pointer : p = h.slot[RootOrder[k]]
    BY <1>2, RootOrderFacts DEF Arena
  <2>2. PICK l \in Seq(Seq(Char)) : l = f[k - 1]
    BY <1>5
  <2>3. f[k] = LiveStep(h, l, p)
    BY <1>3, <2>1, <2>2
  <2>4. Distinct(l) /\ Range(l) = LiveUpTo(h, k - 1)
    BY <1>5, <2>2
  <2>5. LiveUpTo(h, k) = IF InArena(h, p) THEN LiveUpTo(h, k - 1) \cup {TextAt(h, p.at)} ELSE LiveUpTo(h, k - 1)
    <3>1. \A j \in 1 .. k : j \in 1 .. k - 1 \/ j = k
      OBVIOUS
    <3>2. \A j \in 1 .. k - 1 : j \in 1 .. k
      OBVIOUS
    <3>3. k \in 1 .. k
      OBVIOUS
    <3>4. QED BY <2>1, <3>1, <3>2, <3>3 DEF LiveUpTo
  <2>6. QED BY <2>3, <2>4, <2>5, LiveStepKeeps
<1>6. \A k \in 0 .. n : k \in S
  <2>1. 0 \in S
    BY <1>4
  <2>2. ASSUME NEW k \in 1 .. n, k - 1 \in S PROVE k \in S
    BY <1>5, <2>2
  <2> HIDE DEF S
  <2>3. QED BY <2>1, <2>2, UpTo
<1>7. P(n)
  BY <1>6
<1>8. QED BY <1>1, <1>2, <1>7

\* The copy of a text and its NUL behind the texts before.
LEMMA NewArenaSteps ==
  ASSUME NEW l \in Seq(Seq(Char))
  PROVE  /\ NewArena(l)[0] = <<>>
         /\ \A k \in 1 .. Len(l) : NewArena(l)[k] = NewArena(l)[k - 1] \o Append(l[k], Nul)
         /\ \A k \in 0 .. Len(l) : NewArena(l)[k] \in Seq(Cell)
<1> DEFINE n == Len(l)
           V == Seq(Cell)
           T == [k \in 1 .. n |-> [v \in V |-> v \o Append(l[k], Nul)]]
<1>1. n \in Nat /\ <<>> \in V
  BY LenProperties, EmptySeq
<1>2. ASSUME NEW k \in 1 .. n PROVE Append(l[k], Nul) \in V
  <2>1. l[k] \in Seq(Char)
    BY ElementOfSeq
  <2>2. l[k] \in Seq(Cell) /\ Nul \in Cell
    BY <2>1, CellFacts, SeqMonotonic
  <2>3. QED BY <2>2, AppendProperties
<1>3. T \in [1 .. n -> [V -> V]]
  <2>1. ASSUME NEW k \in 1 .. n, NEW v \in V PROVE v \o Append(l[k], Nul) \in V
    BY <1>2, ConcatProperties
  <2>2. QED BY <2>1
<1>4. PICK u : Recursion(u, n, V, <<>>, T)
  <2> HIDE DEF n, V, T
  <2>1. QED BY <1>1, <1>3, RecursionExists
<1>5. ASSUME NEW k \in 1 .. n PROVE u[k] = u[k - 1] \o Append(l[k], Nul)
  <2>1. u[k - 1] \in V /\ u[k] = T[k][u[k - 1]]
    <3> HIDE DEF n, V, T
    <3>1. k - 1 \in 0 .. n
      BY <1>1
    <3>2. QED BY <3>1, <1>4 DEF Recursion
  <2>2. QED BY <2>1
<1>6. u[0] = <<>> /\ u \in [0 .. n -> V]
  BY <1>4 DEF Recursion
<1> DEFINE Sol(f) == f = [k \in 0 .. Len(l) |-> IF k = 0 THEN <<>> ELSE f[k - 1] \o Append(l[k], Nul)]
<1>7. Sol(u)
  <2>1. ASSUME NEW k \in 0 .. n, k # 0 PROVE u[k] = u[k - 1] \o Append(l[k], Nul)
    <3>1. k \in 1 .. n
      BY <2>1, <1>1
    <3>2. QED BY <3>1, <1>5
  <2>2. QED BY <1>6, <2>1
<1>8. NewArena(l) = CHOOSE f : Sol(f)
  BY DEF NewArena
<1>9. PICK f : f = NewArena(l) /\ Sol(f)
  <2> HIDE DEF Sol
  <2>1. QED BY <1>7, <1>8
<1>10. f[0] = <<>> /\ \A k \in 1 .. n : f[k] = f[k - 1] \o Append(l[k], Nul)
  <2>1. f = [k \in 0 .. n |-> IF k = 0 THEN <<>> ELSE f[k - 1] \o Append(l[k], Nul)]
    BY <1>9
  <2> HIDE DEF n, Sol
  <2>2. f[0] = <<>>
    BY <1>1, <2>1
  <2>3. ASSUME NEW k \in 1 .. n PROVE f[k] = f[k - 1] \o Append(l[k], Nul)
    <3>1. k \in 0 .. n /\ k # 0
      BY <1>1
    <3>2. QED BY <2>1, <3>1
  <2>4. QED BY <2>2, <2>3
<1>11. \A k \in 0 .. n : f[k] \in V
  <2> DEFINE S == {k \in 0 .. n : f[k] \in V}
  <2>1. 0 \in S
    <3>1. f[0] \in V /\ 0 \in 0 .. n
      BY <1>1, <1>10
    <3>2. QED BY <3>1
  <2>2. ASSUME NEW k \in 1 .. n, k - 1 \in S PROVE k \in S
    <3>1. f[k - 1] \in V
      BY <2>2
    <3>2. f[k - 1] \o Append(l[k], Nul) \in V
      BY <3>1, <1>2, ConcatProperties
    <3>3. f[k] \in V
      <4> HIDE DEF V
      <4>1. QED BY <3>2, <1>10
    <3>4. k \in 0 .. n
      BY <1>1
    <3>5. QED BY <3>3, <3>4
  <2>3. \A k \in 0 .. n : k \in S
    <3> HIDE DEF S, n
    <3>1. QED BY <1>1, <2>1, <2>2, UpTo
  <2>4. QED BY <2>3
<1>12. QED BY <1>9, <1>10, <1>11

\* Each text of a row ends with a NUL.
LEMMA NewArenaCloses ==
  ASSUME NEW l \in Seq(Seq(Char)), NEW k \in 0 .. Len(l)
  PROVE  LET c == NewArena(l)[k] IN Len(c) > 0 => c[Len(c)] = Nul
<1>1. CASE k = 0
  <2>1. NewArena(l)[k] = <<>> /\ Len(<<>>) = 0
    BY <1>1, NewArenaSteps, EmptySeq
  <2>2. QED BY <2>1
<1>2. CASE k # 0
  <2>1. k \in 1 .. Len(l) /\ k - 1 \in 0 .. Len(l)
    BY <1>2, LenProperties
  <2>2. PICK a \in Seq(Cell) : a = NewArena(l)[k - 1]
    BY <2>1, NewArenaSteps
  <2>3. PICK t \in Seq(Cell) : t = l[k]
    <3>1. l[k] \in Seq(Char)
      BY <2>1, ElementOfSeq
    <3>2. QED BY <3>1, CellFacts, SeqMonotonic
  <2>4. PICK b : b = Append(t, Nul)
    OBVIOUS
  <2>5. b \in Seq(Cell) /\ Len(b) = Len(t) + 1 /\ b[Len(t) + 1] = Nul
    BY <2>4, CellFacts, AppendProperties
  <2>6. Len(a) \in Nat /\ Len(t) \in Nat
    BY LenProperties
  <2>7. /\ Len(a \o b) = Len(a) + Len(t) + 1
        /\ (a \o b)[Len(a) + Len(t) + 1] = b[Len(t) + 1]
    <3>1. /\ Len(a \o b) = Len(a) + Len(b)
          /\ \A i \in 1 .. Len(a) + Len(b) : (a \o b)[i] = IF i <= Len(a) THEN a[i] ELSE b[i - Len(a)]
      BY <2>5, ConcatProperties
    <3>2. PICK x \in Nat, y \in Nat : x = Len(a) /\ y = Len(t)
      BY <2>6
    <3>3. x + y + 1 \in 1 .. x + (y + 1) /\ ~ (x + y + 1 <= x) /\ x + y + 1 - x = y + 1 /\ x + (y + 1) = x + y + 1
      OBVIOUS
    <3>4. QED BY <2>5, <3>1, <3>2, <3>3
  <2>8. NewArena(l)[k] = a \o b
    BY <2>1, <2>2, <2>3, <2>4, NewArenaSteps
  <2>9. QED BY <2>5, <2>7, <2>8
<1>3. QED BY <1>1, <1>2

\* The bytes of the strings of a set.
ByteSet(texts) == UNION {{t} \X (0 .. Len(t)) : t \in texts}

LEMMA OneMoreText ==
  ASSUME NEW T, T \subseteq Seq(Char), IsFiniteSet(ByteSet(T)), NEW t \in Seq(Char), t \notin T
  PROVE  IsFiniteSet(ByteSet(T \cup {t})) /\ Bytes(T \cup {t}) = Bytes(T) + (Len(t) + 1)
<1>1. PICK n \in Nat : n = Len(t)
  BY LenProperties
<1>2. PICK own : own = {t} \X (0 .. n)
  OBVIOUS
<1>3. IsFiniteSet(own) /\ Cardinality(own) = n + 1
  <2>1. IsFiniteSet({t}) /\ Cardinality({t}) = 1
    BY FS_Singleton
  <2>2. IsFiniteSet(0 .. n) /\ Cardinality(0 .. n) = n - 0 + 1
    BY FS_Interval
  <2>3. IsFiniteSet({t} \X (0 .. n)) /\ Cardinality({t} \X (0 .. n)) = Cardinality({t}) * Cardinality(0 .. n)
    BY <2>1, <2>2, FS_Product
  <2>4. Cardinality({t} \X (0 .. n)) = n + 1
    BY <2>1, <2>2, <2>3
  <2>5. QED BY <1>2, <2>3, <2>4
<1>4. ByteSet(T \cup {t}) = ByteSet(T) \cup own
  BY <1>1, <1>2 DEF ByteSet
<1>5. ByteSet(T) \cap own = {}
  BY <1>2 DEF ByteSet
<1>6. PICK a : a = ByteSet(T)
  OBVIOUS
<1>7. /\ IsFiniteSet(a \cup own)
      /\ Cardinality(a \cup own) = Cardinality(a) + Cardinality(own) - Cardinality(a \cap own)
  BY <1>3, <1>6, FS_Union
<1>8. Cardinality(a \cap own) = 0 /\ Cardinality(a) \in Nat
  BY <1>5, <1>6, FS_EmptySet, FS_CardinalityType
<1>9. Cardinality(a \cup own) = Cardinality(a) + (n + 1)
  BY <1>3, <1>7, <1>8
<1>10. QED BY <1>1, <1>4, <1>6, <1>7, <1>9 DEF Bytes, ByteSet

\* A new arena has the bytes of the texts, each once.
LEMMA NewArenaBytes ==
  ASSUME NEW l \in Seq(Seq(Char)), Distinct(l)
  PROVE  LET c == NewArena(l)[Len(l)] IN Len(c) = Bytes(Range(l)) /\ c \in Seq(Cell)
<1>1. PICK n \in Nat : n = Len(l)
  BY LenProperties
<1> DEFINE first(k) == {l[i] : i \in 1 .. k}
           P(k) == IsFiniteSet(ByteSet(first(k))) /\ Len(NewArena(l)[k]) = Bytes(first(k))
           S == {k \in 0 .. n : P(k)}
<1>2. P(0)
  <2>1. first(0) = {} /\ ByteSet({}) = {}
    BY DEF ByteSet
  <2>2. Bytes({}) = 0
    BY <2>1, FS_EmptySet DEF Bytes, ByteSet
  <2>3. Len(NewArena(l)[0]) = 0
    BY NewArenaSteps, EmptySeq
  <2>4. QED BY <2>1, <2>2, <2>3, FS_EmptySet
<1>3. ASSUME NEW k \in 1 .. n, P(k - 1) PROVE P(k)
  <2>1. k - 1 \in 0 .. n /\ k \in 1 .. Len(l) /\ k - 1 \in 0 .. Len(l)
    BY <1>1
  <2>2. PICK t \in Seq(Char) : t = l[k]
    BY <2>1, ElementOfSeq
  <2>3. PICK T : T = first(k - 1)
    OBVIOUS
  <2>4. T \subseteq Seq(Char)
    <3>1. ASSUME NEW i \in 1 .. k - 1 PROVE l[i] \in Seq(Char)
      <4>1. i \in 1 .. Len(l)
        BY <2>1
      <4>2. QED BY <4>1, ElementOfSeq
    <3>2. QED BY <2>3, <3>1
  <2>5. t \notin T
    <3>1. ASSUME NEW i \in 1 .. k - 1, l[i] = t PROVE FALSE
      <4>1. i \in 1 .. Len(l) /\ i # k
        BY <2>1
      <4>2. QED BY <2>1, <2>2, <3>1, <4>1 DEF Distinct
    <3>2. QED BY <2>3, <3>1
  <2>6. first(k) = T \cup {t}
    <3>1. 1 .. k = (1 .. k - 1) \cup {k}
      OBVIOUS
    <3>2. QED BY <2>2, <2>3, <3>1
  <2>7. IsFiniteSet(ByteSet(T)) /\ Len(NewArena(l)[k - 1]) = Bytes(T)
    BY <1>3, <2>3
  <2> HIDE DEF first
  <2>8. IsFiniteSet(ByteSet(T \cup {t})) /\ Bytes(T \cup {t}) = Bytes(T) + (Len(t) + 1)
    BY <2>4, <2>5, <2>7, OneMoreText
  <2>9. PICK a \in Seq(Cell) : a = NewArena(l)[k - 1]
    BY <2>1, NewArenaSteps
  <2>10. t \in Seq(Cell)
    BY CellFacts, SeqMonotonic
  <2>11. Append(t, Nul) \in Seq(Cell) /\ Len(Append(t, Nul)) = Len(t) + 1
    BY <2>10, CellFacts, AppendProperties
  <2>12. Len(a \o Append(t, Nul)) = Len(a) + (Len(t) + 1)
    BY <2>11, ConcatProperties
  <2>13. NewArena(l)[k] = a \o Append(t, Nul)
    BY <2>1, <2>2, <2>9, NewArenaSteps
  <2>14. QED BY <2>6, <2>7, <2>8, <2>9, <2>12, <2>13
<1>4. \A k \in 0 .. n : k \in S
  <2>1. 0 \in S
    BY <1>2
  <2>2. ASSUME NEW k \in 1 .. n, k - 1 \in S PROVE k \in S
    <3> HIDE DEF P
    <3>1. P(k - 1) /\ k \in 0 .. n
      BY <2>2
    <3>2. P(k)
      BY <1>3, <3>1
    <3>3. QED BY <3>1, <3>2
  <2> HIDE DEF S
  <2>3. QED BY <2>1, <2>2, UpTo
<1>5. P(n)
  <2> HIDE DEF P
  <2>1. n \in 0 .. n
    OBVIOUS
  <2>2. QED BY <1>4, <2>1
<1>6. Range(l) = first(n)
  BY <1>1, RangeIs
<1>7. NewArena(l)[n] \in Seq(Cell)
  <2>1. n \in 0 .. Len(l)
    BY <1>1
  <2>2. QED BY <2>1, NewArenaSteps
<1>8. QED BY <1>1, <1>5, <1>6, <1>7

-----------------------------------------------------------------------------

\* The texts of the live strings.
Live(h) == {TextAt(h, h.slot[s].at) : s \in {q \in Slots : InArena(h, h.slot[q])}}

LEMMA LiveIsAll ==
  ASSUME NEW h
  PROVE  LiveUpTo(h, Len(RootOrder)) = Live(h)
<1>1. PICK n : n = Len(RootOrder)
  OBVIOUS
<1>2. ASSUME NEW i \in {j \in 1 .. n : InArena(h, h.slot[RootOrder[j]])}
      PROVE  RootOrder[i] \in {q \in Slots : InArena(h, h.slot[q])}
  BY <1>1, RootOrderFacts
<1>3. ASSUME NEW s \in {q \in Slots : InArena(h, h.slot[q])}
      PROVE  \E i \in {j \in 1 .. n : InArena(h, h.slot[RootOrder[j]])} : s = RootOrder[i]
  BY <1>1, RootOrderFacts
<1>4. LiveUpTo(h, n) \subseteq Live(h)
  BY <1>2 DEF LiveUpTo, Live
<1>5. Live(h) \subseteq LiveUpTo(h, n)
  BY <1>3 DEF LiveUpTo, Live
<1>6. QED BY <1>1, <1>4, <1>5

\* What a compaction makes of the arena h.
Compacted(h, c) ==
  /\ c \in Arena /\ c.status = h.status /\ c.limit = h.limit /\ c.asked = h.asked /\ c.out = h.out
  /\ c.compacted
  /\ c.used = Bytes(Live(h)) /\ c.used <= StringCapacity /\ Closed(c.mem, c.used)
  /\ c.slot = [s \in Slots |-> Relocated(h, h.slot[s])]

LEMMA PointerFacts ==
  /\ NoString \in Pointer /\ NoString.region = "none"
  /\ Dangling \in Pointer /\ Dangling.region = "frame"
  /\ \A t \in Seq(Char) : /\ InProgram(t) \in Pointer /\ InProgram(t).region = "program"
                          /\ InProgram(t).lit = t /\ InProgram(t).want = t
  /\ \A h \in Arena, t \in Seq(Char) : /\ Made(h, t) \in Pointer /\ Made(h, t).region = "arena"
                                       /\ Made(h, t).at = h.out /\ Made(h, t).want = t
<1>1. <<>> \in Seq(Char)
  BY EmptySeq
<1>2. \A h \in Arena : h.out \in Nat
  BY DEF Arena
<1>3. QED BY <1>1, <1>2 DEF NoString, Dangling, InProgram, Made, Pointer

LEMMA CompactWorks ==
  ASSUME NEW h \in Arena, Bounded(h), Closed(h.mem, h.used)
  PROVE  \/ h.used = 0 /\ Live(h) = {} /\ Compact(h) = h
         \/ Bytes(Live(h)) > StringCapacity /\ Compact(h) = [h EXCEPT !.status = "pressure"]
         \/ Compacted(h, Compact(h))
<1>1. PICK l \in Seq(Seq(Char)) : /\ l = LiveTexts(h)[Len(RootOrder)]
                                  /\ Distinct(l) /\ Range(l) = LiveUpTo(h, Len(RootOrder))
  BY LiveTextsAre
<1>2. PICK cells \in Seq(Cell) : cells = NewArena(l)[Len(l)] /\ Len(cells) = Bytes(Live(h))
  <2>1. Range(l) = Live(h)
    BY <1>1, LiveIsAll
  <2>2. LET c == NewArena(l)[Len(l)] IN Len(c) = Bytes(Range(l)) /\ c \in Seq(Cell)
    BY <1>1, NewArenaBytes
  <2>3. QED BY <2>1, <2>2
<1>3. Len(cells) > 0 => cells[Len(cells)] = Nul
  <2>1. Len(l) \in 0 .. Len(l)
    BY LenProperties
  <2>2. QED BY <1>2, <2>1, NewArenaCloses
<1>4. PICK n \in Nat : n = Len(cells)
  BY LenProperties
<1>5. CASE h.used = 0
  <2>1. Live(h) = {}
    <3>1. ASSUME NEW s \in Slots, InArena(h, h.slot[s]) PROVE FALSE
      <4>1. h.slot[s].at \in Nat /\ h.slot[s].at < h.used
        BY <3>1 DEF Arena, Pointer, InArena
      <4>2. QED BY <1>5, <4>1
    <3>2. QED BY <3>1 DEF Live
  <2>2. Compact(h) = h
    BY <1>5 DEF Compact
  <2>3. QED BY <1>5, <2>1, <2>2
<1>6. CASE h.used # 0 /\ n > StringCapacity
  <2>1. Compact(h) = [h EXCEPT !.status = "pressure"]
    BY <1>1, <1>2, <1>4, <1>6 DEF Compact
  <2>2. QED BY <1>2, <1>4, <1>6, <2>1
<1>7. CASE h.used # 0 /\ ~ (n > StringCapacity)
  <2>0. StringCapacity \in Nat /\ n <= StringCapacity
    BY <1>7, StringAssumption
  <2>1. PICK m : m = [k \in 1 .. StringCapacity |->
                        IF k <= n THEN cells[k] ELSE IF k = n + 1 THEN Nul ELSE h.mem[k]]
    OBVIOUS
  <2>2. m \in [1 .. StringCapacity -> Cell] /\ (n > 0 => m[n] = Nul)
    <3>1. ASSUME NEW k \in 1 .. StringCapacity
          PROVE (IF k <= n THEN cells[k] ELSE IF k = n + 1 THEN Nul ELSE h.mem[k]) \in Cell
      <4>1. k <= n => cells[k] \in Cell
        <5>1. k <= n => k \in 1 .. Len(cells)
          BY <1>4
        <5>2. QED BY <5>1, ElementOfSeq
      <4>2. h.mem[k] \in Cell
        BY DEF Arena
      <4>3. QED BY <4>1, <4>2, CellFacts
    <3>2. n > 0 => n \in 1 .. StringCapacity /\ n <= n
      BY <2>0
    <3>3. QED BY <1>3, <1>4, <2>1, <3>1, <3>2
  <2>3. PICK sl : sl = [s \in Slots |-> Relocated(h, h.slot[s])]
    OBVIOUS
  <2>4. sl \in [Slots -> Pointer]
    <3>1. ASSUME NEW s \in Slots PROVE Relocated(h, h.slot[s]) \in Pointer
      BY PointerFacts DEF Relocated, Arena
    <3>2. QED BY <2>3, <3>1
  <2>5. Compact(h) = [h EXCEPT !.mem = m, !.used = n, !.compacted = TRUE, !.slot = sl]
    BY <1>1, <1>2, <1>4, <1>7, <2>1, <2>3 DEF Compact
  <2>6. PICK c : c = [h EXCEPT !.mem = m, !.used = n, !.compacted = TRUE, !.slot = sl]
    OBVIOUS
  <2>7. /\ c \in Arena
        /\ c.mem = m /\ c.used = n /\ c.compacted = TRUE /\ c.slot = sl
        /\ c.status = h.status /\ c.limit = h.limit /\ c.asked = h.asked /\ c.out = h.out
    BY <2>2, <2>4, <2>6 DEF Arena
  <2>8. Closed(c.mem, c.used)
    BY <2>2, <2>7 DEF Closed
  <2>9. Compacted(h, c)
    BY <1>2, <1>4, <2>0, <2>3, <2>7, <2>8 DEF Compacted
  <2>10. QED BY <2>5, <2>6, <2>9
<1>8. QED BY <1>5, <1>6, <1>7

LEMMA LiveBytes ==
  ASSUME NEW h \in Arena, Bounded(h), Closed(h.mem, h.used)
  PROVE  Bytes(Live(h)) \in Nat
<1>1. PICK l \in Seq(Seq(Char)) : /\ l = LiveTexts(h)[Len(RootOrder)]
                                  /\ Distinct(l) /\ Range(l) = LiveUpTo(h, Len(RootOrder))
  BY LiveTextsAre
<1>2. PICK c \in Seq(Cell) : Len(c) = Bytes(Live(h))
  <2>1. Range(l) = Live(h)
    BY <1>1, LiveIsAll
  <2>2. LET c == NewArena(l)[Len(l)] IN Len(c) = Bytes(Range(l)) /\ c \in Seq(Cell)
    BY <1>1, NewArenaBytes
  <2>3. QED BY <2>1, <2>2
<1>3. QED BY <1>2, LenProperties

-----------------------------------------------------------------------------
(* Allocation.                                                              *)

LEMMA GrownLimitWorks ==
  ASSUME NEW current \in Nat, current <= StringCapacity, NEW needed \in Nat
  PROVE  LET g == GrownLimit(current, needed)
         IN  g \in Nat /\ g <= StringCapacity /\ (needed > g => g = StringCapacity)
<1>1. StringCapacity \in Nat /\ GrowthStep \in Nat
  BY StringAssumption
<1> DEFINE step(k) == Min({current + k * GrowthStep, StringCapacity})
           steps == {step(k) : k \in 0 .. StringCapacity}
           fits == {l \in steps : needed <= l}
<1>2. ASSUME NEW k \in 0 .. StringCapacity PROVE step(k) \in Nat /\ step(k) <= StringCapacity
  <2>1. k * GrowthStep \in Nat
    BY <1>1
  <2>2. PICK a \in Nat : a = current + k * GrowthStep
    BY <2>1
  <2>3. {a, StringCapacity} \subseteq Nat /\ {a, StringCapacity} # {}
    BY <1>1
  <2>4. Min({a, StringCapacity}) \in {a, StringCapacity} /\ Min({a, StringCapacity}) <= StringCapacity
    BY <2>3, MinOfNats
  <2>5. QED BY <1>1, <2>2, <2>4
<1>3. \A l \in steps : l \in Nat /\ l <= StringCapacity
  <2> HIDE DEF step
  <2>1. QED BY <1>2
<1>4. GrownLimit(current, needed) = IF fits = {} THEN StringCapacity ELSE Min(fits)
  BY DEF GrownLimit
<1>5. fits \subseteq Nat /\ \A l \in fits : l <= StringCapacity /\ needed <= l
  <2> HIDE DEF steps
  <2>1. QED BY <1>3
<1> HIDE DEF fits
<1>6. CASE fits = {}
  BY <1>1, <1>4, <1>6
<1>7. CASE fits # {}
  <2>1. Min(fits) \in fits
    BY <1>5, <1>7, MinOfNats
  <2>2. PICK g \in Nat : g = Min(fits) /\ g <= StringCapacity /\ needed <= g
    BY <1>5, <2>1
  <2>3. QED BY <1>4, <1>7, <2>2
<1>8. QED BY <1>6, <1>7

\* Slots keep what kind of thing they hold: nothing, or something.
SameHeld(f, g) == \A s \in Slots : f[s].region = "none" <=> g[s].region = "none"

\* What arena_alloc makes of h.
Allocated(h, size, a) ==
  /\ a \in Arena /\ Bounded(a) /\ a.asked = size /\ SameHeld(h.slot, a.slot)
  /\ \/ a.status = "pressure" /\ Bytes(Live(h)) + size > StringCapacity
     \/ /\ a.status = "ok" /\ a.used = a.out + size
        /\ Closed(a.mem, a.out) /\ \A s \in Slots : Right(a.mem, a.out, a.slot[s])
  /\ a.status = "ok" => IF a.compacted THEN \A s \in Slots : a.slot[s].region # "arena"
                        ELSE a.mem = h.mem /\ a.slot = h.slot /\ a.out = h.used

\* The outcome, from the arena c that the compaction left.
AllocFrom(c, size) ==
  LET needed == c.used + size
      grown  == GrownLimit(c.limit, needed)
  IN  IF needed > grown THEN [c EXCEPT !.status = "pressure", !.limit = grown, !.asked = size]
      ELSE [c EXCEPT !.used = needed, !.limit = grown, !.out = c.used, !.asked = size]

LEMMA AllocFromWorks ==
  ASSUME NEW c \in Arena, c.status = "ok", c.used <= StringCapacity, c.limit <= StringCapacity,
         NEW size \in Nat, NEW a, a = AllocFrom(c, size)
  PROVE  /\ a \in Arena /\ Bounded(a) /\ a.asked = size
         /\ a.slot = c.slot /\ a.mem = c.mem /\ a.compacted = c.compacted
         /\ \/ a.status = "pressure" /\ c.used + size > StringCapacity
            \/ a.status = "ok" /\ a.used = c.used + size /\ a.out = c.used
<1>1. c.used \in Nat /\ c.limit \in Nat /\ StringCapacity \in Nat
  BY StringAssumption DEF Arena
<1>2. PICK needed \in Nat : needed = c.used + size
  BY <1>1
<1>3. PICK grown : grown = GrownLimit(c.limit, needed)
  OBVIOUS
<1>4. grown \in Nat /\ grown <= StringCapacity /\ (needed > grown => grown = StringCapacity)
  BY <1>1, <1>3, GrownLimitWorks
<1>5. CASE needed > grown
  <2>1. a = [c EXCEPT !.status = "pressure", !.limit = grown, !.asked = size]
    BY <1>2, <1>3, <1>5 DEF AllocFrom
  <2>2. /\ a \in Arena /\ a.limit = grown /\ a.used = c.used /\ a.asked = size
        /\ a.slot = c.slot /\ a.mem = c.mem /\ a.compacted = c.compacted /\ a.status = "pressure"
    BY <1>4, <2>1 DEF Arena
  <2>3. Bounded(a)
    BY <1>1, <1>4, <1>5, <2>2 DEF Bounded
  <2>4. QED BY <1>1, <1>2, <1>4, <1>5, <2>2, <2>3
<1>6. CASE ~ (needed > grown)
  <2>1. a = [c EXCEPT !.used = needed, !.limit = grown, !.out = c.used, !.asked = size]
    BY <1>2, <1>3, <1>6 DEF AllocFrom
  <2>2. /\ a \in Arena /\ a.limit = grown /\ a.used = needed /\ a.asked = size /\ a.out = c.used
        /\ a.slot = c.slot /\ a.mem = c.mem /\ a.compacted = c.compacted /\ a.status = "ok"
    BY <1>1, <1>4, <2>1 DEF Arena
  <2>3. Bounded(a)
    BY <1>4, <1>6, <2>2 DEF Bounded
  <2>4. QED BY <1>2, <2>2, <2>3
<1>7. QED BY <1>5, <1>6

LEMMA AllocWorks ==
  ASSUME NEW h \in Arena, Bounded(h), Sound(h), h.status = "ok", ~ h.compacted, NEW size \in Nat
  PROVE  Allocated(h, size, Alloc(h, size))
<1>1. /\ h.used \in Nat /\ h.limit \in Nat /\ StringCapacity \in Nat /\ h.slot \in [Slots -> Pointer]
      /\ h.used <= h.limit /\ h.limit <= StringCapacity
      /\ Closed(h.mem, h.used) /\ \A s \in Slots : Right(h.mem, h.used, h.slot[s])
  BY StringAssumption DEF Arena, Bounded, Sound
<1>2. PICK a : a = Alloc(h, size)
  OBVIOUS
<1>3. PICK c : c = IF h.used + size > h.limit THEN Compact(h) ELSE h
  OBVIOUS
<1>4. a = IF c.status # "ok" THEN [c EXCEPT !.asked = size] ELSE AllocFrom(c, size)
  BY <1>2, <1>3 DEF Alloc, AllocFrom
<1>5. \/ c = h /\ (h.used + size <= h.limit \/ (Live(h) = {} /\ h.used = 0))
      \/ Bytes(Live(h)) > StringCapacity /\ c = [h EXCEPT !.status = "pressure"]
      \/ Compacted(h, c)
  <2>1. CASE h.used + size > h.limit
    <3>1. c = Compact(h)
      BY <1>3, <2>1
    <3>2. \/ h.used = 0 /\ Live(h) = {} /\ c = h
          \/ Bytes(Live(h)) > StringCapacity /\ c = [h EXCEPT !.status = "pressure"]
          \/ Compacted(h, c)
      BY <1>1, <3>1, CompactWorks
    <3>3. QED BY <3>2
  <2>2. CASE ~ (h.used + size > h.limit)
    BY <1>1, <1>3, <2>2
  <2>3. QED BY <2>1, <2>2
<1>6. CASE c = h /\ (h.used + size <= h.limit \/ (Live(h) = {} /\ h.used = 0))
  <2>1. a = AllocFrom(h, size)
    BY <1>4, <1>6
  <2>2. h.used <= StringCapacity
    BY <1>1
  <2>3. /\ a \in Arena /\ Bounded(a) /\ a.asked = size
        /\ a.slot = h.slot /\ a.mem = h.mem /\ a.compacted = h.compacted
        /\ \/ a.status = "pressure" /\ h.used + size > StringCapacity
           \/ a.status = "ok" /\ a.used = h.used + size /\ a.out = h.used
    BY <1>1, <2>1, <2>2, AllocFromWorks
  <2>4. a.status = "pressure" => Bytes(Live(h)) + size > StringCapacity
    <3>1. SUFFICES ASSUME a.status = "pressure" PROVE Bytes(Live(h)) + size > StringCapacity
      OBVIOUS
    <3>2. Live(h) = {} /\ h.used = 0 /\ h.used + size > StringCapacity
      BY <1>1, <1>6, <2>3, <3>1
    <3>3. Bytes({}) = 0
      BY FS_EmptySet DEF Bytes
    <3>4. QED BY <3>2, <3>3
  <2>5. SameHeld(h.slot, a.slot)
    BY <2>3 DEF SameHeld
  <2>6. QED BY <1>1, <1>2, <2>3, <2>4, <2>5 DEF Allocated
<1>7. CASE Bytes(Live(h)) > StringCapacity /\ c = [h EXCEPT !.status = "pressure"]
  <2>1. c.status = "pressure"
    BY <1>7 DEF Arena
  <2>2. a = [c EXCEPT !.asked = size]
    BY <1>4, <2>1
  <2>3. /\ a \in Arena /\ a.used = h.used /\ a.limit = h.limit /\ a.asked = size
        /\ a.slot = h.slot /\ a.status = "pressure"
    BY <1>7, <2>2 DEF Arena
  <2>4. Bounded(a) /\ SameHeld(h.slot, a.slot)
    BY <2>3 DEF Bounded, SameHeld
  <2>5. Bytes(Live(h)) + size > StringCapacity
    <3>1. Bytes(Live(h)) \in Nat
      BY <1>1, LiveBytes
    <3>2. QED BY <1>1, <1>7, <3>1
  <2>6. QED BY <1>2, <2>3, <2>4, <2>5 DEF Allocated
<1>8. CASE Compacted(h, c)
  <2>1. /\ c \in Arena /\ c.status = "ok" /\ c.used <= StringCapacity /\ c.limit <= StringCapacity
        /\ c.compacted /\ c.used = Bytes(Live(h)) /\ Closed(c.mem, c.used)
        /\ c.slot = [s \in Slots |-> Relocated(h, h.slot[s])]
    BY <1>1, <1>8 DEF Compacted
  <2>2. a = AllocFrom(c, size)
    BY <1>4, <2>1
  <2>3. /\ a \in Arena /\ Bounded(a) /\ a.asked = size
        /\ a.slot = c.slot /\ a.mem = c.mem /\ a.compacted = c.compacted
        /\ \/ a.status = "pressure" /\ c.used + size > StringCapacity
           \/ a.status = "ok" /\ a.used = c.used + size /\ a.out = c.used
    <3>1. c \in Arena /\ c.status = "ok" /\ c.used <= StringCapacity /\ c.limit <= StringCapacity
      BY <2>1
    <3>2. QED BY <2>2, <3>1, AllocFromWorks
  <2>4. ASSUME NEW s \in Slots
        PROVE  /\ h.slot[s].region = "none" <=> c.slot[s].region = "none"
               /\ c.slot[s].region # "arena"
               /\ Right(c.mem, c.used, c.slot[s])
    <3>1. PICK p \in Pointer : p = h.slot[s]
      BY <1>1
    <3>2. c.slot[s] = Relocated(h, p)
      BY <2>1, <3>1
    <3>3. p.region = "arena" => InArena(h, p)
      BY <1>1, <3>1, ReadsRight
    <3>4. CASE InArena(h, p)
      BY <3>1, <3>2, <3>4, PointerFacts DEF Relocated, InArena, Right
    <3>5. CASE ~ InArena(h, p)
      <4>1. c.slot[s] = p /\ p.region # "arena" /\ Right(h.mem, h.used, p)
        BY <1>1, <3>1, <3>2, <3>3, <3>5 DEF Relocated
      <4>2. QED BY <3>1, <4>1 DEF Right
    <3>6. QED BY <3>4, <3>5
  <2>5. SameHeld(h.slot, a.slot)
    BY <2>3, <2>4 DEF SameHeld
  <2>6. QED BY <1>2, <2>1, <2>3, <2>4, <2>5 DEF Allocated
<1>9. QED BY <1>5, <1>6, <1>7, <1>8

-----------------------------------------------------------------------------
(* Copying.                                                                 *)

Item   == [cell : Nat, ch : Cell]
Memory == [1 .. StringCapacity -> Cell]

LEMMA CellOfType ==
  ASSUME NEW m \in Memory, NEW items \in Seq(Item), NEW k \in 1 .. Len(items) + 1
  PROVE  CellOf(m, items, k) \in Cell
<1>1. CASE k > Len(items)
  BY <1>1, CellFacts DEF CellOf
<1>2. CASE ~ (k > Len(items))
  <2>1. k \in 1 .. Len(items)
    BY <1>2, LenProperties
  <2>2. PICK i \in Item : i = items[k]
    BY <2>1, ElementOfSeq
  <2>3. i.cell \in Nat /\ i.ch \in Cell /\ StringCapacity \in Nat
    BY StringAssumption DEF Item
  <2>4. i.cell # 0 /\ i.cell <= StringCapacity => m[i.cell] \in Cell
    <3>1. i.cell # 0 /\ i.cell <= StringCapacity => i.cell \in 1 .. StringCapacity
      BY <2>3
    <3>2. QED BY <3>1 DEF Memory
  <2>5. CellOf(m, items, k) = IF i.cell = 0 THEN i.ch ELSE IF i.cell <= StringCapacity THEN m[i.cell] ELSE Nul
    BY <1>2, <2>2 DEF CellOf
  <2>6. QED BY <2>3, <2>4, <2>5, CellFacts
<1>3. QED BY <1>1, <1>2

LEMMA WritingSteps ==
  ASSUME NEW h \in Arena, NEW items \in Seq(Item)
  PROVE  /\ Writing(h, items)[0] = h.mem
         /\ \A k \in 1 .. Len(items) + 1 :
              Writing(h, items)[k] =
                [Writing(h, items)[k - 1] EXCEPT ![h.out + k] = CellOf(Writing(h, items)[k - 1], items, k)]
         /\ \A k \in 0 .. Len(items) + 1 : Writing(h, items)[k] \in Memory
<1>0. PICK n \in Nat : n = Len(items) + 1
  BY LenProperties
<1> DEFINE put(m, k) == [m EXCEPT ![h.out + k] = CellOf(m, items, k)]
           T == [k \in 1 .. n |-> [m \in Memory |-> put(m, k)]]
<1>1. h.mem \in Memory
  BY DEF Arena, Memory
<1>2. ASSUME NEW k \in 1 .. n, NEW m \in Memory PROVE put(m, k) \in Memory
  <2>1. CellOf(m, items, k) \in Cell
    BY <1>0, CellOfType
  <2>2. QED BY <2>1 DEF Memory
<1>3. T \in [1 .. n -> [Memory -> Memory]]
  <2> HIDE DEF put
  <2>1. QED BY <1>2
<1>4. PICK u : Recursion(u, n, Memory, h.mem, T)
  <2> HIDE DEF T
  <2>1. QED BY <1>1, <1>3, RecursionExists
<1>5. ASSUME NEW k \in 1 .. n PROVE u[k] = put(u[k - 1], k)
  <2>1. u[k - 1] \in Memory /\ u[k] = T[k][u[k - 1]]
    <3> HIDE DEF T
    <3>1. k - 1 \in 0 .. n
      OBVIOUS
    <3>2. QED BY <3>1, <1>4 DEF Recursion
  <2> HIDE DEF put
  <2>2. QED BY <2>1
<1>6. u[0] = h.mem /\ u \in [0 .. n -> Memory]
  BY <1>4 DEF Recursion
<1> DEFINE Sol(f) == f = [k \in 0 .. n |-> IF k = 0 THEN h.mem ELSE put(f[k - 1], k)]
<1>7. Sol(u)
  <2> HIDE DEF put
  <2>1. ASSUME NEW k \in 0 .. n, k # 0 PROVE u[k] = put(u[k - 1], k)
    <3>1. k \in 1 .. n
      BY <2>1
    <3>2. QED BY <3>1, <1>5
  <2>2. QED BY <1>6, <2>1
<1>8. Writing(h, items) = CHOOSE f : Sol(f)
  BY <1>0 DEF Writing
<1>9. PICK f : f = Writing(h, items) /\ Sol(f)
  <2> HIDE DEF Sol
  <2>1. QED BY <1>7, <1>8
<1>10. f[0] = h.mem /\ \A k \in 1 .. n : f[k] = put(f[k - 1], k)
  <2>1. f = [k \in 0 .. n |-> IF k = 0 THEN h.mem ELSE put(f[k - 1], k)]
    BY <1>9
  <2> HIDE DEF put, Sol
  <2>2. f[0] = h.mem
    BY <2>1
  <2>3. ASSUME NEW k \in 1 .. n PROVE f[k] = put(f[k - 1], k)
    <3>1. k \in 0 .. n /\ k # 0
      OBVIOUS
    <3>2. QED BY <2>1, <3>1
  <2>4. QED BY <2>2, <2>3
<1>11. \A k \in 0 .. n : f[k] \in Memory
  <2> DEFINE S == {k \in 0 .. n : f[k] \in Memory}
  <2> HIDE DEF put
  <2>1. 0 \in S
    BY <1>1, <1>10
  <2>2. ASSUME NEW k \in 1 .. n, k - 1 \in S PROVE k \in S
    <3>1. f[k - 1] \in Memory
      BY <2>2
    <3>2. f[k] \in Memory
      BY <3>1, <1>2, <1>10
    <3>3. QED BY <3>2
  <2>3. \A k \in 0 .. n : k \in S
    <3> HIDE DEF S
    <3>1. QED BY <2>1, <2>2, UpTo
  <2>4. QED BY <2>3
<1>12. QED BY <1>0, <1>9, <1>10, <1>11

\* The items stand for the text, when the first u cells of m are as they were.
Denote(items, m, u, text) ==
  /\ Len(items) = Len(text)
  /\ \A k \in 1 .. Len(text) : \/ items[k].cell = 0 /\ items[k].ch = text[k]
                               \/ items[k].cell \in 1 .. u /\ m[items[k].cell] = text[k]

\* Copying changes the cells from out on, one after the other.
LEMMA WritingFills ==
  ASSUME NEW h \in Arena, NEW items \in Seq(Item), NEW text \in Seq(Char),
         Denote(items, h.mem, h.out, text), h.out + Len(text) + 1 <= StringCapacity
  PROVE  LET m == Writing(h, items)[Len(items) + 1]
         IN  /\ \A j \in 1 .. h.out : m[j] = h.mem[j]
             /\ \A i \in 1 .. Len(text) : m[h.out + i] = text[i]
             /\ m[h.out + Len(text) + 1] = Nul
<1>1. PICK n \in Nat : n = Len(text) /\ n = Len(items)
  BY LenProperties DEF Denote
<1>2. PICK o \in Nat : o = h.out
  BY DEF Arena
<1>3. PICK W : W = Writing(h, items)
  OBVIOUS
<1>4. /\ W[0] = h.mem
      /\ \A k \in 1 .. n + 1 : W[k] = [W[k - 1] EXCEPT ![o + k] = CellOf(W[k - 1], items, k)]
      /\ \A k \in 0 .. n + 1 : W[k] \in Memory
  BY <1>1, <1>2, <1>3, WritingSteps
<1>5. StringCapacity \in Nat /\ o + n + 1 <= StringCapacity
  BY <1>1, <1>2, StringAssumption
<1> DEFINE P(k) == /\ \A j \in 1 .. o : W[k][j] = h.mem[j]
                   /\ \A i \in 1 .. k : W[k][o + i] = IF i <= n THEN text[i] ELSE Nul
           S == {k \in 0 .. n + 1 : P(k)}
<1>6. P(0)
  BY <1>4
<1>7. ASSUME NEW k \in 1 .. n + 1, P(k - 1) PROVE P(k)
  <2>1. PICK m \in Memory : m = W[k - 1]
    <3>1. k - 1 \in 0 .. n + 1
      OBVIOUS
    <3>2. QED BY <3>1, <1>4
  <2>2. PICK x : x = CellOf(m, items, k)
    OBVIOUS
  <2>3. W[k] = [m EXCEPT ![o + k] = x]
    BY <1>4, <2>1, <2>2
  <2>4. DOMAIN m = 1 .. StringCapacity
    BY DEF Memory
  <2>5. x = IF k <= n THEN text[k] ELSE Nul
    <3>1. CASE k > n
      BY <1>1, <2>2, <3>1 DEF CellOf
    <3>2. CASE ~ (k > n)
      <4>1. k \in 1 .. n
        BY <3>2
      <4>2. PICK i \in Item : i = items[k]
        BY <1>1, <4>1, ElementOfSeq
      <4>3. x = IF i.cell = 0 THEN i.ch ELSE IF i.cell <= StringCapacity THEN m[i.cell] ELSE Nul
        BY <1>1, <2>2, <3>2, <4>2 DEF CellOf
      <4>4. \/ i.cell = 0 /\ i.ch = text[k]
            \/ i.cell \in 1 .. o /\ h.mem[i.cell] = text[k]
        BY <1>1, <1>2, <4>1, <4>2 DEF Denote
      <4>5. i.cell \in 1 .. o => i.cell # 0 /\ i.cell <= StringCapacity /\ m[i.cell] = h.mem[i.cell]
        BY <1>5, <1>7, <2>1
      <4>6. QED BY <4>1, <4>3, <4>4, <4>5
    <3>3. QED BY <3>1, <3>2
  <2>6. ASSUME NEW j \in 1 .. o PROVE W[k][j] = h.mem[j]
    <3>1. j \in 1 .. StringCapacity /\ j # o + k
      BY <1>5
    <3>2. W[k][j] = m[j]
      BY <2>3, <2>4, <3>1
    <3>3. QED BY <3>2, <2>1, <1>7
  <2>7. ASSUME NEW i \in 1 .. k PROVE W[k][o + i] = IF i <= n THEN text[i] ELSE Nul
    <3>1. o + i \in 1 .. StringCapacity
      BY <1>5
    <3>2. CASE i = k
      BY <2>3, <2>4, <2>5, <3>1, <3>2
    <3>3. CASE i # k
      <4>1. i \in 1 .. k - 1 /\ o + i # o + k
        BY <3>3
      <4>2. W[k][o + i] = m[o + i]
        BY <2>3, <2>4, <3>1, <4>1
      <4>3. m[o + i] = IF i <= n THEN text[i] ELSE Nul
        BY <1>7, <2>1, <4>1
      <4>4. QED BY <4>2, <4>3
    <3>4. QED BY <3>2, <3>3
  <2>8. QED BY <2>6, <2>7
<1>8. \A k \in 0 .. n + 1 : k \in S
  <2>1. 0 \in S
    BY <1>6
  <2>2. ASSUME NEW k \in 1 .. n + 1, k - 1 \in S PROVE k \in S
    <3> HIDE DEF P
    <3>1. P(k - 1) /\ k \in 0 .. n + 1
      BY <2>2
    <3>2. P(k)
      BY <1>7, <3>1
    <3>3. QED BY <3>1, <3>2
  <2> HIDE DEF S
  <2>3. n + 1 \in Nat
    OBVIOUS
  <2>4. QED BY <2>1, <2>2, <2>3, UpTo
<1>9. P(n + 1)
  <2> HIDE DEF P
  <2>1. n + 1 \in 0 .. n + 1
    OBVIOUS
  <2>2. QED BY <1>8, <2>1
<1>10. PICK m : m = W[n + 1]
  OBVIOUS
<1>11. /\ \A j \in 1 .. o : m[j] = h.mem[j]
       /\ \A i \in 1 .. n : m[o + i] = text[i]
       /\ m[o + n + 1] = Nul
  <2>1. \A i \in 1 .. n : i \in 1 .. n + 1 /\ i <= n
    OBVIOUS
  <2>2. n + 1 \in 1 .. n + 1 /\ ~ (n + 1 <= n) /\ o + (n + 1) = o + n + 1
    OBVIOUS
  <2>3. QED BY <1>9, <1>10, <2>1, <2>2
<1>12. QED BY <1>1, <1>2, <1>3, <1>10, <1>11

\* Ready for an allocation: nothing wrong so far, and the arena not compacted yet.
Ready(h) == h \in Arena /\ Bounded(h) /\ Sound(h) /\ h.status = "ok" /\ ~ h.compacted

\* f is h after an operation that makes a text, whatever the text is ...
Tried(h, f) ==
  /\ f \in Arena /\ Bounded(f) /\ SameHeld(h.slot, f.slot)
  /\ f.status = "ok" \/ (f.status = "pressure" /\ Bytes(Live(h)) + f.asked > StringCapacity)
\* ... and when the text was made, it stands at out.  The strings that were
\* there stay where they are, unless the arena was compacted.
MadeText(h, f, text) ==
  /\ Tried(h, f)
  /\ f.status = "ok" =>
       /\ Sound(f) /\ HereAt(f.mem, f.used, f.out, text)
       /\ IF f.compacted THEN \A s \in Slots : f.slot[s].region # "arena"
          ELSE f.slot = h.slot /\ h.used <= f.used /\ \A j \in 1 .. h.used : f.mem[j] = h.mem[j]

LEMMA FilledTries ==
  ASSUME NEW h, Ready(h), NEW items \in Seq(Item)
  PROVE  Tried(h, Filled(h, items))
<1>1. PICK size \in Nat : size = Len(items) + 1
  BY LenProperties
<1>2. PICK a : a = Alloc(h, size)
  OBVIOUS
<1>3. Allocated(h, size, a)
  BY <1>2, AllocWorks DEF Ready
<1>4. a \in Arena /\ Bounded(a) /\ SameHeld(h.slot, a.slot) /\ a.asked = size
  BY <1>3 DEF Allocated
<1>5. CASE a.status # "ok"
  <2>1. Filled(h, items) = a
    BY <1>1, <1>2, <1>5 DEF Filled
  <2>2. QED BY <1>3, <1>4, <1>5, <2>1 DEF Allocated, Tried
<1>6. CASE a.status = "ok"
  <2>1. Filled(h, items) = Written(a, items)
    BY <1>1, <1>2, <1>6 DEF Filled
  <2>2. PICK m \in Memory : m = Writing(a, items)[Len(items) + 1]
    <3>1. Len(items) + 1 \in 0 .. Len(items) + 1
      BY LenProperties
    <3>2. QED BY <1>4, <3>1, WritingSteps
  <2>3. PICK w : w = [a EXCEPT !.mem = m]
    OBVIOUS
  <2>4. w \in Arena /\ w.used = a.used /\ w.limit = a.limit /\ w.slot = a.slot /\ w.status = a.status
    BY <1>4, <2>3 DEF Arena, Memory
  <2>5. Filled(h, items) = w
    BY <2>1, <2>2, <2>3 DEF Written
  <2>6. QED BY <1>4, <1>6, <2>4, <2>5 DEF Tried, Bounded
<1>7. QED BY <1>5, <1>6

LEMMA FilledMakes ==
  ASSUME NEW h, Ready(h), NEW items \in Seq(Item), NEW text \in Seq(Char),
         \/ Denote(items, h.mem, 0, text)
         \/ ~ Filled(h, items).compacted /\ Denote(items, h.mem, h.used, text)
  PROVE  MadeText(h, Filled(h, items), text)
<1>0. Tried(h, Filled(h, items))
  BY FilledTries
<1>1. PICK n \in Nat : n = Len(text) /\ n = Len(items)
  BY LenProperties DEF Denote
<1>2. PICK a : a = Alloc(h, n + 1)
  OBVIOUS
<1>3. Allocated(h, n + 1, a)
  BY <1>2, AllocWorks DEF Ready
<1>4. a \in Arena /\ Bounded(a)
  BY <1>3 DEF Allocated
<1>5. CASE a.status # "ok"
  <2>1. Filled(h, items) = a
    BY <1>1, <1>2, <1>5 DEF Filled
  <2>2. QED BY <1>0, <1>5, <2>1 DEF MadeText
<1>6. CASE a.status = "ok"
  <2>0. Filled(h, items) = Written(a, items)
    BY <1>1, <1>2, <1>6 DEF Filled
  <2>1. PICK m \in Memory : m = Writing(a, items)[n + 1]
    <3>1. n + 1 \in 0 .. Len(items) + 1
      BY <1>1
    <3>2. QED BY <1>4, <3>1, WritingSteps
  <2>2. PICK w : w = [a EXCEPT !.mem = m]
    OBVIOUS
  <2>3. /\ w \in Arena /\ w.mem = m /\ w.used = a.used /\ w.slot = a.slot /\ w.status = "ok"
        /\ w.out = a.out /\ (w.compacted <=> a.compacted)
    BY <1>4, <1>6, <2>2 DEF Arena, Memory
  <2>4. Filled(h, items) = w
    BY <1>1, <2>0, <2>1, <2>2 DEF Written
  <2>5. /\ a.used = a.out + (n + 1) /\ Closed(a.mem, a.out)
        /\ \A s \in Slots : Right(a.mem, a.out, a.slot[s])
        /\ IF a.compacted THEN \A s \in Slots : a.slot[s].region # "arena"
           ELSE a.mem = h.mem /\ a.slot = h.slot /\ a.out = h.used
    BY <1>3, <1>6 DEF Allocated
  <2>6. a.out \in Nat /\ a.used \in Nat /\ a.limit \in Nat /\ StringCapacity \in Nat
    BY <1>4, StringAssumption DEF Arena
  <2>7. a.out + n + 1 <= StringCapacity
    BY <1>4, <2>5, <2>6 DEF Bounded
  <2>8. Denote(items, a.mem, a.out, text)
    <3>1. CASE Denote(items, h.mem, 0, text)
      <4>1. \A c : c \notin 1 .. 0
        OBVIOUS
      <4>2. QED BY <3>1, <4>1 DEF Denote
    <3>2. CASE ~ Filled(h, items).compacted /\ Denote(items, h.mem, h.used, text)
      BY <2>3, <2>4, <2>5, <3>2
    <3>3. QED BY <3>1, <3>2
  <2>9. /\ \A j \in 1 .. a.out : m[j] = a.mem[j]
        /\ \A i \in 1 .. n : m[a.out + i] = text[i]
        /\ m[a.out + n + 1] = Nul
    <3>1. a.out + Len(text) + 1 <= StringCapacity
      BY <1>1, <2>7
    <3>2. LET v == Writing(a, items)[Len(items) + 1]
          IN  /\ \A j \in 1 .. a.out : v[j] = a.mem[j]
              /\ \A i \in 1 .. Len(text) : v[a.out + i] = text[i]
              /\ v[a.out + Len(text) + 1] = Nul
      BY <1>4, <2>8, <3>1, WritingFills
    <3>3. QED BY <1>1, <2>1, <3>2
  <2>10. HereAt(w.mem, w.used, w.out, text)
    <3>1. a.out + n < a.used
      BY <2>5, <2>6
    <3>2. QED BY <1>1, <2>3, <2>9, <3>1 DEF HereAt
  <2>11. Closed(w.mem, w.used)
    <3>1. a.used = a.out + n + 1
      BY <2>5, <2>6
    <3>2. QED BY <2>3, <2>9, <3>1 DEF Closed
  <2>12. ASSUME NEW s \in Slots PROVE Right(w.mem, w.used, w.slot[s])
    <3>1. PICK p \in Pointer : p = a.slot[s]
      BY <1>4 DEF Arena
    <3>2. Right(a.mem, a.out, p) /\ a.out <= a.used
      BY <2>5, <2>6, <3>1
    <3>3. Right(m, a.used, p)
      BY <2>6, <2>9, <3>2, RightStays
    <3>4. QED BY <2>3, <3>1, <3>3
  <2>13. Sound(w)
    BY <2>11, <2>12 DEF Sound
  <2>14. IF w.compacted THEN \A s \in Slots : w.slot[s].region # "arena"
         ELSE w.slot = h.slot /\ h.used <= w.used /\ \A j \in 1 .. h.used : w.mem[j] = h.mem[j]
    <3>1. CASE a.compacted
      BY <2>3, <2>5, <3>1
    <3>2. CASE ~ a.compacted
      <4>1. a.mem = h.mem /\ a.slot = h.slot /\ a.out = h.used
        BY <2>5, <3>2
      <4>2. h.used <= w.used
        BY <2>3, <2>5, <2>6, <4>1
      <4>3. \A j \in 1 .. h.used : w.mem[j] = h.mem[j]
        BY <2>3, <2>9, <4>1
      <4>4. QED BY <2>3, <3>2, <4>1, <4>2, <4>3
    <3>3. QED BY <3>1, <3>2
  <2>15. QED BY <1>0, <2>4, <2>10, <2>13, <2>14 DEF MadeText
<1>7. QED BY <1>5, <1>6

\* Characters that were saved stand for their text.
LEMMA CharsDenote ==
  ASSUME NEW text \in Seq(Char), NEW m
  PROVE  Chars(text) \in Seq(Item) /\ Denote(Chars(text), m, 0, text)
<1>1. PICK n \in Nat : n = Len(text)
  BY LenProperties
<1>2. \A k \in 1 .. n : text[k] \in Cell
  BY <1>1, ElementOfSeq, CellFacts
<1>3. PICK c : c = [k \in 1 .. n |-> [cell |-> 0, ch |-> text[k]]]
  OBVIOUS
<1>4. c \in [1 .. n -> Item]
  BY <1>2, <1>3 DEF Item
<1>5. c \in Seq(Item)
  BY <1>4, SeqDef
<1>6. DOMAIN c = 1 .. n /\ DOMAIN c = 1 .. Len(c) /\ Len(c) \in Nat
  BY <1>4, <1>5, LenProperties
<1>7. Len(c) = n
  BY <1>6
<1>8. \A k \in 1 .. n : c[k].cell = 0 /\ c[k].ch = text[k]
  BY <1>3
<1>9. QED BY <1>1, <1>3, <1>5, <1>7, <1>8 DEF Chars, Denote

LEMMA InternedMakes ==
  ASSUME NEW h, Ready(h), NEW text \in Seq(Char), NEW items \in Seq(Item),
         Denote(items, h.mem, 0, text)
  PROVE  MadeText(h, Interned(h, text, items), text)
<1>0. /\ h \in Arena /\ Bounded(h) /\ Sound(h) /\ h.status = "ok" /\ ~ h.compacted
      /\ Closed(h.mem, h.used) /\ h.used \in Nat
  BY DEF Ready, Sound, Arena
<1> DEFINE found == {k \in Entries(h) : TextAt(h, k) = text}
<1>1. found \subseteq Nat
  BY <1>0 DEF Entries
<1>2. CASE found = {}
  <2>1. Interned(h, text, items) = Filled(h, items)
    BY <1>2 DEF Interned
  <2>2. QED BY <2>1, FilledMakes
<1>3. CASE found # {}
  <2>1. PICK o \in Nat : o = Min(found) /\ o \in found
    <3> HIDE DEF found
    <3>1. Min(found) \in found
      BY <1>1, <1>3, MinOfNats
    <3>2. QED BY <1>1, <3>1
  <2>2. o < h.used /\ TextAt(h, o) = text
    BY <1>0, <2>1 DEF Entries
  <2>3. HereAt(h.mem, h.used, o, text)
    BY <1>0, <2>2, TextInside
  <2>4. PICK f : f = [h EXCEPT !.out = o]
    OBVIOUS
  <2>5. /\ f \in Arena /\ f.mem = h.mem /\ f.used = h.used /\ f.limit = h.limit /\ f.slot = h.slot
        /\ f.status = "ok" /\ f.out = o /\ ~ f.compacted
    BY <1>0, <2>4 DEF Arena
  <2>6. Interned(h, text, items) = f
    BY <1>3, <2>1, <2>4 DEF Interned
  <2>7. Tried(h, f)
    BY <1>0, <2>5 DEF Tried, Bounded, SameHeld
  <2>8. Sound(f)
    BY <1>0, <2>5 DEF Sound
  <2>9. QED BY <1>0, <2>3, <2>5, <2>6, <2>7, <2>8 DEF MadeText
<1>4. QED BY <1>2, <1>3

\* A pointer an opcode may read.
Legible(h, p) == p \in Pointer /\ p.region \in {"program", "arena"} /\ Right(h.mem, h.used, p)

LEMMA CopyRangeMakes ==
  ASSUME NEW h, Ready(h), NEW p, Legible(h, p), NEW text \in Seq(Char), NEW from
  PROVE  /\ Snapshot(h, p, text, from) = Chars(text)
         /\ MadeText(h, CopyRange(h, p, text, from), text)
<1>1. p.region = "arena" => InArena(h, p)
  BY ReadsRight DEF Ready, Legible
<1>2. Snapshot(h, p, text, from) = Chars(text)
  BY <1>1 DEF Snapshot
<1>3. CopyRange(h, p, text, from) = Interned(h, text, Chars(text))
  BY <1>2 DEF CopyRange
<1>4. Chars(text) \in Seq(Item) /\ Denote(Chars(text), h.mem, 0, text)
  BY CharsDenote
<1>5. QED BY <1>2, <1>3, <1>4, InternedMakes

LEMMA CopyStringMakes ==
  ASSUME NEW h, Ready(h), NEW p, Legible(h, p)
  PROVE  MadeText(h, CopyString(h, p, p.want), p.want)
<1>1. h \in Arena /\ Bounded(h) /\ Sound(h) /\ h.status = "ok" /\ ~ h.compacted /\ h.used \in Nat
  BY DEF Ready, Arena
<1>2. p \in Pointer /\ p.want \in Seq(Char) /\ p.at \in Nat
  BY DEF Legible, Pointer
<1>3. CASE InArena(h, p)
  <2>1. p.region = "arena" /\ HereAt(h.mem, h.used, p.at, p.want)
    BY <1>3 DEF InArena, Legible, Right
  <2>2. PICK f : f = [h EXCEPT !.out = p.at]
    OBVIOUS
  <2>3. /\ f \in Arena /\ f.mem = h.mem /\ f.used = h.used /\ f.limit = h.limit /\ f.slot = h.slot
        /\ f.status = "ok" /\ f.out = p.at /\ ~ f.compacted
    BY <1>1, <1>2, <2>2 DEF Arena
  <2>4. CopyString(h, p, p.want) = f
    BY <1>3, <2>2 DEF CopyString
  <2>5. Tried(h, f) /\ Sound(f)
    BY <1>1, <2>3 DEF Tried, Bounded, SameHeld, Sound
  <2>6. QED BY <1>1, <2>1, <2>3, <2>4, <2>5 DEF MadeText
<1>4. CASE ~ InArena(h, p)
  <2>1. CopyString(h, p, p.want) = CopyRange(h, p, p.want, 0)
    BY <1>4 DEF CopyString
  <2>2. QED BY <1>2, <2>1, CopyRangeMakes
<1>5. QED BY <1>3, <1>4

\* One row of items behind another stands for one text behind the other.
LEMMA ConcatDenotes ==
  ASSUME NEW m, NEW u, NEW a \in Seq(Char), NEW b \in Seq(Char), NEW x \in Seq(Item), NEW y \in Seq(Item),
         Denote(x, m, u, a), Denote(y, m, u, b)
  PROVE  x \o y \in Seq(Item) /\ a \o b \in Seq(Char) /\ Denote(x \o y, m, u, a \o b)
<1>1. PICK n \in Nat : n = Len(a) /\ n = Len(x)
  BY LenProperties DEF Denote
<1>2. PICK l \in Nat : l = Len(b) /\ l = Len(y)
  BY LenProperties DEF Denote
<1>3. PICK z \in Seq(Item) : /\ z = x \o y /\ Len(z) = n + l
                             /\ \A i \in 1 .. n + l : z[i] = IF i <= n THEN x[i] ELSE y[i - n]
  <2>1. PICK c : c = x \o y
    OBVIOUS
  <2>2. /\ c \in Seq(Item) /\ Len(c) = Len(x) + Len(y)
        /\ \A i \in 1 .. Len(x) + Len(y) : c[i] = IF i <= Len(x) THEN x[i] ELSE y[i - Len(x)]
    BY <2>1, ConcatProperties
  <2>3. QED BY <1>1, <1>2, <2>1, <2>2
<1>4. PICK t \in Seq(Char) : /\ t = a \o b /\ Len(t) = n + l
                             /\ \A i \in 1 .. n + l : t[i] = IF i <= n THEN a[i] ELSE b[i - n]
  <2>1. PICK c : c = a \o b
    OBVIOUS
  <2>2. /\ c \in Seq(Char) /\ Len(c) = Len(a) + Len(b)
        /\ \A i \in 1 .. Len(a) + Len(b) : c[i] = IF i <= Len(a) THEN a[i] ELSE b[i - Len(a)]
    BY <2>1, ConcatProperties
  <2>3. QED BY <1>1, <1>2, <2>1, <2>2
<1>5. ASSUME NEW k \in 1 .. n + l
      PROVE  \/ z[k].cell = 0 /\ z[k].ch = t[k]
             \/ z[k].cell \in 1 .. u /\ m[z[k].cell] = t[k]
  <2>1. CASE k <= n
    <3>1. k \in 1 .. n /\ z[k] = x[k] /\ t[k] = a[k]
      BY <1>3, <1>4, <2>1
    <3>2. QED BY <1>1, <3>1 DEF Denote
  <2>2. CASE ~ (k <= n)
    <3>1. k - n \in 1 .. l
      BY <2>2
    <3>4. z[k] = y[k - n]
      BY <1>3, <2>2
    <3>5. t[k] = b[k - n]
      BY <1>4, <2>2
    <3>2. PICK i : i = k - n
      OBVIOUS
    <3>3. QED BY <1>2, <3>1, <3>2, <3>4, <3>5 DEF Denote
  <2>3. QED BY <2>1, <2>2
<1>6. QED BY <1>3, <1>4, <1>5 DEF Denote

LEMMA CopySpliceMakes ==
  ASSUME NEW h, Ready(h), NEW p, Legible(h, p), NEW text \in Seq(Char),
         NEW lo \in 0 .. Len(text), NEW hi \in 0 .. Len(text)
  PROVE  MadeText(h, CopySplice(h, p, text, lo, hi), SubSeq(text, 1, lo) \o SubSeq(text, hi + 1, Len(text)))
<1>0. PICK n \in Nat : n = Len(text)
  BY LenProperties
<1>1. \A i \in 1 .. n : text[i] \in Char
  BY <1>0, ElementOfSeq
<1>2. PICK a \in Seq(Char) : a = SubSeq(text, 1, lo)
  <2>1. \A i \in 1 .. lo : text[i] \in Char
    BY <1>0, <1>1
  <2>2. lo \in Int /\ 1 \in Int
    BY <1>0
  <2>3. QED BY <2>1, <2>2, SubSeqProperties
<1>3. PICK b \in Seq(Char) : b = SubSeq(text, hi + 1, n)
  <2>1. \A i \in hi + 1 .. n : text[i] \in Char
    BY <1>0, <1>1
  <2>2. hi + 1 \in Int /\ n \in Int
    BY <1>0
  <2>3. QED BY <2>1, <2>2, SubSeqProperties
<1>4. Snapshot(h, p, a, 0) = Chars(a) /\ Snapshot(h, p, b, hi) = Chars(b)
  BY CopyRangeMakes
<1>5. CopySplice(h, p, text, lo, hi) = Interned(h, a \o b, Chars(a) \o Chars(b))
  BY <1>0, <1>2, <1>3, <1>4 DEF CopySplice
<1>6. Chars(a) \in Seq(Item) /\ Denote(Chars(a), h.mem, 0, a) /\ Chars(b) \in Seq(Item) /\ Denote(Chars(b), h.mem, 0, b)
  BY CharsDenote
<1>7. /\ a \o b \in Seq(Char) /\ Chars(a) \o Chars(b) \in Seq(Item)
      /\ Denote(Chars(a) \o Chars(b), h.mem, 0, a \o b)
  BY <1>6, ConcatDenotes
<1>8. MadeText(h, Interned(h, a \o b, Chars(a) \o Chars(b)), a \o b)
  BY <1>7, InternedMakes
<1>9. QED BY <1>0, <1>2, <1>3, <1>5, <1>8

\* What is read through a pointer while it is copied stands for its text, as
\* long as the arena is the one it was.
LEMMA DirectDenotes ==
  ASSUME NEW h \in Arena, NEW p, Legible(h, p), NEW g
  PROVE  /\ Direct(g, p, p.want, 0) \in Seq(Item)
         /\ Denote(Direct(g, p, p.want, 0), h.mem, h.used, p.want)
         /\ p.region = "program" => Denote(Direct(g, p, p.want, 0), h.mem, 0, p.want)
<1>1. p \in Pointer /\ p.want \in Seq(Char) /\ p.at \in Nat /\ h.used \in Nat
  BY DEF Legible, Pointer, Arena
<1>2. PICK t \in Seq(Char) : t = p.want
  BY <1>1
<1>3. CASE p.region # "arena"
  <2>1. Direct(g, p, p.want, 0) = Chars(t)
    BY <1>2, <1>3 DEF Direct
  <2>2. Chars(t) \in Seq(Item) /\ Denote(Chars(t), h.mem, 0, t)
    BY CharsDenote
  <2>3. Denote(Chars(t), h.mem, h.used, t)
    <3>1. \A c : c \notin 1 .. 0
      OBVIOUS
    <3>2. QED BY <2>2, <3>1 DEF Denote
  <2>4. QED BY <1>2, <2>1, <2>2, <2>3
<1>4. CASE p.region = "arena"
  <2>1. PICK n \in Nat : n = Len(t)
    BY LenProperties
  <2>2. PICK k \in Nat : k = p.at
    BY <1>1
  <2>3. k + n < h.used /\ \A i \in 1 .. n : h.mem[k + i] = t[i]
    BY <1>2, <1>4, <2>1, <2>2 DEF Legible, Right, HereAt
  <2>4. PICK c : c = [i \in 1 .. n |-> [cell |-> k + i, ch |-> Nul]]
    OBVIOUS
  <2>5. Direct(g, p, p.want, 0) = c
    <3>1. Direct(g, p, p.want, 0) = Cells(p.at + 0, Len(p.want))
      BY <1>4 DEF Direct
    <3>2. p.at + 0 = k /\ Len(p.want) = n
      BY <1>2, <2>1, <2>2
    <3>3. QED BY <2>4, <3>1, <3>2 DEF Cells
  <2>6. c \in [1 .. n -> Item]
    BY <2>4, CellFacts DEF Item
  <2>7. c \in Seq(Item)
    BY <2>6, SeqDef
  <2>8. DOMAIN c = 1 .. n /\ DOMAIN c = 1 .. Len(c) /\ Len(c) \in Nat
    BY <2>6, <2>7, LenProperties
  <2>9. Len(c) = n
    BY <2>8
  <2>10. \A i \in 1 .. n : c[i].cell = k + i /\ k + i \in 1 .. h.used
    BY <1>1, <2>3, <2>4
  <2>11. Denote(c, h.mem, h.used, t)
    BY <2>1, <2>3, <2>9, <2>10 DEF Denote
  <2>12. QED BY <1>2, <1>4, <2>5, <2>7, <2>11
<1>5. QED BY <1>3, <1>4

-----------------------------------------------------------------------------
(* Runes.                                                                   *)

\* A rune begins with the j-th character; how many do up to the k-th.
IsStart(text, j) == ~ (j > 1 /\ text[j] = Cont /\ text[j - 1] = Lead)
RunesTo(text, k) == Cardinality({j \in 1 .. k : IsStart(text, j)})

LEMMA RunesToSteps ==
  ASSUME NEW text
  PROVE  /\ RunesTo(text, 0) = 0
         /\ \A k \in Nat : RunesTo(text, k) \in 0 .. k /\ RuneOf(text, k) = RunesTo(text, k) - 1
         /\ \A k \in Nat : RunesTo(text, k + 1) = RunesTo(text, k) + (IF IsStart(text, k + 1) THEN 1 ELSE 0)
         /\ \A i, k \in Nat : i <= k => RunesTo(text, i) <= RunesTo(text, k)
<1> DEFINE B(k) == {j \in 1 .. k : IsStart(text, j)}
<1>1. ASSUME NEW k \in Nat PROVE IsFiniteSet(B(k)) /\ Cardinality(B(k)) \in 0 .. k
  <2>1. IsFiniteSet(1 .. k) /\ Cardinality(1 .. k) = IF 1 > k THEN 0 ELSE k - 1 + 1
    BY FS_Interval
  <2>2. Cardinality(1 .. k) = k
    BY <2>1
  <2>3. B(k) \in SUBSET (1 .. k)
    OBVIOUS
  <2>4. IsFiniteSet(B(k)) /\ Cardinality(B(k)) <= Cardinality(1 .. k)
    BY <2>1, <2>3, FS_Subset
  <2>5. Cardinality(B(k)) \in Nat
    BY <2>4, FS_CardinalityType
  <2>6. QED BY <2>2, <2>4, <2>5
<1>2. ASSUME NEW k \in Nat
      PROVE  Cardinality(B(k + 1)) = Cardinality(B(k)) + (IF IsStart(text, k + 1) THEN 1 ELSE 0)
  <2>1. 1 .. k + 1 = (1 .. k) \cup {k + 1} /\ k + 1 \notin 1 .. k
    OBVIOUS
  <2>2. CASE IsStart(text, k + 1)
    <3>1. B(k + 1) = B(k) \cup {k + 1} /\ k + 1 \notin B(k)
      BY <2>1, <2>2
    <3>2. Cardinality(B(k) \cup {k + 1}) = Cardinality(B(k)) + 1
      BY <1>1, <3>1, FS_AddElement
    <3>3. QED BY <2>2, <3>1, <3>2
  <2>3. CASE ~ IsStart(text, k + 1)
    <3>1. B(k + 1) = B(k)
      BY <2>1, <2>3
    <3>2. QED BY <1>1, <2>3, <3>1
  <2>4. QED BY <2>2, <2>3
<1>3. ASSUME NEW i \in Nat, NEW k \in Nat, i <= k PROVE Cardinality(B(i)) <= Cardinality(B(k))
  <2>1. B(i) \in SUBSET B(k)
    BY <1>3
  <2>2. QED BY <1>1, <2>1, FS_Subset
<1>4. Cardinality(B(0)) = 0
  <2>1. B(0) = {}
    OBVIOUS
  <2>2. QED BY <2>1, FS_EmptySet
<1>5. \A k \in Nat : RuneOf(text, k) = RunesTo(text, k) - 1
  BY DEF RuneOf, RunesTo, IsStart
<1>6. QED BY <1>1, <1>2, <1>3, <1>4, <1>5 DEF RunesTo

\* The offset b is where rune r begins, or the end of the text.
RuneAt(text, b, r) ==
  /\ b \in 0 .. Len(text) /\ RunesTo(text, b) <= r
  /\ b < Len(text) => IsStart(text, b + 1) /\ RunesTo(text, b) = r

LEMMA NextRune ==
  ASSUME NEW text \in Seq(Char), NEW r \in Nat, NEW b, RuneAt(text, b, r)
  PROVE  RuneAt(text, NextIndex(text, b), r + 1)
<1>1. PICK n \in Nat : n = Len(text)
  BY LenProperties
<1>2. b \in 0 .. n /\ b \in Nat /\ RunesTo(text, b) <= r /\ (b < n => IsStart(text, b + 1) /\ RunesTo(text, b) = r)
  BY <1>1 DEF RuneAt
<1>3. /\ RunesTo(text, b) \in Nat
      /\ RunesTo(text, b + 1) = RunesTo(text, b) + (IF IsStart(text, b + 1) THEN 1 ELSE 0)
      /\ RunesTo(text, b + 2) = RunesTo(text, b + 1) + (IF IsStart(text, b + 2) THEN 1 ELSE 0)
  <2>1. b + 1 \in Nat /\ (b + 1) + 1 = b + 2
    BY <1>2
  <2>2. RunesTo(text, (b + 1) + 1) = RunesTo(text, b + 1) + (IF IsStart(text, (b + 1) + 1) THEN 1 ELSE 0)
    BY <2>1, RunesToSteps
  <2>3. RunesTo(text, b) \in 0 .. b
    BY <1>2, RunesToSteps
  <2>4. RunesTo(text, b + 1) = RunesTo(text, b) + (IF IsStart(text, b + 1) THEN 1 ELSE 0)
    BY <1>2, RunesToSteps
  <2>5. QED BY <2>1, <2>2, <2>3, <2>4
<1>4. CASE b >= n
  <2>1. NextIndex(text, b) = b /\ b = n
    BY <1>1, <1>2, <1>4 DEF NextIndex
  <2>2. RunesTo(text, b) <= r + 1
    BY <1>2, <1>3
  <2>3. QED BY <1>1, <1>2, <2>1, <2>2 DEF RuneAt
<1>5. CASE b < n /\ text[b + 1] = Lead /\ b + 1 < n /\ text[b + 2] = Cont
  <2>1. NextIndex(text, b) = b + 2
    BY <1>1, <1>2, <1>5 DEF NextIndex
  <2>2. ~ IsStart(text, b + 2)
    <3>1. b + 2 > 1 /\ (b + 2) - 1 = b + 1
      BY <1>2
    <3>2. QED BY <1>5, <3>1 DEF IsStart
  <2>3. RunesTo(text, b + 2) = r + 1
    BY <1>2, <1>3, <1>5, <2>2
  <2>4. IsStart(text, (b + 2) + 1)
    <3>1. ((b + 2) + 1) - 1 = b + 2
      BY <1>2
    <3>2. QED BY <1>5, <3>1, CellFacts DEF IsStart
  <2>5. b + 2 \in 0 .. n
    BY <1>2, <1>5
  <2>6. QED BY <1>1, <2>1, <2>3, <2>4, <2>5 DEF RuneAt
<1>6. CASE b < n /\ ~ (text[b + 1] = Lead /\ b + 1 < n /\ text[b + 2] = Cont)
  <2>1. NextIndex(text, b) = b + 1
    BY <1>1, <1>2, <1>6 DEF NextIndex
  <2>2. RunesTo(text, b + 1) = r + 1
    BY <1>2, <1>3, <1>6
  <2>3. b + 1 < n => IsStart(text, (b + 1) + 1)
    <3>1. ((b + 1) + 1) - 1 = b + 1 /\ (b + 1) + 1 = b + 2
      BY <1>2
    <3>2. QED BY <1>6, <3>1 DEF IsStart
  <2>4. b + 1 \in 0 .. n
    BY <1>2, <1>6
  <2>5. QED BY <1>1, <2>1, <2>2, <2>3, <2>4 DEF RuneAt
<1>7. QED BY <1>2, <1>4, <1>5, <1>6

LEMMA ByteOffsetIs ==
  ASSUME NEW text \in Seq(Char), NEW r \in Nat
  PROVE  RuneAt(text, ByteOffset(text, r), r)
<1>1. PICK n \in Nat : n = Len(text)
  BY LenProperties
<1> DEFINE V == 0 .. n
           T == [k \in 1 .. r |-> [v \in V |-> NextIndex(text, v)]]
<1>2. ASSUME NEW v \in V PROVE NextIndex(text, v) \in V
  BY <1>1 DEF NextIndex
<1>3. T \in [1 .. r -> [V -> V]]
  <2> HIDE DEF V
  <2>1. QED BY <1>2
<1>4. 0 \in V
  OBVIOUS
<1>5. PICK u : Recursion(u, r, V, 0, T)
  <2> HIDE DEF T, V
  <2>1. QED BY <1>3, <1>4, RecursionExists
<1>6. ASSUME NEW k \in 1 .. r PROVE u[k] = NextIndex(text, u[k - 1])
  <2>1. u[k - 1] \in V /\ u[k] = T[k][u[k - 1]]
    <3> HIDE DEF T, V
    <3>1. k - 1 \in 0 .. r
      OBVIOUS
    <3>2. QED BY <3>1, <1>5 DEF Recursion
  <2> HIDE DEF V
  <2>2. QED BY <2>1
<1>7. u[0] = 0 /\ u \in [0 .. r -> V]
  BY <1>5 DEF Recursion
<1> DEFINE Sol(f) == f = [k \in 0 .. r |-> IF k = 0 THEN 0 ELSE NextIndex(text, f[k - 1])]
<1>8. Sol(u)
  <2>1. ASSUME NEW k \in 0 .. r, k # 0 PROVE u[k] = NextIndex(text, u[k - 1])
    <3>1. k \in 1 .. r
      BY <2>1
    <3>2. QED BY <3>1, <1>6
  <2>2. QED BY <1>7, <2>1
<1>9. ByteOffset(text, r) = (CHOOSE f : Sol(f))[r]
  BY DEF ByteOffset
<1>10. PICK f : f = (CHOOSE g : Sol(g)) /\ Sol(f)
  <2> HIDE DEF Sol
  <2>1. QED BY <1>8
<1>11. f[0] = 0 /\ \A k \in 1 .. r : f[k] = NextIndex(text, f[k - 1])
  <2>1. f = [k \in 0 .. r |-> IF k = 0 THEN 0 ELSE NextIndex(text, f[k - 1])]
    BY <1>10
  <2> HIDE DEF Sol
  <2>2. f[0] = 0
    BY <2>1
  <2>3. ASSUME NEW k \in 1 .. r PROVE f[k] = NextIndex(text, f[k - 1])
    <3>1. k \in 0 .. r /\ k # 0
      OBVIOUS
    <3>2. QED BY <2>1, <3>1
  <2>4. QED BY <2>2, <2>3
<1> HIDE DEF Sol
<1> DEFINE S == {k \in 0 .. r : RuneAt(text, f[k], k)}
<1>12. 0 \in S
  <2>1. RunesTo(text, 0) = 0 /\ IsStart(text, 0 + 1)
    BY RunesToSteps DEF IsStart
  <2>2. QED BY <1>1, <1>11, <2>1 DEF RuneAt
<1>13. ASSUME NEW k \in 1 .. r, k - 1 \in S PROVE k \in S
  <2>1. RuneAt(text, f[k - 1], k - 1) /\ k - 1 \in Nat /\ (k - 1) + 1 = k /\ k \in 0 .. r
    BY <1>13
  <2>2. RuneAt(text, NextIndex(text, f[k - 1]), (k - 1) + 1)
    BY <2>1, NextRune
  <2>3. QED BY <1>11, <2>1, <2>2
<1>14. r \in S
  <2> HIDE DEF S
  <2>1. \A k \in 0 .. r : k \in S
    BY <1>12, <1>13, UpTo
  <2>2. QED BY <2>1
<1>15. QED BY <1>9, <1>10, <1>14

\* The characters up to a rune's offset are those of the runes before it.
LEMMA RunesBelow ==
  ASSUME NEW text \in Seq(Char), NEW r \in Nat, NEW k \in 1 .. Len(text)
  PROVE  RuneOf(text, k) < r <=> k <= ByteOffset(text, r)
<1>1. PICK n \in Nat : n = Len(text)
  BY LenProperties
<1>2. PICK b : b = ByteOffset(text, r) /\ RuneAt(text, b, r)
  BY ByteOffsetIs
<1>3. b \in 0 .. n /\ b \in Nat /\ RunesTo(text, b) <= r /\ (b < n => IsStart(text, b + 1) /\ RunesTo(text, b) = r)
  BY <1>1, <1>2 DEF RuneAt
<1>4. k \in Nat /\ RunesTo(text, k) \in Nat /\ RuneOf(text, k) = RunesTo(text, k) - 1
  <2>1. k \in Nat
    BY <1>1
  <2>2. RunesTo(text, k) \in 0 .. k /\ RuneOf(text, k) = RunesTo(text, k) - 1
    BY <2>1, RunesToSteps
  <2>3. QED BY <2>1, <2>2
<1>5. RunesTo(text, b) \in Nat
  <2>1. RunesTo(text, b) \in 0 .. b
    BY <1>3, RunesToSteps
  <2>2. QED BY <1>3, <2>1
<1>6. CASE k <= b
  <2>1. RunesTo(text, k) <= RunesTo(text, b)
    BY <1>3, <1>4, <1>6, RunesToSteps
  <2>2. QED BY <1>2, <1>3, <1>4, <1>5, <1>6, <2>1
<1>7. CASE ~ (k <= b)
  <2>1. b < n /\ b + 1 <= k /\ b + 1 \in Nat
    BY <1>1, <1>3, <1>4, <1>7
  <2>2. RunesTo(text, b + 1) = RunesTo(text, b) + (IF IsStart(text, b + 1) THEN 1 ELSE 0)
    BY <1>3, RunesToSteps
  <2>3. RunesTo(text, b + 1) = r + 1
    BY <1>3, <1>5, <2>1, <2>2
  <2>4. RunesTo(text, b + 1) <= RunesTo(text, k)
    BY <1>4, <2>1, RunesToSteps
  <2>5. QED BY <1>2, <1>3, <1>4, <1>7, <2>3, <2>4
<1>8. QED BY <1>6, <1>7

LEMMA RuneOfIsNat ==
  ASSUME NEW text, NEW k \in Nat, k > 0
  PROVE  RuneOf(text, k) \in Nat
<1>1. RunesTo(text, k) \in 0 .. k /\ RuneOf(text, k) = RunesTo(text, k) - 1
  BY RunesToSteps
<1>2. RunesTo(text, 1) = 1
  <2>1. RunesTo(text, 0) = 0 /\ RunesTo(text, 0 + 1) = RunesTo(text, 0) + (IF IsStart(text, 0 + 1) THEN 1 ELSE 0)
    BY RunesToSteps
  <2>2. IsStart(text, 1)
    BY DEF IsStart
  <2>3. QED BY <2>1, <2>2
<1>3. RunesTo(text, 1) <= RunesTo(text, k)
  <2>1. 1 \in Nat /\ 1 <= k
    OBVIOUS
  <2>2. QED BY <2>1, RunesToSteps
<1>4. QED BY <1>1, <1>2, <1>3

LEMMA RuneCountIs ==
  ASSUME NEW text \in Seq(Char)
  PROVE  RuneCount(text) \in Nat /\ ByteOffset(text, RuneCount(text)) = Len(text)
<1>1. PICK n \in Nat : n = Len(text)
  BY LenProperties
<1> DEFINE ends == {k \in 0 .. n : ByteOffset(text, k) = n}
<1>2. ByteOffset(text, n) = n
  <2>1. PICK b : b = ByteOffset(text, n) /\ RuneAt(text, b, n)
    BY ByteOffsetIs
  <2>2. b \in 0 .. n /\ b \in Nat /\ (b < n => RunesTo(text, b) = n)
    BY <1>1, <2>1 DEF RuneAt
  <2>3. RunesTo(text, b) \in 0 .. b
    BY <2>2, RunesToSteps
  <2>4. QED BY <2>1, <2>2, <2>3
<1>3. n \in ends /\ ends \subseteq Nat
  BY <1>2
<1>4. RuneCount(text) = Min(ends)
  BY <1>1 DEF RuneCount
<1>5. Min(ends) \in ends
  <2> HIDE DEF ends
  <2>1. QED BY <1>3, MinOfNats
<1>6. PICK c : c = RuneCount(text)
  OBVIOUS
<1>7. c \in ends
  BY <1>4, <1>5, <1>6
<1>8. c \in Nat /\ ByteOffset(text, c) = n
  BY <1>7
<1>9. QED BY <1>1, <1>6, <1>8

\* A clamped index leads to the same place as the one it clamps.
LEMMA ClampedOffset ==
  ASSUME NEW text \in Seq(Char), NEW v \in Int
  PROVE  LET b == ByteOffset(text, ClampRune(v, RuneCount(text)))
         IN  b \in 0 .. Len(text) /\ \A k \in 1 .. Len(text) : RuneOf(text, k) < v <=> k <= b
<1>1. PICK n \in Nat : n = Len(text)
  BY LenProperties
<1>2. PICK c \in Nat : c = RuneCount(text) /\ ByteOffset(text, c) = n
  BY <1>1, RuneCountIs
<1>3. PICK r \in Nat : r = ClampRune(v, c)
  BY <1>2 DEF ClampRune
<1>4. PICK b : b = ByteOffset(text, r)
  OBVIOUS
<1>5. b \in 0 .. n
  BY <1>1, <1>4, ByteOffsetIs DEF RuneAt
<1>6. ASSUME NEW k \in 1 .. n PROVE RuneOf(text, k) < v <=> k <= b
  <2>1. PICK i \in Nat : i = RuneOf(text, k)
    BY RuneOfIsNat
  <2>2. i < r <=> k <= b
    BY <1>1, <1>4, <2>1, RunesBelow
  <2>3. CASE v <= 0
    BY <1>3, <2>1, <2>2, <2>3 DEF ClampRune
  <2>4. CASE v > 0 /\ v >= c
    <3>1. r = c
      BY <1>2, <1>3, <2>4 DEF ClampRune
    <3>2. b = n
      BY <1>2, <1>4, <3>1
    <3>3. k <= b
      BY <3>2
    <3>4. QED BY <2>1, <2>2, <2>4, <3>1, <3>3
  <2>5. CASE v > 0 /\ v < c
    <3>1. r = v
      BY <1>2, <1>3, <2>5 DEF ClampRune
    <3>2. QED BY <2>1, <2>2, <3>1
  <2>6. QED BY <1>2, <2>3, <2>4, <2>5
<1>7. QED BY <1>1, <1>2, <1>3, <1>4, <1>5, <1>6

LEMMA WrappedIs ==
  ASSUME NEW n \in Int, -IntMax - 1 <= n, n <= IntMax
  PROVE  Wrapped(n) = n
<1>1. IntMax \in Nat
  BY StringAssumption
<1>2. PICK a \in Int : a = n + IntMax + 1
  BY <1>1
<1>3. PICK b \in Int : b = 2 * (IntMax + 1)
  BY <1>1
<1>4. 0 <= a /\ a < b /\ 0 < b
  BY <1>1, <1>2, <1>3
<1>5. a % b = a
  <2>1. \A x, y \in Int : 0 <= x /\ x < y => x % y = x
    OBVIOUS
  <2>2. QED BY <1>4, <2>1
<1>6. QED BY <1>1, <1>2, <1>3, <1>5 DEF Wrapped

\* The range of bytes is the range of runes.
LEMMA RuneRangeIs ==
  ASSUME NEW text \in Seq(Char), NEW start \in -IntMax - 1 .. IntMax, NEW length \in Int,
         length > 0, start + length <= IntMax
  PROVE  LET range == RuneRange(text, start, length)
         IN  /\ range.lo \in 0 .. Len(text) /\ range.hi \in 0 .. Len(text) /\ range.lo <= range.hi
             /\ InRange(text, start, length) = range.lo + 1 .. range.hi
<1>0. IntMax \in Nat
  BY StringAssumption
<1>1. PICK n \in Nat : n = Len(text)
  BY LenProperties
<1>2. PICK c \in Nat : c = RuneCount(text)
  BY RuneCountIs
<1>3. PICK end \in Int : end = start + length /\ end > start
  BY <1>0
<1>4. Wrapped(start + length) = end
  BY <1>0, <1>3, WrappedIs
<1>5. PICK i \in Nat : i = ClampRune(start, c)
  BY <1>0, <1>2 DEF ClampRune
<1>6. PICK j \in Nat : j = ClampRune(end, c)
  BY <1>2 DEF ClampRune
<1>7. i <= j
  BY <1>0, <1>2, <1>3, <1>5, <1>6 DEF ClampRune
<1>8. PICK lo \in 0 .. n : lo = ByteOffset(text, i) /\ \A k \in 1 .. n : RuneOf(text, k) < start <=> k <= lo
  <2>1. start \in Int
    BY <1>0
  <2>2. LET b == ByteOffset(text, ClampRune(start, RuneCount(text)))
        IN  b \in 0 .. Len(text) /\ \A k \in 1 .. Len(text) : RuneOf(text, k) < start <=> k <= b
    BY <2>1, ClampedOffset
  <2>3. QED BY <1>1, <1>2, <1>5, <2>2
<1>9. PICK hi \in 0 .. n : hi = ByteOffset(text, j) /\ \A k \in 1 .. n : RuneOf(text, k) < end <=> k <= hi
  <2>2. LET b == ByteOffset(text, ClampRune(end, RuneCount(text)))
        IN  b \in 0 .. Len(text) /\ \A k \in 1 .. Len(text) : RuneOf(text, k) < end <=> k <= b
    BY ClampedOffset
  <2>3. QED BY <1>1, <1>2, <1>6, <2>2
<1>10. RuneRange(text, start, length) = [lo |-> lo, hi |-> hi]
  <2>1. (IF j < i THEN i ELSE j) = j
    BY <1>7
  <2>2. QED BY <1>2, <1>4, <1>5, <1>6, <1>8, <1>9, <2>1 DEF RuneRange
<1>11. lo <= hi
  <2>1. SUFFICES ASSUME lo > hi PROVE FALSE
    OBVIOUS
  <2>2. lo \in 1 .. n
    BY <2>1
  <2>3. PICK r \in Nat : r = RuneOf(text, lo)
    BY <2>2, RuneOfIsNat
  <2>4. r < start /\ ~ (r < end)
    BY <1>8, <1>9, <2>1, <2>2, <2>3
  <2>5. QED BY <1>0, <1>3, <2>4
<1>12. InRange(text, start, length) = lo + 1 .. hi
  <2>1. ASSUME NEW k \in 1 .. n PROVE RuneOf(text, k) \in start .. start + length - 1 <=> k \in lo + 1 .. hi
    <3>1. PICK r \in Nat : r = RuneOf(text, k)
      BY RuneOfIsNat
    <3>2. (r < start <=> k <= lo) /\ (r < end <=> k <= hi)
      BY <1>8, <1>9, <3>1
    <3>3. QED BY <1>0, <1>3, <3>1, <3>2
  <2>2. lo + 1 .. hi \subseteq 1 .. n
    OBVIOUS
  <2>3. QED BY <1>1, <2>1, <2>2 DEF InRange
<1>13. QED BY <1>1, <1>10, <1>11, <1>12

-----------------------------------------------------------------------------
(* What a range of runes leaves, and the escaped text.                      *)

LEMMA KeptSteps ==
  ASSUME NEW text \in Seq(Char), NEW keep
  PROVE  \E f : /\ Kept(text, keep) = f[Len(text)] /\ f[0] = <<>>
                /\ \A k \in 1 .. Len(text) :
                     f[k] = IF k \in keep THEN Append(f[k - 1], text[k]) ELSE f[k - 1]
<1>1. PICK n \in Nat : n = Len(text)
  BY LenProperties
<1> DEFINE step(x, k) == IF k \in keep THEN Append(x, text[k]) ELSE x
           T == [k \in 1 .. n |-> [x \in Seq(Char) |-> step(x, k)]]
<1>2. ASSUME NEW k \in 1 .. n, NEW x \in Seq(Char) PROVE step(x, k) \in Seq(Char)
  <2>1. text[k] \in Char
    BY <1>1, ElementOfSeq
  <2>2. Append(x, text[k]) \in Seq(Char)
    BY <2>1, AppendProperties
  <2>3. QED BY <2>2
<1>3. T \in [1 .. n -> [Seq(Char) -> Seq(Char)]]
  <2> HIDE DEF step
  <2>1. QED BY <1>2
<1>4. <<>> \in Seq(Char)
  BY EmptySeq
<1>5. PICK u : Recursion(u, n, Seq(Char), <<>>, T)
  <2> HIDE DEF T
  <2>1. QED BY <1>3, <1>4, RecursionExists
<1>6. ASSUME NEW k \in 1 .. n PROVE u[k] = step(u[k - 1], k)
  <2>1. u[k - 1] \in Seq(Char) /\ u[k] = T[k][u[k - 1]]
    <3> HIDE DEF T
    <3>1. k - 1 \in 0 .. n
      OBVIOUS
    <3>2. QED BY <3>1, <1>5 DEF Recursion
  <2> HIDE DEF step
  <2>2. QED BY <2>1
<1>7. u[0] = <<>> /\ u \in [0 .. n -> Seq(Char)]
  BY <1>5 DEF Recursion
<1> DEFINE Sol(f) == f = [k \in 0 .. n |-> IF k = 0 THEN <<>> ELSE step(f[k - 1], k)]
<1>8. Sol(u)
  <2> HIDE DEF step
  <2>1. ASSUME NEW k \in 0 .. n, k # 0 PROVE u[k] = step(u[k - 1], k)
    <3>1. k \in 1 .. n
      BY <2>1
    <3>2. QED BY <3>1, <1>6
  <2>2. QED BY <1>7, <2>1
<1>9. Kept(text, keep) = (CHOOSE f : Sol(f))[n]
  BY <1>1 DEF Kept
<1>10. PICK f : f = (CHOOSE g : Sol(g)) /\ Sol(f)
  <2> HIDE DEF Sol
  <2>1. QED BY <1>8
<1>11. f[0] = <<>> /\ \A k \in 1 .. n : f[k] = step(f[k - 1], k)
  <2>1. f = [k \in 0 .. n |-> IF k = 0 THEN <<>> ELSE step(f[k - 1], k)]
    BY <1>10
  <2> HIDE DEF step, Sol
  <2>2. f[0] = <<>>
    BY <2>1
  <2>3. ASSUME NEW k \in 1 .. n PROVE f[k] = step(f[k - 1], k)
    <3>1. k \in 0 .. n /\ k # 0
      OBVIOUS
    <3>2. QED BY <2>1, <3>1
  <2>4. QED BY <2>2, <2>3
<1> HIDE DEF Sol
<1>12. QED BY <1>1, <1>9, <1>10, <1>11

\* What is kept, when the number kept so far and the result are known.
LEMMA KeptIs ==
  ASSUME NEW text \in Seq(Char), NEW keep, NEW r \in Seq(Char), NEW c \in [0 .. Len(text) -> Nat],
         c[0] = 0, Len(r) = c[Len(text)],
         \A k \in 1 .. Len(text) : IF k \in keep THEN c[k] = c[k - 1] + 1 /\ r[c[k]] = text[k]
                                   ELSE c[k] = c[k - 1]
  PROVE  Kept(text, keep) = r
<1>1. PICK n \in Nat : n = Len(text)
  BY LenProperties
<1>2. PICK f : /\ Kept(text, keep) = f[n] /\ f[0] = <<>>
               /\ \A k \in 1 .. n : f[k] = IF k \in keep THEN Append(f[k - 1], text[k]) ELSE f[k - 1]
  <2>1. \E f : /\ Kept(text, keep) = f[Len(text)] /\ f[0] = <<>>
               /\ \A k \in 1 .. Len(text) :
                    f[k] = IF k \in keep THEN Append(f[k - 1], text[k]) ELSE f[k - 1]
    BY KeptSteps
  <2>2. QED BY <1>1, <2>1
<1> DEFINE P(k) == f[k] \in Seq(Char) /\ Len(f[k]) = c[k] /\ \A i \in 1 .. c[k] : f[k][i] = r[i]
           S == {k \in 0 .. n : P(k)}
<1>3. 0 \in S
  <2>1. <<>> \in Seq(Char) /\ Len(<<>>) = 0
    BY EmptySeq
  <2>2. P(0)
    BY <1>2, <2>1
  <2>3. QED BY <2>2
<1>4. ASSUME NEW k \in 1 .. n, k - 1 \in S PROVE k \in S
  <2>1. P(k - 1) /\ k \in 0 .. n /\ k - 1 \in 0 .. n
    BY <1>4
  <2>2. PICK m \in Nat : m = c[k - 1]
    BY <1>1, <2>1
  <2>3. PICK x \in Seq(Char) : x = f[k - 1] /\ Len(x) = m /\ \A i \in 1 .. m : x[i] = r[i]
    BY <2>1, <2>2
  <2>4. CASE k \in keep
    <3>1. f[k] = Append(x, text[k]) /\ c[k] = m + 1 /\ r[m + 1] = text[k]
      BY <1>1, <1>2, <2>2, <2>3, <2>4
    <3>2. text[k] \in Char
      BY <1>1, ElementOfSeq
    <3>3. /\ Append(x, text[k]) \in Seq(Char) /\ Len(Append(x, text[k])) = m + 1
          /\ (\A i \in 1 .. m : Append(x, text[k])[i] = x[i])
          /\ Append(x, text[k])[m + 1] = text[k]
      BY <2>3, <3>2, AppendProperties
    <3>4. ASSUME NEW i \in 1 .. m + 1 PROVE Append(x, text[k])[i] = r[i]
      <4>1. CASE i = m + 1
        BY <3>1, <3>3, <4>1
      <4>2. CASE i # m + 1
        <5>1. i \in 1 .. m
          BY <4>2
        <5>2. QED BY <2>3, <3>3, <5>1
      <4>3. QED BY <4>1, <4>2
    <3>5. P(k)
      BY <3>1, <3>3, <3>4
    <3>6. QED BY <2>1, <3>5
  <2>5. CASE k \notin keep
    <3>1. f[k] = x /\ c[k] = m
      BY <1>1, <1>2, <2>2, <2>3, <2>5
    <3>2. P(k)
      BY <2>3, <3>1
    <3>3. QED BY <2>1, <3>2
  <2>6. QED BY <2>4, <2>5
<1>5. \A k \in 0 .. n : k \in S
  <2> HIDE DEF S
  <2>1. QED BY <1>3, <1>4, UpTo
<1>6. P(n)
  <2>1. n \in S
    BY <1>5
  <2>2. QED BY <2>1
<1>7. QED BY <1>1, <1>2, <1>6, SeqEqual

LEMMA KeptNone ==
  ASSUME NEW text \in Seq(Char)
  PROVE  Kept(text, {}) = <<>>
<1>1. PICK n \in Nat : n = Len(text)
  BY LenProperties
<1>2. PICK c \in [0 .. n -> Nat] : c = [k \in 0 .. n |-> 0]
  OBVIOUS
<1>3. c[0] = 0 /\ c[n] = 0 /\ \A k \in 1 .. n : c[k] = c[k - 1]
  BY <1>2
<1>4. <<>> \in Seq(Char) /\ Len(<<>>) = 0
  BY EmptySeq
<1>5. QED BY <1>1, <1>3, <1>4, KeptIs

LEMMA KeptAll ==
  ASSUME NEW text \in Seq(Char)
  PROVE  Kept(text, 1 .. Len(text)) = text
<1>1. PICK n \in Nat : n = Len(text)
  BY LenProperties
<1>2. PICK c : c = [k \in 0 .. n |-> k]
  OBVIOUS
<1>3. c \in [0 .. n -> Nat]
  BY <1>2
<1>4. c[0] = 0 /\ c[n] = n /\ \A k \in 1 .. n : c[k] = k /\ c[k] = c[k - 1] + 1
  BY <1>2
<1>5. QED BY <1>1, <1>3, <1>4, KeptIs

LEMMA KeptMiddle ==
  ASSUME NEW text \in Seq(Char), NEW lo \in 0 .. Len(text), NEW hi \in 0 .. Len(text), lo <= hi
  PROVE  SubSeq(text, lo + 1, hi) \in Seq(Char) /\ Kept(text, lo + 1 .. hi) = SubSeq(text, lo + 1, hi)
<1>1. PICK n \in Nat : n = Len(text)
  BY LenProperties
<1>2. PICK r : r = SubSeq(text, lo + 1, hi)
  OBVIOUS
<1>3. r \in Seq(Char) /\ Len(r) = hi - lo /\ \A i \in 1 .. hi - lo : r[i] = text[lo + i]
  <2>1. lo + 1 \in Int /\ hi \in Int
    BY <1>1
  <2>2. \A i \in lo + 1 .. hi : text[i] \in Char
    BY <1>1, ElementOfSeq
  <2>3. /\ r \in Seq(Char) /\ Len(r) = IF lo + 1 <= hi THEN hi - (lo + 1) + 1 ELSE 0
        /\ \A i \in 1 .. hi - (lo + 1) + 1 : r[i] = text[lo + 1 + i - 1]
    BY <1>2, <2>1, <2>2, SubSeqProperties
  <2>4. hi - (lo + 1) + 1 = hi - lo
    BY <2>1
  <2>5. QED BY <1>1, <2>3, <2>4
<1>4. PICK c : c = [k \in 0 .. n |-> IF k <= lo THEN 0 ELSE IF k <= hi THEN k - lo ELSE hi - lo]
  OBVIOUS
<1>5. c \in [0 .. n -> Nat]
  BY <1>1, <1>4
<1>6. c[0] = 0 /\ c[n] = hi - lo
  BY <1>1, <1>4
<1>7. ASSUME NEW k \in 1 .. n
      PROVE  IF k \in lo + 1 .. hi THEN c[k] = c[k - 1] + 1 /\ r[c[k]] = text[k] ELSE c[k] = c[k - 1]
  <2>1. k - 1 \in 0 .. n /\ k \in 0 .. n
    OBVIOUS
  <2>2. CASE k \in lo + 1 .. hi
    <3>1. c[k] = k - lo /\ c[k - 1] = k - 1 - lo
      BY <1>1, <1>4, <2>1, <2>2
    <3>2. k - lo \in 1 .. hi - lo /\ lo + (k - lo) = k
      BY <1>1, <2>2
    <3>3. QED BY <1>1, <1>3, <2>2, <3>1, <3>2
  <2>3. CASE k \notin lo + 1 .. hi
    BY <1>1, <1>4, <2>1, <2>3
  <2>4. QED BY <2>2, <2>3
<1>8. QED BY <1>1, <1>2, <1>3, <1>5, <1>6, <1>7, KeptIs

LEMMA KeptRest ==
  ASSUME NEW text \in Seq(Char), NEW lo \in 0 .. Len(text), NEW hi \in 0 .. Len(text), lo <= hi
  PROVE  Kept(text, 1 .. Len(text) \ (lo + 1 .. hi))
           = SubSeq(text, 1, lo) \o SubSeq(text, hi + 1, Len(text))
<1>1. PICK n \in Nat : n = Len(text)
  BY LenProperties
<1>0. \A i \in 1 .. n : text[i] \in Char
  BY <1>1, ElementOfSeq
<1>2. PICK a : a = SubSeq(text, 1, lo)
  OBVIOUS
<1>3. PICK b : b = SubSeq(text, hi + 1, n)
  OBVIOUS
<1>4. a \in Seq(Char) /\ Len(a) = lo /\ \A i \in 1 .. lo : a[i] = text[i]
  <2>1. 1 \in Int /\ lo \in Int
    BY <1>1
  <2>2. \A i \in 1 .. lo : text[i] \in Char
    BY <1>0, <1>1
  <2>3. /\ a \in Seq(Char) /\ Len(a) = IF 1 <= lo THEN lo - 1 + 1 ELSE 0
        /\ \A i \in 1 .. lo - 1 + 1 : a[i] = text[1 + i - 1]
    BY <1>2, <2>1, <2>2, SubSeqProperties
  <2>4. QED BY <1>1, <2>3
<1>5. b \in Seq(Char) /\ Len(b) = n - hi /\ \A i \in 1 .. n - hi : b[i] = text[hi + i]
  <2>1. hi + 1 \in Int /\ n \in Int
    BY <1>1
  <2>2. \A i \in hi + 1 .. n : text[i] \in Char
    BY <1>0, <1>1
  <2>3. /\ b \in Seq(Char) /\ Len(b) = IF hi + 1 <= n THEN n - (hi + 1) + 1 ELSE 0
        /\ \A i \in 1 .. n - (hi + 1) + 1 : b[i] = text[hi + 1 + i - 1]
    BY <1>3, <2>1, <2>2, SubSeqProperties
  <2>4. n - (hi + 1) + 1 = n - hi
    BY <2>1, <1>1
  <2>5. QED BY <1>1, <2>3, <2>4
<1>6. PICK r : r = a \o b
  OBVIOUS
<1>7. /\ r \in Seq(Char) /\ Len(r) = lo + (n - hi)
      /\ \A i \in 1 .. lo + (n - hi) : r[i] = IF i <= lo THEN a[i] ELSE b[i - lo]
  <2>1. /\ r \in Seq(Char) /\ Len(r) = Len(a) + Len(b)
        /\ \A i \in 1 .. Len(a) + Len(b) : r[i] = IF i <= Len(a) THEN a[i] ELSE b[i - Len(a)]
    BY <1>4, <1>5, <1>6, ConcatProperties
  <2>2. QED BY <1>4, <1>5, <2>1
<1>8. PICK c : c = [k \in 0 .. n |-> IF k <= lo THEN k ELSE IF k <= hi THEN lo ELSE lo + (k - hi)]
  OBVIOUS
<1>9. c \in [0 .. n -> Nat]
  BY <1>1, <1>8
<1>10. c[0] = 0 /\ c[n] = lo + (n - hi)
  BY <1>1, <1>8
<1>11. ASSUME NEW k \in 1 .. n
       PROVE  IF k \in 1 .. n \ (lo + 1 .. hi) THEN c[k] = c[k - 1] + 1 /\ r[c[k]] = text[k]
              ELSE c[k] = c[k - 1]
  <2>1. k - 1 \in 0 .. n /\ k \in 0 .. n
    OBVIOUS
  <2>2. CASE k <= lo
    <3>1. c[k] = k /\ c[k - 1] = k - 1 /\ k \in 1 .. lo + (n - hi)
      BY <1>1, <1>8, <2>1, <2>2
    <3>2. r[k] = text[k]
      BY <1>1, <1>4, <1>7, <2>2, <3>1
    <3>3. QED BY <2>2, <3>1, <3>2
  <2>3. CASE k > lo /\ k <= hi
    BY <1>1, <1>8, <2>1, <2>3
  <2>4. CASE k > lo /\ k > hi
    <3>1. c[k] = lo + (k - hi) /\ c[k - 1] = lo + (k - 1 - hi)
      BY <1>1, <1>8, <2>1, <2>4
    <3>2. /\ lo + (k - hi) \in 1 .. lo + (n - hi) /\ ~ (lo + (k - hi) <= lo) /\ lo + (k - hi) - lo = k - hi
          /\ k - hi \in 1 .. n - hi /\ hi + (k - hi) = k
      BY <1>1, <2>4
    <3>3. r[lo + (k - hi)] = text[k]
      BY <1>5, <1>7, <3>2
    <3>4. lo + (k - hi) = lo + (k - 1 - hi) + 1
      BY <1>1
    <3>5. k \in 1 .. n \ (lo + 1 .. hi)
      BY <1>1, <2>4
    <3>6. QED BY <3>1, <3>3, <3>4, <3>5
  <2>5. QED BY <1>1, <2>2, <2>3, <2>4
<1>12. PICK keep : keep = 1 .. n \ (lo + 1 .. hi)
  OBVIOUS
<1>13. Kept(text, keep) = r
  <2>1. c \in [0 .. Len(text) -> Nat] /\ c[0] = 0 /\ Len(r) = c[Len(text)]
    BY <1>1, <1>7, <1>9, <1>10
  <2>2. \A k \in 1 .. Len(text) : IF k \in keep THEN c[k] = c[k - 1] + 1 /\ r[c[k]] = text[k]
                                   ELSE c[k] = c[k - 1]
    BY <1>1, <1>11, <1>12
  <2>3. r \in Seq(Char)
    BY <1>7
  <2>4. QED BY <2>1, <2>2, <2>3, KeptIs
<1>14. QED BY <1>1, <1>2, <1>3, <1>6, <1>12, <1>13

LEMMA EscapedType ==
  ASSUME NEW text \in Seq(Char)
  PROVE  Escaped(text) \in Seq(Char)
<1>1. PICK n \in Nat : n = Len(text)
  BY LenProperties
<1> DEFINE step(x, k) == x \o EscapeOf(text[k])
           T == [k \in 1 .. n |-> [x \in Seq(Char) |-> step(x, k)]]
<1>2. ASSUME NEW k \in 1 .. n, NEW x \in Seq(Char) PROVE step(x, k) \in Seq(Char)
  <2>1. PICK ch \in Char : ch = text[k]
    BY <1>1, ElementOfSeq
  <2>2. Backslash \in Char /\ Plain \in Char
    BY CellFacts
  <2>3. <<Backslash, Plain>> \in Seq(Char) /\ <<Backslash, Backslash>> \in Seq(Char) /\ <<ch>> \in Seq(Char)
    BY <2>2
  <2>4. EscapeOf(ch) \in Seq(Char)
    BY <2>3 DEF EscapeOf
  <2>5. x \o EscapeOf(ch) \in Seq(Char)
    BY <2>4, ConcatProperties
  <2>6. QED BY <2>1, <2>5
<1>3. T \in [1 .. n -> [Seq(Char) -> Seq(Char)]]
  <2> HIDE DEF step
  <2>1. QED BY <1>2
<1>4. <<>> \in Seq(Char)
  BY EmptySeq
<1>5. PICK u : Recursion(u, n, Seq(Char), <<>>, T)
  <2> HIDE DEF T
  <2>1. QED BY <1>3, <1>4, RecursionExists
<1>6. ASSUME NEW k \in 1 .. n PROVE u[k] = step(u[k - 1], k)
  <2>1. u[k - 1] \in Seq(Char) /\ u[k] = T[k][u[k - 1]]
    <3> HIDE DEF T
    <3>1. k - 1 \in 0 .. n
      OBVIOUS
    <3>2. QED BY <3>1, <1>5 DEF Recursion
  <2> HIDE DEF step
  <2>2. QED BY <2>1
<1>7. u[0] = <<>> /\ u \in [0 .. n -> Seq(Char)]
  BY <1>5 DEF Recursion
<1> DEFINE Sol(f) == f = [k \in 0 .. n |-> IF k = 0 THEN <<>> ELSE step(f[k - 1], k)]
<1>8. Sol(u)
  <2> HIDE DEF step
  <2>1. ASSUME NEW k \in 0 .. n, k # 0 PROVE u[k] = step(u[k - 1], k)
    <3>1. k \in 1 .. n
      BY <2>1
    <3>2. QED BY <3>1, <1>6
  <2>2. QED BY <1>7, <2>1
<1>9. Escaped(text) = (CHOOSE f : Sol(f))[n]
  BY <1>1 DEF Escaped
<1>10. PICK f : f = (CHOOSE g : Sol(g)) /\ Sol(f)
  <2> HIDE DEF Sol
  <2>1. QED BY <1>8
<1>11. f[0] = <<>> /\ \A k \in 1 .. n : f[k] = step(f[k - 1], k)
  <2>1. f = [k \in 0 .. n |-> IF k = 0 THEN <<>> ELSE step(f[k - 1], k)]
    BY <1>10
  <2> HIDE DEF step, Sol
  <2>2. f[0] = <<>>
    BY <2>1
  <2>3. ASSUME NEW k \in 1 .. n PROVE f[k] = step(f[k - 1], k)
    <3>1. k \in 0 .. n /\ k # 0
      OBVIOUS
    <3>2. QED BY <2>1, <3>1
  <2>4. QED BY <2>2, <2>3
<1> HIDE DEF Sol
<1> DEFINE S == {k \in 0 .. n : f[k] \in Seq(Char)}
<1> HIDE DEF step
<1>12. 0 \in S
  <2>1. f[0] \in Seq(Char)
    BY <1>4, <1>11
  <2>2. QED BY <2>1
<1>13. ASSUME NEW k \in 1 .. n, k - 1 \in S PROVE k \in S
  <2>1. f[k - 1] \in Seq(Char)
    BY <1>13
  <2>2. f[k] \in Seq(Char)
    BY <1>2, <1>11, <2>1
  <2>3. QED BY <2>2
<1>14. \A k \in 0 .. n : k \in S
  <2> HIDE DEF S
  <2>1. QED BY <1>12, <1>13, UpTo
<1>15. n \in S
  BY <1>14
<1>16. QED BY <1>9, <1>10, <1>15

-----------------------------------------------------------------------------
(* The state.                                                               *)

StringInv == Now \in Arena /\ Bounded(Now) /\ Sound(Now)

\* The live texts that an opcode leaves in the slots, when it fails for lack of memory.
LiveAfter == {TextAt(Now, slot[s].at) : s \in {q \in Slots : InArena(Now, slot[q]) /\ slot'[q].region # "none"}}
PressureIsFull == status = "ok" /\ status' = "pressure" => Bytes(LiveAfter) + asked' > StringCapacity

\* h is the arena with some of the strings popped.
Stage(h) ==
  /\ Ready(h) /\ h.mem = mem /\ h.used = used
  /\ \A s \in Slots : h.slot[s] = slot[s] \/ h.slot[s] = NoString

LEMMA NowFields ==
  /\ Now.mem = mem /\ Now.used = used /\ Now.limit = limit /\ Now.slot = slot
  /\ Now.status = status /\ Now.asked = asked /\ Now.out = 0 /\ Now.compacted = FALSE
BY DEF Now

LEMMA TypeFacts ==
  ASSUME StringInv
  PROVE  /\ mem \in [1 .. StringCapacity -> Cell] /\ used \in Nat /\ limit \in Nat
         /\ slot \in [Slots -> Pointer] /\ status \in {"ok", "pressure", "spoilt"} /\ asked \in Nat
         /\ used <= limit /\ limit <= StringCapacity
         /\ status = "ok" => Closed(mem, used) /\ \A s \in Slots : Right(mem, used, slot[s])
<1>1. Now \in Arena /\ Bounded(Now) /\ Sound(Now)
  BY DEF StringInv
<1>2. /\ Now.mem \in [1 .. StringCapacity -> Cell] /\ Now.used \in Nat /\ Now.limit \in Nat
      /\ Now.slot \in [Slots -> Pointer] /\ Now.status \in {"ok", "pressure", "spoilt"} /\ Now.asked \in Nat
  BY <1>1 DEF Arena
<1>3. QED BY <1>1, <1>2, NowFields DEF Bounded, Sound

LEMMA BecomesGood ==
  ASSUME NEW h \in Arena, Bounded(h), Sound(h), Becomes(h)
  PROVE  StringInv'
<1>1. PICK n : n = [mem |-> h.mem, used |-> h.used, limit |-> h.limit, slot |-> h.slot, status |-> h.status,
                    asked |-> h.asked, compacted |-> FALSE, out |-> 0]
  OBVIOUS
<1>2. Now' = n
  BY <1>1 DEF Becomes, Now
<1>3. /\ n.mem = h.mem /\ n.used = h.used /\ n.limit = h.limit /\ n.slot = h.slot
      /\ n.status = h.status
  BY <1>1
<1>4. n \in Arena
  BY <1>1 DEF Arena
<1>5. Bounded(n) /\ Sound(n)
  BY <1>3 DEF Bounded, Sound
<1>6. (Now \in Arena /\ Bounded(Now) /\ Sound(Now))'
  BY <1>2, <1>4, <1>5 DEF Bounded, Sound
<1>7. QED BY <1>6 DEF StringInv

LEMMA NowStage ==
  ASSUME StringInv, status = "ok"
  PROVE  Stage(Now)
BY NowFields DEF StringInv, Stage, Ready

LEMMA PoppedStage ==
  ASSUME StringInv, status = "ok", NEW S
  PROVE  /\ Stage(Popped(S))
         /\ Popped(S).slot = [s \in Slots |-> IF s \in S THEN NoString ELSE slot[s]]
<1>1. PICK sl : sl = [s \in Slots |-> IF s \in S THEN NoString ELSE slot[s]]
  OBVIOUS
<1>2. sl \in [Slots -> Pointer]
  <2>1. NoString \in Pointer /\ slot \in [Slots -> Pointer]
    BY PointerFacts, TypeFacts
  <2>2. QED BY <1>1, <2>1
<1>3. PICK h : h = [Now EXCEPT !.slot = sl]
  OBVIOUS
<1>4. /\ h \in Arena /\ h.mem = mem /\ h.used = used /\ h.limit = limit /\ h.slot = sl /\ h.status = status
      /\ h.compacted = FALSE
  <2>1. Now \in Arena
    BY DEF StringInv
  <2>2. /\ h \in Arena /\ h.mem = Now.mem /\ h.used = Now.used /\ h.limit = Now.limit /\ h.slot = sl
        /\ h.status = Now.status /\ h.compacted = Now.compacted
    BY <1>2, <1>3, <2>1 DEF Arena
  <2>3. QED BY <2>2, NowFields
<1>5. Popped(S) = h
  BY <1>1, <1>3 DEF Popped
<1>6. Right(mem, used, NoString)
  BY PointerFacts DEF Right
<1>7. Bounded(h) /\ Sound(h)
  BY <1>1, <1>4, <1>6, TypeFacts DEF Bounded, Sound
<1>8. \A s \in Slots : h.slot[s] = slot[s] \/ h.slot[s] = NoString
  BY <1>1, <1>4
<1>9. QED BY <1>1, <1>4, <1>5, <1>7, <1>8 DEF Stage, Ready

\* What can be read reads right, now and when strings have been popped.
LEMMA ReadableFacts ==
  ASSUME StringInv, NEW a \in Slots, Readable(a), NEW h, Stage(h)
  PROVE  /\ slot[a] \in Pointer /\ slot[a].want \in Seq(Char) /\ Text(Now, slot[a]) = slot[a].want
         /\ slot[a].region \in {"program", "arena"} /\ Legible(h, slot[a])
<1>1. slot[a] \in Pointer /\ slot[a].region \in {"program", "arena"} /\ Right(mem, used, slot[a])
  BY TypeFacts DEF Readable
<1>2. slot[a].want \in Seq(Char)
  BY <1>1 DEF Pointer
<1>3. Text(Now, slot[a]) = slot[a].want
  <2>1. Now \in Arena /\ Bounded(Now) /\ Right(Now.mem, Now.used, slot[a])
    BY <1>1, NowFields DEF StringInv
  <2>2. QED BY <1>1, <2>1, ReadsRight
<1>4. Legible(h, slot[a])
  BY <1>1 DEF Legible, Stage
<1>5. QED BY <1>1, <1>2, <1>3, <1>4

\* When an opcode fails for lack of memory, the live texts are those of its stage.
LEMMA FailedIsFull ==
  ASSUME StringInv, NEW h, Stage(h), NEW f, Tried(h, f), f.status = "pressure",
         slot' = f.slot, asked' = f.asked
  PROVE  Bytes(LiveAfter) + asked' > StringCapacity
<1>1. h.slot \in [Slots -> Pointer] /\ h.mem = mem /\ h.used = used /\ SameHeld(h.slot, f.slot)
  BY DEF Stage, Ready, Arena, Tried
<1>2. ASSUME NEW q \in Slots
      PROVE  InArena(Now, slot[q]) /\ slot'[q].region # "none" <=> InArena(h, h.slot[q])
  <2>1. slot'[q].region = "none" <=> h.slot[q].region = "none"
    BY <1>1 DEF SameHeld
  <2>2. CASE h.slot[q] = slot[q]
    <3>1. InArena(Now, slot[q]) <=> InArena(h, h.slot[q])
      BY <1>1, <2>2, NowFields DEF InArena
    <3>2. InArena(h, h.slot[q]) => h.slot[q].region # "none"
      BY DEF InArena
    <3>3. QED BY <2>1, <3>1, <3>2
  <2>3. CASE h.slot[q] = NoString
    <3>1. h.slot[q].region = "none"
      BY <2>3, PointerFacts
    <3>2. ~ InArena(h, h.slot[q])
      BY <3>1 DEF InArena
    <3>3. QED BY <2>1, <3>1, <3>2
  <2>4. QED BY <2>2, <2>3 DEF Stage
<1>3. ASSUME NEW q \in Slots, InArena(h, h.slot[q])
      PROVE  TextAt(Now, slot[q].at) = TextAt(h, h.slot[q].at)
  <2>1. h.slot[q] = slot[q]
    <3>1. NoString.region # "arena"
      BY PointerFacts
    <3>2. QED BY <1>3, <3>1 DEF InArena, Stage
  <2>2. QED BY <1>1, <2>1, NowFields DEF TextAt
<1>4. LiveAfter = Live(h)
  BY <1>2, <1>3 DEF LiveAfter, Live
<1>5. QED BY <1>4 DEF Tried

\* An opcode that pushes a text, or fails.
LEMMA PushedWorks ==
  ASSUME StringInv, NEW h, Stage(h), NEW f, Tried(h, f), NEW s \in Slots, NEW want, NEW intact \in BOOLEAN,
         intact => want \in Seq(Char) /\ MadeText(h, f, want), Pushed(f, s, want, intact)
  PROVE  StringInv' /\ PressureIsFull
<1>1. f \in Arena /\ Bounded(f) /\ f.status \in {"ok", "pressure"} /\ f.slot \in [Slots -> Pointer]
  BY DEF Tried, Arena
<1>2. CASE f.status # "ok"
  <2>1. f.status = "pressure" /\ Sound(f)
    BY <1>1, <1>2 DEF Sound
  <2>2. Becomes(f)
    BY <1>2 DEF Pushed
  <2>3. StringInv'
    BY <1>1, <2>1, <2>2, BecomesGood
  <2>4. slot' = f.slot /\ asked' = f.asked
    BY <2>2 DEF Becomes
  <2>5. PressureIsFull
    BY <2>1, <2>4, FailedIsFull DEF PressureIsFull
  <2>6. QED BY <2>3, <2>5
<1>3. CASE f.status = "ok" /\ ~ intact
  <2>1. PICK g : g = [f EXCEPT !.status = "spoilt"]
    OBVIOUS
  <2>2. g \in Arena /\ g.status = "spoilt" /\ g.used = f.used /\ g.limit = f.limit
    BY <1>1, <2>1 DEF Arena
  <2>3. Becomes(g)
    BY <1>3, <2>1 DEF Pushed
  <2>4. Bounded(g) /\ Sound(g)
    BY <1>1, <2>2 DEF Bounded, Sound
  <2>5. StringInv'
    BY <2>2, <2>3, <2>4, BecomesGood
  <2>6. status' # "pressure"
    BY <2>2, <2>3 DEF Becomes
  <2>7. QED BY <2>5, <2>6 DEF PressureIsFull
<1>4. CASE f.status = "ok" /\ intact
  <2>1. want \in Seq(Char) /\ Sound(f) /\ HereAt(f.mem, f.used, f.out, want)
    BY <1>4 DEF MadeText
  <2>2. PICK p \in Pointer : p = Made(f, want) /\ p.region = "arena" /\ p.at = f.out /\ p.want = want
    BY <1>1, <2>1, PointerFacts
  <2>3. PICK sl \in [Slots -> Pointer] : sl = [f.slot EXCEPT ![s] = p]
    BY <1>1
  <2>4. PICK g : g = [f EXCEPT !.slot = sl]
    OBVIOUS
  <2>5. /\ g \in Arena /\ g.status = f.status /\ g.used = f.used /\ g.limit = f.limit
        /\ g.mem = f.mem /\ g.slot = sl
    BY <1>1, <2>4 DEF Arena
  <2>6. Becomes(g)
    BY <1>4, <2>2, <2>3, <2>4 DEF Pushed
  <2>7. \A t \in Slots : Right(g.mem, g.used, g.slot[t])
    <3>1. TAKE t \in Slots
    <3>2. Right(f.mem, f.used, p)
      BY <2>1, <2>2 DEF Right
    <3>3. Right(f.mem, f.used, f.slot[t])
      BY <1>4, <2>1 DEF Sound
    <3>4. g.slot[t] = IF t = s THEN p ELSE f.slot[t]
      BY <1>1, <2>3, <2>5
    <3>5. QED BY <2>5, <3>2, <3>3, <3>4
  <2>8. Bounded(g) /\ Sound(g)
    BY <1>1, <1>4, <2>1, <2>5, <2>7 DEF Bounded, Sound
  <2>9. StringInv'
    BY <2>5, <2>6, <2>8, BecomesGood
  <2>10. status' # "pressure"
    BY <1>4, <2>5, <2>6 DEF Becomes
  <2>11. QED BY <2>9, <2>10 DEF PressureIsFull
<1>5. QED BY <1>2, <1>3, <1>4

\* An opcode that only changes slots: each keeps what it has or gets a right pointer.
LEMMA SlotsMove ==
  ASSUME StringInv, status = "ok", NEW sl \in [Slots -> Pointer], \A t \in Slots : Right(mem, used, sl[t]),
         Becomes([Now EXCEPT !.slot = sl])
  PROVE  StringInv' /\ PressureIsFull
<1>1. PICK g : g = [Now EXCEPT !.slot = sl]
  OBVIOUS
<1>2. Now \in Arena /\ Bounded(Now)
  BY DEF StringInv
<1>3. /\ g \in Arena /\ g.status = Now.status /\ g.used = Now.used /\ g.limit = Now.limit
      /\ g.mem = Now.mem /\ g.slot = sl
  BY <1>1, <1>2 DEF Arena
<1>4. Bounded(g) /\ Sound(g)
  BY <1>2, <1>3, NowFields, TypeFacts DEF Bounded, Sound
<1>5. Becomes(g)
  BY <1>1
<1>6. StringInv'
  BY <1>3, <1>4, <1>5, BecomesGood
<1>7. status' # "pressure"
  BY <1>3, <1>5, NowFields DEF Becomes
<1>8. QED BY <1>6, <1>7 DEF PressureIsFull

-----------------------------------------------------------------------------
(* One lemma per opcode.                                                    *)

LEMMA ReadDanglingStep ==
  ASSUME StringInv, NEW s \in Slots, ReadDangling(s)
  PROVE  StringInv' /\ PressureIsFull
<1>1. PICK g : g = [Now EXCEPT !.status = "spoilt"]
  OBVIOUS
<1>2. Now \in Arena /\ Bounded(Now)
  BY DEF StringInv
<1>3. g \in Arena /\ g.status = "spoilt" /\ g.used = Now.used /\ g.limit = Now.limit
  BY <1>1, <1>2 DEF Arena
<1>4. Becomes(g)
  BY <1>1 DEF ReadDangling
<1>5. Bounded(g) /\ Sound(g)
  BY <1>2, <1>3 DEF Bounded, Sound
<1>6. StringInv'
  BY <1>3, <1>4, <1>5, BecomesGood
<1>7. status' # "pressure"
  BY <1>3, <1>4 DEF Becomes
<1>8. QED BY <1>6, <1>7 DEF PressureIsFull

LEMMA TextsAreChars == \A text \in Texts : text \in Seq(Char)
BY StringAssumption DEF Char

LEMMA PushConstStep ==
  ASSUME StringInv, NEW s \in Slots, NEW text \in Texts, PushConst(s, text)
  PROVE  StringInv' /\ PressureIsFull
<1>1. status = "ok" /\ Becomes([Now EXCEPT !.slot[s] = InProgram(text)])
  BY DEF PushConst, Free
<1>2. slot \in [Slots -> Pointer] /\ \A t \in Slots : Right(mem, used, slot[t])
  BY <1>1, TypeFacts
<1>3. PICK p \in Pointer : p = InProgram(text) /\ Right(mem, used, p)
  <2>1. /\ InProgram(text) \in Pointer /\ InProgram(text).region = "program"
        /\ InProgram(text).lit = text /\ InProgram(text).want = text
    BY TextsAreChars, PointerFacts
  <2>2. QED BY <2>1 DEF Right
<1>4. PICK sl : sl = [slot EXCEPT ![s] = p]
  OBVIOUS
<1>5. sl \in [Slots -> Pointer] /\ \A t \in Slots : sl[t] = IF t = s THEN p ELSE slot[t]
  BY <1>2, <1>4
<1>6. [Now EXCEPT !.slot[s] = InProgram(text)] = [Now EXCEPT !.slot = sl]
  BY <1>3, <1>4, NowFields
<1>7. \A t \in Slots : Right(mem, used, sl[t])
  BY <1>2, <1>3, <1>5
<1>8. Becomes([Now EXCEPT !.slot = sl])
  BY <1>1, <1>6
<1>9. QED BY <1>1, <1>5, <1>7, <1>8, SlotsMove

LEMMA CopyPointerStep ==
  ASSUME StringInv, NEW from \in Slots, NEW to \in Slots, CopyPointer(from, to)
  PROVE  StringInv' /\ PressureIsFull
<1>1. status = "ok" /\ Becomes([Now EXCEPT !.slot[to] = slot[from]])
  BY DEF CopyPointer, Free
<1>2. slot \in [Slots -> Pointer] /\ \A t \in Slots : Right(mem, used, slot[t])
  BY <1>1, TypeFacts
<1>3. PICK sl : sl = [slot EXCEPT ![to] = slot[from]]
  OBVIOUS
<1>4. sl \in [Slots -> Pointer] /\ \A t \in Slots : sl[t] = IF t = to THEN slot[from] ELSE slot[t]
  BY <1>2, <1>3
<1>5. [Now EXCEPT !.slot[to] = slot[from]] = [Now EXCEPT !.slot = sl]
  BY <1>3, NowFields
<1>6. \A t \in Slots : Right(mem, used, sl[t])
  BY <1>2, <1>4
<1>7. Becomes([Now EXCEPT !.slot = sl])
  BY <1>1, <1>5
<1>8. QED BY <1>1, <1>4, <1>6, <1>7, SlotsMove

LEMMA DropStep ==
  ASSUME StringInv, NEW s \in Slots, Drop(s)
  PROVE  StringInv' /\ PressureIsFull
<1>1. PICK S : Becomes(Popped(S))
  BY DEF Drop
<1>2. status = "ok"
  BY DEF Drop, Holds
<1>3. PICK sl : sl = [t \in Slots |-> IF t \in S THEN NoString ELSE slot[t]]
  OBVIOUS
<1>4. slot \in [Slots -> Pointer] /\ \A t \in Slots : Right(mem, used, slot[t])
  BY <1>2, TypeFacts
<1>5. NoString \in Pointer /\ Right(mem, used, NoString)
  BY PointerFacts DEF Right
<1>6. sl \in [Slots -> Pointer] /\ \A t \in Slots : Right(mem, used, sl[t])
  BY <1>3, <1>4, <1>5
<1>7. Becomes([Now EXCEPT !.slot = sl])
  BY <1>1, <1>3 DEF Popped
<1>8. QED BY <1>2, <1>6, <1>7, SlotsMove

LEMMA MaterializeStep ==
  ASSUME StringInv, NEW s \in Slots, NEW text \in Texts, Materialize(s, text)
  PROVE  StringInv' /\ PressureIsFull
<1>1. status = "ok"
  BY DEF Materialize, Free
<1>2. PICK f : f = CopyString(Now, InProgram(text), text) /\ Pushed(f, s, text, TRUE)
  BY DEF Materialize
<1>3. Stage(Now) /\ Ready(Now)
  BY <1>1, NowStage DEF Stage
<1>4. text \in Seq(Char)
  BY TextsAreChars
<1>5. PICK p : p = InProgram(text) /\ Legible(Now, p) /\ p.want = text
  BY <1>4, PointerFacts DEF Legible, Right
<1>6. MadeText(Now, f, text)
  BY <1>2, <1>3, <1>5, CopyStringMakes
<1>7. Tried(Now, f)
  BY <1>6 DEF MadeText
<1>8. QED BY <1>2, <1>3, <1>4, <1>6, <1>7, PushedWorks

LEMMA CopyOfStep ==
  ASSUME StringInv, NEW a \in Slots, NEW s \in Slots, CopyOf(a, s)
  PROVE  StringInv' /\ PressureIsFull
<1>1. Readable(a) /\ status = "ok"
  BY DEF CopyOf, Readable
<1>2. PICK f : f = CopyString(Popped({s}), slot[a], Text(Now, slot[a])) /\ Pushed(f, s, slot[a].want, TRUE)
  BY DEF CopyOf
<1>3. PICK h : h = Popped({s}) /\ Stage(h) /\ Ready(h)
  BY <1>1, PoppedStage DEF Stage
<1>4. slot[a].want \in Seq(Char) /\ Text(Now, slot[a]) = slot[a].want /\ Legible(h, slot[a])
  BY <1>1, <1>3, ReadableFacts
<1>5. MadeText(h, f, slot[a].want)
  BY <1>2, <1>3, <1>4, CopyStringMakes
<1>6. Tried(h, f)
  BY <1>5 DEF MadeText
<1>7. QED BY <1>2, <1>3, <1>4, <1>5, <1>6, PushedWorks

LEMMA StrEscapeStep ==
  ASSUME StringInv, NEW a \in Slots, StrEscape(a)
  PROVE  StringInv' /\ PressureIsFull
<1>1. Readable(a) /\ status = "ok"
  BY DEF StrEscape, Readable
<1>2. PICK f : /\ f = Filled(Popped({a}), Chars(Escaped(Text(Now, slot[a]))))
               /\ Pushed(f, a, Escaped(slot[a].want), Intact(slot[a], f))
  BY DEF StrEscape
<1>3. PICK h : h = Popped({a}) /\ Stage(h) /\ Ready(h)
  BY <1>1, PoppedStage DEF Stage
<1>4. slot[a].want \in Seq(Char) /\ Text(Now, slot[a]) = slot[a].want
  BY <1>1, <1>3, ReadableFacts
<1>5. PICK t \in Seq(Char) : t = Escaped(slot[a].want)
  BY <1>4, EscapedType
<1>6. Chars(t) \in Seq(Item) /\ Denote(Chars(t), h.mem, 0, t)
  BY CharsDenote
<1>7. f = Filled(h, Chars(t))
  BY <1>2, <1>3, <1>4, <1>5
<1>8. MadeText(h, f, t)
  BY <1>3, <1>6, <1>7, FilledMakes
<1>9. Tried(h, f)
  BY <1>8 DEF MadeText
<1>10. PICK i \in BOOLEAN : i = Intact(slot[a], f)
  BY DEF Intact
<1>11. Pushed(f, a, t, i)
  BY <1>2, <1>5, <1>10
<1>12. QED BY <1>3, <1>8, <1>9, <1>11, PushedWorks

LEMMA StrConcatStep ==
  ASSUME StringInv, NEW a \in Slots, NEW b \in Slots, StrConcat(a, b)
  PROVE  StringInv' /\ PressureIsFull
<1>1. Readable(a) /\ Readable(b) /\ status = "ok"
  BY DEF StrConcat, Readable
<1>2. PICK h : h = Popped({a, b}) /\ Stage(h) /\ Ready(h) /\ h \in Arena
  BY <1>1, PoppedStage DEF Stage, Ready
<1>3. PICK left \in Seq(Char) : left = slot[a].want /\ Text(Now, slot[a]) = left /\ Legible(h, slot[a])
  BY <1>1, <1>2, ReadableFacts
<1>4. PICK right \in Seq(Char) : right = slot[b].want /\ Text(Now, slot[b]) = right /\ Legible(h, slot[b])
  BY <1>1, <1>2, ReadableFacts
<1>5. PICK x : x = Direct(Now, slot[a], left, 0)
  OBVIOUS
<1>6. PICK y : y = Direct(Now, slot[b], right, 0)
  OBVIOUS
<1>7. PICK f : f = Filled(h, x \o y) /\ Pushed(f, a, left \o right, Intact(slot[a], f) /\ Intact(slot[b], f))
  BY <1>2, <1>3, <1>4, <1>5, <1>6 DEF StrConcat
<1>8. /\ x \in Seq(Item) /\ Denote(x, h.mem, h.used, left)
      /\ slot[a].region = "program" => Denote(x, h.mem, 0, left)
  <2>1. /\ Direct(Now, slot[a], slot[a].want, 0) \in Seq(Item)
        /\ Denote(Direct(Now, slot[a], slot[a].want, 0), h.mem, h.used, slot[a].want)
        /\ slot[a].region = "program" => Denote(Direct(Now, slot[a], slot[a].want, 0), h.mem, 0, slot[a].want)
    BY <1>2, <1>3, DirectDenotes
  <2>2. QED BY <1>3, <1>5, <2>1
<1>9. /\ y \in Seq(Item) /\ Denote(y, h.mem, h.used, right)
      /\ slot[b].region = "program" => Denote(y, h.mem, 0, right)
  <2>1. /\ Direct(Now, slot[b], slot[b].want, 0) \in Seq(Item)
        /\ Denote(Direct(Now, slot[b], slot[b].want, 0), h.mem, h.used, slot[b].want)
        /\ slot[b].region = "program" => Denote(Direct(Now, slot[b], slot[b].want, 0), h.mem, 0, slot[b].want)
    BY <1>2, <1>4, DirectDenotes
  <2>2. QED BY <1>4, <1>6, <2>1
<1>10. /\ x \o y \in Seq(Item) /\ left \o right \in Seq(Char)
       /\ Denote(x \o y, h.mem, h.used, left \o right)
       /\ slot[a].region = "program" /\ slot[b].region = "program" => Denote(x \o y, h.mem, 0, left \o right)
  BY <1>8, <1>9, ConcatDenotes
<1>11. Tried(h, f)
  BY <1>2, <1>7, <1>10, FilledTries
<1>12. PICK i \in BOOLEAN : i <=> Intact(slot[a], f) /\ Intact(slot[b], f)
  OBVIOUS
<1>13. i => MadeText(h, f, left \o right)
  <2>1. i => ~ f.compacted \/ (slot[a].region = "program" /\ slot[b].region = "program")
    BY <1>12 DEF Intact
  <2>2. QED BY <1>2, <1>7, <1>10, <2>1, FilledMakes
<1>14. Pushed(f, a, left \o right, i)
  BY <1>7, <1>12 DEF Pushed
<1>15. QED BY <1>2, <1>10, <1>11, <1>13, <1>14, PushedWorks

LEMMA RuneRangeInside ==
  ASSUME NEW text \in Seq(Char), NEW start \in Int, NEW length \in Int
  PROVE  LET range == RuneRange(text, start, length)
         IN  range.lo \in 0 .. Len(text) /\ range.hi \in 0 .. Len(text)
<1>1. IntMax \in Nat
  BY StringAssumption
<1>2. PICK c \in Nat : c = RuneCount(text)
  BY RuneCountIs
<1>3. PICK end \in Int : end = Wrapped(start + length)
  <2>1. PICK a \in Int : a = start + length + IntMax + 1
    BY <1>1
  <2>2. PICK b \in Int : b = 2 * (IntMax + 1) /\ b > 0
    BY <1>1
  <2>3. a % b \in Int
    <3>1. \A x, y \in Int : y > 0 => x % y \in Int
      OBVIOUS
    <3>2. QED BY <2>2, <3>1
  <2>4. QED BY <1>1, <2>1, <2>2, <2>3 DEF Wrapped
<1>4. PICK i \in Nat : i = ClampRune(start, c)
  BY <1>2 DEF ClampRune
<1>5. PICK j \in Nat : j = ClampRune(end, c)
  BY <1>2 DEF ClampRune
<1>6. PICK l \in Nat : l = IF j < i THEN i ELSE j
  OBVIOUS
<1>7. RuneRange(text, start, length) = [lo |-> ByteOffset(text, i), hi |-> ByteOffset(text, l)]
  BY <1>2, <1>3, <1>4, <1>5, <1>6 DEF RuneRange
<1>8. ByteOffset(text, i) \in 0 .. Len(text) /\ ByteOffset(text, l) \in 0 .. Len(text)
  BY ByteOffsetIs DEF RuneAt
<1>9. QED BY <1>7, <1>8

\* The text of a range that is empty, or that is not.
LEMMA RangeTexts ==
  ASSUME NEW text \in Seq(Char), NEW start \in -IntMax - 1 .. IntMax, NEW length \in -IntMax - 1 .. IntMax
  PROVE  LET range == RuneRange(text, start, length)
         IN  /\ length <= 0 => /\ Kept(text, InRange(text, start, length)) = <<>>
                               /\ Kept(text, 1 .. Len(text) \ InRange(text, start, length)) = text
             /\ length > 0 /\ start + length <= IntMax =>
                  /\ Kept(text, InRange(text, start, length)) = SubSeq(text, range.lo + 1, range.hi)
                  /\ Kept(text, 1 .. Len(text) \ InRange(text, start, length))
                       = SubSeq(text, 1, range.lo) \o SubSeq(text, range.hi + 1, Len(text))
<1>1. IntMax \in Nat /\ start \in Int /\ length \in Int
  BY StringAssumption
<1>2. CASE length <= 0
  <2>1. InRange(text, start, length) = {}
    <3>1. start .. start + length - 1 = {}
      BY <1>1, <1>2
    <3>2. QED BY <3>1 DEF InRange
  <2>2. 1 .. Len(text) \ InRange(text, start, length) = 1 .. Len(text)
    BY <2>1
  <2>3. ~ (length > 0)
    BY <1>1, <1>2
  <2>4. Kept(text, {}) = <<>> /\ Kept(text, 1 .. Len(text)) = text
    BY KeptNone, KeptAll
  <2>5. QED BY <1>2, <2>1, <2>2, <2>3, <2>4
<1>3. CASE length > 0 /\ start + length <= IntMax
  <2>1. PICK range : range = RuneRange(text, start, length)
    OBVIOUS
  <2>2. /\ range.lo \in 0 .. Len(text) /\ range.hi \in 0 .. Len(text) /\ range.lo <= range.hi
        /\ InRange(text, start, length) = range.lo + 1 .. range.hi
    BY <1>1, <1>3, <2>1, RuneRangeIs
  <2>3. PICK lo \in 0 .. Len(text) : lo = range.lo
    BY <2>2
  <2>4. PICK hi \in 0 .. Len(text) : hi = range.hi
    BY <2>2
  <2>5. lo <= hi /\ InRange(text, start, length) = lo + 1 .. hi
    BY <2>2, <2>3, <2>4
  <2>6. Kept(text, lo + 1 .. hi) = SubSeq(text, lo + 1, hi)
    BY <2>5, KeptMiddle
  <2>7. Kept(text, 1 .. Len(text) \ (lo + 1 .. hi)) = SubSeq(text, 1, lo) \o SubSeq(text, hi + 1, Len(text))
    BY <2>5, KeptRest
  <2>8. ~ (length <= 0)
    BY <1>1, <1>3
  <2>9. QED BY <2>1, <2>3, <2>4, <2>5, <2>6, <2>7, <2>8
<1>4. CASE ~ (length <= 0) /\ ~ (length > 0 /\ start + length <= IntMax)
  BY <1>4
<1>5. QED BY <1>2, <1>3, <1>4

LEMMA StrSubstringStep ==
  ASSUME StringInv, NEW a \in Slots, NEW start \in Starts, NEW length \in Lengths, StrSubstring(a, start, length)
  PROVE  StringInv' /\ PressureIsFull
<1>0. /\ IntMax \in Nat /\ start \in -IntMax - 1 .. IntMax /\ length \in -IntMax - 1 .. IntMax
      /\ start \in Int /\ length \in Int
  BY StringAssumption
<1>1. Readable(a) /\ status = "ok"
  BY DEF StrSubstring, Readable
<1>2. PICK h : h = Popped({a}) /\ Stage(h) /\ Ready(h)
  BY <1>1, PoppedStage DEF Stage
<1>3. PICK text \in Seq(Char) : text = slot[a].want /\ Text(Now, slot[a]) = text /\ Legible(h, slot[a])
  BY <1>1, <1>2, ReadableFacts
<1>4. PICK range : range = RuneRange(text, start, length)
  OBVIOUS
<1>5. PICK want : want = Kept(text, InRange(text, start, length))
  OBVIOUS
<1>6. PICK i \in BOOLEAN : i <=> length <= 0 \/ start + length <= IntMax
  OBVIOUS
<1>7. PICK f : /\ f = IF length <= 0 THEN CopyString(h, InProgram(<<>>), <<>>)
                      ELSE CopyRange(h, slot[a], SubSeq(text, range.lo + 1, range.hi), range.lo)
               /\ Pushed(f, a, want, length <= 0 \/ start + length <= IntMax)
  BY <1>2, <1>3, <1>4, <1>5 DEF StrSubstring
<1>8. Pushed(f, a, want, i)
  BY <1>6, <1>7 DEF Pushed
<1>9. CASE length <= 0
  <2>1. <<>> \in Seq(Char)
    BY EmptySeq
  <2>2. PICK p : p = InProgram(<<>>) /\ Legible(h, p) /\ p.want = <<>>
    <3>1. PICK e : e = <<>>
      OBVIOUS
    <3>2. /\ InProgram(e) \in Pointer /\ InProgram(e).region = "program"
          /\ InProgram(e).lit = e /\ InProgram(e).want = e
      BY <2>1, <3>1, PointerFacts
    <3>3. Legible(h, InProgram(e))
      BY <3>2 DEF Legible, Right
    <3>4. QED BY <3>1, <3>2, <3>3
  <2>3. want = <<>>
    <3>1. LET r == RuneRange(text, start, length)
          IN  /\ length <= 0 => /\ Kept(text, InRange(text, start, length)) = <<>>
                                /\ Kept(text, 1 .. Len(text) \ InRange(text, start, length)) = text
              /\ length > 0 /\ start + length <= IntMax =>
                   /\ Kept(text, InRange(text, start, length)) = SubSeq(text, r.lo + 1, r.hi)
                   /\ Kept(text, 1 .. Len(text) \ InRange(text, start, length))
                        = SubSeq(text, 1, r.lo) \o SubSeq(text, r.hi + 1, Len(text))
      BY <1>0, RangeTexts
    <3>2. QED BY <1>5, <1>9, <3>1
  <2>4. MadeText(h, f, want)
    BY <1>2, <1>7, <1>9, <2>2, <2>3, CopyStringMakes
  <2>5. Tried(h, f)
    BY <2>4 DEF MadeText
  <2>6. QED BY <1>2, <1>8, <2>1, <2>3, <2>4, <2>5, PushedWorks
<1>10. CASE length > 0
  <2>1. ~ (length <= 0)
    BY <1>0, <1>10
  <2>2. range.lo \in 0 .. Len(text) /\ range.hi \in 0 .. Len(text)
    BY <1>0, <1>4, RuneRangeInside
  <2>3. PICK t \in Seq(Char) : t = SubSeq(text, range.lo + 1, range.hi)
    <3>1. PICK lo \in 0 .. Len(text) : lo = range.lo
      BY <2>2
    <3>2. PICK hi \in 0 .. Len(text) : hi = range.hi
      BY <2>2
    <3>3. PICK n \in Nat : n = Len(text)
      BY LenProperties
    <3>4. lo + 1 \in Int /\ hi \in Int
      BY <3>1, <3>2, <3>3
    <3>5. \A k \in lo + 1 .. hi : text[k] \in Char
      BY <3>3, ElementOfSeq
    <3>6. SubSeq(text, lo + 1, hi) \in Seq(Char)
      BY <3>4, <3>5, SubSeqProperties
    <3>7. QED BY <3>1, <3>2, <3>6
  <2>4. f = CopyRange(h, slot[a], t, range.lo)
    BY <1>7, <2>1, <2>3
  <2>5. MadeText(h, f, t)
    BY <1>2, <1>3, <2>4, CopyRangeMakes
  <2>6. i => want = t
    <3>1. LET r == RuneRange(text, start, length)
          IN  /\ length <= 0 => /\ Kept(text, InRange(text, start, length)) = <<>>
                                /\ Kept(text, 1 .. Len(text) \ InRange(text, start, length)) = text
              /\ length > 0 /\ start + length <= IntMax =>
                   /\ Kept(text, InRange(text, start, length)) = SubSeq(text, r.lo + 1, r.hi)
                   /\ Kept(text, 1 .. Len(text) \ InRange(text, start, length))
                        = SubSeq(text, 1, r.lo) \o SubSeq(text, r.hi + 1, Len(text))
      BY <1>0, RangeTexts
    <3>2. i => start + length <= IntMax
      BY <1>6, <2>1
    <3>3. QED BY <1>4, <1>5, <1>10, <2>3, <3>1, <3>2
  <2>7. Tried(h, f)
    BY <2>5 DEF MadeText
  <2>8. i => want \in Seq(Char) /\ MadeText(h, f, want)
    BY <2>5, <2>6
  <2>9. QED BY <1>2, <1>8, <2>7, <2>8, PushedWorks
<1>11. QED BY <1>0, <1>9, <1>10

LEMMA StrRemoveStep ==
  ASSUME StringInv, NEW a \in Slots, NEW start \in Starts, NEW length \in Lengths, StrRemove(a, start, length)
  PROVE  StringInv' /\ PressureIsFull
<1>0. /\ IntMax \in Nat /\ start \in -IntMax - 1 .. IntMax /\ length \in -IntMax - 1 .. IntMax
      /\ start \in Int /\ length \in Int
  BY StringAssumption
<1>1. Readable(a) /\ status = "ok"
  BY DEF StrRemove, Readable
<1>2. PICK h : h = Popped({a}) /\ Stage(h) /\ Ready(h)
  BY <1>1, PoppedStage DEF Stage
<1>3. PICK text \in Seq(Char) : text = slot[a].want /\ Text(Now, slot[a]) = text /\ Legible(h, slot[a])
  BY <1>1, <1>2, ReadableFacts
<1>4. PICK range : range = RuneRange(text, start, length)
  OBVIOUS
<1>5. PICK want : want = Kept(text, 1 .. Len(text) \ InRange(text, start, length))
  OBVIOUS
<1>6. PICK i \in BOOLEAN : i <=> length <= 0 \/ start + length <= IntMax
  OBVIOUS
<1>7. PICK f : /\ f = IF length <= 0 THEN CopyString(h, slot[a], text)
                      ELSE CopySplice(h, slot[a], text, range.lo, range.hi)
               /\ Pushed(f, a, want, length <= 0 \/ start + length <= IntMax)
  BY <1>2, <1>3, <1>4, <1>5 DEF StrRemove
<1>8. Pushed(f, a, want, i)
  BY <1>6, <1>7 DEF Pushed
<1>9. CASE length <= 0
  <2>1. want = text
    BY <1>0, <1>5, <1>9, RangeTexts
  <2>2. MadeText(h, f, want)
    BY <1>2, <1>3, <1>7, <1>9, <2>1, CopyStringMakes
  <2>3. Tried(h, f)
    BY <2>2 DEF MadeText
  <2>4. QED BY <1>2, <1>8, <2>1, <2>2, <2>3, PushedWorks
<1>10. CASE length > 0
  <2>1. ~ (length <= 0)
    BY <1>0, <1>10
  <2>2. PICK lo \in 0 .. Len(text) : lo = range.lo
    BY <1>0, <1>4, RuneRangeInside
  <2>3. PICK hi \in 0 .. Len(text) : hi = range.hi
    BY <1>0, <1>4, RuneRangeInside
  <2>4. PICK t : t = SubSeq(text, 1, lo) \o SubSeq(text, hi + 1, Len(text))
    OBVIOUS
  <2>5. f = CopySplice(h, slot[a], text, lo, hi)
    BY <1>7, <2>1, <2>2, <2>3
  <2>6. MadeText(h, f, t)
    BY <1>2, <1>3, <2>4, <2>5, CopySpliceMakes
  <2>7. i => want = t
    <3>1. LET r == RuneRange(text, start, length)
          IN  /\ length <= 0 => /\ Kept(text, InRange(text, start, length)) = <<>>
                                /\ Kept(text, 1 .. Len(text) \ InRange(text, start, length)) = text
              /\ length > 0 /\ start + length <= IntMax =>
                   /\ Kept(text, InRange(text, start, length)) = SubSeq(text, r.lo + 1, r.hi)
                   /\ Kept(text, 1 .. Len(text) \ InRange(text, start, length))
                        = SubSeq(text, 1, r.lo) \o SubSeq(text, r.hi + 1, Len(text))
      BY <1>0, RangeTexts
    <3>2. i => start + length <= IntMax
      BY <1>6, <2>1
    <3>3. QED BY <1>4, <1>5, <1>10, <2>2, <2>3, <2>4, <3>1, <3>2
  <2>8. t \in Seq(Char)
    <3>1. PICK n \in Nat : n = Len(text)
      BY LenProperties
    <3>2. \A k \in 1 .. n : text[k] \in Char
      BY <3>1, ElementOfSeq
    <3>3. SubSeq(text, 1, lo) \in Seq(Char)
      <4>1. (\A k \in 1 .. lo : text[k] \in Char) /\ 1 \in Int /\ lo \in Int
        BY <3>1, <3>2
      <4>2. QED BY <4>1, SubSeqProperties
    <3>4. SubSeq(text, hi + 1, n) \in Seq(Char)
      <4>1. (\A k \in hi + 1 .. n : text[k] \in Char) /\ hi + 1 \in Int /\ n \in Int
        BY <3>1, <3>2
      <4>2. QED BY <4>1, SubSeqProperties
    <3>5. QED BY <2>4, <3>1, <3>3, <3>4, ConcatProperties
  <2>9. Tried(h, f)
    BY <2>6 DEF MadeText
  <2>10. i => want \in Seq(Char) /\ MadeText(h, f, want)
    BY <2>6, <2>7, <2>8
  <2>11. QED BY <1>2, <1>8, <2>9, <2>10, PushedWorks
<1>11. QED BY <1>0, <1>9, <1>10

LEMMA ResetStep ==
  ASSUME StringInv, Reset
  PROVE  StringInv' /\ PressureIsFull
<1>1. PICK m : m = [mem EXCEPT ![1] = Nul]
  OBVIOUS
<1>2. m \in [1 .. StringCapacity -> Cell]
  BY <1>1, TypeFacts, CellFacts
<1>3. PICK sl \in [Slots -> Pointer] : sl = [s \in Slots |-> NoString] /\ \A s \in Slots : sl[s].region = "none"
  <2>1. PICK none \in Pointer : none = NoString /\ none.region = "none"
    BY PointerFacts
  <2>2. PICK sl : sl = [s \in Slots |-> NoString]
    OBVIOUS
  <2>3. \A s \in Slots : sl[s] = none
    BY <2>1, <2>2
  <2>4. sl \in [Slots -> Pointer]
    BY <2>1, <2>2
  <2>5. \A s \in Slots : sl[s].region = "none"
    BY <2>1, <2>3
  <2>6. QED BY <2>2, <2>4, <2>5
<1>4. PICK g : g = [Now EXCEPT !.mem = m, !.used = 0, !.limit = InitialLimit, !.asked = 0,
                               !.status = "ok", !.slot = sl]
  OBVIOUS
<1>5. InitialLimit \in Nat /\ InitialLimit <= StringCapacity /\ StringCapacity \in Nat
  BY StringAssumption
<1>6. /\ g \in Arena /\ g.mem = m /\ g.used = 0 /\ g.limit = InitialLimit /\ g.slot = sl /\ g.status = "ok"
  <2>1. Now \in Arena
    BY DEF StringInv
  <2>2. QED BY <1>2, <1>3, <1>4, <1>5, <2>1 DEF Arena
<1>7. [Now EXCEPT !.mem[1] = Nul, !.used = 0, !.limit = InitialLimit, !.asked = 0,
                  !.status = "ok", !.slot = [s \in Slots |-> NoString]] = g
  BY <1>1, <1>3, <1>4, NowFields
<1>8. Becomes(g)
  BY <1>7 DEF Reset
<1>9. Bounded(g) /\ Sound(g)
  BY <1>3, <1>5, <1>6 DEF Bounded, Sound, Closed, Right
<1>10. StringInv'
  BY <1>6, <1>8, <1>9, BecomesGood
<1>11. status' # "pressure"
  BY <1>6, <1>8 DEF Becomes
<1>12. QED BY <1>10, <1>11 DEF PressureIsFull

\* While the strings are sound, the live texts are the wanted ones.
LEMMA LiveWants ==
  ASSUME NEW h \in Arena, Bounded(h), Sound(h), h.status = "ok"
  PROVE  Live(h) = {h.slot[s].want : s \in {q \in Slots : h.slot[q].region = "arena"}}
<1>1. ASSUME NEW s \in Slots
      PROVE  /\ InArena(h, h.slot[s]) <=> h.slot[s].region = "arena"
             /\ h.slot[s].region = "arena" => TextAt(h, h.slot[s].at) = h.slot[s].want
  <2>1. PICK p \in Pointer : p = h.slot[s] /\ Right(h.mem, h.used, p)
    BY DEF Arena, Sound
  <2>2. p.region = "arena" => Text(h, p) = p.want /\ InArena(h, p)
    BY <2>1, ReadsRight
  <2>3. InArena(h, p) => p.region = "arena"
    BY DEF InArena
  <2>4. p.region = "arena" => Text(h, p) = TextAt(h, p.at)
    BY DEF Text
  <2>5. QED BY <2>1, <2>2, <2>3, <2>4
<1>2. QED BY <1>1 DEF Live

LEMMA NoBytes == Bytes({}) = 0
<1>1. UNION {{t} \X (0 .. Len(t)) : t \in {}} = {}
  OBVIOUS
<1>2. QED BY <1>1, FS_EmptySet DEF Bytes

LEMMA SameHeldTwice ==
  ASSUME NEW f, NEW g, NEW h, SameHeld(f, g), SameHeld(g, h)
  PROVE  SameHeld(f, h)
BY DEF SameHeld

\* The second copy of a node's strings starts from what the first left.
LEMMA SecondTries ==
  ASSUME NEW h, Ready(h), NEW f, NEW text \in Seq(Char), MadeText(h, f, text), f.status = "ok",
         NEW e, e = [f EXCEPT !.compacted = FALSE], NEW g, Tried(e, g)
  PROVE  Ready(e) /\ Tried(h, g)
<1>1. /\ f \in Arena /\ Bounded(f) /\ Sound(f) /\ SameHeld(h.slot, f.slot)
      /\ h \in Arena /\ Bounded(h) /\ Sound(h) /\ h.status = "ok"
  BY DEF MadeText, Tried, Ready
<1>2. /\ e \in Arena /\ e.mem = f.mem /\ e.used = f.used /\ e.limit = f.limit /\ e.slot = f.slot
      /\ e.status = "ok" /\ e.compacted = FALSE
  BY <1>1 DEF Arena
<1>3. Bounded(e) /\ Sound(e)
  BY <1>1, <1>2 DEF Bounded, Sound
<1>4. Ready(e)
  BY <1>2, <1>3 DEF Ready
<1>5. g \in Arena /\ Bounded(g) /\ SameHeld(h.slot, g.slot) /\ g.asked \in Nat
  <2>1. g \in Arena /\ Bounded(g) /\ SameHeld(f.slot, g.slot)
    BY <1>2 DEF Tried
  <2>2. g.asked \in Nat
    BY <2>1 DEF Arena
  <2>3. QED BY <1>1, <2>1, <2>2, SameHeldTwice
<1>6. Bytes(Live(h)) \in Nat /\ StringCapacity \in Nat
  <2>1. Closed(h.mem, h.used)
    BY <1>1 DEF Sound
  <2>2. QED BY <1>1, <2>1, LiveBytes, StringAssumption
<1>7. Live(e) = Live(h) \/ Live(e) = {}
  <2> DEFINE wants(sl) == {sl[s].want : s \in {q \in Slots : sl[q].region = "arena"}}
  <2>1. Live(e) = wants(e.slot) /\ Live(h) = wants(h.slot)
    BY <1>1, <1>2, <1>3, LiveWants
  <2>2. (\A s \in Slots : f.slot[s].region # "arena") \/ f.slot = h.slot
    BY DEF MadeText
  <2>3. CASE f.slot = h.slot
    <3>1. e.slot = h.slot
      BY <1>2, <2>3
    <3> HIDE DEF wants
    <3>2. QED BY <2>1, <3>1
  <2>4. CASE \A s \in Slots : f.slot[s].region # "arena"
    <3>1. {q \in Slots : e.slot[q].region = "arena"} = {}
      BY <1>2, <2>4
    <3>2. QED BY <2>1, <3>1
  <2>5. QED BY <2>2, <2>3, <2>4
<1>8. g.status = "ok" \/ (g.status = "pressure" /\ Bytes(Live(h)) + g.asked > StringCapacity)
  <2>1. g.status = "ok" \/ (g.status = "pressure" /\ Bytes(Live(e)) + g.asked > StringCapacity)
    BY DEF Tried
  <2>2. CASE Live(e) = Live(h)
    BY <2>1, <2>2
  <2>3. CASE Live(e) = {}
    <3>1. Bytes(Live(e)) = 0
      BY <2>3, NoBytes
    <3>2. QED BY <1>5, <1>6, <2>1, <3>1
  <2>4. QED BY <1>7, <2>2, <2>3
<1>9. QED BY <1>4, <1>5, <1>8 DEF Tried

LEMMA FailedWorks ==
  ASSUME StringInv, NEW h, Stage(h), NEW f, Tried(h, f), f.status # "ok", Becomes(f)
  PROVE  StringInv' /\ PressureIsFull
<1>1. f.status = "pressure" /\ f \in Arena /\ Bounded(f)
  BY DEF Tried
<1>2. Sound(f)
  BY <1>1 DEF Sound
<1>3. StringInv'
  BY <1>1, <1>2, BecomesGood
<1>4. slot' = f.slot /\ asked' = f.asked
  BY DEF Becomes
<1>5. QED BY <1>1, <1>3, <1>4, FailedIsFull DEF PressureIsFull

LEMMA SpoiltWorks ==
  ASSUME StringInv, NEW f \in Arena, Bounded(f), Becomes([f EXCEPT !.status = "spoilt"])
  PROVE  StringInv' /\ PressureIsFull
<1>1. PICK g : g = [f EXCEPT !.status = "spoilt"]
  OBVIOUS
<1>2. g \in Arena /\ g.status = "spoilt" /\ g.used = f.used /\ g.limit = f.limit
  BY <1>1 DEF Arena
<1>3. Becomes(g)
  BY <1>1
<1>4. Bounded(g) /\ Sound(g)
  BY <1>2 DEF Bounded, Sound
<1>5. StringInv'
  BY <1>2, <1>3, <1>4, BecomesGood
<1>6. status' # "pressure"
  BY <1>2, <1>3 DEF Becomes
<1>7. QED BY <1>5, <1>6 DEF PressureIsFull

LEMMA MakeNodeStep ==
  ASSUME StringInv, NEW a \in Slots, NEW b \in Slots, MakeNode(a, b)
  PROVE  StringInv' /\ PressureIsFull
<1>1. Readable(a) /\ Readable(b) /\ status = "ok"
  BY DEF MakeNode, Readable
<1>2. PICK h : h = Popped({a, b}) /\ Stage(h) /\ Ready(h) /\ h \in Arena
  BY <1>1, PoppedStage DEF Stage, Ready
<1>3. PICK kind \in Seq(Char) : kind = slot[a].want /\ Text(Now, slot[a]) = kind /\ Legible(h, slot[a])
  BY <1>1, <1>2, ReadableFacts
<1>4. PICK id \in Seq(Char) : /\ id = slot[b].want /\ Legible(h, slot[b]) /\ slot[b] \in Pointer
                              /\ slot[b].region \in {"program", "arena"}
  BY <1>1, <1>2, ReadableFacts
<1>5. PICK f : f = CopyString(h, slot[a], kind)
  OBVIOUS
<1>6. PICK e : e = [f EXCEPT !.compacted = FALSE]
  OBVIOUS
<1>7. PICK g : g = CopyString(e, slot[b], Text(f, slot[b]))
  OBVIOUS
<1>8. Becomes(IF f.status # "ok" THEN f
              ELSE IF ~ Intact(slot[b], f) THEN [f EXCEPT !.status = "spoilt"]
              ELSE IF g.status # "ok" THEN g
              ELSE [g EXCEPT !.slot[NodeKind] = IF g.compacted THEN Dangling ELSE Made(f, kind),
                             !.slot[NodeId] = Made(g, id)])
  BY <1>2, <1>3, <1>4, <1>5, <1>6, <1>7 DEF MakeNode
<1>9. MadeText(h, f, kind) /\ Tried(h, f) /\ f \in Arena /\ Bounded(f)
  <2>1. MadeText(h, f, kind)
    BY <1>2, <1>3, <1>5, CopyStringMakes
  <2>2. QED BY <2>1 DEF MadeText, Tried
<1>10. CASE f.status # "ok"
  <2>1. Becomes(f)
    BY <1>8, <1>10
  <2>2. QED BY <1>2, <1>9, <1>10, <2>1, FailedWorks
<1>11. CASE f.status = "ok" /\ ~ Intact(slot[b], f)
  <2>1. Becomes([f EXCEPT !.status = "spoilt"])
    BY <1>8, <1>11
  <2>2. QED BY <1>9, <2>1, SpoiltWorks
<1>12. CASE f.status = "ok" /\ Intact(slot[b], f)
  <2>1. /\ e \in Arena /\ e.mem = f.mem /\ e.used = f.used /\ e.limit = f.limit /\ e.slot = f.slot
        /\ e.status = "ok" /\ e.compacted = FALSE
    BY <1>6, <1>9, <1>12 DEF Arena
  <2>2. Sound(f) /\ HereAt(f.mem, f.used, f.out, kind) /\ f.used \in Nat
    BY <1>9, <1>12 DEF MadeText, Arena
  <2>3. Right(f.mem, f.used, slot[b])
    <3>1. CASE slot[b].region = "program"
      BY <1>4, <3>1 DEF Legible, Right
    <3>2. CASE slot[b].region # "program"
      <4>1. ~ f.compacted
        BY <1>12, <3>2 DEF Intact
      <4>2. h.used <= f.used /\ \A j \in 1 .. h.used : f.mem[j] = h.mem[j]
        BY <1>9, <1>12, <4>1 DEF MadeText
      <4>3. h.used \in Nat
        BY <1>2 DEF Arena
      <4>4. QED BY <1>4, <2>2, <4>2, <4>3, RightStays DEF Legible
    <3>3. QED BY <3>1, <3>2
  <2>4. Text(f, slot[b]) = id
    BY <1>4, <1>9, <2>3, ReadsRight
  <2>5. Ready(e)
    <3>1. Bounded(e)
      BY <1>9, <2>1 DEF Bounded
    <3>2. Sound(e)
      BY <1>12, <2>1, <2>2 DEF Sound
    <3>3. QED BY <2>1, <3>1, <3>2 DEF Ready
  <2>6. Legible(e, slot[b])
    BY <1>4, <2>1, <2>3 DEF Legible
  <2>7. MadeText(e, g, id)
    BY <1>4, <1>7, <2>4, <2>5, <2>6, CopyStringMakes
  <2>8. Tried(e, g) /\ g \in Arena /\ Bounded(g)
    BY <2>7 DEF MadeText, Tried
  <2>9. Tried(h, g)
    BY <1>2, <1>6, <1>9, <1>12, <2>8, SecondTries
  <2>10. CASE g.status # "ok"
    <3>1. Becomes(g)
      BY <1>8, <1>12, <2>10
    <3>2. QED BY <1>2, <2>9, <2>10, <3>1, FailedWorks
  <2>11. CASE g.status = "ok"
    <3>1. /\ Sound(g) /\ HereAt(g.mem, g.used, g.out, id) /\ g.slot \in [Slots -> Pointer] /\ g.used \in Nat
      BY <2>7, <2>8, <2>11 DEF MadeText, Arena
    <3>2. PICK p \in Pointer : p = (IF g.compacted THEN Dangling ELSE Made(f, kind)) /\ Right(g.mem, g.used, p)
      <4>1. CASE g.compacted
        <5>1. Dangling \in Pointer /\ Right(g.mem, g.used, Dangling)
          BY PointerFacts DEF Right
        <5>2. QED BY <4>1, <5>1
      <4>2. CASE ~ g.compacted
        <5>1. /\ Made(f, kind) \in Pointer /\ Made(f, kind).region = "arena"
              /\ Made(f, kind).at = f.out /\ Made(f, kind).want = kind
          BY <1>9, PointerFacts
        <5>2. Right(f.mem, f.used, Made(f, kind))
          BY <2>2, <5>1 DEF Right
        <5>3. f.used <= g.used /\ \A j \in 1 .. f.used : g.mem[j] = f.mem[j]
          BY <2>1, <2>7, <2>11, <4>2 DEF MadeText
        <5>4. Right(g.mem, g.used, Made(f, kind))
          BY <2>2, <3>1, <5>1, <5>2, <5>3, RightStays
        <5>5. QED BY <4>2, <5>1, <5>4
      <4>3. QED BY <4>1, <4>2
    <3>3. PICK q \in Pointer : q = Made(g, id) /\ Right(g.mem, g.used, q)
      <4>1. /\ Made(g, id) \in Pointer /\ Made(g, id).region = "arena"
            /\ Made(g, id).at = g.out /\ Made(g, id).want = id
        BY <2>8, PointerFacts
      <4>2. QED BY <3>1, <4>1 DEF Right
    <3>4. PICK sl : sl = [[g.slot EXCEPT ![NodeKind] = p] EXCEPT ![NodeId] = q]
      OBVIOUS
    <3>5. sl \in [Slots -> Pointer] /\ \A s \in Slots : sl[s] \in {p, q, g.slot[s]}
      BY <3>1, <3>4
    <3>6. PICK w : w = [g EXCEPT !.slot = sl]
      OBVIOUS
    <3>7. /\ w \in Arena /\ w.mem = g.mem /\ w.used = g.used /\ w.limit = g.limit /\ w.slot = sl
          /\ w.status = "ok"
      BY <2>8, <2>11, <3>5, <3>6 DEF Arena
    <3>8. [g EXCEPT !.slot[NodeKind] = IF g.compacted THEN Dangling ELSE Made(f, kind),
                    !.slot[NodeId] = Made(g, id)] = w
      BY <2>8, <3>2, <3>3, <3>4, <3>6 DEF Arena
    <3>9. Becomes(w)
      BY <1>8, <1>12, <2>11, <3>8
    <3>10. \A s \in Slots : Right(w.mem, w.used, w.slot[s])
      BY <2>11, <3>1, <3>2, <3>3, <3>5, <3>7 DEF Sound
    <3>11. Bounded(w) /\ Sound(w)
      BY <2>8, <2>11, <3>1, <3>7, <3>10 DEF Bounded, Sound
    <3>12. StringInv'
      BY <3>7, <3>9, <3>11, BecomesGood
    <3>13. status' # "pressure"
      BY <3>7, <3>9 DEF Becomes
    <3>14. QED BY <3>12, <3>13 DEF PressureIsFull
  <2>12. QED BY <2>10, <2>11
<1>13. QED BY <1>10, <1>11, <1>12

-----------------------------------------------------------------------------
(* Theorems.                                                                *)

LEMMA StringInitGood == StringInit => StringInv
<1>1. SUFFICES ASSUME StringInit PROVE StringInv
  OBVIOUS
<1>2. /\ StringCapacity \in Nat /\ InitialLimit \in Nat /\ InitialLimit <= StringCapacity
  BY StringAssumption
<1>3. mem \in [1 .. StringCapacity -> Cell]
  BY <1>1, CellFacts DEF StringInit
<1>4. slot \in [Slots -> Pointer] /\ \A s \in Slots : slot[s].region = "none"
  <2>1. slot = [s \in Slots |-> NoString]
    BY <1>1 DEF StringInit
  <2>2. \A s \in Slots : slot[s] = NoString
    BY <2>1
  <2>3. NoString \in Pointer /\ NoString.region = "none"
    BY PointerFacts
  <2>4. slot \in [Slots -> Pointer]
    BY <2>1, <2>3
  <2>5. \A s \in Slots : slot[s].region = "none"
    BY <2>2, <2>3
  <2>6. QED BY <2>4, <2>5
<1>5. Now \in Arena
  BY <1>1, <1>2, <1>3, <1>4 DEF Now, Arena, StringInit
<1>6. Bounded(Now)
  BY <1>1, <1>2, NowFields DEF Bounded, StringInit
<1>7. Sound(Now)
  <2>1. Closed(mem, used)
    BY <1>1 DEF Closed, StringInit
  <2>2. \A s \in Slots : Right(mem, used, slot[s])
    BY <1>4 DEF Right
  <2>3. QED BY <2>1, <2>2, NowFields DEF Sound
<1>8. QED BY <1>5, <1>6, <1>7 DEF StringInv

LEMMA StringNextGood == StringInv /\ [StringNext]_stringVars => StringInv' /\ PressureIsFull
<1>1. SUFFICES ASSUME StringInv, [StringNext]_stringVars PROVE StringInv' /\ PressureIsFull
  OBVIOUS
<1>2. CASE UNCHANGED stringVars
  <2>1. Now' = Now /\ status' = status
    BY <1>2 DEF Now, stringVars
  <2>2. StringInv'
    BY <1>1, <2>1 DEF StringInv, Bounded, Sound
  <2>3. QED BY <2>1, <2>2 DEF PressureIsFull
<1>3. CASE \E s \in Slots, text \in Texts : PushConst(s, text) \/ Materialize(s, text)
  BY <1>1, <1>3, PushConstStep, MaterializeStep
<1>4. CASE \E s \in Slots : Drop(s) \/ StrEscape(s) \/ ReadDangling(s)
  BY <1>1, <1>4, DropStep, StrEscapeStep, ReadDanglingStep
<1>5. CASE \E s, t \in Slots : CopyPointer(s, t) \/ StrConcat(s, t) \/ CopyOf(s, t) \/ MakeNode(s, t)
  BY <1>1, <1>5, CopyPointerStep, StrConcatStep, CopyOfStep, MakeNodeStep
<1>6. CASE \E s \in Slots, start \in Starts, length \in Lengths :
             StrSubstring(s, start, length) \/ StrRemove(s, start, length)
  BY <1>1, <1>6, StrSubstringStep, StrRemoveStep
<1>7. CASE Reset
  BY <1>1, <1>7, ResetStep
<1>8. QED BY <1>1, <1>2, <1>3, <1>4, <1>5, <1>6, <1>7 DEF StringNext

\* The arena is a row of terminated strings below its limit, and each slot that
\* points into it points at the text that the program computed.  A compaction
\* leaves no slot pointing into the arena; what an opcode makes stands at the
\* offset the allocation gave, above everything that was there.
THEOREM StringInvariant == StringSpec => []StringInv
<1>1. StringInit => StringInv
  BY StringInitGood
<1>2. StringInv /\ [StringNext]_stringVars => StringInv'
  BY StringNextGood
<1>3. QED BY <1>1, <1>2, PTL DEF StringSpec

LEMMA InvReadsRight == StringInv => StringsReadRight
<1>1. SUFFICES ASSUME StringInv, status = "ok", NEW s \in Slots, Readable(s)
               PROVE  Text(Now, slot[s]) = slot[s].want
  BY DEF StringsReadRight
<1>2. Stage(Now)
  BY <1>1, NowStage
<1>3. QED BY <1>1, <1>2, ReadableFacts

\* A string reads as what the program computed: what a concatenation, a
\* substring, a removal, an escape, a copy or a node makes, counted in runes, is
\* what can be read from its slot until the next compaction.
THEOREM EachStringReadsRight == StringSpec => []StringsReadRight
<1>1. StringInv => StringsReadRight
  BY InvReadsRight
<1>2. QED BY <1>1, StringInvariant, PTL

LEMMA InvEndsInside == StringInv => StringsEndInside
<1>1. SUFFICES ASSUME StringInv PROVE StringsEndInside
  OBVIOUS
<1>2. used <= limit /\ limit <= StringCapacity
  BY <1>1, TypeFacts
<1>3. status = "ok" /\ used > 0 => mem[used] = Nul
  BY <1>1, TypeFacts DEF Closed
<1>4. ASSUME status = "ok", NEW s \in Slots, slot[s].region = "arena"
      PROVE  slot[s].at + Len(slot[s].want) < used
  <2>1. Right(mem, used, slot[s])
    BY <1>1, <1>4, TypeFacts
  <2>2. QED BY <1>4, <2>1 DEF Right, HereAt
<1>5. QED BY <1>2, <1>3, <1>4 DEF StringsEndInside

\* The walks of lookup and compaction, and the reads of live strings, stay
\* inside the part of the array that is in use.
THEOREM EachStringEndsInside == StringSpec => []StringsEndInside
<1>1. StringInv => StringsEndInside
  BY InvEndsInside
<1>2. QED BY <1>1, StringInvariant, PTL

\* An opcode that fails for lack of string memory leaves live texts that, each
\* counted once, do not fit the array together with what it asked for: the
\* compaction that is tried first frees everything else.
THEOREM PressureOnlyWhenFull == StringSpec => StringPressureMeansFull
<1>1. StringInit => StringInv
  BY StringInitGood
<1>2. StringInv /\ [StringNext]_stringVars => StringInv'
  BY StringNextGood
<1>3. StringInv /\ [StringNext]_stringVars =>
        [status = "ok" /\ status' = "pressure" =>
           Bytes({TextAt(Now, slot[s].at) : s \in {q \in Slots : InArena(Now, slot[q]) /\ slot'[q].region # "none"}})
             + asked' > StringCapacity]_stringVars
  BY StringNextGood DEF PressureIsFull, LiveAfter
<1>4. QED BY <1>1, <1>2, <1>3, PTL DEF StringSpec, StringPressureMeansFull
=============================================================================
