--------------------------- MODULE BuildCacheProofs ---------------------------
(***************************************************************************)
(* Proofs about BuildCache.  An image that is written is read back as the   *)
(* program it was made of, and refused when it is cut short.  So, with one *)
(* airun at a time and sources that are edited between commands only, no   *)
(* crash, failed write, torn file or cleaned cache entry makes a command   *)
(* use or leave a wrong image.                                             *)
(***************************************************************************)
EXTENDS BuildCache, ProofLemmas, SequenceTheorems, TLAPS

-----------------------------------------------------------------------------
(* Writing an image.                                                        *)

LEMMA JoinedSteps ==
  ASSUME NEW parts \in Seq(Seq(Int))
  PROVE  /\ Joined(parts)[0] = <<>>
         /\ \A k \in 1 .. Len(parts) : Joined(parts)[k] = Joined(parts)[k - 1] \o parts[k]
         /\ \A k \in 0 .. Len(parts) : Joined(parts)[k] \in Seq(Int)
<1> DEFINE n == Len(parts)
           V == Seq(Int)
           T == [k \in 1 .. n |-> [v \in V |-> v \o parts[k]]]
<1>1. n \in Nat /\ <<>> \in V
  BY LenProperties, EmptySeq
<1>2. ASSUME NEW k \in 1 .. n PROVE parts[k] \in V
  BY ElementOfSeq
<1>3. T \in [1 .. n -> [V -> V]]
  <2>1. ASSUME NEW k \in 1 .. n, NEW v \in V PROVE v \o parts[k] \in V
    BY <1>2, ConcatProperties
  <2>2. QED BY <2>1
<1>4. PICK u : Recursion(u, n, V, <<>>, T)
  <2> HIDE DEF n, V, T
  <2>1. QED BY <1>1, <1>3, RecursionExists
<1>5. ASSUME NEW k \in 1 .. n PROVE u[k] = u[k - 1] \o parts[k]
  <2>1. u[k - 1] \in V /\ u[k] = T[k][u[k - 1]]
    <3> HIDE DEF n, V, T
    <3>1. k - 1 \in 0 .. n
      BY <1>1
    <3>2. QED BY <3>1, <1>4 DEF Recursion
  <2>2. QED BY <2>1
<1>6. u[0] = <<>> /\ u \in [0 .. n -> V]
  BY <1>4 DEF Recursion
<1> DEFINE Sol(f) == f = [k \in 0 .. Len(parts) |-> IF k = 0 THEN <<>> ELSE f[k - 1] \o parts[k]]
<1>7. Sol(u)
  <2>1. ASSUME NEW k \in 0 .. n, k # 0 PROVE u[k] = u[k - 1] \o parts[k]
    <3>1. k \in 1 .. n
      BY <2>1, <1>1
    <3>2. QED BY <3>1, <1>5
  <2>2. QED BY <1>6, <2>1
<1>8. Joined(parts) = CHOOSE f : Sol(f)
  BY DEF Joined
<1>9. PICK f : f = Joined(parts) /\ Sol(f)
  <2> HIDE DEF Sol
  <2>1. QED BY <1>7, <1>8
<1>10. f[0] = <<>> /\ \A k \in 1 .. n : f[k] = f[k - 1] \o parts[k]
  <2>1. f = [k \in 0 .. n |-> IF k = 0 THEN <<>> ELSE f[k - 1] \o parts[k]]
    BY <1>9
  <2> HIDE DEF n, Sol
  <2>2. f[0] = <<>>
    BY <1>1, <2>1
  <2>3. ASSUME NEW k \in 1 .. n PROVE f[k] = f[k - 1] \o parts[k]
    <3>1. k \in 0 .. n /\ k # 0
      BY <1>1
    <3>2. QED BY <2>1, <3>1
  <2>4. QED BY <2>2, <2>3
<1>11. \A k \in 0 .. n : f[k] \in V
  <2> DEFINE S == {k \in 0 .. n : f[k] \in V}
  <2>1. 0 \in S
    <3>1. f[0] \in V /\ 0 \in 0 .. n
      BY <1>1, <1>10
    <3>2. QED BY <3>1
  <2>2. ASSUME NEW k \in 1 .. n, k - 1 \in S PROVE k \in S
    <3>1. f[k - 1] \in V
      BY <2>2
    <3>2. f[k - 1] \o parts[k] \in V
      BY <3>1, <1>2, ConcatProperties
    <3>3. f[k] \in V
      <4> HIDE DEF V
      <4>1. QED BY <3>2, <1>10
    <3>4. k \in 0 .. n
      BY <1>1
    <3>5. QED BY <3>3, <3>4
  <2>3. \A k \in 0 .. n : k \in S
    <3> HIDE DEF S, n
    <3>1. QED BY <1>1, <2>1, <2>2, UpTo
  <2>4. QED BY <2>3
<1>12. QED BY <1>9, <1>10, <1>11

\* Each of the first j parts stands where the parts before it end.
PartsAt(cells, parts, f, a, j) ==
  /\ Len(cells) = f[j]
  /\ \A k \in 1 .. j : \A i \in 1 .. a[k] : cells[f[k - 1] + i] = parts[k][i]

LEMMA JoinedCells ==
  ASSUME NEW parts \in Seq(Seq(Int)), NEW n \in Nat, n = Len(parts),
         NEW a, \A k \in 1 .. n : a[k] = Len(parts[k]), NEW f, Total(f, a, n)
  PROVE  \A j \in 0 .. n : PartsAt(Joined(parts)[j], parts, f, a, j)
<1> DEFINE P(j) == /\ Len(Joined(parts)[j]) = f[j]
                   /\ \A k \in 1 .. j : \A i \in 1 .. a[k] : Joined(parts)[j][f[k - 1] + i] = parts[k][i]
           S == {j \in 0 .. n : P(j)}
<1>0. \A k \in 1 .. n : a[k] \in Nat
  <2>1. ASSUME NEW k \in 1 .. n PROVE a[k] \in Nat
    <3>1. parts[k] \in Seq(Int)
      BY ElementOfSeq
    <3>2. QED BY <3>1, LenProperties
  <2>2. QED BY <2>1
<1>1. 0 \in S
  <2>1. Joined(parts)[0] = <<>> /\ Len(<<>>) = 0 /\ f[0] = 0
    BY JoinedSteps, EmptySeq DEF Total
  <2>2. QED BY <2>1
<1>2. ASSUME NEW j \in 1 .. n, j - 1 \in S PROVE j \in S
  <2>1. P(j - 1) /\ j - 1 \in 0 .. n /\ j \in 0 .. n
    <3> HIDE DEF P
    <3>1. QED BY <1>2
  <2>2. PICK c \in Seq(Int) : c = Joined(parts)[j - 1]
    BY <2>1, JoinedSteps
  <2>3. PICK d \in Seq(Int) : d = parts[j]
    BY ElementOfSeq
  <2>4. Joined(parts)[j] = c \o d
    BY <2>2, <2>3, JoinedSteps
  <2>5. PICK x, y, s : x = f[j - 1] /\ y = f[j] /\ s = a[j]
    OBVIOUS
  <2>6. x \in Nat /\ s \in Nat /\ y = x + s /\ Len(c) = x /\ Len(d) = s
    BY <2>1, <2>2, <2>3, <2>5, <1>0 DEF Total
  <2>7. /\ Len(c \o d) = x + s
        /\ \A i \in 1 .. x + s : (c \o d)[i] = IF i <= x THEN c[i] ELSE d[i - x]
    <3>1. /\ Len(c \o d) = Len(c) + Len(d)
          /\ \A i \in 1 .. Len(c) + Len(d) : (c \o d)[i] = IF i <= Len(c) THEN c[i] ELSE d[i - Len(c)]
      BY ConcatProperties
    <3>2. QED BY <2>6, <3>1
  <2>8. ASSUME NEW k \in 1 .. j, NEW i \in 1 .. a[k] PROVE (c \o d)[f[k - 1] + i] = parts[k][i]
    <3>1. CASE k = j
      <4>1. PICK q : q = x + i
        OBVIOUS
      <4>2. (c \o d)[x + i] = d[i]
        <5>1. i \in 1 .. s
          BY <3>1, <2>5
        <5>2. q \in 1 .. x + s /\ ~ (q <= x) /\ q - x = i
          BY <4>1, <5>1, <2>6
        <5>3. (c \o d)[q] = d[q - x]
          BY <5>2, <2>7
        <5>4. QED BY <4>1, <5>2, <5>3
      <4>3. f[k - 1] = x /\ parts[k] = d
        BY <3>1, <2>3, <2>5
      <4>4. QED BY <4>2, <4>3
    <3>2. CASE k # j
      <4>1. k \in 1 .. j - 1 /\ k \in 0 .. n /\ k \in 1 .. n /\ j - 1 \in k .. n /\ k - 1 \in 0 .. n
        BY <3>2
      <4>2. c[f[k - 1] + i] = parts[k][i]
        BY <4>1, <2>1, <2>2
      <4>3. f[k] <= x
        BY <4>1, <1>0, <2>5, TotalGrows
      <4>4. PICK z, w : z = f[k - 1] /\ w = f[k]
        OBVIOUS
      <4>5. z \in Nat /\ w = z + a[k] /\ a[k] \in Nat /\ w <= x
        BY <4>1, <4>3, <4>4, <1>0 DEF Total
      <4>6. z + i \in 1 .. x + s /\ z + i <= x
        <5>1. PICK t \in Nat : t = a[k]
          BY <4>5
        <5>2. i \in 1 .. t /\ w = z + t /\ w <= x
          BY <4>5, <5>1
        <5>3. x \in Nat /\ s \in Nat /\ z \in Nat /\ i \in 1 .. t /\ z + t <= x
          BY <5>2, <4>5, <2>6
        <5>4. QED BY <5>3
      <4>7. QED BY <4>2, <4>4, <4>6, <2>7
    <3>3. QED BY <3>1, <3>2
  <2>9. P(j)
    BY <2>4, <2>5, <2>6, <2>7, <2>8
  <2>10. QED BY <2>1, <2>9
<1>3. \A j \in 0 .. n : j \in S
  <2> HIDE DEF S
  <2>1. QED BY <1>1, <1>2, UpTo
<1>4. QED BY <1>3 DEF PartsAt

\* Header, count and payload of a section.
LEMMA SectionCells ==
  ASSUME NEW type \in Int, NEW count \in Int, NEW payload \in Seq(Int), NEW n \in Nat, n = Len(payload)
  PROVE  LET s == Section(type, count, payload)
         IN  /\ s \in Seq(Int) /\ Len(s) = n + 3
             /\ s[1] = type /\ s[2] = n + 1 /\ s[3] = count
             /\ \A i \in 1 .. n : s[3 + i] = payload[i]
<1>1. PICK h : h = <<type, n + 1, count>>
  OBVIOUS
<1>2. h \in Seq(Int) /\ Len(h) = 3 /\ h[1] = type /\ h[2] = n + 1 /\ h[3] = count
  BY <1>1
<1>3. /\ h \o payload \in Seq(Int) /\ Len(h \o payload) = 3 + n
      /\ \A i \in 1 .. 3 + n : (h \o payload)[i] = IF i <= 3 THEN h[i] ELSE payload[i - 3]
  <2>1. /\ h \o payload \in Seq(Int) /\ Len(h \o payload) = Len(h) + Len(payload)
        /\ \A i \in 1 .. Len(h) + Len(payload) :
             (h \o payload)[i] = IF i <= Len(h) THEN h[i] ELSE payload[i - Len(h)]
    BY <1>2, ConcatProperties
  <2>2. QED BY <1>2, <2>1
<1>4. Section(type, count, payload) = h \o payload
  BY <1>1 DEF Section
<1>5. ASSUME NEW i \in 1 .. n PROVE (h \o payload)[3 + i] = payload[i]
  <2>1. 3 + i \in 1 .. 3 + n /\ ~ (3 + i <= 3) /\ 3 + i - 3 = i
    OBVIOUS
  <2>2. QED BY <2>1, <1>3
<1>6. \A i \in 1 .. 3 : i \in 1 .. 3 + n /\ i <= 3
  OBVIOUS
<1>7. QED BY <1>2, <1>3, <1>4, <1>5, <1>6

\* The payload of the instructions.
LEMMA CodeCells ==
  ASSUME NEW p, NEW m \in Nat, p.code \in Seq([op : Int, a : Int]), m = Len(p.code)
  PROVE  LET c == Joined(CodeParts(p))[m]
         IN  /\ c \in Seq(Int) /\ Len(c) = 2 * m
             /\ \A k \in 1 .. m : c[2 * k - 1] = p.code[k].op /\ c[2 * k] = p.code[k].a
<1> DEFINE parts == CodeParts(p)
<1>1. ASSUME NEW k \in 1 .. m
      PROVE  /\ parts[k] \in Seq(Int) /\ Len(parts[k]) = 2
             /\ parts[k][1] = p.code[k].op /\ parts[k][2] = p.code[k].a
  <2>1. p.code[k] \in [op : Int, a : Int]
    BY ElementOfSeq
  <2>2. parts[k] = <<p.code[k].op, p.code[k].a>>
    BY DEF CodeParts
  <2>3. PICK x \in Int, y \in Int : x = p.code[k].op /\ y = p.code[k].a
    BY <2>1
  <2>4. QED BY <2>2, <2>3
<1>2. parts \in Seq(Seq(Int)) /\ Len(parts) = m
  <2>1. parts \in [1 .. m -> Seq(Int)]
    BY <1>1 DEF CodeParts
  <2>2. parts \in Seq(Seq(Int))
    BY <2>1, SeqDef
  <2>3. Len(parts) = m
    <3>1. DOMAIN parts = 1 .. Len(parts) /\ Len(parts) \in Nat
      BY <2>2, LenProperties
    <3> HIDE DEF parts
    <3>2. QED BY <3>1, <2>1
  <2>4. QED BY <2>2, <2>3
<1> DEFINE aa == [k \in 1 .. m |-> 2]
           ff == [k \in 0 .. m |-> 2 * k]
<1>3. PICK a, f : a = aa /\ f = ff
  OBVIOUS
<1>4. /\ \A k \in 1 .. m : a[k] = 2 /\ f[k - 1] = 2 * (k - 1)
      /\ f[m] = 2 * m /\ Total(f, a, m)
  <2>1. ff \in [0 .. m -> Nat] /\ ff[0] = 0 /\ ff[m] = 2 * m
    OBVIOUS
  <2>2. ASSUME NEW k \in 1 .. m PROVE ff[k] = ff[k - 1] + aa[k] /\ aa[k] = 2 /\ ff[k - 1] = 2 * (k - 1)
    <3>1. k \in 0 .. m /\ k - 1 \in 0 .. m /\ 2 * k = 2 * (k - 1) + 2
      OBVIOUS
    <3>2. QED BY <3>1
  <2> HIDE DEF aa, ff
  <2>3. QED BY <2>1, <2>2, <1>3 DEF Total
<1> HIDE DEF aa, ff, parts
<1>5. m \in 0 .. m
  OBVIOUS
<1>6. PICK c : c = Joined(parts)[m]
  OBVIOUS
<1>7. c \in Seq(Int)
  BY <1>2, <1>5, <1>6, JoinedSteps
<1>8. Len(c) = f[m] /\ \A k \in 1 .. m : \A i \in 1 .. a[k] : c[f[k - 1] + i] = parts[k][i]
  <2>1. \A k \in 1 .. m : a[k] = Len(parts[k])
    BY <1>1, <1>4
  <2>2. PICK ps \in Seq(Seq(Int)) : ps = parts /\ m = Len(ps)
    BY <1>2
  <2>3. \A k \in 1 .. m : a[k] = Len(ps[k])
    BY <2>1, <2>2
  <2>4. Total(f, a, m)
    BY <1>4
  <2>5. \A j \in 0 .. m : PartsAt(Joined(ps)[j], ps, f, a, j)
    BY <2>2, <2>3, <2>4, JoinedCells
  <2>6. PartsAt(c, parts, f, a, m)
    BY <1>5, <1>6, <2>2, <2>5
  <2>7. QED BY <2>6 DEF PartsAt
<1>9. ASSUME NEW k \in 1 .. m PROVE c[2 * k - 1] = p.code[k].op /\ c[2 * k] = p.code[k].a
  <2>1. f[k - 1] = 2 * (k - 1) /\ a[k] = 2
    BY <1>4
  <2>2. 2 * (k - 1) + 1 = 2 * k - 1 /\ 2 * (k - 1) + 2 = 2 * k /\ 1 \in 1 .. 2 /\ 2 \in 1 .. 2
    OBVIOUS
  <2>3. c[f[k - 1] + 1] = parts[k][1] /\ c[f[k - 1] + 2] = parts[k][2]
    BY <1>8, <2>1, <2>2
  <2>4. QED BY <2>1, <2>2, <2>3, <1>1
<1>10. Len(c) = 2 * m
  BY <1>4, <1>8
<1> USE DEF parts
<1>11. QED BY <1>6, <1>7, <1>9, <1>10

Constant == [kind : KInt .. KNull, data : Seq(Int)]
DataFits(c) == c.kind \notin {KString, KBytes} => Len(c.data) = IF c.kind \in {KInt, KBool} THEN 1 ELSE 0

\* The cells of a constant.
LEMMA ConstantCells ==
  ASSUME NEW c \in Constant, DataFits(c), NEW n \in Nat, n = Len(c.data)
  PROVE  LET e == EncodeConstant(c)
         IN  /\ e \in Seq(Int) /\ e[1] = c.kind
             /\ c.kind \in {KInt, KBool} => n = 1 /\ Len(e) = 2 /\ e[2] = c.data[1]
             /\ c.kind \in {KString, KBytes} => Len(e) = n + 2 /\ e[2] = n /\ \A i \in 1 .. n : e[2 + i] = c.data[i]
             /\ c.kind \in {KVoid, KNull} => n = 0 /\ Len(e) = 1
<1> USE DEF KInt, KBool, KString, KVoid, KBytes, KNull
<1>1. PICK x, d : x = c.kind /\ d = c.data
  OBVIOUS
<1>2. x \in 1 .. 6 /\ d \in Seq(Int) /\ n = Len(d)
  BY <1>1 DEF Constant
<1>3. PICK e : e = EncodeConstant(c)
  OBVIOUS
<1>4. CASE x \in {KInt, KBool}
  <2>1. n = 1
    BY <1>1, <1>2, <1>4 DEF DataFits
  <2>2. PICK h : h = <<x>>
    OBVIOUS
  <2>3. e = h \o d
    <3>1. c.kind \in {KInt, KBool}
      BY <1>1, <1>4
    <3>2. EncodeConstant(c) = <<c.kind>> \o c.data
      BY ONLY <3>1 DEF EncodeConstant, KInt, KBool, KString, KBytes, KNull
    <3>3. QED BY ONLY <1>1, <1>3, <2>2, <3>2
  <2>4. h \in Seq(Int) /\ Len(h) = 1 /\ h[1] = x
    BY <1>2, <2>2
  <2>5. /\ h \o d \in Seq(Int) /\ Len(h \o d) = Len(h) + Len(d)
        /\ \A i \in 1 .. Len(h) + Len(d) : (h \o d)[i] = IF i <= Len(h) THEN h[i] ELSE d[i - Len(h)]
    BY <2>4, <1>2, ConcatProperties
  <2>6. /\ h \o d \in Seq(Int) /\ Len(h \o d) = 1 + 1
        /\ \A i \in 1 .. 1 + 1 : (h \o d)[i] = IF i <= 1 THEN h[i] ELSE d[i - 1]
    BY ONLY <2>1, <2>4, <2>5, <1>2
  <2>7. e[1] = x /\ e[2] = d[1]
    BY <2>3, <2>4, <2>6
  <2>8. e \in Seq(Int) /\ Len(e) = 2
    BY ONLY <2>3, <2>6
  <2>9. x \notin {KString, KBytes} /\ x \notin {KVoid, KNull}
    BY ONLY <1>4 DEF KInt, KBool, KString, KVoid, KBytes, KNull
  <2>10. QED BY ONLY <1>1, <1>3, <2>1, <2>7, <2>8, <2>9
<1>5. CASE x \in {KString, KBytes}
  <2>1. PICK h : h = <<x, n>>
    OBVIOUS
  <2>2. e = h \o d
    BY <1>1, <1>2, <1>3, <1>5, <2>1 DEF EncodeConstant
  <2>3. h \in Seq(Int) /\ Len(h) = 2 /\ h[1] = x /\ h[2] = n
    BY <1>2, <2>1
  <2>4. /\ h \o d \in Seq(Int) /\ Len(h \o d) = 2 + n
        /\ \A i \in 1 .. 2 + n : (h \o d)[i] = IF i <= 2 THEN h[i] ELSE d[i - 2]
    <3>1. /\ h \o d \in Seq(Int) /\ Len(h \o d) = Len(h) + Len(d)
          /\ \A i \in 1 .. Len(h) + Len(d) : (h \o d)[i] = IF i <= Len(h) THEN h[i] ELSE d[i - Len(h)]
      BY <2>3, <1>2, ConcatProperties
    <3>2. QED BY <2>3, <1>2, <3>1
  <2>5. e[1] = x /\ e[2] = n
    BY <2>2, <2>3, <2>4
  <2>6. ASSUME NEW i \in 1 .. n PROVE e[2 + i] = d[i]
    <3>1. 2 + i \in 1 .. 2 + n /\ ~ (2 + i <= 2) /\ 2 + i - 2 = i
      OBVIOUS
    <3>2. QED BY <3>1, <2>2, <2>4
  <2>7. QED BY <1>1, <1>3, <1>5, <2>2, <2>4, <2>5, <2>6
<1>6. CASE x \in {KVoid, KNull}
  <2>1. n = 0
    BY <1>1, <1>2, <1>6 DEF DataFits
  <2>2. e = <<x>>
    BY <1>1, <1>3, <1>6 DEF EncodeConstant
  <2>3. e \in Seq(Int) /\ Len(e) = 1 /\ e[1] = x
    BY <1>2, <2>2
  <2>4. QED BY <1>1, <1>3, <1>6, <2>1, <2>3
<1>7. QED BY <1>2, <1>4, <1>5, <1>6

\* The payload of the constants.
LEMMA ConstantPartsType ==
  ASSUME NEW p, NEW n \in Nat, p.consts \in Seq(Constant), n = Len(p.consts),
         \A k \in 1 .. n : DataFits(p.consts[k])
  PROVE  /\ ConstantParts(p) \in Seq(Seq(Int)) /\ Len(ConstantParts(p)) = n
         /\ \A k \in 1 .. n : /\ ConstantParts(p)[k] = EncodeConstant(p.consts[k])
                              /\ Len(ConstantParts(p)[k]) \in Nat \ {0}
<1> DEFINE parts == ConstantParts(p)
<1>1. ASSUME NEW k \in 1 .. n
      PROVE  parts[k] = EncodeConstant(p.consts[k]) /\ parts[k] \in Seq(Int) /\ Len(parts[k]) \in Nat \ {0}
  <2>1. PICK c \in Constant : c = p.consts[k]
    BY ElementOfSeq
  <2>2. DataFits(c) /\ c.data \in Seq(Int) /\ c.kind \in KInt .. KNull
    BY <2>1 DEF Constant
  <2>3. PICK d \in Nat : d = Len(c.data)
    BY <2>2, LenProperties
  <2>4. PICK e : e = EncodeConstant(c)
    OBVIOUS
  <2>5. /\ e \in Seq(Int)
        /\ c.kind \in {KInt, KBool} => Len(e) = 2
        /\ c.kind \in {KString, KBytes} => Len(e) = d + 2
        /\ c.kind \in {KVoid, KNull} => Len(e) = 1
    BY <2>2, <2>3, <2>4, ConstantCells
  <2>6. Len(e) \in Nat \ {0}
    <3>1. PICK x : x = c.kind
      OBVIOUS
    <3>2. x \in 1 .. 6
      BY <2>2, <3>1 DEF KInt, KNull
    <3>3. x \in {KInt, KBool} \/ x \in {KString, KBytes} \/ x \in {KVoid, KNull}
      BY <3>2 DEF KInt, KBool, KString, KVoid, KBytes, KNull
    <3>4. Len(e) = 2 \/ Len(e) = d + 2 \/ Len(e) = 1
      BY <2>5, <3>1, <3>3
    <3>5. PICK y : y = Len(e)
      OBVIOUS
    <3>6. y = 2 \/ y = d + 2 \/ y = 1
      BY <3>4, <3>5
    <3>7. y \in Nat \ {0}
      BY <3>6
    <3>8. QED BY <3>5, <3>7
  <2>7. parts[k] = EncodeConstant(p.consts[k])
    BY DEF ConstantParts
  <2>8. QED BY <2>1, <2>4, <2>5, <2>6, <2>7
<1>2. parts \in [1 .. n -> Seq(Int)]
  BY <1>1 DEF ConstantParts
<1>3. parts \in Seq(Seq(Int))
  BY <1>2, SeqDef
<1>4. Len(parts) = n
  <2>1. DOMAIN parts = 1 .. Len(parts) /\ Len(parts) \in Nat
    BY <1>3, LenProperties
  <2> HIDE DEF parts
  <2>2. QED BY <2>1, <1>2
<1>5. QED BY <1>1, <1>3, <1>4

\* What a constant takes in the storage of a kind.
SizeIn(c, kind, extra) == IF c.kind = kind THEN Len(c.data) + extra ELSE 0

LEMMA StorageIsTotal ==
  ASSUME NEW consts \in Seq(Constant), NEW kind, NEW extra \in Nat, NEW n \in Nat, n = Len(consts),
         NEW a, \A k \in 1 .. n : a[k] = SizeIn(consts[k], kind, extra)
  PROVE  /\ \A k \in 1 .. n : a[k] \in Nat
         /\ Total(Storage(consts, kind, extra), a, n)
<1>1. ASSUME NEW k \in 1 .. n PROVE a[k] \in Nat
  <2>1. PICK c \in Constant : c = consts[k]
    BY ElementOfSeq
  <2>2. c.data \in Seq(Int)
    BY DEF Constant
  <2>3. Len(c.data) \in Nat
    BY <2>2, LenProperties
  <2>4. QED BY <2>1, <2>3 DEF SizeIn
<1> DEFINE Sol(t) == t = [k \in 0 .. Len(consts) |->
                            IF k = 0 THEN 0
                            ELSE t[k - 1] + (IF consts[k].kind = kind THEN Len(consts[k].data) + extra ELSE 0)]
           Sum(t) == t = [k \in 0 .. n |-> IF k = 0 THEN 0 ELSE t[k - 1] + a[k]]
<1>2. ASSUME NEW t PROVE Sol(t) <=> Sum(t)
  <2>1. ASSUME NEW k \in 0 .. n, k # 0
        PROVE  a[k] = IF consts[k].kind = kind THEN Len(consts[k].data) + extra ELSE 0
    <3>1. k \in 1 .. n
      BY <2>1
    <3>2. QED BY <3>1 DEF SizeIn
  <2>2. QED BY <2>1
<1>3. Storage(consts, kind, extra) = CHOOSE t : Sol(t)
  BY DEF Storage
<1>4. (\E t : Sum(t)) /\ \A t : Sum(t) => Total(t, a, n)
  BY <1>1, SumIsTotal
<1> HIDE DEF Sol, Sum
<1>5. \E t : Sol(t)
  BY <1>2, <1>4
<1>6. Sol(Storage(consts, kind, extra))
  BY <1>3, <1>5
<1>7. QED BY <1>1, <1>2, <1>4, <1>6

-----------------------------------------------------------------------------
(* Reading it back.                                                         *)

\* The loader, nothing refused so far.
State(image, at, code, consts, seen, strings, bytes) ==
  [status |-> "OK", at |-> at, image |-> image, code |-> code, consts |-> consts, seen |-> seen,
   strings |-> strings, bytes |-> bytes]

\* The image has the n cells of a constant from position a on, before end; and
\* there is storage for it.
StandsAt(image, a, n, c, end) ==
  /\ n = Len(EncodeConstant(c)) /\ a + n <= end /\ end <= Len(image)
  /\ \A i \in 1 .. n : image[a + i] = EncodeConstant(c)[i]
HasRoom(c, strings, bytes) ==
  /\ strings + SizeIn(c, KString, 1) <= MaxStringBytes
  /\ bytes + SizeIn(c, KBytes, 0) <= MaxBytesStorage

\* A constant is read back, and the cursor moves behind it.
LEMMA OneConstant ==
  ASSUME NEW image \in Seq(Int), NEW a \in Nat, NEW n \in Nat, NEW c \in Constant, DataFits(c),
         NEW end \in Nat, StandsAt(image, a, n, c, end),
         NEW code, NEW consts \in Seq(Constant), NEW seen, NEW strings \in Nat, NEW bytes \in Nat,
         HasRoom(c, strings, bytes)
  PROVE  NextConstant(State(image, a, code, consts, seen, strings, bytes), end) =
           State(image, a + n, code, Append(consts, c), seen,
                 strings + SizeIn(c, KString, 1), bytes + SizeIn(c, KBytes, 0))
<1>1. PICK x, d : x = c.kind /\ d = c.data
  OBVIOUS
<1>2. x \in 1 .. 6 /\ d \in Seq(Int) /\ c = [kind |-> x, data |-> d]
  BY <1>1 DEF Constant, KInt, KNull
<1>3. PICK m \in Nat : m = Len(d)
  BY <1>2, LenProperties
<1>18. PICK e : e = EncodeConstant(c)
  OBVIOUS
<1>19. n = Len(e) /\ a + n <= end /\ end <= Len(image) /\ \A i \in 1 .. n : image[a + i] = e[i]
  BY <1>18 DEF StandsAt
<1>4. /\ e \in Seq(Int) /\ e[1] = x
      /\ x \in {KInt, KBool} => m = 1 /\ Len(e) = 2 /\ e[2] = d[1]
      /\ x \in {KString, KBytes} => Len(e) = m + 2 /\ e[2] = m /\ \A i \in 1 .. m : e[2 + i] = d[i]
      /\ x \in {KVoid, KNull} => m = 0 /\ Len(e) = 1
  BY <1>1, <1>3, <1>18, ConstantCells
<1>5. n >= 1 /\ image[a + 1] = x
  <2>1. n >= 1
    BY <1>2, <1>4, <1>19 DEF KInt, KBool, KString, KVoid, KBytes, KNull
  <2>2. QED BY <2>1, <1>4, <1>19
<1>6. PICK h : h = State(image, a + 1, code, consts, seen, strings, bytes)
  OBVIOUS
<1>7. /\ h.at = a + 1 /\ h.image = image /\ h.consts = consts /\ h.strings = strings /\ h.bytes = bytes
      /\ h = [status |-> "OK", at |-> a + 1, image |-> image, code |-> code, consts |-> consts,
              seen |-> seen, strings |-> strings, bytes |-> bytes]
  BY <1>6 DEF State
<1>8. NextConstant(State(image, a, code, consts, seen, strings, bytes), end) = LoadConstant(h, x, end)
  <2>1. PICK s : s = State(image, a, code, consts, seen, strings, bytes)
    OBVIOUS
  <2>2. s.status = "OK" /\ s.at = a /\ s.image = image /\ [s EXCEPT !.at = @ + 1] = h
    <3>1. s = [status |-> "OK", at |-> a, image |-> image, code |-> code, consts |-> consts,
               seen |-> seen, strings |-> strings, bytes |-> bytes]
      BY <2>1 DEF State
    <3>2. PICK g : g = [s EXCEPT !.at = @ + 1]
      OBVIOUS
    <3>3. g = [s EXCEPT !.at = a + 1]
      BY <3>1, <3>2
    <3>4. g = [status |-> "OK", at |-> a + 1, image |-> image, code |-> code, consts |-> consts,
               seen |-> seen, strings |-> strings, bytes |-> bytes]
      BY <3>1, <3>3
    <3>5. g = h
      BY <3>4, <1>7
    <3>6. QED BY <3>1, <3>2, <3>5
  <2>3. ~ (a >= end)
    BY <1>5, <1>19
  <2>4. Cell(s, s.at) = x
    BY <2>2, <1>5 DEF Cell
  <2>5. QED BY <2>1, <2>2, <2>3, <2>4 DEF NextConstant
\* A constant stored from the cells behind the cursor.
<1> DEFINE Stored(k, at, at2, s, b) ==
             State(image, at2, code, Append(consts, [kind |-> k, data |-> SubSeq(image, at + 1, at2)]), seen, s, b)
<1>9. ASSUME NEW k, NEW w \in Nat, NEW at \in Nat
      PROVE  StoreConstant(h, k, w, at) = Stored(k, at, at + w, strings, bytes)
  <2>1. PICK cs : cs = Append(consts, [kind |-> k, data |-> SubSeq(image, at + 1, at + w)])
    OBVIOUS
  <2>2. StoreConstant(h, k, w, at) = [h EXCEPT !.at = at + w, !.consts = cs]
    BY <2>1, <1>7 DEF StoreConstant
  <2>3. PICK y, g : y = at + w /\ g = [h EXCEPT !.at = y, !.consts = cs]
    OBVIOUS
  <2>4. g = [status |-> "OK", at |-> y, image |-> image, code |-> code, consts |-> cs,
             seen |-> seen, strings |-> strings, bytes |-> bytes]
    <3>1. PICK z : z = a + 1
      OBVIOUS
    <3>2. h = [status |-> "OK", at |-> z, image |-> image, code |-> code, consts |-> consts,
               seen |-> seen, strings |-> strings, bytes |-> bytes]
      BY <1>7, <3>1
    <3>3. g = [h EXCEPT !.at = y, !.consts = cs]
      BY <2>3
    <3>4. QED BY <3>2, <3>3
  <2>5. g = State(image, y, code, cs, seen, strings, bytes)
    BY <2>4 DEF State
  <2>6. QED BY <2>1, <2>2, <2>3, <2>5
<1>10. ASSUME NEW at \in Nat, at + m <= a + n, NEW w, w = SubSeq(image, at + 1, at + m),
              \A i \in 1 .. m : image[at + i] = d[i]
       PROVE  w = d
  <2>1. ASSUME NEW i \in at + 1 .. at + m PROVE image[i] \in Int
    <3>1. i - at \in 1 .. m /\ at + (i - at) = i
      OBVIOUS
    <3>2. d[i - at] \in Int
      BY <3>1, <1>2, <1>3, ElementOfSeq
    <3>3. image[at + (i - at)] = d[i - at]
      BY <3>1, <1>10
    <3>4. QED BY <3>1, <3>2, <3>3
  <2>2. PICK lo \in Int, hi \in Int : lo = at + 1 /\ hi = at + m
    OBVIOUS
  <2>3. \A i \in lo .. hi : image[i] \in Int
    BY <2>1, <2>2
  <2>4. /\ SubSeq(image, lo, hi) \in Seq(Int)
        /\ Len(SubSeq(image, lo, hi)) = IF lo <= hi THEN hi - lo + 1 ELSE 0
        /\ \A i \in 1 .. hi - lo + 1 : SubSeq(image, lo, hi)[i] = image[lo + i - 1]
    BY ONLY <2>3, lo \in Int, hi \in Int, SubSeqProperties
  <2>5. w \in Seq(Int) /\ Len(w) = m
    BY <1>10, <2>2, <2>4
  <2>6. ASSUME NEW i \in 1 .. m PROVE w[i] = d[i]
    <3>1. i \in 1 .. hi - lo + 1 /\ lo + i - 1 = at + i
      <4>1. hi - lo + 1 = m
        BY <2>2
      <4>2. QED BY <4>1, <2>2
    <3>2. w[i] = image[lo + i - 1]
      BY <1>10, <2>2, <2>4, <3>1
    <3>3. image[at + i] = d[i]
      BY <1>10
    <3>4. QED BY <3>1, <3>2, <3>3
  <2>7. QED BY <2>5, <2>6, <1>2, <1>3, SeqEqual
<1> DEFINE goal == State(image, a + n, code, Append(consts, c), seen,
                         strings + SizeIn(c, KString, 1), bytes + SizeIn(c, KBytes, 0))
<1> SUFFICES LoadConstant(h, x, end) = goal
  BY <1>8
<1>11. x \in {KInt, KBool, KString, KVoid, KBytes, KNull}
  BY <1>2 DEF KInt, KBool, KString, KVoid, KBytes, KNull
<1>12. CASE x \in {KInt, KBool}
  <2>1. n = 2 /\ m = 1 /\ e[2] = d[1] /\ x \notin {KString, KBytes}
    <3>1. m = 1 /\ Len(e) = 2 /\ e[2] = d[1]
      BY <1>4, <1>12
    <3>2. x \notin {KString, KBytes}
      BY <1>12 DEF KInt, KBool, KString, KBytes
    <3>3. QED BY <3>1, <3>2, <1>19
  <2>2. LoadConstant(h, x, end) = StoreConstant(h, x, 1, h.at)
    <3>1. ~ (h.at + 1 > end)
      BY <1>7, <1>19, <2>1
    <3>2. QED BY <3>1, <1>11, <1>12, <2>1 DEF LoadConstant, KInt, KBool, KString, KVoid, KBytes, KNull
  <2>3. StoreConstant(h, x, 1, h.at) = Stored(x, a + 1, (a + 1) + 1, strings, bytes)
    <3>1. a + 1 \in Nat /\ 1 \in Nat
      OBVIOUS
    <3> HIDE DEF Stored
    <3>2. StoreConstant(h, x, 1, a + 1) = Stored(x, a + 1, (a + 1) + 1, strings, bytes)
      BY <3>1, <1>9
    <3>3. QED BY <3>2, <1>7
  <2>4. SubSeq(image, (a + 1) + 1, (a + 1) + m) = d
    <3>1. ASSUME NEW i \in 1 .. m PROVE image[(a + 1) + i] = d[i]
      <4>1. i = 1 /\ (a + 1) + i = a + 2 /\ 2 \in 1 .. n
        BY <2>1
      <4>2. image[a + 2] = e[2]
        BY <4>1, <1>19
      <4>3. QED BY <4>1, <4>2, <2>1
    <3>2. a + 1 \in Nat /\ (a + 1) + m <= a + n
      BY <2>1
    <3>3. QED BY <3>1, <3>2, <1>10
  <2>5. (a + 1) + 1 = a + n /\ (a + 1) + m = a + n
    BY <2>1
  <2>6. Stored(x, a + 1, a + n, strings, bytes) = State(image, a + n, code, Append(consts, c), seen, strings, bytes)
    BY <1>2, <2>4, <2>5
  <2>7. SizeIn(c, KString, 1) = 0 /\ SizeIn(c, KBytes, 0) = 0
    BY <1>1, <2>1 DEF SizeIn
  <2>8. strings + 0 = strings /\ bytes + 0 = bytes
    OBVIOUS
  <2> HIDE DEF Stored
  <2>9. QED BY <2>2, <2>3, <2>5, <2>6, <2>7, <2>8
<1>13. CASE x \in {KVoid, KNull}
  <2>1. n = 1 /\ m = 0 /\ x \notin {KString, KBytes, KInt, KBool}
    <3>1. m = 0 /\ Len(e) = 1
      BY <1>4, <1>13
    <3>2. x \notin {KString, KBytes, KInt, KBool}
      BY <1>13 DEF KInt, KBool, KString, KVoid, KBytes, KNull
    <3>3. QED BY <3>1, <3>2, <1>19
  <2>2. LoadConstant(h, x, end) = StoreConstant(h, x, 0, h.at)
    BY <1>11, <2>1 DEF LoadConstant
  <2>3. StoreConstant(h, x, 0, h.at) = Stored(x, a + 1, (a + 1) + 0, strings, bytes)
    <3>1. a + 1 \in Nat /\ 0 \in Nat
      OBVIOUS
    <3> HIDE DEF Stored
    <3>2. StoreConstant(h, x, 0, a + 1) = Stored(x, a + 1, (a + 1) + 0, strings, bytes)
      BY <3>1, <1>9
    <3>3. QED BY <3>2, <1>7
  <2>4. SubSeq(image, (a + 1) + 1, (a + 1) + m) = d
    <3>1. \A i \in 1 .. m : image[(a + 1) + i] = d[i]
      BY <2>1
    <3>2. a + 1 \in Nat /\ (a + 1) + m <= a + n
      BY <2>1
    <3>3. QED BY <3>1, <3>2, <1>10
  <2>5. (a + 1) + 0 = a + n /\ (a + 1) + m = a + n
    BY <2>1
  <2>6. Stored(x, a + 1, a + n, strings, bytes) = State(image, a + n, code, Append(consts, c), seen, strings, bytes)
    BY <1>2, <2>4, <2>5
  <2>7. SizeIn(c, KString, 1) = 0 /\ SizeIn(c, KBytes, 0) = 0
    BY <1>1, <2>1 DEF SizeIn
  <2>8. strings + 0 = strings /\ bytes + 0 = bytes
    OBVIOUS
  <2> HIDE DEF Stored
  <2>9. QED BY <2>2, <2>3, <2>5, <2>6, <2>7, <2>8
<1>14. ASSUME x \in {KString, KBytes}
       PROVE  /\ n = m + 2 /\ Cell(h, h.at) = m
              /\ ~ (h.at + 1 > end) /\ ~ (h.at + 1 + Cell(h, h.at) > end)
              /\ \A k : StoreConstant(h, k, m, h.at + 1) =
                          State(image, a + n, code, Append(consts, [kind |-> k, data |-> d]), seen, strings, bytes)
  <2>1. n = m + 2 /\ e[2] = m /\ \A i \in 1 .. m : e[2 + i] = d[i]
    BY <1>4, <1>14, <1>19
  <2>2. Cell(h, h.at) = m
    <3>1. 2 \in 1 .. n /\ (a + 1) + 1 = a + 2
      BY <2>1
    <3>2. image[a + 2] = m
      BY <3>1, <2>1, <1>19
    <3>3. QED BY <3>1, <3>2, <1>7 DEF Cell
  <2>3. ~ (h.at + 1 > end) /\ ~ (h.at + 1 + m > end)
    BY <2>1, <1>7, <1>19
  <2>4. SubSeq(image, (a + 2) + 1, (a + 2) + m) = d
    <3>1. ASSUME NEW i \in 1 .. m PROVE image[(a + 2) + i] = d[i]
      <4>1. 2 + i \in 1 .. n /\ a + (2 + i) = (a + 2) + i
        BY <2>1
      <4>2. image[a + (2 + i)] = e[2 + i]
        BY <4>1, <1>19
      <4>3. QED BY <4>1, <4>2, <2>1
    <3>2. a + 2 \in Nat /\ (a + 2) + m <= a + n
      BY <2>1
    <3>3. QED BY <3>1, <3>2, <1>10
  <2>5. (a + 2) + m = a + n /\ h.at + 1 = a + 2 /\ a + 2 \in Nat
    BY <2>1, <1>7
  <2>6. ASSUME NEW k
        PROVE  StoreConstant(h, k, m, h.at + 1) =
                 State(image, a + n, code, Append(consts, [kind |-> k, data |-> d]), seen, strings, bytes)
    <3>1. StoreConstant(h, k, m, a + 2) = Stored(k, a + 2, (a + 2) + m, strings, bytes)
      <4> HIDE DEF Stored
      <4>1. QED BY <2>5, <1>9
    <3>2. QED BY <3>1, <2>4, <2>5
  <2>7. QED BY <2>1, <2>2, <2>3, <2>6
<1>15. CASE x = KString
  <2>1. /\ n = m + 2 /\ Cell(h, h.at) = m
        /\ ~ (h.at + 1 > end) /\ ~ (h.at + 1 + Cell(h, h.at) > end)
        /\ StoreConstant(h, KString, m, h.at + 1) = State(image, a + n, code, Append(consts, c), seen, strings, bytes)
    BY <1>2, <1>14, <1>15
  <2>2. LoadConstant(h, x, end) = StoreString(h, m)
    BY <1>11, <1>15, <2>1 DEF LoadConstant, KInt, KBool, KString, KVoid, KBytes, KNull
  <2>3. SizeIn(c, KString, 1) = m + 1 /\ SizeIn(c, KBytes, 0) = 0
    BY <1>1, <1>3, <1>15 DEF SizeIn, KString, KBytes
  <2>4. strings + m + 1 = strings + (m + 1) /\ ~ (strings + m + 1 > MaxStringBytes) /\ bytes + 0 = bytes
    <3>1. PICK l \in Nat : l = MaxStringBytes
      BY ImageAssumption
    <3>2. strings + (m + 1) <= l
      BY <2>3, <3>1 DEF HasRoom
    <3>3. strings + m + 1 = strings + (m + 1) /\ ~ (strings + m + 1 > l) /\ bytes + 0 = bytes
      BY ONLY <3>2, m \in Nat, l \in Nat, strings \in Nat, bytes \in Nat
    <3>4. QED BY ONLY <3>1, <3>3
  <2>5. PICK g : g = State(image, a + n, code, Append(consts, c), seen, strings, bytes)
    OBVIOUS
  <2>6. StoreString(h, m) = [g EXCEPT !.strings = @ + m + 1]
    BY <1>7, <2>1, <2>4, <2>5 DEF StoreString
  <2>7. [g EXCEPT !.strings = @ + m + 1] = State(image, a + n, code, Append(consts, c), seen, strings + (m + 1), bytes)
    <3>1. g = [status |-> "OK", at |-> a + n, image |-> image, code |-> code, consts |-> Append(consts, c),
               seen |-> seen, strings |-> strings, bytes |-> bytes]
      BY <2>5 DEF State
    <3>2. PICK cs, y, s : cs = Append(consts, c) /\ y = a + n /\ s = strings + (m + 1)
      OBVIOUS
    <3>3. PICK k : k = [g EXCEPT !.strings = @ + m + 1]
      OBVIOUS
    <3>4. k = [g EXCEPT !.strings = s]
      BY <2>4, <3>1, <3>2, <3>3
    <3>5. k = [status |-> "OK", at |-> y, image |-> image, code |-> code, consts |-> cs,
               seen |-> seen, strings |-> s, bytes |-> bytes]
      BY <3>1, <3>2, <3>4
    <3>6. k = State(image, y, code, cs, seen, s, bytes)
      BY <3>5 DEF State
    <3>7. QED BY <3>2, <3>3, <3>6
  <2>8. QED BY <2>2, <2>3, <2>4, <2>6, <2>7
<1>16. CASE x = KBytes
  <2>1. /\ n = m + 2 /\ Cell(h, h.at) = m
        /\ ~ (h.at + 1 > end) /\ ~ (h.at + 1 + Cell(h, h.at) > end)
        /\ StoreConstant(h, KBytes, m, h.at + 1) = State(image, a + n, code, Append(consts, c), seen, strings, bytes)
    BY <1>2, <1>14, <1>16
  <2>2. LoadConstant(h, x, end) = StoreBytes(h, m)
    BY <1>11, <1>16, <2>1 DEF LoadConstant, KInt, KBool, KString, KVoid, KBytes, KNull
  <2>3. SizeIn(c, KString, 1) = 0 /\ SizeIn(c, KBytes, 0) = m
    BY <1>1, <1>3, <1>16 DEF SizeIn, KString, KBytes
  <2>4. ~ (bytes + m > MaxBytesStorage) /\ strings + 0 = strings
    BY <2>3, ImageAssumption DEF HasRoom
  <2>5. PICK g : g = State(image, a + n, code, Append(consts, c), seen, strings, bytes)
    OBVIOUS
  <2>6. StoreBytes(h, m) = [g EXCEPT !.bytes = @ + m]
    BY <1>7, <2>1, <2>4, <2>5 DEF StoreBytes
  <2>7. [g EXCEPT !.bytes = @ + m] = State(image, a + n, code, Append(consts, c), seen, strings, bytes + m)
    <3>1. g = [status |-> "OK", at |-> a + n, image |-> image, code |-> code, consts |-> Append(consts, c),
               seen |-> seen, strings |-> strings, bytes |-> bytes]
      BY <2>5 DEF State
    <3>2. PICK cs, y, b : cs = Append(consts, c) /\ y = a + n /\ b = bytes + m
      OBVIOUS
    <3>3. PICK k : k = [g EXCEPT !.bytes = @ + m]
      OBVIOUS
    <3>4. k = [g EXCEPT !.bytes = b]
      BY <3>1, <3>2, <3>3
    <3>5. k = [status |-> "OK", at |-> y, image |-> image, code |-> code, consts |-> cs,
               seen |-> seen, strings |-> strings, bytes |-> b]
      BY <3>1, <3>2, <3>4
    <3>6. k = State(image, y, code, cs, seen, strings, b)
      BY <3>5 DEF State
    <3>7. QED BY <3>2, <3>3, <3>6
  <2>8. QED BY <2>2, <2>3, <2>4, <2>6, <2>7
<1>17. QED BY <1>11, <1>12, <1>13, <1>15, <1>16

\* u is the loader after each of n constants.
AfterEach(u, l, n, end) == u = [k \in 0 .. n |-> IF k = 0 THEN l ELSE NextConstant(u[k - 1], end)]

LEMMA LoadEachIs ==
  ASSUME NEW n \in Nat, NEW l, NEW end, NEW u, AfterEach(u, l, n, end)
  PROVE  LoadEach(l, n, end)[n] = u[n]
<1> DEFINE Sol(f) == f = [k \in 0 .. n |-> IF k = 0 THEN l ELSE NextConstant(f[k - 1], end)]
<1>1. Sol(u)
  BY DEF AfterEach
<1>2. LoadEach(l, n, end) = CHOOSE f : Sol(f)
  BY DEF LoadEach
<1>3. PICK f : f = LoadEach(l, n, end) /\ Sol(f)
  <2> HIDE DEF Sol
  <2>1. QED BY <1>1, <1>2
<1> DEFINE S == {k \in 0 .. n : f[k] = u[k]}
<1>4. 0 \in S
  <2>1. f[0] = l /\ u[0] = l
    BY <1>1, <1>3
  <2>2. QED BY <2>1
<1>5. ASSUME NEW k \in 1 .. n, k - 1 \in S PROVE k \in S
  <2>1. f[k - 1] = u[k - 1]
    BY <1>5
  <2>2. k \in 0 .. n /\ k # 0
    OBVIOUS
  <2>3. f[k] = NextConstant(f[k - 1], end) /\ u[k] = NextConstant(u[k - 1], end)
    BY <2>2, <1>1, <1>3
  <2>4. QED BY <2>1, <2>2, <2>3
<1>6. \A k \in 0 .. n : k \in S
  <2> HIDE DEF S
  <2>1. QED BY <1>4, <1>5, UpTo
<1>7. n \in 0 .. n
  OBVIOUS
<1>8. QED BY <1>3, <1>6, <1>7

\* The image has n cells from a position on.
CellsAt(image, from, n, cells) == \A i \in 1 .. n : image[from + i] = cells[i]

\* The n constants of p fit the format and the storage of the loader.
ConstantsFit(p, n) ==
  /\ p.consts \in Seq(Constant) /\ n = Len(p.consts) /\ \A k \in 1 .. n : DataFits(p.consts[k])
  /\ StringBytes(p.consts) <= MaxStringBytes /\ BytesStorage(p.consts) <= MaxBytesStorage

\* The loop over the constants reads all of them back.
AllLoaded(p, n, image, start, size, code, seen) ==
  \E strings, bytes :
    LoadEach(State(image, start, code, <<>>, seen, 0, 0), n, start + size)[n] =
      State(image, start + size, code, p.consts, seen, strings, bytes)

LEMMA EachConstantLoads ==
  ASSUME NEW p, NEW n \in Nat, ConstantsFit(p, n),
         NEW cells, cells = Joined(ConstantParts(p))[n],
         NEW image \in Seq(Int), NEW start \in Nat, NEW size \in Nat, size = Len(cells),
         start + size <= Len(image), CellsAt(image, start, size, cells),
         NEW code, NEW seen
  PROVE  AllLoaded(p, n, image, start, size, code, seen)
<1> USE DEF ConstantsFit, CellsAt
<1>1. PICK cs \in Seq(Constant) : cs = p.consts /\ n = Len(cs)
  OBVIOUS
<1>2. PICK ps \in Seq(Seq(Int)) : ps = ConstantParts(p) /\ n = Len(ps)
  BY ConstantPartsType
<1>3. \A k \in 1 .. n : ps[k] = EncodeConstant(cs[k]) /\ Len(ps[k]) \in Nat \ {0}
  BY <1>1, <1>2, ConstantPartsType
<1>4. PICK a : \A k \in 1 .. n : a[k] = Len(ps[k])
  <2>1. \A k \in 1 .. n : [j \in 1 .. n |-> Len(ps[j])][k] = Len(ps[k])
    OBVIOUS
  <2>2. QED BY <2>1
<1>5. \A k \in 1 .. n : a[k] \in Nat
  BY <1>3, <1>4
<1>6. PICK f : Total(f, a, n)
  BY <1>5, TotalExists
<1>7. PartsAt(cells, ps, f, a, n)
  <2>1. \A j \in 0 .. n : PartsAt(Joined(ps)[j], ps, f, a, j)
    BY <1>2, <1>4, <1>6, JoinedCells
  <2>2. n \in 0 .. n
    OBVIOUS
  <2>3. QED BY <1>2, <2>1, <2>2
<1>8. PICK sa : \A k \in 1 .. n : sa[k] = SizeIn(cs[k], KString, 1)
  <2>1. \A k \in 1 .. n : [j \in 1 .. n |-> SizeIn(cs[j], KString, 1)][k] = SizeIn(cs[k], KString, 1)
    OBVIOUS
  <2>2. QED BY <2>1
<1>80. PICK ba : \A k \in 1 .. n : ba[k] = SizeIn(cs[k], KBytes, 0)
  <2>1. \A k \in 1 .. n : [j \in 1 .. n |-> SizeIn(cs[j], KBytes, 0)][k] = SizeIn(cs[k], KBytes, 0)
    OBVIOUS
  <2>2. QED BY <2>1
<1>9. PICK s, b : s = Storage(cs, KString, 1) /\ b = Storage(cs, KBytes, 0)
  OBVIOUS
<1>10. (\A k \in 1 .. n : sa[k] \in Nat) /\ Total(s, sa, n)
  <2>1. 1 \in Nat
    OBVIOUS
  <2>2. (\A k \in 1 .. n : sa[k] \in Nat) /\ Total(Storage(cs, KString, 1), sa, n)
    BY <1>1, <1>8, <2>1, StorageIsTotal
  <2>3. QED BY <1>9, <2>2
<1>11. (\A k \in 1 .. n : ba[k] \in Nat) /\ Total(b, ba, n)
  <2>1. 0 \in Nat
    OBVIOUS
  <2>2. (\A k \in 1 .. n : ba[k] \in Nat) /\ Total(Storage(cs, KBytes, 0), ba, n)
    BY <1>1, <1>80, <2>1, StorageIsTotal
  <2>3. QED BY <1>9, <2>2
<1>12. s[n] <= MaxStringBytes /\ b[n] <= MaxBytesStorage
  BY <1>1, <1>9 DEF StringBytes, BytesStorage
<1>13. f[n] = size
  BY <1>7 DEF PartsAt
<1> DEFINE at(k) == State(image, start + f[k], code, SubSeq(cs, 1, k), seen, s[k], b[k])
           u == [k \in 0 .. n |-> at(k)]
<1>14. ASSUME NEW k \in 1 .. n
       PROVE  NextConstant(at(k - 1), start + size) = at(k)
  <2>1. /\ k - 1 \in 0 .. n /\ k \in 0 .. n /\ n \in k .. n /\ n \in 0 .. n
    OBVIOUS
  <2>2. PICK x, y, z, w : x = f[k - 1] /\ y = a[k] /\ z = f[k] /\ w = start + x
    OBVIOUS
  <2>3. x \in Nat /\ y \in Nat /\ z = x + y /\ z <= size
    <3>1. f[k] <= f[n]
      BY <2>1, <1>5, <1>6, TotalGrows
    <3>2. f[k] = f[k - 1] + a[k] /\ f[k - 1] \in Nat
      BY <2>1, <1>6 DEF Total
    <3>3. QED BY <3>1, <3>2, <2>2, <1>5, <1>13
  <2>4. PICK c \in Constant : c = cs[k]
    BY <1>1, ElementOfSeq
  <2>5. DataFits(c)
    BY <1>1, <2>4
  <2>6. PICK e : e = EncodeConstant(c)
    OBVIOUS
  <2>7. ps[k] = e /\ y = Len(e)
    BY <1>3, <1>4, <2>2, <2>4, <2>6
  <2>8. ASSUME NEW i \in 1 .. y PROVE image[w + i] = e[i]
    <3>1. PICK q : q = x + i
      OBVIOUS
    <3>2. q \in 1 .. size
      BY <3>1, <2>3
    <3>3. image[start + q] = cells[q]
      BY ONLY <3>2, CellsAt(image, start, size, cells) DEF CellsAt
    <3>4. cells[x + i] = e[i]
      <4>1. i \in 1 .. a[k] /\ k \in 1 .. n /\ x = f[k - 1]
        BY <2>2
      <4>2. cells[f[k - 1] + i] = ps[k][i]
        BY ONLY <4>1, <1>7 DEF PartsAt
      <4>3. QED BY ONLY <4>1, <4>2, <2>7
    <3>5. start + q = w + i
      <4>1. q = x + i /\ w = start + x
        BY <2>2, <3>1
      <4>2. QED BY ONLY <4>1, <2>3, start \in Nat, i \in 1 .. y
    <3>6. QED BY <3>1, <3>3, <3>4, <3>5
  <2>9. PICK g \in Seq(Constant) : g = SubSeq(cs, 1, k - 1)
    <3>1. \A i \in 1 .. k - 1 : cs[i] \in Constant
      <4>1. ASSUME NEW i \in 1 .. k - 1 PROVE cs[i] \in Constant
        <5>1. i \in 1 .. Len(cs)
          BY <1>1
        <5>2. QED BY <5>1, ElementOfSeq
      <4>2. QED BY <4>1
    <3>2. 1 \in Int /\ k - 1 \in Int
      OBVIOUS
    <3>3. SubSeq(cs, 1, k - 1) \in Seq(Constant)
      BY <3>1, <3>2, SubSeqProperties
    <3>4. QED BY <3>3
  <2>10. Append(g, c) = SubSeq(cs, 1, k)
    <3>1. 1 \in 1 .. Len(cs) /\ k \in 1 .. Len(cs)
      BY <1>1
    <3>2. SubSeq(cs, 1, k) = SubSeq(cs, 1, k - 1) \o <<cs[k]>>
      BY <3>1, SubSeqRecursiveSecond
    <3>3. Append(g, c) = g \o <<c>>
      BY AppendIsConcat
    <3>4. QED BY <2>4, <2>9, <3>2, <3>3
  <2>11. PICK s0, s1 : s0 = s[k - 1] /\ s1 = s[k]
    OBVIOUS
  <2>12. s0 \in Nat /\ s1 = s0 + SizeIn(c, KString, 1) /\ s1 <= MaxStringBytes
    <3>1. s[k] = s[k - 1] + sa[k] /\ s[k - 1] \in Nat /\ s[k] \in Nat /\ s[n] \in Nat
      BY <2>1, <1>10 DEF Total
    <3>2. s[k] <= s[n]
      BY <2>1, <1>10, TotalGrows
    <3>3. sa[k] = SizeIn(c, KString, 1)
      BY <1>8, <2>4
    <3>4. s1 <= MaxStringBytes
      <4>1. PICK i, j, l \in Nat : i = s[k] /\ j = s[n] /\ l = MaxStringBytes
        BY <3>1, ImageAssumption
      <4>2. i <= j /\ j <= l
        BY ONLY <3>2, <1>12, <4>1
      <4>3. QED BY ONLY <4>1, <4>2, <2>11, i \in Nat, j \in Nat, l \in Nat
    <3>5. QED BY <3>1, <3>3, <3>4, <2>11
  <2>13. PICK b0, b1 : b0 = b[k - 1] /\ b1 = b[k]
    OBVIOUS
  <2>14. b0 \in Nat /\ b1 = b0 + SizeIn(c, KBytes, 0) /\ b1 <= MaxBytesStorage
    <3>1. b[k] = b[k - 1] + ba[k] /\ b[k - 1] \in Nat /\ b[k] \in Nat /\ b[n] \in Nat
      BY <2>1, <1>11 DEF Total
    <3>2. b[k] <= b[n]
      BY <2>1, <1>11, TotalGrows
    <3>3. ba[k] = SizeIn(c, KBytes, 0)
      BY <1>80, <2>4
    <3>4. b1 <= MaxBytesStorage
      <4>1. PICK i, j, l \in Nat : i = b[k] /\ j = b[n] /\ l = MaxBytesStorage
        BY <3>1, ImageAssumption
      <4>2. i <= j /\ j <= l
        BY ONLY <3>2, <1>12, <4>1
      <4>3. QED BY ONLY <4>1, <4>2, <2>13, i \in Nat, j \in Nat, l \in Nat
    <3>5. QED BY <3>1, <3>3, <3>4, <2>13
  <2>15. PICK end \in Nat : end = start + size
    OBVIOUS
  <2>16. w \in Nat /\ w + y <= end /\ end <= Len(image) /\ w + y = start + z
    <3>1. end <= Len(image)
      BY <2>15
    <3>2. w = start + x /\ end = start + size /\ z = x + y /\ z <= size /\ x \in Nat /\ y \in Nat
      BY <2>2, <2>3, <2>15
    <3>3. w \in Nat /\ w + y <= end /\ w + y = start + z
      BY <3>2
    <3>4. QED BY <3>1, <3>3
  <2>17. NextConstant(State(image, w, code, g, seen, s0, b0), end) =
           State(image, w + y, code, Append(g, c), seen, s0 + SizeIn(c, KString, 1), b0 + SizeIn(c, KBytes, 0))
    <3>1. HasRoom(c, s0, b0)
      BY <2>12, <2>14 DEF HasRoom
    <3>2. StandsAt(image, w, y, c, end)
      BY <2>6, <2>7, <2>8, <2>16 DEF StandsAt
    <3>3. w \in Nat /\ y \in Nat /\ s0 \in Nat /\ b0 \in Nat
      BY <2>3, <2>12, <2>14, <2>16
    <3>4. QED BY <3>1, <3>2, <3>3, <2>5, OneConstant
  <2>18. at(k - 1) = State(image, w, code, g, seen, s0, b0)
    BY <2>2, <2>9, <2>11, <2>13
  <2>19. at(k) = State(image, w + y, code, Append(g, c), seen, s1, b1)
    BY <2>2, <2>10, <2>11, <2>13, <2>16
  <2> HIDE DEF at
  <2>20. QED BY <2>12, <2>14, <2>15, <2>17, <2>18, <2>19
<1>15. at(0) = State(image, start, code, <<>>, seen, 0, 0)
  <2>1. f[0] = 0 /\ s[0] = 0 /\ b[0] = 0
    BY <1>6, <1>10, <1>11 DEF Total
  <2>2. SubSeq(cs, 1, 0) = <<>>
    BY SubSeqEmpty
  <2>3. start + 0 = start
    OBVIOUS
  <2>4. QED BY <2>1, <2>2, <2>3
<1>16. at(n) = State(image, start + size, code, p.consts, seen, s[n], b[n])
  <2>1. SubSeq(cs, 1, n) = cs
    BY <1>1, SubSeqFull
  <2>2. QED BY <2>1, <1>1, <1>13
<1>17. PICK l : l = State(image, start, code, <<>>, seen, 0, 0)
  OBVIOUS
<1>18. u = [k \in 0 .. n |-> IF k = 0 THEN l ELSE NextConstant(u[k - 1], start + size)]
  <2> HIDE DEF at
  <2>1. ASSUME NEW k \in 0 .. n, k # 0 PROVE at(k) = NextConstant(u[k - 1], start + size)
    <3>1. k \in 1 .. n /\ k - 1 \in 0 .. n
      BY <2>1
    <3>2. u[k - 1] = at(k - 1)
      BY <3>1
    <3>3. QED BY <3>1, <3>2, <1>14
  <2>2. at(0) = l
    BY <1>15, <1>17
  <2>3. QED BY <2>1, <2>2
<1>19. u[n] = at(n)
  OBVIOUS
<1> HIDE DEF u, at
<1>20. LoadEach(l, n, start + size)[n] = u[n]
  <2>1. PICK v, end : v = u /\ end = start + size
    OBVIOUS
  <2>2. AfterEach(v, l, n, end)
    BY <1>18, <2>1 DEF AfterEach
  <2>3. LoadEach(l, n, end)[n] = v[n]
    BY <2>2, LoadEachIs
  <2>4. QED BY <2>1, <2>3
<1>21. QED BY <1>16, <1>17, <1>19, <1>20 DEF AllLoaded

\* A whole section with n cells of payload stands at a position.
SectionAt(image, at, type, n, count) ==
  /\ at + 3 + n <= Len(image)
  /\ image[at + 1] = type /\ image[at + 2] = n + 1 /\ image[at + 3] = count

\* What reads a section of a known type.
BodyOf(type, body, start, size) ==
  IF type = InstructionSection THEN LoadInstructions(body, start, size) ELSE LoadConstants(body, start, size)

LEMMA WholeSection ==
  ASSUME NEW image \in Seq(Int), NEW at \in Nat, NEW type \in {InstructionSection, ConstantSection},
         NEW n \in Nat, NEW count \in Int, SectionAt(image, at, type, n, count),
         NEW code, NEW consts, NEW seen, NEW strings, NEW bytes
  PROVE  LoadSection(State(image, at, code, consts, seen, strings, bytes)) =
           [BodyOf(type, State(image, at + 2, code, consts, seen, strings, bytes), at + 2, n + 1)
              EXCEPT !.at = at + 3 + n]
<1>1. PICK s, b : /\ s = State(image, at, code, consts, seen, strings, bytes)
                  /\ b = State(image, at + 2, code, consts, seen, strings, bytes)
  OBVIOUS
<1>2. /\ s.status = "OK" /\ s.at = at /\ s.image = image /\ b.at = at + 2
      /\ s = [status |-> "OK", at |-> at, image |-> image, code |-> code, consts |-> consts,
              seen |-> seen, strings |-> strings, bytes |-> bytes]
  BY <1>1 DEF State
<1>3. [s EXCEPT !.at = @ + 2] = b
  <2>1. PICK y, g : y = at + 2 /\ g = [s EXCEPT !.at = @ + 2]
    OBVIOUS
  <2>2. g = [s EXCEPT !.at = y]
    BY <1>2, <2>1
  <2>3. g = [status |-> "OK", at |-> y, image |-> image, code |-> code, consts |-> consts,
             seen |-> seen, strings |-> strings, bytes |-> bytes]
    BY <1>2, <2>2
  <2>4. QED BY <1>1, <2>1, <2>3 DEF State
<1>4. PICK len \in Nat : len = Len(image)
  BY LenProperties
<1>5. Cell(s, s.at) = type /\ Cell(s, s.at + 1) = n + 1
  <2>1. (at + 1) + 1 = at + 2
    OBVIOUS
  <2>2. QED BY <1>2, <2>1 DEF Cell, SectionAt
<1>6. HeaderFits(s) /\ PayloadFits(s)
  <2>1. at + 3 + n <= len
    BY <1>4 DEF SectionAt
  <2>2. at + 2 <= len /\ at + 2 + (n + 1) <= len
    BY <2>1
  <2>3. QED BY <1>2, <1>4, <1>5, <2>2 DEF HeaderFits, PayloadFits
<1>7. at + 2 + (n + 1) = at + 3 + n
  OBVIOUS
<1>8. LoadSection(s) = [BodyOf(type, b, b.at, n + 1) EXCEPT !.at = b.at + (n + 1)]
  <2>1. type = InstructionSection \/ type = ConstantSection
    OBVIOUS
  <2>2. CASE type = InstructionSection
    BY <1>2, <1>3, <1>5, <1>6, <2>2 DEF LoadSection, BodyOf
  <2>3. CASE type # InstructionSection /\ type = ConstantSection
    BY <1>2, <1>3, <1>5, <1>6, <2>3 DEF LoadSection, BodyOf
  <2>4. QED BY <2>1, <2>2, <2>3
<1>9. QED BY <1>1, <1>2, <1>7, <1>8

\* The section of the instructions is read back.
LEMMA InstructionsLoad ==
  ASSUME NEW p, NEW m \in Nat, p.code \in Seq([op : 0 .. LastOpcode, a : Int]), m = Len(p.code),
         m <= MaxProgramInstructions,
         NEW image \in Seq(Int), NEW at \in Nat, SectionAt(image, at, InstructionSection, 2 * m, m),
         CellsAt(image, at + 3, 2 * m, Joined(CodeParts(p))[m])
  PROVE  LoadSection(State(image, at, <<>>, <<>>, {}, 0, 0)) =
           State(image, at + 3 + 2 * m, p.code, <<>>, {InstructionSection}, 0, 0)
<1>1. PICK b, start : b = State(image, at + 2, <<>>, <<>>, {}, 0, 0) /\ start = at + 2
  OBVIOUS
<1>2. PICK c : c = Joined(CodeParts(p))[m]
  OBVIOUS
<1>3. \A k \in 1 .. m : c[2 * k - 1] = p.code[k].op /\ c[2 * k] = p.code[k].a
  <2>1. [op : 0 .. LastOpcode, a : Int] \subseteq [op : Int, a : Int]
    BY ImageAssumption
  <2>2. p.code \in Seq([op : Int, a : Int])
    <3>1. PICK q, S, T : q = p.code /\ S = [op : 0 .. LastOpcode, a : Int] /\ T = [op : Int, a : Int]
      OBVIOUS
    <3>2. q \in Seq(S) /\ S \subseteq T
      BY <2>1, <3>1
    <3>3. q \in Seq(T)
      BY <3>2, SeqMonotonic
    <3>4. QED BY <3>1, <3>3
  <2>3. QED BY <1>2, <2>2, CodeCells
<1>4. b.image = image /\ b.seen = {} /\ b.code = <<>>
      /\ b = [status |-> "OK", at |-> at + 2, image |-> image, code |-> <<>>, consts |-> <<>>,
              seen |-> {}, strings |-> 0, bytes |-> 0]
  BY <1>1 DEF State
<1>5. Cell(b, start) = m
  <2>1. start + 1 = at + 3
    BY <1>1
  <2>2. QED BY <1>4, <2>1 DEF Cell, SectionAt
<1>6. ASSUME NEW k \in 1 .. m
      PROVE  Cell(b, start + 2 * k - 1) = p.code[k].op /\ Cell(b, start + 2 * k) = p.code[k].a
  <2>1. PICK i, j : i = 2 * k - 1 /\ j = 2 * k
    OBVIOUS
  <2>2. i \in 1 .. 2 * m /\ j \in 1 .. 2 * m
    BY <2>1
  <2>3. image[(at + 3) + i] = c[i] /\ image[(at + 3) + j] = c[j]
    BY <1>2, <2>2 DEF CellsAt
  <2>4. (start + 2 * k - 1) + 1 = (at + 3) + i /\ (start + 2 * k) + 1 = (at + 3) + j
    BY <1>1, <2>1
  <2>5. QED BY <1>3, <1>4, <2>1, <2>3, <2>4 DEF Cell
<1>7. [k \in 1 .. m |-> [op |-> Cell(b, start + 2 * k - 1), a |-> Cell(b, start + 2 * k)]] = p.code
  <2>1. \A k \in 1 .. m : p.code[k] = [op |-> p.code[k].op, a |-> p.code[k].a]
    <3>1. ASSUME NEW k \in 1 .. m PROVE p.code[k] = [op |-> p.code[k].op, a |-> p.code[k].a]
      <4>1. p.code[k] \in [op : 0 .. LastOpcode, a : Int]
        BY ElementOfSeq
      <4>2. QED BY <4>1
    <3>2. QED BY <3>1
  <2>2. p.code = [k \in 1 .. m |-> p.code[k]]
    BY LenProperties
  <2>3. \A k \in 1 .. m : [op |-> Cell(b, start + 2 * k - 1), a |-> Cell(b, start + 2 * k)] = p.code[k]
    BY <1>6, <2>1
  <2>4. QED BY <2>2, <2>3
<1>8. ASSUME NEW k \in 1 .. m PROVE ~ (p.code[k].op > LastOpcode)
  <2>1. p.code[k] \in [op : 0 .. LastOpcode, a : Int]
    BY ElementOfSeq
  <2>2. PICK o \in 0 .. LastOpcode : o = p.code[k].op
    BY <2>1
  <2>3. LastOpcode \in Nat
    BY ImageAssumption
  <2>4. ~ (o > LastOpcode)
    BY <2>3
  <2>5. QED BY <2>2, <2>4
<1>9. PICK size : size = 2 * m + 1
  OBVIOUS
<1>10. LoadInstructions(b, start, size) = [b EXCEPT !.code = p.code, !.seen = @ \cup {InstructionSection}]
  <2>1. size = 1 + 2 * m /\ ~ (size < 1) /\ ~ (m > MaxProgramInstructions)
    <3>1. PICK l \in Nat : l = MaxProgramInstructions
      BY ImageAssumption
    <3>2. m <= l
      BY ONLY <3>1, m <= MaxProgramInstructions
    <3>3. ~ (m > l)
      BY ONLY <3>2, m \in Nat, l \in Nat
    <3>4. size = 1 + 2 * m /\ ~ (size < 1)
      BY ONLY <1>9, m \in Nat
    <3>5. QED BY ONLY <3>1, <3>3, <3>4
  <2>2. InstructionSection \notin b.seen
    BY <1>4
  <2>3. QED BY <1>5, <1>7, <1>8, <2>1, <2>2 DEF LoadInstructions
<1>11. PICK r : r = [b EXCEPT !.code = p.code, !.seen = @ \cup {InstructionSection}]
  OBVIOUS
<1>12. r = [status |-> "OK", at |-> at + 2, image |-> image, code |-> p.code, consts |-> <<>>,
            seen |-> {InstructionSection}, strings |-> 0, bytes |-> 0]
  <2>1. PICK y : y = at + 2
    OBVIOUS
  <2>2. b = [status |-> "OK", at |-> y, image |-> image, code |-> <<>>, consts |-> <<>>,
             seen |-> {}, strings |-> 0, bytes |-> 0]
    BY <1>4, <2>1
  <2>3. r = [b EXCEPT !.code = p.code, !.seen = {InstructionSection}]
    BY <1>11, <2>2
  <2>4. QED BY <2>1, <2>2, <2>3
<1>13. [r EXCEPT !.at = at + 3 + 2 * m] = State(image, at + 3 + 2 * m, p.code, <<>>, {InstructionSection}, 0, 0)
  <2>1. PICK y, z : y = at + 2 /\ z = at + 3 + 2 * m
    OBVIOUS
  <2>2. [r EXCEPT !.at = z] = [status |-> "OK", at |-> z, image |-> image, code |-> p.code, consts |-> <<>>,
                               seen |-> {InstructionSection}, strings |-> 0, bytes |-> 0]
    <3>1. r = [status |-> "OK", at |-> y, image |-> image, code |-> p.code, consts |-> <<>>,
               seen |-> {InstructionSection}, strings |-> 0, bytes |-> 0]
      BY <1>12, <2>1
    <3>2. PICK g : g = [r EXCEPT !.at = z]
      OBVIOUS
    <3>3. g = [status |-> "OK", at |-> z, image |-> image, code |-> p.code, consts |-> <<>>,
               seen |-> {InstructionSection}, strings |-> 0, bytes |-> 0]
      BY <3>1, <3>2
    <3>4. QED BY <3>2, <3>3
  <2>3. QED BY <2>1, <2>2 DEF State
<1>14. LoadSection(State(image, at, <<>>, <<>>, {}, 0, 0)) =
         [BodyOf(InstructionSection, b, start, size) EXCEPT !.at = at + 3 + 2 * m]
  <2>1. PICK w \in Nat : w = 2 * m
    OBVIOUS
  <2>2. SectionAt(image, at, InstructionSection, w, m) /\ m \in Int /\ InstructionSection \in {InstructionSection, ConstantSection}
    BY <2>1
  <2>3. LoadSection(State(image, at, <<>>, <<>>, {}, 0, 0)) =
          [BodyOf(InstructionSection, State(image, at + 2, <<>>, <<>>, {}, 0, 0), at + 2, w + 1) EXCEPT !.at = at + 3 + w]
    BY <2>2, WholeSection
  <2>4. QED BY <1>1, <1>9, <2>1, <2>3
<1>15. QED BY <1>10, <1>11, <1>13, <1>14 DEF BodyOf

\* The section of the constants is read back.
ConstantsRead(p, image, at, size, code) ==
  \E seen, strings, bytes :
    LoadSection(State(image, at, code, <<>>, {InstructionSection}, 0, 0)) =
      State(image, at + 3 + size, code, p.consts, seen, strings, bytes)

LEMMA ConstantsLoad ==
  ASSUME NEW p, NEW n \in Nat, ConstantsFit(p, n), n <= MaxProgramConstants,
         NEW cells, cells = Joined(ConstantParts(p))[n], NEW size \in Nat, size = Len(cells),
         NEW image \in Seq(Int), NEW at \in Nat, SectionAt(image, at, ConstantSection, size, n),
         CellsAt(image, at + 3, size, cells), NEW code
  PROVE  ConstantsRead(p, image, at, size, code)
<1>1. PICK b, start, from, seen :
        /\ b = State(image, at + 2, code, <<>>, {InstructionSection}, 0, 0) /\ start = at + 2
        /\ from = at + 3 /\ seen = {InstructionSection} \cup {ConstantSection}
  OBVIOUS
<1>2. /\ b.image = image /\ b.seen = {InstructionSection}
      /\ b = [status |-> "OK", at |-> at + 2, image |-> image, code |-> code, consts |-> <<>>,
              seen |-> {InstructionSection}, strings |-> 0, bytes |-> 0]
  BY <1>1 DEF State
<1>3. Cell(b, start) = n
  <2>1. start + 1 = at + 3
    BY <1>1
  <2>2. QED BY <1>2, <2>1 DEF Cell, SectionAt
<1>4. PICK l : l = State(image, from, code, <<>>, seen, 0, 0)
  OBVIOUS
<1>5. [b EXCEPT !.at = start + 1, !.seen = @ \cup {ConstantSection}] = l
  <2>1. PICK g : g = [b EXCEPT !.at = start + 1, !.seen = @ \cup {ConstantSection}]
    OBVIOUS
  <2>2. PICK y : y = at + 2
    OBVIOUS
  <2>3. b = [status |-> "OK", at |-> y, image |-> image, code |-> code, consts |-> <<>>,
             seen |-> {InstructionSection}, strings |-> 0, bytes |-> 0]
    BY <1>2, <2>2
  <2>4. start + 1 = from
    BY <1>1
  <2>5. g = [b EXCEPT !.at = from, !.seen = seen]
    <3>1. g = [b EXCEPT !.at = from, !.seen = @ \cup {ConstantSection}]
      BY <2>1, <2>4
    <3>2. g = [b EXCEPT !.at = from, !.seen = {InstructionSection} \cup {ConstantSection}]
      BY <2>3, <3>1
    <3>3. QED BY <1>1, <3>2
  <2>6. g = [status |-> "OK", at |-> from, image |-> image, code |-> code, consts |-> <<>>,
             seen |-> seen, strings |-> 0, bytes |-> 0]
    BY <2>3, <2>5
  <2>7. QED BY <1>4, <2>1, <2>6 DEF State
<1>6. from + size <= Len(image) /\ from \in Nat /\ CellsAt(image, from, size, cells)
  <2>1. from = at + 3
    BY <1>1
  <2>2. from \in Nat
    BY <2>1
  <2>3. from + size <= Len(image)
    BY <2>1 DEF SectionAt
  <2>4. QED BY <2>1, <2>2, <2>3
<1>7. PICK strings, bytes : LoadEach(l, n, from + size)[n] = State(image, from + size, code, p.consts, seen, strings, bytes)
  <2>1. AllLoaded(p, n, image, from, size, code, seen)
    BY <1>6, EachConstantLoads
  <2>2. QED BY <1>4, <2>1 DEF AllLoaded
<1>8. PICK r : r = State(image, from + size, code, p.consts, seen, strings, bytes)
  OBVIOUS
<1>9. /\ r.status = "OK" /\ r.at = from + size
      /\ r = [status |-> "OK", at |-> from + size, image |-> image, code |-> code, consts |-> p.consts,
              seen |-> seen, strings |-> strings, bytes |-> bytes]
  BY <1>8 DEF State
<1>10. LoadConstants(b, start, size + 1) = r
  <2>1. start + (size + 1) = from + size
    <3>1. start = at + 2 /\ from = at + 3
      BY <1>1
    <3>2. at \in Nat /\ size \in Nat
      OBVIOUS
    <3>3. QED BY ONLY <3>1, <3>2
  <2>2. ~ (size + 1 < 1) /\ ~ (n > MaxProgramConstants)
    BY ImageAssumption
  <2>3. ConstantSection \notin b.seen
    BY <1>2 DEF InstructionSection, ConstantSection
  <2>4. QED BY <1>3, <1>5, <1>7, <1>8, <1>9, <2>1, <2>2, <2>3 DEF LoadConstants
<1>11. [r EXCEPT !.at = at + 3 + size] = r
  <2>1. PICK y : y = at + 3 + size
    OBVIOUS
  <2>2. r = [status |-> "OK", at |-> y, image |-> image, code |-> code, consts |-> p.consts,
             seen |-> seen, strings |-> strings, bytes |-> bytes]
    BY <1>1, <1>9, <2>1
  <2>3. [r EXCEPT !.at = y] = r
    BY <2>2
  <2>4. QED BY <2>1, <2>3
<1>12. LoadSection(State(image, at, code, <<>>, {InstructionSection}, 0, 0)) =
         [BodyOf(ConstantSection, b, start, size + 1) EXCEPT !.at = at + 3 + size]
  <2>1. /\ n \in Int /\ ConstantSection \in {InstructionSection, ConstantSection}
        /\ SectionAt(image, at, ConstantSection, size, n)
    OBVIOUS
  <2>2. PICK none, met, zero : none = <<>> /\ met = {InstructionSection} /\ zero = 0
    OBVIOUS
  <2>3. LoadSection(State(image, at, code, none, met, zero, zero)) =
          [BodyOf(ConstantSection, State(image, at + 2, code, none, met, zero, zero), at + 2, size + 1)
             EXCEPT !.at = at + 3 + size]
    BY <2>1, WholeSection
  <2>4. QED BY <1>1, <2>2, <2>3
<1>13. BodyOf(ConstantSection, b, start, size + 1) = r
  BY <1>10 DEF BodyOf, InstructionSection, ConstantSection
<1>14. LoadSection(State(image, at, code, <<>>, {InstructionSection}, 0, 0)) = r
  BY <1>11, <1>12, <1>13
<1>15. r = State(image, at + 3 + size, code, p.consts, seen, strings, bytes)
  BY <1>1, <1>8
<1>16. QED BY <1>14, <1>15 DEF ConstantsRead

LEMMA JoinTwo ==
  ASSUME NEW x \in Seq(Int), NEW y \in Seq(Int), NEW nx \in Nat, NEW ny \in Nat, nx = Len(x), ny = Len(y)
  PROVE  /\ x \o y \in Seq(Int) /\ Len(x \o y) = nx + ny
         /\ \A i \in 1 .. nx : (x \o y)[i] = x[i]
         /\ CellsAt(x \o y, nx, ny, y)
<1>1. /\ x \o y \in Seq(Int) /\ Len(x \o y) = nx + ny
      /\ \A i \in 1 .. nx + ny : (x \o y)[i] = IF i <= nx THEN x[i] ELSE y[i - nx]
  <2>1. /\ x \o y \in Seq(Int) /\ Len(x \o y) = Len(x) + Len(y)
        /\ \A i \in 1 .. Len(x) + Len(y) : (x \o y)[i] = IF i <= Len(x) THEN x[i] ELSE y[i - Len(x)]
    BY ConcatProperties
  <2>2. QED BY <2>1
<1>2. ASSUME NEW i \in 1 .. nx PROVE (x \o y)[i] = x[i]
  <2>1. i \in 1 .. nx + ny /\ i <= nx
    OBVIOUS
  <2>2. QED BY <2>1, <1>1
<1>3. ASSUME NEW i \in 1 .. ny PROVE (x \o y)[nx + i] = y[i]
  <2>1. nx + i \in 1 .. nx + ny /\ ~ (nx + i <= nx) /\ nx + i - nx = i
    OBVIOUS
  <2>2. QED BY <2>1, <1>1
<1>4. QED BY <1>1, <1>2, <1>3 DEF CellsAt

\* A section within a row of cells, some cells behind its beginning.
LEMMA SectionMoves ==
  ASSUME NEW image \in Seq(Int), NEW from \in Nat, NEW s \in Seq(Int), NEW size \in Nat, size = Len(s),
         from + size <= Len(image), CellsAt(image, from, size, s),
         NEW at \in Nat, NEW n \in Nat, NEW type, NEW count, SectionAt(s, at, type, n, count),
         NEW cells, CellsAt(s, at + 3, n, cells)
  PROVE  SectionAt(image, from + at, type, n, count) /\ CellsAt(image, from + at + 3, n, cells)
<1>1. PICK len \in Nat : len = Len(image)
  BY LenProperties
<1>2. from + size <= len /\ at + 3 + n <= size
  BY <1>1 DEF SectionAt
<1>3. ASSUME NEW i \in 1 .. n + 3 PROVE image[from + at + i] = s[at + i]
  <2>1. at + i \in 1 .. size /\ from + (at + i) = from + at + i
    BY <1>2
  <2>2. image[from + (at + i)] = s[at + i]
    BY <2>1 DEF CellsAt
  <2>3. QED BY <2>1, <2>2
<1>4. ASSUME NEW i \in 1 .. n PROVE image[from + at + 3 + i] = cells[i]
  <2>1. 3 + i \in 1 .. n + 3 /\ from + at + (3 + i) = from + at + 3 + i /\ at + (3 + i) = at + 3 + i
    OBVIOUS
  <2>2. s[at + 3 + i] = cells[i]
    BY DEF CellsAt
  <2>3. image[from + at + (3 + i)] = s[at + (3 + i)]
    BY <2>1, <1>3
  <2>4. QED BY <2>1, <2>2, <2>3
<1>5. 1 \in 1 .. n + 3 /\ 2 \in 1 .. n + 3 /\ 3 \in 1 .. n + 3
  OBVIOUS
<1>6. from + at + 3 + n <= Len(image)
  <2>1. from + at + 3 + n <= len
    BY <1>2
  <2>2. QED BY <2>1, <1>1
<1>7. SectionAt(image, from + at, type, n, count)
  BY <1>3, <1>5, <1>6 DEF SectionAt
<1>8. QED BY <1>4, <1>7 DEF CellsAt

\* Where the cells of an image are.
ImageOf(image, p, m, n, size) ==
  /\ image \in Seq(Int)
  /\ Len(image) = IF n = 0 THEN 7 + 2 * m ELSE 10 + 2 * m + size
  /\ image[1] = Magic /\ image[2] = Version /\ image[4] = IF n = 0 THEN 1 ELSE 2
  /\ SectionAt(image, 4, InstructionSection, 2 * m, m)
  /\ CellsAt(image, 7, 2 * m, Joined(CodeParts(p))[m])
  /\ n # 0 => /\ SectionAt(image, 7 + 2 * m, ConstantSection, size, n)
              /\ CellsAt(image, 10 + 2 * m, size, Joined(ConstantParts(p))[n])

LEMMA OwnSection ==
  ASSUME NEW type \in Int, NEW count \in Int, NEW payload \in Seq(Int), NEW n \in Nat, n = Len(payload)
  PROVE  LET s == Section(type, count, payload)
         IN  s \in Seq(Int) /\ Len(s) = n + 3 /\ SectionAt(s, 0, type, n, count) /\ CellsAt(s, 3, n, payload)
<1>1. PICK s : s = Section(type, count, payload)
  OBVIOUS
<1>2. /\ s \in Seq(Int) /\ Len(s) = n + 3
      /\ s[1] = type /\ s[2] = n + 1 /\ s[3] = count
      /\ \A i \in 1 .. n : s[3 + i] = payload[i]
  <2>1. LET t == Section(type, count, payload)
        IN  /\ t \in Seq(Int) /\ Len(t) = n + 3
            /\ t[1] = type /\ t[2] = n + 1 /\ t[3] = count
            /\ \A i \in 1 .. n : t[3 + i] = payload[i]
    BY SectionCells
  <2>2. QED BY ONLY <1>1, <2>1
<1>3. SectionAt(s, 0, type, n, count)
  <2>1. 0 + 1 = 1 /\ 0 + 2 = 2 /\ 0 + 3 = 3 /\ 0 + 3 + n <= n + 3
    OBVIOUS
  <2>2. QED BY <1>2, <2>1 DEF SectionAt
<1>4. QED BY <1>1, <1>2, <1>3 DEF CellsAt

LEMMA ImageCells ==
  ASSUME NEW p, NEW m \in Nat, NEW n \in Nat, p.code \in Seq([op : Int, a : Int]), m = Len(p.code),
         ConstantsFit(p, n), NEW size \in Nat, size = Len(Joined(ConstantParts(p))[n])
  PROVE  ImageOf(Encode(p), p, m, n, size)
<1>1. PICK w \in Nat, k \in Nat : w = 2 * m /\ k = w + 3
  OBVIOUS
<1>2. PICK c, d : c = Joined(CodeParts(p))[m] /\ d = Joined(ConstantParts(p))[n]
  OBVIOUS
<1>3. c \in Seq(Int) /\ w = Len(c)
  BY <1>1, <1>2, CodeCells
<1>4. d \in Seq(Int) /\ size = Len(d)
  <2>1. ConstantParts(p) \in Seq(Seq(Int)) /\ Len(ConstantParts(p)) = n
    BY ConstantPartsType DEF ConstantsFit
  <2>2. PICK ps \in Seq(Seq(Int)) : ps = ConstantParts(p) /\ Len(ps) = n
    BY <2>1
  <2>3. n \in 0 .. Len(ps)
    BY <2>2
  <2>4. Joined(ps)[n] \in Seq(Int)
    BY <2>3, JoinedSteps
  <2>5. QED BY <1>2, <2>2, <2>4
<1>5. InstructionSection \in Int /\ ConstantSection \in Int /\ m \in Int /\ n \in Int
  BY DEF InstructionSection, ConstantSection
<1>6. PICK s1, s2 : s1 = Section(InstructionSection, m, c) /\ s2 = Section(ConstantSection, n, d)
  OBVIOUS
<1>7. s1 \in Seq(Int) /\ Len(s1) = k /\ SectionAt(s1, 0, InstructionSection, w, m) /\ CellsAt(s1, 3, w, c)
  BY <1>1, <1>3, <1>5, <1>6, OwnSection
<1>8. s2 \in Seq(Int) /\ Len(s2) = size + 3 /\ SectionAt(s2, 0, ConstantSection, size, n) /\ CellsAt(s2, 3, size, d)
  BY <1>4, <1>5, <1>6, OwnSection
<1>9. PICK e \in {1, 2} : e = IF n = 0 THEN 1 ELSE 2
  OBVIOUS
<1>10. p.consts = <<>> <=> n = 0
  <2>1. PICK cs \in Seq(Constant) : cs = p.consts /\ n = Len(cs)
    BY DEF ConstantsFit
  <2>2. Len(<<>>) = 0 /\ (cs # <<>> => Len(cs) \in Nat \ {0})
    BY EmptySeq
  <2>3. QED BY <2>1, <2>2
<1>11. PICK h : h = <<Magic, Version, 0, e>>
  OBVIOUS
<1>12. h \in Seq(Int) /\ Len(h) = 4 /\ h[1] = Magic /\ h[2] = Version /\ h[4] = e
  BY <1>11 DEF Magic, Version
<1>13. PICK r, z : /\ r = (IF n = 0 THEN <<>> ELSE s2) /\ z = (IF n = 0 THEN 0 ELSE size + 3)
  OBVIOUS
<1>14. r \in Seq(Int) /\ z \in Nat /\ z = Len(r)
  <2>1. <<>> \in Seq(Int) /\ Len(<<>>) = 0
    BY EmptySeq
  <2>2. CASE n = 0
    BY <1>13, <2>1, <2>2
  <2>3. CASE n # 0
    BY <1>8, <1>13, <2>3
  <2>4. QED BY <2>2, <2>3
<1>15. PICK body, image : body = s1 \o r /\ image = h \o body
  OBVIOUS
<1>16. Encode(p) = image
  <2>1. EncodeSections(p) = s1 \o r
    <3>1. n = Len(p.consts)
      BY DEF ConstantsFit
    <3>2. EncodeSections(p) = s1 \o (IF p.consts = <<>> THEN <<>> ELSE s2)
      BY <1>2, <1>6, <3>1 DEF EncodeSections
    <3>3. QED BY <1>10, <1>13, <3>2
  <2>2. Encode(p) = h \o EncodeSections(p)
    BY <1>9, <1>10, <1>11 DEF Encode
  <2>3. QED BY <1>15, <2>1, <2>2
<1>17. /\ body \in Seq(Int) /\ Len(body) = k + z
       /\ \A i \in 1 .. k : body[i] = s1[i]
       /\ CellsAt(body, k, z, r)
  <2>1. k = Len(s1) /\ k \in Nat /\ z \in Nat /\ z = Len(r)
    BY <1>7, <1>14
  <2>2. /\ s1 \o r \in Seq(Int) /\ Len(s1 \o r) = k + z
        /\ \A i \in 1 .. k : (s1 \o r)[i] = s1[i]
        /\ CellsAt(s1 \o r, k, z, r)
    BY <2>1, <1>7, <1>14, JoinTwo
  <2>3. QED BY ONLY <2>2, <1>15
<1>18. CellsAt(body, 0, k, s1)
  <2>1. \A i \in 1 .. k : 0 + i = i
    OBVIOUS
  <2>2. QED BY <1>17, <2>1 DEF CellsAt
<1>19. PICK lb \in Nat : lb = k + z
  BY <1>14
<1>20. /\ image \in Seq(Int) /\ Len(image) = 4 + lb
       /\ \A i \in 1 .. 4 : image[i] = h[i]
       /\ CellsAt(image, 4, lb, body)
  <2>1. 4 \in Nat /\ 4 = Len(h) /\ lb = Len(body)
    BY <1>12, <1>17, <1>19
  <2>2. /\ h \o body \in Seq(Int) /\ Len(h \o body) = 4 + lb
        /\ \A i \in 1 .. 4 : (h \o body)[i] = h[i]
        /\ CellsAt(h \o body, 4, lb, body)
    <3>1. PICK f \in Nat : f = 4
      OBVIOUS
    <3>2. f = Len(h) /\ lb = Len(body) /\ h \in Seq(Int) /\ body \in Seq(Int)
      BY <2>1, <1>12, <1>17, <3>1
    <3>3. /\ h \o body \in Seq(Int) /\ Len(h \o body) = f + lb
          /\ \A i \in 1 .. f : (h \o body)[i] = h[i]
          /\ CellsAt(h \o body, f, lb, body)
      BY <3>2, JoinTwo
    <3>4. QED BY <3>1, <3>3
  <2>3. QED BY ONLY <2>2, <1>15
<1>21. image[1] = Magic /\ image[2] = Version /\ image[4] = IF n = 0 THEN 1 ELSE 2
  BY <1>9, <1>12, <1>20
<1>22. Len(image) = IF n = 0 THEN 7 + w ELSE 10 + w + size
  <2>1. CASE n = 0
    BY <1>1, <1>13, <1>19, <1>20, <2>1
  <2>2. CASE n # 0
    <3>1. z = size + 3
      BY <1>13, <2>2
    <3>2. 4 + lb = 10 + w + size
      BY ONLY <1>1, <1>14, <1>19, <3>1, size \in Nat
    <3>3. QED BY <1>20, <2>2, <3>2
  <2>3. QED BY <2>1, <2>2
<1>23. SectionAt(image, 4, InstructionSection, w, m) /\ CellsAt(image, 7, w, c)
  <2>1. SectionAt(body, 0 + 0, InstructionSection, w, m) /\ CellsAt(body, 0 + 0 + 3, w, c)
    <3>1. 0 \in Nat /\ 0 + k <= Len(body) /\ 0 + 3 = 3
      BY <1>14, <1>17
    <3>2. CellsAt(s1, 0 + 3, w, c)
      BY <1>7, <3>1
    <3>3. QED BY <3>1, <3>2, <1>7, <1>17, <1>18, SectionMoves
  <2>2. 0 + 0 = 0 /\ 0 + 0 + 3 = 0 + 3
    OBVIOUS
  <2>3. SectionAt(body, 0, InstructionSection, w, m) /\ CellsAt(body, 0 + 3, w, c)
    BY <2>1, <2>2
  <2>4. 0 \in Nat /\ 4 \in Nat /\ lb = Len(body) /\ 4 + lb <= Len(image)
    BY <1>17, <1>19, <1>20
  <2>5. SectionAt(image, 4 + 0, InstructionSection, w, m) /\ CellsAt(image, 4 + 0 + 3, w, c)
    BY <2>3, <2>4, <1>17, <1>20, SectionMoves
  <2>6. 4 + 0 = 4 /\ 4 + 0 + 3 = 7
    OBVIOUS
  <2>7. QED BY <2>5, <2>6
<1>24. ASSUME n # 0 PROVE SectionAt(image, 7 + w, ConstantSection, size, n) /\ CellsAt(image, 10 + w, size, d)
  <2>1. r = s2 /\ z = size + 3 /\ 0 \in Nat /\ k + z <= Len(body) /\ 0 + 3 = 3
    BY <1>13, <1>14, <1>17, <1>24
  <2>2. CellsAt(body, k, z, s2) /\ z = Len(s2) /\ CellsAt(s2, 0 + 3, size, d)
    BY <1>8, <1>17, <2>1
  <2>3. SectionAt(body, k + 0, ConstantSection, size, n) /\ CellsAt(body, k + 0 + 3, size, d)
    BY <2>1, <2>2, <1>8, <1>14, <1>17, SectionMoves
  <2>4. k + 0 = k
    OBVIOUS
  <2>5. SectionAt(body, k, ConstantSection, size, n) /\ CellsAt(body, k + 3, size, d)
    BY <2>3, <2>4
  <2>6. 4 \in Nat /\ lb = Len(body) /\ 4 + lb <= Len(image)
    BY <1>17, <1>19, <1>20
  <2>7. SectionAt(image, 4 + k, ConstantSection, size, n) /\ CellsAt(image, 4 + k + 3, size, d)
    BY <2>5, <2>6, <1>17, <1>20, SectionMoves
  <2>8. 4 + k = 7 + w /\ 4 + k + 3 = 10 + w
    BY <1>1
  <2>9. QED BY <2>7, <2>8
<1>25. QED BY <1>1, <1>2, <1>16, <1>20, <1>21, <1>22, <1>23, <1>24 DEF ImageOf

\* The beginning of an image, of k cells.
BeginsWith(image, t, k) == t \in Seq(Int) /\ Len(t) = k /\ \A i \in 1 .. k : t[i] = image[i]

LEMMA ImageBegins ==
  ASSUME NEW image \in Seq(Int), NEW k \in Nat, k <= Len(image)
  PROVE  BeginsWith(image, SubSeq(image, 1, k), k)
<1>1. \A i \in 1 .. k : image[i] \in Int
  <2>1. PICK len \in Nat : len = Len(image)
    BY LenProperties
  <2>2. \A i \in 1 .. k : i \in 1 .. len
    BY <2>1
  <2>3. QED BY <2>1, <2>2, ElementOfSeq
<1>2. /\ SubSeq(image, 1, k) \in Seq(Int) /\ Len(SubSeq(image, 1, k)) = IF 1 <= k THEN k - 1 + 1 ELSE 0
      /\ \A i \in 1 .. k - 1 + 1 : SubSeq(image, 1, k)[i] = image[1 + i - 1]
  BY <1>1, SubSeqProperties
<1>3. (IF 1 <= k THEN k - 1 + 1 ELSE 0) = k /\ k - 1 + 1 = k /\ \A i \in 1 .. k : 1 + i - 1 = i
  OBVIOUS
<1>4. \A i \in 1 .. k : SubSeq(image, 1, k)[i] = image[i]
  BY <1>2, <1>3
<1>5. QED BY <1>2, <1>3, <1>4 DEF BeginsWith

\* A refused image stays refused.
LEMMA RefusedStays ==
  ASSUME NEW l, l.status # "OK"
  PROVE  LoadSection(l) = l
BY DEF LoadSection

\* The loader after the sections of the header's count, one or two.
LEMMA LoadSectionsIs ==
  ASSUME NEW l
  PROVE  /\ LoadSections(l, 1)[1] = LoadSection(l)
         /\ LoadSections(l, 2)[2] = LoadSection(LoadSection(l))
<1>1. ASSUME NEW n \in {1, 2}
      PROVE  LoadSections(l, n)[n] = IF n = 1 THEN LoadSection(l) ELSE LoadSection(LoadSection(l))
  <2> DEFINE Sol(f) == f = [k \in 0 .. n |-> IF k = 0 THEN l ELSE LoadSection(f[k - 1])]
  <2>1. PICK u : u = [k \in 0 .. n |-> IF k = 0 THEN l ELSE IF k = 1 THEN LoadSection(l)
                                      ELSE LoadSection(LoadSection(l))]
    OBVIOUS
  <2>2. Sol(u)
    <3>1. ASSUME NEW k \in 0 .. n PROVE u[k] = IF k = 0 THEN l ELSE LoadSection(u[k - 1])
      <4>1. k = 0 \/ k = 1 \/ k = 2
        OBVIOUS
      <4>2. CASE k = 0
        BY <2>1, <4>2
      <4>3. CASE k = 1
        <5>1. u[1] = LoadSection(l) /\ u[0] = l
          BY <2>1
        <5>2. k - 1 = 0 /\ k # 0
          BY <4>3
        <5>3. QED BY <4>3, <5>1, <5>2
      <4>4. CASE k = 2
        <5>1. n = 2 /\ k - 1 = 1 /\ k # 0
          BY <4>4
        <5>2. u[2] = LoadSection(LoadSection(l)) /\ u[1] = LoadSection(l)
          BY <2>1, <5>1
        <5>3. QED BY <4>4, <5>1, <5>2
      <4>5. QED BY <4>1, <4>2, <4>3, <4>4
    <3>2. PICK v : v = [k \in 0 .. n |-> IF k = 0 THEN l ELSE LoadSection(u[k - 1])]
      OBVIOUS
    <3>3. \A k \in 0 .. n : u[k] = v[k]
      BY <3>1, <3>2
    <3>4. u = v
      <4>1. DOMAIN u = 0 .. n /\ u = [k \in 0 .. n |-> u[k]]
        BY <2>1
      <4>2. v = [k \in 0 .. n |-> v[k]]
        BY <3>2
      <4>3. QED BY <3>3, <4>1, <4>2
    <3>5. QED BY <3>2, <3>4
  <2>3. LoadSections(l, n) = CHOOSE f : Sol(f)
    BY DEF LoadSections
  <2>4. PICK f : f = LoadSections(l, n) /\ Sol(f)
    <3> HIDE DEF Sol
    <3>1. QED BY <2>2, <2>3
  <2>5. f[0] = l /\ f[1] = LoadSection(f[0])
    <3>1. 0 \in 0 .. n /\ 1 \in 0 .. n /\ 1 # 0 /\ 1 - 1 = 0
      OBVIOUS
    <3>2. QED BY <2>4, <3>1
  <2>6. CASE n = 1
    BY <2>4, <2>5, <2>6
  <2>7. CASE n # 1
    <3>1. n = 2 /\ 2 \in 0 .. n /\ 2 # 0 /\ 2 - 1 = 1
      BY <2>7
    <3>2. f[2] = LoadSection(f[1])
      BY <2>4, <3>1
    <3>3. QED BY <2>4, <2>5, <2>7, <3>1, <3>2
  <2>8. QED BY <2>6, <2>7
<1>2. 1 \in {1, 2} /\ 2 \in {1, 2} /\ 2 # 1
  OBVIOUS
<1>3. QED BY <1>1, <1>2

\* A section that the image does not hold whole is refused.
LEMMA ShortSection ==
  ASSUME NEW image \in Seq(Int), NEW at \in Nat, NEW n \in Nat, Len(image) < at + 3 + n,
         at + 2 <= Len(image) => image[at + 2] = n + 1,
         NEW code, NEW consts, NEW seen, NEW strings, NEW bytes
  PROVE  LoadSection(State(image, at, code, consts, seen, strings, bytes)).status # "OK"
<1>1. PICK s : s = State(image, at, code, consts, seen, strings, bytes)
  OBVIOUS
<1>2. s.status = "OK" /\ s.at = at /\ s.image = image
  BY <1>1 DEF State
<1>3. PICK len \in Nat : len = Len(image)
  BY LenProperties
<1>4. Refuse(s, "TRUNCATED").status = "TRUNCATED" /\ Refuse(s, "SECTION_OOB").status = "SECTION_OOB"
  BY <1>1 DEF State, Refuse
<1>5. CASE ~ (at + 2 <= len)
  <2>1. ~ HeaderFits(s)
    BY <1>2, <1>3, <1>5 DEF HeaderFits
  <2>2. LoadSection(s) = Refuse(s, "TRUNCATED")
    BY <1>2, <2>1 DEF LoadSection
  <2>3. QED BY <1>1, <1>4, <2>2
<1>6. CASE at + 2 <= len
  <2>1. HeaderFits(s)
    BY <1>2, <1>3, <1>6 DEF HeaderFits
  <2>2. Cell(s, s.at + 1) = n + 1
    <3>1. (at + 1) + 1 = at + 2
      OBVIOUS
    <3>2. QED BY <1>2, <1>3, <1>6, <3>1 DEF Cell
  <2>3. ~ (at + 2 + (n + 1) <= len)
    BY <1>3
  <2>4. ~ PayloadFits(s)
    BY <1>2, <1>3, <2>2, <2>3 DEF PayloadFits
  <2>5. LoadSection(s) = Refuse(s, "SECTION_OOB")
    BY <1>2, <2>1, <2>4 DEF LoadSection
  <2>6. QED BY <1>1, <1>4, <2>5
<1>7. QED BY <1>5, <1>6

-----------------------------------------------------------------------------
(* A written image, whole or cut short.                                     *)

LEMMA WritableFits ==
  ASSUME NEW p, Writable(p)
  PROVE  \E m, n \in Nat :
           /\ m = Len(p.code) /\ m <= MaxProgramInstructions /\ p.code \in Seq([op : 0 .. LastOpcode, a : Int])
           /\ ConstantsFit(p, n) /\ n <= MaxProgramConstants
<1>1. PICK cs \in Seq([kind : KInt .. KNull, data : Seq(Int)]) : cs = p.consts
  BY DEF Writable
<1>2. PICK m \in Nat, n \in Nat : m = Len(p.code) /\ n = Len(cs)
  <2>1. PICK code \in Seq([op : 0 .. LastOpcode, a : Int]) : code = p.code
    BY DEF Writable
  <2>2. Len(code) \in Nat /\ Len(cs) \in Nat
    BY LenProperties
  <2>3. QED BY <2>1, <2>2
<1>3. [kind : KInt .. KNull, data : Seq(Int)] = Constant
  BY DEF Constant
<1>4. p.consts \in Seq(Constant)
  BY <1>1, <1>3
<1>5. \A k \in 1 .. n : DataFits(p.consts[k])
  <2>1. ASSUME NEW k \in 1 .. n PROVE DataFits(p.consts[k])
    <3>1. p.consts[k].kind \notin {KString, KBytes} =>
            Len(p.consts[k].data) = IF p.consts[k].kind \in {KInt, KBool} THEN 1 ELSE 0
      BY <1>1, <1>2 DEF Writable
    <3>2. QED BY <3>1 DEF DataFits
  <2>2. QED BY <2>1
<1>6. ConstantsFit(p, n) /\ n <= MaxProgramConstants /\ m <= MaxProgramInstructions
  BY <1>1, <1>2, <1>4, <1>5 DEF Writable, ConstantsFit
<1>7. QED BY <1>2, <1>6 DEF Writable

\* What is known of an image of which t has the first k cells.
Reads(t, k, image, p) ==
  /\ k < Len(image) => ~ Loads(t)
  /\ k = Len(image) => Loads(t) /\ ProgramIn(t) = p

\* What follows the header, for the rest of the loader.
LEMMA HeaderLoads ==
  ASSUME NEW t \in Seq(Int), 4 <= Len(t), t[1] = Magic, t[2] = Version,
         NEW e \in {1, 2}, t[4] = e
  PROVE  Load(t) = IF e = 1 THEN LoadSection(State(t, 4, <<>>, <<>>, {}, 0, 0))
                   ELSE LoadSection(LoadSection(State(t, 4, <<>>, <<>>, {}, 0, 0)))
<1>1. PICK l : l = State(t, 4, <<>>, <<>>, {}, 0, 0)
  OBVIOUS
<1>2. Loading(t) = l /\ l.image = t
  BY <1>1 DEF Loading, State
<1>3. Cell(l, 0) = Magic /\ Cell(l, 1) = Version /\ Cell(l, 3) = e
  <2>1. 0 + 1 = 1 /\ 1 + 1 = 2 /\ 3 + 1 = 4
    OBVIOUS
  <2>2. QED BY <1>2, <2>1 DEF Cell
<1>4. ~ (e > MaxSections)
  BY ImageAssumption
<1>5. ~ (Len(t) < 4)
  BY LenProperties
<1>6. Load(t) = LoadSections(l, e)[e]
  BY <1>2, <1>3, <1>4, <1>5 DEF Load
<1>7. CASE e = 1
  BY <1>1, <1>6, <1>7, LoadSectionsIs
<1>8. CASE e # 1
  <2>1. e = 2
    BY <1>8
  <2>2. QED BY <1>1, <1>6, <1>8, <2>1, LoadSectionsIs
<1>9. QED BY <1>7, <1>8

\* Too short for a header.
LEMMA HeaderCut ==
  ASSUME NEW t, Len(t) < 4
  PROVE  ~ Loads(t)
<1>1. Refuse(Loading(t), "TRUNCATED").status = "TRUNCATED"
  BY DEF Refuse, Loading
<1>2. Load(t) = Refuse(Loading(t), "TRUNCATED")
  BY DEF Load
<1>3. QED BY <1>1, <1>2 DEF Loads

\* An image without constants has one section.
LEMMA OneSectionReads ==
  ASSUME NEW p, NEW m \in Nat, p.code \in Seq([op : 0 .. LastOpcode, a : Int]), m = Len(p.code),
         m <= MaxProgramInstructions, p = [code |-> p.code, consts |-> <<>>],
         NEW t \in Seq(Int), NEW k \in Nat, k = Len(t), 4 <= k, k <= 7 + 2 * m,
         NEW image, BeginsWith(image, t, k), ImageOf(image, p, m, 0, 0)
  PROVE  Reads(t, k, image, p)
<1>1. PICK w \in Nat : w = 2 * m
  OBVIOUS
<1>2. /\ Len(image) = 7 + w
      /\ image[1] = Magic /\ image[2] = Version /\ image[4] = 1
      /\ image[5] = InstructionSection /\ image[6] = w + 1 /\ image[7] = m
      /\ CellsAt(image, 7, w, Joined(CodeParts(p))[m])
  <2>1. /\ Len(image) = 7 + 2 * m /\ image[1] = Magic /\ image[2] = Version /\ image[4] = 1
        /\ SectionAt(image, 4, InstructionSection, 2 * m, m)
        /\ CellsAt(image, 7, 2 * m, Joined(CodeParts(p))[m])
    BY DEF ImageOf
  <2>2. 4 + 1 = 5 /\ 4 + 2 = 6 /\ 4 + 3 = 7
    OBVIOUS
  <2>3. QED BY <1>1, <2>1, <2>2 DEF SectionAt
<1>3. \A i \in 1 .. k : t[i] = image[i]
  BY DEF BeginsWith
<1>4. PICK l : l = State(t, 4, <<>>, <<>>, {}, 0, 0)
  OBVIOUS
<1>5. Load(t) = LoadSection(l)
  <2>1. 1 \in 1 .. k /\ 2 \in 1 .. k /\ 4 \in 1 .. k /\ 4 <= Len(t)
    OBVIOUS
  <2>2. PICK e \in {1, 2} : e = 1
    OBVIOUS
  <2>3. t[1] = Magic /\ t[2] = Version /\ t[4] = e
    BY <1>2, <1>3, <2>1, <2>2
  <2>4. QED BY <1>4, <2>1, <2>2, <2>3, HeaderLoads
<1>6. CASE k < 7 + w
  <2>1. LoadSection(State(t, 4, <<>>, <<>>, {}, 0, 0)).status # "OK"
    <3>1. Len(t) < 4 + 3 + w
      BY <1>6
    <3>2. 4 + 2 <= Len(t) => t[4 + 2] = w + 1
      <4>1. SUFFICES ASSUME 6 <= k PROVE t[6] = w + 1
        BY <1>2
      <4>2. 6 \in 1 .. k
        BY <4>1
      <4>3. QED BY <1>2, <1>3, <4>2
    <3>3. PICK at \in Nat : at = 4
      OBVIOUS
    <3>4. Len(t) < at + 3 + w /\ (at + 2 <= Len(t) => t[at + 2] = w + 1)
      BY <3>1, <3>2, <3>3
    <3>5. PICK none, met, zero : none = <<>> /\ met = {} /\ zero = 0
      OBVIOUS
    <3>6. LoadSection(State(t, at, none, none, met, zero, zero)).status # "OK"
      BY <3>4, ShortSection
    <3>7. QED BY <3>3, <3>5, <3>6
  <2>2. ~ Loads(t)
    BY <1>4, <1>5, <2>1 DEF Loads
  <2>3. QED BY <1>2, <1>6, <2>2 DEF Reads
<1>7. CASE k = 7 + w
  <2>1. LoadSection(l) = State(t, 4 + 3 + 2 * m, p.code, <<>>, {InstructionSection}, 0, 0)
    <3>1. PICK at \in Nat : at = 4
      OBVIOUS
    <3>2. SectionAt(t, at, InstructionSection, 2 * m, m)
      <4>1. 5 \in 1 .. k /\ 6 \in 1 .. k /\ 7 \in 1 .. k
        BY <1>7
      <4>2. t[5] = InstructionSection /\ t[6] = w + 1 /\ t[7] = m
        BY <1>2, <1>3, <4>1
      <4>3. at + 1 = 5 /\ at + 2 = 6 /\ at + 3 = 7 /\ 7 + w <= Len(t)
        BY <1>7, <3>1
      <4>4. QED BY <1>1, <4>2, <4>3 DEF SectionAt
    <3>3. CellsAt(t, at + 3, 2 * m, Joined(CodeParts(p))[m])
      <4>1. at + 3 = 7
        BY <3>1
      <4>2. ASSUME NEW i \in 1 .. w PROVE t[7 + i] = Joined(CodeParts(p))[m][i]
        <5>1. 7 + i \in 1 .. k
          BY <1>7
        <5>2. QED BY <1>2, <1>3, <5>1 DEF CellsAt
      <4>3. QED BY <1>1, <4>1, <4>2 DEF CellsAt
    <3>4. LoadSection(State(t, at, <<>>, <<>>, {}, 0, 0)) =
            State(t, at + 3 + 2 * m, p.code, <<>>, {InstructionSection}, 0, 0)
      BY <3>2, <3>3, InstructionsLoad
    <3>5. QED BY <1>4, <3>1, <3>4
  <2>2. Load(t).status = "OK" /\ Load(t).code = p.code /\ Load(t).consts = <<>>
    BY <1>5, <2>1 DEF State
  <2>3. Loads(t) /\ ProgramIn(t) = p
    BY <2>2 DEF Loads, ProgramIn
  <2>4. QED BY <1>2, <1>7, <2>3 DEF Reads
<1>8. k < 7 + w \/ k = 7 + w
  BY <1>1
<1>9. QED BY <1>6, <1>7, <1>8

\* An image with constants has two.
LEMMA TwoSectionsRead ==
  ASSUME NEW p, NEW m \in Nat, p.code \in Seq([op : 0 .. LastOpcode, a : Int]), m = Len(p.code),
         m <= MaxProgramInstructions, p = [code |-> p.code, consts |-> p.consts],
         NEW n \in Nat, n # 0, ConstantsFit(p, n), n <= MaxProgramConstants,
         NEW size \in Nat, size = Len(Joined(ConstantParts(p))[n]),
         NEW t \in Seq(Int), NEW k \in Nat, k = Len(t), 4 <= k, k <= 10 + 2 * m + size,
         NEW image, BeginsWith(image, t, k), ImageOf(image, p, m, n, size)
  PROVE  Reads(t, k, image, p)
<1>1. PICK w \in Nat : w = 2 * m
  OBVIOUS
<1>2. /\ Len(image) = 10 + w + size
      /\ image[1] = Magic /\ image[2] = Version /\ image[4] = 2
      /\ image[5] = InstructionSection /\ image[6] = w + 1 /\ image[7] = m
      /\ CellsAt(image, 7, w, Joined(CodeParts(p))[m])
      /\ image[8 + w] = ConstantSection /\ image[9 + w] = size + 1 /\ image[10 + w] = n
      /\ CellsAt(image, 10 + w, size, Joined(ConstantParts(p))[n])
  <2>1. /\ Len(image) = 10 + 2 * m + size /\ image[1] = Magic /\ image[2] = Version /\ image[4] = 2
        /\ SectionAt(image, 4, InstructionSection, 2 * m, m)
        /\ CellsAt(image, 7, 2 * m, Joined(CodeParts(p))[m])
        /\ SectionAt(image, 7 + 2 * m, ConstantSection, size, n)
        /\ CellsAt(image, 10 + 2 * m, size, Joined(ConstantParts(p))[n])
    BY DEF ImageOf
  <2>2. 4 + 1 = 5 /\ 4 + 2 = 6 /\ 4 + 3 = 7
    OBVIOUS
  <2>3. 7 + w + 1 = 8 + w /\ 7 + w + 2 = 9 + w /\ 7 + w + 3 = 10 + w
    OBVIOUS
  <2>4. QED BY <1>1, <2>1, <2>2, <2>3 DEF SectionAt
<1>3. \A i \in 1 .. k : t[i] = image[i]
  BY DEF BeginsWith
<1>4. PICK l : l = State(t, 4, <<>>, <<>>, {}, 0, 0)
  OBVIOUS
<1>5. Load(t) = LoadSection(LoadSection(l))
  <2>1. 1 \in 1 .. k /\ 2 \in 1 .. k /\ 4 \in 1 .. k /\ 4 <= Len(t)
    OBVIOUS
  <2>2. PICK e \in {1, 2} : e = 2
    OBVIOUS
  <2>3. t[1] = Magic /\ t[2] = Version /\ t[4] = e
    BY <1>2, <1>3, <2>1, <2>2
  <2>4. e # 1
    BY <2>2
  <2>5. QED BY <1>4, <2>1, <2>3, <2>4, HeaderLoads
<1>6. CASE k < 7 + w
  <2>1. LoadSection(l).status # "OK"
    <3>1. Len(t) < 4 + 3 + w
      BY <1>6
    <3>2. 4 + 2 <= Len(t) => t[4 + 2] = w + 1
      <4>1. SUFFICES ASSUME 6 <= k PROVE t[6] = w + 1
        BY <1>2
      <4>2. 6 \in 1 .. k
        BY <4>1
      <4>3. QED BY <1>2, <1>3, <4>2
    <3>3. PICK at \in Nat : at = 4
      OBVIOUS
    <3>4. Len(t) < at + 3 + w /\ (at + 2 <= Len(t) => t[at + 2] = w + 1)
      BY <3>1, <3>2, <3>3
    <3>5. PICK none, met, zero : none = <<>> /\ met = {} /\ zero = 0
      OBVIOUS
    <3>6. LoadSection(State(t, at, none, none, met, zero, zero)).status # "OK"
      BY <3>4, ShortSection
    <3>7. QED BY <1>4, <3>3, <3>5, <3>6
  <2>2. LoadSection(LoadSection(l)) = LoadSection(l)
    BY <2>1, RefusedStays
  <2>3. ~ Loads(t)
    BY <1>5, <2>1, <2>2 DEF Loads
  <2>4. k < Len(image) /\ k # Len(image)
    <3>1. k < 10 + w + size
      BY ONLY <1>6, k \in Nat, w \in Nat, size \in Nat
    <3>2. k # 10 + w + size
      BY ONLY <3>1, k \in Nat, w \in Nat, size \in Nat
    <3>3. QED BY ONLY <1>2, <3>1, <3>2
  <2>5. QED BY <2>3, <2>4 DEF Reads
<1>7. ASSUME 7 + w <= k PROVE LoadSection(l) = State(t, 7 + w, p.code, <<>>, {InstructionSection}, 0, 0)
  <2>1. PICK at \in Nat : at = 4
    OBVIOUS
  <2>2. SectionAt(t, at, InstructionSection, 2 * m, m)
    <3>1. 5 \in 1 .. k /\ 6 \in 1 .. k /\ 7 \in 1 .. k
      BY <1>7
    <3>2. t[5] = InstructionSection /\ t[6] = w + 1 /\ t[7] = m
      BY <1>2, <1>3, <3>1
    <3>3. at + 1 = 5 /\ at + 2 = 6 /\ at + 3 = 7 /\ 7 + w <= Len(t)
      BY <1>7, <2>1
    <3>4. QED BY <1>1, <3>2, <3>3 DEF SectionAt
  <2>3. CellsAt(t, at + 3, 2 * m, Joined(CodeParts(p))[m])
    <3>1. at + 3 = 7
      BY <2>1
    <3>2. ASSUME NEW i \in 1 .. w PROVE t[7 + i] = Joined(CodeParts(p))[m][i]
      <4>1. 7 + i \in 1 .. k
        BY ONLY <1>7, i \in 1 .. w, w \in Nat, k \in Nat
      <4>2. QED BY <1>2, <1>3, <4>1 DEF CellsAt
    <3>3. QED BY <1>1, <3>1, <3>2 DEF CellsAt
  <2>4. LoadSection(State(t, at, <<>>, <<>>, {}, 0, 0)) =
          State(t, at + 3 + 2 * m, p.code, <<>>, {InstructionSection}, 0, 0)
    BY <2>2, <2>3, InstructionsLoad
  <2>5. at + 3 + 2 * m = 7 + w
    BY <1>1, <2>1
  <2>6. QED BY <1>4, <2>1, <2>4, <2>5
<1>8. CASE 7 + w <= k /\ k < 10 + w + size
  <2>1. LoadSection(State(t, 7 + w, p.code, <<>>, {InstructionSection}, 0, 0)).status # "OK"
    <3>1. PICK at \in Nat : at = 7 + w
      <4>1. 7 + w \in Nat
        BY ONLY w \in Nat
      <4>2. QED BY ONLY <4>1
    <3>2. Len(t) < at + 3 + size
      BY <1>8, <3>1
    <3>3. at + 2 <= Len(t) => t[at + 2] = size + 1
      <4>1. at + 2 = 9 + w
        BY <3>1
      <4>2. SUFFICES ASSUME 9 + w <= k PROVE t[9 + w] = size + 1
        BY <4>1
      <4>3. 9 + w \in 1 .. k
        BY <4>2
      <4>4. QED BY <1>2, <1>3, <4>3
    <3>4. PICK none, met, zero : none = <<>> /\ met = {InstructionSection} /\ zero = 0
      OBVIOUS
    <3>5. LoadSection(State(t, at, p.code, none, met, zero, zero)).status # "OK"
      BY <3>2, <3>3, ShortSection
    <3>6. QED BY <3>1, <3>4, <3>5
  <2>2. ~ Loads(t)
    BY <1>5, <1>7, <1>8, <2>1 DEF Loads
  <2>3. k < Len(image) /\ k # Len(image)
    BY <1>2, <1>8
  <2>4. QED BY <2>2, <2>3 DEF Reads
<1>9. CASE k = 10 + w + size
  <2>1. PICK at, cells : at \in Nat /\ at = 7 + w /\ cells = Joined(ConstantParts(p))[n]
    <3>1. 7 + w \in Nat
      BY ONLY w \in Nat
    <3>2. QED BY ONLY <3>1
  <2>2. SectionAt(t, at, ConstantSection, size, n)
    <3>1. 8 + w \in 1 .. k /\ 9 + w \in 1 .. k /\ 10 + w \in 1 .. k
      BY ONLY <1>9, w \in Nat, k \in Nat, size \in Nat
    <3>2. t[8 + w] = ConstantSection /\ t[9 + w] = size + 1 /\ t[10 + w] = n
      BY <1>2, <1>3, <3>1
    <3>3. at + 1 = 8 + w /\ at + 2 = 9 + w /\ at + 3 = 10 + w /\ at + 3 + size <= Len(t)
      <4>1. at = 7 + w
        BY <2>1
      <4>2. at + 1 = 8 + w /\ at + 2 = 9 + w /\ at + 3 = 10 + w /\ at + 3 + size <= k
        BY ONLY <4>1, <1>9, w \in Nat, k \in Nat, size \in Nat
      <4>3. QED BY ONLY <4>2, k = Len(t)
    <3>4. QED BY <3>2, <3>3 DEF SectionAt
  <2>3. CellsAt(t, at + 3, size, cells)
    <3>1. at + 3 = 10 + w
      BY <2>1
    <3>2. ASSUME NEW i \in 1 .. size PROVE t[10 + w + i] = cells[i]
      <4>1. 10 + w + i \in 1 .. k
        BY <1>9
      <4>2. QED BY <1>2, <1>3, <2>1, <4>1 DEF CellsAt
    <3>3. QED BY <3>1, <3>2 DEF CellsAt
  <2>4. size = Len(cells)
    BY <2>1
  <2>5. \E seen, strings, bytes :
          LoadSection(State(t, at, p.code, <<>>, {InstructionSection}, 0, 0)) =
            State(t, at + 3 + size, p.code, p.consts, seen, strings, bytes)
    <3>1. PICK code : code = p.code
      OBVIOUS
    <3>2. ConstantsRead(p, t, at, size, code)
      BY <2>1, <2>2, <2>3, <2>4, ConstantsLoad
    <3>3. QED BY <3>1, <3>2 DEF ConstantsRead
  <2>6. PICK seen, strings, bytes :
          LoadSection(State(t, at, p.code, <<>>, {InstructionSection}, 0, 0)) =
            State(t, at + 3 + size, p.code, p.consts, seen, strings, bytes)
    BY <2>5
  <2>7. Load(t) = State(t, at + 3 + size, p.code, p.consts, seen, strings, bytes)
    <3>1. 7 + w <= k
      BY <1>9
    <3>2. QED BY <1>5, <1>7, <2>1, <2>6, <3>1
  <2>8. Load(t).status = "OK" /\ Load(t).code = p.code /\ Load(t).consts = p.consts
    BY <2>7 DEF State
  <2>9. Loads(t) /\ ProgramIn(t) = p
    BY <2>8 DEF Loads, ProgramIn
  <2>10. ~ (k < Len(image))
    BY <1>2, <1>9
  <2>11. QED BY <2>9, <2>10 DEF Reads
<1>10. k < 7 + w \/ (7 + w <= k /\ k < 10 + w + size) \/ k = 10 + w + size
  <2>1. k <= 10 + w + size
    BY ONLY <1>1, k <= 10 + 2 * m + size
  <2>2. QED BY ONLY <2>1, k \in Nat, w \in Nat, size \in Nat
<1>11. QED BY <1>6, <1>8, <1>9, <1>10

\* A written image is read back as its program, and refused when it is cut short.
LEMMA WrittenImageReads ==
  ASSUME NEW p, Writable(p)
  PROVE  /\ Encode(p) \in Seq(Int)
         /\ Loads(Encode(p)) /\ ProgramIn(Encode(p)) = p
         /\ \A k \in 0 .. Len(Encode(p)) - 1 : ~ Loads(SubSeq(Encode(p), 1, k))
<1>1. PICK m \in Nat : \E n \in Nat :
        /\ m = Len(p.code) /\ m <= MaxProgramInstructions /\ p.code \in Seq([op : 0 .. LastOpcode, a : Int])
        /\ ConstantsFit(p, n) /\ n <= MaxProgramConstants
  BY WritableFits
<1>2. PICK n \in Nat :
        /\ m = Len(p.code) /\ m <= MaxProgramInstructions /\ p.code \in Seq([op : 0 .. LastOpcode, a : Int])
        /\ ConstantsFit(p, n) /\ n <= MaxProgramConstants
  BY <1>1
<1>3. p = [code |-> p.code, consts |-> p.consts]
  BY DEF Writable
<1>4. PICK size \in Nat : size = Len(Joined(ConstantParts(p))[n])
  <2>1. ConstantParts(p) \in Seq(Seq(Int)) /\ Len(ConstantParts(p)) = n
    BY <1>2, ConstantPartsType DEF ConstantsFit
  <2>2. PICK ps \in Seq(Seq(Int)) : ps = ConstantParts(p) /\ Len(ps) = n
    BY <2>1
  <2>3. n \in 0 .. Len(ps)
    BY <2>2
  <2>4. PICK cells \in Seq(Int) : cells = Joined(ps)[n]
    BY <2>3, JoinedSteps
  <2>5. Len(cells) \in Nat
    BY LenProperties
  <2>6. QED BY <2>2, <2>4, <2>5
<1>5. PICK image : image = Encode(p)
  OBVIOUS
<1>6. ImageOf(image, p, m, n, size)
  <2>1. p.code \in Seq([op : Int, a : Int])
    <3>1. PICK q, S, T : q = p.code /\ S = [op : 0 .. LastOpcode, a : Int] /\ T = [op : Int, a : Int]
      OBVIOUS
    <3>2. S \subseteq T
      BY <3>1, ImageAssumption
    <3>3. q \in Seq(S)
      BY <1>2, <3>1
    <3>4. q \in Seq(T)
      BY <3>2, <3>3, SeqMonotonic
    <3>5. QED BY <3>1, <3>4
  <2>2. ImageOf(Encode(p), p, m, n, size)
    BY <1>2, <1>4, <2>1, ImageCells
  <2>3. QED BY <1>5, <2>2
<1>7. PICK len \in Nat : len = Len(image) /\ image \in Seq(Int) /\ len = IF n = 0 THEN 7 + 2 * m ELSE 10 + 2 * m + size
  <2>1. image \in Seq(Int) /\ Len(image) = IF n = 0 THEN 7 + 2 * m ELSE 10 + 2 * m + size
    BY <1>6 DEF ImageOf
  <2>2. Len(image) \in Nat
    BY <2>1, LenProperties
  <2>3. QED BY <2>1, <2>2
<1>8. ASSUME NEW k \in Nat, k <= len, NEW t, BeginsWith(image, t, k) PROVE Reads(t, k, image, p)
  <2>1. t \in Seq(Int) /\ k = Len(t)
    BY <1>8 DEF BeginsWith
  <2>2. CASE k < 4
    <3>1. ~ Loads(t)
      BY <2>1, <2>2, HeaderCut
    <3>2. 7 <= len
      <4>1. PICK w \in Nat : w = 2 * m
        OBVIOUS
      <4>2. len = IF n = 0 THEN 7 + w ELSE 10 + w + size
        BY ONLY <4>1, <1>7
      <4>3. QED BY ONLY <4>2, w \in Nat, size \in Nat
    <3>3. k # len
      BY ONLY <2>2, <3>2, k \in Nat, len \in Nat
    <3>4. QED BY <1>7, <3>1, <3>3 DEF Reads
  <2>3. CASE 4 <= k /\ n = 0
    <3>1. p = [code |-> p.code, consts |-> <<>>]
      <4>1. PICK cs \in Seq(Constant) : cs = p.consts /\ Len(cs) = 0
        BY <1>2, <2>3 DEF ConstantsFit
      <4>2. cs = <<>>
        BY <4>1, EmptySeq
      <4>3. QED BY <1>3, <4>1, <4>2
    <3>2. k <= 7 + 2 * m
      BY <1>7, <1>8, <2>3
    <3>3. ImageOf(image, p, m, 0, 0)
      <4>1. 0 # 0 <=> FALSE
        OBVIOUS
      <4>2. QED BY <1>6, <2>3 DEF ImageOf
    <3>4. QED BY <1>2, <1>8, <2>1, <2>3, <3>1, <3>2, <3>3, OneSectionReads
  <2>4. CASE 4 <= k /\ n # 0
    <3>1. k <= 10 + 2 * m + size
      BY <1>7, <1>8, <2>4
    <3>2. QED BY <1>2, <1>3, <1>4, <1>6, <1>8, <2>1, <2>4, <3>1, TwoSectionsRead
  <2>5. k < 4 \/ 4 <= k
    OBVIOUS
  <2>6. QED BY <2>2, <2>3, <2>4, <2>5
<1>9. Loads(image) /\ ProgramIn(image) = p
  <2>1. BeginsWith(image, image, len)
    BY <1>7 DEF BeginsWith
  <2>2. len <= len
    OBVIOUS
  <2>3. Reads(image, len, image, p)
    BY <1>8, <2>1, <2>2
  <2>4. QED BY <1>7, <2>3 DEF Reads
<1>10. ASSUME NEW k \in 0 .. len - 1 PROVE ~ Loads(SubSeq(image, 1, k))
  <2>1. k \in Nat /\ k <= len /\ k < len
    BY ONLY len \in Nat, k \in 0 .. len - 1
  <2>2. BeginsWith(image, SubSeq(image, 1, k), k)
    <3>1. k <= Len(image)
      BY <1>7, <2>1
    <3>2. QED BY <1>7, <2>1, <3>1, ImageBegins
  <2>3. PICK t : t = SubSeq(image, 1, k)
    OBVIOUS
  <2>4. Reads(t, k, image, p)
    BY <1>8, <2>1, <2>2, <2>3
  <2>5. QED BY <1>7, <2>1, <2>3, <2>4 DEF Reads
<1>11. QED BY <1>5, <1>7, <1>9, <1>10

\* The images of the programs are as the commands rely on.
LEMMA ImagesFromWritable ==
  ASSUME ProgramsWritable
  PROVE  ImagesSound
<1>1. ASSUME NEW s \in Sources, NEW legacy \in BOOLEAN,
             NEW p \in CompileWith(GraphOf(s), legacy), NEW q \in CompileWith(GraphOf(s), legacy)
      PROVE  /\ p = q /\ Encode(p) \in Seq(Int)
             /\ Loads(Encode(p)) /\ ProgramIn(Encode(p)) = p
             /\ \A k \in 0 .. Len(Encode(p)) - 1 : ~ Loads(SubSeq(Encode(p), 1, k))
  <2>1. p = q /\ Writable(p)
    BY DEF ProgramsWritable
  <2>2. QED BY <2>1, WrittenImageReads
<1>2. QED BY <1>1 DEF ImagesSound, ImageSound

-----------------------------------------------------------------------------
(* One command at a time.                                                   *)

\* One airun works in the project at a time, and nobody saves a source while it
\* runs.  The code enforces neither; without it the results below are false.
Sequential == (\A b, c \in Builders : b = c) /\ ~ EditsDuringBuild

-----------------------------------------------------------------------------
(* The inductive invariant, over the sources s, the files dk and a job j.   *)

Prefix(cells, image) == \E k \in 0 .. Len(image) : cells = SubSeq(image, 1, k)

IsPath(path) == path = [dir |-> path.dir, key |-> path.key]

\* Every file is the beginning of an image, and a cache entry the beginning of
\* the image of the sources it is filed under.
FileOK(path, cells) ==
  /\ IsPath(path)
  /\ \E p \in AllPrograms : Prefix(cells, Encode(p))
  /\ path.dir = "cache" =>
       \E s \in Sources : /\ path.key = {GraphOf(s)}
                          /\ \E p \in Compile(GraphOf(s)) : Prefix(cells, Encode(p))
FilesOK(dk) == \A path \in DOMAIN dk : FileOK(path, dk[path])

\* The program the command j is to make, the files that hold it, whole or cut
\* short.
Goal(s, j) == CompileWith(GraphOf(s), j.cmd = "publish")
Exact(s, dk, j, path) == path \in DOMAIN dk /\ \E p \in Goal(s, j) : dk[path] = Encode(p)
Part(s, dk, j, path) == path \in DOMAIN dk /\ \E p \in Goal(s, j) : Prefix(dk[path], Encode(p))

\* The output of a command that works from sources: cut short only by a failed write.
FromSource(j) == ~ j.artifact /\ j.input # "image"
Made(s, dk, j) ==
  /\ Part(s, dk, j, OutPath(j))
  /\ j.alone => Exact(s, dk, j, OutPath(j))
Output(s, dk, j) == FromSource(j) => Made(s, dk, j)

IsJob(j) ==
  DOMAIN j = {"pc", "cmd", "input", "useCache", "out", "www", "program", "from", "to", "at", "then",
              "orElse", "artifact", "alone", "ran"}
Working == {"resolve", "publish", "key", "compile", "open", "write", "rekey", "copyOpen", "copy",
            "load", "target", "inspect", "package", "fail", "answer"}
JobTyped(j) ==
  /\ IsJob(j)
  /\ j.out \in {AppPath, DistPath} /\ j.cmd \in {"none", "run", "build", "publish"}
  /\ j.pc \in {"idle"} \cup Working
  /\ j.pc # "idle" => j.ran = {} /\ j.cmd # "none"
  /\ j.useCache => j.cmd # "publish"

\* write_program_as_aibc1 under way.
WriteOK(s, dk, j) ==
  /\ j.program # {} /\ j.program \subseteq Goal(s, j)
  /\ j.pc = "write" =>
       /\ OutPath(j) \in DOMAIN dk
       /\ \A p \in j.program : j.at \in 0 .. Len(Encode(p)) /\ dk[OutPath(j)] = SubSeq(Encode(p), 1, j.at)

\* The five uses of copy_file: a found image to the output, a cache entry to the
\* output, the output to the cache, a found image to the package, the package to
\* the web root.
Inputs == {AppPath, SiblingPath}
CopyArtifact(j) ==
  /\ j.artifact /\ j.cmd # "publish" /\ j.from \in Inputs /\ j.to = OutPath(j)
  /\ j.then = Built(j) /\ j.orElse = "fail"
CopyEntry(s, dk, j) ==
  /\ j.useCache /\ ~ j.artifact /\ j.from.dir \in {"cache", "unlinked"} /\ j.to = OutPath(j)
  /\ j.then = Built(j) /\ j.orElse = "compile"
  /\ j.from \in DOMAIN dk => Exact(s, dk, j, j.from)
CopyToCache(s, dk, j) ==
  /\ j.useCache /\ j.from = OutPath(j) /\ j.to \in {CachePath(GraphOf(s)), Unlinked(CachePath(GraphOf(s)))}
  /\ j.then = Built(j) /\ j.orElse = Built(j)
  /\ Made(s, dk, j)
CopyToPackage(j) ==
  /\ j.artifact /\ j.cmd = "publish" /\ j.from \in Inputs /\ j.to = j.out
  /\ j.then = "inspect" /\ j.orElse = "fail"
PackageLoads(dk, j) == j.out \in DOMAIN dk /\ Loads(dk[j.out])
CopyToWww(s, dk, j) ==
  /\ j.cmd = "publish" /\ j.from = j.out /\ j.to = WwwPath
  /\ j.then = "answer" /\ j.orElse = "fail"
  /\ PackageLoads(dk, j) /\ Output(s, dk, j)
CopyKind(s, dk, j) ==
  \/ CopyArtifact(j) \/ CopyEntry(s, dk, j) \/ CopyToCache(s, dk, j)
  \/ CopyToPackage(j) \/ CopyToWww(s, dk, j)
CopyOK(s, dk, j) ==
  /\ CopyKind(s, dk, j)
  /\ j.pc = "copyOpen" => j.at = 0
  /\ j.pc = "copy" => /\ j.from \in DOMAIN dk /\ j.to \in DOMAIN dk /\ j.from # j.to
                      /\ j.at \in 0 .. Len(dk[j.from])
                      /\ dk[j.to] = SubSeq(dk[j.from], 1, j.at)

JobOK(s, dk, j) ==
  /\ JobTyped(j)
  /\ j.pc = "publish" => j.cmd = "publish"
  /\ j.pc \in {"resolve", "load"} => j.cmd # "publish"
  /\ j.pc \in {"key", "rekey"} => j.useCache
  /\ j.pc \in {"publish", "resolve", "key", "compile", "open", "write", "rekey"} => ~ j.artifact
  /\ j.pc \in {"target", "inspect", "package"} => j.cmd = "publish"
  /\ j.pc \in {"open", "write"} => WriteOK(s, dk, j)
  /\ j.pc = "rekey" => Made(s, dk, j)
  /\ j.pc \in {"copyOpen", "copy"} => CopyOK(s, dk, j)
  /\ j.pc \in {"load", "target", "inspect", "package", "answer"} => Output(s, dk, j)
  /\ j.pc = "target" /\ j.artifact => j.from \in Inputs
  /\ j.pc \in {"package", "answer"} /\ j.cmd = "publish" => PackageLoads(dk, j)
  /\ j.pc = "answer" /\ j.cmd = "publish" /\ j.www /\ j.alone =>
       WwwPath \in DOMAIN dk /\ dk[WwwPath] = dk[j.out]

\* What the last command left is there as long as nothing else happens.
EndOK(s, dk, end) ==
  /\ end.ok /\ end.alone /\ ~ end.artifact => Exact(s, dk, end, end.path)
  /\ end.ok /\ end.cmd = "publish" =>
       /\ end.path \in DOMAIN dk /\ Loads(dk[end.path])
       /\ end.www /\ end.alone => WwwPath \in DOMAIN dk /\ dk[WwwPath] = dk[end.path]

BuildInv ==
  /\ src \in Sources
  /\ FilesOK(disk)
  /\ DOMAIN job = Builders /\ \A b \in Builders : JobOK(src, disk, job[b])
  /\ \A end \in last : Active = {} /\ EndOK(src, disk, end)

-----------------------------------------------------------------------------
(* Paths.                                                                   *)

Outputs == {AppPath, SiblingPath, DistPath}

LEMMA PathFacts ==
  /\ \A path \in Outputs \cup {WwwPath} : IsPath(path) /\ path.dir \notin {"cache", "unlinked"}
  /\ WwwPath \notin Outputs
BY DEF Outputs, IsPath, AppPath, SiblingPath, DistPath, WwwPath

LEMMA CachePathFacts ==
  ASSUME NEW graph
  PROVE  /\ IsPath(CachePath(graph)) /\ CachePath(graph).dir = "cache" /\ CachePath(graph).key = {graph}
BY DEF IsPath, CachePath

LEMMA UnlinkedFacts ==
  ASSUME NEW path, IsPath(path)
  PROVE  IsPath(Unlinked(path)) /\ Unlinked(path).dir = "unlinked" /\ Unlinked(path).key = path.key
<1>1. PICK d, k : path = [dir |-> d, key |-> k]
  BY DEF IsPath
<1>2. PICK u : u = Unlinked(path)
  OBVIOUS
<1>3. u = [path EXCEPT !.dir = "unlinked"]
  BY <1>2 DEF Unlinked
<1>4. u = [dir |-> "unlinked", key |-> k]
  BY <1>1, <1>3
<1>5. QED BY <1>1, <1>2, <1>4 DEF IsPath

LEMMA OutPathFacts ==
  ASSUME NEW j, JobTyped(j)
  PROVE  /\ OutPath(j) \in Outputs
         /\ j.cmd = "publish" => OutPath(j) = j.out
BY DEF JobTyped, OutPath, Outputs

LEMMA ArtifactFacts ==
  ASSUME NEW input
  PROVE  Artifact(input) \in Inputs
BY DEF Artifact, Inputs

-----------------------------------------------------------------------------
(* Beginnings of images.                                                    *)

LEMMA FrontFacts ==
  ASSUME NEW f \in Seq(Int), NEW k \in 0 .. Len(f)
  PROVE  /\ SubSeq(f, 1, k) \in Seq(Int) /\ Len(SubSeq(f, 1, k)) = k
         /\ \A i \in 1 .. k : SubSeq(f, 1, k)[i] = f[i]
OBVIOUS

\* The beginning that ends at the end is the whole.
LEMMA WholeFront ==
  ASSUME NEW f \in Seq(Int)
  PROVE  SubSeq(f, 1, Len(f)) = f
<1>1. PICK n \in Nat : n = Len(f)
  OBVIOUS
<1>2. n \in 0 .. Len(f)
  BY <1>1
<1>3. PICK g : g = SubSeq(f, 1, n)
  OBVIOUS
<1>4. g \in Seq(Int) /\ Len(g) = n /\ \A i \in 1 .. n : g[i] = f[i]
  BY <1>2, <1>3, FrontFacts
<1>5. g = f
  BY <1>1, <1>4, SeqEqual
<1>6. QED BY <1>1, <1>3, <1>5

\* A beginning of a beginning is a beginning.
LEMMA FrontOfFront ==
  ASSUME NEW f \in Seq(Int), NEW k \in 0 .. Len(f), NEW m \in 0 .. k
  PROVE  SubSeq(SubSeq(f, 1, k), 1, m) = SubSeq(f, 1, m)
<1>1. PICK g : g = SubSeq(f, 1, k)
  OBVIOUS
<1>2. g \in Seq(Int) /\ Len(g) = k /\ \A i \in 1 .. k : g[i] = f[i]
  BY <1>1, FrontFacts
<1>3. m \in 0 .. Len(g) /\ m \in 0 .. Len(f)
  BY <1>2
<1>4. PICK h : h = SubSeq(g, 1, m)
  OBVIOUS
<1>5. h \in Seq(Int) /\ Len(h) = m /\ \A i \in 1 .. m : h[i] = g[i]
  BY <1>2, <1>3, <1>4, FrontFacts
<1>6. PICK e : e = SubSeq(f, 1, m)
  OBVIOUS
<1>7. e \in Seq(Int) /\ Len(e) = m /\ \A i \in 1 .. m : e[i] = f[i]
  BY <1>3, <1>6, FrontFacts
<1>8. \A i \in 1 .. m : h[i] = e[i]
  <2>1. \A i \in 1 .. m : i \in 1 .. k
    BY <1>2, <1>3
  <2>2. QED BY ONLY <2>1, <1>2, <1>5, <1>7
<1>9. h = e
  BY <1>5, <1>7, <1>8, SeqEqual
<1>10. QED BY <1>1, <1>4, <1>6, <1>9

LEMMA EmptyFront ==
  ASSUME NEW f \in Seq(Int)
  PROVE  <<>> = SubSeq(f, 1, 0) /\ 0 \in 0 .. Len(f)
<1>1. 0 \in 0 .. Len(f)
  OBVIOUS
<1>2. PICK g : g = SubSeq(f, 1, 0)
  OBVIOUS
<1>3. g \in Seq(Int) /\ Len(g) = 0
  BY <1>1, <1>2, FrontFacts
<1>4. g = <<>>
  BY <1>3
<1>5. QED BY <1>1, <1>2, <1>4

\* What fwrite adds to the copy of the first at cells of f: nothing when all are
\* written, else the next ones.
LEMMA NextPiece ==
  ASSUME NEW f \in Seq(Int), NEW at \in 0 .. Len(f), NEW cells, cells = NextCells(f, at)
  PROVE  /\ cells = <<>> => at = Len(f)
         /\ cells # <<>> =>
              /\ at + Len(cells) \in 0 .. Len(f)
              /\ WriteAt(SubSeq(f, 1, at), at, cells) = SubSeq(f, 1, at + Len(cells))
<1>1. PICK n \in Nat : n = Len(f)
  OBVIOUS
<1>2. PICK to : to = IF at + Chunk < n THEN at + Chunk ELSE n
  OBVIOUS
<1>3. to \in 0 .. n /\ at <= to /\ at \in 0 .. n /\ (to = at => at = n)
  BY <1>1, <1>2, BuildAssumption
<1>4. cells = SubSeq(f, at + 1, to)
  BY <1>1, <1>2 DEF NextCells
<1>5. /\ cells \in Seq(Int) /\ Len(cells) = to - at
      /\ \A i \in 1 .. to - at : cells[i] = f[at + i]
  <2>1. PICK m \in Int : m = at + 1
    OBVIOUS
  <2>2. PICK c \in Nat : c = to - at
    BY <1>3
  <2>3. m .. to \subseteq 1 .. n /\ to \in Int /\ (to - m) + 1 = c /\ (~ (m <= to) => c = 0)
    BY <1>3, <2>1, <2>2
  <2>4. \A i \in m .. to : f[i] \in Int
    BY <1>1, <2>3
  <2>5. /\ cells \in Seq(Int) /\ Len(cells) = IF m <= to THEN (to - m) + 1 ELSE 0
        /\ \A i \in 1 .. (to - m) + 1 : cells[i] = f[(m + i) - 1]
    BY <1>4, <2>1, <2>3, <2>4, SubSeqProperties
  <2>6. Len(cells) = c /\ \A i \in 1 .. c : cells[i] = f[(m + i) - 1]
    BY <2>3, <2>5
  <2>7. \A i \in 1 .. c : (m + i) - 1 = at + i
    BY <2>1, <2>2
  <2>8. QED BY <2>2, <2>5, <2>6, <2>7
<1>6. cells = <<>> => at = Len(f)
  BY <1>1, <1>3, <1>5
<1>7. PICK g : g = SubSeq(f, 1, at)
  OBVIOUS
<1>8. g \in Seq(Int) /\ Len(g) = at /\ \A i \in 1 .. at : g[i] = f[i]
  BY <1>7, FrontFacts
<1>9. PICK h : h = SubSeq(f, 1, to)
  OBVIOUS
<1>10. h \in Seq(Int) /\ Len(h) = to /\ \A i \in 1 .. to : h[i] = f[i]
  BY <1>1, <1>3, <1>9, FrontFacts
<1>11. Longer(Len(g), at + Len(cells)) = to /\ at + Len(cells) = to
  BY <1>3, <1>5, <1>8 DEF Longer
<1>12. PICK w : w = WriteAt(g, at, cells)
  OBVIOUS
<1>13. w = [k \in 1 .. to |-> IF k \in at + 1 .. to THEN cells[k - at]
                              ELSE IF k <= at THEN g[k] ELSE 0]
  BY <1>8, <1>11, <1>12 DEF WriteAt
<1>14. ASSUME NEW k \in 1 .. to PROVE w[k] = h[k]
  <2>1. h[k] = f[k]
    BY <1>10
  <2>2. CASE k \in at + 1 .. to
    <3>1. k - at \in 1 .. to - at /\ at + (k - at) = k
      BY <1>3, <2>2
    <3>2. cells[k - at] = f[k]
      BY <1>5, <3>1
    <3>3. QED BY <1>13, <2>1, <2>2, <3>2
  <2>3. CASE k \notin at + 1 .. to
    <3>1. k \in 1 .. at /\ k <= at
      BY <1>3, <2>3
    <3>2. QED BY <1>8, <1>13, <2>1, <2>3, <3>1
  <2>4. QED BY <2>2, <2>3
<1>15. w = h
  <2>1. h = [k \in 1 .. to |-> h[k]]
    BY <1>10
  <2>2. w = [k \in 1 .. to |-> w[k]]
    BY <1>13
  <2>3. QED BY <1>14, <2>1, <2>2
<1>16. QED BY <1>1, <1>3, <1>6, <1>7, <1>9, <1>11, <1>12, <1>15

LEMMA PrefixFacts ==
  ASSUME NEW e \in Seq(Int), NEW cells, Prefix(cells, e)
  PROVE  /\ cells \in Seq(Int)
         /\ \A m \in 0 .. Len(cells) : Prefix(SubSeq(cells, 1, m), e)
<1>1. PICK k \in 0 .. Len(e) : cells = SubSeq(e, 1, k)
  BY DEF Prefix
<1>2. cells \in Seq(Int) /\ Len(cells) = k
  BY <1>1, FrontFacts
<1>3. ASSUME NEW m \in 0 .. Len(cells) PROVE Prefix(SubSeq(cells, 1, m), e)
  <2>1. m \in 0 .. k /\ m \in 0 .. Len(e)
    BY <1>2
  <2>2. SubSeq(cells, 1, m) = SubSeq(e, 1, m)
    BY <1>1, <2>1, FrontOfFront
  <2>3. QED BY <2>1, <2>2 DEF Prefix
<1>4. QED BY <1>2, <1>3

LEMMA PrefixEnds ==
  ASSUME NEW e \in Seq(Int)
  PROVE  Prefix(<<>>, e) /\ Prefix(e, e)
<1>1. Prefix(<<>>, e)
  BY EmptyFront DEF Prefix
<1>2. Len(e) \in 0 .. Len(e)
  OBVIOUS
<1>3. QED BY <1>1, <1>2, WholeFront DEF Prefix

-----------------------------------------------------------------------------
(* Programs and their images.                                               *)

LEMMA ProgramsOfSources ==
  ASSUME NEW s \in Sources
  PROVE  Compile(GraphOf(s)) \subseteq AllPrograms /\ CompileWith(GraphOf(s), TRUE) \subseteq AllPrograms
BY DEF AllPrograms

LEMMA GoalFacts ==
  ASSUME ImagesSound, NEW s \in Sources, NEW j
  PROVE  /\ Goal(s, j) \subseteq AllPrograms
         /\ \A p, q \in Goal(s, j) : p = q
         /\ j.cmd # "publish" => Goal(s, j) = Compile(GraphOf(s))
<1>1. PICK legacy \in BOOLEAN : legacy = (j.cmd = "publish")
  OBVIOUS
<1>2. Goal(s, j) = CompileWith(GraphOf(s), legacy)
  BY <1>1 DEF Goal
<1>3. \A p, q \in CompileWith(GraphOf(s), legacy) : p = q
  BY DEF ImagesSound, ImageSound
<1>4. CompileWith(GraphOf(s), legacy) \subseteq AllPrograms
  <2>1. \/ CompileWith(GraphOf(s), legacy) = Compile(GraphOf(s))
        \/ CompileWith(GraphOf(s), legacy) = CompileWith(GraphOf(s), TRUE)
    <3>1. CASE legacy
      <4>1. legacy = TRUE
        BY <3>1
      <4>2. QED BY <4>1
    <3>2. CASE ~ legacy
      <4>1. legacy = FALSE
        BY <3>2
      <4>2. QED BY <4>1 DEF Compile
    <3>3. QED BY <3>1, <3>2
  <2>2. QED BY <2>1, ProgramsOfSources
<1>5. ~ legacy => CompileWith(GraphOf(s), legacy) = Compile(GraphOf(s))
  BY DEF Compile
<1>6. QED BY <1>1, <1>2, <1>3, <1>4, <1>5

LEMMA CompileFacts ==
  ASSUME ImagesSound, NEW s \in Sources
  PROVE  /\ Compile(GraphOf(s)) \subseteq AllPrograms
         /\ \A p, q \in Compile(GraphOf(s)) : p = q
<1>1. Compile(GraphOf(s)) \subseteq AllPrograms
  BY ProgramsOfSources
<1>2. \A p, q \in CompileWith(GraphOf(s), FALSE) : p = q
  BY DEF ImagesSound, ImageSound
<1>3. QED BY <1>1, <1>2 DEF Compile

LEMMA ImageFacts ==
  ASSUME ImagesSound, NEW p \in AllPrograms
  PROVE  /\ Encode(p) \in Seq(Int) /\ Loads(Encode(p)) /\ ProgramIn(Encode(p)) = p
         /\ \A k \in 0 .. Len(Encode(p)) - 1 : ~ Loads(SubSeq(Encode(p), 1, k))
<1>1. PICK s \in Sources : p \in Compile(GraphOf(s)) \/ p \in CompileWith(GraphOf(s), TRUE)
  BY DEF AllPrograms
<1>2. PICK legacy \in BOOLEAN : p \in CompileWith(GraphOf(s), legacy)
  BY <1>1 DEF Compile
<1>3. ImageSound(s)
  BY DEF ImagesSound
<1>4. QED BY <1>2, <1>3 DEF ImageSound

\* A beginning of an image that loads is the whole of it.
LEMMA LoadsWhole ==
  ASSUME ImagesSound, NEW p \in AllPrograms, NEW cells, Prefix(cells, Encode(p)), Loads(cells)
  PROVE  cells = Encode(p)
<1>1. PICK e \in Seq(Int) : e = Encode(p)
  BY ImageFacts
<1>2. PICK k \in 0 .. Len(e) : cells = SubSeq(e, 1, k)
  BY <1>1 DEF Prefix
<1>3. ~ (k \in 0 .. Len(e) - 1)
  BY <1>1, <1>2, ImageFacts
<1>4. k = Len(e)
  BY <1>2, <1>3
<1>5. QED BY <1>1, <1>2, <1>4, WholeFront

-----------------------------------------------------------------------------
(* Files.                                                                   *)

\* dk2 is dk with cells as the contents of path.
Wrote(dk, path, cells, dk2) ==
  /\ DOMAIN dk2 = DOMAIN dk \cup {path}
  /\ dk2[path] = cells
  /\ \A p \in DOMAIN dk : p # path => dk2[p] = dk[p]

LEMMA FilesWritten ==
  ASSUME NEW dk, FilesOK(dk), NEW path, NEW cells, FileOK(path, cells), NEW dk2, Wrote(dk, path, cells, dk2)
  PROVE  FilesOK(dk2)
<1>1. ASSUME NEW p \in DOMAIN dk2 PROVE FileOK(p, dk2[p])
  <2>1. CASE p = path
    BY <2>1 DEF Wrote
  <2>2. CASE p # path
    <3>1. p \in DOMAIN dk /\ dk2[p] = dk[p]
      BY <2>2 DEF Wrote
    <3>2. QED BY <3>1 DEF FilesOK
  <2>3. QED BY <2>1, <2>2
<1>2. QED BY <1>1 DEF FilesOK

LEMMA FileTyped ==
  ASSUME ImagesSound, NEW path, NEW cells, FileOK(path, cells)
  PROVE  cells \in Seq(Int) /\ IsPath(path)
<1>1. PICK p \in AllPrograms : Prefix(cells, Encode(p))
  BY DEF FileOK
<1>2. QED BY <1>1, ImageFacts, PrefixFacts DEF FileOK

\* Writing one file leaves the others.
LEMMA OthersStay ==
  ASSUME NEW s, NEW dk, NEW j, NEW path, NEW w, NEW cells, NEW dk2, Wrote(dk, w, cells, dk2), path # w
  PROVE  /\ Exact(s, dk, j, path) => Exact(s, dk2, j, path)
         /\ Part(s, dk, j, path) => Part(s, dk2, j, path)
BY DEF Wrote, Exact, Part

LEMMA ExactIsPart ==
  ASSUME ImagesSound, NEW s \in Sources, NEW dk, NEW j, NEW path, Exact(s, dk, j, path)
  PROVE  Part(s, dk, j, path)
<1>1. PICK p \in Goal(s, j) : dk[path] = Encode(p)
  BY DEF Exact
<1>2. Encode(p) \in Seq(Int)
  BY GoalFacts, ImageFacts
<1>3. Prefix(Encode(p), Encode(p))
  BY <1>2, PrefixEnds
<1>4. QED BY <1>1, <1>3 DEF Exact, Part

\* The output stays as it is.
LEMMA MadeKept ==
  ASSUME NEW s, NEW dk, NEW j, Made(s, dk, j), NEW dk2, NEW j2,
         OutPath(j2) = OutPath(j), Goal(s, j2) = Goal(s, j), j2.alone => j.alone,
         OutPath(j) \in DOMAIN dk2, dk2[OutPath(j)] = dk[OutPath(j)]
  PROVE  Made(s, dk2, j2)
BY DEF Made, Part, Exact

-----------------------------------------------------------------------------
(* What a step of a command changes of its job.                             *)

Kept(j, j2) ==
  /\ IsJob(j2) /\ j2.cmd = j.cmd /\ j2.input = j.input /\ j2.useCache = j.useCache
  /\ j2.out = j.out /\ j2.ran = j.ran

LEMMA KeptFacts ==
  ASSUME NEW j, JobTyped(j), j.pc # "idle", NEW j2, Kept(j, j2), j2.pc \in Working
  PROVE  /\ JobTyped(j2) /\ j2.pc # "idle"
         /\ OutPath(j2) = OutPath(j) /\ Built(j2) = Built(j)
         /\ \A s : Goal(s, j2) = Goal(s, j)
<1>1. j2.pc # "idle"
  BY DEF Working
<1>2. JobTyped(j2)
  BY <1>1 DEF JobTyped, Kept
<1>3. QED BY <1>1, <1>2 DEF Kept, OutPath, Built, Goal

LEMMA CopyStep ==
  ASSUME NEW j, IsJob(j), NEW from, NEW to, NEW then, NEW orElse,
         NEW j2, j2 = CopyThen(j, from, to, then, orElse)
  PROVE  /\ Kept(j, j2) /\ j2.pc = "copyOpen" /\ j2.alone = j.alone /\ j2.artifact = j.artifact
         /\ j2.www = j.www /\ j2.from = from /\ j2.to = to /\ j2.at = 0 /\ j2.then = then
         /\ j2.orElse = orElse
BY DEF IsJob, Kept, CopyThen

-----------------------------------------------------------------------------
(* Where a step may arrive.                                                 *)

LEMMA AtPlain ==
  ASSUME NEW j, JobTyped(j), j.pc # "idle", NEW j2, Kept(j, j2), NEW s, NEW dk,
         \/ j2.pc = "fail"
         \/ j2.pc = "compile" /\ ~ j2.artifact
         \/ j2.pc = "key" /\ j.useCache /\ ~ j2.artifact
  PROVE  JobOK(s, dk, j2)
<1>1. j2.pc \in Working
  BY DEF Working
<1>2. JobTyped(j2)
  BY <1>1, KeptFacts
<1>3. QED BY <1>2 DEF JobOK, Kept

LEMMA AtBuilt ==
  ASSUME NEW j, JobTyped(j), j.pc # "idle", NEW j2, Kept(j, j2), j2.pc = Built(j), NEW s, NEW dk,
         Output(s, dk, j2), j.cmd = "publish" => ~ j2.artifact
  PROVE  JobOK(s, dk, j2)
<1>1. j.cmd \in {"run", "build", "publish"}
  BY DEF JobTyped
<1>2. /\ j2.pc \in {"answer", "load", "target"}
      /\ j2.pc = "answer" => j.cmd = "build"
      /\ j2.pc = "load" => j.cmd = "run"
      /\ j2.pc = "target" => j.cmd = "publish"
  BY <1>1 DEF Built
<1>3. JobTyped(j2)
  <2>1. j2.pc \in Working
    BY <1>2 DEF Working
  <2>2. QED BY <2>1, KeptFacts
<1>4. j2.cmd = j.cmd
  BY DEF Kept
<1>5. QED BY <1>2, <1>3, <1>4 DEF JobOK

LEMMA AtCopy ==
  ASSUME NEW j, JobTyped(j), j.pc # "idle", NEW j2, Kept(j, j2), j2.pc \in {"copyOpen", "copy"},
         NEW s, NEW dk, CopyOK(s, dk, j2)
  PROVE  JobOK(s, dk, j2)
<1>1. j2.pc \in Working
  BY DEF Working
<1>2. JobTyped(j2)
  BY <1>1, KeptFacts
<1>3. QED BY <1>2 DEF JobOK

-----------------------------------------------------------------------------
(* write_program_as_aibc1.                                                  *)

LEMMA OutFileOK ==
  ASSUME ImagesSound, NEW s \in Sources, NEW j, JobTyped(j), NEW p \in Goal(s, j),
         NEW cells, Prefix(cells, Encode(p))
  PROVE  FileOK(OutPath(j), cells)
<1>1. IsPath(OutPath(j)) /\ OutPath(j).dir # "cache"
  BY OutPathFacts, PathFacts
<1>2. p \in AllPrograms
  BY GoalFacts
<1>3. QED BY <1>1, <1>2 DEF FileOK

LEMMA WriteOpenKeeps ==
  ASSUME ImagesSound, NEW s \in Sources, NEW dk, FilesOK(dk), NEW j, JobOK(s, dk, j), j.pc = "open",
         NEW j2, j2 = [j EXCEPT !.pc = "write", !.at = 0],
         NEW dk2, Wrote(dk, OutPath(j), <<>>, dk2)
  PROVE  FilesOK(dk2) /\ JobOK(s, dk2, j2)
<1>1. JobTyped(j) /\ IsJob(j) /\ WriteOK(s, dk, j) /\ ~ j.artifact
  BY DEF JobOK, JobTyped
<1>2. /\ Kept(j, j2) /\ j2.pc = "write" /\ j2.program = j.program /\ j2.at = 0
      /\ j2.artifact = j.artifact
  BY <1>1 DEF IsJob, Kept
<1>3. /\ JobTyped(j2) /\ OutPath(j2) = OutPath(j) /\ Goal(s, j2) = Goal(s, j)
  <2>1. j2.pc \in Working
    BY <1>2 DEF Working
  <2>2. QED BY <1>1, <1>2, <2>1, KeptFacts
<1>4. PICK p \in j.program : p \in Goal(s, j)
  BY <1>1 DEF WriteOK
<1>5. FilesOK(dk2)
  <2>1. Encode(p) \in Seq(Int)
    BY <1>4, GoalFacts, ImageFacts
  <2>2. Prefix(<<>>, Encode(p))
    BY <2>1, PrefixEnds
  <2>3. FileOK(OutPath(j), <<>>)
    BY <1>1, <1>4, <2>2, OutFileOK
  <2>4. QED BY <2>3, FilesWritten
<1>6. WriteOK(s, dk2, j2)
  <2>1. j2.program # {} /\ j2.program \subseteq Goal(s, j2)
    BY <1>1, <1>2, <1>3 DEF WriteOK
  <2>2. OutPath(j2) \in DOMAIN dk2 /\ dk2[OutPath(j2)] = <<>>
    BY <1>3 DEF Wrote
  <2>3. ASSUME NEW q \in j2.program
        PROVE  0 \in 0 .. Len(Encode(q)) /\ <<>> = SubSeq(Encode(q), 1, 0)
    <3>1. Encode(q) \in Seq(Int)
      BY <1>3, <2>1, GoalFacts, ImageFacts
    <3>2. QED BY <3>1, EmptyFront
  <2>4. QED BY <1>2, <2>1, <2>2, <2>3 DEF WriteOK
<1>7. JobOK(s, dk2, j2)
  BY <1>1, <1>2, <1>3, <1>6 DEF JobOK
<1>8. QED BY <1>5, <1>7

\* The image being written is the one of every program the job may write.
LEMMA WritingImage ==
  ASSUME ImagesSound, NEW s \in Sources, NEW dk, NEW j, JobOK(s, dk, j), j.pc = "write",
         NEW p \in j.program
  PROVE  /\ Encode(p) \in Seq(Int) /\ p \in Goal(s, j) /\ \A q \in j.program : q = p
         /\ OutPath(j) \in DOMAIN dk /\ j.at \in 0 .. Len(Encode(p))
         /\ dk[OutPath(j)] = SubSeq(Encode(p), 1, j.at)
<1>1. WriteOK(s, dk, j)
  BY DEF JobOK
<1>2. p \in Goal(s, j) /\ \A q \in j.program : q = p
  BY <1>1, GoalFacts DEF WriteOK
<1>3. Encode(p) \in Seq(Int)
  BY <1>2, GoalFacts, ImageFacts
<1>4. QED BY <1>1, <1>2, <1>3 DEF WriteOK

\* write_program_as_aibc1 has returned 1.
LEMMA AtWritten ==
  ASSUME NEW j, JobTyped(j), j.pc # "idle", NEW j2, Kept(j, j2), j2.pc = Written(j), ~ j2.artifact,
         NEW s, NEW dk, Made(s, dk, j2)
  PROVE  JobOK(s, dk, j2)
<1>1. CASE j.useCache
  <2>1. j2.pc = "rekey" /\ j2.useCache
    BY <1>1 DEF Written, Kept
  <2>2. JobTyped(j2)
    <3>1. j2.pc \in Working
      BY <2>1 DEF Working
    <3>2. QED BY <3>1, KeptFacts
  <2>3. QED BY <2>1, <2>2 DEF JobOK
<1>2. CASE ~ j.useCache
  <2>1. j2.pc = Built(j) /\ Output(s, dk, j2)
    BY <1>2 DEF Written, Output
  <2>2. QED BY <2>1, AtBuilt
<1>3. QED BY <1>1, <1>2

LEMMA WriteDoneKeeps ==
  ASSUME ImagesSound, NEW s \in Sources, NEW dk, NEW j, JobOK(s, dk, j), j.pc = "write",
         NEW p \in j.program, NextCells(Encode(p), j.at) = <<>>,
         NEW j2, j2 = [j EXCEPT !.pc = Written(j)]
  PROVE  JobOK(s, dk, j2)
<1>1. JobTyped(j) /\ IsJob(j) /\ ~ j.artifact
  BY DEF JobOK, JobTyped
<1>2. Kept(j, j2) /\ j2.pc = Written(j) /\ j2.artifact = j.artifact
  <2>1. PICK pc : pc = Written(j)
    OBVIOUS
  <2>2. j2 = [j EXCEPT !.pc = pc]
    BY <2>1
  <2>3. Kept(j, j2) /\ j2.pc = pc /\ j2.artifact = j.artifact
    BY <1>1, <2>2 DEF IsJob, Kept
  <2>4. QED BY <2>1, <2>3
<1>3. Exact(s, dk, j, OutPath(j))
  <2>1. PICK e \in Seq(Int) : e = Encode(p)
    BY WritingImage
  <2>2. j.at \in 0 .. Len(e)
    BY <2>1, WritingImage
  <2>3. j.at = Len(e)
    BY <2>1, <2>2, NextPiece
  <2>4. dk[OutPath(j)] = e
    <3>1. dk[OutPath(j)] = SubSeq(e, 1, j.at)
      BY <2>1, WritingImage
    <3>2. SubSeq(e, 1, Len(e)) = e
      BY WholeFront
    <3>3. QED BY <2>3, <3>1, <3>2
  <2>5. QED BY <2>1, <2>4, WritingImage DEF Exact
<1>4. Made(s, dk, j2)
  <2>1. OutPath(j2) = OutPath(j) /\ Goal(s, j2) = Goal(s, j)
    BY <1>2 DEF Kept, OutPath, Goal
  <2>2. Exact(s, dk, j2, OutPath(j2))
    BY <1>3, <2>1 DEF Exact
  <2>3. QED BY <2>2, ExactIsPart DEF Made
<1>5. QED BY <1>1, <1>2, <1>4, AtWritten

\* A write fails: the image is given up, or left cut short unnoticed.
LEMMA WritingFailsKeeps ==
  ASSUME ImagesSound, NEW s \in Sources, NEW dk, NEW j, JobOK(s, dk, j), j.pc = "write",
         NEW pc \in {"fail", Written(j)}, NEW j2, j2 = [j EXCEPT !.pc = pc, !.alone = FALSE]
  PROVE  JobOK(s, dk, j2)
<1>1. JobTyped(j) /\ IsJob(j) /\ ~ j.artifact /\ j.program # {}
  BY DEF JobOK, JobTyped, WriteOK
<1>2. Kept(j, j2) /\ j2.pc = pc /\ ~ j2.alone /\ j2.artifact = j.artifact
  BY <1>1 DEF IsJob, Kept
<1>3. CASE pc = "fail"
  BY <1>1, <1>2, <1>3, AtPlain
<1>4. CASE pc = Written(j)
  <2>1. PICK p \in j.program : TRUE
    BY <1>1
  <2>2. /\ p \in Goal(s, j) /\ OutPath(j) \in DOMAIN dk /\ j.at \in 0 .. Len(Encode(p))
        /\ dk[OutPath(j)] = SubSeq(Encode(p), 1, j.at)
    BY <2>1, WritingImage
  <2>3. OutPath(j2) = OutPath(j) /\ Goal(s, j2) = Goal(s, j)
    BY <1>2 DEF Kept, OutPath, Goal
  <2>4. Part(s, dk, j2, OutPath(j2))
    BY <2>2, <2>3 DEF Part, Prefix
  <2>5. Made(s, dk, j2)
    BY <1>2, <2>4 DEF Made
  <2>6. QED BY <1>1, <1>2, <1>4, <2>5, AtWritten
<1>5. QED BY <1>3, <1>4

LEMMA WritePieceKeeps ==
  ASSUME ImagesSound, NEW s \in Sources, NEW dk, FilesOK(dk), NEW j, JobOK(s, dk, j), j.pc = "write",
         NEW p \in j.program, NEW cells, cells = NextCells(Encode(p), j.at), cells # <<>>,
         NEW j2, j2 = [j EXCEPT !.at = j.at + Len(cells)],
         NEW dk2, Wrote(dk, OutPath(j), WriteAt(dk[OutPath(j)], j.at, cells), dk2)
  PROVE  FilesOK(dk2) /\ JobOK(s, dk2, j2)
<1>1. JobTyped(j) /\ IsJob(j) /\ WriteOK(s, dk, j) /\ ~ j.artifact
  BY DEF JobOK, JobTyped
<1>2. /\ Kept(j, j2) /\ j2.pc = "write" /\ j2.program = j.program /\ j2.at = j.at + Len(cells)
      /\ j2.artifact = j.artifact
  <2>1. PICK at : at = j.at + Len(cells)
    OBVIOUS
  <2>2. j2 = [j EXCEPT !.at = at]
    BY <2>1
  <2>3. /\ Kept(j, j2) /\ j2.pc = j.pc /\ j2.program = j.program /\ j2.at = at
        /\ j2.artifact = j.artifact
    BY <1>1, <2>2 DEF IsJob, Kept
  <2>4. QED BY <2>1, <2>3
<1>3. /\ JobTyped(j2) /\ OutPath(j2) = OutPath(j) /\ Goal(s, j2) = Goal(s, j)
  <2>1. j2.pc \in Working
    BY <1>2 DEF Working
  <2>2. QED BY <1>1, <1>2, <2>1, KeptFacts
<1>4. PICK e \in Seq(Int) : e = Encode(p)
  BY WritingImage
<1>5. /\ j.at \in 0 .. Len(e) /\ dk[OutPath(j)] = SubSeq(e, 1, j.at) /\ p \in Goal(s, j)
      /\ OutPath(j) \in DOMAIN dk /\ \A q \in j.program : q = p
  BY <1>4, WritingImage
<1>6. PICK at : at = j.at
  OBVIOUS
<1>7. at + Len(cells) \in 0 .. Len(e) /\ WriteAt(SubSeq(e, 1, at), at, cells) = SubSeq(e, 1, at + Len(cells))
  BY <1>4, <1>5, <1>6, NextPiece
<1>8. dk2[OutPath(j)] = SubSeq(e, 1, j2.at) /\ j2.at \in 0 .. Len(e)
  BY <1>2, <1>5, <1>6, <1>7 DEF Wrote
<1>9. FilesOK(dk2)
  <2>1. PICK front : front = SubSeq(e, 1, j2.at) /\ front = WriteAt(dk[OutPath(j)], j.at, cells)
    BY <1>2, <1>5, <1>6, <1>7
  <2>2. Prefix(front, Encode(p))
    BY <1>4, <1>8, <2>1 DEF Prefix
  <2>3. FileOK(OutPath(j), front)
    BY <1>1, <1>5, <2>2, OutFileOK
  <2>4. Wrote(dk, OutPath(j), front, dk2)
    BY <2>1
  <2>5. QED BY <2>3, <2>4, FilesWritten
<1>10. WriteOK(s, dk2, j2)
  <2>1. j2.program # {} /\ j2.program \subseteq Goal(s, j2)
    BY <1>1, <1>2, <1>3 DEF WriteOK
  <2>2. OutPath(j2) \in DOMAIN dk2
    BY <1>3 DEF Wrote
  <2>3. ASSUME NEW q \in j2.program
        PROVE  j2.at \in 0 .. Len(Encode(q)) /\ dk2[OutPath(j2)] = SubSeq(Encode(q), 1, j2.at)
    <3>1. q = p
      BY <1>2, <1>5
    <3>2. QED BY <1>3, <1>4, <1>8, <3>1
  <2>4. QED BY <2>1, <2>2, <2>3 DEF WriteOK
<1>11. JobOK(s, dk2, j2)
  BY <1>1, <1>2, <1>3, <1>10 DEF JobOK
<1>12. QED BY <1>9, <1>11

-----------------------------------------------------------------------------
(* copy_file.                                                               *)

\* The copy goes on: from, to and what comes after it are the same.
SameCopy(j, j2) ==
  /\ Kept(j, j2) /\ j2.alone = j.alone /\ j2.artifact = j.artifact /\ j2.www = j.www
  /\ j2.from = j.from /\ j2.to = j.to /\ j2.then = j.then /\ j2.orElse = j.orElse

LEMMA CopyKindKept ==
  ASSUME NEW s, NEW dk, NEW j, JobTyped(j), j.pc # "idle", CopyKind(s, dk, j), j.from \in DOMAIN dk,
         j.from # j.to, NEW j2, SameCopy(j, j2), j2.pc \in Working,
         NEW cells, NEW dk2, Wrote(dk, j.to, cells, dk2)
  PROVE  CopyKind(s, dk2, j2)
<1>1. /\ OutPath(j2) = OutPath(j) /\ Built(j2) = Built(j) /\ Goal(s, j2) = Goal(s, j)
  BY KeptFacts DEF SameCopy
<1>2. CASE CopyArtifact(j)
  BY <1>1, <1>2 DEF CopyArtifact, SameCopy, Kept, CopyKind
<1>3. CASE CopyEntry(s, dk, j)
  <2>1. Exact(s, dk2, j, j.from)
    BY <1>3, OthersStay DEF CopyEntry
  <2>2. Exact(s, dk2, j2, j2.from)
    BY <1>1, <2>1 DEF Exact, SameCopy
  <2>3. CopyEntry(s, dk2, j2)
    BY <1>1, <1>3, <2>2 DEF CopyEntry, SameCopy, Kept
  <2>4. QED BY <2>3 DEF CopyKind
<1>4. CASE CopyToCache(s, dk, j)
  <2>1. OutPath(j) \in DOMAIN dk2 /\ dk2[OutPath(j)] = dk[OutPath(j)]
    BY <1>4 DEF CopyToCache, Wrote
  <2>2. Made(s, dk2, j2)
    BY <1>1, <1>4, <2>1, MadeKept DEF CopyToCache, SameCopy
  <2>3. CopyToCache(s, dk2, j2)
    BY <1>1, <1>4, <2>2 DEF CopyToCache, SameCopy, Kept
  <2>4. QED BY <2>3 DEF CopyKind
<1>5. CASE CopyToPackage(j)
  BY <1>1, <1>5 DEF CopyToPackage, SameCopy, Kept, CopyKind
<1>6. CASE CopyToWww(s, dk, j)
  <2>1. OutPath(j) = j.out /\ j.out # j.to
    BY <1>6, OutPathFacts DEF CopyToWww
  <2>2. PackageLoads(dk2, j2)
    BY <1>6, <2>1 DEF CopyToWww, PackageLoads, SameCopy, Kept, Wrote
  <2>3. Output(s, dk2, j2)
    <3>1. FromSource(j2) = FromSource(j) /\ j2.alone = j.alone
      BY DEF FromSource, SameCopy, Kept
    <3>2. OutPath(j) \in DOMAIN dk2 /\ dk2[OutPath(j)] = dk[OutPath(j)]
      BY <1>6, <2>1 DEF CopyToWww, Wrote
    <3>3. QED BY <1>1, <1>6, <3>1, <3>2, MadeKept DEF CopyToWww, Output
  <2>4. CopyToWww(s, dk2, j2)
    BY <1>6, <2>2, <2>3 DEF CopyToWww, SameCopy, Kept
  <2>5. QED BY <2>4 DEF CopyKind
<1>7. QED BY <1>2, <1>3, <1>4, <1>5, <1>6 DEF CopyKind

\* What may be written into the file a copy goes to.
LEMMA CopyTargetOK ==
  ASSUME ImagesSound, NEW s \in Sources, NEW dk, FilesOK(dk), NEW j, JobTyped(j), CopyKind(s, dk, j),
         j.from \in DOMAIN dk, NEW m \in 0 .. Len(dk[j.from])
  PROVE  FileOK(j.to, SubSeq(dk[j.from], 1, m))
<1>1. PICK f : f = dk[j.from]
  OBVIOUS
<1>2. FileOK(j.from, f) /\ f \in Seq(Int)
  BY <1>1, FileTyped DEF FilesOK
<1>3. PICK front : front = SubSeq(f, 1, m)
  OBVIOUS
<1>4. PICK p \in AllPrograms : Prefix(front, Encode(p))
  <2>1. PICK p \in AllPrograms : Prefix(f, Encode(p))
    BY <1>2 DEF FileOK
  <2>2. Prefix(front, Encode(p))
    BY <1>1, <1>3, <2>1, ImageFacts, PrefixFacts
  <2>3. QED BY <2>2
<1>5. CASE CopyToCache(s, dk, j)
  <2>1. PICK q \in Goal(s, j) : Prefix(f, Encode(q))
    BY <1>1, <1>5 DEF CopyToCache, Made, Part
  <2>2. Goal(s, j) = Compile(GraphOf(s))
    BY <1>5, GoalFacts DEF CopyToCache, JobTyped
  <2>3. q \in AllPrograms
    BY GoalFacts
  <2>4. Prefix(front, Encode(q))
    BY <1>1, <1>3, <2>1, <2>3, ImageFacts, PrefixFacts
  <2>5. IsPath(j.to) /\ (j.to.dir = "cache" => j.to.key = {GraphOf(s)})
    BY <1>5, CachePathFacts, UnlinkedFacts DEF CopyToCache
  <2>6. FileOK(j.to, front)
    BY <2>1, <2>2, <2>3, <2>4, <2>5 DEF FileOK
  <2>7. QED BY <1>1, <1>3, <2>6
<1>6. CASE ~ CopyToCache(s, dk, j)
  <2>1. j.to \in Outputs \cup {WwwPath}
    <3>1. j.to \in {OutPath(j), j.out, WwwPath}
      BY <1>6 DEF CopyKind, CopyArtifact, CopyEntry, CopyToPackage, CopyToWww
    <3>2. j.out \in Outputs /\ OutPath(j) \in Outputs
      BY OutPathFacts DEF JobTyped, Outputs
    <3>3. QED BY <3>1, <3>2
  <2>2. FileOK(j.to, front)
    BY <1>4, <2>1, PathFacts DEF FileOK
  <2>3. QED BY <1>1, <1>3, <2>2
<1>7. QED BY <1>5, <1>6

\* The copy is complete, or there was nothing to copy: the command goes on.
LEMMA CopyDoneKeeps ==
  ASSUME ImagesSound, NEW s \in Sources, NEW dk, NEW j, JobTyped(j), j.pc # "idle", CopyKind(s, dk, j),
         \/ j.from = j.to
         \/ j.from \in DOMAIN dk /\ j.to \in DOMAIN dk /\ dk[j.to] = dk[j.from],
         NEW j2, j2 = [j EXCEPT !.pc = j.then]
  PROVE  JobOK(s, dk, j2)
<1>1. IsJob(j)
  BY DEF JobTyped
<1>2. /\ Kept(j, j2) /\ j2.pc = j.then /\ j2.alone = j.alone /\ j2.artifact = j.artifact
      /\ j2.www = j.www
  BY <1>1 DEF IsJob, Kept
<1>3. j2.pc \in Working
  BY <1>2 DEF CopyKind, CopyArtifact, CopyEntry, CopyToCache, CopyToPackage, CopyToWww, Built, Working
<1>4. /\ JobTyped(j2) /\ OutPath(j2) = OutPath(j) /\ Built(j2) = Built(j) /\ Goal(s, j2) = Goal(s, j)
  BY <1>2, <1>3, KeptFacts
<1>5. CASE CopyArtifact(j)
  <2>1. Output(s, dk, j2)
    BY <1>2, <1>5 DEF Output, FromSource, CopyArtifact
  <2>2. QED BY <1>2, <1>5, <2>1, AtBuilt DEF CopyArtifact
<1>6. CASE CopyEntry(s, dk, j)
  <2>1. j.from # j.to
    BY <1>6, OutPathFacts, PathFacts DEF CopyEntry
  <2>2. Exact(s, dk, j2, OutPath(j2))
    BY <1>4, <1>6, <2>1 DEF CopyEntry, Exact
  <2>3. Output(s, dk, j2)
    BY <2>2, ExactIsPart DEF Output, Made
  <2>4. QED BY <1>2, <1>6, <2>3, AtBuilt DEF CopyEntry
<1>7. CASE CopyToCache(s, dk, j)
  <2>1. Made(s, dk, j2)
    BY <1>2, <1>4, <1>7, MadeKept DEF CopyToCache, Made, Part
  <2>2. Output(s, dk, j2)
    BY <2>1 DEF Output
  <2>3. j.cmd # "publish"
    BY <1>7 DEF CopyToCache, JobTyped
  <2>4. QED BY <1>2, <1>7, <2>2, <2>3, AtBuilt DEF CopyToCache
<1>8. CASE CopyToPackage(j)
  <2>1. Output(s, dk, j2)
    BY <1>2, <1>8 DEF Output, FromSource, CopyToPackage
  <2>2. QED BY <1>2, <1>4, <1>8, <2>1 DEF JobOK, CopyToPackage, Kept
<1>9. CASE CopyToWww(s, dk, j)
  <2>1. j.out \in Outputs /\ OutPath(j) = j.out
    BY <1>9, OutPathFacts DEF CopyToWww
  <2>2. j.from # j.to
    BY <1>9, <2>1, PathFacts DEF CopyToWww
  <2>3. WwwPath \in DOMAIN dk /\ dk[WwwPath] = dk[j2.out] /\ PackageLoads(dk, j2)
    BY <1>2, <1>9, <2>2 DEF CopyToWww, PackageLoads, Kept
  <2>4. Output(s, dk, j2)
    BY <1>2, <1>4, <1>9 DEF CopyToWww, Output, Made, FromSource, Exact, Part, Kept
  <2>5. j2.pc = "answer"
    BY <1>2, <1>9 DEF CopyToWww
  <2>6. QED BY <1>4, <2>3, <2>4, <2>5 DEF JobOK
<1>10. QED BY <1>5, <1>6, <1>7, <1>8, <1>9 DEF CopyKind

\* The file to be copied is not there.
LEMMA CopyMissingKeeps ==
  ASSUME NEW s, NEW dk, NEW j, JobOK(s, dk, j), j.pc = "copyOpen",
         j.from \notin DOMAIN dk, NEW j2, j2 = [j EXCEPT !.pc = j.orElse]
  PROVE  JobOK(s, dk, j2)
<1>1. JobTyped(j) /\ IsJob(j) /\ CopyKind(s, dk, j)
  BY DEF JobOK, JobTyped, CopyOK
<1>2. Kept(j, j2) /\ j2.pc = j.orElse /\ j2.artifact = j.artifact
  BY <1>1 DEF IsJob, Kept
<1>3. ~ CopyToCache(s, dk, j) /\ ~ CopyToWww(s, dk, j)
  BY DEF CopyToCache, CopyToWww, Made, Part, PackageLoads
<1>4. \/ j2.pc = "fail"
      \/ j2.pc = "compile" /\ ~ j2.artifact
  BY <1>1, <1>2, <1>3 DEF CopyKind, CopyArtifact, CopyEntry, CopyToPackage
<1>5. QED BY <1>1, <1>2, <1>4, AtPlain

LEMMA CopyOpenKeeps ==
  ASSUME ImagesSound, NEW s \in Sources, NEW dk, FilesOK(dk), NEW j, JobOK(s, dk, j), j.pc = "copyOpen",
         j.from \in DOMAIN dk, j.from # j.to, NEW j2, j2 = [j EXCEPT !.pc = "copy"],
         NEW dk2, Wrote(dk, j.to, <<>>, dk2)
  PROVE  FilesOK(dk2) /\ JobOK(s, dk2, j2)
<1>1. JobTyped(j) /\ IsJob(j) /\ CopyKind(s, dk, j) /\ j.at = 0
  BY DEF JobOK, JobTyped, CopyOK
<1>2. SameCopy(j, j2) /\ Kept(j, j2) /\ j2.pc = "copy" /\ j2.at = 0
  BY <1>1 DEF IsJob, Kept, SameCopy
<1>3. PICK f : f = dk[j.from]
  OBVIOUS
<1>4. f \in Seq(Int)
  BY <1>3, FileTyped DEF FilesOK
<1>5. 0 \in 0 .. Len(f) /\ <<>> = SubSeq(f, 1, 0)
  BY <1>4, EmptyFront
<1>6. FilesOK(dk2)
  <2>1. FileOK(j.to, SubSeq(f, 1, 0))
    BY <1>1, <1>3, <1>5, CopyTargetOK
  <2>2. FileOK(j.to, <<>>)
    BY <1>5, <2>1
  <2>3. QED BY <2>2, FilesWritten
<1>7. CopyKind(s, dk2, j2)
  <2>1. j2.pc \in Working
    BY <1>2 DEF Working
  <2>2. QED BY <1>1, <1>2, <2>1, CopyKindKept
<1>8. CopyOK(s, dk2, j2)
  <2>1. /\ j2.from \in DOMAIN dk2 /\ j2.to \in DOMAIN dk2 /\ j2.from # j2.to
        /\ dk2[j2.from] = f /\ dk2[j2.to] = <<>>
    BY <1>2, <1>3 DEF Wrote, SameCopy
  <2>2. QED BY <1>2, <1>5, <1>7, <2>1 DEF CopyOK
<1>9. QED BY <1>1, <1>2, <1>6, <1>8, AtCopy

LEMMA CopyPieceKeeps ==
  ASSUME ImagesSound, NEW s \in Sources, NEW dk, FilesOK(dk), NEW j, JobOK(s, dk, j), j.pc = "copy",
         NEW cells, cells = NextCells(dk[j.from], j.at), cells # <<>>,
         NEW j2, j2 = [j EXCEPT !.at = j.at + Len(cells)],
         NEW dk2, Wrote(dk, j.to, WriteAt(dk[j.to], j.at, cells), dk2)
  PROVE  FilesOK(dk2) /\ JobOK(s, dk2, j2)
<1>1. /\ JobTyped(j) /\ IsJob(j) /\ CopyKind(s, dk, j) /\ j.from \in DOMAIN dk /\ j.to \in DOMAIN dk
      /\ j.from # j.to /\ j.at \in 0 .. Len(dk[j.from]) /\ dk[j.to] = SubSeq(dk[j.from], 1, j.at)
  BY DEF JobOK, JobTyped, CopyOK
<1>2. SameCopy(j, j2) /\ Kept(j, j2) /\ j2.pc = "copy" /\ j2.at = j.at + Len(cells)
  <2>1. PICK at : at = j.at + Len(cells)
    OBVIOUS
  <2>2. j2 = [j EXCEPT !.at = at]
    BY <2>1
  <2>3. SameCopy(j, j2) /\ j2.pc = j.pc /\ j2.at = at
    BY <1>1, <2>2 DEF IsJob, Kept, SameCopy
  <2>4. QED BY <2>1, <2>3 DEF SameCopy
<1>3. PICK f : f = dk[j.from]
  OBVIOUS
<1>4. f \in Seq(Int)
  BY <1>1, <1>3, FileTyped DEF FilesOK
<1>5. PICK at : at = j.at
  OBVIOUS
<1>6. at + Len(cells) \in 0 .. Len(f) /\ WriteAt(SubSeq(f, 1, at), at, cells) = SubSeq(f, 1, at + Len(cells))
  BY <1>1, <1>3, <1>4, <1>5, NextPiece
<1>7. PICK front : front = SubSeq(f, 1, j2.at) /\ front = WriteAt(dk[j.to], j.at, cells)
  BY <1>1, <1>2, <1>3, <1>5, <1>6
<1>8. Wrote(dk, j.to, front, dk2) /\ j2.at \in 0 .. Len(f)
  BY <1>2, <1>5, <1>6, <1>7
<1>9. FilesOK(dk2)
  <2>1. FileOK(j.to, front)
    BY <1>1, <1>3, <1>7, <1>8, CopyTargetOK
  <2>2. QED BY <1>8, <2>1, FilesWritten
<1>10. CopyKind(s, dk2, j2)
  <2>1. j2.pc \in Working
    BY <1>2 DEF Working
  <2>2. QED BY <1>1, <1>2, <1>8, <2>1, CopyKindKept
<1>11. CopyOK(s, dk2, j2)
  <2>1. /\ j2.from \in DOMAIN dk2 /\ j2.to \in DOMAIN dk2 /\ j2.from # j2.to
        /\ dk2[j2.from] = f /\ dk2[j2.to] = front
    BY <1>1, <1>2, <1>3, <1>8 DEF Wrote, SameCopy
  <2>2. QED BY <1>2, <1>7, <1>8, <1>10, <2>1 DEF CopyOK
<1>12. QED BY <1>1, <1>2, <1>9, <1>11, AtCopy

\* All cells are copied.
LEMMA CopyEndKeeps ==
  ASSUME ImagesSound, NEW s \in Sources, NEW dk, FilesOK(dk), NEW j, JobOK(s, dk, j), j.pc = "copy",
         NextCells(dk[j.from], j.at) = <<>>, NEW j2, j2 = [j EXCEPT !.pc = j.then]
  PROVE  JobOK(s, dk, j2)
<1>1. /\ JobTyped(j) /\ CopyKind(s, dk, j) /\ j.from \in DOMAIN dk /\ j.to \in DOMAIN dk
      /\ j.at \in 0 .. Len(dk[j.from]) /\ dk[j.to] = SubSeq(dk[j.from], 1, j.at)
  BY DEF JobOK, CopyOK
<1>2. PICK f : f = dk[j.from]
  OBVIOUS
<1>3. f \in Seq(Int)
  BY <1>1, <1>2, FileTyped DEF FilesOK
<1>4. j.at = Len(f)
  BY <1>1, <1>2, <1>3, NextPiece
<1>5. dk[j.to] = f
  <2>1. SubSeq(f, 1, Len(f)) = f
    BY <1>3, WholeFront
  <2>2. QED BY <1>1, <1>2, <1>4, <2>1
<1>6. QED BY <1>1, <1>2, <1>5, CopyDoneKeeps

\* A write fails under the copy: it is given up, or its last cells are lost.
LEMMA CopyFailsKeeps ==
  ASSUME ImagesSound, NEW s \in Sources, NEW dk, FilesOK(dk), NEW j, JobOK(s, dk, j), j.pc = "copy",
         NEW pc \in {j.orElse, j.then}, NEW j2, j2 = [j EXCEPT !.pc = pc, !.alone = FALSE]
  PROVE  JobOK(s, dk, j2)
<1>1. /\ JobTyped(j) /\ IsJob(j) /\ CopyKind(s, dk, j) /\ j.from \in DOMAIN dk /\ j.to \in DOMAIN dk
      /\ j.at \in 0 .. Len(dk[j.from]) /\ dk[j.to] = SubSeq(dk[j.from], 1, j.at)
  BY DEF JobOK, JobTyped, CopyOK
<1>2. /\ Kept(j, j2) /\ j2.pc = pc /\ ~ j2.alone /\ j2.artifact = j.artifact /\ j2.www = j.www
  BY <1>1 DEF IsJob, Kept
<1>3. j2.pc \in Working
  BY <1>1, <1>2 DEF CopyKind, CopyArtifact, CopyEntry, CopyToCache, CopyToPackage, CopyToWww, Built, Working
<1>4. /\ JobTyped(j2) /\ OutPath(j2) = OutPath(j) /\ Built(j2) = Built(j) /\ Goal(s, j2) = Goal(s, j)
  BY <1>1, <1>2, <1>3, KeptFacts
<1>5. CASE CopyArtifact(j)
  <2>1. Output(s, dk, j2)
    BY <1>2, <1>5 DEF Output, FromSource, CopyArtifact
  <2>2. CASE pc = j.orElse
    BY <1>1, <1>2, <1>5, <2>2, AtPlain DEF CopyArtifact
  <2>3. CASE pc = j.then
    BY <1>1, <1>2, <1>5, <2>1, <2>3, AtBuilt DEF CopyArtifact
  <2>4. QED BY <2>2, <2>3
<1>6. CASE CopyEntry(s, dk, j)
  <2>1. PICK p \in Goal(s, j) : dk[j.from] = Encode(p)
    BY <1>1, <1>6 DEF CopyEntry, Exact
  <2>2. Prefix(dk[j.to], Encode(p))
    BY <1>1, <2>1 DEF Prefix
  <2>3. Part(s, dk, j2, OutPath(j2))
    BY <1>1, <1>4, <1>6, <2>2 DEF CopyEntry, Part
  <2>4. Output(s, dk, j2)
    BY <1>2, <2>3 DEF Output, Made
  <2>5. CASE pc = j.orElse
    BY <1>1, <1>2, <1>6, <2>5, AtPlain DEF CopyEntry
  <2>6. CASE pc = j.then
    BY <1>1, <1>2, <1>6, <2>4, <2>6, AtBuilt DEF CopyEntry
  <2>7. QED BY <2>5, <2>6
<1>7. CASE CopyToCache(s, dk, j)
  <2>1. Made(s, dk, j2)
    BY <1>2, <1>4, <1>7, MadeKept DEF CopyToCache, Made, Part
  <2>2. Output(s, dk, j2)
    BY <2>1 DEF Output
  <2>3. j.cmd # "publish" /\ pc = Built(j)
    BY <1>1, <1>7 DEF CopyToCache, JobTyped
  <2>4. QED BY <1>1, <1>2, <2>2, <2>3, AtBuilt
<1>8. CASE CopyToPackage(j)
  <2>1. Output(s, dk, j2)
    BY <1>2, <1>8 DEF Output, FromSource, CopyToPackage
  <2>2. CASE pc = j.orElse
    BY <1>1, <1>2, <1>8, <2>2, AtPlain DEF CopyToPackage
  <2>3. CASE pc = j.then
    BY <1>2, <1>4, <1>8, <2>1, <2>3 DEF JobOK, CopyToPackage, Kept
  <2>4. QED BY <2>2, <2>3
<1>9. CASE CopyToWww(s, dk, j)
  <2>1. PackageLoads(dk, j2)
    BY <1>2, <1>9 DEF CopyToWww, PackageLoads, Kept
  <2>2. Output(s, dk, j2)
    BY <1>2, <1>4, <1>9 DEF CopyToWww, Output, Made, FromSource, Part, Kept
  <2>3. CASE pc = j.orElse
    BY <1>1, <1>2, <1>9, <2>3, AtPlain DEF CopyToWww
  <2>4. CASE pc = j.then
    <3>1. j2.pc = "answer"
      BY <1>2, <1>9, <2>4 DEF CopyToWww
    <3>2. QED BY <1>2, <1>4, <2>1, <2>2, <3>1 DEF JobOK
  <2>5. QED BY <2>3, <2>4
<1>10. QED BY <1>1, <1>5, <1>6, <1>7, <1>8, <1>9 DEF CopyKind

-----------------------------------------------------------------------------
(* handle_clean.                                                            *)

\* The cache entry path is gone from dk2; a process that has it open still does.
Removed(dk, path, dk2) ==
  /\ DOMAIN dk2 = DOMAIN dk \ {path}
  /\ \A p \in DOMAIN dk2 : dk2[p] = dk[p]
Moved(dk, path, dk2) ==
  /\ DOMAIN dk2 = (DOMAIN dk \ {path}) \cup {Unlinked(path)}
  /\ dk2[Unlinked(path)] = dk[path]
  /\ \A p \in DOMAIN dk2 : p # Unlinked(path) => dk2[p] = dk[p]

LEMMA RemovedFilesOK ==
  ASSUME NEW dk, FilesOK(dk), NEW path, NEW dk2, Removed(dk, path, dk2)
  PROVE  FilesOK(dk2)
BY DEF FilesOK, Removed

LEMMA MovedFilesOK ==
  ASSUME NEW dk, FilesOK(dk), NEW path \in DOMAIN dk, NEW dk2, Moved(dk, path, dk2)
  PROVE  FilesOK(dk2)
<1>1. FileOK(path, dk[path])
  BY DEF FilesOK
<1>2. FileOK(Unlinked(path), dk[path])
  BY <1>1, UnlinkedFacts DEF FileOK
<1>3. ASSUME NEW p \in DOMAIN dk2 PROVE FileOK(p, dk2[p])
  BY <1>2 DEF FilesOK, Moved
<1>4. QED BY <1>3 DEF FilesOK

\* The output, the package and the web root are no cache entries.
LEMMA RemovedKeeps ==
  ASSUME NEW s, NEW dk, FilesOK(dk), NEW j, JobOK(s, dk, j), NEW path, path.dir = "cache",
         ~ (j.pc = "copy" /\ path \in {j.from, j.to}),
         NEW dk2, Removed(dk, path, dk2)
  PROVE  JobOK(s, dk2, j)
<1>1. JobTyped(j) /\ OutPath(j) # path /\ j.out # path /\ WwwPath # path
  <2>1. JobTyped(j)
    BY DEF JobOK
  <2>2. OutPath(j) \in Outputs /\ j.out \in Outputs
    BY <2>1, OutPathFacts DEF JobTyped, Outputs
  <2>3. QED BY <2>1, <2>2, PathFacts
<1>2. ASSUME NEW p, p # path
      PROVE  /\ (p \in DOMAIN dk2) = (p \in DOMAIN dk)
             /\ p \in DOMAIN dk => dk2[p] = dk[p]
             /\ Exact(s, dk, j, p) => Exact(s, dk2, j, p)
             /\ Part(s, dk, j, p) => Part(s, dk2, j, p)
  BY <1>2 DEF Removed, Exact, Part
<1>3. Made(s, dk, j) => Made(s, dk2, j)
  BY <1>1, <1>2 DEF Made
<1>4. Output(s, dk, j) => Output(s, dk2, j)
  BY <1>3 DEF Output
<1>5. PackageLoads(dk, j) => PackageLoads(dk2, j)
  BY <1>1, <1>2 DEF PackageLoads
<1>6. WriteOK(s, dk, j) => WriteOK(s, dk2, j)
  BY <1>1, <1>2 DEF WriteOK
<1>7. WwwPath \in DOMAIN dk /\ dk[WwwPath] = dk[j.out] /\ j.out \in DOMAIN dk =>
        WwwPath \in DOMAIN dk2 /\ dk2[WwwPath] = dk2[j.out]
  BY <1>1, <1>2
<1>8. ASSUME j.pc \in {"copyOpen", "copy"}, CopyOK(s, dk, j) PROVE CopyOK(s, dk2, j)
  <2>1. CopyKind(s, dk2, j)
    <3>1. CopyEntry(s, dk, j) => CopyEntry(s, dk2, j)
      <4>1. j.from \in DOMAIN dk2 => j.from \in DOMAIN dk /\ dk2[j.from] = dk[j.from]
        BY DEF Removed
      <4>2. QED BY <4>1 DEF CopyEntry, Exact
    <3>2. CopyToCache(s, dk, j) => CopyToCache(s, dk2, j)
      BY <1>3 DEF CopyToCache
    <3>3. CopyToWww(s, dk, j) => CopyToWww(s, dk2, j)
      BY <1>4, <1>5 DEF CopyToWww
    <3>4. CopyKind(s, dk, j)
      BY <1>8 DEF CopyOK
    <3>5. QED BY <3>1, <3>2, <3>3, <3>4 DEF CopyKind
  <2>2. CASE j.pc = "copy"
    <3>1. j.from # path /\ j.to # path
      BY <2>2
    <3>2. /\ j.from \in DOMAIN dk /\ j.to \in DOMAIN dk /\ j.from # j.to
          /\ j.at \in 0 .. Len(dk[j.from]) /\ dk[j.to] = SubSeq(dk[j.from], 1, j.at)
      BY <1>8, <2>2 DEF CopyOK
    <3>3. j.from \in DOMAIN dk2 /\ j.to \in DOMAIN dk2 /\ dk2[j.from] = dk[j.from] /\ dk2[j.to] = dk[j.to]
      BY <1>2, <3>1, <3>2
    <3>4. QED BY <2>1, <2>2, <3>2, <3>3 DEF CopyOK
  <2>3. CASE j.pc = "copyOpen"
    BY <1>8, <2>1, <2>3 DEF CopyOK
  <2>4. QED BY <1>8, <2>2, <2>3
<1>9. j.pc = "answer" /\ j.cmd = "publish" => j.out \in DOMAIN dk
  BY DEF JobOK, PackageLoads
<1>10. QED BY <1>3, <1>4, <1>5, <1>6, <1>7, <1>8, <1>9 DEF JobOK

LEMMA MovedKeeps ==
  ASSUME NEW s, NEW dk, FilesOK(dk), NEW j, JobOK(s, dk, j), NEW path \in DOMAIN dk, path.dir = "cache",
         j.pc = "copy", path \in {j.from, j.to}, NEW from, NEW to,
         from = (IF j.from = path THEN Unlinked(path) ELSE j.from),
         to = (IF j.to = path THEN Unlinked(path) ELSE j.to),
         NEW j2, j2 = [j EXCEPT !.from = from, !.to = to],
         NEW dk2, Moved(dk, path, dk2)
  PROVE  JobOK(s, dk2, j2)
<1>1. /\ JobTyped(j) /\ IsJob(j) /\ CopyKind(s, dk, j) /\ j.from \in DOMAIN dk /\ j.to \in DOMAIN dk
      /\ j.from # j.to /\ j.at \in 0 .. Len(dk[j.from]) /\ dk[j.to] = SubSeq(dk[j.from], 1, j.at)
  BY DEF JobOK, JobTyped, CopyOK
<1>2. /\ Kept(j, j2) /\ j2.pc = "copy" /\ j2.from = from /\ j2.to = to /\ j2.at = j.at
      /\ j2.then = j.then /\ j2.orElse = j.orElse /\ j2.artifact = j.artifact /\ j2.alone = j.alone
  BY <1>1 DEF IsJob, Kept
<1>3. j2.pc \in Working
  BY <1>2 DEF Working
<1>4. OutPath(j2) = OutPath(j) /\ Built(j2) = Built(j) /\ Goal(s, j2) = Goal(s, j)
  <2>1. JobTyped(j) /\ j.pc # "idle" /\ Kept(j, j2)
    BY <1>1, <1>2
  <2>2. Goal(s, j2) = Goal(s, j)
    BY <2>1 DEF Goal, Kept
  <2>3. OutPath(j2) = OutPath(j) /\ Built(j2) = Built(j)
    BY <2>1 DEF OutPath, Built, Kept
  <2>4. QED BY <2>2, <2>3
<1>5. IsPath(path) /\ Unlinked(path).dir = "unlinked" /\ Unlinked(path) # path
  BY UnlinkedFacts DEF FilesOK, FileOK
<1>6. OutPath(j) \in Outputs /\ j.out \in Outputs /\ Inputs \subseteq Outputs
  BY <1>1, OutPathFacts DEF JobTyped, Outputs, Inputs
<1>7. ASSUME NEW p \in Outputs \cup {WwwPath}
      PROVE  /\ p # path /\ p # Unlinked(path)
             /\ p \in DOMAIN dk => p \in DOMAIN dk2 /\ dk2[p] = dk[p]
  <2>1. p # path /\ p # Unlinked(path)
    BY <1>5, PathFacts
  <2>2. QED BY <2>1 DEF Moved
<1>8. CASE CopyEntry(s, dk, j)
  <2>1. j.to = OutPath(j) /\ j.to # path /\ j.from = path
    BY <1>6, <1>7, <1>8 DEF CopyEntry
  <2>2. from = Unlinked(path) /\ to = j.to
    BY <2>1
  <2>3. from \in DOMAIN dk2 /\ dk2[from] = dk[j.from] /\ to \in DOMAIN dk2 /\ dk2[to] = dk[j.to] /\ from # to
    BY <1>1, <1>6, <1>7, <2>1, <2>2 DEF Moved
  <2>4. Exact(s, dk2, j2, j2.from)
    BY <1>1, <1>2, <1>4, <1>8, <2>3 DEF CopyEntry, Exact
  <2>5. CopyEntry(s, dk2, j2)
    BY <1>2, <1>4, <1>5, <1>8, <2>1, <2>2, <2>4 DEF CopyEntry, Kept
  <2>6. CopyOK(s, dk2, j2)
    BY <1>1, <1>2, <2>3, <2>5 DEF CopyOK, CopyKind
  <2>7. QED BY <1>1, <1>2, <2>6, AtCopy
<1>9. CASE CopyToCache(s, dk, j)
  <2>1. j.from = OutPath(j) /\ j.from # path /\ j.to = path
    BY <1>6, <1>7, <1>9 DEF CopyToCache
  <2>2. from = j.from /\ to = Unlinked(path)
    BY <2>1
  <2>3. to = Unlinked(CachePath(GraphOf(s)))
    <3>1. path # Unlinked(CachePath(GraphOf(s)))
      BY CachePathFacts, UnlinkedFacts
    <3>2. path = CachePath(GraphOf(s))
      BY <1>9, <2>1, <3>1 DEF CopyToCache
    <3>3. QED BY <2>2, <3>2
  <2>4. from \in DOMAIN dk2 /\ dk2[from] = dk[j.from] /\ to \in DOMAIN dk2 /\ dk2[to] = dk[j.to] /\ from # to
    BY <1>1, <1>6, <1>7, <2>1, <2>2 DEF Moved
  <2>5. Made(s, dk2, j2)
    <3>1. Made(s, dk, j)
      BY <1>9 DEF CopyToCache
    <3>2. OutPath(j) \in DOMAIN dk2 /\ dk2[OutPath(j)] = dk[OutPath(j)]
      BY <2>1, <2>2, <2>4
    <3>3. OutPath(j2) = OutPath(j) /\ Goal(s, j2) = Goal(s, j) /\ (j2.alone => j.alone)
      BY <1>2, <1>4
    <3>4. OutPath(j) \in DOMAIN dk2 /\ dk2[OutPath(j)] = dk[OutPath(j)]
      BY <3>2
    <3>5. QED BY ONLY <3>1, <3>3, <3>4, MadeKept
  <2>6. CopyToCache(s, dk2, j2)
    BY <1>2, <1>4, <1>9, <2>1, <2>2, <2>3, <2>5 DEF CopyToCache, Kept
  <2>7. CopyOK(s, dk2, j2)
    BY <1>1, <1>2, <2>4, <2>6 DEF CopyOK, CopyKind
  <2>8. QED BY <1>1, <1>2, <2>7, AtCopy
<1>10. CASE CopyArtifact(j) \/ CopyToPackage(j) \/ CopyToWww(s, dk, j)
  <2>1. j.from \in Outputs /\ j.to \in Outputs \cup {WwwPath}
    BY <1>6, <1>10 DEF CopyArtifact, CopyToPackage, CopyToWww
  <2>2. QED BY <1>7, <2>1
<1>11. QED BY <1>1, <1>8, <1>9, <1>10 DEF CopyKind

-----------------------------------------------------------------------------
(* Processes that have ended.                                               *)

LEMMA IdleJob ==
  ASSUME NEW s, NEW dk, NEW j, \/ j = NoJob
                               \/ \E ran, artifact : j = [NoJob EXCEPT !.ran = ran, !.artifact = artifact]
  PROVE  JobOK(s, dk, j) /\ j.pc = "idle"
<1>1. IsJob(NoJob) /\ NoJob.pc = "idle" /\ NoJob.out = AppPath /\ NoJob.cmd = "none" /\ ~ NoJob.useCache
  BY DEF NoJob, IsJob
<1>2. IsJob(j) /\ j.pc = "idle" /\ j.out = AppPath /\ j.cmd = "none" /\ ~ j.useCache
  BY <1>1 DEF IsJob
<1>3. JobTyped(j)
  BY <1>2 DEF JobTyped
<1>4. QED BY <1>2, <1>3 DEF JobOK

-----------------------------------------------------------------------------
(* Every step keeps the invariant.                                          *)

LEMMA OnlyBuilder ==
  ASSUME Sequential, NEW b \in Builders
  PROVE  Builders = {b}
BY DEF Sequential

LEMMA JobOf ==
  ASSUME BuildInv, NEW b \in Builders
  PROVE  /\ src \in Sources /\ FilesOK(disk) /\ JobOK(src, disk, job[b]) /\ JobTyped(job[b]) /\ IsJob(job[b])
         /\ job[b].pc # "idle" => last = {}
<1>1. src \in Sources /\ FilesOK(disk) /\ JobOK(src, disk, job[b])
  BY DEF BuildInv
<1>2. JobTyped(job[b]) /\ IsJob(job[b])
  BY <1>1 DEF JobOK, JobTyped
<1>3. ASSUME job[b].pc # "idle" PROVE last = {}
  BY <1>3 DEF BuildInv, Active
<1>4. QED BY <1>1, <1>2, <1>3

\* The one builder goes on to j2, which suits the files.
LEMMA GoesKeeps ==
  ASSUME BuildInv, Sequential, NEW b \in Builders, job[b].pc # "idle", NEW j2, Goes(b, j2),
         src' = src, last' = last, FilesOK(disk'), JobOK(src, disk', j2)
  PROVE  BuildInv'
<1>1. Builders = {b}
  BY OnlyBuilder
<1>2. DOMAIN job' = Builders /\ job'[b] = j2
  BY DEF Goes, BuildInv
<1>3. last' = {}
  BY JobOf
<1>4. src' \in Sources
  BY DEF BuildInv
<1>5. \A c \in Builders : JobOK(src', disk', job'[c])
  BY <1>1, <1>2
<1>6. QED BY <1>2, <1>3, <1>4, <1>5 DEF BuildInv

\* The same when the files stay.
LEMMA GoesOnKeeps ==
  ASSUME BuildInv, Sequential, NEW b \in Builders, job[b].pc # "idle", NEW j2, Goes(b, j2),
         UNCHANGED <<src, disk, last>>, JobOK(src, disk, j2)
  PROVE  BuildInv'
<1>1. FilesOK(disk') /\ JobOK(src, disk', j2) /\ src' = src /\ last' = last
  BY DEF BuildInv
<1>2. QED BY <1>1, GoesKeeps

LEMMA ResolveKeeps ==
  ASSUME BuildInv, Sequential, NEW b \in Builders, Resolve(b)
  PROVE  BuildInv'
<1>1. PICK j : j = job[b]
  OBVIOUS
<1>2. JobTyped(j) /\ IsJob(j) /\ j.pc = "resolve" /\ j.cmd # "publish" /\ ~ j.artifact
  BY <1>1, JobOf DEF Resolve, At, JobOK
<1>3. PICK artifact \in Inputs : artifact = Artifact(j.input)
  BY ArtifactFacts
<1>4. PICK c : c = CopyThen(j, artifact, OutPath(j), Built(j), "fail")
  OBVIOUS
<1>5. PICK pc : pc = IF j.input = "image" THEN "fail" ELSE IF j.useCache THEN "key" ELSE "compile"
  OBVIOUS
<1>6. PICK j2 : Goes(b, j2) /\ (j2 = [c EXCEPT !.artifact = TRUE] \/ j2 = [j EXCEPT !.pc = pc])
  BY <1>1, <1>3, <1>4, <1>5 DEF Resolve
<1>7. CASE j2 = [c EXCEPT !.artifact = TRUE]
  <2>1. /\ Kept(j, c) /\ c.pc = "copyOpen" /\ c.from = artifact /\ c.to = OutPath(j)
        /\ c.at = 0 /\ c.then = Built(j) /\ c.orElse = "fail"
    BY <1>2, <1>4, CopyStep
  <2>2. /\ Kept(j, j2) /\ j2.pc = "copyOpen" /\ j2.from = artifact /\ j2.to = OutPath(j)
        /\ j2.at = 0 /\ j2.then = Built(j) /\ j2.orElse = "fail" /\ j2.artifact
    BY <1>7, <2>1 DEF Kept, IsJob
  <2>3. OutPath(j2) = OutPath(j) /\ Built(j2) = Built(j)
    <3>1. j2.pc \in Working
      BY <2>2 DEF Working
    <3>2. QED BY <1>2, <2>2, <3>1, KeptFacts
  <2>4. CopyOK(src, disk, j2)
    BY <1>2, <2>2, <2>3 DEF CopyOK, CopyKind, CopyArtifact, Kept
  <2>5. JobOK(src, disk, j2)
    BY <1>2, <2>2, <2>4, AtCopy
  <2>6. QED BY <1>1, <1>2, <1>6, <2>5, GoesOnKeeps DEF Resolve
<1>8. CASE j2 = [j EXCEPT !.pc = pc]
  <2>1. Kept(j, j2) /\ j2.pc = pc /\ j2.artifact = j.artifact
    BY <1>2, <1>8 DEF IsJob, Kept
  <2>2. JobOK(src, disk, j2)
    BY <1>2, <1>5, <2>1, AtPlain
  <2>3. QED BY <1>1, <1>2, <1>6, <2>2, GoesOnKeeps DEF Resolve
<1>9. QED BY <1>6, <1>7, <1>8

LEMMA PublishResolveKeeps ==
  ASSUME BuildInv, Sequential, NEW b \in Builders, PublishResolve(b)
  PROVE  BuildInv'
<1>1. PICK j : j = job[b]
  OBVIOUS
<1>2. JobTyped(j) /\ IsJob(j) /\ j.pc = "publish" /\ j.cmd = "publish" /\ ~ j.artifact
  BY <1>1, JobOf DEF PublishResolve, At, JobOK
<1>3. PICK artifact \in Inputs : artifact = Artifact(j.input)
  BY ArtifactFacts
<1>4. PICK found \in BOOLEAN : found = (j.input # "entry" /\ artifact \in DOMAIN disk)
  OBVIOUS
<1>5. PICK pc : pc = IF found THEN "target" ELSE IF j.input = "image" THEN "fail" ELSE "compile"
  OBVIOUS
<1>6. PICK j2 : Goes(b, j2) /\ j2 = [j EXCEPT !.artifact = found, !.from = artifact, !.pc = pc]
  BY <1>1, <1>3, <1>4, <1>5 DEF PublishResolve
<1>7. Kept(j, j2) /\ j2.pc = pc /\ j2.artifact = found /\ j2.from = artifact
  BY <1>2, <1>6 DEF IsJob, Kept
<1>8. JobOK(src, disk, j2)
  <2>1. CASE found
    <3>1. j2.pc = "target"
      BY <1>5, <1>7, <2>1
    <3>2. JobTyped(j2)
      <4>1. j2.pc \in Working
        BY <3>1 DEF Working
      <4>2. QED BY <1>2, <1>7, <4>1, KeptFacts
    <3>3. Output(src, disk, j2)
      BY <1>7, <2>1 DEF Output, FromSource
    <3>4. QED BY <1>2, <1>7, <3>1, <3>2, <3>3 DEF JobOK, Kept
  <2>2. CASE ~ found
    BY <1>2, <1>5, <1>7, <2>2, AtPlain
  <2>3. QED BY <2>1, <2>2
<1>9. QED BY <1>1, <1>2, <1>6, <1>8, GoesOnKeeps DEF PublishResolve

LEMMA CheckCacheKeeps ==
  ASSUME ImagesSound, BuildInv, Sequential, NEW b \in Builders, CheckCache(b)
  PROVE  BuildInv'
<1>1. PICK j : j = job[b]
  OBVIOUS
<1>2. /\ JobTyped(j) /\ IsJob(j) /\ j.pc = "key" /\ j.useCache /\ ~ j.artifact /\ j.cmd # "publish"
      /\ src \in Sources
  BY <1>1, JobOf DEF CheckCache, At, JobOK, JobTyped
<1>3. PICK entry : entry = CachePath(GraphOf(src))
  OBVIOUS
<1>4. PICK j2 : /\ Goes(b, j2)
                /\ \/ EntryUsable(entry) /\ j2 = CopyThen(j, entry, OutPath(j), Built(j), "compile")
                   \/ j2 = [j EXCEPT !.pc = "compile"]
  BY <1>1, <1>3 DEF CheckCache, GraphKey
<1>5. CASE EntryUsable(entry) /\ j2 = CopyThen(j, entry, OutPath(j), Built(j), "compile")
  <2>1. /\ Kept(j, j2) /\ j2.pc = "copyOpen" /\ j2.from = entry /\ j2.to = OutPath(j)
        /\ j2.at = 0 /\ j2.then = Built(j) /\ j2.orElse = "compile" /\ j2.artifact = j.artifact
    BY <1>2, <1>5, CopyStep
  <2>2. OutPath(j2) = OutPath(j) /\ Built(j2) = Built(j) /\ Goal(src, j2) = Goal(src, j)
    <3>1. j2.pc \in Working
      BY <2>1 DEF Working
    <3>2. QED BY <1>2, <2>1, <3>1, KeptFacts
  <2>3. entry.dir = "cache" /\ entry.key = {GraphOf(src)} /\ entry \in DOMAIN disk /\ Loads(disk[entry])
    BY <1>3, <1>5, CachePathFacts DEF EntryUsable
  <2>4. PICK s \in Sources : /\ entry.key = {GraphOf(s)}
                             /\ \E p \in Compile(GraphOf(s)) : Prefix(disk[entry], Encode(p))
    BY <2>3, JobOf DEF FilesOK, FileOK
  <2>5. GraphOf(s) = GraphOf(src)
    BY <2>3, <2>4
  <2>6. PICK p \in Goal(src, j2) : p \in AllPrograms /\ Prefix(disk[entry], Encode(p))
    BY <1>2, <2>2, <2>4, <2>5, GoalFacts
  <2>7. disk[entry] = Encode(p)
    BY <2>3, <2>6, LoadsWhole
  <2>8. Exact(src, disk, j2, j2.from)
    BY <2>1, <2>3, <2>6, <2>7 DEF Exact
  <2>9. CopyOK(src, disk, j2)
    BY <1>2, <2>1, <2>2, <2>3, <2>8 DEF CopyOK, CopyKind, CopyEntry, Kept
  <2>10. JobOK(src, disk, j2)
    BY <1>2, <2>1, <2>9, AtCopy
  <2>11. QED BY <1>1, <1>2, <1>4, <2>10, GoesOnKeeps DEF CheckCache
<1>6. CASE j2 = [j EXCEPT !.pc = "compile"]
  <2>1. Kept(j, j2) /\ j2.pc = "compile" /\ j2.artifact = j.artifact
    BY <1>2, <1>6 DEF IsJob, Kept
  <2>2. JobOK(src, disk, j2)
    BY <1>2, <2>1, AtPlain
  <2>3. QED BY <1>1, <1>2, <1>4, <2>2, GoesOnKeeps DEF CheckCache
<1>7. QED BY <1>4, <1>5, <1>6

LEMMA CompileAllKeeps ==
  ASSUME BuildInv, Sequential, NEW b \in Builders, CompileAll(b)
  PROVE  BuildInv'
<1>1. PICK j : j = job[b]
  OBVIOUS
<1>2. JobTyped(j) /\ IsJob(j) /\ j.pc = "compile" /\ ~ j.artifact
  BY <1>1, JobOf DEF CompileAll, At, JobOK
<1>3. PICK program : program = Goal(src, j)
  OBVIOUS
<1>4. PICK pc : pc = IF program = {} THEN "fail" ELSE "open"
  OBVIOUS
<1>5. PICK j2 : Goes(b, j2) /\ j2 = [j EXCEPT !.program = program, !.pc = pc]
  BY <1>1, <1>3, <1>4 DEF CompileAll, Goal
<1>6. Kept(j, j2) /\ j2.pc = pc /\ j2.artifact = j.artifact /\ j2.program = program
  BY <1>2, <1>5 DEF IsJob, Kept
<1>7. JobOK(src, disk, j2)
  <2>1. CASE program = {}
    BY <1>2, <1>4, <1>6, <2>1, AtPlain
  <2>2. CASE program # {}
    <3>1. j2.pc = "open"
      BY <1>4, <1>6, <2>2
    <3>2. JobTyped(j2) /\ Goal(src, j2) = Goal(src, j)
      <4>1. j2.pc \in Working
        BY <3>1 DEF Working
      <4>2. QED BY <1>2, <1>6, <4>1, KeptFacts
    <3>3. WriteOK(src, disk, j2)
      BY <1>3, <1>6, <2>2, <3>1, <3>2 DEF WriteOK
    <3>4. QED BY <1>2, <1>6, <3>1, <3>2, <3>3 DEF JobOK
  <2>3. QED BY <2>1, <2>2
<1>8. QED BY <1>1, <1>2, <1>5, <1>7, GoesOnKeeps DEF CompileAll

LEMMA StoreEntryKeeps ==
  ASSUME BuildInv, Sequential, NEW b \in Builders, StoreEntry(b)
  PROVE  BuildInv'
<1>1. PICK j : j = job[b]
  OBVIOUS
<1>2. /\ JobTyped(j) /\ IsJob(j) /\ j.pc = "rekey" /\ j.useCache /\ ~ j.artifact
      /\ Made(src, disk, j)
  BY <1>1, JobOf DEF StoreEntry, At, JobOK
<1>3. PICK j2 : /\ Goes(b, j2)
                /\ j2 = CopyThen(j, OutPath(j), CachePath(GraphOf(src)), Built(j), Built(j))
  BY <1>1 DEF StoreEntry, GraphKey
<1>4. /\ Kept(j, j2) /\ j2.pc = "copyOpen" /\ j2.from = OutPath(j) /\ j2.to = CachePath(GraphOf(src))
      /\ j2.at = 0 /\ j2.then = Built(j) /\ j2.orElse = Built(j) /\ j2.artifact = j.artifact
      /\ j2.alone = j.alone
  BY <1>2, <1>3, CopyStep
<1>5. OutPath(j2) = OutPath(j) /\ Built(j2) = Built(j) /\ Goal(src, j2) = Goal(src, j)
  <2>1. j2.pc \in Working
    BY <1>4 DEF Working
  <2>2. QED BY <1>2, <1>4, <2>1, KeptFacts
<1>6. Made(src, disk, j2)
  BY <1>2, <1>4, <1>5, MadeKept DEF Made, Part
<1>7. CopyOK(src, disk, j2)
  BY <1>2, <1>4, <1>5, <1>6 DEF CopyOK, CopyKind, CopyToCache, Kept
<1>8. JobOK(src, disk, j2)
  BY <1>2, <1>4, <1>7, AtCopy
<1>9. QED BY <1>1, <1>2, <1>3, <1>8, GoesOnKeeps DEF StoreEntry

LEMMA TruncateWrites ==
  ASSUME NEW path, Truncate(path)
  PROVE  Wrote(disk, path, <<>>, disk')
BY DEF Truncate, Wrote

LEMMA ExceptWrites ==
  ASSUME NEW path \in DOMAIN disk, NEW cells, disk' = [disk EXCEPT ![path] = cells]
  PROVE  Wrote(disk, path, cells, disk')
BY DEF Wrote

LEMMA WriteOpenStep ==
  ASSUME ImagesSound, BuildInv, Sequential, NEW b \in Builders, WriteOpen(b)
  PROVE  BuildInv'
<1>1. PICK j : j = job[b]
  OBVIOUS
<1>2. PICK j2 : Goes(b, j2) /\ j2 = [j EXCEPT !.pc = "write", !.at = 0]
  BY <1>1 DEF WriteOpen
<1>3. Wrote(disk, OutPath(j), <<>>, disk')
  BY <1>1, TruncateWrites DEF WriteOpen
<1>4. j.pc = "open" /\ src' = src /\ last' = last
  BY <1>1 DEF WriteOpen, At
<1>5. src \in Sources /\ FilesOK(disk) /\ JobOK(src, disk, j)
  BY <1>1, JobOf
<1>6. PICK dk2 : dk2 = disk'
  OBVIOUS
<1>7. FilesOK(dk2) /\ JobOK(src, dk2, j2)
  BY <1>2, <1>3, <1>4, <1>5, <1>6, WriteOpenKeeps
<1>8. QED BY <1>1, <1>2, <1>4, <1>6, <1>7, GoesKeeps

LEMMA WritePieceStep ==
  ASSUME ImagesSound, BuildInv, Sequential, NEW b \in Builders, WritePiece(b)
  PROVE  BuildInv'
<1>1. PICK j : j = job[b]
  OBVIOUS
<1>2. j.pc = "write" /\ src' = src /\ last' = last
  BY <1>1 DEF WritePiece, At
<1>3. src \in Sources /\ FilesOK(disk) /\ JobOK(src, disk, j)
  BY <1>1, JobOf
<1>4. PICK image : image = CHOOSE i \in {Encode(p) : p \in j.program} : TRUE
  OBVIOUS
<1>5. PICK p \in j.program : image = Encode(p)
  <2>1. j.program # {}
    BY <1>2, <1>3 DEF JobOK, WriteOK
  <2>2. PICK images : images = {Encode(p) : p \in j.program}
    OBVIOUS
  <2>3. \E i \in images : TRUE
    BY <2>1, <2>2
  <2>4. image \in images
    BY <1>4, <2>2, <2>3
  <2>5. QED BY <2>2, <2>4
<1>6. PICK cells : cells = NextCells(image, j.at)
  OBVIOUS
<1>7. PICK j2 :
        /\ Goes(b, j2)
        /\ \/ /\ cells = <<>> /\ disk' = disk
              /\ j2 = [j EXCEPT !.pc = Written(j)]
           \/ /\ cells # <<>> /\ j2 = [j EXCEPT !.at = j.at + Len(cells)]
              /\ disk' = [disk EXCEPT ![OutPath(j)] = WriteAt(disk[OutPath(j)], j.at, cells)]
  BY <1>1, <1>4, <1>6 DEF WritePiece
<1>8. CASE cells = <<>>
  <2>1. JobOK(src, disk, j2)
    BY <1>2, <1>3, <1>5, <1>6, <1>7, <1>8, WriteDoneKeeps
  <2>2. disk' = disk
    BY <1>7, <1>8
  <2>3. QED BY <1>1, <1>2, <1>7, <2>1, <2>2, GoesOnKeeps
<1>9. CASE cells # <<>>
  <2>1. OutPath(j) \in DOMAIN disk
    BY <1>2, <1>3, <1>5, WritingImage
  <2>2. PICK w : w = WriteAt(disk[OutPath(j)], j.at, cells)
    OBVIOUS
  <2>3. disk' = [disk EXCEPT ![OutPath(j)] = w]
    BY <1>7, <1>9, <2>2
  <2>4. PICK dk2 : dk2 = disk'
    OBVIOUS
  <2>5. Wrote(disk, OutPath(j), w, dk2)
    BY <2>1, <2>3, <2>4, ExceptWrites
  <2>6. j2 = [j EXCEPT !.at = j.at + Len(cells)]
    BY <1>7, <1>9
  <2>7. FilesOK(dk2) /\ JobOK(src, dk2, j2)
    BY <1>2, <1>3, <1>5, <1>6, <1>9, <2>2, <2>5, <2>6, WritePieceKeeps
  <2>8. QED BY <1>1, <1>2, <1>7, <2>4, <2>7, GoesKeeps
<1>10. QED BY <1>8, <1>9

LEMMA CopyOpenStep ==
  ASSUME ImagesSound, BuildInv, Sequential, NEW b \in Builders, CopyOpen(b)
  PROVE  BuildInv'
<1>1. PICK j : j = job[b]
  OBVIOUS
<1>2. j.pc = "copyOpen" /\ src' = src /\ last' = last
  BY <1>1 DEF CopyOpen, At
<1>3. src \in Sources /\ FilesOK(disk) /\ JobOK(src, disk, j)
  BY <1>1, JobOf
<1>4. PICK j2 :
        /\ Goes(b, j2)
        /\ \/ j.from = j.to /\ disk' = disk /\ j2 = [j EXCEPT !.pc = j.then]
           \/ j.from \notin DOMAIN disk /\ disk' = disk /\ j2 = [j EXCEPT !.pc = j.orElse]
           \/ j.from \in DOMAIN disk /\ j.from # j.to /\ Truncate(j.to) /\ j2 = [j EXCEPT !.pc = "copy"]
  <2>1. CASE j.from = j.to
    BY <1>1, <2>1 DEF CopyOpen
  <2>2. CASE j.from # j.to /\ j.from \notin DOMAIN disk
    BY <1>1, <2>2 DEF CopyOpen
  <2>3. CASE j.from # j.to /\ j.from \in DOMAIN disk
    BY <1>1, <2>3 DEF CopyOpen
  <2>4. QED BY <2>1, <2>2, <2>3
<1>5. CASE j.from = j.to /\ disk' = disk /\ j2 = [j EXCEPT !.pc = j.then]
  <2>1. JobTyped(j) /\ CopyKind(src, disk, j)
    BY <1>2, <1>3 DEF JobOK, CopyOK
  <2>2. JobOK(src, disk, j2)
    BY <1>2, <1>3, <1>5, <2>1, CopyDoneKeeps
  <2>3. QED BY <1>1, <1>2, <1>4, <1>5, <2>2, GoesOnKeeps
<1>6. CASE j.from \notin DOMAIN disk /\ disk' = disk /\ j2 = [j EXCEPT !.pc = j.orElse]
  <2>1. JobOK(src, disk, j2)
    BY <1>2, <1>3, <1>6, CopyMissingKeeps
  <2>2. QED BY <1>1, <1>2, <1>4, <1>6, <2>1, GoesOnKeeps
<1>7. CASE j.from \in DOMAIN disk /\ j.from # j.to /\ Truncate(j.to) /\ j2 = [j EXCEPT !.pc = "copy"]
  <2>1. PICK dk2 : dk2 = disk'
    OBVIOUS
  <2>2. Wrote(disk, j.to, <<>>, dk2)
    BY <1>7, <2>1, TruncateWrites
  <2>3. FilesOK(dk2) /\ JobOK(src, dk2, j2)
    BY <1>2, <1>3, <1>7, <2>2, CopyOpenKeeps
  <2>4. QED BY <1>1, <1>2, <1>4, <2>1, <2>3, GoesKeeps
<1>8. QED BY <1>4, <1>5, <1>6, <1>7

LEMMA CopyPieceStep ==
  ASSUME ImagesSound, BuildInv, Sequential, NEW b \in Builders, CopyPiece(b)
  PROVE  BuildInv'
<1>1. PICK j : j = job[b]
  OBVIOUS
<1>2. j.pc = "copy" /\ src' = src /\ last' = last
  BY <1>1 DEF CopyPiece, At
<1>3. src \in Sources /\ FilesOK(disk) /\ JobOK(src, disk, j)
  BY <1>1, JobOf
<1>4. PICK cells : cells = NextCells(disk[j.from], j.at)
  OBVIOUS
<1>5. PICK j2 :
        /\ Goes(b, j2)
        /\ \/ cells = <<>> /\ disk' = disk /\ j2 = [j EXCEPT !.pc = j.then]
           \/ /\ cells # <<>> /\ j2 = [j EXCEPT !.at = j.at + Len(cells)]
              /\ disk' = [disk EXCEPT ![j.to] = WriteAt(disk[j.to], j.at, cells)]
  BY <1>1, <1>4 DEF CopyPiece
<1>6. CASE cells = <<>>
  <2>1. j2 = [j EXCEPT !.pc = j.then] /\ disk' = disk
    BY <1>5, <1>6
  <2>2. JobOK(src, disk, j2)
    BY <1>2, <1>3, <1>4, <1>6, <2>1, CopyEndKeeps
  <2>3. QED BY <1>1, <1>2, <1>5, <2>1, <2>2, GoesOnKeeps
<1>7. CASE cells # <<>>
  <2>1. j.to \in DOMAIN disk
    BY <1>2, <1>3 DEF JobOK, CopyOK
  <2>2. PICK w : w = WriteAt(disk[j.to], j.at, cells)
    OBVIOUS
  <2>3. disk' = [disk EXCEPT ![j.to] = w]
    BY <1>5, <1>7, <2>2
  <2>4. PICK dk2 : dk2 = disk'
    OBVIOUS
  <2>5. Wrote(disk, j.to, w, dk2)
    BY <2>1, <2>3, <2>4, ExceptWrites
  <2>6. j2 = [j EXCEPT !.at = j.at + Len(cells)]
    BY <1>5, <1>7
  <2>7. FilesOK(dk2) /\ JobOK(src, dk2, j2)
    BY <1>2, <1>3, <1>4, <1>7, <2>2, <2>5, <2>6, CopyPieceKeeps
  <2>8. QED BY <1>1, <1>2, <1>5, <2>4, <2>7, GoesKeeps
<1>8. QED BY <1>6, <1>7

LEMMA CheckTargetKeeps ==
  ASSUME BuildInv, Sequential, NEW b \in Builders, CheckTarget(b)
  PROVE  BuildInv'
<1>1. PICK j : j = job[b]
  OBVIOUS
<1>2. /\ JobTyped(j) /\ IsJob(j) /\ j.pc = "target" /\ j.cmd = "publish" /\ Output(src, disk, j)
      /\ j.artifact => j.from \in Inputs
  BY <1>1, JobOf DEF CheckTarget, At, JobOK
<1>3. PICK c : c = CopyThen(j, j.from, j.out, "inspect", "fail")
  OBVIOUS
<1>4. PICK j2, www :
        /\ Goes(b, j2)
        /\ \/ j2 = [j EXCEPT !.pc = "fail"]
           \/ j.artifact /\ j2 = [c EXCEPT !.www = www]
           \/ j2 = [j EXCEPT !.pc = "inspect", !.www = www]
  BY <1>1, <1>3 DEF CheckTarget
<1>5. CASE j2 = [j EXCEPT !.pc = "fail"]
  <2>1. Kept(j, j2) /\ j2.pc = "fail"
    BY <1>2, <1>5 DEF IsJob, Kept
  <2>2. JobOK(src, disk, j2)
    BY <1>2, <2>1, AtPlain
  <2>3. QED BY <1>1, <1>2, <1>4, <2>2, GoesOnKeeps DEF CheckTarget
<1>6. CASE j.artifact /\ j2 = [c EXCEPT !.www = www]
  <2>1. /\ Kept(j, c) /\ c.pc = "copyOpen" /\ c.from = j.from /\ c.to = j.out /\ c.artifact = j.artifact
        /\ c.at = 0 /\ c.then = "inspect" /\ c.orElse = "fail"
    BY <1>2, <1>3, CopyStep
  <2>2. /\ Kept(j, j2) /\ j2.pc = "copyOpen" /\ j2.from = j.from /\ j2.to = j.out /\ j2.artifact = j.artifact
        /\ j2.at = 0 /\ j2.then = "inspect" /\ j2.orElse = "fail"
    BY <1>6, <2>1 DEF Kept, IsJob
  <2>3. CopyOK(src, disk, j2)
    BY <1>2, <1>6, <2>2 DEF CopyOK, CopyKind, CopyToPackage, Kept
  <2>4. JobOK(src, disk, j2)
    BY <1>2, <2>2, <2>3, AtCopy
  <2>5. QED BY <1>1, <1>2, <1>4, <2>4, GoesOnKeeps DEF CheckTarget
<1>7. CASE j2 = [j EXCEPT !.pc = "inspect", !.www = www]
  <2>1. Kept(j, j2) /\ j2.pc = "inspect" /\ j2.artifact = j.artifact /\ j2.alone = j.alone
    BY <1>2, <1>7 DEF IsJob, Kept
  <2>2. JobTyped(j2) /\ OutPath(j2) = OutPath(j) /\ Goal(src, j2) = Goal(src, j)
    <3>1. j2.pc \in Working
      BY <2>1 DEF Working
    <3>2. QED BY <1>2, <2>1, <3>1, KeptFacts
  <2>3. Output(src, disk, j2)
    BY <1>2, <2>1, <2>2 DEF Output, Made, FromSource, Exact, Part, Kept
  <2>4. JobOK(src, disk, j2)
    BY <1>2, <2>1, <2>2, <2>3 DEF JobOK, Kept
  <2>5. QED BY <1>1, <1>2, <1>4, <2>4, GoesOnKeeps DEF CheckTarget
<1>8. QED BY <1>4, <1>5, <1>6, <1>7

LEMMA InspectKeeps ==
  ASSUME BuildInv, Sequential, NEW b \in Builders, Inspect(b)
  PROVE  BuildInv'
<1>1. PICK j : j = job[b]
  OBVIOUS
<1>2. JobTyped(j) /\ IsJob(j) /\ j.pc = "inspect" /\ j.cmd = "publish" /\ Output(src, disk, j)
  BY <1>1, JobOf DEF Inspect, At, JobOK
<1>3. PICK pc : pc = IF PackageLoads(disk, j) THEN "package" ELSE "fail"
  OBVIOUS
<1>4. PICK j2 : Goes(b, j2) /\ j2 = [j EXCEPT !.pc = pc]
  BY <1>1, <1>3 DEF Inspect, PackageLoads
<1>5. Kept(j, j2) /\ j2.pc = pc /\ j2.artifact = j.artifact /\ j2.alone = j.alone
  BY <1>2, <1>4 DEF IsJob, Kept
<1>6. CASE ~ PackageLoads(disk, j)
  <2>1. JobOK(src, disk, j2)
    BY <1>2, <1>3, <1>5, <1>6, AtPlain
  <2>2. QED BY <1>1, <1>2, <1>4, <2>1, GoesOnKeeps DEF Inspect
<1>7. CASE PackageLoads(disk, j)
  <2>1. j2.pc = "package"
    BY <1>3, <1>5, <1>7
  <2>2. JobTyped(j2) /\ OutPath(j2) = OutPath(j) /\ Goal(src, j2) = Goal(src, j)
    <3>1. j2.pc \in Working
      BY <2>1 DEF Working
    <3>2. QED BY <1>2, <1>5, <3>1, KeptFacts
  <2>3. Output(src, disk, j2)
    BY <1>2, <1>5, <2>2 DEF Output, Made, FromSource, Exact, Part, Kept
  <2>4. PackageLoads(disk, j2)
    BY <1>5, <1>7 DEF PackageLoads, Kept
  <2>5. JobOK(src, disk, j2)
    BY <1>2, <1>5, <2>1, <2>2, <2>3, <2>4 DEF JobOK, Kept
  <2>6. QED BY <1>1, <1>2, <1>4, <2>5, GoesOnKeeps DEF Inspect
<1>8. QED BY <1>6, <1>7

LEMMA PackageKeeps ==
  ASSUME BuildInv, Sequential, NEW b \in Builders, Package(b)
  PROVE  BuildInv'
<1>1. PICK j : j = job[b]
  OBVIOUS
<1>2. /\ JobTyped(j) /\ IsJob(j) /\ j.pc = "package" /\ j.cmd = "publish" /\ Output(src, disk, j)
      /\ PackageLoads(disk, j)
  BY <1>1, JobOf DEF Package, At, JobOK
<1>3. PICK j2 :
        /\ Goes(b, j2)
        /\ \/ j2 = [j EXCEPT !.pc = "fail"]
           \/ j2 = CopyThen(j, j.out, WwwPath, "answer", "fail")
           \/ ~ j.www /\ j2 = [j EXCEPT !.pc = "answer"]
  BY <1>1 DEF Package
<1>4. CASE j2 = [j EXCEPT !.pc = "fail"]
  <2>1. Kept(j, j2) /\ j2.pc = "fail"
    BY <1>2, <1>4 DEF IsJob, Kept
  <2>2. JobOK(src, disk, j2)
    BY <1>2, <2>1, AtPlain
  <2>3. QED BY <1>1, <1>2, <1>3, <2>2, GoesOnKeeps DEF Package
<1>5. CASE j2 = CopyThen(j, j.out, WwwPath, "answer", "fail") \/ (~ j.www /\ j2 = [j EXCEPT !.pc = "answer"])
  <2>1. /\ Kept(j, j2) /\ j2.artifact = j.artifact /\ j2.alone = j.alone /\ j2.www = j.www
        /\ \/ /\ j2.pc = "copyOpen" /\ j2.from = j.out /\ j2.to = WwwPath /\ j2.at = 0
              /\ j2.then = "answer" /\ j2.orElse = "fail"
           \/ j2.pc = "answer" /\ ~ j.www
    <3>1. CASE j2 = CopyThen(j, j.out, WwwPath, "answer", "fail")
      BY <1>2, <3>1, CopyStep
    <3>2. CASE ~ j.www /\ j2 = [j EXCEPT !.pc = "answer"]
      BY <1>2, <3>2 DEF IsJob, Kept
    <3>3. QED BY <1>5, <3>1, <3>2
  <2>2. JobTyped(j2) /\ OutPath(j2) = OutPath(j) /\ Goal(src, j2) = Goal(src, j)
    <3>1. j2.pc \in Working
      BY <2>1 DEF Working
    <3>2. QED BY <1>2, <2>1, <3>1, KeptFacts
  <2>3. Output(src, disk, j2)
    BY <1>2, <2>1, <2>2 DEF Output, Made, FromSource, Exact, Part, Kept
  <2>4. PackageLoads(disk, j2)
    BY <1>2, <2>1 DEF PackageLoads, Kept
  <2>5. JobOK(src, disk, j2)
    <3>1. CASE j2.pc = "answer" /\ ~ j.www
      BY <1>2, <2>1, <2>2, <2>3, <2>4, <3>1 DEF JobOK
    <3>2. CASE j2.pc = "copyOpen"
      <4>1. CopyOK(src, disk, j2)
        BY <1>2, <2>1, <2>3, <2>4, <3>2 DEF CopyOK, CopyKind, CopyToWww, Kept
      <4>2. QED BY <1>2, <2>1, <3>2, <4>1, AtCopy
    <3>3. QED BY <2>1, <3>1, <3>2
  <2>6. QED BY <1>1, <1>2, <1>3, <2>5, GoesOnKeeps DEF Package
<1>6. QED BY <1>3, <1>4, <1>5

\* What a command leaves when it says it succeeded.
Delivered(s, dk, j) ==
  /\ Output(s, dk, j)
  /\ j.cmd = "publish" =>
       /\ OutPath(j) \in DOMAIN dk /\ Loads(dk[OutPath(j)])
       /\ j.www /\ j.alone => WwwPath \in DOMAIN dk /\ dk[WwwPath] = dk[OutPath(j)]

LEMMA EndedKeeps ==
  ASSUME BuildInv, Sequential, NEW b \in Builders, NEW ok \in BOOLEAN, NEW ran, Ended(b, ok, ran),
         UNCHANGED <<src, disk>>, ok => Delivered(src, disk, job[b])
  PROVE  BuildInv'
<1>1. Builders = {b}
  BY OnlyBuilder
<1>2. PICK j : j = job[b]
  OBVIOUS
<1>3. PICK given \in BOOLEAN : given = (j.artifact \/ j.input = "image")
  OBVIOUS
<1>4. PICK j2 : Goes(b, j2) /\ j2 = [NoJob EXCEPT !.ran = ran, !.artifact = given]
  BY <1>2, <1>3 DEF Ended
<1>5. JobOK(src, disk, j2) /\ j2.pc = "idle"
  BY <1>4, IdleJob
<1>6. DOMAIN job' = Builders /\ job'[b] = j2
  BY <1>4 DEF Goes, BuildInv
<1>7. Active' = {}
  BY <1>1, <1>5, <1>6 DEF Active
<1>8. PICK end : end = [path |-> OutPath(j), ok |-> ok, alone |-> j.alone, cmd |-> j.cmd, www |-> j.www,
                        artifact |-> given]
  OBVIOUS
<1>9. last' \subseteq {end}
  BY <1>2, <1>3, <1>8 DEF Ended, NoLast
<1>10. EndOK(src, disk, end)
  <2>1. /\ end.path = OutPath(j) /\ end.ok = ok /\ end.alone = j.alone /\ end.cmd = j.cmd
        /\ end.www = j.www /\ end.artifact = given
    BY <1>8
  <2>2. Goal(src, end) = Goal(src, j)
    BY <2>1 DEF Goal
  <2>3. ASSUME end.ok, end.alone, ~ end.artifact PROVE Exact(src, disk, end, end.path)
    <3>1. FromSource(j) /\ j.alone /\ Output(src, disk, j)
      BY <1>2, <1>3, <2>1, <2>3 DEF FromSource, Delivered
    <3>2. QED BY <2>1, <2>2, <3>1 DEF Output, Made, Exact
  <2>4. ASSUME end.ok, end.cmd = "publish"
        PROVE  /\ end.path \in DOMAIN disk /\ Loads(disk[end.path])
               /\ end.www /\ end.alone => WwwPath \in DOMAIN disk /\ disk[WwwPath] = disk[end.path]
    BY <1>2, <2>1, <2>4 DEF Delivered
  <2>5. QED BY <2>3, <2>4 DEF EndOK
<1>11. src' = src /\ disk' = disk
  OBVIOUS
<1>12. src' \in Sources /\ FilesOK(disk')
  BY <1>11 DEF BuildInv
<1>13. \A c \in Builders : JobOK(src', disk', job'[c])
  BY <1>1, <1>5, <1>6, <1>11
<1>14. \A e \in last' : Active' = {} /\ EndOK(src', disk', e)
  BY <1>7, <1>9, <1>10, <1>11
<1>15. QED BY <1>6, <1>12, <1>13, <1>14 DEF BuildInv

LEMMA FailKeeps ==
  ASSUME BuildInv, Sequential, NEW b \in Builders, Fail(b)
  PROVE  BuildInv'
<1>1. Ended(b, FALSE, {}) /\ UNCHANGED <<src, disk>>
  BY DEF Fail
<1>2. QED BY <1>1, EndedKeeps

LEMMA AnswerKeeps ==
  ASSUME BuildInv, Sequential, NEW b \in Builders, Answer(b)
  PROVE  BuildInv'
<1>1. Ended(b, TRUE, {}) /\ UNCHANGED <<src, disk>> /\ job[b].pc = "answer"
  BY DEF Answer, At
<1>2. PICK j : j = job[b]
  OBVIOUS
<1>3. JobTyped(j) /\ JobOK(src, disk, j) /\ j.pc = "answer"
  BY <1>1, <1>2, JobOf
<1>4. Delivered(src, disk, j)
  BY <1>3, OutPathFacts DEF Delivered, JobOK, PackageLoads
<1>5. QED BY <1>1, <1>2, <1>4, EndedKeeps

LEMMA LoadAndRunKeeps ==
  ASSUME BuildInv, Sequential, NEW b \in Builders, LoadAndRun(b)
  PROVE  BuildInv'
<1>0. PICK ok \in BOOLEAN : \E ran : Ended(b, ok, ran)
  BY DEF LoadAndRun
<1>1. PICK ran : Ended(b, ok, ran)
  BY <1>0
<1>2. UNCHANGED <<src, disk>> /\ job[b].pc = "load"
  BY DEF LoadAndRun, At
<1>3. PICK j : j = job[b]
  OBVIOUS
<1>4. JobOK(src, disk, j) /\ j.pc = "load"
  BY <1>2, <1>3, JobOf
<1>5. Delivered(src, disk, j)
  BY <1>4 DEF Delivered, JobOK
<1>6. QED BY <1>1, <1>2, <1>3, <1>5, EndedKeeps

LEMMA CrashKeeps ==
  ASSUME BuildInv, Sequential, NEW b \in Builders, Crash(b)
  PROVE  BuildInv'
<1>1. Builders = {b}
  BY OnlyBuilder
<1>2. src' = src /\ disk' = disk /\ last' = {} /\ Goes(b, NoJob)
  BY DEF Crash, NoLast
<1>3. DOMAIN job' = Builders /\ job'[b] = NoJob
  BY <1>2 DEF Goes, BuildInv
<1>4. JobOK(src, disk, NoJob)
  BY IdleJob
<1>5. \A c \in Builders : JobOK(src', disk', job'[c])
  BY <1>1, <1>2, <1>3, <1>4
<1>6. QED BY <1>2, <1>3, <1>5 DEF BuildInv

LEMMA WriteFailsKeeps ==
  ASSUME ImagesSound, BuildInv, Sequential, NEW b \in Builders, WriteFails(b)
  PROVE  BuildInv'
<1>1. PICK j : j = job[b]
  OBVIOUS
<1>2. j.pc \in {"write", "copy"} /\ UNCHANGED <<src, disk, last>>
  BY <1>1 DEF WriteFails
<1>3. src \in Sources /\ FilesOK(disk) /\ JobOK(src, disk, j) /\ JobTyped(j) /\ IsJob(j)
  BY <1>1, JobOf
<1>4. PICK pc, j2 :
        /\ Goes(b, j2) /\ j2 = [j EXCEPT !.pc = pc, !.alone = FALSE]
        /\ pc \in IF j.pc = "write" THEN {"fail", Written(j)} ELSE {j.orElse, j.then}
  BY <1>1 DEF WriteFails, At
<1>5. JobOK(src, disk, j2)
  <2>1. CASE j.pc = "write"
    <3>1. pc \in {"fail", Written(j)}
      BY <1>4, <2>1
    <3>2. QED BY <1>3, <1>4, <2>1, <3>1, WritingFailsKeeps
  <2>2. CASE j.pc = "copy"
    <3>1. pc \in {j.orElse, j.then}
      BY <1>4, <2>2
    <3>2. QED BY <1>3, <1>4, <2>2, <3>1, CopyFailsKeeps
  <2>3. QED BY <1>2, <2>1, <2>2
<1>6. QED BY <1>1, <1>2, <1>4, <1>5, GoesOnKeeps

LEMMA StartKeeps ==
  ASSUME BuildInv, Sequential, NEW b \in Builders, NEW cmd \in {"run", "build", "publish"},
         NEW input \in {"project", "entry", "image"}, NEW out \in {AppPath, DistPath},
         NEW useCache \in BOOLEAN, Start(b, cmd, input, out, useCache)
  PROVE  BuildInv'
<1>1. Builders = {b}
  BY OnlyBuilder
<1>2. src' = src /\ disk' = disk /\ last' = {} /\ (cmd = "publish" => ~ useCache)
  BY DEF Start, NoLast
<1>3. PICK alone, pc : alone = (Active = {}) /\ pc = FirstStep(cmd, input)
  OBVIOUS
<1>4. PICK j2 : j2 = [NoJob EXCEPT !.pc = pc, !.cmd = cmd, !.input = input, !.out = out,
                                   !.useCache = useCache, !.alone = alone]
  OBVIOUS
<1>5. DOMAIN job' = Builders /\ job'[b] = j2
  BY <1>3, <1>4 DEF Start
<1>6. /\ IsJob(j2) /\ j2.pc = pc /\ j2.cmd = cmd /\ j2.input = input /\ j2.out = out
      /\ j2.useCache = useCache /\ j2.ran = {} /\ ~ j2.artifact
  <2>1. IsJob(NoJob) /\ NoJob.ran = {} /\ ~ NoJob.artifact
    BY DEF IsJob, NoJob
  <2>2. QED BY <1>4, <2>1 DEF IsJob
<1>7. \/ pc = "publish" /\ cmd = "publish"
      \/ pc = "load" /\ cmd # "publish" /\ input = "image"
      \/ pc = "resolve" /\ cmd # "publish"
  BY <1>3 DEF FirstStep
<1>8. JobTyped(j2)
  <2>1. pc \in Working /\ pc # "idle"
    BY <1>7 DEF Working
  <2>2. QED BY <1>2, <1>6, <2>1 DEF JobTyped
<1>9. JobOK(src, disk, j2)
  <2>1. pc = "load" => Output(src, disk, j2)
    BY <1>6, <1>7 DEF Output, FromSource
  <2>2. QED BY <1>6, <1>7, <1>8, <2>1 DEF JobOK
<1>10. \A c \in Builders : JobOK(src', disk', job'[c])
  BY <1>1, <1>2, <1>5, <1>9
<1>11. QED BY <1>2, <1>5, <1>10 DEF BuildInv

LEMMA EditKeeps ==
  ASSUME BuildInv, Sequential, NEW f \in Files, NEW c \in Contents(f), Edit(f, c)
  PROVE  BuildInv'
<1>1. disk' = disk /\ job' = job /\ last' = {} /\ src' = [src EXCEPT ![f] = c] /\ Active = {}
  BY DEF Edit, NoLast, Sequential
<1>2. src' \in Sources
  <2>1. src \in [Files -> UNION {Contents(g) : g \in Files}] /\ \A g \in Files : src[g] \in Contents(g)
    BY DEF BuildInv, Sources
  <2>2. \A g \in Files : src'[g] \in Contents(g)
    BY <1>1, <2>1
  <2>3. src' \in [Files -> UNION {Contents(g) : g \in Files}]
    BY <1>1, <2>1
  <2>4. QED BY <2>2, <2>3 DEF Sources
<1>3. ASSUME NEW b \in Builders PROVE JobOK(src', disk', job'[b])
  <2>1. job[b].pc = "idle" /\ JobTyped(job[b])
    BY <1>1, JobOf DEF Active
  <2>2. JobOK(src', disk', job[b])
    BY <2>1 DEF JobOK
  <2>3. QED BY <1>1, <2>2
<1>4. DOMAIN job' = Builders /\ FilesOK(disk')
  BY <1>1 DEF BuildInv
<1>5. QED BY <1>1, <1>2, <1>3, <1>4 DEF BuildInv

LEMMA CleanKeeps ==
  ASSUME BuildInv, Sequential, NEW path \in DOMAIN disk, Clean(path)
  PROVE  BuildInv'
<1>1. path.dir = "cache" /\ last' = {} /\ src' = src
  BY DEF Clean, NoLast
<1>2. PICK held : held = {b \in Active : job[b].pc = "copy" /\ path \in {job[b].from, job[b].to}}
  OBVIOUS
<1>3. FilesOK(disk) /\ src \in Sources /\ DOMAIN job = Builders
  BY DEF BuildInv
<1>4. CASE held = {}
  <2>1. disk' = [p \in DOMAIN disk \ {path} |-> disk[p]]
    BY <1>2, <1>4 DEF Clean
  <2>2. DOMAIN job' = Builders /\ \A b \in Builders : job'[b] = job[b]
    BY <1>2, <1>4 DEF Clean
  <2>3. PICK dk2 : dk2 = disk'
    OBVIOUS
  <2>4. Removed(disk, path, dk2)
    BY <2>1, <2>3 DEF Removed
  <2>5. FilesOK(dk2)
    BY <1>3, <2>4, RemovedFilesOK
  <2>6. ASSUME NEW b \in Builders PROVE JobOK(src', disk', job'[b])
    <3>1. PICK j : j = job[b]
      OBVIOUS
    <3>2. JobOK(src, disk, j)
      BY <3>1, JobOf
    <3>3. ~ (j.pc = "copy" /\ path \in {j.from, j.to})
      BY <1>2, <1>4, <3>1 DEF Active
    <3>4. JobOK(src, dk2, j)
      BY <1>1, <1>3, <2>4, <3>2, <3>3, RemovedKeeps
    <3>5. QED BY <1>1, <2>2, <2>3, <3>1, <3>4
  <2>7. QED BY <1>1, <1>3, <2>2, <2>3, <2>5, <2>6 DEF BuildInv
<1>5. CASE held # {}
  <2>1. PICK b \in Builders : b \in held
    BY <1>2, <1>5 DEF Active
  <2>2. Builders = {b}
    BY OnlyBuilder
  <2>3. PICK j : j = job[b]
    OBVIOUS
  <2>4. JobOK(src, disk, j) /\ j.pc = "copy" /\ path \in {j.from, j.to}
    BY <1>2, <2>1, <2>3, JobOf
  <2>5. PICK gone : gone = Unlinked(path)
    OBVIOUS
  <2>6. disk' = [p \in (DOMAIN disk \ {path}) \cup {gone} |-> IF p = gone THEN disk[path] ELSE disk[p]]
    BY <1>2, <1>5, <2>5 DEF Clean
  <2>7. PICK dk2 : dk2 = disk'
    OBVIOUS
  <2>8. Moved(disk, path, dk2)
    BY <2>5, <2>6, <2>7 DEF Moved
  <2>9. PICK from, to : /\ from = (IF j.from = path THEN Unlinked(path) ELSE j.from)
                        /\ to = (IF j.to = path THEN Unlinked(path) ELSE j.to)
    OBVIOUS
  <2>10. PICK j2 : j2 = [j EXCEPT !.from = from, !.to = to]
    OBVIOUS
  <2>11. DOMAIN job' = Builders /\ job'[b] = j2
    BY <1>2, <2>1, <2>3, <2>9, <2>10 DEF Clean
  <2>12. JobOK(src, dk2, j2)
    BY <1>1, <1>3, <2>4, <2>8, <2>9, <2>10, MovedKeeps
  <2>13. FilesOK(dk2)
    BY <1>3, <2>8, MovedFilesOK
  <2>14. \A c \in Builders : JobOK(src', disk', job'[c])
    BY <1>1, <2>2, <2>7, <2>11, <2>12
  <2>15. QED BY <1>1, <1>3, <2>7, <2>11, <2>13, <2>14 DEF BuildInv
<1>6. QED BY <1>4, <1>5

LEMMA BuildStepKeeps ==
  ASSUME ImagesSound, BuildInv, Sequential, NEW b \in Builders, BuildStep(b)
  PROVE  BuildInv'
BY ResolveKeeps, CheckCacheKeeps, CompileAllKeeps, WriteOpenStep, WritePieceStep, StoreEntryKeeps,
   CopyOpenStep, CopyPieceStep, PublishResolveKeeps, CheckTargetKeeps, InspectKeeps, PackageKeeps,
   FailKeeps, AnswerKeeps, LoadAndRunKeeps DEF BuildStep

LEMMA NextKeeps ==
  ASSUME ImagesSound, BuildInv, Sequential, BuildNext
  PROVE  BuildInv'
<1>1. ASSUME NEW b \in Builders, BuildStep(b) \/ Crash(b) \/ WriteFails(b) PROVE BuildInv'
  BY <1>1, BuildStepKeeps, CrashKeeps, WriteFailsKeeps
<1>2. ASSUME NEW b \in Builders, NEW cmd \in {"run", "build", "publish"},
             NEW input \in {"project", "entry", "image"}, NEW out \in {AppPath, DistPath},
             NEW useCache \in BOOLEAN, Start(b, cmd, input, out, useCache)
      PROVE  BuildInv'
  BY <1>2, StartKeeps
<1>3. ASSUME NEW f \in Files, NEW c \in Contents(f), Edit(f, c) PROVE BuildInv'
  BY <1>3, EditKeeps
<1>4. ASSUME NEW path \in DOMAIN disk, Clean(path) PROVE BuildInv'
  BY <1>4, CleanKeeps
<1>5. QED BY <1>1, <1>2, <1>3, <1>4 DEF BuildNext

LEMMA InitHolds ==
  ASSUME BuildInit
  PROVE  BuildInv
<1>1. src \in Sources
  <2>1. DOMAIN src = Files /\ src = [f \in Files |-> src[f]]
    BY DEF BuildInit
  <2>2. ASSUME NEW f \in Files PROVE src[f] \in Contents(f)
    <3>1. Contents(f) # {}
      BY BuildAssumption
    <3>2. src[f] = CHOOSE c \in Contents(f) : TRUE
      BY DEF BuildInit
    <3>3. \E c \in Contents(f) : TRUE
      BY <3>1
    <3>4. QED BY <3>2, <3>3
  <2>3. \A f \in Files : src[f] \in UNION {Contents(g) : g \in Files}
    BY <2>2
  <2>4. src \in [Files -> UNION {Contents(g) : g \in Files}]
    BY <2>1, <2>3
  <2>5. QED BY <2>2, <2>4 DEF Sources
<1>2. FilesOK(disk)
  BY DEF BuildInit, FilesOK
<1>3. JobOK(src, disk, NoJob)
  BY IdleJob
<1>4. DOMAIN job = Builders /\ \A b \in Builders : JobOK(src, disk, job[b])
  BY <1>3 DEF BuildInit
<1>5. last = {}
  BY DEF BuildInit, NoLast
<1>6. QED BY <1>1, <1>2, <1>4, <1>5 DEF BuildInv

LEMMA Stutter ==
  ASSUME BuildInv, UNCHANGED buildVars
  PROVE  BuildInv'
BY DEF BuildInv, buildVars, Active

\* The invariant of the commands: every file is the beginning of an image, every
\* cache entry of the image of its key, and what a command at each of its steps
\* has put where it says.
THEOREM BuildInvariant ==
  ASSUME Sequential, ProgramsWritable
  PROVE  BuildSpec => []BuildInv
<1>1. BuildInit => BuildInv
  BY InitHolds
<1>2. BuildInv /\ [BuildNext]_buildVars => BuildInv'
  BY ImagesFromWritable, NextKeeps, Stutter
<1>3. QED BY <1>1, <1>2, PTL DEF BuildSpec

\* The sources stay in their contents, however many commands run beside the edits.
LEMMA SourcesStay ==
  ASSUME src \in Sources, [BuildNext]_buildVars
  PROVE  src' \in Sources
<1>1. ASSUME NEW f \in Files, NEW c \in Contents(f), Edit(f, c) PROVE src' \in Sources
  <2>1. src' = [src EXCEPT ![f] = c]
    BY <1>1 DEF Edit
  <2>2. src \in [Files -> UNION {Contents(g) : g \in Files}] /\ \A g \in Files : src[g] \in Contents(g)
    BY DEF Sources
  <2>3. \A g \in Files : src'[g] \in Contents(g)
    BY <2>1, <2>2
  <2>4. src' \in [Files -> UNION {Contents(g) : g \in Files}]
    BY <2>1, <2>2
  <2>5. QED BY <2>3, <2>4 DEF Sources
<1>2. ASSUME NEW b \in Builders, BuildStep(b) PROVE src' = src
  BY <1>2 DEF BuildStep, Resolve, CheckCache, CompileAll, WriteOpen, WritePiece, StoreEntry, CopyOpen,
     CopyPiece, PublishResolve, CheckTarget, Inspect, Package, Fail, Answer, LoadAndRun
<1>3. ASSUME NEW b \in Builders, Crash(b) \/ WriteFails(b) PROVE src' = src
  BY <1>3 DEF Crash, WriteFails
<1>4. ASSUME NEW b \in Builders, NEW cmd \in {"run", "build", "publish"},
             NEW input \in {"project", "entry", "image"}, NEW out \in {AppPath, DistPath},
             NEW useCache \in BOOLEAN, Start(b, cmd, input, out, useCache)
      PROVE  src' = src
  BY <1>4 DEF Start
<1>5. ASSUME NEW path \in DOMAIN disk, Clean(path) PROVE src' = src
  BY <1>5 DEF Clean
<1>6. CASE UNCHANGED buildVars
  BY <1>6 DEF buildVars
<1>7. QED BY <1>1, <1>2, <1>3, <1>4, <1>5, <1>6 DEF BuildNext

\* What write_program_as_aibc1 writes, aivm_program_load_aibc1 reads back as the
\* program it was made of, and refuses when it is cut short anywhere: for any
\* number of commands at once, and sources that are edited under them.
THEOREM WrittenImagesLoad ==
  ASSUME ProgramsWritable
  PROVE  BuildSpec => []WrittenImageSound
<1>1. BuildInit => src \in Sources
  BY InitHolds DEF BuildInv
<1>2. src \in Sources /\ [BuildNext]_buildVars => (src \in Sources)'
  BY SourcesStay
<1>3. src \in Sources => WrittenImageSound
  BY ImagesFromWritable DEF ImagesSound, WrittenImageSound
<1>4. QED BY <1>1, <1>2, <1>3, PTL DEF BuildSpec

-----------------------------------------------------------------------------
(* What the commands promise.                                               *)

LEMMA ExactLoads ==
  ASSUME ImagesSound, NEW s \in Sources, NEW dk, NEW j, NEW path, Exact(s, dk, j, path)
  PROVE  path \in DOMAIN dk /\ Loads(dk[path]) /\ {ProgramIn(dk[path])} = Goal(s, j)
<1>1. PICK p \in Goal(s, j) : dk[path] = Encode(p)
  BY DEF Exact
<1>2. p \in AllPrograms /\ \A q \in Goal(s, j) : q = p
  BY GoalFacts
<1>3. Loads(Encode(p)) /\ ProgramIn(Encode(p)) = p
  BY <1>2, ImageFacts
<1>4. QED BY <1>1, <1>2, <1>3 DEF Exact

\* With one airun at a time, whatever command is killed, whatever write fails: no
\* file that the loader accepts is anything but the whole image of one program.
THEOREM ImagesAreWhole ==
  ASSUME Sequential, ProgramsWritable
  PROVE  BuildSpec => []NoTornImage
<1>0. ImagesSound
  BY ImagesFromWritable
<1>1. BuildInv => NoTornImage
  <2>1. SUFFICES ASSUME BuildInv, NEW path \in DOMAIN disk, Loads(disk[path])
                 PROVE  \E p \in AllPrograms : disk[path] = Encode(p)
    BY DEF NoTornImage, AllImages
  <2>2. PICK p \in AllPrograms : Prefix(disk[path], Encode(p))
    BY <2>1 DEF BuildInv, FilesOK, FileOK
  <2>3. QED BY <1>0, <2>1, <2>2, LoadsWhole
<1>2. QED BY <1>1, BuildInvariant, PTL

\* As long as one airun works at a time and no source is saved while it does (the
\* code enforces neither; with an edit during a build this is false), a cache entry
\* that loads is the program of the sources it is filed under, whatever commands
\* were killed, whatever writes failed and whatever was edited in between.
THEOREM CacheIsSound ==
  ASSUME Sequential, ProgramsWritable
  PROVE  BuildSpec => []CacheEntriesMatchKey
<1>0. ImagesSound
  BY ImagesFromWritable
<1>1. BuildInv => CacheEntriesMatchKey
  <2>1. SUFFICES ASSUME BuildInv, NEW path \in DOMAIN disk, path.dir = "cache", Loads(disk[path]),
                        NEW graph \in path.key
                 PROVE  {ProgramIn(disk[path])} = Compile(graph)
    BY DEF CacheEntriesMatchKey
  <2>2. PICK s \in Sources : /\ path.key = {GraphOf(s)}
                             /\ \E p \in Compile(GraphOf(s)) : Prefix(disk[path], Encode(p))
    BY <2>1 DEF BuildInv, FilesOK, FileOK
  <2>3. PICK p \in Compile(GraphOf(s)) : Prefix(disk[path], Encode(p))
    BY <2>2
  <2>4. p \in AllPrograms /\ \A q \in Compile(GraphOf(s)) : q = p
    BY <1>0, CompileFacts
  <2>5. ProgramIn(disk[path]) = p
    BY <1>0, <2>1, <2>3, <2>4, LoadsWhole, ImageFacts
  <2>6. graph = GraphOf(s)
    BY <2>2
  <2>7. QED BY <2>3, <2>4, <2>5, <2>6
<1>2. QED BY <1>1, BuildInvariant, PTL

\* With one airun at a time, a command under which nothing was edited and no write
\* failed leaves the image of the sources of now, whatever it found.
THEOREM BuildsAreCurrent ==
  ASSUME Sequential, ProgramsWritable
  PROVE  BuildSpec => []UndisturbedBuildIsCurrent
<1>0. ImagesSound
  BY ImagesFromWritable
<1>1. BuildInv => UndisturbedBuildIsCurrent
  <2>1. SUFFICES ASSUME BuildInv, NEW end \in last, end.ok, end.alone, ~ end.artifact
                 PROVE  /\ end.path \in DOMAIN disk /\ Loads(disk[end.path])
                        /\ {ProgramIn(disk[end.path])} = CompileWith(GraphOf(src), end.cmd = "publish")
    BY DEF UndisturbedBuildIsCurrent
  <2>2. Exact(src, disk, end, end.path) /\ src \in Sources
    BY <2>1 DEF BuildInv, EndOK
  <2>3. QED BY <1>0, <2>2, ExactLoads DEF Goal
<1>2. QED BY <1>1, BuildInvariant, PTL

\* With one airun at a time, a publish that reports success delivers an image that
\* loads, even after a failed write.
THEOREM PublishDelivers ==
  ASSUME Sequential, ProgramsWritable
  PROVE  BuildSpec => []PublishedImageLoads
<1>1. BuildInv => PublishedImageLoads
  BY DEF BuildInv, EndOK, PublishedImageLoads
<1>2. QED BY <1>1, BuildInvariant, PTL

\* What a run executes from source is the program of the sources of now.
LEMMA LoadedIsCurrent ==
  ASSUME ImagesSound, NEW s \in Sources, NEW dk, NEW j, JobOK(s, dk, j), j.pc = "load", FromSource(j),
         OutPath(j) \in DOMAIN dk, Loads(dk[OutPath(j)])
  PROVE  {ProgramIn(dk[OutPath(j)])} = Compile(GraphOf(s))
<1>1. j.cmd # "publish" /\ Part(s, dk, j, OutPath(j))
  BY DEF JobOK, Output, Made
<1>2. PICK p \in Goal(s, j) : Prefix(dk[OutPath(j)], Encode(p))
  BY <1>1 DEF Part
<1>3. p \in AllPrograms
  BY GoalFacts
<1>4. dk[OutPath(j)] = Encode(p)
  BY <1>2, <1>3, LoadsWhole
<1>5. Exact(s, dk, j, OutPath(j))
  BY <1>2, <1>4 DEF Exact
<1>6. {ProgramIn(dk[OutPath(j)])} = Goal(s, j)
  BY <1>5, ExactLoads
<1>7. QED BY <1>1, <1>6, GoalFacts

LEMMA LoadStepRuns ==
  ASSUME ImagesSound, BuildInv, NEW b \in Builders, LoadAndRun(b), job'[b].ran # {}, ~ job'[b].artifact
  PROVE  job'[b].ran = Compile(GraphOf(src))
<1>1. PICK j : j = job[b]
  OBVIOUS
<1>2. src \in Sources /\ JobOK(src, disk, j) /\ j.pc = "load"
  BY <1>1, JobOf DEF LoadAndRun, At
<1>3. PICK path : path = OutPath(j)
  OBVIOUS
<1>4. PICK ok, ran :
        /\ Ended(b, ok, ran)
        /\ \/ path \in DOMAIN disk /\ Loads(disk[path]) /\ ran = {ProgramIn(disk[path])}
           \/ ran = {}
  BY <1>1, <1>3 DEF LoadAndRun
<1>5. PICK given \in BOOLEAN : given = (j.artifact \/ j.input = "image")
  OBVIOUS
<1>6. job'[b] = [NoJob EXCEPT !.ran = ran, !.artifact = given]
  BY <1>1, <1>4, <1>5 DEF Ended, Goes, BuildInv
<1>7. job'[b].ran = ran /\ job'[b].artifact = given
  BY <1>6 DEF NoJob
<1>8. FromSource(j) /\ path \in DOMAIN disk /\ Loads(disk[path]) /\ ran = {ProgramIn(disk[path])}
  BY <1>4, <1>5, <1>7 DEF FromSource
<1>9. QED BY <1>2, <1>3, <1>7, <1>8, LoadedIsCurrent

\* No other step of b's job leaves it with a program run.
LEMMA OtherStepsRunNothing ==
  ASSUME BuildInv, Sequential, NEW b \in Builders, At(b, "load"), [BuildNext]_buildVars, ~ LoadAndRun(b)
  PROVE  job'[b].ran = {}
<1>1. job[b].pc = "load" /\ job[b].ran = {} /\ Builders = {b} /\ IsJob(job[b]) /\ DOMAIN job = Builders
  BY JobOf, OnlyBuilder DEF At, JobTyped, BuildInv
<1>2. ~ BuildStep(b) /\ ~ WriteFails(b)
  BY <1>1 DEF BuildStep, WriteFails, At, Resolve, CheckCache, CompileAll, WriteOpen, WritePiece, StoreEntry,
     CopyOpen, CopyPiece, PublishResolve, CheckTarget, Inspect, Package, Fail, Answer
<1>3. CASE Crash(b)
  <2>1. job'[b] = NoJob
    BY <1>1, <1>3 DEF Crash, Goes
  <2>2. QED BY <2>1 DEF NoJob
<1>4. ASSUME NEW cmd, NEW input, NEW out, NEW useCache, Start(b, cmd, input, out, useCache)
      PROVE  FALSE
  BY <1>1, <1>4 DEF Start, At
<1>5. ASSUME NEW f, NEW c, Edit(f, c) PROVE job'[b].ran = {}
  BY <1>1, <1>5 DEF Edit
<1>6. ASSUME NEW path, Clean(path) PROVE job'[b].ran = {}
  <2>1. job'[b] = job[b]
    BY <1>1, <1>6 DEF Clean
  <2>2. QED BY <1>1, <2>1
<1>7. CASE UNCHANGED buildVars
  BY <1>1, <1>7 DEF buildVars
<1>8. QED BY <1>1, <1>2, <1>3, <1>4, <1>5, <1>6, <1>7 DEF BuildNext

\* With one airun at a time and no edit while it runs, a run from source executes
\* the program of the sources as they are, whatever image a killed command, a failed
\* write or a cleaned cache left it.
THEOREM RunsAreCurrent ==
  ASSUME Sequential, ProgramsWritable
  PROVE  BuildSpec => RunsCurrentSource
<1>0. ImagesSound
  BY ImagesFromWritable
<1> DEFINE Runs == \A b \in Builders :
                     At(b, "load") /\ job'[b].ran # {} /\ ~ job'[b].artifact =>
                       job'[b].ran = Compile(GraphOf(src))
<1>1. BuildInv /\ [BuildNext]_buildVars => [Runs]_buildVars
  <2>1. SUFFICES ASSUME BuildInv, [BuildNext]_buildVars, NEW b \in Builders,
                        At(b, "load"), job'[b].ran # {}, ~ job'[b].artifact
                 PROVE  job'[b].ran = Compile(GraphOf(src))
    OBVIOUS
  <2>2. LoadAndRun(b)
    BY <2>1, OtherStepsRunNothing
  <2>3. QED BY <1>0, <2>1, <2>2, LoadStepRuns
<1>2. QED BY <1>1, BuildInvariant, PTL DEF BuildSpec, RunsCurrentSource
=============================================================================
