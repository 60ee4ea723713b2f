------------------------------ MODULE ProofLemmas ------------------------------
(***************************************************************************)
(* Facts the proofs of several components use.                             *)
(***************************************************************************)
EXTENDS Integers, TLAPS, WellFoundedInduction

\* A set of natural numbers has a least element.
LEMMA Least ==
  ASSUME NEW S, S \subseteq Nat, S # {}
  PROVE  \E x \in S : \A y \in S : x <= y
<1> DEFINE R == {ss \in Nat \X Nat : ss[1] < ss[2]}
<1>1. IsWellFoundedOn(R, Nat)
  BY NatLessThanWellFounded DEF OpToRel
<1>2. \E x \in S : \A y \in S : ~ (<<y, x>> \in R)
  <2> HIDE DEF R
  <2> QED BY <1>1, WFMin
<1>3. PICK x \in S : \A y \in S : ~ (<<y, x>> \in R)
  BY <1>2
<1>4. ASSUME NEW y \in S PROVE x <= y
  <2>1. x \in Nat /\ y \in Nat
    OBVIOUS
  <2>2. ~(y < x)
    BY <1>3, <2>1
  <2>3. QED BY <2>1, <2>2
<1>5. QED BY <1>4

-----------------------------------------------------------------------------
(* Running totals: f[k] is the sum of the first k values of a.              *)

Total(f, a, n) ==
  /\ f \in [0 .. n -> Nat]
  /\ f[0] = 0
  /\ \A k \in 1 .. n : f[k] = f[k - 1] + a[k]

\* Every sequence of numbers has running totals.
LEMMA TotalExists ==
  ASSUME NEW n \in Nat, NEW a, \A k \in 1 .. n : a[k] \in Nat
  PROVE  \E f : Total(f, a, n)
<1> DEFINE Bad == {m \in 0 .. n : ~ \E f : Total(f, a, m)}
<1>1. SUFFICES ASSUME Bad # {} PROVE FALSE
  OBVIOUS
<1>2. PICK m \in Bad : \A y \in Bad : m <= y
  <2>1. Bad \subseteq Nat
    OBVIOUS
  <2>2. QED BY <1>1, <2>1, Least
<1>3. m \in 0 .. n /\ ~ \E f : Total(f, a, m)
  OBVIOUS
<1>4. m # 0
  <2> DEFINE g == [i \in 0 .. 0 |-> 0]
  <2>1. Total(g, a, 0)
    BY DEF Total
  <2>2. QED BY <2>1, <1>3
<1>5. m - 1 \in 0 .. n /\ m \in 1 .. n
  BY <1>3, <1>4
<1>6. PICK f : Total(f, a, m - 1)
  <2>1. ~ (m <= m - 1)
    BY <1>5
  <2>2. m - 1 \notin Bad
    BY <1>2, <2>1
  <2>3. QED BY <1>5, <2>2
<1> HIDE DEF Bad
<1> DEFINE g == [i \in 0 .. m |-> IF i = m THEN f[m - 1] + a[m] ELSE f[i]]
<1>7. g \in [0 .. m -> Nat]
  <2>1. f[m - 1] \in Nat /\ a[m] \in Nat
    BY <1>5, <1>6 DEF Total
  <2>2. f[m - 1] + a[m] \in Nat
    BY <2>1
  <2>3. ASSUME NEW i \in 0 .. m, i # m PROVE f[i] \in Nat
    <3>1. i \in 0 .. (m - 1)
      BY <2>3, <1>5
    <3>2. QED BY <3>1, <1>6 DEF Total
  <2>4. QED BY <2>2, <2>3
<1>8. g[0] = 0
  BY <1>5, <1>6 DEF Total
<1>9. ASSUME NEW k \in 1 .. m PROVE g[k] = g[k - 1] + a[k]
  <2>1. k - 1 \in 0 .. m /\ k \in 0 .. m /\ k - 1 # m
    BY <1>5
  <2>2. CASE k = m
    BY <2>1, <2>2
  <2>3. CASE k # m
    <3>1. k \in 1 .. (m - 1)
      BY <2>3, <1>5
    <3>2. f[k] = f[k - 1] + a[k]
      BY <3>1, <1>6 DEF Total
    <3>3. QED BY <3>2, <2>1, <2>3
  <2>4. QED BY <2>2, <2>3
<1>10. Total(g, a, m)
  BY <1>7, <1>8, <1>9 DEF Total
<1>11. QED BY <1>10, <1>3

\* Running totals only grow.
LEMMA TotalGrows ==
  ASSUME NEW n \in Nat, NEW a, \A k \in 1 .. n : a[k] \in Nat,
         NEW f, Total(f, a, n), NEW i \in 0 .. n, NEW j \in i .. n
  PROVE  f[i] <= f[j]
<1> DEFINE Bad == {m \in i .. n : ~ (f[i] <= f[m])}
<1>1. SUFFICES ASSUME Bad # {} PROVE FALSE
  BY DEF Total
<1>2. PICK m \in Bad : \A y \in Bad : m <= y
  <2>1. Bad \subseteq Nat
    OBVIOUS
  <2>2. QED BY <1>1, <2>1, Least
<1>3. m \in i .. n /\ ~ (f[i] <= f[m]) /\ m \in 0 .. n
  OBVIOUS
<1>4. f[i] \in Nat /\ f[m] \in Nat
  BY <1>3 DEF Total
<1>5. m # i
  BY <1>3, <1>4
<1>6. m - 1 \in i .. n /\ m \in 1 .. n /\ m - 1 \in 0 .. n
  BY <1>3, <1>5
<1>7. f[i] <= f[m - 1]
  <2>1. ~ (m <= m - 1)
    BY <1>6
  <2>2. m - 1 \notin Bad
    BY <1>2, <2>1
  <2>3. QED BY <1>6, <2>2
<1> HIDE DEF Bad
<1>8. f[m] = f[m - 1] + a[m] /\ a[m] \in Nat /\ f[m - 1] \in Nat
  BY <1>6 DEF Total
<1>9. QED BY <1>3, <1>4, <1>7, <1>8

\* The m values of b are values of a at the increasing positions h.
Chosen(b, m, a, n, h) ==
  /\ \A k \in 1 .. m : h[k] \in 1 .. n /\ b[k] = a[h[k]]
  /\ \A j, k \in 1 .. m : j < k => h[j] < h[k]

\* Adding up a choice of the values, taken in order, gives at most the whole
\* total.
LEMMA TotalOfChosen ==
  ASSUME NEW n \in Nat, NEW a, \A k \in 1 .. n : a[k] \in Nat, NEW f, Total(f, a, n),
         NEW m \in Nat, NEW b, NEW g, Total(g, b, m), NEW h, Chosen(b, m, a, n, h)
  PROVE  g[m] <= f[n]
<1> USE DEF Chosen
<1> DEFINE at(k) == IF k = 0 THEN 0 ELSE h[k]
           Bad   == {k \in 0 .. m : ~ (g[k] <= f[at(k)])}
<1>0. ASSUME NEW k \in 0 .. m PROVE at(k) \in 0 .. n
  <2>1. k # 0 => k \in 1 .. m
    OBVIOUS
  <2>2. QED BY <2>1
<1>1. Bad = {}
  <2>1. SUFFICES ASSUME Bad # {} PROVE FALSE
    OBVIOUS
  <2>2. PICK k \in Bad : \A y \in Bad : k <= y
    <3>1. Bad \subseteq Nat
      OBVIOUS
    <3> HIDE DEF Bad
    <3>2. QED BY <2>1, <3>1, Least
  <2>3. k \in 0 .. m /\ ~ (g[k] <= f[at(k)])
    OBVIOUS
  <2>4. k # 0
    BY <2>3 DEF Total
  <2>5. k \in 1 .. m /\ k - 1 \in 0 .. m
    BY <2>3, <2>4
  <2>6. g[k - 1] <= f[at(k - 1)]
    <3>1. ~ (k <= k - 1)
      BY <2>5
    <3>2. k - 1 \notin Bad
      BY <2>2, <3>1
    <3>3. QED BY <2>5, <3>2
  <2>7. g[k] = g[k - 1] + b[k] /\ b[k] = a[h[k]] /\ h[k] \in 1 .. n
    BY <2>5 DEF Total
  <2>8. at(k) = h[k]
    BY <2>4
  <2>9. at(k - 1) \in 0 .. (h[k] - 1)
    <3>1. CASE k = 1
      BY <3>1, <2>7
    <3>2. CASE k # 1
      <4>1. k - 1 \in 1 .. m /\ k - 1 < k /\ k - 1 # 0
        BY <3>2, <2>5
      <4>2. h[k - 1] < h[k] /\ h[k - 1] \in 1 .. n
        BY <4>1, <2>5
      <4>3. QED BY <4>1, <4>2, <2>7
    <3>3. QED BY <3>1, <3>2
  <2>10. PICK c : c = at(k - 1)
    OBVIOUS
  <2>11. PICK d : d = h[k]
    OBVIOUS
  <2> HIDE DEF at, Bad
  <2>12. d \in 1 .. n /\ c \in 0 .. (d - 1) /\ d - 1 \in 0 .. n /\ c \in 0 .. n /\ d - 1 \in c .. n
    BY <2>7, <2>9, <2>10, <2>11
  <2>13. f[c] <= f[d - 1]
    BY <2>12, TotalGrows
  <2>14. f[d] = f[d - 1] + a[d]
    BY <2>12 DEF Total
  <2>15. f[c] \in Nat /\ f[d - 1] \in Nat /\ a[d] \in Nat /\ f[d] \in Nat
    BY <2>12 DEF Total
  <2>16. g[k - 1] \in Nat /\ g[k] = g[k - 1] + a[d] /\ g[k - 1] <= f[c] /\ ~ (g[k] <= f[d])
    BY <2>3, <2>5, <2>6, <2>7, <2>8, <2>10, <2>11 DEF Total
  <2>17. QED BY <2>13, <2>14, <2>15, <2>16
<1>2. g[m] <= f[at(m)]
  BY <1>1
<1>3. at(m) \in 0 .. n /\ n \in at(m) .. n
  BY <1>0
<1>4. PICK c : c = at(m)
  OBVIOUS
<1> HIDE DEF at, Bad
<1>5. f[c] <= f[n]
  BY <1>3, <1>4, TotalGrows
<1>6. f[c] \in Nat /\ f[n] \in Nat /\ g[m] \in Nat
  BY <1>3, <1>4 DEF Total
<1>7. QED BY <1>2, <1>4, <1>5, <1>6

\* The totals of a value depend on nothing else, so they are unique.
LEMMA TotalUnique ==
  ASSUME NEW n \in Nat, NEW a, \A k \in 1 .. n : a[k] \in Nat,
         NEW f, Total(f, a, n), NEW b, NEW g, Total(g, b, n),
         \A k \in 1 .. n : b[k] = a[k]
  PROVE  \A k \in 0 .. n : g[k] = f[k]
<1> DEFINE Bad == {m \in 0 .. n : g[m] # f[m]}
<1>1. SUFFICES ASSUME Bad # {} PROVE FALSE
  OBVIOUS
<1>2. PICK m \in Bad : \A y \in Bad : m <= y
  <2>1. Bad \subseteq Nat
    OBVIOUS
  <2>2. QED BY <1>1, <2>1, Least
<1>3. m \in 0 .. n /\ g[m] # f[m]
  OBVIOUS
<1>4. m # 0
  BY <1>3 DEF Total
<1>5. m \in 1 .. n /\ m - 1 \in 0 .. n
  BY <1>3, <1>4
<1>6. g[m - 1] = f[m - 1]
  <2>1. ~ (m <= m - 1)
    BY <1>5
  <2>2. m - 1 \notin Bad
    BY <1>2, <2>1
  <2>3. QED BY <1>5, <2>2
<1> HIDE DEF Bad
<1>7. QED BY <1>3, <1>5, <1>6 DEF Total

\* One more value adds itself.
LEMMA TotalOfOneMore ==
  ASSUME NEW n \in Nat, NEW a, \A k \in 1 .. n : a[k] \in Nat,
         NEW f, Total(f, a, n), NEW b, NEW g, Total(g, b, n + 1),
         \A k \in 1 .. n : b[k] = a[k]
  PROVE  g[n + 1] = f[n] + b[n + 1]
<1> DEFINE h == [k \in 0 .. n |-> g[k]]
<1>1. Total(h, b, n)
  <2>1. \A k \in 0 .. n : k \in 0 .. (n + 1)
    OBVIOUS
  <2>2. h \in [0 .. n -> Nat]
    BY <2>1 DEF Total
  <2>3. ASSUME NEW k \in 1 .. n PROVE h[k] = h[k - 1] + b[k]
    <3>1. k \in 1 .. (n + 1) /\ k \in 0 .. n /\ k - 1 \in 0 .. n
      OBVIOUS
    <3>2. QED BY <3>1 DEF Total
  <2>4. QED BY <2>2, <2>3 DEF Total
<1>2. h[n] = f[n]
  <2> HIDE DEF h
  <2>1. \A k \in 0 .. n : h[k] = f[k]
    BY <1>1, TotalUnique
  <2>2. QED BY <2>1
<1>3. n + 1 \in 1 .. (n + 1)
  OBVIOUS
<1>4. g[n + 1] = g[n] + b[n + 1]
  <2>1. g[n + 1] = g[(n + 1) - 1] + b[n + 1]
    BY <1>3 DEF Total
  <2>2. (n + 1) - 1 = n
    OBVIOUS
  <2>3. QED BY <2>1, <2>2
<1>5. QED BY <1>2, <1>4

\* The recursive definition of a sum has a solution, and every solution is the
\* running totals.
LEMMA SumIsTotal ==
  ASSUME NEW n \in Nat, NEW a, \A k \in 1 .. n : a[k] \in Nat
  PROVE  /\ \E u : u = [k \in 0 .. n |-> IF k = 0 THEN 0 ELSE u[k - 1] + a[k]]
         /\ \A u : u = [k \in 0 .. n |-> IF k = 0 THEN 0 ELSE u[k - 1] + a[k]] => Total(u, a, n)
<1>1. PICK f : Total(f, a, n)
  BY TotalExists
<1>2. f = [k \in 0 .. n |-> IF k = 0 THEN 0 ELSE f[k - 1] + a[k]]
  BY <1>1 DEF Total
<1>3. ASSUME NEW u, u = [k \in 0 .. n |-> IF k = 0 THEN 0 ELSE u[k - 1] + a[k]]
      PROVE  Total(u, a, n)
  <2>1. u[0] = 0
    BY <1>3
  <2>2. \A k \in 1 .. n : u[k] = u[k - 1] + a[k]
    BY <1>3
  <2>3. \A k \in 0 .. n : u[k] = f[k]
    <3> DEFINE Bad == {m \in 0 .. n : u[m] # f[m]}
    <3>1. SUFFICES ASSUME Bad # {} PROVE FALSE
      OBVIOUS
    <3>2. PICK m \in Bad : \A y \in Bad : m <= y
      <4>1. Bad \subseteq Nat
        OBVIOUS
      <4> HIDE DEF Bad
      <4>2. QED BY <3>1, <4>1, Least
    <3>3. m \in 0 .. n /\ u[m] # f[m]
      OBVIOUS
    <3>4. m # 0
      BY <3>3, <1>1, <2>1 DEF Total
    <3>5. m \in 1 .. n /\ m - 1 \in 0 .. n /\ ~ (m <= m - 1)
      BY <3>3, <3>4
    <3>6. u[m - 1] = f[m - 1]
      BY <3>2, <3>5
    <3> HIDE DEF Bad
    <3>7. QED BY <3>3, <3>5, <3>6, <2>2, <1>1 DEF Total
  <2>4. u \in [0 .. n -> Nat]
    <3>1. \A k \in 0 .. n : u[k] \in Nat
      BY <2>3, <1>1 DEF Total
    <3>2. QED BY <3>1, <1>3
  <2>5. QED BY <2>1, <2>2, <2>4 DEF Total
<1>4. QED BY <1>2, <1>3

-----------------------------------------------------------------------------
(* Recursive functions on 0 .. n.                                           *)

\* Induction: a set with 0, and with each number up to n whose predecessor it
\* has, has all numbers up to n.
LEMMA UpTo ==
  ASSUME NEW n \in Nat, NEW S, 0 \in S, \A k \in 1 .. n : k - 1 \in S => k \in S
  PROVE  \A k \in 0 .. n : k \in S
<1> DEFINE Bad == {k \in 0 .. n : k \notin S}
<1>1. SUFFICES ASSUME Bad # {} PROVE FALSE
  OBVIOUS
<1>2. PICK m \in Bad : \A y \in Bad : m <= y
  <2>1. Bad \subseteq Nat
    OBVIOUS
  <2>2. QED BY <1>1, <2>1, Least
<1>3. m \in 0 .. n /\ m \notin S
  OBVIOUS
<1>4. m \in 1 .. n /\ m - 1 \in 0 .. n /\ ~ (m <= m - 1)
  BY <1>3
<1>5. m - 1 \in S
  BY <1>2, <1>4
<1> HIDE DEF Bad
<1>6. QED BY <1>3, <1>4, <1>5

\* u begins with z, and goes on with what T makes of the value before.
Recursion(u, n, V, z, T) ==
  /\ u \in [0 .. n -> V]
  /\ u[0] = z
  /\ \A k \in 1 .. n : u[k] = T[k][u[k - 1]]

\* There is such a function.
LEMMA RecursionExists ==
  ASSUME NEW n \in Nat, NEW V, NEW z \in V, NEW T \in [1 .. n -> [V -> V]]
  PROVE  \E u : Recursion(u, n, V, z, T)
<1> DEFINE Sol(m) == {u \in [0 .. m -> V] : u[0] = z /\ \A k \in 1 .. m : u[k] = T[k][u[k - 1]]}
           S == {m \in Nat : Sol(m) # {}}
<1>1. 0 \in S
  <2>1. [i \in 0 .. 0 |-> z] \in Sol(0)
    OBVIOUS
  <2>2. QED BY <2>1
<1>2. ASSUME NEW m \in 1 .. n, m - 1 \in S PROVE m \in S
  <2>1. PICK u : u \in Sol(m - 1)
    BY <1>2
  <2>2. u \in [0 .. m - 1 -> V] /\ u[0] = z /\ \A k \in 1 .. m - 1 : u[k] = T[k][u[k - 1]]
    BY <2>1
  <2> HIDE DEF S
  <2> DEFINE x == T[m][u[m - 1]]
             g == [i \in 0 .. m |-> IF i = m THEN x ELSE u[i]]
  <2>3. x \in V
    <3>1. m - 1 \in 0 .. m - 1
      OBVIOUS
    <3>2. u[m - 1] \in V
      BY <2>2, <3>1
    <3>3. QED BY <3>2
  <2>4. g \in [0 .. m -> V]
    <3>1. ASSUME NEW i \in 0 .. m, i # m PROVE u[i] \in V
      <4>1. i \in 0 .. m - 1
        BY <3>1
      <4>2. QED BY <4>1, <2>2
    <3>2. QED BY <2>3, <3>1
  <2>5. g[0] = z
    <3>1. 0 \in 0 .. m /\ 0 # m
      OBVIOUS
    <3>2. QED BY <3>1, <2>2
  <2>6. ASSUME NEW k \in 1 .. m PROVE g[k] = T[k][g[k - 1]]
    <3>1. k - 1 \in 0 .. m /\ k - 1 # m /\ k \in 0 .. m
      OBVIOUS
    <3>2. g[k - 1] = u[k - 1]
      BY <3>1
    <3>3. CASE k = m
      BY <3>1, <3>2, <3>3
    <3>4. CASE k # m
      <4>1. k \in 1 .. m - 1
        BY <3>4
      <4>2. u[k] = T[k][u[k - 1]] /\ g[k] = u[k]
        BY <4>1, <2>2, <3>1, <3>4
      <4>3. QED BY <4>2, <3>2
    <3>5. QED BY <3>3, <3>4
  <2> HIDE DEF g, x
  <2>7. g \in Sol(m)
    BY <2>4, <2>5, <2>6
  <2> USE DEF S
  <2>8. QED BY <2>7
<1>3. n \in S
  <2> HIDE DEF S
  <2>1. n \in 0 .. n
    OBVIOUS
  <2>2. QED BY <1>1, <1>2, <2>1, UpTo
<1>4. PICK u : u \in Sol(n)
  BY <1>3
<1>5. QED BY <1>4 DEF Recursion
=============================================================================
