---------------------------- MODULE PositionProofs ----------------------------
(***************************************************************************)
(* Positions in a list can be put in order, whatever they are, and what is *)
(* picked by them are the elements that were there.  A loop runs through.  *)
(*                                                                         *)
(* A bounded set has a greatest member, for otherwise counting up would    *)
(* map it one to one into a smaller set; and so it can be put in order, as *)
(* the least set that could not shows.  There is no induction in this, and *)
(* the least round that fails takes its place for loops.                   *)
(***************************************************************************)
EXTENDS Positions, Integers, FiniteSetTheorems, SequenceTheorems, TLAPS

-----------------------------------------------------------------------------
(* Numbers *)

LEMMA Greatest ==
    ASSUME NEW n \in Nat, NEW T, T \subseteq 0..n, T # {}
    PROVE  \E x \in T : \A y \in T : y <= x
<1> SUFFICES ASSUME \A x \in T : \E y \in T : ~(y <= x) PROVE FALSE
  OBVIOUS
<1> DEFINE U == {k \in 0..n : \E y \in T : k <= y}
           f == [k \in U |-> k + 1]
<1>1. 0 \in U
  <2>1. PICK y \in T : TRUE
    OBVIOUS
  <2>2. y \in 0..n /\ 0 <= y /\ 0 \in 0..n
    OBVIOUS
  <2> QED
    BY <2>2
<1>2. ASSUME NEW k \in U PROVE k + 1 \in U
  <2>1. PICK y \in T : k <= y
    OBVIOUS
  <2>2. PICK z \in T : ~(z <= y)
    OBVIOUS
  <2>3. y \in 0..n /\ z \in 0..n /\ k \in 0..n
    OBVIOUS
  <2>4. k + 1 \in 0..n /\ k + 1 <= z
    BY <2>1, <2>2, <2>3
  <2> QED
    BY <2>4
<1>3. IsFiniteSet(U)
  <2>1. U \subseteq 0..n /\ IsFiniteSet(0..n)
    BY FS_Interval
  <2> HIDE DEF U
  <2> QED
    BY <2>1, FS_Subset
<1>4. IsFiniteSet(U \ {0}) /\ Cardinality(U \ {0}) < Cardinality(U)
  <2> HIDE DEF U
  <2>1. IsFiniteSet(U \ {0}) /\ Cardinality(U \ {0}) = Cardinality(U) - 1
    BY <1>1, <1>3, FS_RemoveElement
  <2>2. Cardinality(U) \in Nat
    BY <1>3, FS_CardinalityType
  <2> QED
    BY <2>1, <2>2
<1>5. f \in [U -> U \ {0}]
  BY <1>2
<1>6. PICK x, y \in U : x # y /\ f[x] = f[y]
  <2> HIDE DEF U, f
  <2> QED
    BY <1>3, <1>4, <1>5, FS_PigeonHole
<1>7. x \in 0..n /\ y \in 0..n /\ x + 1 = y + 1
  BY <1>6
<1> QED
  BY <1>6, <1>7

LEMMA Least ==
    ASSUME NEW T, T \subseteq Nat, T # {}
    PROVE  \E x \in T : \A y \in T : x <= y
<1>1. PICK n \in T : TRUE
  OBVIOUS
<1> DEFINE D == {d \in 0..n : n - d \in T}
<1>2. D \subseteq 0..n /\ n \in Nat /\ 0 \in D
  BY <1>1
<1>3. PICK d \in D : \A e \in D : e <= d
  <2> HIDE DEF D
  <2> QED
    BY <1>2, Greatest
<1>4. n - d \in T /\ d \in 0..n
  BY <1>3
<1>5. ASSUME NEW y \in T PROVE n - d <= y
  <2>1. CASE y > n
    BY <1>2, <1>4, <2>1
  <2>2. CASE y <= n
    <3>1. n - y \in 0..n /\ n - (n - y) = y
      BY <1>2, <2>2
    <3>2. n - y <= d
      BY <1>3, <3>1
    <3> QED
      BY <1>2, <1>4, <3>1, <3>2
  <2> QED
    BY <1>2, <2>1, <2>2
<1> QED
  BY <1>4, <1>5

\* f is the numbers in S, in their order.
Rising(f, S) ==
    /\ f \in [1..Cardinality(S) -> S]
    /\ \A i, j \in DOMAIN f : i < j => f[i] < f[j]

LEMMA CanBeOrdered ==
    ASSUME NEW n \in Nat, NEW S \in SUBSET (0..n)
    PROVE  \E f : Rising(f, S)
<1> DEFINE T == {k \in Nat : \E X \in SUBSET (0..n) : Cardinality(X) = k /\ \A f : ~Rising(f, X)}
<1>1. ASSUME NEW X \in SUBSET (0..n)
      PROVE  IsFiniteSet(X) /\ Cardinality(X) \in Nat
  <2>1. IsFiniteSet(0..n)
    BY FS_Interval
  <2> QED
    BY <2>1, FS_Subset, FS_CardinalityType
<1>2. SUFFICES T = {}
  BY <1>1
<1>3. SUFFICES ASSUME T # {} PROVE FALSE
  OBVIOUS
<1>4. PICK k \in T : \A m \in T : k <= m
  <2>1. T \subseteq Nat
    OBVIOUS
  <2> HIDE DEF T
  <2> QED
    BY <1>3, <2>1, Least
<1>5. PICK X \in SUBSET (0..n) : Cardinality(X) = k /\ \A f : ~Rising(f, X)
  OBVIOUS
<1>6. X # {}
  <2> SUFFICES ASSUME X = {} PROVE FALSE
    OBVIOUS
  <2>1. Cardinality(X) = 0
    BY FS_EmptySet
  <2>2. Rising([i \in 1..0 |-> i], X)
    BY <2>1 DEF Rising
  <2> QED
    BY <1>5, <2>2
<1>7. PICK x \in X : \A y \in X : y <= x
  BY <1>6, Greatest
<1> DEFINE Y == X \ {x}
<1>8. Y \in SUBSET (0..n) /\ Cardinality(Y) = k - 1 /\ k \in Nat /\ k - 1 \in Nat
  <2>1. Cardinality(Y) = k - 1
    BY <1>1, <1>5, FS_RemoveElement
  <2>2. Cardinality(Y) \in Nat /\ k \in Nat
    BY <1>1
  <2> QED
    BY <2>1, <2>2
<1>9. PICK f : Rising(f, Y)
  <2>1. k - 1 \notin T
    BY <1>4, <1>8
  <2> QED
    BY <1>8, <2>1
<1> DEFINE g == [i \in 1..k |-> IF i = k THEN x ELSE f[i]]
<1>10. Rising(g, X)
  <2>1. f \in [1..(k - 1) -> Y] /\ \A i, j \in 1..(k - 1) : i < j => f[i] < f[j]
    BY <1>8, <1>9 DEF Rising
  <2>2. ASSUME NEW i \in 1..k PROVE g[i] \in X /\ (i # k => g[i] \in Y /\ i \in 1..(k - 1))
    BY <1>8, <2>1
  <2>3. g \in [1..k -> X]
    BY <2>2
  <2>4. ASSUME NEW i \in 1..k, NEW j \in 1..k, i < j PROVE g[i] < g[j]
    <3>1. i \in 1..(k - 1) /\ i # k
      BY <1>8, <2>4
    <3>2. CASE j = k
      <4>1. g[i] = f[i] /\ f[i] \in Y /\ g[j] = x
        BY <2>1, <3>1, <3>2
      <4>2. f[i] <= x /\ f[i] # x /\ f[i] \in 0..n /\ x \in 0..n
        BY <1>7, <4>1
      <4> QED
        BY <4>1, <4>2
    <3>3. CASE j # k
      BY <1>8, <2>1, <2>4, <3>1, <3>3
    <3> QED
      BY <3>2, <3>3
  <2> QED
    BY <1>5, <2>3, <2>4 DEF Rising
<1> QED
  BY <1>5, <1>10

\* What InOrder() says of a set of positions.
LEMMA InOrderIs ==
    ASSUME NEW n \in Nat, NEW S \in SUBSET (0..n)
    PROVE  Rising(InOrder(S), S)
  BY CanBeOrdered DEF Rising, InOrder

LEMMA OrderIsOnto ==
    ASSUME NEW n \in Nat, NEW S, S \subseteq 0..n, NEW f, Rising(f, S)
    PROVE  /\ \A i, j \in 1..Cardinality(S) : f[i] = f[j] => i = j
           /\ \A x \in S : \E i \in 1..Cardinality(S) : f[i] = x
<1>1. IsFiniteSet(S) /\ Cardinality(S) \in Nat
  <2>1. IsFiniteSet(0..n)
    BY FS_Interval
  <2> QED
    BY <2>1, FS_Subset, FS_CardinalityType
<1>2. f \in [1..Cardinality(S) -> S] /\ \A i, j \in 1..Cardinality(S) : i < j => f[i] < f[j]
  BY DEF Rising
<1>3. ASSUME NEW i \in 1..Cardinality(S), NEW j \in 1..Cardinality(S), f[i] = f[j] PROVE i = j
  <2>1. f[i] \in 0..n /\ f[j] \in 0..n /\ i \in Nat /\ j \in Nat
    <3>1. f[i] \in S /\ f[j] \in S
      BY <1>2
    <3>2. f[i] \in 0..n /\ f[j] \in 0..n
      BY <3>1, Zenon
    <3>3. i \in Nat /\ j \in Nat
      BY <1>1
    <3> QED
      BY <3>2, <3>3
  <2>2. ~(i < j) /\ ~(j < i)
    BY <1>2, <1>3, <2>1
  <2> QED
    BY <2>1, <2>2
<1>4. f \in Injection(1..Cardinality(S), S)
  BY <1>2, <1>3 DEF Injection, IsInjective
<1>5. Cardinality(1..Cardinality(S)) = Cardinality(S)
  BY <1>1, FS_Interval
<1>6. f \in Surjection(1..Cardinality(S), S)
  BY <1>1, <1>4, <1>5, FS_Injection
<1>7. \A x \in S : \E i \in 1..Cardinality(S) : f[i] = x
  BY <1>6 DEF Surjection
<1> QED
  BY <1>3, <1>7

\* All numbers up to n, in order.
LEMMA OrderOfAll ==
    ASSUME NEW n \in Nat, NEW i \in 1..n
    PROVE  Cardinality(1..n) = n /\ InOrder(1..n)[i] = i
<1>1. Cardinality(1..n) = n
  BY FS_Interval
<1>2. PICK f : f = InOrder(1..n)
  OBVIOUS
<1>3. f \in [1..n -> 1..n] /\ \A j, k \in 1..n : j < k => f[j] < f[k]
  <2>1. 1..n \in SUBSET (0..n)
    OBVIOUS
  <2> QED
    BY <1>1, <1>2, <2>1, InOrderIs DEF Rising
<1>4. {j \in 1..n : f[j] < j} = {}
  <2> SUFFICES ASSUME {j \in 1..n : f[j] < j} # {} PROVE FALSE
    OBVIOUS
  <2>1. {j \in 1..n : f[j] < j} \subseteq Nat
    OBVIOUS
  <2>2. PICK j \in {k \in 1..n : f[k] < k} : \A k \in {l \in 1..n : f[l] < l} : j <= k
    BY <2>1, Least
  <2>3. f[j] \in 1..n /\ f[j] < j /\ f[f[j]] < f[j]
    BY <1>3, <2>2
  <2> QED
    BY <2>2, <2>3
<1>5. {j \in 1..n : f[j] > j} = {}
  <2> SUFFICES ASSUME {j \in 1..n : f[j] > j} # {} PROVE FALSE
    OBVIOUS
  <2>1. {j \in 1..n : f[j] > j} \subseteq 0..n
    OBVIOUS
  <2>2. PICK j \in {k \in 1..n : f[k] > k} : \A k \in {l \in 1..n : f[l] > l} : k <= j
    BY <2>1, Greatest
  <2>3. f[j] \in 1..n /\ f[j] > j /\ f[f[j]] > f[j]
    BY <1>3, <2>2
  <2> QED
    BY <2>2, <2>3
<1>6. f[i] \in 1..n /\ ~(f[i] < i) /\ ~(f[i] > i)
  BY <1>3, <1>4, <1>5
<1> QED
  BY <1>1, <1>2, <1>6

-----------------------------------------------------------------------------
(* Lists *)

\* What is picked is what was there, each once.
LEMMA PickedIs ==
    ASSUME NEW E, NEW s \in Seq(E), NEW S \in SUBSET (DOMAIN s)
    PROVE  /\ Picked(s, S) \in Seq(E) /\ Len(Picked(s, S)) = Cardinality(S)
           /\ Cardinality(S) \in Nat /\ DOMAIN Picked(s, S) = 1..Cardinality(S)
           /\ \A n \in 1..Cardinality(S) : InOrder(S)[n] \in S /\ Picked(s, S)[n] = s[InOrder(S)[n]]
           /\ \A m, n \in 1..Cardinality(S) : InOrder(S)[m] = InOrder(S)[n] => m = n
           /\ \A i \in S : \E n \in 1..Cardinality(S) : InOrder(S)[n] = i
           /\ S = DOMAIN s => Picked(s, S) = s
<1>1. Len(s) \in Nat /\ DOMAIN s = 1..Len(s) /\ S \in SUBSET (0..Len(s))
  OBVIOUS
<1>2. Cardinality(S) \in Nat
  <2>1. IsFiniteSet(0..Len(s))
    BY <1>1, FS_Interval
  <2> QED
    BY <1>1, <2>1, FS_Subset, FS_CardinalityType
<1>3. PICK f : f = InOrder(S)
  OBVIOUS
<1>4. f \in [1..Cardinality(S) -> S] /\ Rising(f, S)
  BY <1>1, <1>3, InOrderIs DEF Rising
<1>5. Picked(s, S) = [n \in 1..Cardinality(S) |-> s[f[n]]]
  BY <1>3 DEF Picked
<1>6. ASSUME NEW n \in 1..Cardinality(S) PROVE f[n] \in S /\ Picked(s, S)[n] = s[f[n]] /\ s[f[n]] \in E
  BY <1>1, <1>4, <1>5
<1>7. Picked(s, S) \in [1..Cardinality(S) -> E]
  BY <1>5, <1>6
<1>8. Picked(s, S) \in Seq(E) /\ Len(Picked(s, S)) = Cardinality(S) /\ DOMAIN Picked(s, S) = 1..Cardinality(S)
  BY <1>2, <1>7
<1>9. /\ \A m, n \in 1..Cardinality(S) : f[m] = f[n] => m = n
      /\ \A i \in S : \E n \in 1..Cardinality(S) : f[n] = i
  <2>1. PICK l \in Nat : l = Len(s)
    BY <1>1
  <2>2. S \subseteq 0..l /\ Rising(f, S)
    BY <1>1, <1>4, <2>1
  <2>3. /\ \A m, n \in 1..Cardinality(S) : f[m] = f[n] => m = n
        /\ \A x \in S : \E k \in 1..Cardinality(S) : f[k] = x
    BY <2>1, <2>2, OrderIsOnto
  <2> QED
    BY <2>3, Zenon
<1>10. ASSUME S = DOMAIN s PROVE Picked(s, S) = s
  <2>1. S = 1..Len(s) /\ Cardinality(S) = Len(s)
    BY SMTT(30), <1>1, <1>10, FS_Interval
  <2>2. \A n \in 1..Len(s) : f[n] = n
    BY <1>1, <1>3, <2>1, OrderOfAll
  <2>3. \A n \in 1..Len(s) : Picked(s, S)[n] = s[n]
    BY <1>6, <2>1, <2>2
  <2> QED
    BY <1>8, <2>1, <2>3, SeqEqual
<1> QED
  BY <1>2, <1>3, <1>6, <1>8, <1>9, <1>10

\* A finite set of integers has a greatest member and a least one: compare how
\* many are below each.
LEMMA Extremes ==
    ASSUME NEW S \in SUBSET Int, IsFiniteSet(S), S # {}
    PROVE  /\ \E x \in S : \A y \in S : y <= x
           /\ \E x \in S : \A y \in S : x <= y
<1>1. Cardinality(S) \in Nat
  BY FS_CardinalityType
<1>2. PICK below : below = [x \in S |-> {y \in S : y < x}]
  OBVIOUS
<1>3. PICK rank : rank = [x \in S |-> Cardinality(below[x])]
  OBVIOUS
<1>4. ASSUME NEW x \in S
      PROVE  /\ IsFiniteSet(below[x]) /\ rank[x] = Cardinality(below[x]) /\ x \in Int
             /\ rank[x] \in Nat /\ rank[x] <= Cardinality(S)
  <2>1. below[x] \in SUBSET S /\ rank[x] = Cardinality(below[x])
    BY <1>2, <1>3
  <2> QED
    BY <2>1, FS_Subset, FS_CardinalityType
<1>5. ASSUME NEW x \in S, NEW y \in S, x < y PROVE rank[x] < rank[y]
  <2>1. x \in Int /\ y \in Int /\ S \subseteq Int
    BY <1>4
  <2>2. below[x] = {z \in S : z < x} /\ below[y] = {z \in S : z < y}
    BY <1>2
  <2>3. x \notin below[x] /\ x \in below[y]
    BY <1>5, <2>1, <2>2
  <2>4. below[x] \subseteq below[y]
    <3> SUFFICES ASSUME NEW z \in S, z < x PROVE z < y
      BY <2>2
    <3>1. z \in Int
      OBVIOUS
    <3> QED
      BY <1>5, <2>1, <3>1
  <2>5. Cardinality(below[x] \cup {x}) = rank[x] + 1
    <3>1. IsFiniteSet(below[x])
      BY <1>4
    <3>2. Cardinality(below[x] \cup {x}) = Cardinality(below[x]) + 1
      BY <2>3, <3>1, FS_AddElement
    <3> QED
      BY <1>4, <3>2
  <2>6. Cardinality(below[x] \cup {x}) <= rank[y]
    <3>1. below[x] \cup {x} \in SUBSET below[y]
      BY <2>3, <2>4
    <3> QED
      BY <1>4, <3>1, FS_Subset
  <2> QED
    BY <1>4, <2>5, <2>6
<1>6. PICK ranks : ranks = {rank[x] : x \in S}
  OBVIOUS
<1>7. ranks \subseteq 0..Cardinality(S) /\ ranks # {} /\ ranks \subseteq Nat
  <2>1. ASSUME NEW x \in S PROVE rank[x] \in 0..Cardinality(S) /\ rank[x] \in Nat
    <3>1. rank[x] \in Nat /\ rank[x] <= Cardinality(S)
      BY <1>4
    <3> QED
      BY <1>1, <3>1
  <2> QED
    BY <1>6, <2>1
<1>8. PICK r \in ranks : \A q \in ranks : q <= r
  BY <1>1, <1>7, Greatest
<1>9. PICK t \in ranks : \A q \in ranks : t <= q
  BY <1>7, Least
<1>10. PICK x \in S : r = rank[x]
  BY <1>6
<1>11. PICK z \in S : t = rank[z]
  BY <1>6
<1>12. ASSUME NEW y \in S PROVE y <= x /\ z <= y
  <2>1. rank[y] \in ranks
    BY <1>6
  <2>2. rank[y] <= rank[x] /\ rank[z] <= rank[y] /\ rank[x] \in Nat /\ rank[y] \in Nat /\ rank[z] \in Nat
    BY <1>4, <1>8, <1>9, <1>10, <1>11, <2>1
  <2>3. ~(x < y) /\ ~(y < z)
    BY <1>5, <2>2
  <2>4. x \in Int /\ y \in Int /\ z \in Int
    BY <1>4
  <2> QED
    BY <2>3, <2>4
<1> QED
  BY <1>12

-----------------------------------------------------------------------------
(* Loops. *)

\* Induction up to a number, on the set of the numbers it holds for.
LEMMA Upto ==
    ASSUME NEW n \in Nat, NEW T, 0 \in T, \A k \in 1..n : k - 1 \in T => k \in T
    PROVE  \A k \in 0..n : k \in T
<1> SUFFICES ASSUME NEW k \in 0..n, k \notin T PROVE FALSE
  OBVIOUS
<1>1. PICK F : F = {j \in 0..n : j \notin T}
  OBVIOUS
<1>2. PICK j \in F : \A i \in F : j <= i
  <2>1. F \subseteq Nat /\ k \in F
    BY <1>1
  <2> QED
    BY <2>1, Least
<1>3. j \in 1..n /\ j - 1 \in 0..n /\ ~(j <= j - 1) /\ j \notin T
  BY <1>1, <1>2
<1> QED
  BY <1>1, <1>2, <1>3

\* A loop whose k-th round takes a value of S[k - 1] to one of S[k] runs.
Rounds(step, n, S) == \A k \in 1..n : step[k] \in [S[k - 1] -> S[k]]
Trace(h, step, a, n, S) ==
    /\ h = [k \in 0..n |-> IF k = 0 THEN a ELSE step[k][h[k - 1]]]
    /\ \A k \in 0..n : h[k] \in S[k]

LEMMA Iterates ==
    ASSUME NEW n \in Nat, NEW S, NEW a \in S[0], NEW step, Rounds(step, n, S)
    PROVE  \E h : Trace(h, step, a, n, S)
<1> USE DEF Rounds, Trace
<1> DEFINE Runs(h, m) == Trace(h, step, a, m, S)
           T == {m \in 0..n : \E h : Runs(h, m)}
<1>1. 0 \in T
  <2>1. PICK h : h = [k \in 0..0 |-> a]
    OBVIOUS
  <2>2. \A k \in 0..0 : k = 0
    OBVIOUS
  <2>3. Runs(h, 0)
    BY <2>1, <2>2
  <2> QED
    BY <2>3
<1>2. ASSUME NEW m \in 1..n, m - 1 \in T PROVE m \in T
  <2>1. PICK h : Runs(h, m - 1)
    BY <1>2
  <2>2. PICK g : g = [k \in 0..m |-> IF k = m THEN step[m][h[m - 1]] ELSE h[k]]
    OBVIOUS
  <2>3. ASSUME NEW k \in 0..m
        PROVE  g[k] = (IF k = 0 THEN a ELSE step[k][g[k - 1]]) /\ g[k] \in S[k]
    <3>1. CASE k = m
      <4>1. m - 1 \in 0..m /\ m - 1 # m /\ m # 0 /\ m - 1 \in 0..(m - 1)
        OBVIOUS
      <4>2. g[m] = step[m][h[m - 1]] /\ g[m - 1] = h[m - 1] /\ h[m - 1] \in S[m - 1]
        BY <2>1, <2>2, <4>1
      <4> QED
        BY <3>1, <4>1, <4>2
    <3>2. CASE k # m
      <4>1. k \in 0..(m - 1)
        BY <3>2
      <4>2. h[k] = (IF k = 0 THEN a ELSE step[k][h[k - 1]]) /\ h[k] \in S[k]
        BY <2>1, <4>1
      <4>3. g[k] = h[k] /\ (k # 0 => g[k - 1] = h[k - 1])
        BY <2>2, <3>2, <4>1
      <4> QED
        BY <4>2, <4>3
    <3> QED
      BY <3>1, <3>2
  <2>4. Runs(g, m)
    BY <2>2, <2>3
  <2> QED
    BY <2>4
<1>3. n \in T
  <2>1. PICK U : U = T
    OBVIOUS
  <2>2. 0 \in U /\ \A m \in 1..n : m - 1 \in U => m \in U
    BY <1>1, <1>2, <2>1
  <2>3. \A m \in 0..n : m \in U
    BY <2>2, Upto
  <2>4. n \in U
    BY <2>3
  <2> QED
    BY <2>1, <2>4
<1> QED
  BY <1>3
=============================================================================
