----------------------------- MODULE Recursion -----------------------------
(***************************************************************************)
(* Induction over the natural numbers and the existence of recursive       *)
(* functions, stated of sets and functions, so that they can be cited of   *)
(* any formula: induction on P is SetInduction on {n \in Nat : P(n)}.      *)
(***************************************************************************)
EXTENDS Sums, WellFoundedInduction, TLAPS

\* A nonempty set of numbers has a least element.
LEMMA LeastElement ==
    ASSUME NEW T, T \subseteq Nat, T # {}
    PROVE  \E m \in T : \A k \in T : m <= k
<1> DEFINE R == OpToRel(<, Nat)
<1>1. IsWellFoundedOn(R, Nat)
  BY NatLessThanWellFounded
<1>2. \A a, b \in Nat : a < b => <<a, b>> \in R
  BY DEF OpToRel
<1> HIDE DEF R
<1>3. PICK m \in T : \A k \in T : <<k, m>> \notin R
  BY <1>1, WFMin
<1>4. ASSUME NEW k \in T PROVE m <= k
  <2>1. m \in Nat /\ k \in Nat /\ ~(k < m)
    BY <1>2, <1>3
  <2> QED BY <2>1
<1> QED BY <1>4

\* A nonempty set of numbers up to n has a greatest element.
LEMMA GreatestElement ==
    ASSUME NEW n \in Nat, NEW T, T \subseteq 0..n, T # {}
    PROVE  \E m \in T : \A k \in T : k <= m
<1> DEFINE U == {n - k : k \in T}
<1>1. U \subseteq Nat /\ U # {}
  <2>1. \A k \in T : n - k \in Nat
    OBVIOUS
  <2> QED BY <2>1
<1> HIDE DEF U
<1>2. PICK u \in U : \A v \in U : u <= v
  BY <1>1, LeastElement
<1>3. PICK m \in T : u = n - m
  BY <1>2 DEF U
<1>4. ASSUME NEW k \in T PROVE k <= m
  <2>1. n - m <= n - k
    BY <1>2, <1>3 DEF U
  <2>2. k \in Int /\ m \in Int
    OBVIOUS
  <2> QED BY <2>1, <2>2
<1> QED BY <1>4

\* Induction.
LEMMA SetInduction ==
    ASSUME NEW T, 0 \in T, \A n \in Nat : n \in T => n + 1 \in T
    PROVE  \A n \in Nat : n \in T
<1> DEFINE U == Nat \ T
<1> SUFFICES ASSUME U # {} PROVE FALSE
  OBVIOUS
<1>1. PICK m \in U : \A k \in U : m <= k
  BY LeastElement
<1>2. m # 0 /\ m \in Nat /\ m - 1 \in Nat
  BY <1>1
<1>3. m - 1 \in T
  BY <1>1, <1>2
<1> QED BY <1>1, <1>2, <1>3

\* Induction as far as n.
LEMMA RangeInduction ==
    ASSUME NEW n \in Nat, NEW T, 0 \in T, \A i \in 1..n : i - 1 \in T => i \in T
    PROVE  \A i \in 0..n : i \in T
<1> DEFINE U == {i \in Nat : i \in 0..n => i \in T}
<1>1. 0 \in U
  OBVIOUS
<1>2. ASSUME NEW i \in Nat, i \in U PROVE i + 1 \in U
  <2> SUFFICES ASSUME i + 1 \in 0..n PROVE i + 1 \in T
    OBVIOUS
  <2>1. i + 1 \in 1..n /\ (i + 1) - 1 \in T
    BY <1>2
  <2> QED BY <2>1
<1> HIDE DEF U
<1>3. \A i \in Nat : i \in U
  BY <1>1, <1>2, SetInduction
<1> QED BY <1>3 DEF U

\* A step from functions to functions, and a size of the arguments: what the
\* step makes of an argument depends only on the values of smaller ones.
Recursive(step, size, n, S, R) ==
    /\ n \in Nat /\ size \in [S -> 0..n]
    /\ [S -> R] # {} /\ step \in [[S -> R] -> [S -> R]]
    /\ \A g, h \in [S -> R] : \A x \in S :
          (\A y \in S : size[y] < size[x] => g[y] = h[y]) => step[g][x] = step[h][x]

\* Then there is a function that is its own step.
LEMMA RecursionExists ==
    ASSUME NEW S, NEW R, NEW n, NEW size, NEW step, Recursive(step, size, n, S, R)
    PROVE  \E g \in [S -> R] : step[g] = g
<1> USE DEF Recursive
<1> DEFINE Done(g, k) == \A x \in S : size[x] < k => step[g][x] = g[x]
           T == {k \in Nat : \E g \in [S -> R] : Done(g, k)}
<1>1. 0 \in T
  <2>1. PICK g : g \in [S -> R]
    OBVIOUS
  <2> QED BY <2>1
<1>2. ASSUME NEW k \in Nat, k \in T PROVE k + 1 \in T
  <2>1. PICK g \in [S -> R] : Done(g, k)
    BY <1>2
  <2>2. step[g] \in [S -> R]
    BY <2>1
  <2>3. ASSUME NEW x \in S, size[x] < k + 1 PROVE step[step[g]][x] = step[g][x]
    <3>1. \A y \in S : size[y] < size[x] => step[g][y] = g[y]
      BY <2>1, <2>3
    <3> QED BY <2>1, <2>2, <3>1
  <2>4. Done(step[g], k + 1)
    BY <2>3
  <2> HIDE DEF Done
  <2> QED BY <2>2, <2>4
<1>3. n + 1 \in T
  <2> HIDE DEF T
  <2> QED BY <1>1, <1>2, SetInduction
<1>4. PICK g \in [S -> R] : Done(g, n + 1)
  BY <1>3
<1>5. \A x \in S : size[x] < n + 1
  OBVIOUS
<1>6. step[g] = g
  BY <1>4, <1>5
<1> QED BY <1>6

\* A loop of n turns starts with base and makes value i of value i - 1.
Loop(base, f, n, R) == n \in Nat /\ base \in R /\ f \in [(1..n) \X R -> R]
Runs(g, base, f, n) == g[0] = base /\ \A i \in 1..n : g[i] = f[<<i, g[i - 1]>>]

\* It has values.
LEMMA LoopExists ==
    ASSUME NEW n, NEW R, NEW base, NEW f, Loop(base, f, n, R)
    PROVE  \E g \in [0..n -> R] : Runs(g, base, f, n)
<1> USE DEF Loop
<1> DEFINE D == 0..n
           step == [g \in [D -> R] |-> [i \in D |-> IF i = 0 THEN base ELSE f[<<i, g[i - 1]>>]]]
           size == [i \in D |-> i]
<1>1. Recursive(step, size, n, D, R)
  <2>1. [i \in D |-> base] \in [D -> R]
    OBVIOUS
  <2>2. size \in [D -> 0..n]
    OBVIOUS
  <2>3. ASSUME NEW g \in [D -> R] PROVE step[g] \in [D -> R]
    <3>1. ASSUME NEW i \in D, i # 0 PROVE f[<<i, g[i - 1]>>] \in R
      <4>1. i \in 1..n /\ i - 1 \in D
        BY <3>1
      <4> QED BY <4>1
    <3> QED BY <3>1
  <2>4. ASSUME NEW g \in [D -> R], NEW h \in [D -> R], NEW x \in D,
               \A y \in D : size[y] < size[x] => g[y] = h[y]
        PROVE  step[g][x] = step[h][x]
    <3>1. CASE x = 0
      BY <3>1
    <3>2. CASE x # 0
      <4>1. x - 1 \in D /\ size[x - 1] < size[x]
        BY <3>2
      <4> QED BY <2>4, <3>2, <4>1
    <3> QED BY <3>1, <3>2
  <2>5. step \in [[D -> R] -> [D -> R]]
    BY <2>3
  <2> QED BY <2>1, <2>2, <2>4, <2>5 DEF Recursive
<1>2. \E g \in [D -> R] : step[g] = g
  <2> HIDE DEF D, step, size
  <2> QED BY <1>1, RecursionExists
<1>3. PICK g \in [D -> R] : step[g] = g
  BY <1>2
<1>4. \A i \in D : g[i] = IF i = 0 THEN base ELSE f[<<i, g[i - 1]>>]
  BY <1>3
<1>5. 0 \in D
  OBVIOUS
<1>6. \A i \in 1..n : i \in D /\ i # 0
  OBVIOUS
<1> HIDE DEF D
<1>7. g[0] = base
  BY <1>4, <1>5
<1>8. \A i \in 1..n : g[i] = f[<<i, g[i - 1]>>]
  BY <1>4, <1>6
<1>9. Runs(g, base, f, n)
  BY <1>7, <1>8 DEF Runs
<1> QED BY <1>9 DEF D

----------------------------------------------------------------------------
(* The sums of module Sums.                                                *)

IsSums(s, f, n) ==
    /\ s \in [0..n -> Int] /\ s[0] = 0
    /\ \A i \in 1..n : s[i] = s[i - 1] + f[i]

\* PartialSums is what its equation says.
LEMMA SumsExist ==
    ASSUME NEW n \in Nat, NEW f \in [1..n -> Int]
    PROVE  IsSums(PartialSums(f, n), f, n)
<1> DEFINE Step(g) == [i \in 0..n |-> IF i = 0 THEN 0 ELSE g[i - 1] + f[i]]
           add == [x \in (1..n) \X Int |-> x[2] + f[x[1]]]
<1>1. add \in [(1..n) \X Int -> Int]
  OBVIOUS
<1>2. PICK g \in [0..n -> Int] : Runs(g, 0, add, n)
  <2>1. Loop(0, add, n, Int)
    BY <1>1 DEF Loop
  <2> HIDE DEF add
  <2> QED BY <2>1, LoopExists
<1>3. g = Step(g)
  <2>1. ASSUME NEW i \in 1..n PROVE g[i] = g[i - 1] + f[i]
    <3>1. i - 1 \in 0..n /\ g[i - 1] \in Int
      BY <1>2
    <3>2. g[i] = add[<<i, g[i - 1]>>]
      BY <1>2 DEF Runs
    <3> QED BY <3>1, <3>2
  <2>2. \A i \in 0..n : g[i] = IF i = 0 THEN 0 ELSE g[i - 1] + f[i]
    BY <1>2, <2>1 DEF Runs
  <2> QED BY <2>2
<1>4. PartialSums(f, n) = Step(PartialSums(f, n))
  BY <1>3 DEF PartialSums
<1> DEFINE p == PartialSums(f, n)
<1>5. p = Step(p)
  BY <1>4
<1> HIDE DEF p
<1>6. p[0] = 0 /\ \A i \in 1..n : p[i] = p[i - 1] + f[i]
  <2>1. \A i \in 0..n : p[i] = IF i = 0 THEN 0 ELSE p[i - 1] + f[i]
    BY <1>5
  <2> QED BY <2>1
<1>7. \A k \in 0..n : p[k] \in Int
  <2> DEFINE T == {k \in 0..n : p[k] \in Int}
  <2>1. 0 \in T
    BY <1>6
  <2>2. ASSUME NEW k \in 1..n, k - 1 \in T PROVE k \in T
    BY <1>6, <2>2
  <2> HIDE DEF T
  <2>3. \A k \in 0..n : k \in T
    BY <2>1, <2>2, RangeInduction
  <2> QED BY <2>3 DEF T
<1>8. p \in [0..n -> Int]
  BY <1>5, <1>7
<1> HIDE DEF Step
<1>9. IsSums(p, f, n)
  BY <1>6, <1>8 DEF IsSums
<1> QED BY <1>9 DEF p

\* There is one such function.
LEMMA SumsUnique ==
    ASSUME NEW n \in Nat, NEW f, NEW s, NEW t, IsSums(s, f, n), IsSums(t, f, n)
    PROVE  s = t
<1> DEFINE T == {k \in 0..n : s[k] = t[k]}
<1>1. 0 \in T
  BY DEF IsSums
<1>2. ASSUME NEW k \in 1..n, k - 1 \in T PROVE k \in T
  BY <1>2 DEF IsSums
<1> HIDE DEF T
<1>3. \A k \in 0..n : k \in T
  BY <1>1, <1>2, RangeInduction
<1> QED BY <1>3 DEF T, IsSums

\* Sums of numbers that are not negative grow.
LEMMA SumsGrow ==
    ASSUME NEW n \in Nat, NEW f \in [1..n -> Nat], NEW s, IsSums(s, f, n)
    PROVE  \A i, j \in 0..n : i <= j => s[i] <= s[j]
<1> DEFINE T == {k \in Nat : \A i, j \in 0..n : j = i + k => s[i] <= s[j]}
<1>1. 0 \in T
  BY DEF IsSums
<1>2. ASSUME NEW k \in Nat, k \in T PROVE k + 1 \in T
  <2> SUFFICES ASSUME NEW i \in 0..n, i + k + 1 \in 0..n PROVE s[i] <= s[i + k + 1]
    OBVIOUS
  <2>1. s[i] <= s[i + k]
    BY <1>2
  <2>2. s[i + k + 1] = s[i + k] + f[i + k + 1] /\ f[i + k + 1] \in Nat
    BY DEF IsSums
  <2>3. s[i] \in Int /\ s[i + k] \in Int
    BY DEF IsSums
  <2> QED BY <2>1, <2>2, <2>3
<1> HIDE DEF T
<1>3. \A k \in Nat : k \in T
  BY <1>1, <1>2, SetInduction
<1>4. ASSUME NEW i \in 0..n, NEW j \in 0..n, i <= j PROVE s[i] <= s[j]
  <2>1. j - i \in T
    BY <1>3, <1>4
  <2>2. j = i + (j - i)
    OBVIOUS
  <2> QED BY <2>1, <2>2 DEF T
<1> QED BY <1>4

\* They are not negative either.
LEMMA SumsNatural ==
    ASSUME NEW n \in Nat, NEW f \in [1..n -> Nat] PROVE SumTo(f, n) \in Nat
<1> DEFINE s == PartialSums(f, n)
<1>1. IsSums(s, f, n)
  <2>1. f \in [1..n -> Int]
    OBVIOUS
  <2> QED BY <2>1, SumsExist
<1>2. SumTo(f, n) = s[n]
  BY DEF SumTo
<1> HIDE DEF s
<1>3. s[0] <= s[n] /\ s[0] = 0 /\ s[n] \in Int
  <2>1. 0 \in 0..n /\ n \in 0..n /\ 0 <= n
    OBVIOUS
  <2>2. s[0] <= s[n]
    BY <1>1, <2>1, SumsGrow
  <2> QED BY <1>1, <2>1, <2>2 DEF IsSums
<1> QED BY <1>2, <1>3
=============================================================================
