--------------------------- MODULE InductionLemmas --------------------------
(***************************************************************************)
(* Induction over numbers, for lemmas about recursive functions.  The      *)
(* library's induction theorems take the property as an operator; here it  *)
(* is the set of the numbers that lack it, which has a least element.      *)
(***************************************************************************)
EXTENDS Integers, FiniteSetTheorems, TLAPS

LEMMA LeastNumber ==
  ASSUME NEW S, S \subseteq Nat, S # {}
  PROVE  \E n \in S : \A m \in S : n <= m
<1> DEFINE T == {0 .. n : n \in S}
<1>1. IsWellFoundedOn(StrictSubsetOrdering(Nat), FiniteSubsetsOf(Nat))
  BY FS_StrictSubsetOrderingWellFounded
<1>2. \A n \in S : 0 .. n \in FiniteSubsetsOf(Nat)
  BY FS_Interval DEF FiniteSubsetsOf
<1>3. T # {} /\ T \subseteq FiniteSubsetsOf(Nat)
  BY <1>2
<1>4. \E x \in T : \A y \in T : <<y, x>> \notin StrictSubsetOrdering(Nat)
  <2> HIDE DEF T
  <2> QED BY <1>1, <1>3, WFMin
<1>5. PICK n \in S : \A y \in T : <<y, 0 .. n>> \notin StrictSubsetOrdering(Nat)
  BY <1>4
<1>6. ASSUME NEW m \in S, m < n PROVE FALSE
  <2>1. <<0 .. m, 0 .. n>> \notin StrictSubsetOrdering(Nat)
    BY <1>5
  <2>2. n \in 0 .. n /\ n \notin 0 .. m /\ 0 .. m \subseteq 0 .. n
    BY <1>6
  <2>3. QED
    BY <2>1, <2>2 DEF StrictSubsetOrdering
<1>7. QED
  BY <1>6

\* A set of numbers that holds 0 and, with a number below n, the next one, holds
\* every number up to n.
LEMMA UpTo ==
  ASSUME NEW n \in Nat, NEW S, 0 \in S, \A k \in Nat : k < n /\ k \in S => k + 1 \in S
  PROVE  0 .. n \subseteq S
<1> DEFINE Lacking == {k \in 0 .. n : k \notin S}
<1>1. SUFFICES ASSUME Lacking # {} PROVE FALSE
  OBVIOUS
<1>2. PICK k \in Lacking : \A m \in Lacking : k <= m
  <2> HIDE DEF Lacking
  <2>1. Lacking \subseteq Nat
    BY DEF Lacking
  <2>2. QED
    BY <1>1, <2>1, LeastNumber
<1>3. k # 0 /\ k - 1 \in Nat /\ k - 1 < n /\ k - 1 \in S
  BY <1>2
<1>4. QED
  BY <1>2, <1>3

\* A recursion over 0 .. n, whose step is a function, defines a function.
Recurses(d, n, V, base, step) ==
  /\ d \in [0 .. n -> V]
  /\ d[0] = base
  /\ \A k \in 1 .. n : d[k] = step[k][d[k - 1]]

LEMMA Recursion ==
  ASSUME NEW n \in Nat, NEW V, NEW base \in V, NEW step \in [1 .. n -> [V -> V]]
  PROVE  \E d : Recurses(d, n, V, base, step)
<1> DEFINE Right(m, d) == d[0] = base /\ \A k \in 1 .. m : d[k] = step[k][d[k - 1]]
           Defined(m) == \E d \in [0 .. m -> V] : Right(m, d)
           S == {m \in 0 .. n : Defined(m)}
<1>1. Defined(0)
  <2>1. [k \in 0 .. 0 |-> base] \in [0 .. 0 -> V] /\ Right(0, [k \in 0 .. 0 |-> base])
    OBVIOUS
  <2>2. QED
    <3> HIDE DEF Right
    <3> QED BY <2>1
<1>2. ASSUME NEW m \in 0 .. n - 1, Defined(m) PROVE Defined(m + 1)
  <2>1. PICK d \in [0 .. m -> V] : Right(m, d)
    BY <1>2
  <2> DEFINE e == [k \in 0 .. m + 1 |-> IF k = m + 1 THEN step[m + 1][d[m]] ELSE d[k]]
  <2>2. e \in [0 .. m + 1 -> V]
    BY <2>1
  <2>3. \A k \in 1 .. m : e[k] = step[k][e[k - 1]]
    BY <2>1
  <2>4. e[m + 1] = step[m + 1][e[m]] /\ e[0] = base
    BY <2>1
  <2>5. Right(m + 1, e)
    <3> HIDE DEF e
    <3> QED BY <2>3, <2>4
  <2>6. QED
    <3> HIDE DEF e, Right
    <3> QED BY <2>2, <2>5
<1>3. n \in S
  <2>1. 0 \in S
    <3> HIDE DEF Defined
    <3> QED BY <1>1
  <2>2. \A k \in Nat : k < n /\ k \in S => k + 1 \in S
    <3> HIDE DEF Defined
    <3> QED BY <1>2
  <2>3. 0 .. n \subseteq S
    <3> HIDE DEF S
    <3> QED BY <2>1, <2>2, UpTo
  <2>4. QED
    <3> HIDE DEF S
    <3> QED BY <2>3
<1>4. QED
  BY <1>3 DEF Recurses


Follows(d, n, step) == \A k \in 1 .. n : d[k] = step[k][d[k - 1]]

LEMMA RecursionIsUnique ==
  ASSUME NEW n \in Nat, NEW step, NEW c, NEW d,
         c[0] = d[0], Follows(c, n, step), Follows(d, n, step)
  PROVE  c[n] = d[n]
<1> DEFINE S == {k \in 0 .. n : c[k] = d[k]}
<1>1. 0 \in S
  OBVIOUS
<1>2. ASSUME NEW k \in Nat, k < n, k \in S PROVE k + 1 \in S
  <2>1. k + 1 \in 1 .. n /\ (k + 1) - 1 = k /\ c[k] = d[k]
    BY <1>2
  <2>2. QED
    BY <2>1 DEF Follows
<1>3. 0 .. n \subseteq S
  <2> HIDE DEF S
  <2> QED BY <1>1, <1>2, UpTo
<1>4. QED
  BY <1>3

\* The same over all numbers.
RecursesOnNat(d, V, base, step) ==
  d \in [Nat -> V] /\ d[0] = base /\ \A k \in Nat \ {0} : d[k] = step[k][d[k - 1]]

LEMMA RecursionOnNat ==
  ASSUME NEW V, NEW base \in V, NEW step \in [Nat \ {0} -> [V -> V]]
  PROVE  \E d : RecursesOnNat(d, V, base, step)
<1> DEFINE Right(d, n) == /\ d \in [0 .. n -> V] /\ d[0] = base
                          /\ \A k \in 1 .. n : d[k] = step[k][d[k - 1]]
           D(n) == CHOOSE d : Right(d, n)
           g == [n \in Nat |-> D(n)[n]]
<1>1. ASSUME NEW n \in Nat PROVE Right(D(n), n)
  <2> DEFINE steps == [k \in 1 .. n |-> step[k]]
  <2>1. steps \in [1 .. n -> [V -> V]]
    OBVIOUS
  <2>2. PICK d : Recurses(d, n, V, base, steps)
    <3> HIDE DEF steps
    <3> QED BY <2>1, Recursion
  <2>3. Right(d, n)
    BY <2>2 DEF Recurses
  <2>4. QED
    <3> HIDE DEF Right
    <3> QED BY <2>3
<1>2. \A n \in Nat : D(n)[n] \in V /\ D(n)[0] = base
  <2> TAKE n \in Nat
  <2>1. Right(D(n), n)
    BY <1>1
  <2>2. QED
    <3> HIDE DEF D
    <3> QED BY <2>1
<1>3. ASSUME NEW n \in Nat \ {0} PROVE D(n)[n] = step[n][D(n - 1)[n - 1]]
  <2> DEFINE c == D(n)
             d == D(n - 1)
  <2>1. Right(c, n) /\ Right(d, n - 1)
    <3>1. n \in Nat /\ n - 1 \in Nat
      OBVIOUS
    <3>2. QED
      <4> HIDE DEF D, Right
      <4> QED BY <1>1, <3>1
  <2> HIDE DEF c, d, D
  <2>2. c[n] = step[n][c[n - 1]]
    BY <2>1
  <2>3. c[n - 1] = d[n - 1]
    <3>1. \A k \in 1 .. n - 1 : c[k] = step[k][c[k - 1]]
      BY <2>1
    <3>2. \A k \in 1 .. n - 1 : d[k] = step[k][d[k - 1]]
      BY <2>1
    <3>3. n - 1 \in Nat /\ c[0] = base /\ d[0] = base
      BY <2>1
    <3> DEFINE m == n - 1
    <3>4. QED
      <4> HIDE DEF m
      <4>1. c[m] = d[m]
        <5>1. /\ m \in Nat /\ c[0] = d[0]
              /\ Follows(c, m, step) /\ Follows(d, m, step)
          BY <3>1, <3>2, <3>3 DEF m, Follows
        <5>2. QED
          BY <5>1, RecursionIsUnique
      <4>2. QED
        BY <4>1 DEF m
  <2>4. QED
    BY <2>2, <2>3 DEF c, d
<1>4. g \in [Nat -> V] /\ g[0] = base /\ \A k \in Nat \ {0} : g[k] = step[k][g[k - 1]]
  <2> HIDE DEF D
  <2> QED BY <1>2, <1>3
<1>5. QED
  <2> HIDE DEF g
  <2> QED BY <1>4 DEF RecursesOnNat
=============================================================================
