-------------------------- MODULE SortLibraryProofs -------------------------
(***************************************************************************)
(* What the sort and the merge return, for lists of every length.          *)
(***************************************************************************)
EXTENDS SortLibrary, InductionLemmas

Movies == [score : Nat, name : Nat, secret : Nat]

\* The items of x are those of u from l to r, each once, but for the secrets.
Lists(x, u, l, r) ==
  /\ Len(x) = r - l + 1
  /\ \E p \in [1 .. Len(x) -> l .. r] :
       /\ \A j, k \in 1 .. Len(x) : j # k => p[j] # p[k]
       /\ \A k \in 1 .. Len(x) : SameMovie(x[k], u[p[k]])

-----------------------------------------------------------------------------
(***************************************************************************)
(* merge                                                                   *)
(***************************************************************************)
MergeStep(s, mid) ==
  [k \in 1 .. Len(s) |->
     [i \in 0 .. mid |-> IF TakesLeft(s, mid, i + 1, mid + k - i) THEN i + 1 ELSE i]]

MergeBody(s, mid, g) ==
  [k \in 0 .. Len(s) |-> IF k = 0 THEN 0 ELSE MergeStep(s, mid)[k][g[k - 1]]]

MergeLeft(s, mid) == CHOOSE g : g = MergeBody(s, mid, g)

MergeSource(s, mid) ==
  [k \in 1 .. Len(s) |->
     IF MergeLeft(s, mid)[k] > MergeLeft(s, mid)[k - 1] THEN MergeLeft(s, mid)[k]
     ELSE mid + k - MergeLeft(s, mid)[k]]

\* A recursion of the form that merge has.
LEMMA Unfolding ==
  ASSUME NEW n \in Nat, NEW V, NEW base \in V, NEW step \in [1 .. n -> [V -> V]]
  PROVE  Recurses(CHOOSE g : g = [k \in 0 .. n |-> IF k = 0 THEN base ELSE step[k][g[k - 1]]],
                  n, V, base, step)
<1> DEFINE Body(g) == [k \in 0 .. n |-> IF k = 0 THEN base ELSE step[k][g[k - 1]]]
           f == CHOOSE g : g = Body(g)
<1>1. PICK d : Recurses(d, n, V, base, step)
  BY Recursion
<1>2. d = Body(d)
  BY <1>1 DEF Recurses
<1>3. f = Body(f)
  <2> HIDE DEF Body
  <2> QED BY <1>2
<1>4. f[0] = base /\ \A k \in 1 .. n : f[k] = step[k][f[k - 1]]
  <2> HIDE DEF f
  <2>1. \A k \in 0 .. n : f[k] = IF k = 0 THEN base ELSE step[k][f[k - 1]]
    BY <1>3
  <2>2. QED
    BY <2>1
<1>5. \A k \in 0 .. n : f[k] \in V
  <2> DEFINE S == {k \in 0 .. n : f[k] \in V}
  <2> HIDE DEF f
  <2>1. 0 \in S /\ \A k \in Nat : k < n /\ k \in S => k + 1 \in S
    BY <1>4
  <2>2. 0 .. n \subseteq S
    <3> HIDE DEF S
    <3> QED BY <2>1, UpTo
  <2>3. QED
    BY <2>2
<1>6. f \in [0 .. n -> V]
  <2> HIDE DEF f
  <2> QED BY <1>3, <1>5
<1>7. QED
  <2> HIDE DEF f
  <2>1. Recurses(f, n, V, base, step)
    BY <1>4, <1>6 DEF Recurses
  <2>2. QED
    BY <2>1 DEF f

LEMMA MergeIs ==
  ASSUME NEW s, NEW mid
  PROVE  merge(s, mid) = [k \in 1 .. Len(s) |-> s[MergeSource(s, mid)[k]]]
<1>1. merge(s, mid) = [k \in 1 .. Len(s) |->
                         IF MergeLeft(s, mid)[k] > MergeLeft(s, mid)[k - 1] THEN s[MergeLeft(s, mid)[k]]
                         ELSE s[mid + k - MergeLeft(s, mid)[k]]]
  BY DEF merge, MergeLeft, MergeBody, MergeStep
<1>2. QED
  BY <1>1 DEF MergeSource

LEMMA MergeLeftCounts ==
  ASSUME NEW s, Len(s) \in Nat, NEW mid \in 0 .. Len(s)
  PROVE  /\ MergeLeft(s, mid) \in [0 .. Len(s) -> 0 .. mid]
         /\ MergeLeft(s, mid)[0] = 0
         /\ \A k \in 1 .. Len(s) :
              LET i == MergeLeft(s, mid)[k - 1]
              IN  MergeLeft(s, mid)[k]
                    = IF TakesLeft(s, mid, i + 1, mid + k - i) THEN i + 1 ELSE i
<1> DEFINE n == Len(s)
           V == 0 .. mid
           step == MergeStep(s, mid)
           left == MergeLeft(s, mid)
<1>1. step \in [1 .. n -> [V -> V]]
  BY DEF MergeStep, TakesLeft
<1>2. Recurses(left, n, V, 0, step)
  <2>1. 0 \in V
    OBVIOUS
  <2>2. left = CHOOSE g : g = [k \in 0 .. n |-> IF k = 0 THEN 0 ELSE step[k][g[k - 1]]]
    BY DEF MergeLeft, MergeBody
  <2> HIDE DEF step, V, left, n
  <2>3. n \in Nat
    BY DEF n
  <2>4. QED
    BY <1>1, <2>1, <2>2, <2>3, Unfolding
<1>3. ASSUME NEW k \in 1 .. n
      PROVE  LET i == left[k - 1]
             IN  left[k] = IF TakesLeft(s, mid, i + 1, mid + k - i) THEN i + 1 ELSE i
  <2>1. left[k - 1] \in V /\ left[k] = step[k][left[k - 1]]
    <3> HIDE DEF left, step, V
    <3> QED BY <1>2, <1>3 DEF Recurses
  <2> HIDE DEF left
  <2>2. QED
    BY <2>1 DEF MergeStep
<1>4. left \in [0 .. n -> V] /\ left[0] = 0
  <2> HIDE DEF left, step, V
  <2> QED BY <1>2 DEF Recurses
<1>5. QED
  <2> HIDE DEF left
  <2>1. QED
    BY <1>3, <1>4 DEF left

\* The items come from one half or the other, and neither runs out too early.
LEMMA MergeLeftIsBounded ==
  ASSUME NEW s, Len(s) \in Nat, NEW mid \in 0 .. Len(s)
  PROVE  LET left == MergeLeft(s, mid)
         IN  /\ left \in [0 .. Len(s) -> 0 .. mid] /\ left[0] = 0
             /\ \A k \in 0 .. Len(s) : 0 <= k - left[k] /\ k - left[k] <= Len(s) - mid
             /\ \A k \in 1 .. Len(s) : left[k] = left[k - 1] \/ left[k] = left[k - 1] + 1
<1> DEFINE n == Len(s)
           left == MergeLeft(s, mid)
           S == {k \in 0 .. n : 0 <= k - left[k] /\ k - left[k] <= n - mid}
<1>1. /\ left \in [0 .. n -> 0 .. mid] /\ left[0] = 0
      /\ \A k \in 1 .. n : left[k] = IF TakesLeft(s, mid, left[k - 1] + 1, mid + k - left[k - 1])
                                     THEN left[k - 1] + 1 ELSE left[k - 1]
  BY MergeLeftCounts
<1> HIDE DEF left
<1>2. 0 \in S
  BY <1>1
<1>3. ASSUME NEW k \in Nat, k < n, k \in S PROVE k + 1 \in S
  <2> DEFINE i == left[k]
  <2>1. k + 1 \in 1 .. n /\ (k + 1) - 1 = k
    BY <1>3
  <2>2. left[k + 1] = IF TakesLeft(s, mid, i + 1, mid + (k + 1) - i) THEN i + 1 ELSE i
    BY <1>1, <2>1
  <2>3. i \in 0 .. mid /\ 0 <= k - i /\ k - i <= n - mid
    BY <1>1, <1>3
  <2> HIDE DEF i
  <2>4. CASE TakesLeft(s, mid, i + 1, mid + (k + 1) - i)
    BY <1>3, <2>2, <2>3, <2>4
  <2>5. CASE ~TakesLeft(s, mid, i + 1, mid + (k + 1) - i)
    <3>1. i = mid \/ mid + (k + 1) - i <= n
      BY <2>3, <2>5 DEF TakesLeft
    <3>2. (k + 1) - i <= n - mid
      BY <1>3, <2>3, <3>1
    <3>3. QED
      BY <1>3, <2>2, <2>3, <2>5, <3>2
  <2>6. QED
    BY <2>4, <2>5
<1>4. 0 .. n \subseteq S
  <2> HIDE DEF S
  <2> QED BY <1>2, <1>3, UpTo
<1>5. \A k \in 1 .. n : left[k] = left[k - 1] \/ left[k] = left[k - 1] + 1
  BY <1>1
<1>6. \A k \in 0 .. n : 0 <= k - left[k] /\ k - left[k] <= n - mid
  BY <1>4
<1>7. QED
  <2> HIDE DEF S
  <2> QED BY <1>1, <1>5, <1>6 DEF left

\* Neither goes back.
LEMMA MergeLeftGrows ==
  ASSUME NEW s, Len(s) \in Nat, NEW mid \in 0 .. Len(s), NEW j \in 0 .. Len(s)
  PROVE  LET left == MergeLeft(s, mid)
         IN  \A k \in j .. Len(s) : left[j] <= left[k] /\ j - left[j] <= k - left[k]
<1> DEFINE n == Len(s)
           left == MergeLeft(s, mid)
           S == {i \in Nat : j + i <= n => /\ left[j] <= left[j + i]
                                           /\ j - left[j] <= (j + i) - left[j + i]}
<1>1. /\ left \in [0 .. n -> 0 .. mid]
      /\ \A k \in 1 .. n : left[k] = left[k - 1] \/ left[k] = left[k - 1] + 1
  BY MergeLeftIsBounded
<1> HIDE DEF left
<1>2. 0 \in S
  BY <1>1
<1>3. ASSUME NEW i \in Nat, i \in S PROVE i + 1 \in S
  <2>1. SUFFICES ASSUME j + (i + 1) <= n
                 PROVE  /\ left[j] <= left[j + (i + 1)]
                        /\ j - left[j] <= (j + (i + 1)) - left[j + (i + 1)]
    OBVIOUS
  <2> DEFINE k == j + i
  <2>2. k \in 0 .. n /\ k + 1 \in 1 .. n /\ (k + 1) - 1 = k /\ j + (i + 1) = k + 1
    BY <2>1
  <2>3. left[j] <= left[k] /\ j - left[j] <= k - left[k]
    BY <1>3, <2>2
  <2> HIDE DEF k
  <2>4. left[k + 1] = left[k] \/ left[k + 1] = left[k] + 1
    BY <1>1, <2>2
  <2>5. left[k] \in Int /\ left[j] \in Int
    BY <1>1, <2>2
  <2>6. QED
    BY <2>2, <2>3, <2>4, <2>5
<1>4. \A i \in Nat : i \in S
  <2> TAKE i \in Nat
  <2>1. 0 .. i \subseteq S
    <3> HIDE DEF S
    <3> QED BY <1>2, <1>3, UpTo
  <2>2. QED
    <3> HIDE DEF S
    <3> QED BY <2>1
<1>5. ASSUME NEW k \in j .. n PROVE left[j] <= left[k] /\ j - left[j] <= k - left[k]
  <2>1. k - j \in Nat /\ j + (k - j) = k
    OBVIOUS
  <2>2. k - j \in S
    BY <1>4, <2>1
  <2>3. QED
    BY <2>1, <2>2
<1>6. QED
  <2> HIDE DEF S
  <2> QED BY <1>5 DEF left

\* What is merged is every item of the halves, once.
LEMMA MergeSourceIsInjective ==
  ASSUME NEW s, Len(s) \in Nat, NEW mid \in 0 .. Len(s)
  PROVE  LET p == MergeSource(s, mid)
         IN  /\ p \in [1 .. Len(s) -> 1 .. Len(s)]
             /\ \A j, k \in 1 .. Len(s) : j < k => p[j] # p[k]
<1> DEFINE n == Len(s)
           left == MergeLeft(s, mid)
           p == MergeSource(s, mid)
<1>1. /\ left \in [0 .. n -> 0 .. mid] /\ left[0] = 0
      /\ \A k \in 0 .. n : 0 <= k - left[k] /\ k - left[k] <= n - mid
      /\ \A k \in 1 .. n : left[k] = left[k - 1] \/ left[k] = left[k - 1] + 1
  BY MergeLeftIsBounded
<1>2. \A j \in 0 .. n : \A k \in j .. n : left[j] <= left[k] /\ j - left[j] <= k - left[k]
  BY MergeLeftGrows
<1>3. \A k \in 1 .. n : p[k] = IF left[k] > left[k - 1] THEN left[k] ELSE mid + k - left[k]
  BY DEF MergeSource
<1>4. p = [k \in 1 .. n |-> p[k]]
  BY DEF MergeSource
<1> HIDE DEF left, p
<1>5. ASSUME NEW k \in 1 .. n
      PROVE  /\ k \in 0 .. n /\ k - 1 \in 0 .. n /\ left[k] \in 0 .. mid /\ left[k - 1] \in 0 .. mid
             /\ left[k] = left[k - 1] \/ left[k] = left[k - 1] + 1
             /\ left[k] > left[k - 1] => p[k] = left[k] /\ p[k] \in 1 .. mid
             /\ left[k] = left[k - 1] => p[k] = mid + k - left[k] /\ p[k] \in mid + 1 .. n
  <2>0. k \in 0 .. n /\ k - 1 \in 0 .. n
    OBVIOUS
  <2>1. /\ k \in 0 .. n /\ k - 1 \in 0 .. n /\ left[k] \in 0 .. mid /\ left[k - 1] \in 0 .. mid
        /\ left[k] = left[k - 1] \/ left[k] = left[k - 1] + 1
    <3> HIDE DEF n
    <3> QED BY <1>1, <2>0
  <2>2. 0 <= (k - 1) - left[k - 1] /\ k - left[k] <= n - mid
    BY <1>1, <2>1
  <2>3. CASE left[k] = left[k - 1] + 1
    <3>1. left[k] > left[k - 1] /\ left[k] \in 1 .. mid /\ left[k] # left[k - 1]
      BY <2>1, <2>3
    <3>2. QED
      BY <1>3, <2>1, <3>1
  <2>4. CASE left[k] = left[k - 1]
    <3>1. ~(left[k] > left[k - 1]) /\ mid + k - left[k] \in mid + 1 .. n
      BY <2>1, <2>2, <2>4
    <3>2. QED
      BY <1>3, <2>1, <3>1
  <2>5. QED
    BY <2>1, <2>3, <2>4
<1>6. p \in [1 .. n -> 1 .. n]
  <2>1. \A k \in 1 .. n : p[k] \in 1 .. n
    BY <1>5
  <2>2. QED
    BY <1>4, <2>1
<1>7. ASSUME NEW j \in 1 .. n, NEW k \in 1 .. n, j < k PROVE p[j] # p[k]
  <2>1. j \in 0 .. n /\ k - 1 \in j .. n
    BY <1>7
  <2>2. left[j] <= left[k - 1] /\ j - left[j] <= (k - 1) - left[k - 1]
    BY <1>2, <2>1
  <2>3. /\ left[j] \in 0 .. mid /\ left[k] \in 0 .. mid /\ left[k - 1] \in 0 .. mid
        /\ left[k] = left[k - 1] \/ left[k] = left[k - 1] + 1
    BY <1>5
  <2>4. \/ p[j] = left[j] /\ p[j] \in 1 .. mid
        \/ p[j] = mid + j - left[j] /\ p[j] \in mid + 1 .. n
    <3>1. /\ left[j] \in 0 .. mid /\ left[j - 1] \in 0 .. mid
          /\ left[j] = left[j - 1] \/ left[j] = left[j - 1] + 1
          /\ left[j] > left[j - 1] => p[j] = left[j] /\ p[j] \in 1 .. mid
          /\ left[j] = left[j - 1] => p[j] = mid + j - left[j] /\ p[j] \in mid + 1 .. n
      BY <1>5
    <3>2. QED
      BY <3>1
  <2>5. \/ left[k] = left[k - 1] + 1 /\ p[k] = left[k] /\ p[k] \in 1 .. mid
        \/ left[k] = left[k - 1] /\ p[k] = mid + k - left[k] /\ p[k] \in mid + 1 .. n
    <3>1. /\ left[k] > left[k - 1] => p[k] = left[k] /\ p[k] \in 1 .. mid
          /\ left[k] = left[k - 1] => p[k] = mid + k - left[k] /\ p[k] \in mid + 1 .. n
      BY <1>5
    <3>2. QED
      BY <2>3, <3>1
  <2> DEFINE a == left[j]
             b == left[k - 1]
             c == left[k]
  <2>6. /\ a \in 0 .. mid /\ b \in 0 .. mid /\ c \in 0 .. mid
        /\ a <= b /\ j - a <= (k - 1) - b
        /\ \/ p[j] = a /\ p[j] \in 1 .. mid
           \/ p[j] = mid + j - a /\ p[j] \in mid + 1 .. n
        /\ \/ c = b + 1 /\ p[k] = c /\ p[k] \in 1 .. mid
           \/ c = b /\ p[k] = mid + k - c /\ p[k] \in mid + 1 .. n
    BY <2>2, <2>3, <2>4, <2>5
  <2> HIDE DEF a, b, c
  <2>7. QED
    BY <2>6
<1>8. QED
  BY <1>6, <1>7 DEF p

LEMMA BeforeIsOrder ==
  ASSUME NEW x \in Movies, NEW y \in Movies, NEW z \in Movies
  PROVE  /\ ~Before(x, x)
         /\ Before(x, y) /\ Before(y, z) => Before(x, z)
         /\ ~Before(x, y) /\ ~Before(y, z) => ~Before(x, z)
  BY DEF Before, Movies

\* The first mid items of s are in order, and so are the others.
HalvesInOrder(s, mid) ==
  \A j, k \in 1 .. Len(s) : j < k /\ (k <= mid \/ mid < j) => ~Before(s[k], s[j])

\* The item that is taken comes before what is left of both halves.
LEMMA MergeTakesFirst ==
  ASSUME NEW s, Len(s) \in Nat, NEW mid \in 0 .. Len(s),
         \A k \in 1 .. Len(s) : s[k] \in Movies, HalvesInOrder(s, mid),
         NEW i \in 0 .. mid, NEW r \in mid + 1 .. Len(s) + 1, NEW x \in 1 .. Len(s)
  PROVE  /\ TakesLeft(s, mid, i + 1, r) /\ (x \in i + 2 .. mid \/ x \in r .. Len(s))
              => ~Before(s[x], s[i + 1])
         /\ ~TakesLeft(s, mid, i + 1, r) /\ r <= Len(s) /\ (x \in i + 1 .. mid \/ x \in r + 1 .. Len(s))
              => ~Before(s[x], s[r])
<1> DEFINE n == Len(s)
<1>1. ASSUME TakesLeft(s, mid, i + 1, r) PROVE x \in i + 2 .. mid \/ x \in r .. n => ~Before(s[x], s[i + 1])
  <2>1. i + 1 \in 1 .. n /\ i + 1 <= mid /\ (r > n \/ Before(s[i + 1], s[r]))
    BY <1>1 DEF TakesLeft
  <2>2. CASE x \in i + 2 .. mid
    BY <2>1, <2>2 DEF HalvesInOrder
  <2>3. CASE x \in r .. n
    <3>1. r \in 1 .. n /\ Before(s[i + 1], s[r])
      BY <2>1, <2>3 DEF HalvesInOrder
    <3>2. ~Before(s[x], s[r])
      <4>1. x = r \/ r < x
        BY <2>3
      <4>2. QED
        BY <3>1, <4>1, BeforeIsOrder DEF HalvesInOrder
    <3>3. s[x] \in Movies /\ s[r] \in Movies /\ s[i + 1] \in Movies
      BY <2>1, <3>1
    <3>4. QED
      BY <3>1, <3>2, <3>3, BeforeIsOrder
  <2>4. QED
    BY <2>2, <2>3
<1>2. ASSUME ~TakesLeft(s, mid, i + 1, r), r <= n
      PROVE  x \in i + 1 .. mid \/ x \in r + 1 .. n => ~Before(s[x], s[r])
  <2>1. r \in 1 .. n /\ (i + 1 > mid \/ ~Before(s[i + 1], s[r]))
    BY <1>2 DEF TakesLeft
  <2>2. CASE x \in r + 1 .. n
    BY <2>1, <2>2 DEF HalvesInOrder
  <2>3. CASE x \in i + 1 .. mid
    <3>1. i + 1 \in 1 .. n /\ ~Before(s[i + 1], s[r])
      BY <2>1, <2>3 DEF HalvesInOrder
    <3>2. ~Before(s[x], s[i + 1])
      <4>1. x = i + 1 \/ i + 1 < x
        BY <2>3
      <4>2. QED
        BY <2>3, <3>1, <4>1, BeforeIsOrder DEF HalvesInOrder
    <3>3. s[x] \in Movies /\ s[r] \in Movies /\ s[i + 1] \in Movies
      BY <2>1, <3>1
    <3>4. QED
      BY <3>1, <3>2, <3>3, BeforeIsOrder
  <2>4. QED
    BY <2>2, <2>3
<1>3. QED
  BY <1>1, <1>2

LEMMA MergeKeepsOrder ==
  ASSUME NEW s, Len(s) \in Nat, NEW mid \in 0 .. Len(s),
         \A k \in 1 .. Len(s) : s[k] \in Movies, HalvesInOrder(s, mid)
  PROVE  InOrder(merge(s, mid))
<1> DEFINE n == Len(s)
           left == MergeLeft(s, mid)
           p == MergeSource(s, mid)
<1>1. /\ left \in [0 .. n -> 0 .. mid]
      /\ \A k \in 0 .. n : 0 <= k - left[k] /\ k - left[k] <= n - mid
  BY MergeLeftIsBounded
<1>2. \A j \in 0 .. n : \A k \in j .. n : left[j] <= left[k] /\ j - left[j] <= k - left[k]
  BY MergeLeftGrows
<1>3. \A k \in 1 .. n : left[k] = IF TakesLeft(s, mid, left[k - 1] + 1, mid + k - left[k - 1])
                                  THEN left[k - 1] + 1 ELSE left[k - 1]
  BY MergeLeftCounts
<1>4. \A k \in 1 .. n : p[k] = IF left[k] > left[k - 1] THEN left[k] ELSE mid + k - left[k]
  BY DEF MergeSource
<1>5. p \in [1 .. n -> 1 .. n]
  BY MergeSourceIsInjective
<1> HIDE DEF left, p
<1>6. ASSUME NEW j \in 1 .. n, NEW k \in 1 .. n, j < k PROVE ~Before(s[p[k]], s[p[j]])
  <2> DEFINE i == left[j - 1]
             r == mid + j - left[j - 1]
             a == left[j]
             b == left[k - 1]
             c == left[k]
  <2>1. j - 1 \in 0 .. n /\ j \in 0 .. n /\ k - 1 \in j .. n /\ k - 1 \in 0 .. n /\ k \in 0 .. n
    BY <1>6
  <2>2. i \in 0 .. mid /\ a \in 0 .. mid /\ b \in 0 .. mid /\ c \in 0 .. mid
    BY <1>1, <2>1
  <2>3. a <= b /\ j - a <= (k - 1) - b
    BY <1>2, <2>1
  <2>4. a = IF TakesLeft(s, mid, i + 1, r) THEN i + 1 ELSE i
    BY <1>3
  <2>5. c = b \/ c = b + 1
    BY <1>3
  <2>6. p[j] = IF a > i THEN a ELSE mid + j - a
    BY <1>4
  <2>7. p[k] = IF c > b THEN c ELSE mid + k - c
    BY <1>4
  <2>8. p[j] \in 1 .. n /\ p[k] \in 1 .. n
    BY <1>5
  <2>9. 0 <= (j - 1) - i /\ (j - 1) - i <= n - mid
    BY <1>1, <2>1
  <2> HIDE DEF i, a, b, c
  <2>10. r = mid + j - i
    BY DEF i
  <2> HIDE DEF r
  <2>11. r \in mid + 1 .. n + 1
    <3>1. n \in Nat /\ mid \in 0 .. n /\ j \in 1 .. n
      OBVIOUS
    <3> HIDE DEF n
    <3>2. QED
      BY <2>2, <2>9, <2>10, <3>1
  <2>12. CASE TakesLeft(s, mid, i + 1, r)
    <3>1. p[j] = i + 1 /\ a = i + 1
      BY <2>2, <2>4, <2>6, <2>12
    <3>2. p[k] \in i + 2 .. mid \/ p[k] \in r .. n
      <4>1. CASE c = b + 1
        BY <2>2, <2>3, <2>7, <3>1, <4>1
      <4>2. CASE c = b
        BY <1>6, <2>2, <2>3, <2>7, <2>8, <2>10, <2>11, <3>1, <4>2
      <4>3. QED
        BY <2>5, <4>1, <4>2
    <3>3. QED
      BY <2>2, <2>8, <2>11, <2>12, <3>1, <3>2, MergeTakesFirst
  <2>13. CASE ~TakesLeft(s, mid, i + 1, r)
    <3>1. p[j] = r /\ a = i
      BY <2>2, <2>4, <2>6, <2>10, <2>13
    <3>2. p[k] \in i + 1 .. mid \/ p[k] \in r + 1 .. n
      <4>1. CASE c = b + 1
        BY <2>2, <2>3, <2>7, <3>1, <4>1
      <4>2. CASE c = b
        BY <1>6, <2>2, <2>3, <2>7, <2>8, <2>10, <2>11, <3>1, <4>2
      <4>3. QED
        BY <2>5, <4>1, <4>2
    <3>3. r <= n
      BY <2>8, <3>1
    <3>4. QED
      BY <2>2, <2>8, <2>11, <2>13, <3>1, <3>2, <3>3, MergeTakesFirst
  <2>14. QED
    BY <2>12, <2>13
<1>7. merge(s, mid) = [k \in 1 .. n |-> s[p[k]]]
  BY MergeIs DEF p
<1>8. QED
  <2>1. DOMAIN merge(s, mid) = 1 .. n /\ \A k \in 1 .. n : merge(s, mid)[k] = s[p[k]]
    BY <1>7
  <2>2. QED
    BY <1>6, <2>1 DEF InOrder

-----------------------------------------------------------------------------
(***************************************************************************)
(* sort                                                                    *)
(***************************************************************************)
Better(s, k, best) ==
  \/ s[k].score > s[best].score
  \/ s[k].score = s[best].score /\ s[best].name > s[k].name

ArgmaxBody(s, start, g) ==
  [k \in 0 .. Len(s) - start |->
     IF k = 0 THEN start ELSE IF Better(s, start + k, g[k - 1]) THEN start + k ELSE g[k - 1]]

LEMMA ArgmaxIs ==
  ASSUME NEW s, Len(s) \in Nat, NEW start \in 1 .. Len(s)
  PROVE  \E f \in [0 .. Len(s) - start -> start .. Len(s)] :
           /\ argmax(s, start) = f[Len(s) - start]
           /\ f[0] = start
           /\ \A k \in 1 .. Len(s) - start :
                f[k] = IF Better(s, start + k, f[k - 1]) THEN start + k ELSE f[k - 1]
<1> DEFINE n == Len(s)
           m == Len(s) - start
           V == start .. n
           step == [k \in 1 .. m |->
                      [best \in V |-> IF Better(s, start + k, best) THEN start + k ELSE best]]
           f == CHOOSE g : g = ArgmaxBody(s, start, g)
<1>1. argmax(s, start) = f[m]
  BY DEF argmax, ArgmaxBody, Better
<1>2. m \in Nat /\ start \in V /\ step \in [1 .. m -> [V -> V]]
  OBVIOUS
<1>3. PICK d : Recurses(d, m, V, start, step)
  <2> HIDE DEF m, V, step
  <2> QED BY <1>2, Recursion
<1>4. d = ArgmaxBody(s, start, d)
  <2>1. d \in [0 .. m -> V] /\ d[0] = start
    <3> HIDE DEF m, V, step
    <3> QED BY <1>3 DEF Recurses
  <2>2. ASSUME NEW k \in 1 .. m
        PROVE  d[k] = IF Better(s, start + k, d[k - 1]) THEN start + k ELSE d[k - 1]
    <3>1. d[k] = step[k][d[k - 1]] /\ d[k - 1] \in V
      <4>1. k - 1 \in 0 .. m
        BY <1>2
      <4>2. d[k] = step[k][d[k - 1]]
        <5> HIDE DEF m, V, step
        <5> QED BY <1>3 DEF Recurses
      <4>3. QED
        <5> HIDE DEF step
        <5> QED BY <2>1, <4>1, <4>2
    <3>2. QED
      BY <3>1
  <2>3. \A k \in 0 .. m : k = 0 \/ k \in 1 .. m
    BY <1>2
  <2>4. \A k \in 0 .. m : d[k] = IF k = 0 THEN start
                                 ELSE IF Better(s, start + k, d[k - 1]) THEN start + k ELSE d[k - 1]
    <3> HIDE DEF m, step, V
    <3> QED BY <2>1, <2>2, <2>3, Zenon
  <2>5. d = [k \in 0 .. m |-> d[k]]
    BY <2>1
  <2>6. QED
    <3> HIDE DEF step, V
    <3> QED BY <2>4, <2>5 DEF ArgmaxBody
<1>5. f = ArgmaxBody(s, start, f)
  BY <1>4
<1> HIDE DEF f
<1>6. /\ f = [k \in 0 .. m |-> f[k]]
      /\ \A k \in 0 .. m : f[k] = IF k = 0 THEN start
                                  ELSE IF Better(s, start + k, f[k - 1]) THEN start + k ELSE f[k - 1]
  BY <1>5 DEF ArgmaxBody
<1>7. /\ f[0] = start
      /\ \A k \in 1 .. m : f[k] = IF Better(s, start + k, f[k - 1]) THEN start + k ELSE f[k - 1]
  <2>1. 0 \in 0 .. m /\ \A k \in 1 .. m : k \in 0 .. m /\ k # 0
    BY <1>2
  <2>2. QED
    <3> HIDE DEF m
    <3> QED BY <1>6, <2>1, Zenon
<1>8. \A k \in 0 .. m : f[k] \in V
  <2> DEFINE S == {k \in 0 .. m : f[k] \in V}
  <2>1. 0 \in S
    BY <1>7
  <2>2. ASSUME NEW k \in Nat, k < m, k \in S PROVE k + 1 \in S
    <3>1. k + 1 \in 1 .. m /\ (k + 1) - 1 = k /\ start + (k + 1) \in V
      BY <2>2
    <3>2. f[k + 1] = start + (k + 1) \/ f[k + 1] = f[k]
      BY <1>7, <3>1
    <3>3. QED
      BY <2>2, <3>1, <3>2
  <2>3. 0 .. m \subseteq S
    <3> HIDE DEF S, m
    <3> QED BY <1>2, <2>1, <2>2, UpTo
  <2>4. QED
    BY <2>3
<1>9. f \in [0 .. m -> V]
  <2> HIDE DEF m, V
  <2> QED BY <1>6, <1>8
<1>10. QED
  BY <1>1, <1>7, <1>9

LEMMA ArgmaxIsFirst ==
  ASSUME NEW s, Len(s) \in Nat, \A k \in 1 .. Len(s) : s[k] \in Movies, NEW start \in 1 .. Len(s)
  PROVE  /\ argmax(s, start) \in start .. Len(s)
         /\ \A j \in start .. Len(s) : ~Before(s[j], s[argmax(s, start)])
<1> DEFINE n == Len(s)
           m == Len(s) - start
<1>1. PICK f \in [0 .. m -> start .. n] :
        /\ argmax(s, start) = f[m]
        /\ f[0] = start
        /\ \A k \in 1 .. m : f[k] = IF Better(s, start + k, f[k - 1]) THEN start + k ELSE f[k - 1]
  BY ArgmaxIs
<1> DEFINE S == {k \in 0 .. m : \A j \in 0 .. k : ~Before(s[start + j], s[f[k]])}
<1>2. 0 \in S
  BY <1>1, BeforeIsOrder
<1>3. ASSUME NEW k \in Nat, k < m, k \in S PROVE k + 1 \in S
  <2> DEFINE x == s[start + (k + 1)]
             y == s[f[k]]
  <2>1. k + 1 \in 1 .. m /\ (k + 1) - 1 = k /\ start + (k + 1) \in 1 .. n /\ k \in 0 .. m
    BY <1>3
  <2>2. f[k] \in 1 .. n
    <3>1. f[k] \in start .. n
      <4> HIDE DEF m
      <4> QED BY <1>1, <2>1
    <3>2. QED
      BY <3>1
  <2>3. x \in Movies /\ y \in Movies
    BY <2>1, <2>2
  <2>4. f[k + 1] = IF Better(s, start + (k + 1), f[k]) THEN start + (k + 1) ELSE f[k]
    BY <1>1, <2>1
  <2>5. s[f[k + 1]] = IF Before(x, y) THEN x ELSE y
    <3>1. Better(s, start + (k + 1), f[k]) <=> Before(x, y)
      <4>1. Better(s, start + (k + 1), f[k])
              <=> x.score > y.score \/ (x.score = y.score /\ y.name > x.name)
        BY DEF Better
      <4>2. x.name \in Nat /\ y.name \in Nat
        <5> HIDE DEF x, y
        <5> QED BY <2>3 DEF Movies
      <4>3. QED
        <5> HIDE DEF x, y
        <5> QED BY <4>1, <4>2 DEF Before
    <3>2. QED
      BY <2>4, <3>1
  <2>6. ASSUME NEW j \in 0 .. k + 1 PROVE ~Before(s[start + j], s[f[k + 1]])
    <3>1. CASE j = k + 1
      <4>1. ~Before(x, IF Before(x, y) THEN x ELSE y)
        <5> HIDE DEF x, y
        <5> QED BY <2>3, BeforeIsOrder
      <4>2. QED
        BY <2>5, <3>1, <4>1
    <3>2. CASE j \in 0 .. k
      <4> DEFINE z == s[start + j]
      <4>1. z \in Movies /\ ~Before(z, y)
        <5>1. start + j \in 1 .. n
          BY <1>3, <3>2
        <5>2. QED
          BY <1>3, <3>2, <5>1
      <4>2. ~Before(z, IF Before(x, y) THEN x ELSE y)
        <5> HIDE DEF x, y, z
        <5> QED BY <2>3, <4>1, BeforeIsOrder
      <4>3. QED
        BY <2>5, <4>2
    <3>3. QED
      BY <2>6, <3>1, <3>2
  <2>7. QED
    BY <2>1, <2>6
<1>4. 0 .. m \subseteq S
  <2>1. m \in Nat
    OBVIOUS
  <2> HIDE DEF S, m
  <2> QED BY <1>2, <1>3, <2>1, UpTo
<1>5. m \in 0 .. m /\ f[m] \in start .. n
  BY <1>1
<1>6. \A j \in 0 .. m : ~Before(s[start + j], s[f[m]])
  <2> HIDE DEF m
  <2> QED BY <1>4, <1>5
<1>7. \A j \in start .. n : j - start \in 0 .. m /\ start + (j - start) = j
  OBVIOUS
<1>8. \A j \in start .. n : ~Before(s[j], s[f[m]])
  <2> TAKE j \in start .. n
  <2>1. ~Before(s[start + (j - start)], s[f[m]])
    <3> HIDE DEF m
    <3> QED BY <1>6, <1>7
  <2>2. QED
    BY <1>7, <2>1
<1>9. QED
  <2> HIDE DEF S, m
  <2> QED BY <1>1, <1>5, <1>8

SecretAdded(new, v, n, i) ==
  /\ new \in [1 .. n -> Movies]
  /\ \A k \in 1 .. n \ {i} : new[k] = v[k]
  /\ SameMovie(new[i], v[i]) /\ new[i].secret = v[i].secret + 1

LEMMA AddSecretIs ==
  ASSUME NEW n \in Nat, NEW v \in [1 .. n -> Movies], NEW i \in 1 .. n
  PROVE  SecretAdded(add_secret(v, i), v, n, i)
  BY DEF SecretAdded, add_secret, SameMovie, Movies

Selected(new, v, n, i) ==
  /\ new \in [1 .. n -> Movies]
  /\ \E a \in i .. n :
       /\ \A j \in i .. n : ~Before(v[j], v[a])
       /\ SameMovie(new[i], v[a]) /\ new[i].secret = v[a].secret + 1
       /\ \A k \in 1 .. n \ {i} : new[k] = IF k = a THEN v[i] ELSE v[k]

LEMMA SelectIs ==
  ASSUME NEW n \in Nat, NEW v \in [1 .. n -> Movies], NEW i \in 1 .. n
  PROVE  Selected(Select(v, i), v, n, i)
<1> DEFINE a == argmax(v, i)
           w == Exchange(v, i, a)
<1>1. Len(v) = n
  OBVIOUS
<1>2. a \in i .. n /\ \A j \in i .. n : ~Before(v[j], v[a])
  BY <1>1, ArgmaxIsFirst
<1> HIDE DEF a
<1>3. w \in [1 .. n -> Movies]
  BY <1>2 DEF Exchange
<1>4. w[i] = v[a] /\ \A k \in 1 .. n \ {i} : w[k] = IF k = a THEN v[i] ELSE v[k]
  BY <1>2 DEF Exchange
<1>5. Select(v, i) = add_secret(w, i)
  BY DEF Select, a
<1> HIDE DEF w
<1>6. /\ add_secret(w, i) \in [1 .. n -> Movies]
      /\ \A k \in 1 .. n \ {i} : add_secret(w, i)[k] = w[k]
      /\ SameMovie(add_secret(w, i)[i], w[i])
      /\ add_secret(w, i)[i].secret = w[i].secret + 1
  BY <1>3, AddSecretIs DEF SecretAdded
<1>7. QED
  BY <1>2, <1>4, <1>5, <1>6 DEF Selected

\* What holds of the list after i rounds.
Sorted(d, s, n, i) ==
  /\ d \in [1 .. n -> Movies]
  /\ \E p \in [1 .. n -> 1 .. n] :
       /\ \A j, k \in 1 .. n : j # k => p[j] # p[k]
       /\ \A k \in 1 .. n : SameMovie(d[k], s[p[k]])
  /\ \A k \in 1 .. n : d[k].secret = IF k <= i THEN 1 ELSE 0
  /\ \A j, k \in 1 .. n : j < k /\ j <= i => ~Before(d[k], d[j])

LEMMA SameMovieIsEquality ==
  ASSUME NEW x, NEW y, NEW z, SameMovie(x, y)
  PROVE  /\ SameMovie(x, x) /\ SameMovie(y, x)
         /\ SameMovie(y, z) => SameMovie(x, z)
         /\ Before(x, z) <=> Before(y, z)
         /\ Before(z, x) <=> Before(z, y)
  BY DEF SameMovie, Before

LEMMA SelectSorts ==
  ASSUME NEW n \in Nat, NEW s, NEW h \in 1 .. n, NEW d \in [1 .. n -> Movies],
         Sorted(d, s, n, h - 1)
  PROVE  Sorted(Select(d, h), s, n, h)
<1> DEFINE w == Select(d, h)
           i == h - 1
<1>1. /\ w \in [1 .. n -> Movies]
      /\ \E a \in h .. n :
           /\ \A j \in h .. n : ~Before(d[j], d[a])
           /\ SameMovie(w[h], d[a]) /\ w[h].secret = d[a].secret + 1
           /\ \A k \in 1 .. n \ {h} : w[k] = IF k = a THEN d[h] ELSE d[k]
  <2>1. Selected(w, d, n, h)
    BY SelectIs
  <2> HIDE DEF w
  <2>2. QED
    BY <2>1 DEF Selected
<1> HIDE DEF w
<1>2. PICK a \in h .. n :
        /\ \A j \in h .. n : ~Before(d[j], d[a])
        /\ SameMovie(w[h], d[a]) /\ w[h].secret = d[a].secret + 1
        /\ \A k \in 1 .. n \ {h} : w[k] = IF k = a THEN d[h] ELSE d[k]
  BY <1>1
<1>3. PICK p \in [1 .. n -> 1 .. n] :
        /\ \A j, k \in 1 .. n : j # k => p[j] # p[k]
        /\ \A k \in 1 .. n : SameMovie(d[k], s[p[k]])
  BY DEF Sorted
<1> DEFINE from(k) == IF k = h THEN a ELSE IF k = a THEN h ELSE k
           q == [k \in 1 .. n |-> p[from(k)]]
<1>4. ASSUME NEW k \in 1 .. n PROVE from(k) \in 1 .. n /\ SameMovie(w[k], d[from(k)])
  <2>1. from(k) \in 1 .. n
    BY <1>1
  <2>2. k # h => w[k] = d[from(k)]
    BY <1>2
  <2>3. k = h => SameMovie(w[k], d[from(k)])
    BY <1>2
  <2>4. QED
    BY <2>1, <2>2, <2>3 DEF SameMovie
<1>5. \A j, k \in 1 .. n : j # k => from(j) # from(k)
  BY <1>1
<1> HIDE DEF from
<1>6. /\ q \in [1 .. n -> 1 .. n]
      /\ \A j, k \in 1 .. n : j # k => q[j] # q[k]
  BY <1>3, <1>4, <1>5
<1>7. \A k \in 1 .. n : SameMovie(w[k], s[q[k]])
  BY <1>3, <1>4 DEF SameMovie
<1>8. ASSUME NEW k \in 1 .. n PROVE w[k].secret = IF k <= h THEN 1 ELSE 0
  <2>1. \A j \in 1 .. n : d[j].secret = IF j <= i THEN 1 ELSE 0
    BY DEF Sorted
  <2>2. a \in 1 .. n /\ ~(a <= i) /\ ~(h <= i)
    BY <1>1
  <2>3. CASE k = h
    <3>1. w[h].secret = d[a].secret + 1 /\ d[a].secret = 0
      BY <1>2, <2>1, <2>2
    <3>2. QED
      BY <2>3, <3>1
  <2>4. CASE k # h
    <3>1. w[k] = IF k = a THEN d[h] ELSE d[k]
      BY <1>2, <2>4
    <3>2. k <= i <=> k <= h
      BY <2>4
    <3>3. QED
      BY <1>1, <2>1, <2>2, <2>4, <3>1, <3>2
  <2>5. QED
    BY <2>3, <2>4
<1>9. ASSUME NEW j \in 1 .. n, NEW k \in 1 .. n, j < k, j <= h PROVE ~Before(w[k], w[j])
  <2>1. from(j) \in 1 .. n /\ from(k) \in 1 .. n
    BY <1>4
  <2>2. Before(w[k], w[j]) <=> Before(d[from(k)], d[from(j)])
    BY <1>4, SameMovieIsEquality
  <2>3. CASE j = h
    <3>1. from(j) = a /\ from(k) \in h .. n
      BY <1>1, <1>9, <2>3 DEF from
    <3>2. QED
      BY <1>2, <2>2, <3>1
  <2>4. CASE j < h
    <3>1. from(j) = j /\ j <= i /\ j < from(k)
      BY <1>1, <1>9, <2>4 DEF from
    <3>2. QED
      BY <2>1, <2>2, <3>1 DEF Sorted
  <2>5. QED
    BY <1>9, <2>3, <2>4
<1>10. Sorted(w, s, n, h)
  BY <1>1, <1>6, <1>7, <1>8, <1>9 DEF Sorted
<1>11. QED
  BY <1>10 DEF w

LEMMA SortIs ==
  ASSUME NEW n \in Nat \ {0}, NEW s \in [1 .. n -> Movies], \A k \in 1 .. n : s[k].secret = 0
  PROVE  Sorted(sort(s), s, n, n)
<1> DEFINE V == [1 .. n -> Movies]
           m == n - 1
           step == [i \in 1 .. m |-> [v \in V |-> Select(v, i)]]
           Body(g) == [i \in 0 .. m |-> IF i = 0 THEN s ELSE Select(g[i - 1], i)]
           f == CHOOSE g : g = Body(g)
<1>1. Len(s) = n /\ m \in Nat
  OBVIOUS
<1>2. sort(s) = add_secret(f[m], n)
  BY <1>1 DEF sort
<1>3. step \in [1 .. m -> [V -> V]]
  <2>1. \A i \in 1 .. m : \A v \in V : Select(v, i) \in V
    <3> TAKE i \in 1 .. m
    <3> TAKE v \in V
    <3>1. n \in Nat /\ i \in 1 .. n
      OBVIOUS
    <3>2. QED
      BY <3>1, SelectIs DEF Selected
  <2>2. QED
    <3> HIDE DEF V, m
    <3> QED BY <2>1
<1>4. PICK d : Recurses(d, m, V, s, step)
  <2> HIDE DEF V, step, m
  <2>1. s \in V
    BY DEF V
  <2>2. QED
    BY <1>1, <1>3, <2>1, Recursion
<1>5. d = Body(d)
  <2>1. d \in [0 .. m -> V] /\ d[0] = s
    <3> HIDE DEF m, V, step
    <3> QED BY <1>4 DEF Recurses
  <2>2. ASSUME NEW k \in 1 .. m PROVE d[k] = Select(d[k - 1], k)
    <3>1. k - 1 \in 0 .. m
      BY <1>1
    <3>2. d[k] = step[k][d[k - 1]] /\ d[k - 1] \in V
      <4> HIDE DEF m, V, step
      <4> QED BY <1>4, <2>1, <3>1 DEF Recurses
    <3>3. QED
      <4> HIDE DEF V, m
      <4> QED BY <3>2
  <2>3. \A k \in 0 .. m : k = 0 \/ k \in 1 .. m
    BY <1>1
  <2>4. \A k \in 0 .. m : d[k] = IF k = 0 THEN s ELSE Select(d[k - 1], k)
    <3> HIDE DEF m, V
    <3> QED BY <2>1, <2>2, <2>3, Zenon
  <2>5. d = [k \in 0 .. m |-> d[k]]
    <3> HIDE DEF m, V
    <3> QED BY <2>1
  <2>6. QED
    <3> HIDE DEF V, m
    <3> QED BY <2>4, <2>5
<1>6. f = Body(f)
  <2> HIDE DEF Body
  <2> QED BY <1>5
<1> HIDE DEF f
<1>7. f[0] = s /\ \A k \in 1 .. m : f[k] = Select(f[k - 1], k)
  <2>1. \A k \in 0 .. m : f[k] = IF k = 0 THEN s ELSE Select(f[k - 1], k)
    <3> HIDE DEF m
    <3> QED BY <1>6
  <2>2. 0 \in 0 .. m /\ \A k \in 1 .. m : k \in 0 .. m /\ k # 0
    BY <1>1
  <2>3. QED
    <3> HIDE DEF m
    <3> QED BY <2>1, <2>2, Zenon
<1> DEFINE S == {k \in 0 .. m : Sorted(f[k], s, n, k)}
<1>8. 0 \in S
  <2> DEFINE p == [k \in 1 .. n |-> k]
  <2>1. /\ p \in [1 .. n -> 1 .. n] /\ \A j, k \in 1 .. n : j # k => p[j] # p[k]
        /\ \A k \in 1 .. n : SameMovie(s[k], s[p[k]])
    BY DEF SameMovie
  <2>2. Sorted(s, s, n, 0)
    <3> HIDE DEF p
    <3>1. \A k \in 1 .. n : s[k].secret = IF k <= 0 THEN 1 ELSE 0
      OBVIOUS
    <3>2. \A j, k \in 1 .. n : j < k /\ j <= 0 => ~Before(s[k], s[j])
      OBVIOUS
    <3>3. QED
      BY <2>1, <3>1, <3>2 DEF Sorted
  <2>3. QED
    BY <1>1, <1>7, <2>2
<1>9. ASSUME NEW k \in Nat, k < m, k \in S PROVE k + 1 \in S
  <2>1. k + 1 \in 1 .. m /\ (k + 1) - 1 = k /\ k + 1 \in 1 .. n
    BY <1>9
  <2>2. f[k + 1] = Select(f[k], k + 1)
    BY <1>7, <2>1
  <2>3. Sorted(f[k], s, n, k)
    BY <1>9
  <2> DEFINE e == f[k]
             h == k + 1
  <2>4. Sorted(Select(e, h), s, n, h)
    <3>1. e \in [1 .. n -> Movies] /\ n \in Nat
      BY <2>3 DEF Sorted
    <3>2. h \in 1 .. n /\ Sorted(e, s, n, h - 1)
      BY <2>1, <2>3
    <3> HIDE DEF e, h
    <3>3. QED
      BY <3>1, <3>2, SelectSorts
  <2>5. QED
    BY <2>1, <2>2, <2>4
<1>10. Sorted(f[m], s, n, m)
  <2>1. 0 .. m \subseteq S
    <3> HIDE DEF S, m
    <3> QED BY <1>1, <1>8, <1>9, UpTo
  <2>2. m \in 0 .. m
    BY <1>1
  <2>3. QED
    <3> HIDE DEF m
    <3> QED BY <2>1, <2>2
<1> DEFINE d0 == f[m]
           w == add_secret(d0, n)
<1> HIDE DEF d0
<1>11. Sorted(d0, s, n, n - 1)
  BY <1>10 DEF d0
<1>12. /\ w \in [1 .. n -> Movies]
       /\ \A k \in 1 .. n \ {n} : w[k] = d0[k]
       /\ SameMovie(w[n], d0[n]) /\ w[n].secret = d0[n].secret + 1
  <2>1. n \in Nat /\ n \in 1 .. n /\ d0 \in [1 .. n -> Movies]
    BY <1>11 DEF Sorted
  <2>2. QED
    BY <2>1, AddSecretIs DEF SecretAdded
<1> HIDE DEF w
<1>13. \A k \in 1 .. n : SameMovie(w[k], d0[k])
  BY <1>12 DEF SameMovie
<1>14. PICK p \in [1 .. n -> 1 .. n] :
         /\ \A j, k \in 1 .. n : j # k => p[j] # p[k]
         /\ \A k \in 1 .. n : SameMovie(d0[k], s[p[k]])
  BY <1>11 DEF Sorted
<1>15. \A k \in 1 .. n : SameMovie(w[k], s[p[k]])
  BY <1>13, <1>14 DEF SameMovie
<1>16. \A k \in 1 .. n : w[k].secret = IF k <= n THEN 1 ELSE 0
  <2>1. \A k \in 1 .. n : d0[k].secret = IF k <= n - 1 THEN 1 ELSE 0
    BY <1>11 DEF Sorted
  <2> SUFFICES ASSUME NEW k \in 1 .. n PROVE w[k].secret = 1
    OBVIOUS
  <2>2. CASE k = n
    <3>1. d0[n].secret = 0
      BY <2>1
    <3>2. QED
      BY <1>12, <2>2, <3>1
  <2>3. CASE k # n
    <3>1. w[k] = d0[k] /\ k <= n - 1
      BY <1>12, <2>3
    <3>2. QED
      BY <2>1, <3>1
  <2>4. QED
    BY <2>2, <2>3
<1>17. \A j, k \in 1 .. n : j < k => ~Before(w[k], w[j])
  <2> SUFFICES ASSUME NEW j \in 1 .. n, NEW k \in 1 .. n, j < k PROVE ~Before(w[k], w[j])
    OBVIOUS
  <2>1. ~Before(d0[k], d0[j])
    BY <1>11 DEF Sorted
  <2>2. QED
    BY <1>13, <2>1, SameMovieIsEquality
<1>18. Sorted(w, s, n, n)
  BY <1>12, <1>14, <1>15, <1>16, <1>17 DEF Sorted
<1>19. QED
  BY <1>2, <1>18 DEF w, d0

-----------------------------------------------------------------------------
(***************************************************************************)
(* Lists of a part's items.                                                *)
(***************************************************************************)
LEMMA ListsItself ==
  ASSUME NEW u, NEW x, NEW l \in Nat, NEW r \in Nat, Len(x) = r - l + 1, l <= r + 1,
         \A k \in 1 .. Len(x) : x[k] = u[l + k - 1]
  PROVE  Lists(x, u, l, r)
<1> DEFINE n == r - l + 1
           p == [k \in 1 .. n |-> l + k - 1]
<1>1. p \in [1 .. n -> l .. r] /\ \A j, k \in 1 .. n : j # k => p[j] # p[k]
  OBVIOUS
<1>2. \A k \in 1 .. n : SameMovie(x[k], u[p[k]])
  BY DEF SameMovie
<1> HIDE DEF p
<1>3. QED
  BY <1>1, <1>2 DEF Lists

LEMMA ListsAgain ==
  ASSUME NEW u, NEW x, NEW y, NEW l \in Nat, NEW r \in Nat, Lists(x, u, l, r),
         NEW n \in Nat, Len(x) = n, Len(y) = n,
         NEW q \in [1 .. n -> 1 .. n], \A j, k \in 1 .. n : j # k => q[j] # q[k],
         \A k \in 1 .. n : SameMovie(y[k], x[q[k]])
  PROVE  Lists(y, u, l, r)
<1>1. PICK p \in [1 .. n -> l .. r] :
        /\ \A j, k \in 1 .. n : j # k => p[j] # p[k]
        /\ \A k \in 1 .. n : SameMovie(x[k], u[p[k]])
  BY DEF Lists
<1> DEFINE f == [k \in 1 .. n |-> p[q[k]]]
<1>2. f \in [1 .. n -> l .. r] /\ \A j, k \in 1 .. n : j # k => f[j] # f[k]
  BY <1>1
<1>3. \A k \in 1 .. n : SameMovie(y[k], u[f[k]])
  <2> SUFFICES ASSUME NEW k \in 1 .. n PROVE SameMovie(y[k], u[f[k]])
    OBVIOUS
  <2>1. q[k] \in 1 .. n /\ f[k] = p[q[k]] /\ SameMovie(y[k], x[q[k]])
    OBVIOUS
  <2>2. SameMovie(x[q[k]], u[p[q[k]]])
    BY <1>1, <2>1
  <2>3. QED
    BY <2>1, <2>2 DEF SameMovie
<1> HIDE DEF f
<1>4. QED
  BY <1>2, <1>3 DEF Lists

\* One list after the other.
LEMMA ListsJoin ==
  ASSUME NEW u, NEW x, NEW y, NEW z, NEW l \in Nat, NEW m \in Nat, NEW r \in Nat,
         l <= m + 1, m <= r, Lists(x, u, l, m), Lists(y, u, m + 1, r), Len(z) = r - l + 1,
         \A k \in 1 .. Len(x) : z[k] = x[k],
         \A k \in 1 .. Len(y) : z[Len(x) + k] = y[k]
  PROVE  Lists(z, u, l, r)
<1> DEFINE a == Len(x)
           b == Len(y)
<1>1. a = m - l + 1 /\ b = r - m /\ a \in Nat /\ b \in Nat /\ Len(z) = a + b
  BY DEF Lists
<1>2. PICK p \in [1 .. a -> l .. m] :
        /\ \A j, k \in 1 .. a : j # k => p[j] # p[k]
        /\ \A k \in 1 .. a : SameMovie(x[k], u[p[k]])
  BY DEF Lists
<1>3. PICK q \in [1 .. b -> m + 1 .. r] :
        /\ \A j, k \in 1 .. b : j # k => q[j] # q[k]
        /\ \A k \in 1 .. b : SameMovie(y[k], u[q[k]])
  BY DEF Lists
<1>4. /\ \A k \in 1 .. a : z[k] = x[k]
      /\ \A k \in 1 .. b : z[a + k] = y[k]
  OBVIOUS
<1> HIDE DEF a, b
<1> DEFINE f == [k \in 1 .. a + b |-> IF k <= a THEN p[k] ELSE q[k - a]]
<1>5. ASSUME NEW k \in 1 .. a + b
      PROVE  /\ k <= a => /\ k \in 1 .. a /\ f[k] = p[k] /\ f[k] \in l .. m
                          /\ SameMovie(z[k], u[f[k]])
             /\ ~(k <= a) => /\ k - a \in 1 .. b /\ f[k] = q[k - a] /\ f[k] \in m + 1 .. r
                             /\ SameMovie(z[k], u[f[k]])
  <2>1. CASE k <= a
    <3>1. k \in 1 .. a /\ f[k] = p[k] /\ z[k] = x[k]
      BY <1>1, <1>4, <2>1
    <3> HIDE DEF f
    <3>2. p[k] \in l .. m /\ SameMovie(x[k], u[p[k]])
      BY <1>2, <3>1
    <3>3. QED
      BY <2>1, <3>1, <3>2
  <2>2. CASE ~(k <= a)
    <3>1. k - a \in 1 .. b /\ a + (k - a) = k
      BY <1>1, <2>2
    <3>2. z[k] = y[k - a]
      BY <1>4, <3>1
    <3>3. QED
      BY <1>3, <2>2, <3>1, <3>2
  <2>3. QED
    BY <2>1, <2>2
<1>6. f \in [1 .. a + b -> l .. r]
  <2>1. \A k \in 1 .. a + b : f[k] \in l .. r
    BY <1>5
  <2>2. QED
    <3>1. f = [k \in 1 .. a + b |-> f[k]]
      OBVIOUS
    <3> HIDE DEF f
    <3>2. QED
      BY <2>1, <3>1
<1>7. ASSUME NEW j \in 1 .. a + b, NEW k \in 1 .. a + b, j # k PROVE f[j] # f[k]
  <2> HIDE DEF f
  <2>1. CASE j <= a /\ k <= a
    BY <1>2, <1>5, <1>7, <2>1
  <2>2. CASE ~(j <= a) /\ ~(k <= a)
    <3>1. j - a \in 1 .. b /\ k - a \in 1 .. b /\ f[j] = q[j - a] /\ f[k] = q[k - a]
      BY <1>5, <2>2
    <3>2. j - a # k - a
      BY <1>1, <1>7
    <3>3. QED
      BY <1>3, <3>1, <3>2
  <2>3. CASE ~(j <= a <=> k <= a)
    <3>1. \/ f[j] \in l .. m /\ f[k] \in m + 1 .. r
          \/ f[k] \in l .. m /\ f[j] \in m + 1 .. r
      BY <1>5, <2>3
    <3>2. QED
      BY <3>1
  <2>4. QED
    BY <2>1, <2>2, <2>3
<1>8. \A k \in 1 .. a + b : SameMovie(z[k], u[f[k]])
  <2> HIDE DEF f
  <2> QED BY <1>5
<1> HIDE DEF f
<1>9. Len(z) = a + b
  BY <1>1
<1>10. /\ f \in [1 .. Len(z) -> l .. r]
       /\ \A j, k \in 1 .. Len(z) : j # k => f[j] # f[k]
       /\ \A k \in 1 .. Len(z) : SameMovie(z[k], u[f[k]])
  BY <1>6, <1>7, <1>8, <1>9
<1>11. QED
  BY <1>10, Zenon DEF Lists

\* Such a list has every movie as often as the part.
LEMMA ListsHaveSameItems ==
  ASSUME NEW u, NEW x, NEW y, NEW l \in Nat, NEW r \in Nat, Len(x) \in Nat, Lists(x, u, l, r),
         Len(y) = Len(x), \A k \in 1 .. Len(x) : y[k] = u[l + k - 1],
         DOMAIN x = 1 .. Len(x), DOMAIN y = 1 .. Len(x)
  PROVE  SameItems(x, y)
<1> DEFINE n == Len(x)
           Like(s, v) == {k \in 1 .. n : SameMovie(s[k], v)}
<1>1. PICK p \in [1 .. n -> l .. r] :
        /\ \A j, k \in 1 .. n : j # k => p[j] # p[k]
        /\ \A k \in 1 .. n : SameMovie(x[k], u[p[k]])
  BY DEF Lists
<1>2. n = r - l + 1 /\ n \in Nat
  BY DEF Lists
<1> DEFINE q == [k \in 1 .. n |-> p[k] - l + 1]
<1>3. q \in Surjection(1 .. n, 1 .. n)
  <2>1. q \in [1 .. n -> 1 .. n]
    <3>1. \A k \in 1 .. n : p[k] - l + 1 \in 1 .. n
      BY <1>1, <1>2
    <3>2. QED
      BY <3>1
  <2>2. \A j, k \in 1 .. n : q[j] = q[k] => j = k
    <3> SUFFICES ASSUME NEW j \in 1 .. n, NEW k \in 1 .. n, j # k PROVE q[j] # q[k]
      OBVIOUS
    <3>1. p[j] \in Int /\ p[k] \in Int /\ p[j] # p[k]
      BY <1>1
    <3>2. q[j] = p[j] - l + 1 /\ q[k] = p[k] - l + 1
      OBVIOUS
    <3>3. QED
      BY <3>1, <3>2
  <2> HIDE DEF q
  <2>3. q \in Injection(1 .. n, 1 .. n)
    BY <2>1, <2>2 DEF Injection, IsInjective
  <2>4. IsFiniteSet(1 .. n)
    BY <1>2, FS_Interval
  <2>5. QED
    BY <2>3, <2>4, FS_Injection
<1>4. \A k \in 1 .. n : q[k] \in 1 .. n /\ SameMovie(x[k], y[q[k]])
  <2> SUFFICES ASSUME NEW k \in 1 .. n PROVE q[k] \in 1 .. n /\ SameMovie(x[k], y[q[k]])
    OBVIOUS
  <2>1. q[k] = p[k] - l + 1 /\ p[k] \in l .. r
    BY <1>1
  <2> HIDE DEF q
  <2>2. q[k] \in 1 .. n /\ l + q[k] - 1 = p[k]
    BY <1>2, <2>1
  <2>3. y[q[k]] = u[p[k]]
    BY <2>2
  <2>4. QED
    BY <1>1, <2>2, <2>3
<1> HIDE DEF q
<1>5. ASSUME NEW v PROVE Cardinality(Like(x, v)) = Cardinality(Like(y, v))
  <2> DEFINE A == Like(x, v)
             B == Like(y, v)
             f == [k \in A |-> q[k]]
  <2>1. IsFiniteSet(A)
    <3>1. IsFiniteSet(1 .. n)
      BY <1>2, FS_Interval
    <3>2. A \in SUBSET (1 .. n)
      OBVIOUS
    <3> HIDE DEF A
    <3>3. QED
      BY <3>1, <3>2, FS_Subset
  <2>2. \A k \in 1 .. n : k \in A <=> q[k] \in B
    BY <1>4 DEF SameMovie
  <2>3. /\ q \in [1 .. n -> 1 .. n] /\ \A j \in 1 .. n : \E k \in 1 .. n : q[k] = j
        /\ \A j, k \in 1 .. n : q[j] = q[k] => j = k
    <3>1. IsFiniteSet(1 .. n)
      BY <1>2, FS_Interval
    <3>2. q \in Injection(1 .. n, 1 .. n)
      BY <1>3, <3>1, FS_SurjSameCardinalityImpliesInj
    <3>3. QED
      BY <1>3, <3>2 DEF Injection, IsInjective, Surjection
  <2>4. A \subseteq 1 .. n /\ B \subseteq 1 .. n
    OBVIOUS
  <2> HIDE DEF A, B
  <2>5. f \in [A -> B] /\ \A j, k \in A : f[j] = f[k] => j = k
    BY <2>2, <2>3, <2>4
  <2>6. \A j \in B : \E k \in A : f[k] = j
    BY <2>2, <2>3, <2>4
  <2> HIDE DEF f
  <2>7. f \in Bijection(A, B)
    BY <2>5, <2>6 DEF Bijection, Injection, IsInjective, Surjection
  <2>8. ExistsBijection(A, B)
    BY <2>7 DEF ExistsBijection
  <2>9. QED
    BY <2>1, <2>8, FS_Bijection DEF A, B
<1>6. \A v : Like(x, v) = {k \in DOMAIN x : SameMovie(x[k], v)}
             /\ Like(y, v) = {k \in DOMAIN y : SameMovie(y[k], v)}
  OBVIOUS
<1>7. QED
  <2> HIDE DEF Like
  <2> QED BY <1>5, <1>6 DEF SameItems

\* n items that are those of u from l to r, in order, with one secret each.
IsSortedPart(y, u, l, r, n) ==
  /\ y \in [1 .. n -> Movies] /\ Lists(y, u, l, r)
  /\ InOrder(y) /\ \A k \in 1 .. n : y[k].secret = 1

\* The sort of a list.
THEOREM SortsLists ==
  ASSUME NEW u, NEW x, NEW l \in Nat, NEW r \in Nat, Lists(x, u, l, r),
         NEW n \in Nat \ {0}, x \in [1 .. n -> Movies], \A k \in 1 .. n : x[k].secret = 0
  PROVE  IsSortedPart(sort(x), u, l, r, n)
<1> DEFINE y == sort(x)
<1>1. Sorted(y, x, n, n)
  BY SortIs
<1> HIDE DEF y
<1>2. y \in [1 .. n -> Movies] /\ Len(x) = n /\ Len(y) = n
  BY <1>1 DEF Sorted
<1>3. Lists(y, u, l, r)
  <2>1. PICK p \in [1 .. n -> 1 .. n] :
          /\ \A j, k \in 1 .. n : j # k => p[j] # p[k]
          /\ \A k \in 1 .. n : SameMovie(y[k], x[p[k]])
    BY <1>1 DEF Sorted
  <2>2. QED
    BY <1>2, <2>1, ListsAgain
<1>4. InOrder(y)
  <2>1. DOMAIN y = 1 .. n
    BY <1>2
  <2>2. \A j, k \in 1 .. n : j < k => ~Before(y[k], y[j])
    BY <1>1 DEF Sorted
  <2>3. QED
    BY <2>1, <2>2 DEF InOrder
<1>5. \A k \in 1 .. n : y[k].secret = 1
  BY <1>1 DEF Sorted
<1>6. QED
  BY <1>2, <1>3, <1>4, <1>5 DEF y, IsSortedPart

\* The items of x, which are those of u from l to r; in order, when the first mid
\* of them were and the others were.
IsMerged(y, x, mid, u, l, r, n) ==
  /\ y \in [1 .. n -> Movies] /\ Lists(y, u, l, r)
  /\ \A k \in 1 .. n : \E j \in 1 .. n : y[k] = x[j]
  /\ HalvesInOrder(x, mid) => InOrder(y)

\* The merge of a list's halves: none of its items is lost or doubled, whatever the
\* halves hold, and of two halves in order it makes one list in order.
THEOREM MergesLists ==
  ASSUME NEW u, NEW x, NEW l \in Nat, NEW r \in Nat, Lists(x, u, l, r),
         NEW n \in Nat, x \in [1 .. n -> Movies], NEW mid \in 0 .. n
  PROVE  IsMerged(merge(x, mid), x, mid, u, l, r, n)
<1> DEFINE y == merge(x, mid)
           p == MergeSource(x, mid)
<1>1. Len(x) = n
  OBVIOUS
<1>2. y = [k \in 1 .. n |-> x[p[k]]]
  BY <1>1, MergeIs
<1>3. p \in [1 .. n -> 1 .. n] /\ \A j, k \in 1 .. n : j < k => p[j] # p[k]
  <2>1. Len(x) \in Nat /\ mid \in 0 .. Len(x)
    BY <1>1
  <2>2. QED
    BY <1>1, <2>1, MergeSourceIsInjective
<1> HIDE DEF p, y
<1>4. \A k \in 1 .. n : y[k] = x[p[k]] /\ SameMovie(y[k], x[p[k]])
  BY <1>2 DEF SameMovie
<1>5. y \in [1 .. n -> Movies] /\ Len(y) = n
  BY <1>2, <1>3
<1>6. \A j, k \in 1 .. n : j # k => p[j] # p[k]
  BY <1>3
<1>7. Lists(y, u, l, r)
  <2> HIDE DEF y
  <2> QED BY <1>1, <1>3, <1>4, <1>5, <1>6, ListsAgain
<1>8. \A k \in 1 .. n : \E j \in 1 .. n : y[k] = x[j]
  BY <1>3, <1>4
<1>9. HalvesInOrder(x, mid) => InOrder(y)
  <2>1. Len(x) \in Nat /\ mid \in 0 .. Len(x) /\ \A k \in 1 .. Len(x) : x[k] \in Movies
    BY <1>1
  <2>2. QED
    BY <2>1, MergeKeepsOrder DEF y
<1>10. QED
  BY <1>5, <1>7, <1>8, <1>9 DEF y, IsMerged
=============================================================================
