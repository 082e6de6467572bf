------------------------ MODULE ThreadSchedulerProofs -----------------------
(***************************************************************************)
(* What holds of the thread scheduler for all arguments, time slices and   *)
(* lines of input, however many lines are written.                         *)
(***************************************************************************)
EXTENDS ThreadScheduler, InductionLemmas, SequenceTheorems

-----------------------------------------------------------------------------
(***************************************************************************)
(* The numbers that texts write (CStrings).                                *)
(***************************************************************************)
LEMMA DecimalType ==
  ASSUME NEW text \in Seq(STRING), \A k \in 1 .. Len(text) : text[k] \in ToSet(Digits)
  PROVE  Decimal(text) \in Nat
<1> DEFINE n == Len(text)
           Body(g) == [k \in 0 .. n |-> IF k = 0 THEN 0 ELSE 10 * g[k - 1] + DigitValue(text[k])]
           value == CHOOSE g : g = Body(g)
           step == [k \in 1 .. n |-> [v \in Nat |-> 10 * v + DigitValue(text[k])]]
<1>1. n \in Nat
  OBVIOUS
<1>2. \A k \in 1 .. n : DigitValue(text[k]) \in 0 .. 9
  <2> TAKE k \in 1 .. n
  <2>1. PICK d \in 1 .. 10 : text[k] = Digits[d]
    BY DEF ToSet, Digits
  <2>2. d - 1 \in 0 .. 9 /\ Digits[(d - 1) + 1] = text[k]
    BY <2>1
  <2>3. QED
    BY <2>2 DEF DigitValue
<1>3. step \in [1 .. n -> [Nat -> Nat]]
  BY <1>2
<1>4. PICK d \in [0 .. n -> Nat] : d[0] = 0 /\ \A k \in 1 .. n : d[k] = step[k][d[k - 1]]
  <2>1. 0 \in Nat
    OBVIOUS
  <2>2. \E d : Recurses(d, n, Nat, 0, step)
    <3> HIDE DEF n, step
    <3> QED BY <1>1, <1>3, <2>1, Recursion
  <2>3. QED
    <3> HIDE DEF n, step
    <3> QED BY <2>2 DEF Recurses
<1>5. d = Body(d)
  <2>1. \A k \in 1 .. n : d[k] = 10 * d[k - 1] + DigitValue(text[k])
    <3> TAKE k \in 1 .. n
    <3>1. d[k - 1] \in Nat /\ d[k] = step[k][d[k - 1]]
      <4> HIDE DEF n, step
      <4> QED BY <1>1, <1>4
    <3>2. QED
      BY <3>1
  <2>2. d[0] = 0
    BY <1>4
  <2>3. QED
    <3> HIDE DEF n, step
    <3> QED BY <1>1, <2>1, <2>2
<1>6. value = Body(value)
  <2> HIDE DEF n
  <2> QED BY <1>5
<1>7. value[0] = 0 /\ \A k \in 1 .. n : value[k] = 10 * value[k - 1] + DigitValue(text[k])
  <2> HIDE DEF value, n
  <2> QED BY <1>1, <1>6
<1>8. value[n] \in Nat
  <2> DEFINE S == {k \in 0 .. n : value[k] \in Nat}
  <2>1. 0 \in S
    <3> HIDE DEF value, n
    <3> QED BY <1>1, <1>7
  <2>2. \A k \in Nat : k < n /\ k \in S => k + 1 \in S
    <3> HIDE DEF value, n
    <3> SUFFICES ASSUME NEW k \in Nat, k < n, value[k] \in Nat PROVE value[k + 1] \in Nat
      BY <1>1
    <3>1. k + 1 \in 1 .. n /\ (k + 1) - 1 = k
      BY <1>1
    <3>2. value[k + 1] = 10 * value[k] + DigitValue(text[k + 1])
      BY <1>7, <3>1
    <3>3. DigitValue(text[k + 1]) \in Nat
      BY <1>2, <3>1
    <3>4. QED
      BY <3>2, <3>3
  <2>3. 0 .. n \subseteq S
    <3> HIDE DEF S, n
    <3> QED BY <1>1, <2>1, <2>2, UpTo
  <2>4. n \in S
    <3> HIDE DEF S, n
    <3> QED BY <1>1, <2>3
  <2>5. QED
    <3> HIDE DEF value, n
    <3> QED BY <2>4
<1>9. Decimal(text) = value[n]
  BY DEF Decimal
<1>10. QED
  <2> HIDE DEF value, n
  <2> QED BY <1>8, <1>9

LEMMA LeadingType ==
  ASSUME NEW text \in Seq(STRING), NEW chars
  PROVE  /\ Leading(text, chars) \in Seq(STRING)
         /\ \A k \in 1 .. Len(Leading(text, chars)) : Leading(text, chars)[k] \in chars
<1> DEFINE I == {i \in 1 .. Len(text) : text[i] \notin chars}
           n == SelectInSeq(text, LAMBDA c : c \notin chars)
<1>1. n = IF I # {} THEN Min(I) ELSE 0
  BY DEF SelectInSeq
<1>2. Leading(text, chars) = IF n = 0 THEN text ELSE SubSeq(text, 1, n - 1)
  BY DEF Leading
<1>3. CASE I = {}
  <2>1. Leading(text, chars) = text
    <3> HIDE DEF n
    <3> QED BY <1>1, <1>2, <1>3
  <2>2. QED
    BY <1>3, <2>1
<1>4. CASE I # {}
  <2>1. I \subseteq Nat
    OBVIOUS
  <2>2. PICK m \in I : \A i \in I : m <= i
    <3> HIDE DEF I
    <3> QED BY <1>4, <2>1, LeastNumber
  <2>3. Min(I) \in I /\ \A i \in I : Min(I) <= i
    <3> HIDE DEF I
    <3> QED BY <2>2 DEF Min
  <2>4. n \in 1 .. Len(text) /\ \A k \in 1 .. n - 1 : text[k] \in chars
    <3>1. n \in I /\ \A i \in I : n <= i
      <4> HIDE DEF I, n
      <4> QED BY <1>1, <1>4, <2>3
    <3>2. QED
      <4> HIDE DEF n
      <4> QED BY <3>1
  <2>5. Leading(text, chars) = SubSeq(text, 1, n - 1)
    <3> HIDE DEF n
    <3> QED BY <1>2, <2>4
  <2>6. \A k \in 1 .. n - 1 : text[k] \in STRING
    <3> HIDE DEF n
    <3> QED BY <2>4
  <2>7. /\ SubSeq(text, 1, n - 1) \in Seq(STRING)
        /\ Len(SubSeq(text, 1, n - 1)) = n - 1
        /\ \A k \in 1 .. n - 1 : SubSeq(text, 1, n - 1)[k] = text[k]
    <3> HIDE DEF n
    <3> QED BY <2>4, <2>6
  <2>8. QED
    <3> HIDE DEF n
    <3> QED BY <2>4, <2>5, <2>7
<1>5. QED
  BY <1>3, <1>4

\* atoi returns a number, whatever the text.
LEMMA AtoiType ==
  ASSUME NEW text \in Seq(STRING)
  PROVE  atoi(text) \in Int
<1> DEFINE blanks == Leading(text, Spaces)
           number == Behind(text, blanks)
           signed == number # <<>> /\ number[1] \in {"-", "+"}
           digits == Leading(IF signed THEN Tail(number) ELSE number, ToSet(Digits))
<1>1. blanks \in Seq(STRING)
  BY LeadingType
<1>2. number \in Seq(STRING)
  <2> HIDE DEF blanks
  <2>1. \A i \in Len(blanks) + 1 .. Len(text) : text[i] \in STRING
    BY <1>1
  <2>2. QED
    BY <1>1, <2>1, SubSeqProperties DEF Behind
<1>3. (IF signed THEN Tail(number) ELSE number) \in Seq(STRING)
  <2> HIDE DEF number
  <2> QED BY <1>2, HeadTailProperties
<1>4. Decimal(digits) \in Nat
  <2> HIDE DEF number, signed
  <2> QED BY <1>3, LeadingType, DecimalType
<1>5. atoi(text) = (IF signed /\ number[1] = "-" THEN -1 ELSE 1) * Decimal(digits)
  BY DEF atoi
<1>6. QED
  <2> HIDE DEF digits, signed, number
  <2> QED BY <1>4, <1>5

-----------------------------------------------------------------------------
(***************************************************************************)
(* What atoi finds in the buffer.                                          *)
(***************************************************************************)

\* The first character of a text that is not in chars, or the end of the text.
FirstNot(text, chars, m) ==
  /\ m \in 1 .. Len(text) + 1
  /\ \A k \in 1 .. m - 1 : text[k] \in chars
  /\ m <= Len(text) => text[m] \notin chars

LEMMA LeadingIs ==
  ASSUME NEW text \in Seq(STRING), NEW chars, NEW m, FirstNot(text, chars, m)
  PROVE  Leading(text, chars) = SubSeq(text, 1, m - 1)
<1> DEFINE I == {i \in 1 .. Len(text) : text[i] \notin chars}
           n == SelectInSeq(text, LAMBDA c : c \notin chars)
<1>1. n = IF I # {} THEN Min(I) ELSE 0
  BY DEF SelectInSeq
<1>2. Leading(text, chars) = IF n = 0 THEN text ELSE SubSeq(text, 1, n - 1)
  BY DEF Leading
<1>3. Len(text) \in Nat
  OBVIOUS
<1>4. CASE m = Len(text) + 1
  <2>1. I = {}
    BY <1>3, <1>4 DEF FirstNot
  <2>2. Leading(text, chars) = text
    <3> HIDE DEF n, I
    <3> QED BY <1>1, <1>2, <2>1
  <2>3. SubSeq(text, 1, m - 1) = text
    <3>1. SubSeq(text, 1, m - 1) = SubSeq(text, 1, Len(text))
      BY <1>3, <1>4
    <3>2. QED
      BY <3>1, SubSeqFull
  <2>4. QED
    BY <2>2, <2>3
<1>5. CASE m <= Len(text)
  <2>1. m \in I /\ \A i \in I : m <= i
    BY <1>3, <1>5 DEF FirstNot
  <2>2. I \subseteq Nat
    OBVIOUS
  <2>3. Min(I) = m
    <3> HIDE DEF I
    <3>1. Min(I) = CHOOSE x \in I : \A y \in I : x <= y
      BY DEF Min
    <3>2. ASSUME NEW x \in I, \A y \in I : x <= y PROVE x = m
      BY <2>1, <2>2, <3>2
    <3>3. QED
      BY <2>1, <3>1, <3>2
  <2>4. n = m
    <3> HIDE DEF n, I
    <3> QED BY <1>1, <2>1, <2>3
  <2>5. QED
    <3> HIDE DEF n
    <3> QED BY <1>2, <1>5, <2>4 DEF FirstNot
<1>6. QED
  BY <1>3, <1>4, <1>5 DEF FirstNot

\* There is such a character, not behind any that is not in chars.
LEMMA FirstNotExists ==
  ASSUME NEW text \in Seq(STRING), NEW chars
  PROVE  \E m : FirstNot(text, chars, m)
<1> DEFINE I == {i \in 1 .. Len(text) + 1 : i <= Len(text) => text[i] \notin chars}
<1>1. Len(text) \in Nat
  OBVIOUS
<1>2. I \subseteq Nat /\ Len(text) + 1 \in I
  BY <1>1
<1>3. PICK m \in I : \A i \in I : m <= i
  <2> HIDE DEF I
  <2> QED BY <1>2, LeastNumber
<1>4. FirstNot(text, chars, m)
  BY <1>1, <1>3 DEF FirstNot
<1>5. QED
  BY <1>4

\* Two texts that agree up to n, which holds a character that is not blank and
\* behind which both have no digit, write the same number.
EndsAt(text, n) == n \in 0 .. Len(text) /\ (n < Len(text) => text[n + 1] \notin ToSet(Digits))

LEMMA SubSeqAgrees ==
  ASSUME NEW a \in Seq(STRING), NEW b \in Seq(STRING), NEW n \in Nat, NEW i \in Nat \ {0},
         n <= Len(a), n <= Len(b), \A k \in 1 .. n : a[k] = b[k]
  PROVE  SubSeq(a, i, n) = SubSeq(b, i, n)
<1> DEFINE l == IF i <= n THEN n - i + 1 ELSE 0
<1>1. /\ \A k \in i .. n : a[k] \in STRING
      /\ \A k \in i .. n : b[k] \in STRING
  OBVIOUS
<1>2. /\ SubSeq(a, i, n) \in Seq(STRING) /\ Len(SubSeq(a, i, n)) = l
      /\ \A k \in 1 .. l : SubSeq(a, i, n)[k] = a[i + k - 1]
  BY <1>1, SubSeqProperties
<1>3. /\ SubSeq(b, i, n) \in Seq(STRING) /\ Len(SubSeq(b, i, n)) = l
      /\ \A k \in 1 .. l : SubSeq(b, i, n)[k] = b[i + k - 1]
  BY <1>1, SubSeqProperties
<1>4. \A k \in 1 .. l : SubSeq(a, i, n)[k] = SubSeq(b, i, n)[k]
  BY <1>2, <1>3
<1>5. QED
  BY <1>2, <1>3, <1>4, SeqEqual

\* The digits of a text from i on.
LEMMA DigitsAgree ==
  ASSUME NEW a \in Seq(STRING), NEW b \in Seq(STRING), NEW n, NEW i \in 1 .. n + 1,
         EndsAt(a, n), EndsAt(b, n), \A k \in 1 .. n : a[k] = b[k]
  PROVE  Leading(SubSeq(a, i, Len(a)), ToSet(Digits)) = Leading(SubSeq(b, i, Len(b)), ToSet(Digits))
<1> DEFINE D == ToSet(Digits)
           c == SubSeq(a, i, Len(a))
           d == SubSeq(b, i, Len(b))
<1> HIDE DEF D
<1>1. n \in Nat /\ Len(a) \in Nat /\ Len(b) \in Nat /\ n <= Len(a) /\ n <= Len(b) /\ i \in Nat \ {0}
  BY DEF EndsAt
<1>2. /\ c \in Seq(STRING) /\ Len(c) = Len(a) - i + 1
      /\ \A k \in 1 .. Len(a) - i + 1 : c[k] = a[i + k - 1]
  <2>1. \A k \in i .. Len(a) : a[k] \in STRING
    BY <1>1
  <2>2. QED
    BY <1>1, <2>1, SubSeqProperties
<1>3. /\ d \in Seq(STRING) /\ Len(d) = Len(b) - i + 1
      /\ \A k \in 1 .. Len(b) - i + 1 : d[k] = b[i + k - 1]
  <2>1. \A k \in i .. Len(b) : b[k] \in STRING
    BY <1>1
  <2>2. QED
    BY <1>1, <2>1, SubSeqProperties
<1> HIDE DEF c, d
<1>4. PICK m : FirstNot(c, D, m)
  BY <1>2, FirstNotExists
<1> DEFINE l == n - i + 1
<1>5. l \in Nat /\ l <= Len(c) /\ l <= Len(d) /\ \A k \in 1 .. l : c[k] = d[k]
  <2>1. l \in Nat /\ l <= Len(c) /\ l <= Len(d)
    BY <1>1, <1>2, <1>3
  <2>2. ASSUME NEW k \in 1 .. l PROVE c[k] = d[k]
    <3>1. k \in 1 .. Len(a) - i + 1 /\ k \in 1 .. Len(b) - i + 1 /\ i + k - 1 \in 1 .. n
      BY <1>1
    <3>2. c[k] = a[i + k - 1] /\ d[k] = b[i + k - 1]
      <4> HIDE DEF l
      <4> QED BY <1>2, <1>3, <3>1
    <3>3. QED
      <4> HIDE DEF l
      <4> QED BY <3>1, <3>2
  <2>3. QED
    BY <2>1, <2>2
<1>6. (l < Len(c) => c[l + 1] \notin D) /\ (l < Len(d) => d[l + 1] \notin D)
  <2>1. l < Len(c) => l + 1 \in 1 .. Len(a) - i + 1 /\ i + (l + 1) - 1 = n + 1 /\ n < Len(a)
    BY <1>1, <1>2
  <2>2. l < Len(d) => l + 1 \in 1 .. Len(b) - i + 1 /\ i + (l + 1) - 1 = n + 1 /\ n < Len(b)
    BY <1>1, <1>3
  <2>3. l < Len(c) => c[l + 1] = a[n + 1]
    <3> HIDE DEF l
    <3> QED BY <1>2, <2>1
  <2>4. l < Len(d) => d[l + 1] = b[n + 1]
    <3> SUFFICES ASSUME l < Len(d) PROVE d[l + 1] = b[n + 1]
      OBVIOUS
    <3>1. d[l + 1] = b[i + (l + 1) - 1]
      <4> HIDE DEF l
      <4> QED BY <1>3, <2>2
    <3>2. QED
      <4> HIDE DEF l
      <4> QED BY <2>2, <3>1
  <2>5. QED
    <3> HIDE DEF l
    <3> QED BY <2>1, <2>2, <2>3, <2>4 DEF EndsAt, D
<1> HIDE DEF l
<1>7. Len(c) \in Nat /\ Len(d) \in Nat
  BY <1>2, <1>3
<1>8. m <= l + 1
  BY <1>4, <1>5, <1>6, <1>7 DEF FirstNot
<1>9. FirstNot(d, D, m)
  BY <1>4, <1>5, <1>6, <1>7, <1>8 DEF FirstNot
<1>10. m \in Nat \ {0} /\ m - 1 <= l
  BY <1>4, <1>5, <1>7, <1>8 DEF FirstNot
<1>11. SubSeq(c, 1, m - 1) = SubSeq(d, 1, m - 1)
  <2>1. m - 1 \in Nat /\ m - 1 <= Len(c) /\ m - 1 <= Len(d) /\ \A k \in 1 .. m - 1 : c[k] = d[k]
    BY <1>5, <1>7, <1>10
  <2> DEFINE j == m - 1
  <2>2. j \in Nat /\ j <= Len(c) /\ j <= Len(d) /\ \A k \in 1 .. j : c[k] = d[k]
    BY <2>1
  <2>3. c \in Seq(STRING) /\ d \in Seq(STRING) /\ 1 \in Nat \ {0}
    BY <1>2, <1>3
  <2>4. SubSeq(c, 1, j) = SubSeq(d, 1, j)
    <3> HIDE DEF j
    <3> QED BY <2>2, <2>3, SubSeqAgrees
  <2>5. QED
    BY <2>4
<1>12. Leading(c, D) = Leading(d, D)
  <2>1. c \in Seq(STRING) /\ d \in Seq(STRING)
    BY <1>2, <1>3
  <2>2. Leading(c, D) = SubSeq(c, 1, m - 1)
    BY <1>4, <2>1, LeadingIs
  <2>3. Leading(d, D) = SubSeq(d, 1, m - 1)
    BY <1>9, <2>1, LeadingIs
  <2>4. QED
    BY <1>11, <2>2, <2>3
<1>13. QED
  BY <1>12 DEF c, d, D

\* atoi of a text whose first character that is not blank is at m.
LEMMA AtoiIs ==
  ASSUME NEW text \in Seq(STRING), NEW m, FirstNot(text, Spaces, m), m <= Len(text)
  PROVE  atoi(text) =
           (IF text[m] = "-" THEN -1 ELSE 1)
           * Decimal(Leading(SubSeq(text, IF text[m] \in {"-", "+"} THEN m + 1 ELSE m, Len(text)),
                             ToSet(Digits)))
<1> DEFINE blanks == Leading(text, Spaces)
           number == Behind(text, blanks)
           signed == number # <<>> /\ number[1] \in {"-", "+"}
           rest == IF signed THEN Tail(number) ELSE number
<1>1. m \in 1 .. Len(text) /\ Len(text) \in Nat
  BY DEF FirstNot
<1>2. blanks = SubSeq(text, 1, m - 1)
  BY LeadingIs
<1>3. Len(blanks) = m - 1
  <2>1. \A k \in 1 .. m - 1 : text[k] \in STRING
    BY <1>1
  <2>2. Len(SubSeq(text, 1, m - 1)) = m - 1
    BY <1>1, <2>1, SubSeqProperties
  <2>3. QED
    BY <1>2, <2>2
<1>4. number = SubSeq(text, m, Len(text))
  <2>1. number = SubSeq(text, Len(blanks) + 1, Len(text))
    BY DEF Behind
  <2>2. Len(blanks) + 1 = m
    <3> HIDE DEF blanks
    <3> QED BY <1>1, <1>3
  <2>3. QED
    <3> HIDE DEF blanks, number
    <3> QED BY <2>1, <2>2
<1>5. /\ number \in Seq(STRING) /\ Len(number) = Len(text) - m + 1
      /\ number[1] = text[m]
      /\ \A k \in 1 .. Len(text) - m + 1 : number[k] = text[m + k - 1]
  <2> HIDE DEF number
  <2>1. \A k \in m .. Len(text) : text[k] \in STRING
    BY <1>1
  <2>2. /\ number \in Seq(STRING) /\ Len(number) = Len(text) - m + 1
        /\ \A k \in 1 .. Len(text) - m + 1 : number[k] = text[m + k - 1]
    BY <1>1, <1>4, <2>1, SubSeqProperties
  <2>3. 1 \in 1 .. Len(text) - m + 1 /\ m + 1 - 1 = m
    BY <1>1
  <2>4. QED
    BY <2>2, <2>3
<1>6. number # <<>>
  <2> HIDE DEF number
  <2>1. Len(number) # 0
    BY <1>1, <1>5
  <2>2. QED
    BY <1>5, <2>1, EmptySeq
<1>7. signed <=> text[m] \in {"-", "+"}
  <2> HIDE DEF number
  <2> QED BY <1>5, <1>6
<1>8. Tail(number) = SubSeq(text, m + 1, Len(text))
  <2> DEFINE t == SubSeq(text, m + 1, Len(text))
             l == Len(text) - m
  <2>1. l \in Nat
    BY <1>1
  <2>2. t \in Seq(STRING) /\ Len(t) = l /\ \A k \in 1 .. l : t[k] = text[(m + 1) + k - 1]
    <3>1. \A k \in m + 1 .. Len(text) : text[k] \in STRING
      BY <1>1
    <3>2. QED
      BY <1>1, <3>1, SubSeqProperties
  <2>3. /\ Tail(number) \in Seq(STRING) /\ Len(Tail(number)) = Len(number) - 1
        /\ \A k \in 1 .. Len(Tail(number)) : Tail(number)[k] = number[k + 1]
    <3> HIDE DEF number
    <3> QED BY <1>5, <1>6, HeadTailProperties
  <2> HIDE DEF t, number
  <2>4. Len(Tail(number)) = l
    BY <1>1, <1>5, <2>3
  <2>5. \A k \in 1 .. l : Tail(number)[k] = t[k]
    <3> TAKE k \in 1 .. l
    <3>1. Tail(number)[k] = number[k + 1] /\ k + 1 \in 1 .. Len(text) - m + 1
      BY <1>1, <2>1, <2>3, <2>4
    <3>2. number[k + 1] = text[m + (k + 1) - 1] /\ m + (k + 1) - 1 = (m + 1) + k - 1
      BY <1>1, <1>5, <3>1
    <3>3. QED
      BY <2>2, <3>1, <3>2
  <2>6. Tail(number) = t
    <3> HIDE DEF l
    <3> QED BY <2>2, <2>3, <2>4, <2>5, SeqEqual
  <2>7. QED
    BY <2>6 DEF t
<1>9. rest = SubSeq(text, IF text[m] \in {"-", "+"} THEN m + 1 ELSE m, Len(text))
  <2>1. CASE text[m] \in {"-", "+"}
    <3> HIDE DEF number, signed
    <3> QED BY <1>7, <1>8, <2>1
  <2>2. CASE text[m] \notin {"-", "+"}
    <3> HIDE DEF number, signed
    <3> QED BY <1>7, <1>4, <2>2
  <2>3. QED
    BY <2>1, <2>2
<1>10. atoi(text) = (IF signed /\ number[1] = "-" THEN -1 ELSE 1) * Decimal(Leading(rest, ToSet(Digits)))
  BY DEF atoi
<1>11. signed /\ number[1] = "-" <=> text[m] = "-"
  <2> HIDE DEF number, signed
  <2> QED BY <1>5, <1>7
<1>12. QED
  <2> HIDE DEF number, signed, rest
  <2> QED BY <1>9, <1>10, <1>11

LEMMA AtoiAgrees ==
  ASSUME NEW a \in Seq(STRING), NEW b \in Seq(STRING), NEW n,
         EndsAt(a, n), EndsAt(b, n), \A k \in 1 .. n : a[k] = b[k],
         \E k \in 1 .. n : a[k] \notin Spaces
  PROVE  atoi(a) = atoi(b)
<1>1. n \in Nat /\ Len(a) \in Nat /\ Len(b) \in Nat /\ n <= Len(a) /\ n <= Len(b)
  BY DEF EndsAt
<1>2. PICK m : FirstNot(a, Spaces, m)
  BY FirstNotExists
<1>3. m \in 1 .. n
  BY <1>1, <1>2 DEF FirstNot
<1>4. FirstNot(b, Spaces, m)
  BY <1>1, <1>2, <1>3 DEF FirstNot
<1>5. a[m] = b[m] /\ m <= Len(a) /\ m <= Len(b)
  BY <1>1, <1>3
<1> DEFINE i == IF a[m] \in {"-", "+"} THEN m + 1 ELSE m
<1>6. i \in 1 .. n + 1
  BY <1>1, <1>3
<1>7. Leading(SubSeq(a, i, Len(a)), ToSet(Digits)) = Leading(SubSeq(b, i, Len(b)), ToSet(Digits))
  <2> HIDE DEF i
  <2> QED BY <1>6, DigitsAgree
<1>8. atoi(a) = (IF a[m] = "-" THEN -1 ELSE 1) * Decimal(Leading(SubSeq(a, i, Len(a)), ToSet(Digits)))
  BY <1>2, <1>5, AtoiIs
<1>9. atoi(b) = (IF b[m] = "-" THEN -1 ELSE 1)
                * Decimal(Leading(SubSeq(b, IF b[m] \in {"-", "+"} THEN m + 1 ELSE m, Len(b)), ToSet(Digits)))
  BY <1>4, <1>5, AtoiIs
<1>10. QED
  BY <1>5, <1>7, <1>8, <1>9

-----------------------------------------------------------------------------
(***************************************************************************)
(* Ints (CIntegers).                                                       *)
(***************************************************************************)

LEMMA IntsAreIntegers == CInt \subseteq Int /\ 0 \in CInt /\ 1 \in CInt /\ IntMax \in Int /\ IntMin \in Int
BY SchedulerAssumption DEF CInt, IntMin

\* Division with remainder.
LEMMA Division ==
  ASSUME NEW x \in Int, NEW n \in Nat \ {0}
  PROVE  /\ x % n \in 0 .. n - 1
         /\ \E q \in Int : x = n * q + (x % n)
<1>1. x % n \in 0 .. n - 1
  OBVIOUS
<1>2. x \div n \in Int /\ x = n * (x \div n) + (x % n)
  OBVIOUS
<1>3. QED
  BY <1>1, <1>2

\* The remainder is unique.
LEMMA Remainder ==
  ASSUME NEW n \in Nat \ {0}, NEW q \in Int, NEW r \in 0 .. n - 1, NEW p \in Int, NEW s \in 0 .. n - 1,
         n * q + r = n * p + s
  PROVE  r = s
<1>1. n * (q - p) = s - r
  OBVIOUS
<1>2. CASE q - p >= 1
  <2>1. n * (q - p) >= n
    BY <1>2
  <2>2. QED
    BY <1>1, <2>1
<1>3. CASE q - p <= -1
  <2>1. n * (q - p) <= -n
    BY <1>3
  <2>2. QED
    BY <1>1, <2>1
<1>4. CASE q = p
  BY <1>4
<1>5. QED
  BY <1>2, <1>3, <1>4

\* How many ints there are.
Ints == 2 * IntMax + 2

\* An int that is a number of times around from x is the one that x wraps to.
LEMMA WrapIs ==
  ASSUME NEW x \in Int
  PROVE  /\ Wrap(x) \in CInt /\ \E k \in Int : Wrap(x) = x + Ints * k
         /\ \A v \in CInt, k \in Int : v = x + Ints * k => v = Wrap(x)
<1> DEFINE n == Ints
           d == x - IntMin
           r == d % n
<1>1. n \in Nat \ {0} /\ d \in Int /\ IntMin \in Int /\ IntMax - IntMin + 1 = n /\ CInt = IntMin .. IntMin + (n - 1)
  BY SchedulerAssumption DEF Ints, CInt, IntMin
<1>2. Wrap(x) = r + IntMin
  BY <1>1 DEF Wrap
<1> HIDE DEF n, d
<1>3. r \in 0 .. n - 1 /\ \E q \in Int : d = n * q + r
  BY <1>1, Division
<1> HIDE DEF r
<1> USE DEF d
<1> PICK q \in Int : x - IntMin = n * q + r
  BY <1>3
<1>4. Wrap(x) \in CInt
  BY <1>1, <1>2, <1>3
<1>5. Wrap(x) = x + n * (-q)
  BY <1>1, <1>2, <1>3
<1>6. ASSUME NEW v \in CInt, NEW k \in Int, v = x + n * k PROVE v = Wrap(x)
  <2>1. v - IntMin \in 0 .. n - 1
    BY <1>1
  <2>2. n * (q + k) + r = n * 0 + (v - IntMin)
    BY <1>1, <1>3, <1>6
  <2>3. r = v - IntMin
    BY <1>1, <1>3, <2>1, <2>2, Remainder
  <2>4. QED
    BY <1>1, <1>2, <1>3, <1>6, <2>3
<1>7. QED
  BY <1>4, <1>5, <1>6 DEF n

LEMMA WrapOfInt ==
  ASSUME NEW x \in CInt
  PROVE  Wrap(x) = x
<1>1. x \in Int /\ x = x + Ints * 0
  BY SchedulerAssumption DEF CInt, IntMin, Ints
<1>2. QED
  BY <1>1, WrapIs

\* It does not matter how often it is wrapped.
LEMMA WrapOfSum ==
  ASSUME NEW x \in Int, NEW y \in Int
  PROVE  Wrap(Wrap(x) + Wrap(y)) = Wrap(x + y)
<1> DEFINE n == Ints
<1>1. n \in Int /\ Wrap(x) \in Int /\ Wrap(y) \in Int
  BY SchedulerAssumption, WrapIs DEF CInt, IntMin, Ints
<1>2. PICK k \in Int : Wrap(x) = x + n * k
  BY WrapIs
<1>3. PICK l \in Int : Wrap(y) = y + n * l
  BY WrapIs
<1>4. PICK m \in Int : Wrap(Wrap(x) + Wrap(y)) = Wrap(x) + Wrap(y) + n * m
  <2> DEFINE z == Wrap(x) + Wrap(y)
  <2>1. z \in Int
    BY <1>1
  <2> HIDE DEF z
  <2>2. \E m \in Int : Wrap(z) = z + n * m
    BY <2>1, WrapIs
  <2>3. QED
    BY <2>2 DEF z
<1> HIDE DEF n
<1>5. Wrap(Wrap(x) + Wrap(y)) = (x + y) + n * (k + l + m)
  BY <1>1, <1>2, <1>3, <1>4
<1>6. Wrap(Wrap(x) + Wrap(y)) \in CInt
  BY <1>1, WrapIs
<1>7. QED
  <2> DEFINE v == Wrap(Wrap(x) + Wrap(y))
             z == x + y
  <2>1. z \in Int /\ v \in CInt /\ v = z + Ints * (k + l + m) /\ k + l + m \in Int
    BY <1>5, <1>6 DEF n
  <2> HIDE DEF v, z
  <2>2. v = Wrap(z)
    BY <2>1, WrapIs
  <2>3. QED
    BY <2>2 DEF v, z

\* One more.
LEMMA WrapOfNext ==
  ASSUME NEW x \in CInt
  PROVE  Wrap(x + 1) = IF x = IntMax THEN IntMin ELSE x + 1
<1>1. CASE x # IntMax
  <2>1. x + 1 \in CInt
    BY <1>1, SchedulerAssumption DEF CInt, IntMin
  <2>2. QED
    BY <1>1, <2>1, WrapOfInt
<1>2. CASE x = IntMax
  <2>1. x + 1 \in Int /\ IntMin \in CInt /\ IntMin = (x + 1) + Ints * (-1)
    BY <1>2, SchedulerAssumption DEF CInt, IntMin, Ints
  <2>2. QED
    BY <1>2, <2>1, WrapIs
<1>3. QED
  BY <1>1, <1>2

LEMMA IntOfType ==
  ASSUME NEW text \in Seq(STRING)
  PROVE  IntOf(text) \in CInt
BY AtoiType, WrapIs DEF IntOf

-----------------------------------------------------------------------------
(***************************************************************************)
(* The Fibonacci numbers (ThreadPrograms).                                 *)
(***************************************************************************)

\* They exist, and are what they are defined to be.
LEMMA FibonacciIs ==
  /\ Fibonacci[1] = 1 /\ Fibonacci[2] = 1
  /\ \A n \in Nat : n > 2 => Fibonacci[n] = Fibonacci[n - 1] + Fibonacci[n - 2]
<1> DEFINE Body(f) == [n \in Nat \ {0} |-> IF n <= 2 THEN 1 ELSE f[n - 1] + f[n - 2]]
           P == Nat \X Nat
           step == [k \in Nat \ {0} |-> [p \in P |-> <<p[2], p[1] + p[2]>>]]
           base == <<0, 1>>
<1>1. base \in P /\ step \in [Nat \ {0} -> [P -> P]]
  OBVIOUS
<1> PICK d : RecursesOnNat(d, P, base, step)
  <2> HIDE DEF base, step, P
  <2> QED BY <1>1, RecursionOnNat
<1>2. d \in [Nat -> P] /\ d[0] = base /\ \A k \in Nat \ {0} : d[k] = step[k][d[k - 1]]
  <2> HIDE DEF base, step, P
  <2> QED BY DEF RecursesOnNat
<1>3. \A k \in Nat : d[k] \in P /\ d[k][1] \in Nat /\ d[k][2] \in Nat
  BY <1>2
<1>4. \A k \in Nat \ {0} : d[k][1] = d[k - 1][2] /\ d[k][2] = d[k - 1][1] + d[k - 1][2]
  <2> TAKE k \in Nat \ {0}
  <2>1. k - 1 \in Nat /\ d[k - 1] \in P /\ d[k] = step[k][d[k - 1]]
    <3>1. k - 1 \in Nat
      OBVIOUS
    <3>2. QED
      <4> HIDE DEF step
      <4> QED BY <1>2, <1>3, <3>1
  <2>2. d[k] = <<d[k - 1][2], d[k - 1][1] + d[k - 1][2]>>
    BY <2>1
  <2>3. QED
    BY <2>2
<1> DEFINE f == [n \in Nat \ {0} |-> d[n][1]]
<1>5. f[1] = 1 /\ f[2] = 1
  <2>1. d[0][1] = 0 /\ d[0][2] = 1
    BY <1>2
  <2>2. d[1][1] = d[0][2] /\ d[1][2] = d[0][1] + d[0][2]
    <3>1. 1 \in Nat \ {0} /\ 1 - 1 = 0
      OBVIOUS
    <3>2. QED
      BY <1>4, <3>1
  <2>3. d[2][1] = d[1][2]
    <3>1. 2 \in Nat \ {0} /\ 2 - 1 = 1
      OBVIOUS
    <3>2. QED
      BY <1>4, <3>1
  <2>4. QED
    BY <2>1, <2>2, <2>3
<1>6. ASSUME NEW n \in Nat, n > 2 PROVE f[n] = f[n - 1] + f[n - 2]
  <2>1. n \in Nat \ {0} /\ n - 1 \in Nat \ {0} /\ n - 2 \in Nat \ {0} /\ (n - 1) - 1 = n - 2
    BY <1>6
  <2>2. d[n][1] = d[n - 1][2]
    BY <1>4, <2>1
  <2>3. d[n - 1][2] = d[n - 2][1] + d[n - 2][2] /\ d[n - 1][1] = d[n - 2][2]
    BY <1>4, <2>1
  <2>4. d[n - 2][1] \in Nat /\ d[n - 2][2] \in Nat
    BY <1>3, <2>1
  <2>5. QED
    BY <2>1, <2>2, <2>3, <2>4
<1>7. f = Body(f)
  <2>1. \A n \in Nat \ {0} : f[n] = IF n <= 2 THEN 1 ELSE f[n - 1] + f[n - 2]
    <3> HIDE DEF f
    <3> TAKE n \in Nat \ {0}
    <3>1. CASE n <= 2
      <4>1. n = 1 \/ n = 2
        BY <3>1
      <4>2. QED
        BY <1>5, <3>1, <4>1
    <3>2. CASE ~(n <= 2)
      BY <1>6, <3>2
    <3>3. QED
      BY <3>1, <3>2
  <2>2. f = [n \in Nat \ {0} |-> f[n]]
    OBVIOUS
  <2>3. QED
    <3> HIDE DEF f
    <3> QED BY <2>1, <2>2
<1>8. Fibonacci = CHOOSE g : g = Body(g)
  BY DEF Fibonacci
<1>9. Fibonacci = Body(Fibonacci)
  <2> HIDE DEF f
  <2> QED BY <1>7, <1>8
<1>10. QED
  BY <1>9

LEMMA FibonacciIsNumber == \A n \in Nat \ {0} : Fibonacci[n] \in Nat
<1> DEFINE S == {k \in Nat : Fibonacci[k + 1] \in Nat /\ Fibonacci[k + 2] \in Nat}
<1>1. 0 \in S
  BY FibonacciIs
<1>2. ASSUME NEW k \in Nat, k \in S PROVE k + 1 \in S
  <2>1. k + 3 \in Nat /\ k + 3 > 2 /\ (k + 3) - 1 = k + 2 /\ (k + 3) - 2 = k + 1
        /\ (k + 1) + 1 = k + 2 /\ (k + 1) + 2 = k + 3
    OBVIOUS
  <2>2. Fibonacci[k + 3] = Fibonacci[k + 2] + Fibonacci[k + 1]
    <3>1. Fibonacci[k + 3] = Fibonacci[(k + 3) - 1] + Fibonacci[(k + 3) - 2]
      BY <2>1, FibonacciIs
    <3>2. QED
      BY <2>1, <3>1
  <2>3. QED
    BY <1>2, <2>1, <2>2
<1>3. ASSUME NEW n \in Nat \ {0} PROVE Fibonacci[n] \in Nat
  <2>1. n - 1 \in Nat /\ n - 1 \in 0 .. n - 1 /\ (n - 1) + 1 = n
    OBVIOUS
  <2>2. 0 .. n - 1 \subseteq S
    <3> HIDE DEF S
    <3> QED BY <1>1, <1>2, <2>1, UpTo
  <2>3. QED
    BY <2>1, <2>2
<1>4. QED
  BY <1>3

-----------------------------------------------------------------------------
(***************************************************************************)
(* The largest sum (ThreadPrograms).                                       *)
(***************************************************************************)

\* Adding up a sequence leads through its partial sums.
Adds(P, s) == P[0] = 0 /\ \A k \in 1 .. Len(s) : P[k] = P[k - 1] + s[k]

LEMMA SumIs ==
  ASSUME NEW s \in Seq(Int), NEW P, Adds(P, s)
  PROVE  Sum(s) = P[Len(s)]
<1> DEFINE n == Len(s)
           Body(g) == [k \in 0 .. n |-> IF k = 0 THEN 0 ELSE g[k - 1] + s[k]]
           sum == CHOOSE g : g = Body(g)
           Q == [k \in 0 .. n |-> P[k]]
<1>1. n \in Nat
  OBVIOUS
<1>2. Q = Body(Q)
  <2>1. \A k \in 0 .. n : P[k] = IF k = 0 THEN 0 ELSE P[k - 1] + s[k]
    <3> HIDE DEF n
    <3> QED BY <1>1 DEF Adds, n
  <2>2. \A k \in 0 .. n : k # 0 => Q[k - 1] = P[k - 1]
    <3> HIDE DEF n
    <3> QED BY <1>1
  <2>3. QED
    <3> HIDE DEF n
    <3> QED BY <2>1, <2>2
<1>3. sum = Body(sum)
  <2> HIDE DEF n, Q
  <2> QED BY <1>2
<1>4. sum[0] = 0 /\ \A k \in 1 .. n : sum[k] = sum[k - 1] + s[k]
  <2> HIDE DEF sum, n
  <2> QED BY <1>1, <1>3
<1>5. sum[n] = P[n]
  <2> DEFINE S == {k \in 0 .. n : sum[k] = P[k]}
  <2>1. 0 \in S
    <3> HIDE DEF sum, n
    <3> QED BY <1>1, <1>4 DEF Adds
  <2>2. \A k \in Nat : k < n /\ k \in S => k + 1 \in S
    <3> HIDE DEF sum, n
    <3> SUFFICES ASSUME NEW k \in Nat, k < n, sum[k] = P[k] PROVE sum[k + 1] = P[k + 1]
      BY <1>1
    <3>1. k + 1 \in 1 .. n /\ (k + 1) - 1 = k
      BY <1>1
    <3>2. sum[k + 1] = sum[k] + s[k + 1]
      BY <1>4, <3>1
    <3>3. P[k + 1] = P[k] + s[k + 1]
      BY <3>1 DEF Adds, n
    <3>4. QED
      BY <3>2, <3>3
  <2>3. 0 .. n \subseteq S
    <3> HIDE DEF S, n
    <3> QED BY <1>1, <2>1, <2>2, UpTo
  <2>4. n \in S
    <3> HIDE DEF S, n
    <3> QED BY <1>1, <2>3
  <2>5. QED
    <3> HIDE DEF sum, n
    <3> QED BY <2>4
<1>6. Sum(s) = sum[n]
  BY DEF Sum
<1>7. QED
  <2> HIDE DEF sum
  <2> QED BY <1>5, <1>6

LEMMA PartialSums ==
  ASSUME NEW s \in Seq(Int)
  PROVE  \E P \in [0 .. Len(s) -> Int] : Adds(P, s)
<1> DEFINE n == Len(s)
           step == [k \in 1 .. n |-> [v \in Int |-> v + s[k]]]
<1>1. n \in Nat /\ \A k \in 1 .. n : s[k] \in Int
  OBVIOUS
<1>2. step \in [1 .. n -> [Int -> Int]]
  <2> HIDE DEF n
  <2> QED BY <1>1
<1>3. PICK P : Recurses(P, n, Int, 0, step)
  <2> HIDE DEF n, step
  <2>1. 0 \in Int
    OBVIOUS
  <2>2. QED
    BY <1>1, <1>2, <2>1, Recursion
<1>4. P \in [0 .. n -> Int] /\ P[0] = 0 /\ \A k \in 1 .. n : P[k] = step[k][P[k - 1]]
  <2> HIDE DEF n, step
  <2> QED BY <1>3 DEF Recurses
<1>5. ASSUME NEW k \in 1 .. n PROVE P[k] = P[k - 1] + s[k]
  <2>1. k - 1 \in 0 .. n
    BY <1>1
  <2>2. P[k - 1] \in Int /\ P[k] = step[k][P[k - 1]]
    <3> HIDE DEF n, step
    <3> QED BY <1>4, <2>1
  <2>3. step[k] = [v \in Int |-> v + s[k]]
    OBVIOUS
  <2>4. QED
    <3> HIDE DEF n, step
    <3> QED BY <2>2, <2>3
<1>6. QED
  BY <1>4, <1>5 DEF Adds

\* The sum of a part is the difference of two partial sums.
LEMMA PartSum ==
  ASSUME NEW s \in Seq(Int), NEW P \in [0 .. Len(s) -> Int], Adds(P, s),
         NEW a \in 1 .. Len(s) + 1, NEW b \in 0 .. Len(s)
  PROVE  Sum(SubSeq(s, a, b)) = IF a <= b THEN P[b] - P[a - 1] ELSE 0
<1> DEFINE t == SubSeq(s, a, b)
           l == IF a <= b THEN b - a + 1 ELSE 0
           Q == [k \in 0 .. l |-> P[a - 1 + k] - P[a - 1]]
<1>1. Len(s) \in Nat /\ l \in Nat
  OBVIOUS
<1>2. t \in Seq(Int) /\ Len(t) = l /\ \A k \in 1 .. l : t[k] = s[a + k - 1]
  <2>1. \A k \in a .. b : s[k] \in Int
    BY <1>1
  <2>2. QED
    BY <1>1, <2>1, SubSeqProperties
<1> HIDE DEF t
<1>3. Q[0] = 0
  <2>1. P[a - 1] \in Int /\ a - 1 + 0 = a - 1 /\ 0 \in 0 .. l
    BY <1>1
  <2>2. QED
    <3> HIDE DEF l
    <3> QED BY <2>1
<1>4. ASSUME NEW k \in 1 .. l PROVE Q[k] = Q[k - 1] + t[k]
  <2>1. /\ a <= b /\ a - 1 + k \in 1 .. Len(s) /\ (a - 1 + k) - 1 = a - 1 + (k - 1)
        /\ a - 1 + k = a + k - 1 /\ a - 1 \in 0 .. Len(s) /\ a - 1 + (k - 1) \in 0 .. Len(s)
    BY <1>1
  <2>2. P[a - 1 + k] = P[a - 1 + (k - 1)] + s[a - 1 + k]
    <3>1. P[a - 1 + k] = P[(a - 1 + k) - 1] + s[a - 1 + k]
      <4> HIDE DEF l
      <4> QED BY <2>1 DEF Adds
    <3>2. QED
      <4> HIDE DEF l
      <4> QED BY <2>1, <3>1
  <2>3. t[k] = s[a - 1 + k]
    <3> HIDE DEF l
    <3> QED BY <1>2, <2>1
  <2>4. Q[k] = P[a - 1 + k] - P[a - 1] /\ Q[k - 1] = P[a - 1 + (k - 1)] - P[a - 1]
    <3>1. k \in 0 .. l /\ k - 1 \in 0 .. l
      BY <1>1
    <3>2. QED
      <4> HIDE DEF l
      <4> QED BY <3>1
  <2>5. P[a - 1] \in Int /\ P[a - 1 + (k - 1)] \in Int /\ s[a - 1 + k] \in Int
    <3>1. \A j \in 1 .. Len(s) : s[j] \in Int
      OBVIOUS
    <3>2. \A j \in 0 .. Len(s) : P[j] \in Int
      OBVIOUS
    <3>3. QED
      <4> HIDE DEF l
      <4> QED BY <2>1, <3>1, <3>2
  <2> DEFINE p == P[a - 1]
             q == P[a - 1 + (k - 1)]
             v == s[a - 1 + k]
  <2>6. p \in Int /\ q \in Int /\ v \in Int
    BY <2>5
  <2>7. Q[k] = (q + v) - p /\ Q[k - 1] = q - p /\ t[k] = v
    <3> HIDE DEF l, Q
    <3> QED BY <2>2, <2>3, <2>4
  <2>8. QED
    <3> HIDE DEF l, Q, p, q, v
    <3> QED BY <2>6, <2>7
<1>5. Sum(t) = Q[l]
  <2>1. Adds(Q, t)
    <3> HIDE DEF Q, l
    <3> QED BY <1>2, <1>3, <1>4 DEF Adds
  <2>2. QED
    <3> HIDE DEF Q, l
    <3> QED BY <1>2, <2>1, SumIs
<1>6. CASE a <= b
  <2>1. l = b - a + 1 /\ a - 1 + l = b /\ l \in 0 .. l
    BY <1>1, <1>6
  <2>2. Q[l] = P[b] - P[a - 1]
    <3>1. Q[l] = P[a - 1 + l] - P[a - 1]
      <4> HIDE DEF l
      <4> QED BY <2>1
    <3>2. QED
      <4> HIDE DEF Q, l
      <4> QED BY <2>1, <3>1
  <2>3. QED
    <3> HIDE DEF Q, l
    <3> QED BY <1>5, <1>6, <2>2 DEF t
<1>7. CASE ~(a <= b)
  <2>1. l = 0
    BY <1>7
  <2>2. QED
    <3> HIDE DEF Q, l
    <3> QED BY <1>3, <1>5, <1>7, <2>1 DEF t
<1>8. QED
  BY <1>6, <1>7

\* The sums of the parts that are not empty and reach the end.
EndSums(s) == {Sum(SubSeq(s, a, Len(s))) : a \in 1 .. Len(s)}

LEMMA PartSumsAreNumbers ==
  ASSUME NEW s \in Seq(Int)
  PROVE  PartSums(s) \subseteq Int
<1>1. PICK P \in [0 .. Len(s) -> Int] : Adds(P, s)
  BY PartialSums
<1>2. \A a \in 1 .. Len(s) + 1, b \in 0 .. Len(s) : Sum(SubSeq(s, a, b)) \in Int
  <2> TAKE a \in 1 .. Len(s) + 1, b \in 0 .. Len(s)
  <2>1. Sum(SubSeq(s, a, b)) = IF a <= b THEN P[b] - P[a - 1] ELSE 0
    BY <1>1, PartSum
  <2>2. a - 1 \in 0 .. Len(s)
    OBVIOUS
  <2>3. P[b] \in Int /\ P[a - 1] \in Int
    BY <1>1, <2>2
  <2>4. QED
    BY <2>1, <2>3
<1>3. QED
  BY <1>2 DEF PartSums

Largest(v, S) == v \in S /\ \A w \in S : w <= v

\* What max_subarray has in x and y after the numbers in s.
SoFar(s, x, y) ==
  /\ x \in Int /\ y \in Int
  /\ Largest(y, PartSums(s))
  /\ IF s = <<>> THEN x = 0 ELSE Largest(x, EndSums(s))

LEMMA NothingSoFar == SoFar(<<>>, 0, 0)
<1> DEFINE s == <<>>
           P == [k \in 0 .. 0 |-> 0]
<1>1. s \in Seq(Int) /\ Len(s) = 0
  OBVIOUS
<1>2. P \in [0 .. Len(s) -> Int] /\ Adds(P, s)
  BY <1>1 DEF Adds
<1>3. \A a \in 1 .. Len(s) + 1, b \in 0 .. Len(s) : Sum(SubSeq(s, a, b)) = 0
  <2> TAKE a \in 1 .. Len(s) + 1, b \in 0 .. Len(s)
  <2>1. ~(a <= b)
    BY <1>1
  <2>2. Sum(SubSeq(s, a, b)) = IF a <= b THEN P[b] - P[a - 1] ELSE 0
    <3> HIDE DEF s, P
    <3> QED BY <1>1, <1>2, PartSum
  <2>3. QED
    BY <2>1, <2>2
<1>4. 0 \in PartSums(s) /\ \A w \in PartSums(s) : w = 0
  <2>1. 1 \in 1 .. Len(s) + 1 /\ 0 \in 0 .. Len(s)
    BY <1>1
  <2>2. QED
    <3> HIDE DEF s
    <3> QED BY <1>3, <2>1 DEF PartSums
<1>5. QED
  BY <1>4 DEF SoFar, Largest

\* One more number: P has the partial sums of both sequences.
Extends(P, s, val) ==
  LET n == Len(s)
      t == Append(s, val)
  IN  /\ P[n + 1] = P[n] + val /\ \A k \in 0 .. n + 1 : P[k] \in Int
      /\ \A a \in 1 .. n + 1, b \in 0 .. n :
           Sum(SubSeq(s, a, b)) = IF a <= b THEN P[b] - P[a - 1] ELSE 0
      /\ \A a \in 1 .. n + 2, b \in 0 .. n + 1 :
           Sum(SubSeq(t, a, b)) = IF a <= b THEN P[b] - P[a - 1] ELSE 0

LEMMA OneMoreSum ==
  ASSUME NEW s \in Seq(Int), NEW val \in Int
  PROVE  \E P : Extends(P, s, val)
<1> DEFINE n == Len(s)
           t == Append(s, val)
<1>1. /\ n \in Nat /\ t \in Seq(Int) /\ Len(t) = n + 1 /\ t[n + 1] = val
      /\ \A k \in 1 .. n : t[k] = s[k]
  BY AppendProperties
<1> HIDE DEF t
<1>2. PICK P \in [0 .. Len(t) -> Int] : Adds(P, t)
  BY <1>1, PartialSums
<1> DEFINE R == [k \in 0 .. n |-> P[k]]
<1>3. R \in [0 .. Len(s) -> Int] /\ Adds(R, s)
  <2>1. \A k \in 0 .. n : R[k] = P[k] /\ P[k] \in Int
    <3>1. \A k \in 0 .. n : P[k] \in Int
      <4> HIDE DEF n
      <4>1. \A k \in 0 .. n : k \in 0 .. Len(t)
        BY <1>1
      <4>2. QED
        BY <1>2, <4>1
    <3>2. QED
      BY <3>1
  <2>2. \A k \in 1 .. n : P[k] = P[k - 1] + t[k] /\ k - 1 \in 0 .. n
    BY <1>1, <1>2 DEF Adds
  <2>3. P[0] = 0 /\ 0 \in 0 .. n
    BY <1>1, <1>2 DEF Adds
  <2>4. R \in [0 .. n -> Int]
    <3> HIDE DEF n
    <3> QED BY <2>1
  <2>5. \A k \in 1 .. n : R[k] = R[k - 1] + s[k]
    <3> TAKE k \in 1 .. n
    <3>1. R[k] = P[k] /\ R[k - 1] = P[k - 1] /\ t[k] = s[k]
      <4>1. k \in 0 .. n /\ k - 1 \in 0 .. n /\ t[k] = s[k]
        BY <1>1, <2>2
      <4> HIDE DEF R
      <4>2. QED
        BY <2>1, <4>1
    <3>2. QED
      <4> HIDE DEF R
      <4> QED BY <2>2, <3>1
  <2>6. R[0] = 0
    BY <2>3
  <2>7. QED
    <3> HIDE DEF R
    <3> QED BY <2>4, <2>5, <2>6 DEF Adds
<1>4. P[n + 1] = P[n] + val /\ \A k \in 0 .. n + 1 : P[k] \in Int
  <2>1. n + 1 \in 1 .. Len(t) /\ (n + 1) - 1 = n
    BY <1>1
  <2>2. P[n + 1] = P[n] + val
    <3> HIDE DEF n
    <3> QED BY <1>1, <1>2, <2>1 DEF Adds
  <2>3. QED
    <3> HIDE DEF n
    <3> QED BY <1>1, <1>2, <2>2
\* The sums before.
<1>5. \A a \in 1 .. n + 1, b \in 0 .. n :
        Sum(SubSeq(s, a, b)) = IF a <= b THEN P[b] - P[a - 1] ELSE 0
  <2> TAKE a \in 1 .. n + 1, b \in 0 .. n
  <2>1. Sum(SubSeq(s, a, b)) = IF a <= b THEN R[b] - R[a - 1] ELSE 0
    <3> HIDE DEF R
    <3> QED BY <1>3, PartSum
  <2>2. a - 1 \in 0 .. n
    BY <1>1
  <2>3. R[b] = P[b] /\ R[a - 1] = P[a - 1]
    <3> HIDE DEF n
    <3> QED BY <2>2
  <2>4. QED
    <3> HIDE DEF R
    <3> QED BY <2>1, <2>3
\* The sums after.
<1>6. \A a \in 1 .. n + 2, b \in 0 .. n + 1 :
        Sum(SubSeq(t, a, b)) = IF a <= b THEN P[b] - P[a - 1] ELSE 0
  <2> TAKE a \in 1 .. n + 2, b \in 0 .. n + 1
  <2>1. a \in 1 .. Len(t) + 1 /\ b \in 0 .. Len(t)
    BY <1>1
  <2>2. QED
    BY <1>1, <1>2, <2>1, PartSum
<1>7. QED
  <2> HIDE DEF R, n
  <2>1. Extends(P, s, val)
    BY <1>4, <1>5, <1>6 DEF Extends, n, t
  <2>2. QED
    BY <2>1

\* A sum of a part of s is one of s and val, and so is a sum that reaches the end and
\* val.
LEMMA SumsStay ==
  ASSUME NEW s \in Seq(Int), NEW val \in Int
  PROVE  /\ PartSums(s) \subseteq PartSums(Append(s, val))
         /\ \A e \in EndSums(s) : e + val \in PartSums(Append(s, val))
         /\ val \in PartSums(Append(s, val))
<1> DEFINE n == Len(s)
           t == Append(s, val)
<1>1. n \in Nat /\ Len(t) = n + 1
  BY AppendProperties
<1>2. PICK P : Extends(P, s, val)
  BY OneMoreSum
<1>3. /\ P[n + 1] = P[n] + val /\ \A k \in 0 .. n + 1 : P[k] \in Int
      /\ \A a \in 1 .. n + 1, b \in 0 .. n :
           Sum(SubSeq(s, a, b)) = IF a <= b THEN P[b] - P[a - 1] ELSE 0
      /\ \A a \in 1 .. n + 2, b \in 0 .. n + 1 :
           Sum(SubSeq(t, a, b)) = IF a <= b THEN P[b] - P[a - 1] ELSE 0
  BY <1>2 DEF Extends
<1>4. PartSums(s) = {Sum(SubSeq(s, a, b)) : a \in 1 .. n + 1, b \in 0 .. n}
  BY DEF PartSums
<1>5. PartSums(t) = {Sum(SubSeq(t, a, b)) : a \in 1 .. n + 2, b \in 0 .. n + 1}
  <2>1. Len(t) + 1 = n + 2
    BY <1>1
  <2>2. QED
    BY <1>1, <2>1 DEF PartSums
<1>6. EndSums(s) = {Sum(SubSeq(s, a, n)) : a \in 1 .. n}
  BY DEF EndSums
<1> HIDE DEF n, t
<1>7. PartSums(s) \subseteq PartSums(t)
  <2> SUFFICES ASSUME NEW a \in 1 .. n + 1, NEW b \in 0 .. n
               PROVE  Sum(SubSeq(s, a, b)) \in PartSums(t)
    BY <1>4
  <2>1. a \in 1 .. n + 2 /\ b \in 0 .. n + 1
    BY <1>1
  <2>2. Sum(SubSeq(s, a, b)) = Sum(SubSeq(t, a, b))
    BY <1>3, <2>1
  <2>3. QED
    BY <1>5, <2>1, <2>2
<1>8. ASSUME NEW e \in EndSums(s) PROVE e + val \in PartSums(t)
  <2>1. PICK a \in 1 .. n : e = Sum(SubSeq(s, a, n))
    BY <1>6
  <2>2. a \in 1 .. n + 1 /\ a \in 1 .. n + 2 /\ n \in 0 .. n /\ n + 1 \in 0 .. n + 1 /\ a <= n /\ a <= n + 1
        /\ a - 1 \in 0 .. n + 1 /\ n \in 0 .. n + 1
    BY <1>1
  <2>3. e = P[n] - P[a - 1] /\ Sum(SubSeq(t, a, n + 1)) = P[n + 1] - P[a - 1]
    BY <1>3, <2>1, <2>2
  <2>4. P[n] \in Int /\ P[a - 1] \in Int
    BY <1>3, <2>2
  <2>5. e + val = Sum(SubSeq(t, a, n + 1))
    BY <1>3, <2>3, <2>4
  <2>6. QED
    BY <1>5, <2>2, <2>5
<1>9. val \in PartSums(t)
  <2>1. n + 1 \in 1 .. n + 2 /\ n + 1 \in 0 .. n + 1 /\ (n + 1) - 1 = n /\ n \in 0 .. n + 1
    BY <1>1
  <2>2. Sum(SubSeq(t, n + 1, n + 1)) = P[n + 1] - P[n] /\ P[n] \in Int
    BY <1>3, <2>1
  <2>3. val = Sum(SubSeq(t, n + 1, n + 1))
    BY <1>3, <2>2
  <2>4. QED
    BY <1>5, <2>1, <2>3
<1>10. QED
  BY <1>7, <1>8, <1>9 DEF t

\* The largest sum that reaches the end and the largest of all after one more number.
LEMMA OneMore ==
  ASSUME NEW s \in Seq(Int), NEW val \in Int, NEW x, NEW y, SoFar(s, x, y)
  PROVE  SoFar(Append(s, val), Larger(val, x + val), Larger(y, Larger(val, x + val)))
<1> DEFINE n == Len(s)
           t == Append(s, val)
<1>1. /\ n \in Nat /\ t \in Seq(Int) /\ Len(t) = n + 1 /\ t[n + 1] = val
      /\ \A k \in 1 .. n : t[k] = s[k]
  BY AppendProperties
<1>2. PICK P : Extends(P, s, val)
  BY OneMoreSum
<1>3. P[n + 1] = P[n] + val /\ \A k \in 0 .. n + 1 : P[k] \in Int
  BY <1>2 DEF Extends
\* The sums before.
<1>4. \A a \in 1 .. n + 1, b \in 0 .. n :
        Sum(SubSeq(s, a, b)) = IF a <= b THEN P[b] - P[a - 1] ELSE 0
  BY <1>2 DEF Extends
\* The sums after.
<1>5. \A a \in 1 .. n + 2, b \in 0 .. n + 1 :
        Sum(SubSeq(t, a, b)) = IF a <= b THEN P[b] - P[a - 1] ELSE 0
  BY <1>2 DEF Extends
<1> HIDE DEF t
<1> DEFINE u == Larger(val, x + val)
           v == Larger(y, u)
<1>6. x \in Int /\ y \in Int /\ u \in Int /\ v \in Int
  BY DEF SoFar, Larger
<1>7. \A e : e \in EndSums(s) <=> \E a \in 1 .. n : e = P[n] - P[a - 1]
  <2>1. \A a \in 1 .. n : Sum(SubSeq(s, a, n)) = P[n] - P[a - 1]
    <3> TAKE a \in 1 .. n
    <3>1. a \in 1 .. n + 1 /\ n \in 0 .. n /\ a <= n
      BY <1>1
    <3>2. QED
      <4> HIDE DEF n
      <4> QED BY <1>4, <3>1
  <2>2. QED
    BY <2>1 DEF EndSums
<1>8. \A e : e \in EndSums(t) <=> \E a \in 1 .. n + 1 : e = P[n + 1] - P[a - 1]
  <2>1. \A a \in 1 .. n + 1 : Sum(SubSeq(t, a, n + 1)) = P[n + 1] - P[a - 1]
    <3> TAKE a \in 1 .. n + 1
    <3>1. a \in 1 .. n + 2 /\ n + 1 \in 0 .. n + 1 /\ a <= n + 1
      <4>1. n \in Nat
        BY <1>1
      <4> HIDE DEF n
      <4>2. QED
        BY <4>1
    <3>2. QED
      <4> HIDE DEF n
      <4> QED BY <1>5, <3>1
  <2>2. EndSums(t) = {Sum(SubSeq(t, a, n + 1)) : a \in 1 .. n + 1}
    BY <1>1 DEF EndSums
  <2>3. QED
    BY <2>1, <2>2
<1>9. Largest(u, EndSums(t))
  <2>1. val \in EndSums(t)
    <3>1. n + 1 \in 1 .. n + 1 /\ (n + 1) - 1 = n /\ P[n] \in Int /\ val = P[n + 1] - P[n]
      BY <1>1, <1>3
    <3>2. QED
      <4> HIDE DEF n
      <4> QED BY <1>8, <3>1
  <2>2. ASSUME NEW e \in EndSums(s) PROVE e + val \in EndSums(t)
    <3>1. PICK a \in 1 .. n : e = P[n] - P[a - 1]
      BY <1>7
    <3>2. a \in 1 .. n + 1 /\ P[a - 1] \in Int /\ P[n] \in Int
      <4>1. n \in Nat
        BY <1>1
      <4> HIDE DEF n
      <4>2. a - 1 \in 0 .. n + 1 /\ n \in 0 .. n + 1 /\ a \in 1 .. n + 1
        BY <4>1
      <4>3. QED
        BY <1>3, <4>2
    <3>3. e + val = P[n + 1] - P[a - 1]
      <4> HIDE DEF n
      <4> QED BY <1>3, <3>1, <3>2
    <3>4. QED
      <4> HIDE DEF n
      <4> QED BY <1>8, <3>2, <3>3
  <2>3. ASSUME NEW f \in EndSums(t) PROVE f = val \/ f - val \in EndSums(s)
    <3>1. PICK a \in 1 .. n + 1 : f = P[n + 1] - P[a - 1]
      BY <1>8
    <3>2. CASE a = n + 1
      <4>1. P[a - 1] = P[n] /\ P[n] \in Int
        BY <1>1, <1>3, <3>2
      <4>2. QED
        BY <1>3, <3>1, <4>1
    <3>3. CASE a \in 1 .. n
      <4>1. P[a - 1] \in Int /\ P[n] \in Int
        <5>1. n \in Nat
          BY <1>1
        <5> HIDE DEF n
        <5>2. a - 1 \in 0 .. n + 1 /\ n \in 0 .. n + 1
          BY <5>1, <3>3
        <5>3. QED
          BY <1>3, <5>2
      <4>2. f - val = P[n] - P[a - 1]
        <5> HIDE DEF n
        <5> QED BY <1>3, <3>1, <4>1
      <4>3. QED
        <5> HIDE DEF n
        <5> QED BY <1>7, <3>3, <4>2
    <3>4. QED
      BY <1>1, <3>2, <3>3
  <2>4. EndSums(s) \subseteq Int /\ EndSums(t) \subseteq Int
    <3>1. n \in Nat
      BY <1>1
    <3> HIDE DEF n
    <3>2. \A a \in 1 .. n + 1 : a - 1 \in 0 .. n + 1 /\ P[a - 1] \in Int
      BY <1>3, <3>1
    <3>3. P[n] \in Int /\ P[n + 1] \in Int /\ \A a \in 1 .. n : a \in 1 .. n + 1
      BY <1>3, <3>1
    <3>4. ASSUME NEW e \in EndSums(s) PROVE e \in Int
      <4>1. PICK a \in 1 .. n : e = P[n] - P[a - 1]
        BY <1>7
      <4>2. QED
        BY <3>2, <3>3, <4>1
    <3>5. ASSUME NEW e \in EndSums(t) PROVE e \in Int
      <4>1. PICK a \in 1 .. n + 1 : e = P[n + 1] - P[a - 1]
        BY <1>8
      <4>2. QED
        BY <3>2, <3>3, <4>1
    <3>6. QED
      BY <3>4, <3>5
  <2>5. CASE s = <<>>
    <3>1. x = 0 /\ u = val
      BY <2>5 DEF SoFar, Larger
    <3>2. EndSums(s) = {}
      BY <2>5 DEF EndSums
    <3>3. \A f \in EndSums(t) : f = val
      BY <2>3, <3>2
    <3>4. QED
      BY <2>1, <3>1, <3>3 DEF Largest
  <2>6. CASE s # <<>>
    <3>1. x \in EndSums(s) /\ \A e \in EndSums(s) : e <= x
      BY <2>6 DEF SoFar, Largest
    <3>2. u \in EndSums(t)
      BY <2>1, <2>2, <3>1 DEF Larger
    <3>3. u >= val /\ u >= x + val
      BY <1>6 DEF Larger
    <3>4. ASSUME NEW f \in EndSums(t) PROVE f <= u
      <4>1. f \in Int /\ (f = val \/ f - val <= x)
        BY <2>3, <2>4, <3>1
      <4>2. QED
        <5> HIDE DEF u
        <5> QED BY <1>6, <3>3, <4>1
    <3>5. QED
      BY <3>2, <3>4 DEF Largest
  <2>7. QED
    BY <2>5, <2>6
<1>10. PartSums(t) = PartSums(s) \union EndSums(t)
  <2>1. PartSums(s) = {Sum(SubSeq(s, a, b)) : a \in 1 .. n + 1, b \in 0 .. n}
    BY DEF PartSums
  <2>2. PartSums(t) = {Sum(SubSeq(t, a, b)) : a \in 1 .. n + 2, b \in 0 .. n + 1}
    <3>1. Len(t) + 1 = n + 2
      BY <1>1
    <3>2. QED
      BY <1>1, <3>1 DEF PartSums
  <2>3. ASSUME NEW a \in 1 .. n + 1, NEW b \in 0 .. n
        PROVE  Sum(SubSeq(s, a, b)) \in PartSums(t)
    <3>1. a \in 1 .. n + 2 /\ b \in 0 .. n + 1
      BY <1>1
    <3>2. Sum(SubSeq(s, a, b)) = Sum(SubSeq(t, a, b))
      <4> HIDE DEF n
      <4> QED BY <1>4, <1>5, <3>1
    <3>3. QED
      <4> HIDE DEF n
      <4> QED BY <2>2, <3>1, <3>2
  <2>4. EndSums(t) \subseteq PartSums(t)
    <3>1. EndSums(t) = {Sum(SubSeq(t, a, n + 1)) : a \in 1 .. n + 1}
      BY <1>1 DEF EndSums
    <3>2. n + 1 \in 0 .. n + 1 /\ 1 .. n + 1 \subseteq 1 .. n + 2
      BY <1>1
    <3>3. QED
      <4> HIDE DEF n
      <4> QED BY <2>2, <3>1, <3>2
  <2>5. 0 \in PartSums(s)
    <3>1. 1 \in 1 .. n + 1 /\ 0 \in 0 .. n /\ ~(1 <= 0)
      BY <1>1
    <3>2. Sum(SubSeq(s, 1, 0)) = 0
      <4> HIDE DEF n
      <4> QED BY <1>4, <3>1
    <3>3. QED
      <4> HIDE DEF n
      <4> QED BY <2>1, <3>1, <3>2
  <2>6. ASSUME NEW a \in 1 .. n + 2, NEW b \in 0 .. n + 1
        PROVE  Sum(SubSeq(t, a, b)) \in PartSums(s) \union EndSums(t)
    <3>1. CASE ~(a <= b)
      <4>1. Sum(SubSeq(t, a, b)) = 0
        <5> HIDE DEF n
        <5> QED BY <1>5, <3>1
      <4>2. QED
        BY <2>5, <4>1
    <3>2. CASE a <= b /\ b <= n
      <4>1. a \in 1 .. n + 1 /\ b \in 0 .. n
        BY <1>1, <3>2
      <4>2. Sum(SubSeq(t, a, b)) = Sum(SubSeq(s, a, b))
        <5> HIDE DEF n
        <5> QED BY <1>4, <1>5, <4>1
      <4>3. QED
        <5> HIDE DEF n
        <5> QED BY <2>1, <4>1, <4>2
    <3>3. CASE a <= b /\ b = n + 1
      <4>1. a \in 1 .. n + 1
        BY <1>1, <3>3
      <4>2. Sum(SubSeq(t, a, b)) = P[n + 1] - P[a - 1]
        <5> HIDE DEF n
        <5> QED BY <1>5, <3>3
      <4>3. QED
        <5> HIDE DEF n
        <5> QED BY <1>8, <4>1, <4>2
    <3>4. QED
      BY <1>1, <3>1, <3>2, <3>3
  <2>7. QED
    <3> HIDE DEF n
    <3> QED BY <2>1, <2>2, <2>3, <2>4, <2>6
<1>11. Largest(v, PartSums(t))
  <2>1. Largest(y, PartSums(s))
    BY DEF SoFar
  <2>2. v >= y /\ v >= u /\ (v = y \/ v = u)
    <3> HIDE DEF u
    <3> QED BY <1>6 DEF Larger
  <2>3. v \in PartSums(s) \union EndSums(t)
    <3> HIDE DEF u, v
    <3> QED BY <1>9, <2>1, <2>2 DEF Largest
  <2>4. ASSUME NEW w \in PartSums(s) \union EndSums(t) PROVE w <= v
    <3>1. w <= y \/ w <= u
      <4> HIDE DEF u, v
      <4> QED BY <1>9, <2>1 DEF Largest
    <3>2. w \in Int
      BY <1>1, <1>10, PartSumsAreNumbers
    <3>3. QED
      <4> HIDE DEF u, v
      <4> QED BY <1>6, <2>2, <3>1, <3>2
  <2>5. QED
    <3> HIDE DEF u, v
    <3> QED BY <1>10, <2>3, <2>4 DEF Largest
<1>12. t # <<>>
  BY <1>1
<1>13. SoFar(t, u, v)
  <2> HIDE DEF u, v
  <2> QED BY <1>6, <1>9, <1>11, <1>12 DEF SoFar
<1>14. QED
  BY <1>13 DEF t

LEMMA SoFarIsRight ==
  ASSUME NEW s, NEW x, NEW y, SoFar(s, x, y), PartSums(s) \subseteq Int
  PROVE  y = MaxSubarray(s)
<1> DEFINE S == PartSums(s)
<1>1. MaxSubarray(s) = Max(S)
  BY DEF MaxSubarray, PartSums
<1>2. y \in S /\ y \in Int /\ \A w \in S : w <= y
  BY DEF SoFar, Largest
<1>3. Max(S) = CHOOSE m \in S : \A w \in S : m >= w
  BY DEF Max
<1>4. \A m \in S : (\A w \in S : m >= w) <=> m = y
  <2> HIDE DEF S
  <2>1. S \subseteq Int
    BY DEF S
  <2>2. QED
    BY <1>2, <2>1
<1>5. QED
  <2> HIDE DEF S
  <2> QED BY <1>1, <1>2, <1>3, <1>4

-----------------------------------------------------------------------------
(***************************************************************************)
(* The inductive invariant.                                                *)
(***************************************************************************)

\* The scheduler has been jumped to, or a thread runs: RUNNING is a thread.
Busy == mode \in {"thread", "YIELD", "READ", "EXIT"}

\* No thread is twice in an array.
Distinct(array) == \A j, k \in 1 .. Len(array) : array[j] = array[k] => j = k

\* The threads that the arrays hold, each of them in one of the arrays.
Held(f) == at[f] \notin {"none", "gone"} \/ (mode = "EXIT" /\ RUNNING = f)

Arrays ==
  /\ ready_queue \in Seq(Functions) /\ waiting_queue \in Seq(Functions)
  /\ Distinct(ready_queue) /\ Distinct(waiting_queue)
  /\ ToSet(ready_queue) \intersect ToSet(waiting_queue) = {}
  /\ \A f \in Functions : Held(f) <=> f \in ToSet(ready_queue) \union ToSet(waiting_queue)

\* rq_current is the index of RUNNING, unless no thread is ready.
Current ==
  /\ rq_current \in Nat
  /\ IF Busy THEN rq_current < Len(ready_queue) ELSE rq_current = 0 /\ ready_queue = <<>>

\* Where a thread is when the scheduler has been jumped to, and where it waits.
Places ==
  /\ \A f \in Functions :
       at[f] \in {"none", "yield", "exit", "gone"}
                 \union (IF f = "max_subarray" THEN {"async_read", "read"} ELSE {"round"})
  /\ mode = "READ" => at[RUNNING] = "read"
  /\ mode = "EXIT" => at[RUNNING] = "gone"
  /\ \A f \in ToSet(waiting_queue) : at[f] = "read"

\* The FIFO holds five characters for a line that has not been read, unless it
\* holds a single, shorter line; max_subarray gets to its read with a line there.
Backlog ==
  /\ input \in Seq(Int) /\ Len(input) <= MaxInput
  /\ taken \in 0 .. Len(input)
  /\ fifo \in Seq(STRING)
  /\ buf \in Seq(STRING) /\ Len(buf) = 4
  /\ \/ Len(fifo) = 5 * (Len(input) - taken)
     \/ Len(input) - taken = 1 /\ Len(fifo) \in 1 .. 4
  /\ /\ "max_subarray" \in ToSet(ready_queue)
     /\ at["max_subarray"] = "read" /\ mode # "READ"
     => fifo # <<>>

Values ==
  /\ tcb \in [Functions -> Tcb]
  /\ at \in [Functions -> {"none", "round", "async_read", "read", "yield", "exit", "gone"}]
  /\ mode \in {"thread", "YIELD", "READ", "EXIT", "idle", "done"}
  /\ pending \subseteq base_mask
  /\ armed \in BOOLEAN

IInv == Values /\ Arrays /\ Current /\ Places /\ Backlog


-----------------------------------------------------------------------------
(***************************************************************************)
(* The arrays.                                                             *)
(***************************************************************************)

\* What is picked of the beginnings of an array.
Picks(picked, V, array, set) ==
  /\ picked \in [0 .. Len(array) -> Seq(V)]
  /\ picked[0] = <<>>
  /\ \A k \in 1 .. Len(array) :
       picked[k] = IF array[k] \in set THEN Append(picked[k - 1], array[k]) ELSE picked[k - 1]
  /\ Picked(array, set) = picked[Len(array)]

LEMMA ToSetIs ==
  ASSUME NEW V, NEW q \in Seq(V)
  PROVE  \A x : x \in ToSet(q) <=> \E k \in 1 .. Len(q) : q[k] = x
BY DEF ToSet

LEMMA PickedRecursion ==
  ASSUME NEW V, NEW array \in Seq(V), NEW set
  PROVE  \E picked : Picks(picked, V, array, set)
<1> DEFINE n == Len(array)
           Body(g) == [k \in 0 .. n |->
                         IF k = 0 THEN <<>>
                         ELSE IF array[k] \in set THEN Append(g[k - 1], array[k]) ELSE g[k - 1]]
           picked == CHOOSE g : g = Body(g)
           step == [k \in 1 .. n |->
                      [v \in Seq(V) |-> IF array[k] \in set THEN Append(v, array[k]) ELSE v]]
<1>1. n \in Nat
  OBVIOUS
<1>2. step \in [1 .. n -> [Seq(V) -> Seq(V)]]
  OBVIOUS
<1>3. PICK d : Recurses(d, n, Seq(V), <<>>, step)
  <2>1. <<>> \in Seq(V)
    OBVIOUS
  <2>2. QED
    <3> HIDE DEF n, step
    <3> QED BY <1>1, <1>2, <2>1, Recursion
<1>4. d \in [0 .. n -> Seq(V)] /\ d[0] = <<>> /\ \A k \in 1 .. n : d[k] = step[k][d[k - 1]]
  <2> HIDE DEF n, step
  <2> QED BY <1>3 DEF Recurses
<1>5. \A k \in 1 .. n :
        d[k] = IF array[k] \in set THEN Append(d[k - 1], array[k]) ELSE d[k - 1]
  <2> TAKE k \in 1 .. n
  <2>1. d[k - 1] \in Seq(V) /\ d[k] = step[k][d[k - 1]]
    <3> HIDE DEF n, step
    <3> QED BY <1>1, <1>4
  <2>2. QED
    BY <2>1
<1>6. d = Body(d)
  <2>1. \A k \in 0 .. n : d[k] = Body(d)[k]
    <3> TAKE k \in 0 .. n
    <3>1. CASE k = 0
      BY <1>4, <3>1
    <3>2. CASE k # 0
      <4>1. k \in 1 .. n
        BY <3>2
      <4>2. Body(d)[k] = IF array[k] \in set THEN Append(d[k - 1], array[k]) ELSE d[k - 1]
        BY <3>2
      <4>3. QED
        <5> HIDE DEF Body
        <5> QED BY <1>5, <4>1, <4>2
    <3>3. QED
      BY <3>1, <3>2
  <2>2. DOMAIN d = 0 .. n /\ d = [k \in 0 .. n |-> d[k]]
    <3> HIDE DEF n, step
    <3> QED BY <1>4
  <2>3. QED
    <3> HIDE DEF n
    <3> QED BY <2>1, <2>2
<1>7. picked = Body(picked)
  <2> HIDE DEF n
  <2> QED BY <1>6
<1>8. picked[0] = <<>>
  <2> HIDE DEF picked, n
  <2> QED BY <1>1, <1>7
<1>9. \A k \in 1 .. n :
        picked[k] = IF array[k] \in set THEN Append(picked[k - 1], array[k]) ELSE picked[k - 1]
  <2> HIDE DEF picked
  <2> TAKE k \in 1 .. n
  <2>1. k \in 0 .. n /\ k # 0
    OBVIOUS
  <2>2. picked[k] = Body(picked)[k]
    BY <1>7
  <2>3. QED
    <3> HIDE DEF n
    <3> QED BY <2>1, <2>2
<1> DEFINE S == {k \in 0 .. n : picked[k] = d[k]}
<1>10. 0 .. n \subseteq S
  <2>1. 0 \in S
    <3> HIDE DEF picked, n, step
    <3> QED BY <1>1, <1>4, <1>8
  <2>2. \A k \in Nat : k < n /\ k \in S => k + 1 \in S
    <3> HIDE DEF picked, n, step
    <3> SUFFICES ASSUME NEW k \in Nat, k < n, picked[k] = d[k] PROVE picked[k + 1] = d[k + 1]
      BY <1>1
    <3>1. k + 1 \in 1 .. n /\ (k + 1) - 1 = k
      BY <1>1
    <3>2. QED
      BY <1>5, <1>9, <3>1
  <2>3. QED
    <3> HIDE DEF S, n
    <3> QED BY <1>1, <2>1, <2>2, UpTo
<1>11. Picked(array, set) = picked[n]
  BY DEF Picked
<1>12. QED
  <2>1. Picked(array, set) = d[n]
    <3> HIDE DEF picked, n, step
    <3> QED BY <1>1, <1>10, <1>11
  <2>2. QED
    <3> HIDE DEF step
    <3> QED BY <1>4, <1>5, <2>1 DEF Picks

\* What Picked returns: the entries in the set, none of them twice if none was.
LEMMA PickedIs ==
  ASSUME NEW V, NEW array \in Seq(V), NEW set
  PROVE  /\ Picked(array, set) \in Seq(V)
         /\ ToSet(Picked(array, set)) = ToSet(array) \intersect set
         /\ Distinct(array) => Distinct(Picked(array, set))
<1> DEFINE n == Len(array)
           Entries(k) == {array[i] : i \in 1 .. k} \intersect set
           Good(k, p) == ToSet(p) = Entries(k) /\ (Distinct(array) => Distinct(p))
<1> PICK picked : Picks(picked, V, array, set)
  BY PickedRecursion
<1>1. /\ picked \in [0 .. n -> Seq(V)]
      /\ picked[0] = <<>>
      /\ \A k \in 1 .. n :
           picked[k] = IF array[k] \in set THEN Append(picked[k - 1], array[k])
                       ELSE picked[k - 1]
      /\ Picked(array, set) = picked[n]
  BY DEF Picks
<1>2. n \in Nat
  OBVIOUS
<1>3. Good(0, picked[0])
  BY <1>1 DEF ToSet, Distinct
<1>4. ASSUME NEW k \in 1 .. n, Good(k - 1, picked[k - 1])
      PROVE  Good(k, picked[k])
  <2> DEFINE p == picked[k - 1]
  <2>1. p \in Seq(V) /\ array[k] \in V
    BY <1>1
  <2>2. Entries(k) = Entries(k - 1) \union ({array[k]} \intersect set)
    OBVIOUS
  <2>3. CASE array[k] \in set
    <3>1. picked[k] = Append(p, array[k])
      BY <1>1, <2>3
    <3>2. /\ Len(Append(p, array[k])) = Len(p) + 1
          /\ \A i \in 1 .. Len(p) : Append(p, array[k])[i] = p[i]
          /\ Append(p, array[k])[Len(p) + 1] = array[k]
          /\ Append(p, array[k]) \in Seq(V)
      <4> HIDE DEF p
      <4> QED BY <2>1
    <3>3. ToSet(Append(p, array[k])) = ToSet(p) \union {array[k]}
      <4> HIDE DEF p, n
      <4>1. Len(p) \in Nat
        BY <2>1
      <4>2. \A x : x \in ToSet(p) <=> \E i \in 1 .. Len(p) : p[i] = x
        BY <2>1, ToSetIs
      <4>3. \A x : x \in ToSet(Append(p, array[k]))
                   <=> \E i \in 1 .. Len(p) + 1 : Append(p, array[k])[i] = x
        <5> DEFINE e == Append(p, array[k])
        <5>1. e \in Seq(V) /\ Len(e) = Len(p) + 1
          BY <3>2
        <5>2. \A x : x \in ToSet(e) <=> \E i \in 1 .. Len(p) + 1 : e[i] = x
          <6> HIDE DEF e
          <6> QED BY <5>1, ToSetIs
        <5>3. QED
          BY <5>2
      <4>4. \A i \in 1 .. Len(p) + 1 : i \in 1 .. Len(p) \/ i = Len(p) + 1
        BY <4>1
      <4>5. \A i \in 1 .. Len(p) : i \in 1 .. Len(p) + 1
        BY <4>1
      <4>6. Len(p) + 1 \in 1 .. Len(p) + 1
        BY <4>1
      <4>7. QED
        BY <3>2, <4>2, <4>3, <4>4, <4>5, <4>6
    <3>4. ASSUME Distinct(array) PROVE Distinct(Append(p, array[k]))
      <4>1. array[k] \notin ToSet(p)
        <5>1. ASSUME NEW i \in 1 .. k - 1, array[i] = array[k] PROVE FALSE
          <6>1. i \in 1 .. Len(array) /\ k \in 1 .. Len(array) /\ i # k
            OBVIOUS
          <6>2. QED
            BY <3>4, <5>1, <6>1 DEF Distinct
        <5>2. QED
          BY <1>4, <5>1
      <4>2. Distinct(p)
        BY <1>4, <3>4
      <4>3. \A i \in 1 .. Len(p) : p[i] # array[k]
        BY <4>1, <2>1, ToSetIs
      <4>4. Len(p) \in Nat
        BY <2>1
      <4>5. QED
        <5> HIDE DEF p, n
        <5> SUFFICES ASSUME NEW i \in 1 .. Len(p) + 1, NEW j \in 1 .. Len(p) + 1,
                            Append(p, array[k])[i] = Append(p, array[k])[j]
                     PROVE  i = j
          BY <3>2 DEF Distinct
        <5>1. i \in 1 .. Len(p) \/ i = Len(p) + 1
          BY <4>4
        <5>2. j \in 1 .. Len(p) \/ j = Len(p) + 1
          BY <4>4
        <5>3. QED
          BY <3>2, <4>2, <4>3, <5>1, <5>2 DEF Distinct
    <3>5. QED
      <4> HIDE DEF Entries, p
      <4> QED BY <1>4, <2>2, <2>3, <3>1, <3>3, <3>4 DEF p
  <2>4. CASE array[k] \notin set
    <3>1. picked[k] = p
      BY <1>1, <2>4
    <3>2. QED
      <4> HIDE DEF Entries
      <4> QED BY <1>4, <2>2, <2>4, <3>1
  <2>5. QED
    BY <2>3, <2>4
<1>5. Good(n, picked[n])
  <2> DEFINE S == {k \in 0 .. n : Good(k, picked[k])}
  <2>1. 0 \in S
    <3> HIDE DEF Good, n
    <3> QED BY <1>2, <1>3
  <2>2. \A k \in Nat : k < n /\ k \in S => k + 1 \in S
    <3> HIDE DEF Good, n
    <3> SUFFICES ASSUME NEW k \in Nat, k < n, Good(k, picked[k])
                 PROVE  k + 1 \in 0 .. n /\ Good(k + 1, picked[k + 1])
      OBVIOUS
    <3>1. k + 1 \in 1 .. n /\ (k + 1) - 1 = k
      BY <1>2
    <3>2. QED
      BY <1>4, <3>1
  <2>3. 0 .. n \subseteq S
    <3> HIDE DEF S, n
    <3> QED BY <1>2, <2>1, <2>2, UpTo
  <2>4. QED
    <3> HIDE DEF Good, n
    <3> QED BY <1>2, <2>3
<1>6. Entries(n) = ToSet(array) \intersect set
  BY DEF ToSet
<1>7. picked[n] \in Seq(V)
  BY <1>1, <1>2
<1>8. QED
  <2> HIDE DEF n, Entries
  <2> QED BY <1>1, <1>5, <1>6, <1>7


LEMMA ConcatIs ==
  ASSUME NEW V, NEW p \in Seq(V), NEW q \in Seq(V)
  PROVE  /\ p \o q \in Seq(V) /\ Len(p \o q) = Len(p) + Len(q)
         /\ \A k \in 1 .. Len(p) : (p \o q)[k] = p[k]
         /\ ToSet(p \o q) = ToSet(p) \union ToSet(q)
         /\ Distinct(p) /\ Distinct(q) /\ ToSet(p) \intersect ToSet(q) = {} => Distinct(p \o q)
<1> DEFINE r == p \o q
           m == Len(p)
           n == Len(q)
<1>1. /\ r \in Seq(V) /\ Len(r) = m + n
      /\ \A k \in 1 .. m : r[k] = p[k]
      /\ \A k \in 1 .. n : r[m + k] = q[k]
  OBVIOUS
<1>2. m \in Nat /\ n \in Nat
  OBVIOUS
<1>3. /\ \A x : x \in ToSet(p) <=> \E k \in 1 .. m : p[k] = x
      /\ \A x : x \in ToSet(q) <=> \E k \in 1 .. n : q[k] = x
  BY ToSetIs
<1>4. \A x : x \in ToSet(r) <=> \E k \in 1 .. m + n : r[k] = x
  <2> HIDE DEF r, m, n
  <2> QED BY <1>1, ToSetIs
<1>5. \A k \in 1 .. m + n :
        \/ k \in 1 .. m /\ r[k] = p[k]
        \/ k - m \in 1 .. n /\ r[k] = q[k - m]
  <2> HIDE DEF r, m, n
  <2> TAKE k \in 1 .. m + n
  <2>1. CASE k <= m
    BY <1>1, <2>1
  <2>2. CASE ~(k <= m)
    <3>1. k - m \in 1 .. n /\ m + (k - m) = k
      BY <1>2, <2>2
    <3>2. QED
      BY <1>1, <3>1
  <2>3. QED
    BY <2>1, <2>2
<1>6. ToSet(r) = ToSet(p) \union ToSet(q)
  <2> HIDE DEF r, m, n
  <2>1. ASSUME NEW x \in ToSet(r) PROVE x \in ToSet(p) \union ToSet(q)
    BY <1>3, <1>4, <1>5, <2>1
  <2>2. ASSUME NEW x \in ToSet(p) PROVE x \in ToSet(r)
    <3>1. PICK k \in 1 .. m : p[k] = x
      BY <1>3
    <3>2. k \in 1 .. m + n
      BY <1>2
    <3>3. QED
      BY <1>1, <1>4, <3>1, <3>2
  <2>3. ASSUME NEW x \in ToSet(q) PROVE x \in ToSet(r)
    <3>1. PICK k \in 1 .. n : q[k] = x
      BY <1>3
    <3>2. m + k \in 1 .. m + n
      BY <1>2
    <3>3. QED
      BY <1>1, <1>4, <3>1, <3>2
  <2>4. QED
    BY <2>1, <2>2, <2>3
<1>7. ASSUME Distinct(p), Distinct(q), ToSet(p) \intersect ToSet(q) = {} PROVE Distinct(r)
  <2>1. SUFFICES ASSUME NEW j \in 1 .. m + n, NEW k \in 1 .. m + n, r[j] = r[k] PROVE j = k
    <3> HIDE DEF r
    <3> QED BY <1>1 DEF Distinct
  <2>2. ASSUME NEW i \in 1 .. m, NEW h \in 1 .. n PROVE p[i] # q[h]
    <3>1. p[i] \in ToSet(p) /\ q[h] \in ToSet(q)
      BY <1>3
    <3>2. QED
      BY <1>7, <3>1
  <2>3. CASE j \in 1 .. m /\ k \in 1 .. m
    BY <1>1, <1>7, <2>1, <2>3 DEF Distinct
  <2>4. CASE j - m \in 1 .. n /\ k - m \in 1 .. n /\ r[j] = q[j - m] /\ r[k] = q[k - m]
    <3>1. j - m = k - m
      BY <1>7, <2>1, <2>4 DEF Distinct
    <3>2. QED
      <4> HIDE DEF r, m, n
      <4> QED BY <1>2, <3>1
  <2>5. QED
    <3> HIDE DEF r, m, n
    <3> QED BY <1>1, <1>5, <2>1, <2>2, <2>3, <2>4
<1>8. QED
  <2> HIDE DEF r
  <2> QED BY <1>1, <1>6, <1>7 DEF r

\* DropCurrent takes RUNNING out and nothing else.
LEMMA DropIs ==
  ASSUME NEW V, NEW q \in Seq(V), Distinct(q), rq_current \in Nat, rq_current < Len(q)
  PROVE  /\ DropCurrent(q) \in Seq(V) /\ Len(DropCurrent(q)) = Len(q) - 1
         /\ Distinct(DropCurrent(q))
         /\ ToSet(DropCurrent(q)) = ToSet(q) \ {q[rq_current + 1]}
<1> DEFINE n == Len(q)
           c == rq_current + 1
           e == [q EXCEPT ![c] = Last(q)]
           d == DropCurrent(q)
<1>1. n \in Nat /\ c \in 1 .. n /\ n \in 1 .. n
  OBVIOUS
<1>2. Last(q) = q[n] /\ q[n] \in V
  BY <1>1 DEF Last
<1>3. e \in Seq(V) /\ Len(e) = n /\ \A k \in 1 .. n : e[k] = IF k = c THEN q[n] ELSE q[k]
  BY <1>1, <1>2
<1>4. d = SubSeq(e, 1, n - 1)
  <2>1. d = SubSeq(e, 1, Len(e) - 1)
    BY DEF DropCurrent, Front
  <2>2. QED
    BY <1>3, <2>1
<1>5. /\ d \in Seq(V) /\ Len(d) = n - 1
      /\ \A k \in 1 .. n - 1 : d[k] = IF k = c THEN q[n] ELSE q[k]
  <2> HIDE DEF n, c, e, d
  <2>1. \A k \in 1 .. n - 1 : e[k] \in V
    BY <1>1, <1>3
  <2>2. SubSeq(e, 1, n - 1) \in Seq(V) /\ Len(SubSeq(e, 1, n - 1)) = n - 1
    BY <1>1, <2>1, SubSeqProperties
  <2>3. \A k \in 1 .. n - 1 : SubSeq(e, 1, n - 1)[k] = e[k]
    BY <1>1, <1>3
  <2>4. QED
    BY <1>1, <1>3, <1>4, <2>2, <2>3
<1>6. \A j, k \in 1 .. n : q[j] = q[k] => j = k
  BY DEF Distinct
<1>7. Distinct(d)
  <2> HIDE DEF n, c, e, d
  <2> QED BY <1>1, <1>5, <1>6 DEF Distinct
<1>8. /\ \A x : x \in ToSet(d) <=> \E k \in 1 .. n - 1 : d[k] = x
      /\ \A x : x \in ToSet(q) <=> \E k \in 1 .. n : q[k] = x
  <2>1. \A x : x \in ToSet(d) <=> \E k \in 1 .. n - 1 : d[k] = x
    <3> HIDE DEF n, c, e, d
    <3> QED BY <1>5, ToSetIs
  <2>2. QED
    BY <2>1, ToSetIs
<1>9. ToSet(d) = ToSet(q) \ {q[c]}
  <2> HIDE DEF n, c, e, d
  <2>1. ASSUME NEW x \in ToSet(d) PROVE x \in ToSet(q) /\ x # q[c]
    <3>1. PICK k \in 1 .. n - 1 : d[k] = x
      BY <1>8
    <3>2. x = q[IF k = c THEN n ELSE k] /\ (IF k = c THEN n ELSE k) \in (1 .. n) \ {c}
      BY <1>1, <1>5, <3>1
    <3>3. QED
      BY <1>1, <1>6, <1>8, <3>2
  <2>2. ASSUME NEW x \in ToSet(q), x # q[c] PROVE x \in ToSet(d)
    <3>1. PICK k \in 1 .. n : q[k] = x
      BY <1>8
    <3>2. k # c
      BY <2>2, <3>1
    <3>3. CASE k = n
      <4>1. c \in 1 .. n - 1 /\ d[c] = x
        BY <1>1, <1>5, <3>1, <3>2, <3>3
      <4>2. QED
        BY <1>8, <4>1
    <3>4. CASE k # n
      <4>1. k \in 1 .. n - 1 /\ d[k] = x
        BY <1>1, <1>5, <3>1, <3>2, <3>4
      <4>2. QED
        BY <1>8, <4>1
    <3>5. QED
      BY <3>3, <3>4
  <2>3. QED
    BY <2>1, <2>2
<1>10. QED
  BY <1>5, <1>7, <1>9


-----------------------------------------------------------------------------
(***************************************************************************)
(* The beginning.                                                          *)
(***************************************************************************)

LEMMA CreatedIs ==
  ASSUME NEW args \in Arguments
  PROVE  /\ Created(args) \in Seq(Functions) /\ Distinct(Created(args))
         /\ ToSet(Created(args)) = {f \in Functions : args[f] >= 0}
<1> DEFINE all == <<"fibonacci", "collatz", "max_subarray">>
           set == {f \in Functions : args[f] >= 0}
<1>1. all \in Seq(Functions) /\ Len(all) = 3
  BY DEF Functions
<1>2. all[1] = "fibonacci" /\ all[2] = "collatz" /\ all[3] = "max_subarray"
  OBVIOUS
<1>3. ToSet(all) = Functions
  <2> HIDE DEF all
  <2> QED BY <1>1, <1>2, ToSetIs DEF Functions
<1>4. Distinct(all)
  <2> HIDE DEF all
  <2> QED BY <1>1, <1>2 DEF Distinct
<1>5. Created(args) = Picked(all, set)
  BY DEF Created
<1>6. QED
  <2> HIDE DEF all
  <2> QED BY <1>1, <1>3, <1>4, <1>5, PickedIs

LEMMA ArgumentIs ==
  ASSUME NEW args \in Arguments
  PROVE  \A f \in Functions : args[f] \in CInt
BY SchedulerAssumption DEF Arguments, Functions

LEMMA InitInv == Init => IInv
<1> SUFFICES ASSUME Init PROVE IInv
  OBVIOUS
<1>1. PICK args \in Arguments :
        /\ Created(args) # <<>>
        /\ ready_queue = Created(args) /\ rq_current = 0 /\ waiting_queue = <<>>
        /\ tcb = [f \in Functions |-> NewTcb(IF args[f] >= 0 THEN args[f] ELSE 0)]
        /\ at = [f \in Functions |-> IF args[f] >= 0 THEN RoundStart(f) ELSE "none"]
        /\ mode = "thread" /\ pending = {} /\ armed = (Timeslice > 0)
        /\ fifo = <<>> /\ input = <<>> /\ taken = 0
        /\ \E c \in Leftovers : buf = <<c, c, c, c>>
  BY DEF Init
<1>2. Values
  <2>1. tcb \in [Functions -> Tcb]
    BY <1>1, ArgumentIs, IntsAreIntegers DEF NewTcb, Tcb
  <2>2. at \in [Functions -> {"none", "round", "async_read"}]
    BY <1>1 DEF RoundStart
  <2>3. QED
    BY <1>1, <2>1, <2>2 DEF Values
<1>3. Arrays
  <2>1. Distinct(waiting_queue) /\ ToSet(waiting_queue) = {} /\ waiting_queue \in Seq(Functions)
    BY <1>1 DEF Distinct, ToSet
  <2>2. \A f \in Functions : Held(f) <=> args[f] >= 0
    BY <1>1 DEF Held, RoundStart
  <2>3. QED
    BY <1>1, <2>1, <2>2, CreatedIs DEF Arrays
<1>4. Current
  <2>1. Len(ready_queue) \in Nat \ {0}
    BY <1>1, CreatedIs, EmptySeq
  <2>2. QED
    BY <1>1, <2>1 DEF Current, Busy
<1>5. Places
  BY <1>1 DEF Places, RoundStart, ToSet
<1>6. Backlog
  <2>1. buf \in Seq(STRING) /\ Len(buf) = 4
    BY <1>1, SchedulerAssumption
  <2>2. QED
    BY <1>1, <2>1, SchedulerAssumption DEF Backlog, RoundStart, Functions
<1>7. QED
  BY <1>2, <1>3, <1>4, <1>5, <1>6 DEF IInv

-----------------------------------------------------------------------------
(***************************************************************************)
(* The running thread.                                                     *)
(***************************************************************************)

\* RUNNING is in the ready queue, and nowhere else.
LEMMA RunningIs ==
  ASSUME IInv, Busy
  PROVE  /\ RUNNING \in Functions /\ RUNNING \in ToSet(ready_queue)
         /\ RUNNING \notin ToSet(waiting_queue)
<1>1. ready_queue \in Seq(Functions) /\ rq_current + 1 \in 1 .. Len(ready_queue)
  BY DEF IInv, Arrays, Current
<1>2. RUNNING \in Functions /\ RUNNING \in ToSet(ready_queue)
  BY <1>1, ToSetIs DEF RUNNING
<1>3. QED
  BY <1>2 DEF IInv, Arrays

\* A step of the running thread that moves it to another place of its own keeps
\* the arrays in order, whatever it jumps to the scheduler with.
LEMMA ThreadKeepsArrays ==
  ASSUME IInv, NEW f \in Functions, mode = "thread", RUNNING = f,
         NEW place \in {"round", "async_read", "read", "yield", "exit", "gone"},
         f = "max_subarray" => place # "round",
         f # "max_subarray" => place \notin {"async_read", "read"},
         at' = [at EXCEPT ![f] = place],
         mode' \in {"thread", "YIELD", "READ", "EXIT"},
         mode' = "READ" <=> place = "read",
         mode' = "EXIT" <=> place = "gone",
         UNCHANGED Queues
  PROVE  Arrays' /\ Current' /\ Places'
<1>1. /\ ready_queue' = ready_queue /\ waiting_queue' = waiting_queue
      /\ rq_current' = rq_current /\ RUNNING' = RUNNING
  BY DEF Queues, RUNNING
<1>2. at \in [Functions -> {"none", "round", "async_read", "read", "yield", "exit", "gone"}]
  BY DEF IInv, Values
<1>3. /\ f \in ToSet(ready_queue) /\ f \notin ToSet(waiting_queue)
      /\ \A g \in Functions : at'[g] = IF g = f THEN place ELSE at[g]
  BY <1>2, RunningIs DEF Busy
<1>4. \A g \in Functions : Held(g)' <=> Held(g)
  <2> TAKE g \in Functions
  <2>1. Held(f) /\ Held(f)'
    BY <1>1, <1>3 DEF Held, IInv, Arrays
  <2>2. CASE g # f
    BY <1>1, <1>3, <2>2 DEF Held
  <2>3. QED
    BY <2>1, <2>2
<1>5. Arrays'
  BY <1>1, <1>4 DEF IInv, Arrays, Distinct
<1>6. Current'
  BY <1>1 DEF IInv, Current, Busy
<1>7. Places'
  BY <1>1, <1>3 DEF IInv, Places, Arrays
<1>8. QED
  BY <1>5, <1>6, <1>7


\* The fields of a tcb are ints.
LEMMA TcbFields ==
  ASSUME NEW t \in Tcb
  PROVE  t.arg \in CInt /\ t.i \in CInt /\ t.x \in CInt /\ t.y \in CInt
BY DEF Tcb

\* What a round leaves in x and y.
LEMMA TcbType ==
  ASSUME NEW t \in Tcb, NEW a \in CInt, NEW b \in CInt
  PROVE  [t EXCEPT !.x = a, !.y = b] \in Tcb
BY DEF Tcb

LEMMA CollatzStepType ==
  ASSUME NEW arg \in CInt
  PROVE  CollatzStep(arg) \in CInt
<1>1. arg \in Int /\ 3 * arg + 1 \in Int
  BY IntsAreIntegers
<1>2. CASE arg % 2 = 0
  <2>1. arg \div 2 \in CInt
    BY <1>2, SchedulerAssumption DEF CInt, IntMin
  <2>2. QED
    BY <1>2, <2>1 DEF CollatzStep
<1>3. CASE arg % 2 # 0
  BY <1>1, <1>3, WrapIs DEF CollatzStep
<1>4. QED
  BY <1>2, <1>3

LEMMA RoundKeepsInv ==
  ASSUME IInv, NEW f \in Functions, Round(f)
  PROVE  IInv'
<1>1. /\ mode = "thread" /\ RUNNING = f /\ at[f] = "round" /\ f # "max_subarray"
      /\ UNCHANGED <<Queues, mode, pending, armed, Input>>
  BY DEF Round, Running, EndRound, IInv, Places
<1>2. PICK t : /\ t \in Tcb
               /\ tcb' = [tcb EXCEPT ![f] = t]
               /\ at' = [at EXCEPT ![f] = IF LastRound(f, t) THEN "exit" ELSE "yield"]
  <2>1. tcb[f] \in Tcb
    BY DEF IInv, Values
  <2>2. FibonacciRound(tcb[f]) \in Tcb
    <3>1. tcb[f].y \in CInt /\ Wrap(tcb[f].x + tcb[f].y) \in CInt /\ 1 \in CInt
      <4>1. tcb[f].x \in Int /\ tcb[f].y \in Int /\ tcb[f].y \in CInt
        BY <2>1, TcbFields, IntsAreIntegers
      <4>2. QED
        BY <4>1, WrapIs, IntsAreIntegers
    <3>2. CASE tcb[f].i <= 2
      <4>1. FibonacciRound(tcb[f]) = [tcb[f] EXCEPT !.x = 1, !.y = 1]
        BY <3>2 DEF FibonacciRound
      <4> DEFINE one == 1
      <4>2. [tcb[f] EXCEPT !.x = one, !.y = one] \in Tcb
        <5>1. one \in CInt
          BY <3>1
        <5> HIDE DEF one
        <5>2. QED
          BY <2>1, <5>1, TcbType
      <4>3. QED
        BY <4>1, <4>2
    <3>3. CASE ~(tcb[f].i <= 2)
      BY <2>1, <3>1, <3>3, TcbType DEF FibonacciRound
    <3>4. QED
      BY <3>2, <3>3
  <2>3. CollatzRound(tcb[f]) \in Tcb
    <3>1. CollatzStep(tcb[f].arg) \in CInt
      BY <2>1, TcbFields, CollatzStepType
    <3>2. QED
      BY <2>1, <3>1 DEF CollatzRound, Tcb
  <2>4. QED
    BY <2>2, <2>3 DEF Round, EndRound
<1>3. PICK place \in {"exit", "yield"} : at' = [at EXCEPT ![f] = place]
  BY <1>2
<1>4. Arrays' /\ Current' /\ Places'
  BY <1>1, <1>3, ThreadKeepsArrays
<1>5. Values'
  BY <1>1, <1>2, <1>3 DEF IInv, Values, base_mask
<1>6. Backlog'
  BY <1>1, <1>3 DEF IInv, Values, Backlog, Input, Queues, Functions
<1>7. QED
  BY <1>4, <1>5, <1>6 DEF IInv

LEMMA AsyncReadKeepsInv ==
  ASSUME IInv, NEW f \in Functions, AsyncRead(f)
  PROVE  IInv'
<1>1. /\ mode = "thread" /\ RUNNING = f /\ f = "max_subarray"
      /\ at' = [at EXCEPT ![f] = "read"] /\ mode' = "READ"
      /\ UNCHANGED <<Queues, tcb, pending, armed, Input>>
  BY DEF AsyncRead, Running, IInv, Places
<1>2. Arrays' /\ Current' /\ Places'
  BY <1>1, ThreadKeepsArrays
<1>3. Values'
  BY <1>1 DEF IInv, Values, base_mask
<1>4. Backlog'
  BY <1>1 DEF IInv, Backlog, Input
<1>5. QED
  BY <1>2, <1>3, <1>4 DEF IInv

LEMMA ReadIntoType ==
  ASSUME Backlog
  PROVE  ReadInto \in Seq(STRING) /\ Len(ReadInto) = 4
<1>1. \A k \in 1 .. 4 : (IF k <= Len(fifo) THEN fifo[k] ELSE buf[k]) \in STRING
  <2> TAKE k \in 1 .. 4
  <2>1. fifo \in Seq(STRING) /\ buf \in Seq(STRING) /\ Len(buf) = 4
    BY DEF Backlog
  <2>2. k <= Len(fifo) => k \in 1 .. Len(fifo)
    BY <2>1
  <2>3. QED
    BY <2>1, <2>2, ElementOfSeq
<1>2. ReadInto \in [1 .. 4 -> STRING]
  BY <1>1 DEF ReadInto
<1>3. ReadInto \in Seq(STRING)
  BY <1>2, SeqDef
<1>4. 1 .. Len(ReadInto) = 1 .. 4 /\ Len(ReadInto) \in Nat
  BY <1>2, <1>3, LenProperties
<1>5. Len(ReadInto) = 4
  <2> DEFINE n == Len(ReadInto)
  <2>1. n \in Nat /\ 4 \in 1 .. n /\ 5 \notin 1 .. n
    BY <1>4
  <2>2. QED
    <3> HIDE DEF n
    <3>1. n = 4
      BY <2>1
    <3>2. QED
      BY <3>1 DEF n
<1>6. QED
  BY <1>3, <1>5

\* A read takes away what was written for one line.
LEMMA ReadTakesALine ==
  ASSUME IInv, NEW f \in Functions, Read(f)
  PROVE  /\ fifo # <<>> /\ taken + 1 <= Len(input)
         /\ fifo' \in Seq(STRING)
         /\ Len(fifo') = 5 * (Len(input) - (taken + 1))
<1>1. f = "max_subarray" /\ mode = "thread" /\ RUNNING = f /\ at[f] = "read"
  BY DEF Read, Running, IInv, Places
<1>2. fifo # <<>> /\ fifo \in Seq(STRING)
  BY <1>1, RunningIs DEF IInv, Backlog, Busy
<1>3. Len(fifo) \in Nat /\ Len(fifo) > 0 /\ Len(input) \in Nat /\ taken \in Nat
  BY <1>2, EmptySeq DEF IInv, Backlog
<1>4. \/ Len(fifo) = 5 * (Len(input) - taken)
      \/ Len(input) - taken = 1 /\ Len(fifo) \in 1 .. 4
  BY DEF IInv, Backlog
<1>5. fifo' = SubSeq(fifo, 6, Len(fifo))
  BY DEF Read
<1>6. /\ SubSeq(fifo, 6, Len(fifo)) \in Seq(STRING)
      /\ Len(SubSeq(fifo, 6, Len(fifo))) = IF 6 <= Len(fifo) THEN Len(fifo) - 5 ELSE 0
  <2>1. \A k \in 6 .. Len(fifo) : fifo[k] \in STRING
    BY <1>2, <1>3
  <2>2. QED
    BY <1>2, <1>3, <2>1, SubSeqProperties
<1>7. fifo' \in Seq(STRING) /\ Len(fifo') = IF 6 <= Len(fifo) THEN Len(fifo) - 5 ELSE 0
  BY <1>5, <1>6
<1>8. PICK m \in Nat : m = Len(fifo)
  BY <1>3
<1>9. PICK k \in Nat : k = Len(input)
  BY <1>3
<1>10. taken + 1 <= k /\ (IF 6 <= m THEN m - 5 ELSE 0) = 5 * (k - (taken + 1))
  <2>1. CASE m = 5 * (k - taken)
    BY <1>3, <1>8, <2>1
  <2>2. CASE k - taken = 1 /\ m \in 1 .. 4
    BY <1>3, <2>2
  <2>3. QED
    BY <1>4, <1>8, <1>9, <2>1, <2>2
<1>11. QED
  BY <1>2, <1>7, <1>8, <1>9, <1>10

LEMMA ReadKeepsInv ==
  ASSUME IInv, NEW f \in Functions, Read(f)
  PROVE  IInv'
<1>1. /\ mode = "thread" /\ RUNNING = f /\ f = "max_subarray"
      /\ buf' = ReadInto /\ taken' = taken + 1 /\ UNCHANGED input
      /\ UNCHANGED <<Queues, mode, pending, armed>>
  BY DEF Read, Running, EndRound, IInv, Places
<1>2. PICK t : /\ t \in Tcb
               /\ tcb' = [tcb EXCEPT ![f] = t]
               /\ at' = [at EXCEPT ![f] = IF LastRound(f, t) THEN "exit" ELSE "yield"]
  <2>1. tcb[f] \in Tcb
    BY DEF IInv, Values
  <2>2. PICK val \in CInt : EndRound(f, SubarrayRound(tcb[f], val))
    BY ReadIntoType, IntOfType DEF IInv, Read
  <2>3. SubarrayRound(tcb[f], val) \in Tcb
    <3> DEFINE x == Larger(val, Wrap(tcb[f].x + val))
               y == Larger(tcb[f].y, x)
    <3>1. x \in CInt
      <4>1. tcb[f].x \in CInt
        BY <2>1, TcbFields
      <4>2. tcb[f].x \in Int /\ val \in Int
        BY <2>2, <4>1, IntsAreIntegers
      <4>3. Wrap(tcb[f].x + val) \in CInt
        BY <4>2, WrapIs
      <4>4. QED
        BY <2>2, <4>3 DEF Larger
    <3>2. y \in CInt
      <4> HIDE DEF x
      <4> QED BY <2>1, <3>1, TcbFields DEF Larger
    <3>3. SubarrayRound(tcb[f], val) = [tcb[f] EXCEPT !.x = x, !.y = y]
      BY DEF SubarrayRound
    <3>4. [tcb[f] EXCEPT !.x = x, !.y = y] \in Tcb
      <4> HIDE DEF x, y
      <4> QED BY <2>1, <3>1, <3>2, TcbType
    <3>5. QED
      BY <3>3, <3>4
  <2>4. QED
    BY <2>2, <2>3 DEF EndRound
<1>3. PICK place \in {"exit", "yield"} : at' = [at EXCEPT ![f] = place]
  BY <1>2
<1>4. Arrays' /\ Current' /\ Places'
  BY <1>1, <1>3, ThreadKeepsArrays
<1>5. Values'
  BY <1>1, <1>2, <1>3 DEF IInv, Values, base_mask
<1>6. Backlog'
  <2>1. buf' \in Seq(STRING) /\ Len(buf') = 4
    BY <1>1, ReadIntoType DEF IInv
  <2>2. at'["max_subarray"] # "read"
    BY <1>1, <1>3 DEF IInv, Values
  <2>3. taken' \in 0 .. Len(input')
    BY <1>1, ReadTakesALine DEF IInv, Backlog
  <2>4. fifo' \in Seq(STRING) /\ Len(fifo') = 5 * (Len(input') - taken')
    BY <1>1, ReadTakesALine
  <2>5. QED
    BY <1>1, <2>1, <2>2, <2>3, <2>4 DEF IInv, Backlog
<1>7. QED
  BY <1>4, <1>5, <1>6 DEF IInv

LEMMA TakeSignalKeeps ==
  ASSUME IInv, mode = "thread", TakeSignal
  PROVE  /\ mode' \in {"thread", "YIELD"}
         /\ pending' \subseteq base_mask /\ armed' \in BOOLEAN
<1>1. pending \subseteq base_mask /\ armed \in BOOLEAN
  BY DEF IInv, Values
<1>2. CASE "SIGTSTP" \in pending
  BY <1>1, <1>2 DEF TakeSignal
<1>3. CASE "SIGTSTP" \notin pending /\ "SIGALRM" \in pending
  BY <1>1, <1>3 DEF TakeSignal
<1>4. CASE "SIGTSTP" \notin pending /\ "SIGALRM" \notin pending
  BY <1>1, <1>4 DEF TakeSignal
<1>5. QED
  BY <1>2, <1>3, <1>4

LEMMA ThreadYieldKeepsInv ==
  ASSUME IInv, NEW f \in Functions, ThreadYield(f)
  PROVE  IInv'
<1>1. /\ mode = "thread" /\ RUNNING = f /\ TakeSignal
      /\ tcb' = [tcb EXCEPT ![f] = NextRound(f, tcb[f])]
      /\ at' = [at EXCEPT ![f] = RoundStart(f)]
      /\ UNCHANGED <<Queues, Input>>
  BY DEF ThreadYield, Running, IInv, Values
<1>2. PICK place \in {"round", "async_read"} :
        at' = [at EXCEPT ![f] = place] /\ (place = "async_read" <=> f = "max_subarray")
  BY <1>1 DEF RoundStart
<1>3. mode' \in {"thread", "YIELD"} /\ pending' \subseteq base_mask /\ armed' \in BOOLEAN
  BY <1>1, TakeSignalKeeps
<1>4. Arrays' /\ Current' /\ Places'
  BY <1>1, <1>2, <1>3, ThreadKeepsArrays
<1>5. Values'
  <2>1. NextRound(f, tcb[f]) \in Tcb
    <3>1. tcb[f] \in Tcb
      BY DEF IInv, Values
    <3>2. Wrap(tcb[f].i + 1) \in CInt
      <4>1. tcb[f].i \in Int
        BY <3>1, TcbFields, IntsAreIntegers
      <4>2. QED
        BY <4>1, WrapIs
    <3>3. QED
      BY <3>1, <3>2 DEF NextRound, Tcb
  <2>2. QED
    BY <1>1, <1>2, <1>3, <2>1 DEF IInv, Values, base_mask
<1>6. Backlog'
  BY <1>1, <1>2, <1>3 DEF IInv, Values, Backlog, Input, Queues, Functions
<1>7. QED
  BY <1>4, <1>5, <1>6 DEF IInv

LEMMA ThreadExitKeepsInv ==
  ASSUME IInv, NEW f \in Functions, ThreadExit(f)
  PROVE  IInv'
<1>1. /\ mode = "thread" /\ RUNNING = f
      /\ at' = [at EXCEPT ![f] = "gone"] /\ mode' = "EXIT"
      /\ UNCHANGED <<Queues, tcb, pending, armed, Input>>
  BY DEF ThreadExit, Running
<1>2. Arrays' /\ Current' /\ Places'
  BY <1>1, ThreadKeepsArrays
<1>3. Values'
  BY <1>1 DEF IInv, Values, base_mask
<1>4. Backlog'
  BY <1>1 DEF IInv, Values, Backlog, Input, Queues, Functions
<1>5. QED
  BY <1>2, <1>3, <1>4 DEF IInv


-----------------------------------------------------------------------------
(***************************************************************************)
(* The scheduler.                                                          *)
(***************************************************************************)

\* poll moves the waiting threads that have input, and no other one.
LEMMA PolledIs ==
  ASSUME IInv
  PROVE  /\ Polled \in Seq(Functions) /\ Distinct(Polled)
         /\ Len(Polled) >= Len(ready_queue)
         /\ \A k \in 1 .. Len(ready_queue) : Polled[k] = ready_queue[k]
         /\ ToSet(Polled) = ToSet(ready_queue) \union {f \in ToSet(waiting_queue) : HasInput(f)}
         /\ StillWaiting \in Seq(Functions) /\ Distinct(StillWaiting)
         /\ ToSet(StillWaiting) = {f \in ToSet(waiting_queue) : ~HasInput(f)}
<1> DEFINE woken == Picked(waiting_queue, {f \in Functions : HasInput(f)})
<1>1. /\ ready_queue \in Seq(Functions) /\ waiting_queue \in Seq(Functions)
      /\ Distinct(ready_queue) /\ Distinct(waiting_queue)
      /\ ToSet(ready_queue) \intersect ToSet(waiting_queue) = {}
  BY DEF IInv, Arrays
<1>2. ToSet(waiting_queue) \subseteq Functions
  BY <1>1, ToSetIs
<1>3. /\ woken \in Seq(Functions) /\ Distinct(woken)
      /\ ToSet(woken) = ToSet(waiting_queue) \intersect {f \in Functions : HasInput(f)}
  BY <1>1, PickedIs
<1>4. /\ StillWaiting \in Seq(Functions) /\ Distinct(StillWaiting)
      /\ ToSet(StillWaiting) = ToSet(waiting_queue) \intersect {f \in Functions : ~HasInput(f)}
  BY <1>1, PickedIs DEF StillWaiting
<1>5. Polled = ready_queue \o woken
  BY DEF Polled
<1>6. /\ Polled \in Seq(Functions) /\ Len(Polled) = Len(ready_queue) + Len(woken)
      /\ \A k \in 1 .. Len(ready_queue) : Polled[k] = ready_queue[k]
      /\ ToSet(Polled) = ToSet(ready_queue) \union ToSet(woken)
      /\ Distinct(Polled)
  <2> HIDE DEF woken
  <2>1. ToSet(ready_queue) \intersect ToSet(woken) = {}
    BY <1>1, <1>3
  <2>2. QED
    BY <1>1, <1>3, <1>5, <2>1, ConcatIs
<1>7. Len(woken) \in Nat /\ Len(ready_queue) \in Nat
  <2> HIDE DEF woken
  <2> QED BY <1>1, <1>3
<1>8. QED
  <2> HIDE DEF woken
  <2> QED BY <1>2, <1>3, <1>4, <1>6, <1>7

\* The end of scheduler() leaves the arrays in order if what it is given is.
LEMMA DispatchKeepsInv ==
  ASSUME IInv, NEW ready \in Seq(Functions), NEW waiting \in Seq(Functions), NEW current \in Nat,
         Dispatch(ready, waiting, current),
         Distinct(ready), Distinct(waiting), ToSet(ready) \intersect ToSet(waiting) = {},
         \A f \in Functions : at[f] \notin {"none", "gone"} <=> f \in ToSet(ready) \union ToSet(waiting),
         \A f \in ToSet(waiting) : at[f] = "read",
         "max_subarray" \in ToSet(ready) /\ at["max_subarray"] = "read" => fifo # <<>>,
         current <= Len(ready)
  PROVE  IInv'
<1>1. /\ ready_queue' = ready /\ waiting_queue' = waiting
      /\ rq_current' = (IF ready # <<>> /\ current = Len(ready) THEN 0 ELSE current)
      /\ mode' = (IF ready # <<>> THEN "thread" ELSE IF waiting # <<>> THEN "idle" ELSE "done")
      /\ UNCHANGED <<tcb, at, pending, armed, Input>>
  BY DEF Dispatch
<1>2. Values'
  BY <1>1 DEF IInv, Values, base_mask
<1>3. Arrays'
  <2>1. \A f \in Functions : Held(f)' <=> at[f] \notin {"none", "gone"}
    BY <1>1 DEF Held
  <2>2. QED
    BY <1>1, <2>1 DEF Arrays, Distinct
<1>4. Current'
  <2>1. Len(ready) \in Nat /\ (ready # <<>> => Len(ready) > 0) /\ (ready = <<>> => Len(ready) = 0)
    BY EmptySeq
  <2>2. CASE ready # <<>>
    BY <1>1, <2>1, <2>2 DEF Current, Busy
  <2>3. CASE ready = <<>>
    BY <1>1, <2>1, <2>3 DEF Current, Busy
  <2>4. QED
    BY <2>2, <2>3
<1>5. Places'
  BY <1>1 DEF IInv, Places
<1>6. Backlog'
  BY <1>1 DEF IInv, Backlog, Input
<1>7. QED
  BY <1>2, <1>3, <1>4, <1>5, <1>6 DEF IInv

\* A thread that waits, and has input, is max_subarray; so is one that gets ready.
LEMMA WokenReads ==
  ASSUME IInv, mode # "READ",
         "max_subarray" \in ToSet(Polled), at["max_subarray"] = "read"
  PROVE  fifo # <<>>
BY PolledIs DEF IInv, Backlog, HasInput

LEMMA ScheduleYieldKeepsInv ==
  ASSUME IInv, ScheduleYield
  PROVE  IInv'
<1>1. mode = "YIELD" /\ Dispatch(Polled, StillWaiting, rq_current + 1)
  BY DEF ScheduleYield
<1>2. rq_current + 1 \in Nat /\ rq_current + 1 <= Len(Polled)
  <2>1. /\ rq_current \in Nat /\ rq_current < Len(ready_queue)
        /\ Len(ready_queue) \in Nat /\ Len(Polled) \in Nat /\ Len(Polled) >= Len(ready_queue)
    BY <1>1, PolledIs DEF IInv, Current, Busy, Arrays
  <2>2. QED
    BY <2>1
<1>3. \A f \in Functions : Held(f) <=> at[f] \notin {"none", "gone"}
  BY <1>1 DEF Held
<1>4. \A f \in Functions :
        at[f] \notin {"none", "gone"} <=> f \in ToSet(Polled) \union ToSet(StillWaiting)
  BY <1>3, PolledIs DEF IInv, Arrays
<1>5. ToSet(Polled) \intersect ToSet(StillWaiting) = {}
  BY PolledIs DEF IInv, Arrays
<1>6. \A f \in ToSet(StillWaiting) : at[f] = "read"
  BY PolledIs DEF IInv, Places
<1>7. "max_subarray" \in ToSet(Polled) /\ at["max_subarray"] = "read" => fifo # <<>>
  BY <1>1, WokenReads
<1>8. QED
  BY <1>1, <1>2, <1>4, <1>5, <1>6, <1>7, PolledIs, DispatchKeepsInv

LEMMA PollAgainKeepsInv ==
  ASSUME IInv, PollAgain
  PROVE  IInv'
<1>1. mode = "idle" /\ Dispatch(Polled, StillWaiting, rq_current)
  BY DEF PollAgain
<1>2. rq_current \in Nat /\ rq_current <= Len(Polled)
  BY <1>1, PolledIs DEF IInv, Current, Busy
<1>3. \A f \in Functions : Held(f) <=> at[f] \notin {"none", "gone"}
  BY <1>1 DEF Held
<1>4. \A f \in Functions :
        at[f] \notin {"none", "gone"} <=> f \in ToSet(Polled) \union ToSet(StillWaiting)
  BY <1>3, PolledIs DEF IInv, Arrays
<1>5. ToSet(Polled) \intersect ToSet(StillWaiting) = {}
  BY PolledIs DEF IInv, Arrays
<1>6. \A f \in ToSet(StillWaiting) : at[f] = "read"
  BY PolledIs DEF IInv, Places
<1>7. "max_subarray" \in ToSet(Polled) /\ at["max_subarray"] = "read" => fifo # <<>>
  BY <1>1, WokenReads
<1>8. QED
  BY <1>1, <1>2, <1>4, <1>5, <1>6, <1>7, PolledIs, DispatchKeepsInv

\* DropCurrent, after the waiting threads have been polled, drops RUNNING.
LEMMA DropRunning ==
  ASSUME IInv, Busy
  PROVE  /\ DropCurrent(Polled) \in Seq(Functions) /\ Distinct(DropCurrent(Polled))
         /\ ToSet(DropCurrent(Polled)) = ToSet(Polled) \ {RUNNING}
         /\ rq_current <= Len(DropCurrent(Polled))
<1>1. /\ rq_current \in Nat /\ rq_current < Len(ready_queue)
      /\ Len(ready_queue) \in Nat /\ Len(Polled) \in Nat /\ Len(Polled) >= Len(ready_queue)
  BY PolledIs DEF IInv, Current, Arrays
<1>2. rq_current < Len(Polled) /\ Polled[rq_current + 1] = RUNNING
  <2>1. rq_current + 1 \in 1 .. Len(ready_queue)
    BY <1>1
  <2>2. QED
    BY <1>1, <2>1, PolledIs DEF RUNNING
<1>3. /\ DropCurrent(Polled) \in Seq(Functions)
      /\ Len(DropCurrent(Polled)) = Len(Polled) - 1
      /\ Distinct(DropCurrent(Polled))
      /\ ToSet(DropCurrent(Polled)) = ToSet(Polled) \ {RUNNING}
  BY <1>1, <1>2, PolledIs, DropIs
<1>4. QED
  BY <1>1, <1>2, <1>3

LEMMA ScheduleExitKeepsInv ==
  ASSUME IInv, ScheduleExit
  PROVE  IInv'
<1> DEFINE ready == DropCurrent(Polled)
<1>1. mode = "EXIT" /\ Busy /\ Dispatch(ready, StillWaiting, rq_current)
  BY DEF ScheduleExit, Busy
<1>2. /\ ready \in Seq(Functions) /\ Distinct(ready) /\ rq_current <= Len(ready)
      /\ ToSet(ready) = ToSet(Polled) \ {RUNNING}
  BY <1>1, DropRunning
<1>3. \A f \in Functions : Held(f) <=> at[f] \notin {"none", "gone"} \/ f = RUNNING
  BY <1>1 DEF Held
<1>4. at[RUNNING] = "gone"
  BY <1>1 DEF IInv, Places
<1>5. RUNNING \notin ToSet(waiting_queue)
  BY <1>1, RunningIs
<1>6. \A f \in Functions :
        at[f] \notin {"none", "gone"} <=> f \in ToSet(ready) \union ToSet(StillWaiting)
  <2> HIDE DEF ready
  <2> QED BY <1>2, <1>3, <1>4, <1>5, PolledIs DEF IInv, Arrays
<1>7. ToSet(ready) \intersect ToSet(StillWaiting) = {}
  <2> HIDE DEF ready
  <2> QED BY <1>2, PolledIs DEF IInv, Arrays
<1>8. \A f \in ToSet(StillWaiting) : at[f] = "read"
  BY PolledIs DEF IInv, Places
<1>9. "max_subarray" \in ToSet(ready) /\ at["max_subarray"] = "read" => fifo # <<>>
  <2> HIDE DEF ready
  <2> QED BY <1>1, <1>2, WokenReads
<1>10. rq_current \in Nat
  BY DEF IInv, Current
<1>11. QED
  <2> HIDE DEF ready
  <2> QED BY <1>1, <1>2, <1>6, <1>7, <1>8, <1>9, <1>10, PolledIs, DispatchKeepsInv

LEMMA ScheduleReadKeepsInv ==
  ASSUME IInv, ScheduleRead
  PROVE  IInv'
<1> DEFINE ready == DropCurrent(Polled)
           waiting == Append(StillWaiting, RUNNING)
<1>1. mode = "READ" /\ Busy /\ Dispatch(ready, waiting, rq_current)
  BY DEF ScheduleRead, Busy
<1>2. /\ ready \in Seq(Functions) /\ Distinct(ready) /\ rq_current <= Len(ready)
      /\ ToSet(ready) = ToSet(Polled) \ {RUNNING}
  BY <1>1, DropRunning
<1>3. \A f \in Functions : Held(f) <=> at[f] \notin {"none", "gone"}
  BY <1>1 DEF Held
<1>4. at[RUNNING] = "read" /\ RUNNING = "max_subarray"
  BY <1>1, RunningIs DEF IInv, Places
<1>5. RUNNING \notin ToSet(waiting_queue) /\ RUNNING \in ToSet(ready_queue) /\ RUNNING \in Functions
  BY <1>1, RunningIs
<1>6. /\ waiting \in Seq(Functions) /\ Distinct(waiting)
      /\ ToSet(waiting) = ToSet(StillWaiting) \union {RUNNING}
  <2> DEFINE last == <<RUNNING>>
  <2>1. last \in Seq(Functions) /\ Distinct(last) /\ ToSet(last) = {RUNNING}
    BY <1>5 DEF Distinct, ToSet
  <2>2. waiting = StillWaiting \o last
    BY <1>5, PolledIs
  <2>3. ToSet(StillWaiting) \intersect ToSet(last) = {}
    BY <1>5, <2>1, PolledIs
  <2>4. QED
    <3> HIDE DEF waiting, last
    <3> QED BY <2>1, <2>2, <2>3, PolledIs, ConcatIs
<1>7. \A f \in Functions :
        at[f] \notin {"none", "gone"} <=> f \in ToSet(ready) \union ToSet(waiting)
  <2> HIDE DEF ready, waiting
  <2> QED BY <1>2, <1>3, <1>5, <1>6, PolledIs DEF IInv, Arrays
<1>8. ToSet(ready) \intersect ToSet(waiting) = {}
  <2> HIDE DEF ready, waiting
  <2> QED BY <1>2, <1>6, PolledIs DEF IInv, Arrays
<1>9. \A f \in ToSet(waiting) : at[f] = "read"
  <2> HIDE DEF waiting
  <2> QED BY <1>4, <1>6, PolledIs DEF IInv, Places
<1>10. "max_subarray" \notin ToSet(ready)
  <2> HIDE DEF ready
  <2> QED BY <1>2, <1>4
<1>11. rq_current \in Nat
  BY DEF IInv, Current
<1>12. QED
  <2> HIDE DEF ready, waiting
  <2> QED BY <1>1, <1>2, <1>6, <1>7, <1>8, <1>9, <1>10, <1>11, DispatchKeepsInv


-----------------------------------------------------------------------------
(***************************************************************************)
(* The outside, and all steps.                                             *)
(***************************************************************************)

LEMMA SignalKeepsInv ==
  ASSUME IInv, Expire \/ Stop
  PROVE  IInv'
<1>1. /\ UNCHANGED <<ready_queue, rq_current, waiting_queue, tcb, at, mode, Input, RUNNING>>
      /\ pending' \subseteq base_mask /\ armed' \in BOOLEAN
  BY DEF IInv, Values, Expire, Stop, Queues, RUNNING
<1>2. Values'
  BY <1>1 DEF IInv, Values
<1>3. Arrays'
  BY <1>1 DEF IInv, Arrays, Distinct, Held
<1>4. Current' /\ Places'
  BY <1>1 DEF IInv, Current, Busy, Places
<1>5. Backlog'
  BY <1>1 DEF IInv, Backlog, Input
<1>6. QED
  BY <1>2, <1>3, <1>4, <1>5 DEF IInv

\* The FIFO after a write, which waits until it makes whole lines of five.
LEMMA WriteKeepsBacklog ==
  ASSUME IInv, NEW line \in Lines, Write(line)
  PROVE  Backlog'
<1>1. line.text \in Seq(STRING) /\ fifo \in Seq(STRING)
  BY SchedulerAssumption DEF IInv, Backlog
<1>2. Len(line.text) \in 1 .. 5 /\ line.num \in Int /\ MaxInput \in Nat
  <2>1. line.num = IntOf(line.text) /\ line.text \in Seq(STRING) /\ Len(line.text) \in 1 .. 5
    BY SchedulerAssumption
  <2>2. QED
    BY <2>1, IntOfType, IntsAreIntegers, SchedulerAssumption
<1>3. /\ Len(input) < MaxInput
      /\ Len(fifo) % 5 = 0 /\ (Len(line.text) = 5 \/ fifo = <<>>)
      /\ fifo' = fifo \o line.text /\ input' = Append(input, line.num)
      /\ UNCHANGED <<ready_queue, at, mode, buf, taken>>
  BY DEF Write, Queues
<1>4. Len(fifo) \in Nat /\ (fifo = <<>> => Len(fifo) = 0)
  BY <1>1, LenProperties
<1>5. input \in Seq(Int) /\ Len(input) \in Nat /\ taken \in 0 .. Len(input)
  BY DEF IInv, Backlog
<1>6. Len(fifo) = 5 * (Len(input) - taken)
  <2>1. \/ Len(fifo) = 5 * (Len(input) - taken)
        \/ Len(fifo) \in 1 .. 4
    BY DEF IInv, Backlog
  <2> DEFINE m == Len(fifo)
  <2>2. m \in Nat /\ m % 5 = 0
    BY <1>3, <1>4
  <2>3. m \notin 1 .. 4
    <3> HIDE DEF m
    <3> QED BY <2>2
  <2>4. QED
    BY <2>1, <2>3
<1>7. input' \in Seq(Int) /\ Len(input') = Len(input) + 1
  BY <1>2, <1>3, <1>5
<1>8. fifo' \in Seq(STRING) /\ Len(fifo') = Len(fifo) + Len(line.text)
  BY <1>1, <1>3, ConcatProperties
<1>9. Len(fifo') = Len(fifo) + Len(line.text)
  BY <1>8
<1>10. fifo' # <<>>
  <2> DEFINE m == Len(fifo)
             n == Len(line.text)
  <2>1. m \in Nat /\ n \in 1 .. 5
    BY <1>2, <1>4
  <2>2. m + n # 0
    <3> HIDE DEF m, n
    <3> QED BY <2>1
  <2>3. Len(fifo') = m + n
    BY <1>9
  <2>4. QED
    <3> HIDE DEF m, n
    <3> QED BY <2>2, <2>3
<1>11. \/ Len(fifo') = 5 * (Len(input') - taken')
       \/ Len(input') - taken' = 1 /\ Len(fifo') \in 1 .. 4
  <2> DEFINE m == Len(fifo)
             n == Len(line.text)
             u == Len(input) - taken
  <2>1. m \in Nat /\ n \in 1 .. 5 /\ u \in Int /\ m = 5 * u /\ (n = 5 \/ m = 0)
    BY <1>2, <1>3, <1>4, <1>5, <1>6
  <2>2. m + n = 5 * (u + 1) \/ (u + 1 = 1 /\ m + n \in 1 .. 4)
    <3> HIDE DEF m, n, u
    <3> QED BY <2>1
  <2>3. Len(fifo') = m + n /\ Len(input') - taken' = u + 1
    BY <1>3, <1>5, <1>7, <1>9
  <2>4. QED
    <3> HIDE DEF m, n, u
    <3> QED BY <2>2, <2>3
<1>12. Len(input') <= MaxInput /\ taken' \in 0 .. Len(input')
  BY <1>2, <1>3, <1>5, <1>7
<1>13. QED
  BY <1>3, <1>7, <1>8, <1>10, <1>11, <1>12 DEF IInv, Backlog

LEMMA WriteKeepsInv ==
  ASSUME IInv, NEW line \in Lines, Write(line)
  PROVE  IInv'
<1>1. UNCHANGED <<ready_queue, rq_current, waiting_queue, tcb, at, mode, pending, armed, RUNNING>>
  BY DEF Write, Queues, RUNNING
<1>2. Values'
  BY <1>1 DEF IInv, Values, base_mask
<1>3. Arrays'
  BY <1>1 DEF IInv, Arrays, Distinct, Held
<1>4. Current' /\ Places'
  BY <1>1 DEF IInv, Current, Busy, Places
<1>5. QED
  BY <1>2, <1>3, <1>4, WriteKeepsBacklog DEF IInv

LEMMA NextKeepsInv == IInv /\ [Next]_vars => IInv'
<1> SUFFICES ASSUME IInv, [Next]_vars PROVE IInv'
  OBVIOUS
<1>1. ASSUME NEW f \in Functions, Thread(f) PROVE IInv'
  BY <1>1, RoundKeepsInv, AsyncReadKeepsInv, ReadKeepsInv, ThreadYieldKeepsInv, ThreadExitKeepsInv
  DEF Thread
<1>2. CASE Scheduler
  BY <1>2, ScheduleYieldKeepsInv, ScheduleReadKeepsInv, ScheduleExitKeepsInv, PollAgainKeepsInv
  DEF Scheduler
<1>3. CASE Expire \/ Stop
  BY <1>3, SignalKeepsInv
<1>4. ASSUME NEW line \in Lines, Write(line) PROVE IInv'
  BY <1>4, WriteKeepsInv
<1>5. CASE UNCHANGED vars
  <2>1. UNCHANGED <<ready_queue, rq_current, waiting_queue, tcb, at, mode, pending, armed,
                    fifo, buf, input, taken, RUNNING>>
    BY <1>5 DEF vars, Queues, Input, RUNNING
  <2>2. Values' /\ Backlog'
    BY <2>1 DEF IInv, Values, Backlog, base_mask
  <2>3. Arrays'
    BY <2>1 DEF IInv, Arrays, Distinct, Held
  <2>4. Current' /\ Places'
    BY <2>1 DEF IInv, Current, Busy, Places
  <2>5. QED
    BY <2>2, <2>3, <2>4 DEF IInv
<1>6. QED
  BY <1>1, <1>2, <1>3, <1>4, <1>5 DEF Next, Process, Return

\* The inductive invariant holds: the arrays and rq_current, the places where the
\* threads resume, the FIFO and what has been written to it, and the tcbs fit
\* together after every step.
THEOREM Invariance == Spec => []IInv
<1>1. QED
  BY InitInv, NextKeepsInv, PTL DEF Spec

-----------------------------------------------------------------------------
(***************************************************************************)
(* The properties.                                                         *)
(***************************************************************************)

\* Three functions that are all different fit in three places.
LEMMA AtMostThree ==
  ASSUME NEW q \in Seq(Functions), Distinct(q)
  PROVE  Len(q) <= 3
<1>1. Len(q) \in Nat
  OBVIOUS
<1>2. SUFFICES ASSUME Len(q) > 3 PROVE FALSE
  BY <1>1
<1>3. 1 \in 1 .. Len(q) /\ 2 \in 1 .. Len(q) /\ 3 \in 1 .. Len(q) /\ 4 \in 1 .. Len(q)
  BY <1>1, <1>2
<1>4. q[1] \in Functions /\ q[2] \in Functions /\ q[3] \in Functions /\ q[4] \in Functions
  BY <1>3
<1>5. q[1] # q[2] /\ q[1] # q[3] /\ q[1] # q[4] /\ q[2] # q[3] /\ q[2] # q[4] /\ q[3] # q[4]
  BY <1>3 DEF Distinct
<1>6. QED
  BY <1>4, <1>5 DEF Functions

LEMMA QueueType ==
  ASSUME NEW q \in Seq(Functions), Distinct(q)
  PROVE  q \in BoundedSeq(Functions, 3)
<1>1. Len(q) \in 0 .. 3 /\ q \in [1 .. Len(q) -> Functions]
  <2>1. Len(q) \in Nat /\ q \in [1 .. Len(q) -> Functions]
    BY LenProperties
  <2>2. QED
    BY <2>1, AtMostThree
<1>2. QED
  BY <1>1 DEF BoundedSeq, SeqOf

LEMMA InvImpliesType == IInv => TypeOK
<1> SUFFICES ASSUME IInv PROVE TypeOK
  OBVIOUS
<1>1. ready_queue \in BoundedSeq(Functions, 3) /\ waiting_queue \in BoundedSeq(Functions, 3)
  BY QueueType DEF IInv, Arrays
<1>2. rq_current \in 0 .. Len(ready_queue)
  <2>1. Len(ready_queue) \in Nat /\ (ready_queue = <<>> => Len(ready_queue) = 0)
    BY DEF IInv, Arrays
  <2>2. QED
    BY <2>1 DEF IInv, Current
<1>3. Len(fifo) <= 5 * MaxInput
  <2>1. /\ Len(input) \in Nat /\ taken \in 0 .. Len(input) /\ Len(input) <= MaxInput
        /\ MaxInput \in Nat
    BY SchedulerAssumption DEF IInv, Backlog
  <2>2. \/ Len(fifo) = 5 * (Len(input) - taken)
        \/ Len(input) - taken = 1 /\ Len(fifo) \in 1 .. 4
    BY DEF IInv, Backlog
  <2> DEFINE m == Len(fifo)
             n == Len(input)
  <2>3. m = 5 * (n - taken) \/ (n - taken = 1 /\ m \in 1 .. 4)
    BY <2>2
  <2>4. n \in Nat /\ taken \in 0 .. n /\ n <= MaxInput /\ MaxInput \in Nat
    BY <2>1
  <2>5. QED
    <3> HIDE DEF m, n
    <3>1. m <= 5 * MaxInput
      BY <2>3, <2>4
    <3>2. QED
      BY <3>1 DEF m
<1>4. \A k \in DOMAIN input : input[k] \in Int
  BY DEF IInv, Backlog
<1>5. QED
  BY <1>1, <1>2, <1>3, <1>4 DEF IInv, Values, Backlog, TypeOK

\* No function is more than once in an array.
LEMMA OccurrencesIn ==
  ASSUME NEW q \in Seq(Functions), Distinct(q), NEW f \in Functions
  PROVE  Cardinality({k \in DOMAIN q : q[k] = f}) = IF f \in ToSet(q) THEN 1 ELSE 0
<1> DEFINE places == {k \in DOMAIN q : q[k] = f}
<1>1. CASE f \in ToSet(q)
  <2>1. PICK k \in DOMAIN q : q[k] = f
    BY <1>1 DEF ToSet
  <2>2. places = {k}
    BY <2>1 DEF Distinct
  <2>3. Cardinality({k}) = 1
    BY FS_Singleton
  <2>4. QED
    BY <1>1, <2>2, <2>3
<1>2. CASE f \notin ToSet(q)
  <2>1. places = {}
    BY <1>2 DEF ToSet
  <2>2. QED
    BY <1>2, <2>1, FS_EmptySet
<1>3. QED
  BY <1>1, <1>2

LEMMA InvImpliesInOnePlace == IInv => InOnePlace
<1> SUFFICES ASSUME IInv, NEW f \in Functions
             PROVE  Occurrences(f) = IF at[f] = "none" \/ (at[f] = "gone" /\ ~(mode = "EXIT" /\ RUNNING = f))
                                     THEN 0 ELSE 1
  BY DEF InOnePlace
<1>1. /\ ready_queue \in Seq(Functions) /\ waiting_queue \in Seq(Functions)
      /\ Distinct(ready_queue) /\ Distinct(waiting_queue)
      /\ ToSet(ready_queue) \intersect ToSet(waiting_queue) = {}
      /\ Held(f) <=> f \in ToSet(ready_queue) \union ToSet(waiting_queue)
  BY DEF IInv, Arrays
<1>2. Occurrences(f) = (IF f \in ToSet(ready_queue) THEN 1 ELSE 0)
                       + (IF f \in ToSet(waiting_queue) THEN 1 ELSE 0)
  BY <1>1, OccurrencesIn DEF Occurrences
<1>3. Occurrences(f) = IF Held(f) THEN 1 ELSE 0
  BY <1>1, <1>2
<1>4. mode = "EXIT" /\ RUNNING = f => at[f] = "gone"
  BY DEF IInv, Places
<1>5. QED
  BY <1>3, <1>4 DEF Held

\* Type correctness of the scheduler.
THEOREM TypeCorrect == Spec => []TypeOK
<1>1. QED
  BY Invariance, InvImpliesType, PTL

\* A thread that has not exited is in exactly one place of the arrays, however often
\* the scheduler has moved it, and one whose tcb has been freed in none.
THEOREM ThreadsInOnePlace == Spec => []InOnePlace
<1>1. QED
  BY Invariance, InvImpliesInOnePlace, PTL

\* The time slices never stop: the alarm runs, or its signal waits to be taken.
THEOREM AlarmNeverDies == Spec => []AlarmLives
<1>1. Init => AlarmLives
  BY DEF Init, AlarmLives
<1>2. AlarmLives /\ [Next]_vars => AlarmLives'
  <2> SUFFICES ASSUME AlarmLives, [Next]_vars PROVE AlarmLives'
    OBVIOUS
  <2>1. ASSUME NEW f \in Functions, ThreadYield(f) PROVE AlarmLives'
    BY <2>1 DEF ThreadYield, TakeSignal, AlarmLives
  <2>2. ASSUME NEW f \in Functions, Round(f) \/ AsyncRead(f) \/ Read(f) \/ ThreadExit(f)
        PROVE  AlarmLives'
    BY <2>2 DEF Round, AsyncRead, Read, ThreadExit, EndRound, AlarmLives
  <2>3. CASE Scheduler
    BY <2>3 DEF Scheduler, ScheduleYield, ScheduleRead, ScheduleExit, PollAgain, Dispatch, AlarmLives
  <2>4. CASE Expire
    BY <2>4 DEF Expire, AlarmLives, base_mask
  <2>5. CASE Stop
    BY <2>5 DEF Stop, AlarmLives
  <2>6. ASSUME NEW line \in Lines, Write(line) PROVE AlarmLives'
    BY <2>6 DEF Write, AlarmLives
  <2>7. CASE UNCHANGED vars
    BY <2>7 DEF vars, AlarmLives
  <2>8. QED
    BY <2>1, <2>2, <2>3, <2>4, <2>5, <2>6, <2>7 DEF Next, Process, Thread, Return
<1>3. QED
  BY <1>1, <1>2, PTL DEF Spec


-----------------------------------------------------------------------------
(***************************************************************************)
(* fibonacci                                                               *)
(***************************************************************************)

\* x and y are the last two numbers as far as ints hold them; between a switch and
\* the next round i is ahead.
FibonacciSoFar ==
  LET t == tcb["fibonacci"]
  IN  /\ at["fibonacci"] = "round" /\ t.i > 1
           => /\ t.y = Wrap(Fibonacci[t.i - 1])
              /\ t.x = IF t.i = 2 THEN 1 ELSE Wrap(Fibonacci[t.i - 2])
      /\ at["fibonacci"] \in {"yield", "exit", "gone"} /\ t.i >= 1
           => /\ t.y = Wrap(Fibonacci[t.i])
              /\ t.x = IF t.i = 1 THEN 1 ELSE Wrap(Fibonacci[t.i - 1])

LEMMA InitFibonacci == Init => FibonacciSoFar
<1> SUFFICES ASSUME Init PROVE FibonacciSoFar
  OBVIOUS
<1>1. PICK args \in Arguments :
        /\ tcb = [f \in Functions |-> NewTcb(IF args[f] >= 0 THEN args[f] ELSE 0)]
        /\ at = [f \in Functions |-> IF args[f] >= 0 THEN RoundStart(f) ELSE "none"]
  BY DEF Init
<1>2. tcb["fibonacci"].i = 1 /\ at["fibonacci"] \in {"none", "round"}
  BY <1>1 DEF NewTcb, Functions, RoundStart
<1>3. QED
  BY <1>2 DEF FibonacciSoFar

\* A round of fibonacci, after which y is the i-th number.
LEMMA RoundKeepsFibonacci ==
  ASSUME IInv, FibonacciSoFar, Round("fibonacci")
  PROVE  FibonacciSoFar'
<1> DEFINE t == tcb["fibonacci"]
           u == tcb'["fibonacci"]
<1>1. "fibonacci" \in Functions /\ tcb \in [Functions -> Tcb]
  BY DEF IInv, Values, Functions
<1>2. u = FibonacciRound(t) /\ at'["fibonacci"] \in {"exit", "yield"} /\ at["fibonacci"] = "round"
  BY <1>1 DEF Round, Running, EndRound, IInv, Values
<1>3. t \in Tcb /\ t.i \in Int
  BY <1>1, TcbFields, IntsAreIntegers
<1>4. t.i > 1 => /\ t.y = Wrap(Fibonacci[t.i - 1])
                 /\ t.x = IF t.i = 2 THEN 1 ELSE Wrap(Fibonacci[t.i - 2])
  BY <1>2 DEF FibonacciSoFar
<1>5. u.i = t.i
  BY <1>2, <1>3 DEF FibonacciRound, Tcb
<1>6. ASSUME t.i >= 1
      PROVE  u.y = Wrap(Fibonacci[t.i]) /\ u.x = IF t.i = 1 THEN 1 ELSE Wrap(Fibonacci[t.i - 1])
  <2>1. CASE t.i <= 2
    <3>1. u.x = 1 /\ u.y = 1
      BY <1>2, <1>3, <2>1 DEF FibonacciRound, Tcb
    <3>2. t.i = 1 \/ t.i = 2
      BY <1>3, <1>6, <2>1
    <3>3. Wrap(1) = 1
      BY IntsAreIntegers, WrapOfInt
    <3>4. QED
      <4> HIDE DEF t, u
      <4> QED BY <3>1, <3>2, <3>3, FibonacciIs
  <2>2. CASE t.i > 2
    <3>1. u.x = t.y /\ u.y = Wrap(t.x + t.y)
      BY <1>2, <1>3, <2>2 DEF FibonacciRound, Tcb
    <3> DEFINE a == Fibonacci[t.i - 2]
               b == Fibonacci[t.i - 1]
    <3>2. t.y = Wrap(b) /\ t.x = Wrap(a)
      BY <1>3, <1>4, <2>2
    <3>3. a \in Int /\ b \in Int /\ Fibonacci[t.i] = a + b
      <4>1. t.i \in Nat /\ t.i - 1 \in Nat \ {0} /\ t.i - 2 \in Nat \ {0}
        BY <1>3, <2>2
      <4>2. QED
        <5> HIDE DEF t
        <5> QED BY <2>2, <4>1, FibonacciIs, FibonacciIsNumber
    <3> HIDE DEF a, b
    <3>4. u.y = Wrap(a + b)
      <4>1. u.y = Wrap(Wrap(a) + Wrap(b))
        <5> HIDE DEF t, u
        <5> QED BY <3>1, <3>2
      <4>2. Wrap(Wrap(a) + Wrap(b)) = Wrap(a + b)
        BY <3>3, WrapOfSum
      <4>3. QED
        <5> HIDE DEF u
        <5> QED BY <4>1, <4>2
    <3>5. QED
      <4> HIDE DEF t, u
      <4> QED BY <1>3, <2>2, <3>1, <3>2, <3>3, <3>4 DEF b
  <2>3. QED
    BY <1>3, <2>1, <2>2
<1>7. QED
  <2> HIDE DEF t, u
  <2> QED BY <1>2, <1>5, <1>6 DEF FibonacciSoFar, t, u

LEMMA YieldKeepsFibonacci ==
  ASSUME IInv, FibonacciSoFar, ThreadYield("fibonacci")
  PROVE  FibonacciSoFar'
<1> DEFINE t == tcb["fibonacci"]
           u == tcb'["fibonacci"]
<1>1. "fibonacci" \in Functions /\ tcb \in [Functions -> Tcb]
  BY DEF IInv, Values, Functions
<1>2. u = [t EXCEPT !.i = Wrap(t.i + 1)] /\ at'["fibonacci"] = "round" /\ at["fibonacci"] = "yield"
  BY <1>1 DEF ThreadYield, Running, NextRound, RoundStart, IInv, Values
<1>3. t \in Tcb /\ t.i \in CInt /\ t.i \in Int
  BY <1>1, TcbFields, IntsAreIntegers
<1>4. t.i >= 1 => t.y = Wrap(Fibonacci[t.i]) /\ t.x = IF t.i = 1 THEN 1 ELSE Wrap(Fibonacci[t.i - 1])
  BY <1>2 DEF FibonacciSoFar
<1>5. u.i = Wrap(t.i + 1) /\ u.x = t.x /\ u.y = t.y
  BY <1>2, <1>3 DEF Tcb
\* The counter that goes round is below 1 again.
<1>6. u.i \in Int /\ (u.i = t.i + 1 \/ u.i < 1)
  <2> HIDE DEF t, u
  <2>1. Wrap(t.i + 1) = IF t.i = IntMax THEN IntMin ELSE t.i + 1
    BY <1>3, WrapOfNext
  <2>2. IntMin < 1 /\ IntMin \in Int
    BY SchedulerAssumption DEF IntMin
  <2>3. QED
    BY <1>3, <1>5, <2>1, <2>2
<1>7. ASSUME u.i > 1
      PROVE  u.y = Wrap(Fibonacci[u.i - 1]) /\ u.x = IF u.i = 2 THEN 1 ELSE Wrap(Fibonacci[u.i - 2])
  <2> HIDE DEF t, u
  <2>1. u.i = t.i + 1 /\ t.i >= 1 /\ u.i - 1 = t.i /\ u.i - 2 = t.i - 1
    BY <1>3, <1>6, <1>7
  <2>2. u.i = 2 <=> t.i = 1
    BY <1>3, <2>1
  <2>3. QED
    BY <1>4, <1>5, <2>1, <2>2
<1>8. QED
  <2> HIDE DEF t, u
  <2> QED BY <1>2, <1>7 DEF FibonacciSoFar, u

LEMMA NextKeepsFibonacci == IInv /\ FibonacciSoFar /\ [Next]_vars => FibonacciSoFar'
<1> SUFFICES ASSUME IInv, FibonacciSoFar, [Next]_vars PROVE FibonacciSoFar'
  OBVIOUS
<1>1. tcb \in [Functions -> Tcb] /\ "fibonacci" \in Functions
  BY DEF IInv, Values, Functions
<1>2. at \in [Functions -> {"none", "round", "async_read", "read", "yield", "exit", "gone"}]
  BY DEF IInv, Values
<1>3. CASE UNCHANGED <<tcb, at>>
  BY <1>3 DEF FibonacciSoFar
<1>4. ASSUME NEW f \in Functions, Thread(f) PROVE FibonacciSoFar'
  <2>1. CASE f # "fibonacci"
    <3>1. at'["fibonacci"] = at["fibonacci"] /\ tcb'["fibonacci"] = tcb["fibonacci"]
      BY <1>1, <1>2, <1>4, <2>1
      DEF Thread, Round, AsyncRead, Read, ThreadYield, ThreadExit, EndRound
    <3>2. QED
      BY <3>1 DEF FibonacciSoFar
  <2>2. CASE f = "fibonacci"
    <3>1. ~AsyncRead(f) /\ ~Read(f)
      BY <2>2 DEF AsyncRead, Read, Running, IInv, Places
    <3>2. CASE ThreadExit(f)
      <4>1. /\ tcb'["fibonacci"] = tcb["fibonacci"]
            /\ at["fibonacci"] = "exit" /\ at'["fibonacci"] = "gone"
        BY <1>1, <1>2, <2>2, <3>2 DEF ThreadExit, Running
      <4>2. QED
        BY <4>1 DEF FibonacciSoFar
    <3>3. QED
      BY <1>4, <2>2, <3>1, <3>2, RoundKeepsFibonacci, YieldKeepsFibonacci DEF Thread
  <2>3. QED
    BY <2>1, <2>2
<1>5. CASE Scheduler \/ Expire \/ Stop \/ (\E line \in Lines : Write(line)) \/ UNCHANGED vars
  <2>1. UNCHANGED <<tcb, at>>
    BY <1>5 DEF Scheduler, ScheduleYield, ScheduleRead, ScheduleExit, PollAgain, Dispatch,
                Expire, Stop, Write, vars
  <2>2. QED
    BY <1>3, <2>1
<1>6. QED
  BY <1>4, <1>5 DEF Next, Process, Return

\* Whenever fibonacci has finished a round, y is what an int holds of the Fibonacci
\* number of i, whatever ran in between: the number itself as long as it is not above
\* IntMax, and after any number of overflows the int that it is equal to modulo the
\* number of ints.
THEOREM FibonacciIsRight == Spec => []FibonacciRight
<1>1. FibonacciSoFar => FibonacciRight
  BY DEF FibonacciSoFar, FibonacciRight
<1>2. QED
  BY <1>1, InitFibonacci, NextKeepsFibonacci, Invariance, PTL DEF Spec

-----------------------------------------------------------------------------
(***************************************************************************)
(* What max_subarray has read.                                             *)
(***************************************************************************)

\* The FIFO holds the lines that have not been read, from every fifth character on.
LineAt(k, line) ==
  /\ line.num = input[taken + k]
  /\ \A j \in 1 .. Len(line.text) : /\ 5 * (k - 1) + j <= Len(fifo)
                                    /\ fifo[5 * (k - 1) + j] = line.text[j]

LinesUnread == \A k \in 1 .. Len(input) - taken : \E line \in Lines : LineAt(k, line)

\* As long as all the sums are ints, x and y are what they should be.
SubarraySoFar ==
  at["max_subarray"] # "none" /\ PartSums(SubSeq(input, 1, taken)) \subseteq CInt
    => SoFar(SubSeq(input, 1, taken), tcb["max_subarray"].x, tcb["max_subarray"].y)

LEMMA LineIs ==
  ASSUME NEW line \in Lines
  PROVE  /\ line.text \in Seq(STRING) /\ Len(line.text) \in 1 .. 5
         /\ line.text[Len(line.text)] = "\n"
         /\ \E k \in 1 .. Len(line.text) - 1 : line.text[k] \notin Spaces
         /\ line.num = IntOf(line.text)
<1>1. /\ line.text \in Seq(STRING) /\ Len(line.text) \in 1 .. 5
      /\ Last(line.text) = "\n"
      /\ \E k \in DOMAIN line.text : line.text[k] \notin Spaces
      /\ line.num = IntOf(line.text)
  BY SchedulerAssumption
<1>2. line.text[Len(line.text)] = "\n"
  BY <1>1 DEF Last
<1>3. PICK k \in 1 .. Len(line.text) : line.text[k] \notin Spaces
  BY <1>1
<1>4. "\n" \in Spaces
  BY DEF Spaces
<1>5. k # Len(line.text)
  BY <1>2, <1>3, <1>4
<1>6. k \in 1 .. Len(line.text) - 1
  BY <1>1, <1>3, <1>5
<1>7. QED
  BY <1>1, <1>2, <1>3, <1>6

\* Whatever an earlier line has left in the buffer, the number read is that of the line.
LEMMA ReadFindsNumber ==
  ASSUME IInv, LinesUnread, NEW f \in Functions, Read(f)
  PROVE  IntOf(ReadInto) = input[taken + 1]
<1>1. taken + 1 <= Len(input) /\ taken \in Nat /\ Len(input) \in Nat
  BY ReadTakesALine DEF IInv, Backlog
<1>2. 1 \in 1 .. Len(input) - taken
  BY <1>1
<1>3. PICK line \in Lines : LineAt(1, line)
  BY <1>2 DEF LinesUnread
<1> DEFINE text == line.text
           l == Len(text)
<1>4. /\ text \in Seq(STRING) /\ l \in 1 .. 5 /\ text[l] = "\n"
      /\ \E k \in 1 .. l - 1 : text[k] \notin Spaces
      /\ line.num = IntOf(text)
  BY LineIs
<1>5. line.num = input[taken + 1] /\ \A j \in 1 .. l : j <= Len(fifo) /\ fifo[j] = text[j]
  <2>1. \A j \in 1 .. l : 5 * (1 - 1) + j <= Len(fifo) /\ fifo[5 * (1 - 1) + j] = text[j]
    BY <1>3 DEF LineAt
  <2>2. \A j \in 1 .. l : 5 * (1 - 1) + j = j
    <3> HIDE DEF l
    <3> QED BY <1>4
  <2>3. QED
    <3> HIDE DEF l, text
    <3> QED BY <1>3, <2>1, <2>2 DEF LineAt
<1>6. ReadInto \in Seq(STRING) /\ Len(ReadInto) = 4
  BY ReadIntoType DEF IInv
<1> HIDE DEF l, text
<1>7. \A j \in 1 .. 4 : j <= l => ReadInto[j] = text[j]
  BY <1>4, <1>5 DEF ReadInto
<1>8. "\n" \notin ToSet(Digits)
  BY DEF ToSet, Digits
<1>9. EndsAt(text, l - 1)
  <2>1. l - 1 \in 0 .. l /\ (l - 1) + 1 = l
    BY <1>4
  <2>2. QED
    BY <1>4, <1>8, <2>1 DEF EndsAt, l
<1>10. EndsAt(ReadInto, l - 1)
  <2>1. l - 1 \in 0 .. 4 /\ (l - 1) + 1 = l /\ (l - 1 < 4 => l \in 1 .. 4)
    BY <1>4
  <2>2. l - 1 < 4 => ReadInto[l] = text[l]
    BY <1>7, <2>1
  <2>3. QED
    BY <1>4, <1>6, <1>8, <2>1, <2>2 DEF EndsAt
<1>11. \A k \in 1 .. l - 1 : text[k] = ReadInto[k]
  <2> TAKE k \in 1 .. l - 1
  <2>1. k \in 1 .. 4 /\ k <= l
    BY <1>4
  <2>2. QED
    BY <1>7, <2>1
<1>12. atoi(text) = atoi(ReadInto)
  <2>1. \E k \in 1 .. l - 1 : text[k] \notin Spaces
    BY <1>4
  <2>2. text \in Seq(STRING) /\ ReadInto \in Seq(STRING)
    BY <1>4, <1>6
  <2> DEFINE n == l - 1
  <2>3. EndsAt(text, n) /\ EndsAt(ReadInto, n) /\ (\A k \in 1 .. n : text[k] = ReadInto[k])
        /\ (\E k \in 1 .. n : text[k] \notin Spaces)
    BY <1>9, <1>10, <1>11, <2>1
  <2>4. QED
    <3> HIDE DEF n
    <3> QED BY <2>2, <2>3, AtoiAgrees
<1>13. QED
  BY <1>4, <1>5, <1>12 DEF IntOf

\* The beginning of what has been written.
LEMMA Beginning ==
  ASSUME NEW s \in Seq(Int), NEW n \in 0 .. Len(s)
  PROVE  /\ SubSeq(s, 1, n) \in Seq(Int) /\ Len(SubSeq(s, 1, n)) = n
         /\ \A k \in 1 .. n : SubSeq(s, 1, n)[k] = s[k]
<1>1. Len(s) \in Nat /\ n \in Nat
  OBVIOUS
<1>2. \A k \in 1 .. n : s[k] \in Int
  BY <1>1
<1>3. /\ SubSeq(s, 1, n) \in Seq(Int)
      /\ Len(SubSeq(s, 1, n)) = IF 1 <= n THEN n - 1 + 1 ELSE 0
      /\ \A k \in 1 .. n - 1 + 1 : SubSeq(s, 1, n)[k] = s[1 + k - 1]
  BY <1>1, <1>2, SubSeqProperties
<1>4. QED
  BY <1>1, <1>3

LEMMA BeginningStays ==
  ASSUME NEW s \in Seq(Int), NEW n \in 0 .. Len(s), NEW v \in Int
  PROVE  SubSeq(Append(s, v), 1, n) = SubSeq(s, 1, n)
<1> DEFINE t == Append(s, v)
<1>1. /\ t \in Seq(Int) /\ Len(t) = Len(s) + 1 /\ Len(s) \in Nat
      /\ \A k \in 1 .. Len(s) : t[k] = s[k]
  BY AppendProperties
<1> HIDE DEF t
<1>2. n \in 0 .. Len(t)
  BY <1>1
<1> DEFINE a == SubSeq(t, 1, n)
           b == SubSeq(s, 1, n)
<1>3. a \in Seq(Int) /\ Len(a) = n /\ \A k \in 1 .. n : a[k] = t[k]
  BY <1>1, <1>2, Beginning
<1>4. b \in Seq(Int) /\ Len(b) = n /\ \A k \in 1 .. n : b[k] = s[k]
  BY Beginning
<1> HIDE DEF a, b
<1>5. \A k \in 1 .. n : a[k] = b[k]
  <2> TAKE k \in 1 .. n
  <2>1. k \in 1 .. Len(s)
    BY <1>1
  <2>2. QED
    BY <1>1, <1>3, <1>4, <2>1
<1>6. a = b
  BY <1>3, <1>4, <1>5, SeqEqual
<1>7. QED
  BY <1>6 DEF a, b, t

LEMMA BeginningGrows ==
  ASSUME NEW s \in Seq(Int), NEW n \in Nat, n + 1 <= Len(s)
  PROVE  SubSeq(s, 1, n + 1) = Append(SubSeq(s, 1, n), s[n + 1])
<1>1. Len(s) \in Nat /\ n \in 0 .. Len(s) /\ n + 1 \in 0 .. Len(s) /\ s[n + 1] \in Int
  OBVIOUS
<1> DEFINE a == SubSeq(s, 1, n + 1)
           b == SubSeq(s, 1, n)
           c == Append(b, s[n + 1])
<1>2. a \in Seq(Int) /\ Len(a) = n + 1 /\ \A k \in 1 .. n + 1 : a[k] = s[k]
  BY <1>1, Beginning
<1>3. b \in Seq(Int) /\ Len(b) = n /\ \A k \in 1 .. n : b[k] = s[k]
  BY <1>1, Beginning
<1> HIDE DEF a, b
<1>4. /\ c \in Seq(Int) /\ Len(c) = n + 1
      /\ c[n + 1] = s[n + 1] /\ \A k \in 1 .. n : c[k] = b[k]
  BY <1>1, <1>3, AppendProperties
<1> HIDE DEF c
<1>5. ASSUME NEW k \in 1 .. n + 1 PROVE a[k] = c[k]
  <2>1. a[k] = s[k] /\ (k \in 1 .. n \/ k = n + 1)
    BY <1>2
  <2>2. CASE k \in 1 .. n
    BY <1>3, <1>4, <2>1, <2>2
  <2>3. CASE k = n + 1
    BY <1>4, <2>1, <2>3
  <2>4. QED
    BY <2>1, <2>2, <2>3
<1>6. a = c
  BY <1>2, <1>4, <1>5, SeqEqual
<1>7. QED
  BY <1>6 DEF a, b, c

\* The variables these are about.
LEMMA InputRests ==
  ASSUME LinesUnread, UNCHANGED <<fifo, input, taken>>
  PROVE  LinesUnread'
BY DEF LinesUnread, LineAt

LEMMA InitSubarray == Init => LinesUnread /\ SubarraySoFar
<1> SUFFICES ASSUME Init PROVE LinesUnread /\ SubarraySoFar
  OBVIOUS
<1>1. input = <<>> /\ taken = 0 /\ tcb["max_subarray"].x = 0 /\ tcb["max_subarray"].y = 0
  BY DEF Init, NewTcb, Functions
<1>2. Len(input) - taken = 0
  BY <1>1
<1>3. LinesUnread
  BY <1>2 DEF LinesUnread
<1>4. SubSeq(input, 1, taken) = <<>>
  BY <1>1
<1>5. QED
  BY <1>1, <1>3, <1>4, NothingSoFar DEF SubarraySoFar

\* A line that is written comes behind those in the FIFO.
LEMMA WriteKeepsLines ==
  ASSUME IInv, LinesUnread, NEW line \in Lines, Write(line)
  PROVE  LinesUnread'
<1>1. line.text \in Seq(STRING) /\ Len(line.text) \in 1 .. 5 /\ line.num \in Int
  BY LineIs, IntOfType, IntsAreIntegers
<1>2. /\ fifo \in Seq(STRING) /\ input \in Seq(Int) /\ Len(input) \in Nat /\ taken \in 0 .. Len(input)
      /\ Len(fifo) \in Nat
  BY DEF IInv, Backlog
<1>3. /\ Len(fifo) % 5 = 0
      /\ fifo' = fifo \o line.text /\ input' = Append(input, line.num) /\ taken' = taken
  BY DEF Write
<1>0. PICK u : u = Len(input) - taken
  OBVIOUS
<1> DEFINE m == Len(fifo)
<1>4. u \in Nat /\ m = 5 * u
  <2>1. m = 5 * u \/ m \in 1 .. 4
    BY <1>0 DEF IInv, Backlog
  <2>2. m \in Nat /\ m % 5 = 0
    BY <1>2, <1>3
  <2>3. m \notin 1 .. 4
    <3> HIDE DEF m
    <3> QED BY <2>2
  <2>4. QED
    BY <1>0, <1>2, <2>1, <2>3
<1>5. /\ Len(input') = Len(input) + 1 /\ input'[Len(input) + 1] = line.num
      /\ \A k \in 1 .. Len(input) : input'[k] = input[k]
  BY <1>1, <1>2, <1>3, AppendProperties
<1>6. /\ Len(fifo') = m + Len(line.text)
      /\ \A j \in 1 .. m + Len(line.text) :
           fifo'[j] = IF j <= m THEN fifo[j] ELSE line.text[j - m]
  BY <1>1, <1>2, <1>3, ConcatProperties
<1>7. ASSUME NEW k \in 1 .. u PROVE \E other \in Lines : LineAt(k, other)'
  <2>1. PICK other \in Lines : LineAt(k, other)
    BY <1>0 DEF LinesUnread
  <2>2. taken + k \in 1 .. Len(input)
    BY <1>0, <1>2
  <2>3. other.num = input'[taken' + k]
    BY <1>3, <1>5, <2>1, <2>2 DEF LineAt
  <2>4. ASSUME NEW j \in 1 .. Len(other.text)
        PROVE  5 * (k - 1) + j <= Len(fifo') /\ fifo'[5 * (k - 1) + j] = other.text[j]
    <3> DEFINE i == 5 * (k - 1) + j
    <3>1. Len(other.text) \in Nat
      BY LineIs
    <3>2. i \in Nat /\ i >= 1
      BY <1>4, <3>1
    <3>3. i <= m /\ fifo[i] = other.text[j]
      BY <2>1 DEF LineAt
    <3>4. i \in 1 .. m + Len(line.text) /\ i <= Len(fifo')
      <4> HIDE DEF i
      <4> QED BY <1>1, <1>2, <1>6, <3>2, <3>3
    <3>5. QED
      <4> HIDE DEF i
      <4>1. fifo'[i] = other.text[j]
        BY <1>6, <3>3, <3>4
      <4>2. QED
        BY <3>4, <4>1 DEF i
  <2>5. QED
    BY <2>3, <2>4 DEF LineAt
<1>8. LineAt(u + 1, line)'
  <2>1. line.num = input'[taken' + (u + 1)]
    <3>1. taken + (u + 1) = Len(input) + 1
      BY <1>0, <1>2
    <3>2. QED
      BY <1>3, <1>5, <3>1
  <2>2. ASSUME NEW j \in 1 .. Len(line.text)
        PROVE  5 * ((u + 1) - 1) + j <= Len(fifo') /\ fifo'[5 * ((u + 1) - 1) + j] = line.text[j]
    <3>1. 5 * ((u + 1) - 1) + j = m + j
      <4> HIDE DEF m
      <4> QED BY <1>4
    <3>2. m + j \in 1 .. m + Len(line.text) /\ ~(m + j <= m) /\ (m + j) - m = j
      <4> HIDE DEF m
      <4>1. m \in Nat /\ j \in Nat /\ j >= 1 /\ Len(line.text) \in Nat /\ j <= Len(line.text)
        BY <1>1, <1>2 DEF m
      <4>2. QED
        BY <4>1
    <3>3. fifo'[m + j] = line.text[j]
      <4> HIDE DEF m
      <4> QED BY <1>6, <3>2
    <3>4. m + j <= Len(fifo')
      <4> HIDE DEF m
      <4> QED BY <1>6, <3>2
    <3>5. QED
      <4> HIDE DEF m
      <4> QED BY <3>1, <3>3, <3>4
  <2>3. QED
    BY <2>1, <2>2 DEF LineAt
<1>9. Len(input') - taken' = u + 1
  BY <1>0, <1>2, <1>3, <1>5
<1>10. \A k \in 1 .. u + 1 : \E other \in Lines : LineAt(k, other)'
  <2> TAKE k \in 1 .. u + 1
  <2>1. k \in 1 .. u \/ k = u + 1
    BY <1>4
  <2>2. CASE k \in 1 .. u
    BY <1>7, <2>2
  <2>3. CASE k = u + 1
    BY <1>8, <2>3 DEF LineAt
  <2>4. QED
    BY <2>1, <2>2, <2>3
<1>11. QED
  BY <1>9, <1>10 DEF LinesUnread

\* A read takes the first line away.
LEMMA ReadKeepsLines ==
  ASSUME IInv, LinesUnread, NEW f \in Functions, Read(f)
  PROVE  LinesUnread'
<1>1. /\ fifo \in Seq(STRING) /\ Len(fifo) \in Nat /\ input \in Seq(Int) /\ Len(input) \in Nat
      /\ taken \in Nat
  BY DEF IInv, Backlog
<1>2. fifo' = SubSeq(fifo, 6, Len(fifo)) /\ taken' = taken + 1 /\ input' = input
  BY DEF Read
<1> DEFINE l == IF 6 <= Len(fifo) THEN Len(fifo) - 5 ELSE 0
<1>3. Len(fifo') = l /\ \A j \in 1 .. l : fifo'[j] = fifo[j + 5]
  <2>1. \A j \in 6 .. Len(fifo) : fifo[j] \in STRING
    BY <1>1
  <2>2. /\ Len(fifo') = IF 6 <= Len(fifo) THEN Len(fifo) - 6 + 1 ELSE 0
        /\ \A j \in 1 .. Len(fifo) - 6 + 1 : fifo'[j] = fifo[6 + j - 1]
    BY <1>1, <1>2, <2>1, SubSeqProperties
  <2>3. \A j \in 1 .. l : j \in 1 .. Len(fifo) - 6 + 1 /\ 6 + j - 1 = j + 5
    BY <1>1
  <2>4. Len(fifo') = l
    BY <1>1, <2>2
  <2>5. \A j \in 1 .. l : fifo'[j] = fifo[j + 5]
    <3> HIDE DEF l
    <3> TAKE j \in 1 .. l
    <3>1. fifo'[j] = fifo[6 + j - 1] /\ 6 + j - 1 = j + 5
      BY <2>2, <2>3
    <3>2. QED
      BY <3>1
  <2>6. QED
    BY <2>4, <2>5
<1>4. ASSUME NEW k \in 1 .. Len(input') - taken'
      PROVE  \E line \in Lines : LineAt(k, line)'
  <2>1. k + 1 \in 1 .. Len(input) - taken /\ taken + (k + 1) = taken' + k /\ k \in Nat \ {0}
    BY <1>1, <1>2
  <2>2. PICK line \in Lines : LineAt(k + 1, line)
    BY <2>1 DEF LinesUnread
  <2>3. line.num = input'[taken' + k]
    BY <1>2, <2>1, <2>2 DEF LineAt
  <2>4. ASSUME NEW j \in 1 .. Len(line.text)
        PROVE  5 * (k - 1) + j <= Len(fifo') /\ fifo'[5 * (k - 1) + j] = line.text[j]
    <3> DEFINE i == 5 * (k - 1) + j
    <3>1. Len(line.text) \in Nat
      BY LineIs
    <3>2. i \in Nat /\ i >= 1 /\ 5 * ((k + 1) - 1) + j = i + 5
      BY <2>1, <3>1
    <3>3. 5 * ((k + 1) - 1) + j <= Len(fifo) /\ fifo[5 * ((k + 1) - 1) + j] = line.text[j]
      BY <2>2 DEF LineAt
    <3>4. i + 5 <= Len(fifo) /\ fifo[i + 5] = line.text[j]
      <4> HIDE DEF i
      <4> QED BY <3>2, <3>3
    <3>5. i \in 1 .. l
      <4> HIDE DEF i
      <4> QED BY <1>1, <3>2, <3>4
    <3>6. i <= Len(fifo') /\ fifo'[i] = line.text[j]
      <4> HIDE DEF i, l
      <4>1. fifo'[i] = fifo[i + 5]
        BY <1>3, <3>5
      <4>2. QED
        BY <1>3, <3>2, <3>4, <3>5, <4>1
    <3>7. QED
      BY <3>6
  <2>5. QED
    BY <2>2, <2>3, <2>4 DEF LineAt
<1>5. QED
  BY <1>4 DEF LinesUnread

\* A round of max_subarray takes the next number into account.
LEMMA ReadKeepsSubarray ==
  ASSUME IInv, LinesUnread, SubarraySoFar, NEW f \in Functions, Read(f)
  PROVE  SubarraySoFar'
<1> DEFINE t == tcb["max_subarray"]
           val == input[taken + 1]
           s == SubSeq(input, 1, taken)
<1>1. f = "max_subarray" /\ at["max_subarray"] = "read"
  BY DEF Read, Running, IInv, Places
<1>2. taken \in Nat /\ taken + 1 <= Len(input) /\ input \in Seq(Int)
  BY ReadTakesALine DEF IInv, Backlog
<1>3. t \in Tcb /\ tcb \in [Functions -> Tcb]
  BY <1>1 DEF IInv, Values
<1>4. PartSums(s) \subseteq CInt => SoFar(s, t.x, t.y)
  BY <1>1 DEF SubarraySoFar
<1>5. tcb' = [tcb EXCEPT ![f] = SubarrayRound(t, val)]
  <2>1. IntOf(ReadInto) = val
    BY ReadFindsNumber
  <2>2. EndRound(f, SubarrayRound(tcb[f], val))
    BY <2>1 DEF Read
  <2>3. QED
    BY <1>1, <2>2 DEF EndRound
<1>6. tcb'["max_subarray"] = SubarrayRound(t, val)
  <2> HIDE DEF t, val
  <2> QED BY <1>1, <1>3, <1>5
<1>7. /\ tcb'["max_subarray"].x = Larger(val, Wrap(t.x + val))
      /\ tcb'["max_subarray"].y = Larger(t.y, Larger(val, Wrap(t.x + val)))
  <2> HIDE DEF t, val
  <2> DEFINE x == Larger(val, Wrap(t.x + val))
             y == Larger(t.y, x)
  <2>1. tcb'["max_subarray"] = [t EXCEPT !.x = x, !.y = y]
    BY <1>6 DEF SubarrayRound
  <2>2. QED
    <3> HIDE DEF x, y
    <3>1. tcb'["max_subarray"].x = x /\ tcb'["max_subarray"].y = y
      BY <1>3, <2>1 DEF Tcb
    <3>2. QED
      BY <3>1 DEF x, y
<1>8. SubSeq(input', 1, taken') = Append(s, val)
  <2>1. input' = input /\ taken' = taken + 1
    BY DEF Read
  <2>2. SubSeq(input, 1, taken + 1) = Append(s, val)
    BY <1>2, BeginningGrows
  <2>3. QED
    BY <2>1, <2>2
<1>9. s \in Seq(Int) /\ val \in Int
  <2>1. taken \in 0 .. Len(input) /\ taken + 1 \in 1 .. Len(input)
    BY <1>2
  <2>2. QED
    BY <1>2, <2>1, Beginning
\* The sum that the round computes is one of the sums, and so does not overflow.
<1>10. ASSUME PartSums(Append(s, val)) \subseteq CInt
       PROVE  SoFar(Append(s, val), Larger(val, Wrap(t.x + val)), Larger(t.y, Larger(val, Wrap(t.x + val))))
  <2> HIDE DEF s, val, t
  <2>1. SoFar(s, t.x, t.y)
    BY <1>4, <1>9, <1>10, SumsStay
  <2>2. t.x + val \in CInt
    <3>1. CASE s = <<>>
      <4>1. t.x + val = val
        BY <1>9, <2>1, <3>1 DEF SoFar
      <4>2. QED
        BY <1>9, <1>10, <4>1, SumsStay
    <3>2. CASE s # <<>>
      <4>1. t.x \in EndSums(s)
        BY <2>1, <3>2 DEF SoFar, Largest
      <4>2. QED
        BY <1>9, <1>10, <4>1, SumsStay
    <3>3. QED
      BY <3>1, <3>2
  <2>3. Wrap(t.x + val) = t.x + val
    BY <2>2, WrapOfInt
  <2>4. SoFar(Append(s, val), Larger(val, t.x + val), Larger(t.y, Larger(val, t.x + val)))
    BY <1>9, <2>1, OneMore
  <2>5. QED
    BY <2>3, <2>4
<1>11. QED
  <2> HIDE DEF s, val, t
  <2> QED BY <1>7, <1>8, <1>10 DEF SubarraySoFar

LEMMA NextKeepsSubarray ==
  IInv /\ LinesUnread /\ SubarraySoFar /\ [Next]_vars => LinesUnread' /\ SubarraySoFar'
<1> SUFFICES ASSUME IInv, LinesUnread, SubarraySoFar, [Next]_vars
             PROVE  LinesUnread' /\ SubarraySoFar'
  OBVIOUS
<1>1. tcb \in [Functions -> Tcb] /\ "max_subarray" \in Functions
  BY DEF IInv, Values, Functions
<1>2. at \in [Functions -> {"none", "round", "async_read", "read", "yield", "exit", "gone"}]
  BY DEF IInv, Values
<1>3. ASSUME UNCHANGED Input, at["max_subarray"] = "none" => at'["max_subarray"] = "none",
             tcb'["max_subarray"].x = tcb["max_subarray"].x, tcb'["max_subarray"].y = tcb["max_subarray"].y
      PROVE  LinesUnread' /\ SubarraySoFar'
  <2>1. UNCHANGED <<fifo, input, taken>>
    BY <1>3 DEF Input
  <2>2. QED
    BY <1>3, <2>1, InputRests DEF SubarraySoFar
<1>4. ASSUME NEW f \in Functions, Thread(f), ~Read(f) PROVE LinesUnread' /\ SubarraySoFar'
  <2>1. UNCHANGED Input
    BY <1>4 DEF Thread, Round, AsyncRead, ThreadYield, ThreadExit
  <2>2. CASE f # "max_subarray"
    <3>1. at'["max_subarray"] = at["max_subarray"] /\ tcb'["max_subarray"] = tcb["max_subarray"]
      BY <1>1, <1>2, <1>4, <2>2 DEF Thread, Round, AsyncRead, ThreadYield, ThreadExit, EndRound
    <3>2. QED
      BY <1>3, <2>1, <3>1
  <2>3. CASE f = "max_subarray"
    <3>1. ~Round(f)
      BY <2>3 DEF Round, Running, IInv, Places
    <3>2. at["max_subarray"] # "none"
      BY <1>4, <2>3, <3>1 DEF Thread, AsyncRead, ThreadYield, ThreadExit, Running
    <3>3. CASE ThreadYield(f)
      <4>1. tcb'["max_subarray"] = NextRound("max_subarray", tcb["max_subarray"])
        BY <1>1, <2>3, <3>3 DEF ThreadYield
      <4>2. NextRound("max_subarray", tcb["max_subarray"])
              = [tcb["max_subarray"] EXCEPT !.i = Wrap(tcb["max_subarray"].i + 1)]
        BY DEF NextRound
      <4>3. tcb["max_subarray"] \in Tcb
        BY <1>1
      <4>4. /\ tcb'["max_subarray"].x = tcb["max_subarray"].x
            /\ tcb'["max_subarray"].y = tcb["max_subarray"].y
        BY <4>1, <4>2, <4>3 DEF Tcb
      <4>5. QED
        BY <1>3, <2>1, <3>2, <4>4
    <3>4. CASE AsyncRead(f) \/ ThreadExit(f)
      <4>1. UNCHANGED tcb
        BY <3>4 DEF AsyncRead, ThreadExit
      <4>2. QED
        BY <1>3, <2>1, <3>2, <4>1
    <3>5. QED
      BY <1>4, <3>1, <3>3, <3>4 DEF Thread
  <2>4. QED
    BY <2>2, <2>3
<1>5. ASSUME NEW f \in Functions, Read(f) PROVE LinesUnread' /\ SubarraySoFar'
  BY <1>5, ReadKeepsLines, ReadKeepsSubarray
<1>6. ASSUME NEW line \in Lines, Write(line) PROVE LinesUnread' /\ SubarraySoFar'
  <2>1. LinesUnread'
    BY <1>6, WriteKeepsLines
  <2>2. /\ UNCHANGED <<tcb, at, taken>> /\ input' = Append(input, line.num)
        /\ input \in Seq(Int) /\ taken \in 0 .. Len(input) /\ line.num \in Int
    BY <1>6, LineIs, IntOfType, IntsAreIntegers DEF Write, IInv, Backlog
  <2>3. SubSeq(input', 1, taken') = SubSeq(input, 1, taken)
    BY <2>2, BeginningStays
  <2>4. QED
    BY <2>1, <2>2, <2>3 DEF SubarraySoFar
<1>7. CASE Scheduler \/ Expire \/ Stop \/ UNCHANGED vars
  <2>1. UNCHANGED <<tcb, at>> /\ UNCHANGED Input
    BY <1>7 DEF Scheduler, ScheduleYield, ScheduleRead, ScheduleExit, PollAgain, Dispatch,
                Expire, Stop, vars
  <2>2. QED
    BY <1>3, <2>1
<1>8. QED
  BY <1>4, <1>5, <1>6, <1>7 DEF Next, Process, Return

\* After every round y is the largest sum of a contiguous part of the numbers that
\* have been read, as long as all these sums are ints, however they came, whatever an earlier line has left in the
\* buffer, and whatever ran in between.
THEOREM SubarrayIsRight == Spec => []SubarrayRight
<1>1. IInv /\ SubarraySoFar => SubarrayRight
  <2> SUFFICES ASSUME IInv, SubarraySoFar, at["max_subarray"] # "none",
                      PartSums(SubSeq(input, 1, taken)) \subseteq CInt
               PROVE  tcb["max_subarray"].y = MaxSubarray(SubSeq(input, 1, taken))
    BY DEF SubarrayRight
  <2> DEFINE s == SubSeq(input, 1, taken)
  <2>1. SoFar(s, tcb["max_subarray"].x, tcb["max_subarray"].y)
    BY DEF SubarraySoFar
  <2>2. s \in Seq(Int)
    BY Beginning DEF IInv, Backlog
  <2> HIDE DEF s
  <2>3. PartSums(s) \subseteq Int
    BY <2>2, PartSumsAreNumbers
  <2>4. QED
    BY <2>1, <2>3, SoFarIsRight DEF s
<1>2. QED
  BY <1>1, InitSubarray, NextKeepsSubarray, Invariance, PTL DEF Spec

-----------------------------------------------------------------------------
(***************************************************************************)
(* The scheduler implements Threads.                                       *)
(***************************************************************************)
Lives == [f \in Functions |-> Life(f)]
Unread == Len(input) - taken

\* RUNNING, if there is a running thread.
RunningSet == IF Busy THEN {RUNNING} ELSE {}

\* What the arrays say of a thread's life.
LivesAreInArrays ==
  /\ RunningSet \subseteq ToSet(ready_queue)
  /\ ToSet(ready_queue) \subseteq Functions /\ ToSet(waiting_queue) \subseteq Functions
  /\ ToSet(ready_queue) \intersect ToSet(waiting_queue) = {}
  /\ \A f \in Functions :
       /\ f \in ToSet(ready_queue) \union ToSet(waiting_queue) => at[f] # "none"
       /\ Life(f) = "absent" <=> at[f] = "none"
       /\ Life(f) = "running" <=> f \in RunningSet
       /\ Life(f) = "ready" <=> f \in ToSet(ready_queue) \ RunningSet
       /\ Life(f) = "waiting" <=> f \in ToSet(waiting_queue)
       /\ Life(f) \in {"absent", "ready", "running", "waiting", "finished"}

LEMMA LifeIs == IInv => LivesAreInArrays
<1> SUFFICES ASSUME IInv PROVE LivesAreInArrays
  OBVIOUS
<1>1. RunningSet \subseteq ToSet(ready_queue)
  BY RunningIs DEF RunningSet
<1>2. ToSet(ready_queue) \subseteq Functions /\ ToSet(waiting_queue) \subseteq Functions
  <2>1. ready_queue \in Seq(Functions) /\ waiting_queue \in Seq(Functions)
    BY DEF IInv, Arrays
  <2>2. QED
    BY <2>1, ToSetIs
<1>3. ToSet(ready_queue) \intersect ToSet(waiting_queue) = {}
  BY DEF IInv, Arrays
<1>4. ASSUME NEW f \in Functions
      PROVE  /\ f \in ToSet(ready_queue) \union ToSet(waiting_queue) => at[f] # "none"
             /\ Life(f) = "absent" <=> at[f] = "none"
             /\ Life(f) = "running" <=> f \in RunningSet
             /\ Life(f) = "ready" <=> f \in ToSet(ready_queue) \ RunningSet
             /\ Life(f) = "waiting" <=> f \in ToSet(waiting_queue)
             /\ Life(f) \in {"absent", "ready", "running", "waiting", "finished"}
  <2>1. Held(f) <=> f \in ToSet(ready_queue) \union ToSet(waiting_queue)
    BY DEF IInv, Arrays
  <2>2. Held(f) => at[f] # "none"
    BY DEF Held, IInv, Places
  <2>3. f \in RunningSet <=> mode \in {"thread", "YIELD", "READ", "EXIT"} /\ RUNNING = f
    BY DEF RunningSet, Busy
  <2>4. QED
    BY <1>1, <1>3, <2>1, <2>2, <2>3 DEF Life
<1>5. QED
  BY <1>1, <1>2, <1>3, <1>4 DEF LivesAreInArrays

LEMMA LifeIsAfter == IInv' => LivesAreInArrays'
BY LifeIs, PTL

\* The waiting thread, which is max_subarray, has input exactly while a line is unread.
LEMMA InputIsUnread ==
  ASSUME IInv
  PROVE  /\ \A f \in ToSet(waiting_queue) : HasInput(f) <=> Unread > 0
         /\ fifo # <<>> <=> Unread > 0
<1>1. fifo \in Seq(STRING) /\ Len(input) \in Nat /\ taken \in 0 .. Len(input)
  BY DEF IInv, Backlog
<1>2. Len(fifo) \in Nat /\ (fifo = <<>> <=> Len(fifo) = 0)
  BY <1>1, LenProperties, EmptySeq
<1>3. Len(fifo) = 5 * (Len(input) - taken) \/ (Len(input) - taken = 1 /\ Len(fifo) \in 1 .. 4)
  BY DEF IInv, Backlog
<1>4. fifo # <<>> <=> Unread > 0
  <2> DEFINE n == Len(fifo)
             m == Len(input)
  <2>1. n # 0 <=> m - taken > 0
    <3>1. n \in Nat /\ m \in Nat /\ taken \in 0 .. m
          /\ (n = 5 * (m - taken) \/ (m - taken = 1 /\ n \in 1 .. 4))
      BY <1>1, <1>2, <1>3
    <3>2. QED
      <4> HIDE DEF n, m
      <4> QED BY <3>1
  <2>2. QED
    BY <1>2, <2>1 DEF Unread
<1>5. \A f \in ToSet(waiting_queue) : f = "max_subarray"
  <2>1. \A f \in ToSet(waiting_queue) : f \in Functions
    BY LifeIs DEF LivesAreInArrays
  <2>2. QED
    BY <2>1 DEF IInv, Places
<1>6. QED
  BY <1>4, <1>5 DEF HasInput

LEMMA RunningSetIs ==
  ASSUME IInv
  PROVE  Abstract!In("running") = RunningSet
<1>1. \A f \in Functions : Life(f) = "running" <=> f \in RunningSet
  BY LifeIs DEF LivesAreInArrays
<1>2. RunningSet \subseteq Functions
  BY LifeIs DEF LivesAreInArrays
<1>3. Abstract!In("running") = {f \in Functions : Lives[f] = "running"}
  BY DEF Abstract!In, Lives
<1>4. QED
  BY <1>1, <1>2, <1>3 DEF Lives

LEMMA InitIsInit == Init => Abstract!ThreadsInit
<1> SUFFICES ASSUME Init PROVE Abstract!ThreadsInit
  OBVIOUS
<1>1. IInv /\ LivesAreInArrays
  BY InitInv, LifeIs
<1>2. /\ mode = "thread" /\ waiting_queue = <<>> /\ input = <<>> /\ taken = 0
      /\ \A f \in Functions : at[f] # "gone"
  BY DEF Init, RoundStart
<1>3. RunningSet = {RUNNING} /\ RUNNING \in Functions
  BY <1>1, <1>2 DEF RunningSet, Busy, LivesAreInArrays
<1>4. Abstract!In("running") = {RUNNING}
  BY <1>1, <1>3, RunningSetIs
<1>5. ToSet(waiting_queue) = {}
  BY <1>2 DEF ToSet
<1>6. ASSUME NEW f \in Functions PROVE Life(f) \in {"absent", "ready", "running"}
  <2>1. Held(f) <=> f \in ToSet(ready_queue)
    BY <1>1, <1>5 DEF IInv, Arrays
  <2>2. at[f] # "none" => Held(f)
    BY <1>2 DEF Held
  <2>3. QED
    BY <1>1, <1>5, <2>1, <2>2 DEF LivesAreInArrays
<1>7. Len(input) - taken = 0
  BY <1>2
<1>8. QED
  BY <1>3, <1>4, <1>6, <1>7 DEF Abstract!ThreadsInit

\* Steps of the running thread and of the outside leave all threads where they are.
LEMMA LivesStay ==
  ASSUME IInv, IInv', UNCHANGED Queues, Busy' <=> Busy,
         \A f \in Functions : at'[f] = "none" <=> at[f] = "none"
  PROVE  Lives' = Lives
<1>1. UNCHANGED <<ready_queue, waiting_queue, RUNNING, RunningSet>>
  BY DEF Queues, RUNNING, RunningSet
<1>2. ASSUME NEW f \in Functions PROVE Life(f)' = Life(f)
  <2>1. mode' \in {"thread", "YIELD", "READ", "EXIT"} <=> mode \in {"thread", "YIELD", "READ", "EXIT"}
    BY DEF Busy
  <2>2. QED
    BY <1>1, <2>1 DEF Life
<1>3. QED
  BY <1>2 DEF Lives

\* What a pass of the scheduler makes of the threads: the running one, if there is
\* one, becomes to; those that have input are woken; and another thread runs.
PassIs(to, ready, waiting) ==
  /\ to \in {"ready", "waiting", "finished"}
  /\ to = "waiting" => RunningSet \subseteq {"max_subarray"}
  /\ ToSet(ready) = (ToSet(ready_queue) \union {f \in ToSet(waiting_queue) : HasInput(f)})
                      \ (IF to = "ready" THEN {} ELSE RunningSet)
  /\ ToSet(waiting) = {f \in ToSet(waiting_queue) : ~HasInput(f)}
                        \union (IF to = "waiting" THEN RunningSet ELSE {})
  /\ ready # <<>> /\ ToSet(ready) # RunningSet => RUNNING' \notin RunningSet

\* The life of a thread when the scheduler has put it away, and no other one runs yet.
PutAway(to) ==
  [f \in Functions |-> IF f \in RunningSet THEN to
                       ELSE IF f \in ToSet(waiting_queue) /\ Unread > 0 THEN "ready" ELSE Life(f)]

LEMMA PutAwayIs ==
  ASSUME IInv, NEW to, NEW ready, NEW waiting, PassIs(to, ready, waiting), NEW f \in Functions
  PROVE  /\ PutAway(to)[f] = "ready" <=> f \in ToSet(ready)
         /\ PutAway(to)[f] = "absent" <=> at[f] = "none"
         /\ PutAway(to)[f] = "waiting" <=> f \in ToSet(waiting)
         /\ PutAway(to)[f] \in {"absent", "ready", "waiting", "finished"}
<1>1. f \in ToSet(waiting_queue) => (HasInput(f) <=> Unread > 0)
  BY InputIsUnread
<1>2. PutAway(to)[f] = IF f \in RunningSet THEN to
                       ELSE IF f \in ToSet(waiting_queue) /\ Unread > 0 THEN "ready" ELSE Life(f)
  BY DEF PutAway
<1>3. LivesAreInArrays
  BY LifeIs
<1>4. /\ RunningSet \subseteq ToSet(ready_queue)
      /\ ToSet(ready_queue) \intersect ToSet(waiting_queue) = {}
      /\ f \in ToSet(ready_queue) \union ToSet(waiting_queue) => at[f] # "none"
      /\ Life(f) = "absent" <=> at[f] = "none"
      /\ Life(f) = "running" <=> f \in RunningSet
      /\ Life(f) = "ready" <=> f \in ToSet(ready_queue) \ RunningSet
      /\ Life(f) = "waiting" <=> f \in ToSet(waiting_queue)
      /\ Life(f) \in {"absent", "ready", "running", "waiting", "finished"}
  BY <1>3 DEF LivesAreInArrays
<1>5. CASE f \in RunningSet
  <2>1. PutAway(to)[f] = to /\ f \notin ToSet(waiting_queue) /\ at[f] # "none"
    BY <1>2, <1>4, <1>5
  <2>2. QED
    BY <1>4, <1>5, <2>1 DEF PassIs
<1>6. CASE f \notin RunningSet /\ f \in ToSet(waiting_queue)
  <2>1. PutAway(to)[f] = (IF Unread > 0 THEN "ready" ELSE "waiting") /\ at[f] # "none"
    BY <1>2, <1>4, <1>6
  <2>2. f \notin ToSet(ready_queue)
    BY <1>4, <1>6
  <2>3. QED
    BY <1>1, <1>6, <2>1, <2>2 DEF PassIs
<1>7. CASE f \notin RunningSet /\ f \notin ToSet(waiting_queue)
  <2>1. PutAway(to)[f] = Life(f)
    BY <1>2, <1>7
  <2>2. QED
    BY <1>4, <1>7, <2>1 DEF PassIs
<1>8. QED
  BY <1>5, <1>6, <1>7

LEMMA PassSwitches ==
  ASSUME IInv, IInv', NEW to, NEW ready \in Seq(Functions), NEW waiting \in Seq(Functions),
         NEW current, Dispatch(ready, waiting, current), PassIs(to, ready, waiting)
  PROVE  Abstract!Switch
<1> DEFINE after == PutAway(to)
<1>1. /\ ready_queue' = ready /\ waiting_queue' = waiting
      /\ mode' = (IF ready # <<>> THEN "thread" ELSE IF waiting # <<>> THEN "idle" ELSE "done")
      /\ UNCHANGED <<at, input, taken>>
  BY DEF Dispatch, Input
<1>2. ready = <<>> <=> ToSet(ready) = {}
  <2>1. Len(ready) \in Nat /\ (Len(ready) = 0 => ready = <<>>) /\ (ready = <<>> => Len(ready) = 0)
    BY LenProperties, EmptySeq
  <2>2. \A x : x \in ToSet(ready) <=> \E k \in 1 .. Len(ready) : ready[k] = x
    BY ToSetIs
  <2>3. ready # <<>> => ready[1] \in ToSet(ready)
    <3>1. ready # <<>> => 1 \in 1 .. Len(ready)
      BY <2>1
    <3>2. QED
      BY <2>2, <3>1
  <2>4. ready = <<>> => \A x : x \notin ToSet(ready)
    <3>1. ready = <<>> => 1 .. Len(ready) = {}
      BY <2>1
    <3>2. QED
      BY <2>2, <3>1
  <2>5. QED
    BY <2>3, <2>4
<1>3. LivesAreInArrays'
  BY LifeIsAfter
<1>4. Lives' \in [Functions -> {"absent", "ready", "running", "waiting", "finished"}]
  BY <1>3 DEF LivesAreInArrays, Lives
<1>5. \A f \in Functions :
        /\ Lives'[f] = "absent" <=> at[f] = "none"
        /\ Lives'[f] = "running" <=> f \in RunningSet'
        /\ Lives'[f] = "ready" <=> f \in ToSet(ready) \ RunningSet'
        /\ Lives'[f] = "waiting" <=> f \in ToSet(waiting)
  BY <1>1, <1>3 DEF LivesAreInArrays, Lives
<1>6. RunningSet' = IF ready = <<>> THEN {} ELSE {RUNNING'}
  BY <1>1 DEF RunningSet, Busy
<1>7. RunningSet' \subseteq ToSet(ready)
  BY <1>1, <1>3 DEF LivesAreInArrays
<1>8. Lives' = IF ToSet(ready) = {} THEN after ELSE [after EXCEPT ![RUNNING'] = "running"]
  <2>1. after = [f \in Functions |-> after[f]] /\ Lives' = [f \in Functions |-> Lives'[f]]
    BY <1>4 DEF PutAway
  <2>2. CASE ToSet(ready) = {}
    <3>1. ASSUME NEW f \in Functions PROVE Lives'[f] = after[f]
      <4>1. RunningSet' = {}
        BY <1>2, <1>6, <2>2
      <4> HIDE DEF after
      <4>2. QED
        BY <1>4, <1>5, <2>2, <4>1, PutAwayIs DEF after
    <3>2. QED
      <4> HIDE DEF after
      <4> QED BY <2>1, <2>2, <3>1
  <2>3. CASE ToSet(ready) # {}
    <3>1. RunningSet' = {RUNNING'} /\ RUNNING' \in ToSet(ready)
      BY <1>2, <1>6, <1>7, <2>3
    <3>2. RUNNING' \in Functions
      BY <3>1, ToSetIs
    <3>3. ASSUME NEW f \in Functions
          PROVE  Lives'[f] = IF f = RUNNING' THEN "running" ELSE after[f]
      <4>1. f = RUNNING' => Lives'[f] = "running"
        BY <1>5, <3>1
      <4>2. f # RUNNING' => Lives'[f] # "running" /\ (Lives'[f] = "ready" <=> f \in ToSet(ready))
        BY <1>5, <3>1
      <4>3. /\ after[f] = "ready" <=> f \in ToSet(ready)
            /\ after[f] = "absent" <=> at[f] = "none"
            /\ after[f] = "waiting" <=> f \in ToSet(waiting)
            /\ after[f] \in {"absent", "ready", "waiting", "finished"}
        BY PutAwayIs
      <4> HIDE DEF after
      <4>4. QED
        BY <1>4, <1>5, <4>1, <4>2, <4>3
    <3>4. QED
      <4> HIDE DEF after
      <4> QED BY <2>1, <2>3, <3>2, <3>3
  <2>4. QED
    BY <2>2, <2>3
<1>9. after = [f \in Functions |-> IF f \in Abstract!In("running") THEN to
                                   ELSE IF f \in Abstract!In("waiting") /\ Unread > 0 THEN "ready"
                                   ELSE Lives[f]]
  <2>1. Abstract!In("running") = RunningSet
    BY RunningSetIs
  <2>2. \A f \in Functions : f \in Abstract!In("waiting") <=> f \in ToSet(waiting_queue)
    BY LifeIs DEF LivesAreInArrays, Abstract!In
  <2>3. \A f \in Functions : Lives[f] = Life(f)
    BY DEF Lives
  <2>4. QED
    BY <2>1, <2>2, <2>3 DEF PutAway
<1>10. {f \in Functions : after[f] = "ready"} = ToSet(ready)
  <2>1. \A f \in Functions : after[f] = "ready" <=> f \in ToSet(ready)
    BY PutAwayIs
  <2>2. ToSet(ready) \subseteq Functions
    BY ToSetIs
  <2> HIDE DEF after
  <2>3. QED
    BY <2>1, <2>2
<1>11. ToSet(ready) # {} =>
         RUNNING' \in IF ToSet(ready) \ Abstract!In("running") = {} THEN ToSet(ready)
                      ELSE ToSet(ready) \ Abstract!In("running")
  <2>1. Abstract!In("running") = RunningSet
    BY RunningSetIs
  <2>2. ToSet(ready) # {} => RUNNING' \in ToSet(ready)
    BY <1>2, <1>6, <1>7
  <2>3. ToSet(ready) # {} /\ ToSet(ready) # RunningSet => RUNNING' \notin RunningSet
    BY <1>2 DEF PassIs
  <2>4. QED
    BY <2>1, <2>2, <2>3
<1>12. to \in {"ready", "waiting", "finished"} /\ (to = "waiting" => Abstract!In("running") \subseteq {"max_subarray"})
  BY RunningSetIs DEF PassIs
<1>13. Unread' = Unread
  BY <1>1 DEF Unread
<1>14. \/ ToSet(ready) = {} /\ Lives' = after
       \/ /\ ToSet(ready) # {}
          /\ \E f \in (IF ToSet(ready) \ Abstract!In("running") = {} THEN ToSet(ready)
                      ELSE ToSet(ready) \ Abstract!In("running")) :
               Lives' = [after EXCEPT ![f] = "running"]
  <2> HIDE DEF after
  <2> QED BY <1>8, <1>11
<1>15. QED
  <2> HIDE DEF after
  <2> DEFINE put(t) == [f \in Functions |-> IF f \in Abstract!In("running") THEN t
                                           ELSE IF f \in Abstract!In("waiting") /\ Unread > 0 THEN "ready"
                                           ELSE Lives[f]]
             rdy(t) == {f \in Functions : put(t)[f] = "ready"}
             others(t) == rdy(t) \ Abstract!In("running")
             Turn(t) ==
               /\ t = "waiting" => Abstract!In("running") \subseteq {"max_subarray"}
               /\ IF rdy(t) = {} THEN Lives' = put(t)
                  ELSE \E f \in IF others(t) = {} THEN rdy(t) ELSE others(t) :
                         Lives' = [put(t) EXCEPT ![f] = "running"]
               /\ Unread' = Unread
  <2>1. Abstract!Switch <=> \E t \in {"ready", "waiting", "finished"} : Turn(t)
    BY DEF Abstract!Switch, Lives, Unread
  <2>2. put(to) = after
    BY <1>9
  <2>3. rdy(to) = ToSet(ready)
    <3> HIDE DEF put
    <3> QED BY <1>10, <2>2
  <2>4. Turn(to)
    <3> HIDE DEF put, rdy
    <3> QED BY <1>12, <1>13, <1>14, <2>2, <2>3
  <2>5. QED
    <3> HIDE DEF Turn
    <3> QED BY <1>12, <2>1, <2>4


\* After a yield another thread runs, if one is ready.
LEMMA YieldSwitches ==
  ASSUME IInv, IInv', ScheduleYield
  PROVE  Abstract!Switch
<1>1. mode = "YIELD" /\ Busy /\ Dispatch(Polled, StillWaiting, rq_current + 1)
  BY DEF ScheduleYield, Busy
<1>2. /\ Polled \in Seq(Functions) /\ Distinct(Polled) /\ StillWaiting \in Seq(Functions)
      /\ Len(Polled) >= Len(ready_queue)
      /\ \A k \in 1 .. Len(ready_queue) : Polled[k] = ready_queue[k]
      /\ ToSet(Polled) = ToSet(ready_queue) \union {f \in ToSet(waiting_queue) : HasInput(f)}
      /\ ToSet(StillWaiting) = {f \in ToSet(waiting_queue) : ~HasInput(f)}
  BY PolledIs
<1>3. RunningSet = {RUNNING}
  BY <1>1 DEF RunningSet
<1>4. ASSUME ToSet(Polled) # {RUNNING} PROVE RUNNING' # RUNNING
  <2> DEFINE n == Len(Polled)
             k == rq_current + 1
             next == IF Polled # <<>> /\ k = n THEN 0 ELSE k
  <2>1. rq_current \in Nat /\ rq_current < Len(ready_queue) /\ Len(ready_queue) \in Nat /\ n \in Nat
    BY <1>1, <1>2 DEF IInv, Current, Arrays
  <2>2. k \in 1 .. n /\ k \in 1 .. Len(ready_queue)
    BY <1>2, <2>1
  <2>3. Polled[k] = RUNNING
    BY <1>2, <2>2 DEF RUNNING
  <2>4. n # 1
    <3> SUFFICES ASSUME n = 1 PROVE FALSE
      OBVIOUS
    <3>1. k = 1
      BY <2>1, <2>2
    <3>2. \A x : x \in ToSet(Polled) <=> \E j \in 1 .. n : Polled[j] = x
      BY <1>2, ToSetIs
    <3>3. \A x : x \in ToSet(Polled) <=> x = RUNNING
      BY <2>3, <3>1, <3>2
    <3>4. QED
      BY <1>4, <3>3
  <2>5. next + 1 \in 1 .. n /\ next + 1 # k
    <3> HIDE DEF k, n
    <3>1. k \in Nat /\ k >= 1 /\ k <= n /\ n # 1 /\ n \in Nat
      BY <2>1, <2>2, <2>4
    <3>2. QED
      <4>1. CASE k = n
        <5>1. Polled # <<>>
          <6>1. Polled = <<>> => n = 0
            BY DEF n
          <6>2. QED
            BY <3>1, <6>1
        <5>2. next = 0
          BY <4>1, <5>1
        <5> HIDE DEF next
        <5>3. QED
          BY <3>1, <4>1, <5>2
      <4>2. CASE k # n
        <5>1. next = k
          BY <4>2
        <5> HIDE DEF next
        <5>2. QED
          BY <3>1, <4>2, <5>1
      <4>3. QED
        BY <4>1, <4>2
  <2>6. RUNNING' = Polled[next + 1]
    BY <1>1 DEF Dispatch, RUNNING
  <2>7. QED
    <3> HIDE DEF next, k, n
    <3>1. Polled[next + 1] # Polled[k]
      BY <1>2, <2>2, <2>5 DEF Distinct, n
    <3>2. QED
      BY <2>3, <2>6, <3>1
<1>5. PassIs("ready", Polled, StillWaiting)
  BY <1>2, <1>3, <1>4 DEF PassIs
<1>6. QED
  BY <1>1, <1>2, <1>5, PassSwitches

\* max_subarray waits.
LEMMA ReadSwitches ==
  ASSUME IInv, IInv', ScheduleRead
  PROVE  Abstract!Switch
<1> DEFINE ready == DropCurrent(Polled)
           waiting == Append(StillWaiting, RUNNING)
<1>1. mode = "READ" /\ Busy /\ Dispatch(ready, waiting, rq_current)
  BY DEF ScheduleRead, Busy
<1>2. /\ StillWaiting \in Seq(Functions)
      /\ ToSet(Polled) = ToSet(ready_queue) \union {f \in ToSet(waiting_queue) : HasInput(f)}
      /\ ToSet(StillWaiting) = {f \in ToSet(waiting_queue) : ~HasInput(f)}
  BY PolledIs
<1>3. ready \in Seq(Functions) /\ ToSet(ready) = ToSet(Polled) \ {RUNNING}
  BY <1>1, DropRunning
<1>4. at[RUNNING] = "read" /\ RUNNING = "max_subarray" /\ RUNNING \in Functions
  BY <1>1, RunningIs DEF IInv, Places
<1>5. RunningSet = {RUNNING}
  BY <1>1 DEF RunningSet
<1>6. waiting \in Seq(Functions) /\ ToSet(waiting) = ToSet(StillWaiting) \union {RUNNING}
  <2>1. /\ waiting \in Seq(Functions) /\ Len(waiting) = Len(StillWaiting) + 1
        /\ Len(StillWaiting) \in Nat
        /\ \A k \in 1 .. Len(StillWaiting) : waiting[k] = StillWaiting[k]
        /\ waiting[Len(StillWaiting) + 1] = RUNNING
    BY <1>2, <1>4, AppendProperties
  <2>2. \A x : x \in ToSet(waiting) <=> \E k \in 1 .. Len(waiting) : waiting[k] = x
    BY <2>1, ToSetIs
  <2>3. \A x : x \in ToSet(StillWaiting) <=> \E k \in 1 .. Len(StillWaiting) : StillWaiting[k] = x
    BY <1>2, ToSetIs
  <2> HIDE DEF waiting
  <2>4. QED
    BY <2>1, <2>2, <2>3
<1>7. \A f \in ToSet(ready) : f \notin RunningSet
  BY <1>3, <1>5
<1>8. ready # <<>> => RUNNING' \notin RunningSet
  <2> SUFFICES ASSUME ready # <<>> PROVE RUNNING' \in ToSet(ready)
    BY <1>7
  <2>1. ready_queue' = ready /\ mode' = "thread"
    BY <1>1 DEF Dispatch
  <2>2. RunningSet' = {RUNNING'} /\ RunningSet' \subseteq ToSet(ready_queue')
    BY <2>1, LifeIsAfter DEF RunningSet, Busy, LivesAreInArrays
  <2>3. QED
    BY <2>1, <2>2
<1>9. PassIs("waiting", ready, waiting)
  BY <1>2, <1>3, <1>4, <1>5, <1>6, <1>8 DEF PassIs
<1>10. QED
  BY <1>1, <1>3, <1>6, <1>9, PassSwitches

\* The running thread is finished.
LEMMA ExitSwitches ==
  ASSUME IInv, IInv', ScheduleExit
  PROVE  Abstract!Switch
<1> DEFINE ready == DropCurrent(Polled)
<1>1. mode = "EXIT" /\ Busy /\ Dispatch(ready, StillWaiting, rq_current)
  BY DEF ScheduleExit, Busy
<1>2. /\ StillWaiting \in Seq(Functions)
      /\ ToSet(Polled) = ToSet(ready_queue) \union {f \in ToSet(waiting_queue) : HasInput(f)}
      /\ ToSet(StillWaiting) = {f \in ToSet(waiting_queue) : ~HasInput(f)}
  BY PolledIs
<1>3. ready \in Seq(Functions) /\ ToSet(ready) = ToSet(Polled) \ {RUNNING}
  BY <1>1, DropRunning
<1>4. RunningSet = {RUNNING}
  BY <1>1 DEF RunningSet
<1>5. ready # <<>> => RUNNING' \notin RunningSet
  <2> SUFFICES ASSUME ready # <<>> PROVE RUNNING' \in ToSet(ready)
    BY <1>3, <1>4
  <2>1. ready_queue' = ready /\ mode' = "thread"
    BY <1>1 DEF Dispatch
  <2>2. RunningSet' = {RUNNING'} /\ RunningSet' \subseteq ToSet(ready_queue')
    BY <2>1, LifeIsAfter DEF RunningSet, Busy, LivesAreInArrays
  <2>3. QED
    BY <2>1, <2>2
<1>6. PassIs("finished", ready, StillWaiting)
  BY <1>2, <1>3, <1>4, <1>5 DEF PassIs
<1>7. QED
  BY <1>1, <1>2, <1>3, <1>6, PassSwitches

\* Nobody runs; a thread that has got its input is woken.
LEMMA PollSwitches ==
  ASSUME IInv, IInv', PollAgain
  PROVE  Abstract!Switch
<1>1. mode = "idle" /\ Dispatch(Polled, StillWaiting, rq_current)
  BY DEF PollAgain
<1>2. /\ Polled \in Seq(Functions) /\ StillWaiting \in Seq(Functions)
      /\ ToSet(Polled) = ToSet(ready_queue) \union {f \in ToSet(waiting_queue) : HasInput(f)}
      /\ ToSet(StillWaiting) = {f \in ToSet(waiting_queue) : ~HasInput(f)}
  BY PolledIs
<1>3. RunningSet = {}
  BY <1>1 DEF RunningSet, Busy
<1>4. PassIs("finished", Polled, StillWaiting)
  BY <1>2, <1>3 DEF PassIs
<1>5. QED
  BY <1>1, <1>2, <1>4, PassSwitches

\* A read takes one line.
LEMMA ReadReads ==
  ASSUME IInv, IInv', NEW f \in Functions, Read(f)
  PROVE  Abstract!ReadLine
<1>1. /\ mode = "thread" /\ RUNNING = f /\ at[f] = "read" /\ Busy
      /\ taken' = taken + 1
      /\ UNCHANGED <<Queues, mode, input>>
  BY DEF Read, Running, EndRound, Busy
<1>2. f = "max_subarray" /\ RunningSet = {f}
  BY <1>1 DEF IInv, Places, RunningSet
<1>3. f \in ToSet(ready_queue)
  BY <1>1, RunningIs
<1>4. Unread > 0
  BY <1>1, <1>2, <1>3, InputIsUnread DEF IInv, Backlog
<1>5. Len(input) \in Nat /\ taken \in 0 .. Len(input)
  BY DEF IInv, Backlog
<1>6. Unread' = Unread - 1
  BY <1>1, <1>5 DEF Unread
<1>7. Lives' = Lives
  <2>1. at' = [at EXCEPT ![f] = at'[f]] /\ at'[f] # "none"
    <3>1. PICK t : at' = [at EXCEPT ![f] = IF LastRound(f, t) THEN "exit" ELSE "yield"]
      BY DEF Read, EndRound
    <3>2. at \in [Functions -> {"none", "round", "async_read", "read", "yield", "exit", "gone"}]
      BY DEF IInv, Values
    <3>3. QED
      BY <3>1, <3>2
  <2>2. \A g \in Functions : at'[g] = "none" <=> at[g] = "none"
    BY <1>1, <2>1 DEF IInv, Values
  <2>3. UNCHANGED Queues /\ (Busy' <=> Busy)
    BY <1>1 DEF Busy
  <2>4. QED
    BY <2>2, <2>3, LivesStay
<1>8. "max_subarray" \in Abstract!In("running")
  BY <1>2, RunningSetIs
<1>9. QED
  BY <1>4, <1>6, <1>7, <1>8 DEF Abstract!ReadLine, Lives, Unread

\* A write adds one line.
LEMMA WriteWrites ==
  ASSUME IInv, IInv', NEW line \in Lines, Write(line)
  PROVE  Abstract!WriteLine
<1>1. /\ at["max_subarray"] \notin {"none", "gone"}
      /\ input' = Append(input, line.num)
      /\ UNCHANGED <<Queues, at, mode, taken>>
  BY DEF Write
<1>2. Lives' = Lives
  BY <1>1, LivesStay DEF Busy
<1>3. input \in Seq(Int) /\ Len(input) \in Nat /\ taken \in 0 .. Len(input) /\ line.num \in Int
  <2>1. line.num \in Int
    BY LineIs, IntOfType, IntsAreIntegers
  <2>2. QED
    BY <2>1 DEF IInv, Backlog
<1>4. Unread' = Unread + 1
  <2>1. Len(input)' = Len(input) + 1
    BY <1>1, <1>3
  <2>2. QED
    BY <1>1, <1>3, <2>1 DEF Unread
<1>5. Life("max_subarray") # "finished"
  <2>1. "max_subarray" \in Functions
    BY DEF Functions
  <2>2. "max_subarray" \in ToSet(ready_queue) \union ToSet(waiting_queue)
    BY <1>1, <2>1 DEF IInv, Arrays, Held
  <2>3. \/ Life("max_subarray") = "running"
        \/ Life("max_subarray") = "ready"
        \/ Life("max_subarray") = "waiting"
    BY <2>1, <2>2, LifeIs DEF LivesAreInArrays
  <2>4. QED
    BY <2>3
<1>6. "max_subarray" \notin Abstract!In("finished")
  BY <1>5 DEF Abstract!In, Functions
<1>7. QED
  BY <1>2, <1>4, <1>6 DEF Abstract!WriteLine, Lives, Unread

\* Every step is a step of Threads or a stutter.
LEMMA NextIsNext ==
  IInv /\ IInv' /\ [Next]_vars => [Abstract!ThreadsNext]_<<Lives, Unread>>
<1> SUFFICES ASSUME IInv, IInv', [Next]_vars PROVE [Abstract!ThreadsNext]_<<Lives, Unread>>
  OBVIOUS
<1>1. ASSUME NEW f \in Functions, Round(f) \/ AsyncRead(f) \/ ThreadYield(f) \/ ThreadExit(f)
      PROVE  UNCHANGED <<Lives, Unread>>
  <2>1. at \in [Functions -> {"none", "round", "async_read", "read", "yield", "exit", "gone"}]
    BY DEF IInv, Values
  <2>2. UNCHANGED <<Queues, input, taken>> /\ Busy /\ Busy'
    BY <1>1 DEF Round, AsyncRead, ThreadYield, TakeSignal, ThreadExit, EndRound, Running, Busy, Input
  <2>3. at[f] # "none"
    BY <1>1 DEF Round, AsyncRead, ThreadYield, ThreadExit, Running
  <2>4. at'[f] # "none" /\ \A g \in Functions : g # f => at'[g] = at[g]
    <3>1. CASE Round(f)
      <4>1. PICK t : at' = [at EXCEPT ![f] = IF LastRound(f, t) THEN "exit" ELSE "yield"]
        BY <3>1 DEF Round, EndRound
      <4>2. QED
        BY <2>1, <4>1
    <3>2. CASE ~Round(f)
      BY <1>1, <2>1, <3>2 DEF AsyncRead, ThreadYield, ThreadExit, RoundStart
    <3>3. QED
      BY <3>1, <3>2
  <2>5. Lives' = Lives
    BY <2>2, <2>3, <2>4, LivesStay
  <2>6. QED
    BY <2>2, <2>5 DEF Unread
<1>2. ASSUME NEW f \in Functions, Read(f) PROVE Abstract!ThreadsNext
  BY <1>2, ReadReads DEF Abstract!ThreadsNext
<1>3. CASE Scheduler
  <2>1. Abstract!Switch
    BY <1>3, YieldSwitches, ReadSwitches, ExitSwitches, PollSwitches DEF Scheduler
  <2>2. QED
    BY <2>1 DEF Abstract!ThreadsNext
<1>4. CASE Expire \/ Stop
  <2>1. UNCHANGED <<Queues, at, mode, input, taken>>
    BY <1>4 DEF Expire, Stop, Input
  <2>2. Lives' = Lives
    BY <2>1, LivesStay DEF Busy
  <2>3. QED
    BY <2>1, <2>2 DEF Unread
<1>5. ASSUME NEW line \in Lines, Write(line) PROVE Abstract!ThreadsNext
  BY <1>5, WriteWrites DEF Abstract!ThreadsNext
<1>6. CASE UNCHANGED vars
  <2>1. UNCHANGED <<Queues, at, mode, input, taken>>
    BY <1>6 DEF vars, Input
  <2>2. Lives' = Lives
    BY <2>1, LivesStay DEF Busy
  <2>3. QED
    BY <2>1, <2>2 DEF Unread
<1>7. QED
  BY <1>1, <1>2, <1>3, <1>4, <1>5, <1>6 DEF Next, Process, Thread, Return

\* Whatever the arrays do, the threads only switch as Threads says: a woken thread
\* finds its input, nobody runs twice in a row while another one is ready, only
\* max_subarray waits, and one that is finished stays so.
THEOREM ThreadsAreImplemented == Spec => ImplementsThreads
<1>1. IInv /\ IInv' /\ [Next]_vars => [Abstract!ThreadsNext]_<<[f \in Functions |-> Life(f)], Len(input) - taken>>
  BY NextIsNext DEF Lives, Unread
<1>2. QED
  BY <1>1, InitIsInit, Invariance, PTL DEF Spec, ImplementsThreads, Abstract!ThreadsSpec
=============================================================================
