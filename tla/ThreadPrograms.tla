--------------------------- MODULE ThreadPrograms ---------------------------
(***************************************************************************)
(* The three thread functions of HW3/threads.c.  Whatever a function needs *)
(* after a switch is in its tcb (i, x, y and arg); a round is the body of  *)
(* its loop up to the switch.                                              *)
(***************************************************************************)
EXTENDS CIntegers, SequencesExt, FiniteSetsExt

\* What a thread's tcb keeps for its function.
Tcb == [arg : CInt, i : CInt, x : CInt, y : CInt]

\* The tcb that thread_setup leaves (i is written before it is read).
NewTcb(arg) == [arg |-> arg, i |-> 1, x |-> 0, y |-> 0]

\* Slip: no tmp.
FibonacciRoundNoTmp(tcb) ==
  IF tcb.i <= 2 THEN [tcb EXCEPT !.x = 1, !.y = 1]
  ELSE [tcb EXCEPT !.x = Wrap(tcb.x + tcb.y), !.y = Wrap(tcb.x + tcb.y)]

\* fibonacci: the body of the loop.
FibonacciRound(tcb) ==
  IF tcb.i <= 2 THEN [tcb EXCEPT !.x = 1, !.y = 1]
  ELSE [tcb EXCEPT !.x = tcb.y, !.y = Wrap(tcb.x + tcb.y)]

\* collatz: the body of the loop.
CollatzStep(arg) == IF arg % 2 = 0 THEN arg \div 2 ELSE Wrap(3 * arg + 1)
CollatzRound(tcb) == [tcb EXCEPT !.arg = CollatzStep(@)]

Larger(a, b) == IF a > b THEN a ELSE b

\* Slip: y is updated before x.
SubarrayRoundSwapped(tcb, val) ==
  [tcb EXCEPT !.x = Larger(val, Wrap(tcb.x + val)), !.y = Larger(tcb.y, tcb.x)]

\* max_subarray: the body of the loop, once val has been read.
SubarrayRound(tcb, val) ==
  LET x == Larger(val, Wrap(tcb.x + val))
  IN  [tcb EXCEPT !.x = x, !.y = Larger(tcb.y, x)]

\* Slip: one round too many.
LastRoundLate(func, tcb) == IF func = "collatz" THEN tcb.arg = 1 ELSE tcb.i > tcb.arg

\* The test before thread_exit.
LastRound(func, tcb) == IF func = "collatz" THEN tcb.arg = 1 ELSE tcb.i = tcb.arg

\* The loop's increment after a switch; collatz has none.
NextRound(func, tcb) == IF func = "collatz" THEN tcb ELSE [tcb EXCEPT !.i = Wrap(@ + 1)]

-----------------------------------------------------------------------------
\* What the functions are named for.
Fibonacci[n \in Nat \ {0}] ==
  IF n <= 2 THEN 1 ELSE Fibonacci[n - 1] + Fibonacci[n - 2]

\* The sums of the contiguous parts of s, the empty part included.
Sum(s) ==
  LET sum[k \in 0 .. Len(s)] == IF k = 0 THEN 0 ELSE sum[k - 1] + s[k]
  IN  sum[Len(s)]

PartSums(s) == {Sum(SubSeq(s, a, b)) : a \in 1 .. Len(s) + 1, b \in 0 .. Len(s)}

MaxSubarray(s) == Max(PartSums(s))

\* How often the counter i is compared with arg until it is arg: it begins with 1,
\* and comes to 0 once it has gone round all the ints.
Rounds(arg) == IF arg >= 1 THEN arg ELSE IntMax - IntMin + 1 + arg

\* The loop of collatz comes to 1; there are so many ints that it could be at.
CollatzEnds(arg) ==
  LET bound == IntMax - IntMin
      after[k \in 0 .. bound] == IF k = 0 THEN arg ELSE CollatzStep(after[k - 1])
  IN  \E k \in 0 .. bound : after[k] = 1
=============================================================================
