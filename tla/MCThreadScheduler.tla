------------------------- MODULE MCThreadScheduler --------------------------
(***************************************************************************)
(* Small instances of ThreadScheduler: with and without each of the three  *)
(* threads, and threads of one and of several rounds.                      *)
(***************************************************************************)
EXTENDS ThreadScheduler

\* -1 creates no thread.  fibonacci(0) runs until its counter has gone round all the
\* ints, and overflows on the way; max_subarray(0) asks for more lines than there
\* are; collatz(0) never ends: the others must get their turn nevertheless.
MCFibArgs == {-1, 0, 1}
MCColArgs == {-1, 0, 2}
MCSubArgs == {-1, 0, 2}

\* A line as in sample_execution.sh, and one that is not filled with blanks.
MCLines ==
  {[text |-> <<" ", " ", "-", "2", "\n">>, num |-> -2],
   [text |-> <<"4", "\n">>, num |-> 4]}
=============================================================================
