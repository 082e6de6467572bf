------------------------------ MODULE CStrings ------------------------------
(***************************************************************************)
(* What the programs use of ctype.h and stdlib.h.  A text is a sequence of *)
(* characters without the NUL that ends it in C.                           *)
(***************************************************************************)
EXTENDS Integers, SequencesExt

Digits == <<"0", "1", "2", "3", "4", "5", "6", "7", "8", "9">>
IsDigit(c) == c \in ToSet(Digits)
DigitValue(c) == CHOOSE d \in 0 .. 9 : Digits[d + 1] = c

\* The letters that occur in the models, and the characters isspace accepts.
IsAlpha(c) == c \in {"E", "a", "x"}
Spaces == {" ", "\t", "\r", "\n"}

\* The number that a text of digits writes.
Decimal(text) ==
  LET value[k \in 0 .. Len(text)] ==
        IF k = 0 THEN 0 ELSE 10 * value[k - 1] + DigitValue(text[k])
  IN  value[Len(text)]

\* The longest beginning of a text that is made of these characters.
Leading(text, chars) ==
  LET n == SelectInSeq(text, LAMBDA c : c \notin chars)
  IN  IF n = 0 THEN text ELSE SubSeq(text, 1, n - 1)

Behind(text, beginning) == SubSeq(text, Len(beginning) + 1, Len(text))

\* atoi: blanks, a sign, digits; what follows is not looked at.
atoi(text) ==
  LET number == Behind(text, Leading(text, Spaces))
      signed == number # <<>> /\ number[1] \in {"-", "+"}
      digits == Leading(IF signed THEN Tail(number) ELSE number, ToSet(Digits))
  IN  (IF signed /\ number[1] = "-" THEN -1 ELSE 1) * Decimal(digits)
=============================================================================
