-------------------------- MODULE BookingCommands ---------------------------
(***************************************************************************)
(* HW1: how write_server reads a booking command (myatoi in server.c).     *)
(* myatoi goes through what one read() has returned, which may be more     *)
(* than one line, character by character.                                  *)
(***************************************************************************)
EXTENDS BookingRules, CStrings, FiniteSets

\* The local variables of myatoi; result is "more" while the loop goes on, else
\* what myatoi returns.
Start == [nums |-> <<>>, sum |-> 0, sign |-> 1, result |-> "more"]

\* Slip: the sign of one number is kept for the next.
NumberKeepsSign(st) ==
  [st EXCEPT !.nums = Append(@, Wrap(st.sum * st.sign)), !.sum = 0,
             !.result = IF Len(st.nums) = 2 THEN "ok" ELSE "more"]

\* Any character that is no letter, sign or digit ends a number, the third
\* number ends the loop.
Number(st) ==
  [st EXCEPT !.nums = Append(@, Wrap(st.sum * st.sign)), !.sum = 0, !.sign = 1,
             !.result = IF Len(st.nums) = 2 THEN "ok" ELSE "more"]

\* One turn of the loop.
Turn(st, c) ==
  IF IsAlpha(c) \/ (c = "-" /\ st.sum # 0) THEN [st EXCEPT !.result = "failed"]
  ELSE IF c = "-" THEN [st EXCEPT !.sign = -1]
  ELSE IF IsDigit(c) THEN [st EXCEPT !.sum = Wrap(10 * @ + DigitValue(c))]
  ELSE Number(st)

\* Slip: the loop runs on to the end of the text.
UntilEnd(st, c) == Turn(st, c)

\* A return leaves the loop.
UntilReturn(st, c) == IF st.result = "more" THEN Turn(st, c) ELSE st

\* The three numbers myatoi finds, or none: it has returned 0.
myatoi(text) ==
  LET st == FoldLeft(UntilReturn, Start, text) IN IF st.result = "ok" THEN st.nums ELSE <<>>

-----------------------------------------------------------------------------
\* The same said without a loop.  The numbers of a command are what stands in
\* front of its first three separators.
IsSeparator(c) == ~IsAlpha(c) /\ ~IsDigit(c) /\ c # "-"

Field(text, k) ==
  LET ends == {i \in DOMAIN text : IsSeparator(text[i])}
      Before(i) == Cardinality({j \in ends : j < i})
  IN  SelectSeq([i \in DOMAIN text |-> IF i \notin ends /\ Before(i) = k - 1 THEN text[i] ELSE ""],
                LAMBDA c : c # "")

Fields(text) == Cardinality({i \in DOMAIN text : IsSeparator(text[i])})

\* A number has no letter, and no sign behind a digit that counts.
IsNumber(field) ==
  /\ \A i \in DOMAIN field : ~IsAlpha(field[i])
  /\ \A i \in DOMAIN field : field[i] = "-" =>
       Wrap(Decimal(SelectSeq(SubSeq(field, 1, i), IsDigit))) = 0

NumberIn(field) ==
  Wrap((IF "-" \in ToSet(field) THEN -1 ELSE 1) * Decimal(SelectSeq(field, IsDigit)))

\* The first line with the newline that ends it: all that a client has meant to be
\* its command.
FirstLine(text) == SubSeq(text, 1, SelectInSeq(text, LAMBDA c : c = "\n"))

Meaning(text) ==
  IF Fields(text) >= 3 /\ \A k \in 1 .. 3 : IsNumber(Field(text, k))
  THEN [k \in 1 .. 3 |-> NumberIn(Field(text, k))]
  ELSE <<>>
=============================================================================
