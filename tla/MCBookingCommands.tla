------------------------- MODULE MCBookingCommands --------------------------
(***************************************************************************)
(* Every text of up to MaxText characters that a client may type before    *)
(* write_server reads it.                                                  *)
(***************************************************************************)
EXTENDS BookingCommands

CONSTANTS Keys, MaxText

\* A letter, a sign, two digits, and characters that end a number.
MCKeys == {"0", "7", "-", "x", " ", "\r", "\n"}

VARIABLE text   \* what has arrived on the connection

Init == text = <<>>

Type(c) == Len(text) < MaxText /\ text' = Append(text, c)

Next == \E c \in Keys : Type(c)

Spec == Init /\ [][Next]_text

-----------------------------------------------------------------------------
\* myatoi finds three numbers exactly when the text has three fields without
\* letters and misplaced signs, and then each number is what its own field says,
\* whatever came before it, modulo the width of an int.
ParsesFields == myatoi(text) = Meaning(text)

\* One read() may return more than the first line, and handle_read gives myatoi all
\* of it.  A first line of three fields ("7 7" CR LF is one: 7, 7 and 0) decides
\* alone.  A shorter one decides as far as it goes: its fault refuses the command
\* whatever follows, its numbers are the first ones of the command, and only those
\* that it lacks are taken from the next line ("7 7" LF is refused by itself, and
\* with "7" LF behind it books 7, 7 and 7).
FirstLineCounts ==
  LET first == FirstLine(text)
      nums == myatoi(text)
      fields == 1 .. Min({3, Fields(first)})
  IN  /\ 3 \in fields => nums = myatoi(first)
      /\ \A k \in fields : IF IsNumber(Field(first, k))
                           THEN nums # <<>> => nums[k] = NumberIn(Field(first, k))
                           ELSE nums = <<>>
=============================================================================
