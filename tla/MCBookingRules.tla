--------------------------- MODULE MCBookingRules ---------------------------
(***************************************************************************)
(* One user's record under a long sequence of commands: every valid record *)
(* that sessions can reach, every command of a range of amounts.           *)
(***************************************************************************)
EXTENDS BookingRules

CONSTANT Amounts   \* the integers a client may type

VARIABLES
  booking,   \* bookingState of the record on disk
  nums,      \* the amounts typed and not answered yet
  verdict    \* "typed", or handle_read's answer to the last command

vars == <<booking, nums, verdict>>

\* Every amount from INT_MIN up to the largest that fits (AmountsFit).
FittingAmounts == IntMin .. (IntMax - 2 * Limit)

\* Every int: some amounts overflow a running total upwards.
AllAmounts == CInt

Commands == [Objects -> Amounts]
Empty == [i \in Objects |-> 0]

Init == booking = Empty /\ nums = Empty /\ verdict = "booked"

Type ==
  /\ verdict # "typed"
  /\ nums' \in Commands
  /\ verdict' = "typed"
  /\ UNCHANGED booking

\* The record changes only on "booked".
Answer ==
  /\ verdict = "typed"
  /\ verdict' = Verdict(booking, nums)
  /\ booking' = IF verdict' = "booked" THEN Booked(booking, nums) ELSE booking
  /\ nums' = Empty

Next == Type \/ Answer
Spec == Init /\ [][Next]_vars

Answered == verdict = "typed" /\ verdict' # "typed"

-----------------------------------------------------------------------------
\* The limit of 15 items and the floor of 0 items (the two error messages of
\* main) hold of the stored record after any sequence of commands.
StaysValid == booking \in ValidBooking

\* The two loops of handle_read accept a command exactly when its exact result
\* is within the limits: the early break on a running total never refuses a
\* command that both messages would allow, and never lets one through.
AcceptsExactly ==
  [][Answered => (verdict' = "booked" <=> ExactResult(booking, nums) \in ValidBooking)]_vars
=============================================================================
