---------------------------- MODULE BookingRules ----------------------------
(***************************************************************************)
(* The arithmetic of one booking command, as write_server computes it      *)
(* (HW1/server.c, the two loops of handle_read's command branch).          *)
(*                                                                         *)
(* Here and in the other modules an operator marked "Slip" is a mistake    *)
(* that would be easy to make in the code.  No definition uses it: put in  *)
(* the place of the operator after it, it breaks a property.               *)
(***************************************************************************)
EXTENDS CIntegers

CONSTANT Limit   \* the most items a user may book in total: 15 in the code

ASSUME RulesAssumption ==
  /\ Limit \in Nat
  /\ IntMax \in Nat
  /\ 2 * Limit <= IntMax

\* Food, Concert, Electronics: bookingState[OBJ_NUM] of a record.
Objects == 1 .. 3
Booking == [Objects -> CInt]

\* The value of x + y in an int variable.
Add(x, y) ==
  LET sum == x + y
      range == 2 * (IntMax + 1)
  IN  IF sum > IntMax THEN sum - range
      ELSE IF sum < IntMin THEN sum + range
      ELSE sum

-----------------------------------------------------------------------------
\* The running value of "total" after the i-th turn of the first loop.
Total1(state, nums) == Add(state[1], nums[1])
Total2(state, nums) == Add(Add(Total1(state, nums), state[2]), nums[2])

\* Slip: the loop stops one object early.
Total3TwoTurns(state, nums) == Total2(state, nums)

Total3(state, nums) == Add(Add(Total2(state, nums), state[3]), nums[3])

\* The first loop: some running total is above the limit.
OverLimit(state, nums) ==
  \/ Total1(state, nums) > Limit
  \/ Total2(state, nums) > Limit
  \/ Total3(state, nums) > Limit

\* Slip: nothing may be left of an object.
BelowOne(state, nums) == \E i \in Objects : Add(state[i], nums[i]) <= 0

\* The second loop: some object would be booked a negative number of times.
BelowZero(state, nums) == \E i \in Objects : Add(state[i], nums[i]) < 0

\* The third loop: the record that is written back.
Booked(state, nums) == [i \in Objects |-> Add(state[i], nums[i])]

\* handle_read's return value for a well-formed command: the limit is tested
\* first, so it is the reason given when both tests fail.
Verdict(state, nums) ==
  CASE OverLimit(state, nums)                                -> "over"
    [] ~OverLimit(state, nums) /\ BelowZero(state, nums)     -> "below"
    [] ~OverLimit(state, nums) /\ ~BelowZero(state, nums)    -> "booked"

-----------------------------------------------------------------------------
\* What the server's messages promise, in exact arithmetic: nobody holds more
\* than Limit items in total or fewer than 0 of one kind.
ExactSum(b) == b[1] + b[2] + b[3]

ValidBooking == {b \in Booking : (\A i \in Objects : b[i] >= 0) /\ ExactSum(b) <= Limit}

ExactResult(state, nums) == [i \in Objects |-> state[i] + nums[i]]

\* Amounts no running total overflows upwards for, whatever valid booking they
\* are added to.
AmountsFit(nums) == \A i \in Objects : nums[i] <= IntMax - 2 * Limit
=============================================================================
