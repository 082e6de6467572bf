------------------------- MODULE BookingRulesProofs -------------------------
(***************************************************************************)
(* The two loops of write_server, for every limit and every size of int.   *)
(***************************************************************************)
EXTENDS BookingRules, TLAPS

\* The parts of a valid record, and of a record that is being changed: each of
\* the three sums the second loop forms is exact.
LEMMA Parts ==
  ASSUME NEW state \in ValidBooking, NEW nums \in Booking, AmountsFit(nums)
  PROVE  /\ \A i \in Objects : /\ state[i] \in 0 .. Limit
                               /\ nums[i] \in IntMin .. (IntMax - 2 * Limit)
                               /\ Add(state[i], nums[i]) = state[i] + nums[i]
         /\ state[1] + state[2] + state[3] <= Limit
<1>1. state \in Booking /\ (\A i \in Objects : state[i] >= 0) /\ ExactSum(state) <= Limit
  BY DEF ValidBooking
<1>2. \A i \in Objects : state[i] \in Int /\ nums[i] \in Int
  BY <1>1 DEF Booking, CInt, IntMin
<1>3. state[1] \in Nat /\ state[2] \in Nat /\ state[3] \in Nat
  BY <1>1, <1>2 DEF Objects
<1>4. state[1] + state[2] + state[3] <= Limit
  BY <1>1 DEF ExactSum
<1>5. \A i \in Objects : state[i] \in 0 .. Limit
  BY <1>3, <1>4, RulesAssumption DEF Objects
<1>6. \A i \in Objects : nums[i] \in IntMin .. (IntMax - 2 * Limit)
  BY RulesAssumption DEF AmountsFit, Booking, CInt, IntMin
<1>7. \A i \in Objects : Add(state[i], nums[i]) = state[i] + nums[i]
  BY <1>5, <1>6, RulesAssumption DEF Add, IntMin
<1> QED
  BY <1>4, <1>5, <1>6, <1>7

\* When no object falls below zero and no running total exceeds the limit, the
\* running totals are exact.
LEMMA TotalsAreExact ==
  ASSUME NEW state \in ValidBooking, NEW nums \in Booking, AmountsFit(nums),
         \A i \in Objects : state[i] + nums[i] >= 0
  PROVE  /\ Total1(state, nums) = state[1] + nums[1]
         /\ Total1(state, nums) <= Limit =>
              Total2(state, nums) = state[1] + nums[1] + state[2] + nums[2]
         /\ Total1(state, nums) <= Limit /\ Total2(state, nums) <= Limit =>
              Total3(state, nums) = state[1] + nums[1] + state[2] + nums[2] + state[3] + nums[3]
<1>1. /\ state[1] \in 0 .. Limit /\ state[2] \in 0 .. Limit /\ state[3] \in 0 .. Limit
      /\ nums[1] \in IntMin .. (IntMax - 2 * Limit)
      /\ nums[2] \in IntMin .. (IntMax - 2 * Limit)
      /\ nums[3] \in IntMin .. (IntMax - 2 * Limit)
      /\ state[1] + nums[1] >= 0 /\ state[2] + nums[2] >= 0 /\ state[3] + nums[3] >= 0
      /\ Total1(state, nums) = state[1] + nums[1]
  BY Parts DEF Objects, Total1
<1>2. ASSUME Total1(state, nums) <= Limit
      PROVE  Total2(state, nums) = state[1] + nums[1] + state[2] + nums[2]
  BY <1>1, <1>2, RulesAssumption DEF Total2, Add, IntMin
<1>3. ASSUME Total1(state, nums) <= Limit, Total2(state, nums) <= Limit
      PROVE  Total3(state, nums) = state[1] + nums[1] + state[2] + nums[2] + state[3] + nums[3]
  BY <1>1, <1>2, <1>3, RulesAssumption DEF Total3, Add, IntMin
<1> QED
  BY <1>1, <1>2, <1>3

\* A command whose amounts fit is booked exactly when its exact result is within
\* both limits: the early break of the first loop and the order of the two loops
\* decide nothing but the reason a refused client is given.
THEOREM VerdictIsExact ==
  ASSUME NEW state \in ValidBooking, NEW nums \in Booking, AmountsFit(nums)
  PROVE  Verdict(state, nums) = "booked" <=> ExactResult(state, nums) \in ValidBooking
<1>1. Verdict(state, nums) = "booked" <=> ~OverLimit(state, nums) /\ ~BelowZero(state, nums)
  BY DEF Verdict
<1>2. BelowZero(state, nums) <=> \E i \in Objects : state[i] + nums[i] < 0
  BY Parts DEF BelowZero
<1>3. \A i \in Objects : state[i] \in 0 .. Limit /\ nums[i] \in IntMin .. (IntMax - 2 * Limit)
  BY Parts
<1>4. CASE BelowZero(state, nums)
  BY <1>1, <1>2, <1>3, <1>4, RulesAssumption DEF ExactResult, ValidBooking, IntMin
<1>5. CASE ~BelowZero(state, nums)
  <2>1. \A i \in Objects : state[i] + nums[i] >= 0
    BY <1>2, <1>3, <1>5, RulesAssumption DEF IntMin
  <2>2. /\ 1 \in Objects /\ 2 \in Objects /\ 3 \in Objects
        /\ \A i \in Objects : i = 1 \/ i = 2 \/ i = 3
    BY DEF Objects
  <2>3. ExactSum(ExactResult(state, nums))
          = state[1] + nums[1] + state[2] + nums[2] + state[3] + nums[3]
    BY <1>3, <2>2, RulesAssumption DEF ExactSum, ExactResult, IntMin
  <2>4. ~OverLimit(state, nums) <=> ExactSum(ExactResult(state, nums)) <= Limit
    BY <1>3, <2>1, <2>2, <2>3, TotalsAreExact, RulesAssumption DEF OverLimit, IntMin
  <2>5. ASSUME ExactSum(ExactResult(state, nums)) <= Limit
        PROVE  ExactResult(state, nums) \in Booking
    <3>1. \A i \in Objects : state[i] + nums[i] \in 0 .. Limit
      BY <1>3, <2>1, <2>2, <2>3, <2>5, RulesAssumption DEF IntMin
    <3> QED
      BY <3>1, RulesAssumption DEF ExactResult, Booking, CInt, IntMin
  <2>6. \A i \in Objects : ExactResult(state, nums)[i] >= 0
    BY <2>1 DEF ExactResult
  <2> QED
    BY <1>1, <1>5, <2>4, <2>5, <2>6 DEF ValidBooking
<1> QED
  BY <1>4, <1>5

\* What is written to the file is the exact result, so a booked command leaves a
\* valid record behind.
THEOREM BookedIsValid ==
  ASSUME NEW state \in ValidBooking, NEW nums \in Booking, AmountsFit(nums),
         Verdict(state, nums) = "booked"
  PROVE  Booked(state, nums) \in ValidBooking
<1>1. Booked(state, nums) = ExactResult(state, nums)
  BY Parts DEF Booked, ExactResult
<1> QED
  BY <1>1, VerdictIsExact
=============================================================================
