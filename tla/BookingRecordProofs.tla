------------------------ MODULE BookingRecordProofs ------------------------
(***************************************************************************)
(* One record under any sequence of commands, for every limit and every    *)
(* size of int.                                                            *)
(***************************************************************************)
EXTENDS MCBookingRules, BookingRulesProofs

\* The stored record is valid, and what has been typed can be added up.
IInv == booking \in ValidBooking /\ nums \in Booking /\ AmountsFit(nums)

LEMMA EmptyIsValid == Empty \in ValidBooking /\ Empty \in Booking /\ AmountsFit(Empty)
<1>1. Empty \in Booking
  BY RulesAssumption DEF Empty, Booking, CInt, IntMin
<1>2. \A i \in Objects : Empty[i] = 0
  BY DEF Empty
<1>3. ExactSum(Empty) = 0
  BY <1>2 DEF ExactSum, Objects
<1>4. QED
  BY <1>1, <1>2, <1>3, RulesAssumption DEF ValidBooking, AmountsFit

LEMMA TypedFits ==
  ASSUME Amounts \subseteq FittingAmounts, NEW n \in Commands
  PROVE  n \in Booking /\ AmountsFit(n)
<1>1. \A i \in Objects : n[i] \in IntMin .. (IntMax - 2 * Limit)
  BY DEF Commands, FittingAmounts
<1>2. \A i \in Objects : n[i] \in CInt
  BY <1>1, RulesAssumption DEF CInt, IntMin
<1>3. n \in Booking
  BY <1>2 DEF Commands, Booking
<1>4. QED
  BY <1>1, <1>3, RulesAssumption DEF AmountsFit, IntMin

LEMMA RecordInv ==
  ASSUME Amounts \subseteq FittingAmounts
  PROVE  Spec => []IInv
<1>1. Init => IInv
  BY EmptyIsValid DEF Init, IInv
<1>2. IInv /\ [Next]_vars => IInv'
  <2> SUFFICES ASSUME IInv, [Next]_vars PROVE IInv'
    OBVIOUS
  <2>1. CASE Type
    <3>1. nums' \in Commands /\ booking' = booking
      BY <2>1 DEF Type
    <3>2. nums' \in Booking /\ AmountsFit(nums')
      BY <3>1, TypedFits
    <3>3. QED
      BY <3>1, <3>2 DEF IInv, ValidBooking, Booking, AmountsFit
  <2>2. CASE Answer
    <3>1. nums' = Empty /\ nums' \in Booking /\ AmountsFit(nums')
      BY <2>2, EmptyIsValid DEF Answer
    <3>2. booking' \in ValidBooking
      <4>1. CASE verdict' = "booked"
        BY <2>2, <4>1, BookedIsValid DEF Answer, IInv
      <4>2. CASE verdict' # "booked"
        BY <2>2, <4>2 DEF Answer, IInv
      <4>3. QED
        BY <4>1, <4>2
    <3>3. QED
      BY <3>1, <3>2 DEF IInv, ValidBooking, Booking, AmountsFit
  <2>3. CASE UNCHANGED vars
    BY <2>3 DEF IInv, vars, ValidBooking, Booking, AmountsFit
  <2>4. QED
    BY <2>1, <2>2, <2>3 DEF Next
<1>3. QED
  BY <1>1, <1>2, PTL DEF Spec

\* The limit and the floor of a record hold after any sequence of commands whose
\* amounts fit, for every limit and every size of int.
THEOREM RecordStaysValid ==
  ASSUME Amounts \subseteq FittingAmounts
  PROVE  Spec => []StaysValid
<1>1. IInv => StaysValid
  BY DEF IInv, StaysValid
<1>2. QED
  BY <1>1, RecordInv, PTL

\* After any sequence of commands the two loops accept the next one exactly when
\* its exact result is within the limits.
THEOREM CommandsAcceptedExactly ==
  ASSUME Amounts \subseteq FittingAmounts
  PROVE  Spec => AcceptsExactly
<1>1. IInv /\ [Next]_vars
        => [Answered => (verdict' = "booked" <=> ExactResult(booking, nums) \in ValidBooking)]_vars
  <2> SUFFICES ASSUME IInv, Next, Answered
               PROVE  verdict' = "booked" <=> ExactResult(booking, nums) \in ValidBooking
    BY DEF vars
  <2>1. ~Type
    BY DEF Answered, Type
  <2>2. Answer
    BY <2>1 DEF Next
  <2>3. QED
    BY <2>2, VerdictIsExact DEF Answer, IInv
<1>2. QED
  BY <1>1, RecordInv, PTL DEF Spec, AcceptsExactly
=============================================================================
