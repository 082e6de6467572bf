-------------------------- MODULE BookingRefinement -------------------------
(***************************************************************************)
(* One write_server, among any number of read_servers, implements          *)
(* BookingLedger.  (Several do not: see OneWriter in BookingServer.)       *)
(***************************************************************************)
EXTENDS BookingServer

CONSTANT Free

ASSUME FreeAssumption == Free \notin Booking

\* Connection i of s shows bookings of r that its command will be applied to.
Edits(s, i, r) ==
  /\ InSession(s, i, r)
  /\ ~AwaitsId(s, i)
  /\ ~(pc[s] = "reply" /\ Turn(s, i))

Editors(r) == {e \in WriteServers \X Slots : Edits(e[1], e[2], r)}

Session ==
  [r \in Records |->
     IF Editors(r) = {} THEN Free
     ELSE LET e == CHOOSE e \in Editors(r) : TRUE IN shown[e[1]][e[2]]]

Ledger == INSTANCE BookingLedger WITH book <- file, session <- Session

\* Every step of the servers is a step of the ledger or leaves it alone: a
\* command is applied, as a whole, to the bookings its client was shown.
ImplementsLedger == Ledger!LedgerSpec
=============================================================================
