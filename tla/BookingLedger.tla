---------------------------- MODULE BookingLedger ---------------------------
(***************************************************************************)
(* What a write_server promises its clients: a record is edited in one     *)
(* session at a time; the session starts from the bookings on file, and    *)
(* the one command of the session is applied to exactly those bookings,    *)
(* completely or not at all.                                               *)
(***************************************************************************)
EXTENDS BookingRules

CONSTANTS
  Records,    \* the user ids
  Commands,   \* the booking commands
  OnDisk,     \* the bookings a record may hold at the start
  Free        \* the record is not being edited

VARIABLES
  book,       \* the bookings on file
  session     \* the bookings shown to the client that edits a record, or Free

ledger == <<book, session>>

LedgerInit == book \in [Records -> OnDisk] /\ session = [r \in Records |-> Free]

\* The client of record r is shown its bookings.
Open(r) ==
  /\ session[r] = Free
  /\ session' = [session EXCEPT ![r] = book[r]]
  /\ UNCHANGED book

\* Its command is carried out and the session ends.
Commit(r) ==
  /\ session[r] # Free
  /\ \E nums \in Commands :
       /\ Verdict(session[r], nums) = "booked"
       /\ book' = [book EXCEPT ![r] = Booked(session[r], nums)]
  /\ session' = [session EXCEPT ![r] = Free]

\* Sessions end without a booking: refused, left, or lost with the process.
Close(R) ==
  /\ \A r \in R : session[r] # Free
  /\ session' = [r \in Records |-> IF r \in R THEN Free ELSE session[r]]
  /\ UNCHANGED book

LedgerNext ==
  \/ \E r \in Records : Open(r) \/ Commit(r)
  \/ \E R \in SUBSET Records : Close(R)

LedgerSpec == LedgerInit /\ [][LedgerNext]_ledger
=============================================================================
