------------------------- MODULE BookingServerProofs ------------------------
(***************************************************************************)
(* What holds of read_server and write_server processes for any number of  *)
(* processes, connections, records and commands: the limits of the stored  *)
(* bookings, what self_lock and the kernel's locks guarantee (a lock for   *)
(* every session, a session for every lock when clients take leave),       *)
(* bookings on the client's screen that are those on file (when one        *)
(* write_server runs).  From this follows that one write_server implements *)
(* the ledger: every step of the processes is a step of BookingLedger or   *)
(* leaves the ledger alone.                                                *)
(***************************************************************************)
EXTENDS BookingRefinement, BookingRulesProofs, FiniteSetTheorems

\* No client types an amount that overflows an int upwards: without it even one
\* write_server books more than the limit (MCBookingRules, StaysValid).
CommandsFit == \A nums \in Commands : AmountsFit(nums)

-----------------------------------------------------------------------------
(***************************************************************************)
(* The inductive invariant.                                                *)
(***************************************************************************)

\* Only open connections are served in a pass.
ServesLive ==
  \A s \in Servers : \A i \in revents[s] : requestP[s][i].live

\* A process in the middle of a session works for a connection with an id.
BusyHasId ==
  \A s \in Servers, i \in Slots :
    pc[s] \in {"lock", "view", "write", "reply"} /\ Turn(s, i) => requestP[s][i].id \in Records

\* Past the first branch of handle_read the connection has an id, and it has
\* got past the lock and the view of its record.
SecondLineHasId ==
  \A s \in Servers, i \in Slots :
    requestP[s][i].live /\ ~AwaitsId(s, i)
      => requestP[s][i].id \in Records /\ ~(pc[s] \in {"lock", "view"} /\ Turn(s, i))

\* What is about to be written to the file is within the limits.
TempValid == \A s \in Servers : pc[s] = "write" => temp[s] \in ValidBooking

Inv == TypeOK /\ ServesLive /\ BusyHasId /\ SecondLineHasId

\* With what the file holds, which depends on the commands.
IInv == Inv /\ TempValid /\ RecordsValid

-----------------------------------------------------------------------------
(***************************************************************************)
(* Lemmas about the operators.                                             *)
(***************************************************************************)

LEMMA BlankIsValid == Blank \in ValidBooking
BY RulesAssumption DEF Blank, ValidBooking, Booking, CInt, IntMin, Objects, ExactSum

LEMMA BookedType ==
  ASSUME NEW state \in Booking, NEW nums \in Booking
  PROVE  Booked(state, nums) \in Booking
<1>1. \A x, y \in CInt : Add(x, y) \in CInt
  BY RulesAssumption DEF CInt, IntMin, Add
<1> QED
  BY <1>1 DEF Booked, Booking

\* What the kinds of a message say of its parts.
LEMMA MessageParts ==
  ASSUME NEW m \in Messages \cup {Nothing}
  PROVE  /\ m.kind = "id" => m.id \in Records
         /\ m.kind = "command" => m.nums \in Commands
<1>1. CASE m = Nothing
  BY <1>1 DEF Nothing
<1>2. CASE \E r \in Records : m = IdLine(r)
  BY <1>2 DEF IdLine
<1>3. CASE \E n \in Commands : m = CommandLine(n)
  BY <1>3 DEF CommandLine
<1>4. CASE \E w \in Words : m = Word(w)
  <2>1. PICK w \in Words : m = Word(w)
    BY <1>4
  <2>2. m.kind = w
    BY <2>1 DEF Word
  <2>3. w # "id" /\ w # "command"
    BY ServerAssumption
  <2> QED
    BY <2>2, <2>3
<1> QED
  BY <1>1, <1>2, <1>3, <1>4 DEF Messages

LEMMA InitRequestType == InitRequest \in RequestType
BY DEF InitRequest, RequestType

LEMMA NoSocketType == NoSocket \in SocketType
BY DEF NoSocket, SocketType

LEMMA FreeRequestType ==
  ASSUME NEW rq \in RequestType
  PROVE  /\ FreeRequest(rq) \in RequestType
         /\ ~FreeRequest(rq).live
BY DEF FreeRequest, RequestType

LEMMA AfterRefusalType ==
  ASSUME NEW s \in Servers, NEW rq \in RequestType
  PROVE  AfterRefusal(s, rq) \in RequestType /\ ~AfterRefusal(s, rq).live
BY DEF AfterRefusal, FreeRequest, RequestType

LEMMA AfterType ==
  ASSUME NEW peer, NEW k
  PROVE  After(peer, k) \subseteq {"open", "fin", "dead"}
BY DEF After

\* mylock_function keeps the types of the two lock tables.
LEMMA LockFunctionType ==
  ASSUME TypeOK, NEW s \in Servers, NEW r \in Records, NEW type \in LockTypes,
         LockFunction(s, r, type)
  PROVE  /\ self_lock' \in [Servers -> [Records -> Int]]
         /\ flock' \in [Servers -> [Records -> LockTypes]]
<1>1. SetLk(flock, s, r, type) \in [Servers -> [Records -> LockTypes]]
  BY DEF TypeOK, SetLk
<1>2. self_lock[s][r] \in Int
  BY DEF TypeOK
<1>3. CASE s \in WriteServers
  <2> DEFINE count == IF type = "F_UNLCK" THEN 0 ELSE 1
  <2>1. count \in Int
    OBVIOUS
  <2>2. self_lock' = [self_lock EXCEPT ![s][r] = count] /\ flock' = SetLk(flock, s, r, type)
    BY <1>3 DEF LockFunction
  <2> HIDE DEF count
  <2> QED
    BY <1>1, <2>1, <2>2 DEF TypeOK
<1>4. CASE s \notin WriteServers
  <2> DEFINE readers == IF type = "F_UNLCK" THEN self_lock[s][r] - 1 ELSE self_lock[s][r] + 1
  <2>1. readers \in Int
    BY <1>2
  <2>2. /\ self_lock' = [self_lock EXCEPT ![s][r] = readers]
        /\ flock' \in {flock, SetLk(flock, s, r, type)}
    BY <1>4 DEF LockFunction
  <2> HIDE DEF readers
  <2> QED
    BY <1>1, <2>1, <2>2 DEF TypeOK
<1> QED
  BY <1>3, <1>4

-----------------------------------------------------------------------------
(***************************************************************************)
(* The steps that every way out of a connection is made of.                *)
(***************************************************************************)

\* A process that goes down forgets everything.
LEMMA DownKeepsInv ==
  ASSUME Inv, NEW s \in Servers, Down(s)
  PROVE  Inv'
<1> USE DEF Inv
<1>1. TypeOK'
  <2>1. [r \in DOMAIN flock[s] |-> "F_UNLCK"] \in [Records -> LockTypes]
    BY DEF TypeOK, LockTypes
  <2>2. flock' \in [Servers -> [Records -> LockTypes]]
    BY <2>1 DEF TypeOK, Down, DropAll
  <2>3. Blank \in Booking
    BY BlankIsValid DEF ValidBooking
  <2>4. self_lock' \in [Servers -> [Records -> Int]]
    BY DEF TypeOK, Down
  <2>5. requestP' \in [Servers -> [Slots -> RequestType]] /\ sock' \in [Servers -> [Slots -> SocketType]]
    BY InitRequestType, NoSocketType DEF TypeOK, Down
  <2> QED
    BY <2>2, <2>3, <2>4, <2>5 DEF TypeOK, Down
<1>2. ServesLive'
  BY DEF ServesLive, Down, TypeOK
<1>3. BusyHasId'
  BY DEF BusyHasId, Turn, Down, TypeOK
<1>4. SecondLineHasId'
  BY DEF SecondLineHasId, AwaitsId, Turn, Down, TypeOK, InitRequest
<1> QED
  BY <1>1, <1>2, <1>3, <1>4

\* A connection that is closed leaves the others alone.
LEMMA CloseKeepsInv ==
  ASSUME Inv, NEW s \in Servers, NEW i \in Slots,
         NEW rq \in RequestType, ~rq.live, Close(s, i, rq),
         self_lock' \in [Servers -> [Records -> Int]],
         flock' \in [Servers -> [Records -> LockTypes]]
  PROVE  Inv'
<1> USE DEF Inv
<1>1. TypeOK'
  <2>1. Blank \in Booking
    BY BlankIsValid DEF ValidBooking
  <2>2. requestP' \in [Servers -> [Slots -> RequestType]] /\ sock' \in [Servers -> [Slots -> SocketType]]
    BY NoSocketType DEF TypeOK, Close
  <2>3. revents' \in [Servers -> SUBSET Slots]
        /\ pc' \in [Servers -> {"loop", "lock", "view", "write", "reply", "down"}]
    BY DEF TypeOK, Close, NextSlot
  <2> QED
    BY <2>1, <2>2, <2>3 DEF TypeOK, Close
<1>2. ServesLive'
  BY DEF ServesLive, Close, NextSlot, TypeOK
<1>3. BusyHasId'
  BY DEF BusyHasId, Turn, Close, NextSlot, TypeOK
<1>4. SecondLineHasId'
  BY DEF SecondLineHasId, AwaitsId, Turn, Close, NextSlot, TypeOK
<1> QED
  BY <1>1, <1>2, <1>3, <1>4

LEMMA RefuseKeepsInv ==
  ASSUME Inv, NEW s \in Servers, NEW i \in Slots, Refuse(s, i),
         self_lock' \in [Servers -> [Records -> Int]],
         flock' \in [Servers -> [Records -> LockTypes]]
  PROVE  Inv'
<1>1. requestP[s][i] \in RequestType
  BY DEF Inv, TypeOK
<1> QED
  BY <1>1, AfterRefusalType, CloseKeepsInv DEF Refuse

LEMMA UnlockType ==
  ASSUME Inv, NEW s \in Servers, NEW i \in Slots, requestP[s][i].id \in Records, Unlock(s, i)
  PROVE  /\ self_lock' \in [Servers -> [Records -> Int]]
         /\ flock' \in [Servers -> [Records -> LockTypes]]
BY LockFunctionType DEF Unlock, Inv, LockTypes

LEMMA KeepLocksType ==
  ASSUME Inv, KeepLocks
  PROVE  /\ self_lock' \in [Servers -> [Records -> Int]]
         /\ flock' \in [Servers -> [Records -> LockTypes]]
BY DEF KeepLocks, Inv, TypeOK

-----------------------------------------------------------------------------
(***************************************************************************)
(* The ways a session ends.                                                *)
(***************************************************************************)

LEMMA EndingsKeepInv ==
  ASSUME Inv, NEW s \in Servers, NEW i \in Slots,
         \/ ReadEOF(s, i) \/ ReadCtrlC(s, i) \/ ReadPartial(s, i)
         \/ ReadBadId(s, i) \/ ReadLockedId(s, i)
         \/ ReadExit(s, i) \/ ReadNotExit(s, i)
         \/ ReadBadCommand(s, i) \/ ReadExcess(s, i)
         \/ Reply(s, i)
  PROVE  Inv'
<1>1. ASSUME Down(s) PROVE Inv'
  BY <1>1, DownKeepsInv
<1>2. ASSUME Refuse(s, i), KeepLocks PROVE Inv'
  BY <1>2, RefuseKeepsInv, KeepLocksType
<1>3. ASSUME Refuse(s, i), Unlock(s, i), requestP[s][i].id \in Records PROVE Inv'
  BY <1>3, RefuseKeepsInv, UnlockType
<1>4. ASSUME NEW buf \in {"Exit", "bookings"}, Unlock(s, i), requestP[s][i].id \in Records,
             Close(s, i, [FreeRequest(requestP[s][i]) EXCEPT !.buf = buf])
      PROVE  Inv'
  <2> DEFINE rq == [FreeRequest(requestP[s][i]) EXCEPT !.buf = buf]
  <2>1. FreeRequest(requestP[s][i]) \in RequestType /\ ~FreeRequest(requestP[s][i]).live
    BY FreeRequestType DEF Inv, TypeOK
  <2>2. rq \in RequestType /\ ~rq.live
    BY <2>1 DEF RequestType
  <2> QED
    BY <1>4, <2>2, CloseKeepsInv, UnlockType
<1>5. requestP[s][i].id \in Records \cup {NoId}
  BY DEF Inv, TypeOK, RequestType
<1>6. ASSUME Reading(s, i), ~AwaitsId(s, i) PROVE requestP[s][i].id \in Records
  BY <1>6 DEF Inv, ServesLive, SecondLineHasId, Reading, Turn
<1>7. CASE ReadEOF(s, i) \/ ReadBadId(s, i) \/ ReadLockedId(s, i) \/ ReadNotExit(s, i)
  BY <1>1, <1>2, <1>7 DEF ReadEOF, ReadBadId, ReadLockedId, ReadNotExit, Writing
<1>8. CASE ReadCtrlC(s, i)
  BY <1>2, <1>3, <1>5, <1>8 DEF ReadCtrlC
<1>9. CASE ReadPartial(s, i)
  BY <1>1, <1>9 DEF ReadPartial
<1>10. CASE ReadExit(s, i)
  BY <1>4, <1>6, <1>10 DEF ReadExit, Input
<1>11. CASE ReadBadCommand(s, i) \/ ReadExcess(s, i)
  BY <1>1, <1>3, <1>6, <1>11 DEF ReadBadCommand, ReadExcess, Writing, Line, Input, Reading
<1>12. CASE Reply(s, i)
  <2>1. requestP[s][i].id \in Records
    BY <1>12 DEF Reply, Inv, BusyHasId
  <2> QED
    BY <1>1, <1>4, <1>12, <2>1 DEF Reply, Writing
<1> QED
  BY <1>7, <1>8, <1>9, <1>10, <1>11, <1>12

-----------------------------------------------------------------------------
(***************************************************************************)
(* The steps of a session.                                                 *)
(***************************************************************************)

\* A step of s for connection i leaves rq in its request and p in its pc; it is
\* either the middle of a session (p # "loop") or the end of the turn.
StepsTo(s, i, rq, p) ==
  /\ Turn(s, i)
  /\ requestP' = [requestP EXCEPT ![s][i] = rq]
  /\ \/ p # "loop" /\ pc' = [pc EXCEPT ![s] = p] /\ revents' = revents
     \/ p = "loop" /\ NextSlot(s, i)

LEMMA StepType ==
  ASSUME TypeOK, NEW s \in Servers, NEW i \in Slots, NEW rq \in RequestType,
         NEW p \in {"loop", "lock", "view", "write", "reply"}, StepsTo(s, i, rq, p)
  PROVE  /\ requestP' \in [Servers -> [Slots -> RequestType]]
         /\ revents' \in [Servers -> SUBSET Slots]
         /\ pc' \in [Servers -> {"loop", "lock", "view", "write", "reply", "down"}]
<1>1. /\ requestP \in [Servers -> [Slots -> RequestType]]
      /\ revents \in [Servers -> SUBSET Slots]
      /\ pc \in [Servers -> {"loop", "lock", "view", "write", "reply", "down"}]
  BY DEF TypeOK
<1>2. requestP' \in [Servers -> [Slots -> RequestType]]
  BY <1>1 DEF StepsTo
<1>3. revents' \in [Servers -> SUBSET Slots]
  BY <1>1 DEF StepsTo, NextSlot
<1>4. pc' \in [Servers -> {"loop", "lock", "view", "write", "reply", "down"}]
  BY <1>1 DEF StepsTo, NextSlot
<1>5. QED
  BY <1>2, <1>3, <1>4

LEMMA StepKeepsOrder ==
  ASSUME Inv, NEW s \in Servers, NEW i \in Slots, NEW rq \in RequestType,
         NEW p \in {"loop", "lock", "view", "write", "reply"}, StepsTo(s, i, rq, p),
         rq.live = requestP[s][i].live,
         p # "loop" => rq.id \in Records,
         rq.live /\ (IF s \in WriteServers THEN rq.wait_for_write = 0 ELSE rq.done = 1)
           => rq.id \in Records /\ p \notin {"lock", "view"}
  PROVE  ServesLive' /\ BusyHasId' /\ SecondLineHasId'
<1>1. \A t \in Servers, j \in Slots :
        requestP'[t][j] = IF t = s /\ j = i THEN rq ELSE requestP[t][j]
  BY DEF Inv, TypeOK, StepsTo
<1>2. \A t \in Servers :
        /\ pc'[t] = IF t = s THEN p ELSE pc[t]
        /\ t # s \/ p # "loop" => revents'[t] = revents[t]
        /\ revents'[t] \subseteq revents[t]
  BY DEF Inv, TypeOK, StepsTo, NextSlot
<1>3. \A t \in Servers : revents[t] \subseteq Slots
  BY DEF Inv, TypeOK
<1>4. \A j \in Slots : Turn(s, j) => j = i
  <2>1. \A j, k \in Slots : j <= k /\ k <= j => j = k
    BY ServerAssumption DEF Slots
  <2> QED
    BY <2>1 DEF StepsTo, Turn
<1>5. rq.wait_for_write \in {0, 1} /\ rq.done \in {0, 1}
  BY DEF RequestType
<1>6. ServesLive'
  BY <1>1, <1>2, <1>3 DEF Inv, ServesLive
<1>7. ASSUME NEW t \in Servers, NEW j \in Slots, Turn(t, j)', t # s \/ p # "loop"
      PROVE  Turn(t, j)
  BY <1>2, <1>7 DEF Turn
<1>8. BusyHasId'
  <2> SUFFICES ASSUME NEW t \in Servers, NEW j \in Slots,
                      pc'[t] \in {"lock", "view", "write", "reply"}, Turn(t, j)'
               PROVE  requestP'[t][j].id \in Records
    BY DEF BusyHasId
  <2>1. CASE t = s
    BY <1>1, <1>2, <1>4, <1>7, <2>1
  <2>2. CASE t # s
    BY <1>1, <1>2, <1>7, <2>2 DEF Inv, BusyHasId
  <2> QED
    BY <2>1, <2>2
<1>9. SecondLineHasId'
  <2> SUFFICES ASSUME NEW t \in Servers, NEW j \in Slots,
                      requestP'[t][j].live, ~AwaitsId(t, j)'
               PROVE  requestP'[t][j].id \in Records /\ ~(pc'[t] \in {"lock", "view"} /\ Turn(t, j)')
    BY DEF SecondLineHasId
  <2>1. CASE t = s /\ j = i
    <3>1. requestP'[t][j] = rq /\ pc'[t] = p
      BY <1>1, <1>2, <2>1
    <3>2. IF s \in WriteServers THEN rq.wait_for_write = 0 ELSE rq.done = 1
      BY <1>5, <2>1, <3>1 DEF AwaitsId
    <3> QED
      BY <2>1, <3>1, <3>2
  <2>2. CASE ~(t = s /\ j = i)
    <3>1. requestP'[t][j] = requestP[t][j]
      BY <1>1, <2>2
    <3>2. requestP[t][j].id \in Records /\ ~(pc[t] \in {"lock", "view"} /\ Turn(t, j))
      BY <3>1 DEF Inv, SecondLineHasId, AwaitsId
    <3>3. CASE t = s
      BY <1>2, <1>4, <1>7, <2>2, <3>1, <3>2, <3>3
    <3>4. CASE t # s
      BY <1>2, <1>7, <3>1, <3>2, <3>4
    <3> QED
      BY <3>3, <3>4
  <2> QED
    BY <2>1, <2>2
<1> QED
  BY <1>6, <1>8, <1>9

LEMMA CheckIdKeepsInv ==
  ASSUME Inv, NEW s \in Servers, NEW i \in Slots, CheckId(s, i)
  PROVE  Inv'
<1> DEFINE rq == [requestP[s][i] EXCEPT !.id = sock[s][i].inbox.id]
<1>1. TypeOK /\ requestP[s][i] \in RequestType /\ sock[s][i] \in SocketType
  BY DEF Inv, TypeOK
<1>2. sock[s][i].inbox.id \in Records
  BY <1>1, MessageParts DEF SocketType, CheckId, Input
<1>3. rq \in RequestType /\ rq.live = requestP[s][i].live /\ rq.id \in Records
      /\ rq.wait_for_write = requestP[s][i].wait_for_write /\ rq.done = requestP[s][i].done
  BY <1>1, <1>2 DEF RequestType
<1>4. requestP' = [requestP EXCEPT ![s][i] = rq]
  BY DEF CheckId
<1> HIDE DEF rq
<1>5. StepsTo(s, i, rq, "lock")
  BY <1>4 DEF CheckId, Input, Reading, StepsTo
<1>6. ServesLive' /\ BusyHasId' /\ SecondLineHasId'
  BY <1>3, <1>5, StepKeepsOrder DEF Inv, CheckId, AwaitsId
<1>7. sock' \in [Servers -> [Slots -> SocketType]]
  <2>1. [sock[s][i] EXCEPT !.inbox = Nothing] \in SocketType
    BY <1>1 DEF SocketType
  <2> QED
    BY <1>1, <2>1 DEF CheckId, Consume, TypeOK
<1>8. TypeOK'
  BY <1>1, <1>3, <1>5, <1>7, StepType DEF TypeOK, CheckId
<1> QED
  BY <1>6, <1>8 DEF Inv

LEMMA LockIdKeepsInv ==
  ASSUME Inv, NEW s \in Servers, NEW i \in Slots, LockId(s, i)
  PROVE  Inv'
<1> DEFINE rq == requestP[s][i]
           type == IF s \in WriteServers THEN "F_WRLCK" ELSE "F_RDLCK"
<1>1. TypeOK /\ rq \in RequestType /\ rq.id \in Records
  BY DEF Inv, TypeOK, BusyHasId, LockId
<1>2. requestP' = [requestP EXCEPT ![s][i] = rq]
  BY <1>1 DEF TypeOK, LockId
<1>3. type \in LockTypes
  BY DEF LockTypes
<1>4. LockFunction(s, rq.id, type)
  BY DEF LockId
<1> HIDE DEF type
<1>5. StepsTo(s, i, rq, "view")
  BY <1>2 DEF LockId, StepsTo
<1>6. ServesLive' /\ BusyHasId' /\ SecondLineHasId'
  <2>1. rq.live => AwaitsId(s, i)
    BY DEF Inv, SecondLineHasId, LockId
  <2> QED
    BY <1>1, <1>5, <2>1, StepKeepsOrder DEF AwaitsId
<1>7. TypeOK'
  BY <1>1, <1>3, <1>4, <1>5, StepType, LockFunctionType DEF TypeOK, LockId
<1> QED
  BY <1>6, <1>7 DEF Inv

LEMMA ViewRecordKeepsInv ==
  ASSUME Inv, NEW s \in Servers, NEW i \in Slots, ViewRecord(s, i)
  PROVE  Inv'
<1> DEFINE rq == IF s \in WriteServers
                 THEN [requestP[s][i] EXCEPT !.buf = "bookings", !.wait_for_write = 0]
                 ELSE [requestP[s][i] EXCEPT !.buf = "bookings", !.done = 1]
<1>1. TypeOK /\ requestP[s][i] \in RequestType /\ sock[s][i] \in SocketType
      /\ requestP[s][i].id \in Records
  BY DEF Inv, TypeOK, BusyHasId, ViewRecord
<1>2. CASE Down(s)
  BY <1>2, DownKeepsInv
<1>3. CASE ~Down(s)
  <2>1. /\ requestP' = IF s \in WriteServers
                       THEN [requestP EXCEPT ![s][i].buf = "bookings", ![s][i].wait_for_write = 0]
                       ELSE [requestP EXCEPT ![s][i].buf = "bookings", ![s][i].done = 1]
        /\ shown' = [shown EXCEPT ![s][i] = file[requestP[s][i].id]]
        /\ \E peer \in After(sock[s][i].peer, 2) : sock' = [sock EXCEPT ![s][i].peer = peer]
        /\ NextSlot(s, i)
        /\ UNCHANGED <<file, flock, self_lock, temp>>
    BY <1>3 DEF ViewRecord, Writing
  <2>2. rq \in RequestType /\ rq.live = requestP[s][i].live /\ rq.id = requestP[s][i].id
    BY <1>1 DEF RequestType
  <2>3. requestP' = [requestP EXCEPT ![s][i] = rq]
    <3>0. requestP \in [Servers -> [Slots -> RequestType]]
      BY <1>1 DEF TypeOK
    <3>1. CASE s \in WriteServers
      <4>1. requestP' = [requestP EXCEPT ![s][i].buf = "bookings", ![s][i].wait_for_write = 0]
        BY <2>1, <3>1
      <4>2. rq = [requestP[s][i] EXCEPT !.buf = "bookings", !.wait_for_write = 0]
        BY <3>1
      <4>3. QED
        BY <3>0, <4>1, <4>2
    <3>2. CASE s \notin WriteServers
      <4>1. requestP' = [requestP EXCEPT ![s][i].buf = "bookings", ![s][i].done = 1]
        BY <2>1, <3>2
      <4>2. rq = [requestP[s][i] EXCEPT !.buf = "bookings", !.done = 1]
        BY <3>2
      <4>3. QED
        BY <3>0, <4>1, <4>2
    <3>3. QED
      BY <3>1, <3>2
  <2> HIDE DEF rq
  <2>4. StepsTo(s, i, rq, "loop")
    BY <2>1, <2>3 DEF ViewRecord, StepsTo
  <2>5. ServesLive' /\ BusyHasId' /\ SecondLineHasId'
    BY <1>1, <2>2, <2>4, StepKeepsOrder DEF Inv
  <2>6. sock' \in [Servers -> [Slots -> SocketType]]
    <3>1. PICK peer \in After(sock[s][i].peer, 2) : sock' = [sock EXCEPT ![s][i].peer = peer]
      BY <2>1
    <3>2. [sock[s][i] EXCEPT !.peer = peer] \in SocketType
      BY <1>1, AfterType DEF SocketType
    <3> QED
      BY <1>1, <3>1, <3>2 DEF TypeOK
  <2>7. TypeOK'
    BY <1>1, <2>1, <2>2, <2>4, <2>6, StepType DEF TypeOK
  <2> QED
    BY <2>5, <2>7 DEF Inv
<1> QED
  BY <1>2, <1>3

LEMMA ReadCommandKeepsInv ==
  ASSUME Inv, NEW s \in Servers, NEW i \in Slots, ReadCommand(s, i)
  PROVE  Inv'
<1> DEFINE rq == requestP[s][i]
           nums == sock[s][i].inbox.nums
<1>1. TypeOK /\ rq \in RequestType /\ sock[s][i] \in SocketType
  BY DEF Inv, TypeOK
<1>2. rq.id \in Records
  BY DEF Inv, ServesLive, SecondLineHasId, ReadCommand, Input, Reading, Turn
<1>3. nums \in Booking
  BY <1>1, MessageParts, ServerAssumption DEF SocketType, ReadCommand, Input
<1>4. Booked(file[rq.id], nums) \in Booking
  BY <1>1, <1>2, <1>3, BookedType DEF TypeOK
<1>5. temp' = [temp EXCEPT ![s] = Booked(file[rq.id], nums)]
  BY DEF ReadCommand
<1>6. requestP' = [requestP EXCEPT ![s][i] = rq]
  BY <1>1 DEF TypeOK, ReadCommand
<1>7. StepsTo(s, i, rq, "write")
  BY <1>6 DEF ReadCommand, Input, Reading, StepsTo
<1>8. ServesLive' /\ BusyHasId' /\ SecondLineHasId'
  BY <1>1, <1>2, <1>7, StepKeepsOrder
<1>9. sock' \in [Servers -> [Slots -> SocketType]]
  <2>1. [sock[s][i] EXCEPT !.inbox = Nothing] \in SocketType
    BY <1>1 DEF SocketType
  <2> QED
    BY <1>1, <2>1 DEF ReadCommand, Consume, TypeOK
<1>10. TypeOK'
  <2>1. temp' \in [Servers -> Booking]
    BY <1>1, <1>4, <1>5 DEF TypeOK
  <2> QED
    BY <1>1, <1>7, <1>9, <2>1, StepType DEF TypeOK, ReadCommand
<1> QED
  BY <1>8, <1>10 DEF Inv

LEMMA WriteRecordKeepsInv ==
  ASSUME Inv, NEW s \in Servers, NEW i \in Slots, WriteRecord(s, i)
  PROVE  Inv'
<1> DEFINE rq == requestP[s][i]
<1>1. TypeOK /\ rq \in RequestType /\ rq.id \in Records
  BY DEF Inv, TypeOK, BusyHasId, WriteRecord
<1>2. temp[s] \in Booking /\ Blank \in Booking
  BY <1>1, BlankIsValid DEF TypeOK, ValidBooking
<1>3. requestP' = [requestP EXCEPT ![s][i] = rq]
  BY <1>1 DEF TypeOK, WriteRecord
<1>4. StepsTo(s, i, rq, "reply")
  BY <1>3 DEF WriteRecord, StepsTo
<1>5. ServesLive' /\ BusyHasId' /\ SecondLineHasId'
  BY <1>1, <1>4, StepKeepsOrder DEF Inv
<1>6. TypeOK'
  BY <1>1, <1>2, <1>4, StepType DEF TypeOK, WriteRecord
<1> QED
  BY <1>5, <1>6 DEF Inv

LEMMA ReadFailsKeepsInv ==
  ASSUME Inv, NEW s \in Servers, NEW i \in Slots, ReadFails(s, i)
  PROVE  Inv'
<1> DEFINE rq == requestP[s][i]
<1>1. TypeOK /\ rq \in RequestType /\ sock[s][i] \in SocketType
  BY DEF Inv, TypeOK
<1>2. requestP' = [requestP EXCEPT ![s][i] = rq]
  BY <1>1 DEF TypeOK, ReadFails
<1>3. StepsTo(s, i, rq, "loop")
  BY <1>2 DEF ReadFails, NoInput, Reading, StepsTo
<1>4. requestP[s][i].live => AwaitsId(s, i) \/ rq.id \in Records
  BY DEF Inv, SecondLineHasId
<1>5. ServesLive' /\ BusyHasId' /\ SecondLineHasId'
  BY <1>1, <1>3, <1>4, StepKeepsOrder DEF Inv, AwaitsId
<1>6. sock' \in [Servers -> [Slots -> SocketType]]
  <2>1. [sock[s][i] EXCEPT !.peer = "dead"] \in SocketType
    BY <1>1 DEF SocketType
  <2> QED
    BY <1>1, <2>1 DEF ReadFails, TypeOK
<1>7. TypeOK'
  BY <1>1, <1>3, <1>6, StepType DEF TypeOK, ReadFails
<1> QED
  BY <1>5, <1>7 DEF Inv

-----------------------------------------------------------------------------
(***************************************************************************)
(* The poll loop, the clients, the operator.                               *)
(***************************************************************************)

LEMMA PollKeepsInv ==
  ASSUME Inv, NEW s \in Servers, Poll(s)
  PROVE  Inv'
<1>1. TypeOK
  BY DEF Inv
<1>2. \A i \in Readable(s) : i \in Slots /\ requestP[s][i].live
  BY DEF Readable
<1>3. ASSUME NEW rq \in RequestType, NEW so \in SocketType, NEW i \in Slots,
             requestP' = [requestP EXCEPT ![s][i] = rq],
             sock' = [sock EXCEPT ![s][i] = so],
             rq.live \/ ~requestP[s][i].live,
             rq.live => \/ IF s \in WriteServers THEN rq.wait_for_write = 1 ELSE rq.done = 0
                        \/ rq.id \in Records
      PROVE  Inv'
  <2>1. TypeOK'
    BY <1>1, <1>2, <1>3 DEF TypeOK, Poll
  <2>2. ServesLive'
    BY <1>1, <1>2, <1>3 DEF Inv, ServesLive, TypeOK, Poll
  <2>3. BusyHasId'
    BY <1>1, <1>3 DEF Inv, BusyHasId, Turn, TypeOK, Poll
  <2>4. SecondLineHasId'
    BY <1>1, <1>3 DEF Inv, SecondLineHasId, AwaitsId, Turn, TypeOK, Poll
  <2> QED
    BY <2>1, <2>2, <2>3, <2>4 DEF Inv
<1>4. CASE Accept(s)
  <2>1. PICK i \in Slots :
          /\ ~requestP[s][i].live
          /\ requestP' = [requestP EXCEPT ![s][i] = Admitted(s, @)]
          /\ \E peer \in {"open"} \cup UNION {After(p, 1) : p \in Departures},
                input \in Messages \cup {Nothing} :
               sock' = [sock EXCEPT ![s][i] = [peer |-> peer, inbox |-> input]]
    BY <1>4 DEF Accept
  <2>2. PICK peer \in {"open"} \cup UNION {After(p, 1) : p \in Departures},
             input \in Messages \cup {Nothing} :
               sock' = [sock EXCEPT ![s][i] = [peer |-> peer, inbox |-> input]]
    BY <2>1
  <2>3. [peer |-> peer, inbox |-> input] \in SocketType
    BY AfterType DEF SocketType
  <2> DEFINE rq == Admitted(s, requestP[s][i])
  <2>4. requestP[s][i] \in RequestType
    BY <1>1 DEF TypeOK
  <2>5. requestP' = [requestP EXCEPT ![s][i] = rq]
    BY <1>1, <2>1 DEF TypeOK
  <2>6. rq \in RequestType /\ rq.live
        /\ IF s \in WriteServers THEN rq.wait_for_write = 1 ELSE rq.done = 0
    BY <2>4 DEF RequestType, Admitted
  <2> HIDE DEF rq
  <2> QED
    BY <1>3, <2>1, <2>2, <2>3, <2>5, <2>6
<1>5. CASE UNCHANGED <<requestP, sock>>
  <2>1. TypeOK'
    BY <1>1, <1>2, <1>5 DEF TypeOK, Poll
  <2>2. ServesLive'
    BY <1>1, <1>2, <1>5 DEF Inv, ServesLive, TypeOK, Poll
  <2>3. BusyHasId' /\ SecondLineHasId'
    BY <1>1, <1>5 DEF Inv, BusyHasId, SecondLineHasId, AwaitsId, Turn, TypeOK, Poll
  <2> QED
    BY <2>1, <2>2, <2>3 DEF Inv
<1> QED
  BY <1>4, <1>5 DEF Poll

LEMMA ClientKeepsInv ==
  ASSUME Inv, NEW s \in Servers, NEW i \in Slots, Client(s, i)
  PROVE  Inv'
<1>1. TypeOK /\ sock[s][i] \in SocketType
  BY DEF Inv, TypeOK
<1>2. /\ sock' \in [Servers -> [Slots -> SocketType]]
      /\ UNCHANGED <<file, flock, self_lock, requestP, shown, temp, revents, pc>>
  <2>1. CASE \E m \in Messages : Send(s, i, m)
    <3>1. PICK m \in Messages : Send(s, i, m)
      BY <2>1
    <3>2. [sock[s][i] EXCEPT !.inbox = m] \in SocketType
      BY <1>1 DEF SocketType
    <3> QED
      BY <1>1, <3>1, <3>2 DEF Send, TypeOK
  <2>2. CASE \E how \in Departures : Depart(s, i, how)
    <3>1. PICK how \in Departures : Depart(s, i, how)
      BY <2>2
    <3>2. [sock[s][i] EXCEPT !.peer = how] \in SocketType
      BY <1>1, ServerAssumption DEF SocketType
    <3> QED
      BY <1>1, <3>1, <3>2 DEF Depart, TypeOK
  <2> QED
    BY <2>1, <2>2 DEF Client
<1> QED
  BY <1>1, <1>2 DEF Inv, TypeOK, ServesLive, BusyHasId, SecondLineHasId, AwaitsId, Turn

LEMMA StartKeepsInv ==
  ASSUME Inv, NEW s \in Servers, Start(s)
  PROVE  Inv'
<1>1. TypeOK'
  BY DEF Inv, TypeOK, Start
<1>2. ServesLive' /\ BusyHasId' /\ SecondLineHasId'
  BY DEF Inv, TypeOK, Start, ServesLive, BusyHasId, SecondLineHasId, AwaitsId, Turn
<1> QED
  BY <1>1, <1>2 DEF Inv

LEMMA StutterKeepsInv ==
  ASSUME Inv, UNCHANGED vars
  PROVE  Inv'
BY DEF vars, Inv, TypeOK, ServesLive, BusyHasId, SecondLineHasId, AwaitsId, Turn

-----------------------------------------------------------------------------
(***************************************************************************)
(* What the file holds.                                                    *)
(***************************************************************************)

\* The file is as it was, and what is about to be written to it was so before.
FileUntouched ==
  /\ file' = file
  /\ \A t \in Servers :
       pc'[t] = "write" => /\ pc[t] = "write" /\ temp'[t] = temp[t]
                           /\ requestP'[t] = requestP[t] /\ revents'[t] = revents[t]

LEMMA DownTouchesNoFile ==
  ASSUME Inv, NEW s \in Servers, Down(s)
  PROVE  FileUntouched
BY DEF Inv, TypeOK, Down, FileUntouched

LEMMA CloseTouchesNoFile ==
  ASSUME Inv, NEW s \in Servers, NEW i \in Slots, NEW rq, Close(s, i, rq)
  PROVE  FileUntouched
BY DEF Inv, TypeOK, Close, NextSlot, FileUntouched

\* Two actions alone matter to the file.
LEMMA OthersTouchNoFile ==
  ASSUME Inv, [Next]_vars
  PROVE  \/ FileUntouched
         \/ \E s \in Servers, i \in Slots : ReadCommand(s, i) \/ WriteRecord(s, i)
<1>1. CASE UNCHANGED vars
  BY <1>1 DEF vars, FileUntouched
<1>2. ASSUME NEW s \in Servers, Poll(s) \/ Start(s) PROVE FileUntouched
  <2>1. file' = file /\ temp' = temp /\ pc'[s] # "write"
    BY <1>2 DEF Inv, TypeOK, Poll, Start
  <2>2. \A t \in Servers : t # s => /\ pc'[t] = pc[t] /\ revents'[t] = revents[t]
                                    /\ requestP'[t] = requestP[t]
    BY <1>2 DEF Inv, TypeOK, Poll, Accept, Start
  <2> QED
    BY <2>1, <2>2 DEF FileUntouched
<1>3. ASSUME NEW s \in Servers, NEW i \in Slots, Client(s, i) PROVE FileUntouched
  BY <1>3 DEF Client, Send, Depart, FileUntouched
<1>4. ASSUME NEW s \in Servers, NEW i \in Slots, ReadFails(s, i) \/ CheckId(s, i) \/ LockId(s, i)
      PROVE  FileUntouched
  BY <1>4 DEF Inv, TypeOK, ReadFails, CheckId, LockId, NextSlot, FileUntouched
<1>5. ASSUME NEW s \in Servers, NEW i \in Slots, ViewRecord(s, i) PROVE FileUntouched
  <2>1. CASE Down(s)
    BY <2>1, DownTouchesNoFile
  <2>2. CASE ~Down(s)
    BY <1>5, <2>2 DEF Inv, TypeOK, ViewRecord, Writing, NextSlot, FileUntouched
  <2> QED
    BY <2>1, <2>2
<1>6. ASSUME NEW s \in Servers, NEW i \in Slots,
             \/ ReadEOF(s, i) \/ ReadCtrlC(s, i) \/ ReadPartial(s, i)
             \/ ReadBadId(s, i) \/ ReadLockedId(s, i)
             \/ ReadExit(s, i) \/ ReadNotExit(s, i)
             \/ ReadBadCommand(s, i) \/ ReadExcess(s, i)
             \/ Reply(s, i)
      PROVE  FileUntouched
  <2>1. Down(s) \/ \E rq : Close(s, i, rq)
    BY <1>6 DEF ReadEOF, ReadCtrlC, ReadPartial, ReadBadId, ReadLockedId, ReadExit, ReadNotExit,
                ReadBadCommand, ReadExcess, Reply, Writing, Refuse
  <2> QED
    BY <2>1, DownTouchesNoFile, CloseTouchesNoFile
<1> QED
  BY <1>1, <1>2, <1>3, <1>4, <1>5, <1>6, DownTouchesNoFile DEF Next, Handle, Kill

\* The step that needs BookedIsValid.
LEMMA ReadCommandKeepsFile ==
  ASSUME IInv, CommandsFit, NEW s \in Servers, NEW i \in Slots, ReadCommand(s, i)
  PROVE  TempValid' /\ RecordsValid'
<1> DEFINE rq == requestP[s][i]
           nums == sock[s][i].inbox.nums
<1>1. TypeOK /\ sock[s][i] \in SocketType
  BY DEF IInv, Inv, TypeOK
<1>2. rq.id \in Records
  BY DEF IInv, Inv, ServesLive, SecondLineHasId, ReadCommand, Input, Reading, Turn
<1>3. nums \in Commands
  BY <1>1, MessageParts DEF SocketType, ReadCommand, Input
<1>4. file[rq.id] \in ValidBooking /\ nums \in Booking /\ AmountsFit(nums)
  BY <1>2, <1>3, ServerAssumption DEF IInv, RecordsValid, CommandsFit
<1>5. Verdict(file[rq.id], nums) = "booked" /\ temp' = [temp EXCEPT ![s] = Booked(file[rq.id], nums)]
  BY DEF ReadCommand
<1>6. Booked(file[rq.id], nums) \in ValidBooking
  BY <1>4, <1>5, BookedIsValid
<1> QED
  BY <1>1, <1>5, <1>6 DEF IInv, TempValid, RecordsValid, ReadCommand, TypeOK

LEMMA WriteRecordKeepsFile ==
  ASSUME IInv, NEW s \in Servers, NEW i \in Slots, WriteRecord(s, i)
  PROVE  TempValid' /\ RecordsValid'
<1>1. TypeOK /\ requestP[s][i].id \in Records
  BY DEF IInv, Inv, BusyHasId, WriteRecord
<1>2. temp[s] \in ValidBooking
  BY DEF IInv, TempValid, WriteRecord
<1> QED
  BY <1>1, <1>2 DEF IInv, TempValid, RecordsValid, WriteRecord, TypeOK

-----------------------------------------------------------------------------
(***************************************************************************)
(* The theorems.                                                           *)
(***************************************************************************)

LEMMA InitHasInv == Init => IInv
<1> SUFFICES ASSUME Init PROVE IInv
  OBVIOUS
<1>1. \A b \in OnDisk : b \in ValidBooking /\ b \in Booking
  BY ServerAssumption DEF ValidBooking
<1>2. Blank \in Booking
  BY BlankIsValid DEF ValidBooking
<1>3. TypeOK
  BY <1>1, <1>2, InitRequestType, NoSocketType DEF Init, TypeOK, LockTypes
<1>4. ServesLive /\ BusyHasId /\ SecondLineHasId
  BY DEF Init, ServesLive, BusyHasId, SecondLineHasId, Turn, InitRequest
<1>5. TempValid /\ RecordsValid
  BY <1>1 DEF Init, TempValid, RecordsValid
<1> QED
  BY <1>3, <1>4, <1>5 DEF IInv, Inv

LEMMA NextKeepsInv ==
  ASSUME Inv, [Next]_vars
  PROVE  Inv'
<1>1. CASE UNCHANGED vars
  BY <1>1, StutterKeepsInv
<1>2. ASSUME NEW s \in Servers, Poll(s) \/ Start(s) \/ Kill(s)
      PROVE  Inv'
  BY <1>2, PollKeepsInv, StartKeepsInv, DownKeepsInv DEF Kill
<1>3. ASSUME NEW s \in Servers, NEW i \in Slots, Client(s, i)
      PROVE  Inv'
  BY <1>3, ClientKeepsInv
<1>4. ASSUME NEW s \in Servers, NEW i \in Slots, Handle(s, i)
      PROVE  Inv'
  <2>1. CASE \/ ReadEOF(s, i) \/ ReadCtrlC(s, i) \/ ReadPartial(s, i)
             \/ ReadBadId(s, i) \/ ReadLockedId(s, i)
             \/ ReadExit(s, i) \/ ReadNotExit(s, i)
             \/ ReadBadCommand(s, i) \/ ReadExcess(s, i)
             \/ Reply(s, i)
    BY <2>1, EndingsKeepInv
  <2>2. CASE ReadFails(s, i)
    BY <2>2, ReadFailsKeepsInv
  <2>3. CASE CheckId(s, i)
    BY <2>3, CheckIdKeepsInv
  <2>4. CASE LockId(s, i)
    BY <2>4, LockIdKeepsInv
  <2>5. CASE ViewRecord(s, i)
    BY <2>5, ViewRecordKeepsInv
  <2>6. CASE ReadCommand(s, i)
    BY <2>6, ReadCommandKeepsInv
  <2>7. CASE WriteRecord(s, i)
    BY <2>7, WriteRecordKeepsInv
  <2> QED
    BY <1>4, <2>1, <2>2, <2>3, <2>4, <2>5, <2>6, <2>7 DEF Handle
<1> QED
  BY <1>1, <1>2, <1>3, <1>4 DEF Next

LEMMA InvHolds == Spec => []Inv
<1>1. Init => Inv
  BY InitHasInv DEF IInv
<1>2. Inv /\ [Next]_vars => Inv'
  BY NextKeepsInv
<1> QED
  BY <1>1, <1>2, PTL DEF Spec

LEMMA IInvHolds ==
  ASSUME CommandsFit
  PROVE  Spec => []IInv
<1>1. Init => IInv
  BY InitHasInv
<1>2. ASSUME IInv, [Next]_vars PROVE IInv'
  <2>1. Inv'
    BY <1>2, NextKeepsInv DEF IInv
  <2>2. ASSUME FileUntouched PROVE TempValid' /\ RecordsValid'
    BY <1>2, <2>2 DEF IInv, FileUntouched, TempValid, RecordsValid
  <2>3. ASSUME NEW s \in Servers, NEW i \in Slots, ReadCommand(s, i) \/ WriteRecord(s, i)
        PROVE  TempValid' /\ RecordsValid'
    BY <1>2, <2>3, ReadCommandKeepsFile, WriteRecordKeepsFile
  <2>4. TempValid' /\ RecordsValid'
    BY <1>2, <2>2, <2>3, OthersTouchNoFile DEF IInv
  <2> QED
    BY <2>1, <2>4 DEF IInv
<1> QED
  BY <1>1, <1>2, PTL DEF Spec

\* Every variable of the servers keeps its type.
THEOREM TypeCorrect == Spec => []TypeOK
<1>1. Inv => TypeOK
  BY DEF Inv
<1> QED
  BY <1>1, InvHolds, PTL

\* The bookings on file respect both limits, whatever the number of processes
\* and connections, however their steps interleave, and whichever of them are
\* killed: the unchecked F_SETLK loses updates, but no limit.
THEOREM RecordsAreValid ==
  ASSUME CommandsFit
  PROVE  Spec => []RecordsValid
<1>1. IInv => RecordsValid
  BY DEF IInv
<1> QED
  BY <1>1, IInvHolds, PTL

\* No client gets to type a command or "Exit" without a session of its own.
THEOREM SecondLinesHaveSessions == Spec => []SecondLineHasSession
<1>1. Inv => SecondLineHasSession
  BY DEF Inv, SecondLineHasId, SecondLineHasSession, InSession
<1> QED
  BY <1>1, InvHolds, PTL

-----------------------------------------------------------------------------
(***************************************************************************)
(* Sessions and locks.                                                     *)
(***************************************************************************)
\* A request has an id in a session, or while the id is being locked.
IdHasSession ==
  \A s \in Servers, i \in Slots :
    requestP[s][i].id \in Records
      => /\ requestP[s][i].live
         /\ AwaitsId(s, i) => pc[s] \in {"lock", "view"} /\ Turn(s, i)

\* The self_lock of a write_server is a flag.
WriterLocksOnce == \A s \in WriteServers, r \in Records : self_lock[s][r] \in {0, 1}

\* self_lock never counts fewer sessions than there are.
LockCoversSessions ==
  \A s \in Servers, r \in Records : self_lock[s][r] >= Cardinality(Sessions(s, r))

\* Between mylock_check and F_SETLK nobody else of the process takes the record.
CheckedIsFree ==
  \A s \in WriteServers, i \in Slots :
    pc[s] = "lock" /\ Turn(s, i) => self_lock[s][requestP[s][i].id] = 0

LockInv ==
  /\ Inv
  /\ IdHasSession
  /\ WriterLocksOnce
  /\ CheckedIsFree
  /\ LockCoversSessions
  /\ KernelLockCounted

-----------------------------------------------------------------------------
(***************************************************************************)
(* Turns and sessions.                                                     *)
(***************************************************************************)

\* Handle_read's branch, said of a request.
Awaits(s, rq) == IF s \in WriteServers THEN rq.wait_for_write = 1 ELSE rq.done = 0

LEMMA OneTurn ==
  ASSUME NEW s \in Servers, NEW i \in Slots, NEW j \in Slots, Turn(s, i), Turn(s, j)
  PROVE  i = j
<1>1. i <= j /\ j <= i
  BY DEF Turn
<1>2. i \in Int /\ j \in Int
  BY ServerAssumption DEF Slots
<1> QED
  BY <1>1, <1>2

LEMMA SessionsFinite ==
  ASSUME NEW s \in Servers, NEW r \in Records
  PROVE  IsFiniteSet(Sessions(s, r)) /\ Cardinality(Sessions(s, r)) \in Nat
<1>1. IsFiniteSet(Slots)
  BY FS_Interval, ServerAssumption DEF Slots
<1>2. Sessions(s, r) \subseteq Slots
  BY DEF Sessions
<1> QED
  BY <1>1, <1>2, FS_Subset, FS_CardinalityType

\* What a step of s for connection i does to the pieces of every process.
LEMMA StepPieces ==
  ASSUME Inv, NEW s \in Servers, NEW i \in Slots, NEW rq \in RequestType,
         NEW p \in {"loop", "lock", "view", "write", "reply"}, StepsTo(s, i, rq, p)
  PROVE  /\ \A t \in Servers, j \in Slots :
              /\ requestP'[t][j] = IF t = s /\ j = i THEN rq ELSE requestP[t][j]
              /\ t # s => (Turn(t, j)' <=> Turn(t, j))
              /\ p # "loop" => (Turn(t, j)' <=> Turn(t, j))
              /\ j # i => ~Turn(s, j)
         /\ \A t \in Servers : pc'[t] = IF t = s THEN p ELSE pc[t]
<1>1. \A t \in Servers, j \in Slots :
        requestP'[t][j] = IF t = s /\ j = i THEN rq ELSE requestP[t][j]
  BY DEF Inv, TypeOK, StepsTo
<1>2. \A t \in Servers :
        /\ pc'[t] = IF t = s THEN p ELSE pc[t]
        /\ t # s \/ p # "loop" => revents'[t] = revents[t]
  BY DEF Inv, TypeOK, StepsTo, NextSlot
<1>3. \A j \in Slots : j # i => ~Turn(s, j)
  BY OneTurn DEF StepsTo
<1>4. \A t \in Servers, j \in Slots : t # s \/ p # "loop" => (Turn(t, j)' <=> Turn(t, j))
  BY <1>2 DEF Turn
<1> QED
  BY <1>1, <1>2, <1>3, <1>4

\* It moves the session of connection i alone.
LEMMA StepSessions ==
  ASSUME Inv, NEW s \in Servers, NEW i \in Slots, NEW rq \in RequestType,
         NEW p \in {"loop", "lock", "view", "write", "reply"}, StepsTo(s, i, rq, p)
  PROVE  \A t \in Servers, j \in Slots, r \in Records :
           InSession(t, j, r)' <=>
             IF t = s /\ j = i THEN rq.live /\ rq.id = r /\ p # "lock" ELSE InSession(t, j, r)
<1> SUFFICES ASSUME NEW t \in Servers, NEW j \in Slots, NEW r \in Records
             PROVE  InSession(t, j, r)' <=>
                      IF t = s /\ j = i THEN rq.live /\ rq.id = r /\ p # "lock"
                      ELSE InSession(t, j, r)
  OBVIOUS
<1>1. /\ requestP'[t][j] = IF t = s /\ j = i THEN rq ELSE requestP[t][j]
      /\ t # s => (Turn(t, j)' <=> Turn(t, j))
      /\ p # "loop" => (Turn(t, j)' <=> Turn(t, j))
      /\ j # i => ~Turn(s, j)
      /\ pc'[t] = IF t = s THEN p ELSE pc[t]
  BY StepPieces
<1>2. Turn(s, i)
  BY DEF StepsTo
<1>3. CASE t = s /\ j = i
  BY <1>1, <1>2, <1>3 DEF InSession
<1>4. CASE t = s /\ j # i
  <2>1. ~(pc'[t] = "lock" /\ Turn(t, j)') /\ ~(pc[t] = "lock" /\ Turn(t, j))
    BY <1>1, <1>4
  <2> QED
    BY <1>1, <1>4, <2>1 DEF InSession
<1>5. CASE t # s
  BY <1>1, <1>5 DEF InSession
<1> QED
  BY <1>3, <1>4, <1>5

-----------------------------------------------------------------------------
(***************************************************************************)
(* The five things a step may do to sessions and locks.                    *)
(***************************************************************************)

\* Nothing.
Stays ==
  /\ KeepLocks
  /\ \A t \in Servers, j \in Slots, q \in Records : InSession(t, j, q)' <=> InSession(t, j, q)

\* A session ends and its lock is kept.
Forgets ==
  /\ KeepLocks
  /\ \A t \in Servers, j \in Slots, q \in Records : InSession(t, j, q)' => InSession(t, j, q)

\* A session begins with its lock.
Enters(s, i, r) ==
  /\ LockFunction(s, r, IF s \in WriteServers THEN "F_WRLCK" ELSE "F_RDLCK")
  /\ ~InSession(s, i, r)
  /\ s \in WriteServers => self_lock[s][r] = 0
  /\ \A t \in Servers, j \in Slots, q \in Records :
       InSession(t, j, q)' <=> InSession(t, j, q) \/ (t = s /\ j = i /\ q = r)

\* A session ends and releases its lock.
Leaves(s, i, r) ==
  /\ LockFunction(s, r, "F_UNLCK")
  /\ InSession(s, i, r)
  /\ \A t \in Servers, j \in Slots, q \in Records :
       InSession(t, j, q)' <=> InSession(t, j, q) /\ ~(t = s /\ j = i /\ q = r)

\* What the invariant says of the locks.
LocksFit == LockCoversSessions /\ KernelLockCounted /\ WriterLocksOnce

\* mylock_function touches one record of one process, and the kernel's lock goes
\* when the count reaches zero: F_UNLCK is never refused.
LEMMA LockFunctionEffect ==
  ASSUME TypeOK, NEW s \in Servers, NEW r \in Records, NEW type \in LockTypes,
         LockFunction(s, r, type)
  PROVE  /\ \A t \in Servers, q \in Records :
              ~(t = s /\ q = r) => self_lock'[t][q] = self_lock[t][q] /\ flock'[t][q] = flock[t][q]
         /\ s \in WriteServers => self_lock'[s][r] = IF type = "F_UNLCK" THEN 0 ELSE 1
         /\ s \notin WriteServers =>
              self_lock'[s][r] = IF type = "F_UNLCK" THEN self_lock[s][r] - 1 ELSE self_lock[s][r] + 1
         /\ type = "F_UNLCK" /\ self_lock'[s][r] = 0 => flock'[s][r] = "F_UNLCK"
<1>1. ~Blocked(flock, s, r, "F_UNLCK")
  BY DEF Blocked, Conflicts
<1>2. \A t \in Servers, q \in Records :
        ~(t = s /\ q = r) => SetLk(flock, s, r, type)[t][q] = flock[t][q]
  BY DEF TypeOK, SetLk
<1>3. type = "F_UNLCK" => SetLk(flock, s, r, type)[s][r] = "F_UNLCK"
  BY <1>1 DEF TypeOK, SetLk
<1> DEFINE count == IF s \in WriteServers THEN IF type = "F_UNLCK" THEN 0 ELSE 1
                    ELSE IF type = "F_UNLCK" THEN self_lock[s][r] - 1 ELSE self_lock[s][r] + 1
<1>4. /\ self_lock' = [self_lock EXCEPT ![s][r] = count]
      /\ \/ flock' = SetLk(flock, s, r, type)
         \/ s \notin WriteServers /\ type = "F_UNLCK" /\ count # 0 /\ flock' = flock
  BY DEF LockFunction
<1> HIDE DEF count
<1>5. \A t \in Servers, q \in Records :
        self_lock'[t][q] = IF t = s /\ q = r THEN count ELSE self_lock[t][q]
  BY <1>4 DEF TypeOK
<1> QED
  BY <1>2, <1>3, <1>4, <1>5 DEF count

LEMMA StaysFits ==
  ASSUME LockInv, Stays \/ Forgets
  PROVE  LocksFit'
<1>1. self_lock' = self_lock /\ flock' = flock
  BY DEF Stays, Forgets, KeepLocks
<1>2. ASSUME NEW s \in Servers, NEW r \in Records
      PROVE  self_lock'[s][r] >= Cardinality(Sessions(s, r)')
  <2>1. Sessions(s, r)' \subseteq Sessions(s, r)
    BY DEF Sessions, Stays, Forgets
  <2>2. Cardinality(Sessions(s, r)') \in Nat /\ Cardinality(Sessions(s, r)') <= Cardinality(Sessions(s, r))
    BY <2>1, SessionsFinite, FS_Subset, FS_CardinalityType
  <2>3. self_lock[s][r] \in Int /\ self_lock[s][r] >= Cardinality(Sessions(s, r))
    BY DEF LockInv, LockCoversSessions, Inv, TypeOK
  <2> QED
    BY <1>1, <2>2, <2>3, SessionsFinite
<1> QED
  BY <1>1, <1>2 DEF LocksFit, LockInv, LockCoversSessions, KernelLockCounted, WriterLocksOnce

LEMMA EntersFits ==
  ASSUME LockInv, NEW s \in Servers, NEW i \in Slots, NEW r \in Records, Enters(s, i, r)
  PROVE  /\ LocksFit'
         /\ \A t \in Servers, q \in Records :
              ~(t = s /\ q = r) => /\ Sessions(t, q)' = Sessions(t, q)
                                   /\ self_lock'[t][q] = self_lock[t][q]
         /\ Cardinality(Sessions(s, r)') = Cardinality(Sessions(s, r)) + 1
         /\ self_lock'[s][r] = self_lock[s][r] + 1
<1> DEFINE type == IF s \in WriteServers THEN "F_WRLCK" ELSE "F_RDLCK"
<1>1. type \in LockTypes /\ type # "F_UNLCK" /\ LockFunction(s, r, type)
  BY DEF Enters, LockTypes
<1> HIDE DEF type
<1>2. TypeOK /\ self_lock[s][r] \in Int
  BY DEF LockInv, Inv, TypeOK
<1>3. \A t \in Servers, q \in Records :
        ~(t = s /\ q = r) => self_lock'[t][q] = self_lock[t][q] /\ flock'[t][q] = flock[t][q]
  BY <1>1, <1>2, LockFunctionEffect
<1>4. self_lock'[s][r] = self_lock[s][r] + 1 /\ (s \in WriteServers => self_lock'[s][r] = 1)
  BY <1>1, <1>2, LockFunctionEffect DEF Enters
<1>5. \A t \in Servers, q \in Records : ~(t = s /\ q = r) => Sessions(t, q)' = Sessions(t, q)
  BY DEF Enters, Sessions
<1>6. Sessions(s, r)' = Sessions(s, r) \cup {i} /\ i \notin Sessions(s, r)
  BY DEF Enters, Sessions
<1>7. Cardinality(Sessions(s, r)') = Cardinality(Sessions(s, r)) + 1
  BY <1>6, SessionsFinite, FS_AddElement
<1>8. self_lock[s][r] >= Cardinality(Sessions(s, r)) /\ Cardinality(Sessions(s, r)) \in Nat
  BY SessionsFinite DEF LockInv, LockCoversSessions
<1>9. self_lock'[s][r] >= Cardinality(Sessions(s, r)') /\ self_lock'[s][r] # 0
  BY <1>2, <1>4, <1>7, <1>8
<1>10. LockCoversSessions'
  BY <1>3, <1>5, <1>9 DEF LockInv, LockCoversSessions
<1>11. KernelLockCounted' /\ WriterLocksOnce'
  BY <1>3, <1>4, <1>9 DEF LockInv, KernelLockCounted, WriterLocksOnce, Servers
<1> QED
  BY <1>3, <1>4, <1>5, <1>7, <1>10, <1>11 DEF LocksFit

LEMMA LeavesFits ==
  ASSUME LockInv, NEW s \in Servers, NEW i \in Slots, NEW r \in Records, Leaves(s, i, r)
  PROVE  /\ LocksFit'
         /\ \A t \in Servers, q \in Records :
              ~(t = s /\ q = r) => /\ Sessions(t, q)' = Sessions(t, q)
                                   /\ self_lock'[t][q] = self_lock[t][q]
         /\ Cardinality(Sessions(s, r)') = Cardinality(Sessions(s, r)) - 1
         /\ self_lock'[s][r] = self_lock[s][r] - 1
<1>1. TypeOK /\ self_lock[s][r] \in Int /\ "F_UNLCK" \in LockTypes
  BY DEF LockInv, Inv, TypeOK, LockTypes
<1>2. LockFunction(s, r, "F_UNLCK")
  BY DEF Leaves
<1>3. \A t \in Servers, q \in Records :
        ~(t = s /\ q = r) => self_lock'[t][q] = self_lock[t][q] /\ flock'[t][q] = flock[t][q]
  BY <1>1, <1>2, LockFunctionEffect
<1>4. /\ s \in WriteServers => self_lock'[s][r] = 0
      /\ s \notin WriteServers => self_lock'[s][r] = self_lock[s][r] - 1
      /\ self_lock'[s][r] = 0 => flock'[s][r] = "F_UNLCK"
  BY <1>1, <1>2, LockFunctionEffect
<1>5. \A t \in Servers, q \in Records : ~(t = s /\ q = r) => Sessions(t, q)' = Sessions(t, q)
  BY DEF Leaves, Sessions
<1>6. Sessions(s, r)' = Sessions(s, r) \ {i} /\ i \in Sessions(s, r)
  BY DEF Leaves, Sessions
<1>7. Cardinality(Sessions(s, r)') = Cardinality(Sessions(s, r)) - 1
  BY <1>6, SessionsFinite, FS_RemoveElement
<1>8. Cardinality(Sessions(s, r)') \in Nat
  BY <1>6, SessionsFinite, FS_RemoveElement, FS_CardinalityType
<1>9. self_lock[s][r] >= Cardinality(Sessions(s, r)) /\ Cardinality(Sessions(s, r)) \in Nat
  BY SessionsFinite DEF LockInv, LockCoversSessions
<1>10. s \in WriteServers => self_lock[s][r] = 1 /\ Cardinality(Sessions(s, r)) = 1
  BY <1>7, <1>8, <1>9 DEF LockInv, WriterLocksOnce
<1>11. self_lock'[s][r] = self_lock[s][r] - 1 /\ self_lock'[s][r] >= Cardinality(Sessions(s, r)')
  BY <1>1, <1>4, <1>7, <1>9, <1>10
<1>12. LockCoversSessions'
  BY <1>3, <1>5, <1>11 DEF LockInv, LockCoversSessions
<1>13. KernelLockCounted' /\ WriterLocksOnce'
  BY <1>3, <1>4 DEF LockInv, KernelLockCounted, WriterLocksOnce, Servers
<1> QED
  BY <1>3, <1>5, <1>7, <1>11, <1>12, <1>13 DEF LocksFit

\* A process that has gone has neither sessions nor locks, and the others keep theirs.
LEMMA DownSessions ==
  ASSUME Inv, NEW s \in Servers, Down(s)
  PROVE  /\ \A r \in Records : /\ self_lock'[s][r] = 0 /\ flock'[s][r] = "F_UNLCK"
                               /\ Sessions(s, r)' = {}
         /\ \A t \in Servers, r \in Records :
              t # s => /\ self_lock'[t][r] = self_lock[t][r] /\ flock'[t][r] = flock[t][r]
                       /\ Sessions(t, r)' = Sessions(t, r)
<1>1. \A r \in Records : self_lock'[s][r] = 0 /\ flock'[s][r] = "F_UNLCK"
  BY DEF Down, DropAll, Inv, TypeOK
<1>2. \A j \in Slots : ~requestP'[s][j].live
  BY DEF Down, InitRequest, Inv, TypeOK
<1>3. \A t \in Servers : t # s => /\ requestP'[t] = requestP[t] /\ pc'[t] = pc[t]
                                  /\ revents'[t] = revents[t]
                                  /\ self_lock'[t] = self_lock[t] /\ flock'[t] = flock[t]
  BY DEF Down, DropAll, Inv, TypeOK
<1>4. \A r \in Records : Sessions(s, r)' = {}
  BY <1>2 DEF Sessions, InSession
<1>5. \A t \in Servers, r \in Records : t # s => Sessions(t, r)' = Sessions(t, r)
  BY <1>3 DEF Sessions, InSession, Turn
<1> QED
  BY <1>1, <1>3, <1>4, <1>5

LEMMA DownFits ==
  ASSUME LockInv, NEW s \in Servers, Down(s)
  PROVE  LocksFit'
<1>1. ASSUME NEW t \in Servers, NEW r \in Records
      PROVE  /\ self_lock'[t][r] >= Cardinality(Sessions(t, r)')
             /\ self_lock'[t][r] = 0 => flock'[t][r] = "F_UNLCK"
             /\ t \in WriteServers => self_lock'[t][r] \in {0, 1}
  <2>1. CASE t = s
    <3>1. self_lock'[t][r] = 0 /\ flock'[t][r] = "F_UNLCK" /\ Sessions(t, r)' = {}
      BY <2>1, DownSessions DEF LockInv
    <3> QED
      BY <3>1, FS_EmptySet
  <2>2. CASE t # s
    <3>1. /\ self_lock'[t][r] = self_lock[t][r] /\ flock'[t][r] = flock[t][r]
          /\ Sessions(t, r)' = Sessions(t, r)
      BY <2>2, DownSessions DEF LockInv
    <3> QED
      BY <3>1 DEF LockInv, LockCoversSessions, KernelLockCounted, WriterLocksOnce
  <2> QED
    BY <2>1, <2>2
<1> QED
  BY <1>1 DEF LocksFit, LockCoversSessions, KernelLockCounted, WriterLocksOnce, Servers

-----------------------------------------------------------------------------
(***************************************************************************)
(* Requests: what a step leaves in the request of its connection.          *)
(***************************************************************************)

RequestFits(s, rq, p) ==
  rq.id \in Records => rq.live /\ (Awaits(s, rq) => p \in {"lock", "view"})

LEMMA StepFits ==
  ASSUME LockInv, NEW s \in Servers, NEW i \in Slots, NEW rq \in RequestType,
         NEW p \in {"loop", "lock", "view", "write", "reply"}, StepsTo(s, i, rq, p),
         RequestFits(s, rq, p),
         \A t \in Servers : t # s => self_lock'[t] = self_lock[t],
         p = "lock" /\ s \in WriteServers => self_lock'[s][rq.id] = 0
  PROVE  IdHasSession' /\ CheckedIsFree'
<1>1. Inv /\ Turn(s, i)
  BY DEF LockInv, StepsTo
<1>2. ASSUME NEW t \in Servers, NEW j \in Slots, requestP'[t][j].id \in Records
      PROVE  /\ requestP'[t][j].live
             /\ AwaitsId(t, j)' => pc'[t] \in {"lock", "view"} /\ Turn(t, j)'
  <2>1. CASE t = s /\ j = i
    <3>1. requestP'[t][j] = rq /\ pc'[t] = p /\ (p # "loop" => Turn(t, j)')
      BY <1>1, <2>1, StepPieces
    <3> QED
      BY <1>2, <2>1, <3>1 DEF RequestFits, Awaits, AwaitsId
  <2>2. CASE ~(t = s /\ j = i)
    <3>1. requestP'[t][j] = requestP[t][j]
      BY <1>1, <2>2, StepPieces
    <3>2. requestP[t][j].live /\ (AwaitsId(t, j) => pc[t] \in {"lock", "view"} /\ Turn(t, j))
      BY <1>2, <3>1 DEF LockInv, IdHasSession
    <3>3. AwaitsId(t, j)' <=> AwaitsId(t, j)
      BY <3>1 DEF AwaitsId
    <3>4. CASE t = s
      BY <1>1, <2>2, <3>1, <3>2, <3>3, <3>4, StepPieces
    <3>5. CASE t # s
      <4>1. pc'[t] = pc[t] /\ (Turn(t, j)' <=> Turn(t, j))
        BY <1>1, <3>5, StepPieces
      <4> QED
        BY <3>1, <3>2, <3>3, <4>1
    <3> QED
      BY <3>4, <3>5
  <2> QED
    BY <2>1, <2>2
<1>3. ASSUME NEW t \in WriteServers, NEW j \in Slots, pc'[t] = "lock", Turn(t, j)'
      PROVE  self_lock'[t][requestP'[t][j].id] = 0
  <2>1. t \in Servers
    BY DEF Servers
  <2>2. CASE t = s
    <3>1. pc'[t] = p /\ (p # "loop" => (Turn(t, j)' <=> Turn(t, j))) /\ (j # i => ~Turn(t, j))
      BY <1>1, <2>1, <2>2, StepPieces
    <3>2. p = "lock" /\ j = i
      BY <1>3, <3>1
    <3>3. requestP'[t][j] = rq
      BY <1>1, <2>1, <2>2, <3>2, StepPieces
    <3> QED
      BY <2>2, <3>2, <3>3
  <2>3. CASE t # s
    <3>1. /\ requestP'[t][j] = requestP[t][j] /\ pc'[t] = pc[t]
          /\ Turn(t, j)' <=> Turn(t, j)
          /\ self_lock'[t] = self_lock[t]
      BY <1>1, <2>1, <2>3, StepPieces
    <3> QED
      BY <1>3, <3>1 DEF LockInv, CheckedIsFree
  <2> QED
    BY <2>2, <2>3
<1> QED
  BY <1>2, <1>3 DEF IdHasSession, CheckedIsFree

\* A connection that is closed.
LEMMA CloseFits ==
  ASSUME LockInv, NEW s \in Servers, NEW i \in Slots, NEW rq \in RequestType,
         Close(s, i, rq), Turn(s, i), ~rq.live, rq.id = NoId,
         \A t \in Servers : t # s => self_lock'[t] = self_lock[t]
  PROVE  /\ IdHasSession' /\ CheckedIsFree'
         /\ \A t \in Servers, j \in Slots, r \in Records :
              InSession(t, j, r)' <=> InSession(t, j, r) /\ ~(t = s /\ j = i)
<1>1. StepsTo(s, i, rq, "loop")
  BY DEF StepsTo, Close
<1>2. RequestFits(s, rq, "loop")
  BY ServerAssumption DEF RequestFits
<1>3. Inv
  BY DEF LockInv
<1>4. IdHasSession' /\ CheckedIsFree'
  BY <1>1, <1>2, StepFits
<1>5. \A t \in Servers, j \in Slots, r \in Records :
        InSession(t, j, r)' <=> IF t = s /\ j = i THEN rq.live /\ rq.id = r /\ "loop" # "lock"
                                ELSE InSession(t, j, r)
  BY <1>1, <1>3, StepSessions
<1> QED
  BY <1>4, <1>5

\* What every way of closing leaves in the request.
LEMMA ClosedRequest ==
  ASSUME NEW s \in Servers, NEW rq \in RequestType
  PROVE  /\ AfterRefusal(s, rq) \in RequestType
         /\ ~AfterRefusal(s, rq).live
         /\ AfterRefusal(s, rq).id = NoId
         /\ \A buf \in {"Exit", "bookings"} :
              LET freed == [FreeRequest(rq) EXCEPT !.buf = buf]
              IN  freed \in RequestType /\ ~freed.live /\ freed.id = NoId
<1>1. AfterRefusal(s, rq) \in RequestType /\ ~AfterRefusal(s, rq).live
  BY AfterRefusalType
<1>2. AfterRefusal(s, rq).id = NoId
  BY DEF AfterRefusal, FreeRequest, RequestType
<1>3. /\ FreeRequest(rq) \in RequestType
      /\ ~FreeRequest(rq).live
      /\ FreeRequest(rq).id = NoId
  BY DEF FreeRequest, RequestType
<1>4. ASSUME NEW buf \in {"Exit", "bookings"}
      PROVE  LET freed == [FreeRequest(rq) EXCEPT !.buf = buf]
             IN  freed \in RequestType /\ ~freed.live /\ freed.id = NoId
  BY <1>3 DEF RequestType
<1> QED
  BY <1>1, <1>2, <1>4

LEMMA LockFunctionOthers ==
  ASSUME TypeOK, NEW s \in Servers, NEW r \in Records, NEW type \in LockTypes,
         LockFunction(s, r, type)
  PROVE  \A t \in Servers : t # s => self_lock'[t] = self_lock[t]
<1>1. \E count : self_lock' = [self_lock EXCEPT ![s][r] = count]
  BY DEF LockFunction
<1> QED
  BY <1>1 DEF TypeOK

-----------------------------------------------------------------------------
(***************************************************************************)
(* The effect of every action.                                             *)
(***************************************************************************)

Structure == IdHasSession /\ CheckedIsFree

Effect ==
  \/ Stays
  \/ Forgets /\ \E s \in Servers, i \in Slots : ReadEOF(s, i) \/ ReadNotExit(s, i)
  \/ \E s \in Servers, i \in Slots, r \in Records : Enters(s, i, r) \/ Leaves(s, i, r)
  \/ \E s \in Servers : Down(s)

LEMMA DownEffect ==
  ASSUME LockInv, NEW s \in Servers, Down(s)
  PROVE  Structure' /\ Effect
<1>1. \A t \in Servers : t # s => /\ requestP'[t] = requestP[t] /\ pc'[t] = pc[t]
                                  /\ revents'[t] = revents[t] /\ self_lock'[t] = self_lock[t]
  BY DEF Down, LockInv, Inv, TypeOK
<1>2. \A j \in Slots : requestP'[s][j].id = NoId
  BY DEF Down, InitRequest, LockInv, Inv, TypeOK
<1>3. pc'[s] = "down"
  BY DEF Down, LockInv, Inv, TypeOK
<1>4. IdHasSession'
  BY <1>1, <1>2, ServerAssumption DEF LockInv, IdHasSession, AwaitsId, Turn
<1>5. CheckedIsFree'
  BY <1>1, <1>3 DEF LockInv, CheckedIsFree, Turn, Servers
<1> QED
  BY <1>4, <1>5 DEF Structure, Effect

\* The first branch of handle_read, before the id is accepted: no session yet.
LEMMA NoSessionYet ==
  ASSUME LockInv, NEW s \in Servers, NEW i \in Slots, pc[s] = "loop", AwaitsId(s, i), NEW r \in Records
  PROVE  ~InSession(s, i, r)
BY DEF LockInv, IdHasSession, InSession

\* A connection that is not being locked is in the session of its id.
LEMMA InItsSession ==
  ASSUME LockInv, NEW s \in Servers, NEW i \in Slots, pc[s] # "lock", requestP[s][i].id \in Records
  PROVE  InSession(s, i, requestP[s][i].id)
BY DEF LockInv, IdHasSession, InSession

\* The ways a connection is closed, with and without its lock.
LEMMA CloseWithLock ==
  ASSUME LockInv, NEW s \in Servers, NEW i \in Slots, NEW rq \in RequestType, ~rq.live, rq.id = NoId,
         Turn(s, i), Close(s, i, rq), KeepLocks
  PROVE  /\ Structure' /\ Forgets
         /\ (\A r \in Records : ~InSession(s, i, r)) => Stays
<1>1. \A t \in Servers : t # s => self_lock'[t] = self_lock[t]
  BY DEF KeepLocks
<1>2. Structure'
  BY <1>1, CloseFits DEF Structure
<1>3. \A t \in Servers, j \in Slots, r \in Records :
        InSession(t, j, r)' <=> InSession(t, j, r) /\ ~(t = s /\ j = i)
  BY <1>1, CloseFits
<1> QED
  BY <1>2, <1>3 DEF Forgets, Stays

LEMMA CloseAndUnlock ==
  ASSUME LockInv, NEW s \in Servers, NEW i \in Slots, NEW rq \in RequestType, ~rq.live, rq.id = NoId,
         Turn(s, i), Close(s, i, rq), Unlock(s, i), pc[s] # "lock", requestP[s][i].id \in Records
  PROVE  Structure' /\ Leaves(s, i, requestP[s][i].id)
<1> DEFINE r == requestP[s][i].id
<1>1. TypeOK /\ "F_UNLCK" \in LockTypes /\ LockFunction(s, r, "F_UNLCK")
  BY DEF Unlock, LockInv, Inv, LockTypes
<1>2. \A t \in Servers : t # s => self_lock'[t] = self_lock[t]
  BY <1>1, LockFunctionOthers
<1>3. Structure'
  BY <1>2, CloseFits DEF Structure
<1>4. \A t \in Servers, j \in Slots, q \in Records :
        InSession(t, j, q)' <=> InSession(t, j, q) /\ ~(t = s /\ j = i)
  BY <1>2, CloseFits
<1>5. \A q \in Records : InSession(s, i, q) => q = r
  BY DEF InSession
<1>6. InSession(s, i, r)
  BY InItsSession
<1> QED
  BY <1>1, <1>3, <1>4, <1>5, <1>6 DEF Leaves

LEMMA EndingEffect ==
  ASSUME LockInv, NEW s \in Servers, NEW i \in Slots,
         \/ ReadEOF(s, i) \/ ReadCtrlC(s, i) \/ ReadPartial(s, i)
         \/ ReadBadId(s, i) \/ ReadLockedId(s, i)
         \/ ReadExit(s, i) \/ ReadNotExit(s, i)
         \/ ReadBadCommand(s, i) \/ ReadExcess(s, i)
         \/ Reply(s, i)
  PROVE  Structure' /\ Effect
<1> DEFINE rq == requestP[s][i]
           refused == AfterRefusal(s, rq)
<1>1. rq \in RequestType /\ rq.id \in Records \cup {NoId}
  BY DEF LockInv, Inv, TypeOK, RequestType
<1>2. refused \in RequestType /\ ~refused.live /\ refused.id = NoId
  BY <1>1, ClosedRequest
<1>3. ASSUME Down(s) PROVE Structure' /\ Effect
  BY <1>3, DownEffect
<1>4. ASSUME Reading(s, i) PROVE pc[s] = "loop" /\ Turn(s, i)
  BY <1>4 DEF Reading
<1>5. ASSUME Reading(s, i), Refuse(s, i), KeepLocks
      PROVE  Structure' /\ Forgets /\ (AwaitsId(s, i) \/ rq.id \notin Records => Stays)
  <2>1. Structure' /\ Forgets /\ ((\A r \in Records : ~InSession(s, i, r)) => Stays)
    BY <1>2, <1>4, <1>5, CloseWithLock DEF Refuse
  <2>2. AwaitsId(s, i) \/ rq.id \notin Records => \A r \in Records : ~InSession(s, i, r)
    BY <1>4, <1>5, NoSessionYet DEF InSession
  <2> QED
    BY <2>1, <2>2
<1>6. ASSUME Reading(s, i), ~AwaitsId(s, i) PROVE rq.id \in Records
  BY <1>6 DEF LockInv, Inv, ServesLive, SecondLineHasId, Reading, Turn
<1>7. ASSUME Reading(s, i), Refuse(s, i), Unlock(s, i), rq.id \in Records
      PROVE  Structure' /\ Effect
  <2>1. Structure' /\ Leaves(s, i, rq.id)
    BY <1>2, <1>4, <1>7, CloseAndUnlock DEF Refuse
  <2> QED
    BY <1>7, <2>1 DEF Effect
<1>8. ASSUME Turn(s, i), pc[s] # "lock", Unlock(s, i), rq.id \in Records, NEW buf \in {"Exit", "bookings"},
             Close(s, i, [FreeRequest(rq) EXCEPT !.buf = buf])
      PROVE  Structure' /\ Effect
  <2> DEFINE freed == [FreeRequest(rq) EXCEPT !.buf = buf]
  <2>1. freed \in RequestType /\ ~freed.live /\ freed.id = NoId
    BY <1>1, ClosedRequest
  <2> HIDE DEF freed
  <2>2. Structure' /\ Leaves(s, i, rq.id)
    BY <1>8, <2>1, CloseAndUnlock DEF freed
  <2> QED
    BY <1>8, <2>2 DEF Effect
<1>9. CASE ReadEOF(s, i) \/ ReadNotExit(s, i)
  <2>1. Reading(s, i)
    BY <1>9 DEF ReadEOF, ReadNotExit, NoInput, Line, Reading
  <2>2. Down(s) \/ (Refuse(s, i) /\ KeepLocks)
    BY <1>9 DEF ReadEOF, ReadNotExit, Writing
  <2> QED
    BY <1>3, <1>5, <1>9, <2>1, <2>2 DEF Effect
<1>10. CASE ReadBadId(s, i) \/ ReadLockedId(s, i)
  <2>1. Reading(s, i) /\ AwaitsId(s, i)
    BY <1>10 DEF ReadBadId, ReadLockedId, Line, Input, Reading
  <2>2. Down(s) \/ (Refuse(s, i) /\ KeepLocks)
    BY <1>10 DEF ReadBadId, ReadLockedId, Writing
  <2> QED
    BY <1>3, <1>5, <2>1, <2>2 DEF Effect
<1>11. CASE ReadCtrlC(s, i)
  <2>1. Reading(s, i) /\ Refuse(s, i)
    BY <1>11 DEF ReadCtrlC, Input
  <2>2. CASE rq.id # NoId
    BY <1>1, <1>7, <1>11, <2>1, <2>2 DEF ReadCtrlC
  <2>3. CASE rq.id = NoId
    <3>1. KeepLocks /\ rq.id \notin Records
      BY <1>11, <2>3, ServerAssumption DEF ReadCtrlC
    <3> QED
      BY <1>5, <2>1, <3>1 DEF Effect
  <2> QED
    BY <2>2, <2>3
<1>12. CASE ReadPartial(s, i)
  BY <1>3, <1>12 DEF ReadPartial
<1>13. CASE ReadExit(s, i)
  <2>1. Reading(s, i) /\ ~AwaitsId(s, i) /\ Unlock(s, i) /\ Close(s, i, [FreeRequest(rq) EXCEPT !.buf = "Exit"])
    BY <1>13 DEF ReadExit, Input
  <2> QED
    BY <1>4, <1>6, <1>8, <2>1
<1>14. CASE ReadBadCommand(s, i) \/ ReadExcess(s, i)
  <2>1. Reading(s, i) /\ ~AwaitsId(s, i)
    BY <1>14 DEF ReadBadCommand, ReadExcess, Line, Input, Reading
  <2>2. Down(s) \/ (Unlock(s, i) /\ Refuse(s, i))
    BY <1>14 DEF ReadBadCommand, ReadExcess, Writing
  <2> QED
    BY <1>3, <1>6, <1>7, <2>1, <2>2
<1>15. CASE Reply(s, i)
  <2>1. Turn(s, i) /\ pc[s] # "lock" /\ rq.id \in Records
    BY <1>15 DEF Reply, LockInv, Inv, BusyHasId
  <2>2. Down(s) \/ (Unlock(s, i) /\ Close(s, i, [FreeRequest(rq) EXCEPT !.buf = "bookings"]))
    BY <1>15 DEF Reply, Writing
  <2> QED
    BY <1>3, <1>8, <2>1, <2>2
<1> QED
  BY <1>9, <1>10, <1>11, <1>12, <1>13, <1>14, <1>15

\* A step in the middle of a session, or before it.
LEMMA StepEffect ==
  ASSUME LockInv, NEW s \in Servers, NEW i \in Slots, NEW rq \in RequestType,
         NEW p \in {"loop", "lock", "view", "write", "reply"}, StepsTo(s, i, rq, p),
         RequestFits(s, rq, p), KeepLocks,
         p = "lock" /\ s \in WriteServers => self_lock[s][rq.id] = 0,
         \A r \in Records : InSession(s, i, r) <=> rq.live /\ rq.id = r /\ p # "lock"
  PROVE  Structure' /\ Effect
<1>1. Inv /\ self_lock' = self_lock
  BY DEF LockInv, KeepLocks
<1>2. Structure'
  BY <1>1, StepFits DEF Structure
<1>3. \A t \in Servers, j \in Slots, r \in Records :
        InSession(t, j, r)' <=>
          IF t = s /\ j = i THEN rq.live /\ rq.id = r /\ p # "lock" ELSE InSession(t, j, r)
  BY <1>1, StepSessions
<1>4. Stays
  BY <1>3 DEF Stays
<1> QED
  BY <1>2, <1>4 DEF Effect

\* The request of the connection being served, in the middle of a session.
LEMMA BusyRequest ==
  ASSUME LockInv, NEW s \in Servers, NEW i \in Slots, Turn(s, i),
         pc[s] \in {"lock", "view", "write", "reply"}
  PROVE  /\ requestP[s][i] \in RequestType
         /\ requestP[s][i].live /\ requestP[s][i].id \in Records
         /\ \A r \in Records : InSession(s, i, r) <=> pc[s] # "lock" /\ requestP[s][i].id = r
<1>1. requestP[s][i] \in RequestType /\ requestP[s][i].id \in Records
  BY DEF LockInv, Inv, TypeOK, BusyHasId
<1>2. requestP[s][i].live
  BY DEF LockInv, Inv, ServesLive, Turn
<1> QED
  BY <1>1, <1>2 DEF InSession

LEMMA ReadFailsEffect ==
  ASSUME LockInv, NEW s \in Servers, NEW i \in Slots, ReadFails(s, i)
  PROVE  Structure' /\ Effect
<1> DEFINE rq == requestP[s][i]
<1>1. rq \in RequestType /\ Reading(s, i) /\ KeepLocks
  BY DEF LockInv, Inv, TypeOK, ReadFails, NoInput, KeepLocks
<1>2. requestP' = [requestP EXCEPT ![s][i] = rq]
  BY DEF LockInv, Inv, TypeOK, ReadFails
<1>3. StepsTo(s, i, rq, "loop")
  BY <1>1, <1>2 DEF ReadFails, Reading, StepsTo
<1>4. pc[s] = "loop" /\ rq.live
  BY <1>1 DEF Reading, Turn, LockInv, Inv, ServesLive
<1>5. RequestFits(s, rq, "loop")
  BY <1>4 DEF LockInv, IdHasSession, RequestFits, Awaits, AwaitsId
<1>6. \A r \in Records : InSession(s, i, r) <=> rq.live /\ rq.id = r /\ "loop" # "lock"
  BY <1>4 DEF InSession
<1> QED
  BY <1>1, <1>3, <1>5, <1>6, StepEffect

\* mylock_check has found the record free.
LEMMA CheckIdEffect ==
  ASSUME LockInv, NEW s \in Servers, NEW i \in Slots, CheckId(s, i)
  PROVE  Structure' /\ Effect
<1> DEFINE rq == [requestP[s][i] EXCEPT !.id = sock[s][i].inbox.id]
<1>1. requestP[s][i] \in RequestType /\ sock[s][i] \in SocketType
  BY DEF LockInv, Inv, TypeOK
<1>2. sock[s][i].inbox.id \in Records
  BY <1>1, MessageParts DEF SocketType, CheckId, Input
<1>3. Turn(s, i) /\ pc[s] = "loop" /\ AwaitsId(s, i) /\ requestP[s][i].live /\ KeepLocks
  BY DEF CheckId, Input, Reading, Turn, LockInv, Inv, ServesLive, KeepLocks
<1>4. rq \in RequestType /\ rq.live /\ rq.id = sock[s][i].inbox.id
  BY <1>1, <1>2, <1>3 DEF RequestType
<1>5. requestP' = [requestP EXCEPT ![s][i] = rq]
  BY DEF CheckId
<1>6. s \in WriteServers => self_lock[s][rq.id] = 0
  BY <1>2, <1>4 DEF CheckId, LockRefused, LockInv, WriterLocksOnce
<1>7. \A r \in Records : ~InSession(s, i, r)
  BY <1>3, NoSessionYet
<1> HIDE DEF rq
<1>8. StepsTo(s, i, rq, "lock")
  BY <1>3, <1>5 DEF CheckId, StepsTo
<1>9. RequestFits(s, rq, "lock")
  BY <1>4 DEF RequestFits
<1> QED
  BY <1>3, <1>4, <1>6, <1>7, <1>8, <1>9, StepEffect

LEMMA LockIdEffect ==
  ASSUME LockInv, NEW s \in Servers, NEW i \in Slots, LockId(s, i)
  PROVE  Structure' /\ Effect
<1> DEFINE rq == requestP[s][i]
           type == IF s \in WriteServers THEN "F_WRLCK" ELSE "F_RDLCK"
<1>1. Turn(s, i) /\ pc[s] = "lock" /\ LockFunction(s, rq.id, type)
  BY DEF LockId
<1>2. /\ rq \in RequestType /\ rq.live /\ rq.id \in Records
      /\ \A r \in Records : ~InSession(s, i, r)
  BY <1>1, BusyRequest
<1>3. type \in LockTypes /\ TypeOK /\ Inv
  BY DEF LockTypes, LockInv, Inv
<1>4. requestP' = [requestP EXCEPT ![s][i] = rq]
  BY <1>3 DEF TypeOK, LockId
<1>5. StepsTo(s, i, rq, "view")
  BY <1>1, <1>4 DEF LockId, StepsTo
<1>6. RequestFits(s, rq, "view")
  BY <1>2 DEF RequestFits
<1>7. \A t \in Servers : t # s => self_lock'[t] = self_lock[t]
  <2> HIDE DEF type
  <2> QED
    BY <1>1, <1>2, <1>3, LockFunctionOthers
<1>8. Structure'
  BY <1>2, <1>5, <1>6, <1>7, StepFits DEF Structure
<1>9. \A t \in Servers, j \in Slots, r \in Records :
        InSession(t, j, r)' <=>
          IF t = s /\ j = i THEN rq.live /\ rq.id = r /\ "view" # "lock" ELSE InSession(t, j, r)
  BY <1>2, <1>3, <1>5, StepSessions
<1>10. s \in WriteServers => self_lock[s][rq.id] = 0
  BY <1>1 DEF LockInv, CheckedIsFree
<1>11. Enters(s, i, rq.id)
  BY <1>1, <1>2, <1>9, <1>10 DEF Enters
<1> QED
  BY <1>2, <1>8, <1>11 DEF Effect

LEMMA ViewRecordEffect ==
  ASSUME LockInv, NEW s \in Servers, NEW i \in Slots, ViewRecord(s, i)
  PROVE  Structure' /\ Effect
<1> DEFINE rq == IF s \in WriteServers
                 THEN [requestP[s][i] EXCEPT !.buf = "bookings", !.wait_for_write = 0]
                 ELSE [requestP[s][i] EXCEPT !.buf = "bookings", !.done = 1]
<1>1. CASE Down(s)
  BY <1>1, DownEffect
<1>2. CASE ~Down(s)
  <2>1. /\ requestP' = IF s \in WriteServers
                       THEN [requestP EXCEPT ![s][i].buf = "bookings", ![s][i].wait_for_write = 0]
                       ELSE [requestP EXCEPT ![s][i].buf = "bookings", ![s][i].done = 1]
        /\ NextSlot(s, i)
        /\ KeepLocks
        /\ Turn(s, i) /\ pc[s] = "view"
    BY <1>2 DEF ViewRecord, Writing, KeepLocks
  <2>2. /\ requestP[s][i] \in RequestType
        /\ requestP[s][i].live /\ requestP[s][i].id \in Records
        /\ \A r \in Records : InSession(s, i, r) <=> requestP[s][i].id = r
    BY <2>1, BusyRequest
  <2>3. rq \in RequestType /\ rq.live /\ rq.id = requestP[s][i].id /\ ~Awaits(s, rq)
    <3>1. rq \in RequestType /\ rq.live /\ rq.id = requestP[s][i].id
      BY <2>2 DEF RequestType
    <3>2. IF s \in WriteServers THEN rq.wait_for_write = 0 ELSE rq.done = 1
      BY <2>2 DEF RequestType
    <3> QED
      BY <3>1, <3>2 DEF Awaits
  <2>4. requestP' = [requestP EXCEPT ![s][i] = rq]
    BY <2>1 DEF LockInv, Inv, TypeOK
  <2> HIDE DEF rq
  <2>5. StepsTo(s, i, rq, "loop")
    BY <2>1, <2>4 DEF StepsTo
  <2>6. RequestFits(s, rq, "loop")
    BY <2>3 DEF RequestFits
  <2>7. \A r \in Records : InSession(s, i, r) <=> rq.live /\ rq.id = r /\ "loop" # "lock"
    BY <2>2, <2>3
  <2> QED
    BY <2>1, <2>3, <2>5, <2>6, <2>7, StepEffect
<1> QED
  BY <1>1, <1>2

LEMMA CommandEffect ==
  ASSUME LockInv, NEW s \in Servers, NEW i \in Slots, ReadCommand(s, i) \/ WriteRecord(s, i)
  PROVE  Structure' /\ Effect
<1> DEFINE rq == requestP[s][i]
           p == IF ReadCommand(s, i) THEN "write" ELSE "reply"
<1>1. rq \in RequestType /\ KeepLocks /\ Turn(s, i) /\ pc[s] # "lock"
  BY DEF LockInv, Inv, TypeOK, ReadCommand, WriteRecord, Input, Reading, KeepLocks
<1>2. requestP' = [requestP EXCEPT ![s][i] = rq]
  BY DEF LockInv, Inv, TypeOK, ReadCommand, WriteRecord
<1>3. rq.live
  BY <1>1 DEF Turn, LockInv, Inv, ServesLive
<1>4. ~AwaitsId(s, i)
  BY <1>1, <1>3 DEF ReadCommand, WriteRecord, LockInv, Inv, BusyHasId, IdHasSession
<1>5. RequestFits(s, rq, p) /\ p \in {"write", "reply"}
  BY <1>3, <1>4 DEF RequestFits, Awaits, AwaitsId
<1>6. StepsTo(s, i, rq, p)
  BY <1>1, <1>2 DEF ReadCommand, WriteRecord, StepsTo
<1>7. \A r \in Records : InSession(s, i, r) <=> rq.live /\ rq.id = r /\ p # "lock"
  BY <1>1, <1>5 DEF InSession
<1> HIDE DEF p
<1> QED
  BY <1>1, <1>5, <1>6, <1>7, StepEffect

-----------------------------------------------------------------------------
(***************************************************************************)
(* The poll loop, the clients, the operator.                               *)
(***************************************************************************)

\* A new connection has no id, since a closed one leaves none.
LEMMA PollEffect ==
  ASSUME LockInv, NEW s \in Servers, Poll(s)
  PROVE  Structure' /\ Effect
<1>1. TypeOK /\ pc[s] = "loop" /\ UNCHANGED <<flock, self_lock, pc>>
  BY DEF LockInv, Inv, Poll
<1>2. \A t \in Servers : t # s => revents'[t] = revents[t]
  BY <1>1 DEF Poll, TypeOK
<1>3. ASSUME NEW t \in Servers, NEW j \in Slots
      PROVE  \/ requestP'[t][j] = requestP[t][j]
             \/ t = s /\ requestP'[t][j].id \notin Records /\ requestP[t][j].id \notin Records
  <2>1. CASE Accept(s)
    <3>1. PICK i \in Slots : /\ ~requestP[s][i].live
                             /\ requestP' = [requestP EXCEPT ![s][i] = Admitted(s, @)]
      BY <2>1 DEF Accept
    <3>2. requestP[s][i].id \notin Records /\ requestP[s][i] \in RequestType
      BY <1>1, <3>1 DEF LockInv, IdHasSession, TypeOK
    <3>3. Admitted(s, requestP[s][i]).id = requestP[s][i].id
      BY <3>2 DEF Admitted, RequestType
    <3>4. requestP'[t][j] = IF t = s /\ j = i THEN Admitted(s, requestP[s][i]) ELSE requestP[t][j]
      BY <1>1, <3>1 DEF TypeOK
    <3> QED
      BY <3>2, <3>3, <3>4
  <2>2. CASE UNCHANGED requestP
    BY <2>2
  <2> QED
    BY <2>1, <2>2 DEF Poll
<1>4. ASSUME NEW t \in Servers, NEW j \in Slots, NEW r \in Records
      PROVE  InSession(t, j, r)' <=> InSession(t, j, r)
  <2>1. pc[t] = "lock" => (Turn(t, j)' <=> Turn(t, j))
    BY <1>1, <1>2 DEF Turn
  <2> QED
    BY <1>1, <1>3, <2>1 DEF InSession
<1>5. Stays
  BY <1>1, <1>4 DEF Stays, KeepLocks
<1>6. IdHasSession'
  <2> SUFFICES ASSUME NEW t \in Servers, NEW j \in Slots, requestP'[t][j].id \in Records
               PROVE  /\ requestP'[t][j].live
                      /\ AwaitsId(t, j)' => pc'[t] \in {"lock", "view"} /\ Turn(t, j)'
    BY DEF IdHasSession
  <2>1. requestP'[t][j] = requestP[t][j]
    BY <1>3
  <2>2. requestP[t][j].live /\ (AwaitsId(t, j) => pc[t] \in {"lock", "view"} /\ Turn(t, j))
    BY <2>1 DEF LockInv, IdHasSession
  <2>3. AwaitsId(t, j)' <=> AwaitsId(t, j)
    BY <2>1 DEF AwaitsId
  <2>4. t # s => (Turn(t, j)' <=> Turn(t, j))
    BY <1>2 DEF Turn
  <2> QED
    BY <1>1, <2>1, <2>2, <2>3, <2>4
<1>7. CheckedIsFree'
  <2> SUFFICES ASSUME NEW t \in WriteServers, NEW j \in Slots, pc'[t] = "lock", Turn(t, j)'
               PROVE  self_lock'[t][requestP'[t][j].id] = 0
    BY DEF CheckedIsFree
  <2>1. t \in Servers /\ t # s
    BY <1>1 DEF Servers
  <2>2. Turn(t, j) /\ requestP'[t][j] = requestP[t][j]
    BY <1>2, <1>3, <2>1 DEF Turn
  <2> QED
    BY <1>1, <2>2 DEF LockInv, CheckedIsFree
<1> QED
  BY <1>5, <1>6, <1>7 DEF Structure, Effect

\* What leaves requests and turns alone leaves sessions alone.
LEMMA IdleEffect ==
  ASSUME LockInv, UNCHANGED <<flock, self_lock, requestP, revents>>,
         \A t \in Servers : pc'[t] # pc[t] => pc[t] = "down" /\ pc'[t] = "loop"
  PROVE  Structure' /\ Effect
<1>1. \A t \in Servers, j \in Slots : /\ Turn(t, j)' <=> Turn(t, j)
                                      /\ AwaitsId(t, j)' <=> AwaitsId(t, j)
  BY DEF Turn, AwaitsId
<1>2. Stays
  BY <1>1 DEF Stays, KeepLocks, InSession
<1>3. IdHasSession'
  BY <1>1 DEF LockInv, IdHasSession
<1>4. CheckedIsFree'
  BY <1>1 DEF LockInv, CheckedIsFree, Servers
<1> QED
  BY <1>2, <1>3, <1>4 DEF Structure, Effect

LEMMA NextEffect ==
  ASSUME LockInv, [Next]_vars
  PROVE  Structure' /\ Effect
<1>1. CASE UNCHANGED vars
  BY <1>1, IdleEffect DEF vars
<1>2. ASSUME NEW s \in Servers, NEW i \in Slots, Client(s, i) PROVE Structure' /\ Effect
  <2>1. UNCHANGED <<flock, self_lock, requestP, revents, pc>>
    BY <1>2 DEF Client, Send, Depart
  <2> QED
    BY <2>1, IdleEffect
<1>3. ASSUME NEW s \in Servers, Start(s) PROVE Structure' /\ Effect
  BY <1>3, IdleEffect DEF Start, LockInv, Inv, TypeOK
<1>4. ASSUME NEW s \in Servers, Poll(s) \/ Kill(s) PROVE Structure' /\ Effect
  BY <1>4, PollEffect, DownEffect DEF Kill
<1>5. ASSUME NEW s \in Servers, NEW i \in Slots, Handle(s, i) PROVE Structure' /\ Effect
  <2>1. CASE \/ ReadEOF(s, i) \/ ReadCtrlC(s, i) \/ ReadPartial(s, i)
             \/ ReadBadId(s, i) \/ ReadLockedId(s, i)
             \/ ReadExit(s, i) \/ ReadNotExit(s, i)
             \/ ReadBadCommand(s, i) \/ ReadExcess(s, i)
             \/ Reply(s, i)
    BY <2>1, EndingEffect
  <2>2. CASE ReadFails(s, i) \/ CheckId(s, i) \/ LockId(s, i) \/ ViewRecord(s, i)
    BY <2>2, ReadFailsEffect, CheckIdEffect, LockIdEffect, ViewRecordEffect
  <2>3. CASE ReadCommand(s, i) \/ WriteRecord(s, i)
    BY <2>3, CommandEffect
  <2> QED
    BY <1>5, <2>1, <2>2, <2>3 DEF Handle
<1> QED
  BY <1>1, <1>2, <1>3, <1>4, <1>5 DEF Next

-----------------------------------------------------------------------------
(***************************************************************************)
(* A lock for every session.                                               *)
(***************************************************************************)

LEMMA InitHasLockInv == Init => LockInv
<1> SUFFICES ASSUME Init PROVE LockInv
  OBVIOUS
<1>1. Inv
  BY InitHasInv DEF IInv
<1>2. IdHasSession /\ CheckedIsFree
  BY ServerAssumption DEF Init, InitRequest, IdHasSession, CheckedIsFree, Servers
<1>3. \A s \in Servers, r \in Records :
        self_lock[s][r] = 0 /\ flock[s][r] = "F_UNLCK" /\ Sessions(s, r) = {}
  BY DEF Init, InitRequest, Sessions, InSession
<1>4. \A s \in Servers, r \in Records : Cardinality(Sessions(s, r)) = 0
  BY <1>3, FS_EmptySet
<1>5. LockCoversSessions /\ KernelLockCounted /\ WriterLocksOnce
  BY <1>3, <1>4 DEF LockCoversSessions, KernelLockCounted, WriterLocksOnce, Servers
<1> QED
  BY <1>1, <1>2, <1>5 DEF LockInv

LEMMA NextKeepsLockInv ==
  ASSUME LockInv, [Next]_vars
  PROVE  LockInv'
<1>1. Inv'
  BY NextKeepsInv DEF LockInv
<1>2. Structure' /\ Effect
  BY NextEffect
<1>3. LocksFit'
  BY <1>2, StaysFits, EntersFits, LeavesFits, DownFits DEF Effect
<1> QED
  BY <1>1, <1>2, <1>3 DEF LockInv, LocksFit, Structure

LEMMA LockInvHolds == Spec => []LockInv
<1>1. Init => LockInv
  BY InitHasLockInv
<1>2. LockInv /\ [Next]_vars => LockInv'
  BY NextKeepsLockInv
<1> QED
  BY <1>1, <1>2, PTL DEF Spec

\* What mylock_function does to the kernel's lock of a session that begins.
LEMMA EntersLocks ==
  ASSUME LockInv, NEW s \in Servers, NEW i \in Slots, NEW r \in Records, Enters(s, i, r)
  PROVE  /\ flock[s][r] = SessionLock(s) \/ ~Blocked(flock, s, r, SessionLock(s))
              => flock'[s][r] = SessionLock(s)
         /\ \A t \in Servers, q \in Records : ~(t = s /\ q = r) => flock'[t][q] = flock[t][q]
<1>1. LockFunction(s, r, SessionLock(s)) /\ SessionLock(s) \in LockTypes /\ TypeOK
  BY DEF Enters, SessionLock, LockTypes, LockInv, Inv
<1>2. flock' = SetLk(flock, s, r, SessionLock(s))
  BY <1>1 DEF LockFunction, SessionLock
<1> QED
  BY <1>1, <1>2, LockFunctionEffect DEF SetLk, TypeOK

\* A session that ends takes the kernel's lock along only if it was the last one.
LEMMA LeavesLocks ==
  ASSUME LockInv, NEW s \in Servers, NEW i \in Slots, NEW r \in Records, Leaves(s, i, r)
  PROVE  /\ Sessions(s, r)' # {} => flock'[s][r] = flock[s][r]
         /\ \A t \in Servers, q \in Records : ~(t = s /\ q = r) => flock'[t][q] = flock[t][q]
<1>1. LockFunction(s, r, "F_UNLCK") /\ "F_UNLCK" \in LockTypes /\ TypeOK
  BY DEF Leaves, LockTypes, LockInv, Inv
<1>2. /\ \A t \in Servers, q \in Records : ~(t = s /\ q = r) => flock'[t][q] = flock[t][q]
      /\ s \in WriteServers => self_lock'[s][r] = 0
      /\ s \notin WriteServers => self_lock'[s][r] = self_lock[s][r] - 1
  BY <1>1, LockFunctionEffect
<1>3. ASSUME Sessions(s, r)' # {} PROVE flock'[s][r] = flock[s][r]
  <2>1. Sessions(s, r)' \subseteq Sessions(s, r) /\ IsFiniteSet(Sessions(s, r))
    BY SessionsFinite DEF Leaves, Sessions
  <2>2. Cardinality(Sessions(s, r)') \in Nat /\ Cardinality(Sessions(s, r)') # 0
    <3> DEFINE S == Sessions(s, r)'
    <3>1. IsFiniteSet(S) /\ S # {}
      BY <1>3, <2>1, FS_Subset
    <3> HIDE DEF S
    <3>2. Cardinality(S) \in Nat /\ Cardinality(S) # 0
      BY <3>1, FS_CardinalityType, FS_EmptySet
    <3> QED
      BY <3>2 DEF S
  <2>3. self_lock'[s][r] >= Cardinality(Sessions(s, r)')
    BY LeavesFits DEF LocksFit, LockCoversSessions
  <2>4. self_lock'[s][r] # 0 /\ s \notin WriteServers
    BY <1>2, <2>2, <2>3
  <2>5. flock' = flock
    BY <1>1, <1>2, <2>4 DEF LockFunction
  <2> QED
    BY <2>5
<1> QED
  BY <1>2, <1>3

LEMMA StepKeepsLocks ==
  ASSUME LockInv, [Next]_vars, NEW s \in Servers, NEW r \in Records, Sessions(s, r)' # {},
         \/ flock[s][r] = SessionLock(s)
         \/ Sessions(s, r) = {} /\ ~Blocked(flock, s, r, SessionLock(s))
  PROVE  flock'[s][r] = SessionLock(s)
<1>1. CASE Stays \/ Forgets
  <2>1. Sessions(s, r)' \subseteq Sessions(s, r) /\ flock' = flock
    BY <1>1 DEF Sessions, Stays, Forgets, KeepLocks
  <2> QED
    BY <2>1
<1>2. ASSUME NEW t \in Servers, NEW i \in Slots, NEW q \in Records, Enters(t, i, q)
      PROVE  flock'[s][r] = SessionLock(s)
  <2>1. CASE t = s /\ q = r
    BY <1>2, <2>1, EntersLocks
  <2>2. CASE ~(t = s /\ q = r)
    <3>1. flock'[s][r] = flock[s][r] /\ Sessions(s, r)' = Sessions(s, r)
      BY <1>2, <2>2, EntersLocks, EntersFits
    <3> QED
      BY <3>1
  <2> QED
    BY <2>1, <2>2
<1>3. ASSUME NEW t \in Servers, NEW i \in Slots, NEW q \in Records, Leaves(t, i, q)
      PROVE  flock'[s][r] = SessionLock(s)
  <2>1. Sessions(s, r)' \subseteq Sessions(s, r)
    BY <1>3 DEF Sessions, Leaves
  <2>2. flock'[s][r] = flock[s][r]
    BY <1>3, LeavesLocks
  <2> QED
    BY <2>1, <2>2
<1>4. ASSUME NEW t \in Servers, Down(t)
      PROVE  flock'[s][r] = SessionLock(s)
  <2>1. t # s /\ flock'[s][r] = flock[s][r] /\ Sessions(s, r)' = Sessions(s, r)
    BY <1>4, DownSessions DEF LockInv
  <2> QED
    BY <2>1
<1> QED
  BY <1>1, <1>2, <1>3, <1>4, NextEffect DEF Effect

\* The kernel's lock outlasts every session that leaves another one of its process
\* behind: a read_server keeps it as long as one of its clients is looking, and a
\* write_server while it edits, whatever other processes do, and whatever is lost,
\* killed or sent in between.
THEOREM KernelLocksAreKept == Spec => KernelLockKept
<1>1. LockInv /\ [Next]_vars
        => [\A s \in Servers, r \in Records :
              /\ Sessions(s, r)' # {}
              /\ \/ flock[s][r] = SessionLock(s)
                 \/ Sessions(s, r) = {} /\ ~Blocked(flock, s, r, SessionLock(s))
              => flock'[s][r] = SessionLock(s)]_vars
  BY StepKeepsLocks
<1> QED
  BY <1>1, LockInvHolds, PTL DEF Spec, KernelLockKept

\* The kernel's lock is gone as soon as self_lock says that nobody needs it.
THEOREM KernelLocksAreCounted == Spec => []KernelLockCounted
<1>1. LockInv => KernelLockCounted
  BY DEF LockInv
<1> QED
  BY <1>1, LockInvHolds, PTL

-----------------------------------------------------------------------------
(***************************************************************************)
(* A session for every lock, when nobody hangs up and readers type Exit.   *)
(***************************************************************************)

Courtesy == Polite /\ Departures = {}

\* Nobody hangs up, and in its session a reader types nothing but Exit or Ctrl-C.
ClientsStay == \A s \in Servers, i \in Slots : sock[s][i].peer \in {"none", "open"}

ReadersExit ==
  \A s \in ReadServers, i \in Slots :
    requestP[s][i].id \in Records => sock[s][i].inbox.kind \in {"nothing", "exit", "ctrlc"}

PoliteInv == LockInv /\ ClientsStay /\ ReadersExit /\ LockHasSession

\* What ClientsStay and ReadersExit ask of one connection after a step.
Courteous(t, j) ==
  /\ sock'[t][j].peer \in {"none", "open"}
  /\ t \in ReadServers /\ requestP'[t][j].id \in Records
       => sock'[t][j].inbox.kind \in {"nothing", "exit", "ctrlc"}

LEMMA UntouchedIsCourteous ==
  ASSUME PoliteInv, NEW t \in Servers, NEW j \in Slots,
         sock'[t][j] = sock[t][j], requestP'[t][j].id = requestP[t][j].id
  PROVE  Courteous(t, j)
BY DEF PoliteInv, ClientsStay, ReadersExit, Courteous

LEMMA EmptyIsCourteous ==
  ASSUME NEW t \in Servers, NEW j \in Slots, sock'[t][j] = NoSocket
  PROVE  Courteous(t, j)
BY DEF NoSocket, Nothing, Courteous

LEMMA DownIsCourteous ==
  ASSUME PoliteInv, NEW s \in Servers, Down(s), NEW t \in Servers, NEW j \in Slots
  PROVE  Courteous(t, j)
<1>1. IF t = s THEN sock'[t][j] = NoSocket
      ELSE sock'[t][j] = sock[t][j] /\ requestP'[t][j].id = requestP[t][j].id
  BY DEF Down, PoliteInv, LockInv, Inv, TypeOK
<1> QED
  BY <1>1, UntouchedIsCourteous, EmptyIsCourteous

LEMMA CloseIsCourteous ==
  ASSUME PoliteInv, NEW s \in Servers, NEW i \in Slots, NEW rq, Close(s, i, rq),
         NEW t \in Servers, NEW j \in Slots
  PROVE  Courteous(t, j)
<1>1. IF t = s /\ j = i THEN sock'[t][j] = NoSocket
      ELSE sock'[t][j] = sock[t][j] /\ requestP'[t][j].id = requestP[t][j].id
  BY DEF Close, PoliteInv, LockInv, Inv, TypeOK
<1> QED
  BY <1>1, UntouchedIsCourteous, EmptyIsCourteous

\* A read of the input that leaves the connection open.
LEMMA ConsumeIsCourteous ==
  ASSUME PoliteInv, NEW s \in Servers, NEW i \in Slots, CheckId(s, i) \/ ReadCommand(s, i),
         NEW t \in Servers, NEW j \in Slots
  PROVE  Courteous(t, j)
<1>1. sock' = [sock EXCEPT ![s][i].inbox = Nothing]
  BY DEF CheckId, ReadCommand, Consume
<1>2. sock[s][i] \in SocketType /\ sock[s][i].peer \in {"none", "open"}
  BY DEF PoliteInv, ClientsStay, LockInv, Inv, TypeOK
<1>3. CASE t = s /\ j = i
  <2>1. sock'[t][j].peer = sock[s][i].peer /\ sock'[t][j].inbox = Nothing
    BY <1>1, <1>2, <1>3 DEF PoliteInv, LockInv, Inv, TypeOK, SocketType
  <2> QED
    BY <1>2, <2>1 DEF Courteous, Nothing
<1>4. CASE ~(t = s /\ j = i)
  <2>1. sock'[t][j] = sock[t][j]
    BY <1>1, <1>4 DEF PoliteInv, LockInv, Inv, TypeOK
  <2>2. requestP'[t][j] = requestP[t][j]
    BY <1>4 DEF CheckId, ReadCommand, PoliteInv, LockInv, Inv, TypeOK
  <2> QED
    BY <2>1, <2>2, UntouchedIsCourteous
<1> QED
  BY <1>3, <1>4

LEMMA ViewIsCourteous ==
  ASSUME PoliteInv, NEW s \in Servers, NEW i \in Slots, ViewRecord(s, i),
         NEW t \in Servers, NEW j \in Slots
  PROVE  Courteous(t, j)
<1>1. CASE Down(s)
  BY <1>1, DownIsCourteous
<1>2. CASE ~Down(s)
  <2>1. /\ requestP' = IF s \in WriteServers
                       THEN [requestP EXCEPT ![s][i].buf = "bookings", ![s][i].wait_for_write = 0]
                       ELSE [requestP EXCEPT ![s][i].buf = "bookings", ![s][i].done = 1]
        /\ \E peer \in After(sock[s][i].peer, 2) : sock' = [sock EXCEPT ![s][i].peer = peer]
    BY <1>2 DEF ViewRecord, Writing
  <2>2. requestP'[t][j].id = requestP[t][j].id
    BY <2>1 DEF PoliteInv, LockInv, Inv, TypeOK, RequestType
  <2>3. sock[s][i] \in SocketType /\ sock[s][i].peer \in {"none", "open"}
    BY DEF PoliteInv, ClientsStay, LockInv, Inv, TypeOK
  <2>4. After(sock[s][i].peer, 2) \subseteq {"open"}
    BY <2>3 DEF After
  <2>5. sock'[t][j].peer \in {"none", "open"} /\ sock'[t][j].inbox = sock[t][j].inbox
    BY <2>1, <2>3, <2>4 DEF PoliteInv, ClientsStay, LockInv, Inv, TypeOK, SocketType
  <2> QED
    BY <2>2, <2>5 DEF PoliteInv, ReadersExit, Courteous
<1> QED
  BY <1>1, <1>2

LEMMA SendIsCourteous ==
  ASSUME Courtesy, PoliteInv, NEW s \in Servers, NEW i \in Slots, NEW m \in Messages, Send(s, i, m),
         NEW t \in Servers, NEW j \in Slots
  PROVE  Courteous(t, j)
<1>1. sock' = [sock EXCEPT ![s][i].inbox = m] /\ requestP' = requestP
  BY DEF Send
<1>2. CASE t = s /\ j = i
  <2>1. sock'[t][j].peer = sock[s][i].peer /\ sock'[t][j].inbox = m
    BY <1>1, <1>2 DEF PoliteInv, LockInv, Inv, TypeOK, SocketType
  <2>2. sock[s][i].peer = "open"
    BY DEF Send
  <2>3. s \in ReadServers /\ requestP[s][i].id \in Records => m.kind \in {"exit", "ctrlc"}
    BY ServerAssumption DEF Send, Courtesy
  <2> QED
    BY <1>1, <1>2, <2>1, <2>2, <2>3 DEF Courteous
<1>3. CASE ~(t = s /\ j = i)
  BY <1>1, <1>3, UntouchedIsCourteous DEF PoliteInv, LockInv, Inv, TypeOK
<1> QED
  BY <1>2, <1>3

LEMMA PollIsCourteous ==
  ASSUME Courtesy, PoliteInv, NEW s \in Servers, Poll(s), NEW t \in Servers, NEW j \in Slots
  PROVE  Courteous(t, j)
<1>1. CASE Accept(s)
  <2>1. PICK i \in Slots :
          /\ ~requestP[s][i].live
          /\ requestP' = [requestP EXCEPT ![s][i] = Admitted(s, @)]
          /\ \E peer \in {"open"} \cup UNION {After(p, 1) : p \in Departures},
                input \in Messages \cup {Nothing} :
               sock' = [sock EXCEPT ![s][i] = [peer |-> peer, inbox |-> input]]
    BY <1>1 DEF Accept
  <2>2. UNION {After(p, 1) : p \in Departures} = {}
    BY DEF Courtesy
  <2>3. PICK input : sock' = [sock EXCEPT ![s][i] = [peer |-> "open", inbox |-> input]]
    BY <2>1, <2>2
  <2>4. requestP[s][i] \in RequestType /\ requestP[s][i].id \notin Records
    BY <2>1 DEF PoliteInv, LockInv, IdHasSession, Inv, TypeOK
  <2>5. Admitted(s, requestP[s][i]).id = requestP[s][i].id
    BY <2>4 DEF Admitted, RequestType
  <2>6. CASE t = s /\ j = i
    <3>1. requestP'[t][j].id \notin Records /\ sock'[t][j].peer = "open"
      BY <2>1, <2>3, <2>4, <2>5, <2>6 DEF PoliteInv, LockInv, Inv, TypeOK
    <3> QED
      BY <3>1 DEF Courteous
  <2>7. CASE ~(t = s /\ j = i)
    <3>1. requestP'[t][j] = requestP[t][j] /\ sock'[t][j] = sock[t][j]
      BY <2>1, <2>3, <2>7 DEF PoliteInv, LockInv, Inv, TypeOK
    <3> QED
      BY <3>1, UntouchedIsCourteous
  <2> QED
    BY <2>6, <2>7
<1>2. CASE UNCHANGED <<requestP, sock>>
  BY <1>2, UntouchedIsCourteous
<1> QED
  BY <1>1, <1>2 DEF Poll

LEMMA NextIsCourteous ==
  ASSUME Courtesy, PoliteInv, [Next]_vars
  PROVE  ClientsStay' /\ ReadersExit'
<1>1. SUFFICES ASSUME NEW t \in Servers, NEW j \in Slots PROVE Courteous(t, j)
  BY <1>1 DEF ClientsStay, ReadersExit, Courteous, Servers
<1>2. CASE UNCHANGED vars
  BY <1>2, UntouchedIsCourteous DEF vars
<1>3. ASSUME NEW s \in Servers, Poll(s) \/ Start(s) \/ Kill(s) PROVE Courteous(t, j)
  BY <1>3, PollIsCourteous, DownIsCourteous, UntouchedIsCourteous DEF Start, Kill
<1>4. ASSUME NEW s \in Servers, NEW i \in Slots, Client(s, i) PROVE Courteous(t, j)
  BY <1>4, SendIsCourteous DEF Client, Courtesy
<1>5. ASSUME NEW s \in Servers, NEW i \in Slots, Handle(s, i) PROVE Courteous(t, j)
  <2>1. CASE \/ ReadEOF(s, i) \/ ReadCtrlC(s, i) \/ ReadPartial(s, i)
             \/ ReadBadId(s, i) \/ ReadLockedId(s, i)
             \/ ReadExit(s, i) \/ ReadNotExit(s, i)
             \/ ReadBadCommand(s, i) \/ ReadExcess(s, i)
             \/ Reply(s, i)
    <3>1. Down(s) \/ \E rq : Close(s, i, rq)
      BY <2>1 DEF ReadEOF, ReadCtrlC, ReadPartial, ReadBadId, ReadLockedId, ReadExit, ReadNotExit,
                  ReadBadCommand, ReadExcess, Reply, Writing, Refuse
    <3> QED
      BY <3>1, DownIsCourteous, CloseIsCourteous
  <2>2. CASE ReadFails(s, i)
    BY <2>2 DEF ReadFails, PoliteInv, ClientsStay
  <2>3. CASE CheckId(s, i) \/ ReadCommand(s, i)
    BY <2>3, ConsumeIsCourteous
  <2>4. CASE LockId(s, i) \/ WriteRecord(s, i)
    BY <2>4, UntouchedIsCourteous DEF LockId, WriteRecord
  <2>5. CASE ViewRecord(s, i)
    BY <2>5, ViewIsCourteous
  <2> QED
    BY <1>5, <2>1, <2>2, <2>3, <2>4, <2>5 DEF Handle
<1> QED
  BY <1>2, <1>3, <1>4, <1>5 DEF Next

\* The two ways to forget a lock are closed to courteous clients.
LEMMA NothingForgotten ==
  ASSUME PoliteInv, NEW s \in Servers, NEW i \in Slots
  PROVE  ~ReadEOF(s, i) /\ ~ReadNotExit(s, i)
<1>1. ~ReadEOF(s, i)
  BY DEF ReadEOF, PoliteInv, ClientsStay
<1>2. ASSUME ReadNotExit(s, i) PROVE FALSE
  <2>1. s \in ReadServers /\ Reading(s, i) /\ ~AwaitsId(s, i)
        /\ sock[s][i].inbox.kind \in {"id", "command", "junk"}
    BY <1>2 DEF ReadNotExit, Line
  <2>2. requestP[s][i].id \in Records
    BY <2>1 DEF PoliteInv, LockInv, Inv, ServesLive, SecondLineHasId, Reading, Turn
  <2> QED
    BY <2>1, <2>2 DEF PoliteInv, ReadersExit
<1> QED
  BY <1>1, <1>2

LEMMA NextKeepsPoliteInv ==
  ASSUME Courtesy, PoliteInv, [Next]_vars
  PROVE  PoliteInv'
<1>1. LockInv /\ LockInv' /\ ClientsStay' /\ ReadersExit'
  BY NextKeepsLockInv, NextIsCourteous DEF PoliteInv
<1>2. ASSUME NEW t \in Servers, NEW q \in Records
      PROVE  self_lock'[t][q] <= Cardinality(Sessions(t, q)')
  <2>1. self_lock[t][q] <= Cardinality(Sessions(t, q)) /\ self_lock[t][q] \in Int
        /\ Cardinality(Sessions(t, q)) \in Nat
    BY SessionsFinite DEF PoliteInv, LockHasSession, LockInv, Inv, TypeOK
  <2>2. CASE Stays
    <3>1. Sessions(t, q)' = Sessions(t, q) /\ self_lock' = self_lock
      BY <2>2 DEF Stays, Sessions, KeepLocks
    <3> QED
      BY <2>1, <3>1
  <2>3. ASSUME NEW s \in Servers, NEW i \in Slots, NEW r \in Records, Enters(s, i, r) \/ Leaves(s, i, r)
        PROVE  self_lock'[t][q] <= Cardinality(Sessions(t, q)')
    <3>1. CASE t = s /\ q = r
      <4>1. \/ /\ self_lock'[t][q] = self_lock[t][q] + 1
               /\ Cardinality(Sessions(t, q)') = Cardinality(Sessions(t, q)) + 1
            \/ /\ self_lock'[t][q] = self_lock[t][q] - 1
               /\ Cardinality(Sessions(t, q)') = Cardinality(Sessions(t, q)) - 1
        BY <1>1, <2>3, <3>1, EntersFits, LeavesFits
      <4> QED
        BY <2>1, <4>1
    <3>2. CASE ~(t = s /\ q = r)
      <4>1. Sessions(t, q)' = Sessions(t, q) /\ self_lock'[t][q] = self_lock[t][q]
        BY <1>1, <2>3, <3>2, EntersFits, LeavesFits
      <4> QED
        BY <2>1, <4>1
    <3> QED
      BY <3>1, <3>2
  <2>4. ASSUME NEW s \in Servers, Down(s)
        PROVE  self_lock'[t][q] <= Cardinality(Sessions(t, q)')
    <3>1. CASE t = s
      <4>1. self_lock'[t][q] = 0 /\ Sessions(t, q)' = {}
        BY <1>1, <2>4, <3>1, DownSessions DEF LockInv
      <4> QED
        BY <4>1, FS_EmptySet
    <3>2. CASE t # s
      <4>1. Sessions(t, q)' = Sessions(t, q) /\ self_lock'[t][q] = self_lock[t][q]
        BY <1>1, <2>4, <3>2, DownSessions DEF LockInv
      <4> QED
        BY <2>1, <4>1
    <3> QED
      BY <3>1, <3>2
  <2>5. Effect
    BY <1>1, NextEffect
  <2> QED
    BY <2>2, <2>3, <2>4, <2>5, NothingForgotten DEF Effect
<1> QED
  BY <1>1, <1>2 DEF PoliteInv, LockHasSession

\* When nobody hangs up and readers answer the prompt with Exit, self_lock counts
\* exactly the sessions: no record stays locked after its last session.
THEOREM LocksHaveSessions ==
  ASSUME Courtesy
  PROVE  Spec => []LockHasSession
<1>1. Init => PoliteInv
  <2> SUFFICES ASSUME Init PROVE PoliteInv
    OBVIOUS
  <2>1. \A s \in Servers, r \in Records :
          self_lock[s][r] = 0 /\ Cardinality(Sessions(s, r)) \in Nat
    BY SessionsFinite DEF Init
  <2>2. LockHasSession
    BY <2>1 DEF LockHasSession
  <2>3. ClientsStay /\ ReadersExit
    BY ServerAssumption DEF Init, InitRequest, NoSocket, ClientsStay, ReadersExit, Servers
  <2> QED
    BY <2>2, <2>3, InitHasLockInv DEF PoliteInv
<1>2. PoliteInv /\ [Next]_vars => PoliteInv'
  BY NextKeepsPoliteInv
<1>3. PoliteInv => LockHasSession
  BY DEF PoliteInv
<1> QED
  BY <1>1, <1>2, <1>3, PTL DEF Spec

-----------------------------------------------------------------------------
(***************************************************************************)
(* What is on the screen is on file, when one write_server runs.           *)
(***************************************************************************)

OneWriteServer == \A s, t \in WriteServers : s = t

\* The bookings on the client's screen are those that its command will be
\* applied to.
Shows(s, i) ==
  /\ requestP[s][i].live
  /\ ~AwaitsId(s, i)
  /\ ~(pc[s] = "reply" /\ Turn(s, i))

\* What a write_server is about to write is the outcome of an allowed command,
\* computed from what is still on file.
CommandPending ==
  \A s \in Servers, i \in Slots :
    pc[s] = "write" /\ Turn(s, i)
      => /\ s \in WriteServers
         /\ \E nums \in Commands :
              /\ Verdict(file[requestP[s][i].id], nums) = "booked"
              /\ temp[s] = Booked(file[requestP[s][i].id], nums)

ShownInv == LockInv /\ CommandPending /\ ShownIsCurrent

\* Nothing appears on a screen, and nothing changes behind it.
NothingNewShown ==
  /\ file' = file
  /\ \A t \in Servers, j \in Slots :
       Shows(t, j)' => /\ Shows(t, j)
                       /\ requestP'[t][j].id = requestP[t][j].id
                       /\ shown'[t][j] = shown[t][j]

LEMMA StepShows ==
  ASSUME Inv, NEW s \in Servers, NEW i \in Slots, NEW rq \in RequestType,
         NEW p \in {"loop", "lock", "view", "write", "reply"}, StepsTo(s, i, rq, p)
  PROVE  \A t \in Servers, j \in Slots :
           Shows(t, j)' <=> IF t = s /\ j = i THEN rq.live /\ ~Awaits(s, rq) /\ p # "reply"
                            ELSE Shows(t, j)
<1> SUFFICES ASSUME NEW t \in Servers, NEW j \in Slots
             PROVE  Shows(t, j)' <=> IF t = s /\ j = i THEN rq.live /\ ~Awaits(s, rq) /\ p # "reply"
                                     ELSE Shows(t, j)
  OBVIOUS
<1>1. /\ requestP'[t][j] = IF t = s /\ j = i THEN rq ELSE requestP[t][j]
      /\ t # s => (Turn(t, j)' <=> Turn(t, j))
      /\ p # "loop" => (Turn(t, j)' <=> Turn(t, j))
      /\ j # i => ~Turn(s, j)
      /\ pc'[t] = IF t = s THEN p ELSE pc[t]
  BY StepPieces
<1>2. Turn(s, i)
  BY DEF StepsTo
<1>3. CASE t = s /\ j = i
  BY <1>1, <1>2, <1>3 DEF Shows, Awaits, AwaitsId
<1>4. CASE t = s /\ j # i
  <2>1. ~(pc'[t] = "reply" /\ Turn(t, j)') /\ ~(pc[t] = "reply" /\ Turn(t, j))
    BY <1>1, <1>4
  <2> QED
    BY <1>1, <1>4, <2>1 DEF Shows, AwaitsId
<1>5. CASE t # s
  BY <1>1, <1>5 DEF Shows, AwaitsId
<1> QED
  BY <1>3, <1>4, <1>5

\* A step that leaves the file and the screens alone shows nothing new.
LEMMA StepShowsNothing ==
  ASSUME Inv, NEW s \in Servers, NEW i \in Slots, NEW rq \in RequestType,
         NEW p \in {"loop", "lock", "view", "write", "reply"}, StepsTo(s, i, rq, p),
         file' = file,
         \A t \in Servers, j \in Slots : ~(t = s /\ j = i) => shown'[t][j] = shown[t][j],
         rq.live /\ ~Awaits(s, rq) /\ p # "reply"
           => Shows(s, i) /\ rq.id = requestP[s][i].id /\ shown'[s][i] = shown[s][i]
  PROVE  NothingNewShown
<1> SUFFICES ASSUME NEW t \in Servers, NEW j \in Slots, Shows(t, j)'
             PROVE  /\ Shows(t, j)
                    /\ requestP'[t][j].id = requestP[t][j].id
                    /\ shown'[t][j] = shown[t][j]
  BY DEF NothingNewShown
<1>1. requestP'[t][j] = IF t = s /\ j = i THEN rq ELSE requestP[t][j]
  BY StepPieces
<1>2. IF t = s /\ j = i THEN rq.live /\ ~Awaits(s, rq) /\ p # "reply" ELSE Shows(t, j)
  BY StepShows
<1> QED
  BY <1>1, <1>2

LEMMA DownShowsNothing ==
  ASSUME Inv, NEW s \in Servers, Down(s)
  PROVE  NothingNewShown
<1>1. \A t \in Servers : t # s => /\ requestP'[t] = requestP[t] /\ pc'[t] = pc[t]
                                  /\ revents'[t] = revents[t] /\ shown'[t] = shown[t]
  BY DEF Down, Inv, TypeOK
<1>2. \A j \in Slots : ~requestP'[s][j].live
  BY DEF Down, InitRequest, Inv, TypeOK
<1>3. file' = file
  BY DEF Down
<1> QED
  BY <1>1, <1>2, <1>3 DEF NothingNewShown, Shows, AwaitsId, Turn

LEMMA CloseShowsNothing ==
  ASSUME Inv, NEW s \in Servers, NEW i \in Slots, NEW rq \in RequestType, ~rq.live, Turn(s, i),
         Close(s, i, rq)
  PROVE  NothingNewShown
<1>1. StepsTo(s, i, rq, "loop")
  BY DEF StepsTo, Close
<1>2. file' = file
  BY DEF Close
<1>3. \A t \in Servers, j \in Slots : ~(t = s /\ j = i) => shown'[t][j] = shown[t][j]
  BY DEF Close, Inv, TypeOK
<1> QED
  BY <1>1, <1>2, <1>3, StepShowsNothing

LEMMA EndingShowsNothing ==
  ASSUME Inv, NEW s \in Servers, NEW i \in Slots,
         \/ ReadEOF(s, i) \/ ReadCtrlC(s, i) \/ ReadPartial(s, i)
         \/ ReadBadId(s, i) \/ ReadLockedId(s, i)
         \/ ReadExit(s, i) \/ ReadNotExit(s, i)
         \/ ReadBadCommand(s, i) \/ ReadExcess(s, i)
         \/ Reply(s, i)
  PROVE  NothingNewShown
<1> DEFINE rq == requestP[s][i]
           exit == [FreeRequest(rq) EXCEPT !.buf = "Exit"]
           booked == [FreeRequest(rq) EXCEPT !.buf = "bookings"]
<1>1. rq \in RequestType
  BY DEF Inv, TypeOK
<1>2. \A left \in {AfterRefusal(s, rq), exit, booked} : left \in RequestType /\ ~left.live
  BY <1>1, ClosedRequest
<1>3. Turn(s, i)
  BY DEF ReadEOF, ReadCtrlC, ReadPartial, ReadBadId, ReadLockedId, ReadExit, ReadNotExit,
         ReadBadCommand, ReadExcess, Reply, NoInput, Line, Input, Reading
<1>4. Down(s) \/ \E left \in {AfterRefusal(s, rq), exit, booked} : Close(s, i, left)
  BY DEF ReadEOF, ReadCtrlC, ReadPartial, ReadBadId, ReadLockedId, ReadExit, ReadNotExit,
         ReadBadCommand, ReadExcess, Reply, Writing, Refuse
<1> HIDE DEF exit, booked
<1> QED
  BY <1>2, <1>3, <1>4, DownShowsNothing, CloseShowsNothing

LEMMA SessionStepShowsNothing ==
  ASSUME LockInv, NEW s \in Servers, NEW i \in Slots,
         ReadFails(s, i) \/ CheckId(s, i) \/ LockId(s, i) \/ ReadCommand(s, i)
  PROVE  NothingNewShown
<1> DEFINE rq == requestP[s][i]
<1>1. Inv /\ rq \in RequestType /\ file' = file /\ shown' = shown /\ Turn(s, i)
  BY DEF LockInv, Inv, TypeOK, ReadFails, CheckId, LockId, ReadCommand, NoInput, Input, Reading
<1>2. CASE ReadFails(s, i) \/ ReadCommand(s, i)
  <2>1. PICK p \in {"loop", "write"} : StepsTo(s, i, rq, p)
    <3>1. requestP' = [requestP EXCEPT ![s][i] = rq]
      BY <1>1, <1>2 DEF Inv, TypeOK, ReadFails, ReadCommand
    <3> QED
      BY <1>1, <1>2, <3>1 DEF ReadFails, ReadCommand, StepsTo
  <2>2. pc[s] = "loop"
    BY <1>2 DEF ReadFails, ReadCommand, NoInput, Input, Reading
  <2>3. rq.live /\ ~Awaits(s, rq) => Shows(s, i)
    BY <2>2 DEF Shows, Awaits, AwaitsId
  <2> QED
    BY <1>1, <2>1, <2>3, StepShowsNothing
<1>3. CASE LockId(s, i)
  <2>1. requestP' = [requestP EXCEPT ![s][i] = rq]
    BY <1>1, <1>3 DEF Inv, TypeOK, LockId
  <2>2. StepsTo(s, i, rq, "view")
    BY <1>1, <1>3, <2>1 DEF LockId, StepsTo
  <2>3. rq.live => Awaits(s, rq)
    BY <1>1, <1>3 DEF LockId, Inv, SecondLineHasId, Awaits, AwaitsId
  <2> QED
    BY <1>1, <2>2, <2>3, StepShowsNothing
<1>4. CASE CheckId(s, i)
  <2> DEFINE new == [rq EXCEPT !.id = sock[s][i].inbox.id]
  <2>1. sock[s][i].inbox.id \in Records
    BY <1>1, <1>4, MessageParts DEF CheckId, Input, Inv, TypeOK, SocketType
  <2>2. new \in RequestType /\ Awaits(s, new)
    BY <1>1, <1>4, <2>1 DEF CheckId, AwaitsId, Awaits, RequestType
  <2>3. requestP' = [requestP EXCEPT ![s][i] = new]
    BY <1>4 DEF CheckId
  <2> HIDE DEF new
  <2>4. StepsTo(s, i, new, "lock")
    BY <1>1, <1>4, <2>3 DEF CheckId, StepsTo
  <2> QED
    BY <1>1, <2>2, <2>4, StepShowsNothing
<1> QED
  BY <1>2, <1>3, <1>4

LEMMA PollShowsNothing ==
  ASSUME Inv, NEW s \in Servers, Poll(s)
  PROVE  NothingNewShown
<1>1. TypeOK /\ pc[s] = "loop" /\ UNCHANGED <<file, shown, pc>>
  BY DEF Inv, Poll
<1>2. \A t \in Servers : t # s => revents'[t] = revents[t]
  BY <1>1 DEF Poll, TypeOK
<1>3. ASSUME NEW t \in Servers, NEW j \in Slots
      PROVE  requestP'[t][j] = requestP[t][j] \/ (t = s /\ AwaitsId(t, j)')
  <2>1. CASE Accept(s)
    <3>1. PICK i \in Slots : requestP' = [requestP EXCEPT ![s][i] = Admitted(s, @)]
      BY <2>1 DEF Accept
    <3>2. requestP[s][i] \in RequestType
      BY <1>1 DEF TypeOK
    <3>3. Awaits(s, Admitted(s, requestP[s][i]))
      BY <3>2 DEF Admitted, RequestType, Awaits
    <3>4. requestP'[t][j] = IF t = s /\ j = i THEN Admitted(s, requestP[s][i]) ELSE requestP[t][j]
      BY <1>1, <3>1 DEF TypeOK
    <3> QED
      BY <3>3, <3>4 DEF Awaits, AwaitsId
  <2>2. CASE UNCHANGED requestP
    BY <2>2
  <2> QED
    BY <2>1, <2>2 DEF Poll
<1>4. ASSUME NEW t \in Servers, NEW j \in Slots, Shows(t, j)'
      PROVE  Shows(t, j) /\ requestP'[t][j] = requestP[t][j]
  <2>1. requestP'[t][j] = requestP[t][j]
    BY <1>3, <1>4 DEF Shows
  <2>2. pc[t] = "reply" => (Turn(t, j)' <=> Turn(t, j))
    BY <1>1, <1>2 DEF Turn
  <2> QED
    BY <1>1, <1>4, <2>1, <2>2 DEF Shows, AwaitsId
<1> QED
  BY <1>1, <1>4 DEF NothingNewShown

\* Two actions alone matter to what is shown.
LEMMA OthersShowNothing ==
  ASSUME LockInv, [Next]_vars
  PROVE  \/ NothingNewShown
         \/ \E s \in Servers, i \in Slots : (ViewRecord(s, i) /\ ~Down(s)) \/ WriteRecord(s, i)
<1>1. Inv
  BY DEF LockInv
<1>2. CASE UNCHANGED vars
  BY <1>2 DEF vars, NothingNewShown, Shows, AwaitsId, Turn
<1>3. ASSUME NEW s \in Servers, NEW i \in Slots, Client(s, i) PROVE NothingNewShown
  BY <1>3 DEF Client, Send, Depart, NothingNewShown, Shows, AwaitsId, Turn
<1>4. ASSUME NEW s \in Servers, Start(s) PROVE NothingNewShown
  BY <1>1, <1>4 DEF Start, NothingNewShown, Shows, AwaitsId, Turn, Inv, TypeOK
<1>5. ASSUME NEW s \in Servers, Poll(s) \/ Kill(s) PROVE NothingNewShown
  BY <1>1, <1>5, PollShowsNothing, DownShowsNothing DEF Kill
<1>6. ASSUME NEW s \in Servers, NEW i \in Slots, Handle(s, i)
      PROVE  NothingNewShown \/ (ViewRecord(s, i) /\ ~Down(s)) \/ WriteRecord(s, i)
  BY <1>1, <1>6, EndingShowsNothing, SessionStepShowsNothing, DownShowsNothing DEF Handle
<1> QED
  BY <1>2, <1>3, <1>4, <1>5, <1>6 DEF Next

LEMMA NextKeepsPending ==
  ASSUME OneWriteServer, LockInv, CommandPending, [Next]_vars
  PROVE  CommandPending'
<1> SUFFICES ASSUME NEW t \in Servers, NEW j \in Slots, pc'[t] = "write", Turn(t, j)'
             PROVE  /\ t \in WriteServers
                    /\ \E nums \in Commands :
                         /\ Verdict(file'[requestP'[t][j].id], nums) = "booked"
                         /\ temp'[t] = Booked(file'[requestP'[t][j].id], nums)
  BY DEF CommandPending
<1>1. Inv
  BY DEF LockInv
<1>2. CASE FileUntouched
  <2>1. /\ pc[t] = "write" /\ temp'[t] = temp[t] /\ file' = file
        /\ requestP'[t] = requestP[t] /\ Turn(t, j)
    BY <1>2 DEF FileUntouched, Turn
  <2> QED
    BY <2>1 DEF CommandPending
<1>3. ASSUME NEW s \in Servers, NEW i \in Slots, ReadCommand(s, i)
      PROVE  /\ t \in WriteServers
             /\ \E nums \in Commands :
                  /\ Verdict(file'[requestP'[t][j].id], nums) = "booked"
                  /\ temp'[t] = Booked(file'[requestP'[t][j].id], nums)
  <2> DEFINE nums == sock[s][i].inbox.nums
  <2>1. file' = file /\ requestP' = requestP /\ revents' = revents
    BY <1>3 DEF ReadCommand
  <2>2. CASE t = s
    <3>1. Turn(s, i) /\ Turn(s, j)
      BY <1>3, <2>1, <2>2 DEF ReadCommand, Input, Reading, Turn
    <3>2. i = j
      BY <3>1, OneTurn
    <3>3. nums \in Commands
      BY <1>1, <1>3, MessageParts DEF Inv, TypeOK, SocketType, ReadCommand, Input
    <3>4. /\ Verdict(file[requestP[s][i].id], nums) = "booked"
          /\ temp'[s] = Booked(file[requestP[s][i].id], nums)
          /\ s \in WriteServers
      BY <1>1, <1>3 DEF Inv, TypeOK, ReadCommand
    <3> QED
      BY <2>1, <2>2, <3>2, <3>3, <3>4
  <2>3. CASE t # s
    <3>1. pc[t] = "write" /\ temp'[t] = temp[t] /\ Turn(t, j)
      BY <1>1, <1>3, <2>1, <2>3 DEF ReadCommand, Inv, TypeOK, Turn
    <3> QED
      BY <2>1, <3>1 DEF CommandPending
  <2> QED
    BY <2>2, <2>3
<1>4. ASSUME NEW s \in Servers, NEW i \in Slots, WriteRecord(s, i) PROVE FALSE
  <2>1. s \in WriteServers
    BY <1>4 DEF WriteRecord, CommandPending
  <2>2. pc[t] = "write" /\ Turn(t, j) /\ t # s
    BY <1>1, <1>4 DEF WriteRecord, Inv, TypeOK, Turn
  <2>3. t \in WriteServers
    BY <2>2 DEF CommandPending
  <2> QED
    BY <2>1, <2>2, <2>3 DEF OneWriteServer
<1> QED
  BY <1>1, <1>2, <1>3, <1>4, OthersTouchNoFile

\* A write_server lets one client at a time edit a record.
LEMMA OneSession ==
  ASSUME LockInv, NEW s \in WriteServers, NEW r \in Records, NEW i \in Slots, NEW j \in Slots,
         InSession(s, i, r), InSession(s, j, r)
  PROVE  i = j
<1> SUFFICES ASSUME i # j PROVE FALSE
  OBVIOUS
<1>1. s \in Servers /\ {i, j} \subseteq Sessions(s, r)
  BY DEF Servers, Sessions
<1>2. Cardinality({i, j}) = 2
  <2>1. IsFiniteSet({i}) /\ Cardinality({i}) = 1
    BY FS_Singleton
  <2>2. {i, j} = {i} \cup {j} /\ j \notin {i}
    OBVIOUS
  <2>3. Cardinality({i} \cup {j}) = Cardinality({i}) + 1
    BY <2>1, <2>2, FS_AddElement
  <2> QED
    BY <2>1, <2>2, <2>3
<1>3. Cardinality({i, j}) <= Cardinality(Sessions(s, r))
  BY <1>1, SessionsFinite, FS_Subset
<1>4. self_lock[s][r] \in {0, 1} /\ self_lock[s][r] >= Cardinality(Sessions(s, r))
  BY <1>1 DEF LockInv, WriterLocksOnce, LockCoversSessions
<1> QED
  BY <1>1, <1>2, <1>3, <1>4, SessionsFinite

\* What a screen shows belongs to a session.
LEMMA ShowsInSession ==
  ASSUME LockInv, NEW s \in Servers, NEW i \in Slots, Shows(s, i)
  PROVE  requestP[s][i].id \in Records /\ InSession(s, i, requestP[s][i].id)
BY DEF Shows, LockInv, Inv, SecondLineHasId, InSession

\* What a write to the file changes, and on whose screen.
LEMMA WriteRecordShows ==
  ASSUME OneWriteServer, LockInv, CommandPending,
         NEW s \in Servers, NEW i \in Slots, WriteRecord(s, i)
  PROVE  /\ s \in WriteServers /\ requestP[s][i].id \in Records
         /\ Shows(s, i) /\ ~Shows(s, i)'
         /\ requestP' = requestP /\ shown' = shown
         /\ file' = [file EXCEPT ![requestP[s][i].id] = temp[s]]
         /\ \A t \in Servers, j \in Slots : ~(t = s /\ j = i) => (Shows(t, j)' <=> Shows(t, j))
         /\ \A j \in Slots : Shows(s, j) /\ requestP[s][j].id = requestP[s][i].id => j = i
<1> DEFINE rq == requestP[s][i]
<1>1. Turn(s, i) /\ pc[s] = "write" /\ requestP' = requestP /\ shown' = shown /\ revents' = revents
      /\ file' = [file EXCEPT ![rq.id] = temp[s]]
  BY DEF WriteRecord
<1>2. s \in WriteServers
  BY <1>1 DEF CommandPending
<1>3. rq \in RequestType /\ rq.live /\ rq.id \in Records /\ InSession(s, i, rq.id)
  BY <1>1, BusyRequest
<1>4. requestP' = [requestP EXCEPT ![s][i] = rq]
  BY <1>1 DEF LockInv, Inv, TypeOK
<1>5. StepsTo(s, i, rq, "reply") /\ Inv
  BY <1>1, <1>4 DEF WriteRecord, StepsTo, LockInv
<1>6. \A t \in Servers, j \in Slots :
        Shows(t, j)' <=> IF t = s /\ j = i THEN rq.live /\ ~Awaits(s, rq) /\ "reply" # "reply"
                         ELSE Shows(t, j)
  BY <1>3, <1>5, StepShows
<1>7. Shows(s, i)
  BY <1>1, <1>3 DEF Shows, LockInv, IdHasSession
<1>8. \A j \in Slots : Shows(s, j) /\ requestP[s][j].id = rq.id => j = i
  BY <1>2, <1>3, ShowsInSession, OneSession
<1> QED
  BY <1>1, <1>2, <1>3, <1>6, <1>7, <1>8

\* What is put on a screen.
LEMMA ViewRecordShows ==
  ASSUME LockInv, NEW s \in Servers, NEW i \in Slots, ViewRecord(s, i), ~Down(s)
  PROVE  /\ requestP[s][i].id \in Records /\ InSession(s, i, requestP[s][i].id)
         /\ file' = file
         /\ Shows(s, i)' /\ ~Shows(s, i)
         /\ requestP'[s][i].id = requestP[s][i].id
         /\ shown'[s][i] = file[requestP[s][i].id]
         /\ \A t \in Servers, j \in Slots :
              ~(t = s /\ j = i) => /\ Shows(t, j)' <=> Shows(t, j)
                                   /\ requestP'[t][j] = requestP[t][j]
                                   /\ shown'[t][j] = shown[t][j]
<1> DEFINE old == requestP[s][i]
           rq == IF s \in WriteServers
                 THEN [old EXCEPT !.buf = "bookings", !.wait_for_write = 0]
                 ELSE [old EXCEPT !.buf = "bookings", !.done = 1]
<1>1. /\ requestP' = IF s \in WriteServers
                     THEN [requestP EXCEPT ![s][i].buf = "bookings", ![s][i].wait_for_write = 0]
                     ELSE [requestP EXCEPT ![s][i].buf = "bookings", ![s][i].done = 1]
      /\ shown' = [shown EXCEPT ![s][i] = file[old.id]]
      /\ NextSlot(s, i) /\ file' = file
      /\ Turn(s, i) /\ pc[s] = "view"
  BY DEF ViewRecord, Writing
<1>2. old \in RequestType /\ old.live /\ old.id \in Records /\ InSession(s, i, old.id)
  BY <1>1, BusyRequest
<1>3. rq \in RequestType /\ rq.live /\ rq.id = old.id /\ ~Awaits(s, rq)
  <2>1. rq \in RequestType /\ rq.live /\ rq.id = old.id
    BY <1>2 DEF RequestType
  <2>2. IF s \in WriteServers THEN rq.wait_for_write = 0 ELSE rq.done = 1
    BY <1>2 DEF RequestType
  <2> QED
    BY <2>1, <2>2 DEF Awaits
<1>4. requestP' = [requestP EXCEPT ![s][i] = rq]
  BY <1>1 DEF LockInv, Inv, TypeOK
<1> HIDE DEF rq
<1>5. StepsTo(s, i, rq, "loop") /\ Inv
  BY <1>1, <1>4 DEF StepsTo, LockInv
<1>6. \A t \in Servers, j \in Slots :
        /\ Shows(t, j)' <=> IF t = s /\ j = i THEN rq.live /\ ~Awaits(s, rq) /\ "loop" # "reply"
                            ELSE Shows(t, j)
        /\ requestP'[t][j] = IF t = s /\ j = i THEN rq ELSE requestP[t][j]
  BY <1>3, <1>5, StepShows, StepPieces
<1>7. \A t \in Servers, j \in Slots :
        shown'[t][j] = IF t = s /\ j = i THEN file[old.id] ELSE shown[t][j]
  BY <1>1 DEF LockInv, Inv, TypeOK
<1>8. ~Shows(s, i)
  BY <1>1 DEF Shows, LockInv, Inv, SecondLineHasId
<1>9. Shows(s, i)' /\ requestP'[s][i].id = old.id /\ shown'[s][i] = file[old.id]
  BY <1>3, <1>6, <1>7
<1>10. \A t \in Servers, j \in Slots :
         ~(t = s /\ j = i) => /\ Shows(t, j)' <=> Shows(t, j)
                              /\ requestP'[t][j] = requestP[t][j]
                              /\ shown'[t][j] = shown[t][j]
  BY <1>6, <1>7
<1> QED
  BY <1>1, <1>2, <1>8, <1>9, <1>10

\* The step of every action, put together.
LEMMA NextKeepsShown ==
  ASSUME OneWriteServer, ShownInv, [Next]_vars
  PROVE  ShownInv'
<1>1. LockInv /\ CommandPending
  BY DEF ShownInv
<1>2. LockInv' /\ CommandPending'
  BY <1>1, NextKeepsLockInv, NextKeepsPending
<1>3. \A t \in WriteServers, j \in Slots :
        t \in Servers /\ (Shows(t, j) => shown[t][j] = file[requestP[t][j].id])
  BY DEF ShownInv, ShownIsCurrent, Shows, Servers
<1>4. ASSUME NEW t \in WriteServers, NEW j \in Slots, Shows(t, j)'
      PROVE  shown'[t][j] = file'[requestP'[t][j].id]
  <2>1. CASE NothingNewShown
    BY <1>3, <1>4, <2>1 DEF NothingNewShown
  <2>2. ASSUME NEW s \in Servers, NEW i \in Slots, ViewRecord(s, i), ~Down(s)
        PROVE  shown'[t][j] = file'[requestP'[t][j].id]
    <3>1. CASE t = s /\ j = i
      BY <1>1, <2>2, <3>1, ViewRecordShows
    <3>2. CASE ~(t = s /\ j = i)
      <4>1. /\ Shows(t, j) /\ requestP'[t][j] = requestP[t][j] /\ shown'[t][j] = shown[t][j]
            /\ file' = file
        BY <1>1, <1>3, <1>4, <2>2, <3>2, ViewRecordShows
      <4> QED
        BY <1>3, <4>1
    <3> QED
      BY <3>1, <3>2
  <2>3. ASSUME NEW s \in Servers, NEW i \in Slots, WriteRecord(s, i)
        PROVE  shown'[t][j] = file'[requestP'[t][j].id]
    <3>1. s = t
      BY <1>1, <2>3, WriteRecordShows DEF OneWriteServer
    <3>2. j # i /\ Shows(s, j)
      BY <1>1, <1>3, <1>4, <2>3, <3>1, WriteRecordShows
    <3>3. requestP[s][j].id # requestP[s][i].id
      BY <1>1, <2>3, <3>2, WriteRecordShows
    <3>4. /\ requestP' = requestP /\ shown' = shown
          /\ file' = [file EXCEPT ![requestP[s][i].id] = temp[s]]
      BY <1>1, <2>3, WriteRecordShows
    <3>5. requestP[s][j].id \in Records /\ file \in [Records -> Booking]
      BY <1>1, <3>2, ShowsInSession DEF LockInv, Inv, TypeOK
    <3>6. file'[requestP[s][j].id] = file[requestP[s][j].id]
      BY <3>3, <3>4, <3>5
    <3> QED
      BY <1>3, <3>1, <3>2, <3>4, <3>6
  <2> QED
    BY <1>1, <2>1, <2>2, <2>3, OthersShowNothing
<1>5. ShownIsCurrent'
  BY <1>4 DEF ShownIsCurrent, Shows
<1> QED
  BY <1>2, <1>5 DEF ShownInv

LEMMA ShownInvHolds ==
  ASSUME OneWriteServer
  PROVE  Spec => []ShownInv
<1>1. Init => ShownInv
  <2> SUFFICES ASSUME Init PROVE ShownInv
    OBVIOUS
  <2>1. CommandPending
    BY DEF Init, CommandPending
  <2>2. ShownIsCurrent
    BY DEF Init, InitRequest, ShownIsCurrent, Servers
  <2> QED
    BY <2>1, <2>2, InitHasLockInv DEF ShownInv
<1>2. ShownInv /\ [Next]_vars => ShownInv'
  BY NextKeepsShown
<1> QED
  BY <1>1, <1>2, PTL DEF Spec

\* The client of a write_server decides on the bookings that its command will be
\* applied to: while its session lasts nothing changes the record behind it, as
\* long as no second write_server runs (the unchecked F_SETLK lets one in).
THEOREM ScreensAreCurrent ==
  ASSUME OneWriteServer
  PROVE  Spec => []ShownIsCurrent
<1>1. ShownInv => ShownIsCurrent
  BY DEF ShownInv
<1> QED
  BY <1>1, ShownInvHolds, PTL

-----------------------------------------------------------------------------
(***************************************************************************)
(* The ledger.                                                             *)
(***************************************************************************)

\* Some client edits r: its bookings are on a screen, and no command has been
\* carried out yet.
Edited(r) == \E s \in WriteServers, i \in Slots : Shows(s, i) /\ requestP[s][i].id = r

\* The ledger's sessions, as the invariant lets one see them: what is on the
\* screen is what is on file.
OpenRecords == [r \in Records |-> IF Edited(r) THEN file[r] ELSE Free]

LEMMA SessionIsOpen == ShownInv => Session = OpenRecords
<1> SUFFICES ASSUME ShownInv, NEW r \in Records
             PROVE  Session[r] = OpenRecords[r]
  BY DEF Session, OpenRecords
<1>1. \A s \in WriteServers, i \in Slots :
        Edits(s, i, r) <=> Shows(s, i) /\ requestP[s][i].id = r
  <2> SUFFICES ASSUME NEW s \in WriteServers, NEW i \in Slots
               PROVE  Edits(s, i, r) <=> Shows(s, i) /\ requestP[s][i].id = r
    OBVIOUS
  <2>1. LockInv /\ s \in Servers
    BY DEF ShownInv, Servers
  <2>2. Edits(s, i, r) => Shows(s, i) /\ requestP[s][i].id = r
    BY DEF Edits, InSession, Shows
  <2>3. Shows(s, i) /\ requestP[s][i].id = r => Edits(s, i, r)
    BY <2>1, ShowsInSession DEF Edits, Shows
  <2> QED
    BY <2>2, <2>3
<1>2. CASE Editors(r) = {}
  <2>1. \A s \in WriteServers, i \in Slots : Edits(s, i, r) => <<s, i>> \in Editors(r)
    BY DEF Editors
  <2>2. ~Edited(r)
    BY <1>1, <1>2, <2>1 DEF Edited
  <2> QED
    BY <1>2, <2>2 DEF Session, OpenRecords
<1>3. CASE Editors(r) # {}
  <2> DEFINE e == CHOOSE e \in Editors(r) : TRUE
  <2>1. e \in Editors(r)
    BY <1>3
  <2>2. e[1] \in WriteServers /\ e[2] \in Slots /\ Edits(e[1], e[2], r)
    BY <2>1 DEF Editors
  <2>3. Session[r] = shown[e[1]][e[2]]
    BY <1>3 DEF Session
  <2> HIDE DEF e
  <2>4. Shows(e[1], e[2]) /\ requestP[e[1]][e[2]].id = r
    BY <1>1, <2>2
  <2>5. Edited(r)
    BY <2>2, <2>4 DEF Edited
  <2>6. shown[e[1]][e[2]] = file[r]
    BY <2>2, <2>4 DEF ShownInv, ShownIsCurrent, Shows
  <2> QED
    BY <2>3, <2>5, <2>6 DEF OpenRecords
<1> QED
  BY <1>2, <1>3

\* The ledger's arithmetic is the server's.
LEMMA SameRules ==
  /\ \A state, nums : Ledger!Verdict(state, nums) = Verdict(state, nums)
  /\ \A state, nums : Ledger!Booked(state, nums) = Booked(state, nums)
<1>1. \A x, y : Ledger!Add(x, y) = Add(x, y)
  BY DEF Ledger!Add, Add, Ledger!IntMin, IntMin
<1>2. \A state, nums : /\ Ledger!Total1(state, nums) = Total1(state, nums)
                       /\ Ledger!Total2(state, nums) = Total2(state, nums)
                       /\ Ledger!Total3(state, nums) = Total3(state, nums)
  BY <1>1 DEF Ledger!Total1, Total1, Ledger!Total2, Total2, Ledger!Total3, Total3
<1>3. \A state, nums : /\ Ledger!OverLimit(state, nums) <=> OverLimit(state, nums)
                       /\ Ledger!BelowZero(state, nums) <=> BelowZero(state, nums)
  BY <1>1, <1>2 DEF Ledger!OverLimit, OverLimit, Ledger!BelowZero, BelowZero, Ledger!Objects, Objects
<1>4. \A state, nums : Ledger!Verdict(state, nums) = Verdict(state, nums)
  BY <1>3 DEF Ledger!Verdict, Verdict
<1>5. \A state, nums : Ledger!Booked(state, nums) = Booked(state, nums)
  BY <1>1 DEF Ledger!Booked, Booked, Ledger!Objects, Objects
<1> QED
  BY <1>4, <1>5

\* What a client sees that does nothing to the file closes sessions at most.
LEMMA NothingNewCloses ==
  ASSUME ShownInv, NothingNewShown, Session = OpenRecords, Session' = OpenRecords'
  PROVE  Ledger!LedgerNext
<1> DEFINE R == {r \in Records : Edited(r) /\ ~Edited(r)'}
<1>1. file' = file /\ file \in [Records -> Booking]
  BY DEF NothingNewShown, ShownInv, LockInv, Inv, TypeOK
<1>2. \A r \in Records : Edited(r)' => Edited(r)
  BY DEF Edited, NothingNewShown, Servers
<1>3. \A r \in R : Session[r] # Free
  BY <1>1, FreeAssumption DEF OpenRecords
<1>4. Session' = [r \in Records |-> IF r \in R THEN Free ELSE Session[r]]
  BY <1>1, <1>2 DEF OpenRecords
<1>5. Ledger!Close(R)
  BY <1>1, <1>3, <1>4 DEF Ledger!Close
<1>6. R \in SUBSET Records
  OBVIOUS
<1> HIDE DEF R
<1> QED
  BY <1>5, <1>6 DEF Ledger!LedgerNext

LEMMA ViewOpens ==
  ASSUME OneWriteServer, ShownInv, Session = OpenRecords, Session' = OpenRecords',
         NEW s \in Servers, NEW i \in Slots, ViewRecord(s, i), ~Down(s)
  PROVE  Ledger!LedgerNext \/ UNCHANGED <<file, Session>>
<1> DEFINE r == requestP[s][i].id
<1>1. LockInv /\ file \in [Records -> Booking]
  BY DEF ShownInv, LockInv, Inv, TypeOK
<1>2. /\ r \in Records /\ InSession(s, i, r)
      /\ file' = file
      /\ Shows(s, i)' /\ ~Shows(s, i)
      /\ requestP'[s][i].id = r
  BY <1>1, ViewRecordShows
<1>3. \A t \in Servers, j \in Slots :
        ~(t = s /\ j = i) => (Shows(t, j)' <=> Shows(t, j)) /\ requestP'[t][j] = requestP[t][j]
  BY <1>1, ViewRecordShows
<1>4. \A q \in Records : Edited(q)' <=> Edited(q) \/ (s \in WriteServers /\ q = r)
  <2> SUFFICES ASSUME NEW q \in Records
               PROVE  Edited(q)' <=> Edited(q) \/ (s \in WriteServers /\ q = r)
    OBVIOUS
  <2>1. ASSUME Edited(q)' PROVE Edited(q) \/ (s \in WriteServers /\ q = r)
    <3>1. PICK t \in WriteServers, j \in Slots : Shows(t, j)' /\ requestP'[t][j].id = q
      BY <2>1 DEF Edited
    <3> QED
      BY <1>2, <1>3, <3>1 DEF Edited, Servers
  <2>2. ASSUME Edited(q) PROVE Edited(q)'
    <3>1. PICK t \in WriteServers, j \in Slots : Shows(t, j) /\ requestP[t][j].id = q
      BY <2>2 DEF Edited
    <3> QED
      BY <1>2, <1>3, <3>1 DEF Edited, Servers
  <2>3. ASSUME s \in WriteServers, q = r PROVE Edited(q)'
    BY <1>2, <2>3 DEF Edited
  <2> QED
    BY <2>1, <2>2, <2>3
<1>5. CASE s \notin WriteServers
  BY <1>2, <1>4, <1>5 DEF OpenRecords
<1>6. CASE s \in WriteServers
  <2>1. ~Edited(r)
    <3> SUFFICES ASSUME NEW t \in WriteServers, NEW j \in Slots,
                        Shows(t, j), requestP[t][j].id = r
                 PROVE  FALSE
      BY DEF Edited
    <3>1. t = s
      BY <1>6 DEF OneWriteServer
    <3>2. InSession(s, j, r)
      BY <1>1, <3>1, ShowsInSession DEF Servers
    <3>3. j = i
      BY <1>1, <1>2, <1>6, <3>2, OneSession
    <3> QED
      BY <1>2, <3>1, <3>3
  <2>2. Session[r] = Free
    BY <1>2, <2>1 DEF OpenRecords
  <2>3. Session' = [Session EXCEPT ![r] = file[r]]
    BY <1>2, <1>4, <1>6 DEF OpenRecords
  <2>4. Ledger!Open(r)
    BY <1>2, <2>2, <2>3 DEF Ledger!Open
  <2> QED
    BY <1>2, <2>4 DEF Ledger!LedgerNext
<1> QED
  BY <1>5, <1>6

LEMMA WriteCommits ==
  ASSUME OneWriteServer, ShownInv, Session = OpenRecords, Session' = OpenRecords',
         NEW s \in Servers, NEW i \in Slots, WriteRecord(s, i)
  PROVE  Ledger!LedgerNext
<1> PICK r : r = requestP[s][i].id
  OBVIOUS
<1>1. LockInv /\ CommandPending /\ file \in [Records -> Booking]
  BY DEF ShownInv, LockInv, Inv, TypeOK
<1>2. /\ s \in WriteServers /\ r \in Records
      /\ Shows(s, i) /\ ~Shows(s, i)'
      /\ requestP' = requestP
      /\ file' = [file EXCEPT ![r] = temp[s]]
      /\ \A t \in Servers, j \in Slots : ~(t = s /\ j = i) => (Shows(t, j)' <=> Shows(t, j))
      /\ \A j \in Slots : Shows(s, j) /\ requestP[s][j].id = r => j = i
  BY <1>1, WriteRecordShows
<1>3. PICK nums \in Commands : /\ Verdict(file[r], nums) = "booked"
                               /\ temp[s] = Booked(file[r], nums)
  BY <1>1 DEF WriteRecord, CommandPending
<1>4. Edited(r) /\ ~Edited(r)'
  <2>1. Edited(r)
    BY <1>2 DEF Edited
  <2>2. ASSUME NEW t \in WriteServers, NEW j \in Slots, Shows(t, j)', requestP'[t][j].id = r
        PROVE  FALSE
    <3>1. t = s
      BY <1>2 DEF OneWriteServer
    <3> QED
      BY <1>2, <2>2, <3>1
  <2> QED
    BY <2>1, <2>2 DEF Edited
<1>5. \A q \in Records : q # r => (Edited(q)' <=> Edited(q))
  <2> SUFFICES ASSUME NEW q \in Records, q # r PROVE Edited(q)' <=> Edited(q)
    OBVIOUS
  <2>1. \A t \in WriteServers, j \in Slots :
          requestP[t][j].id = q => (Shows(t, j)' <=> Shows(t, j))
    BY <1>2 DEF Servers
  <2> QED
    BY <1>2, <2>1 DEF Edited
<1>6. Session[r] = file[r] /\ file[r] # Free
  BY <1>1, <1>2, <1>4, FreeAssumption DEF OpenRecords
<1>7. Session' = [Session EXCEPT ![r] = Free]
  BY <1>1, <1>2, <1>4, <1>5 DEF OpenRecords
<1>8. Ledger!Commit(r)
  BY <1>2, <1>3, <1>6, <1>7, SameRules DEF Ledger!Commit
<1> QED
  BY <1>2, <1>8 DEF Ledger!LedgerNext

LEMMA StepImplements ==
  ASSUME OneWriteServer, ShownInv, Session = OpenRecords, Session' = OpenRecords', [Next]_vars
  PROVE  [Ledger!LedgerNext]_(Ledger!ledger)
<1>1. LockInv
  BY DEF ShownInv
<1> QED
  BY <1>1, OthersShowNothing, NothingNewCloses, ViewOpens, WriteCommits DEF Ledger!ledger

LEMMA InitImplements ==
  ASSUME Init
  PROVE  Ledger!LedgerInit
<1>1. \A r \in Records : Editors(r) = {}
  BY DEF Init, InitRequest, Editors, Edits, InSession, Servers
<1>2. Session = [r \in Records |-> Free]
  BY <1>1 DEF Session
<1> QED
  BY <1>2 DEF Init, Ledger!LedgerInit

\* A write_server keeps the ledger's promise: it edits a record in one session at
\* a time and applies the session's one command, as a whole or not at all, to the
\* bookings its client was shown; whatever the read_servers do, whoever hangs up,
\* and whenever the process is killed.
THEOREM LedgerIsImplemented ==
  ASSUME OneWriteServer
  PROVE  Spec => ImplementsLedger
<1>1. Init => Ledger!LedgerInit
  BY InitImplements
<1>2. ShownInv => Session = OpenRecords
  BY SessionIsOpen
<1>3. ShownInv /\ Session = OpenRecords /\ (Session = OpenRecords)' /\ [Next]_vars
        => [Ledger!LedgerNext]_(Ledger!ledger)
  BY StepImplements
<1> QED
  BY <1>1, <1>2, <1>3, ShownInvHolds, PTL DEF Spec, ImplementsLedger, Ledger!LedgerSpec
=============================================================================
