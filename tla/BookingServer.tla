---------------------------- MODULE BookingServer ---------------------------
(***************************************************************************)
(* HW1/server.c: any number of read_server and write_server processes that *)
(* share the file ./bookingRecord.  Both are built from the same source    *)
(* (-D READ_SERVER, -D WRITE_SERVER), so they share the poll loop of main, *)
(* accept, close and free_request, and differ in handle_read.              *)
(*                                                                         *)
(* A process is single-threaded: a pass over the pollfd array serves the   *)
(* ready connections in ascending order.  It is cut into steps where       *)
(* another process can get between two system calls on the shared file:    *)
(* F_GETLK, F_SETLK, read, write and the final unlock.  Everything between *)
(* two such calls is local to the process and belongs to one step.         *)
(***************************************************************************)
EXTENDS BookingRules, RecordLocks, FiniteSets

CONSTANTS
  ReadServers,     \* the processes ./read_server
  WriteServers,    \* the processes ./write_server
  Records,         \* the valid user ids (902001..902020)
  NoId,            \* request.id = 0
  NSlots,          \* connections of one process (MAXFD - 4 in the code)
  OnDisk,          \* the bookings a record may hold at the start
  Commands,        \* the well-formed booking commands that clients send
  Words,           \* what else they send: some of "exit", "junk", "ctrlc", "partial"
  Departures,      \* how they leave without a word: some of "fin", "rst"
  Polite,          \* readers follow the prompt "(Type Exit to leave...)"
  Kills,           \* the operator may kill a process (sample_judge.py, clean)
  MaxReaders       \* bound: nobody connects to a read_server that counts more

ASSUME ServerAssumption ==
  /\ ReadServers \cap WriteServers = {}
  /\ NoId \notin Records
  /\ NSlots \in Nat \ {0}
  /\ OnDisk \subseteq ValidBooking
  /\ Commands \subseteq Booking
  /\ Words \subseteq {"exit", "junk", "ctrlc", "partial"}
  /\ Departures \subseteq {"fin", "rst"}
  /\ Polite \in BOOLEAN /\ Kills \in BOOLEAN
  /\ MaxReaders \in Nat

Servers == ReadServers \cup WriteServers
Slots == 1 .. NSlots

\* What one read() of the connection returns: "partial" is a text without a
\* newline, "junk" a line that is neither an id, nor a command, nor Exit.
Nothing == [kind |-> "nothing"]
IdLine(r) == [kind |-> "id", id |-> r]
CommandLine(n) == [kind |-> "command", nums |-> n]
Word(w) == [kind |-> w]
Messages ==
  {IdLine(r) : r \in Records} \cup {CommandLine(n) : n \in Commands} \cup {Word(w) : w \in Words}

VARIABLES
  file,        \* bookingState of every record in ./bookingRecord
  flock,       \* the kernel's lock of every process on every record
  self_lock,   \* self_lock[id - HEAD] of every process
  requestP,    \* requestP[i] of every process
  shown,       \* the bookings last printed to the client of a connection
  temp,        \* handle_read's local "temp", between its read and its write
  sock,        \* the connection: unread input, and what became of the client
  revents,     \* the ready connections that this pass has still to serve
  pc           \* where the process is between two steps

vars == <<file, flock, self_lock, requestP, shown, temp, sock, revents, pc>>

-----------------------------------------------------------------------------
Blank == [o \in Objects |-> 0]

\* init_request.  (wait_for_write and buf are malloc's leftovers: both are
\* written before they are read.)
InitRequest == [live |-> FALSE, id |-> NoId, done |-> 0, wait_for_write |-> 0, buf |-> "empty"]

NoSocket == [peer |-> "none", inbox |-> Nothing]

RequestType ==
  [live : BOOLEAN, id : Records \cup {NoId}, done : {0, 1}, wait_for_write : {0, 1},
   buf : {"empty", "Exit", "bookings"}]

SocketType ==
  [peer : {"none", "open", "fin", "rst", "dead"}, inbox : Messages \cup {Nothing}]

\* Type correctness.  (self_lock of a read_server is a signed count.)
TypeOK ==
  /\ file \in [Records -> Booking]
  /\ flock \in [Servers -> [Records -> LockTypes]]
  /\ self_lock \in [Servers -> [Records -> Int]]
  /\ requestP \in [Servers -> [Slots -> RequestType]]
  /\ shown \in [Servers -> [Slots -> Booking]]
  /\ temp \in [Servers -> Booking]
  /\ sock \in [Servers -> [Slots -> SocketType]]
  /\ revents \in [Servers -> SUBSET Slots]
  /\ pc \in [Servers -> {"loop", "lock", "view", "write", "reply", "down"}]

Init ==
  /\ file \in [Records -> OnDisk]
  /\ flock = [s \in Servers |-> [r \in Records |-> "F_UNLCK"]]
  /\ self_lock = [s \in Servers |-> [r \in Records |-> 0]]
  /\ requestP = [s \in Servers |-> [i \in Slots |-> InitRequest]]
  /\ shown = [s \in Servers |-> [i \in Slots |-> Blank]]
  /\ temp = [s \in Servers |-> Blank]
  /\ sock = [s \in Servers |-> [i \in Slots |-> NoSocket]]
  /\ revents = [s \in Servers |-> {}]
  /\ pc = [s \in Servers |-> "loop"]

-----------------------------------------------------------------------------
(***************************************************************************)
(* The connection.  A client that has left closed its end in order         *)
(* ("fin") or reset it ("rst").  read() first returns what the client sent,*)
(* then ECONNRESET once for "rst", then end of file.  The first write after*)
(* "fin" is lost and may draw a reset; a write to a connection known to be *)
(* reset raises SIGPIPE, which server.c neither handles nor ignores.       *)
(***************************************************************************)

\* What the connection may be after k successful writes; no element: the
\* process does not survive them.
After(peer, k) ==
  CASE peer = "open"           -> {"open"}
    [] peer = "fin"            -> {"fin", "dead"}
    [] peer = "rst" /\ k = 1   -> {"dead"}
    [] OTHER                   -> {}

Fatal(peer, k) == peer = "dead" \/ (peer \in {"fin", "rst"} /\ k > 1)

\* The process is gone, and with it its memory, its sockets and its locks.
Down(s) ==
  /\ flock' = DropAll(flock, s)
  /\ self_lock' = [self_lock EXCEPT ![s] = [r \in Records |-> 0]]
  /\ requestP' = [requestP EXCEPT ![s] = [i \in Slots |-> InitRequest]]
  /\ shown' = [shown EXCEPT ![s] = [i \in Slots |-> Blank]]
  /\ temp' = [temp EXCEPT ![s] = Blank]
  /\ sock' = [sock EXCEPT ![s] = [i \in Slots |-> NoSocket]]
  /\ revents' = [revents EXCEPT ![s] = {}]
  /\ pc' = [pc EXCEPT ![s] = "down"]
  /\ UNCHANGED file

\* A step that ends in k writes to the client, Done being all it changes.
Writing(s, i, k, Done) ==
  \/ After(sock[s][i].peer, k) # {} /\ Done
  \/ Fatal(sock[s][i].peer, k) /\ Down(s)

-----------------------------------------------------------------------------
\* Slip: the first client that leaves takes the kernel's lock away from the others.
LockFunctionFirstLeaves(s, r, type) ==
  /\ self_lock' = [self_lock EXCEPT ![s][r] =
                     IF s \in WriteServers THEN IF type = "F_UNLCK" THEN 0 ELSE 1
                     ELSE IF type = "F_UNLCK" THEN @ - 1 ELSE @ + 1]
  /\ flock' = SetLk(flock, s, r, type)

\* Slip: only locking calls fcntl.
LockFunctionNoUnlock(s, r, type) ==
  /\ self_lock' = [self_lock EXCEPT ![s][r] = IF type = "F_UNLCK" THEN @ - 1 ELSE @ + 1]
  /\ flock' = IF type = "F_UNLCK" THEN flock ELSE SetLk(flock, s, r, type)

\* mylock_function: the process's own book-keeping, and the kernel's lock,
\* whose refusal nobody looks at.
LockFunction(s, r, type) ==
  IF s \in WriteServers
  THEN /\ self_lock' = [self_lock EXCEPT ![s][r] = IF type = "F_UNLCK" THEN 0 ELSE 1]
       /\ flock' = SetLk(flock, s, r, type)
  ELSE LET readers == IF type = "F_UNLCK" THEN self_lock[s][r] - 1 ELSE self_lock[s][r] + 1
       IN  /\ self_lock' = [self_lock EXCEPT ![s][r] = readers]
           /\ flock' = IF type = "F_UNLCK" /\ readers # 0 THEN flock
                       ELSE SetLk(flock, s, r, type)

\* Slip: the kernel is trusted to refuse a process its own lock.
LockRefusedByKernel(s, r) ==
  Blocked(flock, s, r, IF s \in WriteServers THEN "F_WRLCK" ELSE "F_RDLCK")

\* mylock_check and the test on its result, before a session is let in.
LockRefused(s, r) ==
  IF s \in WriteServers
  THEN Blocked(flock, s, r, "F_WRLCK") \/ self_lock[s][r] = 1
  ELSE Blocked(flock, s, r, "F_RDLCK")

\* free_request, and main's code after it: that code goes on with the freed
\* request as if it had been answered (its writes go to fd -1).
FreeRequest(rq) == [rq EXCEPT !.live = FALSE, !.id = NoId, !.done = 0]

AfterRefusal(s, rq) ==
  IF s \in WriteServers
  THEN [FreeRequest(rq) EXCEPT !.wait_for_write = 0]
  ELSE [FreeRequest(rq) EXCEPT !.done = IF rq.buf = "Exit" THEN 0 ELSE 1]

\* The pass goes on with the next ready connection.
NextSlot(s, i) ==
  /\ revents' = [revents EXCEPT ![s] = @ \ {i}]
  /\ pc' = [pc EXCEPT ![s] = "loop"]

\* close(conn_fd); rq is what is left in requestP[i].
Close(s, i, rq) ==
  /\ requestP' = [requestP EXCEPT ![s][i] = rq]
  /\ sock' = [sock EXCEPT ![s][i] = NoSocket]
  /\ shown' = [shown EXCEPT ![s][i] = Blank]
  /\ NextSlot(s, i)
  /\ UNCHANGED <<file, temp>>

Refuse(s, i) == Close(s, i, AfterRefusal(s, requestP[s][i]))

KeepLocks == UNCHANGED <<self_lock, flock>>

\* Slip: the lock is forgotten.
UnlockForgotten(s, i) == KeepLocks

\* The session of connection i releases the record it was let in for.
Unlock(s, i) == LockFunction(s, requestP[s][i].id, "F_UNLCK")

-----------------------------------------------------------------------------
\* Slip: the loop starts at the listening descriptor.
ReadableFromListen(s) == {0} \cup {i \in Slots : requestP[s][i].live}

\* Slip: the loop ends one descriptor early.
ReadableButLast(s) ==
  {i \in Slots \ {NSlots} :
     requestP[s][i].live /\ (sock[s][i].inbox # Nothing \/ sock[s][i].peer # "open")}

\* poll: the connections with something to read.
Readable(s) ==
  {i \in Slots : requestP[s][i].live /\ (sock[s][i].inbox # Nothing \/ sock[s][i].peer # "open")}

\* Slip: the request is taken as the connection before it left it.
AdmittedAsLeft(s, rq) == [rq EXCEPT !.live = TRUE]

\* What main writes into the request of a new connection: the rest of it is what
\* the connection before it left.
Admitted(s, rq) ==
  [rq EXCEPT !.live = TRUE,
             !.done = 0,
             !.wait_for_write = IF s \in WriteServers THEN 1 ELSE rq.wait_for_write]

\* accept: the kernel hands out the lowest free descriptor.  The client may
\* have typed ahead, or be gone already; the id prompt is one write.
Accept(s) ==
  /\ s \in ReadServers => \A r \in Records : self_lock[s][r] <= MaxReaders
  /\ \E i \in Slots :
      /\ ~requestP[s][i].live
      /\ \A j \in Slots : j < i => requestP[s][j].live
      /\ requestP' = [requestP EXCEPT ![s][i] = Admitted(s, @)]
      /\ \E peer \in {"open"} \cup UNION {After(p, 1) : p \in Departures},
            input \in Messages \cup {Nothing} :
           sock' = [sock EXCEPT ![s][i] = [peer |-> peer, inbox |-> input]]

\* One turn of main's while loop up to the for loop.  A connection accepted now
\* is not part of this pass.
Poll(s) ==
  /\ pc[s] = "loop"
  /\ revents[s] = {}
  /\ revents' = [revents EXCEPT ![s] = Readable(s)]
  /\ \/ Accept(s)
     \/ Readable(s) # {} /\ UNCHANGED <<requestP, sock>>
  /\ UNCHANGED <<file, flock, self_lock, shown, temp, pc>>

\* The for loop has arrived at connection i.
Turn(s, i) == i \in revents[s] /\ \A j \in revents[s] : i <= j

Reading(s, i) == pc[s] = "loop" /\ Turn(s, i)

\* handle_read is about to parse the input; kind is what it finds.
Input(s, i, kind) == Reading(s, i) /\ sock[s][i].inbox.kind = kind

NoInput(s, i) == Reading(s, i) /\ sock[s][i].inbox = Nothing

\* The text has a newline, so handle_read goes on to one of its branches.
Line(s, i) == Reading(s, i) /\ sock[s][i].inbox.kind \in {"id", "command", "exit", "junk"}

\* The input has been read.
Consume(s, i) == sock' = [sock EXCEPT ![s][i].inbox = Nothing]

\* The branch of handle_read that the request is in.
AwaitsId(s, i) ==
  IF s \in WriteServers THEN requestP[s][i].wait_for_write = 1 ELSE requestP[s][i].done = 0

-----------------------------------------------------------------------------
\* read() < 0: "continue", the connection stays as it is.
ReadFails(s, i) ==
  /\ NoInput(s, i)
  /\ sock[s][i].peer = "rst"
  /\ sock' = [sock EXCEPT ![s][i].peer = "dead"]
  /\ NextSlot(s, i)
  /\ UNCHANGED <<file, flock, self_lock, requestP, shown, temp>>

\* read() = 0: the client is down.  Nothing releases the session's record.
ReadEOF(s, i) ==
  /\ NoInput(s, i)
  /\ sock[s][i].peer \in {"fin", "dead"}
  /\ Writing(s, i, 1, Refuse(s, i) /\ KeepLocks)

\* Ctrl-C: the one departure that releases the record; no write.
ReadCtrlC(s, i) ==
  /\ Input(s, i, "ctrlc")
  /\ IF requestP[s][i].id # NoId THEN Unlock(s, i) ELSE KeepLocks
  /\ Refuse(s, i)

\* A text without a newline: ERR_EXIT("this really should not happen...").
ReadPartial(s, i) == Input(s, i, "partial") /\ Down(s)

\* The id branch, anything but a valid id: return 0.
ReadBadId(s, i) ==
  /\ Line(s, i)
  /\ AwaitsId(s, i)
  /\ sock[s][i].inbox.kind # "id"
  /\ Writing(s, i, 1, Refuse(s, i) /\ KeepLocks)

\* The id branch, the record is taken: return 4, "Locked.".
ReadLockedId(s, i) ==
  /\ Input(s, i, "id")
  /\ AwaitsId(s, i)
  /\ LockRefused(s, sock[s][i].inbox.id)
  /\ Writing(s, i, 1, Refuse(s, i) /\ KeepLocks)

\* The id branch up to and with F_GETLK: nothing is locked yet.
CheckId(s, i) ==
  /\ Input(s, i, "id")
  /\ AwaitsId(s, i)
  /\ ~LockRefused(s, sock[s][i].inbox.id)
  /\ requestP' = [requestP EXCEPT ![s][i].id = sock[s][i].inbox.id]
  /\ Consume(s, i)
  /\ pc' = [pc EXCEPT ![s] = "lock"]
  /\ UNCHANGED <<file, flock, self_lock, shown, temp, revents>>

\* F_SETLK.
LockId(s, i) ==
  /\ pc[s] = "lock"
  /\ Turn(s, i)
  /\ LockFunction(s, requestP[s][i].id, IF s \in WriteServers THEN "F_WRLCK" ELSE "F_RDLCK")
  /\ pc' = [pc EXCEPT ![s] = "view"]
  /\ UNCHANGED <<file, requestP, shown, temp, sock, revents>>

\* The record is read and shown, and the next prompt is written.
ViewRecord(s, i) ==
  /\ pc[s] = "view"
  /\ Turn(s, i)
  /\ Writing(s, i, 2,
       /\ requestP' = IF s \in WriteServers
                      THEN [requestP EXCEPT ![s][i].buf = "bookings", ![s][i].wait_for_write = 0]
                      ELSE [requestP EXCEPT ![s][i].buf = "bookings", ![s][i].done = 1]
       /\ shown' = [shown EXCEPT ![s][i] = file[requestP[s][i].id]]
       /\ \E peer \in After(sock[s][i].peer, 2) : sock' = [sock EXCEPT ![s][i].peer = peer]
       /\ NextSlot(s, i)
       /\ UNCHANGED <<file, flock, self_lock, temp>>)

-----------------------------------------------------------------------------
\* read_server, second message "Exit": unlock, close.
ReadExit(s, i) ==
  /\ s \in ReadServers
  /\ Input(s, i, "exit")
  /\ ~AwaitsId(s, i)
  /\ Unlock(s, i)
  /\ Close(s, i, [FreeRequest(requestP[s][i]) EXCEPT !.buf = "Exit"])

\* read_server, any other second message: return 0 without an unlock.
ReadNotExit(s, i) ==
  /\ s \in ReadServers
  /\ Line(s, i)
  /\ ~AwaitsId(s, i)
  /\ sock[s][i].inbox.kind # "exit"
  /\ Writing(s, i, 1, Refuse(s, i) /\ KeepLocks)

\* write_server, second message that myatoi rejects: unlock, return 0.
ReadBadCommand(s, i) ==
  /\ s \in WriteServers
  /\ Line(s, i)
  /\ ~AwaitsId(s, i)
  /\ sock[s][i].inbox.kind # "command"
  /\ Writing(s, i, 1, Unlock(s, i) /\ Refuse(s, i))

\* write_server, a command whose result is not allowed: unlock, return 2 or 3.
ReadExcess(s, i) ==
  /\ s \in WriteServers
  /\ Input(s, i, "command")
  /\ ~AwaitsId(s, i)
  /\ Verdict(file[requestP[s][i].id], sock[s][i].inbox.nums) # "booked"
  /\ Writing(s, i, 1, Unlock(s, i) /\ Refuse(s, i))

\* write_server, an allowed command, up to the write: temp holds the new record.
ReadCommand(s, i) ==
  /\ s \in WriteServers
  /\ Input(s, i, "command")
  /\ ~AwaitsId(s, i)
  /\ LET state == file[requestP[s][i].id]
         nums == sock[s][i].inbox.nums
     IN  /\ Verdict(state, nums) = "booked"
         /\ temp' = [temp EXCEPT ![s] = Booked(state, nums)]
  /\ Consume(s, i)
  /\ pc' = [pc EXCEPT ![s] = "write"]
  /\ UNCHANGED <<file, flock, self_lock, requestP, shown, revents>>

\* The record goes to the file.
WriteRecord(s, i) ==
  /\ pc[s] = "write"
  /\ Turn(s, i)
  /\ file' = [file EXCEPT ![requestP[s][i].id] = temp[s]]
  /\ temp' = [temp EXCEPT ![s] = Blank]
  /\ pc' = [pc EXCEPT ![s] = "reply"]
  /\ UNCHANGED <<flock, self_lock, requestP, shown, sock, revents>>

\* It is read back, unlocked, and the client is told.
Reply(s, i) ==
  /\ pc[s] = "reply"
  /\ Turn(s, i)
  /\ Writing(s, i, 2,
       /\ Unlock(s, i)
       /\ Close(s, i, [FreeRequest(requestP[s][i]) EXCEPT !.buf = "bookings"]))

-----------------------------------------------------------------------------
\* A client types m.  What is unread already hides it (one read() returns both,
\* and the first line counts), unless it completes what came before: an unfinished
\* line, a command short of numbers, a blank line in front of an id.
Send(s, i, m) ==
  /\ requestP[s][i].live
  /\ sock[s][i].peer = "open"
  /\ \/ sock[s][i].inbox = Nothing
     \/ sock[s][i].inbox.kind = "partial" /\ m.kind \notin {"partial", "ctrlc"}
     \/ sock[s][i].inbox.kind = "junk" /\ m.kind \in {"id", "command"}
  /\ Polite /\ s \in ReadServers /\ requestP[s][i].id # NoId => m.kind \in {"exit", "ctrlc"}
  /\ sock' = [sock EXCEPT ![s][i].inbox = m]
  /\ UNCHANGED <<file, flock, self_lock, requestP, shown, temp, revents, pc>>

\* A client closes or resets its end.
Depart(s, i, how) ==
  /\ requestP[s][i].live
  /\ sock[s][i].peer = "open"
  /\ sock' = [sock EXCEPT ![s][i].peer = how]
  /\ UNCHANGED <<file, flock, self_lock, requestP, shown, temp, revents, pc>>

\* The operator kills a process, and starts it again.
Kill(s) == Kills /\ pc[s] # "down" /\ Down(s)

\* init_server finds the tables empty, as Down has left them.
Start(s) ==
  /\ pc[s] = "down"
  /\ pc' = [pc EXCEPT ![s] = "loop"]
  /\ UNCHANGED <<file, flock, self_lock, requestP, shown, temp, sock, revents>>

-----------------------------------------------------------------------------
Handle(s, i) ==
  \/ ReadFails(s, i) \/ ReadEOF(s, i) \/ ReadCtrlC(s, i) \/ ReadPartial(s, i)
  \/ ReadBadId(s, i) \/ ReadLockedId(s, i) \/ CheckId(s, i) \/ LockId(s, i) \/ ViewRecord(s, i)
  \/ ReadExit(s, i) \/ ReadNotExit(s, i)
  \/ ReadBadCommand(s, i) \/ ReadExcess(s, i) \/ ReadCommand(s, i)
  \/ WriteRecord(s, i) \/ Reply(s, i)

Client(s, i) ==
  \/ \E m \in Messages : Send(s, i, m)
  \/ \E how \in Departures : Depart(s, i, how)

Next ==
  \E s \in Servers :
    \/ Poll(s)
    \/ \E i \in Slots : Handle(s, i) \/ Client(s, i)
    \/ Kill(s)
    \/ Start(s)

\* A running process is scheduled: it serves what poll returned, and polls
\* again when there is something to read.  Nothing is assumed of the clients.
Fairness ==
  \A s \in Servers :
    /\ WF_vars(\E i \in Slots : Handle(s, i))
    /\ WF_vars(Readable(s) # {} /\ Poll(s))

Spec == Init /\ [][Next]_vars
FairSpec == Spec /\ Fairness

-----------------------------------------------------------------------------
\* Connection i of s is in a session on record r: handle_read has let it in, and
\* main has neither released the record nor closed the connection.
InSession(s, i, r) ==
  /\ requestP[s][i].live
  /\ requestP[s][i].id = r
  /\ ~(pc[s] = "lock" /\ Turn(s, i))

Sessions(s, r) == {i \in Slots : InSession(s, i, r)}

\* The bookings in the file always satisfy the limits of the two error messages
\* of main (15 items in total, none below 0): no interleaving of processes, no
\* lock that was silently refused and no kill can leave another record behind.
RecordsValid == \A r \in Records : file[r] \in ValidBooking

\* A client reaches the second branch of handle_read only in a session of its
\* own: what a closed connection left in its request (main runs on with a freed
\* request after a refusal) never lets the next client skip the id prompt.
SecondLineHasSession ==
  \A s \in Servers, i \in Slots :
    requestP[s][i].live /\ ~AwaitsId(s, i) => \E r \in Records : InSession(s, i, r)

\* The kernel's lock that belongs to a session of s.
SessionLock(s) == IF s \in WriteServers THEN "F_WRLCK" ELSE "F_RDLCK"

\* The clients of a process share one kernel lock per record.  It is there from the
\* first session on, unless another process stands in the way of that F_SETLK, and
\* no step of anybody takes it away as long as one of them is still in a session.
KernelLockKept ==
  [][\A s \in Servers, r \in Records :
       /\ Sessions(s, r)' # {}
       /\ \/ flock[s][r] = SessionLock(s)
          \/ Sessions(s, r) = {} /\ ~Blocked(flock, s, r, SessionLock(s))
       => flock'[s][r] = SessionLock(s)]_vars

\* The other direction: the kernel's lock is not kept once self_lock says that
\* nobody needs it.
KernelLockCounted ==
  \A s \in Servers, r \in Records : self_lock[s][r] = 0 => flock[s][r] = "F_UNLCK"

\* "free resources used by a request instance" (free_request): when a session
\* is over, its record is not locked any more.
LockHasSession ==
  \A s \in Servers, r \in Records : self_lock[s][r] <= Cardinality(Sessions(s, r))

\* The bookings that a client of a write_server was shown are those its command
\* will be applied to: nothing changes a record while a session edits it.
ShownIsCurrent ==
  \A s \in WriteServers, i \in Slots :
    requestP[s][i].live /\ ~AwaitsId(s, i) /\ ~(pc[s] = "reply" /\ Turn(s, i))
      => shown[s][i] = file[requestP[s][i].id]

\* Two write_server processes never edit the same record at the same time: the
\* second client is told "Locked.".
OneWriter ==
  \A s, t \in WriteServers, r \in Records :
    s # t => Sessions(s, r) = {} \/ Sessions(t, r) = {}

\* "this really should not happen..." (handle_read): no text without a newline ends
\* a server, and with it the sessions of all other clients.
ServerStaysUp == \A s \in Servers : pc[s] # "down"

\* Whatever a client sends is read.
InputIsRead ==
  \A s \in Servers, i \in Slots : sock[s][i].inbox # Nothing ~> sock[s][i].inbox = Nothing

\* Once its client has typed a command, right or wrong, a session of a
\* write_server ends and the record is free again.
CommandFreesRecord ==
  \A s \in WriteServers, i \in Slots, r \in Records :
    InSession(s, i, r) /\ ~AwaitsId(s, i) /\ sock[s][i].inbox # Nothing ~> self_lock[s][r] = 0
=============================================================================
