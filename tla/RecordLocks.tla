---------------------------- MODULE RecordLocks -----------------------------
(***************************************************************************)
(* The kernel's advisory record locks on ./bookingRecord, as server.c uses *)
(* them: one lock per record of sizeof(record) bytes, owned by a process,  *)
(* so that a process never conflicts with itself; SETLK fails at once when *)
(* another process holds a conflicting lock, and the exit of a process     *)
(* releases everything it holds.                                           *)
(***************************************************************************)

LockTypes == {"F_UNLCK", "F_RDLCK", "F_WRLCK"}

\* Two locks of different processes on the same record exclude each other.
Conflicts(held, wanted) ==
  \/ held = "F_WRLCK" /\ wanted \in {"F_RDLCK", "F_WRLCK"}
  \/ held = "F_RDLCK" /\ wanted = "F_WRLCK"

\* Some other process holds a lock on r that excludes the wanted one: F_GETLK
\* then answers with that lock's type, and otherwise with F_UNLCK.
Blocked(flock, s, r, wanted) ==
  \E t \in DOMAIN flock \ {s} : Conflicts(flock[t][r], wanted)

\* fcntl(file_fd, F_SETLK, &lock): a refused request changes nothing.
SetLk(flock, s, r, wanted) ==
  IF Blocked(flock, s, r, wanted) THEN flock
  ELSE [flock EXCEPT ![s][r] = wanted]

\* The process ends: the kernel drops its locks.
DropAll(flock, s) ==
  [flock EXCEPT ![s] = [r \in DOMAIN flock[s] |-> "F_UNLCK"]]
=============================================================================
