# Formal models of SystemProgrammingHW

The repository holds four independent C programs. This directory models them
in TLA+: each module is translated from the source lines that `PROJECT.json`
names ("map"), checked with TLC on small instances ("runs"), and partly proved
with TLAPS for every value of the constants ("theorems").

## Inventory

### HW1: booking servers (`HW1/server.c`)

* **State.** The file `./bookingRecord` (20 records of three counters), shared by
  every process; the kernel's record locks; per process `self_lock[]` (own
  count of lockings per record), `requestP[]` (one request per descriptor:
  `id`, `done`, `wait_for_write`, `buf`) and the `pollfd` array.
* **Operations.** `main`: poll, accept, one `handle_read` per ready connection,
  answer, close. `handle_read` as a read_server: id -> lock, show; "Exit" ->
  unlock. As a write_server: id -> lock, show; command -> check, write, unlock.
  `mylock_check` (F_GETLK), `mylock_function` (F_SETLK and `self_lock`).
* **Interaction.** Processes meet only in the file and the kernel's locks;
  clients talk over TCP; an operator starts and kills processes.
* **Input.** `myatoi` reads the three numbers of a command from what one `read()` has
  returned, which TCP may have cut short or run together.
* **Hard.** The check and the lock are two system calls; fcntl locks do not
  exclude two connections of one process; sessions end in nine ways, of which
  only some unlock; main runs on with a freed request after a refusal; TCP
  departures and SIGPIPE; int overflow in the totals.
* **Correct when** the stored bookings are within 0..15, a command is applied to
  what its client was shown, a lock exists exactly while a session needs it, and
  every request is answered.

### HW2: tournament (`HW2/battle.c`, `player.c`, `status.h`)

* **State.** A tree of processes (14 battles, 8 real players, 7 agents), tables that
  say who sits where, two pipes per parent and child, a FIFO per agent; a
  `Status` travels between them.
* **Operations.** `battle`: fork two children, read a status from each, play a round,
  send both back, until one has lost; wait for the loser's side; relay between the
  winner and the parent; wait again. `player`: send a status, answer every round,
  rest after a victory; a real player who loses writes its status to the FIFO of
  the battle's agent, which plays on in the losers' half of the tree.
* **Hard.** Everybody waits for somebody; one extra or missing status stops the
  tree; `wait(0)` takes any child; FIFO opens block until both ends are there, and
  the FIFO may not exist yet; a status keeps what an earlier battle left in it.
* **Correct when** processes take turns, exit children first, nothing stays unread,
  a player is out after its second defeat (or in the last battle), and the champion
  does not depend on scheduling.

### HW3: user-level threads (`HW3/threadtools.h`, `scheduler.c`, `threads.c`, `main.c`)

* **State.** `ready_queue`, `waiting_queue` with their sizes, `rq_current`, a tcb
  per thread, the pending signals, the alarm, the FIFO of the reading thread.
* **Operations.** `thread_yield`, `async_read`, `thread_exit` (longjmp to the
  scheduler with YIELD, READ, EXIT), `sighandler`, `scheduler`, and the loop
  bodies of `fibonacci`, `collatz`, `max_subarray`.
* **Hard.** A read of the FIFO overwrites only the beginning of a buffer; array moves
  on READ and EXIT after woken threads were appended; two
  signals pending at once; no thread may starve; locals do not survive a switch.
* **Correct when** every live thread is in one place, the alarm never dies, ready
  threads get their turn, and each function computes what its name says.

### HW4: server with a parallel sort (`HW4/server.c`, `lib.c`, `header.h`)

* **State.** The requests, main's batch of arguments, an array per request and the
  tree of `mergesort` calls on it: threads on common memory (`tserver`) or forked
  processes on a shared mapping (`pserver`).
* **Operations.** `initialize` and `read_request`: read both files, scale every profile
  to length one. `main`: create and join batches of `REQ_THREAD` threads.
  `deal_request`: collect the matching movies, sort, write the file. `mergesort`:
  leave, sort a small (or deep) part with the library, or split, wait and `merge`.
* **Hard.** A caller may merge only when both halves have returned; parts must not
  overlap; callees use their caller's locals; arguments are passed by address; nobody
  looks whether `fork` and `pthread_create` succeed, and no answer is closed.
* **Correct when** every request is answered once with the movies it matches, the
  closest first, each name with one secret, in both builds; and a failing creation
  spoils no other request's answer, or ends the server. (A pserver falls short of this: it
  answers the first request only.)

### Other parts

`HW1/sample_judge.py` and `HW3/sample_execution.sh` drive the programs: they
are read for what they expect of them (findings) and for what the environment
does (`Write`, `Stop`). Makefiles, test cases and binaries are not modelled.

## Plan

1. *(done)* HW1: `BookingRules`, `RecordLocks`, `BookingServer`; the abstract
   `BookingLedger` and `BookingRefinement`; proofs of the limits.
2. *(done)* HW3: `ThreadPrograms`, `ThreadScheduler`.
3. *(done)* HW2: `TournamentTree`, `Tournament`.
4. *(done)* HW4: `SortLibrary`, `MergeSort`, implementing the abstract `Answers`.
5. *(done)* HW1: `CStrings`, `BookingCommands`: `myatoi` character by character
   against a reference; a server that must survive a partial line.
6. *(done)* HW3: the FIFO and the read buffer by the character; the abstract `Threads`.
7. *(done)* HW4: `MovieRequests` (files, profiles, matching, scores) and failing
   creations of threads and processes.
8. *(done)* Proofs: every invariant of `BookingServer`, the refinement of the ledger,
   the scheduler with the results of two of its threads and the refinement of `Threads`,
   the order in which the tournament's processes talk and exit, who plays whom and how
   often everybody has lost, the tree of sorting tasks and how many run at a time,
   what `sort` and `merge` make of every list, and that parts and answers are sorted.
9. Proofs that could follow: the refinement of `Answers`, `ParsesFields` of `myatoi`,
   `SameChampion`.

## Modules

| module | models |
| --- | --- |
| `CIntegers` | the int of the machine and how it wraps around |
| `BookingRules` | the two loops of the command branch |
| `MCBookingRules` | one record under any sequence of commands |
| `CStrings` | what the programs use of ctype.h and stdlib.h, `atoi` among it |
| `BookingCommands` | `myatoi`, turn by turn, and what a command line means |
| `MCBookingCommands` | every short text over a small alphabet |
| `RecordLocks` | F_GETLK, F_SETLK, release at exit, as `server.c` uses them |
| `BookingServer` | any number of read_server and write_server processes, their clients, kills |
| `BookingLedger` | the abstract specification: one session per record, one atomic command |
| `BookingRefinement` | the mapping from one write_server to the ledger |
| `MCBookingServer` | the small instances |
| `BookingRulesProofs` | theorems: the two loops compute what they should |
| `BookingRecordProofs` | theorems: one record under any sequence of commands |
| `BookingServerProofs` | theorems: types, limits, second lines, locks and screens of the servers, and the refinement of the ledger |
| `ThreadPrograms` | the loop bodies of `threads.c` and what they should compute |
| `ThreadScheduler` | the scheduler, the three ways into it, signals, the FIFO and its buffer |
| `Threads` | the abstract specification: threads that are ready, run, wait or are finished |
| `MCThreadScheduler` | the small instances |
| `InductionLemmas` | induction over numbers, and functions that are defined by it |
| `ThreadSchedulerProofs` | theorems: types, queues, alarm, results of the threads, the refinement of `Threads` |
| `TournamentTree` | the tables of `battle.c` and `player.c`, and what makes such tables well-formed |
| `Tournament` | the processes of any well-formed tree, their pipes and FIFOs |
| `MCTournament` | four real players, six battles, three agents |
| `TournamentProofs` | theorems: turns, mail, exits, fighters and defeats in every well-formed tree |
| `MovieRequests` | `initialize`, `read_request`, `cross`, which movies a request matches, and the answer wanted |
| `SortLibrary` | `sort` of `lib.c`, `merge`, and the answer they should give |
| `MergeSort` | `tserver` and `pserver`: main, deal_request, the tree of mergesort calls, failing creations |
| `Answers` | the abstract specification: each request is answered once, at one moment, and what a failure may spoil |
| `MCMergeSort` | the small instances |
| `SortLibraryProofs` | theorems: what `sort` and `merge` make of every list |
| `MergeSortProofs` | theorems: races, life times, sorted parts and answers, and workers in every tree of tasks |

### How `BookingServer` corresponds to the code

A process is single-threaded, so everything between two system calls on shared
state is one step. `pc` says where a process is: `"loop"` (about to take the next
ready descriptor), `"lock"` (after F_GETLK, before F_SETLK), `"view"` (before the
record is read and shown), `"write"` (`temp` computed, not written), `"reply"`
(written, not unlocked), `"down"`. `revents[s]` is the set of descriptors that
poll returned and the for loop has not reached; `Turn` is the loop's order.
`handle_read` and the part of `main` behind it form one action per outcome:
`ReadEOF`, `ReadCtrlC`, `ReadPartial`, `ReadBadId`, `ReadLockedId`, `CheckId` and
`LockId` and `ViewRecord`, `ReadExit`, `ReadNotExit`, `ReadBadCommand`,
`ReadExcess`, `ReadCommand` and `WriteRecord` and `Reply`, `ReadFails`.

`Close` with `AfterRefusal` keeps what a freed request still holds, because main
falls through into the `#ifdef` block after `free_request`: for a read_server
`done` becomes 1 again, for a write_server `wait_for_write` becomes 0. `Admitted`
is what `accept` resets.

Input is one line per `read()`: a valid id, a command, Exit, another line
("junk"), Ctrl-C, or a text without newline ("partial"). `myatoi` is represented
by its outcome, which `BookingCommands` models. A connection is `"open"`, closed in order (`"fin"`), reset
(`"rst"`), or known to be reset (`"dead"`); a write to a dead one is SIGPIPE
(`Down`). The first write after `"fin"` may or may not draw the reset in time for
the second, so `After` is a set.

Left out: the busy loop over closed descriptors (it changes nothing), the
`getdtablesize` limit beyond `NSlots`, a failing `open` of the record file, the
order of the three totals on the screen.

### How `BookingCommands` corresponds to the code

A text is what `read()` has left in the buffer up to the first NUL. `Turn` is one turn
of the loop in `myatoi`, on its locals `nums`, `sum` and `niga` (here `sign`);
`UntilReturn` leaves the loop. Every character that is no letter, sign or digit ends a
number: so the CR of a line ends the third one, the LF behind it is never reached, and
`1 2` followed by CR and LF is understood as `1 2 0`. `Meaning` says the same without a
loop: the three fields in front of the first three separators. A LF alone separates like a
blank, and `myatoi` gets all that a `read()` has returned: `7 7` LF is refused, but with `7` LF
behind it in the same read it books 7, 7 and 7. `FirstLineCounts` says how much a first
line decides: with three fields everything, with fewer as far as it goes. `Wrap` is the int
of the build; the model's ints are small, so that a few digits wrap around.

Left out: what `isalpha` and `isdigit` do with bytes above 127.

### How `ThreadScheduler` corresponds to the code

`ready_queue` and `waiting_queue` are the C arrays with their sizes; `rq_current`
counts from 0 as in C. `at[f]` is where `longjmp(RUNNING->environment)` resumes a
thread, `mode` is `"thread"` while one runs, the argument of the longjmp to
`sched_buf` when it has given up, `"idle"` in the polling loop and `"done"` when
`scheduler()` has returned. One scheduler pass is one step: only input and
signals can arrive during it, and both may as well arrive before or after. Both
signals are blocked except in `thread_yield`, so `Expire` and `Stop` only add to
`pending`. A tcb holds real values, so that a mix-up of threads shows in `y`.
`async_read(5)` overwrites the beginning of `buf` with what the FIFO holds and leaves
the rest as malloc or an earlier number has left it; `atoi` stops at the newline. A read
takes five characters whatever the lines are, so a user must fill lines to that length,
as `sample_execution.sh` does, or wait with the next line until one has been read: that
is the guard of `Write`. Without it the code mixes lines up. A blank line is left out too
(`SchedulerAssumption`): `atoi` would go on behind its newline. `Threads` says what the
arrays are for: who runs, who is ready, who waits, and that a waiting thread which has
been woken finds its input.

The ints of the threads wrap around (`Wrap`), as they do in a build without -O:
`fibonacci` overflows in round 47, and what `FibonacciRight` says is the Fibonacci number
modulo the width of an int. `max_subarray` compares sums, so that `SubarrayRight` has the premise that
no part of what has been read has a sum that overflows (`PartSums`). main accepts 0 rounds for
both, and these threads count from 1 and compare for equality: `Rounds(0)` is the whole
round of ints. An argument that makes `collatz` come to 0, or to negative numbers by an
overflow, keeps it from 1 (`CollatzEnds`).

Left out: `collatz` with argument 1 and a start without any thread (undefined
behaviour, excluded by `SchedulerAssumption`), the legality of jumping into
`thread_setup`'s frame.

### How `Tournament` corresponds to the code

`pc` tells where a process stands in its `main`: a battle goes from `"fork_1"` over
`"enter_1"` (lines 127-130), `"play"`, `"read_1"`, `"wait"` (150), `"relay_up"`,
`"relay_down"` (158-161) and `"last_wait"` (154 or 164) to `"exit"`, and is `"reaped"`
by its parent. `up[x]` and `down[x]` are the pipes at the stdout and stdin of x.
A step is one call that may block and all that follows up to the next: writes
never block, because `TakeTurns` holds and a status is smaller than a pipe.
`OpenFifo` is the meeting of two blocking opens; `RetryOpen` the `while` around an
open that fails. The FIFOs of an earlier tournament may be there already, and
`mkfifo` then fails without consequence. ATK and attribute are looked up in `roster`
because nobody changes them. `defeats` is a history variable.

The tables are parameters of `Tournament`; what it takes for granted of them is
`WellFormed`, and `TablesAgree` (an assumption that TLC evaluates) says that the
tables of the code have this property, agree with `battle_num` and with the two
tables the logs are written from. So the small tree of `MCTournament` and the tree
of the code satisfy the same condition, while the 29 processes of the code are
beyond exhaustive checking.

Left out: the log files and the last two columns of `player_status.txt` (no flag is
set there, and the battle is overwritten); end of file and SIGPIPE on a pipe, which cannot occur
because `LoserGoesFirst` and `NothingUnread` hold; rosters with HP or ATK of 0, for
which a battle need not end.

### How `MergeSort` corresponds to the code

`build` is the macro THREAD or PROCESS. A call of `mergesort` is a task, numbered
like `range->id`; its `pc` is `"called"`, `"left"` (inside the first of two calls in one
thread), `"wait"` (until both halves have returned, by return, join or waitpid),
`"write"` or `"returned"`. A library sort and a merge take two steps, reading and
writing the shared array, so that a race would show. Names are numbers: the
secret starts with a tab, which is below every character of a title, and leaves
their order alone; how often a name has got it is kept in `secret`. A pserver deals
with the first request only (lines 327-329), although `HW4/README.md:17-18` runs both
programs on the same input: that is modelled as it is, and `MainEnds` says that the other
requests of a pserver are never answered.

Profiles are whole numbers in units of 1/`UNIT`, with `NUM_OF_GENRE` genres (19 in the
code, two in the instances): the genres of the instances have lengths that divide it, so that the scaled profiles and scores are exact. `Wanted`
does not scale anything: it compares cosines as fractions.

**Failures.** Every creation may fail, up to `MaxFailures` of them; the half that would
have run elsewhere is then `"absent"`. In a pserver `waitpid(-1)` collects any child of
this process that has exited (`Children`, `Collects`), blocks while there are children
of which none has, and fails at once without children; `merge` follows in any case. In
a tserver the id that is joined is then undefined: 0 or whatever the local `myt` held, or
the descriptor of a thread that never ran, which the library has already stored. Either the
join crashes (`JoinNobody`, `SortNobody`, `JoinUnset`), or it returns at once and the
program goes on: main ends without an answer to that request (`Joined`), deal_request
prints the list unsorted (`SortJoined`), `merge` reads an unsorted half (`Collects`).
A stale id might also be that of another thread; waiting for that one is a return at a
later moment, and what a second join of that thread does after it is not modelled. A crash
leaves of each answer written so far some lines from its beginning, maybe none, because no
file is closed (`Crash`); that the last of them may be cut within the line is left out.
Without a crash the return from main flushes them.

Left out: splitting the fields of the files, requests with one id (they would write
one file), failing malloc and mmap, negative genres (`argmax` asserts that there are
none), and rounding: genres of one direction and different lengths may have scores that
differ in the last bit, and then are not ordered by name.

## Runs

| run | instance | shows |
| --- | --- | --- |
| `rules` | limit 3, ints -12..11, every command whose amounts fit | `StaysValid`, `AcceptsExactly`: the loops accept exactly what keeps the record within the limits |
| `rules_overflow` | as above, every int | `StaysValid` fails: finding |
| `commands` | every text of up to seven characters | `ParsesFields`: `myatoi` finds the numbers of the first three fields or refuses; `FirstLineCounts`: three fields in the first line decide alone, fewer as far as they go |
| `writer` | one write_server, two connections, one record, all inputs, departures, kills | typing, limits, sessions, `ShownIsCurrent`, the refinement of the ledger, and `CommandFreesRecord` whatever the other connection does |
| `readers` | one read_server, two connections, leaks up to `MaxReaders` | the kernel's shared lock is there from the first session on and no step takes it away while any client is in one (`KernelLockKept`), and it goes when `self_lock` comes to 0 (`KernelLockCounted`); every input is read |
| `polite` | one of each, nobody leaves silently | `LockHasSession` |
| `leak` | one write_server, a client that hangs up | `LockHasSession` fails: finding |
| `two_writers` | two write_servers, one record | `OneWriter` fails: finding |
| `partial` | one write_server, two connections, a partial line | `ServerStaysUp` fails: finding |
| `threads` | every subset of the three threads, with one or two rounds or the argument 0, two different lines, up to three of them, ints -7..6 | queue, signal and result invariants, the refinement of `Threads`, `FairShare`, `ReaderWakes`, `Terminates` |
| `tournament` | four rosters, with and without stale FIFOs, every interleaving of 13 processes | turn-taking, order of exits, `FitToFight`, `DoubleElimination`, `SameChampion`, `EveryoneExits` |
| `merge_sort` | both builds, every list of up to five movies with two scores, up to three requests, up to two failing creations | no race, parts sorted when a task returns, callers that outlive their callees, the refinement of `Answers`, `MainEnds` |

**Bounds.** Two connections are the least that can meet in one process and two
processes the least that can race; every invariant is about at most two sessions
of one record. The limit is 2 or 3 instead of 15 so that a few commands reach it;
ints are small enough that TLC tries all of them in `rules`. `MaxReaders` stops
new clients of a read_server once it has leaked that many counts: the leak is
unbounded in the code. Three threads are all that `init_threads` creates; an argument of 0 makes one of them stay
for long, while others leave the arrays by READ and by EXIT at every position; `fibonacci(0)`
and `collatz(0)` overflow or stand still meanwhile, with ints so small that the overflow
comes soon. `MaxInput` bounds what a user writes: three lines, some filled with blanks and some not,
so that a number can follow a longer one. The small tournament has each role of the code's tree: a
battle of two battles, of two real players, of two agents, of a battle and an
agent; its rosters let battles last one and several rounds, let ties and
attributes decide, and let a player come back from the losers' half to win. In
`merge_sort` `MAX_LEVEL` and `SIZE_LIMIT` are 2, so that the list of nine movies makes a tserver
split, recurse in one thread and sort, and short ones make empty parts in a
pserver; names are out of order within the parts that the library sorts; a third
request opens a second batch (`REQ_THREAD` is 2). Two failures are enough for a process
to collect with `waitpid(-1)` the child that an outer call waits for, and for both
halves of a call to be damaged. Seven characters hold three numbers, a sign and the
beginning of a second line.

**Fairness.** `BookingServer`: a running process goes on with the pass it is in,
and polls again when something is readable; nothing is assumed of clients or of
the operator. `ThreadScheduler`: the process runs and the alarm, once set,
expires (time passes); nothing is assumed of the user, and `Terminates` has the
user's part as its premise. `Tournament`: every process that can run does.
`MergeSort`: main goes on, and so do the thread and the sort of every request; that
one of its tasks moves is enough, since they are finitely many. `MainEnds` has no
premise: a tserver may only fail to end by a crash after a failed creation, a pserver not
at all. `Terminates` has two more premises than the user's lines: that `collatz` comes to 1,
and that `max_subarray(0)` gets the lines of the whole round of ints it asks for; `fibonacci(0)` does
end in the model, after that round, which takes more than a century at a second each.

**Slips.** An operator marked "Slip" in a module is a mistake that would be easy
to make in the code. `PROJECT.json` ("mutants") pairs each property with one that
breaks it.

## Findings

* `rules_overflow`: `0 1 2147483647` makes the running total negative and is
  booked (lines 193-195 against the message at line 324).
* `leak`: end of file in a session leaves the record locked until the server is
  restarted (line 85). A read_server leaks in the same way when the second line is
  not `Exit` (line 117).
* `two_writers`: F_GETLK and F_SETLK are not one step and the result of F_SETLK is
  ignored (lines 156-162, 420); two clients edit a record where
  `sample_judge.py:447` expects "Locked.".

* `partial`: a read that ends within a line ends the server, and every other client's
  session with it (line 102, whose message says that "this really should not happen").

Also steps of the model, without a run of their own: an answer to a reset connection ends it by
SIGPIPE (`Down` in `Writing`); `16 -1 0` on an empty record is refused for "more
than 15 items" although its total is 15 (`OverLimit` looks at running totals).

Worth knowing without being a finding: `WorkersAreFew` is tight, so that a tserver
with 32 requests may run 32 * (2^4 + 1) = 544 threads besides main, while the
comment at `HW4/server.c:40` speaks of 512 processes per user and recommends fewer
than 256. What happens then is in the model: failures of `pthread_create` and `fork`
are not looked at, and a tserver crashes, answers in the wrong order or leaves a request
unanswered.

## Proofs

The theorems hold for every value of the constants that satisfies the named assumptions
(`RulesAssumption`, `ServerAssumption` and the like, which TLC evaluates in every run).
A theorem that needs more says so in its ASSUME.

### Booking

`BookingRulesProofs`: `VerdictIsExact` (a command is booked exactly when the exact
result is a valid record) and `BookedIsValid`, for amounts up to `IntMax - 2 * Limit`.
The second loop excludes negative results, so the running totals only grow and are exact
(`TotalsAreExact`). `BookingRecordProofs` turns these into `StaysValid` and
`AcceptsExactly` for any sequence of such commands. `rules_overflow` shows that larger
amounts break the first.

`BookingServerProofs`: for any set of processes, connections, records and commands that
fit, `TypeCorrect`, `RecordsAreValid` and `SecondLinesHaveSessions`. `RecordsValid` is
not inductive: between ReadCommand and WriteRecord the new record is in `temp`, so
`IInv` adds that `temp` is valid at `"write"` (`TempValid`), that a busy process works
for a connection with an id (`BusyHasId`), that past the id prompt a connection has an
id (`SecondLineHasId`) and that only open connections are served (`ServesLive`). Every
way a session can end is a `Close` or a `Down`, so the proof has one lemma for each of
those and one per remaining step. No lock is used: that is why the theorem also covers
two write_servers that edit one record.

The second half of the module is about the locks. `LockInv` adds what `self_lock` counts (the sessions
of a read_server, none or one of a write_server), that F_GETLK's answer is still right
in the same process when F_SETLK follows (`CheckedIsFree`), and which requests have an
id. From it follow `KernelLocksAreKept` and `KernelLocksAreCounted`, without any
assumption on clients. `LocksHaveSessions`, the other direction, needs `Courtesy`
(nobody hangs up, and readers follow the prompt): the run `leak` shows that it fails
otherwise. `ScreensAreCurrent` needs `OneWriteServer`: `two_writers` shows why. With it,
`LedgerIsImplemented`: the steps in which a record is shown, a command is written and a
session ends are those of the ledger; every other step is a stutter. The ledger's
session is read off the invariant (`OpenRecords`), because a client's screen and the
file agree.

### Threads

`ThreadSchedulerProofs`, for all arguments, time slices and lines: `TypeCorrect`,
`ThreadsInOnePlace`, `AlarmNeverDies`. The inductive invariant says that the arrays are
disjoint and without repetition, that they hold exactly the threads that live (or are
just exiting), that `rq_current` is an index while anything is ready, where a thread
stands that is in the waiting array, and how much of the FIFO belongs to how many unread
lines. The lemmas about `Picked`, concatenation and `DropCurrent` say what the C loops
over the arrays keep.

`FibonacciIsRight` and `SubarrayIsRight` say what the threads compute, for every number
of rounds and every width of the int: the first modulo that width, for wrapping around
respects sums; the second as long as no part of what has been read has a sum outside
the ints. `Fibonacci` and `Sum` are recursive functions over numbers: `InductionLemmas`
proves the induction and the recursion that this takes from the well-foundedness of
finite sets (a set of numbers that lack a property has a least element). For
`max_subarray` the invariant is that `y` is the largest sum of all parts and `x` the
largest of those that reach the end (`SoFar`, and `OneMore` for one more number); that
the FIFO holds, at every fifth character, the lines that have not been read
(`LinesUnread`); and `AtoiAgrees`: `atoi` finds the number of a line in the buffer
whatever an earlier, longer line has left behind the newline. This is where a line must
not be blank (`SchedulerAssumption`): `atoi` would run on over the newline into what is
left.

`ThreadsAreImplemented`: every step of the scheduler is a step of `Threads` or a
stutter. `Life` is mapped through the arrays; a pass of the scheduler becomes `Threads`'
switch after its three parts (who is woken, who is put away, who is next) have been
identified.

### Sort

`MergeSortProofs`: `NoDataRace` and `CallersOutliveCallees` for every list of movies,
every `MAX_LEVEL` and `SIZE_LIMIT`, both builds and any number of failing creations. The
inductive invariant: the calls of a request form a tree, each of them one half of its
caller (`Tree`), so that two parts nest or are disjoint; where a call is says which
halves it has called, and only the caller of an active call waits (`Waiting`); the
requests up to `next` have a thread and those up to `t` are done (`Batch`); every
request has its own thread and its own array (`Deals`). Nothing in it says that a
creation succeeds: a half whose creation failed is in the tree as a call that never does
anything. That two active calls are not one above the other follows by following callers
down from the larger number, which is an induction over numbers.

`SortLibraryProofs`: `SortsLists` and `MergesLists`, for lists of any length. That two
lists have the same items is stated with counts (`SameItems`); the proofs carry a
bijection between their places instead (`Lists`), which is what an exchange of two items,
a merge and the joining of two parts change in a way that can be followed, and
`ListsHaveSameItems` turns it into counts. After i rounds of `sort` the first i items are
in order and none of the rest comes before them; `argmax` finds the first of the rest.
For `merge` the invariant is how many items have been taken from the left half: both
halves are used up in step, and what is taken comes before all that is left
(`MergeKeepsOrder`). So `MergesLists` has both: the merged list has the items of the two
halves, and it is in order if each half was (`HalvesInOrder`).

With these, `MergeSortProofs` has a second inductive invariant, `DInv` (`DataInvariance`).
An element of a request's array differs from what `deal_request` collected only inside
the part of a call that is over (`Untouched`); a call at `"write"` has in `temp`, and a
call that is over and whose caller is not has in its part of the array, what it should
(`Holds`): a list of its own items, and, unless a creation has failed in it (`Cut`), in
order and with one secret each. A write keeps this for every other call because parts are
disjoint or nest, which is the first invariant. It follows that `PartIsSorted` holds
(`PartsAreSorted`) and, since no item gets a second secret, `TypeOK` (`Typed`).

A request's array is printed once and then left alone (`Printed`); with `DInv` at the
root of its tree, what is printed is what was collected, in order unless something failed
(`AnswersAreSorted`); after a crash it may be a beginning of that.

`WorkersAreFew` takes a third invariant, `LInv` (`LevelInvariance`): the levels of the
calls are those of their tree, and a caller in a pserver is above `MAX_LEVEL`. That a
call there stops exactly at `MAX_LEVEL`, by a comparison for equality, is enough because
levels grow by one. The number of a call at a level is below twice `TasksAt` of that
level (`NumberAtLevel`, by induction over levels). All workers but the first are right
halves in a tserver and left halves in a pserver, so that half of its number tells one
worker from all others, which leaves `TasksAt[MAX_LEVEL]` of them.

### Tournament

`TournamentProofs`, for every tree that is `WellFormed` and every roster: `TypeCorrect`,
`ParentAndChildTakeTurns`, `NobodyLeavesMail`, `WinnerOutlivesRelay`,
`ChildrenAreReaped`. None of these is inductive. `Link` relates a battle and the child
in one of its seats: by the battle's place in its program the child is unborn, is due to
speak, is waited for, has been told something, is leaving, or is gone; and the battle
keeps, in `status`, the last thing it has told the child, which is what a relay below it
still holds. So a relay that ends below ends above in the same round (`Final`). `Battle`
says of the root that nobody is above it, and `Player` and `Alone` say of the FIFOs that
one loser at a time hands a fit status to an agent that waits for it. The proof has one
lemma per step, and a step changes the links of at most two battles (`LinksFrame`);
`RelayUp` and `RelayDown` are the steps in which a process is a child and a parent at
once. The tree may have any size and shape: that each process has one seat (`Tree`)
comes from `WellFormed`, which TLC also evaluates on the tables of the code.

Who plays whom and who has lost takes a second invariant, `PInv` (`Placement`), which
follows every status on its way. Its places are the pipes, the seats of a battle that
holds it, the hand of a loser that looks for its agent, a FIFO, and player_status.txt as
long as its player has not read it (`At`). `OnePlace`: no player has a status at two
places; the two seats of a battle that plays are therefore of two players. `Tokens`: what
a status at a place can be, its HP never above those in the roster, and the defeats of
its player none in the winners' half and one in the losers' (`RightRecord`; a battle
that has an agent is in the winners' half). `Everybody`: who is at no place has lost
twice, or the last battle, or has won it. Two things are needed to follow a status through
a relay or a player: that the seat above still names the player that the process below
works for (`Carriers`), and that a player rests towards its own HP (`Origins`). Most
steps move one status or none and change no defeats (`Calm`, `PassingKeeps`); only in the
last round of a battle two statuses move and one player's record grows
(`FoughtKeepsTokens`).

From this follow `FightersAreFit` and, at the end, `EverybodyElseHasLost`: when A exits
everybody has been reaped, so that no status is left anywhere and every number is out.
That "everybody" is meant literally takes an induction down the tree, over the order that
`WellFormed` asks for (`InOrder`): a process whose parent is gone is reaped.

### What is only model-checked

* Liveness (`InputIsRead`, `CommandFreesRecord`, `FairShare`, `ReaderWakes`,
  `Terminates`, `EveryoneExits`, `MainEnds`): the prover handles neither fairness nor
  ENABLED.
* `ParsesFields` and `FirstLineCounts`: induction over texts, on both sides of the
  comparison.
* `ImplementsAnswers`: what is proved (`AnswersAreSorted`) is that an undamaged answer
  holds the collected movies in order. That this is what `Wanted` says takes, besides, that scaled scores
  order movies as their cosines do, which is so only while scores are exact: a property
  of the instances' genres. Refusals and crashes need the number of failures.
* `SameChampion`: it takes the result of every battle as a value that is defined by
  recursion over the tree, and in it one by recursion over rounds.
