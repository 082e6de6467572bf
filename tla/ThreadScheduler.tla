--------------------------- MODULE ThreadScheduler --------------------------
(***************************************************************************)
(* HW3: up to three user-level threads in one process (threadtools.h,      *)
(* scheduler.c).  A thread gives up the processor in thread_yield, where   *)
(* it takes a pending SIGTSTP or SIGALRM, in async_read, and in            *)
(* thread_exit; everywhere else both signals are blocked.  The scheduler   *)
(* keeps the threads in two arrays and picks the next one.                 *)
(*                                                                         *)
(* A C array and its size are one sequence; rq_current keeps its C value,  *)
(* which counts from 0.                                                    *)
(***************************************************************************)
EXTENDS ThreadPrograms, CStrings

CONSTANTS
  FibArgs, ColArgs, SubArgs,   \* the arguments main may be given
  Timeslice,                   \* the first argument of main
  Lines,                       \* what a user writes to 2_max_subarray: a text and its number
  Leftovers,                   \* characters that malloc may leave in a tcb's buf
  MaxInput                     \* bound: how many lines are written

\* atoi leaves what an int holds of the number.
IntOf(text) == Wrap(atoi(text))

\* A negative argument creates no thread.  main is given at least one thread to
\* run (RUNNING is a null pointer otherwise), and collatz an argument other than
\* 1 (its loop is left without thread_exit).  A line has at most five characters,
\* the last of which is the newline; it is not blank, and its number is the one
\* that atoi finds in it.
ASSUME SchedulerAssumption ==
  /\ IntMax \in Nat \ {0}
  /\ FibArgs \subseteq CInt /\ ColArgs \subseteq CInt \ {1} /\ SubArgs \subseteq CInt
  /\ Timeslice \in Nat
  /\ \A line \in Lines : /\ line.text \in Seq(STRING) /\ Len(line.text) \in 1 .. 5
                         /\ Last(line.text) = "\n"
                         /\ \E k \in DOMAIN line.text : line.text[k] \notin Spaces
                         /\ line.num = IntOf(line.text)
  /\ Leftovers \subseteq STRING /\ MaxInput \in Nat

\* The signals that init_signal blocks, for good but for thread_yield.
base_mask == {"SIGTSTP", "SIGALRM"}

Functions == {"fibonacci", "collatz", "max_subarray"}

VARIABLES
  ready_queue, rq_current, waiting_queue,
  tcb,       \* i, x, y and arg of every thread
  at,        \* where the thread's environment resumes it
  mode,      \* "thread", or what the scheduler has been jumped to with
  pending,   \* the blocked signals that are pending
  armed,     \* the alarm is running
  fifo,      \* the characters in the FIFO 2_max_subarray
  buf,       \* the first four characters of max_subarray's tcb->buf
  input,     \* history: the numbers the user has written
  taken      \* history: how often max_subarray has read

Queues == <<ready_queue, rq_current, waiting_queue>>
Input == <<fifo, buf, input, taken>>

vars == <<Queues, tcb, at, mode, pending, armed, Input>>

-----------------------------------------------------------------------------
\* The entries of an array that are in a set, in their order.
Picked(array, set) ==
  LET picked[k \in 0 .. Len(array)] ==
        IF k = 0 THEN <<>>
        ELSE IF array[k] \in set THEN Append(picked[k - 1], array[k]) ELSE picked[k - 1]
  IN  picked[Len(array)]

\* The arguments of main for the three functions.
Arguments == [fibonacci : FibArgs, collatz : ColArgs, max_subarray : SubArgs]

\* init_threads creates the threads in this order.
Created(args) ==
  Picked(<<"fibonacci", "collatz", "max_subarray">>, {f \in Functions : args[f] >= 0})

RUNNING == ready_queue[rq_current + 1]

\* Type correctness; rq_current may be one past the end only while the scheduler
\* has nothing to run.
TypeOK ==
  /\ ready_queue \in BoundedSeq(Functions, 3)
  /\ waiting_queue \in BoundedSeq(Functions, 3)
  /\ rq_current \in 0 .. Len(ready_queue)
  /\ tcb \in [Functions -> Tcb]
  /\ at \in [Functions -> {"none", "round", "async_read", "read", "yield", "exit", "gone"}]
  /\ mode \in {"thread", "YIELD", "READ", "EXIT", "idle", "done"}
  /\ pending \subseteq base_mask
  /\ armed \in BOOLEAN
  /\ Len(fifo) <= 5 * MaxInput /\ Len(buf) = 4
  /\ \A k \in DOMAIN input : input[k] \in Int
  /\ taken \in 0 .. Len(input)

\* A thread starts its rounds here.
RoundStart(f) == IF f = "max_subarray" THEN "async_read" ELSE "round"

Init ==
  \E args \in Arguments :
    LET created == Created(args)
    IN  /\ created # <<>>
        /\ ready_queue = created
        /\ rq_current = 0
        /\ waiting_queue = <<>>
        /\ tcb = [f \in Functions |-> NewTcb(IF args[f] >= 0 THEN args[f] ELSE 0)]
        /\ at = [f \in Functions |-> IF args[f] >= 0 THEN RoundStart(f) ELSE "none"]
        /\ mode = "thread"
        /\ pending = {}
        /\ armed = (Timeslice > 0)
        /\ fifo = <<>>
        /\ \E c \in Leftovers : buf = <<c, c, c, c>>
        /\ input = <<>>
        /\ taken = 0

-----------------------------------------------------------------------------
(***************************************************************************)
(* The running thread.                                                     *)
(***************************************************************************)
Running(f, where) == mode = "thread" /\ RUNNING = f /\ at[f] = where

\* The end of a round: print, sleep, and leave or yield.
EndRound(f, t) ==
  /\ tcb' = [tcb EXCEPT ![f] = t]
  /\ at' = [at EXCEPT ![f] = IF LastRound(f, t) THEN "exit" ELSE "yield"]
  /\ UNCHANGED <<Queues, mode, pending, armed>>

Round(f) ==
  /\ Running(f, "round")
  /\ EndRound(f, IF f = "fibonacci" THEN FibonacciRound(tcb[f]) ELSE CollatzRound(tcb[f]))
  /\ UNCHANGED Input

\* async_read: setjmp, and longjmp(sched_buf, READ).
AsyncRead(f) ==
  /\ Running(f, "async_read")
  /\ at' = [at EXCEPT ![f] = "read"]
  /\ mode' = "READ"
  /\ UNCHANGED <<Queues, tcb, pending, armed, Input>>

\* What read(RUNNING->fd, RUNNING->buf, 5) and buf[4] = '\0' leave there: what is
\* not overwritten is what an earlier read, or malloc, has left.
ReadInto == [k \in 1 .. 4 |-> IF k <= Len(fifo) THEN fifo[k] ELSE buf[k]]

\* Back from the scheduler: the read, whose result nobody looks at, and the round.
Read(f) ==
  /\ Running(f, "read")
  /\ buf' = ReadInto
  /\ fifo' = SubSeq(fifo, 6, Len(fifo))
  /\ taken' = taken + 1
  /\ \E val \in {IntOf(ReadInto)} : EndRound(f, SubarrayRound(tcb[f], val))
  /\ UNCHANGED input

\* Slip: one suspension takes both signals.
TakeBothSignals ==
  IF pending # {} THEN pending' = {} /\ mode' = "YIELD" /\ armed' = (Timeslice > 0 /\ "SIGTSTP" \notin pending)
  ELSE UNCHANGED <<pending, mode, armed>>

\* thread_yield: a pending SIGTSTP is taken before a pending SIGALRM, one of
\* them at a time; the handler restarts the alarm for SIGALRM only.
TakeSignal ==
  IF "SIGTSTP" \in pending
  THEN /\ pending' = pending \ {"SIGTSTP"}
       /\ mode' = "YIELD"
       /\ UNCHANGED armed
  ELSE IF "SIGALRM" \in pending
  THEN /\ pending' = pending \ {"SIGALRM"}
       /\ mode' = "YIELD"
       /\ armed' = (Timeslice > 0)
  ELSE UNCHANGED <<pending, mode, armed>>

ThreadYield(f) ==
  /\ Running(f, "yield")
  /\ TakeSignal
  /\ tcb' = [tcb EXCEPT ![f] = NextRound(f, @)]
  /\ at' = [at EXCEPT ![f] = RoundStart(f)]
  /\ UNCHANGED <<Queues, Input>>

\* thread_exit: the FIFO goes away, longjmp(sched_buf, EXIT).
ThreadExit(f) ==
  /\ Running(f, "exit")
  /\ at' = [at EXCEPT ![f] = "gone"]
  /\ mode' = "EXIT"
  /\ UNCHANGED <<Queues, tcb, pending, armed, Input>>

-----------------------------------------------------------------------------
(***************************************************************************)
(* The scheduler.                                                          *)
(***************************************************************************)

\* Slip: poll's return value is not looked at.
HasInputAlways(f) == f = "max_subarray"

\* poll finds something in the thread's FIFO; nobody writes to the others.
HasInput(f) == f = "max_subarray" /\ fifo # <<>>

\* Slip: rq_size is not incremented.
PolledForgotten == ready_queue

\* The waiting threads that have input go to the end of the ready queue.
Polled == ready_queue \o Picked(waiting_queue, {f \in Functions : HasInput(f)})
StillWaiting == Picked(waiting_queue, {f \in Functions : ~HasInput(f)})

\* Slip: the last entry is dropped instead.
DropLast(queue) == Front(queue)

\* The current entry is overwritten by the last one, and the size decremented.
DropCurrent(queue) ==
  Front([queue EXCEPT ![rq_current + 1] = Last(queue)])

\* The end of scheduler(): the queues are ready and waiting, current is the
\* index to go on with.
Dispatch(ready, waiting, current) ==
  /\ ready_queue' = ready
  /\ waiting_queue' = waiting
  /\ rq_current' = IF ready # <<>> /\ current = Len(ready) THEN 0 ELSE current
  /\ mode' = IF ready # <<>> THEN "thread" ELSE IF waiting # <<>> THEN "idle" ELSE "done"
  /\ UNCHANGED <<tcb, at, pending, armed, Input>>

\* Slip: the current thread is incremented twice, or not at all.
ScheduleYieldTwice == mode = "YIELD" /\ Dispatch(Polled, StillWaiting, rq_current + 2)
ScheduleYieldSame == mode = "YIELD" /\ Dispatch(Polled, StillWaiting, rq_current)

ScheduleYield == mode = "YIELD" /\ Dispatch(Polled, StillWaiting, rq_current + 1)

ScheduleRead ==
  /\ mode = "READ"
  /\ Dispatch(DropCurrent(Polled), Append(StillWaiting, RUNNING), rq_current)

ScheduleExit == mode = "EXIT" /\ Dispatch(DropCurrent(Polled), StillWaiting, rq_current)

\* No thread is ready: the loop that polls until one is.
PollAgain == mode = "idle" /\ Dispatch(Polled, StillWaiting, rq_current)

-----------------------------------------------------------------------------
(***************************************************************************)
(* The outside.                                                            *)
(***************************************************************************)
Expire ==
  /\ armed
  /\ armed' = FALSE
  /\ pending' = pending \cup ({"SIGALRM"} \cap base_mask)
  /\ UNCHANGED <<Queues, tcb, at, mode, Input>>

\* kill -TSTP: a second one before the first is taken is lost.
Stop ==
  /\ pending' = pending \cup ({"SIGTSTP"} \cap base_mask)
  /\ UNCHANGED <<Queues, tcb, at, mode, armed, Input>>

\* A line is written to 2_max_subarray, whose reading end is open.  A read takes
\* five characters: the user fills a line with blanks to that length, as
\* sample_execution.sh does, or waits until the last number has been read.
Write(line) ==
  /\ at["max_subarray"] \notin {"none", "gone"}
  /\ Len(input) < MaxInput
  /\ Len(fifo) % 5 = 0 /\ (Len(line.text) = 5 \/ fifo = <<>>)
  /\ fifo' = fifo \o line.text
  /\ input' = Append(input, line.num)
  /\ UNCHANGED <<Queues, tcb, at, mode, pending, armed, buf, taken>>

Thread(f) == Round(f) \/ AsyncRead(f) \/ Read(f) \/ ThreadYield(f) \/ ThreadExit(f)
Scheduler == ScheduleYield \/ ScheduleRead \/ ScheduleExit \/ PollAgain
Process == Scheduler \/ \E f \in Functions : Thread(f)

Alive == mode # "done"

\* main returns: nothing happens any more.
Return == mode = "done" /\ UNCHANGED vars

Next ==
  \/ Process
  \/ Alive /\ (Expire \/ Stop \/ \E line \in Lines : Write(line))
  \/ Return

Spec == Init /\ [][Next]_vars

\* The process runs and time passes.
FairSpec == Spec /\ WF_vars(Process) /\ WF_vars(Alive /\ Expire)

-----------------------------------------------------------------------------
\* f is in the ready queue and has not just left it by async_read or thread_exit.
Ready(f) == f \in ToSet(ready_queue) /\ ~(mode \in {"READ", "EXIT"} /\ RUNNING = f)

\* A thread that has not exited is in the arrays exactly once, whatever the
\* scheduler moved where, and an exited one (its tcb is freed) is not.
Occurrences(f) ==
  Cardinality({k \in DOMAIN ready_queue : ready_queue[k] = f})
    + Cardinality({k \in DOMAIN waiting_queue : waiting_queue[k] = f})

InOnePlace ==
  \A f \in Functions :
    Occurrences(f) =
      IF at[f] = "none" \/ (at[f] = "gone" /\ ~(mode = "EXIT" /\ RUNNING = f)) THEN 0 ELSE 1

\* Seen from outside there are no arrays, only threads that are ready, wait or run.
\* A thread runs whenever one is ready, another one after a yield unless there is
\* none, and a thread is woken for input that is still there when it reads.
Life(f) ==
  IF at[f] = "none" THEN "absent"
  ELSE IF mode \in {"thread", "YIELD", "READ", "EXIT"} /\ RUNNING = f THEN "running"
  ELSE IF f \in ToSet(ready_queue) THEN "ready"
  ELSE IF f \in ToSet(waiting_queue) THEN "waiting" ELSE "finished"

Abstract ==
  INSTANCE Threads WITH Reader <- "max_subarray", life <- [f \in Functions |-> Life(f)],
                        unread <- Len(input) - taken
ImplementsThreads == Abstract!ThreadsSpec

\* The alarm never dies: it is running, or its signal waits to be taken.
AlarmLives == Timeslice > 0 => armed \/ "SIGALRM" \in pending

\* After a round of fibonacci y is the Fibonacci number of i as far as an int holds it:
\* exactly at first, modulo the number of ints from the first overflow on.  (A thread
\* whose i has gone round to the ints below 1 starts again with 1.)
FibonacciRight ==
  at["fibonacci"] \in {"yield", "exit", "gone"} /\ tcb["fibonacci"].i >= 1
    => tcb["fibonacci"].y = Wrap(Fibonacci[tcb["fibonacci"].i])

\* max_subarray has the largest sum of all contiguous parts of what it has read, as
\* long as all these sums are ints.
SubarrayRight ==
  at["max_subarray"] # "none" /\ PartSums(SubSeq(input, 1, taken)) \subseteq CInt
    => tcb["max_subarray"].y = MaxSubarray(SubSeq(input, 1, taken))

\* A ready thread runs sooner or later.
FairShare ==
  \A f \in Functions : Ready(f) ~> mode = "thread" /\ RUNNING = f

\* A waiting thread that gets its input is woken and runs.
ReaderWakes ==
  "max_subarray" \in ToSet(waiting_queue) /\ HasInput("max_subarray")
    ~> mode = "thread" /\ RUNNING = "max_subarray"

\* main returns, with every thread finished, when collatz has an argument from which it
\* comes to 1 and the user writes as many lines as max_subarray reads.  An argument
\* of 0, which main accepts, is no number of rounds: fibonacci and max_subarray compare
\* for equality after they have counted to 1, and get to it only when i has gone
\* round all the ints.  That is so many rounds, of a second each, and so many lines; in
\* practice such a thread, like collatz with 0, never ends, and neither does main.
EnoughInput ==
  \/ at["max_subarray"] \in {"none", "gone"}
  \/ Len(input) >= Rounds(tcb["max_subarray"].arg)

Terminates ==
  (at["collatz"] = "none" \/ CollatzEnds(tcb["collatz"].arg)) /\ <>EnoughInput
    => <>(mode = "done")
=============================================================================
