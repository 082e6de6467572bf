------------------------------ MODULE MergeSort -----------------------------
(***************************************************************************)
(* HW4: the server that sorts in parallel, built as tserver (THREAD) or as *)
(* pserver (PROCESS).  main deals with batches of requests, a thread each; *)
(* a request's movies are sorted by a tree of mergesort calls, of which    *)
(* one half runs as a thread or a process of its own down to MAX_LEVEL.    *)
(*                                                                         *)
(* A call is a task, numbered like range->id: 1 is the whole array, 2n and *)
(* 2n+1 are the halves of n.  Arrays count from 1 here; halves have the    *)
(* same sizes as in C.  Sorting and merging take two steps: what they read *)
(* of the shared array, and what they write to it.                         *)
(*                                                                         *)
(* The creation of a thread or a process may fail, and the program goes on *)
(* without looking whether it has.                                         *)
(***************************************************************************)
EXTENDS MovieRequests, FiniteSets

CONSTANTS
  MAX_LEVEL, SIZE_LIMIT, REQ_THREAD, MAX_REQ,
  Inputs,        \* pairs of input files
  MaxFailures    \* bound: how many creations fail

ASSUME SortAssumption ==
  /\ MAX_LEVEL \in Nat /\ SIZE_LIMIT \in Nat \ {0} /\ REQ_THREAD \in Nat \ {0}
  /\ MAX_REQ \in Nat \ {0} /\ MaxFailures \in Nat
  /\ UNIT \in Nat \ {0} /\ NUM_OF_GENRE \in Nat
  /\ \A files \in Inputs :
       /\ files.movies \in Seq([name : Nat, words : SUBSET STRING, genres : [1 .. NUM_OF_GENRE -> Nat]])
       /\ files.requests \in Seq([keywords : STRING, genres : [1 .. NUM_OF_GENRE -> Nat]])
       /\ Len(files.requests) \in 1 .. MAX_REQ
       /\ \A line \in ToSet(files.movies) \union ToSet(files.requests) :
            \E length \in 0 .. UNIT : cross(line.genres, line.genres) = length * length
                                      /\ (length = 0 \/ UNIT % length = 0)

VARIABLES
  build,      \* THREAD or PROCESS
  files,      \* the two input files
  crashed,    \* a signal has ended the server
  t, next,    \* main: a batch starts after t, and next threads have been created
  myreq,      \* the array of arguments, kept from one batch to the next
  deal,       \* where deal_request is with a request
  which,      \* the request it has been told
  data,       \* the shared array of a request
  tasks,      \* the calls of mergesort for a request
  out         \* what has been printed to the file of a request, if anything

vars == <<build, files, crashed, t, next, myreq, deal, which, data, tasks, out>>

Requests == DOMAIN files.requests

\* pserver deals with the first request only.
num_of_reqs == IF build = "THREAD" THEN Len(files.requests) ELSE 1

Init ==
  /\ build \in {"THREAD", "PROCESS"}
  /\ files \in Inputs
  /\ crashed = FALSE
  /\ t = 0 /\ next = 0
  /\ myreq = [i \in 1 .. REQ_THREAD |-> 0]
  /\ deal = [q \in Requests |-> "none"]
  /\ which = [q \in Requests |-> 0]
  /\ data = [q \in Requests |-> <<>>]
  /\ tasks = [q \in Requests |-> <<>>]
  /\ out = [q \in Requests |-> {}]

-----------------------------------------------------------------------------
(***************************************************************************)
(* Failures.                                                               *)
(***************************************************************************)
Absent(w) == {n \in DOMAIN tasks[w] : tasks[w][n].pc = "absent"}

\* The requests for which something could not be created.
Failed == {q \in Requests : deal[q] = "absent" \/ Absent(q) # {}}

Failures ==
  Cardinality(UNION {{q} \X Absent(q) : q \in Requests})
    + Cardinality({q \in Requests : deal[q] = "absent"})

\* What may become of a creation.
Outcomes(created) ==
  {created} \union (IF Failures < MaxFailures THEN {"absent"} ELSE {})

\* A signal ends the server.  The answers are in files that are not closed: of each
\* one the lines that are still in the buffer get lost, maybe all of them.  (What has
\* been printed of an answer when the server crashes is such a beginning too.)
Crash ==
  /\ crashed' = TRUE
  /\ \E lost \in [Requests -> 0 .. Len(files.movies)] :
       out' = [q \in Requests |-> {Beginning(s, lost[q]) : s \in out[q]}]
  /\ UNCHANGED <<build, files, t, next, myreq, deal, which, data, tasks>>

-----------------------------------------------------------------------------
(***************************************************************************)
(* main                                                                    *)
(***************************************************************************)

\* Slip: every thread gets the address of the same variable.
SharedSlot(q) == 1

\* The element of myreq that a request's thread is given.
Slot(q) == q - t

\* The next thread of this batch; a pserver just calls deal_request, once.
Create ==
  /\ next < num_of_reqs /\ next - t < REQ_THREAD
  /\ next' = next + 1
  /\ myreq' = [myreq EXCEPT ![Slot(next + 1)] = next + 1]
  /\ \E outcome \in IF build = "THREAD" THEN Outcomes("created") ELSE {"created"} :
       deal' = [deal EXCEPT ![next + 1] = outcome]
  /\ UNCHANGED <<build, files, crashed, t, which, data, tasks, out>>

BatchCreated == t < num_of_reqs /\ (next - t = REQ_THREAD \/ next = num_of_reqs)

\* Whether main gets past the join of a request's thread.  A thread that could not
\* be created has an id that was never set, or the id of one that never ran: its join
\* may return at once.
Joined(q) == deal[q] \in {"exited", "absent"}

\* All threads of a batch are joined before the next one.
JoinBatch ==
  /\ BatchCreated
  /\ \A q \in t + 1 .. next : Joined(q)
  /\ t' = t + REQ_THREAD
  /\ UNCHANGED <<build, files, crashed, next, myreq, deal, which, data, tasks, out>>

\* Or, as they are joined one by one, the join of a thread that could not be created
\* crashes.
JoinNobody ==
  /\ BatchCreated
  /\ \E q \in t + 1 .. next : deal[q] = "absent" /\ \A p \in t + 1 .. q - 1 : Joined(p)
  /\ Crash

-----------------------------------------------------------------------------
(***************************************************************************)
(* deal_request                                                            *)
(***************************************************************************)
At(w, n, label) == n \in DOMAIN tasks[w] /\ tasks[w][n].pc = label

Call(label, l, r, level) == [pc |-> label, l |-> l, r |-> r, level |-> level, temp |-> <<>>]

\* It looks up its request, collects the movies that match, and has them sorted.
Collect(q) ==
  /\ deal[q] = "created"
  /\ LET w == myreq[Slot(q)]
     IN  /\ which' = [which EXCEPT ![q] = w]
         /\ data' = [data EXCEPT ![w] = Collected(files, w)]
         /\ \E outcome \in IF build = "THREAD" THEN Outcomes("called") ELSE {"called"} :
              tasks' = [tasks EXCEPT ![w] = [n \in {1} |-> Call(outcome, 1, Len(data'[w]), 0)]]
  /\ deal' = [deal EXCEPT ![q] = "sorting"]
  /\ UNCHANGED <<build, files, crashed, t, next, myreq, out>>

\* Slip: the sort is not joined.
SortCalled(w) == TRUE

\* The sort has returned; or its thread could not be created, and the join is over at
\* once.
SortJoined(w) == At(w, 1, "returned") \/ At(w, 1, "absent")

\* The names in the array, sorted or not, are written to the request's file.
WriteAnswer(q) ==
  /\ deal[q] = "sorting"
  /\ SortJoined(which[q])
  /\ out' = [out EXCEPT ![which[q]] = {data[which[q]]}]
  /\ deal' = [deal EXCEPT ![q] = "exited"]
  /\ UNCHANGED <<build, files, crashed, t, next, myreq, which, data, tasks>>

\* The thread that sorts could not be created, and its join crashes.
SortNobody(q) == deal[q] = "sorting" /\ At(which[q], 1, "absent") /\ Crash

-----------------------------------------------------------------------------
(***************************************************************************)
(* mergesort                                                               *)
(***************************************************************************)
Mid(task) == (task.l + task.r) \div 2
Left(task) == Call("called", task.l, Mid(task), task.level + 1)

\* Slip: the middle element is in both halves.
RightWithMid(task) == Call("called", Mid(task), task.r, task.level + 1)

Right(task) == Call("called", Mid(task) + 1, task.r, task.level + 1)

\* The calls together with new ones.
With(calls, new) ==
  [m \in DOMAIN calls \union DOMAIN new |-> IF m \in DOMAIN new THEN new[m] ELSE calls[m]]

Part(w, task) == SubSeq(data[w], task.l, task.r)

\* data with a task's part replaced by what it has prepared
Stored(w, task) ==
  [data EXCEPT ![w] = [k \in DOMAIN @ |-> IF k \in task.l .. task.r THEN task.temp[k - task.l + 1]
                                         ELSE @[k]]]

\* A tserver sorts what is small enough, a pserver what is deep enough.
IsLeaf(task) ==
  IF build = "THREAD" THEN task.r - task.l + 1 <= SIZE_LIMIT ELSE task.level = MAX_LEVEL

\* Slip: one level too many.
RunsInParallelBelow(task) == build = "PROCESS" \/ task.level <= MAX_LEVEL

\* Below MAX_LEVEL a tserver goes on without new threads.
RunsInParallel(task) == build = "PROCESS" \/ task.level < MAX_LEVEL

\* The task's next label.
Goto(w, n, label) == tasks' = [tasks EXCEPT ![w][n].pc = label]

OnlyTasks == UNCHANGED <<build, files, crashed, t, next, myreq, deal, which, data, out>>

\* An empty part.
ReturnEmpty(w, n) ==
  /\ At(w, n, "called")
  /\ tasks[w][n].l > tasks[w][n].r
  /\ Goto(w, n, "returned")
  /\ OnlyTasks

SortPart(w, n) ==
  /\ At(w, n, "called")
  /\ tasks[w][n].l <= tasks[w][n].r /\ IsLeaf(tasks[w][n])
  /\ tasks' = [tasks EXCEPT ![w][n].pc = "write", ![w][n].temp = sort(Part(w, tasks[w][n]))]
  /\ OnlyTasks

\* A tserver creates a thread for the right half, a pserver a process for the
\* left one; the other half is called here.
Elsewhere(n) == IF build = "THREAD" THEN 2 * n + 1 ELSE 2 * n
Here(n) == IF build = "THREAD" THEN 2 * n ELSE 2 * n + 1

\* One half by itself, the other one here.
Split(w, n) ==
  LET task == tasks[w][n]
  IN  /\ At(w, n, "called")
      /\ task.l <= task.r /\ ~IsLeaf(task) /\ RunsInParallel(task)
      /\ \E outcome \in Outcomes("called") :
           LET halves == [m \in {2 * n, 2 * n + 1} |-> IF m = 2 * n THEN Left(task) ELSE Right(task)]
           IN  tasks' = [tasks EXCEPT ![w] = With([@ EXCEPT ![n].pc = "wait"],
                                                 [halves EXCEPT ![Elsewhere(n)].pc = outcome])]
      /\ OnlyTasks

\* Both halves here, one after the other.
CallLeft(w, n) ==
  LET task == tasks[w][n]
  IN  /\ At(w, n, "called")
      /\ task.l <= task.r /\ ~IsLeaf(task) /\ ~RunsInParallel(task)
      /\ tasks' = [tasks EXCEPT ![w] = With([@ EXCEPT ![n].pc = "left"], [m \in {2 * n} |-> Left(task)])]
      /\ OnlyTasks

CallRight(w, n) ==
  /\ At(w, n, "left")
  /\ At(w, 2 * n, "returned")
  /\ tasks' = [tasks EXCEPT ![w] = With([@ EXCEPT ![n].pc = "wait"],
                                        [m \in {2 * n + 1} |-> Right(tasks[w][n])])]
  /\ OnlyTasks

\* The children of the process that runs a task, and have not been waited for.
ProcessOf[n \in Nat] == IF n > 1 /\ n % 2 = 1 THEN ProcessOf[n \div 2] ELSE n

Children(w, n) ==
  {c \in DOMAIN tasks[w] : /\ c % 2 = 0 /\ ProcessOf[c \div 2] = ProcessOf[n]
                           /\ tasks[w][c].pc \notin {"absent", "joined"}}

\* Slip: the other half is not waited for.
CollectsNothing(w, n) == {{}}

\* What the wait for the other half may collect: that half, if it has returned.
\* If the fork has failed, waitpid(-1) collects any child that has exited, or
\* fails when there is no child; a join of a thread that was not created, by an
\* id that was never set, may return at once.
Collects(w, n) ==
  LET other == Elsewhere(n)
      returned == {c \in Children(w, n) : tasks[w][c].pc = "returned"}
  IN  IF At(w, other, "absent")
      THEN IF build = "THREAD" \/ Children(w, n) = {} THEN {{}} ELSE {{c} : c \in returned}
      ELSE IF At(w, other, "returned") \/ At(w, other, "joined") THEN {{other}} ELSE {}

\* Both halves have returned, or seem to have.
MergeHalves(w, n) ==
  LET task == tasks[w][n]
      half == Part(w, task)
  IN  /\ At(w, n, "wait")
      /\ At(w, Here(n), "returned")
      /\ \E collected \in Collects(w, n) :
           tasks' = [tasks EXCEPT ![w] =
             [m \in DOMAIN @ |->
                IF m = n THEN [task EXCEPT !.pc = "write", !.temp = merge(half, Mid(task) - task.l + 1)]
                ELSE IF m \in collected \union {Here(n)} THEN [@[m] EXCEPT !.pc = "joined"] ELSE @[m]]]
      /\ OnlyTasks

\* Or the join crashes.
JoinUnset(w, n) ==
  /\ build = "THREAD"
  /\ At(w, n, "wait") /\ At(w, Here(n), "returned") /\ At(w, Elsewhere(n), "absent")
  /\ Crash

\* What a sort or a merge has prepared goes to the shared array.
Write(w, n) ==
  /\ At(w, n, "write")
  /\ data' = Stored(w, tasks[w][n])
  /\ tasks' = [tasks EXCEPT ![w][n].pc = "returned", ![w][n].temp = <<>>]
  /\ UNCHANGED <<build, files, crashed, t, next, myreq, deal, which, out>>

-----------------------------------------------------------------------------
MainStep == ~crashed /\ (Create \/ JoinBatch \/ JoinNobody)
DealStep(q) == ~crashed /\ (Collect(q) \/ WriteAnswer(q) \/ SortNobody(q))
TaskStep(w, n) ==
  /\ ~crashed
  /\ \/ ReturnEmpty(w, n) \/ SortPart(w, n) \/ Split(w, n) \/ CallLeft(w, n)
     \/ CallRight(w, n) \/ MergeHalves(w, n) \/ JoinUnset(w, n) \/ Write(w, n)

Next ==
  \/ MainStep
  \/ \E q \in Requests : DealStep(q) \/ \E n \in DOMAIN tasks[q] : TaskStep(q, n)

TasksOf(q) == q \in Requests /\ \E n \in DOMAIN tasks[q] : TaskStep(q, n)
DealOf(q) == q \in Requests /\ DealStep(q)

\* main, every request's thread and the sort of every request go on; more need
\* not be said, since the tasks of a sort are finitely many.
Spec ==
  /\ Init /\ [][Next]_vars
  /\ WF_vars(MainStep)
  /\ \A q \in 1 .. MAX_REQ : WF_vars(DealOf(q)) /\ WF_vars(TasksOf(q))

-----------------------------------------------------------------------------
\* Type correctness.
Items == [score : Nat, name : Nat, secret : 0 .. 1]
IsItems(s) == \A k \in DOMAIN s : s[k] \in Items

TypeOK ==
  /\ t \in Nat /\ next \in Requests \union {0}
  /\ \A i \in DOMAIN myreq : myreq[i] \in 0 .. next
  /\ \A q \in Requests :
       /\ deal[q] \in {"none", "created", "absent", "sorting", "exited"}
       /\ which[q] \in Requests \union {0}
       /\ IsItems(data[q])
       /\ Cardinality(out[q]) <= 1 /\ \A s \in out[q] : IsItems(s)
       /\ \A n \in DOMAIN tasks[q] :
            LET task == tasks[q][n]
            IN  /\ task.pc \in {"called", "left", "wait", "write", "returned", "joined", "absent"}
                /\ task.l \in 1 .. Len(data[q]) + 1 /\ task.r \in 0 .. Len(data[q])
                /\ task.level \in Nat
                /\ IsItems(task.temp) /\ Len(task.temp) \in {0, task.r - task.l + 1}

\* The tasks of a request that have been called and have not returned.
Active(q) ==
  {n \in DOMAIN tasks[q] : tasks[q][n].pc \in {"called", "left", "wait", "write"}}

\* No data race: between its read and its write of the shared array a task is
\* the only one, but for the callers that wait for it, to use that part of it.
NoRace ==
  \A q \in Requests : \A n, m \in Active(q) :
    /\ n # m
    /\ tasks[q][n].pc \in {"called", "write"} /\ tasks[q][m].pc \in {"called", "write"}
    => tasks[q][n].l .. tasks[q][n].r \intersect tasks[q][m].l .. tasks[q][m].r = {}

\* When a task returns, its part holds the items it held in the beginning, in
\* order, with one secret each, whatever the other tasks are doing meanwhile.
\* (merge relies on it: it takes both halves to be in order.)  Where a creation has
\* failed for some of these items, they are still the same ones.
PartIsSorted ==
  \A q \in Requests : \A n \in DOMAIN tasks[q] \ Active(q) :
    LET task  == tasks[q][n]
        given == SubSeq(Collected(files, q), task.l, task.r)
        Missed(piece) == task.l <= piece.l /\ piece.l <= piece.r /\ piece.r <= task.r
    IN  n \div 2 \in Active(q) \/ n = 1
        => IF \E m \in Absent(q) : Missed(tasks[q][m]) THEN SameItems(Part(q, task), given)
           ELSE IsAnswer(Part(q, task), given)

\* The arguments of a call are locals of its caller, and a forked child must be
\* waited for: whoever has been called is gone before its caller returns.
CallerOutlivesCallee ==
  \A q \in Requests :
    /\ \A n \in Active(q) \ {1} : n \div 2 \in Active(q)
    /\ deal[q] = "exited" => Active(which[q]) = {}

\* How many tasks there can be at a level.
TasksAt[level \in Nat] == IF level = 0 THEN 1 ELSE 2 * TasksAt[level - 1]

\* At most one batch of requests is being dealt with, and a request's sort never
\* has more threads, or processes, than one for each task at MAX_LEVEL.
Workers(q) ==
  {n \in Active(q) :
     \/ n = 1
     \/ IF build = "THREAD" THEN n % 2 = 1 /\ tasks[q][n \div 2].pc = "wait"
                                  /\ RunsInParallel(tasks[q][n \div 2])
                            ELSE n % 2 = 0}

WorkersAreFew ==
  /\ Cardinality({q \in Requests : deal[q] \in {"created", "sorting"}}) <= REQ_THREAD
  /\ \A q \in Requests : Cardinality(Workers(q)) <= TasksAt[MAX_LEVEL]

\* The program answers every request it deals with, once, at one moment, with the
\* right list, although it sorts in pieces and in place.  A request for which every
\* creation succeeds gets the right list whatever fails for another one, unless that
\* crashes the server.
Abstract == INSTANCE Answers WITH failed <- Failed
ImplementsAnswers == Abstract!AnswersSpec

\* Liveness: main ends, and every request that is dealt with (a tserver's whose thread
\* was created, and the first one of a pserver) has been answered, the other ones have
\* not; unless a tserver crashes for want of a thread.  Nobody waits for a thread or a
\* process that could not be created.
MainEnds ==
  <>(\/ crashed /\ build = "THREAD" /\ Failed # {}
     \/ /\ t >= num_of_reqs
        /\ \A q \in Requests : out[q] # {} <=> q <= num_of_reqs /\ deal[q] # "absent")
=============================================================================
