--------------------------- MODULE MergeSortProofs --------------------------
(***************************************************************************)
(* What holds of the parallel sort for all files, batches and levels, and  *)
(* however many creations of threads and processes fail.                   *)
(***************************************************************************)
EXTENDS MergeSort, SortLibraryProofs, SequenceTheorems

-----------------------------------------------------------------------------
(***************************************************************************)
(* The inductive invariant.                                                *)
(***************************************************************************)
Labels == {"called", "left", "wait", "write", "returned", "joined", "absent"}
ActiveLabels == {"called", "left", "wait", "write"}

\* A call; what it has prepared may be anything.
IsCall(task) ==
  /\ task = [pc |-> task.pc, l |-> task.l, r |-> task.r, level |-> task.level, temp |-> task.temp]
  /\ task.pc \in Labels /\ task.l \in Nat /\ task.r \in Nat /\ task.level \in Nat

\* The calls of a request are a tree: each but the first is one half of its caller.
IsHalf(task, caller, n) ==
  /\ caller.l <= caller.r
  /\ IF n = 2 * (n \div 2) THEN task.l = caller.l /\ task.r = Mid(caller)
                           ELSE task.l = Mid(caller) + 1 /\ task.r = caller.r

Tree(calls) ==
  /\ DOMAIN calls \subseteq Nat \ {0}
  /\ \A n \in DOMAIN calls : IsCall(calls[n])
  /\ \A n \in DOMAIN calls \ {1} :
       n \div 2 \in DOMAIN calls /\ IsHalf(calls[n], calls[n \div 2], n)

\* Where a call is says which halves it has called, and only a caller that waits
\* has halves that have not returned.
Waiting(calls) ==
  /\ \A n \in DOMAIN calls :
       /\ calls[n].pc \in {"called", "absent"} => 2 * n \notin DOMAIN calls
       /\ calls[n].pc \in {"called", "absent", "left"} => 2 * n + 1 \notin DOMAIN calls
  /\ \A n \in DOMAIN calls \ {1} :
       calls[n].pc \in ActiveLabels => calls[n \div 2].pc \in {"left", "wait"}

\* A batch: the requests up to t have been dealt with, those up to next have a
\* thread, and the thread of a request of this batch finds its number in its slot.
Batch ==
  /\ build \in {"THREAD", "PROCESS"} /\ files \in Inputs
  /\ t \in Nat /\ next \in Nat
  /\ next <= num_of_reqs /\ next - t <= REQ_THREAD
  /\ t <= next \/ next = num_of_reqs
  /\ myreq \in [1 .. REQ_THREAD -> Nat]
  /\ \A q \in t + 1 .. next : myreq[q - t] = q

\* Every request is dealt with by its own thread, which sorts its own array.
Deals ==
  /\ deal \in [Requests -> {"none", "created", "absent", "sorting", "exited"}]
  /\ which \in [Requests -> Nat]
  /\ DOMAIN data = Requests /\ DOMAIN tasks = Requests /\ DOMAIN out = Requests
  /\ \A q \in Requests :
       /\ deal[q] = "none" <=> q > next
       /\ q <= t => deal[q] \in {"none", "exited", "absent"}
       /\ deal[q] \in {"sorting", "exited"} => which[q] = q /\ 1 \in DOMAIN tasks[q]
       /\ deal[q] \notin {"sorting", "exited"} => DOMAIN tasks[q] = {}
       /\ deal[q] = "exited" => Active(q) = {}

IInv ==
  /\ Batch
  /\ Deals
  /\ \A q \in Requests : Tree(tasks[q]) /\ Waiting(tasks[q])

-----------------------------------------------------------------------------
(***************************************************************************)
(* Calls.                                                                  *)
(***************************************************************************)
LEMMA Halves ==
  ASSUME NEW n \in Nat \ {0}
  PROVE  /\ (2 * n) \div 2 = n /\ (2 * n + 1) \div 2 = n
         /\ n \div 2 \in Nat /\ n \div 2 < n
         /\ n # 1 => n \div 2 # 0
         /\ n = 2 * (n \div 2) \/ n = 2 * (n \div 2) + 1
  OBVIOUS

\* Calls that are given other labels, and halves that a call has not called so far.
Grows(calls, new, n, halves) ==
  /\ n \in DOMAIN calls
  /\ halves \subseteq {2 * n, 2 * n + 1} /\ halves \intersect DOMAIN calls = {}
  /\ DOMAIN new = DOMAIN calls \union halves
  /\ \A m \in DOMAIN calls : IsCall(new[m]) /\ new[m].l = calls[m].l /\ new[m].r = calls[m].r
  /\ \A m \in halves : IsCall(new[m]) /\ IsHalf(new[m], calls[n], m)

LEMMA TreeGrows ==
  ASSUME NEW calls, NEW new, NEW n, NEW halves, Tree(calls), Grows(calls, new, n, halves)
  PROVE  Tree(new)
<1>1. DOMAIN new \subseteq Nat \ {0}
  <2>1. n \in Nat \ {0}
    BY DEF Tree, Grows
  <2>2. {2 * n, 2 * n + 1} \subseteq Nat \ {0}
    BY <2>1
  <2>3. QED
    BY <2>2 DEF Tree, Grows
<1>2. \A m \in DOMAIN new : IsCall(new[m])
  BY DEF Grows
<1>3. ASSUME NEW m \in DOMAIN new \ {1}
      PROVE  m \div 2 \in DOMAIN new /\ IsHalf(new[m], new[m \div 2], m)
  <2>1. CASE m \in DOMAIN calls
    <3>1. m \div 2 \in DOMAIN calls /\ IsHalf(calls[m], calls[m \div 2], m)
      BY <1>3, <2>1 DEF Tree
    <3>2. /\ new[m].l = calls[m].l /\ new[m].r = calls[m].r
          /\ new[m \div 2].l = calls[m \div 2].l /\ new[m \div 2].r = calls[m \div 2].r
          /\ m \div 2 \in DOMAIN new
      BY <2>1, <3>1 DEF Grows
    <3>3. QED
      BY <3>1, <3>2 DEF IsHalf, Mid
  <2>2. CASE m \in halves
    <3>1. n \in DOMAIN calls /\ n \in Nat \ {0} /\ m \in {2 * n, 2 * n + 1}
      BY <2>2 DEF Tree, Grows
    <3>2. m \div 2 = n
      BY <3>1, Halves
    <3>3. /\ IsHalf(new[m], calls[n], m) /\ new[n].l = calls[n].l /\ new[n].r = calls[n].r
          /\ n \in DOMAIN new
      BY <2>2, <3>1 DEF Grows
    <3>4. QED
      BY <3>2, <3>3 DEF IsHalf, Mid
  <2>3. QED
    BY <1>3, <2>1, <2>2 DEF Grows
<1>4. QED
  BY <1>1, <1>2, <1>3 DEF Tree

Relabel(task, label) == [task EXCEPT !.pc = label]

LEMMA Relabelled ==
  ASSUME NEW task, IsCall(task), NEW label \in Labels
  PROVE  LET new == Relabel(task, label)
         IN  IsCall(new) /\ new.pc = label /\ new.l = task.l /\ new.r = task.r
             /\ new.level = task.level /\ new.temp = task.temp
<1>1. Relabel(task, label)
        = [pc |-> label, l |-> task.l, r |-> task.r, level |-> task.level, temp |-> task.temp]
  BY DEF IsCall, Relabel
<1>2. QED
  BY <1>1 DEF IsCall

Prepare(task, label, items) == [task EXCEPT !.pc = label, !.temp = items]

LEMMA Prepared ==
  ASSUME NEW task, IsCall(task), NEW label \in Labels, NEW items
  PROVE  LET new == Prepare(task, label, items)
         IN  IsCall(new) /\ new.pc = label /\ new.l = task.l /\ new.r = task.r
             /\ new.level = task.level /\ new.temp = items
<1> DEFINE moved == Relabel(task, label)
           new == [moved EXCEPT !.temp = items]
<1>1. Prepare(task, label, items) = new
  BY DEF Prepare, Relabel
<1>2. IsCall(moved) /\ moved.pc = label /\ moved.l = task.l /\ moved.r = task.r
      /\ moved.level = task.level
  BY Relabelled
<1>3. new = [pc |-> label, l |-> task.l, r |-> task.r, level |-> task.level, temp |-> items]
  <2> HIDE DEF moved
  <2> QED BY <1>2 DEF IsCall
<1>4. IsCall(new) /\ new.pc = label /\ new.l = task.l /\ new.r = task.r /\ new.level = task.level
      /\ new.temp = items
  <2> HIDE DEF new
  <2> QED BY <1>3 DEF IsCall
<1>5. QED
  BY <1>1, <1>4

LEMMA Called ==
  ASSUME NEW label \in Labels, NEW l \in Nat, NEW r \in Nat, NEW level \in Nat
  PROVE  IsCall(Call(label, l, r, level)) /\ Call(label, l, r, level).pc = label
         /\ Call(label, l, r, level).l = l /\ Call(label, l, r, level).r = r
         /\ Call(label, l, r, level).level = level /\ Call(label, l, r, level).temp = <<>>
  BY DEF IsCall, Call

\* The halves of a call that is not empty.
LEMMA LeftIsHalf ==
  ASSUME NEW task, IsCall(task), task.l <= task.r, NEW n \in Nat \ {0}
  PROVE  /\ IsCall(Left(task)) /\ Left(task).pc = "called" /\ Left(task).temp = <<>>
         /\ Left(task).level = task.level + 1 /\ IsHalf(Left(task), task, 2 * n)
<1>1. Mid(task) \in Nat /\ task.l \in Nat /\ task.level + 1 \in Nat /\ "called" \in Labels
  BY DEF IsCall, Mid, Labels
<1>2. /\ IsCall(Left(task)) /\ Left(task).pc = "called" /\ Left(task).temp = <<>>
      /\ Left(task).l = task.l /\ Left(task).r = Mid(task) /\ Left(task).level = task.level + 1
  BY <1>1, Called DEF Left
<1>3. (2 * n) \div 2 = n
  BY Halves
<1>4. QED
  BY <1>2, <1>3 DEF IsHalf

LEMMA RightIsHalf ==
  ASSUME NEW task, IsCall(task), task.l <= task.r, NEW n \in Nat \ {0}
  PROVE  /\ IsCall(Right(task)) /\ Right(task).pc = "called" /\ Right(task).temp = <<>>
         /\ Right(task).level = task.level + 1 /\ IsHalf(Right(task), task, 2 * n + 1)
<1>1. /\ Mid(task) + 1 \in Nat /\ task.r \in Nat /\ task.level + 1 \in Nat /\ "called" \in Labels
  BY DEF IsCall, Mid, Labels
<1>2. /\ IsCall(Right(task)) /\ Right(task).pc = "called" /\ Right(task).temp = <<>>
      /\ Right(task).l = Mid(task) + 1 /\ Right(task).r = task.r /\ Right(task).level = task.level + 1
  BY <1>1, Called DEF Right
<1>3. (2 * n + 1) \div 2 = n /\ 2 * n + 1 # 2 * n
  BY Halves
<1>4. QED
  BY <1>2, <1>3 DEF IsHalf

\* Only the label of one call changes: the one that is active now was so before, and
\* it waits for halves only if it has none or leaves those that have returned.
Moves(calls, new, n) ==
  /\ DOMAIN new = DOMAIN calls
  /\ \A m \in DOMAIN calls : new[m].pc \in ActiveLabels => calls[m].pc \in ActiveLabels
  /\ \A m \in DOMAIN calls \ {n} :
       new[m].pc = calls[m].pc \/ (calls[m].pc = "returned" /\ new[m].pc = "joined")
  /\ new[n].pc \in {"write", "returned"}
  /\ \A m \in {2 * n, 2 * n + 1} \intersect DOMAIN calls : calls[m].pc \notin ActiveLabels

LEMMA WaitingMoves ==
  ASSUME NEW calls, NEW new, NEW n \in DOMAIN calls, Tree(calls), Waiting(calls),
         Moves(calls, new, n)
  PROVE  Waiting(new)
<1>1. ASSUME NEW m \in DOMAIN new
      PROVE  /\ new[m].pc \in {"called", "absent"} => 2 * m \notin DOMAIN new
             /\ new[m].pc \in {"called", "absent", "left"} => 2 * m + 1 \notin DOMAIN new
  <2>1. CASE m = n
    BY <2>1 DEF Moves
  <2>2. CASE m # n
    BY <2>2, <1>1 DEF Moves, Waiting
  <2>3. QED
    BY <2>1, <2>2
<1>2. ASSUME NEW m \in DOMAIN new \ {1}, new[m].pc \in ActiveLabels
      PROVE  new[m \div 2].pc \in {"left", "wait"}
  <2>1. m \in DOMAIN calls /\ m \in Nat \ {0} /\ calls[m].pc \in ActiveLabels
    BY <1>2 DEF Moves, Tree
  <2>2. m \div 2 \in DOMAIN calls /\ calls[m \div 2].pc \in {"left", "wait"}
    BY <1>2, <2>1 DEF Tree, Waiting
  <2>3. m \div 2 # n
    <3>1. m = 2 * (m \div 2) \/ m = 2 * (m \div 2) + 1
      BY <2>1, Halves
    <3>2. QED
      BY <2>1, <3>1 DEF Moves
  <2>4. QED
    BY <2>2, <2>3 DEF Moves
<1>3. QED
  BY <1>1, <1>2 DEF Waiting

LEMMA WaitingGrows ==
  ASSUME NEW calls, NEW new, NEW n, NEW halves, Tree(calls), Waiting(calls),
         Grows(calls, new, n, halves),
         \A m \in DOMAIN calls \ {n} : new[m].pc = calls[m].pc,
         calls[n].pc \in ActiveLabels,
         \/ new[n].pc = "left" /\ halves = {2 * n} /\ 2 * n + 1 \notin DOMAIN calls
         \/ new[n].pc = "wait",
         \A m \in halves : new[m].pc \in {"called", "absent"}
  PROVE  Waiting(new)
<1>1. n \in DOMAIN calls /\ n \in Nat \ {0} /\ n \in DOMAIN new
  BY DEF Grows, Tree
<1>2. ASSUME NEW m \in halves
      PROVE  m \in Nat \ {0} /\ m \div 2 = n /\ 2 * m \notin DOMAIN new /\ 2 * m + 1 \notin DOMAIN new
  <2>1. m \in {2 * n, 2 * n + 1} /\ m \notin DOMAIN calls /\ m \in Nat \ {0}
    BY <1>1, <1>2 DEF Grows
  <2>2. m \div 2 = n /\ (2 * m) \div 2 = m /\ (2 * m + 1) \div 2 = m
    BY <1>1, <2>1, Halves
  <2>3. 2 * m \notin DOMAIN calls /\ 2 * m + 1 \notin DOMAIN calls
    <3>1. 2 * m # 1 /\ 2 * m + 1 # 1
      BY <2>1
    <3>2. QED
      BY <2>1, <2>2, <3>1 DEF Tree
  <2>4. 2 * m \notin halves /\ 2 * m + 1 \notin halves
    <3>1. 2 * m # 2 * n /\ 2 * m # 2 * n + 1 /\ 2 * m + 1 # 2 * n /\ 2 * m + 1 # 2 * n + 1
      BY <1>1, <2>1
    <3>2. QED
      BY <3>1 DEF Grows
  <2>5. QED
    BY <2>1, <2>2, <2>3, <2>4 DEF Grows
<1>3. ASSUME NEW m \in DOMAIN new
      PROVE  /\ new[m].pc \in {"called", "absent"} => 2 * m \notin DOMAIN new
             /\ new[m].pc \in {"called", "absent", "left"} => 2 * m + 1 \notin DOMAIN new
  <2>1. CASE m \in halves
    BY <2>1, <1>2
  <2>2. CASE m = n
    <3>1. 2 * n + 1 # 2 * n
      BY <1>1
    <3>2. QED
      BY <2>2, <3>1 DEF Grows
  <2>3. CASE m \in DOMAIN calls \ {n}
    <3>1. m \in Nat \ {0}
      BY <2>3 DEF Tree
    <3>2. 2 * m \notin halves /\ 2 * m + 1 \notin halves
      <4>1. 2 * m # 2 * n /\ 2 * m # 2 * n + 1 /\ 2 * m + 1 # 2 * n /\ 2 * m + 1 # 2 * n + 1
        BY <1>1, <2>3, <3>1
      <4>2. QED
        BY <4>1 DEF Grows
    <3>3. QED
      BY <2>3, <3>2 DEF Grows, Waiting
  <2>4. QED
    BY <1>3, <2>1, <2>2, <2>3 DEF Grows
<1>4. ASSUME NEW m \in DOMAIN new \ {1}, new[m].pc \in ActiveLabels
      PROVE  new[m \div 2].pc \in {"left", "wait"}
  <2>1. CASE m \in halves
    BY <2>1, <1>2
  <2>2. CASE m \in DOMAIN calls
    <3>1. calls[m].pc \in ActiveLabels
      BY <2>2, <1>4
    <3>2. m \div 2 \in DOMAIN calls /\ calls[m \div 2].pc \in {"left", "wait"}
      BY <1>4, <2>2, <3>1 DEF Tree, Waiting
    <3>3. CASE m \div 2 = n
      BY <3>3
    <3>4. CASE m \div 2 # n
      BY <3>2, <3>4
    <3>5. QED
      BY <3>3, <3>4
  <2>3. QED
    BY <1>4, <2>1, <2>2 DEF Grows
<1>5. QED
  BY <1>3, <1>4 DEF Waiting

-----------------------------------------------------------------------------
(***************************************************************************)
(* The steps of a sort.                                                    *)
(***************************************************************************)

\* The calls of one request change, and perhaps what is in its array.
Sorts(w, calls) ==
  /\ DOMAIN tasks' = DOMAIN tasks /\ tasks'[w] = calls
  /\ \A q \in Requests \ {w} : tasks'[q] = tasks[q]
  /\ DOMAIN data' = DOMAIN data
  /\ UNCHANGED <<build, files, t, next, myreq, deal, which, out>>

LEMMA SortKeepsInv ==
  ASSUME IInv, NEW w \in Requests, Active(w) # {}, NEW calls, Sorts(w, calls),
         DOMAIN tasks[w] \subseteq DOMAIN calls, Tree(calls), Waiting(calls)
  PROVE  IInv'
<1>1. Requests' = Requests /\ num_of_reqs' = num_of_reqs
  BY DEF Sorts, Requests, num_of_reqs
<1>2. Batch'
  BY <1>1 DEF IInv, Batch, Sorts
<1>3. \A q \in Requests : Tree(tasks'[q]) /\ Waiting(tasks'[q])
  BY DEF IInv, Sorts
<1>4. w \in DOMAIN tasks /\ DOMAIN tasks[w] # {} /\ deal[w] = "sorting"
  BY DEF Active, IInv, Deals
<1>5. \A q \in Requests \ {w} : Active(q)' = Active(q)
  BY DEF Sorts, Active
<1>6. Deals'
  <2>1. /\ deal' = deal /\ which' = which /\ next' = next /\ t' = t
        /\ DOMAIN data' = Requests /\ DOMAIN tasks' = Requests /\ DOMAIN out' = Requests
    BY DEF IInv, Deals, Sorts
  <2>2. ASSUME NEW q \in Requests
        PROVE  /\ deal'[q] \in {"sorting", "exited"} => which'[q] = q /\ 1 \in DOMAIN tasks'[q]
               /\ deal'[q] \notin {"sorting", "exited"} => DOMAIN tasks'[q] = {}
               /\ deal'[q] = "exited" => Active(q)' = {}
    <3>1. CASE q = w
      BY <3>1, <2>1, <1>4 DEF IInv, Deals, Sorts
    <3>2. CASE q # w
      BY <3>2, <2>1, <1>5 DEF IInv, Deals, Sorts
    <3>3. QED
      BY <3>1, <3>2
  <2>3. QED
    BY <1>1, <2>1, <2>2 DEF IInv, Deals
<1>7. QED
  BY <1>1, <1>2, <1>3, <1>6 DEF IInv

\* What the invariant says of a call that takes a step.
LEMMA CallAt ==
  ASSUME IInv, NEW w \in Requests, NEW n, NEW label \in ActiveLabels, At(w, n, label)
  PROVE  /\ w \in DOMAIN tasks /\ n \in DOMAIN tasks[w] /\ n \in Nat \ {0}
         /\ tasks[w][n].pc = label /\ IsCall(tasks[w][n])
         /\ Active(w) # {} /\ Tree(tasks[w]) /\ Waiting(tasks[w])
<1>1. /\ w \in DOMAIN tasks /\ n \in DOMAIN tasks[w] /\ tasks[w][n].pc = label
      /\ Tree(tasks[w]) /\ Waiting(tasks[w])
  BY DEF IInv, Deals, At
<1>2. n \in Active(w)
  BY <1>1 DEF Active, ActiveLabels
<1>3. QED
  BY <1>1, <1>2 DEF Tree

\* A call that has no active halves goes on to write or to return.
LEMMA MovingKeepsInv ==
  ASSUME IInv, NEW w \in Requests, NEW n, NEW label \in ActiveLabels, At(w, n, label),
         NEW calls, Sorts(w, calls), DOMAIN calls = DOMAIN tasks[w],
         \A m \in DOMAIN calls : /\ IsCall(calls[m])
                                 /\ calls[m].l = tasks[w][m].l /\ calls[m].r = tasks[w][m].r,
         Moves(tasks[w], calls, n)
  PROVE  IInv'
<1>1. /\ n \in DOMAIN tasks[w] /\ Tree(tasks[w]) /\ Waiting(tasks[w]) /\ Active(w) # {}
  BY CallAt
<1>2. Grows(tasks[w], calls, n, {})
  BY <1>1 DEF Grows
<1>3. Tree(calls) /\ Waiting(calls)
  BY <1>1, <1>2, TreeGrows, WaitingMoves
<1>4. QED
  BY <1>1, <1>3, SortKeepsInv

\* A call that has called nothing goes on to write or to return.
LEMMA LeafKeepsInv ==
  ASSUME IInv, NEW w \in Requests, NEW n, NEW label \in {"called", "write"}, At(w, n, label),
         NEW task, IsCall(task), task.pc \in {"write", "returned"},
         task.l = tasks[w][n].l, task.r = tasks[w][n].r,
         Sorts(w, [tasks[w] EXCEPT ![n] = task])
  PROVE  IInv'
<1> DEFINE calls == [tasks[w] EXCEPT ![n] = task]
<1>1. label \in ActiveLabels
  BY DEF ActiveLabels
<1>2. /\ n \in DOMAIN tasks[w] /\ n \in Nat \ {0} /\ Tree(tasks[w]) /\ Waiting(tasks[w])
      /\ tasks[w][n].pc = label
  BY <1>1, CallAt
<1>3. DOMAIN calls = DOMAIN tasks[w] /\ calls[n] = task
      /\ \A m \in DOMAIN tasks[w] \ {n} : calls[m] = tasks[w][m]
  BY <1>2
<1> HIDE DEF calls
<1>4. \A m \in DOMAIN calls : /\ IsCall(calls[m])
                              /\ calls[m].l = tasks[w][m].l /\ calls[m].r = tasks[w][m].r
  BY <1>2, <1>3 DEF Tree
<1>5. ASSUME NEW m \in {2 * n, 2 * n + 1} \intersect DOMAIN tasks[w]
      PROVE  tasks[w][m].pc \notin ActiveLabels
  <2>1. m \div 2 = n /\ m # 1
    BY <1>2, Halves
  <2>2. QED
    BY <1>2, <2>1 DEF Waiting
<1>6. Moves(tasks[w], calls, n)
  BY <1>1, <1>2, <1>3, <1>5 DEF Moves
<1>7. Sorts(w, calls)
  BY DEF calls
<1>8. QED
  BY <1>1, <1>3, <1>4, <1>6, <1>7, MovingKeepsInv

\* Two fields of one call.
PrepareCall(w, n, label, items) == [tasks EXCEPT ![w][n].pc = label, ![w][n].temp = items]

LEMMA Rewritten ==
  ASSUME NEW w \in DOMAIN tasks, NEW n \in DOMAIN tasks[w], NEW label, NEW items
  PROVE  LET new == PrepareCall(w, n, label, items)
         IN  /\ DOMAIN new = DOMAIN tasks /\ \A q \in DOMAIN tasks \ {w} : new[q] = tasks[q]
             /\ new[w] = [tasks[w] EXCEPT ![n] = Prepare(tasks[w][n], label, items)]
<1> DEFINE first == [tasks[w] EXCEPT ![n].pc = label]
           one == [tasks EXCEPT ![w][n].pc = label]
           new == [one EXCEPT ![w][n].temp = items]
           task == [tasks[w][n] EXCEPT !.pc = label]
           both == [task EXCEPT !.temp = items]
<1>1. PrepareCall(w, n, label, items) = new
  BY DEF PrepareCall
<1>2. Prepare(tasks[w][n], label, items) = both
  BY DEF Prepare
<1>3. one = [tasks EXCEPT ![w] = first] /\ first = [tasks[w] EXCEPT ![n] = task]
  OBVIOUS
<1>4. new = [one EXCEPT ![w] = [one[w] EXCEPT ![n].temp = items]]
  OBVIOUS
<1>5. DOMAIN one = DOMAIN tasks /\ one[w] = first
      /\ \A q \in DOMAIN tasks \ {w} : one[q] = tasks[q]
  <2> HIDE DEF first, one
  <2> QED BY <1>3
<1>6. DOMAIN first = DOMAIN tasks[w] /\ first[n] = task
      /\ \A m \in DOMAIN tasks[w] \ {n} : first[m] = tasks[w][m]
  <2> HIDE DEF first, task
  <2> QED BY <1>3
<1>7. [first EXCEPT ![n].temp = items] = [tasks[w] EXCEPT ![n] = both]
  <2>1. [first EXCEPT ![n].temp = items] = [first EXCEPT ![n] = [first[n] EXCEPT !.temp = items]]
    OBVIOUS
  <2>2. [first EXCEPT ![n].temp = items] = [first EXCEPT ![n] = both]
    <3> HIDE DEF first, task
    <3> QED BY <1>6, <2>1
  <2>3. [first EXCEPT ![n] = both] = [tasks[w] EXCEPT ![n] = both]
    <3> HIDE DEF first, both, task
    <3> QED BY <1>3
  <2>4. QED
    <3> HIDE DEF first, both, task
    <3> QED BY <2>2, <2>3
<1>8. /\ DOMAIN new = DOMAIN tasks /\ \A q \in DOMAIN tasks \ {w} : new[q] = tasks[q]
      /\ new[w] = [tasks[w] EXCEPT ![n] = both]
  <2> HIDE DEF one, first, both, new
  <2> QED BY <1>4, <1>5, <1>7
<1>9. QED
  <2> HIDE DEF one, first, both, new
  <2> QED BY <1>1, <1>2, <1>8

LEMMA ReturnEmptyKeepsInv ==
  ASSUME IInv, NEW w \in Requests, NEW n, ReturnEmpty(w, n)
  PROVE  IInv'
<1>1. At(w, n, "called") /\ "called" \in ActiveLabels /\ "called" \in {"called", "write"}
  BY DEF ReturnEmpty, ActiveLabels
<1>2. /\ w \in DOMAIN tasks /\ n \in DOMAIN tasks[w] /\ IsCall(tasks[w][n])
  BY <1>1, CallAt
<1> DEFINE task == Relabel(tasks[w][n], "returned")
<1>3. IsCall(task) /\ task.pc = "returned" /\ task.l = tasks[w][n].l /\ task.r = tasks[w][n].r
  BY <1>2, Relabelled DEF Labels
<1>4. tasks' = [tasks EXCEPT ![w] = [tasks[w] EXCEPT ![n] = task]]
  BY DEF ReturnEmpty, Goto, Relabel
<1> HIDE DEF task
<1>5. Sorts(w, [tasks[w] EXCEPT ![n] = task])
  BY <1>2, <1>4 DEF Sorts, ReturnEmpty, OnlyTasks
<1>6. QED
  BY <1>1, <1>3, <1>5, LeafKeepsInv

LEMMA SortPartKeepsInv ==
  ASSUME IInv, NEW w \in Requests, NEW n, SortPart(w, n)
  PROVE  IInv'
<1> DEFINE items == sort(Part(w, tasks[w][n]))
           task == Prepare(tasks[w][n], "write", items)
<1>1. At(w, n, "called") /\ "called" \in ActiveLabels /\ "called" \in {"called", "write"}
  BY DEF SortPart, ActiveLabels
<1>2. /\ w \in DOMAIN tasks /\ n \in DOMAIN tasks[w] /\ IsCall(tasks[w][n])
  BY <1>1, CallAt
<1>3. tasks' = PrepareCall(w, n, "write", items)
  BY DEF SortPart, PrepareCall
<1> HIDE DEF items
<1>4. IsCall(task) /\ task.pc = "write" /\ task.l = tasks[w][n].l /\ task.r = tasks[w][n].r
  BY <1>2, Prepared DEF Labels
<1>5. /\ DOMAIN tasks' = DOMAIN tasks /\ \A q \in Requests \ {w} : tasks'[q] = tasks[q]
      /\ tasks'[w] = [tasks[w] EXCEPT ![n] = task]
  BY <1>2, <1>3, Rewritten DEF IInv, Deals
<1>6. Sorts(w, [tasks[w] EXCEPT ![n] = task])
  <2> HIDE DEF task
  <2> QED BY <1>5 DEF Sorts, SortPart, OnlyTasks
<1>7. QED
  <2> HIDE DEF task
  <2> QED BY <1>1, <1>4, <1>6, LeafKeepsInv

LEMMA WriteKeepsInv ==
  ASSUME IInv, NEW w \in Requests, NEW n, Write(w, n)
  PROVE  IInv'
<1> DEFINE task == Prepare(tasks[w][n], "returned", <<>>)
<1>1. At(w, n, "write") /\ "write" \in ActiveLabels /\ "write" \in {"called", "write"}
  BY DEF Write, ActiveLabels
<1>2. /\ w \in DOMAIN tasks /\ n \in DOMAIN tasks[w] /\ IsCall(tasks[w][n])
  BY <1>1, CallAt
<1>3. tasks' = PrepareCall(w, n, "returned", <<>>)
  BY DEF Write, PrepareCall
<1>4. IsCall(task) /\ task.pc = "returned" /\ task.l = tasks[w][n].l /\ task.r = tasks[w][n].r
  BY <1>2, Prepared DEF Labels
<1>5. /\ DOMAIN tasks' = DOMAIN tasks /\ \A q \in Requests \ {w} : tasks'[q] = tasks[q]
      /\ tasks'[w] = [tasks[w] EXCEPT ![n] = task]
  BY <1>2, <1>3, Rewritten DEF IInv, Deals
<1>6. DOMAIN data' = DOMAIN data
  BY DEF Write, Stored
<1>7. Sorts(w, [tasks[w] EXCEPT ![n] = task])
  <2> HIDE DEF task
  <2> QED BY <1>5, <1>6 DEF Sorts, Write
<1>8. QED
  <2> HIDE DEF task
  <2> QED BY <1>1, <1>4, <1>7, LeafKeepsInv

\* Calls with new ones, and a label for the one that has called them.
Extended(calls, n, label, new) == With([calls EXCEPT ![n].pc = label], new)

IsExtended(grown, calls, n, label, new) ==
  /\ DOMAIN grown = DOMAIN calls \union DOMAIN new
  /\ grown[n] = Relabel(calls[n], label)
  /\ \A m \in DOMAIN calls \ {n} : grown[m] = calls[m]
  /\ \A m \in DOMAIN new : grown[m] = new[m]

\* Halves that a call has not called so far.
NewHalves(new, calls, n) ==
  /\ n \in DOMAIN calls
  /\ DOMAIN new \subseteq {2 * n, 2 * n + 1}
  /\ DOMAIN new \intersect DOMAIN calls = {}
  /\ \A m \in DOMAIN new : /\ IsCall(new[m]) /\ new[m].pc \in {"called", "absent"}
                            /\ new[m].temp = <<>> /\ IsHalf(new[m], calls[n], m)
                            /\ new[m].level = calls[n].level + 1

LEMMA WithIs ==
  ASSUME NEW calls, NEW n, NEW label, NEW new, NewHalves(new, calls, n)
  PROVE  IsExtended(Extended(calls, n, label, new), calls, n, label, new)
<1> DEFINE moved == [calls EXCEPT ![n].pc = label]
           task == Relabel(calls[n], label)
           grown == With(moved, new)
<1>1. n \in DOMAIN calls /\ DOMAIN new \intersect DOMAIN calls = {}
  BY DEF NewHalves
<1>2. moved = [calls EXCEPT ![n] = task]
  BY DEF Relabel
<1>3. /\ DOMAIN moved = DOMAIN calls /\ moved[n] = task
      /\ \A m \in DOMAIN calls \ {n} : moved[m] = calls[m]
  <2> HIDE DEF moved, task
  <2> QED BY <1>1, <1>2
<1>4. /\ DOMAIN grown = DOMAIN calls \union DOMAIN new /\ grown[n] = task
      /\ \A m \in DOMAIN calls \ {n} : grown[m] = calls[m]
      /\ \A m \in DOMAIN new : grown[m] = new[m]
  <2> HIDE DEF moved, task
  <2> QED BY <1>1, <1>3 DEF With
<1>5. Extended(calls, n, label, new) = grown
  BY DEF Extended
<1>6. QED
  <2> HIDE DEF grown
  <2> QED BY <1>4, <1>5 DEF IsExtended

\* A call calls halves and waits for them, or calls the left one first.
CallsHalves(w, n, label) ==
  \E new : /\ NewHalves(new, tasks[w], n)
           /\ label = "left" => DOMAIN new = {2 * n} /\ 2 * n + 1 \notin DOMAIN tasks[w]
           /\ Sorts(w, Extended(tasks[w], n, label, new)) /\ UNCHANGED data

LEMMA GrowingKeepsInv ==
  ASSUME IInv, NEW w \in Requests, NEW n, NEW label \in {"called", "left"}, At(w, n, label),
         NEW label2 \in {"left", "wait"}, CallsHalves(w, n, label2)
  PROVE  IInv'
<1>0. PICK new : /\ NewHalves(new, tasks[w], n)
                 /\ label2 = "left" => DOMAIN new = {2 * n} /\ 2 * n + 1 \notin DOMAIN tasks[w]
                 /\ Sorts(w, Extended(tasks[w], n, label2, new))
  BY DEF CallsHalves
<1> DEFINE calls == tasks[w]
           grown == Extended(calls, n, label2, new)
<1>1. label \in ActiveLabels /\ label2 \in Labels
  BY DEF ActiveLabels, Labels
<1>2. /\ n \in DOMAIN calls /\ calls[n].pc = label /\ IsCall(calls[n])
      /\ Active(w) # {} /\ Tree(calls) /\ Waiting(calls)
  BY <1>1, CallAt
<1>3. IsExtended(grown, calls, n, label2, new)
  <2> HIDE DEF calls
  <2> QED BY <1>0, WithIs DEF calls
<1>4. Sorts(w, grown) /\ NewHalves(new, calls, n)
  BY <1>0
<1>5. label2 = "left" => DOMAIN new = {2 * n} /\ 2 * n + 1 \notin DOMAIN calls
  BY <1>0
<1> HIDE DEF calls, grown
<1>6. /\ IsCall(grown[n]) /\ grown[n].pc = label2
      /\ grown[n].l = calls[n].l /\ grown[n].r = calls[n].r
  BY <1>1, <1>2, <1>3, Relabelled DEF IsExtended
<1>7. Grows(calls, grown, n, DOMAIN new)
  BY <1>2, <1>3, <1>4, <1>6 DEF Grows, Tree, IsExtended, NewHalves
<1>8. Tree(grown)
  BY <1>2, <1>7, TreeGrows
<1>9. Waiting(grown)
  <2>1. \A m \in DOMAIN calls \ {n} : grown[m].pc = calls[m].pc
    BY <1>3 DEF IsExtended
  <2>2. \A m \in DOMAIN new : grown[m].pc \in {"called", "absent"}
    BY <1>3, <1>4 DEF IsExtended, NewHalves
  <2>3. \/ grown[n].pc = "left" /\ DOMAIN new = {2 * n} /\ 2 * n + 1 \notin DOMAIN calls
        \/ grown[n].pc = "wait"
    BY <1>5, <1>6
  <2> DEFINE halves == DOMAIN new
  <2> HIDE DEF halves
  <2>4. QED
    BY <1>1, <1>2, <1>7, <2>1, <2>2, <2>3, WaitingGrows DEF halves
<1>10. DOMAIN calls \subseteq DOMAIN grown
  BY <1>3 DEF IsExtended
<1>11. QED
  BY <1>2, <1>4, <1>8, <1>9, <1>10, SortKeepsInv DEF calls

LEMMA SplitCalls ==
  ASSUME IInv, NEW w \in Requests, NEW n, Split(w, n)
  PROVE  CallsHalves(w, n, "wait")
<1> DEFINE task == tasks[w][n]
           halves == [m \in {2 * n, 2 * n + 1} |-> IF m = 2 * n THEN Left(task) ELSE Right(task)]
<1>1. At(w, n, "called") /\ task.l <= task.r /\ "called" \in ActiveLabels
  BY DEF Split, ActiveLabels
<1>2. /\ w \in DOMAIN tasks /\ n \in DOMAIN tasks[w] /\ n \in Nat \ {0} /\ IsCall(task)
      /\ task.pc = "called" /\ Waiting(tasks[w])
  BY <1>1, CallAt
<1>3. PICK outcome \in Outcomes("called") :
        tasks' = [tasks EXCEPT ![w] = Extended(tasks[w], n, "wait", [halves EXCEPT ![Elsewhere(n)].pc = outcome])]
  BY DEF Split, Extended
<1> DEFINE new == [halves EXCEPT ![Elsewhere(n)].pc = outcome]
<1>4. outcome \in {"called", "absent"} /\ outcome \in Labels
  BY DEF Outcomes, Labels
<1>5. 2 * n # 2 * n + 1
  BY <1>2
<1>6. \A m \in {2 * n, 2 * n + 1} : /\ IsCall(halves[m]) /\ halves[m].pc = "called"
                                    /\ halves[m].temp = <<>> /\ IsHalf(halves[m], task, m)
                                    /\ halves[m].level = task.level + 1
  BY <1>1, <1>2, <1>5, LeftIsHalf, RightIsHalf
<1>7. DOMAIN halves = {2 * n, 2 * n + 1} /\ Elsewhere(n) \in {2 * n, 2 * n + 1}
  BY DEF Elsewhere
<1> HIDE DEF halves, task
<1>8. /\ DOMAIN new = {2 * n, 2 * n + 1}
      /\ \A m \in DOMAIN new : new[m] = IF m = Elsewhere(n) THEN Relabel(halves[m], outcome)
                                                            ELSE halves[m]
  <2> DEFINE moved == Relabel(halves[Elsewhere(n)], outcome)
  <2>1. new = [halves EXCEPT ![Elsewhere(n)] = moved]
    BY DEF Relabel
  <2> HIDE DEF moved, new
  <2>2. DOMAIN new = DOMAIN halves
        /\ \A m \in DOMAIN new : new[m] = IF m = Elsewhere(n) THEN moved ELSE halves[m]
    BY <2>1, <1>7
  <2>3. QED
    BY <2>2, <1>7 DEF moved
<1> HIDE DEF new
<1>9. \A m \in DOMAIN new : /\ IsCall(new[m]) /\ new[m].pc \in {"called", "absent"}
                             /\ new[m].temp = <<>> /\ IsHalf(new[m], task, m)
                             /\ new[m].level = task.level + 1
  <2> TAKE m \in DOMAIN new
  <2> DEFINE moved == Relabel(halves[m], outcome)
  <2>1. IsCall(halves[m]) /\ halves[m].pc = "called" /\ halves[m].temp = <<>> /\ IsHalf(halves[m], task, m)
       /\ halves[m].level = task.level + 1
    BY <1>6, <1>8
  <2>2. IsCall(moved) /\ moved.pc = outcome /\ moved.l = halves[m].l /\ moved.r = halves[m].r
        /\ moved.level = task.level + 1 /\ moved.temp = <<>>
    BY <2>1, <1>4, Relabelled
  <2>3. new[m] = IF m = Elsewhere(n) THEN moved ELSE halves[m]
    BY <1>8
  <2> HIDE DEF moved
  <2>4. IsHalf(moved, task, m)
    BY <2>1, <2>2 DEF IsHalf
  <2>5. QED
    BY <1>4, <2>1, <2>2, <2>3, <2>4
<1>10. DOMAIN new \intersect DOMAIN tasks[w] = {}
  BY <1>2, <1>8 DEF Waiting, task
<1>11. Sorts(w, Extended(tasks[w], n, "wait", new))
  <2> DEFINE grown == Extended(tasks[w], n, "wait", new)
  <2>1. tasks' = [tasks EXCEPT ![w] = grown]
    BY <1>3 DEF new
  <2> HIDE DEF grown
  <2>2. Sorts(w, grown)
    BY <1>2, <2>1 DEF Sorts, Split, OnlyTasks
  <2>3. QED
    BY <2>2 DEF grown
<1>12. NewHalves(new, tasks[w], n)
  BY <1>2, <1>8, <1>9, <1>10 DEF NewHalves, task
<1>13. UNCHANGED data
  BY DEF Split, OnlyTasks
<1>14. "wait" # "left"
  OBVIOUS
<1>15. QED
  BY <1>11, <1>12, <1>13, <1>14, Zenon DEF CallsHalves

LEMMA CallLeftCalls ==
  ASSUME IInv, NEW w \in Requests, NEW n, CallLeft(w, n)
  PROVE  CallsHalves(w, n, "left")
<1> DEFINE task == tasks[w][n]
           new == [m \in {2 * n} |-> Left(task)]
<1>1. At(w, n, "called") /\ task.l <= task.r /\ "called" \in ActiveLabels
  BY DEF CallLeft, ActiveLabels
<1>2. /\ w \in DOMAIN tasks /\ n \in DOMAIN tasks[w] /\ n \in Nat \ {0} /\ IsCall(task)
      /\ task.pc = "called" /\ Waiting(tasks[w])
  BY <1>1, CallAt
<1>3. 2 * n \notin DOMAIN tasks[w] /\ 2 * n + 1 \notin DOMAIN tasks[w]
  BY <1>2 DEF Waiting
<1>4. DOMAIN new = {2 * n}
      /\ \A m \in DOMAIN new : /\ IsCall(new[m]) /\ new[m].pc \in {"called", "absent"}
                               /\ new[m].temp = <<>> /\ IsHalf(new[m], task, m)
                               /\ new[m].level = task.level + 1
  BY <1>1, <1>2, LeftIsHalf
<1>5. tasks' = [tasks EXCEPT ![w] = Extended(tasks[w], n, "left", new)]
  BY DEF CallLeft, Extended
<1> HIDE DEF new
<1>6. Sorts(w, Extended(tasks[w], n, "left", new))
  <2> DEFINE grown == Extended(tasks[w], n, "left", new)
  <2> HIDE DEF grown
  <2>1. Sorts(w, grown)
    BY <1>2, <1>5 DEF Sorts, CallLeft, OnlyTasks, grown
  <2>2. QED
    BY <2>1 DEF grown
<1>7. NewHalves(new, tasks[w], n)
  BY <1>2, <1>3, <1>4 DEF NewHalves
<1>8. UNCHANGED data
  BY DEF CallLeft, OnlyTasks
<1>9. QED
  BY <1>3, <1>4, <1>6, <1>7, <1>8, Zenon DEF CallsHalves

LEMMA CallRightCalls ==
  ASSUME IInv, NEW w \in Requests, NEW n, CallRight(w, n)
  PROVE  CallsHalves(w, n, "wait")
<1> DEFINE task == tasks[w][n]
           new == [m \in {2 * n + 1} |-> Right(task)]
<1>1. At(w, n, "left") /\ At(w, 2 * n, "returned") /\ "left" \in ActiveLabels
  BY DEF CallRight, ActiveLabels
<1>2. /\ w \in DOMAIN tasks /\ n \in DOMAIN tasks[w] /\ n \in Nat \ {0} /\ IsCall(task)
      /\ task.pc = "left" /\ Waiting(tasks[w]) /\ Tree(tasks[w])
  BY <1>1, CallAt
<1>3. task.l <= task.r
  <2>1. 2 * n \in DOMAIN tasks[w] /\ 2 * n # 1 /\ (2 * n) \div 2 = n
    BY <1>1, <1>2, Halves DEF At
  <2>2. QED
    BY <1>2, <2>1 DEF Tree, IsHalf
<1>4. 2 * n + 1 \notin DOMAIN tasks[w]
  BY <1>2 DEF Waiting
<1>5. DOMAIN new = {2 * n + 1}
      /\ \A m \in DOMAIN new : /\ IsCall(new[m]) /\ new[m].pc \in {"called", "absent"}
                               /\ new[m].temp = <<>> /\ IsHalf(new[m], task, m)
                               /\ new[m].level = task.level + 1
  BY <1>2, <1>3, RightIsHalf
<1>6. tasks' = [tasks EXCEPT ![w] = Extended(tasks[w], n, "wait", new)]
  BY DEF CallRight, Extended
<1> HIDE DEF new
<1>7. Sorts(w, Extended(tasks[w], n, "wait", new))
  <2> DEFINE grown == Extended(tasks[w], n, "wait", new)
  <2> HIDE DEF grown
  <2>1. Sorts(w, grown)
    BY <1>2, <1>6 DEF Sorts, CallRight, OnlyTasks, grown
  <2>2. QED
    BY <2>1 DEF grown
<1>8. NewHalves(new, tasks[w], n)
  BY <1>2, <1>4, <1>5 DEF NewHalves
<1>9. "wait" # "left" /\ UNCHANGED data
  BY DEF CallRight, OnlyTasks
<1>10. QED
  BY <1>7, <1>8, <1>9, Zenon DEF CallsHalves

\* What the wait for the other half collects has returned, and so has that half
\* unless it could not be created.
LEMMA CollectsReturned ==
  ASSUME IInv, NEW w \in Requests, NEW n, At(w, n, "wait"), At(w, Here(n), "returned"),
         NEW collected \in Collects(w, n)
  PROVE  /\ \A m \in collected : m \in DOMAIN tasks[w] /\ tasks[w][m].pc \in {"returned", "joined"}
         /\ \A m \in {2 * n, 2 * n + 1} \intersect DOMAIN tasks[w] : tasks[w][m].pc \notin ActiveLabels
<1>1. \A m \in collected : m \in DOMAIN tasks[w] /\ tasks[w][m].pc \in {"returned", "joined"}
  <2>1. CASE At(w, Elsewhere(n), "absent")
    <3>1. \/ collected = {}
          \/ \E c \in Children(w, n) : tasks[w][c].pc = "returned" /\ collected = {c}
      BY <2>1 DEF Collects
    <3>2. QED
      BY <3>1 DEF Children
  <2>2. CASE ~At(w, Elsewhere(n), "absent")
    BY <2>2 DEF Collects, At
  <2>3. QED
    BY <2>1, <2>2
<1>2. \/ At(w, Elsewhere(n), "absent") \/ At(w, Elsewhere(n), "returned")
      \/ At(w, Elsewhere(n), "joined")
  BY DEF Collects
<1>3. {2 * n, 2 * n + 1} = {Here(n), Elsewhere(n)}
  BY DEF Here, Elsewhere
<1>4. QED
  BY <1>1, <1>2, <1>3 DEF At, ActiveLabels

\* A call has merged its halves, and some that have returned are joined.
Merges(calls, new, n, items) ==
  /\ DOMAIN new = DOMAIN calls
  /\ new[n] = Prepare(calls[n], "write", items)
  /\ \A m \in DOMAIN calls \ {n} :
       \/ new[m] = calls[m]
       \/ calls[m].pc \in {"returned", "joined"} /\ new[m] = Relabel(calls[m], "joined")

LEMMA MergeHalvesMerges ==
  ASSUME IInv, NEW w \in Requests, NEW n, MergeHalves(w, n)
  PROVE  \E new : /\ Merges(tasks[w], new, n, merge(Part(w, tasks[w][n]), Mid(tasks[w][n]) - tasks[w][n].l + 1))
                  /\ Sorts(w, new)
<1> DEFINE items == merge(Part(w, tasks[w][n]), Mid(tasks[w][n]) - tasks[w][n].l + 1)
           task == Prepare(tasks[w][n], "write", items)
<1>1. At(w, n, "wait") /\ At(w, Here(n), "returned") /\ "wait" \in ActiveLabels
  BY DEF MergeHalves, ActiveLabels
<1>2. w \in DOMAIN tasks /\ n \in DOMAIN tasks[w]
  BY <1>1, CallAt
<1>3. PICK collected \in Collects(w, n) :
        tasks' = [tasks EXCEPT ![w] =
          [m \in DOMAIN tasks[w] |->
             IF m = n THEN task
             ELSE IF m \in collected \union {Here(n)} THEN [tasks[w][m] EXCEPT !.pc = "joined"]
                  ELSE tasks[w][m]]]
  BY DEF MergeHalves, Prepare
<1> DEFINE new == [m \in DOMAIN tasks[w] |->
                     IF m = n THEN task
                     ELSE IF m \in collected \union {Here(n)} THEN Relabel(tasks[w][m], "joined")
                          ELSE tasks[w][m]]
<1>4. tasks' = [tasks EXCEPT ![w] = new]
  BY <1>3 DEF Relabel
<1>5. \A m \in collected \union {Here(n)} : m \in DOMAIN tasks[w] /\ tasks[w][m].pc \in {"returned", "joined"}
  BY <1>1, CollectsReturned DEF At
<1> HIDE DEF task
<1>6. \A m \in DOMAIN tasks[w] \ {n} :
        \/ new[m] = tasks[w][m]
        \/ tasks[w][m].pc \in {"returned", "joined"} /\ new[m] = Relabel(tasks[w][m], "joined")
  BY <1>5
<1>7. DOMAIN new = DOMAIN tasks[w] /\ new[n] = task
  BY <1>2
<1> HIDE DEF new
<1>8. Merges(tasks[w], new, n, items)
  BY <1>6, <1>7 DEF Merges, task
<1>9. Sorts(w, new)
  BY <1>2, <1>4 DEF Sorts, MergeHalves, OnlyTasks
<1>10. QED
  BY <1>8, <1>9

LEMMA MergeHalvesKeepsInv ==
  ASSUME IInv, NEW w \in Requests, NEW n, MergeHalves(w, n)
  PROVE  IInv'
<1> DEFINE items == merge(Part(w, tasks[w][n]), Mid(tasks[w][n]) - tasks[w][n].l + 1)
           calls == tasks[w]
<1>1. At(w, n, "wait") /\ At(w, Here(n), "returned") /\ "wait" \in ActiveLabels
  BY DEF MergeHalves, ActiveLabels
<1>2. /\ n \in DOMAIN calls /\ IsCall(calls[n]) /\ calls[n].pc = "wait" /\ Tree(calls)
  BY <1>1, CallAt
<1>3. PICK new : Merges(calls, new, n, items) /\ Sorts(w, new)
  BY MergeHalvesMerges
<1>4. \A m \in {2 * n, 2 * n + 1} \intersect DOMAIN calls : calls[m].pc \notin ActiveLabels
  <2>1. PICK collected \in Collects(w, n) : TRUE
    BY DEF MergeHalves
  <2>2. QED
    BY <1>1, <2>1, CollectsReturned
<1> HIDE DEF items, calls
<1>5. /\ IsCall(new[n]) /\ new[n].pc = "write" /\ new[n].l = calls[n].l /\ new[n].r = calls[n].r
  BY <1>2, <1>3, Prepared DEF Labels, Merges
<1>6. ASSUME NEW m \in DOMAIN calls \ {n}
      PROVE  /\ IsCall(new[m]) /\ new[m].l = calls[m].l /\ new[m].r = calls[m].r
             /\ \/ new[m].pc = calls[m].pc
                \/ calls[m].pc = "returned" /\ new[m].pc = "joined"
  <2>1. IsCall(calls[m])
    BY <1>2 DEF Tree
  <2>2. CASE new[m] = calls[m]
    BY <2>1, <2>2
  <2>3. CASE calls[m].pc \in {"returned", "joined"} /\ new[m] = Relabel(calls[m], "joined")
    BY <2>1, <2>3, Relabelled DEF Labels
  <2>4. QED
    BY <1>3, <2>2, <2>3 DEF Merges
<1>7. Moves(calls, new, n)
  BY <1>2, <1>3, <1>4, <1>5, <1>6 DEF Moves, ActiveLabels, Merges
<1>8. QED
  <2> DEFINE label == "wait"
  <2>1. label \in ActiveLabels /\ At(w, n, label)
    BY <1>1
  <2>2. /\ DOMAIN new = DOMAIN calls
        /\ \A m \in DOMAIN new : /\ IsCall(new[m])
                                 /\ new[m].l = calls[m].l /\ new[m].r = calls[m].r
    BY <1>3, <1>5, <1>6 DEF Merges
  <2> HIDE DEF label
  <2>3. QED
    BY <1>3, <1>7, <2>1, <2>2, MovingKeepsInv DEF calls

-----------------------------------------------------------------------------
(***************************************************************************)
(* What is collected for a request.                                        *)
(***************************************************************************)
LEMMA CrossIsNatural ==
  ASSUME NEW p1 \in [1 .. NUM_OF_GENRE -> Nat], NEW p2 \in [1 .. NUM_OF_GENRE -> Nat]
  PROVE  cross(p1, p2) \in Nat
<1> DEFINE n == NUM_OF_GENRE
           step == [i \in 1 .. n |-> [v \in Nat |-> v + p1[i] * p2[i]]]
           Body(g) == [i \in 0 .. n |-> IF i = 0 THEN 0 ELSE g[i - 1] + p1[i] * p2[i]]
           sum == CHOOSE g : g = Body(g)
<1>1. n \in Nat
  BY SortAssumption
<1>2. \A i \in 1 .. n : p1[i] * p2[i] \in Nat
  OBVIOUS
<1>3. step \in [1 .. n -> [Nat -> Nat]]
  <2> HIDE DEF n
  <2> QED BY <1>2
<1>4. PICK d : Recurses(d, n, Nat, 0, step)
  <2> HIDE DEF n, step
  <2> QED BY <1>1, <1>3, Recursion
<1>5. d = Body(d)
  <2>1. d \in [0 .. n -> Nat] /\ d[0] = 0
    <3> HIDE DEF n, step
    <3> QED BY <1>4 DEF Recurses
  <2>2. ASSUME NEW i \in 1 .. n PROVE d[i] = d[i - 1] + p1[i] * p2[i]
    <3>1. i - 1 \in 0 .. n
      BY <1>1
    <3>2. d[i] = step[i][d[i - 1]] /\ d[i - 1] \in Nat
      <4> HIDE DEF n, step
      <4> QED BY <1>4, <2>1, <3>1 DEF Recurses
    <3>3. QED
      <4> HIDE DEF n
      <4> QED BY <3>2
  <2>3. \A i \in 0 .. n : i = 0 \/ i \in 1 .. n
    BY <1>1
  <2>4. \A i \in 0 .. n : d[i] = IF i = 0 THEN 0 ELSE d[i - 1] + p1[i] * p2[i]
    <3> HIDE DEF n
    <3> QED BY <2>1, <2>2, <2>3, Zenon
  <2>5. d = [i \in 0 .. n |-> d[i]]
    <3> HIDE DEF n
    <3> QED BY <2>1
  <2>6. QED
    <3> HIDE DEF n
    <3> QED BY <2>4, <2>5
<1>6. sum = Body(sum)
  <2> HIDE DEF Body
  <2> QED BY <1>5
<1> HIDE DEF sum
<1>7. sum[0] = 0 /\ \A i \in 1 .. n : sum[i] = sum[i - 1] + p1[i] * p2[i]
  <2>1. \A i \in 0 .. n : sum[i] = IF i = 0 THEN 0 ELSE sum[i - 1] + p1[i] * p2[i]
    <3> HIDE DEF n
    <3> QED BY <1>6
  <2>2. 0 \in 0 .. n /\ \A i \in 1 .. n : i \in 0 .. n /\ i # 0
    BY <1>1
  <2>3. QED
    <3> HIDE DEF n
    <3> QED BY <2>1, <2>2, Zenon
<1> DEFINE S == {i \in 0 .. n : sum[i] \in Nat}
<1>8. 0 \in S
  <2> HIDE DEF n
  <2> QED BY <1>1, <1>7
<1>9. ASSUME NEW i \in Nat, i < n, i \in S PROVE i + 1 \in S
  <2>1. i + 1 \in 1 .. n /\ (i + 1) - 1 = i /\ i + 1 \in 0 .. n
    BY <1>1, <1>9
  <2>2. sum[i + 1] = sum[i] + p1[i + 1] * p2[i + 1]
    <3> HIDE DEF n
    <3> QED BY <1>7, <2>1
  <2>3. p1[i + 1] * p2[i + 1] \in Nat /\ sum[i] \in Nat
    <3> HIDE DEF n
    <3> QED BY <1>2, <1>9, <2>1
  <2>4. QED
    <3> HIDE DEF n
    <3> QED BY <2>1, <2>2, <2>3
<1>10. sum[n] \in Nat
  <2>1. 0 .. n \subseteq S
    <3> HIDE DEF S, n
    <3> QED BY <1>1, <1>8, <1>9, UpTo
  <2>2. QED
    <3> HIDE DEF n
    <3> QED BY <1>1, <2>1
<1>11. cross(p1, p2) = sum[n]
  BY DEF cross, sum
<1>12. QED
  BY <1>10, <1>11

LEMMA Quotient ==
  ASSUME NEW a \in Nat, NEW b \in Nat \ {0}
  PROVE  a \div b \in Nat
OBVIOUS

LEMMA NormalizeIsNatural ==
  ASSUME NEW genres \in [1 .. NUM_OF_GENRE -> Nat],
         \E length \in 0 .. UNIT : cross(genres, genres) = length * length
  PROVE  normalize(genres) \in [1 .. NUM_OF_GENRE -> Nat]
<1> DEFINE square == cross(genres, genres)
           sum == sqrt(square)
<1>1. PICK length \in 0 .. UNIT : square = length * length
  OBVIOUS
<1>2. square \in Nat
  BY CrossIsNatural
<1> HIDE DEF square
<1>3. length \in 0 .. square
  <2>1. length \in Nat
    BY SortAssumption
  <2>2. length <= length * length
    BY <2>1
  <2>3. QED
    BY <1>1, <1>2, <2>1, <2>2
<1>4. sum \in 0 .. square
  BY <1>1, <1>3 DEF sqrt
<1>5. sum \in Nat
  BY <1>2, <1>4
<1>6. normalize(genres) = [i \in 1 .. NUM_OF_GENRE |-> IF sum = 0 THEN 0 ELSE (genres[i] * UNIT) \div sum]
  BY DEF normalize, square
<1> HIDE DEF sum
<1>7. ASSUME NEW i \in 1 .. NUM_OF_GENRE, sum # 0 PROVE (genres[i] * UNIT) \div sum \in Nat
  <2>1. UNIT \in Nat /\ genres[i] \in Nat /\ sum \in Nat \ {0}
    BY <1>5, <1>7, SortAssumption
  <2>2. genres[i] * UNIT \in Nat
    BY <2>1
  <2>3. QED
    BY <2>1, <2>2, Quotient
<1>8. QED
  BY <1>6, <1>7

\* The items as they are collected.
Fresh == [score : Nat, name : Nat, secret : {0}]

LEMMA CollectedIs ==
  ASSUME NEW given \in Inputs, NEW q \in DOMAIN given.requests
  PROVE  Collected(given, q) \in Seq(Fresh)
<1> DEFINE in == initialize(given)
           req == in.reqs[q]
           n == Len(in.movies)
           Item(movie) == [score |-> cross(movie.profile, req.profile), name |-> movie.name, secret |-> 0]
           Body(g) == [i \in 0 .. n |->
                         IF i = 0 THEN <<>>
                         ELSE IF Matches(req, in.movies[i]) THEN Append(g[i - 1], Item(in.movies[i]))
                              ELSE g[i - 1]]
           range == CHOOSE g : g = Body(g)
           V == Seq(Fresh)
           step == [i \in 1 .. n |->
                      [s \in V |-> IF Matches(req, in.movies[i]) THEN Append(s, Item(in.movies[i])) ELSE s]]
           Profiles == [1 .. NUM_OF_GENRE -> Nat]
<1>11. /\ DOMAIN given.movies = 1 .. Len(given.movies) /\ Len(given.movies) \in Nat
       /\ in.movies = [k \in 1 .. Len(given.movies) |-> read_movie(given.movies[k])]
  <2>1. given.movies \in Seq([name : Nat, words : SUBSET STRING, genres : Profiles])
    BY SortAssumption
  <2>2. DOMAIN given.movies = 1 .. Len(given.movies) /\ Len(given.movies) \in Nat
    <3> HIDE DEF Profiles
    <3> QED BY <2>1
  <2>3. QED
    BY <2>2 DEF initialize
<1>1. n \in Nat /\ n = Len(given.movies)
  <2> DEFINE m == Len(given.movies)
  <2> HIDE DEF in, m
  <2>1. m \in Nat /\ in.movies = [k \in 1 .. m |-> read_movie(given.movies[k])]
    BY <1>11 DEF m
  <2>2. QED
    BY <2>1 DEF m
<1>12. ASSUME NEW line \in ToSet(given.movies) \union ToSet(given.requests), line.genres \in Profiles
       PROVE  normalize(line.genres) \in Profiles
  <2>1. \E length \in 0 .. UNIT : cross(line.genres, line.genres) = length * length
    <3>1. \E length \in 0 .. UNIT : /\ cross(line.genres, line.genres) = length * length
                                    /\ length = 0 \/ UNIT % length = 0
      BY SortAssumption
    <3>2. QED
      BY <3>1
  <2>2. QED
    BY <1>12, <2>1, NormalizeIsNatural
<1>14. req.profile \in Profiles
  <2>1. given.requests \in Seq([keywords : STRING, genres : Profiles])
    BY SortAssumption
  <2> DEFINE line == given.requests[q]
  <2>2. line \in [keywords : STRING, genres : Profiles]
    <3> DEFINE R == [keywords : STRING, genres : Profiles]
               lines == given.requests
    <3>1. lines \in Seq(R) /\ q \in DOMAIN lines
      BY <2>1
    <3> HIDE DEF R, lines
    <3>2. lines[q] \in R
      BY <3>1
    <3>3. QED
      BY <3>2 DEF R, lines
  <2>3. line \in ToSet(given.requests)
    BY DEF ToSet
  <2>4. req = read_request(line)
    BY DEF initialize
  <2> HIDE DEF line, req, Profiles
  <2>5. line.genres \in Profiles
    BY <2>2
  <2>6. QED
    BY <1>12, <2>3, <2>4, <2>5 DEF read_request
<1>13. \A i \in 1 .. n : Item(in.movies[i]) \in Fresh
  <2> SUFFICES ASSUME NEW i \in 1 .. n PROVE Item(in.movies[i]) \in Fresh
    OBVIOUS
  <2> DEFINE line == given.movies[i]
             movie == in.movies[i]
  <2>1. given.movies \in Seq([name : Nat, words : SUBSET STRING, genres : Profiles])
    BY SortAssumption
  <2>2. i \in 1 .. Len(given.movies)
    BY <1>1
  <2>3. line \in [name : Nat, words : SUBSET STRING, genres : Profiles] /\ i \in DOMAIN given.movies
    <3> DEFINE R == [name : Nat, words : SUBSET STRING, genres : Profiles]
               lines == given.movies
    <3>1. lines \in Seq(R) /\ i \in DOMAIN lines
      BY <1>11, <2>1, <2>2
    <3> HIDE DEF R, lines
    <3>2. lines[i] \in R
      BY <3>1
    <3>3. QED
      BY <3>1, <3>2 DEF R, lines
  <2>4. line \in ToSet(given.movies)
    BY <2>3 DEF ToSet
  <2>5. movie = read_movie(line)
    <3> HIDE DEF in
    <3> QED BY <1>11, <2>2
  <2> HIDE DEF line, movie, req, Profiles
  <2>6. line.genres \in Profiles /\ line.name \in Nat
    BY <2>3
  <2>7. movie.profile \in Profiles /\ movie.name \in Nat
    BY <1>12, <2>4, <2>5, <2>6 DEF read_movie
  <2>8. cross(movie.profile, req.profile) \in Nat
    BY <1>14, <2>7, CrossIsNatural DEF Profiles
  <2>9. Item(movie) \in Fresh
    BY <2>7, <2>8 DEF Fresh
  <2>10. QED
    BY <2>9 DEF movie
<1> HIDE DEF in, req, n
<1>2. <<>> \in V
  OBVIOUS
<1>3. step \in [1 .. n -> [V -> V]]
  <2>1. \A i \in 1 .. n : \A s \in V : Append(s, Item(in.movies[i])) \in V
    <3> SUFFICES ASSUME NEW i \in 1 .. n, NEW s \in V PROVE Append(s, Item(in.movies[i])) \in V
      OBVIOUS
    <3> DEFINE item == Item(in.movies[i])
    <3>1. item \in Fresh
      BY <1>13
    <3> HIDE DEF item
    <3>2. Append(s, item) \in V
      BY <3>1
    <3>3. QED
      BY <3>2 DEF item
  <2>2. QED
    <3> HIDE DEF Item, V
    <3> QED BY <2>1
<1>4. PICK d : Recurses(d, n, V, <<>>, step)
  <2> HIDE DEF V, step
  <2> QED BY <1>1, <1>2, <1>3, Recursion
<1>5. d = Body(d)
  <2>1. \A i \in 1 .. n : d[i] = IF Matches(req, in.movies[i]) THEN Append(d[i - 1], Item(in.movies[i]))
                                                             ELSE d[i - 1]
    <3> TAKE i \in 1 .. n
    <3>1. d[i - 1] \in V /\ d[i] = step[i][d[i - 1]]
      <4> HIDE DEF V, step
      <4> QED BY <1>1, <1>4 DEF Recurses
    <3>2. QED
      BY <3>1
  <2>2. d[0] = <<>> /\ d \in [0 .. n -> V]
    BY <1>4 DEF Recurses
  <2>3. QED
    <3> DEFINE Value(i) == IF i = 0 THEN <<>>
                           ELSE IF Matches(req, in.movies[i]) THEN Append(d[i - 1], Item(in.movies[i]))
                                ELSE d[i - 1]
    <3>1. ASSUME NEW i \in 0 .. n PROVE d[i] = Value(i)
      <4>1. i = 0 \/ i \in 1 .. n
        BY <1>1
      <4>2. i \in 1 .. n => i # 0
        OBVIOUS
      <4>3. QED
        <5> HIDE DEF Item
        <5> QED BY <2>1, <2>2, <4>1, <4>2, Zenon
    <3>2. d = [i \in 0 .. n |-> d[i]]
      <4> HIDE DEF V
      <4> QED BY <2>2
    <3>3. d = [i \in 0 .. n |-> Value(i)]
      <4> HIDE DEF Value
      <4> QED BY <3>1, <3>2, Zenon
    <3>4. QED
      BY <3>3, Zenon
<1>6. range = Body(range)
  <2> QED BY <1>5
<1>7. /\ range[0] = <<>>
      /\ \A i \in 1 .. n : \/ range[i] = Append(range[i - 1], Item(in.movies[i]))
                           \/ range[i] = range[i - 1]
  <2>1. ASSUME NEW i \in 0 .. n
        PROVE  range[i] = IF i = 0 THEN <<>>
                          ELSE IF Matches(req, in.movies[i]) THEN Append(range[i - 1], Item(in.movies[i]))
                               ELSE range[i - 1]
    <3> HIDE DEF range, Item
    <3> QED BY <1>6, Zenon
  <2>2. 0 \in 0 .. n /\ \A i \in 1 .. n : i \in 0 .. n /\ i # 0
    BY <1>1
  <2>3. QED
    <3> HIDE DEF range, Item
    <3> QED BY <2>1, <2>2, Zenon
<1>8. range[n] \in V
  <2> DEFINE S == {i \in 0 .. n : range[i] \in V}
  <2>1. 0 \in S
    <3> HIDE DEF range, V
    <3> QED BY <1>1, <1>2, <1>7
  <2>2. \A i \in Nat : i < n /\ i \in S => i + 1 \in S
    <3> HIDE DEF range
    <3> SUFFICES ASSUME NEW i \in Nat, i < n, range[i] \in V PROVE range[i + 1] \in V
      BY <1>1
    <3>1. i + 1 \in 1 .. n /\ (i + 1) - 1 = i
      BY <1>1
    <3>2. Item(in.movies[i + 1]) \in Fresh
      BY <1>13, <3>1
    <3>3. range[i + 1] = Append(range[i], Item(in.movies[i + 1])) \/ range[i + 1] = range[i]
      BY <1>7, <3>1
    <3>4. QED
      <4> DEFINE item == Item(in.movies[i + 1])
                 T == Fresh
                 s == range[i]
      <4>1. item \in T /\ s \in Seq(T)
        BY <3>2
      <4> HIDE DEF item, T, s
      <4>2. Append(s, item) \in Seq(T)
        BY <4>1
      <4>3. QED
        BY <3>3, <4>1, <4>2 DEF item, T, s
  <2>3. 0 .. n \subseteq S
    <3> HIDE DEF S
    <3> QED BY <1>1, <2>1, <2>2, UpTo
  <2>4. QED
    <3> HIDE DEF range, V
    <3> QED BY <1>1, <2>3
<1>9. Collected(given, q) = range[n]
  BY DEF Collected, in, req, n
<1>10. QED
  <2> HIDE DEF range
  <2> QED BY <1>8, <1>9

-----------------------------------------------------------------------------
(***************************************************************************)
(* The steps of main and of deal_request.                                  *)
(***************************************************************************)
LEMMA RequestsAre ==
  ASSUME Batch
  PROVE  /\ Requests = 1 .. Len(files.requests) /\ Len(files.requests) \in Nat \ {0}
         /\ num_of_reqs \in Requests /\ REQ_THREAD \in Nat \ {0}
BY SortAssumption DEF Batch, Requests, num_of_reqs

LEMMA InitInv == Init => IInv
<1> SUFFICES ASSUME Init PROVE IInv
  OBVIOUS
<1>1. /\ Requests = 1 .. Len(files.requests) /\ Len(files.requests) \in Nat \ {0}
      /\ num_of_reqs \in Nat \ {0} /\ REQ_THREAD \in Nat \ {0}
  BY SortAssumption DEF Init, Requests, num_of_reqs
<1>2. Batch
  BY <1>1 DEF Init, Batch
<1>3. \A q \in Requests : DOMAIN tasks[q] = {}
  BY DEF Init
<1>4. Deals
  BY <1>1, <1>3 DEF Init, Deals
<1>5. \A q \in Requests : Tree(tasks[q]) /\ Waiting(tasks[q])
  BY <1>3 DEF Tree, Waiting
<1>6. QED
  BY <1>2, <1>4, <1>5 DEF IInv

LEMMA CrashKeepsInv ==
  ASSUME IInv, Crash
  PROVE  IInv'
<1>1. /\ UNCHANGED <<build, files, t, next, myreq, deal, which, data, tasks>>
      /\ DOMAIN out' = Requests
  BY DEF Crash
<1>2. Requests' = Requests /\ num_of_reqs' = num_of_reqs
  BY <1>1 DEF Requests, num_of_reqs
<1>3. Batch'
  BY <1>1, <1>2 DEF IInv, Batch
<1>4. Deals'
  BY <1>1, <1>2 DEF IInv, Deals, Active
<1>5. QED
  BY <1>1, <1>2, <1>3, <1>4 DEF IInv

LEMMA CreateKeepsInv ==
  ASSUME IInv, Create
  PROVE  IInv'
<1>1. /\ Requests = 1 .. Len(files.requests) /\ Len(files.requests) \in Nat \ {0}
      /\ num_of_reqs \in Requests /\ REQ_THREAD \in Nat \ {0}
  BY RequestsAre DEF IInv
<1>2. /\ next < num_of_reqs /\ next - t < REQ_THREAD /\ next' = next + 1
      /\ myreq' = [myreq EXCEPT ![(next + 1) - t] = next + 1]
      /\ UNCHANGED <<build, files, t, which, data, tasks, out>>
  BY DEF Create, Slot
<1>3. PICK outcome \in {"created", "absent"} : deal' = [deal EXCEPT ![next + 1] = outcome]
  BY DEF Create, Outcomes
<1>4. Requests' = Requests /\ num_of_reqs' = num_of_reqs
  BY <1>2 DEF Requests, num_of_reqs
<1>5. t \in Nat /\ next \in Nat /\ t <= next /\ next + 1 \in Requests /\ num_of_reqs \in Nat
  BY <1>1, <1>2 DEF IInv, Batch
<1>6. Batch'
  <2>1. (next + 1) - t \in 1 .. REQ_THREAD
    BY <1>1, <1>2, <1>5
  <2>2. myreq' \in [1 .. REQ_THREAD -> Nat]
    <3> DEFINE slot == (next + 1) - t
               q == next + 1
    <3>1. myreq' = [myreq EXCEPT ![slot] = q] /\ q \in Nat
      BY <1>2, <1>5
    <3> HIDE DEF slot, q
    <3>2. QED
      BY <3>1 DEF IInv, Batch
  <2>3. ASSUME NEW q \in t + 1 .. next + 1 PROVE myreq'[q - t] = q
    <3>1. q - t \in 1 .. REQ_THREAD
      BY <1>1, <1>2, <1>5
    <3>2. CASE q = next + 1
      BY <1>2, <2>1, <3>2 DEF IInv, Batch
    <3>3. CASE q # next + 1
      <4>1. q \in t + 1 .. next /\ q - t # (next + 1) - t
        BY <1>5, <3>3
      <4>2. QED
        BY <1>2, <2>1, <3>1, <4>1 DEF IInv, Batch
    <3>4. QED
      BY <3>2, <3>3
  <2>4. QED
    BY <1>1, <1>2, <1>4, <1>5, <2>2, <2>3 DEF IInv, Batch
<1>7. Deals'
  <2>1. Active(next + 1) = {} /\ DOMAIN tasks[next + 1] = {}
    <3>1. next + 1 > next
      BY <1>5
    <3>2. QED
      BY <1>5, <3>1 DEF IInv, Deals, Active
  <2>2. \A q \in Requests : Active(q)' = Active(q)
    BY <1>2 DEF Active
  <2>3. deal' \in [Requests -> {"none", "created", "absent", "sorting", "exited"}]
    BY <1>3 DEF IInv, Deals
  <2>4. deal'[next + 1] = outcome /\ \A q \in Requests \ {next + 1} : deal'[q] = deal[q]
    BY <1>3, <1>5 DEF IInv, Deals
  <2>5. ASSUME NEW q \in Requests
        PROVE  /\ deal'[q] = "none" <=> q > next'
               /\ q <= t' => deal'[q] \in {"none", "exited", "absent"}
               /\ deal'[q] \in {"sorting", "exited"} => which'[q] = q /\ 1 \in DOMAIN tasks'[q]
               /\ deal'[q] \notin {"sorting", "exited"} => DOMAIN tasks'[q] = {}
               /\ deal'[q] = "exited" => Active(q)' = {}
    <3>1. q \in Nat
      BY <1>1
    <3>2. CASE q = next + 1
      BY <1>2, <1>5, <2>1, <2>4, <3>2
    <3>3. CASE q # next + 1
      <4>1. deal'[q] = deal[q] /\ (q > next <=> q > next + 1)
        BY <1>5, <2>4, <3>1, <3>3
      <4>2. QED
        BY <1>2, <2>2, <4>1 DEF IInv, Deals
    <3>4. QED
      BY <3>2, <3>3
  <2>6. QED
    BY <1>2, <1>4, <2>3, <2>5 DEF IInv, Deals
<1>8. QED
  BY <1>2, <1>4, <1>6, <1>7 DEF IInv

LEMMA JoinBatchKeepsInv ==
  ASSUME IInv, JoinBatch
  PROVE  IInv'
<1>1. /\ Requests = 1 .. Len(files.requests) /\ Len(files.requests) \in Nat \ {0}
      /\ num_of_reqs \in Requests /\ REQ_THREAD \in Nat \ {0}
  BY RequestsAre DEF IInv
<1>2. /\ t' = t + REQ_THREAD /\ (next - t = REQ_THREAD \/ next = num_of_reqs)
      /\ \A q \in t + 1 .. next : deal[q] \in {"exited", "absent"}
      /\ UNCHANGED <<build, files, next, myreq, deal, which, data, tasks, out>>
  BY DEF JoinBatch, BatchCreated, Joined
<1>3. Requests' = Requests /\ num_of_reqs' = num_of_reqs
  BY <1>2 DEF Requests, num_of_reqs
<1>4. t \in Nat /\ next \in Nat
  BY DEF IInv, Batch
<1>5. Batch'
  <2>1. t' \in Nat /\ next - t' <= REQ_THREAD /\ (t' <= next \/ next = num_of_reqs)
    BY <1>1, <1>2, <1>4 DEF IInv, Batch
  <2>2. next <= t'
    BY <1>1, <1>2, <1>4 DEF IInv, Batch
  <2>3. \A q \in t' + 1 .. next : FALSE
    <3> DEFINE u == t'
    <3> HIDE DEF u
    <3>1. u \in Nat /\ next <= u /\ next \in Nat
      BY <1>4, <2>1, <2>2 DEF u
    <3>2. \A q \in u + 1 .. next : FALSE
      BY <3>1
    <3>3. QED
      BY <3>2 DEF u
  <2>4. QED
    BY <1>2, <1>3, <2>1, <2>3 DEF IInv, Batch
<1>6. Deals'
  <2>1. ASSUME NEW q \in Requests PROVE deal[q] \in {"none", "exited", "absent"}
    <3>1. q \in Nat
      BY <1>1
    <3>2. q <= t \/ q \in t + 1 .. next \/ q > next
      BY <1>4, <3>1
    <3>3. QED
      BY <1>2, <3>2 DEF IInv, Deals
  <2>2. \A q \in Requests : Active(q)' = Active(q)
    BY <1>2 DEF Active
  <2>3. QED
    BY <1>2, <1>3, <2>1, <2>2 DEF IInv, Deals
<1>7. QED
  BY <1>2, <1>3, <1>5, <1>6 DEF IInv

\* Every thread of deal_request finds the number of its own request.
LEMMA CollectIs ==
  ASSUME IInv, NEW q \in Requests, Collect(q)
  PROVE  /\ q \in t + 1 .. next /\ deal[q] = "created" /\ deal' = [deal EXCEPT ![q] = "sorting"]
         /\ which' = [which EXCEPT ![q] = q] /\ data' = [data EXCEPT ![q] = Collected(files, q)]
         /\ \E outcome \in {"called", "absent"} :
              tasks' = [tasks EXCEPT ![q] = [n \in {1} |-> Call(outcome, 1, Len(data'[q]), 0)]]
         /\ UNCHANGED <<build, files, t, next, myreq, out>>
<1>1. q \in Nat /\ t \in Nat /\ next \in Nat
  BY RequestsAre DEF IInv, Batch
<1>2. deal[q] = "created" /\ deal' = [deal EXCEPT ![q] = "sorting"]
  BY DEF Collect
<1>3. q \in t + 1 .. next
  BY <1>1, <1>2 DEF IInv, Deals
<1>4. myreq[Slot(q)] = q
  BY <1>3 DEF IInv, Batch, Slot
<1> DEFINE w == myreq[Slot(q)]
           Outcome == IF build = "THREAD" THEN Outcomes("called") ELSE {"called"}
<1>5. /\ which' = [which EXCEPT ![q] = w] /\ data' = [data EXCEPT ![w] = Collected(files, w)]
      /\ \E outcome \in Outcome :
           tasks' = [tasks EXCEPT ![w] = [n \in {1} |-> Call(outcome, 1, Len(data'[w]), 0)]]
      /\ UNCHANGED <<build, files, t, next, myreq, out>>
  BY DEF Collect
<1>6. Outcome \subseteq {"called", "absent"}
  BY DEF Outcomes
<1>7. w = q
  BY <1>4
<1> HIDE DEF w, Outcome
<1>8. PICK outcome \in Outcome :
        tasks' = [tasks EXCEPT ![w] = [n \in {1} |-> Call(outcome, 1, Len(data'[w]), 0)]]
  BY <1>5
<1>9. outcome \in {"called", "absent"}
      /\ tasks' = [tasks EXCEPT ![q] = [n \in {1} |-> Call(outcome, 1, Len(data'[q]), 0)]]
  BY <1>6, <1>7, <1>8
<1>10. which' = [which EXCEPT ![q] = q] /\ data' = [data EXCEPT ![q] = Collected(files, q)]
  BY <1>5, <1>7
<1>11. QED
  BY <1>2, <1>3, <1>5, <1>9, <1>10

LEMMA CollectKeepsInv ==
  ASSUME IInv, NEW q \in Requests, Collect(q)
  PROVE  IInv'
<1>1. Requests = 1 .. Len(files.requests) /\ Len(files.requests) \in Nat \ {0}
  BY RequestsAre DEF IInv
<1>2. q \in Nat /\ t \in Nat /\ next \in Nat
  BY <1>1 DEF IInv, Batch
<1>3. deal' = [deal EXCEPT ![q] = "sorting"]
  BY CollectIs
<1>4. q \in t + 1 .. next
  BY CollectIs
<1>6. /\ which' = [which EXCEPT ![q] = q] /\ data' = [data EXCEPT ![q] = Collected(files, q)]
      /\ UNCHANGED <<build, files, t, next, myreq, out>>
  BY CollectIs
<1>7. PICK outcome \in {"called", "absent"} :
        tasks' = [tasks EXCEPT ![q] = [n \in {1} |-> Call(outcome, 1, Len(data'[q]), 0)]]
  BY CollectIs
<1> DEFINE task == Call(outcome, 1, Len(data'[q]), 0)
           calls == [n \in {1} |-> task]
<1>8. IsCall(task) /\ task.pc \in {"called", "absent"}
  <2>1. data'[q] = Collected(files, q)
    BY <1>6 DEF IInv, Deals
  <2>2. Len(data'[q]) \in Nat
    <3> DEFINE F == Fresh
               o == Collected(files, q)
    <3>1. o \in Seq(F)
      BY CollectedIs DEF IInv, Batch, Requests
    <3> HIDE DEF F, o
    <3>2. Len(o) \in Nat
      BY <3>1
    <3>3. QED
      BY <2>1, <3>2 DEF o
  <2>3. outcome \in Labels /\ 1 \in Nat /\ 0 \in Nat
    BY DEF Labels
  <2> DEFINE r == Len(data'[q])
  <2> HIDE DEF r
  <2>4. r \in Nat
    BY <2>2 DEF r
  <2>5. IsCall(Call(outcome, 1, r, 0)) /\ Call(outcome, 1, r, 0).pc = outcome
    BY <2>3, <2>4, Called
  <2>6. QED
    BY <2>5 DEF r
<1> HIDE DEF task
<1>9. Tree(calls) /\ Waiting(calls) /\ 1 \in DOMAIN calls
  BY <1>8 DEF Tree, Waiting
<1>10. /\ DOMAIN tasks' = Requests /\ tasks'[q] = calls
       /\ \A p \in Requests \ {q} : tasks'[p] = tasks[p]
  <2> HIDE DEF calls
  <2>1. tasks' = [tasks EXCEPT ![q] = calls]
    BY <1>7 DEF calls, task
  <2>2. QED
    BY <2>1 DEF IInv, Deals
<1> HIDE DEF calls
<1>11. Requests' = Requests /\ num_of_reqs' = num_of_reqs
  BY <1>6 DEF Requests, num_of_reqs
<1>12. Batch'
  BY <1>6, <1>11 DEF IInv, Batch
<1>13. Deals'
  <2>1. /\ deal' \in [Requests -> {"none", "created", "absent", "sorting", "exited"}]
        /\ which' \in [Requests -> Nat]
        /\ DOMAIN data' = Requests /\ DOMAIN out' = Requests
    BY <1>2, <1>3, <1>6 DEF IInv, Deals
  <2>2. /\ deal'[q] = "sorting" /\ which'[q] = q
        /\ \A p \in Requests \ {q} : deal'[p] = deal[p] /\ which'[p] = which[p]
    BY <1>3, <1>6 DEF IInv, Deals
  <2>3. ASSUME NEW p \in Requests
        PROVE  /\ deal'[p] = "none" <=> p > next'
               /\ p <= t' => deal'[p] \in {"none", "exited", "absent"}
               /\ deal'[p] \in {"sorting", "exited"} => which'[p] = p /\ 1 \in DOMAIN tasks'[p]
               /\ deal'[p] \notin {"sorting", "exited"} => DOMAIN tasks'[p] = {}
               /\ deal'[p] = "exited" => Active(p)' = {}
    <3>1. CASE p = q
      <4>1. ~(q > next) /\ ~(q <= t)
        BY <1>2, <1>4
      <4>2. QED
        BY <1>6, <1>9, <1>10, <2>2, <3>1, <4>1
    <3>2. CASE p # q
      <4>1. deal'[p] = deal[p] /\ which'[p] = which[p] /\ tasks'[p] = tasks[p]
        BY <1>10, <2>2, <3>2
      <4>2. Active(p)' = Active(p)
        BY <4>1 DEF Active
      <4>3. QED
        BY <1>6, <4>1, <4>2 DEF IInv, Deals
    <3>3. QED
      BY <3>1, <3>2
  <2>4. QED
    BY <1>10, <1>11, <2>1, <2>3 DEF Deals
<1>14. \A p \in Requests : Tree(tasks'[p]) /\ Waiting(tasks'[p])
  BY <1>9, <1>10 DEF IInv
<1>15. QED
  BY <1>11, <1>12, <1>13, <1>14 DEF IInv

\* When the call of the whole array has returned, no other one is active: a caller
\* that does not wait for a half has none.
LEMMA NobodyIsLeft ==
  ASSUME NEW calls, Tree(calls), Waiting(calls), 1 \in DOMAIN calls, calls[1].pc \notin ActiveLabels
  PROVE  \A n \in DOMAIN calls : calls[n].pc \notin ActiveLabels
<1> DEFINE S == {n \in DOMAIN calls : calls[n].pc \in ActiveLabels}
<1>1. SUFFICES ASSUME S # {} PROVE FALSE
  OBVIOUS
<1>2. S \subseteq Nat
  BY DEF Tree
<1>3. PICK n \in S : \A m \in S : n <= m
  <2> HIDE DEF S
  <2> QED BY <1>1, <1>2, LeastNumber
<1>4. n \in DOMAIN calls \ {1} /\ n \in Nat \ {0} /\ calls[n].pc \in ActiveLabels
  BY <1>3 DEF Tree
<1>5. n \div 2 \in DOMAIN calls /\ calls[n \div 2].pc \in {"left", "wait"}
  BY <1>4 DEF Tree, Waiting
<1>6. n \div 2 \in S
  BY <1>5 DEF ActiveLabels
<1>7. n \div 2 < n /\ n \div 2 \in Nat
  BY <1>4, Halves
<1>8. n <= n \div 2
  <2> HIDE DEF S
  <2> QED BY <1>3, <1>6
<1>9. QED
  BY <1>4, <1>7, <1>8

LEMMA WriteAnswerKeepsInv ==
  ASSUME IInv, NEW q \in Requests, WriteAnswer(q)
  PROVE  IInv'
<1>1. /\ deal[q] = "sorting" /\ SortJoined(which[q]) /\ deal' = [deal EXCEPT ![q] = "exited"]
      /\ DOMAIN out' = DOMAIN out
      /\ UNCHANGED <<build, files, t, next, myreq, which, data, tasks>>
  BY DEF WriteAnswer
<1>2. which[q] = q /\ (At(q, 1, "returned") \/ At(q, 1, "absent"))
  BY <1>1 DEF IInv, Deals, SortJoined
<1>3. Active(q) = {}
  <2>1. 1 \in DOMAIN tasks[q] /\ tasks[q][1].pc \notin ActiveLabels
    BY <1>2 DEF At, ActiveLabels
  <2>2. \A n \in DOMAIN tasks[q] : tasks[q][n].pc \notin ActiveLabels
    <3> DEFINE calls == tasks[q]
    <3>1. Tree(calls) /\ Waiting(calls) /\ 1 \in DOMAIN calls /\ calls[1].pc \notin ActiveLabels
      BY <2>1 DEF IInv
    <3> HIDE DEF calls
    <3>2. \A n \in DOMAIN calls : calls[n].pc \notin ActiveLabels
      BY <3>1, NobodyIsLeft
    <3>3. QED
      BY <3>2 DEF calls
  <2>3. QED
    BY <2>2 DEF Active, ActiveLabels
<1>4. Requests' = Requests /\ num_of_reqs' = num_of_reqs
  BY <1>1 DEF Requests, num_of_reqs
<1>5. Batch'
  BY <1>1, <1>4 DEF IInv, Batch
<1>6. Deals'
  <2>1. \A p \in Requests : Active(p)' = Active(p)
    BY <1>1 DEF Active
  <2>2. /\ deal' \in [Requests -> {"none", "created", "absent", "sorting", "exited"}]
        /\ deal'[q] = "exited" /\ \A p \in Requests \ {q} : deal'[p] = deal[p]
    BY <1>1 DEF IInv, Deals
  <2>3. DOMAIN out' = Requests /\ DOMAIN tasks' = Requests /\ DOMAIN data' = Requests
    BY <1>1 DEF IInv, Deals
  <2>4. ASSUME NEW p \in Requests
        PROVE  /\ deal'[p] = "none" <=> p > next'
               /\ p <= t' => deal'[p] \in {"none", "exited", "absent"}
               /\ deal'[p] \in {"sorting", "exited"} => which'[p] = p /\ 1 \in DOMAIN tasks'[p]
               /\ deal'[p] \notin {"sorting", "exited"} => DOMAIN tasks'[p] = {}
               /\ deal'[p] = "exited" => Active(p)' = {}
    <3>1. CASE p = q
      BY <1>1, <1>2, <1>3, <2>1, <2>2, <3>1 DEF IInv, Deals
    <3>2. CASE p # q
      BY <1>1, <2>1, <2>2, <3>2 DEF IInv, Deals
    <3>3. QED
      BY <3>1, <3>2
  <2>5. QED
    BY <1>1, <1>4, <2>2, <2>3, <2>4 DEF IInv, Deals
<1>7. QED
  BY <1>1, <1>4, <1>5, <1>6 DEF IInv

LEMMA NextKeepsInv == IInv /\ [Next]_vars => IInv'
<1> SUFFICES ASSUME IInv, [Next]_vars PROVE IInv'
  OBVIOUS
<1>1. CASE MainStep
  BY <1>1, CreateKeepsInv, JoinBatchKeepsInv, CrashKeepsInv DEF MainStep, JoinNobody
<1>2. ASSUME NEW q \in Requests, DealStep(q) PROVE IInv'
  BY <1>2, CollectKeepsInv, WriteAnswerKeepsInv, CrashKeepsInv DEF DealStep, SortNobody
<1>3. ASSUME NEW q \in Requests, NEW n \in DOMAIN tasks[q], TaskStep(q, n) PROVE IInv'
  <2>1. CASE ReturnEmpty(q, n)
    BY <2>1, ReturnEmptyKeepsInv
  <2>2. CASE SortPart(q, n)
    BY <2>2, SortPartKeepsInv
  <2>3. CASE Split(q, n)
    BY <2>3, SplitCalls, GrowingKeepsInv DEF Split
  <2>4. CASE CallLeft(q, n)
    BY <2>4, CallLeftCalls, GrowingKeepsInv DEF CallLeft
  <2>5. CASE CallRight(q, n)
    BY <2>5, CallRightCalls, GrowingKeepsInv DEF CallRight
  <2>6. CASE MergeHalves(q, n)
    BY <2>6, MergeHalvesKeepsInv
  <2>7. CASE JoinUnset(q, n)
    BY <2>7, CrashKeepsInv DEF JoinUnset
  <2>8. CASE Write(q, n)
    BY <2>8, WriteKeepsInv
  <2>9. QED
    BY <1>3, <2>1, <2>2, <2>3, <2>4, <2>5, <2>6, <2>7, <2>8 DEF TaskStep
<1>4. CASE UNCHANGED vars
  <2>1. Requests' = Requests /\ num_of_reqs' = num_of_reqs
    BY <1>4 DEF vars, Requests, num_of_reqs
  <2>2. QED
    BY <1>4, <2>1 DEF vars, IInv, Batch, Deals, Active
<1>5. QED
  BY <1>1, <1>2, <1>3, <1>4 DEF Next

\* The inductive invariant holds: the batch, its requests' threads and the tree of
\* each request's calls fit together after every step.
THEOREM Invariance == Spec => []IInv
<1>1. QED
  BY InitInv, NextKeepsInv, PTL DEF Spec

-----------------------------------------------------------------------------
(***************************************************************************)
(* The properties.                                                         *)
(***************************************************************************)
Overlap(a, b) == a.l <= a.r /\ b.l <= b.r /\ a.l <= b.r /\ b.l <= a.r

LEMMA HalfIsInside ==
  ASSUME NEW task, NEW caller, NEW n, IsCall(task), IsCall(caller), IsHalf(task, caller, n)
  PROVE  caller.l <= task.l /\ task.r <= caller.r
<1>1. caller.l \in Nat /\ caller.r \in Nat /\ caller.l <= caller.r
  BY DEF IsCall, IsHalf
<1>2. Mid(caller) \in Nat /\ caller.l <= Mid(caller) + 1 /\ Mid(caller) <= caller.r
  BY <1>1 DEF Mid
<1>3. QED
  BY <1>1, <1>2 DEF IsHalf

\* The two halves of a call.
LEMMA HalvesApart ==
  ASSUME NEW a, NEW b, NEW caller, NEW n \in Nat \ {0}, NEW m \in Nat \ {0}, IsCall(caller),
         IsHalf(a, caller, n), IsHalf(b, caller, m), n < m, n \div 2 = m \div 2
  PROVE  ~Overlap(a, b)
<1>1. n = 2 * (n \div 2) /\ m # 2 * (m \div 2)
  <2> DEFINE h == n \div 2
  <2>1. (n = 2 * h \/ n = 2 * h + 1) /\ (m = 2 * h \/ m = 2 * h + 1) /\ h \in Nat
    BY Halves
  <2>2. m \div 2 = h
    OBVIOUS
  <2> HIDE DEF h
  <2>3. n = 2 * h /\ m # 2 * h
    BY <2>1
  <2>4. QED
    BY <2>2, <2>3 DEF h
<1>2. a.r = Mid(caller) /\ b.l = Mid(caller) + 1
  BY <1>1 DEF IsHalf
<1>3. Mid(caller) \in Int
  BY DEF Mid, IsCall
<1>4. QED
  BY <1>2, <1>3 DEF Overlap

\* A call's part is inside those of its callers and has nothing in common with any
\* other one: of two parts that overlap, the greater one is called inside the other.
LEMMA Nested ==
  ASSUME NEW calls, Tree(calls), NEW n \in DOMAIN calls, NEW m \in DOMAIN calls, n < m,
         Overlap(calls[n], calls[m])
  PROVE  n <= m \div 2
<1> DEFINE Crosses(j, k) == j < k /\ Overlap(calls[j], calls[k]) /\ ~(j <= k \div 2)
           S == {k \in DOMAIN calls : \E j \in DOMAIN calls : Crosses(j, k)}
<1>1. SUFFICES ASSUME S # {} PROVE FALSE
  OBVIOUS
<1>2. DOMAIN calls \subseteq Nat \ {0}
  BY DEF Tree
<1>3. PICK k \in S : \A i \in S : k <= i
  <2>1. S \subseteq Nat
    BY <1>2
  <2> HIDE DEF S
  <2>2. QED
    BY <1>1, <2>1, LeastNumber
<1>4. PICK j \in DOMAIN calls : Crosses(j, k)
  BY <1>3
<1> DEFINE p == k \div 2
           h == j \div 2
<1>5. k \in DOMAIN calls /\ k \in Nat \ {0} /\ j \in Nat \ {0} /\ j < k
  BY <1>2, <1>3, <1>4
<1>6. p \in Nat /\ p < j /\ h \in Nat /\ h <= p /\ h < j /\ p # 0
  BY <1>4, <1>5
<1>7. j # 1 /\ k # 1
  BY <1>5, <1>6
<1>8. /\ p \in DOMAIN calls /\ IsHalf(calls[k], calls[p], k)
      /\ h \in DOMAIN calls /\ IsHalf(calls[j], calls[h], j)
  BY <1>5, <1>7 DEF Tree
<1>9. \A i \in {j, k, p, h} : IsCall(calls[i])
  BY <1>5, <1>8 DEF Tree
<1> HIDE DEF p, h
<1>10. Overlap(calls[p], calls[j])
  <2>1. calls[p].l <= calls[k].l /\ calls[k].r <= calls[p].r
    BY <1>8, <1>9, HalfIsInside
  <2>2. Overlap(calls[j], calls[k])
    BY <1>4
  <2>3. \A i \in {j, k, p} : calls[i].l \in Nat /\ calls[i].r \in Nat
    BY <1>9 DEF IsCall
  <2>4. QED
    BY <2>1, <2>2, <2>3 DEF Overlap
<1>11. CASE h = p
  <2>1. j \div 2 = k \div 2
    BY <1>11 DEF h, p
  <2>2. ~Overlap(calls[j], calls[k])
    <3>1. IsHalf(calls[j], calls[p], j)
      BY <1>8, <1>11
    <3>2. QED
      BY <1>5, <1>8, <1>9, <2>1, <3>1, HalvesApart
  <2>3. QED
    BY <1>4, <2>2
<1>12. CASE h < p
  <2>1. Crosses(p, j)
    <3>1. ~(p <= j \div 2)
      BY <1>6, <1>12 DEF h
    <3>2. QED
      BY <1>6, <1>10, <3>1
  <2>2. j \in S
    <3> HIDE DEF Crosses
    <3> QED BY <1>8, <2>1
  <2>3. k <= j
    <3> HIDE DEF S
    <3> QED BY <1>3, <2>2
  <2>4. QED
    BY <1>5, <2>3
<1>13. QED
  BY <1>6, <1>11, <1>12

\* No active call is inside one that is sorting, or that has merged its halves.
LEMMA NobodyInside ==
  ASSUME NEW calls, Tree(calls), Waiting(calls), NEW n \in DOMAIN calls, NEW m \in DOMAIN calls,
         calls[n].pc \in {"called", "write"}, calls[m].pc \in ActiveLabels, n < m
  PROVE  ~Overlap(calls[n], calls[m])
<1> DEFINE S == {k \in DOMAIN calls : n < k /\ calls[k].pc \in ActiveLabels
                                            /\ Overlap(calls[n], calls[k])}
<1>1. SUFFICES ASSUME S # {} PROVE FALSE
  OBVIOUS
<1>2. DOMAIN calls \subseteq Nat \ {0}
  BY DEF Tree
<1>3. PICK k \in S : \A i \in S : k <= i
  <2>1. S \subseteq Nat
    BY <1>2
  <2> HIDE DEF S
  <2>2. QED
    BY <1>1, <2>1, LeastNumber
<1> DEFINE p == k \div 2
<1>4. /\ k \in DOMAIN calls /\ k \in Nat \ {0} /\ n \in Nat \ {0} /\ n < k
      /\ calls[k].pc \in ActiveLabels /\ Overlap(calls[n], calls[k])
  BY <1>2, <1>3
<1>5. n <= p
  BY <1>4, Nested
<1>6. k # 1 /\ p < k /\ p \in Nat
  BY <1>4
<1>7. /\ p \in DOMAIN calls /\ IsHalf(calls[k], calls[p], k) /\ calls[p].pc \in {"left", "wait"}
  BY <1>4, <1>6 DEF Tree, Waiting
<1> HIDE DEF p
<1>8. n # p
  BY <1>7
<1>9. Overlap(calls[n], calls[p])
  <2>1. IsCall(calls[n]) /\ IsCall(calls[k]) /\ IsCall(calls[p])
    BY <1>4, <1>7 DEF Tree
  <2>2. calls[p].l <= calls[k].l /\ calls[k].r <= calls[p].r
    BY <1>7, <2>1, HalfIsInside
  <2>3. /\ calls[n].l \in Nat /\ calls[n].r \in Nat /\ calls[k].l \in Nat /\ calls[k].r \in Nat
        /\ calls[p].l \in Nat /\ calls[p].r \in Nat
    BY <2>1 DEF IsCall
  <2>4. QED
    BY <1>4, <2>2, <2>3 DEF Overlap
<1>10. p \in S
  BY <1>4, <1>5, <1>6, <1>7, <1>8, <1>9 DEF ActiveLabels
<1>11. k <= p
  <2> HIDE DEF S
  <2> QED BY <1>3, <1>10
<1>12. QED
  BY <1>4, <1>6, <1>11

LEMMA InvImpliesNoRace == IInv => NoRace
<1> SUFFICES ASSUME IInv, NEW q \in Requests, NEW n \in Active(q), NEW m \in Active(q), n # m,
                    tasks[q][n].pc \in {"called", "write"}, tasks[q][m].pc \in {"called", "write"},
                    NEW i \in tasks[q][n].l .. tasks[q][n].r, i \in tasks[q][m].l .. tasks[q][m].r
             PROVE  FALSE
  BY DEF NoRace
<1> DEFINE calls == tasks[q]
<1>1. /\ Tree(calls) /\ Waiting(calls) /\ n \in DOMAIN calls /\ m \in DOMAIN calls
      /\ calls[n].pc \in {"called", "write"} /\ calls[m].pc \in {"called", "write"}
      /\ i \in calls[n].l .. calls[n].r /\ i \in calls[m].l .. calls[m].r
  BY DEF IInv, Active
<1> HIDE DEF calls
<1>2. n \in Nat /\ m \in Nat /\ IsCall(calls[n]) /\ IsCall(calls[m])
  BY <1>1 DEF Tree
<1>3. Overlap(calls[n], calls[m]) /\ Overlap(calls[m], calls[n])
  BY <1>1, <1>2 DEF Overlap, IsCall
<1>4. calls[n].pc \in ActiveLabels /\ calls[m].pc \in ActiveLabels
  BY <1>1 DEF ActiveLabels
<1>5. n < m \/ m < n
  BY <1>2
<1>6. QED
  BY <1>1, <1>3, <1>4, <1>5, NobodyInside

LEMMA InvImpliesCallerOutlivesCallee == IInv => CallerOutlivesCallee
<1> SUFFICES ASSUME IInv, NEW q \in Requests
             PROVE  /\ \A n \in Active(q) \ {1} : n \div 2 \in Active(q)
                    /\ deal[q] = "exited" => Active(which[q]) = {}
  BY DEF CallerOutlivesCallee
<1>1. ASSUME NEW n \in Active(q) \ {1} PROVE n \div 2 \in Active(q)
  <2>1. n \in DOMAIN tasks[q] \ {1} /\ tasks[q][n].pc \in ActiveLabels
    BY <1>1 DEF Active, ActiveLabels
  <2>2. n \div 2 \in DOMAIN tasks[q] /\ tasks[q][n \div 2].pc \in {"left", "wait"}
    BY <2>1 DEF IInv, Tree, Waiting
  <2>3. QED
    BY <2>2 DEF Active
<1>2. deal[q] = "exited" => Active(which[q]) = {}
  BY DEF IInv, Deals
<1>3. QED
  BY <1>1, <1>2

\* No two calls of mergesort, in whatever threads or processes they run, use the same
\* part of the shared array at the same time.
THEOREM NoDataRace == Spec => []NoRace
<1>1. QED
  BY Invariance, InvImpliesNoRace, PTL

\* A call of mergesort does not return, and deal_request does not exit, before the
\* calls that it has made elsewhere have returned, although a join is left out when a
\* creation fails.
THEOREM CallersOutliveCallees == Spec => []CallerOutlivesCallee
<1>1. QED
  BY Invariance, InvImpliesCallerOutlivesCallee, PTL

-----------------------------------------------------------------------------
(***************************************************************************)
(* What is in the shared array while the calls go on.                      *)
(***************************************************************************)
Done == {"returned", "joined"}

\* What is not in the part of a call that has returned is as it was collected.
Untouched(s, o, calls) ==
  \A k \in 1 .. Len(o) :
    s[k] = o[k] \/ \E n \in DOMAIN calls : calls[n].pc \in Done /\ k \in calls[n].l .. calls[n].r

\* Something in a call's part could not be created.
Cut(calls, n) ==
  \E m \in DOMAIN calls : /\ calls[m].pc = "absent" /\ calls[n].l <= calls[m].l
                          /\ calls[m].l <= calls[m].r /\ calls[m].r <= calls[n].r

\* x is what a call is to make of its part.
Holds(x, o, calls, n) ==
  /\ x \in [1 .. calls[n].r - calls[n].l + 1 -> Items]
  /\ Lists(x, o, calls[n].l, calls[n].r)
  /\ ~Cut(calls, n) => InOrder(x) /\ \A k \in DOMAIN x : x[k].secret = 1

\* Its caller, if it has one, still relies on it.
Relevant(calls, n) == n = 1 \/ calls[n \div 2].pc \in ActiveLabels

CallData(s, o, calls, n) ==
  /\ calls[n].pc = "write" => Holds(calls[n].temp, o, calls, n)
  /\ calls[n].pc # "write" => calls[n].temp = <<>>
  /\ calls[n].pc \in Done /\ Relevant(calls, n)
       => Holds(SubSeq(s, calls[n].l, calls[n].r), o, calls, n)

SortData(s, o, calls) ==
  /\ o \in Seq(Fresh) /\ s \in [1 .. Len(o) -> Items]
  /\ 1 \in DOMAIN calls /\ calls[1].l = 1 /\ calls[1].r = Len(o)
  /\ Untouched(s, o, calls)
  /\ \A n \in DOMAIN calls : CallData(s, o, calls, n)

IsPiece(x, s, l, r, S) ==
  /\ x \in [1 .. r - l + 1 -> S]
  /\ \A k \in 1 .. r - l + 1 : x[k] = s[l + k - 1]

LEMMA PieceIsUnique ==
  ASSUME NEW S, NEW s, NEW l, NEW r, NEW x, NEW y, IsPiece(x, s, l, r, S), IsPiece(y, s, l, r, S)
  PROVE  x = y
<1> DEFINE D == 1 .. r - l + 1
<1>1. x \in [D -> S] /\ y \in [D -> S] /\ \A k \in D : x[k] = y[k]
  BY DEF IsPiece
<1> HIDE DEF D
<1>2. QED
  BY <1>1

LEMMA SubSeqIs ==
  ASSUME NEW S, NEW n \in Nat, NEW s \in [1 .. n -> S], NEW l \in Nat \ {0}, NEW r \in Nat,
         l <= r + 1, r <= n
  PROVE  IsPiece(SubSeq(s, l, r), s, l, r, S)
<1> DEFINE x == SubSeq(s, l, r)
<1>1. \A i \in l .. r : s[i] \in S
  OBVIOUS
<1>2. /\ x \in Seq(S) /\ Len(x) = IF l <= r THEN r - l + 1 ELSE 0
      /\ \A k \in 1 .. r - l + 1 : x[k] = s[l + k - 1]
  BY <1>1, SubSeqProperties
<1> HIDE DEF x
<1>3. Len(x) = r - l + 1
  BY <1>2
<1>4. x \in [1 .. r - l + 1 -> S]
  BY <1>2, <1>3
<1>5. QED
  BY <1>2, <1>4 DEF x, IsPiece

\* Every part is inside the first one.
LEMMA Inside ==
  ASSUME NEW calls, Tree(calls), 1 \in DOMAIN calls, calls[1].l = 1, NEW n \in DOMAIN calls
  PROVE  /\ calls[n].l \in Nat /\ calls[n].r \in Nat
         /\ 1 <= calls[n].l /\ calls[n].l <= calls[n].r + 1 /\ calls[n].r <= calls[1].r
<1> DEFINE Outside(k) == ~(1 <= calls[k].l /\ calls[k].l <= calls[k].r + 1 /\ calls[k].r <= calls[1].r)
           S == {k \in DOMAIN calls : Outside(k)}
<1>1. \A k \in DOMAIN calls : k \in Nat \ {0} /\ calls[k].l \in Nat /\ calls[k].r \in Nat
  BY DEF Tree, IsCall
<1>2. ASSUME S # {} PROVE FALSE
  <2>1. PICK k \in S : \A i \in S : k <= i
    <3>1. S \subseteq Nat
      BY <1>1
    <3> HIDE DEF S
    <3>2. QED
      BY <1>2, <3>1, LeastNumber
  <2> DEFINE p == k \div 2
  <2>2. k \in DOMAIN calls /\ k \in Nat \ {0} /\ Outside(k)
    BY <1>1, <2>1
  <2>3. k # 1
    BY <1>1, <2>2
  <2>4. p \in DOMAIN calls /\ IsHalf(calls[k], calls[p], k) /\ p < k
    <3>1. p < k
      BY <2>2
    <3>2. QED
      BY <2>2, <2>3, <3>1 DEF Tree
  <2>5. ~Outside(p)
    <3> HIDE DEF Outside, p
    <3>1. p \in S => k <= p
      BY <2>1
    <3>2. p \in Nat /\ k \in Nat
      BY <1>1, <2>2, <2>4
    <3>3. p \notin S
      BY <2>4, <3>1, <3>2
    <3>4. QED
      BY <2>4, <3>3
  <2> DEFINE mid == Mid(calls[p])
  <2>6. /\ calls[p].l <= calls[p].r /\ mid \in Nat /\ calls[p].l <= mid /\ mid <= calls[p].r
        /\ \/ calls[k].l = calls[p].l /\ calls[k].r = mid
           \/ calls[k].l = mid + 1 /\ calls[k].r = calls[p].r
    <3>1. calls[p].l \in Nat /\ calls[p].r \in Nat /\ calls[p].l <= calls[p].r
      BY <1>1, <2>4 DEF IsHalf
    <3>2. mid \in Nat /\ calls[p].l <= mid /\ mid <= calls[p].r
      <4> HIDE DEF p
      <4> QED BY <3>1 DEF Mid
    <3>3. QED
      BY <2>4, <3>1, <3>2 DEF IsHalf
  <2> HIDE DEF mid
  <2>7. QED
    <3>1. /\ calls[p].l \in Nat /\ calls[p].r \in Nat /\ calls[k].l \in Nat /\ calls[k].r \in Nat
          /\ calls[1].r \in Nat
      BY <1>1, <2>2, <2>4
    <3>2. 1 <= calls[p].l /\ calls[p].r <= calls[1].r
      BY <2>5
    <3>3. ~Outside(k)
      <4> HIDE DEF p
      <4> QED BY <2>6, <3>1, <3>2
    <3>4. QED
      BY <2>2, <3>3
<1>3. QED
  BY <1>1, <1>2

\* A caller is active for as long as a call inside its part is.
LEMMA CallersAreActive ==
  ASSUME NEW calls, Tree(calls), Waiting(calls), NEW m \in DOMAIN calls, NEW n \in DOMAIN calls,
         m < n, Overlap(calls[m], calls[n]), calls[n].pc \in ActiveLabels
  PROVE  calls[m].pc \in ActiveLabels
<1> DEFINE S == {k \in DOMAIN calls : m < k /\ calls[k].pc \in ActiveLabels
                                            /\ Overlap(calls[m], calls[k])}
<1>1. SUFFICES ASSUME calls[m].pc \notin ActiveLabels PROVE FALSE
  OBVIOUS
<1>2. DOMAIN calls \subseteq Nat \ {0}
  BY DEF Tree
<1>3. PICK k \in S : \A i \in S : k <= i
  <2>1. S \subseteq Nat /\ n \in S
    BY <1>2
  <2> HIDE DEF S
  <2>2. QED
    BY <2>1, LeastNumber
<1> DEFINE p == k \div 2
<1>4. /\ k \in DOMAIN calls /\ k \in Nat \ {0} /\ m \in Nat \ {0} /\ m < k
      /\ calls[k].pc \in ActiveLabels /\ Overlap(calls[m], calls[k])
  BY <1>2, <1>3
<1>5. m <= p
  BY <1>4, Nested
<1>6. k # 1 /\ p < k /\ p \in Nat
  BY <1>4
<1>7. /\ p \in DOMAIN calls /\ IsHalf(calls[k], calls[p], k) /\ calls[p].pc \in ActiveLabels
  BY <1>4, <1>6 DEF Tree, Waiting, ActiveLabels
<1> HIDE DEF p
<1>8. m # p
  BY <1>1, <1>7
<1>9. Overlap(calls[m], calls[p])
  <2>1. IsCall(calls[m]) /\ IsCall(calls[k]) /\ IsCall(calls[p])
    BY <1>4, <1>7 DEF Tree
  <2>2. calls[p].l <= calls[k].l /\ calls[k].r <= calls[p].r
    BY <1>7, <2>1, HalfIsInside
  <2>3. /\ calls[m].l \in Nat /\ calls[m].r \in Nat /\ calls[k].l \in Nat /\ calls[k].r \in Nat
        /\ calls[p].l \in Nat /\ calls[p].r \in Nat
    BY <2>1 DEF IsCall
  <2>4. QED
    BY <1>4, <2>2, <2>3 DEF Overlap
<1>10. p \in S
  BY <1>4, <1>5, <1>6, <1>7, <1>8, <1>9
<1>11. k <= p
  <2> HIDE DEF S
  <2> QED BY <1>3, <1>10
<1>12. QED
  BY <1>4, <1>6, <1>11

\* Nothing has been called inside a call that has called nothing.
LEMMA NothingIsInside ==
  ASSUME NEW calls, Tree(calls), NEW n \in DOMAIN calls, NEW m \in DOMAIN calls, n < m,
         2 * n \notin DOMAIN calls, 2 * n + 1 \notin DOMAIN calls
  PROVE  ~Overlap(calls[n], calls[m])
<1> DEFINE S == {k \in DOMAIN calls : n < k /\ Overlap(calls[n], calls[k])}
<1>1. SUFFICES ASSUME S # {} PROVE FALSE
  OBVIOUS
<1>2. DOMAIN calls \subseteq Nat \ {0}
  BY DEF Tree
<1>3. PICK k \in S : \A i \in S : k <= i
  <2>1. S \subseteq Nat
    BY <1>2
  <2> HIDE DEF S
  <2>2. QED
    BY <1>1, <2>1, LeastNumber
<1> DEFINE p == k \div 2
<1>4. /\ k \in DOMAIN calls /\ k \in Nat \ {0} /\ n \in Nat \ {0} /\ n < k
      /\ Overlap(calls[n], calls[k])
  BY <1>2, <1>3
<1>5. n <= p
  BY <1>4, Nested
<1>6. k # 1 /\ p < k /\ p \in Nat /\ (k = 2 * p \/ k = 2 * p + 1)
  BY <1>4
<1>7. p \in DOMAIN calls /\ IsHalf(calls[k], calls[p], k)
  BY <1>4, <1>6 DEF Tree
<1> HIDE DEF p
<1>8. n # p
  BY <1>4, <1>6
<1>9. Overlap(calls[n], calls[p])
  <2>1. IsCall(calls[n]) /\ IsCall(calls[k]) /\ IsCall(calls[p])
    BY <1>4, <1>7 DEF Tree
  <2>2. calls[p].l <= calls[k].l /\ calls[k].r <= calls[p].r
    BY <1>7, <2>1, HalfIsInside
  <2>3. /\ calls[n].l \in Nat /\ calls[n].r \in Nat /\ calls[k].l \in Nat /\ calls[k].r \in Nat
        /\ calls[p].l \in Nat /\ calls[p].r \in Nat
    BY <2>1 DEF IsCall
  <2>4. QED
    BY <1>4, <2>2, <2>3 DEF Overlap
<1>10. p \in S
  BY <1>4, <1>5, <1>6, <1>7, <1>8, <1>9
<1>11. k <= p
  <2> HIDE DEF S
  <2> QED BY <1>3, <1>10
<1>12. QED
  BY <1>4, <1>6, <1>11

\* A part is as it was collected until its call goes on.
LEMMA PartIsFresh ==
  ASSUME NEW s, NEW o, NEW calls, Tree(calls), Waiting(calls), SortData(s, o, calls),
         NEW n \in DOMAIN calls,
         calls[n].pc = "called" \/ (calls[n].pc = "absent" /\ Relevant(calls, n))
  PROVE  /\ SubSeq(s, calls[n].l, calls[n].r) \in [1 .. calls[n].r - calls[n].l + 1 -> Items]
         /\ Lists(SubSeq(s, calls[n].l, calls[n].r), o, calls[n].l, calls[n].r)
         /\ \A k \in 1 .. calls[n].r - calls[n].l + 1 :
              SubSeq(s, calls[n].l, calls[n].r)[k].secret = 0
<1> DEFINE l == calls[n].l
           r == calls[n].r
           x == SubSeq(s, l, r)
<1>1. /\ l \in Nat \ {0} /\ r \in Nat /\ l <= r + 1 /\ r <= Len(o) /\ Len(o) \in Nat
      /\ s \in [1 .. Len(o) -> Items]
  BY Inside DEF SortData
<1>2. ASSUME NEW k \in l .. r PROVE s[k] = o[k]
  <2>1. SUFFICES ASSUME NEW m \in DOMAIN calls, calls[m].pc \in Done, k \in calls[m].l .. calls[m].r
                 PROVE  FALSE
    BY <1>1, <1>2 DEF SortData, Untouched
  <2>2. /\ n \in Nat \ {0} /\ m \in Nat \ {0} /\ n # m
        /\ IsCall(calls[n]) /\ IsCall(calls[m])
    BY <2>1 DEF Tree, Done
  <2>3. Overlap(calls[n], calls[m]) /\ Overlap(calls[m], calls[n])
    BY <1>2, <2>1, <2>2 DEF Overlap, IsCall
  <2>4. CASE n < m
    <3>1. 2 * n \notin DOMAIN calls /\ 2 * n + 1 \notin DOMAIN calls
      BY DEF Waiting
    <3>2. QED
      BY <2>3, <2>4, <3>1, NothingIsInside
  <2>5. CASE m < n
    <3>1. calls[m].pc \notin ActiveLabels
      BY <2>1 DEF Done, ActiveLabels
    <3>2. CASE calls[n].pc = "called"
      BY <2>3, <2>5, <3>1, <3>2, CallersAreActive DEF ActiveLabels
    <3>3. CASE calls[n].pc = "absent" /\ Relevant(calls, n)
      <4> DEFINE p == n \div 2
      <4>1. n # 1 /\ calls[p].pc \in ActiveLabels
        BY <2>2, <2>5, <3>3 DEF Relevant
      <4>2. p \in DOMAIN calls /\ IsHalf(calls[n], calls[p], n)
        BY <4>1 DEF Tree
      <4>3. m <= p /\ p \in Nat
        BY <2>2, <2>3, <2>5, Nested
      <4> HIDE DEF p
      <4>4. m # p
        BY <3>1, <4>1
      <4>5. Overlap(calls[m], calls[p])
        <5>1. IsCall(calls[p])
          BY <4>2 DEF Tree
        <5>2. calls[p].l <= calls[n].l /\ calls[n].r <= calls[p].r
          BY <2>2, <4>2, <5>1, HalfIsInside
        <5>3. QED
          BY <2>2, <2>3, <5>1, <5>2 DEF Overlap, IsCall
      <4>6. QED
        BY <2>2, <3>1, <4>1, <4>2, <4>3, <4>4, <4>5, CallersAreActive
    <3>4. QED
      BY <3>2, <3>3
  <2>6. QED
    BY <2>2, <2>4, <2>5
<1> HIDE DEF l, r
<1>3. /\ x \in [1 .. r - l + 1 -> Items]
      /\ \A k \in 1 .. r - l + 1 : x[k] = s[l + k - 1]
  <2> DEFINE len == Len(o)
  <2>1. len \in Nat /\ s \in [1 .. len -> Items] /\ l \in Nat \ {0} /\ r \in Nat /\ l <= r + 1 /\ r <= len
    BY <1>1
  <2> HIDE DEF len
  <2>2. QED
    <3>1. IsPiece(x, s, l, r, Items)
      BY <2>1, SubSeqIs
    <3> HIDE DEF x
    <3>2. QED
      BY <3>1 DEF IsPiece
<1> HIDE DEF x
<1>4. \A k \in 1 .. r - l + 1 : x[k] = o[l + k - 1]
  <2> SUFFICES ASSUME NEW k \in 1 .. r - l + 1 PROVE x[k] = o[l + k - 1]
    OBVIOUS
  <2>1. l + k - 1 \in l .. r
    BY <1>1
  <2>2. QED
    BY <1>2, <1>3, <2>1
<1>5. Len(x) = r - l + 1
  BY <1>1, <1>3
<1>6. Lists(x, o, l, r)
  BY <1>1, <1>4, <1>5, ListsItself
<1>7. \A k \in 1 .. r - l + 1 : x[k].secret = 0
  <2> SUFFICES ASSUME NEW k \in 1 .. r - l + 1 PROVE x[k].secret = 0
    OBVIOUS
  <2>1. l + k - 1 \in 1 .. Len(o)
    BY <1>1
  <2>2. o[l + k - 1] \in Fresh
    BY <2>1 DEF SortData
  <2>3. QED
    BY <1>4, <2>2 DEF Fresh
<1>8. QED
  BY <1>3, <1>6, <1>7 DEF l, r, x

\* Calls go on without writing to the array; who has returned does not come back.
GoesOn(calls, new) ==
  /\ DOMAIN calls \subseteq DOMAIN new
  /\ \A n \in DOMAIN calls :
       /\ new[n].l = calls[n].l /\ new[n].r = calls[n].r
       /\ calls[n].pc \in Done => new[n].pc \in Done
       /\ calls[n].pc = "absent" => new[n].pc = "absent"

LEMMA HoldsStill ==
  ASSUME NEW x, NEW o, NEW calls, NEW new, GoesOn(calls, new), NEW n \in DOMAIN calls,
         Holds(x, o, calls, n)
  PROVE  Holds(x, o, new, n)
<1>1. Cut(calls, n) => Cut(new, n)
  BY DEF Cut, GoesOn
<1>2. new[n].l = calls[n].l /\ new[n].r = calls[n].r
  BY DEF GoesOn
<1>3. QED
  BY <1>1, <1>2 DEF Holds

LEMMA StillRelevant ==
  ASSUME NEW calls, NEW new, Tree(calls), GoesOn(calls, new),
         NEW n \in DOMAIN calls, Relevant(new, n)
  PROVE  Relevant(calls, n)
<1>1. SUFFICES ASSUME n # 1 PROVE calls[n \div 2].pc \in ActiveLabels
  BY DEF Relevant
<1>2. n \div 2 \in DOMAIN calls /\ IsCall(calls[n \div 2])
  BY <1>1 DEF Tree
<1>3. new[n \div 2].pc \in ActiveLabels
  BY <1>1 DEF Relevant
<1>4. calls[n \div 2].pc \notin Done /\ calls[n \div 2].pc # "absent"
  BY <1>2, <1>3 DEF GoesOn, Done, ActiveLabels
<1>5. QED
  BY <1>2, <1>4 DEF IsCall, Labels, ActiveLabels, Done

LEMMA GoingOnKeepsData ==
  ASSUME NEW s, NEW o, NEW calls, NEW new, Tree(calls), SortData(s, o, calls), GoesOn(calls, new),
         \A n \in DOMAIN new :
           \/ CallData(s, o, new, n)
           \/ n \in DOMAIN calls /\ new[n].temp = calls[n].temp
              /\ (new[n].pc = "write" <=> calls[n].pc = "write")
              /\ (new[n].pc \in Done => calls[n].pc \in Done)
  PROVE  SortData(s, o, new)
<1>1. Untouched(s, o, new)
  <2> SUFFICES ASSUME NEW k \in 1 .. Len(o), s[k] # o[k]
               PROVE  \E n \in DOMAIN new : new[n].pc \in Done /\ k \in new[n].l .. new[n].r
    BY DEF Untouched
  <2>1. PICK n \in DOMAIN calls : calls[n].pc \in Done /\ k \in calls[n].l .. calls[n].r
    BY DEF SortData, Untouched
  <2>2. QED
    BY <2>1 DEF GoesOn
<1>2. ASSUME NEW n \in DOMAIN new PROVE CallData(s, o, new, n)
  <2>1. SUFFICES ASSUME n \in DOMAIN calls, new[n].temp = calls[n].temp,
                        new[n].pc = "write" <=> calls[n].pc = "write",
                        new[n].pc \in Done => calls[n].pc \in Done
                 PROVE  CallData(s, o, new, n)
    BY <1>2
  <2>2. CallData(s, o, calls, n)
    BY <2>1 DEF SortData
  <2>3. new[n].pc = "write" => Holds(new[n].temp, o, new, n)
    BY <2>1, <2>2, HoldsStill DEF CallData
  <2>4. new[n].pc # "write" => new[n].temp = <<>>
    BY <2>1, <2>2 DEF CallData
  <2>5. ASSUME new[n].pc \in Done, Relevant(new, n)
        PROVE  Holds(SubSeq(s, new[n].l, new[n].r), o, new, n)
    <3>1. Relevant(calls, n)
      BY <2>1, <2>5, StillRelevant
    <3>2. Holds(SubSeq(s, calls[n].l, calls[n].r), o, calls, n)
      BY <2>1, <2>2, <2>5, <3>1 DEF CallData
    <3>3. new[n].l = calls[n].l /\ new[n].r = calls[n].r
      BY <2>1 DEF GoesOn
    <3>4. QED
      BY <2>1, <3>2, <3>3, HoldsStill
  <2>6. QED
    BY <2>3, <2>4, <2>5 DEF CallData
<1>3. 1 \in DOMAIN new /\ new[1].l = 1 /\ new[1].r = Len(o)
  BY DEF SortData, GoesOn
<1>4. QED
  BY <1>1, <1>2, <1>3 DEF SortData

\* One call writes what it has prepared: it is the only one to use that part.
LEMMA WritingKeepsData ==
  ASSUME NEW s, NEW o, NEW calls, Tree(calls), Waiting(calls), SortData(s, o, calls),
         NEW n \in DOMAIN calls, calls[n].pc = "write",
         NEW new, DOMAIN new = DOMAIN calls, \A m \in DOMAIN calls \ {n} : new[m] = calls[m],
         new[n].pc = "returned", new[n].temp = <<>>,
         new[n].l = calls[n].l, new[n].r = calls[n].r,
         NEW stored, stored = [k \in DOMAIN s |-> IF k \in calls[n].l .. calls[n].r
                                                  THEN calls[n].temp[k - calls[n].l + 1] ELSE s[k]]
  PROVE  SortData(stored, o, new)
<1> DEFINE l == calls[n].l
           r == calls[n].r
           temp == calls[n].temp
<1>1. /\ l \in Nat \ {0} /\ r \in Nat /\ l <= r + 1 /\ r <= Len(o) /\ Len(o) \in Nat
      /\ s \in [1 .. Len(o) -> Items]
  BY Inside DEF SortData
<1>2. Holds(temp, o, calls, n) /\ temp \in [1 .. r - l + 1 -> Items]
  BY DEF SortData, CallData, Holds
<1>3. \A k \in 1 .. Len(o) : stored[k] = IF k \in l .. r THEN temp[k - l + 1] ELSE s[k]
  BY <1>1
<1>4. stored \in [1 .. Len(o) -> Items]
  <2>1. \A k \in l .. r : temp[k - l + 1] \in Items
    <3> SUFFICES ASSUME NEW k \in l .. r PROVE temp[k - l + 1] \in Items
      OBVIOUS
    <3>1. k - l + 1 \in 1 .. r - l + 1
      BY <1>1
    <3> HIDE DEF l, r, temp
    <3>2. QED
      BY <1>2, <3>1
  <2>2. stored = [k \in 1 .. Len(o) |-> stored[k]]
    BY <1>1
  <2>3. \A k \in 1 .. Len(o) : stored[k] \in Items
    BY <1>1, <1>3, <2>1
  <2>4. QED
    BY <2>2, <2>3
<1> HIDE DEF l, r, temp
<1>5. GoesOn(calls, new)
  BY DEF GoesOn, Done
<1>6. Untouched(stored, o, new)
  <2> SUFFICES ASSUME NEW k \in 1 .. Len(o), stored[k] # o[k]
               PROVE  \E m \in DOMAIN new : new[m].pc \in Done /\ k \in new[m].l .. new[m].r
    BY DEF Untouched
  <2>1. CASE k \in l .. r
    BY <2>1 DEF l, r, Done
  <2>2. CASE k \notin l .. r
    <3>1. s[k] # o[k]
      BY <1>3, <2>2
    <3>2. PICK m \in DOMAIN calls : calls[m].pc \in Done /\ k \in calls[m].l .. calls[m].r
      BY <3>1 DEF SortData, Untouched
    <3>3. QED
      BY <1>5, <3>2 DEF GoesOn
  <2>3. QED
    BY <2>1, <2>2
<1>7. SubSeq(stored, l, r) = temp
  <2> DEFINE x == SubSeq(stored, l, r)
             len == Len(o)
  <2>1. IsPiece(x, stored, l, r, Items)
    <3>1. len \in Nat /\ stored \in [1 .. len -> Items] /\ r <= len
      BY <1>1, <1>4
    <3> HIDE DEF len
    <3>2. QED
      BY <1>1, <3>1, SubSeqIs
  <2> HIDE DEF x
  <2>2. ASSUME NEW k \in 1 .. r - l + 1 PROVE temp[k] = stored[l + k - 1]
    <3>1. l + k - 1 \in 1 .. Len(o) /\ l + k - 1 \in l .. r /\ (l + k - 1) - l + 1 = k
      BY <1>1
    <3>2. QED
      BY <1>3, <3>1
  <2>3. IsPiece(temp, stored, l, r, Items)
    BY <1>2, <2>2 DEF IsPiece
  <2>4. x = temp
    BY <2>1, <2>3, PieceIsUnique
  <2>5. QED
    BY <2>4 DEF x
<1>8. CallData(stored, o, new, n)
  <2>1. Holds(temp, o, new, n)
    BY <1>2, <1>5, HoldsStill
  <2>2. new[n].l = l /\ new[n].r = r
    BY DEF l, r
  <2>3. QED
    BY <1>7, <2>1, <2>2 DEF CallData
<1>9. ASSUME NEW m \in DOMAIN calls \ {n} PROVE CallData(stored, o, new, m)
  <2>1. new[m] = calls[m] /\ CallData(s, o, calls, m)
    BY DEF SortData
  <2>2. new[m].pc = "write" => Holds(new[m].temp, o, new, m)
    BY <1>5, <2>1, HoldsStill DEF CallData
  <2>3. new[m].pc # "write" => new[m].temp = <<>>
    BY <2>1 DEF CallData
  <2>4. ASSUME new[m].pc \in Done, Relevant(new, m)
        PROVE  Holds(SubSeq(stored, new[m].l, new[m].r), o, new, m)
    <3> DEFINE a == calls[m].l
               b == calls[m].r
               p == m \div 2
    <3>1. Relevant(calls, m)
      BY <1>5, <2>4, StillRelevant
    <3>2. Holds(SubSeq(s, a, b), o, calls, m)
      BY <2>1, <2>4, <3>1 DEF CallData
    <3>3. /\ a \in Nat \ {0} /\ b \in Nat /\ a <= b + 1 /\ b <= Len(o)
      BY Inside DEF SortData
    <3>4. /\ n \in Nat \ {0} /\ m \in Nat \ {0} /\ n # m
          /\ IsCall(calls[n]) /\ IsCall(calls[m]) /\ calls[m].pc \notin ActiveLabels
      BY <2>1, <2>4 DEF Tree, Done, ActiveLabels
    <3>5. ~Overlap(calls[n], calls[m]) /\ ~Overlap(calls[m], calls[n])
      <4>1. CASE m < n
        <5>1. ~Overlap(calls[m], calls[n])
          BY <3>4, <4>1, CallersAreActive DEF ActiveLabels
        <5>2. QED
          BY <5>1 DEF Overlap
      <4>2. CASE n < m
        <5>1. SUFFICES ASSUME Overlap(calls[n], calls[m]) PROVE FALSE
          BY DEF Overlap
        <5>2. m # 1 /\ calls[p].pc \in ActiveLabels /\ new[p].pc \in ActiveLabels
          BY <2>4, <3>1, <3>4, <4>2 DEF Relevant
        <5>3. p # n
          BY <5>2 DEF ActiveLabels
        <5>4. p \in DOMAIN calls /\ IsHalf(calls[m], calls[p], m)
          BY <5>2 DEF Tree
        <5>5. n <= p /\ p \in Nat
          BY <3>4, <4>2, <5>1, Nested
        <5> HIDE DEF p
        <5>6. Overlap(calls[n], calls[p])
          <6>1. IsCall(calls[p])
            BY <5>4 DEF Tree
          <6>2. calls[p].l <= calls[m].l /\ calls[m].r <= calls[p].r
            BY <3>4, <5>4, <6>1, HalfIsInside
          <6>3. QED
            BY <3>4, <5>1, <6>1, <6>2 DEF Overlap, IsCall
        <5>7. QED
          BY <3>4, <5>2, <5>3, <5>4, <5>5, <5>6, NobodyInside
      <4>3. QED
        BY <3>4, <4>1, <4>2
    <3>6. \A k \in a .. b : stored[k] = s[k]
      <4> SUFFICES ASSUME NEW k \in a .. b PROVE stored[k] = s[k]
        OBVIOUS
      <4>1. k \notin l .. r
        <5>1. ~(l <= r /\ a <= b /\ l <= b /\ a <= r)
          BY <3>5 DEF Overlap, l, r
        <5>2. QED
          BY <1>1, <3>3, <5>1
      <4>2. k \in 1 .. Len(o)
        BY <1>1, <3>3
      <4>3. stored[k] = IF k \in l .. r THEN temp[k - l + 1] ELSE s[k]
        BY <1>3, <4>2, Zenon
      <4>4. QED
        BY <4>1, <4>3, Zenon
    <3> HIDE DEF a, b
    <3>7. SubSeq(stored, a, b) = SubSeq(s, a, b)
      <4> DEFINE x == SubSeq(stored, a, b)
                 y == SubSeq(s, a, b)
                 len == Len(o)
      <4>1. IsPiece(x, stored, a, b, Items) /\ IsPiece(y, s, a, b, Items)
        <5>1. len \in Nat /\ stored \in [1 .. len -> Items] /\ s \in [1 .. len -> Items] /\ b <= len
          BY <1>1, <1>4, <3>3
        <5> HIDE DEF len
        <5>2. QED
          BY <3>3, <5>1, SubSeqIs
      <4> HIDE DEF x, y
      <4>2. ASSUME NEW k \in 1 .. b - a + 1 PROVE stored[a + k - 1] = s[a + k - 1]
        <5>1. a + k - 1 \in a .. b
          BY <3>3
        <5>2. QED
          BY <3>6, <5>1
      <4>3. IsPiece(x, s, a, b, Items)
        BY <4>1, <4>2 DEF IsPiece
      <4>4. x = y
        BY <4>1, <4>3, PieceIsUnique
      <4>5. QED
        BY <4>4 DEF x, y
    <3>8. Holds(SubSeq(s, a, b), o, new, m)
      BY <1>5, <3>2, HoldsStill
    <3>9. new[m].l = a /\ new[m].r = b
      BY <2>1 DEF a, b
    <3>10. QED
      BY <3>7, <3>8, <3>9
  <2>5. QED
    BY <2>2, <2>3, <2>4 DEF CallData
<1>10. 1 \in DOMAIN new /\ new[1].l = 1 /\ new[1].r = Len(o)
  BY <1>5 DEF SortData, GoesOn
<1>11. o \in Seq(Fresh)
  BY DEF SortData
<1>12. \A m \in DOMAIN new : CallData(stored, o, new, m)
  BY <1>8, <1>9
<1>13. QED
  BY <1>4, <1>6, <1>10, <1>11, <1>12 DEF SortData

\* What the part of a half holds when its caller has waited for it.
HalfHolds(x, o, calls, m, n) ==
  /\ x \in [1 .. calls[m].r - calls[m].l + 1 -> Items]
  /\ Lists(x, o, calls[m].l, calls[m].r)
  /\ ~Cut(calls, n) => InOrder(x) /\ \A k \in DOMAIN x : x[k].secret = 1

\* What has returned, or could not be created, holds what it is to hold for as long
\* as its caller relies on it.
LEMMA PartHolds ==
  ASSUME NEW s, NEW o, NEW calls, Tree(calls), Waiting(calls), SortData(s, o, calls),
         NEW n \in DOMAIN calls, calls[n].pc \in Done \union {"absent"}, Relevant(calls, n)
  PROVE  Holds(SubSeq(s, calls[n].l, calls[n].r), o, calls, n)
<1> DEFINE l == calls[n].l
           r == calls[n].r
           x == SubSeq(s, l, r)
<1>1. CASE calls[n].pc \in Done
  BY <1>1 DEF SortData, CallData
<1>2. CASE calls[n].pc = "absent"
  <2>1. x \in [1 .. r - l + 1 -> Items] /\ Lists(x, o, l, r)
    BY <1>2, PartIsFresh
  <2>2. ASSUME ~Cut(calls, n) PROVE DOMAIN x = {}
    <3>1. l \in Nat /\ r \in Nat
      BY DEF Tree, IsCall
    <3>2. ~(l <= r)
      BY <1>2, <2>2, <3>1 DEF Cut
    <3> HIDE DEF l, r, x
    <3>3. QED
      BY <2>1, <3>1, <3>2
  <2> HIDE DEF l, r, x
  <2>3. ~Cut(calls, n) => InOrder(x) /\ \A k \in DOMAIN x : x[k].secret = 1
    BY <2>2 DEF InOrder
  <2>4. Holds(x, o, calls, n)
    BY <2>1, <2>3 DEF Holds, l, r
  <2>5. QED
    BY <2>4 DEF x, l, r
<1>3. QED
  BY <1>1, <1>2

LEMMA HalvesHold ==
  ASSUME NEW s, NEW o, NEW calls, Tree(calls), Waiting(calls), SortData(s, o, calls),
         NEW n \in DOMAIN calls, calls[n].pc = "wait",
         NEW m \in DOMAIN calls \ {1}, m \div 2 = n, calls[m].pc \in Done \union {"absent"}
  PROVE  HalfHolds(SubSeq(s, calls[m].l, calls[m].r), o, calls, m, n)
<1> DEFINE x == SubSeq(s, calls[m].l, calls[m].r)
<1>1. Relevant(calls, m)
  BY DEF Relevant, ActiveLabels
<1>2. \A i \in DOMAIN calls : IsCall(calls[i])
  BY DEF Tree
<1>3. calls[n].l <= calls[m].l /\ calls[m].r <= calls[n].r
  <2>1. IsHalf(calls[m], calls[n], m)
    BY DEF Tree
  <2>2. QED
    BY <1>2, <2>1, HalfIsInside
<1>4. Holds(x, o, calls, m)
  BY <1>1, PartHolds
<1>5. Cut(calls, m) => Cut(calls, n)
  BY <1>2, <1>3 DEF Cut, IsCall
<1>6. QED
  BY <1>4, <1>5 DEF Holds, HalfHolds

LEMMA ItemsAreMovies == Items \subseteq Movies
  BY DEF Items, Movies

\* Two halves that hold what they are to hold are merged into one part that does.
LEMMA MergeIsRight ==
  ASSUME NEW s, NEW o, NEW calls, Tree(calls), Waiting(calls), SortData(s, o, calls),
         NEW n \in DOMAIN calls, calls[n].pc = "wait",
         \A m \in {2 * n, 2 * n + 1} : m \in DOMAIN calls /\ calls[m].pc \in Done \union {"absent"}
  PROVE  Holds(merge(SubSeq(s, calls[n].l, calls[n].r), Mid(calls[n]) - calls[n].l + 1), o, calls, n)
<1> DEFINE l == calls[n].l
           r == calls[n].r
           mid == Mid(calls[n])
           a == mid - l + 1
           len == r - l + 1
           x == SubSeq(s, l, r)
           y == SubSeq(s, l, mid)
           z == SubSeq(s, mid + 1, r)
           sorted == merge(x, a)
<1>1. n \in Nat \ {0} /\ 2 * n \in DOMAIN calls \ {1} /\ 2 * n + 1 \in DOMAIN calls \ {1}
      /\ (2 * n) \div 2 = n /\ (2 * n + 1) \div 2 = n
  <2>1. n \in Nat \ {0}
    BY DEF Tree
  <2>2. QED
    BY <2>1, Halves
<1>2. /\ calls[2 * n].l = l /\ calls[2 * n].r = mid
      /\ calls[2 * n + 1].l = mid + 1 /\ calls[2 * n + 1].r = r /\ l <= r
  <2>1. IsHalf(calls[2 * n], calls[n], 2 * n) /\ IsHalf(calls[2 * n + 1], calls[n], 2 * n + 1)
    BY <1>1 DEF Tree
  <2>2. 2 * n + 1 # 2 * n
    BY <1>1
  <2>3. QED
    BY <1>1, <2>1, <2>2 DEF IsHalf
<1>3. /\ HalfHolds(y, o, calls, 2 * n, n)
      /\ HalfHolds(z, o, calls, 2 * n + 1, n)
  <2>1. HalfHolds(SubSeq(s, calls[2 * n].l, calls[2 * n].r), o, calls, 2 * n, n)
    BY <1>1, HalvesHold
  <2>2. HalfHolds(SubSeq(s, calls[2 * n + 1].l, calls[2 * n + 1].r), o, calls, 2 * n + 1, n)
    BY <1>1, HalvesHold
  <2>3. QED
    BY <1>2, <2>1, <2>2
<1>4. /\ l \in Nat \ {0} /\ r \in Nat /\ l <= r + 1 /\ r <= Len(o) /\ Len(o) \in Nat
      /\ s \in [1 .. Len(o) -> Items]
  BY Inside DEF SortData
<1>5. mid \in Nat /\ l <= mid /\ mid <= r /\ a \in 0 .. len /\ len \in Nat
  <2>1. l \in Nat /\ r \in Nat /\ l <= r
    BY <1>2, <1>4
  <2>2. mid = (l + r) \div 2
    BY DEF Mid
  <2> HIDE DEF l, r, mid
  <2>3. mid \in Nat /\ l <= mid /\ mid <= r
    BY <2>1, <2>2
  <2>4. QED
    BY <2>1, <2>3
<1>6. /\ y \in [1 .. a -> Items] /\ Lists(y, o, l, mid)
      /\ ~Cut(calls, n) => InOrder(y) /\ \A k \in DOMAIN y : y[k].secret = 1
  <2> HIDE DEF y, l, mid
  <2>1. QED
    BY <1>2, <1>3 DEF HalfHolds
<1>7. /\ z \in [1 .. r - mid -> Items] /\ Lists(z, o, mid + 1, r)
      /\ ~Cut(calls, n) => InOrder(z) /\ \A k \in DOMAIN z : z[k].secret = 1
  <2> HIDE DEF z, r, mid
  <2>1. r - (mid + 1) + 1 = r - mid
    BY <1>4, <1>5
  <2>2. QED
    BY <1>2, <1>3, <2>1 DEF HalfHolds
<1> HIDE DEF l, r, mid
<1>8. IsPiece(x, s, l, r, Items) /\ IsPiece(y, s, l, mid, Items) /\ IsPiece(z, s, mid + 1, r, Items)
  <2> DEFINE size == Len(o)
  <2>1. size \in Nat /\ s \in [1 .. size -> Items] /\ r <= size /\ mid <= size /\ l <= mid + 1
        /\ mid + 1 \in Nat \ {0} /\ mid + 1 <= r + 1
    BY <1>4, <1>5
  <2> HIDE DEF size
  <2>2. QED
    BY <1>4, <1>5, <2>1, SubSeqIs
<1> HIDE DEF x, y, z
<1>9. x \in [1 .. len -> Items] /\ \A k \in 1 .. len : x[k] = s[l + k - 1]
  BY <1>8 DEF IsPiece
<1>10. \A k \in 1 .. a : x[k] = y[k]
  <2>1. \A k \in 1 .. a : k \in 1 .. len
    BY <1>4, <1>5
  <2>2. \A k \in 1 .. a : y[k] = s[l + k - 1]
    BY <1>8 DEF IsPiece
  <2> HIDE DEF a, len
  <2>3. QED
    BY <1>9, <2>1, <2>2
<1>11. \A k \in 1 .. r - mid : x[a + k] = z[k]
  <2> SUFFICES ASSUME NEW k \in 1 .. r - mid PROVE x[a + k] = z[k]
    OBVIOUS
  <2>1. a + k \in 1 .. len /\ l + (a + k) - 1 = (mid + 1) + k - 1 /\ k \in 1 .. r - (mid + 1) + 1
    BY <1>4, <1>5
  <2>2. x[a + k] = s[l + (a + k) - 1] /\ z[k] = s[(mid + 1) + k - 1]
    BY <1>8, <1>9, <2>1 DEF IsPiece
  <2>3. QED
    BY <2>1, <2>2
<1> HIDE DEF a, len
<1>12. Len(x) = len /\ Len(y) = a /\ Len(z) = r - mid
  <2> DEFINE b == r - mid
  <2>1. a \in Nat /\ b \in Nat /\ len \in Nat /\ z \in [1 .. b -> Items]
    BY <1>4, <1>5, <1>7
  <2> HIDE DEF b
  <2>2. Len(x) = len /\ Len(y) = a /\ Len(z) = b
    BY <1>6, <1>9, <2>1
  <2>3. QED
    BY <2>2 DEF b
<1>13. Lists(x, o, l, r)
  <2>1. l \in Nat /\ mid \in Nat /\ r \in Nat /\ l <= mid + 1 /\ mid <= r /\ Len(x) = r - l + 1
    BY <1>4, <1>5, <1>12 DEF len
  <2>2. (\A k \in 1 .. Len(y) : x[k] = y[k]) /\ \A k \in 1 .. Len(z) : x[Len(y) + k] = z[k]
    BY <1>10, <1>11, <1>12
  <2>3. QED
    BY <1>6, <1>7, <2>1, <2>2, ListsJoin
<1>14. x \in [1 .. len -> Movies]
  BY <1>9, ItemsAreMovies
<1>15. /\ sorted \in [1 .. len -> Movies] /\ Lists(sorted, o, l, r)
       /\ \A k \in 1 .. len : \E j \in 1 .. len : sorted[k] = x[j]
       /\ HalvesInOrder(x, a) => InOrder(sorted)
  <2>1. l \in Nat /\ r \in Nat
    BY <1>4
  <2>2. IsMerged(sorted, x, a, o, l, r, len)
    BY <1>5, <1>13, <1>14, <2>1, MergesLists
  <2> HIDE DEF sorted
  <2>3. QED
    BY <2>2 DEF IsMerged
<1> HIDE DEF sorted
<1>16. sorted \in [1 .. len -> Items]
  BY <1>9, <1>15
<1>17. ASSUME ~Cut(calls, n) PROVE InOrder(sorted)
  <2>1. ASSUME NEW j \in 1 .. len, NEW k \in 1 .. len, j < k, k <= a \/ a < j
        PROVE  ~Before(x[k], x[j])
    <3>1. CASE k <= a
      <4>1. j \in 1 .. a /\ k \in 1 .. a
        BY <1>5, <2>1, <3>1
      <4>2. DOMAIN y = 1 .. a /\ InOrder(y)
        BY <1>6, <1>17
      <4>3. ~Before(y[k], y[j])
        BY <2>1, <4>1, <4>2 DEF InOrder
      <4>4. QED
        BY <1>10, <4>1, <4>3
    <3>2. CASE a < j
      <4>1. j - a \in 1 .. r - mid /\ k - a \in 1 .. r - mid /\ j - a < k - a
            /\ a + (j - a) = j /\ a + (k - a) = k
        BY <1>4, <1>5, <2>1, <3>2 DEF len, a
      <4>2. DOMAIN z = 1 .. r - mid /\ InOrder(z)
        BY <1>7, <1>17
      <4>3. ~Before(z[k - a], z[j - a])
        BY <4>1, <4>2 DEF InOrder
      <4>4. x[j] = z[j - a] /\ x[k] = z[k - a]
        <5>1. x[a + (j - a)] = z[j - a] /\ x[a + (k - a)] = z[k - a]
          BY <1>11, <4>1
        <5>2. QED
          BY <4>1, <5>1
      <4>5. QED
        BY <4>3, <4>4
    <3>3. QED
      BY <2>1, <3>1, <3>2
  <2>2. HalvesInOrder(x, a)
    BY <1>12, <2>1 DEF HalvesInOrder
  <2>3. QED
    BY <1>15, <2>2
<1>18. ASSUME ~Cut(calls, n), NEW k \in 1 .. len PROVE sorted[k].secret = 1
  <2>1. PICK j \in 1 .. len : sorted[k] = x[j]
    BY <1>15
  <2>2. CASE j \in 1 .. a
    <3>1. x[j] = y[j] /\ j \in DOMAIN y
      BY <1>6, <1>10, <2>2
    <3>2. QED
      BY <1>6, <1>18, <2>1, <3>1
  <2>3. CASE j \notin 1 .. a
    <3>1. j - a \in 1 .. r - mid /\ a + (j - a) = j
      BY <1>4, <1>5, <2>3 DEF len, a
    <3>2. x[j] = z[j - a] /\ j - a \in DOMAIN z
      <4>1. x[a + (j - a)] = z[j - a]
        BY <1>11, <3>1
      <4>2. QED
        BY <1>7, <3>1, <4>1
    <3>3. QED
      BY <1>7, <1>18, <2>1, <3>2
  <2>4. QED
    BY <2>2, <2>3
<1>19. Holds(sorted, o, calls, n)
  <2>1. DOMAIN sorted = 1 .. len
    BY <1>16
  <2>2. ~Cut(calls, n) => InOrder(sorted) /\ \A k \in DOMAIN sorted : sorted[k].secret = 1
    BY <1>17, <1>18, <2>1
  <2>3. QED
    BY <1>15, <1>16, <2>2 DEF Holds, len, l, r
<1>20. QED
  BY <1>19 DEF sorted, x, a, mid, l, r

\* A part that is sorted at once.
LEMMA SortIsRight ==
  ASSUME NEW s, NEW o, NEW calls, Tree(calls), Waiting(calls), SortData(s, o, calls),
         NEW n \in DOMAIN calls, calls[n].pc = "called", calls[n].l <= calls[n].r
  PROVE  Holds(sort(SubSeq(s, calls[n].l, calls[n].r)), o, calls, n)
<1> DEFINE l == calls[n].l
           r == calls[n].r
           len == r - l + 1
           x == SubSeq(s, l, r)
           sorted == sort(x)
<1>1. l \in Nat /\ r \in Nat /\ len \in Nat \ {0}
  BY Inside DEF SortData
<1>2. x \in [1 .. len -> Items] /\ Lists(x, o, l, r) /\ \A k \in 1 .. len : x[k].secret = 0
  BY PartIsFresh
<1> HIDE DEF l, r, len, x
<1>3. x \in [1 .. len -> Movies]
  BY <1>2, ItemsAreMovies
<1>9. IsSortedPart(sorted, o, l, r, len)
  BY <1>1, <1>2, <1>3, SortsLists
<1>4. /\ sorted \in [1 .. len -> Movies] /\ Lists(sorted, o, l, r)
      /\ InOrder(sorted) /\ \A k \in 1 .. len : sorted[k].secret = 1
  <2> HIDE DEF sorted
  <2> QED BY <1>9 DEF IsSortedPart
<1> HIDE DEF sorted
<1>5. sorted \in [1 .. len -> Items]
  <2>1. \A k \in 1 .. len : sorted[k] \in Items
    BY <1>4 DEF Movies, Items
  <2>2. QED
    BY <1>4, <2>1
<1>6. \A k \in DOMAIN sorted : sorted[k].secret = 1
  BY <1>4
<1>7. Holds(sorted, o, calls, n)
  BY <1>4, <1>5, <1>6 DEF Holds, len, l, r
<1>8. QED
  BY <1>7 DEF sorted, x, l, r

\* An empty part holds what it is to hold.
LEMMA EmptyIsRight ==
  ASSUME NEW s, NEW o, NEW calls, Tree(calls), Waiting(calls), SortData(s, o, calls),
         NEW n \in DOMAIN calls, calls[n].pc = "called", calls[n].l > calls[n].r
  PROVE  Holds(SubSeq(s, calls[n].l, calls[n].r), o, calls, n)
<1> DEFINE l == calls[n].l
           r == calls[n].r
           x == SubSeq(s, l, r)
<1>1. l \in Nat /\ r \in Nat /\ l > r
  BY Inside DEF SortData
<1>2. x \in [1 .. r - l + 1 -> Items] /\ Lists(x, o, l, r)
  BY PartIsFresh
<1> HIDE DEF l, r, x
<1>3. DOMAIN x = {}
  BY <1>1, <1>2
<1>4. Holds(x, o, calls, n)
  BY <1>2, <1>3 DEF Holds, InOrder, l, r
<1>5. QED
  BY <1>4 DEF x, l, r

-----------------------------------------------------------------------------
(***************************************************************************)
(* The invariant of the data, and the steps.                               *)
(***************************************************************************)
\* What is in the array of a request, and what has been printed for it.
RequestData(q) ==
  /\ out[q] = {} \/ \E s \in Seq(Items) : out[q] = {s}
  /\ IF deal[q] \in {"sorting", "exited"} THEN SortData(data[q], Collected(files, q), tasks[q])
     ELSE data[q] = <<>> /\ which[q] = 0

DInv ==
  /\ \A i \in 1 .. REQ_THREAD : myreq[i] <= next
  /\ \A q \in Requests : RequestData(q)

\* One sort goes on.
LEMMA SortKeepsData ==
  ASSUME IInv, DInv, NEW w \in Requests, deal[w] = "sorting", NEW calls, Sorts(w, calls),
         \A q \in Requests \ {w} : data'[q] = data[q],
         SortData(data'[w], Collected(files, w), calls)
  PROVE  DInv'
<1>1. Requests' = Requests
  BY DEF Sorts, Requests
<1>2. \A i \in 1 .. REQ_THREAD : myreq'[i] <= next'
  BY DEF DInv, Sorts
<1>3. ASSUME NEW q \in Requests PROVE RequestData(q)'
  <2>1. RequestData(q) /\ deal' = deal /\ which' = which /\ out' = out /\ files' = files
    BY DEF DInv, Sorts
  <2>2. CASE q = w
    <3>1. tasks'[q] = calls
      BY <2>2 DEF Sorts
    <3>2. SortData(data'[q], Collected(files', q), tasks'[q])
      BY <2>1, <2>2, <3>1
    <3>3. QED
      BY <2>1, <2>2, <3>2 DEF RequestData
  <2>3. CASE q # w
    <3>1. tasks'[q] = tasks[q] /\ data'[q] = data[q]
      BY <2>3 DEF Sorts
    <3>2. QED
      BY <2>1, <3>1 DEF RequestData
  <2>4. QED
    BY <2>2, <2>3
<1>4. QED
  BY <1>1, <1>2, <1>3 DEF DInv

\* What the invariants say of a call that takes a step.
LEMMA CallDataAt ==
  ASSUME IInv, DInv, NEW w \in Requests, NEW n, NEW label \in ActiveLabels, At(w, n, label)
  PROVE  /\ deal[w] = "sorting"
         /\ SortData(data[w], Collected(files, w), tasks[w])
<1>1. Active(w) # {} /\ w \in DOMAIN tasks /\ n \in DOMAIN tasks[w]
  BY CallAt
<1>2. deal[w] = "sorting"
  BY <1>1 DEF IInv, Deals
<1>3. QED
  BY <1>2 DEF DInv, RequestData

\* One call goes on, and the array stays as it is.
LEMMA LeafKeepsData ==
  ASSUME IInv, DInv, NEW w \in Requests, NEW n, At(w, n, "called"),
         NEW task, task.pc \in {"write", "returned"},
         task.l = tasks[w][n].l, task.r = tasks[w][n].r,
         Sorts(w, [tasks[w] EXCEPT ![n] = task]), UNCHANGED data,
         \/ task.pc = "write" /\ Holds(task.temp, Collected(files, w), tasks[w], n)
         \/ task.pc = "returned" /\ task.temp = <<>>
            /\ Holds(Part(w, task), Collected(files, w), tasks[w], n)
  PROVE  DInv'
<1> DEFINE calls == tasks[w]
           new == [calls EXCEPT ![n] = task]
           s == data[w]
           o == Collected(files, w)
<1>1. /\ n \in DOMAIN calls /\ Tree(calls) /\ calls[n].pc = "called"
      /\ deal[w] = "sorting" /\ SortData(s, o, calls)
  <2>1. "called" \in ActiveLabels
    BY DEF ActiveLabels
  <2>2. QED
    BY <2>1, CallAt, CallDataAt
<1>2. /\ DOMAIN new = DOMAIN calls /\ new[n] = task
      /\ \A m \in DOMAIN calls \ {n} : new[m] = calls[m]
  BY <1>1
<1>3. /\ task.l = calls[n].l /\ task.r = calls[n].r
      /\ \/ task.pc = "write" /\ Holds(task.temp, o, calls, n)
         \/ task.pc = "returned" /\ task.temp = <<>>
            /\ Holds(SubSeq(s, task.l, task.r), o, calls, n)
  BY DEF Part
<1>4. Sorts(w, new)
  OBVIOUS
<1> HIDE DEF calls, new, o, s
<1>5. GoesOn(calls, new)
  BY <1>1, <1>2, <1>3 DEF GoesOn, Done
<1>6. CallData(s, o, new, n)
  <2>1. \A x : Holds(x, o, calls, n) => Holds(x, o, new, n)
    BY <1>1, <1>5, HoldsStill
  <2>2. QED
    BY <1>2, <1>3, <2>1 DEF CallData, Done
<1>7. SortData(s, o, new)
  <2>1. \A m \in DOMAIN new :
          \/ CallData(s, o, new, m)
          \/ m \in DOMAIN calls /\ new[m].temp = calls[m].temp
             /\ (new[m].pc = "write" <=> calls[m].pc = "write")
             /\ (new[m].pc \in Done => calls[m].pc \in Done)
    BY <1>2, <1>6
  <2>2. QED
    BY <1>1, <1>5, <2>1, GoingOnKeepsData
<1>8. data'[w] = s
  BY DEF s
<1>9. QED
  BY <1>1, <1>4, <1>7, <1>8, SortKeepsData DEF o

LEMMA ReturnEmptyKeepsData ==
  ASSUME IInv, DInv, NEW w \in Requests, NEW n, ReturnEmpty(w, n)
  PROVE  DInv'
<1>1. At(w, n, "called") /\ "called" \in ActiveLabels
  BY DEF ReturnEmpty, ActiveLabels
<1>2. /\ w \in DOMAIN tasks /\ n \in DOMAIN tasks[w] /\ IsCall(tasks[w][n])
      /\ tasks[w][n].pc = "called" /\ Tree(tasks[w]) /\ Waiting(tasks[w])
      /\ SortData(data[w], Collected(files, w), tasks[w])
  BY <1>1, CallAt, CallDataAt
<1> DEFINE task == Relabel(tasks[w][n], "returned")
<1>3. /\ task.pc = "returned" /\ task.l = tasks[w][n].l /\ task.r = tasks[w][n].r
      /\ task.temp = tasks[w][n].temp
  BY <1>2, Relabelled DEF Labels
<1>4. tasks' = [tasks EXCEPT ![w] = [tasks[w] EXCEPT ![n] = task]]
  BY DEF ReturnEmpty, Goto, Relabel
<1> HIDE DEF task
<1>5. Sorts(w, [tasks[w] EXCEPT ![n] = task]) /\ UNCHANGED data
  BY <1>2, <1>4 DEF Sorts, ReturnEmpty, OnlyTasks
<1>6. tasks[w][n].temp = <<>>
  BY <1>2 DEF SortData, CallData
<1>7. Holds(Part(w, task), Collected(files, w), tasks[w], n)
  <2>1. tasks[w][n].l > tasks[w][n].r
    BY DEF ReturnEmpty
  <2>2. Holds(SubSeq(data[w], tasks[w][n].l, tasks[w][n].r), Collected(files, w), tasks[w], n)
    BY <1>2, <2>1, EmptyIsRight
  <2>3. QED
    BY <1>3, <2>2 DEF Part
<1>8. QED
  BY <1>1, <1>3, <1>5, <1>6, <1>7, LeafKeepsData

LEMMA SortPartKeepsData ==
  ASSUME IInv, DInv, NEW w \in Requests, NEW n, SortPart(w, n)
  PROVE  DInv'
<1> DEFINE items == sort(Part(w, tasks[w][n]))
           task == Prepare(tasks[w][n], "write", items)
<1>1. At(w, n, "called") /\ "called" \in ActiveLabels
  BY DEF SortPart, ActiveLabels
<1>2. /\ w \in DOMAIN tasks /\ n \in DOMAIN tasks[w] /\ IsCall(tasks[w][n])
      /\ tasks[w][n].pc = "called" /\ Tree(tasks[w]) /\ Waiting(tasks[w])
      /\ SortData(data[w], Collected(files, w), tasks[w])
  BY <1>1, CallAt, CallDataAt
<1>3. tasks' = PrepareCall(w, n, "write", items)
  BY DEF SortPart, PrepareCall
<1>4. Holds(items, Collected(files, w), tasks[w], n)
  <2>1. tasks[w][n].l <= tasks[w][n].r
    BY DEF SortPart
  <2>2. QED
    BY <1>2, <2>1, SortIsRight DEF Part
<1> HIDE DEF items
<1>5. /\ task.pc = "write" /\ task.l = tasks[w][n].l /\ task.r = tasks[w][n].r /\ task.temp = items
  BY <1>2, Prepared DEF Labels
<1>6. /\ DOMAIN tasks' = DOMAIN tasks /\ \A q \in Requests \ {w} : tasks'[q] = tasks[q]
      /\ tasks'[w] = [tasks[w] EXCEPT ![n] = task]
  BY <1>2, <1>3, Rewritten DEF IInv, Deals
<1> HIDE DEF task
<1>7. Sorts(w, [tasks[w] EXCEPT ![n] = task]) /\ UNCHANGED data
  BY <1>6 DEF Sorts, SortPart, OnlyTasks
<1>8. QED
  BY <1>1, <1>4, <1>5, <1>7, LeafKeepsData

LEMMA GrowingKeepsData ==
  ASSUME IInv, DInv, NEW w \in Requests, NEW n, NEW label \in {"called", "left"}, At(w, n, label),
         NEW label2 \in {"left", "wait"}, CallsHalves(w, n, label2)
  PROVE  DInv'
<1>1. PICK added : /\ NewHalves(added, tasks[w], n) /\ UNCHANGED data
                   /\ Sorts(w, Extended(tasks[w], n, label2, added))
  BY DEF CallsHalves
<1> DEFINE calls == tasks[w]
           new == Extended(calls, n, label2, added)
           s == data[w]
           o == Collected(files, w)
<1>2. /\ n \in DOMAIN calls /\ Tree(calls) /\ IsCall(calls[n]) /\ calls[n].pc = label
      /\ deal[w] = "sorting" /\ SortData(s, o, calls)
  <2>1. label \in ActiveLabels
    BY DEF ActiveLabels
  <2>2. QED
    BY <2>1, CallAt, CallDataAt
<1>3. Sorts(w, new) /\ NewHalves(added, calls, n)
  BY <1>1
<1> HIDE DEF calls, new, o, s
<1>4. IsExtended(new, calls, n, label2, added)
  BY <1>3, WithIs DEF new
<1>5. /\ new[n].pc = label2 /\ new[n].temp = calls[n].temp
      /\ new[n].l = calls[n].l /\ new[n].r = calls[n].r
  BY <1>2, <1>4, Relabelled DEF IsExtended, Labels
<1>6. GoesOn(calls, new)
  BY <1>2, <1>4, <1>5 DEF GoesOn, IsExtended, Done
<1>7. ASSUME NEW m \in DOMAIN new
      PROVE  \/ CallData(s, o, new, m)
             \/ m \in DOMAIN calls /\ new[m].temp = calls[m].temp
                /\ (new[m].pc = "write" <=> calls[m].pc = "write")
                /\ (new[m].pc \in Done => calls[m].pc \in Done)
  <2>1. CASE m = n
    BY <1>2, <1>5, <2>1 DEF Done
  <2>2. CASE m \in DOMAIN calls \ {n}
    BY <1>4, <2>2 DEF IsExtended
  <2>3. CASE m \in DOMAIN added
    <3>1. new[m].pc \in {"called", "absent"} /\ new[m].temp = <<>>
      BY <1>3, <1>4, <2>3 DEF IsExtended, NewHalves
    <3>2. QED
      BY <3>1 DEF CallData, Done
  <2>4. QED
    BY <1>4, <2>1, <2>2, <2>3 DEF IsExtended
<1>8. SortData(s, o, new)
  BY <1>2, <1>6, <1>7, GoingOnKeepsData
<1>9. data'[w] = s
  BY <1>1 DEF s
<1>10. \A q \in Requests \ {w} : data'[q] = data[q]
  BY <1>1
<1>11. QED
  BY <1>2, <1>3, <1>8, <1>9, <1>10, SortKeepsData DEF o

LEMMA MergeHalvesKeepsData ==
  ASSUME IInv, DInv, NEW w \in Requests, NEW n, MergeHalves(w, n)
  PROVE  DInv'
<1> DEFINE calls == tasks[w]
           s == data[w]
           o == Collected(files, w)
           items == merge(Part(w, calls[n]), Mid(calls[n]) - calls[n].l + 1)
<1>1. At(w, n, "wait") /\ At(w, Here(n), "returned") /\ "wait" \in ActiveLabels
  BY DEF MergeHalves, ActiveLabels
<1>2. /\ n \in DOMAIN calls /\ IsCall(calls[n]) /\ calls[n].pc = "wait"
      /\ Tree(calls) /\ Waiting(calls)
      /\ deal[w] = "sorting" /\ SortData(s, o, calls)
  BY <1>1, CallAt, CallDataAt
<1>3. \A m \in {2 * n, 2 * n + 1} : m \in DOMAIN calls /\ calls[m].pc \in Done \union {"absent"}
  <2>1. \/ At(w, Elsewhere(n), "absent") \/ At(w, Elsewhere(n), "returned")
        \/ At(w, Elsewhere(n), "joined")
    BY DEF MergeHalves, Collects
  <2>2. {2 * n, 2 * n + 1} = {Here(n), Elsewhere(n)}
    BY DEF Here, Elsewhere
  <2>3. QED
    BY <1>1, <2>1, <2>2 DEF At, Done
<1>4. Holds(items, o, calls, n)
  <2> DEFINE l == calls[n].l
             r == calls[n].r
  <2>1. items = merge(SubSeq(s, l, r), Mid(calls[n]) - l + 1)
    BY DEF Part
  <2> HIDE DEF calls, s, o, items
  <2>2. Holds(merge(SubSeq(s, l, r), Mid(calls[n]) - l + 1), o, calls, n)
    BY <1>2, <1>3, MergeIsRight
  <2>3. QED
    BY <2>1, <2>2
<1>5. PICK new : Merges(calls, new, n, items) /\ Sorts(w, new)
  BY MergeHalvesMerges
<1>6. UNCHANGED data
  BY DEF MergeHalves, OnlyTasks
<1>7. data'[w] = s /\ \A q \in Requests \ {w} : data'[q] = data[q]
  BY <1>6
<1> HIDE DEF calls, s, o, items
<1>8. /\ new[n].pc = "write" /\ new[n].temp = items
      /\ new[n].l = calls[n].l /\ new[n].r = calls[n].r
  BY <1>2, <1>5, Prepared DEF Merges, Labels
<1>9. ASSUME NEW m \in DOMAIN calls \ {n}
      PROVE  /\ new[m].l = calls[m].l /\ new[m].r = calls[m].r /\ new[m].temp = calls[m].temp
             /\ \/ new[m].pc = calls[m].pc
                \/ calls[m].pc \in Done /\ new[m].pc = "joined"
  <2>1. IsCall(calls[m])
    BY <1>2 DEF Tree
  <2>2. CASE new[m] = calls[m]
    BY <2>2
  <2>3. CASE calls[m].pc \in {"returned", "joined"} /\ new[m] = Relabel(calls[m], "joined")
    BY <2>1, <2>3, Relabelled DEF Labels, Done
  <2>4. QED
    BY <1>5, <2>2, <2>3 DEF Merges
<1>10. GoesOn(calls, new)
  <2>1. DOMAIN new = DOMAIN calls
    BY <1>5 DEF Merges
  <2>2. QED
    BY <1>2, <1>8, <1>9, <2>1 DEF GoesOn, Done
<1>11. CallData(s, o, new, n)
  <2>1. Holds(items, o, new, n)
    BY <1>2, <1>4, <1>10, HoldsStill
  <2>2. QED
    BY <1>8, <2>1 DEF CallData, Done
<1>12. SortData(s, o, new)
  <2>1. \A m \in DOMAIN new :
          \/ CallData(s, o, new, m)
          \/ m \in DOMAIN calls /\ new[m].temp = calls[m].temp
             /\ (new[m].pc = "write" <=> calls[m].pc = "write")
             /\ (new[m].pc \in Done => calls[m].pc \in Done)
    <3>1. DOMAIN new = DOMAIN calls
      BY <1>5 DEF Merges
    <3>2. QED
      BY <1>9, <1>11, <3>1 DEF Done
  <2>2. QED
    BY <1>2, <1>10, <2>1, GoingOnKeepsData
<1>13. QED
  BY <1>2, <1>5, <1>7, <1>12, SortKeepsData DEF o

LEMMA WriteKeepsData ==
  ASSUME IInv, DInv, NEW w \in Requests, NEW n, Write(w, n)
  PROVE  DInv'
<1> DEFINE calls == tasks[w]
           task == Prepare(calls[n], "returned", <<>>)
           new == [calls EXCEPT ![n] = task]
           s == data[w]
           o == Collected(files, w)
           stored == [k \in DOMAIN s |-> IF k \in calls[n].l .. calls[n].r
                                         THEN calls[n].temp[k - calls[n].l + 1] ELSE s[k]]
<1>1. At(w, n, "write") /\ "write" \in ActiveLabels
  BY DEF Write, ActiveLabels
<1>2. /\ w \in DOMAIN tasks /\ n \in DOMAIN calls /\ IsCall(calls[n]) /\ calls[n].pc = "write"
      /\ Tree(calls) /\ Waiting(calls)
      /\ deal[w] = "sorting" /\ SortData(s, o, calls)
  BY <1>1, CallAt, CallDataAt
<1>3. tasks' = PrepareCall(w, n, "returned", <<>>)
  BY DEF Write, PrepareCall
<1>4. /\ task.pc = "returned" /\ task.l = calls[n].l /\ task.r = calls[n].r /\ task.temp = <<>>
  BY <1>2, Prepared DEF Labels
<1>5. /\ DOMAIN tasks' = DOMAIN tasks /\ \A q \in Requests \ {w} : tasks'[q] = tasks[q]
      /\ tasks'[w] = new
  BY <1>2, <1>3, Rewritten DEF IInv, Deals
<1>6. data' = [data EXCEPT ![w] = stored] /\ w \in DOMAIN data
  BY DEF Write, Stored, IInv, Deals
<1> HIDE DEF stored
<1>7. /\ DOMAIN data' = DOMAIN data /\ data'[w] = stored
      /\ \A q \in Requests \ {w} : data'[q] = data[q]
  BY <1>6 DEF IInv, Deals
<1> HIDE DEF task
<1>8. /\ DOMAIN new = DOMAIN calls /\ new[n] = task
      /\ \A m \in DOMAIN calls \ {n} : new[m] = calls[m]
  BY <1>2
<1> HIDE DEF new
<1>9. Sorts(w, new)
  BY <1>5, <1>7 DEF Sorts, Write
<1>10. SortData(stored, o, new)
  <2>1. stored = [k \in DOMAIN s |-> IF k \in calls[n].l .. calls[n].r
                                     THEN calls[n].temp[k - calls[n].l + 1] ELSE s[k]]
    BY DEF stored
  <2> HIDE DEF calls, s, o
  <2>2. QED
    BY <1>2, <1>4, <1>8, <2>1, WritingKeepsData
<1>11. QED
  BY <1>2, <1>7, <1>9, <1>10, SortKeepsData

\* The steps of main and of deal_request.
LEMMA CreateKeepsData ==
  ASSUME IInv, DInv, Create
  PROVE  DInv'
<1>1. /\ next < num_of_reqs /\ next - t < REQ_THREAD /\ next' = next + 1
      /\ myreq' = [myreq EXCEPT ![(next + 1) - t] = next + 1]
      /\ UNCHANGED <<files, which, data, tasks, out>>
  BY DEF Create, Slot
<1>2. PICK outcome \in {"created", "absent"} : deal' = [deal EXCEPT ![next + 1] = outcome]
  BY DEF Create, Outcomes
<1>3. Requests' = Requests
  BY <1>1 DEF Requests
<1>4. next \in Nat /\ myreq \in [1 .. REQ_THREAD -> Nat] /\ deal[next + 1] \notin {"sorting", "exited"}
      /\ next + 1 \in Requests
  <2>1. /\ Requests = 1 .. Len(files.requests) /\ Len(files.requests) \in Nat
        /\ num_of_reqs \in Requests /\ next \in Nat
    BY RequestsAre DEF IInv, Batch
  <2>2. next + 1 \in Requests /\ next + 1 > next
    BY <1>1, <2>1
  <2>3. deal[next + 1] = "none"
    BY <2>2 DEF IInv, Deals
  <2>4. QED
    BY <2>1, <2>2, <2>3 DEF IInv, Batch
<1>5. \A i \in 1 .. REQ_THREAD : myreq'[i] <= next'
  <2> TAKE i \in 1 .. REQ_THREAD
  <2>1. myreq[i] <= next /\ myreq[i] \in Nat
    BY <1>4 DEF DInv
  <2>2. myreq'[i] = myreq[i] \/ myreq'[i] = next + 1
    BY <1>1, <1>4
  <2>3. QED
    BY <1>1, <1>4, <2>1, <2>2
<1>6. ASSUME NEW q \in Requests PROVE RequestData(q)'
  <2>1. RequestData(q)
    BY DEF DInv
  <2>2. deal'[q] \in {"sorting", "exited"} <=> deal[q] \in {"sorting", "exited"}
    BY <1>2, <1>4 DEF IInv, Deals
  <2>3. QED
    BY <1>1, <2>1, <2>2 DEF RequestData
<1>7. QED
  BY <1>3, <1>5, <1>6 DEF DInv

LEMMA Collecting ==
  ASSUME NEW o, o \in Seq(Fresh), NEW label \in {"called", "absent"}
  PROVE  SortData(o, o, [n \in {1} |-> Call(label, 1, Len(o), 0)])
<1> DEFINE calls == [n \in {1} |-> Call(label, 1, Len(o), 0)]
           r == Len(o)
<1>1. o \in [1 .. r -> Items]
  <2>1. Fresh \subseteq Items
    BY DEF Fresh, Items
  <2> DEFINE F == Fresh
             G == Items
  <2>2. F \subseteq G /\ o \in Seq(F)
    BY <2>1
  <2> HIDE DEF F, G
  <2>3. o \in [1 .. Len(o) -> G]
    BY <2>2
  <2>4. QED
    BY <2>3 DEF G
<1>2. Call(label, 1, r, 0).pc = label /\ Call(label, 1, r, 0).l = 1
      /\ Call(label, 1, r, 0).r = r /\ Call(label, 1, r, 0).temp = <<>>
  <2> HIDE DEF r
  <2> QED BY DEF Call
<1>3. DOMAIN calls = {1} /\ calls[1].pc = label /\ calls[1].l = 1 /\ calls[1].r = r /\ calls[1].temp = <<>>
  BY <1>2
<1> HIDE DEF calls
<1>4. Untouched(o, o, calls)
  BY DEF Untouched
<1>5. \A n \in DOMAIN calls : CallData(o, o, calls, n)
  BY <1>3 DEF CallData, Done
<1>6. SortData(o, o, calls)
  BY <1>1, <1>3, <1>4, <1>5 DEF SortData
<1>7. QED
  BY <1>6 DEF calls

LEMMA CollectKeepsData ==
  ASSUME IInv, DInv, NEW q \in Requests, Collect(q)
  PROVE  DInv'
<1> DEFINE o == Collected(files, q)
<1>1. /\ deal' = [deal EXCEPT ![q] = "sorting"]
      /\ which' = [which EXCEPT ![q] = q] /\ data' = [data EXCEPT ![q] = o]
      /\ UNCHANGED <<build, files, t, next, myreq, out>>
  BY CollectIs
<1>2. PICK outcome \in {"called", "absent"} :
        tasks' = [tasks EXCEPT ![q] = [n \in {1} |-> Call(outcome, 1, Len(data'[q]), 0)]]
  BY CollectIs
<1> DEFINE calls == [n \in {1} |-> Call(outcome, 1, Len(data'[q]), 0)]
<1>3. o \in Seq(Fresh)
  BY CollectedIs DEF IInv, Batch, Requests
<1> HIDE DEF o
<1>4. /\ deal'[q] = "sorting" /\ data'[q] = o
      /\ \A p \in Requests \ {q} : deal'[p] = deal[p] /\ which'[p] = which[p] /\ data'[p] = data[p]
  BY <1>1 DEF IInv, Deals
<1>5. SortData(o, o, calls)
  BY <1>3, <1>4, Collecting
<1> HIDE DEF calls
<1>6. tasks'[q] = calls /\ \A p \in Requests \ {q} : tasks'[p] = tasks[p]
  <2>1. tasks' = [tasks EXCEPT ![q] = calls]
    BY <1>2 DEF calls
  <2>2. QED
    BY <2>1 DEF IInv, Deals
<1>7. ASSUME NEW p \in Requests PROVE RequestData(p)'
  <2>1. RequestData(p) /\ out' = out /\ files' = files
    BY <1>1 DEF DInv
  <2>2. CASE p = q
    <3>1. SortData(data'[p], Collected(files', p), tasks'[p])
      BY <1>4, <1>5, <1>6, <2>1, <2>2 DEF o
    <3>2. QED
      BY <1>4, <2>1, <2>2, <3>1 DEF RequestData
  <2>3. CASE p # q
    <3>1. deal'[p] = deal[p] /\ which'[p] = which[p] /\ data'[p] = data[p] /\ tasks'[p] = tasks[p]
      BY <1>4, <1>6, <2>3
    <3>2. QED
      BY <2>1, <3>1 DEF RequestData
  <2>4. QED
    BY <2>2, <2>3
<1>8. \A i \in 1 .. REQ_THREAD : myreq'[i] <= next'
  BY <1>1 DEF DInv
<1>9. Requests' = Requests
  BY <1>1 DEF Requests
<1>10. QED
  BY <1>7, <1>8, <1>9 DEF DInv

\* What is in an array while it is sorted.
LEMMA DataAreItems ==
  ASSUME NEW s, NEW o, NEW calls, SortData(s, o, calls)
  PROVE  IsItems(s)
<1>1. s \in [1 .. Len(o) -> Items]
  BY DEF SortData
<1>2. QED
  BY <1>1 DEF IsItems

LEMMA DataAreSequences ==
  ASSUME NEW s, NEW o, NEW calls, SortData(s, o, calls)
  PROVE  s \in Seq(Items)
<1> DEFINE F == Fresh
           G == Items
           len == Len(o)
<1>1. o \in Seq(F) /\ s \in [1 .. len -> G]
  BY DEF SortData
<1> HIDE DEF F, G
<1>2. len \in Nat
  BY <1>1
<1> HIDE DEF len
<1>3. s \in Seq(G)
  BY <1>1, <1>2
<1>4. QED
  BY <1>3 DEF G

LEMMA BeginningIs ==
  ASSUME NEW S, NEW s \in Seq(S), NEW lost \in Nat
  PROVE  Beginning(s, lost) \in Seq(S)
<1>1. Len(s) \in Nat /\ Len(s) - lost \in Int /\ \A k \in 1 .. Len(s) - lost : s[k] \in S
  OBVIOUS
<1>2. QED
  BY <1>1, SubSeqProperties DEF Beginning

LEMMA WriteAnswerKeepsData ==
  ASSUME IInv, DInv, NEW q \in Requests, WriteAnswer(q)
  PROVE  DInv'
<1>1. /\ deal[q] = "sorting" /\ deal' = [deal EXCEPT ![q] = "exited"]
      /\ out' = [out EXCEPT ![which[q]] = {data[which[q]]}]
      /\ UNCHANGED <<build, files, t, next, myreq, which, data, tasks>>
  BY DEF WriteAnswer
<1>2. which[q] = q
  BY <1>1 DEF IInv, Deals
<1>3. data[q] \in Seq(Items)
  BY <1>1, DataAreSequences DEF DInv, RequestData
<1>4. deal'[q] = "exited" /\ out'[q] = {data[q]}
      /\ \A p \in Requests \ {q} : deal'[p] = deal[p] /\ out'[p] = out[p]
  BY <1>1, <1>2 DEF IInv, Deals
<1>5. ASSUME NEW p \in Requests PROVE RequestData(p)'
  <2>1. RequestData(p)
    BY DEF DInv
  <2>2. CASE p = q
    BY <1>1, <1>3, <1>4, <2>1, <2>2 DEF RequestData
  <2>3. CASE p # q
    BY <1>1, <1>4, <2>1, <2>3 DEF RequestData
  <2>4. QED
    BY <2>2, <2>3
<1>6. \A i \in 1 .. REQ_THREAD : myreq'[i] <= next'
  BY <1>1 DEF DInv
<1>7. Requests' = Requests
  BY <1>1 DEF Requests
<1>8. QED
  BY <1>5, <1>6, <1>7 DEF DInv

\* A crash leaves a beginning of each answer.
LEMMA CrashCuts ==
  ASSUME IInv, Crash, NEW q \in Requests
  PROVE  \E lost \in Nat : out'[q] = {Beginning(s, lost) : s \in out[q]}
<1> DEFINE size == Len(files.movies)
<1>1. PICK lost \in [Requests -> 0 .. size] :
        out' = [p \in Requests |-> {Beginning(s, lost[p]) : s \in out[p]}]
  BY DEF Crash
<1> HIDE DEF size
<1>2. lost[q] \in Nat
  BY <1>1
<1>3. QED
  BY <1>1, <1>2

LEMMA CrashKeepsData ==
  ASSUME IInv, DInv, Crash
  PROVE  DInv'
<1>1. UNCHANGED <<files, next, myreq, deal, which, data, tasks>>
  BY DEF Crash
<1>2. Requests' = Requests
  BY <1>1 DEF Requests
<1>3. ASSUME NEW q \in Requests PROVE RequestData(q)'
  <2>1. PICK lost \in Nat : out'[q] = {Beginning(s, lost) : s \in out[q]}
    BY CrashCuts
  <2>2. out[q] = {} \/ \E s \in Seq(Items) : out[q] = {s}
    BY DEF DInv, RequestData
  <2>3. CASE out[q] = {}
    BY <1>1, <2>1, <2>3 DEF DInv, RequestData
  <2>4. CASE \E s \in Seq(Items) : out[q] = {s}
    <3>1. PICK s \in Seq(Items) : out[q] = {s}
      BY <2>4
    <3>2. Beginning(s, lost) \in Seq(Items) /\ out'[q] = {Beginning(s, lost)}
      BY <2>1, <3>1, BeginningIs
    <3>3. QED
      BY <1>1, <3>2 DEF DInv, RequestData
  <2>5. QED
    BY <2>2, <2>3, <2>4
<1>4. QED
  BY <1>1, <1>2, <1>3 DEF DInv

LEMMA InitData == Init => DInv
<1> SUFFICES ASSUME Init PROVE DInv
  OBVIOUS
<1>1. \A i \in 1 .. REQ_THREAD : myreq[i] <= next
  BY DEF Init
<1>2. \A q \in Requests : RequestData(q)
  BY DEF Init, RequestData
<1>3. QED
  BY <1>1, <1>2 DEF DInv

LEMMA NextKeepsData == IInv /\ DInv /\ [Next]_vars => DInv'
<1> SUFFICES ASSUME IInv, DInv, [Next]_vars PROVE DInv'
  OBVIOUS
<1>1. CASE MainStep
  <2>1. CASE JoinBatch
    <3>1. UNCHANGED <<files, next, myreq, deal, which, data, tasks, out>>
      BY <2>1 DEF JoinBatch
    <3>2. Requests' = Requests
      BY <3>1 DEF Requests
    <3>3. QED
      BY <3>1, <3>2 DEF DInv, RequestData
  <2>2. QED
    BY <1>1, <2>1, CreateKeepsData, CrashKeepsData DEF MainStep, JoinNobody
<1>2. ASSUME NEW q \in Requests, DealStep(q) PROVE DInv'
  BY <1>2, CollectKeepsData, WriteAnswerKeepsData, CrashKeepsData DEF DealStep, SortNobody
<1>3. ASSUME NEW q \in Requests, NEW n \in DOMAIN tasks[q], TaskStep(q, n) PROVE DInv'
  <2>1. CASE ReturnEmpty(q, n)
    BY <2>1, ReturnEmptyKeepsData
  <2>2. CASE SortPart(q, n)
    BY <2>2, SortPartKeepsData
  <2>3. CASE Split(q, n)
    BY <2>3, SplitCalls, GrowingKeepsData DEF Split
  <2>4. CASE CallLeft(q, n)
    BY <2>4, CallLeftCalls, GrowingKeepsData DEF CallLeft
  <2>5. CASE CallRight(q, n)
    BY <2>5, CallRightCalls, GrowingKeepsData DEF CallRight
  <2>6. CASE MergeHalves(q, n)
    BY <2>6, MergeHalvesKeepsData
  <2>7. CASE JoinUnset(q, n)
    BY <2>7, CrashKeepsData DEF JoinUnset
  <2>8. CASE Write(q, n)
    BY <2>8, WriteKeepsData
  <2>9. QED
    BY <1>3, <2>1, <2>2, <2>3, <2>4, <2>5, <2>6, <2>7, <2>8 DEF TaskStep
<1>4. CASE UNCHANGED vars
  <2>1. Requests' = Requests
    BY <1>4 DEF vars, Requests
  <2>2. QED
    BY <1>4, <2>1 DEF vars, DInv, RequestData
<1>5. QED
  BY <1>1, <1>2, <1>3, <1>4 DEF Next

\* In every array, at every moment, is what the calls so far were to make of it.
THEOREM DataInvariance == Spec => []DInv
<1>1. QED
  BY Invariance, InitData, NextKeepsData, PTL DEF Spec

-----------------------------------------------------------------------------
(***************************************************************************)
(* What follows for the types and for the parts.                           *)
(***************************************************************************)
LEMMA SequenceOfItems ==
  ASSUME NEW s \in Seq(Items)
  PROVE  IsItems(s)
<1> DEFINE G == Items
<1>1. s \in Seq(G)
  OBVIOUS
<1> HIDE DEF G
<1>2. \A k \in DOMAIN s : s[k] \in G
  BY <1>1
<1>3. QED
  BY <1>2 DEF IsItems, G

LEMMA OutIsOne ==
  ASSUME IInv, DInv, NEW q \in Requests
  PROVE  Cardinality(out[q]) <= 1 /\ \A s \in out[q] : IsItems(s)
<1>1. out[q] = {} \/ \E s \in out[q] : out[q] = {s} /\ IsItems(s)
  <2>1. \A s \in Seq(Items) : IsItems(s)
    BY SequenceOfItems
  <2>2. QED
    BY <2>1 DEF DInv, RequestData
<1>2. CASE out[q] = {}
  BY <1>2, FS_EmptySet
<1>3. CASE \E s \in out[q] : out[q] = {s} /\ IsItems(s)
  <2>1. PICK s \in out[q] : out[q] = {s} /\ IsItems(s)
    BY <1>3
  <2>2. Cardinality({s}) = 1
    BY FS_Singleton
  <2>3. QED
    BY <2>1, <2>2
<1>4. QED
  BY <1>1, <1>2, <1>3

\* What a call has prepared.
LEMMA TempIs ==
  ASSUME NEW s, NEW o, NEW calls, Tree(calls), SortData(s, o, calls), NEW n \in DOMAIN calls
  PROVE  IsItems(calls[n].temp) /\ Len(calls[n].temp) \in {0, calls[n].r - calls[n].l + 1}
<1> DEFINE l == calls[n].l
           r == calls[n].r
           x == calls[n].temp
<1>1. l \in Nat /\ r \in Nat /\ l <= r + 1
  BY Inside DEF SortData
<1>2. x = <<>> \/ x \in [1 .. r - l + 1 -> Items]
  BY DEF SortData, CallData, Holds
<1> HIDE DEF l, r, x
<1>3. ASSUME x = <<>> PROVE IsItems(x) /\ Len(x) = 0
  BY <1>3 DEF IsItems
<1>4. ASSUME x \in [1 .. r - l + 1 -> Items] PROVE IsItems(x) /\ Len(x) = r - l + 1
  <2> DEFINE len == r - l + 1
  <2>1. len \in Nat /\ x \in [1 .. len -> Items]
    BY <1>1, <1>4
  <2> HIDE DEF len
  <2>2. Len(x) = len /\ IsItems(x)
    BY <2>1 DEF IsItems
  <2>3. QED
    BY <2>2 DEF len
<1>5. IsItems(x) /\ Len(x) \in {0, r - l + 1}
  BY <1>2, <1>3, <1>4
<1>6. QED
  BY <1>5 DEF l, r, x

LEMMA InvImpliesTypeOK == IInv /\ DInv => TypeOK
<1> SUFFICES ASSUME IInv, DInv PROVE TypeOK
  OBVIOUS
<1>1. t \in Nat /\ next \in Requests \union {0}
  BY RequestsAre DEF IInv, Batch
<1>2. ASSUME NEW i \in DOMAIN myreq PROVE myreq[i] \in 0 .. next
  <2>1. i \in 1 .. REQ_THREAD /\ myreq[i] \in Nat /\ next \in Nat
    BY <1>2 DEF IInv, Batch
  <2>2. myreq[i] <= next
    BY <2>1 DEF DInv
  <2>3. QED
    BY <2>1, <2>2
<1>3. ASSUME NEW q \in Requests
      PROVE  /\ deal[q] \in {"none", "created", "absent", "sorting", "exited"}
             /\ which[q] \in Requests \union {0}
             /\ IsItems(data[q])
  <2>1. deal[q] \in {"none", "created", "absent", "sorting", "exited"}
    BY DEF IInv, Deals
  <2>2. CASE deal[q] \in {"sorting", "exited"}
    <3>1. which[q] = q
      BY <2>2 DEF IInv, Deals
    <3>2. IsItems(data[q])
      BY <2>2, DataAreItems DEF DInv, RequestData
    <3>3. QED
      BY <2>1, <3>1, <3>2
  <2>3. CASE deal[q] \notin {"sorting", "exited"}
    <3>1. which[q] = 0 /\ data[q] = <<>>
      BY <2>3 DEF DInv, RequestData
    <3>2. QED
      BY <2>1, <3>1 DEF IsItems
  <2>4. QED
    BY <2>2, <2>3
<1>4. ASSUME NEW q \in Requests, NEW n \in DOMAIN tasks[q]
      PROVE  /\ tasks[q][n].pc \in {"called", "left", "wait", "write", "returned", "joined", "absent"}
             /\ tasks[q][n].l \in 1 .. Len(data[q]) + 1 /\ tasks[q][n].r \in 0 .. Len(data[q])
             /\ tasks[q][n].level \in Nat
             /\ IsItems(tasks[q][n].temp)
             /\ Len(tasks[q][n].temp) \in {0, tasks[q][n].r - tasks[q][n].l + 1}
  <2> DEFINE calls == tasks[q]
             s == data[q]
             o == Collected(files, q)
  <2>1. Tree(calls) /\ IsCall(calls[n])
    BY DEF IInv, Tree
  <2>2. deal[q] \in {"sorting", "exited"}
    BY DEF IInv, Deals
  <2>3. SortData(s, o, calls)
    BY <2>2 DEF DInv, RequestData
  <2>4. n \in DOMAIN calls
    OBVIOUS
  <2> HIDE DEF calls, s, o
  <2>5. /\ calls[n].l \in Nat /\ calls[n].r \in Nat /\ 1 <= calls[n].l
        /\ calls[n].l <= calls[n].r + 1 /\ calls[n].r <= Len(o) /\ Len(o) \in Nat
        /\ s \in [1 .. Len(o) -> Items]
    BY <2>1, <2>3, <2>4, Inside DEF SortData
  <2>6. Len(s) = Len(o)
    <3> DEFINE len == Len(o)
    <3>1. len \in Nat /\ s \in [1 .. len -> Items]
      BY <2>5
    <3> HIDE DEF len
    <3>2. Len(s) = len
      BY <3>1
    <3>3. QED
      BY <3>2 DEF len
  <2>7. IsItems(calls[n].temp) /\ Len(calls[n].temp) \in {0, calls[n].r - calls[n].l + 1}
    BY <2>1, <2>3, <2>4, TempIs
  <2>8. calls[n].pc \in Labels /\ calls[n].level \in Nat
    BY <2>1 DEF IsCall
  <2>9. calls[n].l \in 1 .. Len(s) + 1 /\ calls[n].r \in 0 .. Len(s)
    BY <2>5, <2>6
  <2>10. QED
    BY <2>7, <2>8, <2>9 DEF Labels, calls, s
<1>5. \A q \in Requests : Cardinality(out[q]) <= 1 /\ \A s \in out[q] : IsItems(s)
  BY OutIsOne
<1>6. QED
  BY <1>1, <1>2, <1>3, <1>4, <1>5 DEF TypeOK

\* A piece of what was collected, and what it has become.
LEMMA PartIsAnswer ==
  ASSUME NEW x, NEW o, NEW calls, NEW n \in DOMAIN calls, o \in Seq(Fresh), Holds(x, o, calls, n),
         calls[n].l \in Nat \ {0}, calls[n].r \in Nat,
         calls[n].l <= calls[n].r + 1, calls[n].r <= Len(o)
  PROVE  /\ SameItems(x, SubSeq(o, calls[n].l, calls[n].r))
         /\ ~Cut(calls, n) => IsAnswer(x, SubSeq(o, calls[n].l, calls[n].r))
<1> DEFINE l == calls[n].l
           r == calls[n].r
           len == r - l + 1
           given == SubSeq(o, l, r)
<1>1. IsPiece(given, o, l, r, Fresh)
  <2> DEFINE F == Fresh
             size == Len(o)
  <2>1. o \in Seq(F)
    OBVIOUS
  <2> HIDE DEF F
  <2>2. size \in Nat /\ o \in [1 .. size -> F] /\ r <= size
    BY <2>1
  <2> HIDE DEF size
  <2>3. IsPiece(given, o, l, r, F)
    BY <2>2, SubSeqIs
  <2>4. QED
    BY <2>3 DEF F
<1>2. x \in [1 .. len -> Items] /\ Lists(x, o, l, r) /\ len \in Nat /\ l \in Nat /\ r \in Nat
  BY DEF Holds
<1> HIDE DEF given
<1>3. given \in [1 .. len -> Fresh] /\ \A k \in 1 .. len : given[k] = o[l + k - 1]
  BY <1>1 DEF IsPiece
<1> HIDE DEF l, r, len
<1>4. Len(x) = len /\ Len(given) = len /\ DOMAIN x = 1 .. len /\ DOMAIN given = 1 .. len
  BY <1>2, <1>3
<1>5. SameItems(x, given)
  BY <1>2, <1>3, <1>4, ListsHaveSameItems
<1>6. ~Cut(calls, n) => InOrder(x) /\ \A k \in DOMAIN x : x[k].secret = 1
  BY DEF Holds
<1>7. ~Cut(calls, n) => IsAnswer(x, given)
  BY <1>5, <1>6 DEF IsAnswer
<1>8. QED
  BY <1>5, <1>7 DEF given, l, r

LEMMA InvImpliesPartIsSorted == IInv /\ DInv => PartIsSorted
<1> SUFFICES ASSUME IInv, DInv, NEW q \in Requests, NEW n \in DOMAIN tasks[q] \ Active(q),
                    n \div 2 \in Active(q) \/ n = 1
             PROVE  LET task  == tasks[q][n]
                        given == SubSeq(Collected(files, q), task.l, task.r)
                        Missed(piece) == task.l <= piece.l /\ piece.l <= piece.r /\ piece.r <= task.r
                    IN  IF \E m \in Absent(q) : Missed(tasks[q][m]) THEN SameItems(Part(q, task), given)
                        ELSE IsAnswer(Part(q, task), given)
  BY DEF PartIsSorted
<1> DEFINE calls == tasks[q]
           s == data[q]
           o == Collected(files, q)
           x == SubSeq(s, calls[n].l, calls[n].r)
           given == SubSeq(o, calls[n].l, calls[n].r)
<1>1. Tree(calls) /\ Waiting(calls) /\ n \in DOMAIN calls /\ IsCall(calls[n])
  BY DEF IInv, Tree
<1>2. calls[n].pc \in Done \union {"absent"}
  BY <1>1 DEF IsCall, Labels, Active, Done
<1>3. Relevant(calls, n)
  BY DEF Relevant, Active, ActiveLabels
<1>4. SortData(s, o, calls)
  <2>1. deal[q] \in {"sorting", "exited"}
    BY DEF IInv, Deals
  <2>2. QED
    BY <2>1 DEF DInv, RequestData
<1>5. (\E m \in Absent(q) : /\ calls[n].l <= calls[m].l
                            /\ calls[m].l <= calls[m].r /\ calls[m].r <= calls[n].r) <=> Cut(calls, n)
  BY DEF Cut, Absent
<1>6. Part(q, calls[n]) = x
  BY DEF Part
<1> HIDE DEF calls, s, o
<1>7. Holds(x, o, calls, n)
  BY <1>1, <1>2, <1>3, <1>4, PartHolds
<1>8. SameItems(x, given) /\ (~Cut(calls, n) => IsAnswer(x, given))
  <2>1. /\ calls[n].l \in Nat \ {0} /\ calls[n].r \in Nat
        /\ calls[n].l <= calls[n].r + 1 /\ calls[n].r <= Len(o) /\ o \in Seq(Fresh)
    BY <1>1, <1>4, Inside DEF SortData
  <2> HIDE DEF x
  <2>2. QED
    BY <1>1, <1>7, <2>1, PartIsAnswer
<1> HIDE DEF x
<1>9. QED
  BY <1>5, <1>6, <1>8 DEF calls, o

\* The types of what the threads and processes share.
THEOREM Typed == Spec => []TypeOK
<1>1. QED
  BY Invariance, DataInvariance, InvImpliesTypeOK, PTL

\* When a call of mergesort returns, its part holds the items that it held in the
\* beginning, and unless a creation has failed for some of them they are in order,
\* each with one secret.
THEOREM PartsAreSorted == Spec => []PartIsSorted
<1>1. QED
  BY Invariance, DataInvariance, InvImpliesPartIsSorted, PTL

-----------------------------------------------------------------------------
(***************************************************************************)
(* What is printed.                                                        *)
(***************************************************************************)

\* What has been printed for a request is its array, as it is to stay, or its
\* beginning once the server has crashed.
Printed ==
  \A q \in Requests :
    \/ out[q] = {}
    \/ /\ deal[q] = "exited"
       /\ \/ out[q] = {data[q]}
          \/ crashed /\ \E lost \in Nat : out[q] = {Beginning(data[q], lost)}

\* What has been printed for a request is what was collected for it: in order and with
\* one secret each if nothing failed in its sort, and in any case the same items; a
\* crash of the server may cut it off.
AnswersAreRight ==
  \A q \in Requests : \A s \in out[q] : \E whole \in Seq(Items) :
    /\ s = whole \/ (crashed /\ \E lost \in Nat : s = Beginning(whole, lost))
    /\ SameItems(whole, Collected(files, q))
    /\ Absent(q) = {} => IsAnswer(whole, Collected(files, q))

\* A sort goes on: its request is not answered, and the others stay as they are.
LEMMA SortingKeepsPrinted ==
  ASSUME IInv, Printed, NEW w \in Requests, NEW n, NEW label \in ActiveLabels, At(w, n, label),
         UNCHANGED <<files, crashed, deal, out>>,
         \A q \in Requests \ {w} : data'[q] = data[q]
  PROVE  Printed'
<1>1. Active(w) # {} /\ w \in DOMAIN tasks /\ n \in DOMAIN tasks[w]
  BY CallAt
<1>2. deal[w] = "sorting"
  BY <1>1 DEF IInv, Deals
<1>3. out[w] = {}
  BY <1>2 DEF Printed
<1>4. Requests' = Requests
  BY DEF Requests
<1>5. QED
  BY <1>3, <1>4 DEF Printed

LEMMA NextKeepsPrinted == IInv /\ Printed /\ [Next]_vars => Printed'
<1> SUFFICES ASSUME IInv, Printed, [Next]_vars PROVE Printed'
  OBVIOUS
<1>1. CASE UNCHANGED <<files, crashed, deal, data, out>>
  BY <1>1 DEF Printed, Requests
<1>2. ASSUME ~crashed, Crash PROVE Printed'
  <2>1. UNCHANGED <<files, deal, data>> /\ crashed'
    BY <1>2 DEF Crash
  <2>2. ASSUME NEW q \in Requests, out[q] # {}
        PROVE  deal[q] = "exited" /\ \E lost \in Nat : out'[q] = {Beginning(data[q], lost)}
    <3>1. deal[q] = "exited" /\ out[q] = {data[q]}
      BY <1>2, <2>2 DEF Printed
    <3>2. PICK lost \in Nat : out'[q] = {Beginning(s, lost) : s \in out[q]}
      BY <1>2, CrashCuts
    <3>3. QED
      BY <3>1, <3>2
  <2>3. ASSUME NEW q \in Requests, out[q] = {} PROVE out'[q] = {}
    BY <1>2, <2>3, CrashCuts
  <2>4. QED
    BY <2>1, <2>2, <2>3 DEF Printed, Requests
<1>3. CASE Create
  <2>1. UNCHANGED <<files, crashed, data, out>>
    BY <1>3 DEF Create
  <2>2. next + 1 \in Requests /\ deal[next + 1] = "none"
    <3>1. /\ Requests = 1 .. Len(files.requests) /\ Len(files.requests) \in Nat
          /\ num_of_reqs \in Requests /\ next \in Nat /\ next < num_of_reqs
      BY <1>3, RequestsAre DEF IInv, Batch, Create
    <3>2. next + 1 \in Requests /\ next + 1 > next
      BY <3>1
    <3>3. QED
      BY <3>2 DEF IInv, Deals
  <2>3. out[next + 1] = {}
    BY <2>2 DEF Printed
  <2>4. \A q \in Requests \ {next + 1} : deal'[q] = deal[q]
    BY <1>3, <2>2 DEF Create, IInv, Deals
  <2>5. QED
    BY <2>1, <2>3, <2>4 DEF Printed, Requests
<1>4. ASSUME NEW q \in Requests, Collect(q) PROVE Printed'
  <2>1. /\ deal[q] = "created" /\ deal' = [deal EXCEPT ![q] = "sorting"]
        /\ data' = [data EXCEPT ![q] = Collected(files, q)] /\ UNCHANGED <<files, crashed, out>>
    BY <1>4, CollectIs DEF Collect
  <2>2. out[q] = {}
    BY <2>1 DEF Printed
  <2>3. \A p \in Requests \ {q} : deal'[p] = deal[p] /\ data'[p] = data[p]
    BY <2>1 DEF IInv, Deals
  <2>4. QED
    BY <2>1, <2>2, <2>3 DEF Printed, Requests
<1>5. ASSUME NEW q \in Requests, WriteAnswer(q) PROVE Printed'
  <2>1. /\ deal[q] = "sorting" /\ deal' = [deal EXCEPT ![q] = "exited"]
        /\ out' = [out EXCEPT ![which[q]] = {data[which[q]]}] /\ UNCHANGED <<files, crashed, data>>
    BY <1>5 DEF WriteAnswer
  <2>2. which[q] = q
    BY <2>1 DEF IInv, Deals
  <2>3. /\ deal'[q] = "exited" /\ out'[q] = {data[q]}
        /\ \A p \in Requests \ {q} : deal'[p] = deal[p] /\ out'[p] = out[p]
    BY <2>1, <2>2 DEF IInv, Deals
  <2>4. QED
    BY <2>1, <2>3 DEF Printed, Requests
<1>6. ASSUME NEW w \in Requests, NEW n \in DOMAIN tasks[w], Write(w, n) PROVE Printed'
  <2>1. At(w, n, "write") /\ "write" \in ActiveLabels
    BY <1>6 DEF Write, ActiveLabels
  <2>2. data' = Stored(w, tasks[w][n]) /\ UNCHANGED <<files, crashed, deal, out>>
    BY <1>6 DEF Write
  <2>3. \A q \in Requests \ {w} : data'[q] = data[q]
    BY <2>2 DEF Stored, IInv, Deals
  <2>4. QED
    BY <2>1, <2>2, <2>3, SortingKeepsPrinted
<1>7. ASSUME NEW q \in Requests, NEW n \in DOMAIN tasks[q], TaskStep(q, n) PROVE Printed'
  BY <1>1, <1>2, <1>6, <1>7
     DEF TaskStep, ReturnEmpty, SortPart, Split, CallLeft, CallRight, MergeHalves, JoinUnset, OnlyTasks
<1>8. CASE MainStep
  BY <1>1, <1>2, <1>3, <1>8 DEF MainStep, JoinBatch, JoinNobody
<1>9. ASSUME NEW q \in Requests, DealStep(q) PROVE Printed'
  BY <1>2, <1>4, <1>5, <1>9 DEF DealStep, SortNobody
<1>10. QED
  BY <1>1, <1>7, <1>8, <1>9 DEF Next, vars

LEMMA WholePart ==
  ASSUME NEW S, NEW n \in Nat, NEW s \in [1 .. n -> S]
  PROVE  SubSeq(s, 1, n) = s
<1>1. IsPiece(SubSeq(s, 1, n), s, 1, n, S)
  BY SubSeqIs
<1>2. IsPiece(s, s, 1, n, S)
  BY DEF IsPiece
<1>3. QED
  BY <1>1, <1>2, PieceIsUnique

LEMMA InvImpliesAnswersAreRight == IInv /\ DInv /\ Printed => AnswersAreRight
<1> SUFFICES ASSUME IInv, DInv, Printed, NEW q \in Requests, deal[q] = "exited"
             PROVE  /\ data[q] \in Seq(Items)
                    /\ SameItems(data[q], Collected(files, q))
                    /\ Absent(q) = {} => IsAnswer(data[q], Collected(files, q))
  BY DEF AnswersAreRight, Printed
<1> DEFINE calls == tasks[q]
           o == Collected(files, q)
           s == data[q]
<1>1. deal[q] = "exited"
  OBVIOUS
<1>2. Tree(calls) /\ Waiting(calls) /\ 1 \in DOMAIN calls /\ Active(q) = {}
  BY <1>1 DEF IInv, Deals
<1>3. SortData(s, o, calls)
  BY <1>1 DEF DInv, RequestData
<1>4. IsCall(calls[1]) /\ calls[1].pc \notin ActiveLabels
  BY <1>2 DEF Tree, Active, ActiveLabels
<1>5. calls[1].pc \in Done \union {"absent"}
  BY <1>4 DEF IsCall, Labels, ActiveLabels, Done
<1>6. Cut(calls, 1) => Absent(q) # {}
  BY DEF Cut, Absent
<1> HIDE DEF calls, o, s
<1>0. s \in Seq(Items)
  BY <1>3, DataAreSequences
<1>7. calls[1].l = 1 /\ calls[1].r = Len(o) /\ o \in Seq(Fresh) /\ s \in [1 .. Len(o) -> Items]
  BY <1>3 DEF SortData
<1> DEFINE size == Len(o)
<1>8. size \in Nat /\ SubSeq(o, 1, size) = o
  <2> DEFINE F == Fresh
  <2>1. o \in Seq(F)
    BY <1>7
  <2> HIDE DEF F
  <2>2. size \in Nat /\ o \in [1 .. size -> F]
    BY <2>1
  <2> HIDE DEF size
  <2>3. QED
    BY <2>2, WholePart
<1>9. SubSeq(s, 1, size) = s
  <2> DEFINE G == Items
  <2>1. s \in [1 .. size -> G]
    BY <1>7
  <2> HIDE DEF G, size
  <2>2. QED
    BY <1>8, <2>1, WholePart
<1> DEFINE x == SubSeq(s, calls[1].l, calls[1].r)
<1>10. x = s /\ SubSeq(o, calls[1].l, calls[1].r) = o
  BY <1>7, <1>8, <1>9
<1>11. Holds(x, o, calls, 1)
  BY <1>2, <1>3, <1>5, PartHolds DEF Relevant
<1> HIDE DEF x
<1>12. Holds(s, o, calls, 1)
  BY <1>10, <1>11
<1>13. /\ SameItems(s, SubSeq(o, calls[1].l, calls[1].r))
       /\ ~Cut(calls, 1) => IsAnswer(s, SubSeq(o, calls[1].l, calls[1].r))
  BY <1>2, <1>7, <1>8, <1>12, PartIsAnswer
<1>14. QED
  BY <1>0, <1>6, <1>10, <1>13 DEF o, s

\* What is printed for a request is the list that was collected for it, sorted if no
\* creation has failed in its sort; whatever fails or goes on for other requests, but
\* that a crash may cut it off.
THEOREM AnswersAreSorted == Spec => []AnswersAreRight
<1>1. Init => Printed
  BY DEF Init, Printed
<1>2. QED
  BY <1>1, Invariance, DataInvariance, NextKeepsPrinted, InvImpliesAnswersAreRight, PTL DEF Spec

-----------------------------------------------------------------------------
(***************************************************************************)
(* How many threads and processes there are.                               *)
(***************************************************************************)

\* A call is one level below its caller, the first one is at level 0, and in a
\* pserver only a call above MAX_LEVEL calls others.
Levels(calls, limited) ==
  /\ 1 \in DOMAIN calls => calls[1].level = 0
  /\ \A n \in DOMAIN calls \ {1} :
       /\ calls[n].level = calls[n \div 2].level + 1
       /\ limited => calls[n \div 2].level < MAX_LEVEL

LInv == \A q \in Requests : Levels(tasks[q], build = "PROCESS")

\* The calls so far stay at their levels, and those that are new are halves of one.
Deeper(calls, new, n, limited) ==
  /\ DOMAIN calls \subseteq DOMAIN new
  /\ \A m \in DOMAIN calls : new[m].level = calls[m].level
  /\ \A m \in DOMAIN new \ DOMAIN calls :
       /\ m # 1 /\ m \div 2 = n /\ n \in DOMAIN calls
       /\ new[m].level = calls[n].level + 1
       /\ limited => calls[n].level < MAX_LEVEL

LEMMA DeeperKeepsLevels ==
  ASSUME NEW calls, NEW new, NEW n, NEW limited, Tree(calls), Levels(calls, limited),
         Deeper(calls, new, n, limited)
  PROVE  Levels(new, limited)
<1>1. 1 \in DOMAIN new => new[1].level = 0
  BY DEF Levels, Deeper
<1>2. ASSUME NEW m \in DOMAIN new \ {1}
      PROVE  /\ new[m].level = new[m \div 2].level + 1
             /\ limited => new[m \div 2].level < MAX_LEVEL
  <2>1. CASE m \in DOMAIN calls
    <3>1. m \div 2 \in DOMAIN calls /\ calls[m].level = calls[m \div 2].level + 1
          /\ (limited => calls[m \div 2].level < MAX_LEVEL)
      BY <1>2, <2>1 DEF Tree, Levels
    <3>2. QED
      BY <2>1, <3>1 DEF Deeper
  <2>2. CASE m \notin DOMAIN calls
    BY <1>2, <2>2 DEF Deeper
  <2>3. QED
    BY <2>1, <2>2
<1>3. QED
  BY <1>1, <1>2 DEF Levels

LEMMA SortKeepsLevels ==
  ASSUME IInv, LInv, NEW w \in Requests, NEW n, NEW calls, Sorts(w, calls),
         Deeper(tasks[w], calls, n, build = "PROCESS")
  PROVE  LInv'
<1> DEFINE limited == build = "PROCESS"
<1>1. Tree(tasks[w]) /\ Levels(tasks[w], limited)
  BY DEF IInv, LInv
<1>2. Requests' = Requests /\ build' = build
  BY DEF Sorts, Requests
<1>3. Levels(calls, limited)
  BY <1>1, DeeperKeepsLevels
<1>4. \A q \in Requests : Levels(tasks'[q], limited)
  BY <1>3 DEF Sorts, LInv
<1>5. limited' = limited
  BY <1>2
<1> HIDE DEF limited
<1>6. \A q \in Requests' : Levels(tasks'[q], limited')
  BY <1>2, <1>4, <1>5
<1>7. QED
  BY <1>6 DEF LInv, limited, Levels

\* A call that changes, with those that stay as they are.
LEMMA LeafKeepsLevels ==
  ASSUME IInv, LInv, NEW w \in Requests, NEW n \in DOMAIN tasks[w], NEW task,
         task.level = tasks[w][n].level, Sorts(w, [tasks[w] EXCEPT ![n] = task])
  PROVE  LInv'
<1> DEFINE calls == [tasks[w] EXCEPT ![n] = task]
<1>1. Deeper(tasks[w], calls, n, build = "PROCESS")
  BY DEF Deeper
<1>2. Sorts(w, calls)
  OBVIOUS
<1> HIDE DEF calls
<1>3. QED
  BY <1>1, <1>2, SortKeepsLevels

LEMMA ReturnEmptyKeepsLevels ==
  ASSUME IInv, LInv, NEW w \in Requests, NEW n, ReturnEmpty(w, n)
  PROVE  LInv'
<1>1. At(w, n, "called") /\ "called" \in ActiveLabels
  BY DEF ReturnEmpty, ActiveLabels
<1>2. w \in DOMAIN tasks /\ n \in DOMAIN tasks[w] /\ IsCall(tasks[w][n])
  BY <1>1, CallAt
<1> DEFINE task == Relabel(tasks[w][n], "returned")
<1>3. task.level = tasks[w][n].level
  BY <1>2, Relabelled DEF Labels
<1>4. tasks' = [tasks EXCEPT ![w] = [tasks[w] EXCEPT ![n] = task]]
  BY DEF ReturnEmpty, Goto, Relabel
<1> HIDE DEF task
<1>5. Sorts(w, [tasks[w] EXCEPT ![n] = task])
  BY <1>2, <1>4 DEF Sorts, ReturnEmpty, OnlyTasks
<1>6. QED
  BY <1>2, <1>3, <1>5, LeafKeepsLevels

\* A call that prepares what it is to write, or has written it.
LEMMA PreparingKeepsLevels ==
  ASSUME IInv, LInv, NEW w \in Requests, NEW n, NEW label \in ActiveLabels, At(w, n, label),
         NEW label2 \in Labels, NEW items, tasks' = PrepareCall(w, n, label2, items),
         DOMAIN data' = DOMAIN data,
         UNCHANGED <<build, files, t, next, myreq, deal, which, out>>
  PROVE  LInv'
<1> DEFINE task == Prepare(tasks[w][n], label2, items)
<1>1. w \in DOMAIN tasks /\ n \in DOMAIN tasks[w] /\ IsCall(tasks[w][n])
  BY CallAt
<1>2. task.level = tasks[w][n].level
  BY <1>1, Prepared
<1>3. /\ DOMAIN tasks' = DOMAIN tasks /\ \A q \in Requests \ {w} : tasks'[q] = tasks[q]
      /\ tasks'[w] = [tasks[w] EXCEPT ![n] = task]
  BY <1>1, Rewritten DEF IInv, Deals
<1> HIDE DEF task
<1>4. Sorts(w, [tasks[w] EXCEPT ![n] = task])
  BY <1>3 DEF Sorts
<1>5. QED
  BY <1>1, <1>2, <1>4, LeafKeepsLevels

LEMMA SortPartKeepsLevels ==
  ASSUME IInv, LInv, NEW w \in Requests, NEW n, SortPart(w, n)
  PROVE  LInv'
<1> DEFINE items == sort(Part(w, tasks[w][n]))
<1>1. At(w, n, "called") /\ "called" \in ActiveLabels /\ "write" \in Labels
  BY DEF SortPart, ActiveLabels, Labels
<1>2. tasks' = PrepareCall(w, n, "write", items)
      /\ UNCHANGED <<build, files, t, next, myreq, deal, which, data, out>>
  BY DEF SortPart, PrepareCall, OnlyTasks
<1> HIDE DEF items
<1>3. QED
  BY <1>1, <1>2, PreparingKeepsLevels

LEMMA WriteKeepsLevels ==
  ASSUME IInv, LInv, NEW w \in Requests, NEW n, Write(w, n)
  PROVE  LInv'
<1>1. At(w, n, "write") /\ "write" \in ActiveLabels /\ "returned" \in Labels
  BY DEF Write, ActiveLabels, Labels
<1>2. tasks' = PrepareCall(w, n, "returned", <<>>)
      /\ UNCHANGED <<build, files, t, next, myreq, deal, which, out>>
  BY DEF Write, PrepareCall
<1>3. DOMAIN data' = DOMAIN data
  BY DEF Write, Stored
<1>4. QED
  BY <1>1, <1>2, <1>3, PreparingKeepsLevels

LEMMA MergeHalvesKeepsLevels ==
  ASSUME IInv, LInv, NEW w \in Requests, NEW n, MergeHalves(w, n)
  PROVE  LInv'
<1> DEFINE items == merge(Part(w, tasks[w][n]), Mid(tasks[w][n]) - tasks[w][n].l + 1)
           calls == tasks[w]
<1>1. At(w, n, "wait") /\ "wait" \in ActiveLabels
  BY DEF MergeHalves, ActiveLabels
<1>2. n \in DOMAIN calls /\ Tree(calls)
  BY <1>1, CallAt
<1>3. PICK new : Merges(calls, new, n, items) /\ Sorts(w, new)
  BY MergeHalvesMerges
<1> HIDE DEF items, calls
<1>4. \A m \in DOMAIN calls : IsCall(calls[m])
  BY <1>2 DEF Tree
<1>5. ASSUME NEW m \in DOMAIN calls PROVE new[m].level = calls[m].level
  <2>1. CASE m = n
    BY <1>3, <1>4, <2>1, Prepared DEF Merges, Labels
  <2>2. CASE m # n
    <3>1. new[m] = calls[m] \/ new[m] = Relabel(calls[m], "joined")
      BY <1>3, <2>2 DEF Merges
    <3>2. QED
      BY <1>4, <3>1, Relabelled DEF Labels
  <2>3. QED
    BY <2>1, <2>2
<1>6. Deeper(calls, new, n, build = "PROCESS")
  BY <1>3, <1>5 DEF Deeper, Merges
<1>7. QED
  BY <1>3, <1>6, SortKeepsLevels DEF calls

LEMMA GrowingKeepsLevels ==
  ASSUME IInv, LInv, NEW w \in Requests, NEW n, NEW label \in {"called", "left"}, At(w, n, label),
         NEW label2 \in {"left", "wait"}, CallsHalves(w, n, label2),
         build = "PROCESS" => tasks[w][n].level < MAX_LEVEL
  PROVE  LInv'
<1>1. PICK added : NewHalves(added, tasks[w], n) /\ Sorts(w, Extended(tasks[w], n, label2, added))
  BY DEF CallsHalves
<1> DEFINE calls == tasks[w]
           new == Extended(calls, n, label2, added)
           limited == build = "PROCESS"
<1>2. n \in DOMAIN calls /\ n \in Nat \ {0} /\ IsCall(calls[n])
  <2>1. label \in ActiveLabels
    BY DEF ActiveLabels
  <2>2. QED
    BY <2>1, CallAt
<1>3. Sorts(w, new) /\ NewHalves(added, calls, n)
  BY <1>1
<1>4. limited => calls[n].level < MAX_LEVEL
  OBVIOUS
<1> HIDE DEF calls, new, limited
<1>5. IsExtended(new, calls, n, label2, added)
  BY <1>3, WithIs DEF new
<1>6. new[n].level = calls[n].level
  BY <1>2, <1>5, Relabelled DEF IsExtended, Labels
<1>7. ASSUME NEW m \in DOMAIN new \ DOMAIN calls
      PROVE  m # 1 /\ m \div 2 = n /\ new[m].level = calls[n].level + 1
  <2>1. m \in DOMAIN added /\ m \in {2 * n, 2 * n + 1} /\ new[m] = added[m]
    BY <1>3, <1>5, <1>7 DEF IsExtended, NewHalves
  <2>2. m # 1 /\ m \div 2 = n
    BY <1>2, <2>1, Halves
  <2>3. QED
    BY <1>3, <2>1, <2>2 DEF NewHalves
<1>8. Deeper(calls, new, n, limited)
  <2>1. \A m \in DOMAIN calls : new[m].level = calls[m].level
    BY <1>5, <1>6 DEF IsExtended
  <2>2. DOMAIN calls \subseteq DOMAIN new
    BY <1>5 DEF IsExtended
  <2>3. QED
    BY <1>2, <1>4, <1>7, <2>1, <2>2 DEF Deeper
<1>9. QED
  BY <1>3, <1>8, SortKeepsLevels DEF calls, limited

\* A pserver's call that is not a leaf is above MAX_LEVEL.
LEMMA AboveTheLeaves ==
  ASSUME IInv, LInv, NEW w \in Requests, NEW n, At(w, n, "called"), ~IsLeaf(tasks[w][n]),
         build = "PROCESS"
  PROVE  tasks[w][n].level < MAX_LEVEL
<1> DEFINE calls == tasks[w]
<1>1. "called" \in ActiveLabels
  BY DEF ActiveLabels
<1>2. n \in DOMAIN calls /\ n \in Nat \ {0} /\ Tree(calls) /\ Levels(calls, TRUE)
  <2>1. Levels(calls, build = "PROCESS") /\ (build = "PROCESS") = TRUE
    BY DEF LInv
  <2>2. Levels(calls, TRUE)
    BY <2>1 DEF Levels
  <2>3. QED
    BY <1>1, <2>2, CallAt
<1>3. calls[n].level # MAX_LEVEL
  BY DEF IsLeaf
<1> HIDE DEF calls
<1>4. calls[n].level \in Nat /\ MAX_LEVEL \in Nat
  BY <1>2, SortAssumption DEF Tree, IsCall
<1>5. CASE n = 1
  <2>1. calls[n].level = 0
    BY <1>2, <1>5 DEF Levels
  <2>2. QED
    BY <1>3, <1>4, <2>1 DEF calls
<1>6. CASE n # 1
  <2>1. n \div 2 \in DOMAIN calls /\ calls[n].level = calls[n \div 2].level + 1
        /\ calls[n \div 2].level < MAX_LEVEL
    BY <1>2, <1>6 DEF Tree, Levels
  <2>2. calls[n \div 2].level \in Nat
    BY <1>2, <2>1 DEF Tree, IsCall
  <2>3. QED
    BY <1>3, <1>4, <2>1, <2>2 DEF calls
<1>7. QED
  BY <1>5, <1>6

LEMMA CallRightKeepsLevels ==
  ASSUME IInv, LInv, NEW w \in Requests, NEW n, CallRight(w, n)
  PROVE  LInv'
<1> DEFINE calls == tasks[w]
<1>1. At(w, n, "left") /\ At(w, 2 * n, "returned") /\ "left" \in ActiveLabels
  BY DEF CallRight, ActiveLabels
<1>2. n \in Nat \ {0}
  BY <1>1, CallAt
<1>3. build = "PROCESS" => calls[n].level < MAX_LEVEL
  <2>1. 2 * n \in DOMAIN calls /\ 2 * n # 1 /\ (2 * n) \div 2 = n
    BY <1>1, <1>2, Halves DEF At
  <2>2. Levels(calls, build = "PROCESS")
    BY DEF LInv
  <2> HIDE DEF calls
  <2>3. QED
    BY <2>1, <2>2 DEF Levels
<1>4. CallsHalves(w, n, "wait")
  BY CallRightCalls
<1>5. QED
  BY <1>1, <1>3, <1>4, GrowingKeepsLevels

LEMMA CollectKeepsLevels ==
  ASSUME IInv, LInv, NEW q \in Requests, Collect(q)
  PROVE  LInv'
<1>1. UNCHANGED <<build, files, t, next, myreq, out>>
  BY CollectIs
<1>2. PICK outcome \in {"called", "absent"} :
        tasks' = [tasks EXCEPT ![q] = [n \in {1} |-> Call(outcome, 1, Len(data'[q]), 0)]]
  BY CollectIs
<1> DEFINE calls == [n \in {1} |-> Call(outcome, 1, Len(data'[q]), 0)]
           limited == build = "PROCESS"
<1>3. DOMAIN calls = {1} /\ calls[1].level = 0
  BY DEF Call
<1>4. tasks' = [tasks EXCEPT ![q] = calls]
  BY <1>2
<1> HIDE DEF calls
<1>5. tasks'[q] = calls /\ \A p \in Requests \ {q} : tasks'[p] = tasks[p]
  BY <1>4 DEF IInv, Deals
<1>6. Levels(calls, limited)
  BY <1>3 DEF Levels
<1>7. \A p \in Requests : Levels(tasks'[p], limited)
  BY <1>5, <1>6 DEF LInv
<1>8. Requests' = Requests /\ limited' = limited
  BY <1>1 DEF Requests
<1>9. QED
  BY <1>7, <1>8 DEF LInv, Levels

LEMMA StayingKeepsLevels ==
  ASSUME LInv, UNCHANGED <<build, files, tasks>>
  PROVE  LInv'
  BY DEF LInv, Levels, Requests

LEMMA NextKeepsLevels == IInv /\ LInv /\ [Next]_vars => LInv'
<1> SUFFICES ASSUME IInv, LInv, [Next]_vars PROVE LInv'
  OBVIOUS
<1>0. ASSUME Crash PROVE UNCHANGED <<build, files, tasks>>
  BY <1>0 DEF Crash
<1>1. CASE MainStep
  BY <1>0, <1>1, StayingKeepsLevels DEF MainStep, JoinNobody, JoinBatch, Create
<1>2. ASSUME NEW q \in Requests, DealStep(q) PROVE LInv'
  BY <1>0, <1>2, CollectKeepsLevels, StayingKeepsLevels DEF DealStep, SortNobody, WriteAnswer
<1>3. ASSUME NEW q \in Requests, NEW n \in DOMAIN tasks[q], TaskStep(q, n) PROVE LInv'
  <2>1. CASE ReturnEmpty(q, n)
    BY <2>1, ReturnEmptyKeepsLevels
  <2>2. CASE SortPart(q, n)
    BY <2>2, SortPartKeepsLevels
  <2>3. CASE Split(q, n)
    <3>1. At(q, n, "called") /\ ~IsLeaf(tasks[q][n])
      BY <2>3 DEF Split
    <3>2. QED
      BY <2>3, <3>1, AboveTheLeaves, SplitCalls, GrowingKeepsLevels
  <2>4. CASE CallLeft(q, n)
    <3>1. At(q, n, "called") /\ ~IsLeaf(tasks[q][n])
      BY <2>4 DEF CallLeft
    <3>2. QED
      BY <2>4, <3>1, AboveTheLeaves, CallLeftCalls, GrowingKeepsLevels
  <2>5. CASE CallRight(q, n)
    BY <2>5, CallRightKeepsLevels
  <2>6. CASE MergeHalves(q, n)
    BY <2>6, MergeHalvesKeepsLevels
  <2>7. CASE JoinUnset(q, n)
    BY <1>0, <2>7, StayingKeepsLevels DEF JoinUnset
  <2>8. CASE Write(q, n)
    BY <2>8, WriteKeepsLevels
  <2>9. QED
    BY <1>3, <2>1, <2>2, <2>3, <2>4, <2>5, <2>6, <2>7, <2>8 DEF TaskStep
<1>4. CASE UNCHANGED vars
  BY <1>4, StayingKeepsLevels DEF vars
<1>5. QED
  BY <1>1, <1>2, <1>3, <1>4 DEF Next

LEMMA InitLevels == Init => LInv
  BY DEF Init, LInv, Levels

\* The levels of the calls are those of their tree.
THEOREM LevelInvariance == Spec => []LInv
<1>1. QED
  BY Invariance, InitLevels, NextKeepsLevels, PTL DEF Spec

LEMMA TasksAtIs ==
  TasksAt[0] = 1 /\ \A k \in Nat : TasksAt[k] \in Nat \ {0} /\ TasksAt[k + 1] = 2 * TasksAt[k]
<1> DEFINE Body(f) == [k \in Nat |-> IF k = 0 THEN 1 ELSE 2 * f[k - 1]]
           V == Nat \ {0}
           step == [k \in Nat \ {0} |-> [v \in V |-> 2 * v]]
<1>1. 1 \in V /\ step \in [Nat \ {0} -> [V -> V]]
  OBVIOUS
<1> PICK d : RecursesOnNat(d, V, 1, step)
  <2> HIDE DEF step, V
  <2> QED BY <1>1, RecursionOnNat
<1>2. d \in [Nat -> V] /\ d[0] = 1 /\ \A k \in Nat \ {0} : d[k] = step[k][d[k - 1]]
  <2> HIDE DEF step, V
  <2> QED BY DEF RecursesOnNat
<1>3. \A k \in Nat \ {0} : d[k] = 2 * d[k - 1]
  BY <1>2
<1>4. d = Body(d)
  BY <1>2, <1>3
<1>5. TasksAt = CHOOSE f : f = Body(f)
  BY DEF TasksAt
<1>6. TasksAt = Body(TasksAt)
  <2> HIDE DEF Body
  <2> QED BY <1>4, <1>5
<1>7. \A k \in Nat : TasksAt[k] = IF k = 0 THEN 1 ELSE 2 * TasksAt[k - 1]
  BY <1>6
<1> DEFINE S == {k \in Nat : TasksAt[k] \in V}
<1>8. ASSUME NEW n \in Nat PROVE TasksAt[n] \in V
  <2>1. 0 \in S
    BY <1>7
  <2>2. ASSUME NEW k \in Nat, k \in S PROVE k + 1 \in S
    <3>1. k + 1 \in Nat /\ k + 1 # 0 /\ (k + 1) - 1 = k
      OBVIOUS
    <3>2. TasksAt[k + 1] = 2 * TasksAt[k]
      BY <1>7, <3>1
    <3>3. QED
      BY <2>2, <3>2
  <2> HIDE DEF S
  <2>3. 0 .. n \subseteq S
    BY <2>1, <2>2, UpTo
  <2>4. n \in 0 .. n
    OBVIOUS
  <2>5. QED
    BY <2>3, <2>4 DEF S
<1>9. QED
  BY <1>7, <1>8

\* The number of a call at a level, or above it, is below twice the tasks there.
LEMMA NumberAtLevel ==
  ASSUME NEW calls, NEW limited, Tree(calls), Levels(calls, limited), NEW level \in Nat
  PROVE  \A n \in DOMAIN calls : calls[n].level <= level => n < 2 * TasksAt[level]
<1> DEFINE Below(k) == \A n \in DOMAIN calls : calls[n].level <= k => n < 2 * TasksAt[k]
           S == {k \in Nat : Below(k)}
<1>1. \A n \in DOMAIN calls : n \in Nat \ {0} /\ calls[n].level \in Nat
  BY DEF Tree, IsCall
<1>2. ASSUME NEW n \in DOMAIN calls \ {1}
      PROVE  n \div 2 \in DOMAIN calls /\ calls[n].level = calls[n \div 2].level + 1
  BY <1>2 DEF Tree, Levels
<1>3. 0 \in S
  <2> SUFFICES ASSUME NEW n \in DOMAIN calls, calls[n].level <= 0 PROVE n < 2 * TasksAt[0]
    OBVIOUS
  <2>1. n = 1
    BY <1>1, <1>2
  <2>2. QED
    BY <2>1, TasksAtIs
<1>4. ASSUME NEW k \in Nat, k \in S PROVE k + 1 \in S
  <2>1. Below(k) /\ TasksAt[k] \in Nat \ {0} /\ TasksAt[k + 1] = 2 * TasksAt[k]
    BY <1>4, TasksAtIs
  <2> SUFFICES ASSUME NEW n \in DOMAIN calls, calls[n].level <= k + 1 PROVE n < 2 * TasksAt[k + 1]
    OBVIOUS
  <2>2. CASE n = 1
    BY <2>1, <2>2
  <2>3. CASE n # 1
    <3>1. n \div 2 \in DOMAIN calls /\ calls[n \div 2].level <= k
      BY <1>1, <1>2, <2>3
    <3>2. n \div 2 < 2 * TasksAt[k]
      BY <2>1, <3>1
    <3>3. n \in Nat \ {0} /\ n \div 2 \in Nat /\ n <= 2 * (n \div 2) + 1
      BY <1>1, Halves
    <3>4. QED
      BY <2>1, <3>2, <3>3
  <2>4. QED
    BY <2>2, <2>3
<1> HIDE DEF S
<1>5. level \in S
  BY <1>3, <1>4, UpTo
<1>6. QED
  BY <1>5 DEF S

\* A worker other than the first is one of the two halves of its caller, the same
\* one for all, and its number tells which caller.
LEMMA FewWorkers ==
  ASSUME IInv, LInv, NEW q \in Requests
  PROVE  Cardinality(Workers(q)) <= TasksAt[MAX_LEVEL]
<1> DEFINE calls == tasks[q]
           T == 1 .. TasksAt[MAX_LEVEL]
           f == [n \in Workers(q) |-> n \div 2 + 1]
           limited == build = "PROCESS"
<1>1. Tree(calls) /\ Levels(calls, limited) /\ MAX_LEVEL \in Nat
  BY SortAssumption DEF IInv, LInv
<1>2. TasksAt[MAX_LEVEL] \in Nat \ {0}
  BY <1>1, TasksAtIs
<1>3. build \in {"THREAD", "PROCESS"}
  BY DEF IInv, Batch
<1>4. ASSUME NEW n \in Workers(q), n # 1
      PROVE  /\ n \in DOMAIN calls /\ n \in Nat \ {0}
             /\ calls[n].level <= MAX_LEVEL
             /\ n % 2 = IF build = "THREAD" THEN 1 ELSE 0
  <2>1. n \in DOMAIN calls /\ n \in Nat \ {0}
    BY <1>1 DEF Workers, Active, Tree
  <2>2. n \div 2 \in DOMAIN calls /\ calls[n].level = calls[n \div 2].level + 1
        /\ (limited => calls[n \div 2].level < MAX_LEVEL)
    <3> HIDE DEF calls, limited
    <3> QED BY <1>1, <1>4, <2>1 DEF Tree, Levels
  <2>3. calls[n \div 2].level \in Nat
    BY <1>1, <2>2 DEF Tree, IsCall
  <2>4. calls[n \div 2].level < MAX_LEVEL /\ n % 2 = IF build = "THREAD" THEN 1 ELSE 0
    <3>1. CASE build = "THREAD"
      BY <1>4, <3>1 DEF Workers, RunsInParallel
    <3>2. CASE build = "PROCESS"
      BY <1>4, <2>2, <3>2 DEF Workers
    <3>3. QED
      BY <1>3, <3>1, <3>2
  <2>5. QED
    BY <1>1, <2>1, <2>2, <2>3, <2>4
<1>5. ASSUME NEW n \in Workers(q) PROVE n \in Nat \ {0} /\ f[n] = n \div 2 + 1 /\ f[n] \in T
  <2>1. CASE n = 1
    BY <1>2, <2>1
  <2>2. CASE n # 1
    <3>1. n \in DOMAIN calls /\ n \in Nat \ {0} /\ calls[n].level <= MAX_LEVEL
      BY <1>4, <2>2
    <3>2. n < 2 * TasksAt[MAX_LEVEL]
      <4> HIDE DEF calls, limited
      <4> QED BY <1>1, <3>1, NumberAtLevel
    <3>3. n \div 2 \in Nat /\ 2 * (n \div 2) <= n
      BY <3>1, Halves
    <3>4. QED
      BY <1>2, <3>1, <3>2, <3>3
  <2>3. QED
    BY <2>1, <2>2
<1>6. ASSUME NEW n \in Workers(q), NEW m \in Workers(q), f[n] = f[m] PROVE n = m
  <2>1. n \in Nat \ {0} /\ m \in Nat \ {0} /\ n \div 2 = m \div 2
    BY <1>5, <1>6
  <2>2. CASE n = 1 \/ m = 1
    BY <2>1, <2>2
  <2>3. CASE n # 1 /\ m # 1
    <3>1. n % 2 = m % 2
      BY <1>4, <2>3
    <3>2. n = 2 * (n \div 2) + (n % 2) /\ m = 2 * (m \div 2) + (m % 2)
      BY <2>1
    <3>3. QED
      BY <2>1, <3>1, <3>2
  <2>4. QED
    BY <2>2, <2>3
<1>7. IsFiniteSet(T) /\ Cardinality(T) = TasksAt[MAX_LEVEL]
  <2> DEFINE N == TasksAt[MAX_LEVEL]
  <2>1. N \in Nat \ {0}
    BY <1>2
  <2> HIDE DEF N
  <2>2. IsFiniteSet(1 .. N) /\ Cardinality(1 .. N) = N
    BY <2>1, FS_Interval
  <2>3. QED
    BY <2>2 DEF N
<1> DEFINE W == Workers(q)
<1>8. f \in Injection(W, T)
  <2>1. f \in [W -> T]
    BY <1>5
  <2>2. \A n, m \in W : f[n] = f[m] => n = m
    BY <1>6
  <2> HIDE DEF f, W, T
  <2>3. QED
    BY <2>1, <2>2 DEF Injection, IsInjective
<1> HIDE DEF f, T
<1>9. Cardinality(W) <= Cardinality(T)
  <2> HIDE DEF W
  <2> QED BY <1>7, <1>8, FS_Injection
<1>10. QED
  BY <1>7, <1>9

LEMMA InvImpliesWorkersAreFew == IInv /\ LInv => WorkersAreFew
<1> SUFFICES ASSUME IInv, LInv PROVE WorkersAreFew
  OBVIOUS
<1> DEFINE dealt == {q \in Requests : deal[q] \in {"created", "sorting"}}
<1>1. Cardinality(dealt) <= REQ_THREAD
  <2>1. /\ Requests = 1 .. Len(files.requests) /\ Len(files.requests) \in Nat
        /\ t \in Nat /\ next \in Nat /\ next - t <= REQ_THREAD /\ REQ_THREAD \in Nat
    BY RequestsAre DEF IInv, Batch
  <2>2. ASSUME NEW q \in dealt PROVE q \in t + 1 .. next
    <3>1. q \in Nat /\ ~(q > next) /\ ~(q <= t)
      BY <2>1 DEF IInv, Deals
    <3>2. QED
      BY <2>1, <3>1
  <2> HIDE DEF dealt
  <2>3. /\ IsFiniteSet(t + 1 .. next)
        /\ Cardinality(t + 1 .. next) = IF t + 1 > next THEN 0 ELSE next - (t + 1) + 1
    <3>1. t + 1 \in Int /\ next \in Int
      BY <2>1
    <3>2. QED
      BY <3>1, FS_Interval
  <2>4. Cardinality(dealt) <= Cardinality(t + 1 .. next) /\ IsFiniteSet(dealt)
    <3>1. dealt \in SUBSET (t + 1 .. next)
      BY <2>2
    <3>2. QED
      BY <2>3, <3>1, FS_Subset
  <2>5. Cardinality(dealt) \in Nat
    BY <2>4, FS_CardinalityType
  <2>6. QED
    BY <2>1, <2>3, <2>4, <2>5
<1>2. QED
  BY <1>1, FewWorkers DEF WorkersAreFew

\* At most one batch is dealt with at a time, and the threads or processes of a sort
\* are never more than the tasks at MAX_LEVEL (a half runs by itself only if its
\* caller is above that level).
THEOREM WorkersStayFew == Spec => []WorkersAreFew
<1>1. QED
  BY Invariance, LevelInvariance, InvImpliesWorkersAreFew, PTL
=============================================================================
