------------------------------ MODULE Threads -------------------------------
(***************************************************************************)
(* HW3, abstractly: threads that share one processor and give it up of     *)
(* their own accord.  One of them waits for lines of input.                *)
(***************************************************************************)
EXTENDS Integers

CONSTANTS Functions, Reader

VARIABLES
  life,     \* absent, ready, running, waiting or finished
  unread    \* the lines written and not read

In(where) == {f \in Functions : life[f] = where}

ThreadsInit ==
  /\ life \in [Functions -> {"absent", "ready", "running"}]
  /\ \E f \in Functions : In("running") = {f}
  /\ unread = 0

\* The running thread, if there is one, becomes ready, waits or is finished; those
\* that wait and have input become ready; a ready thread runs, the same one as
\* before only if it is the only one.
Switch ==
  \E to \in {"ready", "waiting", "finished"} :
    LET after == [f \in Functions |->
                    IF f \in In("running") THEN to
                    ELSE IF f \in In("waiting") /\ unread > 0 THEN "ready" ELSE life[f]]
        ready  == {f \in Functions : after[f] = "ready"}
        others == ready \ In("running")
    IN  /\ to = "waiting" => In("running") \subseteq {Reader}
        /\ IF ready = {} THEN life' = after
           ELSE \E f \in IF others = {} THEN ready ELSE others :
                  life' = [after EXCEPT ![f] = "running"]
        /\ UNCHANGED unread

ReadLine == Reader \in In("running") /\ unread > 0 /\ unread' = unread - 1 /\ UNCHANGED life

WriteLine == Reader \notin In("finished") /\ unread' = unread + 1 /\ UNCHANGED life

ThreadsNext == Switch \/ ReadLine \/ WriteLine

ThreadsSpec == ThreadsInit /\ [][ThreadsNext]_<<life, unread>>
=============================================================================
