------------------------------ MODULE Answers -------------------------------
(***************************************************************************)
(* HW4, abstractly: every request is answered at most once, at one moment. *)
(* The answer lists the movies the request matches, the closest ones       *)
(* first, each with one secret.  A request one of whose threads or         *)
(* processes could not be created may be answered in any order and with    *)
(* secrets missing, or the server may crash and lose the ends of answers.  *)
(***************************************************************************)
EXTENDS MovieRequests

VARIABLES
  files,
  out,      \* the answers given: none or one for a request
  failed    \* the requests for which a creation has failed

AnswersInit == out = [q \in DOMAIN files.requests |-> {}] /\ failed = {}

Names(s) == [k \in DOMAIN s |-> s[k].name]

AnswerOne ==
  /\ \E q \in DOMAIN files.requests :
       /\ out[q] = {}
       /\ \E s \in out'[q] :
            /\ out' = [out EXCEPT ![q] = {s}]
            /\ IF q \notin failed
               THEN Names(s) = Wanted(files, q) /\ \A k \in DOMAIN s : s[k].secret = 1
               ELSE /\ SortSeq(Names(s), <) = SortSeq(Wanted(files, q), <)
                    /\ \A k \in DOMAIN s : s[k].secret <= 1
  /\ UNCHANGED <<files, failed>>

Fail ==
  /\ \E q \in DOMAIN files.requests : out[q] = {} /\ failed' = failed \union {q}
  /\ UNCHANGED <<files, out>>

Crash ==
  /\ failed # {}
  /\ \E lost \in [DOMAIN files.requests -> 0 .. Len(files.movies)] :
       out' = [q \in DOMAIN files.requests |-> {Beginning(s, lost[q]) : s \in out[q]}]
  /\ UNCHANGED <<files, failed>>

AnswersSpec == AnswersInit /\ [][AnswerOne \/ Fail \/ Crash]_<<files, out, failed>>
=============================================================================
