----------------------------- MODULE SortLibrary ----------------------------
(***************************************************************************)
(* HW4: the sort of lib.c and the merge of server.c on sequences.  An item *)
(* is a movie with its score for a request; secret counts the suffixes     *)
(* that add_secret has put on its name.  A suffix begins with a character  *)
(* below all others, so that it does not change the order of names, and    *)
(* names are numbers.                                                      *)
(***************************************************************************)
EXTENDS Integers, FiniteSets, SequencesExt

\* The order of the answer: by falling score, then by name.
Before(x, y) == x.score > y.score \/ (x.score = y.score /\ x.name < y.name)

\* Slip: of equal scores the first one is taken.
argmaxFirst(s, start) ==
  LET ret[k \in 0 .. Len(s) - start] ==
        IF k = 0 THEN start
        ELSE LET best == ret[k - 1]
             IN  IF s[start + k].score > s[best].score THEN start + k ELSE best
  IN  ret[Len(s) - start]

\* The place of the item that comes first from start on.
argmax(s, start) ==
  LET ret[k \in 0 .. Len(s) - start] ==
        IF k = 0 THEN start
        ELSE LET best == ret[k - 1]
             IN  IF \/ s[start + k].score > s[best].score
                    \/ s[start + k].score = s[best].score /\ s[best].name > s[start + k].name
                 THEN start + k ELSE best
  IN  ret[Len(s) - start]

add_secret(s, i) == [s EXCEPT ![i].secret = @ + 1]

Exchange(s, i, j) == [s EXCEPT ![i] = s[j], ![j] = s[i]]

\* One round of the sort: the best of the rest comes to place i.
Select(s, i) == add_secret(Exchange(s, i, argmax(s, i)), i)

\* Slip: the loop runs to the end, and the last name gets a second secret.
sortLast(s) ==
  LET done[i \in 0 .. Len(s)] == IF i = 0 THEN s ELSE Select(done[i - 1], i)
  IN  add_secret(done[Len(s)], Len(s))

\* Selection sort of at least one item; every name that is in its place gets the
\* secret.
sort(s) ==
  LET done[i \in 0 .. Len(s) - 1] == IF i = 0 THEN s ELSE Select(done[i - 1], i)
  IN  add_secret(done[Len(s) - 1], Len(s))

\* Whether item i of the left half is the next one, when the right one is at j.
TakesLeft(s, mid, i, j) == i <= mid /\ (j > Len(s) \/ Before(s[i], s[j]))

\* The two halves of s, the first of which ends at mid, become one; left says how
\* many of the first k items are from the left half.
merge(s, mid) ==
  LET take == [k \in 1 .. Len(s) |->
                 [i \in 0 .. mid |-> IF TakesLeft(s, mid, i + 1, mid + k - i) THEN i + 1 ELSE i]]
      left[k \in 0 .. Len(s)] == IF k = 0 THEN 0 ELSE take[k][left[k - 1]]
  IN  [k \in 1 .. Len(s) |-> IF left[k] > left[k - 1] THEN s[left[k]] ELSE s[mid + k - left[k]]]

-----------------------------------------------------------------------------
(***************************************************************************)
(* What a request is to be answered with: the same items, in order, each   *)
(* with one secret.                                                        *)
(***************************************************************************)
SameMovie(x, y) == x.score = y.score /\ x.name = y.name

\* Every movie is in the one as often as in the other.
SameItems(s, u) ==
  /\ Len(s) = Len(u)
  /\ \A x \in ToSet(s) : Cardinality({k \in DOMAIN s : SameMovie(s[k], x)})
                          = Cardinality({k \in DOMAIN u : SameMovie(u[k], x)})

InOrder(s) == \A j, k \in DOMAIN s : j < k => ~Before(s[k], s[j])

IsAnswer(s, u) == SameItems(s, u) /\ InOrder(s) /\ \A k \in DOMAIN s : s[k].secret = 1
=============================================================================
