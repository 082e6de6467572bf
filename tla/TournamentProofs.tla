-------------------------- MODULE TournamentProofs --------------------------
(***************************************************************************)
(* What holds of the tournament in every well-formed tree of processes,    *)
(* for every roster.                                                       *)
(***************************************************************************)
EXTENDS Tournament, InductionLemmas, FiniteSetTheorems, SequenceTheorems, TLAPS

-----------------------------------------------------------------------------
(***************************************************************************)
(* The inductive invariant.                                                *)
(***************************************************************************)
BattleLabels ==
  {"fork_1", "fork_2", "enter_1", "enter_2", "play", "read_1", "read_2",
   "wait", "relay_up", "relay_down", "last_wait"}
PlayerLabels ==
  {"start", "fight", "open_write", "hand_over", "open_read", "take_over"}

\* The types of the variables.
Values ==
  /\ roster \in Rosters
  /\ pc \in [Procs -> BattleLabels \union PlayerLabels \union Gone \union {"unborn"}]
  /\ \A x \in Procs : (pc[x] \in BattleLabels => x \in Battles) /\ (pc[x] \in PlayerLabels => x \in Players)
  /\ status \in [Battles -> [1 .. 2 -> Statuses]]
  /\ win \in [Battles -> 0 .. 2]
  /\ mystatus \in [Players -> Statuses]
  /\ origin_HP \in [Players -> Int]
  /\ down \in [Procs -> Seq(Statuses)]
  /\ up \in [Procs -> Seq(Statuses)]
  /\ fifos \subseteq Players
  /\ fifo \in [Players -> Seq(Statuses)]
  /\ champion \in Numbers \union {-1}

\* A status of somebody who can fight.
Fit(s) == s \in Statuses /\ s.player \in Numbers /\ s.HP > 0 /\ s.ended = 0

\* A status after which its player, and every battle on the way to it, leaves.
Final(s) == s.HP <= 0 \/ (s.battle = "A" /\ s.ended = 1)

\* What a battle tells a player: nobody without HP fights on.
Proper(s) == s \in Statuses /\ s.player \in Numbers /\ (s.HP <= 0 => s.ended = 1)

\* What a child does, as its parent sees it.
Quiet(c) == up[c] = <<>> /\ down[c] = <<>>
Listens(c) == pc[c] \in {"fight", "relay_down"}
Early == {"start", "open_read", "take_over", "fork_1", "fork_2", "enter_1", "enter_2", "play",
          "read_1", "read_2", "wait"}
Late == {"open_write", "hand_over", "last_wait"}

Waits(c) == Listens(c) /\ Quiet(c)
Begins(c) == Quiet(c) /\ pc[c] \in Early \union {"relay_up"}
Answers(c) == Listens(c) /\ down[c] = <<>> /\ \E s \in Statuses : up[c] = <<s>> /\ Fit(s)
IsTold(c, s) == Listens(c) /\ up[c] = <<>> /\ down[c] = <<s>>
Passes(c, s) == pc[c] = "relay_up" /\ Quiet(c) /\ status[c][win[c]] = s
Leaves(c) == Quiet(c) /\ pc[c] \in Late \union {"exit"}

\* What a battle expects of the child in its seat i.
Unborn(b, i) == pc[b] \in {"unborn", "fork_1"} \/ (pc[b] = "fork_2" /\ i = 2)
Due(b, i) == (pc[b] = "fork_2" /\ i = 1) \/ pc[b] = "enter_1" \/ (pc[b] = "enter_2" /\ i = 2)
Held(b, i) == (pc[b] \in {"enter_2", "read_2"} /\ i = 1) \/ pc[b] = "play"
Replayed(b, i) == pc[b] = "read_1" \/ (pc[b] = "read_2" /\ i = 2)
Free(b, i) == Held(b, i) \/ (pc[b] = "relay_down" /\ i = win[b])
Owed(b, i) == Replayed(b, i) \/ (pc[b] \in {"wait", "relay_up"} /\ b # "A" /\ i = win[b])
Ending(b, i) ==
  \/ pc[b] = "wait" /\ (b = "A" \/ i # win[b])
  \/ pc[b] = "last_wait" /\ (IF b = "A" THEN pc[Children[b][i]] # "reaped" ELSE i = win[b])
Over(b, i) ==
  \/ pc[b] \in Gone
  \/ pc[b] \in {"relay_up", "relay_down"} /\ i # win[b]
  \/ pc[b] = "last_wait" /\ (IF b = "A" THEN pc[Children[b][i]] = "reaped" ELSE i # win[b])

\* A parent and its child agree on whose turn it is, and on what has been said: the
\* parent keeps the last status that it has sent down.
Link(b, i) ==
  LET c == Children[b][i]
      s == status[b][i]
  IN  /\ Unborn(b, i) => pc[c] = "unborn" /\ Quiet(c)
      /\ Due(b, i) => Begins(c) \/ Answers(c)
      /\ Free(b, i) => Waits(c)
      /\ Held(b, i) => Fit(s) /\ s.battle = b
      /\ Replayed(b, i) => s.ended = 0 /\ s.battle = b
      /\ Owed(b, i) => /\ Proper(s) /\ ~Final(s)
                       /\ IsTold(c, s) \/ Passes(c, s) \/ (Answers(c) /\ (s.ended = 0 => up[c] = <<s>>))
      /\ Ending(b, i) => Proper(s) /\ Final(s) /\ (IsTold(c, s) \/ Leaves(c))
      /\ Over(b, i) => pc[c] = "reaped" /\ Quiet(c)

Links == \A b \in Battles, i \in 1 .. 2 : Link(b, i)

\* A battle that has begun is not its own child, and one that is over has a winner; A
\* has nobody above it, and when it waits for the last child the other one has been
\* waited for.
Battle(b) ==
  /\ pc[b] # "unborn" => \A i \in 1 .. 2 : Children[b][i] # b
  /\ pc[b] \in {"wait", "relay_up", "relay_down", "last_wait"} => win[b] \in 1 .. 2
  /\ b = "A" => /\ Quiet(b) /\ pc[b] \notin {"unborn", "relay_up", "relay_down"}
                /\ pc[b] = "last_wait" => \E i \in 1 .. 2 : pc[Children[b][i]] = "reaped"

AllBattles == \A b \in Battles : Battle(b)

\* A loser hands a fit status over to an agent that waits for it, and is the only one to do so.
MyAgent(p) == Agent[mystatus[p].battle]

Player(p) ==
  /\ pc[p] = "fight" => origin_HP[p] > 0
  /\ pc[p] \in {"open_write", "hand_over"} => Fit(mystatus[p])
  /\ pc[p] = "hand_over" => MyAgent(p) \in Players /\ pc[MyAgent(p)] = "take_over" /\ fifo[MyAgent(p)] = <<>>
  /\ fifo[p] # <<>> => pc[p] = "take_over" /\ \E s \in Statuses : fifo[p] = <<s>> /\ Fit(s)

AllPlayers == \A p \in Players : Player(p)

Alone == \A p, q \in Players : pc[p] = "hand_over" /\ pc[q] = "hand_over" /\ MyAgent(p) = MyAgent(q) => p = q

IInv == Values /\ Links /\ AllBattles /\ AllPlayers /\ Alone

-----------------------------------------------------------------------------
(***************************************************************************)
(* The tree.                                                               *)
(***************************************************************************)

\* Every process but the root is the child of one battle, in one seat.
LEMMA Tree ==
  /\ "A" \in Battles /\ Battles \intersect Players = {}
  /\ \A b \in Battles, i \in 1 .. 2 : Children[b][i] \in Procs \ {"A"}
  /\ \A b \in Battles : ToSet(Children[b]) = {Children[b][1], Children[b][2]}
  /\ \A b, d \in Battles, i, j \in 1 .. 2 : Children[b][i] = Children[d][j] => b = d /\ i = j
  /\ \A x \in Procs \ {"A"} : \E b \in Battles, i \in 1 .. 2 : Children[b][i] = x
<1> DEFINE Seats == Battles \X (1 .. 2)
<1>1. /\ "A" \in Battles /\ Battles \intersect Players = {} /\ IsFiniteSet(Procs)
      /\ \A b \in Battles : Children[b] \in (Procs \ {"A"}) \X (Procs \ {"A"})
      /\ \A x \in Procs \ {"A"} : Cardinality({s \in Seats : Children[s[1]][s[2]] = x}) = 1
  BY TournamentAssumption DEF WellFormed, Procs, Battles, Players
<1>2. ASSUME NEW b \in Battles
      PROVE  /\ \A i \in 1 .. 2 : Children[b][i] \in Procs \ {"A"}
             /\ ToSet(Children[b]) = {Children[b][1], Children[b][2]}
  <2>1. PICK x, y \in Procs \ {"A"} : Children[b] = <<x, y>>
    BY <1>1
  <2>2. ToSet(<<x, y>>) = {x, y}
    BY DEF ToSet
  <2>3. QED
    BY <2>1, <2>2
<1>3. ASSUME NEW x \in Procs \ {"A"}
      PROVE  \E seat \in Seats : {s \in Seats : Children[s[1]][s[2]] = x} = {seat}
  <2> DEFINE S == {s \in Seats : Children[s[1]][s[2]] = x}
  <2>1. IsFiniteSet(Battles)
    BY <1>1, FS_Subset DEF Procs
  <2>2. IsFiniteSet(1 .. 2)
    <3>1. 1 \in Int /\ 2 \in Int
      OBVIOUS
    <3>2. QED
      BY <3>1, FS_Interval
  <2>3. IsFiniteSet(Seats)
    BY <2>1, <2>2, FS_Product
  <2>4. IsFiniteSet(S)
    BY <2>3, FS_Subset
  <2>5. Cardinality(S) = 1
    BY <1>1
  <2>6. \E seat : S = {seat}
    <3> HIDE DEF S
    <3> QED BY <2>4, <2>5, FS_Singleton
  <2>7. S \subseteq Seats
    OBVIOUS
  <2>8. QED
    BY <2>6, <2>7
<1>4. ASSUME NEW b \in Battles, NEW d \in Battles, NEW i \in 1 .. 2, NEW j \in 1 .. 2,
             Children[b][i] = Children[d][j]
      PROVE  b = d /\ i = j
  <2> DEFINE x == Children[b][i]
  <2>1. x \in Procs \ {"A"}
    BY <1>2
  <2>2. PICK seat \in Seats : {s \in Seats : Children[s[1]][s[2]] = x} = {seat}
    BY <1>3, <2>1
  <2>3. <<b, i>> \in {s \in Seats : Children[s[1]][s[2]] = x}
    OBVIOUS
  <2>4. <<d, j>> \in {s \in Seats : Children[s[1]][s[2]] = x}
    BY <1>4
  <2>5. <<b, i>> = <<d, j>>
    BY <2>2, <2>3, <2>4
  <2>6. QED
    BY <2>5
<1>5. ASSUME NEW x \in Procs \ {"A"}
      PROVE  \E b \in Battles, i \in 1 .. 2 : Children[b][i] = x
  <2>1. PICK seat \in Seats : {s \in Seats : Children[s[1]][s[2]] = x} = {seat}
    BY <1>3
  <2>2. seat \in {s \in Seats : Children[s[1]][s[2]] = x}
    BY <2>1
  <2>3. seat[1] \in Battles /\ seat[2] \in 1 .. 2 /\ Children[seat[1]][seat[2]] = x
    BY <2>2
  <2>4. QED
    BY <2>3
<1>6. QED
  BY <1>1, <1>2, <1>4, <1>5

-----------------------------------------------------------------------------
(***************************************************************************)
(* A link under the steps of others and of its child.                      *)
(***************************************************************************)

\* The parent b does nothing.
Rests(b) == UNCHANGED <<pc[b], win[b], status[b], roster>>

\* Neither does its child.
LEMMA LinkRests ==
  ASSUME NEW b \in Battles, NEW i \in 1 .. 2, NEW c, c = Children[b][i], Link(b, i), Rests(b),
         UNCHANGED <<pc[c], up[c], down[c]>>, pc[c] = "relay_up" => UNCHANGED <<status[c], win[c]>>
  PROVE  Link(b, i)'
BY DEF Rests, Link, Unborn, Due, Free, Held, Replayed, Owed, Ending, Over, Quiet, Listens, Waits, Begins,
       Answers, IsTold, Passes, Leaves, Fit, Proper, Final, Statuses, Numbers

\* What is expected of a child does not depend on the child's steps.
LEMMA StageRests ==
  ASSUME NEW b \in Battles, NEW i \in 1 .. 2, NEW c, c = Children[b][i], Rests(b),
         pc[c] # "reaped", pc'[c] # "reaped"
  PROVE  /\ Unborn(b, i)' <=> Unborn(b, i)
         /\ Due(b, i)' <=> Due(b, i)
         /\ Free(b, i)' <=> Free(b, i)
         /\ Held(b, i)' <=> Held(b, i)
         /\ Replayed(b, i)' <=> Replayed(b, i)
         /\ Owed(b, i)' <=> Owed(b, i)
         /\ Ending(b, i)' <=> Ending(b, i)
         /\ Over(b, i)' <=> Over(b, i)
BY DEF Rests, Unborn, Due, Free, Held, Replayed, Owed, Ending, Over

\* A child that has not spoken yet goes on, and speaks sooner or later.
LEMMA EarlyStep ==
  ASSUME NEW b \in Battles, NEW i \in 1 .. 2, NEW c, c = Children[b][i], Link(b, i), Rests(b),
         pc[c] \in Early, pc'[c] # "reaped", Quiet(c) => Begins(c)' \/ Answers(c)'
  PROVE  Link(b, i)'
<1>1. pc[c] # "reaped" /\ pc[c] # "unborn" /\ ~Listens(c) /\ pc[c] # "relay_up" /\ pc[c] \notin Late \union {"exit"}
  BY DEF Early, Listens, Late
<1>2. ~Answers(c) /\ ~Waits(c) /\ ~Leaves(c) /\ \A s : ~IsTold(c, s) /\ ~Passes(c, s)
  BY <1>1 DEF Answers, Waits, Leaves, IsTold, Passes
<1>3. ~Unborn(b, i) /\ ~Free(b, i) /\ ~Owed(b, i) /\ ~Ending(b, i) /\ ~Over(b, i)
  BY <1>1, <1>2 DEF Link
<1>4. ~Held(b, i) /\ ~Replayed(b, i)
  BY <1>3 DEF Free, Owed
<1>5. Due(b, i) => Quiet(c)
  BY <1>2 DEF Link, Begins
<1>6. QED
  BY <1>1, <1>3, <1>4, <1>5, StageRests DEF Link

\* The winner's answer is passed on.
LEMMA RelayStep ==
  ASSUME NEW b \in Battles, NEW i \in 1 .. 2, NEW c, c = Children[b][i], Link(b, i), Rests(b),
         pc[c] = "relay_up", pc'[c] # "reaped", Quiet(c) => Answers(c)',
         Quiet(c) /\ status[c][win[c]].ended = 0 => up'[c] = <<status[c][win[c]]>>
  PROVE  Link(b, i)'
<1>1. ~Answers(c) /\ ~Waits(c) /\ ~Leaves(c) /\ \A s : ~IsTold(c, s)
  BY DEF Answers, Waits, Leaves, IsTold, Listens, Late
<1>2. ~Unborn(b, i) /\ ~Free(b, i) /\ ~Ending(b, i) /\ ~Over(b, i) /\ ~Held(b, i)
  BY <1>1 DEF Link, Free
<1>3. CASE Owed(b, i)
  <2> DEFINE s == status[b][i]
  <2>1. Proper(s) /\ ~Final(s) /\ Passes(c, s) /\ (Replayed(b, i) => s.ended = 0 /\ s.battle = b)
    BY <1>1, <1>3 DEF Link
  <2>2. Quiet(c) /\ status[c][win[c]] = s
    BY <2>1 DEF Passes
  <2>3. Answers(c)' /\ (s.ended = 0 => up'[c] = <<s>>)
    BY <2>2
  <2>4. status'[b] = status[b] /\ (Proper(s)' <=> Proper(s))
    BY DEF Rests, Proper, Statuses, Numbers
  <2>5. ~Due(b, i)
    BY <1>3 DEF Owed, Due, Replayed
  <2>6. QED
    BY <1>2, <2>1, <2>3, <2>4, <2>5, StageRests DEF Link, Final
<1>4. CASE ~Owed(b, i)
  <2>1. ~Replayed(b, i)
    BY <1>4 DEF Owed
  <2>2. Due(b, i) => Quiet(c)
    BY <1>1 DEF Link, Begins
  <2>3. QED
    BY <1>2, <1>4, <2>1, <2>2, StageRests DEF Link
<1>5. QED
  BY <1>3, <1>4

\* What a child makes of a status.
Heeds(c, s) ==
  /\ Proper(s) /\ ~Final(s) => Passes(c, s)' \/ (Answers(c)' /\ (s.ended = 0 => up'[c] = <<s>>))
  /\ Proper(s) /\ Final(s) => Leaves(c)'

\* A child that has been told something answers, passes it on or leaves.
LEMMA ToldStep ==
  ASSUME NEW b \in Battles, NEW i \in 1 .. 2, NEW c, c = Children[b][i], Link(b, i), Rests(b),
         Listens(c), down[c] # <<>>, pc'[c] # "reaped",
         \A s : IsTold(c, s) => Heeds(c, s)
  PROVE  Link(b, i)'
<1> PICK s : s = status[b][i]
  OBVIOUS
<1>1. /\ ~Answers(c) /\ ~Waits(c) /\ ~Leaves(c) /\ ~Begins(c) /\ ~Passes(c, s)
      /\ pc[c] # "unborn" /\ pc[c] # "reaped"
  BY DEF Answers, Waits, Leaves, Begins, Passes, Quiet, Listens
<1>2. ~Unborn(b, i) /\ ~Due(b, i) /\ ~Free(b, i) /\ ~Held(b, i) /\ ~Over(b, i)
  BY <1>1 DEF Link, Free
<1>3. Owed(b, i) => Proper(s) /\ ~Final(s) /\ IsTold(c, s)
  BY <1>1 DEF Link
<1>4. Ending(b, i) => Proper(s) /\ Final(s) /\ IsTold(c, s)
  BY <1>1 DEF Link
<1>5. status'[b] = status[b] /\ (Proper(s)' <=> Proper(s)) /\ (Final(s)' <=> Final(s))
  BY DEF Rests, Proper, Statuses, Numbers, Final
<1>6. ~Replayed(b, i) \/ (s.ended = 0 /\ s.battle = b)
  BY DEF Link
<1>7. Owed(b, i) => Passes(c, s)' \/ (Answers(c)' /\ (s.ended = 0 => up'[c] = <<s>>))
  BY <1>3 DEF Heeds
<1>8. Ending(b, i) => Leaves(c)'
  BY <1>4 DEF Heeds
<1>9. /\ ~Unborn(b, i)' /\ ~Due(b, i)' /\ ~Free(b, i)' /\ ~Held(b, i)' /\ ~Over(b, i)'
      /\ Owed(b, i)' <=> Owed(b, i)
      /\ Ending(b, i)' <=> Ending(b, i)
      /\ Replayed(b, i)' <=> Replayed(b, i)
  BY <1>1, <1>2, StageRests
<1>10. s = status'[b][i]
  BY <1>5
<1>11. QED
  BY <1>3, <1>4, <1>5, <1>6, <1>7, <1>8, <1>9, <1>10 DEF Link

\* A child that leaves.
LEMMA LateStep ==
  ASSUME NEW b \in Battles, NEW i \in 1 .. 2, NEW c, c = Children[b][i], Link(b, i), Rests(b),
         pc[c] \in Late, Quiet(c) => Leaves(c)', pc'[c] # "reaped"
  PROVE  Link(b, i)'
<1> DEFINE s == status[b][i]
<1>1. pc[c] # "reaped" /\ pc[c] # "unborn" /\ pc[c] # "relay_up" /\ pc[c] \notin Early /\ ~Listens(c)
  BY DEF Early, Listens, Late
<1>2. ~Answers(c) /\ ~Waits(c) /\ ~Begins(c) /\ ~Passes(c, s) /\ ~IsTold(c, s)
  BY <1>1 DEF Answers, Waits, Begins, Passes, IsTold
<1>3. /\ ~Unborn(b, i) /\ ~Due(b, i) /\ ~Free(b, i) /\ ~Held(b, i) /\ ~Over(b, i)
      /\ ~Owed(b, i) /\ ~Replayed(b, i)
  BY <1>1, <1>2 DEF Link, Free, Owed
<1>4. Ending(b, i) => Proper(s) /\ Final(s) /\ Quiet(c)
  BY <1>2 DEF Link, Leaves
<1>5. status'[b] = status[b] /\ (Proper(s)' <=> Proper(s))
  BY DEF Rests, Proper, Statuses, Numbers
<1>6. QED
  BY <1>1, <1>3, <1>4, <1>5, StageRests DEF Link, Final

\* A battle expects something of its children in every state.
LEMMA Stages ==
  ASSUME IInv, NEW b \in Battles, NEW i \in 1 .. 2
  PROVE  Unborn(b, i) \/ Due(b, i) \/ Free(b, i) \/ Owed(b, i) \/ Ending(b, i) \/ Over(b, i)
<1>1. pc[b] \in BattleLabels \union PlayerLabels \union Gone \union {"unborn"}
  BY DEF IInv, Values, Procs
<1>2. pc[b] \notin PlayerLabels
  BY Tree DEF IInv, Values, Procs
<1>3. pc[b] \in {"relay_up", "relay_down"} => b # "A"
  BY Tree DEF IInv, AllBattles, Battle
<1>4. QED
  BY <1>1, <1>2, <1>3
  DEF Unborn, Due, Free, Held, Owed, Replayed, Ending, Over, BattleLabels, PlayerLabels, Gone

\* A process that finds something in its stdin has been told the status that its
\* parent keeps.
LEMMA ToldIs ==
  ASSUME IInv, NEW b \in Battles, NEW i \in 1 .. 2, NEW c, c = Children[b][i],
         Listens(c), down[c] # <<>>
  PROVE  IsTold(c, status[b][i]) /\ Proper(status[b][i])
<1> DEFINE s == status[b][i]
<1>1. /\ ~Answers(c) /\ ~Waits(c) /\ ~Leaves(c) /\ ~Begins(c) /\ ~Passes(c, s)
      /\ pc[c] # "unborn" /\ pc[c] # "reaped"
  BY DEF Answers, Waits, Leaves, Begins, Passes, Quiet, Listens, Late
<1>2. Link(b, i)
  BY DEF IInv, Links
<1>3. ~Unborn(b, i) /\ ~Due(b, i) /\ ~Free(b, i) /\ ~Over(b, i)
  BY <1>1, <1>2 DEF Link
<1>4. Owed(b, i) \/ Ending(b, i)
  BY <1>3, Stages
<1>5. QED
  BY <1>1, <1>2, <1>4 DEF Link

-----------------------------------------------------------------------------
(***************************************************************************)
(* What a step leaves alone.                                               *)
(***************************************************************************)

\* The child c does nothing.
Still(c) ==
  /\ pc'[c] = pc[c] /\ up'[c] = up[c] /\ down'[c] = down[c]
  /\ pc[c] = "relay_up" => status'[c] = status[c] /\ win'[c] = win[c]

\* Only the battles in P change as parents and only the processes in K as children.
LEMMA LinksFrame ==
  ASSUME Links, NEW P, NEW K,
         \A d \in Battles : d \notin P => Rests(d),
         \A x \in Procs : x \notin K => Still(x),
         \A d \in Battles, j \in 1 .. 2 : d \in P \/ Children[d][j] \in K => Link(d, j)'
  PROVE  Links'
<1> SUFFICES ASSUME NEW d \in Battles, NEW j \in 1 .. 2 PROVE Link(d, j)'
  BY DEF Links
<1>1. CASE d \in P \/ Children[d][j] \in K
  BY <1>1
<1>2. CASE d \notin P /\ Children[d][j] \notin K
  <2>1. Link(d, j) /\ Rests(d)
    BY <1>2 DEF Links
  <2>2. Children[d][j] \in Procs
    BY Tree
  <2>3. PICK c : c = Children[d][j]
    OBVIOUS
  <2>4. UNCHANGED <<pc[c], up[c], down[c]>> /\ (pc[c] = "relay_up" => UNCHANGED <<status[c], win[c]>>)
    BY <1>2, <2>2, <2>3 DEF Still
  <2>5. QED
    BY <2>1, <2>3, <2>4, LinkRests
<1>3. QED
  BY <1>1, <1>2

\* Players whose status nobody touches.
LEMMA PlayersRest ==
  ASSUME AllPlayers, Alone, UNCHANGED <<mystatus, origin_HP, fifo, roster>>,
         \A p \in Players : /\ pc'[p] \in {"fight", "open_write", "hand_over"} => pc'[p] = pc[p]
                            /\ pc[p] = "take_over" => pc'[p] = "take_over"
  PROVE  AllPlayers' /\ Alone'
<1>1. ASSUME NEW p \in Players PROVE Player(p)'
  <2>1. Player(p) /\ MyAgent(p)' = MyAgent(p)
    BY DEF AllPlayers, MyAgent
  <2>2. \A s : Fit(s)' <=> Fit(s)
    BY DEF Fit, Statuses, Numbers
  <2>3. Statuses' = Statuses
    BY DEF Statuses, Numbers
  <2>4. QED
    BY <2>1, <2>2, <2>3 DEF Player
<1>2. Alone'
  BY DEF Alone, MyAgent
<1>3. QED
  BY <1>1, <1>2 DEF AllPlayers

\* Battles other than those that a step is about.
LEMMA BattlesFrame ==
  ASSUME IInv, NEW P,
         \A d \in Battles : d \notin P => UNCHANGED <<pc[d], win[d]>>,
         "A" \notin P => UNCHANGED <<up["A"], down["A"]>>,
         \A x \in Procs : pc[x] = "reaped" => pc'[x] = "reaped",
         \A d \in Battles : d \in P => Battle(d)'
  PROVE  AllBattles'
<1> SUFFICES ASSUME NEW d \in Battles PROVE Battle(d)'
  BY DEF AllBattles
<1>1. CASE d \in P
  BY <1>1
<1>2. CASE d \notin P
  <2>1. Battle(d) /\ UNCHANGED <<pc[d], win[d]>>
    BY <1>2 DEF IInv, AllBattles
  <2>2. \A i \in 1 .. 2 : Children[d][i] \in Procs
    BY Tree
  <2>3. QED
    BY <1>2, <2>1, <2>2 DEF Battle, Quiet
<1>3. QED
  BY <1>1, <1>2

\* Pipes and FIFOs.
LEMMA SendType ==
  ASSUME NEW D, NEW S, NEW pipe \in [D -> Seq(S)], NEW x, NEW s \in S
  PROVE  /\ Send(pipe, x, s) \in [D -> Seq(S)]
         /\ \A y \in D : Send(pipe, x, s)[y] = IF y = x THEN Append(pipe[x], s) ELSE pipe[y]
<1>1. Send(pipe, x, s) = [pipe EXCEPT ![x] = Append(pipe[x], s)]
  BY DEF Send
<1>2. x \in D => Append(pipe[x], s) \in Seq(S)
  OBVIOUS
<1>3. QED
  BY <1>1, <1>2

LEMMA ReceiveType ==
  ASSUME NEW D, NEW S, NEW pipe \in [D -> Seq(S)], NEW x \in D, pipe[x] # <<>>
  PROVE  /\ Receive(pipe, x) \in [D -> Seq(S)] /\ Head(pipe[x]) \in S
         /\ \A y \in D : Receive(pipe, x)[y] = IF y = x THEN Tail(pipe[x]) ELSE pipe[y]
<1>1. Receive(pipe, x) = [pipe EXCEPT ![x] = Tail(pipe[x])]
  BY DEF Receive
<1>2. Tail(pipe[x]) \in Seq(S) /\ Head(pipe[x]) \in S
  OBVIOUS
<1>3. QED
  BY <1>1, <1>2

LEMMA OneStatus ==
  ASSUME NEW S, NEW s \in S
  PROVE  Head(<<s>>) = s /\ Tail(<<s>>) = <<>> /\ Append(<<>>, s) = <<s>> /\ <<s>> # <<>>
OBVIOUS

\* A pipe with one status is emptied, and an empty one gets one.
Holds(pipe, x, s) == pipe[x] = <<s>>

LEMMA OneIsRead ==
  ASSUME NEW pipe \in [Procs -> Seq(Statuses)], NEW x \in Procs, NEW s \in Statuses, Holds(pipe, x, s)
  PROVE  /\ Receive(pipe, x) \in [Procs -> Seq(Statuses)]
         /\ Head(pipe[x]) = s /\ Receive(pipe, x)[x] = <<>>
         /\ \A y \in Procs : y # x => Receive(pipe, x)[y] = pipe[y]
<1>1. \A q : q = <<s>> => Head(q) = s /\ Tail(q) = <<>> /\ q # <<>>
  BY OneStatus
<1>2. Head(pipe[x]) = s /\ Tail(pipe[x]) = <<>> /\ pipe[x] # <<>>
  BY <1>1, Zenon DEF Holds
<1>3. Receive(pipe, x) = [pipe EXCEPT ![x] = <<>>]
  BY <1>2 DEF Receive
<1>4. QED
  BY <1>2, <1>3

LEMMA OneIsWritten ==
  ASSUME NEW pipe \in [Procs -> Seq(Statuses)], NEW x \in Procs, NEW s \in Statuses, pipe[x] = <<>>
  PROVE  /\ Send(pipe, x, s) \in [Procs -> Seq(Statuses)]
         /\ Holds(Send(pipe, x, s), x, s)
         /\ \A y \in Procs : y # x => Send(pipe, x, s)[y] = pipe[y]
<1>1. PICK q : q = <<s>>
  OBVIOUS
<1>2. q \in Seq(Statuses) /\ Append(<<>>, s) = q
  BY <1>1, OneStatus
<1>3. Send(pipe, x, s) = [pipe EXCEPT ![x] = q]
  BY <1>2 DEF Send
<1>4. /\ Send(pipe, x, s) \in [Procs -> Seq(Statuses)]
      /\ Send(pipe, x, s)[x] = q
      /\ \A y \in Procs : y # x => Send(pipe, x, s)[y] = pipe[y]
  BY <1>2, <1>3
<1>5. QED
  BY <1>1, <1>4, Zenon DEF Holds

-----------------------------------------------------------------------------
(***************************************************************************)
(* A round of a battle, and what a player makes of it.                     *)
(***************************************************************************)
RoundIs(b, pair) ==
  /\ pair \in [1 .. 2 -> Statuses]
  /\ \A i \in 1 .. 2 : Proper(pair[i]) /\ pair[i].battle = b
  /\ \/ \A i \in 1 .. 2 : pair[i].ended = 0 /\ pair[i].HP > 0
     \/ /\ \A i \in 1 .. 2 : pair[i].ended = 1
        /\ \E w \in 1 .. 2 : pair[w].HP > 0 /\ pair[3 - w].HP <= 0

LEMMA PowerType ==
  ASSUME roster \in Rosters, NEW b, NEW s, s.player \in Numbers
  PROVE  Power(b, s) \in Int
<1>1. roster[s.player].ATK \in Int
  BY TournamentAssumption DEF Numbers
<1>2. QED
  BY <1>1 DEF Power

\* A strike that costs the k-th fighter m HP.
Strikes(p, k, m, q) == q = [p EXCEPT ![k].HP = @ - m]

OnlyHurt(p, k, q) ==
  /\ q \in [1 .. 2 -> Statuses]
  /\ \A i \in 1 .. 2 : q[i].ended = p[i].ended /\ q[i].battle = p[i].battle /\ q[i].player = p[i].player
  /\ \A i \in 1 .. 2 : i # k => q[i].HP = p[i].HP

LEMMA StrikeIs ==
  ASSUME NEW m \in Int, NEW p \in [1 .. 2 -> Statuses], NEW k \in 1 .. 2, NEW q, Strikes(p, k, m, q)
  PROVE  OnlyHurt(p, k, q)
<1>1. q = [p EXCEPT ![k] = [p[k] EXCEPT !.HP = p[k].HP - m]]
  BY Zenon DEF Strikes
<1>2. PICK t : t = [p[k] EXCEPT !.HP = p[k].HP - m]
  OBVIOUS
<1>3. p[k] \in [player : Numbers \union {-1}, HP : Int, battle : Battles \union {"none"}, ended : {0, 1}]
  BY DEF Statuses
<1>4. /\ t \in Statuses /\ t.ended = p[k].ended /\ t.battle = p[k].battle /\ t.player = p[k].player
  BY <1>2, <1>3 DEF Statuses
<1>5. q = [p EXCEPT ![k] = t]
  BY <1>1, <1>2
<1>6. q \in [1 .. 2 -> Statuses] /\ q[k] = t /\ \A i \in 1 .. 2 : i # k => q[i] = p[i]
  BY <1>4, <1>5
<1>7. QED
  BY <1>4, <1>6 DEF OnlyHurt

\* A round hurts at most one fighter to death, and only then ends the battle.
LEMMA PlayIs ==
  ASSUME roster \in Rosters, NEW b, NEW pair \in [1 .. 2 -> Statuses],
         \A i \in 1 .. 2 : Fit(pair[i]) /\ pair[i].battle = b
  PROVE  RoundIs(b, play(b, pair))
<1> DEFINE first == IF \/ pair[1].HP < pair[2].HP
                       \/ pair[1].HP = pair[2].HP /\ pair[1].player < pair[2].player
                    THEN 1 ELSE 2
           second == 3 - first
           strike == [pair EXCEPT ![second].HP = @ - Power(b, pair[first])]
           back == [strike EXCEPT ![first].HP = @ - Power(b, pair[second])]
<1>1. first \in 1 .. 2 /\ second \in 1 .. 2 /\ first # second /\ second = 3 - first /\ first = 3 - second
  OBVIOUS
<1>2. \A i \in 1 .. 2 : /\ pair[i] \in Statuses /\ pair[i].player \in Numbers /\ pair[i].HP > 0
                        /\ pair[i].ended = 0 /\ pair[i].battle = b
  BY DEF Fit
<1>3. play(b, pair) = IF strike[second].HP <= 0 THEN Ended(strike)
                      ELSE IF back[first].HP <= 0 THEN Ended(back) ELSE back
  BY DEF play
<1> HIDE DEF first, second
<1>4. Power(b, pair[first]) \in Int /\ Power(b, pair[second]) \in Int
  BY <1>1, <1>2, PowerType
<1>5. /\ strike \in [1 .. 2 -> Statuses]
      /\ \A i \in 1 .. 2 : /\ strike[i].ended = 0 /\ strike[i].battle = b
                           /\ strike[i].player \in Numbers
      /\ strike[first].HP > 0
  <2>1. Strikes(pair, second, Power(b, pair[first]), strike)
    BY Zenon DEF Strikes
  <2> HIDE DEF strike
  <2>2. /\ strike \in [1 .. 2 -> Statuses]
        /\ \A i \in 1 .. 2 : /\ strike[i].ended = pair[i].ended /\ strike[i].battle = pair[i].battle
                             /\ strike[i].player = pair[i].player
        /\ \A i \in 1 .. 2 : i # second => strike[i].HP = pair[i].HP
    BY <1>1, <1>4, <2>1, StrikeIs DEF OnlyHurt
  <2>3. QED
    BY <1>1, <1>2, <2>2
<1>6. /\ back \in [1 .. 2 -> Statuses]
      /\ \A i \in 1 .. 2 : /\ back[i].ended = 0 /\ back[i].battle = b
                           /\ back[i].player \in Numbers
      /\ back[second].HP = strike[second].HP
  <2> HIDE DEF strike
  <2>1. Strikes(strike, first, Power(b, pair[second]), back)
    BY Zenon DEF Strikes
  <2> HIDE DEF back
  <2>2. /\ back \in [1 .. 2 -> Statuses]
        /\ \A i \in 1 .. 2 : /\ back[i].ended = strike[i].ended /\ back[i].battle = strike[i].battle
                             /\ back[i].player = strike[i].player
        /\ \A i \in 1 .. 2 : i # first => back[i].HP = strike[i].HP
    BY <1>1, <1>4, <1>5, <2>1, StrikeIs DEF OnlyHurt
  <2>3. QED
    BY <1>1, <1>5, <2>2
<1>7. ASSUME NEW p \in [1 .. 2 -> Statuses], NEW i \in 1 .. 2
      PROVE  /\ Ended(p) \in [1 .. 2 -> Statuses]
             /\ Ended(p)[i].HP = p[i].HP /\ Ended(p)[i].battle = p[i].battle
             /\ Ended(p)[i].player = p[i].player /\ Ended(p)[i].ended = 1
  <2>1. \A k \in 1 .. 2 : p[k] \in [player : Numbers \union {-1}, HP : Int, battle : Battles \union {"none"}, ended : {0, 1}]
    BY DEF Statuses
  <2>2. \A k \in 1 .. 2 : Ended(p)[k] = [p[k] EXCEPT !.ended = 1]
    BY DEF Ended
  <2>3. \A k \in 1 .. 2 : [p[k] EXCEPT !.ended = 1] \in Statuses
    BY <2>1 DEF Statuses
  <2>4. Ended(p) \in [1 .. 2 -> Statuses]
    BY <2>3 DEF Ended
  <2>5. QED
    BY <2>1, <2>2, <2>4
<1>8. CASE strike[second].HP <= 0
  <2> HIDE DEF strike, back
  <2>1. play(b, pair) = Ended(strike)
    BY <1>3, <1>8
  <2>2. \A i \in 1 .. 2 : Proper(Ended(strike)[i]) /\ Ended(strike)[i].battle = b /\ Ended(strike)[i].ended = 1
    BY <1>5, <1>7 DEF Proper
  <2>3. Ended(strike)[first].HP > 0 /\ Ended(strike)[3 - first].HP <= 0
    BY <1>1, <1>5, <1>7, <1>8
  <2>4. QED
    BY <1>1, <1>5, <1>7, <2>1, <2>2, <2>3 DEF RoundIs
<1>9. CASE ~(strike[second].HP <= 0) /\ back[first].HP <= 0
  <2> HIDE DEF strike, back
  <2>1. play(b, pair) = Ended(back)
    BY <1>3, <1>9
  <2>2. \A i \in 1 .. 2 : Proper(Ended(back)[i]) /\ Ended(back)[i].battle = b /\ Ended(back)[i].ended = 1
    BY <1>6, <1>7 DEF Proper
  <2>3. strike[second].HP \in Int
    BY <1>1, <1>5 DEF Statuses
  <2>4. Ended(back)[second].HP > 0 /\ Ended(back)[3 - second].HP <= 0
    BY <1>1, <1>6, <1>7, <1>9, <2>3
  <2>5. QED
    BY <1>1, <1>6, <1>7, <2>1, <2>2, <2>4 DEF RoundIs
<1>10. CASE ~(strike[second].HP <= 0) /\ ~(back[first].HP <= 0)
  <2> HIDE DEF strike, back
  <2>1. play(b, pair) = back
    BY <1>3, <1>10
  <2>2. strike[second].HP \in Int /\ back[first].HP \in Int
    BY <1>1, <1>5, <1>6 DEF Statuses
  <2>3. \A i \in 1 .. 2 : back[i].HP > 0
    BY <1>1, <1>6, <1>10, <2>2
  <2>4. \A i \in 1 .. 2 : Proper(back[i]) /\ back[i].battle = b /\ back[i].ended = 0
    <3> TAKE i \in 1 .. 2
    <3>1. back[i] \in Statuses
      BY <1>6
    <3>2. back[i].HP \in Int
      BY <3>1 DEF Statuses
    <3>3. QED
      BY <1>6, <2>3, <3>1, <3>2 DEF Proper
  <2>5. QED
    BY <1>6, <2>1, <2>3, <2>4 DEF RoundIs
<1>11. QED
  BY <1>8, <1>9, <1>10

\* Whoever rests is fit again.
LEMMA RecoveredIs ==
  ASSUME NEW s, s \in Statuses, s.player \in Numbers, s.HP > 0, NEW origin \in Int, origin > 0
  PROVE  Fit(Recovered(s, origin)) /\ Recovered(s, origin).battle = s.battle
<1>1. s \in [player : Numbers \union {-1}, HP : Int, battle : Battles \union {"none"}, ended : {0, 1}]
  BY DEF Statuses
<1>2. PICK h : h = (origin - s.HP) \div 2 + s.HP
  OBVIOUS
<1>3. h \in Int /\ h > 0
  <2>1. PICK m \in Int : m = s.HP
    BY <1>1
  <2>2. h = (origin - m) \div 2 + m /\ m > 0
    BY <1>2, <2>1
  <2>3. QED
    BY <2>2
<1>4. Recovered(s, origin) = [s EXCEPT !.HP = h, !.ended = 0]
  BY <1>2 DEF Recovered
<1>5. QED
  BY <1>1, <1>3, <1>4 DEF Fit, Statuses

LEMMA RestoredIs ==
  ASSUME NEW s, s \in Statuses, s.player \in Numbers, NEW origin \in Int, origin > 0
  PROVE  Fit(Restored(s, origin)) /\ Restored(s, origin).battle = s.battle
<1>1. s \in [player : Numbers \union {-1}, HP : Int, battle : Battles \union {"none"}, ended : {0, 1}]
  BY DEF Statuses
<1>2. QED
  BY <1>1 DEF Restored, Fit, Statuses

-----------------------------------------------------------------------------
(***************************************************************************)
(* The steps of a battle.                                                  *)
(***************************************************************************)
LEMMA SameStatuses ==
  ASSUME roster' = roster
  PROVE  Numbers' = Numbers /\ Statuses' = Statuses
BY DEF Numbers, Statuses

\* A process stays where it is, gets on in its program or goes.
GoesOn(x) ==
  \/ pc'[x] = pc[x]
  \/ pc'[x] \in Gone
  \/ (pc'[x] \in BattleLabels /\ x \in Battles)
  \/ (pc'[x] \in PlayerLabels /\ x \in Players)

\* Variables that the statuses are not in.
LEMMA ValuesRest ==
  ASSUME Values, UNCHANGED <<status, win, mystatus, origin_HP, down, up, fifos, fifo, roster>>,
         champion' \in Numbers \union {-1},
         pc' \in [Procs -> BattleLabels \union PlayerLabels \union Gone \union {"unborn"}],
         \A x \in Procs : GoesOn(x)
  PROVE  Values'
<1>1. Numbers' = Numbers /\ Statuses' = Statuses
  BY SameStatuses
<1>2. \A x \in Procs : (pc'[x] \in BattleLabels => x \in Battles) /\ (pc'[x] \in PlayerLabels => x \in Players)
  BY DEF Values, GoesOn, BattleLabels, PlayerLabels, Gone
<1>3. QED
  BY <1>1, <1>2 DEF Values

LEMMA ForkKeepsInv ==
  ASSUME IInv, NEW b \in Battles, NEW i \in 1 .. 2, Fork(b, i)
  PROVE  IInv'
<1> PICK c : c = Children[b][i]
  OBVIOUS
<1>1. /\ pc[b] = <<"fork_1", "fork_2">>[i]
      /\ pc' = [pc EXCEPT ![b] = <<"fork_2", "enter_1">>[i], ![c] = Starts(c)]
      /\ UNCHANGED <<status, win, mystatus, origin_HP, down, up, fifos, fifo, champion, roster, defeats>>
  BY DEF Fork
<1>2. /\ b \in Procs /\ c \in Procs /\ c # "A" /\ pc \in [Procs -> BattleLabels \union PlayerLabels \union Gone \union {"unborn"}]
      /\ Values /\ Links /\ AllBattles /\ AllPlayers /\ Alone
  BY Tree DEF IInv, Values, Procs
<1>3. pc[b] \in {"fork_1", "fork_2"} /\ (i = 1 => pc[b] = "fork_1") /\ (i = 2 => pc[b] = "fork_2")
  BY <1>1
<1>4. pc[c] = "unborn" /\ Quiet(c) /\ Link(b, i) /\ c # b
  <2>1. Link(b, i) /\ Unborn(b, i)
    BY <1>2, <1>3 DEF Links, Unborn
  <2>2. QED
    BY <1>3, <2>1 DEF Link
<1>5. Starts(c) \in {"fork_1", "start"} /\ (Starts(c) = "fork_1" <=> c \in Battles)
  BY DEF Starts
<1>6. /\ pc'[b] = IF i = 1 THEN "fork_2" ELSE "enter_1"
      /\ pc'[c] = Starts(c)
      /\ \A x \in Procs : x # b /\ x # c => pc'[x] = pc[x]
      /\ pc' \in [Procs -> BattleLabels \union PlayerLabels \union Gone \union {"unborn"}]
  <2>1. <<"fork_2", "enter_1">>[i] = IF i = 1 THEN "fork_2" ELSE "enter_1"
    OBVIOUS
  <2>2. QED
    BY <1>1, <1>2, <1>4, <1>5, <2>1 DEF BattleLabels, PlayerLabels
<1>7. Values'
  <2>1. champion' \in Numbers \union {-1}
    BY <1>1, <1>2 DEF Values
  <2>2. ASSUME NEW x \in Procs PROVE GoesOn(x)
    <3>1. CASE x = b
      BY <1>6, <3>1 DEF GoesOn, BattleLabels
    <3>2. CASE x = c
      BY <1>2, <1>5, <1>6, <3>2 DEF GoesOn, BattleLabels, PlayerLabels, Procs
    <3>3. CASE x # b /\ x # c
      BY <1>6, <3>3 DEF GoesOn
    <3>4. QED
      BY <3>1, <3>2, <3>3
  <2>3. QED
    BY <1>1, <1>2, <1>6, <2>1, <2>2, ValuesRest
<1>8. AllPlayers' /\ Alone'
  <2>1. \A p \in Players : /\ pc'[p] \in {"fight", "open_write", "hand_over"} => pc'[p] = pc[p]
                           /\ pc[p] = "take_over" => pc'[p] = "take_over"
    BY <1>3, <1>4, <1>5, <1>6 DEF Procs
  <2>2. QED
    BY <1>1, <1>2, <2>1, PlayersRest
<1>9. \A d \in Battles, j \in 1 .. 2 : pc[d] = "unborn" => pc[Children[d][j]] = "unborn" /\ Quiet(Children[d][j])
  BY <1>2 DEF Links, Link, Unborn
<1>10. AllBattles'
  <2> DEFINE P == {b, c}
  <2>1. \A d \in Battles : d \notin P => UNCHANGED <<pc[d], win[d]>>
    BY <1>1, <1>6 DEF Procs
  <2>2. \A x \in Procs : pc[x] = "reaped" => pc'[x] = "reaped"
    BY <1>3, <1>4, <1>6
  <2>3. Battle(b)'
    BY <1>1, <1>2, <1>3, <1>6 DEF AllBattles, Battle, Quiet
  <2>4. ASSUME c \in Battles PROVE Battle(c)'
    <3>1. \A j \in 1 .. 2 : Children[c][j] # c
      BY <1>4, <2>4, Tree
    <3>2. QED
      BY <1>2, <1>5, <1>6, <2>4, <3>1 DEF Battle
  <2>5. QED
    <3>1. UNCHANGED <<up["A"], down["A"]>>
      BY <1>1
    <3>2. \A d \in Battles : d \in P => Battle(d)'
      BY <2>3, <2>4
    <3> HIDE DEF P
    <3>3. QED
      BY <2>1, <2>2, <3>1, <3>2, BattlesFrame
<1>11. Links'
  <2> DEFINE P == {b, c}
  <2>1. \A d \in Battles : d \notin P => Rests(d)
    BY <1>1, <1>6 DEF Rests, Procs
  <2>2. \A x \in Procs : x \notin P => Still(x)
    BY <1>1, <1>6 DEF Still
  <2>3. ASSUME NEW j \in 1 .. 2 PROVE Link(b, j)'
    <3> PICK e : e = Children[b][j]
      OBVIOUS
    <3>1. e \in Procs /\ e # b /\ (j # i => e # c)
      BY <1>2, <1>3, Tree DEF AllBattles, Battle
    <3>2. Link(b, j)
      BY <1>2 DEF Links
    <3>3. CASE j = i
      <4>1. e = c /\ Begins(c)'
        BY <1>1, <1>4, <1>5, <1>6, <3>3 DEF Begins, Quiet, Early
      <4>2. (pc'[b] = "fork_2" /\ j = 1) \/ pc'[b] = "enter_1"
        BY <1>6, <3>3
      <4>3. QED
        BY <4>1, <4>2 DEF Link, Unborn, Due, Free, Held, Replayed, Owed, Ending, Over, Gone
    <3>4. CASE j # i
      <4>1. UNCHANGED <<pc[e], up[e], down[e]>>
        BY <1>1, <1>6, <3>1, <3>4
      <4>2. CASE i = 1
        <5>1. pc[b] = "fork_1" /\ pc'[b] = "fork_2" /\ j = 2
          BY <1>3, <1>6, <3>4, <4>2
        <5>2. pc[e] = "unborn" /\ Quiet(e)
          BY <3>2, <5>1 DEF Link, Unborn
        <5>3. pc'[e] = "unborn" /\ Quiet(e)'
          BY <4>1, <5>2 DEF Quiet
        <5>4. QED
          BY <5>1, <5>3 DEF Link, Unborn, Due, Free, Held, Replayed, Owed, Ending, Over, Gone
      <4>3. CASE i = 2
        <5>1. pc[b] = "fork_2" /\ pc'[b] = "enter_1" /\ j = 1
          BY <1>3, <1>6, <3>4, <4>3
        <5>2. Begins(e) \/ Answers(e)
          BY <3>2, <5>1 DEF Link, Due
        <5>3. Begins(e)' \/ Answers(e)'
          BY <1>1, <4>1, <5>2, SameStatuses DEF Begins, Answers, Quiet, Listens, Fit
        <5>4. QED
          BY <5>1, <5>3 DEF Link, Unborn, Due, Free, Held, Replayed, Owed, Ending, Over, Gone
      <4>4. QED
        BY <4>2, <4>3
    <3>5. QED
      BY <3>3, <3>4
  <2>4. ASSUME c \in Battles, NEW j \in 1 .. 2 PROVE Link(c, j)'
    <3> PICK e : e = Children[c][j]
      OBVIOUS
    <3>1. pc[e] = "unborn" /\ Quiet(e) /\ e \in Procs /\ e # b /\ e # c
      BY <1>3, <1>4, <1>9, <2>4, Tree
    <3>2. pc'[e] = "unborn" /\ Quiet(e)' /\ pc'[c] = "fork_1"
      BY <1>1, <1>5, <1>6, <2>4, <3>1 DEF Quiet
    <3>3. QED
      BY <3>2 DEF Link, Unborn, Due, Free, Held, Replayed, Owed, Ending, Over, Gone
  <2>5. ASSUME NEW d \in Battles, NEW j \in 1 .. 2, d # b, Children[d][j] \in {b, c} PROVE Link(d, j)'
    <3>1. Children[d][j] = b
      BY <2>5, Tree
    <3>2. CASE d = c
      BY <1>3, <1>4, <1>9, <3>1, <3>2
    <3>3. CASE d # c
      <4>1. Link(d, j) /\ Rests(d)
        BY <1>2, <2>1, <2>5, <3>3 DEF Links
      <4>2. pc[b] \in Early /\ pc'[b] # "reaped" /\ (Quiet(b) => Begins(b)')
        BY <1>1, <1>3, <1>6 DEF Early, Begins, Quiet
      <4>3. QED
        BY <3>1, <4>1, <4>2, EarlyStep
    <3>4. QED
      BY <3>2, <3>3
  <2>6. \A d \in Battles, j \in 1 .. 2 : d \in P \/ Children[d][j] \in P => Link(d, j)'
    BY <2>3, <2>4, <2>5
  <2>7. QED
    <3> HIDE DEF P
    <3> QED BY <1>2, <2>1, <2>2, <2>6, LinksFrame
<1>12. QED
  BY <1>7, <1>8, <1>10, <1>11 DEF IInv

\* Steps in which a battle b changes nothing but its own place and, perhaps, what
\* its children and it have to read.
LEMMA OneBattleMoves ==
  ASSUME IInv, NEW b \in Battles,
         pc' = [pc EXCEPT ![b] = pc'[b]], pc'[b] \in BattleLabels, pc[b] \in BattleLabels,
         UNCHANGED <<mystatus, origin_HP, fifo, roster>>,
         \A d \in Battles : d # b => status'[d] = status[d] /\ win'[d] = win[d],
         \A x \in Procs : x # b /\ x \notin ToSet(Children[b]) => up'[x] = up[x] /\ down'[x] = down[x],
         \A i \in 1 .. 2 : Link(b, i)',
         \A d \in Battles, j \in 1 .. 2 : Children[d][j] = b => Link(d, j)',
         Battle(b)'
  PROVE  Links' /\ AllBattles' /\ AllPlayers' /\ Alone'
<1> DEFINE K == {b} \union ToSet(Children[b])
<1>1. b \in Procs /\ b \notin Players /\ ToSet(Children[b]) \subseteq Procs \ {"A"}
  BY Tree DEF Procs
<1>2. pc \in [Procs -> BattleLabels \union PlayerLabels \union Gone \union {"unborn"}]
  BY DEF IInv, Values
<1>3. \A x \in Procs : x # b => pc'[x] = pc[x]
  BY <1>1, <1>2
<1>4. \A d \in Battles : d \notin {b} => Rests(d)
  BY <1>3 DEF Rests, Procs
<1>5. \A x \in Procs : x \notin K => Still(x)
  <2> TAKE x \in Procs
  <2>1. ASSUME x \notin K PROVE pc'[x] = pc[x] /\ up'[x] = up[x] /\ down'[x] = down[x]
    BY <1>3, <2>1
  <2>2. ASSUME x \notin K, pc[x] = "relay_up" PROVE status'[x] = status[x] /\ win'[x] = win[x]
    <3>1. x \in Battles
      BY <2>2 DEF IInv, Values, BattleLabels
    <3>2. QED
      BY <2>2, <3>1
  <2>3. QED
    BY <2>1, <2>2 DEF Still
<1>6. \A d \in Battles, j \in 1 .. 2 : d \in {b} \/ Children[d][j] \in K => Link(d, j)'
  <2> SUFFICES ASSUME NEW d \in Battles, NEW j \in 1 .. 2, d # b, Children[d][j] \in K PROVE Children[d][j] = b
    OBVIOUS
  <2>1. ToSet(Children[b]) = {Children[b][1], Children[b][2]}
    BY Tree
  <2>2. Children[d][j] # Children[b][1] /\ Children[d][j] # Children[b][2]
    BY Tree
  <2>3. QED
    BY <2>1, <2>2
<1>7. Links'
  <2> HIDE DEF K
  <2> QED BY <1>4, <1>5, <1>6, LinksFrame DEF IInv
<1>8. AllBattles'
  <2>1. \A d \in Battles : d \notin {b} => UNCHANGED <<pc[d], win[d]>>
    BY <1>3 DEF Procs
  <2>2. "A" \notin {b} => UNCHANGED <<up["A"], down["A"]>>
    <3>1. "A" \in Procs /\ "A" \notin ToSet(Children[b])
      BY <1>1, Tree DEF Procs
    <3>2. QED
      BY <3>1
  <2>3. \A x \in Procs : pc[x] = "reaped" => pc'[x] = "reaped"
    BY <1>3 DEF BattleLabels
  <2>4. \A d \in Battles : d \in {b} => Battle(d)'
    OBVIOUS
  <2>5. QED
    BY <2>1, <2>2, <2>3, <2>4, BattlesFrame
<1>9. AllPlayers' /\ Alone'
  <2>1. \A p \in Players : pc'[p] = pc[p]
    BY <1>1, <1>3 DEF Procs
  <2>2. AllPlayers /\ Alone
    BY DEF IInv
  <2>3. \A p \in Players : /\ pc'[p] \in {"fight", "open_write", "hand_over"} => pc'[p] = pc[p]
                           /\ pc[p] = "take_over" => pc'[p] = "take_over"
    BY <2>1
  <2>4. QED
    BY <2>2, <2>3, PlayersRest
<1>10. QED
  BY <1>7, <1>8, <1>9

\* What a step makes of a battle's statuses.
Sets(new, b, i, s) == new = [status EXCEPT ![b][i] = s]

LEMMA StatusType ==
  ASSUME Values, NEW b \in Battles, NEW i \in 1 .. 2, NEW s \in Statuses, NEW new, Sets(new, b, i, s)
  PROVE  /\ new \in [Battles -> [1 .. 2 -> Statuses]]
         /\ new[b][i] = s /\ \A j \in 1 .. 2 : j # i => new[b][j] = status[b][j]
         /\ \A d \in Battles : d # b => new[d] = status[d]
<1>1. new = [status EXCEPT ![b] = [status[b] EXCEPT ![i] = s]]
  BY Zenon DEF Sets
<1>2. PICK pair : pair = [status[b] EXCEPT ![i] = s]
  OBVIOUS
<1>3. status \in [Battles -> [1 .. 2 -> Statuses]]
  BY DEF Values
<1>4. pair \in [1 .. 2 -> Statuses] /\ pair[i] = s /\ \A j \in 1 .. 2 : j # i => pair[j] = status[b][j]
  BY <1>2, <1>3
<1>5. new = [status EXCEPT ![b] = pair]
  BY <1>1, <1>2
<1>6. QED
  BY <1>3, <1>4, <1>5

\* A battle reads the status of a fighter, from the child c in seat i.
Reads(b, i, c) ==
  /\ pc[b] \in (IF i = 1 THEN {"enter_1", "read_1"} ELSE {"enter_2", "read_2"})
  /\ pc' = [pc EXCEPT ![b] = pc'[b]]
  /\ pc'[b] = IF i = 2 THEN "play" ELSE IF pc[b] = "enter_1" THEN "enter_2" ELSE "read_2"
  /\ up' = Receive(up, c)
  /\ UNCHANGED <<win, mystatus, origin_HP, down, fifos, fifo, champion, roster, defeats>>

LEMMA FighterIsRead ==
  ASSUME IInv, NEW b \in Battles, NEW i \in 1 .. 2, NEW c, c = Children[b][i],
         NEW s \in Statuses, Holds(up, c, s), Answers(c),
         NEW t, Fit(t), t.battle = b, Sets(status', b, i, t),
         Reads(b, i, c)
  PROVE  IInv'
<1>0. /\ pc[b] \in (IF i = 1 THEN {"enter_1", "read_1"} ELSE {"enter_2", "read_2"})
      /\ pc' = [pc EXCEPT ![b] = pc'[b]]
      /\ pc'[b] = IF i = 2 THEN "play" ELSE IF pc[b] = "enter_1" THEN "enter_2" ELSE "read_2"
      /\ up' = Receive(up, c)
      /\ UNCHANGED <<win, mystatus, origin_HP, down, fifos, fifo, champion, roster, defeats>>
  BY DEF Reads
<1>1. /\ b \in Procs /\ c \in Procs /\ c # "A"
      /\ Values /\ Links /\ AllBattles /\ AllPlayers /\ Alone
      /\ pc \in [Procs -> BattleLabels \union PlayerLabels \union Gone \union {"unborn"}]
      /\ up \in [Procs -> Seq(Statuses)]
  BY Tree DEF IInv, Values, Procs
<1>2. \A j \in 1 .. 2 : Children[b][j] # b /\ Link(b, j)
  <2>1. pc[b] # "unborn" /\ Battle(b)
    BY <1>0, <1>1 DEF AllBattles
  <2>2. QED
    BY <1>1, <2>1 DEF Battle, Links
<1>3. /\ status' \in [Battles -> [1 .. 2 -> Statuses]]
      /\ status'[b][i] = t /\ \A j \in 1 .. 2 : j # i => status'[b][j] = status[b][j]
      /\ \A d \in Battles : d # b => status'[d] = status[d]
  BY <1>1, StatusType DEF Fit
<1>4. /\ up' \in [Procs -> Seq(Statuses)]
      /\ up'[c] = <<>> /\ \A x \in Procs : x # c => up'[x] = up[x]
  <2>1. /\ Receive(up, c) \in [Procs -> Seq(Statuses)]
        /\ Receive(up, c)[c] = <<>> /\ \A y \in Procs : y # c => Receive(up, c)[y] = up[y]
    BY <1>1, OneIsRead
  <2>2. QED
    BY <1>0, <2>1
<1>5. /\ pc'[b] = IF i = 2 THEN "play" ELSE IF pc[b] = "enter_1" THEN "enter_2" ELSE "read_2"
      /\ pc' = [pc EXCEPT ![b] = pc'[b]]
      /\ \A x \in Procs : x # b => pc'[x] = pc[x]
  BY <1>0, <1>1
<1>6. pc[b] \in BattleLabels /\ pc'[b] \in BattleLabels /\ pc[b] \in Early /\ pc'[b] \in Early
  BY <1>0, <1>5 DEF BattleLabels, Early
<1>7. Values'
  <2>1. pc' \in [Procs -> BattleLabels \union PlayerLabels \union Gone \union {"unborn"}]
    BY <1>1, <1>5, <1>6
  <2>2. \A x \in Procs : (pc'[x] \in BattleLabels => x \in Battles) /\ (pc'[x] \in PlayerLabels => x \in Players)
    BY <1>1, <1>5, <1>6 DEF Values, BattleLabels, PlayerLabels
  <2>3. QED
    BY <1>0, <1>1, <1>3, <1>4, <2>1, <2>2, SameStatuses DEF Values
<1>8. Fit(t)'
  BY <1>0, SameStatuses DEF Fit
<1>9. ASSUME NEW j \in 1 .. 2 PROVE Link(b, j)'
  <2> PICK e : e = Children[b][j]
    OBVIOUS
  <2>1. e \in Procs /\ e # b /\ (j # i => e # c) /\ Link(b, j)
    BY <1>2, Tree
  <2>2. CASE j = i
    <3>1. e = c /\ Waits(c)'
      BY <1>0, <1>2, <1>4, <1>5, <1>1, <2>2 DEF Waits, Answers, Listens, Quiet
    <3>2. Fit(status[b][j])' /\ status'[b][j].battle = b
      BY <1>3, <1>8, <2>2 DEF Fit
    <3>3. (pc'[b] \in {"enter_2", "read_2"} /\ j = 1) \/ pc'[b] = "play"
      BY <1>0, <1>5, <2>2
    <3>4. QED
      BY <3>1, <3>2, <3>3 DEF Link, Unborn, Due, Free, Held, Replayed, Owed, Ending, Over, Gone
  <2>3. CASE j # i
    <3>1. pc'[e] = pc[e] /\ up'[e] = up[e] /\ down'[e] = down[e] /\ status'[b][j] = status[b][j]
      BY <1>0, <1>1, <1>3, <1>4, <1>5, <2>1, <2>3
    <3>2. CASE pc[b] = "enter_1"
      <4>1. pc'[b] = "enter_2" /\ j = 2
        BY <1>0, <1>5, <2>3, <3>2
      <4>2. Begins(e) \/ Answers(e)
        BY <2>1, <3>2 DEF Link, Due
      <4>3. Begins(e)' \/ Answers(e)'
        BY <1>0, <3>1, <4>2, SameStatuses DEF Begins, Answers, Quiet, Listens, Fit
      <4>4. QED
        BY <4>1, <4>3 DEF Link, Unborn, Due, Free, Held, Replayed, Owed, Ending, Over, Gone
    <3>3. CASE pc[b] = "read_1"
      <4>1. pc'[b] = "read_2" /\ j = 2
        BY <1>0, <1>5, <2>3, <3>3
      <4> PICK u : u = status[b][j]
        OBVIOUS
      <4>2. /\ u.ended = 0 /\ u.battle = b /\ Proper(u) /\ ~Final(u)
            /\ IsTold(e, u) \/ Passes(e, u) \/ (Answers(e) /\ up[e] = <<u>>)
        <5>1. Replayed(b, j) /\ Owed(b, j)
          BY <3>3 DEF Replayed, Owed
        <5>2. QED
          BY <2>1, <5>1 DEF Link
      <4>3. /\ Proper(u)' /\ ~Final(u)' /\ status'[b][j] = u
            /\ IsTold(e, u)' \/ Passes(e, u)' \/ (Answers(e)' /\ up'[e] = <<u>>)
        <5>1. e \in Battles => status'[e] = status[e]
          BY <1>3, <2>1
        <5>2. pc[e] = "relay_up" => e \in Battles
          BY <1>1, <2>1 DEF Values, BattleLabels
        <5>3. Statuses' = Statuses /\ Numbers' = Numbers
          BY <1>0, SameStatuses
        <5>4. Proper(u)' /\ ~Final(u)' /\ status'[b][j] = u
          BY <1>0, <3>1, <4>2, SameStatuses DEF Proper, Final
        <5>5. CASE IsTold(e, u)
          BY <5>4, <3>1, <5>5 DEF IsTold, Listens
        <5>6. CASE Passes(e, u)
          BY <5>4, <1>0, <3>1, <5>1, <5>2, <5>6 DEF Passes, Quiet
        <5>7. CASE Answers(e) /\ up[e] = <<u>>
          BY <5>4, <1>0, <3>1, <5>3, <5>7 DEF Answers, Listens, Fit
        <5>8. QED
          BY <4>2, <5>4, <5>5, <5>6, <5>7
      <4>4. QED
        BY <4>1, <4>2, <4>3 DEF Link, Unborn, Due, Free, Held, Replayed, Owed, Ending, Over, Gone
    <3>4. CASE i = 2
      <4>1. pc[b] \in {"enter_2", "read_2"} /\ pc'[b] = "play" /\ j = 1
        BY <1>0, <1>5, <2>3, <3>4
      <4>2. Waits(e) /\ Fit(status[b][j]) /\ status[b][j].battle = b
        BY <2>1, <4>1 DEF Link, Free, Held
      <4>3. Waits(e)' /\ Fit(status[b][j])' /\ status'[b][j].battle = b
        BY <1>0, <3>1, <4>2, SameStatuses DEF Waits, Quiet, Listens, Fit
      <4>4. QED
        BY <4>1, <4>3 DEF Link, Unborn, Due, Free, Held, Replayed, Owed, Ending, Over, Gone
    <3>5. QED
      BY <1>0, <3>2, <3>3, <3>4
  <2>4. QED
    BY <2>2, <2>3
<1>10. ASSUME NEW d \in Battles, NEW j \in 1 .. 2, Children[d][j] = b PROVE Link(d, j)'
  <2>1. d # b /\ Link(d, j)
    BY <1>0, <1>1, <1>2, <1>10 DEF Links
  <2>2. Rests(d)
    BY <1>0, <1>3, <1>5, <2>1 DEF Rests, Procs
  <2>3. pc'[b] # "reaped" /\ (Quiet(b) => Begins(b)')
    BY <1>0, <1>1, <1>2, <1>4, <1>5, <1>6 DEF Begins, Quiet, Early
  <2>4. QED
    BY <1>6, <1>10, <2>1, <2>2, <2>3, EarlyStep
<1>11. Battle(b)'
  <2>1. Battle(b)
    BY <1>1 DEF AllBattles
  <2>2. b = "A" => Quiet(b)'
    BY <1>0, <1>1, <1>4, <2>1 DEF Battle, Quiet
  <2>3. QED
    BY <1>0, <1>2, <1>5, <2>2 DEF Battle
<1>12. Links' /\ AllBattles' /\ AllPlayers' /\ Alone'
  <2>1. \A x \in Procs : x # b /\ x \notin ToSet(Children[b]) => up'[x] = up[x] /\ down'[x] = down[x]
    <3>1. c \in ToSet(Children[b])
      BY Tree
    <3>2. QED
      BY <1>0, <1>4, <3>1
  <2>2. \A d \in Battles : d # b => status'[d] = status[d] /\ win'[d] = win[d]
    BY <1>0, <1>3
  <2>3. QED
    BY <1>0, <1>5, <1>6, <1>9, <1>10, <1>11, <2>1, <2>2, OneBattleMoves
<1>13. QED
  BY <1>7, <1>12 DEF IInv

LEMMA AdmitKeepsInv ==
  ASSUME IInv, NEW b \in Battles, NEW i \in 1 .. 2, Admit(b, i)
  PROVE  IInv'
<1> PICK c : c = Children[b][i]
  OBVIOUS
<1>1. /\ pc[b] = <<"enter_1", "enter_2">>[i]
      /\ up[c] # <<>>
      /\ status' = [status EXCEPT ![b][i] = [Head(up[c]) EXCEPT !.battle = b]]
      /\ up' = Receive(up, c)
      /\ pc' = [pc EXCEPT ![b] = <<"enter_2", "play">>[i]]
      /\ UNCHANGED <<win, mystatus, origin_HP, down, fifos, fifo, champion, roster, defeats>>
  BY DEF Admit, Goto
<1>2. /\ pc[b] = IF i = 1 THEN "enter_1" ELSE "enter_2"
      /\ <<"enter_2", "play">>[i] = IF i = 1 THEN "enter_2" ELSE "play"
  BY <1>1
<1>3. PICK s \in Statuses : Answers(c) /\ Holds(up, c, s) /\ Fit(s)
  <2>1. Due(b, i) /\ Link(b, i)
    BY <1>2 DEF Due, IInv, Links
  <2>2. Answers(c)
    BY <1>1, <2>1 DEF Link, Begins, Quiet
  <2>3. QED
    BY <2>2 DEF Answers, Holds
<1> PICK t : t = [s EXCEPT !.battle = b]
  OBVIOUS
<1>4. t \in Statuses /\ Fit(t) /\ t.battle = b
  <2>1. s \in [player : Numbers \union {-1}, HP : Int, battle : Battles \union {"none"}, ended : {0, 1}]
    BY DEF Statuses
  <2>2. t \in Statuses /\ t.battle = b /\ t.player = s.player /\ t.HP = s.HP /\ t.ended = s.ended
    BY <2>1 DEF Statuses
  <2>3. QED
    BY <1>3, <2>2 DEF Fit
<1>5. Sets(status', b, i, t)
  <2>1. Head(up[c]) = s
    BY <1>3, OneStatus, Zenon DEF Holds
  <2>2. QED
    BY <1>1, <2>1 DEF Sets
<1> PICK l : l = <<"enter_2", "play">>[i]
  OBVIOUS
<1>6. pc' = [pc EXCEPT ![b] = l]
  BY <1>1
<1>7. l = (IF i = 2 THEN "play" ELSE IF pc[b] = "enter_1" THEN "enter_2" ELSE "read_2")
  <2>1. l = IF i = 1 THEN "enter_2" ELSE "play"
    BY <1>2
  <2>2. i = 1 \/ i = 2
    OBVIOUS
  <2>3. CASE i = 1
    BY <1>2, <2>1, <2>3
  <2>4. CASE i = 2
    BY <1>2, <2>1, <2>4
  <2>5. QED
    BY <2>2, <2>3, <2>4
<1>8. pc[b] \in (IF i = 1 THEN {"enter_1", "read_1"} ELSE {"enter_2", "read_2"})
  BY <1>2
<1>9. pc'[b] = l /\ pc' = [pc EXCEPT ![b] = pc'[b]]
  <2>1. b \in Procs /\ pc \in [Procs -> BattleLabels \union PlayerLabels \union Gone \union {"unborn"}]
    BY DEF IInv, Values, Procs
  <2>2. QED
    BY <1>6, <2>1
<1>10. Reads(b, i, c)
  BY <1>1, <1>7, <1>8, <1>9 DEF Reads
<1>11. QED
  BY <1>3, <1>4, <1>5, <1>10, FighterIsRead

LEMMA ReadBackKeepsInv ==
  ASSUME IInv, NEW b \in Battles, NEW i \in 1 .. 2, ReadBack(b, i)
  PROVE  IInv'
<1> PICK c : c = Children[b][i]
  OBVIOUS
<1>1. /\ pc[b] = <<"read_1", "read_2">>[i]
      /\ up[c] # <<>>
      /\ status' = [status EXCEPT ![b][i] = Head(up[c])]
      /\ up' = Receive(up, c)
      /\ pc' = [pc EXCEPT ![b] = AfterRead(i)]
      /\ UNCHANGED <<win, mystatus, origin_HP, down, fifos, fifo, champion, roster, defeats>>
  BY DEF ReadBack, Goto
<1>2. /\ pc[b] = IF i = 1 THEN "read_1" ELSE "read_2"
      /\ AfterRead(i) = IF i = 1 THEN "read_2" ELSE "play"
  BY <1>1 DEF AfterRead
<1> PICK t : t = status[b][i]
  OBVIOUS
<1>3. Answers(c) /\ Holds(up, c, t) /\ t.battle = b
  <2>1. Replayed(b, i) /\ Owed(b, i) /\ Link(b, i)
    BY <1>2 DEF Owed, Replayed, IInv, Links
  <2>2. t.ended = 0 /\ t.battle = b /\ ~IsTold(c, t) /\ ~Passes(c, t)
    BY <1>1, <2>1 DEF Link, IsTold, Passes, Quiet
  <2>3. QED
    BY <2>1, <2>2 DEF Link, Holds
<1>4. t \in Statuses /\ Fit(t)
  <2>1. PICK s \in Statuses : up[c] = <<s>> /\ Fit(s)
    BY <1>3 DEF Answers
  <2>2. up[c] = <<t>>
    BY <1>3 DEF Holds
  <2>3. Head(<<s>>) = s /\ Head(<<t>>) = t
    OBVIOUS
  <2>4. QED
    BY <2>1, <2>2, <2>3
<1>5. Sets(status', b, i, t)
  <2>1. Head(up[c]) = t
    BY <1>3, <1>4, OneStatus, Zenon DEF Holds
  <2>2. QED
    BY <1>1, <2>1 DEF Sets
<1> PICK l : l = AfterRead(i)
  OBVIOUS
<1>6. pc' = [pc EXCEPT ![b] = l]
  BY <1>1
<1>7. l = (IF i = 2 THEN "play" ELSE IF pc[b] = "enter_1" THEN "enter_2" ELSE "read_2")
  <2>1. l = IF i = 1 THEN "read_2" ELSE "play"
    BY <1>2
  <2>2. i = 1 \/ i = 2
    OBVIOUS
  <2>3. CASE i = 1
    BY <1>2, <2>1, <2>3
  <2>4. CASE i = 2
    BY <1>2, <2>1, <2>4
  <2>5. QED
    BY <2>2, <2>3, <2>4
<1>8. pc[b] \in (IF i = 1 THEN {"enter_1", "read_1"} ELSE {"enter_2", "read_2"})
  BY <1>2
<1>9. pc'[b] = l /\ pc' = [pc EXCEPT ![b] = pc'[b]]
  <2>1. b \in Procs /\ pc \in [Procs -> BattleLabels \union PlayerLabels \union Gone \union {"unborn"}]
    BY DEF IInv, Values, Procs
  <2>2. QED
    BY <1>6, <2>1
<1>10. Reads(b, i, c)
  BY <1>1, <1>7, <1>8, <1>9 DEF Reads
<1>11. QED
  BY <1>3, <1>4, <1>5, <1>10, FighterIsRead

LEMMA PlayKeepsInv ==
  ASSUME IInv, NEW b \in Battles, Play(b)
  PROVE  IInv'
<1> PICK pair, c, d : pair = play(b, status[b]) /\ c = Children[b][1] /\ d = Children[b][2]
  OBVIOUS
<1> DEFINE over == pair[1].ended = 1
<1> PICK w : w = IF over THEN (IF pair[1].HP > 0 THEN 1 ELSE 2) ELSE 0
  OBVIOUS
<1> PICK l : l = IF over THEN "wait" ELSE "read_1"
  OBVIOUS
<1>1. /\ pc[b] = "play"
      /\ status' = [status EXCEPT ![b] = pair]
      /\ down' = Send(Send(down, c, pair[1]), d, pair[2])
      /\ win' = [win EXCEPT ![b] = w]
      /\ pc' = [pc EXCEPT ![b] = l]
      /\ UNCHANGED <<mystatus, origin_HP, up, fifos, fifo, champion, roster>>
  BY DEF Play, Goto
<1>2. /\ b \in Procs /\ c \in Procs /\ d \in Procs /\ c # "A" /\ d # "A" /\ c # d
      /\ Values /\ Links /\ AllBattles /\ AllPlayers /\ Alone /\ roster \in Rosters
      /\ pc \in [Procs -> BattleLabels \union PlayerLabels \union Gone \union {"unborn"}]
      /\ status \in [Battles -> [1 .. 2 -> Statuses]]
      /\ win \in [Battles -> 0 .. 2]
      /\ down \in [Procs -> Seq(Statuses)]
  <2>1. b \in Procs /\ c \in Procs /\ d \in Procs /\ c # "A" /\ d # "A" /\ c # d
    BY Tree DEF Procs
  <2>2. QED
    BY <2>1 DEF IInv, Values
<1>3. \A j \in 1 .. 2 : Children[b][j] # b /\ Waits(Children[b][j]) /\ Fit(status[b][j]) /\ status[b][j].battle = b
  BY <1>1, <1>2 DEF AllBattles, Battle, Links, Link, Free, Held
<1>4. RoundIs(b, pair)
  <2>1. status[b] \in [1 .. 2 -> Statuses]
    BY <1>2
  <2>2. QED
    BY <1>2, <1>3, <2>1, PlayIs
<1>5. /\ pair \in [1 .. 2 -> Statuses] /\ pair[1] \in Statuses /\ pair[2] \in Statuses
      /\ \A j \in 1 .. 2 : Proper(pair[j]) /\ pair[j].battle = b
      /\ ~over => \A j \in 1 .. 2 : pair[j].ended = 0 /\ pair[j].HP > 0
      /\ over => w \in 1 .. 2 /\ pair[w].HP > 0 /\ pair[3 - w].HP <= 0 /\ \A j \in 1 .. 2 : pair[j].ended = 1
      /\ w \in 0 .. 2
  <2>1. /\ pair \in [1 .. 2 -> Statuses] /\ pair[1] \in Statuses /\ pair[2] \in Statuses
        /\ \A j \in 1 .. 2 : Proper(pair[j]) /\ pair[j].battle = b
    BY <1>4 DEF RoundIs
  <2>2. pair[1].HP \in Int /\ pair[2].HP \in Int
    BY <2>1 DEF Statuses
  <2>3. CASE over
    <3>1. \A j \in 1 .. 2 : pair[j].ended = 1
      BY <1>4, <2>3 DEF RoundIs
    <3>2. PICK v \in 1 .. 2 : pair[v].HP > 0 /\ pair[3 - v].HP <= 0
      BY <1>4, <2>3 DEF RoundIs
    <3>3. v = w
      <4>1. CASE v = 1
        BY <2>3, <3>2, <4>1
      <4>2. CASE v = 2
        <5>1. ~(pair[1].HP > 0)
          BY <2>2, <3>2, <4>2
        <5>2. QED
          BY <2>3, <4>2, <5>1
      <4>3. QED
        BY <4>1, <4>2
    <3>4. QED
      BY <2>1, <2>3, <3>1, <3>2, <3>3
  <2>4. CASE ~over
    BY <1>4, <2>1, <2>4 DEF RoundIs
  <2>5. QED
    BY <2>3, <2>4
<1>6. /\ down' \in [Procs -> Seq(Statuses)]
      /\ \A j \in 1 .. 2 : Holds(down', Children[b][j], pair[j])
      /\ \A x \in Procs : x # c /\ x # d => down'[x] = down[x]
  <2> PICK mid : mid = Send(down, c, pair[1])
    OBVIOUS
  <2>1. down[c] = <<>> /\ down[d] = <<>>
    BY <1>3 DEF Waits, Quiet
  <2>2. /\ mid \in [Procs -> Seq(Statuses)] /\ Holds(mid, c, pair[1])
        /\ \A x \in Procs : x # c => mid[x] = down[x]
    <3>1. /\ Send(down, c, pair[1]) \in [Procs -> Seq(Statuses)]
          /\ Holds(Send(down, c, pair[1]), c, pair[1])
          /\ \A x \in Procs : x # c => Send(down, c, pair[1])[x] = down[x]
      <4>1. /\ down \in [Procs -> Seq(Statuses)] /\ c \in Procs /\ pair[1] \in Statuses
            /\ down[c] = <<>>
        BY <1>2, <1>5, <2>1
      <4>2. QED
        BY <4>1, OneIsWritten
    <3>2. QED
      BY <3>1
  <2>3. mid[d] = <<>> /\ down' = Send(mid, d, pair[2])
    BY <1>1, <1>2, <2>1, <2>2
  <2>4. /\ down' \in [Procs -> Seq(Statuses)] /\ Holds(down', d, pair[2])
        /\ \A x \in Procs : x # d => down'[x] = mid[x]
    <3>1. /\ Send(mid, d, pair[2]) \in [Procs -> Seq(Statuses)]
          /\ Holds(Send(mid, d, pair[2]), d, pair[2])
          /\ \A x \in Procs : x # d => Send(mid, d, pair[2])[x] = mid[x]
      <4>1. d \in Procs /\ pair[2] \in Statuses /\ mid \in [Procs -> Seq(Statuses)] /\ mid[d] = <<>>
        BY <1>2, <1>5, <2>2, <2>3
      <4>2. QED
        BY <4>1, OneIsWritten
    <3>2. QED
      BY <2>3, <3>1
  <2>5. Holds(down', c, pair[1])
    BY <1>2, <2>2, <2>4 DEF Holds
  <2>6. \A j \in 1 .. 2 : Holds(down', Children[b][j], pair[j])
    BY <2>4, <2>5
  <2>7. QED
    BY <2>2, <2>4, <2>6
<1>7. /\ pc'[b] = l /\ pc' = [pc EXCEPT ![b] = pc'[b]]
      /\ \A x \in Procs : x # b => pc'[x] = pc[x]
      /\ status'[b] = pair /\ win'[b] = w
      /\ \A e \in Battles : e # b => status'[e] = status[e] /\ win'[e] = win[e]
      /\ status' \in [Battles -> [1 .. 2 -> Statuses]] /\ win' \in [Battles -> 0 .. 2]
  BY <1>1, <1>2, <1>5
<1>8. pc[b] \in BattleLabels /\ pc'[b] \in BattleLabels /\ pc[b] \in Early /\ pc'[b] \in Early
  BY <1>1, <1>7 DEF BattleLabels, Early
<1>9. Values'
  <2>1. pc' \in [Procs -> BattleLabels \union PlayerLabels \union Gone \union {"unborn"}]
    BY <1>2, <1>7, <1>8
  <2>2. \A x \in Procs : (pc'[x] \in BattleLabels => x \in Battles) /\ (pc'[x] \in PlayerLabels => x \in Players)
    BY <1>2, <1>7, <1>8 DEF Values, BattleLabels, PlayerLabels
  <2>3. QED
    BY <1>1, <1>2, <1>6, <1>7, <2>1, <2>2, SameStatuses DEF Values
<1>10. ASSUME NEW j \in 1 .. 2 PROVE Link(b, j)'
  <2> PICK e, s : e = Children[b][j] /\ s = pair[j]
    OBVIOUS
  <2>1. IsTold(e, s)'
    <3>1. e \in Procs /\ e # b
      BY <1>3, Tree
    <3>2. Listens(e)' /\ up'[e] = <<>>
      BY <1>1, <1>3, <1>7, <3>1 DEF Waits, Listens, Quiet
    <3>3. down'[e] = <<s>>
      BY <1>6 DEF Holds
    <3>4. QED
      BY <3>2, <3>3 DEF IsTold
  <2>2. Proper(s)' /\ s.battle = b /\ s = status'[b][j]
    BY <1>1, <1>5, <1>7, SameStatuses DEF Proper
  <2>3. CASE ~over
    <3>1. s.ended = 0 /\ ~Final(s)' /\ pc'[b] = "read_1"
      <4>1. s.HP \in Int /\ s.HP > 0 /\ s.ended = 0
        BY <1>5, <2>3 DEF Statuses
      <4>2. QED
        BY <1>7, <2>3, <4>1 DEF Final
    <3>2. QED
      BY <2>1, <2>2, <3>1 DEF Link, Unborn, Due, Free, Held, Replayed, Owed, Ending, Over, Gone
  <2>4. CASE over /\ (b = "A" \/ j # w)
    <3>1. Final(s)' /\ pc'[b] = "wait" /\ win'[b] = w
      <4>1. j # w => s.HP <= 0
        BY <1>5, <2>4
      <4>2. s.ended = 1
        BY <1>5, <2>4
      <4>3. QED
        BY <1>7, <2>2, <2>4, <4>1, <4>2 DEF Final
    <3>2. QED
      BY <2>1, <2>2, <2>4, <3>1 DEF Link, Unborn, Due, Free, Held, Replayed, Owed, Ending, Over, Gone
  <2>5. CASE over /\ b # "A" /\ j = w
    <3>1. ~Final(s)' /\ s.ended = 1 /\ pc'[b] = "wait" /\ win'[b] = w
      <4>1. s.HP \in Int /\ s.HP > 0 /\ s.ended = 1
        BY <1>5, <2>5 DEF Statuses
      <4>2. QED
        BY <1>7, <2>2, <2>5, <4>1 DEF Final
    <3>2. QED
      BY <2>1, <2>2, <2>5, <3>1 DEF Link, Unborn, Due, Free, Held, Replayed, Owed, Ending, Over, Gone
  <2>6. QED
    BY <2>3, <2>4, <2>5
<1>11. ASSUME NEW e \in Battles, NEW j \in 1 .. 2, Children[e][j] = b PROVE Link(e, j)'
  <2>1. e # b /\ Link(e, j)
    BY <1>2, <1>3, <1>11 DEF Links
  <2>2. Rests(e)
    BY <1>1, <1>7, <2>1 DEF Rests, Procs
  <2>3. pc'[b] # "reaped" /\ (Quiet(b) => Begins(b)')
    BY <1>1, <1>2, <1>3, <1>6, <1>7, <1>8 DEF Begins, Quiet, Early
  <2>4. QED
    BY <1>8, <1>11, <2>1, <2>2, <2>3, EarlyStep
<1>12. Battle(b)'
  <2>1. Battle(b)
    BY <1>2 DEF AllBattles
  <2>2. b = "A" => Quiet(b)'
    BY <1>1, <1>2, <1>6, <2>1 DEF Battle, Quiet
  <2>3. pc'[b] = "wait" => win'[b] \in 1 .. 2
    BY <1>5, <1>7
  <2>4. QED
    BY <1>3, <1>7, <2>2, <2>3 DEF Battle
<1>13. Links' /\ AllBattles' /\ AllPlayers' /\ Alone'
  <2>1. \A x \in Procs : x # b /\ x \notin ToSet(Children[b]) => up'[x] = up[x] /\ down'[x] = down[x]
    <3>1. c \in ToSet(Children[b]) /\ d \in ToSet(Children[b])
      BY Tree
    <3>2. QED
      BY <1>1, <1>6, <3>1
  <2>2. QED
    BY <1>1, <1>7, <1>8, <1>10, <1>11, <1>12, <2>1, OneBattleMoves
<1>14. QED
  BY <1>9, <1>13 DEF IInv

\* A battle waits for the child c, which has gone.
Reaps(b, c) ==
  /\ pc[b] \in {"wait", "last_wait"} /\ pc[c] = "exit"
  /\ pc'[b] = IF pc[b] = "last_wait" THEN "exit" ELSE IF b = "A" THEN "last_wait" ELSE "relay_up"
  /\ pc' = [pc EXCEPT ![c] = "reaped", ![b] = pc'[b]]
  /\ UNCHANGED <<status, win, mystatus, origin_HP, down, up, fifos, fifo, roster>>

LEMMA ReapKeepsInv ==
  ASSUME IInv, NEW b \in Battles, NEW i \in 1 .. 2, NEW c, c = Children[b][i], Reaps(b, c),
         champion' \in Numbers \union {-1}
  PROVE  IInv'
<1>1. /\ pc[b] \in {"wait", "last_wait"} /\ pc[c] = "exit"
      /\ pc'[b] = IF pc[b] = "last_wait" THEN "exit" ELSE IF b = "A" THEN "last_wait" ELSE "relay_up"
      /\ pc' = [pc EXCEPT ![c] = "reaped", ![b] = pc'[b]]
      /\ UNCHANGED <<status, win, mystatus, origin_HP, down, up, fifos, fifo, roster>>
  BY DEF Reaps
<1>2. /\ b \in Procs /\ c \in Procs /\ c # "A" /\ b # c
      /\ Values /\ Links /\ AllBattles /\ AllPlayers /\ Alone
      /\ pc \in [Procs -> BattleLabels \union PlayerLabels \union Gone \union {"unborn"}]
      /\ win[b] \in 1 .. 2
  BY <1>1, Tree DEF IInv, Values, Procs, AllBattles, Battle
<1>3. pc'[c] = "reaped" /\ \A x \in Procs : x # b /\ x # c => pc'[x] = pc[x]
  BY <1>1, <1>2
<1>4. Link(b, i) /\ Ending(b, i) /\ Quiet(c)
  <2>1. Link(b, i) /\ ~Over(b, i)
    BY <1>1, <1>2 DEF Links, Link
  <2>2. ~Answers(c) /\ \A s : ~IsTold(c, s) /\ ~Passes(c, s)
    BY <1>1 DEF Answers, IsTold, Passes, Listens
  <2>3. ~Owed(b, i)
    BY <2>1, <2>2 DEF Link
  <2>4. Ending(b, i)
    BY <1>1, <2>1, <2>3, Stages DEF Unborn, Due, Free, Held
  <2>5. QED
    BY <2>1, <2>2, <2>4 DEF Link, Leaves
<1>5. Values'
  <2>1. ASSUME NEW x \in Procs PROVE GoesOn(x)
    <3>1. pc'[b] \in BattleLabels \union Gone
      BY <1>1 DEF BattleLabels, Gone
    <3>2. CASE x = b
      BY <3>1, <3>2 DEF GoesOn
    <3>3. CASE x = c
      BY <1>3, <3>3 DEF GoesOn, Gone
    <3>4. CASE x # b /\ x # c
      BY <1>3, <3>4 DEF GoesOn
    <3>5. QED
      BY <3>2, <3>3, <3>4
  <2>2. pc' \in [Procs -> BattleLabels \union PlayerLabels \union Gone \union {"unborn"}]
    BY <1>1, <1>2 DEF BattleLabels, Gone
  <2>3. QED
    BY <1>1, <1>2, <2>1, <2>2, ValuesRest
<1>6. AllPlayers' /\ Alone'
  <2>1. \A p \in Players : /\ pc'[p] \in {"fight", "open_write", "hand_over"} => pc'[p] = pc[p]
                           /\ pc[p] = "take_over" => pc'[p] = "take_over"
    BY <1>1, <1>3 DEF Procs
  <2>2. QED
    BY <1>1, <1>2, <2>1, PlayersRest
<1>7. ASSUME c \in Battles, NEW j \in 1 .. 2
      PROVE  /\ Children[c][j] \in Procs /\ Children[c][j] # b /\ Children[c][j] # c
             /\ pc[Children[c][j]] = "reaped" /\ Quiet(Children[c][j])
  <2>1. Over(c, j) /\ Link(c, j)
    BY <1>1, <1>2, <1>7 DEF Links, Over, Gone
  <2>2. QED
    BY <1>1, <1>7, <2>1, Tree DEF Link
<1>8. AllBattles'
  <2> DEFINE P == {b, c}
  <2>1. \A d \in Battles : d \notin P => UNCHANGED <<pc[d], win[d]>>
    BY <1>1, <1>3 DEF Procs
  <2>2. \A x \in Procs : pc[x] = "reaped" => pc'[x] = "reaped"
    BY <1>1, <1>3
  <2>3. Battle(b)'
    <3>1. \A j \in 1 .. 2 : Children[b][j] # b
      BY <1>1, <1>2 DEF AllBattles, Battle
    <3>2. b = "A" => Quiet(b)'
      BY <1>1, <1>2 DEF AllBattles, Battle, Quiet
    <3>3. QED
      BY <1>1, <1>2, <1>3, <3>1, <3>2 DEF Battle
  <2>4. ASSUME c \in Battles PROVE Battle(c)'
    BY <1>2, <1>3, <1>7, <2>4 DEF Battle
  <2>5. UNCHANGED <<up["A"], down["A"]>>
    BY <1>1
  <2>6. \A d \in Battles : d \in P => Battle(d)'
    BY <2>3, <2>4
  <2> HIDE DEF P
  <2>7. QED
    BY <2>1, <2>2, <2>5, <2>6, BattlesFrame
<1>9. Links'
  <2> DEFINE P == {b, c}
  <2>1. \A d \in Battles : d \notin P => Rests(d)
    BY <1>1, <1>3 DEF Rests, Procs
  <2>2. \A x \in Procs : x \notin P => Still(x)
    BY <1>1, <1>3 DEF Still
  <2>3. Link(b, i)'
    <3>1. Over(b, i)' /\ ~Ending(b, i)'
      <4>1. b # "A" => (pc[b] = "wait" => i # win[b]) /\ UNCHANGED win
        BY <1>1, <1>4 DEF Ending
      <4>2. QED
        BY <1>1, <1>3, <4>1 DEF Over, Ending, Gone
    <3>2. pc'[c] = "reaped" /\ Quiet(c)'
      BY <1>1, <1>3, <1>4 DEF Quiet
    <3>3. ~Unborn(b, i)' /\ ~Due(b, i)' /\ ~Free(b, i)' /\ ~Held(b, i)' /\ ~Replayed(b, i)' /\ ~Owed(b, i)'
      <4>1. (pc[b] = "wait" /\ b # "A") => i # win'[b]
        BY <1>1, <1>4 DEF Ending
      <4>2. QED
        BY <1>1, <4>1 DEF Unborn, Due, Free, Held, Replayed, Owed
    <3>4. QED
      BY <3>1, <3>2, <3>3 DEF Link
  <2>4. ASSUME NEW j \in 1 .. 2, j # i PROVE Link(b, j)'
    <3> PICK e, s : e = Children[b][j] /\ s = status[b][j]
      OBVIOUS
    <3>1. e \in Procs /\ e # b /\ e # c /\ Link(b, j)
      BY <1>1, <1>2, <2>4, Tree DEF Links, AllBattles, Battle
    <3>2. UNCHANGED <<pc[e], up[e], down[e], status, win, roster>> /\ s = status'[b][j]
      BY <1>1, <1>3, <3>1
    <3>3. Statuses' = Statuses /\ Numbers' = Numbers /\ (Proper(s)' <=> Proper(s))
      BY <3>2, SameStatuses DEF Proper
    <3>4. CASE pc[b] = "wait" /\ b # "A"
      <4>1. j = win[b] /\ pc'[b] = "relay_up"
        BY <1>1, <1>2, <1>4, <2>4, <3>4 DEF Ending
      <4>2. /\ Proper(s) /\ ~Final(s)
            /\ IsTold(e, s) \/ Passes(e, s) \/ (Answers(e) /\ (s.ended = 0 => up[e] = <<s>>))
        <5>1. Owed(b, j)
          BY <3>4, <4>1 DEF Owed
        <5>2. QED
          BY <3>1, <5>1 DEF Link
      <4>3. IsTold(e, s)' \/ Passes(e, s)' \/ (Answers(e)' /\ (s.ended = 0 => up'[e] = <<s>>))
        BY <3>2, <3>3, <4>2 DEF IsTold, Passes, Answers, Quiet, Listens, Fit
      <4>4. Proper(s)' /\ ~Final(s)' /\ s = status'[b][j]
        BY <3>2, <3>3, <4>2 DEF Final
      <4>5. win'[b] = j
        BY <3>2, <4>1
      <4>6. ~Unborn(b, j)' /\ ~Due(b, j)' /\ ~Free(b, j)' /\ ~Held(b, j)' /\ ~Replayed(b, j)'
            /\ ~Ending(b, j)' /\ ~Over(b, j)'
        BY <4>1, <4>5 DEF Unborn, Due, Free, Held, Replayed, Ending, Over, Gone
      <4>7. QED
        BY <4>3, <4>4, <4>6 DEF Link
    <3>5. CASE pc[b] = "wait" /\ b = "A"
      <4>1. Proper(s) /\ Final(s) /\ (IsTold(e, s) \/ Leaves(e)) /\ pc'[b] = "last_wait"
        BY <1>1, <3>1, <3>5 DEF Link, Ending
      <4>2. IsTold(e, s)' \/ Leaves(e)'
        BY <3>2, <4>1 DEF IsTold, Leaves, Quiet, Listens
      <4>3. pc'[e] # "reaped"
        BY <4>2 DEF IsTold, Leaves, Listens, Late
      <4>4. QED
        BY <3>2, <3>3, <3>5, <4>1, <4>2, <4>3
        DEF Link, Unborn, Due, Free, Held, Replayed, Owed, Ending, Over, Final, Gone
    <3>6. CASE pc[b] = "last_wait"
      <4>1. Over(b, j)
        <5>1. CASE b = "A"
          <6>1. PICK k \in 1 .. 2 : pc[Children[b][k]] = "reaped"
            BY <1>2, <3>6, <5>1 DEF AllBattles, Battle
          <6>2. k = j
            BY <1>1, <2>4, <6>1
          <6>3. QED
            BY <3>6, <5>1, <6>1, <6>2 DEF Over
        <5>2. CASE b # "A"
          BY <1>2, <1>4, <2>4, <3>6, <5>2 DEF Over, Ending
        <5>3. QED
          BY <5>1, <5>2
      <4>2. pc'[e] = "reaped" /\ Quiet(e)'
        BY <3>1, <3>2, <4>1 DEF Link, Quiet
      <4>3. pc'[b] = "exit"
        BY <1>1, <3>6
      <4>4. QED
        BY <4>2, <4>3 DEF Link, Unborn, Due, Free, Held, Replayed, Owed, Ending, Over, Gone
    <3>7. QED
      BY <1>1, <3>4, <3>5, <3>6
  <2>5. ASSUME c \in Battles, NEW j \in 1 .. 2 PROVE Link(c, j)'
    <3> PICK e : e = Children[c][j]
      OBVIOUS
    <3>1. pc'[e] = "reaped" /\ Quiet(e)' /\ pc'[c] = "reaped"
      BY <1>1, <1>3, <1>7, <2>5 DEF Quiet
    <3>2. QED
      BY <3>1 DEF Link, Unborn, Due, Free, Held, Replayed, Owed, Ending, Over, Gone
  <2>6. ASSUME NEW d \in Battles, NEW j \in 1 .. 2, d \notin {b, c}, Children[d][j] \in {b, c} PROVE Link(d, j)'
    <3>1. Children[d][j] = b
      BY <2>6, Tree
    <3>2. Link(d, j) /\ Rests(d) /\ b # "A"
      BY <1>2, <2>1, <2>6, <3>1, Tree DEF Links
    <3>3. CASE pc[b] = "wait"
      <4>1. pc[b] \in Early /\ pc'[b] # "reaped" /\ (Quiet(b) => Begins(b)')
        BY <1>1, <3>2, <3>3 DEF Early, Begins, Quiet
      <4>2. QED
        BY <3>1, <3>2, <4>1, EarlyStep
    <3>4. CASE pc[b] = "last_wait"
      <4>1. pc[b] \in Late /\ pc'[b] # "reaped" /\ (Quiet(b) => Leaves(b)')
        BY <1>1, <3>2, <3>4 DEF Late, Leaves, Quiet
      <4>2. QED
        BY <3>1, <3>2, <4>1, LateStep
    <3>5. QED
      BY <1>1, <3>3, <3>4
  <2>7. \A d \in Battles, j \in 1 .. 2 : d \in P \/ Children[d][j] \in P => Link(d, j)'
    BY <2>3, <2>4, <2>5, <2>6
  <2>8. QED
    <3> HIDE DEF P
    <3> QED BY <1>2, <2>1, <2>2, <2>7, LinksFrame
<1>10. QED
  BY <1>5, <1>6, <1>8, <1>9 DEF IInv

LEMMA WaitFirstKeepsInv ==
  ASSUME IInv, NEW b \in Battles, WaitFirst(b)
  PROVE  IInv'
<1>1. PICK c \in ToSet(Children[b]) :
        /\ pc[c] = "exit"
        /\ pc' = [pc EXCEPT ![c] = "reaped", ![b] = IF b = "A" THEN "last_wait" ELSE "relay_up"]
  BY DEF WaitFirst
<1>2. PICK i \in 1 .. 2 : c = Children[b][i]
  BY Tree
<1> PICK l : l = IF b = "A" THEN "last_wait" ELSE "relay_up"
  OBVIOUS
<1>3. pc[b] = "wait" /\ pc' = [pc EXCEPT ![c] = "reaped", ![b] = l]
  BY <1>1 DEF WaitFirst
<1>4. b \in Procs /\ c \in Procs /\ b # c /\ pc \in [Procs -> BattleLabels \union PlayerLabels \union Gone \union {"unborn"}]
  BY <1>1, <1>2, <1>3, Tree DEF IInv, Values, Procs
<1>5. pc'[b] = l /\ pc' = [pc EXCEPT ![c] = "reaped", ![b] = pc'[b]]
  BY <1>3, <1>4
<1>6. UNCHANGED <<status, win, mystatus, origin_HP, down, up, fifos, fifo, champion, roster>>
  BY DEF WaitFirst
<1>7. Reaps(b, c)
  BY <1>1, <1>3, <1>5, <1>6 DEF Reaps
<1>8. champion' \in Numbers \union {-1}
  BY <1>6 DEF IInv, Values
<1>9. QED
  BY <1>2, <1>7, <1>8, ReapKeepsInv

LEMMA WaitLastKeepsInv ==
  ASSUME IInv, NEW b \in Battles, WaitLast(b)
  PROVE  IInv'
<1>1. PICK c \in ToSet(Children[b]) :
        /\ pc[c] = "exit"
        /\ pc' = [pc EXCEPT ![c] = "reaped", ![b] = "exit"]
  BY DEF WaitLast
<1>2. PICK i \in 1 .. 2 : c = Children[b][i]
  BY Tree
<1>3. pc[b] = "last_wait" /\ UNCHANGED <<status, win, mystatus, origin_HP, down, up, fifos, fifo, roster>>
  BY DEF WaitLast
<1>4. b \in Procs /\ c \in Procs /\ b # c /\ pc \in [Procs -> BattleLabels \union PlayerLabels \union Gone \union {"unborn"}]
  BY <1>1, <1>2, <1>3, Tree DEF IInv, Values, Procs
<1>5. pc'[b] = "exit" /\ pc' = [pc EXCEPT ![c] = "reaped", ![b] = pc'[b]]
  BY <1>1, <1>4
<1>6. Reaps(b, c)
  BY <1>1, <1>3, <1>5 DEF Reaps
<1>7. champion' \in Numbers \union {-1}
  <2>1. win[b] \in 1 .. 2 /\ status[b] \in [1 .. 2 -> Statuses]
    BY <1>3 DEF IInv, AllBattles, Battle, Values
  <2>2. Winner(b) \in Numbers \union {-1}
    BY <2>1 DEF Winner, Statuses
  <2>3. champion \in Numbers \union {-1}
    BY DEF IInv, Values
  <2>4. QED
    BY <2>2, <2>3 DEF WaitLast
<1>8. QED
  BY <1>2, <1>6, <1>7, ReapKeepsInv

\* What a battle knows of its children while it relays.
LEMMA RelayKnows ==
  ASSUME IInv, NEW b \in Battles, pc[b] \in {"relay_up", "relay_down"}
  PROVE  /\ b \in Procs /\ b # "A" /\ win[b] \in 1 .. 2
         /\ \A j \in 1 .. 2 : /\ Children[b][j] \in Procs /\ Children[b][j] # b
                              /\ (j # win[b] => pc[Children[b][j]] = "reaped" /\ Quiet(Children[b][j]))
         /\ \E d \in Battles, j \in 1 .. 2 : Children[d][j] = b /\ d # b /\ Link(d, j)
<1>1. b \in Procs /\ Battle(b) /\ \A j \in 1 .. 2 : Link(b, j)
  BY DEF IInv, AllBattles, Links, Procs
<1>2. b # "A" /\ win[b] \in 1 .. 2 /\ \A j \in 1 .. 2 : Children[b][j] # b
  BY <1>1 DEF Battle
<1>3. \A j \in 1 .. 2 : j # win[b] => Over(b, j)
  BY DEF Over
<1>4. \A j \in 1 .. 2 : j # win[b] => pc[Children[b][j]] = "reaped" /\ Quiet(Children[b][j])
  BY <1>1, <1>3 DEF Link
<1>5. \E d \in Battles, j \in 1 .. 2 : Children[d][j] = b /\ d # b /\ Link(d, j)
  <2>1. PICK d \in Battles, j \in 1 .. 2 : Children[d][j] = b
    BY <1>1, <1>2, Tree
  <2>2. QED
    BY <1>2, <2>1 DEF IInv, Links
<1>6. QED
  BY <1>1, <1>2, <1>4, <1>5, Tree

LEMMA RelayUpKeepsInv ==
  ASSUME IInv, NEW b \in Battles, RelayUp(b)
  PROVE  IInv'
<1> PICK w : w = win[b]
  OBVIOUS
<1> PICK c, s : c = Children[b][w] /\ s = status[b][w]
  OBVIOUS
<1>1. /\ pc[b] = "relay_up"
      /\ up[c] # <<>>
      /\ status' = [status EXCEPT ![b][w] = Head(up[c])]
      /\ up' = Send(Receive(up, c), b, Head(up[c]))
      /\ pc' = [pc EXCEPT ![b] = "relay_down"]
      /\ UNCHANGED <<win, mystatus, origin_HP, down, fifos, fifo, champion, roster, defeats>>
  BY DEF RelayUp, Goto
<1>2. /\ b \in Procs /\ b # "A" /\ w \in 1 .. 2 /\ c \in Procs /\ c # b
      /\ \A j \in 1 .. 2 : Children[b][j] \in Procs /\ Children[b][j] # b
      /\ Values /\ Links /\ AllBattles /\ AllPlayers /\ Alone
      /\ \A j \in 1 .. 2 : j # w => pc[Children[b][j]] = "reaped" /\ Quiet(Children[b][j])
      /\ pc \in [Procs -> BattleLabels \union PlayerLabels \union Gone \union {"unborn"}]
      /\ up \in [Procs -> Seq(Statuses)]
  <2>1. pc[b] \in {"relay_up", "relay_down"}
    BY <1>1
  <2>2. /\ b \in Procs /\ b # "A" /\ win[b] \in 1 .. 2
        /\ \A j \in 1 .. 2 : /\ Children[b][j] \in Procs /\ Children[b][j] # b
                             /\ (j # win[b] => pc[Children[b][j]] = "reaped" /\ Quiet(Children[b][j]))
    BY <2>1, RelayKnows
  <2>3. /\ Values /\ Links /\ AllBattles /\ AllPlayers /\ Alone
        /\ pc \in [Procs -> BattleLabels \union PlayerLabels \union Gone \union {"unborn"}]
        /\ up \in [Procs -> Seq(Statuses)]
    BY DEF IInv, Values
  <2>4. c \in Procs /\ c # b
    BY <2>2
  <2>5. QED
    BY <2>2, <2>3, <2>4
<1>3. PICK d \in Battles, k \in 1 .. 2 : Children[d][k] = b /\ d # b /\ Link(d, k)
  BY <1>1, RelayKnows
<1>4. Quiet(b)
  <2>1. ~Answers(b) /\ ~Waits(b) /\ ~Leaves(b) /\ \A r : ~IsTold(b, r)
    BY <1>1 DEF Answers, Waits, Leaves, IsTold, Listens, Late
  <2>2. ~Unborn(d, k) /\ ~Free(d, k) /\ ~Over(d, k) /\ ~Ending(d, k)
    BY <1>1, <1>3, <2>1 DEF Link
  <2>3. Due(d, k) \/ Owed(d, k)
    BY <2>2, Stages
  <2>4. QED
    BY <1>3, <2>1, <2>3 DEF Link, Begins, Passes
<1>5. PICK t \in Statuses : /\ Answers(c) /\ Holds(up, c, t) /\ Fit(t)
                            /\ s.ended = 0 => s = t
  <2>1. Owed(b, w) /\ Link(b, w)
    BY <1>1, <1>2 DEF Owed, Links
  <2>2. ~IsTold(c, s) /\ ~Passes(c, s)
    BY <1>1 DEF IsTold, Passes, Quiet
  <2>3. Answers(c) /\ (s.ended = 0 => up[c] = <<s>>)
    BY <2>1, <2>2 DEF Link
  <2>4. PICK t \in Statuses : up[c] = <<t>> /\ Fit(t)
    BY <2>3 DEF Answers
  <2>5. s.ended = 0 => s = t
    <3>1. <<s>> = <<t>> => s = t
      OBVIOUS
    <3>2. QED
      BY <2>3, <2>4, <3>1
  <2>6. QED
    BY <2>3, <2>4, <2>5 DEF Holds
<1>6. /\ Receive(up, c) \in [Procs -> Seq(Statuses)]
      /\ Head(up[c]) = t /\ Receive(up, c)[c] = <<>>
      /\ \A x \in Procs : x # c => Receive(up, c)[x] = up[x]
  BY <1>2, <1>5, OneIsRead
<1>7. /\ up' \in [Procs -> Seq(Statuses)]
      /\ Holds(up', b, t) /\ up'[c] = <<>>
      /\ \A x \in Procs : x # b /\ x # c => up'[x] = up[x]
  <2>1. PICK mid : mid = Receive(up, c)
    OBVIOUS
  <2>2. /\ mid \in [Procs -> Seq(Statuses)] /\ mid[c] = <<>> /\ mid[b] = <<>>
        /\ \A x \in Procs : x # c => mid[x] = up[x]
    BY <1>2, <1>4, <1>6, <2>1 DEF Quiet
  <2>3. up' = Send(mid, b, t)
    BY <1>1, <1>6, <2>1
  <2>4. /\ Send(mid, b, t) \in [Procs -> Seq(Statuses)]
        /\ Holds(Send(mid, b, t), b, t)
        /\ \A x \in Procs : x # b => Send(mid, b, t)[x] = mid[x]
    <3>1. mid \in [Procs -> Seq(Statuses)] /\ b \in Procs /\ t \in Statuses /\ mid[b] = <<>>
      BY <1>2, <2>2
    <3>2. QED
      BY <3>1, OneIsWritten
  <2>5. QED
    BY <1>2, <2>2, <2>3, <2>4
<1>8. /\ status' \in [Battles -> [1 .. 2 -> Statuses]]
      /\ \A e \in Battles : e # b => status'[e] = status[e]
  <2>1. Sets(status', b, w, t)
    BY <1>1, <1>6 DEF Sets
  <2>2. QED
    BY <1>2, <2>1, StatusType
<1>9. /\ pc'[b] = "relay_down" /\ pc' = [pc EXCEPT ![b] = pc'[b]]
      /\ \A x \in Procs : x # b => pc'[x] = pc[x]
      /\ pc[b] \in BattleLabels /\ pc'[b] \in BattleLabels
  BY <1>1, <1>2 DEF BattleLabels
<1>10. Values'
  <2>1. pc' \in [Procs -> BattleLabels \union PlayerLabels \union Gone \union {"unborn"}]
    BY <1>2, <1>9
  <2>2. \A x \in Procs : (pc'[x] \in BattleLabels => x \in Battles) /\ (pc'[x] \in PlayerLabels => x \in Players)
    BY <1>2, <1>9 DEF Values, BattleLabels, PlayerLabels
  <2>3. QED
    BY <1>1, <1>2, <1>7, <1>8, <2>1, <2>2, SameStatuses DEF Values
<1>11. ASSUME NEW j \in 1 .. 2 PROVE Link(b, j)'
  <2> PICK e : e = Children[b][j]
    OBVIOUS
  <2>1. e \in Procs /\ e # b /\ (j # w => e # c)
    BY <1>2, Tree
  <2>2. CASE j = w
    <3>1. Waits(e)'
      BY <1>1, <1>2, <1>5, <1>7, <1>9, <2>2 DEF Waits, Answers, Listens, Quiet
    <3>2. win'[b] = j
      BY <1>1, <2>2
    <3>3. QED
      BY <1>9, <3>1, <3>2 DEF Link, Unborn, Due, Free, Held, Replayed, Owed, Ending, Over, Gone
  <2>3. CASE j # w
    <3>1. pc[e] = "reaped" /\ Quiet(e) /\ e # c
      BY <1>2, <2>1, <2>3
    <3>2. pc'[e] = pc[e] /\ up'[e] = up[e] /\ down'[e] = down[e]
      BY <1>1, <1>7, <1>9, <2>1, <3>1
    <3>3. pc'[e] = "reaped" /\ Quiet(e)'
      BY <3>1, <3>2 DEF Quiet
    <3>4. win'[b] # j
      BY <1>1, <2>3
    <3>5. QED
      BY <1>9, <3>3, <3>4 DEF Link, Unborn, Due, Free, Held, Replayed, Owed, Ending, Over, Gone
  <2>4. QED
    BY <2>2, <2>3
<1>12. ASSUME NEW e \in Battles, NEW j \in 1 .. 2, Children[e][j] = b PROVE Link(e, j)'
  <2>1. e = d /\ j = k
    BY <1>3, <1>12, Tree
  <2>2. Rests(d)
    BY <1>1, <1>3, <1>8, <1>9 DEF Rests, Procs
  <2>3. Answers(b)'
    <3>1. Fit(t)' /\ t \in Statuses'
      BY <1>1, <1>5, SameStatuses DEF Fit
    <3>2. Listens(b)' /\ down'[b] = <<>>
      BY <1>1, <1>4, <1>9 DEF Listens, Quiet
    <3>3. QED
      BY <1>7, <3>1, <3>2 DEF Answers, Holds
  <2>4. status[b][win[b]].ended = 0 => up'[b] = <<status[b][win[b]]>>
    BY <1>5, <1>7 DEF Holds
  <2>5. pc'[b] # "reaped"
    BY <1>9
  <2>6. QED
    BY <1>1, <1>3, <2>1, <2>2, <2>3, <2>4, <2>5, RelayStep
<1>13. Battle(b)'
  <2>1. \A j \in 1 .. 2 : Children[b][j] # b
    BY <1>2
  <2>2. win'[b] \in 1 .. 2
    BY <1>1, <1>2
  <2>3. QED
    BY <1>2, <2>1, <2>2 DEF Battle
<1>14. Links' /\ AllBattles' /\ AllPlayers' /\ Alone'
  <2>1. \A x \in Procs : x # b /\ x \notin ToSet(Children[b]) => up'[x] = up[x] /\ down'[x] = down[x]
    <3>1. c \in ToSet(Children[b])
      <4>1. w \in 1 .. 2
        BY <1>2
      <4>2. QED
        BY <4>1, Tree
    <3>2. QED
      BY <1>1, <1>7, <3>1
  <2>2. \A e \in Battles : e # b => status'[e] = status[e] /\ win'[e] = win[e]
    BY <1>1, <1>8
  <2>3. QED
    BY <1>1, <1>9, <1>11, <1>12, <1>13, <2>1, <2>2, OneBattleMoves
<1>15. QED
  BY <1>10, <1>14 DEF IInv

LEMMA RelayDownKeepsInv ==
  ASSUME IInv, NEW b \in Battles, RelayDown(b)
  PROVE  IInv'
<1> PICK w : w = win[b]
  OBVIOUS
<1> PICK c, l : c = Children[b][w] /\ l = AfterRelay(Head(down[b]))
  OBVIOUS
<1>1. /\ pc[b] = "relay_down"
      /\ down[b] # <<>>
      /\ status' = [status EXCEPT ![b][w] = Head(down[b])]
      /\ down' = Send(Receive(down, b), c, Head(down[b]))
      /\ pc' = [pc EXCEPT ![b] = l]
      /\ UNCHANGED <<win, mystatus, origin_HP, up, fifos, fifo, champion, roster, defeats>>
  BY DEF RelayDown, Goto
<1>2. /\ b \in Procs /\ b # "A" /\ w \in 1 .. 2 /\ c \in Procs /\ c # b
      /\ \A j \in 1 .. 2 : Children[b][j] \in Procs /\ Children[b][j] # b
      /\ Values /\ Links /\ AllBattles /\ AllPlayers /\ Alone
      /\ \A j \in 1 .. 2 : j # w => pc[Children[b][j]] = "reaped" /\ Quiet(Children[b][j])
      /\ pc \in [Procs -> BattleLabels \union PlayerLabels \union Gone \union {"unborn"}]
      /\ down \in [Procs -> Seq(Statuses)]
  <2>1. pc[b] \in {"relay_up", "relay_down"}
    BY <1>1
  <2>2. /\ b \in Procs /\ b # "A" /\ win[b] \in 1 .. 2
        /\ \A j \in 1 .. 2 : /\ Children[b][j] \in Procs /\ Children[b][j] # b
                             /\ (j # win[b] => pc[Children[b][j]] = "reaped" /\ Quiet(Children[b][j]))
    BY <2>1, RelayKnows
  <2>3. /\ Values /\ Links /\ AllBattles /\ AllPlayers /\ Alone
        /\ pc \in [Procs -> BattleLabels \union PlayerLabels \union Gone \union {"unborn"}]
        /\ down \in [Procs -> Seq(Statuses)]
    BY DEF IInv, Values
  <2>4. c \in Procs /\ c # b
    BY <2>2
  <2>5. QED
    BY <2>2, <2>3, <2>4
<1>3. PICK d \in Battles, k \in 1 .. 2 : Children[d][k] = b /\ d # b /\ Link(d, k)
  BY <1>1, RelayKnows
<1> PICK t : t = status[d][k]
  OBVIOUS
<1>4. IsTold(b, t) /\ Proper(t) /\ t \in Statuses
  BY <1>1, <1>3, ToldIs DEF Listens, Proper
<1>5. Holds(down, b, t) /\ up[b] = <<>> /\ \A r : IsTold(b, r) => r = t
  <2>1. Holds(down, b, t) /\ up[b] = <<>>
    BY <1>4 DEF IsTold, Holds
  <2>2. ASSUME NEW r, IsTold(b, r) PROVE r = t
    <3>1. <<r>> = <<t>>
      BY <1>4, <2>2 DEF IsTold
    <3>2. QED
      BY <3>1
  <2>3. QED
    BY <2>1, <2>2
<1>6. Waits(c)
  BY <1>1, <1>2 DEF Links, Link, Free
<1>7. /\ Receive(down, b) \in [Procs -> Seq(Statuses)]
      /\ Head(down[b]) = t /\ Receive(down, b)[b] = <<>>
      /\ \A x \in Procs : x # b => Receive(down, b)[x] = down[x]
  <2>1. down \in [Procs -> Seq(Statuses)] /\ b \in Procs /\ t \in Statuses /\ Holds(down, b, t)
    BY <1>2, <1>4, <1>5
  <2>2. QED
    BY <2>1, OneIsRead
<1>8. /\ down' \in [Procs -> Seq(Statuses)]
      /\ Holds(down', c, t) /\ down'[b] = <<>>
      /\ \A x \in Procs : x # b /\ x # c => down'[x] = down[x]
  <2>1. PICK mid : mid = Receive(down, b)
    OBVIOUS
  <2>2. /\ mid \in [Procs -> Seq(Statuses)] /\ mid[c] = <<>> /\ mid[b] = <<>>
        /\ \A x \in Procs : x # b => mid[x] = down[x]
    BY <1>2, <1>6, <1>7, <2>1 DEF Waits, Quiet
  <2>3. down' = Send(mid, c, t)
    BY <1>1, <1>7, <2>1
  <2>4. /\ Send(mid, c, t) \in [Procs -> Seq(Statuses)]
        /\ Holds(Send(mid, c, t), c, t)
        /\ \A x \in Procs : x # c => Send(mid, c, t)[x] = mid[x]
    <3>1. c \in Procs /\ t \in Statuses /\ mid \in [Procs -> Seq(Statuses)] /\ mid[c] = <<>>
      BY <1>2, <1>4, <2>2
    <3>2. QED
      BY <3>1, OneIsWritten
  <2>5. QED
    BY <1>2, <2>2, <2>3, <2>4
<1>9. /\ status' \in [Battles -> [1 .. 2 -> Statuses]]
      /\ status'[b][w] = t
      /\ \A e \in Battles : e # b => status'[e] = status[e]
  <2>1. Sets(status', b, w, t)
    BY <1>1, <1>7 DEF Sets
  <2>2. QED
    BY <1>2, <1>4, <2>1, StatusType
<1>10. /\ pc'[b] = l /\ pc' = [pc EXCEPT ![b] = pc'[b]]
       /\ \A x \in Procs : x # b => pc'[x] = pc[x]
       /\ l = IF Final(t) THEN "last_wait" ELSE "relay_up"
       /\ pc[b] \in BattleLabels /\ pc'[b] \in BattleLabels
  <2>1. l = IF Final(t) THEN "last_wait" ELSE "relay_up"
    BY <1>7 DEF AfterRelay, Final
  <2>2. QED
    BY <1>1, <1>2, <2>1 DEF BattleLabels
<1>11. Values'
  <2>1. pc' \in [Procs -> BattleLabels \union PlayerLabels \union Gone \union {"unborn"}]
    BY <1>2, <1>10
  <2>2. \A x \in Procs : (pc'[x] \in BattleLabels => x \in Battles) /\ (pc'[x] \in PlayerLabels => x \in Players)
    BY <1>2, <1>10 DEF Values, BattleLabels, PlayerLabels
  <2>3. QED
    BY <1>1, <1>2, <1>8, <1>9, <2>1, <2>2, SameStatuses DEF Values
<1>12. ASSUME NEW j \in 1 .. 2 PROVE Link(b, j)'
  <2> PICK e : e = Children[b][j]
    OBVIOUS
  <2>1. e \in Procs /\ e # b /\ (j # w => e # c)
    BY <1>2, Tree
  <2>2. CASE j = w
    <3>1. IsTold(e, t)'
      BY <1>1, <1>6, <1>8, <1>10, <2>1, <2>2 DEF IsTold, Waits, Listens, Quiet, Holds
    <3>2. win'[b] = j /\ status'[b][j] = t /\ Proper(t)' /\ (Final(t)' <=> Final(t))
      BY <1>1, <1>4, <1>9, <2>2, SameStatuses DEF Proper, Final
    <3>3. QED
      BY <1>2, <1>10, <3>1, <3>2 DEF Link, Unborn, Due, Free, Held, Replayed, Owed, Ending, Over, Gone
  <2>3. CASE j # w
    <3>1. pc'[e] = "reaped" /\ Quiet(e)'
      BY <1>1, <1>2, <1>8, <1>10, <2>1, <2>3 DEF Quiet
    <3>2. win'[b] # j
      BY <1>1, <2>3
    <3>3. QED
      BY <1>2, <1>10, <3>1, <3>2 DEF Link, Unborn, Due, Free, Held, Replayed, Owed, Ending, Over, Gone
  <2>4. QED
    BY <2>2, <2>3
<1>13. ASSUME NEW e \in Battles, NEW j \in 1 .. 2, Children[e][j] = b PROVE Link(e, j)'
  <2>1. e = d /\ j = k
    BY <1>3, <1>13, Tree
  <2>2. Rests(d)
    BY <1>1, <1>3, <1>9, <1>10 DEF Rests, Procs
  <2>3. Heeds(b, t)
    <3>1. Quiet(b)'
      BY <1>1, <1>5, <1>8 DEF Quiet
    <3>2. ~Final(t) => Passes(b, t)'
      BY <1>1, <1>9, <1>10, <3>1 DEF Passes
    <3>3. Final(t) => Leaves(b)'
      BY <1>10, <3>1 DEF Leaves, Late
    <3>4. QED
      BY <3>2, <3>3 DEF Heeds
  <2>4. \A r : IsTold(b, r) => Heeds(b, r)
    BY <1>5, <2>3
  <2>5. Listens(b) /\ pc'[b] # "reaped"
    BY <1>1, <1>10 DEF Listens
  <2>6. QED
    BY <1>1, <1>3, <2>1, <2>2, <2>4, <2>5, ToldStep
<1>14. Battle(b)'
  <2>1. \A j \in 1 .. 2 : Children[b][j] # b
    BY <1>2
  <2>2. win'[b] \in 1 .. 2
    BY <1>1, <1>2
  <2>3. QED
    BY <1>2, <2>1, <2>2 DEF Battle
<1>15. Links' /\ AllBattles' /\ AllPlayers' /\ Alone'
  <2>1. \A x \in Procs : x # b /\ x \notin ToSet(Children[b]) => up'[x] = up[x] /\ down'[x] = down[x]
    <3>1. c \in ToSet(Children[b])
      <4>1. w \in 1 .. 2
        BY <1>2
      <4>2. QED
        BY <4>1, Tree
    <3>2. QED
      BY <1>1, <1>8, <3>1
  <2>2. \A e \in Battles : e # b => status'[e] = status[e] /\ win'[e] = win[e]
    BY <1>1, <1>9
  <2>3. QED
    BY <1>1, <1>10, <1>12, <1>13, <1>14, <2>1, <2>2, OneBattleMoves
<1>16. QED
  BY <1>11, <1>15 DEF IInv

-----------------------------------------------------------------------------
(***************************************************************************)
(* The steps of a player.                                                  *)
(***************************************************************************)

\* The pipes of a process that neither listens nor has gone are empty.
LEMMA SilentIsQuiet ==
  ASSUME IInv, NEW c \in Procs \ {"A"}, pc[c] \in Early \union Late \union {"relay_up"}
  PROVE  Quiet(c)
<1>1. PICK d \in Battles, k \in 1 .. 2 : Children[d][k] = c
  BY Tree
<1>2. Link(d, k)
  BY DEF IInv, Links
<1>3. pc[c] # "unborn" /\ pc[c] # "reaped" /\ ~Listens(c)
  BY DEF Early, Late, Listens
<1>4. ~Answers(c) /\ ~Waits(c) /\ \A r : ~IsTold(c, r)
  BY <1>3 DEF Answers, Waits, IsTold
<1>5. ~Unborn(d, k) /\ ~Free(d, k) /\ ~Over(d, k)
  BY <1>1, <1>2, <1>3, <1>4 DEF Link
<1>6. Due(d, k) \/ Owed(d, k) \/ Ending(d, k)
  BY <1>5, Stages
<1>7. QED
  BY <1>1, <1>2, <1>4, <1>6 DEF Link, Begins, Passes, Leaves

\* Only the players in K do something.
Moves(K) ==
  /\ pc' \in [Procs -> BattleLabels \union PlayerLabels \union Gone \union {"unborn"}]
  /\ \A x \in K : pc[x] \in PlayerLabels /\ pc'[x] \in PlayerLabels \union {"exit"}
  /\ \A x \in Procs : x \notin K => pc'[x] = pc[x] /\ up'[x] = up[x] /\ down'[x] = down[x]
  /\ UNCHANGED <<status, win, champion, roster>>
  /\ mystatus' \in [Players -> Statuses] /\ origin_HP' \in [Players -> Int]
  /\ down' \in [Procs -> Seq(Statuses)] /\ up' \in [Procs -> Seq(Statuses)]
  /\ fifos' \subseteq Players /\ fifo' \in [Players -> Seq(Statuses)]

LEMMA PlayersMove ==
  ASSUME IInv, NEW K \in SUBSET Players, Moves(K),
         \A d \in Battles, j \in 1 .. 2 : Children[d][j] \in K => Link(d, j)'
  PROVE  Values' /\ Links' /\ AllBattles'
<1>1. Values /\ Links /\ Battles \intersect Players = {} /\ "A" \in Battles
  BY Tree DEF IInv
<1>2. UNCHANGED <<status, win, champion, roster>>
  BY DEF Moves
<1>3. \A x \in Procs : x \notin K => pc'[x] = pc[x] /\ up'[x] = up[x] /\ down'[x] = down[x]
  BY DEF Moves
<1>4. \A x \in K : pc[x] \in PlayerLabels /\ pc'[x] \in PlayerLabels \union {"exit"}
  BY DEF Moves
<1>5. Values'
  <2>1. \A x \in Procs : (pc'[x] \in BattleLabels => x \in Battles) /\ (pc'[x] \in PlayerLabels => x \in Players)
    BY <1>1, <1>3, <1>4 DEF Values, BattleLabels, PlayerLabels
  <2>2. /\ pc' \in [Procs -> BattleLabels \union PlayerLabels \union Gone \union {"unborn"}]
        /\ mystatus' \in [Players -> Statuses] /\ origin_HP' \in [Players -> Int]
        /\ down' \in [Procs -> Seq(Statuses)] /\ up' \in [Procs -> Seq(Statuses)]
        /\ fifos' \subseteq Players /\ fifo' \in [Players -> Seq(Statuses)]
    BY DEF Moves
  <2>3. Statuses' = Statuses /\ Numbers' = Numbers
    BY <1>2, SameStatuses
  <2>4. QED
    BY <1>1, <1>2, <2>1, <2>2, <2>3 DEF Values
<1>6. \A d \in Battles : d \in Procs /\ d \notin K
  BY <1>1 DEF Procs
<1> PICK P : P = {}
  OBVIOUS
<1>7. Links'
  <2>1. \A d \in Battles : d \notin P => Rests(d)
    BY <1>2, <1>3, <1>6 DEF Rests
  <2>2. \A x \in Procs : x \notin K => Still(x)
    BY <1>2, <1>3 DEF Still
  <2>3. \A d \in Battles, j \in 1 .. 2 : d \in P \/ Children[d][j] \in K => Link(d, j)'
    OBVIOUS
  <2>4. QED
    BY <1>1, <2>1, <2>2, <2>3, LinksFrame
<1>8. AllBattles'
  <2>1. \A d \in Battles : d \notin P => UNCHANGED <<pc[d], win[d]>>
    BY <1>2, <1>3, <1>6
  <2>2. "A" \notin P => UNCHANGED <<up["A"], down["A"]>>
    BY <1>1, <1>3, <1>6
  <2>3. \A x \in Procs : pc[x] = "reaped" => pc'[x] = "reaped"
    BY <1>3, <1>4 DEF PlayerLabels
  <2>4. \A d \in Battles : d \in P => Battle(d)'
    OBVIOUS
  <2>5. QED
    BY <2>1, <2>2, <2>3, <2>4, BattlesFrame
<1>9. QED
  BY <1>5, <1>7, <1>8

\* A player's step that neither opens nor writes to a FIFO.
Minds(p) ==
  /\ pc[p] # "take_over" \/ fifo[p] # <<>>
  /\ pc'[p] # "hand_over"
  /\ \A q \in Players : q # p => /\ pc'[q] = pc[q] /\ mystatus'[q] = mystatus[q]
                                 /\ origin_HP'[q] = origin_HP[q] /\ fifo'[q] = fifo[q]
  /\ roster' = roster

LEMMA PlayersMind ==
  ASSUME AllPlayers, Alone, NEW p \in Players, Minds(p), Player(p)'
  PROVE  AllPlayers' /\ Alone'
<1>1. ASSUME NEW q \in Players, q # p PROVE Player(q)' /\ MyAgent(q)' = MyAgent(q)
  <2>1. /\ pc'[q] = pc[q] /\ mystatus'[q] = mystatus[q]
        /\ origin_HP'[q] = origin_HP[q] /\ fifo'[q] = fifo[q]
    BY <1>1 DEF Minds
  <2>2. Player(q) /\ MyAgent(q)' = MyAgent(q)
    BY <2>1 DEF AllPlayers, MyAgent
  <2>3. Numbers' = Numbers /\ Statuses' = Statuses /\ \A s : Fit(s)' <=> Fit(s)
    BY SameStatuses DEF Minds, Fit
  <2>4. pc[q] = "hand_over" => /\ MyAgent(q) \in Players /\ pc'[MyAgent(q)] = "take_over"
                               /\ fifo'[MyAgent(q)] = <<>>
    <3>1. SUFFICES ASSUME pc[q] = "hand_over" PROVE /\ MyAgent(q) \in Players /\ pc'[MyAgent(q)] = "take_over"
                                                    /\ fifo'[MyAgent(q)] = <<>>
      OBVIOUS
    <3>2. MyAgent(q) \in Players /\ pc[MyAgent(q)] = "take_over" /\ fifo[MyAgent(q)] = <<>>
      BY <2>2, <3>1 DEF Player
    <3>3. MyAgent(q) # p
      BY <3>2 DEF Minds
    <3>4. QED
      BY <3>2, <3>3 DEF Minds
  <2>5. (fifo[q] # <<>> => pc[q] = "take_over" /\ \E s \in Statuses : fifo[q] = <<s>> /\ Fit(s))'
    BY <2>1, <2>2, <2>3 DEF Player
  <2>6. QED
    BY <2>1, <2>2, <2>3, <2>4, <2>5 DEF Player
<1>2. Alone'
  <2> SUFFICES ASSUME NEW q \in Players, NEW r \in Players,
                      pc'[q] = "hand_over", pc'[r] = "hand_over", MyAgent(q)' = MyAgent(r)'
               PROVE  q = r
    BY DEF Alone
  <2>1. q # p /\ r # p
    BY DEF Minds
  <2>2. pc[q] = "hand_over" /\ pc[r] = "hand_over"
    BY <2>1 DEF Minds
  <2>3. MyAgent(q) = MyAgent(r)
    BY <1>1, <2>1
  <2>4. QED
    BY <2>2, <2>3 DEF Alone
<1>3. QED
  BY <1>1, <1>2 DEF AllPlayers

\* A player p begins to fight with the status s.
Enters(p, s) ==
  /\ mystatus' = [mystatus EXCEPT ![p] = s]
  /\ origin_HP' = [origin_HP EXCEPT ![p] = s.HP]
  /\ up' = Send(up, p, s)
  /\ pc' = [pc EXCEPT ![p] = "fight"]
  /\ fifo' \in [Players -> Seq(Statuses)] /\ fifo'[p] = <<>>
  /\ \A q \in Players : q # p => fifo'[q] = fifo[q]
  /\ UNCHANGED <<status, win, down, fifos, champion, roster>>

LEMMA BeginKeepsInv ==
  ASSUME IInv, NEW p \in Players, NEW s \in Statuses, Fit(s), Enters(p, s),
         pc[p] = "start" \/ (pc[p] = "take_over" /\ fifo[p] # <<>>)
  PROVE  IInv'
<1>1. /\ mystatus' = [mystatus EXCEPT ![p] = s]
      /\ origin_HP' = [origin_HP EXCEPT ![p] = s.HP]
      /\ up' = Send(up, p, s)
      /\ pc' = [pc EXCEPT ![p] = "fight"]
      /\ fifo' \in [Players -> Seq(Statuses)] /\ fifo'[p] = <<>>
      /\ \A q \in Players : q # p => fifo'[q] = fifo[q]
      /\ UNCHANGED <<status, win, down, fifos, champion, roster>>
  BY DEF Enters
<1>2. /\ p \in Procs \ {"A"} /\ p \notin Battles
      /\ Links /\ AllPlayers /\ Alone /\ fifos \subseteq Players
      /\ pc \in [Procs -> BattleLabels \union PlayerLabels \union Gone \union {"unborn"}]
      /\ mystatus \in [Players -> Statuses] /\ origin_HP \in [Players -> Int]
      /\ up \in [Procs -> Seq(Statuses)] /\ down \in [Procs -> Seq(Statuses)]
  BY Tree DEF IInv, Values, Procs
<1>3. pc[p] \in Early /\ pc[p] \in PlayerLabels /\ Quiet(p)
  <2>1. pc[p] \in Early /\ pc[p] \in PlayerLabels
    BY DEF Early, PlayerLabels
  <2>2. QED
    BY <1>2, <2>1, SilentIsQuiet
<1>4. s.HP \in Int /\ s.HP > 0
  BY DEF Fit, Statuses
<1>5. /\ up' \in [Procs -> Seq(Statuses)] /\ Holds(up', p, s)
      /\ \A x \in Procs : x # p => up'[x] = up[x]
  <2>1. up[p] = <<>>
    BY <1>3 DEF Quiet
  <2>2. /\ Send(up, p, s) \in [Procs -> Seq(Statuses)] /\ Holds(Send(up, p, s), p, s)
        /\ \A x \in Procs : x # p => Send(up, p, s)[x] = up[x]
    BY <1>2, <2>1, OneIsWritten
  <2>3. QED
    BY <1>1, <2>2
<1>6. /\ pc'[p] = "fight" /\ \A x \in Procs : x # p => pc'[x] = pc[x]
      /\ mystatus'[p] = s /\ origin_HP'[p] = s.HP
      /\ \A q \in Players : q # p => mystatus'[q] = mystatus[q] /\ origin_HP'[q] = origin_HP[q]
      /\ mystatus' \in [Players -> Statuses] /\ origin_HP' \in [Players -> Int]
      /\ pc' \in [Procs -> BattleLabels \union PlayerLabels \union Gone \union {"unborn"}]
  BY <1>1, <1>2, <1>4 DEF PlayerLabels
<1>7. Moves({p})
  <2>1. \A x \in {p} : pc[x] \in PlayerLabels /\ pc'[x] \in PlayerLabels \union {"exit"}
    BY <1>3, <1>6 DEF PlayerLabels
  <2>2. \A x \in Procs : x \notin {p} => pc'[x] = pc[x] /\ up'[x] = up[x] /\ down'[x] = down[x]
    BY <1>1, <1>5, <1>6
  <2>3. QED
    BY <1>1, <1>2, <1>5, <1>6, <2>1, <2>2 DEF Moves
<1>8. ASSUME NEW d \in Battles, NEW j \in 1 .. 2, Children[d][j] \in {p} PROVE Link(d, j)'
  <2>1. Children[d][j] = p /\ Link(d, j) /\ d # p /\ d \in Procs
    BY <1>2, <1>8 DEF Links, Procs
  <2>2. Rests(d)
    BY <1>1, <1>6, <2>1 DEF Rests
  <2>3. Answers(p)'
    <3>1. Fit(s)' /\ s \in Statuses'
      BY <1>1, SameStatuses DEF Fit
    <3>2. Listens(p)' /\ down'[p] = <<>>
      BY <1>1, <1>3, <1>6 DEF Listens, Quiet
    <3>3. QED
      BY <1>5, <3>1, <3>2 DEF Answers, Holds
  <2>4. pc'[p] # "reaped"
    BY <1>6
  <2>5. QED
    BY <1>3, <2>1, <2>2, <2>3, <2>4, EarlyStep
<1>9. Values' /\ Links' /\ AllBattles'
  BY <1>7, <1>8, PlayersMove
<1>10. Player(p)'
  BY <1>1, <1>4, <1>6 DEF Player
<1>11. Minds(p)
  BY <1>1, <1>2, <1>6 DEF Minds, Procs
<1>12. QED
  BY <1>2, <1>9, <1>10, <1>11, PlayersMind DEF IInv

LEMMA FreshIs ==
  ASSUME NEW n \in Numbers, NEW h \in Nat \ {0}
  PROVE  Fit([player |-> n, HP |-> h, battle |-> "none", ended |-> 0])
BY DEF Fit, Statuses

LEMMA ReadStatusKeepsInv ==
  ASSUME IInv, NEW p \in Players, ReadStatus(p)
  PROVE  IInv'
<1> PICK s : s = [NoStatus EXCEPT !.player = Id[p], !.HP = roster[Id[p]].HP]
  OBVIOUS
<1>1. /\ pc[p] = "start" /\ IsReal(Id[p])
      /\ mystatus' = [mystatus EXCEPT ![p] = s]
      /\ origin_HP' = [origin_HP EXCEPT ![p] = s.HP]
      /\ up' = Send(up, p, s)
      /\ pc' = [pc EXCEPT ![p] = "fight"]
      /\ UNCHANGED <<status, win, down, fifos, fifo, champion, roster>>
  BY DEF ReadStatus, Begin, Goto
<1>2. /\ roster \in Rosters /\ fifo \in [Players -> Seq(Statuses)] /\ Player(p)
  BY DEF IInv, Values, AllPlayers
<1>3. Id[p] \in Numbers /\ roster[Id[p]].HP \in Nat \ {0}
  BY <1>1, <1>2, TournamentAssumption DEF Numbers, Players
<1>4. s \in Statuses /\ Fit(s)
  <2>1. s = [player |-> Id[p], HP |-> roster[Id[p]].HP, battle |-> "none", ended |-> 0]
    BY DEF NoStatus
  <2>2. Fit([player |-> Id[p], HP |-> roster[Id[p]].HP, battle |-> "none", ended |-> 0])
    BY <1>3, FreshIs
  <2>3. QED
    BY <2>1, <2>2 DEF Fit
<1>5. fifo[p] = <<>>
  BY <1>1, <1>2 DEF Player
<1>6. Enters(p, s)
  BY <1>1, <1>2, <1>5 DEF Enters
<1>7. QED
  BY <1>1, <1>4, <1>6, BeginKeepsInv

LEMMA TakeOverKeepsInv ==
  ASSUME IInv, NEW p \in Players, TakeOver(p)
  PROVE  IInv'
<1> PICK s : s = Head(fifo[p])
  OBVIOUS
<1>1. /\ pc[p] = "take_over" /\ fifo[p] # <<>>
      /\ mystatus' = [mystatus EXCEPT ![p] = s]
      /\ origin_HP' = [origin_HP EXCEPT ![p] = s.HP]
      /\ up' = Send(up, p, s)
      /\ pc' = [pc EXCEPT ![p] = "fight"]
      /\ fifo' = Receive(fifo, p)
      /\ UNCHANGED <<status, win, down, fifos, champion, roster>>
  BY DEF TakeOver, Begin, Goto
<1>2. fifo \in [Players -> Seq(Statuses)] /\ Player(p)
  BY DEF IInv, Values, AllPlayers
<1>3. PICK t \in Statuses : fifo[p] = <<t>> /\ Fit(t)
  BY <1>1, <1>2 DEF Player
<1>4. t = s /\ Tail(fifo[p]) = <<>>
  BY <1>3, OneStatus
<1>5. /\ fifo' \in [Players -> Seq(Statuses)] /\ fifo'[p] = <<>>
      /\ \A q \in Players : q # p => fifo'[q] = fifo[q]
  <2>1. fifo' = [fifo EXCEPT ![p] = <<>>]
    BY <1>1, <1>4 DEF Receive
  <2>2. QED
    BY <1>2, <2>1
<1>6. Enters(p, s)
  BY <1>1, <1>5 DEF Enters
<1>7. QED
  BY <1>1, <1>3, <1>4, <1>6, BeginKeepsInv

LEMMA MakeFifoKeepsInv ==
  ASSUME IInv, NEW p \in Players, MakeFifo(p)
  PROVE  IInv'
<1>1. /\ pc[p] = "start"
      /\ fifos' = fifos \union {p}
      /\ pc' = [pc EXCEPT ![p] = "open_read"]
      /\ UNCHANGED <<status, win, mystatus, origin_HP, down, up, fifo, champion, roster>>
  BY DEF MakeFifo, Goto
<1>2. /\ p \in Procs /\ p \notin Battles
      /\ Links /\ AllPlayers /\ Alone /\ fifos \subseteq Players
      /\ pc \in [Procs -> BattleLabels \union PlayerLabels \union Gone \union {"unborn"}]
      /\ mystatus \in [Players -> Statuses] /\ origin_HP \in [Players -> Int]
      /\ up \in [Procs -> Seq(Statuses)] /\ down \in [Procs -> Seq(Statuses)]
      /\ fifo \in [Players -> Seq(Statuses)]
  BY Tree DEF IInv, Values, Procs
<1>3. pc'[p] = "open_read" /\ \A x \in Procs : x # p => pc'[x] = pc[x]
  BY <1>1, <1>2
<1>4. Moves({p})
  <2>1. \A x \in {p} : pc[x] \in PlayerLabels /\ pc'[x] \in PlayerLabels \union {"exit"}
    BY <1>1, <1>3 DEF PlayerLabels
  <2>2. \A x \in Procs : x \notin {p} => pc'[x] = pc[x] /\ up'[x] = up[x] /\ down'[x] = down[x]
    BY <1>1, <1>3
  <2>3. pc' \in [Procs -> BattleLabels \union PlayerLabels \union Gone \union {"unborn"}]
    BY <1>1, <1>2 DEF PlayerLabels
  <2>4. fifos' \subseteq Players
    BY <1>1, <1>2
  <2>5. QED
    BY <1>1, <1>2, <2>1, <2>2, <2>3, <2>4 DEF Moves
<1>5. ASSUME NEW d \in Battles, NEW j \in 1 .. 2, Children[d][j] \in {p} PROVE Link(d, j)'
  <2>1. Children[d][j] = p /\ Link(d, j) /\ d # p /\ d \in Procs
    BY <1>2, <1>5 DEF Links, Procs
  <2>2. Rests(d)
    BY <1>1, <1>3, <2>1 DEF Rests
  <2>3. pc[p] \in Early /\ pc'[p] # "reaped" /\ (Quiet(p) => Begins(p)')
    BY <1>1, <1>3 DEF Early, Begins, Quiet
  <2>4. QED
    BY <2>1, <2>2, <2>3, EarlyStep
<1>6. Values' /\ Links' /\ AllBattles'
  BY <1>4, <1>5, PlayersMove
<1>7. Player(p)'
  <2>1. fifo[p] = <<>>
    BY <1>1, <1>2 DEF AllPlayers, Player
  <2>2. QED
    BY <1>1, <1>3, <2>1 DEF Player
<1>8. Minds(p)
  BY <1>1, <1>2, <1>3 DEF Minds, Procs
<1>9. QED
  BY <1>2, <1>6, <1>7, <1>8, PlayersMind DEF IInv

LEMMA OpenFifoKeepsInv ==
  ASSUME IInv, NEW p \in Players, OpenFifo(p)
  PROVE  IInv'
<1> PICK a : a = MyAgent(p)
  OBVIOUS
<1>1. /\ pc[p] = "open_write"
      /\ a \in fifos /\ pc[a] = "open_read"
      /\ pc' = [pc EXCEPT ![p] = "hand_over", ![a] = "take_over"]
      /\ UNCHANGED <<status, win, mystatus, origin_HP, down, up, fifos, fifo, champion, roster>>
  BY DEF OpenFifo, MyAgent
<1>2. /\ Battles \intersect Players = {} /\ a \in Players /\ p # a
      /\ Links /\ AllPlayers /\ Alone /\ fifos \subseteq Players
      /\ pc \in [Procs -> BattleLabels \union PlayerLabels \union Gone \union {"unborn"}]
      /\ mystatus \in [Players -> Statuses] /\ origin_HP \in [Players -> Int]
      /\ up \in [Procs -> Seq(Statuses)] /\ down \in [Procs -> Seq(Statuses)]
      /\ fifo \in [Players -> Seq(Statuses)]
  BY <1>1, Tree DEF IInv, Values
<1>3. /\ p \in Procs /\ a \in Procs
      /\ pc'[p] = "hand_over" /\ pc'[a] = "take_over"
      /\ \A x \in Procs : x # p /\ x # a => pc'[x] = pc[x]
  BY <1>1, <1>2 DEF Procs
<1>4. Moves({p, a})
  <2>1. \A x \in {p, a} : pc[x] \in PlayerLabels /\ pc'[x] \in PlayerLabels \union {"exit"}
    BY <1>1, <1>3 DEF PlayerLabels
  <2>2. \A x \in Procs : x \notin {p, a} => pc'[x] = pc[x] /\ up'[x] = up[x] /\ down'[x] = down[x]
    BY <1>1, <1>3
  <2>3. pc' \in [Procs -> BattleLabels \union PlayerLabels \union Gone \union {"unborn"}]
    BY <1>1, <1>2 DEF PlayerLabels
  <2>4. QED
    BY <1>1, <1>2, <2>1, <2>2, <2>3 DEF Moves
<1>5. ASSUME NEW d \in Battles, NEW j \in 1 .. 2, Children[d][j] \in {p, a} PROVE Link(d, j)'
  <2>1. Link(d, j) /\ d # p /\ d # a /\ d \in Procs
    BY <1>2, <1>5 DEF Links, Procs
  <2>2. Rests(d)
    BY <1>1, <1>3, <2>1 DEF Rests
  <2>3. CASE Children[d][j] = p
    <3>1. pc[p] \in Late /\ pc'[p] # "reaped" /\ (Quiet(p) => Leaves(p)')
      BY <1>1, <1>3 DEF Late, Leaves, Quiet
    <3>2. QED
      BY <2>1, <2>2, <2>3, <3>1, LateStep
  <2>4. CASE Children[d][j] = a
    <3>1. pc[a] \in Early /\ pc'[a] # "reaped" /\ (Quiet(a) => Begins(a)')
      BY <1>1, <1>3 DEF Early, Begins, Quiet
    <3>2. QED
      BY <2>1, <2>2, <2>4, <3>1, EarlyStep
  <2>5. QED
    BY <1>5, <2>3, <2>4
<1>6. Values' /\ Links' /\ AllBattles'
  <2>1. {p, a} \in SUBSET Players
    BY <1>2
  <2>2. QED
    BY <1>4, <1>5, <2>1, PlayersMove
<1>7. \A q \in Players : MyAgent(q)' = MyAgent(q)
  BY <1>1 DEF MyAgent
<1>8. \A q \in Players : q # p /\ q # a => pc'[q] = pc[q]
  BY <1>3 DEF Procs
<1>9. Numbers' = Numbers /\ Statuses' = Statuses /\ \A s : Fit(s)' <=> Fit(s)
  BY <1>1, SameStatuses DEF Fit
<1>10. \A q \in Players : pc[q] = "hand_over" => MyAgent(q) # a /\ MyAgent(q) # p
  BY <1>1, <1>2 DEF AllPlayers, Player
<1>11. fifo[a] = <<>> /\ fifo[p] = <<>> /\ Fit(mystatus[p])
  BY <1>1, <1>2 DEF AllPlayers, Player
<1>12. ASSUME NEW q \in Players PROVE Player(q)'
  <2>1. CASE q = p
    BY <1>1, <1>2, <1>3, <1>7, <1>9, <1>11, <2>1 DEF Player
  <2>2. CASE q = a
    BY <1>1, <1>3, <1>11, <2>2 DEF Player
  <2>3. CASE q # p /\ q # a
    <3>1. Player(q) /\ pc'[q] = pc[q]
      BY <1>2, <1>8, <2>3 DEF AllPlayers
    <3>2. pc[q] = "hand_over" => MyAgent(q) \in Players /\ pc'[MyAgent(q)] = "take_over" /\ fifo[MyAgent(q)] = <<>>
      BY <1>8, <1>10, <3>1 DEF Player
    <3>3. QED
      BY <1>1, <1>7, <1>9, <3>1, <3>2 DEF Player
  <2>4. QED
    BY <2>1, <2>2, <2>3
<1>13. Alone'
  <2> SUFFICES ASSUME NEW q \in Players, NEW r \in Players,
                      pc'[q] = "hand_over", pc'[r] = "hand_over", MyAgent(q) = MyAgent(r)
               PROVE  q = r
    BY <1>7 DEF Alone
  <2>1. q # a /\ r # a
    BY <1>3
  <2>2. (q = p \/ pc[q] = "hand_over") /\ (r = p \/ pc[r] = "hand_over")
    BY <1>8, <2>1
  <2>3. q # p /\ r # p => q = r
    BY <1>2, <2>2 DEF Alone
  <2>4. QED
    BY <1>10, <2>2, <2>3
<1>14. QED
  BY <1>6, <1>12, <1>13 DEF IInv, AllPlayers

LEMMA HandOverKeepsInv ==
  ASSUME IInv, NEW p \in Players, HandOver(p)
  PROVE  IInv'
<1> PICK a : a = MyAgent(p)
  OBVIOUS
<1>1. /\ pc[p] = "hand_over"
      /\ fifo' = Send(fifo, a, mystatus[p])
      /\ pc' = [pc EXCEPT ![p] = "exit"]
      /\ UNCHANGED <<status, win, mystatus, origin_HP, down, up, fifos, champion, roster>>
  BY DEF HandOver, Goto, MyAgent
<1>2. /\ p \in Procs /\ p \notin Battles
      /\ Links /\ AllPlayers /\ Alone /\ fifos \subseteq Players
      /\ pc \in [Procs -> BattleLabels \union PlayerLabels \union Gone \union {"unborn"}]
      /\ mystatus \in [Players -> Statuses] /\ origin_HP \in [Players -> Int]
      /\ up \in [Procs -> Seq(Statuses)] /\ down \in [Procs -> Seq(Statuses)]
      /\ fifo \in [Players -> Seq(Statuses)]
  BY Tree DEF IInv, Values, Procs
<1>3. a \in Players /\ pc[a] = "take_over" /\ a # p /\ fifo[a] = <<>> /\ Fit(mystatus[p]) /\ mystatus[p] \in Statuses
  BY <1>1, <1>2 DEF AllPlayers, Player
<1>4. pc'[p] = "exit" /\ \A x \in Procs : x # p => pc'[x] = pc[x]
  BY <1>1, <1>2
<1>5. /\ fifo' \in [Players -> Seq(Statuses)] /\ fifo'[a] = <<mystatus[p]>>
      /\ \A q \in Players : q # a => fifo'[q] = fifo[q]
  <2> PICK one : one = <<mystatus[p]>>
    OBVIOUS
  <2>1. one \in Seq(Statuses) /\ Append(<<>>, mystatus[p]) = one
    BY <1>3, OneStatus
  <2>2. fifo' = [fifo EXCEPT ![a] = one]
    BY <1>1, <1>3, <2>1 DEF Send
  <2>3. fifo' \in [Players -> Seq(Statuses)] /\ fifo'[a] = one /\ \A q \in Players : q # a => fifo'[q] = fifo[q]
    BY <1>2, <1>3, <2>1, <2>2
  <2>4. QED
    BY <2>3
<1>6. Moves({p})
  <2>1. \A x \in {p} : pc[x] \in PlayerLabels /\ pc'[x] \in PlayerLabels \union {"exit"}
    BY <1>1, <1>4 DEF PlayerLabels
  <2>2. \A x \in Procs : x \notin {p} => pc'[x] = pc[x] /\ up'[x] = up[x] /\ down'[x] = down[x]
    BY <1>1, <1>4
  <2>3. pc' \in [Procs -> BattleLabels \union PlayerLabels \union Gone \union {"unborn"}]
    BY <1>1, <1>2 DEF Gone
  <2>4. QED
    BY <1>1, <1>2, <1>5, <2>1, <2>2, <2>3 DEF Moves
<1>7. ASSUME NEW d \in Battles, NEW j \in 1 .. 2, Children[d][j] \in {p} PROVE Link(d, j)'
  <2>1. Children[d][j] = p /\ Link(d, j) /\ d # p /\ d \in Procs
    BY <1>2, <1>7 DEF Links, Procs
  <2>2. Rests(d)
    BY <1>1, <1>4, <2>1 DEF Rests
  <2>3. pc[p] \in Late /\ pc'[p] # "reaped" /\ (Quiet(p) => Leaves(p)')
    BY <1>1, <1>4 DEF Late, Leaves, Quiet
  <2>4. QED
    BY <2>1, <2>2, <2>3, LateStep
<1>8. Values' /\ Links' /\ AllBattles'
  BY <1>6, <1>7, PlayersMove
<1>9. \A q \in Players : MyAgent(q)' = MyAgent(q)
  BY <1>1 DEF MyAgent
<1>10. \A q \in Players : q # p => pc'[q] = pc[q]
  BY <1>4 DEF Procs
<1>11. Numbers' = Numbers /\ Statuses' = Statuses /\ \A s : Fit(s)' <=> Fit(s)
  BY <1>1, SameStatuses DEF Fit
<1>12. \A q \in Players : pc[q] = "hand_over" /\ q # p => MyAgent(q) # a /\ MyAgent(q) # p
  BY <1>1, <1>2 DEF AllPlayers, Player, Alone
<1>13. ASSUME NEW q \in Players PROVE Player(q)'
  <2>1. CASE q = p
    <3>1. fifo'[p] = <<>>
      BY <1>1, <1>2, <1>3, <1>5 DEF AllPlayers, Player
    <3>2. QED
      BY <1>4, <2>1, <3>1 DEF Player
  <2>2. CASE q = a
    <3>1. pc'[a] = "take_over" /\ fifo'[a] = <<mystatus[p]>> /\ Fit(mystatus[p])' /\ mystatus[p] \in Statuses'
      BY <1>1, <1>3, <1>5, <1>10, <1>11
    <3>2. QED
      BY <1>11, <2>2, <3>1, <1>3 DEF Player
  <2>3. CASE q # p /\ q # a
    <3>1. Player(q) /\ pc'[q] = pc[q] /\ fifo'[q] = fifo[q]
      BY <1>2, <1>5, <1>10, <2>3 DEF AllPlayers
    <3>2. pc[q] = "hand_over" => MyAgent(q) \in Players /\ pc'[MyAgent(q)] = "take_over" /\ fifo'[MyAgent(q)] = <<>>
      BY <1>5, <1>10, <1>12, <2>3, <3>1 DEF Player
    <3>3. QED
      BY <1>1, <1>9, <1>11, <3>1, <3>2 DEF Player
  <2>4. QED
    BY <2>1, <2>2, <2>3
<1>14. Alone'
  <2> SUFFICES ASSUME NEW q \in Players, NEW r \in Players,
                      pc'[q] = "hand_over", pc'[r] = "hand_over", MyAgent(q) = MyAgent(r)
               PROVE  q = r
    BY <1>9 DEF Alone
  <2>1. pc[q] = "hand_over" /\ pc[r] = "hand_over"
    BY <1>4, <1>10
  <2>2. QED
    BY <1>2, <2>1 DEF Alone
<1>15. QED
  BY <1>8, <1>13, <1>14 DEF IInv, AllPlayers

\* A loser that finds no FIFO is where it was.
LEMMA RetryOpenKeepsInv ==
  ASSUME IInv, NEW p \in Players, RetryOpen(p)
  PROVE  IInv'
<1>1. /\ pc[p] = "open_write" /\ pc' = [pc EXCEPT ![p] = "open_write"]
      /\ UNCHANGED <<status, win, mystatus, origin_HP, down, up, fifos, fifo, champion, roster>>
  BY DEF RetryOpen, Goto, OpenFailed
<1>2. /\ AllPlayers /\ Alone /\ fifos \subseteq Players
      /\ pc \in [Procs -> BattleLabels \union PlayerLabels \union Gone \union {"unborn"}]
      /\ mystatus \in [Players -> Statuses] /\ origin_HP \in [Players -> Int]
      /\ up \in [Procs -> Seq(Statuses)] /\ down \in [Procs -> Seq(Statuses)]
      /\ fifo \in [Players -> Seq(Statuses)]
  BY DEF IInv, Values
<1>3. pc' = pc
  BY <1>1, <1>2
<1> PICK K : K = {}
  OBVIOUS
<1>4. Moves(K)
  BY <1>1, <1>2, <1>3 DEF Moves
<1>5. \A d \in Battles, j \in 1 .. 2 : Children[d][j] \in K => Link(d, j)'
  OBVIOUS
<1>6. Values' /\ Links' /\ AllBattles'
  BY <1>4, <1>5, PlayersMove
<1>7. AllPlayers' /\ Alone'
  BY <1>1, <1>2, <1>3, PlayersRest
<1>8. QED
  BY <1>6, <1>7 DEF IInv

\* A player is told the status t, keeps mine, and goes where it goes.
Hears(p, mine) ==
  /\ pc[p] = "fight" /\ pc'[p] \in {"fight", "open_write", "exit"}
  /\ pc' = [pc EXCEPT ![p] = pc'[p]]
  /\ down' = Receive(down, p)
  /\ mystatus' = [mystatus EXCEPT ![p] = mine]
  /\ up' \in [Procs -> Seq(Statuses)] /\ \A x \in Procs : x # p => up'[x] = up[x]
  /\ UNCHANGED <<status, win, origin_HP, fifos, fifo, champion, roster>>

LEMMA HearsKeepsInv ==
  ASSUME IInv, NEW p \in Players, NEW t \in Statuses, IsTold(p, t),
         NEW mine \in Statuses, Hears(p, mine), pc'[p] = "open_write" => Fit(mine),
         (\A s : IsTold(p, s) => s = t), down'[p] = <<>> => Heeds(p, t)
  PROVE  IInv'
<1>1. /\ pc[p] = "fight" /\ pc'[p] \in {"fight", "open_write", "exit"}
      /\ pc' = [pc EXCEPT ![p] = pc'[p]]
      /\ down' = Receive(down, p)
      /\ mystatus' = [mystatus EXCEPT ![p] = mine]
      /\ up' \in [Procs -> Seq(Statuses)] /\ \A x \in Procs : x # p => up'[x] = up[x]
      /\ UNCHANGED <<status, win, origin_HP, fifos, fifo, champion, roster>>
  BY DEF Hears
<1>2. /\ p \in Procs /\ p \notin Battles
      /\ Links /\ AllPlayers /\ Alone /\ fifos \subseteq Players
      /\ pc \in [Procs -> BattleLabels \union PlayerLabels \union Gone \union {"unborn"}]
      /\ mystatus \in [Players -> Statuses] /\ origin_HP \in [Players -> Int]
      /\ down \in [Procs -> Seq(Statuses)] /\ fifo \in [Players -> Seq(Statuses)]
  BY Tree DEF IInv, Values, Procs
<1>3. /\ down' \in [Procs -> Seq(Statuses)] /\ down'[p] = <<>>
      /\ \A x \in Procs : x # p => down'[x] = down[x]
  <2>1. Holds(down, p, t)
    BY DEF IsTold, Holds
  <2>2. /\ Receive(down, p) \in [Procs -> Seq(Statuses)] /\ Receive(down, p)[p] = <<>>
        /\ \A x \in Procs : x # p => Receive(down, p)[x] = down[x]
    BY <1>2, <2>1, OneIsRead
  <2>3. QED
    BY <1>1, <2>2
<1>4. /\ \A x \in Procs : x # p => pc'[x] = pc[x]
      /\ pc' \in [Procs -> BattleLabels \union PlayerLabels \union Gone \union {"unborn"}]
      /\ mystatus' \in [Players -> Statuses] /\ mystatus'[p] = mine
      /\ \A q \in Players : q # p => mystatus'[q] = mystatus[q]
  <2>1. pc'[p] \in BattleLabels \union PlayerLabels \union Gone \union {"unborn"}
    BY <1>1 DEF PlayerLabels, Gone
  <2>2. QED
    BY <1>1, <1>2, <2>1
<1>5. Moves({p})
  <2>1. \A x \in {p} : pc[x] \in PlayerLabels /\ pc'[x] \in PlayerLabels \union {"exit"}
    BY <1>1 DEF PlayerLabels
  <2>2. \A x \in Procs : x \notin {p} => pc'[x] = pc[x] /\ up'[x] = up[x] /\ down'[x] = down[x]
    BY <1>1, <1>3, <1>4
  <2>3. QED
    BY <1>1, <1>2, <1>3, <1>4, <2>1, <2>2 DEF Moves
<1>6. ASSUME NEW d \in Battles, NEW j \in 1 .. 2, Children[d][j] \in {p} PROVE Link(d, j)'
  <2>1. Children[d][j] = p /\ Link(d, j) /\ d # p /\ d \in Procs
    BY <1>2, <1>6 DEF Links, Procs
  <2>2. Rests(d)
    BY <1>1, <1>4, <2>1 DEF Rests
  <2>3. Listens(p) /\ pc'[p] # "reaped"
    BY <1>1 DEF Listens
  <2>4. down[p] # <<>>
    BY OneStatus DEF IsTold
  <2>5. \A s : IsTold(p, s) => Heeds(p, s)
    BY <1>3
  <2>6. QED
    BY <2>1, <2>2, <2>3, <2>4, <2>5, ToldStep
<1>7. Values' /\ Links' /\ AllBattles'
  BY <1>5, <1>6, PlayersMove
<1>8. Player(p)'
  <2>1. fifo[p] = <<>> /\ origin_HP[p] > 0
    BY <1>1, <1>2 DEF AllPlayers, Player
  <2>2. pc'[p] = "open_write" => Fit(mystatus[p])'
    BY <1>1, <1>4, SameStatuses DEF Fit
  <2>3. QED
    BY <1>1, <2>1, <2>2 DEF Player
<1>9. Minds(p)
  BY <1>1, <1>2, <1>4 DEF Minds, Procs
<1>10. QED
  BY <1>2, <1>7, <1>8, <1>9, PlayersMind DEF IInv

\* What a player finds in its stdin.
LEMMA ToldKnows ==
  ASSUME IInv, NEW p \in Players, NEW s \in ToSet(down[p]), NEW mine, Told(p, s, mine)
  PROVE  /\ s \in Statuses /\ Proper(s) /\ IsTold(p, s) /\ \A r : IsTold(p, r) => r = s
         /\ up[p] = <<>> /\ origin_HP[p] \in Int /\ origin_HP[p] > 0
<1>1. pc[p] = "fight" /\ down[p] # <<>> /\ s = Head(down[p])
  BY DEF Told
<1>2. p \in Procs \ {"A"}
  BY Tree DEF Procs
<1>3. PICK d \in Battles, k \in 1 .. 2 : Children[d][k] = p
  BY <1>2, Tree
<1> PICK t : t = status[d][k]
  OBVIOUS
<1>4. IsTold(p, t) /\ Proper(t) /\ t \in Statuses
  BY <1>1, <1>3, ToldIs DEF Listens, Proper
<1>5. \A r : IsTold(p, r) => r = t
  <2>1. ASSUME NEW r, IsTold(p, r) PROVE r = t
    <3>1. <<r>> = <<t>>
      BY <1>4, <2>1 DEF IsTold
    <3>2. QED
      BY <3>1
  <2>2. QED
    BY <2>1
<1>6. s = t /\ up[p] = <<>>
  BY <1>1, <1>4, OneStatus DEF IsTold
<1>7. origin_HP[p] \in Int /\ origin_HP[p] > 0
  BY <1>1 DEF IInv, Values, AllPlayers, Player
<1>8. QED
  BY <1>4, <1>5, <1>6, <1>7

\* A player that fights on answers with a fit status.
LEMMA AnswerKeepsInv ==
  ASSUME IInv, NEW p \in Players, NEW s \in ToSet(down[p]), NEW mine, Told(p, s, mine),
         Fit(mine), ~Final(s), s.ended = 0 => mine = s,
         up' = Send(up, p, mine), pc' = pc
  PROVE  IInv'
<1>1. /\ s \in Statuses /\ Proper(s) /\ IsTold(p, s) /\ up[p] = <<>>
      /\ \A r : IsTold(p, r) => r = s
  BY ToldKnows
<1>2. /\ pc[p] = "fight"
      /\ down' = Receive(down, p)
      /\ mystatus' = [mystatus EXCEPT ![p] = mine]
      /\ UNCHANGED <<status, win, origin_HP, fifos, fifo, champion, roster>>
  BY DEF Told
<1>3. /\ p \in Procs /\ up \in [Procs -> Seq(Statuses)] /\ mine \in Statuses
      /\ pc \in [Procs -> BattleLabels \union PlayerLabels \union Gone \union {"unborn"}]
  BY DEF IInv, Values, Procs, Fit
<1>4. /\ up' \in [Procs -> Seq(Statuses)] /\ Holds(up', p, mine)
      /\ \A x \in Procs : x # p => up'[x] = up[x]
  <2>1. /\ Send(up, p, mine) \in [Procs -> Seq(Statuses)] /\ Holds(Send(up, p, mine), p, mine)
        /\ \A x \in Procs : x # p => Send(up, p, mine)[x] = up[x]
    BY <1>1, <1>3, OneIsWritten
  <2>2. QED
    BY <2>1
<1>5. Hears(p, mine)
  <2>1. pc'[p] = "fight" /\ pc' = [pc EXCEPT ![p] = pc'[p]]
    BY <1>2, <1>3
  <2>2. QED
    BY <1>2, <1>4, <2>1 DEF Hears
<1>6. ASSUME down'[p] = <<>> PROVE Heeds(p, s)
  <2>1. Fit(mine)' /\ mine \in Statuses'
    BY <1>2, <1>3, SameStatuses DEF Fit
  <2>2. Answers(p)'
    BY <1>2, <1>4, <1>6, <2>1 DEF Answers, Listens, Holds
  <2>3. s.ended = 0 => up'[p] = <<s>>
    BY <1>4 DEF Holds
  <2>4. QED
    BY <2>2, <2>3 DEF Heeds
<1>7. pc'[p] # "open_write"
  BY <1>2
<1>8. QED
  BY <1>1, <1>3, <1>5, <1>6, <1>7, HearsKeepsInv

LEMMA FightOnKeepsInv ==
  ASSUME IInv, NEW p \in Players, NEW s \in ToSet(down[p]), FightOn(p, s)
  PROVE  IInv'
<1>1. Told(p, s, s) /\ s.ended = 0 /\ up' = Send(up, p, s) /\ pc' = pc
  BY DEF FightOn
<1>2. s \in Statuses /\ Proper(s)
  BY <1>1, ToldKnows
<1>3. s.HP \in Int /\ s.HP > 0 /\ s.player \in Numbers
  <2>1. s.HP \in Int
    BY <1>2 DEF Statuses
  <2>2. QED
    BY <1>1, <1>2, <2>1 DEF Proper
<1>4. Fit(s) /\ ~Final(s)
  BY <1>1, <1>2, <1>3 DEF Fit, Final
<1>5. QED
  BY <1>1, <1>4, AnswerKeepsInv

LEMMA AdvanceKeepsInv ==
  ASSUME IInv, NEW p \in Players, NEW s \in ToSet(down[p]), Advance(p, s)
  PROVE  IInv'
<1> PICK mine : mine = Recovered(s, origin_HP[p])
  OBVIOUS
<1>1. /\ Told(p, s, mine) /\ pc' = pc
      /\ s.ended = 1 /\ s.HP > 0 /\ s.battle # "A"
      /\ up' = Send(up, p, mystatus'[p])
  BY DEF Advance
<1>2. s \in Statuses /\ Proper(s) /\ origin_HP[p] \in Int /\ origin_HP[p] > 0
  BY <1>1, ToldKnows
<1>3. mystatus'[p] = mine
  <2>1. mystatus' = [mystatus EXCEPT ![p] = mine]
    BY <1>1 DEF Told
  <2>2. mystatus \in [Players -> Statuses]
    BY DEF IInv, Values
  <2>3. QED
    BY <2>1, <2>2
<1>4. Fit(mine)
  BY <1>1, <1>2, RecoveredIs DEF Proper
<1>5. ~Final(s)
  <2>1. s.HP \in Int
    BY <1>2 DEF Statuses
  <2>2. QED
    BY <1>1, <2>1 DEF Final
<1>6. QED
  BY <1>1, <1>3, <1>4, <1>5, AnswerKeepsInv

\* A player that has been told its last status here leaves.
LEMMA GoKeepsInv ==
  ASSUME IInv, NEW p \in Players, NEW s \in ToSet(down[p]), NEW mine \in Statuses, Told(p, s, mine),
         Final(s), NEW l \in {"open_write", "exit"}, l = "open_write" => Fit(mine),
         up' = up, pc' = [pc EXCEPT ![p] = l]
  PROVE  IInv'
<1>1. /\ s \in Statuses /\ Proper(s) /\ IsTold(p, s) /\ up[p] = <<>>
      /\ \A r : IsTold(p, r) => r = s
  BY ToldKnows
<1>2. /\ pc[p] = "fight"
      /\ down' = Receive(down, p)
      /\ mystatus' = [mystatus EXCEPT ![p] = mine]
      /\ UNCHANGED <<status, win, origin_HP, fifos, fifo, champion, roster>>
  BY DEF Told
<1>3. /\ p \in Procs /\ up \in [Procs -> Seq(Statuses)]
      /\ pc \in [Procs -> BattleLabels \union PlayerLabels \union Gone \union {"unborn"}]
  BY DEF IInv, Values, Procs
<1>4. pc'[p] = l /\ pc' = [pc EXCEPT ![p] = pc'[p]]
  BY <1>3
<1>5. Hears(p, mine)
  BY <1>2, <1>3, <1>4 DEF Hears
<1>6. ASSUME down'[p] = <<>> PROVE Heeds(p, s)
  <2>1. Leaves(p)'
    BY <1>1, <1>4, <1>6 DEF Leaves, Quiet, Late
  <2>2. QED
    BY <2>1 DEF Heeds
<1>7. pc'[p] = "open_write" => Fit(mine)
  BY <1>4
<1>8. QED
  BY <1>1, <1>5, <1>6, <1>7, HearsKeepsInv

LEMMA LoseKeepsInv ==
  ASSUME IInv, NEW p \in Players, NEW s \in ToSet(down[p]), Lose(p, s)
  PROVE  IInv'
<1> PICK mine : mine = Restored(s, origin_HP[p])
  OBVIOUS
<1>1. /\ Told(p, s, mine)
      /\ s.ended = 1 /\ s.HP <= 0 /\ s.battle # "A"
      /\ up' = up /\ pc' = [pc EXCEPT ![p] = "open_write"]
  BY DEF Lose, LoseAfter, Goto
<1>2. s \in Statuses /\ Proper(s) /\ origin_HP[p] \in Int /\ origin_HP[p] > 0
  BY <1>1, ToldKnows
<1>3. Fit(mine) /\ mine \in Statuses
  BY <1>2, RestoredIs DEF Proper, Fit
<1>4. Final(s)
  BY <1>1 DEF Final
<1>5. QED
  BY <1>1, <1>3, <1>4, GoKeepsInv

LEMMA LeaveKeepsInv ==
  ASSUME IInv, NEW p \in Players, NEW s \in ToSet(down[p]), Leave(p, s)
  PROVE  IInv'
<1>1. /\ Told(p, s, s)
      /\ s.ended = 1 /\ IsOut(p, s)
      /\ up' = up /\ pc' = [pc EXCEPT ![p] = "exit"]
  BY DEF Leave, Goto
<1>2. s \in Statuses
  BY <1>1, ToldKnows
<1>3. Final(s)
  BY <1>1 DEF Final, IsOut
<1>4. QED
  BY <1>1, <1>2, <1>3, GoKeepsInv

-----------------------------------------------------------------------------
(***************************************************************************)
(* The tournament.                                                         *)
(***************************************************************************)
LEMMA InitInv ==
  ASSUME Init
  PROVE  IInv
<1>1. /\ pc = [x \in Procs |-> IF x = "A" THEN "fork_1" ELSE "unborn"]
      /\ status = [b \in Battles |-> <<NoStatus, NoStatus>>]
      /\ win = [b \in Battles |-> 0]
      /\ mystatus = [p \in Players |-> NoStatus]
      /\ origin_HP = [p \in Players |-> 0]
      /\ down = [x \in Procs |-> <<>>]
      /\ up = [x \in Procs |-> <<>>]
      /\ fifos \in {{}, {p \in Players : ~IsReal(Id[p])}}
      /\ fifo = [p \in Players |-> <<>>]
      /\ champion = -1
      /\ roster \in Rosters
  BY DEF Init
<1>2. "A" \in Battles /\ Battles \intersect Players = {} /\ Procs = Battles \union Players
  BY Tree DEF Procs
<1>3. NoStatus \in Statuses
  BY DEF NoStatus, Statuses
<1>4. <<>> \in Seq(Statuses)
  OBVIOUS
<1>5. Values
  <2>1. /\ pc \in [Procs -> BattleLabels \union PlayerLabels \union Gone \union {"unborn"}]
        /\ \A x \in Procs : (pc[x] \in BattleLabels => x \in Battles) /\ (pc[x] \in PlayerLabels => x \in Players)
    BY <1>1, <1>2 DEF BattleLabels, PlayerLabels
  <2>2. status \in [Battles -> [1 .. 2 -> Statuses]]
    <3>1. <<NoStatus, NoStatus>> \in [1 .. 2 -> Statuses]
      BY <1>3
    <3>2. QED
      BY <1>1, <3>1
  <2>3. win \in [Battles -> 0 .. 2] /\ mystatus \in [Players -> Statuses] /\ origin_HP \in [Players -> Int]
    BY <1>1, <1>3
  <2>4. down \in [Procs -> Seq(Statuses)] /\ up \in [Procs -> Seq(Statuses)] /\ fifo \in [Players -> Seq(Statuses)]
    BY <1>1, <1>4
  <2>5. fifos \subseteq Players /\ champion \in Numbers \union {-1}
    BY <1>1
  <2>6. QED
    BY <1>1, <2>1, <2>2, <2>3, <2>4, <2>5 DEF Values
<1>6. \A x \in Procs : Quiet(x) /\ (x # "A" => pc[x] = "unborn")
  BY <1>1 DEF Quiet
<1>7. pc["A"] = "fork_1"
  BY <1>1, <1>2
<1>8. ASSUME NEW b \in Battles, NEW i \in 1 .. 2 PROVE Link(b, i)
  <2> PICK c : c = Children[b][i]
    OBVIOUS
  <2>1. pc[c] = "unborn" /\ Quiet(c)
    BY <1>6, Tree
  <2>2. pc[b] \in {"unborn", "fork_1"}
    BY <1>2, <1>6, <1>7
  <2>3. QED
    BY <2>1, <2>2 DEF Link, Unborn, Due, Free, Held, Replayed, Owed, Ending, Over, Gone
<1>9. ASSUME NEW b \in Battles PROVE Battle(b)
  <2>1. CASE b = "A"
    BY <1>2, <1>6, <1>7, <2>1, Tree DEF Battle
  <2>2. CASE b # "A"
    BY <1>2, <1>6, <2>2 DEF Battle
  <2>3. QED
    BY <2>1, <2>2
<1>10. \A p \in Players : pc[p] = "unborn" /\ fifo[p] = <<>>
  BY <1>1, <1>2, <1>6
<1>11. AllPlayers /\ Alone
  BY <1>10 DEF AllPlayers, Player, Alone
<1>12. QED
  BY <1>5, <1>8, <1>9, <1>11 DEF IInv, Links, AllBattles

LEMMA NextKeepsInv ==
  ASSUME IInv, Next
  PROVE  IInv'
<1>1. ASSUME NEW b \in Battles, BattleStep(b) PROVE IInv'
  <2>1. CASE \E i \in 1 .. 2 : Fork(b, i)
    BY <2>1, ForkKeepsInv
  <2>2. CASE \E i \in 1 .. 2 : Admit(b, i)
    BY <2>2, AdmitKeepsInv
  <2>3. CASE \E i \in 1 .. 2 : ReadBack(b, i)
    BY <2>3, ReadBackKeepsInv
  <2>4. CASE Play(b)
    BY <2>4, PlayKeepsInv
  <2>5. CASE WaitFirst(b)
    BY <2>5, WaitFirstKeepsInv
  <2>6. CASE WaitLast(b)
    BY <2>6, WaitLastKeepsInv
  <2>7. CASE RelayUp(b)
    BY <2>7, RelayUpKeepsInv
  <2>8. CASE RelayDown(b)
    BY <2>8, RelayDownKeepsInv
  <2>9. QED
    BY <1>1, <2>1, <2>2, <2>3, <2>4, <2>5, <2>6, <2>7, <2>8 DEF BattleStep
<1>2. ASSUME NEW p \in Players, PlayerStep(p) PROVE IInv'
  <2>1. CASE ReadStatus(p)
    BY <2>1, ReadStatusKeepsInv
  <2>2. CASE MakeFifo(p)
    BY <2>2, MakeFifoKeepsInv
  <2>3. CASE RetryOpen(p)
    BY <2>3, RetryOpenKeepsInv
  <2>4. CASE OpenFifo(p)
    BY <2>4, OpenFifoKeepsInv
  <2>5. CASE HandOver(p)
    BY <2>5, HandOverKeepsInv
  <2>6. CASE TakeOver(p)
    BY <2>6, TakeOverKeepsInv
  <2>7. ASSUME NEW s \in ToSet(down[p]), FightOn(p, s) \/ Advance(p, s) \/ Lose(p, s) \/ Leave(p, s)
        PROVE  IInv'
    BY <2>7, FightOnKeepsInv, AdvanceKeepsInv, LoseKeepsInv, LeaveKeepsInv
  <2>8. QED
    BY <1>2, <2>1, <2>2, <2>3, <2>4, <2>5, <2>6, <2>7 DEF PlayerStep
<1>3. QED
  BY <1>1, <1>2 DEF Next

\* Nothing changes in a step that leaves every variable alone.
LEMMA StutterKeepsInv ==
  ASSUME IInv, UNCHANGED vars
  PROVE  IInv'
<1>1. /\ AllPlayers /\ Alone /\ fifos \subseteq Players
      /\ pc \in [Procs -> BattleLabels \union PlayerLabels \union Gone \union {"unborn"}]
      /\ mystatus \in [Players -> Statuses] /\ origin_HP \in [Players -> Int]
      /\ up \in [Procs -> Seq(Statuses)] /\ down \in [Procs -> Seq(Statuses)]
      /\ fifo \in [Players -> Seq(Statuses)]
  BY DEF IInv, Values
<1> PICK K : K = {}
  OBVIOUS
<1>2. Moves(K)
  BY <1>1 DEF Moves, vars
<1>3. \A d \in Battles, j \in 1 .. 2 : Children[d][j] \in K => Link(d, j)'
  OBVIOUS
<1>4. Values' /\ Links' /\ AllBattles'
  BY <1>2, <1>3, PlayersMove
<1>5. AllPlayers' /\ Alone'
  BY <1>1, PlayersRest DEF vars
<1>6. QED
  BY <1>4, <1>5 DEF IInv

\* The inductive invariant.
THEOREM Invariance == Spec => []IInv
<1>1. Init => IInv
  BY InitInv
<1>2. IInv /\ [Next]_vars => IInv'
  BY NextKeepsInv, StutterKeepsInv
<1>3. QED
  BY <1>1, <1>2, PTL DEF Spec

-----------------------------------------------------------------------------
(***************************************************************************)
(* What follows from the invariant.                                        *)
(***************************************************************************)

\* At most one status is on its way, and only a process that listens has one.
LEMMA OneOnItsWay ==
  ASSUME IInv, NEW x \in Procs
  PROVE  Quiet(x) \/ Answers(x) \/ \E s : IsTold(x, s)
<1>1. CASE x = "A"
  BY <1>1, Tree DEF IInv, AllBattles, Battle
<1>2. CASE x # "A"
  <2>1. PICK d \in Battles, k \in 1 .. 2 : Children[d][k] = x
    BY <1>2, Tree
  <2>2. Link(d, k)
    BY DEF IInv, Links
  <2>3. Unborn(d, k) \/ Due(d, k) \/ Free(d, k) \/ Owed(d, k) \/ Ending(d, k) \/ Over(d, k)
    BY Stages
  <2>4. QED
    BY <2>1, <2>2, <2>3 DEF Link, Begins, Waits, Passes, Leaves
<1>3. QED
  BY <1>1, <1>2

\* What is read from a pipe or a FIFO is in it.
LEMMA InPipe ==
  ASSUME NEW S, NEW q \in Seq(S)
  PROVE  \A s \in ToSet(q) : s \in S
BY DEF ToSet

LEMMA InvTypeOK == ASSUME IInv PROVE TypeOK
<1>1. ASSUME NEW b \in Battles
      PROVE  /\ pc[b] \in BattleLabels \union Gone \union {"unborn"}
             /\ \A i \in 1 .. 2 : status[b][i] \in Statuses
             /\ win[b] \in 0 .. 2
  BY Tree DEF IInv, Values, Procs
<1>2. ASSUME NEW p \in Players
      PROVE  /\ pc[p] \in PlayerLabels \union Gone \union {"unborn"}
             /\ mystatus[p] \in Statuses
             /\ \A s \in ToSet(fifo[p]) : s \in Statuses
  <2>1. pc[p] \in PlayerLabels \union Gone \union {"unborn"} /\ mystatus[p] \in Statuses /\ fifo[p] \in Seq(Statuses)
    BY Tree DEF IInv, Values, Procs
  <2>2. QED
    BY <2>1, InPipe
<1>3. ASSUME NEW x \in Procs PROVE \A s \in ToSet(down[x] \o up[x]) : s \in Statuses
  <2>1. down[x] \in Seq(Statuses) /\ up[x] \in Seq(Statuses)
    BY DEF IInv, Values
  <2>2. down[x] \o up[x] \in Seq(Statuses)
    BY <2>1
  <2>3. QED
    BY <2>2, InPipe
<1>4. champion \in Numbers \union {-1}
  BY DEF IInv, Values
<1>5. QED
  BY <1>1, <1>2, <1>3, <1>4 DEF TypeOK, BattleLabels, PlayerLabels

LEMMA InvTakeTurns == ASSUME IInv PROVE TakeTurns
<1> SUFFICES ASSUME NEW x \in Procs PROVE Len(up[x]) + Len(down[x]) <= 1
  BY DEF TakeTurns
<1>1. Len(<<>>) = 0 /\ \A s : Len(<<s>>) = 1
  OBVIOUS
<1>2. CASE Quiet(x)
  BY <1>1, <1>2 DEF Quiet
<1>3. CASE Answers(x)
  BY <1>1, <1>3 DEF Answers
<1>4. CASE \E s : IsTold(x, s)
  BY <1>1, <1>4 DEF IsTold
<1>5. QED
  BY <1>2, <1>3, <1>4, OneOnItsWay

LEMMA InvNothingUnread == ASSUME IInv PROVE NothingUnread
<1> SUFFICES ASSUME NEW x \in Procs, pc[x] \in Gone
             PROVE  up[x] = <<>> /\ down[x] = <<>> /\ (x \in Players => fifo[x] = <<>>)
  BY DEF NothingUnread
<1>1. ~Listens(x) /\ pc[x] # "take_over"
  BY DEF Listens, Gone
<1>2. Quiet(x)
  BY <1>1, OneOnItsWay DEF Answers, IsTold
<1>3. x \in Players => fifo[x] = <<>>
  BY <1>1 DEF IInv, AllPlayers, Player
<1>4. QED
  BY <1>2, <1>3 DEF Quiet

LEMMA InvLoserGoesFirst == ASSUME IInv PROVE LoserGoesFirst
<1> SUFFICES ASSUME NEW b \in Battles, NEW i \in 1 .. 2, pc[Children[b][i]] \in Gone
             PROVE  /\ pc[b] \in {"wait", "relay_up", "relay_down", "last_wait"} \union Gone
                    /\ win[b] = i => pc[b] \in {"last_wait"} \union Gone \/ b = "A"
  BY DEF LoserGoesFirst
<1> PICK c, s : c = Children[b][i] /\ s = status[b][i]
  OBVIOUS
<1>1. Link(b, i)
  BY DEF IInv, Links
<1>2. pc[c] # "unborn" /\ ~Listens(c) /\ pc[c] \notin Early \union {"relay_up"}
  BY DEF Listens, Early, Gone
<1>3. ~Begins(c) /\ ~Answers(c) /\ ~Waits(c) /\ ~IsTold(c, s) /\ ~Passes(c, s)
  BY <1>2 DEF Begins, Answers, Waits, IsTold, Passes
<1>4. ~Unborn(b, i) /\ ~Due(b, i) /\ ~Free(b, i) /\ ~Owed(b, i)
  BY <1>1, <1>2, <1>3 DEF Link
<1>5. Ending(b, i) \/ Over(b, i)
  BY <1>4, Stages
<1>6. QED
  BY <1>5 DEF Ending, Over

LEMMA InvNoOrphans == ASSUME IInv PROVE NoOrphans
<1> SUFFICES ASSUME NEW b \in Battles, pc[b] \in Gone, NEW c \in ToSet(Children[b]) PROVE pc[c] = "reaped"
  BY DEF NoOrphans
<1>1. PICK i \in 1 .. 2 : c = Children[b][i]
  BY Tree
<1>2. Link(b, i) /\ Over(b, i)
  BY DEF IInv, Links, Over
<1>3. QED
  BY <1>1, <1>2 DEF Link

\* The variables keep their types, whatever the tree and the rosters.
THEOREM TypeCorrect == Spec => []TypeOK
BY Invariance, InvTypeOK, PTL

\* battle.c and player.c write to a pipe only when the other side has read what
\* was in it.
THEOREM ParentAndChildTakeTurns == Spec => []TakeTurns
BY Invariance, InvTakeTurns, PTL

\* A process that exits has read all it was sent, and all that it has sent has been
\* read.
THEOREM NobodyLeavesMail == Spec => []NothingUnread
BY Invariance, InvNothingUnread, PTL

\* The first wait(0) of battle.c never returns for the winner's side, except in the
\* root, and so no relay reads from or writes to a process that has gone.
THEOREM WinnerOutlivesRelay == Spec => []LoserGoesFirst
BY Invariance, InvLoserGoesFirst, PTL

\* A battle exits only after both wait(0) calls have returned.
THEOREM ChildrenAreReaped == Spec => []NoOrphans
BY Invariance, InvNoOrphans, PTL

-----------------------------------------------------------------------------
(***************************************************************************)
(* Where the players are.  Every player has one status, which is moved     *)
(* from place to place: it is still in player_status.txt, in a pipe, in a  *)
(* seat of a battle that is about to play, with a loser on its way to its  *)
(* agent, or in a FIFO; a player that is out has none.                     *)
(***************************************************************************)
Places == {"up", "down", "first", "second", "hand", "fifo", "file"} \X Procs

Fresh(n) == [NoStatus EXCEPT !.player = n, !.HP = roster[n].HP]

Seated(b, i) == IF b \in Battles /\ Held(b, i) THEN {status[b][i]} ELSE {}
InHand(p) == IF p \in Players /\ pc[p] \in {"open_write", "hand_over"} THEN {mystatus[p]} ELSE {}
InFifo(p) == IF p \in Players THEN ToSet(fifo[p]) ELSE {}
InFile(p) == IF p \in Players /\ IsReal(Id[p]) /\ pc[p] \in {"unborn", "start"} THEN {Fresh(Id[p])} ELSE {}

\* What is at a place.
At(k) ==
  CASE k[1] = "up" -> ToSet(up[k[2]])
    [] k[1] = "down" -> ToSet(down[k[2]])
    [] k[1] = "first" -> Seated(k[2], 1)
    [] k[1] = "second" -> Seated(k[2], 2)
    [] k[1] = "hand" -> InHand(k[2])
    [] k[1] = "fifo" -> InFifo(k[2])
    [] k[1] = "file" -> InFile(k[2])

\* The place of the seat i.
SeatOf(b, i) == <<IF i = 1 THEN "first" ELSE "second", b>>

OnePlace == \A k, m \in Places : \A s \in At(k), t \in At(m) : s.player = t.player => k = m

\* Nobody gets stronger than in the beginning.
Bounded(s) == s.player \in Numbers /\ s.HP <= roster[s.player].HP

\* Whether x is in the half of those that have not lost yet.
Upper(x) == AmongWinners(x, Agent, Id)

\* The defeats of a player that comes out of a process of either half.
Record(n, upper) == IF upper THEN defeats[n] = <<>> ELSE \E a \in DOMAIN Agent : defeats[n] = <<a>>

\* ... and of one that has just lost b there.
LostLast(n, upper, b) ==
  IF upper THEN defeats[n] = <<b>> ELSE \E a \in DOMAIN Agent : defeats[n] = <<a, b>>

Decided == pc["A"] \in {"wait", "last_wait"} \union Gone
Won(n) == Decided /\ Winner("A") = n

\* What is known of the status s that x has been told.
Outcomes(x, s) ==
  IF s.HP > 0
  THEN Record(s.player, Upper(x)) /\ (s.battle = "A" /\ s.ended = 1 => Won(s.player))
  ELSE LostLast(s.player, Upper(x), s.battle) /\ (s.battle = "A" \/ (s.battle \in DOMAIN Agent <=> Upper(x)))

RightRecord(k, s) ==
  /\ k[1] = "up" => Record(s.player, Upper(k[2]))
  /\ k[1] = "down" => Outcomes(k[2], s)
  /\ k[1] = "first" => Record(s.player, Upper(Children[k[2]][1]))
  /\ k[1] = "second" => Record(s.player, Upper(Children[k[2]][2]))
  /\ k[1] \in {"hand", "fifo"} => Record(s.player, FALSE)
  /\ k[1] = "file" => Record(s.player, TRUE)
  /\ Won(s.player) => k[1] = "down" /\ s.battle = "A" /\ s.ended = 1

Token(k, s) == Bounded(s) /\ RightRecord(k, s)
Tokens == \A k \in Places : \A s \in At(k) : Token(k, s)

\* The players that have left the tournament.
Out(n) ==
  \/ Won(n)
  \/ defeats[n] = <<"A">>
  \/ \E a \in DOMAIN Agent, b \in Battles \ DOMAIN Agent : defeats[n] = <<a, b>>

Present(n) == \E k \in Places : \E s \in At(k) : s.player = n
Everybody == \A n \in Numbers : Present(n) \/ Out(n)

Champion ==
  /\ defeats \in [Numbers -> Seq(Battles)]
  /\ \A n \in Numbers : Won(n) => Record(n, TRUE) \/ Record(n, FALSE)
  /\ champion # -1 => pc["A"] \in Gone /\ champion = Winner("A")

\* Whose status a process at work sends and is sent.
Carries(c) == IF c \in Battles THEN status[c][win[c]].player ELSE mystatus[c].player

Knows(c) == Listens(c) => \A s \in ToSet(up[c]) : s.player = Carries(c)

Serves(b, i) == Free(b, i) \/ Owed(b, i) \/ Ending(b, i)
Agrees(b, i) ==
  LET c == Children[b][i]
  IN  Serves(b, i) /\ (Listens(c) \/ pc[c] = "relay_up") => status[b][i].player = Carries(c)

Carriers ==
  /\ \A c \in Procs : Knows(c)
  /\ \A b \in Battles, i \in 1 .. 2 : Agrees(b, i)

Origins ==
  \A p \in Players : pc[p] = "fight" =>
    mystatus[p].player \in Numbers /\ origin_HP[p] <= roster[mystatus[p].player].HP

\* Only agents take over.
Heirs == \A p \in Players : pc[p] \in {"open_read", "take_over"} => ~IsReal(Id[p])

PInv == OnePlace /\ Tokens /\ Everybody /\ Champion /\ Carriers /\ Origins /\ Heirs

-----------------------------------------------------------------------------
\* The places, one kind after the other.
LEMMA Kinds ==
  ASSUME NEW m \in Places
  PROVE  \E x \in Procs : \/ m = <<"up", x>> \/ m = <<"down", x>> \/ m = <<"first", x>>
                          \/ m = <<"second", x>> \/ m = <<"hand", x>> \/ m = <<"fifo", x>> \/ m = <<"file", x>>
BY DEF Places

LEMMA PlaceAt ==
  ASSUME NEW x \in Procs
  PROVE  /\ At(<<"up", x>>) = ToSet(up[x]) /\ At(<<"down", x>>) = ToSet(down[x])
         /\ At(<<"first", x>>) = Seated(x, 1) /\ At(<<"second", x>>) = Seated(x, 2)
         /\ At(<<"hand", x>>) = InHand(x) /\ At(<<"fifo", x>>) = InFifo(x) /\ At(<<"file", x>>) = InFile(x)
<1>1. /\ <<"up", x>>[1] = "up" /\ <<"up", x>>[2] = x
      /\ <<"down", x>>[1] = "down" /\ <<"down", x>>[2] = x
      /\ <<"first", x>>[1] = "first" /\ <<"first", x>>[2] = x
      /\ <<"second", x>>[1] = "second" /\ <<"second", x>>[2] = x
      /\ <<"hand", x>>[1] = "hand" /\ <<"hand", x>>[2] = x
      /\ <<"fifo", x>>[1] = "fifo" /\ <<"fifo", x>>[2] = x
      /\ <<"file", x>>[1] = "file" /\ <<"file", x>>[2] = x
  OBVIOUS
<1>2. QED
  BY <1>1 DEF At

LEMMA PlaceAtPrime ==
  ASSUME NEW x \in Procs
  PROVE  /\ At(<<"up", x>>)' = ToSet(up'[x]) /\ At(<<"down", x>>)' = ToSet(down'[x])
         /\ At(<<"first", x>>)' = Seated(x, 1)' /\ At(<<"second", x>>)' = Seated(x, 2)'
         /\ At(<<"hand", x>>)' = InHand(x)' /\ At(<<"fifo", x>>)' = InFifo(x)' /\ At(<<"file", x>>)' = InFile(x)'
<1>1. /\ <<"up", x>>[1] = "up" /\ <<"up", x>>[2] = x
      /\ <<"down", x>>[1] = "down" /\ <<"down", x>>[2] = x
      /\ <<"first", x>>[1] = "first" /\ <<"first", x>>[2] = x
      /\ <<"second", x>>[1] = "second" /\ <<"second", x>>[2] = x
      /\ <<"hand", x>>[1] = "hand" /\ <<"hand", x>>[2] = x
      /\ <<"fifo", x>>[1] = "fifo" /\ <<"fifo", x>>[2] = x
      /\ <<"file", x>>[1] = "file" /\ <<"file", x>>[2] = x
  OBVIOUS
<1>2. QED
  BY <1>1 DEF At

\* Where nothing has changed, everything has stayed in its place.
PipesRest(K) ==
  /\ \A x \in Procs : <<"up", x>> \notin K => up'[x] = up[x]
  /\ \A x \in Procs : <<"down", x>> \notin K => down'[x] = down[x]
SeatsRest(K) ==
  /\ \A b \in Battles : <<"first", b>> \notin K => Seated(b, 1)' = Seated(b, 1)
  /\ \A b \in Battles : <<"second", b>> \notin K => Seated(b, 2)' = Seated(b, 2)
HandsRest(K) ==
  /\ \A p \in Players : <<"hand", p>> \notin K => InHand(p)' = InHand(p)
  /\ \A p \in Players : <<"fifo", p>> \notin K => fifo'[p] = fifo[p]
  /\ \A p \in Players : <<"file", p>> \notin K => InFile(p)' = InFile(p)

PlacesRest(K) == \A m \in Places : m \notin K => At(m)' = At(m)

LEMMA NothingMoves ==
  ASSUME NEW K, PipesRest(K), SeatsRest(K), HandsRest(K)
  PROVE  PlacesRest(K)
<1> SUFFICES ASSUME NEW m \in Places, m \notin K PROVE At(m)' = At(m)
  BY DEF PlacesRest
<1>1. PICK x \in Procs : \/ m = <<"up", x>> \/ m = <<"down", x>> \/ m = <<"first", x>>
                         \/ m = <<"second", x>> \/ m = <<"hand", x>> \/ m = <<"fifo", x>> \/ m = <<"file", x>>
  BY Kinds
<1>2. CASE m = <<"up", x>>
  BY <1>2, PlaceAt, PlaceAtPrime DEF PipesRest
<1>3. CASE m = <<"down", x>>
  BY <1>3, PlaceAt, PlaceAtPrime DEF PipesRest
<1>4. Seated(x, 1)' = Seated(x, 1) \/ <<"first", x>> \in K
  BY DEF SeatsRest, Seated
<1>5. Seated(x, 2)' = Seated(x, 2) \/ <<"second", x>> \in K
  BY DEF SeatsRest, Seated
<1>6. /\ InHand(x)' = InHand(x) \/ <<"hand", x>> \in K
      /\ InFile(x)' = InFile(x) \/ <<"file", x>> \in K
  <2>1. CASE x \in Players
    BY <2>1 DEF HandsRest
  <2>2. CASE x \notin Players
    BY <2>2 DEF InHand, InFile
  <2>3. QED
    BY <2>1, <2>2
<1>7. InFifo(x)' = InFifo(x) \/ <<"fifo", x>> \in K
  BY DEF HandsRest, InFifo
<1>8. CASE m = <<"first", x>>
  BY <1>4, <1>8, PlaceAt, PlaceAtPrime
<1>9. CASE m = <<"second", x>>
  BY <1>5, <1>9, PlaceAt, PlaceAtPrime
<1>10. CASE m = <<"hand", x>> \/ m = <<"fifo", x>> \/ m = <<"file", x>>
  BY <1>6, <1>7, <1>10, PlaceAt, PlaceAtPrime
<1>11. QED
  BY <1>1, <1>2, <1>3, <1>8, <1>9, <1>10

\* The statuses at the places in K go to other places, which were empty.
Flow(K, to, old, new) ==
  /\ K \subseteq Places /\ to \in [K -> Places]
  /\ \A k \in K : /\ At(k) = {old[k]} /\ At(to[k]) = {}
                  /\ At(k)' = {} /\ At(to[k])' = {new[k]} /\ new[k].player = old[k].player
  /\ \A j, k \in K : to[j] = to[k] => j = k
  /\ \A m \in Places : m \notin K /\ (\A k \in K : m # to[k]) => At(m)' = At(m)

\* Nobody else's record changes.
Unaffected(n) == defeats'[n] = defeats[n] /\ (Won(n)' <=> Won(n))

Whereabouts == OnePlace /\ Tokens /\ Everybody

LEMMA OthersUnaffected ==
  ASSUME NEW m, NEW s, Token(m, s), Unaffected(s.player), roster' = roster
  PROVE  Token(m, s)'
BY DEF Token, Bounded, Numbers, RightRecord, Record, Outcomes, LostLast, Unaffected

LEMMA FlowKeeps ==
  ASSUME Whereabouts, roster' = roster, NEW K, NEW to, NEW old, NEW new, Flow(K, to, old, new),
         \A k \in K : Token(to[k], new[k])',
         \A n \in Numbers : (\A k \in K : old[k].player # n) => Unaffected(n)
  PROVE  Whereabouts'
<1>1. /\ K \subseteq Places /\ to \in [K -> Places]
      /\ \A k \in K : /\ At(k) = {old[k]} /\ At(to[k]) = {}
                      /\ At(k)' = {} /\ At(to[k])' = {new[k]} /\ new[k].player = old[k].player
      /\ \A j, k \in K : to[j] = to[k] => j = k
      /\ \A m \in Places : m \notin K /\ (\A k \in K : m # to[k]) => At(m)' = At(m)
  BY Zenon DEF Flow
<1> DEFINE Left(m) == m \in Places /\ m \notin K /\ \A k \in K : m # to[k]
<1>2. \A m \in Places : \A t \in At(m)' :
         \/ Left(m) /\ t \in At(m)
         \/ \E k \in K : m = to[k] /\ t = new[k]
  BY <1>1
<1>3. OnePlace'
  <2> SUFFICES ASSUME NEW m \in Places, NEW n \in Places, NEW t \in At(m)', NEW u \in At(n)',
                      t.player = u.player
               PROVE  m = n
    BY DEF OnePlace
  <2>1. \E j \in Places : /\ \E s \in At(j) : s.player = t.player
                          /\ IF j \in K THEN m = to[j] ELSE m = j
    BY <1>1, <1>2
  <2>2. \E k \in Places : /\ \E s \in At(k) : s.player = u.player
                          /\ IF k \in K THEN n = to[k] ELSE n = k
    BY <1>1, <1>2
  <2>3. QED
    BY <2>1, <2>2 DEF Whereabouts, OnePlace
<1>4. Tokens'
  <2> SUFFICES ASSUME NEW m \in Places, NEW t \in At(m)' PROVE Token(m, t)'
    BY DEF Tokens
  <2>1. CASE \E k \in K : m = to[k] /\ t = new[k]
    BY <2>1
  <2>2. CASE Left(m) /\ t \in At(m)
    <3>1. Token(m, t) /\ t.player \in Numbers
      BY <2>2 DEF Whereabouts, Tokens, Token, Bounded
    <3>2. \A k \in K : old[k].player # t.player
      <4>1. ASSUME NEW k \in K, old[k].player = t.player PROVE FALSE
        <5>1. k \in Places /\ old[k] \in At(k)
          BY <1>1
        <5>2. k = m
          BY <2>2, <4>1, <5>1 DEF Whereabouts, OnePlace
        <5>3. QED
          BY <2>2, <5>2
      <4>2. QED
        BY <4>1
    <3>3. Unaffected(t.player)
      BY <3>1, <3>2
    <3>4. QED
      BY <3>1, <3>3, OthersUnaffected
  <2>3. QED
    BY <1>2, <2>1, <2>2
<1>5. Everybody'
  <2> SUFFICES ASSUME NEW n \in Numbers PROVE Present(n)' \/ Out(n)'
    BY DEF Everybody, Numbers
  <2>1. CASE \E k \in K : old[k].player = n
    <3>1. PICK k \in K : old[k].player = n
      BY <2>1
    <3>2. to[k] \in Places /\ new[k] \in At(to[k])' /\ new[k].player = n
      BY <1>1, <3>1
    <3>3. QED
      BY <3>2 DEF Present
  <2>2. CASE ~\E k \in K : old[k].player = n
    <3>1. CASE Present(n)
      <4>1. PICK m \in Places : \E s \in At(m) : s.player = n
        BY <3>1 DEF Present
      <4>2. Left(m)
        BY <1>1, <2>2, <4>1
      <4>3. \E s \in At(m)' : s.player = n
        BY <1>1, <4>1, <4>2
      <4>4. QED
        BY <4>3 DEF Present
    <3>2. CASE Out(n)
      <4>1. Unaffected(n)
        BY <2>2
      <4>2. Out(n)'
        BY <3>2, <4>1 DEF Unaffected, Out
      <4>3. QED
        BY <4>2
    <3>3. QED
      BY <3>1, <3>2 DEF Whereabouts, Everybody
  <2>3. QED
    BY <2>1, <2>2
<1>6. QED
  BY <1>3, <1>4, <1>5 DEF Whereabouts

\* In most steps nobody loses, and A is where it was or goes on after its battle.
Calm ==
  /\ UNCHANGED <<roster, defeats>>
  /\ Decided' <=> Decided
  /\ Decided => Winner("A")' = Winner("A")
  /\ pc["A"] \in Gone => pc'["A"] \in Gone

LEMMA CalmLeavesAll ==
  ASSUME Calm
  PROVE  \A n : Unaffected(n) /\ (Record(n, TRUE)' <=> Record(n, TRUE)) /\ (Record(n, FALSE)' <=> Record(n, FALSE))
BY DEF Calm, Unaffected, Won, Record

LEMMA CalmKeepsChampion ==
  ASSUME Calm, Champion, champion' = champion \/ (pc'["A"] \in Gone /\ champion' = Winner("A")')
  PROVE  Champion'
<1>1. \A n \in Numbers : Won(n)' => Record(n, TRUE)' \/ Record(n, FALSE)'
  BY CalmLeavesAll DEF Champion, Unaffected
<1>2. champion' # -1 => pc'["A"] \in Gone /\ champion' = Winner("A")'
  BY DEF Calm, Champion, Decided
<1>3. Numbers' = Numbers /\ defeats' = defeats
  BY DEF Calm, Numbers
<1>4. QED
  BY <1>1, <1>2, <1>3 DEF Champion

\* Nothing moves.
LEMMA CalmKeeps ==
  ASSUME Whereabouts, Calm, PlacesRest({})
  PROVE  Whereabouts'
<1>1. PICK K, f : K = {} /\ f = [k \in K |-> k]
  OBVIOUS
<1>2. Flow(K, f, f, f)
  BY <1>1 DEF Flow, PlacesRest
<1>3. roster' = roster
  BY DEF Calm
<1>4. \A k \in K : Token(f[k], f[k])'
  BY <1>1
<1>5. \A n \in Numbers : (\A k \in K : f[k].player # n) => Unaffected(n)
  BY CalmLeavesAll
<1>6. QED
  BY <1>2, <1>3, <1>4, <1>5, FlowKeeps

\* One status moves.
Passed(k, m, s, t) ==
  /\ k \in Places /\ m \in Places /\ PlacesRest({k, m})
  /\ At(k) = {s} /\ At(m) = {} /\ At(k)' = {} /\ At(m)' = {t} /\ t.player = s.player

LEMMA PassingKeeps ==
  ASSUME Whereabouts, Calm, NEW k, NEW m, NEW s, NEW t, Passed(k, m, s, t), Token(m, t)
  PROVE  Whereabouts'
<1>1. PICK K, to, old, new : K = {k} /\ to = [x \in K |-> m] /\ old = [x \in K |-> s] /\ new = [x \in K |-> t]
  OBVIOUS
<1>2. K \subseteq Places /\ to \in [K -> Places] /\ \A x \in K : x = k /\ to[x] = m /\ old[x] = s /\ new[x] = t
  BY <1>1 DEF Passed
<1>3. Flow(K, to, old, new)
  BY <1>1, <1>2 DEF Flow, Passed, PlacesRest
<1>4. \A x \in K : Token(to[x], new[x])'
  <2>1. Token(m, t)'
    BY CalmLeavesAll, OthersUnaffected DEF Calm
  <2>2. QED
    BY <1>2, <2>1
<1>5. roster' = roster
  BY DEF Calm
<1>6. QED
  BY <1>3, <1>4, <1>5, CalmLeavesAll, FlowKeeps

-----------------------------------------------------------------------------
(***************************************************************************)
(* What the steps move.                                                    *)
(***************************************************************************)
LEMMA AtAWhile ==
  ASSUME UNCHANGED <<roster, defeats>>, pc'["A"] = pc["A"],
         Decided => UNCHANGED <<status["A"], win["A"]>>
  PROVE  Calm
BY DEF Calm, Decided, Winner

\* Only program counters change, and between places without a status.
LEMMA PcMoves ==
  ASSUME UNCHANGED <<status, mystatus, down, up, fifo, roster>>,
         \A b \in Battles, i \in 1 .. 2 : Held(b, i)' <=> Held(b, i),
         \A p \in Players :
           /\ pc'[p] \in {"open_write", "hand_over"} <=> pc[p] \in {"open_write", "hand_over"}
           /\ IsReal(Id[p]) => (pc'[p] \in {"unborn", "start"} <=> pc[p] \in {"unborn", "start"})
  PROVE  PlacesRest({})
<1> PICK K : K = {}
  OBVIOUS
<1>1. PipesRest(K)
  BY DEF PipesRest
<1>2. SeatsRest(K)
  BY DEF SeatsRest, Seated
<1>3. HandsRest(K)
  BY DEF HandsRest, InHand, InFile, Fresh
<1>4. QED
  BY <1>1, <1>2, <1>3, NothingMoves

\* A battle is no player.
LEMMA Apart ==
  ASSUME Values, NEW x \in Procs
  PROVE  /\ x \in Battles => x \notin Players /\ pc[x] \in BattleLabels \union Gone \union {"unborn"}
         /\ x \in Players => x \notin Battles /\ pc[x] \in PlayerLabels \union Gone \union {"unborn"}
         /\ x \in Battles \/ x \in Players
BY Tree DEF Values, Procs

LEMMA ForkMoves ==
  ASSUME IInv, NEW b \in Battles, NEW i \in 1 .. 2, Fork(b, i)
  PROVE  Calm /\ PlacesRest({})
<1> PICK c : c = Children[b][i]
  OBVIOUS
<1>1. /\ pc[b] = <<"fork_1", "fork_2">>[i]
      /\ pc' = [pc EXCEPT ![b] = <<"fork_2", "enter_1">>[i], ![c] = Starts(c)]
      /\ UNCHANGED <<status, win, mystatus, origin_HP, down, up, fifos, fifo, champion, roster, defeats>>
  BY DEF Fork
<1>2. /\ Values /\ b \in Procs /\ c \in Procs /\ c # "A"
      /\ pc \in [Procs -> BattleLabels \union PlayerLabels \union Gone \union {"unborn"}]
  BY Tree DEF IInv, Values, Procs
<1>3. pc[c] = "unborn" /\ c # b
  BY <1>1 DEF IInv, Links, Link, Unborn
<1>4. /\ pc[b] \in {"fork_1", "fork_2"} /\ pc'[b] \in {"fork_2", "enter_1"}
      /\ pc'[c] = Starts(c) /\ \A x \in Procs : x # b /\ x # c => pc'[x] = pc[x]
  BY <1>1, <1>2, <1>3
<1>5. Starts(c) \in {"fork_1", "start"} /\ (c \in Battles => Starts(c) = "fork_1")
  BY DEF Starts
<1>6. \A d \in Battles, j \in 1 .. 2 : Held(d, j)' <=> Held(d, j)
  BY <1>3, <1>4, <1>5 DEF Held, Procs
<1>7. b \notin Players
  BY <1>2, Apart
<1>8. \A p \in Players :
           /\ pc'[p] \in {"open_write", "hand_over"} <=> pc[p] \in {"open_write", "hand_over"}
           /\ IsReal(Id[p]) => (pc'[p] \in {"unborn", "start"} <=> pc[p] \in {"unborn", "start"})
  <2> TAKE p \in Players
  <2>1. p \in Procs /\ p # b
    BY <1>7 DEF Procs
  <2>2. CASE p = c
    <3>1. pc'[p] = "start"
      BY <1>4, <2>1, <2>2, <1>2, Apart DEF Starts
    <3>2. QED
      BY <1>3, <2>2, <3>1
  <2>3. CASE p # c
    BY <1>4, <2>1, <2>3
  <2>4. QED
    BY <2>2, <2>3
<1>9. Calm
  <2>1. "A" \in Procs
    BY Tree DEF Procs
  <2>2. CASE b = "A"
    BY <1>1, <1>4, <2>2 DEF Calm, Decided, Gone
  <2>3. CASE b # "A"
    <3>1. pc'["A"] = pc["A"]
      BY <1>2, <1>4, <2>1, <2>3
    <3>2. QED
      BY <1>1, <3>1, AtAWhile
  <2>4. QED
    BY <2>2, <2>3
<1>10. QED
  BY <1>1, <1>6, <1>8, <1>9, PcMoves

LEMMA ReapMoves ==
  ASSUME IInv, NEW b \in Battles, WaitFirst(b) \/ WaitLast(b)
  PROVE  Calm /\ PlacesRest({})
<1>1. PICK c, l :
        /\ c \in ToSet(Children[b])
        /\ pc[c] = "exit" /\ pc' = [pc EXCEPT ![c] = "reaped", ![b] = l]
        /\ \/ pc[b] = "wait" /\ (IF b = "A" THEN l = "last_wait" ELSE l = "relay_up")
           \/ pc[b] = "last_wait" /\ l = "exit"
  BY DEF WaitFirst, WaitLast
<1>2. UNCHANGED <<status, win, mystatus, down, up, fifo, roster, defeats>>
  BY DEF WaitFirst, WaitLast
<1>3. /\ Values /\ b \in Procs /\ c \in Procs /\ c # "A" /\ "A" \in Procs
      /\ pc \in [Procs -> BattleLabels \union PlayerLabels \union Gone \union {"unborn"}]
  <2>1. c = Children[b][1] \/ c = Children[b][2]
    BY <1>1, Tree
  <2>2. c \in Procs \ {"A"}
    BY <2>1, Tree
  <2>3. QED
    BY <2>2, Tree DEF IInv, Values, Procs
<1>4. /\ b # c /\ pc'[b] = l /\ pc'[c] = "reaped"
      /\ \A x \in Procs : x # b /\ x # c => pc'[x] = pc[x]
  BY <1>1, <1>3
<1>5. \A d \in Battles, j \in 1 .. 2 : Held(d, j)' <=> Held(d, j)
  BY <1>1, <1>4 DEF Held, Procs
<1>6. \A p \in Players :
           /\ pc'[p] \in {"open_write", "hand_over"} <=> pc[p] \in {"open_write", "hand_over"}
           /\ IsReal(Id[p]) => (pc'[p] \in {"unborn", "start"} <=> pc[p] \in {"unborn", "start"})
  BY <1>1, <1>4 DEF Procs
<1>7. Calm
  <2>1. CASE b = "A"
    BY <1>1, <1>2, <1>4, <2>1 DEF Calm, Decided, Gone, Winner
  <2>2. CASE b # "A"
    <3>1. pc'["A"] = pc["A"]
      BY <1>3, <1>4, <2>2
    <3>2. QED
      BY <1>2, <3>1, AtAWhile
  <2>3. QED
    BY <2>1, <2>2
<1>8. QED
  BY <1>2, <1>5, <1>6, <1>7, PcMoves

\* Players whose step A does not notice.
LEMMA PlayersAreCalm ==
  ASSUME IInv, pc' \in [Procs -> BattleLabels \union PlayerLabels \union Gone \union {"unborn"}],
         UNCHANGED <<status, win, roster, defeats>>,
         \A b \in Battles : pc'[b] = pc[b]
  PROVE  Calm /\ SeatsRest({})
<1>1. pc'["A"] = pc["A"]
  BY Tree
<1>2. Calm
  BY <1>1, AtAWhile
<1>3. SeatsRest({})
  BY DEF SeatsRest, Seated, Held
<1>4. QED
  BY <1>2, <1>3

LEMMA FifoMoves ==
  ASSUME IInv, NEW p \in Players, MakeFifo(p) \/ RetryOpen(p) \/ OpenFifo(p)
  PROVE  Calm /\ PlacesRest({})
<1>1. /\ UNCHANGED <<status, win, mystatus, down, up, fifo, roster, defeats>>
      /\ p \in Procs /\ p \notin Battles
  BY Tree DEF MakeFifo, RetryOpen, OpenFifo, Procs
<1>2. /\ pc \in [Procs -> BattleLabels \union PlayerLabels \union Gone \union {"unborn"}]
      /\ \A x \in Procs : pc[x] \in PlayerLabels => x \in Players
  BY DEF IInv, Values
<1>3. /\ pc' \in [Procs -> BattleLabels \union PlayerLabels \union Gone \union {"unborn"}]
      /\ \A b \in Battles : pc'[b] = pc[b]
      /\ \A q \in Players :
           /\ pc'[q] \in {"open_write", "hand_over"} <=> pc[q] \in {"open_write", "hand_over"}
           /\ IsReal(Id[q]) => (pc'[q] \in {"unborn", "start"} <=> pc[q] \in {"unborn", "start"})
  <2>1. CASE MakeFifo(p)
    <3>1. pc[p] = "start" /\ ~IsReal(Id[p]) /\ pc' = [pc EXCEPT ![p] = "open_read"]
      BY <2>1 DEF MakeFifo, Goto
    <3>2. "open_read" \in PlayerLabels
      BY DEF PlayerLabels
    <3>3. QED
      BY <1>1, <1>2, <3>1, <3>2 DEF Procs
  <2>2. CASE RetryOpen(p)
    <3>1. pc[p] = "open_write" /\ pc' = [pc EXCEPT ![p] = "open_write"]
      BY <2>2 DEF RetryOpen, Goto, OpenFailed
    <3>2. pc' = pc
      BY <1>1, <1>2, <3>1
    <3>3. QED
      BY <1>2, <3>2
  <2>3. CASE OpenFifo(p)
    <3>1. PICK a : /\ pc[p] = "open_write" /\ a \in fifos /\ pc[a] = "open_read"
                   /\ pc' = [pc EXCEPT ![p] = "hand_over", ![a] = "take_over"]
      BY <2>3 DEF OpenFifo
    <3>2. a \in Players /\ a \in Procs /\ a \notin Battles
      BY <3>1, Tree DEF IInv, Values, Procs
    <3>3. {"hand_over", "take_over"} \subseteq PlayerLabels
      BY DEF PlayerLabels
    <3>4. QED
      BY <1>1, <1>2, <3>1, <3>2, <3>3 DEF Procs
  <2>4. QED
    BY <2>1, <2>2, <2>3
<1>4. Calm
  BY <1>1, <1>3, PlayersAreCalm
<1>5. \A d \in Battles, j \in 1 .. 2 : Held(d, j)' <=> Held(d, j)
  BY <1>3 DEF Held
<1>6. QED
  BY <1>1, <1>3, <1>4, <1>5, PcMoves

-----------------------------------------------------------------------------
(***************************************************************************)
(* One status in a pipe.                                                   *)
(***************************************************************************)
LEMMA OneInside ==
  ASSUME NEW pipe, NEW x, NEW s, Holds(pipe, x, s)
  PROVE  ToSet(pipe[x]) = {s}
<1>1. PICK q : q = <<s>>
  OBVIOUS
<1>2. ToSet(q) = {s}
  BY <1>1 DEF ToSet
<1>3. QED
  BY <1>1, <1>2 DEF Holds

LEMMA NothingInside ==
  ASSUME NEW q, q = <<>>
  PROVE  ToSet(q) = {}
BY DEF ToSet

\* What a process has sent is read.
LEMMA UpIsRead ==
  ASSUME IInv, NEW c \in Procs, up[c] # <<>>, NEW s, s = Head(up[c])
  PROVE  /\ Listens(c) /\ Fit(s) /\ s \in Statuses /\ Holds(up, c, s) /\ down[c] = <<>>
         /\ Receive(up, c) \in [Procs -> Seq(Statuses)]
         /\ Receive(up, c)[c] = <<>>
         /\ \A x \in Procs : x # c => Receive(up, c)[x] = up[x]
<1>1. Answers(c)
  BY OneOnItsWay DEF Quiet, IsTold
<1>2. PICK t \in Statuses : up[c] = <<t>> /\ Fit(t)
  BY <1>1 DEF Answers
<1>3. up \in [Procs -> Seq(Statuses)]
  BY DEF IInv, Values
<1>4. Holds(up, c, t)
  BY <1>2 DEF Holds
<1>5. Head(up[c]) = t
  BY <1>3, <1>4, OneIsRead
<1>6. s = t
  BY <1>5
<1>7. /\ Receive(up, c) \in [Procs -> Seq(Statuses)]
      /\ Receive(up, c)[c] = <<>>
      /\ \A x \in Procs : x # c => Receive(up, c)[x] = up[x]
  BY <1>3, <1>4, OneIsRead
<1>8. QED
  BY <1>1, <1>2, <1>4, <1>6, <1>7 DEF Answers

\* What a process has been told is read; it is what its parent keeps.
LEMMA DownIsRead ==
  ASSUME IInv, NEW c \in Procs, Listens(c), down[c] # <<>>, NEW s, s = Head(down[c])
  PROVE  /\ Proper(s) /\ s \in Statuses /\ Holds(down, c, s) /\ up[c] = <<>>
         /\ Receive(down, c) \in [Procs -> Seq(Statuses)]
         /\ Receive(down, c)[c] = <<>>
         /\ \A x \in Procs : x # c => Receive(down, c)[x] = down[x]
         /\ \E b \in Battles, i \in 1 .. 2 : c = Children[b][i] /\ b # c /\ s = status[b][i] /\ Serves(b, i)
<1>1. c # "A"
  BY Tree DEF IInv, AllBattles, Battle, Quiet
<1>2. PICK b \in Battles, i \in 1 .. 2 : c = Children[b][i]
  BY <1>1, Tree
<1>3. PICK t : t = status[b][i]
  OBVIOUS
<1>4. IsTold(c, t) /\ Proper(t)
  BY <1>2, <1>3, ToldIs
<1>5. t \in Statuses /\ down[c] = <<t>> /\ up[c] = <<>>
  BY <1>4 DEF Proper, IsTold
<1>6. down \in [Procs -> Seq(Statuses)]
  BY DEF IInv, Values
<1>7. Holds(down, c, t)
  BY <1>5 DEF Holds
<1>8. Head(down[c]) = t
  BY <1>5, <1>6, <1>7, OneIsRead
<1>9. s = t
  BY <1>8
<1>10. /\ Receive(down, c) \in [Procs -> Seq(Statuses)]
       /\ Receive(down, c)[c] = <<>>
       /\ \A x \in Procs : x # c => Receive(down, c)[x] = down[x]
  BY <1>5, <1>6, <1>7, OneIsRead
<1>11. Serves(b, i)
  <2>1. Link(b, i)
    BY DEF IInv, Links
  <2>2. /\ ~Answers(c) /\ ~Waits(c) /\ ~Leaves(c) /\ ~Begins(c)
        /\ pc[c] # "unborn" /\ pc[c] # "reaped"
    BY <1>5 DEF Answers, Waits, Leaves, Begins, Quiet, Listens, Late
  <2>3. ~Unborn(b, i) /\ ~Due(b, i) /\ ~Free(b, i) /\ ~Over(b, i)
    BY <1>2, <2>1, <2>2 DEF Link
  <2>4. QED
    BY <2>3, Stages DEF Serves
<1>12. b # c
  <2>1. pc[b] # "unborn"
    BY <1>11 DEF Serves, Free, Held, Owed, Replayed, Ending
  <2>2. QED
    BY <1>2, <2>1 DEF IInv, AllBattles, Battle
<1>13. QED
  BY <1>2, <1>3, <1>4, <1>5, <1>7, <1>9, <1>10, <1>11, <1>12

-----------------------------------------------------------------------------
(***************************************************************************)
(* What the places say of the statuses in them.                            *)
(***************************************************************************)

\* The winners' and the losers' half meet in A only.
LEMMA Halves ==
  /\ DOMAIN Agent \subseteq Battles \ {"A"}
  /\ \A b \in Battles : Upper(b) <=> b \in DOMAIN Agent
  /\ \A p \in Players : Upper(p) <=> IsReal(Id[p])
  /\ \A b \in Battles \ {"A"}, i \in 1 .. 2 : Upper(Children[b][i]) <=> Upper(b)
<1>1. /\ DOMAIN Agent \subseteq Battles \ {"A"}
      /\ \A b \in Battles \ {"A"}, i \in 1 .. 2 :
           AmongWinners(Children[b][i], Agent, Id) <=> b \in DOMAIN Agent
  BY TournamentAssumption, Zenon DEF WellFormed, Battles
<1>2. \A b \in Battles : Upper(b) <=> b \in DOMAIN Agent
  BY Tree DEF Upper, AmongWinners, Players
<1>3. \A p \in Players : Upper(p) <=> IsReal(Id[p])
  BY DEF Upper, AmongWinners, Players
<1>4. QED
  BY <1>1, <1>2, <1>3 DEF Upper

LEMMA TokenIs ==
  ASSUME NEW x, NEW s
  PROVE  /\ Token(<<"up", x>>, s) <=> Bounded(s) /\ Record(s.player, Upper(x)) /\ ~Won(s.player)
         /\ Token(<<"down", x>>, s)
              <=> Bounded(s) /\ Outcomes(x, s) /\ (Won(s.player) => s.battle = "A" /\ s.ended = 1)
         /\ Token(<<"first", x>>, s)
              <=> Bounded(s) /\ Record(s.player, Upper(Children[x][1])) /\ ~Won(s.player)
         /\ Token(<<"second", x>>, s)
              <=> Bounded(s) /\ Record(s.player, Upper(Children[x][2])) /\ ~Won(s.player)
         /\ Token(<<"hand", x>>, s) <=> Bounded(s) /\ Record(s.player, FALSE) /\ ~Won(s.player)
         /\ Token(<<"fifo", x>>, s) <=> Bounded(s) /\ Record(s.player, FALSE) /\ ~Won(s.player)
         /\ Token(<<"file", x>>, s) <=> Bounded(s) /\ Record(s.player, TRUE) /\ ~Won(s.player)
<1>1. /\ <<"up", x>>[1] = "up" /\ <<"up", x>>[2] = x
      /\ <<"down", x>>[1] = "down" /\ <<"down", x>>[2] = x
      /\ <<"first", x>>[1] = "first" /\ <<"first", x>>[2] = x
      /\ <<"second", x>>[1] = "second" /\ <<"second", x>>[2] = x
      /\ <<"hand", x>>[1] = "hand" /\ <<"hand", x>>[2] = x
      /\ <<"fifo", x>>[1] = "fifo" /\ <<"fifo", x>>[2] = x
      /\ <<"file", x>>[1] = "file" /\ <<"file", x>>[2] = x
  OBVIOUS
<1>2. QED
  BY <1>1, Zenon DEF Token, RightRecord

\* The seats, by their number.
LEMMA SeatIs ==
  ASSUME NEW b \in Battles, NEW i \in 1 .. 2
  PROVE  /\ SeatOf(b, i) \in Places /\ At(SeatOf(b, i)) = Seated(b, i) /\ At(SeatOf(b, i))' = Seated(b, i)'
         /\ \A s : Token(SeatOf(b, i), s) <=> Bounded(s) /\ Record(s.player, Upper(Children[b][i])) /\ ~Won(s.player)
         /\ SeatOf(b, 1) = <<"first", b>> /\ SeatOf(b, 2) = <<"second", b>>
<1>1. b \in Procs
  BY DEF Procs
<1>2. SeatOf(b, 1) = <<"first", b>> /\ SeatOf(b, 2) = <<"second", b>>
  BY DEF SeatOf
<1>3. <<"first", b>> \in Places /\ <<"second", b>> \in Places
  BY <1>1 DEF Places
<1>4. /\ At(<<"first", b>>) = Seated(b, 1) /\ At(<<"second", b>>) = Seated(b, 2)
      /\ At(<<"first", b>>)' = Seated(b, 1)' /\ At(<<"second", b>>)' = Seated(b, 2)'
  BY <1>1, PlaceAt, PlaceAtPrime, Zenon
<1>5. /\ \A s : Token(<<"first", b>>, s)
             <=> Bounded(s) /\ Record(s.player, Upper(Children[b][1])) /\ ~Won(s.player)
      /\ \A s : Token(<<"second", b>>, s)
             <=> Bounded(s) /\ Record(s.player, Upper(Children[b][2])) /\ ~Won(s.player)
  BY TokenIs, Zenon
<1>6. CASE i = 1
  BY <1>2, <1>3, <1>4, <1>5, <1>6, Zenon
<1>7. CASE i = 2
  BY <1>2, <1>3, <1>4, <1>5, <1>7, Zenon
<1>8. QED
  BY <1>6, <1>7

\* Only the seats of b change.
LEMMA OtherSeatsRest ==
  ASSUME NEW b \in Battles, NEW K,
         \A d \in Battles \ {b} : UNCHANGED <<pc[d], status[d]>>,
         \A i \in 1 .. 2 : SeatOf(b, i) \in K \/ Seated(b, i)' = Seated(b, i)
  PROVE  SeatsRest(K)
<1>1. \A d \in Battles \ {b}, i \in 1 .. 2 : Seated(d, i)' = Seated(d, i)
  BY DEF Seated, Held
<1>2. SeatOf(b, 1) = <<"first", b>> /\ SeatOf(b, 2) = <<"second", b>>
  BY SeatIs
<1>3. QED
  BY <1>1, <1>2 DEF SeatsRest

-----------------------------------------------------------------------------
(***************************************************************************)
(* The steps in which one status moves.                                    *)
(***************************************************************************)

\* A battle takes the status s from its child c, and keeps it as t.
Takes(b, i, c, s, t) ==
  /\ c = Children[b][i] /\ up[c] # <<>> /\ s = Head(up[c])
  /\ t \in Statuses /\ t.player = s.player /\ t.HP = s.HP
  /\ pc[b] \in {<<"enter_1", "enter_2">>[i], <<"read_1", "read_2">>[i]}
  /\ pc'[b] \in {<<"enter_2", "play">>[i], <<"read_2", "play">>[i]}
  /\ pc'[b] = "read_2" => pc[b] = "read_1"
  /\ \A x \in Procs : x # b => pc'[x] = pc[x]
  /\ status'[b][i] = t /\ status'[b][3 - i] = status[b][3 - i]
  /\ \A d \in Battles : d # b => status'[d] = status[d]
  /\ up' = Receive(up, c)
  /\ UNCHANGED <<win, mystatus, origin_HP, down, fifos, fifo, champion, roster, defeats>>

LEMMA ReadTakes ==
  ASSUME IInv, NEW b \in Battles, NEW i \in 1 .. 2, Admit(b, i) \/ ReadBack(b, i)
  PROVE  \E c \in Procs, s, t \in Statuses : Takes(b, i, c, s, t)
<1> PICK c, s : c = Children[b][i] /\ s = Head(up[c])
  OBVIOUS
<1>1. /\ c \in Procs /\ b \in Procs /\ up[c] # <<>>
      /\ pc \in [Procs -> BattleLabels \union PlayerLabels \union Gone \union {"unborn"}]
      /\ status \in [Battles -> [1 .. 2 -> Statuses]]
  BY Tree DEF Admit, ReadBack, IInv, Values, Procs
<1>2. s \in Statuses
  BY <1>1, UpIsRead
<1>3. PICK t, l :
        /\ t \in Statuses /\ t.player = s.player /\ t.HP = s.HP
        /\ status' = [status EXCEPT ![b][i] = t] /\ pc' = [pc EXCEPT ![b] = l]
        /\ pc[b] \in {<<"enter_1", "enter_2">>[i], <<"read_1", "read_2">>[i]}
        /\ l \in {<<"enter_2", "play">>[i], <<"read_2", "play">>[i]}
        /\ l = "read_2" => pc[b] = "read_1"
  <2>1. CASE Admit(b, i)
    <3>1. PICK t : t = [s EXCEPT !.battle = b]
      OBVIOUS
    <3>2. t \in Statuses /\ t.player = s.player /\ t.HP = s.HP
      BY <1>2, <3>1 DEF Statuses
    <3>3. /\ status' = [status EXCEPT ![b][i] = t] /\ pc' = [pc EXCEPT ![b] = <<"enter_2", "play">>[i]]
          /\ pc[b] = <<"enter_1", "enter_2">>[i]
      BY <2>1, <3>1 DEF Admit, Goto
    <3>4. PICK l : l = <<"enter_2", "play">>[i]
      OBVIOUS
    <3>5. l # "read_2"
      <4>1. CASE i = 1
        BY <3>4, <4>1
      <4>2. CASE i = 2
        BY <3>4, <4>2
      <4>3. QED
        BY <4>1, <4>2
    <3>6. QED
      BY <3>2, <3>3, <3>4, <3>5
  <2>2. CASE ReadBack(b, i)
    <3>1. /\ status' = [status EXCEPT ![b][i] = s] /\ pc' = [pc EXCEPT ![b] = <<"read_2", "play">>[i]]
          /\ pc[b] = <<"read_1", "read_2">>[i]
      BY <2>2 DEF ReadBack, Goto, AfterRead
    <3>2. PICK l : l = <<"read_2", "play">>[i]
      OBVIOUS
    <3>3. l = "read_2" => pc[b] = "read_1"
      <4>1. CASE i = 1
        BY <3>1, <4>1
      <4>2. CASE i = 2
        BY <3>2, <4>2
      <4>3. QED
        BY <4>1, <4>2
    <3>4. QED
      BY <1>2, <3>1, <3>2, <3>3
  <2>3. QED
    BY <2>1, <2>2
<1>4. /\ pc'[b] = l /\ \A x \in Procs : x # b => pc'[x] = pc[x]
      /\ status'[b][i] = t /\ status'[b][3 - i] = status[b][3 - i]
      /\ \A d \in Battles : d # b => status'[d] = status[d]
  BY <1>1, <1>3
<1>5. up' = Receive(up, c) /\ UNCHANGED <<win, mystatus, origin_HP, down, fifos, fifo, champion, roster, defeats>>
  BY DEF Admit, ReadBack
<1>6. pc'[b] \in {<<"enter_2", "play">>[i], <<"read_2", "play">>[i]} /\ (pc'[b] = "read_2" => pc[b] = "read_1")
  BY <1>3, <1>4
<1>7. c = Children[b][i] /\ s = Head(up[c]) /\ t \in Statuses /\ t.player = s.player /\ t.HP = s.HP
  BY <1>3
<1>8. Takes(b, i, c, s, t)
  BY <1>1, <1>3, <1>4, <1>5, <1>6, <1>7 DEF Takes
<1>9. QED
  BY <1>1, <1>2, <1>7, <1>8

LEMMA TakesMoves ==
  ASSUME IInv, Whereabouts, NEW b \in Battles, NEW i \in 1 .. 2, NEW c \in Procs, NEW s \in Statuses, NEW t \in Statuses,
         Takes(b, i, c, s, t)
  PROVE  Calm /\ Whereabouts'
<1> PICK k, m : k = <<"up", c>> /\ m = SeatOf(b, i)
  OBVIOUS
<1>1. /\ Listens(c) /\ Fit(s) /\ Holds(up, c, s)
      /\ Receive(up, c)[c] = <<>>
      /\ \A x \in Procs : x # c => Receive(up, c)[x] = up[x]
  BY UpIsRead DEF Takes
<1>2. /\ k \in Places /\ m \in Places /\ m # k
      /\ At(k) = {s} /\ At(k)' = {}
  <2>1. k \in Places /\ m \in Places /\ m # k
    BY SeatIs DEF Places, SeatOf
  <2>2. ToSet(up[c]) = {s} /\ ToSet(up'[c]) = {}
    BY <1>1, OneInside, NothingInside DEF Takes
  <2>3. QED
    BY <2>1, <2>2, PlaceAt, PlaceAtPrime
<1>3. Seated(b, i) = {} /\ Seated(b, i)' = {t} /\ Seated(b, 3 - i)' = Seated(b, 3 - i)
  BY DEF Takes, Seated, Held
<1>4. At(m) = {} /\ At(m)' = {t}
  BY <1>3, SeatIs
<1>5. PlacesRest({k, m})
  <2>1. PipesRest({k, m})
    BY <1>1 DEF PipesRest, Takes
  <2>2. SeatsRest({k, m})
    <3>1. \A j \in 1 .. 2 : j = i \/ j = 3 - i
      OBVIOUS
    <3>2. \A j \in 1 .. 2 : SeatOf(b, j) \in {k, m} \/ Seated(b, j)' = Seated(b, j)
      BY <1>3, <3>1
    <3>3. \A d \in Battles \ {b} : UNCHANGED <<pc[d], status[d]>>
      BY DEF Takes, Procs
    <3> HIDE DEF SeatsRest
    <3>4. QED
      BY <3>2, <3>3, OtherSeatsRest
  <2>3. HandsRest({k, m})
    <3>1. \A p \in Players : p \in Procs /\ p # b
      BY Tree DEF Procs
    <3>2. QED
      BY <3>1 DEF HandsRest, InHand, InFile, Fresh, Takes
  <2>4. QED
    BY <2>1, <2>2, <2>3, NothingMoves
<1>6. t.player = s.player /\ Passed(k, m, s, t)
  BY <1>2, <1>4, <1>5 DEF Passed, Takes
<1>7. Token(m, t)
  <2>1. Token(k, s)
    BY <1>2 DEF Whereabouts, Tokens
  <2>2. Bounded(s) /\ Record(s.player, Upper(c)) /\ ~Won(s.player)
    BY <2>1, TokenIs
  <2>3. Bounded(t) /\ Record(t.player, Upper(Children[b][i])) /\ ~Won(t.player)
    BY <2>2 DEF Takes, Bounded
  <2>4. QED
    BY <2>3, SeatIs
<1>8. Calm
  <2>1. "A" \in Procs
    BY Tree DEF Procs
  <2>2. CASE b = "A"
    BY <2>2 DEF Calm, Decided, Gone, Takes
  <2>3. CASE b # "A"
    <3>1. pc'["A"] = pc["A"] /\ UNCHANGED <<status["A"], win["A"], roster, defeats>>
      BY <2>1, <2>3, Tree DEF Takes
    <3>2. QED
      BY <3>1, AtAWhile
  <2>4. QED
    BY <2>2, <2>3
<1>9. QED
  BY <1>6, <1>7, <1>8, PassingKeeps

\* The winner's answer goes up one battle.
LEMMA RelayUpMoves ==
  ASSUME IInv, Whereabouts, NEW b \in Battles, RelayUp(b)
  PROVE  Calm /\ Whereabouts'
<1> PICK w, c, s : w = win[b] /\ c = Children[b][w] /\ s = Head(up[c])
  OBVIOUS
<1>1. /\ pc[b] = "relay_up" /\ up[c] # <<>>
      /\ status' = [status EXCEPT ![b][w] = s]
      /\ up' = Send(Receive(up, c), b, s)
      /\ pc' = [pc EXCEPT ![b] = "relay_down"]
      /\ UNCHANGED <<win, mystatus, down, fifo, champion, roster, defeats>>
  BY DEF RelayUp, Goto
<1>2. /\ b \in Procs /\ b # "A" /\ w \in 1 .. 2 /\ c \in Procs /\ c # b
      /\ pc \in [Procs -> BattleLabels \union PlayerLabels \union Gone \union {"unborn"}]
      /\ status \in [Battles -> [1 .. 2 -> Statuses]]
  BY <1>1, RelayKnows DEF IInv, Values
<1>3. /\ s \in Statuses /\ Holds(up, c, s)
      /\ Receive(up, c) \in [Procs -> Seq(Statuses)]
      /\ Receive(up, c)[c] = <<>>
      /\ \A x \in Procs : x # c => Receive(up, c)[x] = up[x]
  BY <1>1, <1>2, UpIsRead
<1>4. up[b] = <<>>
  BY <1>1, <1>2, OneOnItsWay DEF Quiet, Answers, IsTold, Listens
<1>5. /\ Holds(up', b, s) /\ up'[c] = <<>>
      /\ \A x \in Procs : x # b /\ x # c => up'[x] = up[x]
  <2> PICK mid : mid = Receive(up, c)
    OBVIOUS
  <2>1. /\ mid \in [Procs -> Seq(Statuses)] /\ mid[b] = <<>> /\ mid[c] = <<>>
        /\ \A x \in Procs : x # c => mid[x] = up[x]
    BY <1>2, <1>3, <1>4
  <2>2. /\ Holds(Send(mid, b, s), b, s)
        /\ \A x \in Procs : x # b => Send(mid, b, s)[x] = mid[x]
    <3>1. mid \in [Procs -> Seq(Statuses)] /\ b \in Procs /\ s \in Statuses /\ mid[b] = <<>>
      BY <1>2, <1>3, <2>1
    <3>2. QED
      BY <3>1, OneIsWritten, Zenon
  <2>3. up' = Send(mid, b, s)
    BY <1>1
  <2>4. QED
    BY <1>2, <2>1, <2>2, <2>3
<1> PICK k, m : k = <<"up", c>> /\ m = <<"up", b>>
  OBVIOUS
<1>6. /\ k \in Places /\ m \in Places /\ m # k
      /\ At(k) = {s} /\ At(m) = {} /\ At(k)' = {} /\ At(m)' = {s}
  <2>1. k \in Places /\ m \in Places /\ m # k
    BY <1>2 DEF Places
  <2>2. ToSet(up[c]) = {s} /\ ToSet(up[b]) = {} /\ ToSet(up'[c]) = {} /\ ToSet(up'[b]) = {s}
    BY <1>3, <1>4, <1>5, OneInside, NothingInside
  <2>3. QED
    BY <1>2, <2>1, <2>2, PlaceAt, PlaceAtPrime
<1>7. /\ pc'[b] = "relay_down" /\ \A x \in Procs : x # b => pc'[x] = pc[x]
      /\ \A d \in Battles : d # b => status'[d] = status[d]
  BY <1>1, <1>2
<1>8. PlacesRest({k, m})
  <2>1. PipesRest({k, m})
    BY <1>1, <1>5 DEF PipesRest
  <2>2. SeatsRest({k, m})
    <3>1. \A j \in 1 .. 2 : SeatOf(b, j) \in {k, m} \/ Seated(b, j)' = Seated(b, j)
      BY <1>1, <1>7 DEF Seated, Held
    <3>2. \A d \in Battles \ {b} : UNCHANGED <<pc[d], status[d]>>
      BY <1>7 DEF Procs
    <3> HIDE DEF SeatsRest
    <3>3. QED
      BY <3>1, <3>2, OtherSeatsRest
  <2>3. HandsRest({k, m})
    <3>1. \A p \in Players : p \in Procs /\ p # b
      BY Tree DEF Procs
    <3>2. QED
      BY <1>1, <1>7, <3>1 DEF HandsRest, InHand, InFile, Fresh
  <2>4. QED
    BY <2>1, <2>2, <2>3, NothingMoves
<1>9. Passed(k, m, s, s)
  BY <1>6, <1>8 DEF Passed
<1>10. Token(m, s)
  <2>1. Token(k, s)
    BY <1>6 DEF Whereabouts, Tokens
  <2>2. Bounded(s) /\ Record(s.player, Upper(c)) /\ ~Won(s.player)
    BY <2>1, TokenIs
  <2>3. Upper(c) <=> Upper(b)
    BY <1>2, Halves
  <2>4. QED
    BY <2>2, <2>3, TokenIs DEF Record
<1>11. Calm
  <2>1. pc'["A"] = pc["A"] /\ UNCHANGED <<status["A"], win["A"], roster, defeats>>
    BY <1>1, <1>2, <1>7, Tree DEF Procs
  <2>2. QED
    BY <2>1, AtAWhile
<1>12. QED
  BY <1>9, <1>10, <1>11, PassingKeeps

\* The parent's answer goes down one battle.
LEMMA RelayDownMoves ==
  ASSUME IInv, Whereabouts, NEW b \in Battles, RelayDown(b)
  PROVE  Calm /\ Whereabouts'
<1> PICK w, c, s, l : w = win[b] /\ c = Children[b][w] /\ s = Head(down[b]) /\ l = AfterRelay(s)
  OBVIOUS
<1>1. /\ pc[b] = "relay_down" /\ down[b] # <<>>
      /\ status' = [status EXCEPT ![b][w] = s]
      /\ down' = Send(Receive(down, b), c, s)
      /\ pc' = [pc EXCEPT ![b] = l]
      /\ UNCHANGED <<win, mystatus, up, fifo, champion, roster, defeats>>
  BY DEF RelayDown, Goto
<1>2. /\ b \in Procs /\ b # "A" /\ w \in 1 .. 2 /\ c \in Procs /\ c # b
      /\ pc \in [Procs -> BattleLabels \union PlayerLabels \union Gone \union {"unborn"}]
      /\ status \in [Battles -> [1 .. 2 -> Statuses]]
  BY <1>1, RelayKnows DEF IInv, Values
<1>3. /\ s \in Statuses /\ Holds(down, b, s)
      /\ Receive(down, b) \in [Procs -> Seq(Statuses)]
      /\ Receive(down, b)[b] = <<>>
      /\ \A x \in Procs : x # b => Receive(down, b)[x] = down[x]
  BY <1>1, <1>2, DownIsRead DEF Listens
<1>4. down[c] = <<>>
  <2>1. Free(b, w) /\ Link(b, w)
    BY <1>1, <1>2 DEF Free, IInv, Links
  <2>2. QED
    BY <1>2, <2>1 DEF Link, Waits, Quiet
<1>5. /\ Holds(down', c, s) /\ down'[b] = <<>>
      /\ \A x \in Procs : x # b /\ x # c => down'[x] = down[x]
  <2> PICK mid : mid = Receive(down, b)
    OBVIOUS
  <2>1. /\ mid \in [Procs -> Seq(Statuses)] /\ mid[b] = <<>> /\ mid[c] = <<>>
        /\ \A x \in Procs : x # b => mid[x] = down[x]
    BY <1>2, <1>3, <1>4
  <2>2. /\ Holds(Send(mid, c, s), c, s)
        /\ \A x \in Procs : x # c => Send(mid, c, s)[x] = mid[x]
    BY <1>2, <1>3, <2>1, OneIsWritten
  <2>3. down' = Send(mid, c, s)
    BY <1>1
  <2>4. QED
    BY <1>2, <2>1, <2>2, <2>3
<1> PICK k, m : k = <<"down", b>> /\ m = <<"down", c>>
  OBVIOUS
<1>6. /\ k \in Places /\ m \in Places /\ m # k
      /\ At(k) = {s} /\ At(m) = {} /\ At(k)' = {} /\ At(m)' = {s}
  <2>1. k \in Places /\ m \in Places /\ m # k
    BY <1>2 DEF Places
  <2>2. ToSet(down[b]) = {s}
    BY <1>3, OneInside
  <2>3. ToSet(down'[c]) = {s}
    BY <1>5, OneInside
  <2>4. ToSet(down[c]) = {} /\ ToSet(down'[b]) = {}
    BY <1>4, <1>5, NothingInside
  <2>5. QED
    BY <1>2, <2>1, <2>2, <2>3, <2>4, PlaceAt, PlaceAtPrime
<1>7. /\ pc'[b] \in {"last_wait", "relay_up"} /\ \A x \in Procs : x # b => pc'[x] = pc[x]
      /\ \A d \in Battles : d # b => status'[d] = status[d]
  BY <1>1, <1>2 DEF AfterRelay
<1>8. PlacesRest({k, m})
  <2>1. PipesRest({k, m})
    BY <1>1, <1>5 DEF PipesRest
  <2>2. SeatsRest({k, m})
    <3>1. \A j \in 1 .. 2 : SeatOf(b, j) \in {k, m} \/ Seated(b, j)' = Seated(b, j)
      BY <1>1, <1>7 DEF Seated, Held
    <3>2. \A d \in Battles \ {b} : UNCHANGED <<pc[d], status[d]>>
      BY <1>7 DEF Procs
    <3> HIDE DEF SeatsRest
    <3>3. QED
      BY <3>1, <3>2, OtherSeatsRest
  <2>3. HandsRest({k, m})
    <3>1. \A p \in Players : p \in Procs /\ p # b
      BY Tree DEF Procs
    <3>2. QED
      BY <1>1, <1>7, <3>1 DEF HandsRest, InHand, InFile, Fresh
  <2>4. QED
    BY <2>1, <2>2, <2>3, NothingMoves
<1>9. Passed(k, m, s, s)
  BY <1>6, <1>8 DEF Passed
<1>10. Token(m, s)
  <2>1. Token(k, s)
    BY <1>6 DEF Whereabouts, Tokens
  <2>2. Bounded(s) /\ Outcomes(b, s) /\ (Won(s.player) => s.battle = "A" /\ s.ended = 1)
    BY <2>1, TokenIs
  <2>3. Upper(c) <=> Upper(b)
    BY <1>2, Halves
  <2>4. Outcomes(c, s)
    BY <2>2, <2>3 DEF Outcomes, Record, LostLast
  <2>5. QED
    BY <2>2, <2>4, TokenIs
<1>11. Calm
  <2>1. pc'["A"] = pc["A"] /\ UNCHANGED <<status["A"], win["A"], roster, defeats>>
    BY <1>1, <1>2, <1>7, Tree DEF Procs
  <2>2. QED
    BY <2>1, AtAWhile
<1>12. QED
  BY <1>9, <1>10, <1>11, PassingKeeps

-----------------------------------------------------------------------------
(***************************************************************************)
(* The steps of a player.                                                  *)
(***************************************************************************)

\* Only p moves.
LEMMA PlayerAlone ==
  ASSUME IInv, NEW p \in Players, NEW l \in PlayerLabels \union Gone, pc' = [pc EXCEPT ![p] = l],
         UNCHANGED <<status, win, roster, defeats>>
  PROVE  /\ p \in Procs /\ p \notin Battles
         /\ pc'[p] = l /\ \A x \in Procs : x # p => pc'[x] = pc[x]
         /\ Calm /\ SeatsRest({})
<1>1. p \in Procs /\ p \notin Battles /\ Battles \subseteq Procs
  BY Tree DEF Procs
<1>2. pc \in [Procs -> BattleLabels \union PlayerLabels \union Gone \union {"unborn"}]
  BY DEF IInv, Values
<1>3. /\ pc'[p] = l /\ \A x \in Procs : x # p => pc'[x] = pc[x]
      /\ pc' \in [Procs -> BattleLabels \union PlayerLabels \union Gone \union {"unborn"}]
  BY <1>1, <1>2
<1>4. \A b \in Battles : pc'[b] = pc[b]
  BY <1>1, <1>3
<1>5. Calm /\ SeatsRest({})
  BY <1>3, <1>4, PlayersAreCalm
<1>6. QED
  BY <1>1, <1>3, <1>5

\* Seats rest, whatever else moves.
LEMMA MoreMoves ==
  ASSUME SeatsRest({}), NEW K
  PROVE  SeatsRest(K)
BY DEF SeatsRest

LEMMA ReadStatusMoves ==
  ASSUME IInv, Whereabouts, NEW p \in Players, ReadStatus(p)
  PROVE  Calm /\ Whereabouts'
<1> PICK s : s = Fresh(Id[p])
  OBVIOUS
<1>1. /\ pc[p] = "start" /\ IsReal(Id[p])
      /\ up' = Send(up, p, s)
      /\ pc' = [pc EXCEPT ![p] = "fight"]
      /\ mystatus' = [mystatus EXCEPT ![p] = s]
      /\ UNCHANGED <<status, win, down, fifos, fifo, champion, roster, defeats>>
  BY DEF ReadStatus, Begin, Goto, Fresh
<1>2. /\ p \in Procs /\ p \notin Battles
      /\ pc'[p] = "fight" /\ \A x \in Procs : x # p => pc'[x] = pc[x]
      /\ Calm /\ SeatsRest({})
  <2>1. "fight" \in PlayerLabels
    BY DEF PlayerLabels
  <2>2. QED
    BY <1>1, <2>1, PlayerAlone
<1>3. s.player = Id[p] /\ s.HP = roster[Id[p]].HP /\ s \in Statuses /\ s.player \in Numbers
  <2>1. roster \in Rosters
    BY DEF IInv, Values
  <2>2. Id[p] \in Numbers /\ roster[Id[p]].HP \in Nat \ {0}
    BY <1>1, <2>1, TournamentAssumption DEF Numbers, Players
  <2>3. s = [player |-> Id[p], HP |-> roster[Id[p]].HP, battle |-> "none", ended |-> 0]
    BY DEF Fresh, NoStatus
  <2>4. QED
    BY <2>2, <2>3, FreshIs DEF Fit
<1>4. up[p] = <<>> /\ up \in [Procs -> Seq(Statuses)] /\ mystatus \in [Players -> Statuses]
  BY <1>1, <1>2, OneOnItsWay DEF Quiet, Answers, IsTold, Listens, IInv, Values
<1>5. Holds(up', p, s) /\ \A x \in Procs : x # p => up'[x] = up[x]
  BY <1>1, <1>2, <1>3, <1>4, OneIsWritten
<1> PICK k, m : k = <<"file", p>> /\ m = <<"up", p>>
  OBVIOUS
<1>6. /\ k \in Places /\ m \in Places /\ m # k
      /\ At(k) = {s} /\ At(m) = {} /\ At(k)' = {} /\ At(m)' = {s}
  <2>1. k \in Places /\ m \in Places /\ m # k
    BY <1>2 DEF Places
  <2>2. InFile(p) = {s} /\ InFile(p)' = {}
    BY <1>1, <1>2 DEF InFile
  <2>3. ToSet(up[p]) = {} /\ ToSet(up'[p]) = {s}
    BY <1>4, <1>5, OneInside, NothingInside
  <2>4. QED
    BY <1>2, <2>1, <2>2, <2>3, PlaceAt, PlaceAtPrime
<1>7. PlacesRest({k, m})
  <2>1. PipesRest({k, m})
    BY <1>1, <1>5 DEF PipesRest
  <2>2. SeatsRest({k, m})
    BY <1>2, MoreMoves
  <2>3. HandsRest({k, m})
    <3>1. \A q \in Players : q # p => pc'[q] = pc[q] /\ mystatus'[q] = mystatus[q]
      BY <1>1, <1>2, <1>4 DEF Procs
    <3>2. InHand(p)' = InHand(p)
      BY <1>1, <1>2 DEF InHand
    <3>3. QED
      BY <1>1, <3>1, <3>2 DEF HandsRest, InHand, InFile, Fresh
  <2>4. QED
    BY <2>1, <2>2, <2>3, NothingMoves
<1>8. Passed(k, m, s, s)
  BY <1>6, <1>7 DEF Passed
<1>9. Token(m, s)
  <2>1. Token(k, s)
    BY <1>6 DEF Whereabouts, Tokens
  <2>2. Bounded(s) /\ Record(s.player, TRUE) /\ ~Won(s.player)
    BY <2>1, TokenIs
  <2>3. Upper(p)
    BY <1>1, Halves
  <2>4. QED
    BY <2>2, <2>3, TokenIs DEF Record
<1>10. QED
  BY <1>2, <1>8, <1>9, PassingKeeps

\* The loser's status goes through the FIFO.
LEMMA HandOverMoves ==
  ASSUME IInv, Whereabouts, NEW p \in Players, HandOver(p)
  PROVE  Calm /\ Whereabouts'
<1> PICK a, s : a = MyAgent(p) /\ s = mystatus[p]
  OBVIOUS
<1>1. /\ pc[p] = "hand_over"
      /\ fifo' = Send(fifo, a, s)
      /\ pc' = [pc EXCEPT ![p] = "exit"]
      /\ UNCHANGED <<status, win, mystatus, down, up, champion, roster, defeats>>
  BY DEF HandOver, Goto, MyAgent
<1>2. /\ p \in Procs /\ p \notin Battles
      /\ pc'[p] = "exit" /\ \A x \in Procs : x # p => pc'[x] = pc[x]
      /\ Calm /\ SeatsRest({})
  <2>1. "exit" \in Gone
    BY DEF Gone
  <2>2. QED
    BY <1>1, <2>1, PlayerAlone
<1>3. /\ a \in Players /\ a \in Procs /\ a # p /\ fifo[a] = <<>>
      /\ fifo \in [Players -> Seq(Statuses)]
  BY <1>1 DEF IInv, Values, AllPlayers, Player, Procs
<1>4. Holds(fifo', a, s) /\ \A q \in Players : q # a => fifo'[q] = fifo[q]
  <2>1. PICK q : q = <<s>>
    OBVIOUS
  <2>2. Append(<<>>, s) = q
    BY <2>1
  <2>3. fifo' = [fifo EXCEPT ![a] = q]
    BY <1>1, <1>3, <2>2 DEF Send
  <2>4. QED
    BY <1>3, <2>1, <2>3 DEF Holds
<1> PICK k, m : k = <<"hand", p>> /\ m = <<"fifo", a>>
  OBVIOUS
<1>5. /\ k \in Places /\ m \in Places /\ m # k
      /\ At(k) = {s} /\ At(m) = {} /\ At(k)' = {} /\ At(m)' = {s}
  <2>1. k \in Places /\ m \in Places /\ m # k
    BY <1>2, <1>3 DEF Places
  <2>2. InHand(p) = {s} /\ InHand(p)' = {}
    BY <1>1, <1>2 DEF InHand
  <2>3. ToSet(fifo[a]) = {} /\ ToSet(fifo'[a]) = {s}
    BY <1>3, <1>4, OneInside, NothingInside
  <2>4. InFifo(a) = {} /\ InFifo(a)' = {s}
    BY <1>3, <2>3 DEF InFifo
  <2>5. QED
    BY <1>2, <1>3, <2>1, <2>2, <2>4, PlaceAt, PlaceAtPrime
<1>6. PlacesRest({k, m})
  <2>1. PipesRest({k, m})
    BY <1>1 DEF PipesRest
  <2>2. SeatsRest({k, m})
    BY <1>2, MoreMoves
  <2>3. HandsRest({k, m})
    <3>1. \A q \in Players : q # p => pc'[q] = pc[q]
      BY <1>2 DEF Procs
    <3>2. InFile(p)' = InFile(p)
      BY <1>1, <1>2 DEF InFile
    <3>3. QED
      BY <1>1, <1>4, <3>1, <3>2 DEF HandsRest, InHand, InFile, Fresh
  <2>4. QED
    BY <2>1, <2>2, <2>3, NothingMoves
<1>7. Passed(k, m, s, s)
  BY <1>5, <1>6 DEF Passed
<1>8. Token(m, s)
  <2>1. Token(k, s)
    BY <1>5 DEF Whereabouts, Tokens
  <2>2. QED
    BY <2>1, TokenIs
<1>9. QED
  BY <1>2, <1>7, <1>8, PassingKeeps

\* The agent takes it out.
LEMMA TakeOverMoves ==
  ASSUME IInv, Whereabouts, NEW p \in Players, ~IsReal(Id[p]), TakeOver(p)
  PROVE  Calm /\ Whereabouts'
<1> PICK s : s = Head(fifo[p])
  OBVIOUS
<1>1. /\ pc[p] = "take_over" /\ fifo[p] # <<>>
      /\ mystatus' = [mystatus EXCEPT ![p] = s]
      /\ up' = Send(up, p, s)
      /\ pc' = [pc EXCEPT ![p] = "fight"]
      /\ fifo' = Receive(fifo, p)
      /\ UNCHANGED <<status, win, down, fifos, champion, roster, defeats>>
  BY DEF TakeOver, Begin, Goto
<1>2. /\ p \in Procs /\ p \notin Battles
      /\ pc'[p] = "fight" /\ \A x \in Procs : x # p => pc'[x] = pc[x]
      /\ Calm /\ SeatsRest({})
  <2>1. "fight" \in PlayerLabels
    BY DEF PlayerLabels
  <2>2. QED
    BY <1>1, <2>1, PlayerAlone
<1>3. /\ fifo \in [Players -> Seq(Statuses)] /\ mystatus \in [Players -> Statuses]
      /\ up \in [Procs -> Seq(Statuses)] /\ Player(p)
  BY DEF IInv, Values, AllPlayers
<1>4. s \in Statuses /\ Holds(fifo, p, s) /\ Tail(fifo[p]) = <<>>
  <2>1. PICK t \in Statuses : fifo[p] = <<t>>
    BY <1>1, <1>3 DEF Player
  <2>2. t = s /\ Tail(fifo[p]) = <<>>
    BY <2>1, OneStatus
  <2>3. QED
    BY <2>1, <2>2 DEF Holds
<1>5. fifo'[p] = <<>> /\ \A q \in Players : q # p => fifo'[q] = fifo[q]
  <2>1. fifo' = [fifo EXCEPT ![p] = <<>>]
    BY <1>1, <1>4 DEF Receive
  <2>2. QED
    BY <1>3, <2>1
<1>6. up[p] = <<>>
  BY <1>1, <1>2, OneOnItsWay DEF Quiet, Answers, IsTold, Listens
<1>7. Holds(up', p, s) /\ \A x \in Procs : x # p => up'[x] = up[x]
  BY <1>1, <1>2, <1>3, <1>4, <1>6, OneIsWritten
<1> PICK k, m : k = <<"fifo", p>> /\ m = <<"up", p>>
  OBVIOUS
<1>8. /\ k \in Places /\ m \in Places /\ m # k
      /\ At(k) = {s} /\ At(m) = {} /\ At(k)' = {} /\ At(m)' = {s}
  <2>1. k \in Places /\ m \in Places /\ m # k
    BY <1>2 DEF Places
  <2>2. ToSet(fifo[p]) = {s} /\ ToSet(fifo'[p]) = {}
    BY <1>4, <1>5, OneInside, NothingInside
  <2>3. InFifo(p) = {s} /\ InFifo(p)' = {}
    BY <2>2 DEF InFifo
  <2>4. ToSet(up[p]) = {} /\ ToSet(up'[p]) = {s}
    BY <1>6, <1>7, OneInside, NothingInside
  <2>5. QED
    BY <1>2, <2>1, <2>3, <2>4, PlaceAt, PlaceAtPrime
<1>9. PlacesRest({k, m})
  <2>1. PipesRest({k, m})
    BY <1>1, <1>7 DEF PipesRest
  <2>2. SeatsRest({k, m})
    BY <1>2, MoreMoves
  <2>3. HandsRest({k, m})
    <3>1. \A q \in Players : q # p => pc'[q] = pc[q] /\ mystatus'[q] = mystatus[q]
      BY <1>1, <1>2, <1>3 DEF Procs
    <3>2. InHand(p)' = InHand(p) /\ InFile(p)' = InFile(p)
      BY <1>1, <1>2 DEF InHand, InFile
    <3>3. QED
      BY <1>1, <1>5, <3>1, <3>2 DEF HandsRest, InHand, InFile, Fresh
  <2>4. QED
    BY <2>1, <2>2, <2>3, NothingMoves
<1>10. Passed(k, m, s, s)
  BY <1>8, <1>9 DEF Passed
<1>11. Token(m, s)
  <2>1. Token(k, s)
    BY <1>8 DEF Whereabouts, Tokens
  <2>2. Bounded(s) /\ Record(s.player, FALSE) /\ ~Won(s.player)
    BY <2>1, TokenIs
  <2>3. ~Upper(p)
    BY Halves
  <2>4. QED
    BY <2>2, <2>3, TokenIs DEF Record
<1>12. QED
  BY <1>2, <1>10, <1>11, PassingKeeps

\* A player reads s, which leaves its pipe.
LEMMA HearsIs ==
  ASSUME IInv, NEW p \in Players, NEW s \in ToSet(down[p]), NEW mine, Told(p, s, mine)
  PROVE  /\ s \in Statuses /\ s.player \in Numbers /\ (s.HP <= 0 => s.ended = 1)
         /\ origin_HP[p] \in Int /\ origin_HP[p] > 0
         /\ p \in Procs /\ pc[p] = "fight" /\ up[p] = <<>> /\ up \in [Procs -> Seq(Statuses)]
         /\ mystatus'[p] = mine /\ \A q \in Players : q # p => mystatus'[q] = mystatus[q]
         /\ \A x \in Procs : x # p => down'[x] = down[x]
         /\ <<"down", p>> \in Places /\ At(<<"down", p>>) = {s} /\ At(<<"down", p>>)' = {}
         /\ UNCHANGED <<status, win, fifo, champion, roster, defeats>>
<1>1. /\ s \in Statuses /\ Proper(s) /\ IsTold(p, s) /\ up[p] = <<>>
      /\ origin_HP[p] \in Int /\ origin_HP[p] > 0
  BY ToldKnows
<1>2. /\ pc[p] = "fight" /\ down' = Receive(down, p)
      /\ mystatus' = [mystatus EXCEPT ![p] = mine]
      /\ UNCHANGED <<status, win, fifo, champion, roster, defeats>>
  BY DEF Told
<1>3. /\ p \in Procs /\ up \in [Procs -> Seq(Statuses)] /\ down \in [Procs -> Seq(Statuses)]
      /\ mystatus \in [Players -> Statuses]
  BY DEF IInv, Values, Procs
<1>4. Holds(down, p, s)
  BY <1>1 DEF IsTold, Holds
<1>5. down'[p] = <<>> /\ \A x \in Procs : x # p => down'[x] = down[x]
  BY <1>1, <1>2, <1>3, <1>4, OneIsRead
<1>6. mystatus'[p] = mine /\ \A q \in Players : q # p => mystatus'[q] = mystatus[q]
  BY <1>2, <1>3
<1>7. ToSet(down[p]) = {s}
  BY <1>4, OneInside
<1>8. ToSet(down'[p]) = {}
  BY <1>5, NothingInside
<1>9. At(<<"down", p>>) = {s} /\ At(<<"down", p>>)' = {} /\ <<"down", p>> \in Places
  BY <1>3, <1>7, <1>8, PlaceAt, PlaceAtPrime DEF Places
<1>10. QED
  BY <1>1, <1>2, <1>3, <1>5, <1>6, <1>9 DEF Proper

\* It is the player's own, and its HP stay below those of the roster.
LEMMA OwnStatus ==
  ASSUME IInv, Carriers, Origins, NEW p \in Players, NEW s \in ToSet(down[p]), NEW mine, Told(p, s, mine)
  PROVE  s.player = mystatus[p].player /\ origin_HP[p] <= roster[s.player].HP
<1>1. pc[p] = "fight" /\ down[p] # <<>> /\ s = Head(down[p]) /\ p \in Procs
  BY DEF Told, Procs
<1>2. PICK b \in Battles, i \in 1 .. 2 : p = Children[b][i] /\ s = status[b][i] /\ Serves(b, i)
  BY <1>1, DownIsRead DEF Listens
<1>3. Agrees(b, i) /\ p \notin Battles
  BY Tree DEF Carriers
<1>4. s.player = mystatus[p].player
  BY <1>1, <1>2, <1>3 DEF Agrees, Listens, Carries
<1>5. QED
  BY <1>1, <1>4 DEF Origins

\* A player that fights on sends its status up.
LEMMA AnswerMoves ==
  ASSUME IInv, Whereabouts, NEW p \in Players, NEW s \in ToSet(down[p]), NEW mine \in Statuses, Told(p, s, mine),
         mine.player = s.player, mine.HP <= roster[s.player].HP, s.HP > 0, ~(s.battle = "A" /\ s.ended = 1),
         up' = Send(up, p, mine), pc' = pc
  PROVE  Calm /\ Whereabouts'
<1> PICK k, m : k = <<"down", p>> /\ m = <<"up", p>>
  OBVIOUS
<1>1. /\ s \in Statuses /\ s.player \in Numbers
      /\ p \in Procs /\ pc[p] = "fight" /\ up[p] = <<>> /\ up \in [Procs -> Seq(Statuses)]
      /\ \A x \in Procs : x # p => down'[x] = down[x]
      /\ \A q \in Players : q # p => mystatus'[q] = mystatus[q]
      /\ k \in Places /\ At(k) = {s} /\ At(k)' = {}
      /\ UNCHANGED <<status, win, fifo, champion, roster, defeats>>
  BY HearsIs
<1>2. Calm /\ SeatsRest({})
  <2>1. pc \in [Procs -> BattleLabels \union PlayerLabels \union Gone \union {"unborn"}]
    BY DEF IInv, Values
  <2>2. QED
    BY <1>1, <2>1, PlayersAreCalm
<1>3. Holds(up', p, mine) /\ \A x \in Procs : x # p => up'[x] = up[x]
  BY <1>1, OneIsWritten
<1>4. m \in Places /\ m # k /\ At(m) = {} /\ At(m)' = {mine}
  <2>1. ToSet(up[p]) = {}
    BY <1>1, NothingInside
  <2>2. ToSet(up'[p]) = {mine}
    BY <1>3, OneInside
  <2>3. QED
    BY <1>1, <2>1, <2>2, PlaceAt, PlaceAtPrime DEF Places
<1>5. PlacesRest({k, m})
  <2>1. PipesRest({k, m})
    BY <1>1, <1>3 DEF PipesRest
  <2>2. SeatsRest({k, m})
    BY <1>2, MoreMoves
  <2>3. HandsRest({k, m})
    <3>1. InHand(p)' = InHand(p)
      BY <1>1 DEF InHand
    <3>2. QED
      BY <1>1, <3>1 DEF HandsRest, InHand, InFile, Fresh
  <2>4. QED
    BY <2>1, <2>2, <2>3, NothingMoves
<1>6. Passed(k, m, s, mine)
  BY <1>1, <1>4, <1>5 DEF Passed
<1>7. Token(m, mine)
  <2>1. Token(k, s)
    BY <1>1 DEF Whereabouts, Tokens
  <2>2. Bounded(s) /\ Outcomes(p, s) /\ (Won(s.player) => s.battle = "A" /\ s.ended = 1)
    BY <2>1, TokenIs
  <2>3. Bounded(mine) /\ Record(mine.player, Upper(p)) /\ ~Won(mine.player)
    BY <1>1, <2>2 DEF Bounded, Outcomes
  <2>4. QED
    BY <2>3, TokenIs
<1>8. QED
  BY <1>2, <1>6, <1>7, PassingKeeps

\* Resting does not make anybody stronger than in the beginning.
LEMMA RestIsBounded ==
  ASSUME NEW s \in Statuses, NEW origin \in Int, NEW h \in Int, s.HP <= h, origin <= h
  PROVE  Recovered(s, origin).HP <= h /\ Recovered(s, origin).player = s.player
<1>1. s \in [player : Numbers \union {-1}, HP : Int, battle : Battles \union {"none"}, ended : {0, 1}]
  BY DEF Statuses
<1>2. PICK g : g = (origin - s.HP) \div 2 + s.HP
  OBVIOUS
<1>3. g <= h
  <2>1. PICK m \in Int : m = s.HP
    BY <1>1
  <2>2. g = (origin - m) \div 2 + m /\ m <= h
    BY <1>2, <2>1
  <2>3. QED
    BY <2>2
<1>4. Recovered(s, origin) = [s EXCEPT !.HP = g, !.ended = 0]
  BY <1>2 DEF Recovered
<1>5. QED
  BY <1>1, <1>3, <1>4

LEMMA RosterType ==
  ASSUME IInv, NEW n \in Numbers
  PROVE  roster[n].HP \in Nat \ {0} /\ roster[n].ATK \in Nat \ {0}
<1>1. roster \in Rosters
  BY DEF IInv, Values
<1>2. QED
  BY <1>1, TournamentAssumption DEF Numbers

LEMMA FightOnMoves ==
  ASSUME IInv, Whereabouts, NEW p \in Players, NEW s \in ToSet(down[p]), FightOn(p, s)
  PROVE  Calm /\ Whereabouts'
<1>1. Told(p, s, s) /\ s.ended = 0 /\ up' = Send(up, p, s) /\ pc' = pc
  BY DEF FightOn
<1>2. s \in Statuses /\ (s.HP <= 0 => s.ended = 1) /\ <<"down", p>> \in Places /\ At(<<"down", p>>) = {s}
  BY <1>1, HearsIs
<1>3. s.HP > 0
  <2>1. s.HP \in Int
    BY <1>2 DEF Statuses
  <2>2. QED
    BY <1>1, <1>2, <2>1
<1>4. Token(<<"down", p>>, s)
  BY <1>2 DEF Whereabouts, Tokens
<1>5. s.HP <= roster[s.player].HP
  BY <1>4 DEF Token, Bounded
<1>6. QED
  BY <1>1, <1>2, <1>3, <1>5, AnswerMoves

LEMMA AdvanceMoves ==
  ASSUME IInv, Whereabouts, Carriers, Origins, NEW p \in Players, NEW s \in ToSet(down[p]), Advance(p, s)
  PROVE  Calm /\ Whereabouts'
<1> PICK mine : mine = Recovered(s, origin_HP[p])
  OBVIOUS
<1>1. /\ Told(p, s, mine) /\ pc' = pc
      /\ s.ended = 1 /\ s.HP > 0 /\ s.battle # "A"
      /\ up' = Send(up, p, mystatus'[p])
  BY DEF Advance
<1>2. /\ s \in Statuses /\ s.player \in Numbers /\ origin_HP[p] \in Int /\ origin_HP[p] > 0
      /\ mystatus'[p] = mine /\ <<"down", p>> \in Places /\ At(<<"down", p>>) = {s}
  BY <1>1, HearsIs
<1>3. Token(<<"down", p>>, s)
  BY <1>2 DEF Whereabouts, Tokens
<1>4. s.HP <= roster[s.player].HP /\ origin_HP[p] <= roster[s.player].HP /\ roster[s.player].HP \in Int
  BY <1>1, <1>2, <1>3, OwnStatus, RosterType DEF Token, Bounded
<1>5. mine.HP <= roster[s.player].HP /\ mine.player = s.player
  BY <1>2, <1>4, RestIsBounded
<1>6. mine \in Statuses
  BY <1>1, <1>2, RecoveredIs DEF Fit
<1>7. QED
  BY <1>1, <1>2, <1>5, <1>6, AnswerMoves

\* A loser looks for its agent.
LEMMA LoseMoves ==
  ASSUME IInv, Whereabouts, Carriers, Origins, NEW p \in Players, NEW s \in ToSet(down[p]), Lose(p, s)
  PROVE  Calm /\ Whereabouts'
<1> PICK mine : mine = Restored(s, origin_HP[p])
  OBVIOUS
<1>1. /\ Told(p, s, mine)
      /\ s.ended = 1 /\ s.HP <= 0 /\ s.battle # "A" /\ IsReal(Id[p])
      /\ up' = up /\ pc' = [pc EXCEPT ![p] = "open_write"]
  BY DEF Lose, LoseAfter, Goto
<1> PICK k, m : k = <<"down", p>> /\ m = <<"hand", p>>
  OBVIOUS
<1>2. /\ s \in Statuses /\ s.player \in Numbers /\ origin_HP[p] \in Int /\ origin_HP[p] > 0
      /\ p \in Procs /\ pc[p] = "fight"
      /\ mystatus'[p] = mine /\ \A q \in Players : q # p => mystatus'[q] = mystatus[q]
      /\ \A x \in Procs : x # p => down'[x] = down[x]
      /\ k \in Places /\ At(k) = {s} /\ At(k)' = {}
      /\ UNCHANGED <<status, win, fifo, champion, roster, defeats>>
  BY <1>1, HearsIs
<1>3. /\ pc'[p] = "open_write" /\ \A x \in Procs : x # p => pc'[x] = pc[x]
      /\ Calm /\ SeatsRest({})
  <2>1. "open_write" \in PlayerLabels
    BY DEF PlayerLabels
  <2>2. QED
    BY <1>1, <1>2, <2>1, PlayerAlone
<1>4. mine.player = s.player /\ mine.HP = origin_HP[p]
  <2>1. s \in [player : Numbers \union {-1}, HP : Int, battle : Battles \union {"none"}, ended : {0, 1}]
    BY <1>2 DEF Statuses
  <2>2. QED
    BY <2>1 DEF Restored
<1>5. m \in Places /\ m # k /\ At(m) = {} /\ At(m)' = {mine}
  <2>1. InHand(p) = {} /\ InHand(p)' = {mine}
    BY <1>2, <1>3 DEF InHand
  <2>2. QED
    BY <1>2, <2>1, PlaceAt, PlaceAtPrime DEF Places
<1>6. PlacesRest({k, m})
  <2>1. PipesRest({k, m})
    BY <1>1, <1>2 DEF PipesRest
  <2>2. SeatsRest({k, m})
    BY <1>3, MoreMoves
  <2>3. HandsRest({k, m})
    <3>1. \A q \in Players : q # p => pc'[q] = pc[q]
      BY <1>3 DEF Procs
    <3>2. InFile(p)' = InFile(p)
      BY <1>2, <1>3 DEF InFile
    <3>3. QED
      BY <1>2, <3>1, <3>2 DEF HandsRest, InHand, InFile, Fresh
  <2>4. QED
    BY <2>1, <2>2, <2>3, NothingMoves
<1>7. Passed(k, m, s, mine)
  BY <1>2, <1>4, <1>5, <1>6 DEF Passed
<1>8. Token(m, mine)
  <2>1. Token(k, s)
    BY <1>2 DEF Whereabouts, Tokens
  <2>2. Bounded(s) /\ Outcomes(p, s) /\ (Won(s.player) => s.battle = "A" /\ s.ended = 1)
    BY <2>1, TokenIs
  <2>3. Upper(p)
    BY <1>1, Halves
  <2>4. ~(s.HP > 0)
    <3>1. s.HP \in Int
      BY <1>2 DEF Statuses
    <3>2. QED
      BY <1>1, <3>1
  <2>5. defeats[s.player] = <<s.battle>> /\ s.battle \in DOMAIN Agent
    BY <1>1, <2>2, <2>3, <2>4 DEF Outcomes, LostLast
  <2>6. Record(mine.player, FALSE)
    BY <1>4, <2>5 DEF Record
  <2>7. Bounded(mine)
    BY <1>1, <1>2, <1>4, OwnStatus DEF Bounded
  <2>8. QED
    BY <1>1, <1>4, <2>2, <2>6, <2>7, TokenIs
<1>9. QED
  BY <1>3, <1>7, <1>8, PassingKeeps

\* One status goes for good.
LEMMA LeavingKeeps ==
  ASSUME Whereabouts, Calm, NEW k \in Places, NEW s, At(k) = {s}, At(k)' = {}, PlacesRest({k}), Out(s.player)
  PROVE  Whereabouts'
<1>1. \A m \in Places : \A t \in At(m)' : m # k /\ t \in At(m)
  BY DEF PlacesRest
<1>2. OnePlace'
  BY <1>1 DEF Whereabouts, OnePlace
<1>3. Tokens'
  <2> SUFFICES ASSUME NEW m \in Places, NEW t \in At(m)' PROVE Token(m, t)'
    BY DEF Tokens
  <2>1. Token(m, t)
    BY <1>1 DEF Whereabouts, Tokens
  <2>2. QED
    BY <2>1, CalmLeavesAll, OthersUnaffected DEF Calm
<1>4. Everybody'
  <2> SUFFICES ASSUME NEW n \in Numbers PROVE Present(n)' \/ Out(n)'
    BY DEF Calm, Everybody, Numbers
  <2>1. Out(n) => Out(n)'
    BY CalmLeavesAll DEF Unaffected, Out
  <2>2. CASE Present(n) /\ ~Out(n)
    <3>1. PICK m \in Places : \E t \in At(m) : t.player = n
      BY <2>2 DEF Present
    <3>2. m # k
      BY <2>2, <3>1
    <3>3. \E t \in At(m)' : t.player = n
      BY <3>1, <3>2 DEF PlacesRest
    <3>4. QED
      BY <3>3 DEF Present
  <2>3. QED
    BY <2>1, <2>2 DEF Whereabouts, Everybody
<1>5. QED
  BY <1>2, <1>3, <1>4 DEF Whereabouts

LEMMA LeaveMoves ==
  ASSUME IInv, Whereabouts, Champion, NEW p \in Players, NEW s \in ToSet(down[p]), Leave(p, s)
  PROVE  Calm /\ Whereabouts'
<1>1. /\ Told(p, s, s)
      /\ s.ended = 1 /\ IsOut(p, s)
      /\ up' = up /\ pc' = [pc EXCEPT ![p] = "exit"]
  BY DEF Leave, Goto
<1> PICK k : k = <<"down", p>>
  OBVIOUS
<1>2. /\ s \in Statuses /\ s.player \in Numbers
      /\ p \in Procs /\ pc[p] = "fight"
      /\ \A q \in Players : q # p => mystatus'[q] = mystatus[q]
      /\ \A x \in Procs : x # p => down'[x] = down[x]
      /\ k \in Places /\ At(k) = {s} /\ At(k)' = {}
      /\ UNCHANGED <<status, win, fifo, champion, roster, defeats>>
  BY <1>1, HearsIs
<1>3. /\ pc'[p] = "exit" /\ \A x \in Procs : x # p => pc'[x] = pc[x]
      /\ Calm /\ SeatsRest({})
  <2>1. "exit" \in Gone
    BY DEF Gone
  <2>2. QED
    BY <1>1, <1>2, <2>1, PlayerAlone
<1>4. PlacesRest({k})
  <2>1. PipesRest({k})
    BY <1>1, <1>2 DEF PipesRest
  <2>2. SeatsRest({k})
    BY <1>3, MoreMoves
  <2>3. HandsRest({k})
    <3>1. \A q \in Players : q # p => pc'[q] = pc[q]
      BY <1>3 DEF Procs
    <3>2. InFile(p)' = InFile(p) /\ InHand(p)' = InHand(p)
      BY <1>2, <1>3 DEF InFile, InHand
    <3>3. QED
      BY <1>2, <3>1, <3>2 DEF HandsRest, InHand, InFile, Fresh
  <2>4. QED
    BY <2>1, <2>2, <2>3, NothingMoves
<1>5. Out(s.player)
  <2>1. Outcomes(p, s)
    <3>1. Token(k, s)
      BY <1>2 DEF Whereabouts, Tokens
    <3>2. QED
      BY <3>1, TokenIs
  <2>2. CASE s.HP > 0
    <3>1. s.battle = "A"
      <4>1. s.HP \in Int
        BY <1>2 DEF Statuses
      <4>2. QED
        BY <1>1, <2>2, <4>1 DEF IsOut
    <3>2. QED
      BY <1>1, <2>1, <2>2, <3>1 DEF Outcomes, Out
  <2>3. CASE ~(s.HP > 0)
    <3>1. LostLast(s.player, Upper(p), s.battle) /\ (s.battle = "A" \/ (s.battle \in DOMAIN Agent <=> Upper(p)))
      BY <2>1, <2>3 DEF Outcomes
    <3>2. CASE Upper(p)
      <4>1. s.battle = "A"
        BY <1>1, <3>2, Halves DEF IsOut
      <4>2. QED
        BY <3>1, <3>2, <4>1 DEF LostLast, Out
    <3>3. CASE ~Upper(p)
      <4>1. s.battle \notin DOMAIN Agent
        BY <3>1, <3>3, Halves
      <4>2. PICK a \in DOMAIN Agent : defeats[s.player] = <<a, s.battle>>
        BY <3>1, <3>3 DEF LostLast
      <4>3. s.battle \in Battles
        <5>1. defeats[s.player] \in Seq(Battles)
          BY <1>2 DEF Champion
        <5>2. QED
          BY <4>2, <5>1
      <4>4. QED
        BY <4>1, <4>2, <4>3 DEF Out
    <3>4. QED
      BY <3>2, <3>3
  <2>4. QED
    BY <2>2, <2>3
<1>6. QED
  BY <1>2, <1>3, <1>4, <1>5, LeavingKeeps

-----------------------------------------------------------------------------
(***************************************************************************)
(* A round moves two statuses, and may end with a defeat.                  *)
(***************************************************************************)

\* Nobody gains by a round.
Tires(p, q) == \A i \in 1 .. 2 : q[i].player = p[i].player /\ q[i].HP <= p[i].HP

LEMMA StrikeTires ==
  ASSUME NEW m \in Nat, NEW p \in [1 .. 2 -> Statuses], NEW k \in 1 .. 2, NEW q, Strikes(p, k, m, q)
  PROVE  Tires(p, q) /\ q \in [1 .. 2 -> Statuses]
<1>1. q = [p EXCEPT ![k] = [p[k] EXCEPT !.HP = p[k].HP - m]]
  BY Zenon DEF Strikes
<1>2. PICK t : t = [p[k] EXCEPT !.HP = p[k].HP - m]
  OBVIOUS
<1>3. \A i \in 1 .. 2 : p[i] \in [player : Numbers \union {-1}, HP : Int, battle : Battles \union {"none"}, ended : {0, 1}]
  BY DEF Statuses
<1>4. t.HP <= p[k].HP /\ t.player = p[k].player
  BY <1>2, <1>3
<1>5. q = [p EXCEPT ![k] = t]
  BY <1>1, <1>2
<1>6. \A i \in 1 .. 2 : q[i] = IF i = k THEN t ELSE p[i]
  BY <1>5
<1>7. \A i \in 1 .. 2 : p[i].HP <= p[i].HP
  BY <1>3
<1>8. Tires(p, q)
  BY <1>4, <1>6, <1>7 DEF Tires
<1>9. q \in [1 .. 2 -> Statuses]
  BY StrikeIs DEF OnlyHurt
<1>10. QED
  BY <1>8, <1>9

LEMMA PlayTires ==
  ASSUME roster \in Rosters, NEW b, NEW pair \in [1 .. 2 -> Statuses], \A i \in 1 .. 2 : pair[i].player \in Numbers
  PROVE  Tires(pair, play(b, pair))
<1> DEFINE first == IF \/ pair[1].HP < pair[2].HP
                       \/ pair[1].HP = pair[2].HP /\ pair[1].player < pair[2].player
                    THEN 1 ELSE 2
           second == 3 - first
           strike == [pair EXCEPT ![second].HP = @ - Power(b, pair[first])]
           back == [strike EXCEPT ![first].HP = @ - Power(b, pair[second])]
<1>1. first \in 1 .. 2 /\ second \in 1 .. 2
  OBVIOUS
<1>2. play(b, pair) = IF strike[second].HP <= 0 THEN Ended(strike)
                      ELSE IF back[first].HP <= 0 THEN Ended(back) ELSE back
  BY DEF play
<1> HIDE DEF first, second
<1>3. Power(b, pair[first]) \in Nat /\ Power(b, pair[second]) \in Nat
  <2>1. ASSUME NEW s, s.player \in Numbers PROVE Power(b, s) \in Nat
    <3>1. roster[s.player].ATK \in Nat
      BY <2>1, TournamentAssumption DEF Numbers
    <3>2. QED
      BY <3>1 DEF Power
  <2>2. QED
    BY <1>1, <2>1
<1>4. Tires(pair, strike) /\ strike \in [1 .. 2 -> Statuses]
  <2>1. Strikes(pair, second, Power(b, pair[first]), strike)
    BY Zenon DEF Strikes
  <2> HIDE DEF strike
  <2>2. QED
    BY <1>1, <1>3, <2>1, StrikeTires
<1>5. Tires(strike, back) /\ back \in [1 .. 2 -> Statuses]
  <2> HIDE DEF strike
  <2>1. Strikes(strike, first, Power(b, pair[second]), back)
    BY Zenon DEF Strikes
  <2> HIDE DEF back
  <2>2. QED
    BY <1>1, <1>3, <1>4, <2>1, StrikeTires
<1>6. ASSUME NEW p \in [1 .. 2 -> Statuses] PROVE Tires(p, Ended(p)) /\ Ended(p) \in [1 .. 2 -> Statuses]
  <2>1. \A k \in 1 .. 2 : p[k] \in [player : Numbers \union {-1}, HP : Int, battle : Battles \union {"none"}, ended : {0, 1}]
    BY DEF Statuses
  <2>2. \A k \in 1 .. 2 : Ended(p)[k] = [p[k] EXCEPT !.ended = 1]
    BY DEF Ended
  <2>3. \A k \in 1 .. 2 : Ended(p)[k].HP = p[k].HP /\ Ended(p)[k].player = p[k].player /\ p[k].HP \in Int
    BY <2>1, <2>2
  <2>4. \A k \in 1 .. 2 : [p[k] EXCEPT !.ended = 1] \in Statuses
    BY <2>1 DEF Statuses
  <2>5. QED
    BY <2>3, <2>4 DEF Tires, Ended
<1>7. ASSUME NEW p \in [1 .. 2 -> Statuses], NEW q \in [1 .. 2 -> Statuses], NEW r \in [1 .. 2 -> Statuses],
             Tires(p, q), Tires(q, r)
      PROVE  Tires(p, r)
  <2>1. \A i \in 1 .. 2 : p[i].HP \in Int /\ q[i].HP \in Int /\ r[i].HP \in Int
    BY DEF Statuses
  <2>2. QED
    BY <1>7, <2>1 DEF Tires
<1> HIDE DEF strike, back
<1>8. Tires(pair, Ended(strike))
  BY <1>4, <1>6, <1>7
<1>9. Tires(pair, back)
  BY <1>4, <1>5, <1>7
<1>10. Tires(pair, Ended(back))
  BY <1>5, <1>6, <1>7, <1>9
<1>11. QED
  BY <1>2, <1>8, <1>9, <1>10

\* A round of b that ends with pair; w is the winner's place, or 0.
Fought(b, pair, w) ==
  /\ \A i \in 1 .. 2 : /\ pair[i] \in Statuses /\ pair[i].battle = b /\ pair[i].player \in Numbers
                       /\ pair[i].player = status[b][i].player
                       /\ Bounded(pair[i]) /\ Record(pair[i].player, Upper(Children[b][i])) /\ ~Won(pair[i].player)
  /\ pair[1].player # pair[2].player
  /\ pc[b] = "play" /\ \A x \in Procs : x # b => pc'[x] = pc[x]
  /\ \A d \in Battles : d # b => status'[d] = status[d] /\ win'[d] = win[d]
  /\ status'[b] = pair
  /\ \/ /\ w = 0 /\ pc'[b] = "read_1" /\ defeats' = defeats
        /\ \A i \in 1 .. 2 : pair[i].ended = 0 /\ pair[i].HP > 0
     \/ /\ w \in 1 .. 2 /\ pc'[b] = "wait" /\ win'[b] = w
        /\ defeats' = [defeats EXCEPT ![pair[3 - w].player] = Append(@, b)]
        /\ \A i \in 1 .. 2 : pair[i].ended = 1
        /\ pair[w].HP > 0 /\ ~(pair[3 - w].HP > 0)
  /\ UNCHANGED <<mystatus, origin_HP, up, fifo, champion, roster>>

\* It is sent to both children.
Sent(b, pair) ==
  /\ \A i \in 1 .. 2 : down[Children[b][i]] = <<>> /\ Holds(down', Children[b][i], pair[i])
  /\ \A x \in Procs : (\A i \in 1 .. 2 : x # Children[b][i]) => down'[x] = down[x]

LEMMA PlayKnows ==
  ASSUME IInv, Whereabouts, NEW b \in Battles, Play(b)
  PROVE  \E pair, w : Fought(b, pair, w) /\ Sent(b, pair)
<1> PICK pair, c, d : pair = play(b, status[b]) /\ c = Children[b][1] /\ d = Children[b][2]
  OBVIOUS
<1> DEFINE over == pair[1].ended = 1
           v == IF pair[1].HP > 0 THEN 1 ELSE 2
<1> PICK w : w = IF over THEN v ELSE 0
  OBVIOUS
<1>1. /\ pc[b] = "play"
      /\ status' = [status EXCEPT ![b] = pair]
      /\ down' = Send(Send(down, c, pair[1]), d, pair[2])
      /\ win' = [win EXCEPT ![b] = w]
      /\ defeats' = IF over THEN [defeats EXCEPT ![pair[3 - v].player] = Append(@, b)] ELSE defeats
      /\ pc' = [pc EXCEPT ![b] = IF over THEN "wait" ELSE "read_1"]
      /\ UNCHANGED <<mystatus, origin_HP, up, fifo, champion, roster>>
  BY DEF Play, Goto
<1>2. /\ b \in Procs /\ c \in Procs /\ d \in Procs /\ c # d
      /\ Links /\ roster \in Rosters
      /\ pc \in [Procs -> BattleLabels \union PlayerLabels \union Gone \union {"unborn"}]
      /\ status \in [Battles -> [1 .. 2 -> Statuses]]
      /\ win \in [Battles -> 0 .. 2]
      /\ down \in [Procs -> Seq(Statuses)]
  BY Tree DEF IInv, Values, Procs
<1>3. \A i \in 1 .. 2 : Held(b, i) /\ Waits(Children[b][i]) /\ Fit(status[b][i]) /\ status[b][i].battle = b
  BY <1>1, <1>2 DEF Links, Link, Free, Held
<1>4. status[b] \in [1 .. 2 -> Statuses]
  BY <1>2
<1>5. RoundIs(b, pair) /\ Tires(status[b], pair)
  BY <1>2, <1>3, <1>4, PlayIs, PlayTires DEF Fit
<1>6. \A i \in 1 .. 2 : Token(SeatOf(b, i), status[b][i]) /\ status[b][i] \in At(SeatOf(b, i)) /\ SeatOf(b, i) \in Places
  <2> TAKE i \in 1 .. 2
  <2>1. Seated(b, i) = {status[b][i]}
    BY <1>3 DEF Seated
  <2>2. SeatOf(b, i) \in Places /\ status[b][i] \in At(SeatOf(b, i))
    BY <2>1, SeatIs
  <2>3. QED
    BY <2>2 DEF Whereabouts, Tokens
<1>7. ASSUME NEW i \in 1 .. 2
      PROVE  /\ pair[i] \in Statuses /\ pair[i].battle = b /\ pair[i].player \in Numbers
             /\ pair[i].player = status[b][i].player
             /\ Bounded(pair[i]) /\ Record(pair[i].player, Upper(Children[b][i])) /\ ~Won(pair[i].player)
  <2>1. pair[i] \in Statuses /\ pair[i].battle = b /\ pair[i].player = status[b][i].player /\ pair[i].HP <= status[b][i].HP
    BY <1>5 DEF RoundIs, Tires
  <2>2. /\ Bounded(status[b][i]) /\ Record(status[b][i].player, Upper(Children[b][i])) /\ ~Won(status[b][i].player)
    BY <1>6, SeatIs
  <2>3. pair[i].HP \in Int /\ status[b][i].HP \in Int
    BY <1>4, <2>1 DEF Statuses
  <2>4. roster[pair[i].player].HP \in Int /\ pair[i].player \in Numbers
    BY <2>1, <2>2, RosterType DEF Bounded
  <2>5. Bounded(pair[i])
    BY <2>1, <2>2, <2>3, <2>4 DEF Bounded
  <2>6. QED
    BY <2>1, <2>2, <2>4, <2>5
<1>8. pair[1].player # pair[2].player
  <2>1. SeatOf(b, 1) # SeatOf(b, 2)
    BY DEF SeatOf
  <2>2. status[b][1].player # status[b][2].player
    BY <1>6, <2>1 DEF Whereabouts, OnePlace
  <2>3. QED
    BY <1>7, <2>2
<1>9. /\ \A x \in Procs : x # b => pc'[x] = pc[x]
      /\ \A e \in Battles : e # b => status'[e] = status[e] /\ win'[e] = win[e]
      /\ status'[b] = pair /\ win'[b] = w
  BY <1>1, <1>2
<1>10. \A i \in 1 .. 2 : pair[i].HP \in Int
  BY <1>7 DEF Statuses
<1>11. \/ /\ w = 0 /\ pc'[b] = "read_1" /\ defeats' = defeats
          /\ \A i \in 1 .. 2 : pair[i].ended = 0 /\ pair[i].HP > 0
       \/ /\ w \in 1 .. 2 /\ pc'[b] = "wait" /\ win'[b] = w
          /\ defeats' = [defeats EXCEPT ![pair[3 - w].player] = Append(@, b)]
          /\ \A i \in 1 .. 2 : pair[i].ended = 1
          /\ pair[w].HP > 0 /\ ~(pair[3 - w].HP > 0)
  <2>1. CASE over
    <3>1. PICK u \in 1 .. 2 : pair[u].HP > 0 /\ pair[3 - u].HP <= 0
      BY <1>5, <2>1 DEF RoundIs
    <3>2. u = v
      BY <1>10, <3>1
    <3>3. w = v /\ v \in 1 .. 2
      BY <2>1
    <3>4. pair[w].HP > 0 /\ ~(pair[3 - w].HP > 0)
      <4>1. 3 - w \in 1 .. 2
        BY <3>3
      <4>2. QED
        BY <1>10, <3>1, <3>2, <3>3, <4>1
    <3>5. \A i \in 1 .. 2 : pair[i].ended = 1
      BY <1>5, <2>1 DEF RoundIs
    <3>6. pc'[b] = "wait"
      BY <1>1, <1>2, <2>1
    <3>7. defeats' = [defeats EXCEPT ![pair[3 - w].player] = Append(@, b)]
      BY <1>1, <2>1, <3>3
    <3>8. QED
      BY <1>9, <3>3, <3>4, <3>5, <3>6, <3>7
  <2>2. CASE ~over
    <3>1. \A i \in 1 .. 2 : pair[i].ended = 0 /\ pair[i].HP > 0
      BY <1>5, <2>2 DEF RoundIs
    <3>2. QED
      BY <1>1, <1>2, <2>2, <3>1
  <2>3. QED
    BY <2>1, <2>2
<1>12. Fought(b, pair, w)
  BY <1>1, <1>7, <1>8, <1>9, <1>11 DEF Fought
<1>13. Sent(b, pair)
  <2>1. down[c] = <<>> /\ down[d] = <<>>
    BY <1>3 DEF Waits, Quiet
  <2> PICK mid, s, t : s = pair[1] /\ t = pair[2] /\ mid = Send(down, c, s)
    OBVIOUS
  <2>2. s \in Statuses /\ t \in Statuses /\ c \in Procs /\ d \in Procs /\ c # d /\ down \in [Procs -> Seq(Statuses)]
    BY <1>2, <1>7
  <2>3. /\ Send(down, c, s) \in [Procs -> Seq(Statuses)] /\ Holds(Send(down, c, s), c, s)
        /\ \A x \in Procs : x # c => Send(down, c, s)[x] = down[x]
    BY <2>1, <2>2, OneIsWritten
  <2>4. mid \in [Procs -> Seq(Statuses)] /\ Holds(mid, c, s) /\ mid[d] = <<>>
    BY <2>1, <2>2, <2>3
  <2>5. Holds(Send(mid, d, t), d, t) /\ \A x \in Procs : x # d => Send(mid, d, t)[x] = mid[x]
    BY <2>2, <2>4, OneIsWritten
  <2>6. down' = Send(mid, d, t)
    BY <1>1
  <2>7. Holds(down', c, s) /\ Holds(down', d, t)
    BY <1>2, <2>4, <2>5, <2>6 DEF Holds
  <2>8. \A x \in Procs : x # c /\ x # d => down'[x] = down[x]
    BY <2>3, <2>5, <2>6
  <2>9. \A i \in 1 .. 2 : i = 1 \/ i = 2
    OBVIOUS
  <2>10. \A i \in 1 .. 2 : down[Children[b][i]] = <<>> /\ Holds(down', Children[b][i], pair[i])
    BY <2>1, <2>7, <2>9
  <2>11. QED
    BY <2>8, <2>10 DEF Sent
<1>14. QED
  BY <1>12, <1>13

LEMMA TwoInOrder ==
  ASSUME NEW S, NEW s \in S, NEW t \in S
  PROVE  Append(<<s>>, t) = <<s, t>>
<1>1. ASSUME NEW q \in Seq(S), Len(q) = 1
      PROVE  /\ Append(q, t) \in Seq(S) /\ Len(Append(q, t)) = 2
             /\ Append(q, t)[1] = q[1] /\ Append(q, t)[2] = t
  <2>1. /\ Append(q, t) \in Seq(S) /\ Len(Append(q, t)) = Len(q) + 1
        /\ \A i \in 1 .. Len(q) : Append(q, t)[i] = q[i]
        /\ Append(q, t)[Len(q) + 1] = t
    BY AppendProperties
  <2>2. Len(q) + 1 = 2 /\ 1 \in 1 .. Len(q)
    BY <1>1
  <2>3. QED
    BY <2>1, <2>2
<1>2. <<s>> \in Seq(S) /\ Len(<<s>>) = 1 /\ <<s>>[1] = s
  OBVIOUS
<1>3. ASSUME NEW r \in Seq(S), Len(r) = 2, r[1] = s, r[2] = t
      PROVE  r = <<s, t>>
  BY <1>3
<1>4. QED
  BY <1>1, <1>2, <1>3

\* What a defeat does to the records.
LEMMA DefeatIs ==
  ASSUME defeats \in [Numbers -> Seq(Battles)], NEW b \in Battles, NEW n \in Numbers,
         defeats' = [defeats EXCEPT ![n] = Append(@, b)], UNCHANGED roster
  PROVE  /\ defeats' \in [Numbers -> Seq(Battles)]
         /\ \A m \in Numbers : m # n => defeats'[m] = defeats[m]
         /\ \A u \in BOOLEAN : Record(n, u) => LostLast(n, u, b)'
<1>1. defeats' \in [Numbers -> Seq(Battles)]
  <2>1. Append(defeats[n], b) \in Seq(Battles)
    OBVIOUS
  <2>2. QED
    BY <2>1
<1>2. \A m \in Numbers : m # n => defeats'[m] = defeats[m]
  OBVIOUS
<1>3. defeats'[n] = Append(defeats[n], b)
  OBVIOUS
<1>4. defeats[n] = <<>> => defeats'[n] = <<b>>
  BY <1>3
<1>5. \A a : defeats[n] = <<a>> => defeats'[n] = <<a, b>>
  <2> SUFFICES ASSUME NEW a, defeats[n] = <<a>> PROVE defeats'[n] = <<a, b>>
    OBVIOUS
  <2>1. a \in Battles
    <3>1. <<a>> \in Seq(Battles)
      OBVIOUS
    <3>2. QED
      BY <3>1
  <2>2. Append(<<a>>, b) = <<a, b>>
    BY <2>1, TwoInOrder
  <2>3. QED
    BY <1>3, <2>2
<1>6. \A u \in BOOLEAN : Record(n, u) => LostLast(n, u, b)'
  BY <1>4, <1>5, Zenon DEF Record, LostLast
<1>7. QED
  BY <1>1, <1>2, <1>6

LEMMA FoughtKeepsRecords ==
  ASSUME IInv, Champion, NEW b \in Battles, NEW pair, NEW w, Fought(b, pair, w)
  PROVE  /\ defeats' \in [Numbers -> Seq(Battles)]
         /\ w = 0 => Calm
         /\ \A n \in Numbers : n # pair[1].player /\ n # pair[2].player => Unaffected(n)
         /\ w # 0 => /\ Record(pair[w].player, Upper(Children[b][w]))'
                     /\ LostLast(pair[3 - w].player, Upper(Children[b][3 - w]), b)'
                     /\ Won(pair[w].player)' <=> b = "A"
                     /\ ~Won(pair[3 - w].player)'
                     /\ b # "A" => \A n : Won(n)' <=> Won(n)
<1>1. /\ pair[1].player # pair[2].player
      /\ pc[b] = "play" /\ \A x \in Procs : x # b => pc'[x] = pc[x]
      /\ \A d \in Battles : d # b => status'[d] = status[d] /\ win'[d] = win[d]
      /\ status'[b] = pair
      /\ UNCHANGED <<champion, roster>>
  BY DEF Fought
<1>2. \A i \in 1 .. 2 : /\ pair[i].player \in Numbers
                        /\ Record(pair[i].player, Upper(Children[b][i])) /\ ~Won(pair[i].player)
  BY DEF Fought
<1>3. "A" \in Battles /\ "A" \in Procs
  BY Tree DEF Procs
<1>4. b # "A" => pc'["A"] = pc["A"] /\ UNCHANGED <<status["A"], win["A"]>>
  BY <1>1, <1>3
<1>5. b # "A" => \A n : Won(n)' <=> Won(n)
  BY <1>4 DEF Won, Decided, Winner
<1>6. b = "A" => \A n : ~Won(n)
  BY <1>1 DEF Won, Decided, Gone
<1>7. CASE w = 0
  <2>1. pc'[b] = "read_1" /\ UNCHANGED <<roster, defeats>>
    BY <1>1, <1>7 DEF Fought
  <2>2. ASSUME b = "A" PROVE Calm
    <3>1. pc["A"] = "play" /\ pc'["A"] = "read_1"
      BY <1>1, <2>1, <2>2
    <3>2. QED
      BY <2>1, <3>1 DEF Calm, Decided, Gone
  <2>3. ASSUME b # "A" PROVE Calm
    <3>1. pc'["A"] = pc["A"] /\ UNCHANGED <<status["A"], win["A"]>>
      BY <1>4, <2>3
    <3>2. QED
      BY <2>1, <3>1, AtAWhile
  <2>4. QED
    BY <1>7, <2>1, <2>2, <2>3, CalmLeavesAll DEF Champion
<1>8. CASE w # 0
  <2> PICK W, L : W = pair[w].player /\ L = pair[3 - w].player
    OBVIOUS
  <2>1. /\ w \in 1 .. 2 /\ pc'[b] = "wait" /\ win'[b] = w
        /\ defeats' = [defeats EXCEPT ![L] = Append(@, b)]
    BY <1>8 DEF Fought
  <2>2. W \in Numbers /\ L \in Numbers /\ W # L /\ 3 - w \in 1 .. 2
    BY <1>1, <1>2, <2>1
  <2>3. \A n : (n = pair[1].player \/ n = pair[2].player) <=> (n = W \/ n = L)
    BY <2>1
  <2>5. /\ defeats' \in [Numbers -> Seq(Battles)]
        /\ \A m \in Numbers : m # L => defeats'[m] = defeats[m]
        /\ LostLast(L, Upper(Children[b][3 - w]), b)'
    <3>1. /\ defeats' \in [Numbers -> Seq(Battles)]
          /\ \A m \in Numbers : m # L => defeats'[m] = defeats[m]
          /\ \A u \in BOOLEAN : Record(L, u) => LostLast(L, u, b)'
      <4>1. defeats \in [Numbers -> Seq(Battles)] /\ UNCHANGED roster
        BY <1>1 DEF Champion
      <4>2. QED
        BY <2>1, <2>2, <4>1, DefeatIs
    <3>2. Record(L, Upper(Children[b][3 - w]))
      BY <1>2, <2>2
    <3>3. CASE Upper(Children[b][3 - w])
      <4>1. LostLast(L, TRUE, b)'
        BY <3>1, <3>2, <3>3 DEF Record
      <4>2. QED
        BY <3>1, <3>3, <4>1 DEF LostLast, Upper
    <3>4. CASE ~Upper(Children[b][3 - w])
      <4>1. LostLast(L, FALSE, b)'
        BY <3>1, <3>2, <3>4 DEF Record
      <4>2. QED
        BY <3>1, <3>4, <4>1 DEF LostLast, Upper
    <3>5. QED
      BY <3>3, <3>4
  <2>6. Record(W, Upper(Children[b][w]))'
    <3>1. Record(W, Upper(Children[b][w])) /\ defeats'[W] = defeats[W]
      BY <1>2, <2>1, <2>2, <2>5
    <3>2. QED
      BY <3>1 DEF Record, Upper
  <2>7. b = "A" => \A n : Won(n)' <=> n = W
    BY <1>1, <2>1 DEF Won, Decided, Winner
  <2>8. ASSUME NEW n \in Numbers, n # W, n # L PROVE Unaffected(n)
    <3>1. Won(n)' <=> Won(n)
      BY <1>5, <1>6, <2>7, <2>8
    <3>2. QED
      BY <2>5, <2>8, <3>1 DEF Unaffected
  <2>9. (Won(W)' <=> b = "A") /\ ~Won(L)'
    <3>1. ~Won(W) /\ ~Won(L)
      BY <1>2, <2>1, <2>2
    <3>2. QED
      BY <1>5, <2>2, <2>7, <3>1
  <2>10. QED
    BY <1>5, <1>8, <2>3, <2>5, <2>6, <2>8, <2>9
<1>9. QED
  BY <1>7, <1>8

LEMMA FoughtKeepsTokens ==
  ASSUME IInv, Champion, NEW b \in Battles, NEW pair, NEW w, Fought(b, pair, w), NEW i \in 1 .. 2
  PROVE  Token(<<"down", Children[b][i]>>, pair[i])'
<1>1. /\ pair[i].battle = b /\ pair[i].player \in Numbers
      /\ Bounded(pair[i]) /\ Record(pair[i].player, Upper(Children[b][i])) /\ ~Won(pair[i].player)
      /\ UNCHANGED roster
  BY DEF Fought
<1>2. Bounded(pair[i])'
  BY <1>1 DEF Bounded, Numbers
<1>3. Upper(Children[b][i])' = Upper(Children[b][i])
  BY DEF Upper
<1>4. CASE w = 0
  <2>1. pair[i].ended = 0 /\ pair[i].HP > 0
    BY <1>4 DEF Fought
  <2>2. Calm
    BY <1>4, FoughtKeepsRecords
  <2>3. Outcomes(Children[b][i], pair[i])
    BY <1>1, <2>1 DEF Outcomes
  <2>4. Token(<<"down", Children[b][i]>>, pair[i])
    BY <1>1, <2>3, TokenIs
  <2>5. QED
    BY <1>1, <2>2, <2>4, CalmLeavesAll, OthersUnaffected
<1>5. CASE w # 0
  <2>1. /\ w \in 1 .. 2 /\ pair[i].ended = 1 /\ pair[w].HP > 0 /\ ~(pair[3 - w].HP > 0)
    BY <1>5 DEF Fought
  <2>2. /\ Record(pair[w].player, Upper(Children[b][w]))'
        /\ LostLast(pair[3 - w].player, Upper(Children[b][3 - w]), b)'
        /\ Won(pair[w].player)' <=> b = "A"
        /\ ~Won(pair[3 - w].player)'
    BY <1>5, FoughtKeepsRecords
  <2>3. b = "A" \/ (b \in DOMAIN Agent <=> Upper(Children[b][i]))
    BY Halves
  <2>4. i = w \/ i = 3 - w
    BY <2>1
  <2>5. Outcomes(Children[b][i], pair[i])'
    <3>1. CASE i = w
      BY <1>1, <2>1, <2>2, <3>1 DEF Outcomes
    <3>2. CASE i = 3 - w
      BY <1>1, <1>3, <2>1, <2>2, <2>3, <3>2 DEF Outcomes
    <3>3. QED
      BY <2>4, <3>1, <3>2
  <2>6. Won(pair[i].player)' => pair[i].battle = "A" /\ pair[i].ended = 1
    BY <1>1, <2>1, <2>2, <2>4
  <2>7. <<"down", Children[b][i]>>[1] = "down" /\ <<"down", Children[b][i]>>[2] = Children[b][i]
    OBVIOUS
  <2>8. QED
    BY <1>2, <2>5, <2>6, <2>7, Zenon DEF Token, RightRecord
<1>6. QED
  BY <1>4, <1>5

LEMMA FoughtKeepsChampion ==
  ASSUME IInv, Champion, NEW b \in Battles, NEW pair, NEW w, Fought(b, pair, w)
  PROVE  Champion'
<1>1. /\ pc[b] = "play" /\ \A x \in Procs : x # b => pc'[x] = pc[x]
      /\ \A d \in Battles : d # b => status'[d] = status[d] /\ win'[d] = win[d]
      /\ UNCHANGED <<champion, roster>>
  BY DEF Fought
<1>2. "A" \in Battles /\ "A" \in Procs
  BY Tree DEF Procs
<1>3. CASE w = 0
  BY <1>1, <1>3, FoughtKeepsRecords, CalmKeepsChampion
<1>4. CASE w # 0
  <2>1. /\ defeats' \in [Numbers -> Seq(Battles)] /\ Numbers' = Numbers
        /\ \A n \in Numbers : n # pair[1].player /\ n # pair[2].player => Unaffected(n)
        /\ Record(pair[w].player, Upper(Children[b][w]))'
        /\ ~Won(pair[3 - w].player)'
    BY <1>1, <1>4, FoughtKeepsRecords DEF Numbers
  <2>2. w \in 1 .. 2
    BY <1>4 DEF Fought
  <2>3. ASSUME NEW n \in Numbers, Won(n)' PROVE Record(n, TRUE)' \/ Record(n, FALSE)'
    <3>1. CASE n = pair[1].player \/ n = pair[2].player
      <4>1. n = pair[w].player
        BY <2>1, <2>2, <2>3, <3>1
      <4>2. QED
        BY <2>1, <4>1 DEF Record
    <3>2. CASE ~(n = pair[1].player \/ n = pair[2].player)
      <4>1. Unaffected(n)
        BY <2>1, <3>2
      <4>2. QED
        BY <2>3, <4>1 DEF Unaffected, Champion, Record
    <3>3. QED
      BY <3>1, <3>2
  <2>4. champion' # -1 => pc'["A"] \in Gone /\ champion' = Winner("A")'
    <3>1. champion # -1 => b # "A"
      BY <1>1 DEF Champion, Gone
    <3>2. QED
      BY <1>1, <1>2, <3>1 DEF Champion, Winner
  <2>5. QED
    BY <2>1, <2>3, <2>4 DEF Champion
<1>5. QED
  BY <1>3, <1>4

LEMMA PlayMoves ==
  ASSUME IInv, Whereabouts, Champion, NEW b \in Battles, Play(b)
  PROVE  Whereabouts' /\ Champion'
<1>1. PICK pair, w : Fought(b, pair, w) /\ Sent(b, pair)
  BY PlayKnows
<1> PICK c, d, f, g : /\ c = Children[b][1] /\ d = Children[b][2]
                      /\ f = SeatOf(b, 1) /\ g = SeatOf(b, 2)
  OBVIOUS
<1> PICK K, to, old, new :
       /\ K = {f, g}
       /\ to = [x \in K |-> IF x = f THEN <<"down", c>> ELSE <<"down", d>>]
       /\ old = [x \in K |-> IF x = f THEN status[b][1] ELSE status[b][2]]
       /\ new = [x \in K |-> IF x = f THEN pair[1] ELSE pair[2]]
  OBVIOUS
<1>2. /\ c \in Procs /\ d \in Procs /\ c # d /\ b \in Procs /\ f # g /\ f \in Places /\ g \in Places
      /\ <<"down", c>> \in Places /\ <<"down", d>> \in Places
      /\ <<"down", c>> # <<"down", d>>
      /\ \A x \in Procs : <<"down", x>> # f /\ <<"down", x>> # g
  BY Tree, SeatIs DEF Procs, SeatOf, Places
<1>3. /\ to[f] = <<"down", c>> /\ to[g] = <<"down", d>>
      /\ old[f] = status[b][1] /\ old[g] = status[b][2]
      /\ new[f] = pair[1] /\ new[g] = pair[2]
      /\ to \in [K -> Places]
  BY <1>2
<1>4. /\ pc[b] = "play" /\ pc'[b] \in {"read_1", "wait"} /\ \A x \in Procs : x # b => pc'[x] = pc[x]
      /\ \A e \in Battles : e # b => status'[e] = status[e]
      /\ pair[1].player = status[b][1].player /\ pair[2].player = status[b][2].player
      /\ UNCHANGED <<mystatus, up, fifo, roster>>
  BY <1>1 DEF Fought
<1>5. /\ down[c] = <<>> /\ Holds(down', c, pair[1])
      /\ down[d] = <<>> /\ Holds(down', d, pair[2])
      /\ \A x \in Procs : x # c /\ x # d => down'[x] = down[x]
  BY <1>1 DEF Sent
<1>6. /\ At(f) = {status[b][1]} /\ At(f)' = {} /\ At(g) = {status[b][2]} /\ At(g)' = {}
  <2>1. \A i \in 1 .. 2 : Seated(b, i) = {status[b][i]} /\ Seated(b, i)' = {}
    BY <1>4 DEF Seated, Held
  <2>2. QED
    BY <2>1, SeatIs
<1>7. At(<<"down", c>>) = {} /\ At(<<"down", d>>) = {}
  BY <1>2, <1>5, NothingInside, PlaceAt
<1>8. At(<<"down", c>>)' = {pair[1]} /\ At(<<"down", d>>)' = {pair[2]}
  <2>1. ToSet(down'[c]) = {pair[1]}
    BY <1>5, OneInside
  <2>2. ToSet(down'[d]) = {pair[2]}
    BY <1>5, OneInside
  <2>3. QED
    BY <1>2, <2>1, <2>2, PlaceAtPrime
<1>9. PlacesRest({f, g, <<"down", c>>, <<"down", d>>})
  <2> PICK M : M = {f, g, <<"down", c>>, <<"down", d>>}
    OBVIOUS
  <2>1. PipesRest(M)
    BY <1>4, <1>5 DEF PipesRest
  <2>2. SeatsRest(M)
    <3>1. \A i \in 1 .. 2 : SeatOf(b, i) \in M \/ Seated(b, i)' = Seated(b, i)
      OBVIOUS
    <3>2. \A e \in Battles \ {b} : UNCHANGED <<pc[e], status[e]>>
      BY <1>4 DEF Procs
    <3> HIDE DEF SeatsRest
    <3>3. QED
      BY <3>1, <3>2, OtherSeatsRest
  <2>3. HandsRest(M)
    <3>1. \A p \in Players : p \in Procs /\ p # b
      BY Tree DEF Procs
    <3>2. QED
      BY <1>4, <3>1 DEF HandsRest, InHand, InFile, Fresh
  <2>4. QED
    BY <2>1, <2>2, <2>3, NothingMoves
<1>10. Flow(K, to, old, new)
  <2>1. K \subseteq Places /\ to \in [K -> Places]
    BY <1>2, <1>3
  <2>2. \A k \in K : /\ At(k) = {old[k]} /\ At(to[k]) = {}
                     /\ At(k)' = {} /\ At(to[k])' = {new[k]} /\ new[k].player = old[k].player
    BY <1>3, <1>4, <1>6, <1>7, <1>8
  <2>3. \A j, k \in K : to[j] = to[k] => j = k
    BY <1>2, <1>3
  <2>4. \A m \in Places : m \notin K /\ (\A k \in K : m # to[k]) => At(m)' = At(m)
    BY <1>3, <1>9 DEF PlacesRest
  <2>5. QED
    BY <2>1, <2>2, <2>3, <2>4, Zenon DEF Flow
<1>11. \A k \in K : Token(to[k], new[k])'
  <2>1. Token(<<"down", Children[b][1]>>, pair[1])' /\ Token(<<"down", Children[b][2]>>, pair[2])'
    BY <1>1, FoughtKeepsTokens
  <2>2. QED
    BY <1>3, <2>1
<1>12. \A n \in Numbers : (\A k \in K : old[k].player # n) => Unaffected(n)
  BY <1>1, <1>3, <1>4, FoughtKeepsRecords
<1>13. Whereabouts'
  BY <1>4, <1>10, <1>11, <1>12, FlowKeeps
<1>14. QED
  BY <1>1, <1>13, FoughtKeepsChampion

-----------------------------------------------------------------------------
(***************************************************************************)
(* Whom the processes stand for, and how strong the players were.          *)
(***************************************************************************)
Memories == Carriers /\ Origins /\ Heirs

\* A child that has not spoken yet is not served.
LEMMA EarlyIsNotServed ==
  ASSUME IInv, NEW b \in Battles, NEW i \in 1 .. 2, pc[Children[b][i]] \in Early
  PROVE  ~Serves(b, i)
<1> PICK c, s : c = Children[b][i] /\ s = status[b][i]
  OBVIOUS
<1>1. Link(b, i)
  BY DEF IInv, Links
<1>2. ~Listens(c) /\ pc[c] # "relay_up" /\ pc[c] \notin Late \union {"exit"}
  BY DEF Early, Listens, Late
<1>3. ~Waits(c) /\ ~Answers(c) /\ ~IsTold(c, s) /\ ~Passes(c, s) /\ ~Leaves(c)
  BY <1>2 DEF Waits, Answers, IsTold, Passes, Leaves
<1>4. QED
  BY <1>1, <1>3 DEF Link, Serves

\* Nothing new is known of x, and nothing of the seat i of b.
NothingNew(x) ==
  Listens(x)' => Listens(x) /\ Carries(x)' = Carries(x) /\ ToSet(up'[x]) \subseteq ToSet(up[x])

StillServes(b, i) ==
  LET c == Children[b][i]
  IN  /\ Serves(b, i)' => Serves(b, i) /\ status'[b][i].player = status[b][i].player
      /\ Serves(b, i)' /\ (Listens(c)' \/ pc'[c] = "relay_up")
           => (Listens(c) \/ pc[c] = "relay_up") /\ Carries(c)' = Carries(c)

LEMMA CarriersFrame ==
  ASSUME Carriers,
         \A x \in Procs : Knows(x)' \/ NothingNew(x),
         \A b \in Battles, i \in 1 .. 2 : Agrees(b, i)' \/ StillServes(b, i)
  PROVE  Carriers'
<1>1. ASSUME NEW x \in Procs, NothingNew(x) PROVE Knows(x)'
  BY <1>1 DEF Carriers, Knows, NothingNew
<1>2. ASSUME NEW b \in Battles, NEW i \in 1 .. 2, StillServes(b, i) PROVE Agrees(b, i)'
  <2>1. Agrees(b, i)
    BY DEF Carriers
  <2>2. QED
    BY <1>2, <2>1 DEF Agrees, StillServes
<1>3. QED
  BY <1>1, <1>2 DEF Carriers, Procs, Battles

\* A step of the battle b.
ChildrenStep(b) ==
  /\ pc[b] \notin Gone \union {"unborn"}
  /\ \A x \in Procs : x # b => pc'[x] = pc[x] \/ (pc'[x] \in {"fork_1", "start", "reaped"} /\ pc[x] # "reaped")
  /\ \A d \in Battles : d # b => status'[d] = status[d] /\ win'[d] = win[d]
  /\ \A x \in Procs : x # b => ToSet(up'[x]) \subseteq ToSet(up[x])
  /\ UNCHANGED <<mystatus, origin_HP, roster>>

LEMMA BattleRemembers ==
  ASSUME IInv, Memories, NEW b \in Battles, ChildrenStep(b),
         pc'[b] = "relay_down" => Knows(b)',
         pc'[b] \in {"relay_down", "relay_up"} =>
           pc[b] \in Early \/ (pc[b] \in {"relay_up", "relay_down"} /\ Carries(b)' = Carries(b)),
         pc'[b] \notin PlayerLabels,
         \A i \in 1 .. 2 :
           Serves(b, i)' => Agrees(b, i)' \/ (Serves(b, i) /\ status'[b][i].player = status[b][i].player)
  PROVE  Memories'
<1>1. /\ b \in Procs /\ b \notin Players /\ \A i \in 1 .. 2 : Children[b][i] \in Procs /\ Children[b][i] # b
      /\ Battles \subseteq Procs /\ Players \subseteq Procs
  BY Tree DEF ChildrenStep, IInv, AllBattles, Battle, Procs
<1>2. /\ pc[b] \notin Gone \union {"unborn"}
      /\ \A x \in Procs : x # b => pc'[x] = pc[x] \/ (pc'[x] \in {"fork_1", "start", "reaped"} /\ pc[x] # "reaped")
      /\ \A d \in Battles : d # b => status'[d] = status[d] /\ win'[d] = win[d]
      /\ \A x \in Procs : x # b => ToSet(up'[x]) \subseteq ToSet(up[x])
      /\ UNCHANGED <<mystatus, origin_HP, roster>>
  BY DEF ChildrenStep
<1>3. \A x \in Procs : x # b => Carries(x)' = Carries(x)
  BY <1>2 DEF Carries
<1>4. \A x \in Procs : x # b => (Listens(x)' => Listens(x)) /\ (pc'[x] = "relay_up" => pc[x] = "relay_up")
  BY <1>2 DEF Listens
<1>5. ASSUME NEW x \in Procs PROVE Knows(x)' \/ NothingNew(x)
  <2>1. CASE x = b
    <3>1. pc'[b] # "fight"
      BY DEF PlayerLabels
    <3>2. QED
      BY <2>1, <3>1 DEF Knows, Listens
  <2>2. CASE x # b
    BY <1>2, <1>3, <1>4, <2>2 DEF NothingNew
  <2>3. QED
    BY <2>1, <2>2
<1>6. ASSUME NEW d \in Battles, NEW i \in 1 .. 2 PROVE Agrees(d, i)' \/ StillServes(d, i)
  <2> PICK c : c = Children[d][i]
    OBVIOUS
  <2>1. CASE d = b
    <3>1. c \in Procs /\ c # b
      BY <1>1, <2>1
    <3>2. CASE Serves(b, i)'
      BY <1>3, <1>4, <2>1, <3>1, <3>2 DEF StillServes
    <3>3. CASE ~Serves(b, i)'
      BY <2>1, <3>3 DEF StillServes
    <3>4. QED
      BY <3>2, <3>3
  <2>2. CASE d # b
    <3>1. c \in Procs
      BY Tree
    <3>2. pc'[d] = pc[d] \/ pc'[d] \in {"fork_1", "start", "reaped"}
      BY <1>1, <1>2, <2>2
    <3>3. pc[c] = "reaped" => pc'[c] = "reaped"
      BY <1>2, <3>1 DEF Gone
    <3>4. status'[d] = status[d] /\ win'[d] = win[d]
      BY <1>2, <2>2
    <3>5. Serves(d, i)' => Serves(d, i)
      BY <3>2, <3>3, <3>4 DEF Serves, Free, Held, Owed, Replayed, Ending
    <3>6. CASE c # b
      BY <1>3, <1>4, <3>1, <3>4, <3>5, <3>6 DEF StillServes
    <3>7. CASE c = b
      <4>1. pc[b] \in Early => ~Serves(d, i)
        BY <3>7, EarlyIsNotServed
      <4>2. pc'[b] # "fight"
        BY DEF PlayerLabels
      <4>3. QED
        BY <3>4, <3>5, <3>7, <4>1, <4>2 DEF StillServes, Listens
    <3>8. QED
      BY <3>6, <3>7
  <2>3. QED
    BY <2>1, <2>2
<1>7. Carriers'
  BY <1>5, <1>6, CarriersFrame DEF Memories
<1>8. \A p \in Players : pc'[p] \in {"fight", "open_read", "take_over"} => pc'[p] = pc[p]
  BY <1>1, <1>2
<1>9. Numbers' = Numbers
  BY <1>2 DEF Numbers
<1>10. Origins' /\ Heirs'
  BY <1>2, <1>8, <1>9 DEF Memories, Origins, Heirs
<1>11. QED
  BY <1>7, <1>10 DEF Memories

\* A step of the player p, which may fetch another one.
OwnStep(p) ==
  /\ pc[p] # "reaped" /\ pc'[p] \in PlayerLabels \union Gone /\ pc'[p] # "reaped"
  /\ \A x \in Procs : x # p => pc'[x] = pc[x] \/ (pc'[x] = "take_over" /\ pc[x] = "open_read")
  /\ \A x \in Procs : x # p => up'[x] = up[x]
  /\ \A q \in Players : q # p => mystatus'[q] = mystatus[q] /\ origin_HP'[q] = origin_HP[q]
  /\ UNCHANGED <<status, win, roster>>

LEMMA PlayerRemembers ==
  ASSUME IInv, Memories, NEW p \in Players, OwnStep(p),
         pc'[p] = "fight" => \A s \in ToSet(up'[p]) : s.player = mystatus'[p].player,
         pc'[p] = "fight" => \/ /\ pc[p] = "fight" /\ mystatus'[p].player = mystatus[p].player
                                /\ origin_HP'[p] = origin_HP[p]
                             \/ /\ pc[p] \in Early
                                /\ mystatus'[p].player \in Numbers
                                /\ origin_HP'[p] <= roster[mystatus'[p].player].HP,
         pc'[p] \in {"open_read", "take_over"} => ~IsReal(Id[p])
  PROVE  Memories'
<1>1. /\ p \in Procs /\ p \notin Battles /\ Battles \subseteq Procs /\ Players \subseteq Procs
      /\ \A x \in Procs : x \in Battles <=> x \notin Players
  BY Tree DEF Procs
<1>2. /\ pc[p] # "reaped" /\ pc'[p] \in PlayerLabels \union Gone /\ pc'[p] # "reaped"
      /\ \A x \in Procs : x # p => pc'[x] = pc[x] \/ (pc'[x] = "take_over" /\ pc[x] = "open_read")
      /\ \A x \in Procs : x # p => up'[x] = up[x]
      /\ \A q \in Players : q # p => mystatus'[q] = mystatus[q] /\ origin_HP'[q] = origin_HP[q]
      /\ UNCHANGED <<status, win, roster>>
  BY DEF OwnStep
<1>3. \A x \in Procs : x # p => Carries(x)' = Carries(x)
  BY <1>1, <1>2 DEF Carries
<1>4. \A x \in Procs : x # p => (Listens(x)' => Listens(x)) /\ (pc'[x] = "relay_up" => pc[x] = "relay_up")
  BY <1>2 DEF Listens
<1>5. /\ pc'[p] \notin {"relay_up", "relay_down"}
      /\ Carries(p) = mystatus[p].player /\ Carries(p)' = mystatus'[p].player
  BY <1>1, <1>2 DEF Carries, PlayerLabels, Gone
<1>6. ASSUME NEW x \in Procs PROVE Knows(x)' \/ NothingNew(x)
  <2>1. CASE x = p
    BY <1>5, <2>1 DEF Knows, Listens
  <2>2. CASE x # p
    BY <1>2, <1>3, <1>4, <2>2 DEF NothingNew
  <2>3. QED
    BY <2>1, <2>2
<1>7. ASSUME NEW d \in Battles, NEW i \in 1 .. 2 PROVE StillServes(d, i)
  <2> PICK c : c = Children[d][i]
    OBVIOUS
  <2>1. c \in Procs /\ d # p /\ d \in Procs
    BY <1>1, Tree
  <2>2. pc'[d] = pc[d] \/ pc'[d] = "take_over"
    BY <1>2, <2>1
  <2>3. pc[c] = "reaped" <=> pc'[c] = "reaped"
    BY <1>2, <2>1
  <2>4. Serves(d, i)' => Serves(d, i)
    BY <1>2, <2>2, <2>3 DEF Serves, Free, Held, Owed, Replayed, Ending
  <2>5. CASE c # p
    BY <1>2, <1>3, <1>4, <2>1, <2>4, <2>5 DEF StillServes
  <2>6. CASE c = p
    <3>1. pc[p] \in Early => ~Serves(d, i)
      BY <2>6, EarlyIsNotServed
    <3>2. QED
      BY <1>2, <1>5, <2>4, <2>6, <3>1 DEF StillServes, Listens
  <2>7. QED
    BY <2>5, <2>6
<1>8. Carriers'
  BY <1>6, <1>7, CarriersFrame DEF Memories
<1>9. Numbers' = Numbers
  BY <1>2 DEF Numbers
<1>10. Origins'
  <2> SUFFICES ASSUME NEW q \in Players, pc'[q] = "fight"
               PROVE  mystatus'[q].player \in Numbers /\ origin_HP'[q] <= roster'[mystatus'[q].player].HP
    BY <1>9 DEF Origins
  <2>1. CASE q # p
    <3>1. pc[q] = "fight"
      BY <1>1, <1>2, <2>1
    <3>2. QED
      BY <1>2, <2>1, <3>1 DEF Memories, Origins
  <2>2. CASE q = p
    BY <1>2, <2>2 DEF Memories, Origins
  <2>3. QED
    BY <2>1, <2>2
<1>11. Heirs'
  BY <1>1, <1>2 DEF Memories, Heirs
<1>12. QED
  BY <1>8, <1>10, <1>11 DEF Memories

LEMMA ForkRemembers ==
  ASSUME IInv, Memories, NEW b \in Battles, NEW i \in 1 .. 2, Fork(b, i)
  PROVE  Memories'
<1> PICK c : c = Children[b][i]
  OBVIOUS
<1>1. /\ pc[b] = <<"fork_1", "fork_2">>[i]
      /\ pc' = [pc EXCEPT ![b] = <<"fork_2", "enter_1">>[i], ![c] = Starts(c)]
      /\ UNCHANGED <<status, win, mystatus, origin_HP, down, up, roster>>
  BY DEF Fork
<1>2. /\ b \in Procs /\ c \in Procs
      /\ pc \in [Procs -> BattleLabels \union PlayerLabels \union Gone \union {"unborn"}]
  BY Tree DEF IInv, Values, Procs
<1>3. pc[c] = "unborn" /\ c # b
  BY <1>1 DEF IInv, Links, Link, Unborn
<1>4. Starts(c) \in {"fork_1", "start"}
  BY DEF Starts
<1>5. /\ pc[b] \in {"fork_1", "fork_2"} /\ pc'[b] \in {"fork_2", "enter_1"}
      /\ pc'[c] \in {"fork_1", "start"} /\ \A x \in Procs : x # b /\ x # c => pc'[x] = pc[x]
  BY <1>1, <1>2, <1>3, <1>4
<1>6. ChildrenStep(b)
  BY <1>1, <1>3, <1>5 DEF ChildrenStep, Gone
<1>7. \A j \in 1 .. 2 : ~Serves(b, j)'
  BY <1>5 DEF Serves, Free, Held, Owed, Replayed, Ending
<1>8. pc'[b] \notin PlayerLabels /\ pc'[b] \notin {"relay_up", "relay_down"}
  BY <1>5 DEF PlayerLabels
<1>9. QED
  BY <1>6, <1>7, <1>8, BattleRemembers

LEMMA TakesRemembers ==
  ASSUME IInv, Memories, NEW b \in Battles, NEW i \in 1 .. 2, NEW c \in Procs, NEW s \in Statuses, NEW t \in Statuses,
         Takes(b, i, c, s, t)
  PROVE  Memories'
<1>1. /\ c = Children[b][i] /\ up[c] # <<>> /\ s = Head(up[c])
      /\ t.player = s.player
      /\ pc[b] \in {<<"enter_1", "enter_2">>[i], <<"read_1", "read_2">>[i]}
      /\ pc'[b] \in {<<"enter_2", "play">>[i], <<"read_2", "play">>[i]}
      /\ pc'[b] = "read_2" => pc[b] = "read_1"
      /\ \A x \in Procs : x # b => pc'[x] = pc[x]
      /\ status'[b][i] = t /\ status'[b][3 - i] = status[b][3 - i]
      /\ \A d \in Battles : d # b => status'[d] = status[d]
      /\ up' = Receive(up, c)
      /\ UNCHANGED <<win, mystatus, origin_HP, roster>>
  BY DEF Takes
<1>2. /\ Listens(c) /\ Holds(up, c, s)
      /\ Receive(up, c)[c] = <<>>
      /\ \A x \in Procs : x # c => Receive(up, c)[x] = up[x]
  BY <1>1, UpIsRead
<1>3. ToSet(up[c]) = {s} /\ ToSet(up'[c]) = {}
  BY <1>1, <1>2, OneInside, NothingInside
<1>4. \A x \in Procs : ToSet(up'[x]) \subseteq ToSet(up[x])
  BY <1>1, <1>2, <1>3
<1>5. /\ pc[b] \in {"enter_1", "enter_2", "read_1", "read_2"}
      /\ pc'[b] \in {"enter_2", "read_2", "play"}
  BY <1>1
<1>6. ChildrenStep(b)
  BY <1>1, <1>4, <1>5 DEF ChildrenStep, Gone
<1>7. c # b
  BY <1>1, <1>5 DEF IInv, AllBattles, Battle
<1>8. Agrees(b, i)'
  <2>1. s.player = Carries(c)
    BY <1>2, <1>3 DEF Memories, Carriers, Knows
  <2>2. Carries(c)' = Carries(c)
    BY <1>1, <1>7 DEF Carries
  <2>3. Children[b][i] = c /\ status'[b][i].player = Carries(c)'
    BY <1>1, <2>1, <2>2
  <2>4. QED
    BY <2>3 DEF Agrees
<1>9. ASSUME NEW j \in 1 .. 2, j # i, Serves(b, j)' PROVE Serves(b, j) /\ status'[b][j].player = status[b][j].player
  <2>1. j = 3 - i
    BY <1>9
  <2>2. Serves(b, j)
    BY <1>1, <1>5, <1>9 DEF Serves, Free, Held, Owed, Replayed, Ending
  <2>3. QED
    BY <1>1, <2>1, <2>2
<1>10. pc'[b] \notin PlayerLabels /\ pc'[b] \notin {"relay_up", "relay_down"}
  BY <1>5 DEF PlayerLabels
<1>11. QED
  BY <1>6, <1>8, <1>9, <1>10, BattleRemembers

LEMMA PlayRemembers ==
  ASSUME IInv, Memories, NEW b \in Battles, NEW pair, NEW w, Fought(b, pair, w)
  PROVE  Memories'
<1>1. /\ \A i \in 1 .. 2 : pair[i].player = status[b][i].player
      /\ pc[b] = "play" /\ pc'[b] \in {"read_1", "wait"} /\ \A x \in Procs : x # b => pc'[x] = pc[x]
      /\ \A d \in Battles : d # b => status'[d] = status[d] /\ win'[d] = win[d]
      /\ status'[b] = pair
      /\ UNCHANGED <<mystatus, origin_HP, up, roster>>
  BY DEF Fought
<1>2. ChildrenStep(b)
  BY <1>1 DEF ChildrenStep, Gone
<1>3. \A i \in 1 .. 2 : Serves(b, i) /\ status'[b][i].player = status[b][i].player
  BY <1>1 DEF Serves, Free, Held
<1>4. pc'[b] \notin PlayerLabels /\ pc'[b] \notin {"relay_up", "relay_down"}
  BY <1>1 DEF PlayerLabels
<1>5. QED
  BY <1>2, <1>3, <1>4, BattleRemembers

LEMMA ReapRemembers ==
  ASSUME IInv, Memories, NEW b \in Battles, WaitFirst(b) \/ WaitLast(b)
  PROVE  Memories'
<1>1. PICK c, l :
        /\ c \in ToSet(Children[b])
        /\ pc[c] = "exit" /\ pc' = [pc EXCEPT ![c] = "reaped", ![b] = l]
        /\ \/ pc[b] = "wait" /\ (IF b = "A" THEN l = "last_wait" ELSE l = "relay_up")
           \/ pc[b] = "last_wait" /\ l = "exit"
  BY DEF WaitFirst, WaitLast
<1>2. UNCHANGED <<status, win, mystatus, origin_HP, up, roster>>
  BY DEF WaitFirst, WaitLast
<1>3. /\ b \in Procs /\ c \in Procs
      /\ pc \in [Procs -> BattleLabels \union PlayerLabels \union Gone \union {"unborn"}]
  <2>1. c = Children[b][1] \/ c = Children[b][2]
    BY <1>1, Tree
  <2>2. QED
    BY <2>1, Tree DEF IInv, Values, Procs
<1>4. /\ b # c /\ pc'[b] = l /\ pc'[c] = "reaped"
      /\ \A x \in Procs : x # b /\ x # c => pc'[x] = pc[x]
  BY <1>1, <1>3
<1>5. ChildrenStep(b)
  BY <1>1, <1>2, <1>4 DEF ChildrenStep, Gone
<1>6. ASSUME NEW i \in 1 .. 2, Serves(b, i)' PROVE Serves(b, i)
  <2>1. pc[b] = "wait" => Serves(b, i)
    BY DEF Serves, Owed, Ending
  <2>2. pc[b] = "last_wait" => ~Serves(b, i)'
    BY <1>1, <1>4 DEF Serves, Free, Held, Owed, Replayed, Ending
  <2>3. QED
    BY <1>1, <1>6, <2>1, <2>2
<1>7. /\ pc'[b] \notin PlayerLabels /\ pc'[b] # "relay_down"
      /\ pc'[b] \in {"relay_up", "relay_down"} => pc[b] \in Early
  BY <1>1, <1>4 DEF PlayerLabels, Early
<1>8. \A i \in 1 .. 2 : status'[b][i].player = status[b][i].player
  BY <1>2
<1>9. QED
  BY <1>5, <1>6, <1>7, <1>8, BattleRemembers

LEMMA RelayUpRemembers ==
  ASSUME IInv, Memories, NEW b \in Battles, RelayUp(b)
  PROVE  Memories'
<1> PICK w, c, s : w = win[b] /\ c = Children[b][w] /\ s = Head(up[c])
  OBVIOUS
<1>1. /\ pc[b] = "relay_up" /\ up[c] # <<>>
      /\ status' = [status EXCEPT ![b][w] = s]
      /\ up' = Send(Receive(up, c), b, s)
      /\ pc' = [pc EXCEPT ![b] = "relay_down"]
      /\ UNCHANGED <<win, mystatus, origin_HP, down, fifo, champion, roster, defeats>>
  BY DEF RelayUp, Goto
<1>2. /\ b \in Procs /\ b # "A" /\ w \in 1 .. 2 /\ c \in Procs /\ c # b
      /\ pc \in [Procs -> BattleLabels \union PlayerLabels \union Gone \union {"unborn"}]
      /\ status \in [Battles -> [1 .. 2 -> Statuses]]
  BY <1>1, RelayKnows DEF IInv, Values
<1>3. /\ Listens(c) /\ s \in Statuses /\ Holds(up, c, s)
      /\ Receive(up, c) \in [Procs -> Seq(Statuses)]
      /\ Receive(up, c)[c] = <<>>
      /\ \A x \in Procs : x # c => Receive(up, c)[x] = up[x]
  BY <1>1, <1>2, UpIsRead
<1>4. up[b] = <<>>
  BY <1>1, <1>2, OneOnItsWay DEF Quiet, Answers, IsTold, Listens
<1>5. /\ Holds(up', b, s) /\ up'[c] = <<>>
      /\ \A x \in Procs : x # b /\ x # c => up'[x] = up[x]
  <2> PICK mid : mid = Receive(up, c)
    OBVIOUS
  <2>1. /\ mid \in [Procs -> Seq(Statuses)] /\ mid[b] = <<>> /\ mid[c] = <<>>
        /\ \A x \in Procs : x # c => mid[x] = up[x]
    BY <1>2, <1>3, <1>4
  <2>2. /\ Holds(Send(mid, b, s), b, s)
        /\ \A x \in Procs : x # b => Send(mid, b, s)[x] = mid[x]
    <3>1. mid \in [Procs -> Seq(Statuses)] /\ b \in Procs /\ s \in Statuses /\ mid[b] = <<>>
      BY <1>2, <1>3, <2>1
    <3>2. QED
      BY <3>1, OneIsWritten, Zenon
  <2>3. up' = Send(mid, b, s)
    BY <1>1
  <2>4. QED
    BY <1>2, <2>1, <2>2, <2>3
<1>6. ToSet(up[c]) = {s} /\ ToSet(up'[c]) = {} /\ ToSet(up'[b]) = {s}
  BY <1>3, <1>5, OneInside, NothingInside
<1>7. /\ pc'[b] = "relay_down" /\ \A x \in Procs : x # b => pc'[x] = pc[x]
      /\ \A d \in Battles : d # b => status'[d] = status[d]
      /\ status'[b][w] = s /\ win'[b] = w
  BY <1>1, <1>2
<1>8. Serves(b, w) /\ Carries(b) = status[b][w].player /\ Carries(b)' = s.player
  BY <1>1, <1>2, <1>7 DEF Serves, Owed, Carries
<1>9. s.player = status[b][w].player
  <2>1. Knows(c) /\ Agrees(b, w)
    BY <1>2 DEF Memories, Carriers
  <2>2. s.player = Carries(c)
    BY <1>3, <1>6, <2>1 DEF Knows
  <2>3. status[b][w].player = Carries(c)
    BY <1>3, <1>8, <2>1 DEF Agrees
  <2>4. QED
    BY <2>2, <2>3
<1>10. ChildrenStep(b)
  <2>1. \A x \in Procs : x # b => ToSet(up'[x]) \subseteq ToSet(up[x])
    BY <1>5, <1>6
  <2>2. QED
    BY <1>1, <1>7, <2>1 DEF ChildrenStep, Gone
<1>11. Knows(b)'
  BY <1>6, <1>8 DEF Knows
<1>12. ASSUME NEW i \in 1 .. 2, Serves(b, i)' PROVE Serves(b, i) /\ status'[b][i].player = status[b][i].player
  <2>1. i = w
    BY <1>7, <1>12 DEF Serves, Free, Held, Owed, Replayed, Ending
  <2>2. QED
    BY <1>7, <1>8, <1>9, <2>1
<1>13. pc'[b] \notin PlayerLabels
  BY <1>7 DEF PlayerLabels
<1>14. QED
  BY <1>1, <1>8, <1>9, <1>10, <1>11, <1>12, <1>13, BattleRemembers

LEMMA RelayDownRemembers ==
  ASSUME IInv, Memories, NEW b \in Battles, RelayDown(b)
  PROVE  Memories'
<1> PICK w, c, s, l : w = win[b] /\ c = Children[b][w] /\ s = Head(down[b]) /\ l = AfterRelay(s)
  OBVIOUS
<1>1. /\ pc[b] = "relay_down" /\ down[b] # <<>>
      /\ status' = [status EXCEPT ![b][w] = s]
      /\ pc' = [pc EXCEPT ![b] = l]
      /\ UNCHANGED <<win, mystatus, origin_HP, up, roster>>
  BY DEF RelayDown, Goto
<1>2. /\ b \in Procs /\ b # "A" /\ w \in 1 .. 2 /\ c \in Procs /\ c # b
      /\ pc \in [Procs -> BattleLabels \union PlayerLabels \union Gone \union {"unborn"}]
      /\ status \in [Battles -> [1 .. 2 -> Statuses]]
  BY <1>1, RelayKnows DEF IInv, Values
<1>3. PICK d \in Battles, k \in 1 .. 2 : b = Children[d][k] /\ s = status[d][k] /\ Serves(d, k)
  BY <1>1, <1>2, DownIsRead DEF Listens
<1>4. s.player = Carries(b)
  BY <1>1, <1>3 DEF Memories, Carriers, Agrees, Listens
<1>5. /\ pc'[b] \in {"relay_up", "last_wait"} /\ \A x \in Procs : x # b => pc'[x] = pc[x]
      /\ \A e \in Battles : e # b => status'[e] = status[e]
      /\ status'[b][w] = s /\ win'[b] = w
  BY <1>1, <1>2 DEF AfterRelay
<1>6. Serves(b, w) /\ Carries(b) = status[b][w].player /\ Carries(b)' = s.player
  BY <1>1, <1>5 DEF Serves, Free, Carries
<1>7. ChildrenStep(b)
  BY <1>1, <1>5 DEF ChildrenStep, Gone
<1>8. ASSUME NEW i \in 1 .. 2, Serves(b, i)' PROVE Serves(b, i) /\ status'[b][i].player = status[b][i].player
  <2>1. i = w
    BY <1>2, <1>5, <1>8 DEF Serves, Free, Held, Owed, Replayed, Ending
  <2>2. QED
    BY <1>4, <1>5, <1>6, <2>1
<1>9. pc'[b] \notin PlayerLabels /\ pc'[b] # "relay_down"
  BY <1>5 DEF PlayerLabels
<1>10. QED
  BY <1>1, <1>4, <1>6, <1>7, <1>8, <1>9, BattleRemembers

\* The steps of the players around a FIFO.
LEMMA FifoRemembers ==
  ASSUME IInv, Memories, NEW p \in Players, MakeFifo(p) \/ RetryOpen(p) \/ OpenFifo(p) \/ HandOver(p)
  PROVE  Memories'
<1>1. /\ UNCHANGED <<status, win, mystatus, origin_HP, up, roster>>
      /\ p \in Procs
  BY DEF MakeFifo, RetryOpen, OpenFifo, HandOver, Procs
<1>2. pc \in [Procs -> BattleLabels \union PlayerLabels \union Gone \union {"unborn"}]
  BY DEF IInv, Values
<1>3. /\ pc[p] # "reaped" /\ pc'[p] \in {"open_read", "open_write", "hand_over", "exit"}
      /\ pc'[p] = "open_read" => ~IsReal(Id[p])
      /\ \A x \in Procs : x # p => pc'[x] = pc[x] \/ (pc'[x] = "take_over" /\ pc[x] = "open_read")
  <2>1. CASE MakeFifo(p)
    <3>1. pc[p] = "start" /\ ~IsReal(Id[p]) /\ pc' = [pc EXCEPT ![p] = "open_read"]
      BY <2>1 DEF MakeFifo, Goto
    <3>2. QED
      BY <1>1, <1>2, <3>1
  <2>2. CASE RetryOpen(p)
    <3>1. pc[p] = "open_write" /\ pc' = [pc EXCEPT ![p] = "open_write"]
      BY <2>2 DEF RetryOpen, Goto, OpenFailed
    <3>2. QED
      BY <1>1, <1>2, <3>1
  <2>3. CASE OpenFifo(p)
    <3>1. PICK a : /\ pc[p] = "open_write" /\ pc[a] = "open_read" /\ a \in fifos
                   /\ pc' = [pc EXCEPT ![p] = "hand_over", ![a] = "take_over"]
      BY <2>3 DEF OpenFifo
    <3>2. a \in Procs /\ a # p
      BY <3>1 DEF IInv, Values, Procs
    <3>3. QED
      BY <1>1, <1>2, <3>1, <3>2
  <2>4. CASE HandOver(p)
    <3>1. pc[p] = "hand_over" /\ pc' = [pc EXCEPT ![p] = "exit"]
      BY <2>4 DEF HandOver, Goto
    <3>2. QED
      BY <1>1, <1>2, <3>1
  <2>5. QED
    BY <2>1, <2>2, <2>3, <2>4
<1>4. OwnStep(p)
  BY <1>1, <1>3 DEF OwnStep, PlayerLabels, Gone
<1>5. pc'[p] # "fight" /\ (pc'[p] \in {"open_read", "take_over"} => ~IsReal(Id[p]))
  BY <1>3
<1>6. QED
  BY <1>4, <1>5, PlayerRemembers

LEMMA BeginRemembers ==
  ASSUME IInv, Memories, NEW p \in Players, NEW s \in Statuses, Bounded(s), Enters(p, s),
         pc[p] \in {"start", "take_over"}
  PROVE  Memories'
<1>1. /\ mystatus' = [mystatus EXCEPT ![p] = s]
      /\ origin_HP' = [origin_HP EXCEPT ![p] = s.HP]
      /\ up' = Send(up, p, s)
      /\ pc' = [pc EXCEPT ![p] = "fight"]
      /\ UNCHANGED <<status, win, roster>>
  BY DEF Enters
<1>2. /\ p \in Procs /\ up \in [Procs -> Seq(Statuses)]
      /\ pc \in [Procs -> BattleLabels \union PlayerLabels \union Gone \union {"unborn"}]
      /\ mystatus \in [Players -> Statuses] /\ origin_HP \in [Players -> Int]
  BY DEF IInv, Values, Procs
<1>3. up[p] = <<>>
  BY <1>2, OneOnItsWay DEF Quiet, Answers, IsTold, Listens
<1>4. Holds(up', p, s) /\ \A x \in Procs : x # p => up'[x] = up[x]
  BY <1>1, <1>2, <1>3, OneIsWritten
<1>5. ToSet(up'[p]) = {s}
  BY <1>4, OneInside
<1>6. /\ pc'[p] = "fight" /\ \A x \in Procs : x # p => pc'[x] = pc[x]
      /\ mystatus'[p] = s /\ origin_HP'[p] = s.HP
      /\ \A q \in Players : q # p => mystatus'[q] = mystatus[q] /\ origin_HP'[q] = origin_HP[q]
  BY <1>1, <1>2
<1>7. OwnStep(p)
  BY <1>1, <1>4, <1>6 DEF OwnStep, PlayerLabels, Gone
<1>8. pc[p] \in Early
  BY DEF Early
<1>9. QED
  BY <1>5, <1>6, <1>7, <1>8, PlayerRemembers DEF Bounded

LEMMA ReadStatusRemembers ==
  ASSUME IInv, Whereabouts, Memories, NEW p \in Players, ReadStatus(p)
  PROVE  Memories'
<1> PICK s : s = Fresh(Id[p])
  OBVIOUS
<1>1. /\ pc[p] = "start" /\ IsReal(Id[p])
      /\ mystatus' = [mystatus EXCEPT ![p] = s]
      /\ origin_HP' = [origin_HP EXCEPT ![p] = s.HP]
      /\ up' = Send(up, p, s)
      /\ pc' = [pc EXCEPT ![p] = "fight"]
      /\ UNCHANGED <<status, win, down, fifos, fifo, champion, roster>>
  BY DEF ReadStatus, Begin, Goto, Fresh
<1>2. roster \in Rosters /\ fifo \in [Players -> Seq(Statuses)] /\ Player(p)
  BY DEF IInv, Values, AllPlayers
<1>3. Id[p] \in Numbers /\ roster[Id[p]].HP \in Nat \ {0}
  BY <1>1, <1>2, TournamentAssumption DEF Numbers, Players
<1>4. s = [player |-> Id[p], HP |-> roster[Id[p]].HP, battle |-> "none", ended |-> 0]
  BY DEF Fresh, NoStatus
<1>5. s \in Statuses
  BY <1>3, <1>4, FreshIs DEF Fit
<1>6. Bounded(s)
  BY <1>3, <1>4 DEF Bounded
<1>7. fifo[p] = <<>>
  BY <1>1, <1>2 DEF Player
<1>8. Enters(p, s)
  BY <1>1, <1>2, <1>7 DEF Enters
<1>9. QED
  BY <1>1, <1>5, <1>6, <1>8, BeginRemembers

LEMMA TakeOverRemembers ==
  ASSUME IInv, Whereabouts, Memories, NEW p \in Players, TakeOver(p)
  PROVE  Memories'
<1> PICK s : s = Head(fifo[p])
  OBVIOUS
<1>1. /\ pc[p] = "take_over" /\ fifo[p] # <<>>
      /\ mystatus' = [mystatus EXCEPT ![p] = s]
      /\ origin_HP' = [origin_HP EXCEPT ![p] = s.HP]
      /\ up' = Send(up, p, s)
      /\ pc' = [pc EXCEPT ![p] = "fight"]
      /\ fifo' = Receive(fifo, p)
      /\ UNCHANGED <<status, win, down, fifos, champion, roster>>
  BY DEF TakeOver, Begin, Goto
<1>2. fifo \in [Players -> Seq(Statuses)] /\ Player(p) /\ p \in Procs
  BY DEF IInv, Values, AllPlayers, Procs
<1>3. s \in Statuses /\ Holds(fifo, p, s) /\ Tail(fifo[p]) = <<>>
  <2>1. PICK t \in Statuses : fifo[p] = <<t>>
    BY <1>1, <1>2 DEF Player
  <2>2. t = s /\ Tail(fifo[p]) = <<>>
    BY <2>1, OneStatus
  <2>3. QED
    BY <2>1, <2>2 DEF Holds
<1>4. /\ fifo' \in [Players -> Seq(Statuses)] /\ fifo'[p] = <<>>
      /\ \A q \in Players : q # p => fifo'[q] = fifo[q]
  <2>1. fifo' = [fifo EXCEPT ![p] = <<>>]
    BY <1>1, <1>3 DEF Receive
  <2>2. QED
    BY <1>2, <2>1
<1>5. Bounded(s)
  <2>1. ToSet(fifo[p]) = {s}
    BY <1>3, OneInside
  <2>2. <<"fifo", p>> \in Places /\ s \in At(<<"fifo", p>>)
    BY <1>2, <2>1, PlaceAt DEF Places, InFifo
  <2>3. QED
    BY <2>2 DEF Whereabouts, Tokens, Token
<1>6. Enters(p, s)
  BY <1>1, <1>4 DEF Enters
<1>7. QED
  BY <1>1, <1>3, <1>5, <1>6, BeginRemembers

\* A player sends its status back, or turns to something else.
Replies(p, mine) ==
  \/ mine \in Statuses /\ up' = Send(up, p, mine) /\ pc' = pc
  \/ up' = up /\ \E l \in {"open_write", "exit"} : pc' = [pc EXCEPT ![p] = l]

\* A player that is told something stays who it is.
LEMMA ToldRemembers ==
  ASSUME IInv, Memories, NEW p \in Players, NEW s \in ToSet(down[p]), NEW mine, Told(p, s, mine),
         mine.player = s.player, Replies(p, mine)
  PROVE  Memories'
<1>1. /\ s \in Statuses /\ p \in Procs /\ pc[p] = "fight" /\ up[p] = <<>> /\ up \in [Procs -> Seq(Statuses)]
      /\ mystatus'[p] = mine /\ \A q \in Players : q # p => mystatus'[q] = mystatus[q]
      /\ UNCHANGED <<status, win, roster>>
  <2>1. s \in Statuses /\ up[p] = <<>>
    BY ToldKnows
  <2>2. pc[p] = "fight" /\ mystatus' = [mystatus EXCEPT ![p] = mine] /\ UNCHANGED <<status, win, roster>>
    BY DEF Told
  <2>3. p \in Procs /\ up \in [Procs -> Seq(Statuses)] /\ mystatus \in [Players -> Statuses]
    BY DEF IInv, Values, Procs
  <2>4. QED
    BY <2>1, <2>2, <2>3
<1>2. s.player = mystatus[p].player
  BY OwnStatus DEF Memories
<1>3. origin_HP' = origin_HP
  BY DEF Told
<1>4. pc \in [Procs -> BattleLabels \union PlayerLabels \union Gone \union {"unborn"}]
  BY DEF IInv, Values
<1>5. /\ pc'[p] \in {"fight", "open_write", "exit"} /\ \A x \in Procs : x # p => pc'[x] = pc[x]
      /\ \A x \in Procs : x # p => up'[x] = up[x]
      /\ pc'[p] = "fight" => \A t \in ToSet(up'[p]) : t = mine
  <2>1. CASE mine \in Statuses /\ up' = Send(up, p, mine) /\ pc' = pc
    <3>1. Holds(up', p, mine) /\ \A x \in Procs : x # p => up'[x] = up[x]
      BY <1>1, <2>1, OneIsWritten
    <3>2. ToSet(up'[p]) = {mine}
      BY <3>1, OneInside
    <3>3. QED
      BY <1>1, <2>1, <3>1, <3>2
  <2>2. CASE up' = up /\ \E l \in {"open_write", "exit"} : pc' = [pc EXCEPT ![p] = l]
    BY <1>1, <1>4, <2>2
  <2>3. QED
    BY <2>1, <2>2 DEF Replies
<1>6. OwnStep(p)
  BY <1>1, <1>3, <1>5 DEF OwnStep, PlayerLabels, Gone
<1>7. QED
  BY <1>1, <1>2, <1>3, <1>5, <1>6, PlayerRemembers

LEMMA AdvanceRemembers ==
  ASSUME IInv, Memories, NEW p \in Players, NEW s \in ToSet(down[p]), Advance(p, s)
  PROVE  Memories'
<1> PICK mine : mine = Recovered(s, origin_HP[p])
  OBVIOUS
<1>1. /\ Told(p, s, mine) /\ pc' = pc
      /\ s.ended = 1 /\ s.HP > 0 /\ s.battle # "A"
      /\ up' = Send(up, p, mystatus'[p])
  BY DEF Advance
<1>2. /\ s \in Statuses /\ s.player \in Numbers /\ origin_HP[p] \in Int /\ origin_HP[p] > 0
      /\ mystatus'[p] = mine
  BY <1>1, HearsIs
<1>3. mine \in Statuses
  BY <1>1, <1>2, RecoveredIs DEF Fit
<1>4. mine.player = s.player
  BY <1>2 DEF Recovered, Statuses
<1>5. Replies(p, mine)
  BY <1>1, <1>2, <1>3 DEF Replies
<1>6. QED
  BY <1>1, <1>4, <1>5, ToldRemembers

-----------------------------------------------------------------------------
(***************************************************************************)
(* The invariant of the places.                                            *)
(***************************************************************************)

\* Before it begins everybody is in player_status.txt.
LEMMA InitPlaces ==
  ASSUME Init
  PROVE  /\ \A p \in Players : At(<<"file", p>>) = InFile(p)
         /\ \A p \in Players : IsReal(Id[p]) => InFile(p) = {Fresh(Id[p])}
         /\ \A k \in Places : \A s \in At(k) :
              \E p \in Players : k = <<"file", p>> /\ IsReal(Id[p]) /\ s = Fresh(Id[p])
<1>1. /\ \A x \in Procs : up[x] = <<>> /\ down[x] = <<>> /\ (x # "A" => pc[x] = "unborn")
      /\ pc["A"] = "fork_1" /\ \A p \in Players : fifo[p] = <<>> /\ pc[p] = "unborn" /\ p \in Procs
  BY Tree DEF Init, Procs
<1>2. \A x : Seated(x, 1) = {} /\ Seated(x, 2) = {}
  <2>1. \A b \in Battles : pc[b] \in {"unborn", "fork_1"}
    BY <1>1 DEF Procs
  <2>2. QED
    BY <2>1 DEF Seated, Held
<1>3. \A x \in Procs : ToSet(up[x]) = {} /\ ToSet(down[x]) = {} /\ InFifo(x) = {} /\ InHand(x) = {}
  BY <1>1, NothingInside DEF InFifo, InHand
<1>4. \A p \in Players : IsReal(Id[p]) => InFile(p) = {Fresh(Id[p])}
  BY <1>1 DEF InFile
<1>5. \A x : \A s \in InFile(x) : x \in Players /\ IsReal(Id[x]) /\ s = Fresh(Id[x])
  BY DEF InFile
<1>6. ASSUME NEW k \in Places, NEW s \in At(k)
      PROVE  \E p \in Players : k = <<"file", p>> /\ IsReal(Id[p]) /\ s = Fresh(Id[p])
  <2>1. PICK x \in Procs : \/ k = <<"up", x>> \/ k = <<"down", x>> \/ k = <<"first", x>>
                           \/ k = <<"second", x>> \/ k = <<"hand", x>> \/ k = <<"fifo", x>> \/ k = <<"file", x>>
    BY Kinds
  <2>2. /\ At(<<"up", x>>) = {} /\ At(<<"down", x>>) = {} /\ At(<<"first", x>>) = {}
        /\ At(<<"second", x>>) = {} /\ At(<<"hand", x>>) = {} /\ At(<<"fifo", x>>) = {}
        /\ At(<<"file", x>>) = InFile(x)
    BY <1>2, <1>3, PlaceAt
  <2>3. k = <<"file", x>> /\ s \in InFile(x)
    BY <2>1, <2>2
  <2>4. QED
    BY <1>5, <2>3
<1>7. \A p \in Players : At(<<"file", p>>) = InFile(p)
  BY <1>1, PlaceAt
<1>8. QED
  BY <1>4, <1>6, <1>7

LEMMA NumbersAreReal ==
  ASSUME roster \in Rosters
  PROVE  /\ \A n : n \in Numbers <=> \E p \in Players : n = Id[p] /\ IsReal(n)
         /\ \A p, q \in Players : Id[p] = Id[q] => p = q
<1>1. DOMAIN roster = {n \in {Id[p] : p \in DOMAIN Id} : IsReal(n)}
  BY TournamentAssumption
<1>2. \A p, q \in DOMAIN Id : Id[p] = Id[q] => p = q
  BY TournamentAssumption, Zenon DEF WellFormed
<1>3. QED
  BY <1>1, <1>2 DEF Numbers, Players

LEMMA InitPInv ==
  ASSUME Init
  PROVE  PInv
<1>1. /\ roster \in Rosters /\ champion = -1 /\ defeats = [n \in Numbers |-> <<>>]
      /\ \A n : Fresh(n).player = n /\ Fresh(n).HP = roster[n].HP
  BY DEF Init, Numbers, Fresh, NoStatus
<1>2. pc["A"] = "fork_1" /\ \A p \in Players : pc[p] = "unborn"
  BY Tree DEF Init, Procs
<1>3. \A n : ~Won(n)
  BY <1>2 DEF Won, Decided, Gone
<1>4. OnePlace
  BY <1>1, InitPlaces, NumbersAreReal DEF OnePlace
<1>5. Tokens
  <2> SUFFICES ASSUME NEW k \in Places, NEW s \in At(k) PROVE Token(k, s)
    BY DEF Tokens
  <2>1. PICK p \in Players : k = <<"file", p>> /\ IsReal(Id[p]) /\ s = Fresh(Id[p])
    BY InitPlaces
  <2>2. PICK n : n = Id[p]
    OBVIOUS
  <2>3. n \in Numbers /\ s.player = n /\ s.HP = roster[n].HP
    BY <1>1, <2>1, <2>2, NumbersAreReal
  <2>4. roster[n].HP \in Nat
    BY <1>1, <2>3, TournamentAssumption DEF Numbers
  <2>5. Bounded(s)
    BY <2>3, <2>4 DEF Bounded
  <2>6. Record(s.player, TRUE)
    BY <1>1, <2>3 DEF Record
  <2>7. QED
    BY <1>3, <2>1, <2>5, <2>6, TokenIs
<1>6. Everybody
  <2> SUFFICES ASSUME NEW n \in Numbers PROVE Present(n)
    BY DEF Everybody
  <2>1. PICK p \in Players : n = Id[p] /\ IsReal(n)
    BY <1>1, NumbersAreReal
  <2>2. <<"file", p>> \in Places /\ Fresh(n) \in At(<<"file", p>>)
    BY <2>1, InitPlaces DEF Places, Procs
  <2>3. QED
    BY <1>1, <2>2 DEF Present
<1>7. Champion
  <2>1. defeats \in [Numbers -> Seq(Battles)]
    BY <1>1
  <2>2. QED
    BY <1>1, <1>3, <2>1 DEF Champion
<1>8. \A x \in Procs : ~Listens(x) /\ pc[x] # "relay_up"
  BY <1>2 DEF Init, Procs, Listens
<1>9. Carriers
  <2>1. \A b \in Battles, i \in 1 .. 2 : Children[b][i] \in Procs
    BY Tree
  <2>2. QED
    BY <1>8, <2>1 DEF Carriers, Knows, Agrees
<1>10. Origins /\ Heirs
  BY <1>2 DEF Origins, Heirs
<1>11. QED
  BY <1>4, <1>5, <1>6, <1>7, <1>9, <1>10 DEF PInv

\* The parts of the invariant.
LEMMA Parts ==
  /\ PInv <=> Whereabouts /\ Champion /\ Memories
  /\ PInv' <=> Whereabouts' /\ Champion' /\ Memories'
  /\ Memories => Carriers /\ Origins /\ Heirs
BY DEF PInv, Whereabouts, Memories

\* In all steps but those of a battle's end nothing is known of the champion that was not
\* known before.
LEMMA CalmStep ==
  ASSUME PInv, Calm, Whereabouts', Memories', champion' = champion
  PROVE  PInv'
BY CalmKeepsChampion, Parts

LEMMA BattleKeepsPlaces ==
  ASSUME IInv, PInv, NEW b \in Battles, BattleStep(b)
  PROVE  PInv'
<1>1. Whereabouts /\ Champion /\ Memories
  BY Parts
<1>2. ASSUME NEW i \in 1 .. 2, Fork(b, i) PROVE PInv'
  <2>1. Calm /\ PlacesRest({}) /\ Memories'
    BY <1>1, <1>2, ForkMoves, ForkRemembers
  <2>2. champion' = champion
    BY <1>2 DEF Fork
  <2>3. Whereabouts'
    BY <1>1, <2>1, CalmKeeps
  <2>4. QED
    BY <2>1, <2>2, <2>3, CalmStep
<1>3. ASSUME NEW i \in 1 .. 2, Admit(b, i) \/ ReadBack(b, i) PROVE PInv'
  <2>1. PICK c \in Procs, s \in Statuses, t \in Statuses : Takes(b, i, c, s, t)
    BY <1>3, ReadTakes
  <2>2. Calm /\ Whereabouts' /\ Memories'
    BY <1>1, <2>1, TakesMoves, TakesRemembers
  <2>3. champion' = champion
    BY <1>3 DEF Admit, ReadBack
  <2>4. QED
    BY <2>2, <2>3, CalmStep
<1>4. CASE Play(b)
  <2>1. Whereabouts' /\ Champion'
    BY <1>1, <1>4, PlayMoves
  <2>2. PICK pair, w : Fought(b, pair, w)
    BY <1>1, <1>4, PlayKnows
  <2>3. Memories'
    BY <1>1, <2>2, PlayRemembers
  <2>4. QED
    BY <2>1, <2>3, Parts
<1>5. CASE WaitFirst(b) \/ WaitLast(b)
  <2>1. Calm /\ PlacesRest({}) /\ Memories'
    BY <1>1, <1>5, ReapMoves, ReapRemembers
  <2>2. Whereabouts'
    BY <1>1, <2>1, CalmKeeps
  <2>3. champion' = champion \/ (pc'["A"] \in Gone /\ champion' = Winner("A")')
    <3>1. CASE WaitLast(b) /\ b = "A"
      <4>1. champion' = Winner("A") /\ Winner("A")' = Winner("A") /\ pc["A"] = "last_wait"
        BY <3>1 DEF WaitLast, Winner
      <4>2. PICK c \in ToSet(Children["A"]) : pc' = [pc EXCEPT ![c] = "reaped", !["A"] = "exit"]
        BY <3>1 DEF WaitLast
      <4>3. pc \in [Procs -> BattleLabels \union PlayerLabels \union Gone \union {"unborn"}] /\ "A" \in Procs
        BY Tree DEF IInv, Values, Procs
      <4>4. pc'["A"] = "exit"
        BY <4>2, <4>3
      <4>5. QED
        BY <4>1, <4>4 DEF Gone
    <3>2. CASE WaitLast(b) /\ b # "A"
      BY <3>2 DEF WaitLast
    <3>3. CASE WaitFirst(b)
      BY <3>3 DEF WaitFirst
    <3>4. QED
      BY <1>5, <3>1, <3>2, <3>3
  <2>4. Champion'
    BY <1>1, <2>1, <2>3, CalmKeepsChampion
  <2>5. QED
    BY <2>1, <2>2, <2>4, Parts
<1>6. CASE RelayUp(b)
  <2>1. Calm /\ Whereabouts' /\ Memories'
    BY <1>1, <1>6, RelayUpMoves, RelayUpRemembers
  <2>2. champion' = champion
    BY <1>6 DEF RelayUp
  <2>3. QED
    BY <2>1, <2>2, CalmStep
<1>7. CASE RelayDown(b)
  <2>1. Calm /\ Whereabouts' /\ Memories'
    BY <1>1, <1>7, RelayDownMoves, RelayDownRemembers
  <2>2. champion' = champion
    BY <1>7 DEF RelayDown
  <2>3. QED
    BY <2>1, <2>2, CalmStep
<1>8. QED
  BY <1>2, <1>3, <1>4, <1>5, <1>6, <1>7 DEF BattleStep

LEMMA PlayerKeepsPlaces ==
  ASSUME IInv, PInv, NEW p \in Players, PlayerStep(p)
  PROVE  PInv'
<1>1. Whereabouts /\ Champion /\ Memories /\ Carriers /\ Origins /\ Heirs
  BY Parts
<1>2. CASE MakeFifo(p) \/ RetryOpen(p) \/ OpenFifo(p)
  <2>1. Calm /\ PlacesRest({}) /\ Memories'
    BY <1>1, <1>2, FifoMoves, FifoRemembers
  <2>2. champion' = champion
    BY <1>2 DEF MakeFifo, RetryOpen, OpenFifo
  <2>3. Whereabouts'
    BY <1>1, <2>1, CalmKeeps
  <2>4. QED
    BY <2>1, <2>2, <2>3, CalmStep
<1>3. CASE HandOver(p)
  <2>1. Calm /\ Whereabouts' /\ Memories'
    BY <1>1, <1>3, HandOverMoves, FifoRemembers
  <2>2. champion' = champion
    BY <1>3 DEF HandOver
  <2>3. QED
    BY <2>1, <2>2, CalmStep
<1>4. CASE ReadStatus(p)
  <2>1. Calm /\ Whereabouts' /\ Memories'
    BY <1>1, <1>4, ReadStatusMoves, ReadStatusRemembers
  <2>2. champion' = champion
    BY <1>4 DEF ReadStatus
  <2>3. QED
    BY <2>1, <2>2, CalmStep
<1>5. CASE TakeOver(p)
  <2>1. ~IsReal(Id[p])
    BY <1>1, <1>5 DEF Heirs, TakeOver
  <2>2. Calm /\ Whereabouts' /\ Memories'
    BY <1>1, <1>5, <2>1, TakeOverMoves, TakeOverRemembers
  <2>3. champion' = champion
    BY <1>5 DEF TakeOver
  <2>4. QED
    BY <2>2, <2>3, CalmStep
<1>6. ASSUME NEW s \in ToSet(down[p]), FightOn(p, s) PROVE PInv'
  <2>1. Calm /\ Whereabouts'
    BY <1>1, <1>6, FightOnMoves
  <2>2. Told(p, s, s) /\ up' = Send(up, p, s) /\ pc' = pc
    BY <1>6 DEF FightOn
  <2>3. s \in Statuses
    BY <2>2, HearsIs
  <2>4. Memories'
    BY <1>1, <2>2, <2>3, ToldRemembers DEF Replies
  <2>5. champion' = champion
    BY <2>2 DEF Told
  <2>6. QED
    BY <2>1, <2>4, <2>5, CalmStep
<1>7. ASSUME NEW s \in ToSet(down[p]), Advance(p, s) PROVE PInv'
  <2>1. Calm /\ Whereabouts' /\ Memories'
    BY <1>1, <1>7, AdvanceMoves, AdvanceRemembers
  <2>2. champion' = champion
    BY <1>7 DEF Advance, Told
  <2>3. QED
    BY <2>1, <2>2, CalmStep
<1>8. ASSUME NEW s \in ToSet(down[p]), Lose(p, s) PROVE PInv'
  <2> PICK mine : mine = Restored(s, origin_HP[p])
    OBVIOUS
  <2>1. Calm /\ Whereabouts'
    BY <1>1, <1>8, LoseMoves
  <2>2. Told(p, s, mine) /\ up' = up /\ pc' = [pc EXCEPT ![p] = "open_write"]
    BY <1>8 DEF Lose, LoseAfter, Goto
  <2>3. s \in Statuses
    BY <2>2, HearsIs
  <2>4. mine.player = s.player
    BY <2>3 DEF Restored, Statuses
  <2>5. Memories'
    BY <1>1, <2>2, <2>4, ToldRemembers DEF Replies
  <2>6. champion' = champion
    BY <2>2 DEF Told
  <2>7. QED
    BY <2>1, <2>5, <2>6, CalmStep
<1>9. ASSUME NEW s \in ToSet(down[p]), Leave(p, s) PROVE PInv'
  <2>1. Calm /\ Whereabouts'
    BY <1>1, <1>9, LeaveMoves
  <2>2. Told(p, s, s) /\ up' = up /\ pc' = [pc EXCEPT ![p] = "exit"]
    BY <1>9 DEF Leave, Goto
  <2>3. Memories'
    BY <1>1, <2>2, ToldRemembers DEF Replies
  <2>4. champion' = champion
    BY <2>2 DEF Told
  <2>5. QED
    BY <2>1, <2>3, <2>4, CalmStep
<1>10. QED
  BY <1>2, <1>3, <1>4, <1>5, <1>6, <1>7, <1>8, <1>9 DEF PlayerStep

LEMMA StutterKeepsPlaces ==
  ASSUME PInv, UNCHANGED vars
  PROVE  PInv'
<1>1. \A k : At(k)' = At(k)
  BY DEF At, Seated, Held, InHand, InFifo, InFile, Fresh, vars
<1>2. \A n : Won(n)' <=> Won(n)
  BY DEF Won, Decided, Winner, vars
<1>3. OnePlace'
  BY <1>1 DEF PInv, OnePlace
<1>4. Tokens'
  <2>1. \A k, s : Token(k, s) => Token(k, s)'
    BY <1>2, OthersUnaffected DEF Unaffected, vars
  <2>2. QED
    BY <1>1, <2>1 DEF PInv, Tokens
<1>5. Everybody'
  BY <1>1, <1>2 DEF PInv, Everybody, Present, Out, Numbers, vars
<1>6. Champion'
  BY <1>2 DEF PInv, Champion, Numbers, Record, Winner, vars
<1>7. Carriers'
  BY DEF PInv, Carriers, Knows, Listens, Carries, Agrees, Serves, Free, Held, Owed, Replayed, Ending, vars
<1>8. Origins' /\ Heirs'
  BY DEF PInv, Origins, Heirs, Numbers, vars
<1>9. QED
  BY <1>3, <1>4, <1>5, <1>6, <1>7, <1>8 DEF PInv

\* Every player's status is in one place at a time, wherever its process is; nobody
\* vanishes before it has lost twice or has won, and nobody has got stronger.
THEOREM Placement == Spec => []PInv
<1>1. Init => PInv
  BY InitPInv
<1>2. IInv /\ PInv /\ [Next]_vars => PInv'
  BY BattleKeepsPlaces, PlayerKeepsPlaces, StutterKeepsPlaces DEF Next
<1>3. QED
  BY <1>1, <1>2, Invariance, PTL DEF Spec

\* Two seats of a battle that plays are two places.
LEMMA InvFitToFight == ASSUME IInv, PInv PROVE FitToFight
<1> SUFFICES ASSUME NEW b \in Battles, pc[b] = "play"
             PROVE  /\ status[b][1].player # status[b][2].player
                    /\ \A i \in 1 .. 2 : /\ status[b][i].HP \in 1 .. roster[status[b][i].player].HP
                                         /\ status[b][i].battle = b
                                         /\ status[b][i].ended = 0
  BY DEF FitToFight
<1>1. ASSUME NEW i \in 1 .. 2
      PROVE  /\ Fit(status[b][i]) /\ status[b][i].battle = b
             /\ SeatOf(b, i) \in Places /\ At(SeatOf(b, i)) = {status[b][i]} /\ Bounded(status[b][i])
  <2>1. Held(b, i)
    BY DEF Held
  <2>2. Link(b, i)
    BY DEF IInv, Links
  <2>3. SeatOf(b, i) \in Places /\ At(SeatOf(b, i)) = {status[b][i]}
    BY <2>1, SeatIs DEF Seated
  <2>4. Token(SeatOf(b, i), status[b][i])
    BY <2>3 DEF PInv, Tokens
  <2>5. QED
    BY <2>1, <2>2, <2>3, <2>4 DEF Link, Token
<1>2. ASSUME status[b][1].player = status[b][2].player PROVE FALSE
  <2>1. SeatOf(b, 1) # SeatOf(b, 2)
    BY DEF SeatOf
  <2>2. SeatOf(b, 1) = SeatOf(b, 2)
    BY <1>1, <1>2 DEF PInv, OnePlace
  <2>3. QED
    BY <2>1, <2>2
<1>3. ASSUME NEW i \in 1 .. 2
      PROVE  /\ status[b][i].HP \in 1 .. roster[status[b][i].player].HP
             /\ status[b][i].ended = 0
  <2> PICK s : s = status[b][i]
    OBVIOUS
  <2>1. s.HP \in Int /\ s.HP > 0 /\ s.ended = 0 /\ s.player \in Numbers /\ s.HP <= roster[s.player].HP
    BY <1>1 DEF Fit, Statuses, Bounded
  <2>2. roster[s.player].HP \in Int
    BY <2>1, RosterType
  <2>3. QED
    BY <2>1, <2>2
<1>4. QED
  BY <1>1, <1>2, <1>3

\* Two different players play in every battle, neither stronger than in the beginning.
THEOREM FightersAreFit == Spec => []FitToFight
BY Invariance, Placement, InvFitToFight, PTL

-----------------------------------------------------------------------------
(***************************************************************************)
(* The end: everybody has been waited for.                                 *)
(***************************************************************************)

\* The nodes that only nodes in S lead to.
Behind(next, S) == {x \in DOMAIN next : \A y \in DOMAIN next : x \in next[y] => y \in S}

\* The order of the definition.
LEMMA InOrderIs ==
  ASSUME NEW next, Cardinality(DOMAIN next) \in Nat
  PROVE  \E d : /\ d[0] = {} /\ \A k \in Nat \ {0} : d[k] = Behind(next, d[k - 1])
                /\ InOrder(next) = d[Cardinality(DOMAIN next)]
<1> DEFINE V == SUBSET DOMAIN next
           step == [k \in Nat \ {0} |-> [S \in V |-> Behind(next, S)]]
           Body(f) == [n \in Nat |-> IF n = 0 THEN {} ELSE Behind(next, f[n - 1])]
           g == CHOOSE f : f = Body(f)
<1>1. {} \in V /\ step \in [Nat \ {0} -> [V -> V]]
  BY DEF Behind
<1> PICK d : RecursesOnNat(d, V, {}, step)
  <2> HIDE DEF V, step
  <2> QED BY <1>1, RecursionOnNat
<1>2. d \in [Nat -> V] /\ d[0] = {} /\ \A k \in Nat \ {0} : d[k] = step[k][d[k - 1]]
  <2> HIDE DEF V, step
  <2> QED BY DEF RecursesOnNat
<1>3. \A k \in Nat \ {0} : d[k] = Behind(next, d[k - 1])
  <2> TAKE k \in Nat \ {0}
  <2>1. k - 1 \in Nat
    OBVIOUS
  <2>2. d[k - 1] \in V /\ d[k] = step[k][d[k - 1]]
    <3> HIDE DEF V, step
    <3> QED BY <1>2, <2>1
  <2>3. QED
    BY <2>2
<1>4. d = Body(d)
  <2>1. d = [k \in Nat |-> d[k]]
    <3> HIDE DEF V
    <3> QED BY <1>2
  <2>2. \A k \in Nat : d[k] = IF k = 0 THEN {} ELSE Behind(next, d[k - 1])
    BY <1>2, <1>3
  <2>3. QED
    BY <2>1, <2>2
<1>5. g = Body(g)
  <2> HIDE DEF Body
  <2> QED BY <1>4
<1>6. InOrder(next) = g[Cardinality(DOMAIN next)]
  BY DEF InOrder, Behind
<1>7. g[0] = {} /\ \A k \in Nat \ {0} : g[k] = Behind(next, g[k - 1])
  <2> HIDE DEF g
  <2> QED BY <1>5
<1>8. QED
  <2> HIDE DEF g
  <2> QED BY <1>6, <1>7

\* What holds of a node whenever it holds of all that lead to it, holds of everything that
\* can be put in order.
LEMMA OrderInduction ==
  ASSUME NEW next, Cardinality(DOMAIN next) \in Nat, NEW S,
         \A x \in DOMAIN next : x \notin S => \E y \in DOMAIN next \ S : x \in next[y]
  PROVE  InOrder(next) \subseteq S
<1> PICK d : /\ d[0] = {} /\ \A k \in Nat \ {0} : d[k] = Behind(next, d[k - 1])
             /\ InOrder(next) = d[Cardinality(DOMAIN next)]
  BY InOrderIs
<1> DEFINE T == {k \in Nat : d[k] \subseteq S}
<1>1. 0 \in T
  OBVIOUS
<1>2. ASSUME NEW k \in Nat, k \in T PROVE k + 1 \in T
  <2>1. k + 1 \in Nat \ {0} /\ (k + 1) - 1 = k
    OBVIOUS
  <2>2. d[k + 1] = Behind(next, d[k])
    BY <2>1
  <2>3. d[k] \subseteq S
    BY <1>2
  <2>4. Behind(next, d[k]) \subseteq S
    BY <2>3 DEF Behind
  <2>5. QED
    BY <2>1, <2>2, <2>4
<1>3. 0 .. Cardinality(DOMAIN next) \subseteq T
  <2> HIDE DEF T
  <2> QED BY <1>1, <1>2, UpTo
<1>4. Cardinality(DOMAIN next) \in 0 .. Cardinality(DOMAIN next)
  OBVIOUS
<1>5. QED
  BY <1>3, <1>4

\* A battle exits after its children have been reaped, and so does everybody below it.
LEMMA EverybodyIsReaped ==
  ASSUME IInv, pc["A"] \in Gone
  PROVE  \A x \in Procs \ {"A"} : pc[x] = "reaped"
<1> DEFINE Child == [x \in Procs |-> IF x \in Battles THEN ToSet(Children[x]) ELSE {}]
           Needs == [x \in Procs |-> Child[x] \union {b \in DOMAIN Agent : Agent[b] = x}]
           S == {x \in Procs : pc[x] \in Gone}
<1>1. InOrder(Needs) = Procs /\ IsFiniteSet(Procs)
  BY TournamentAssumption DEF WellFormed, Battles, Players, Procs
<1>2. DOMAIN Needs = Procs /\ Cardinality(DOMAIN Needs) \in Nat
  BY <1>1, FS_CardinalityType
<1>3. ASSUME NEW x \in Procs, x \notin S PROVE \E y \in Procs \ S : x \in Needs[y]
  <2>1. x # "A"
    BY <1>3
  <2>2. PICK b \in Battles, i \in 1 .. 2 : Children[b][i] = x
    BY <2>1, Tree
  <2>3. b \in Procs /\ x \in ToSet(Children[b])
    <3>1. ToSet(Children[b]) = {Children[b][1], Children[b][2]}
      BY Tree
    <3>2. QED
      BY <2>2, <3>1 DEF Procs
  <2>4. pc[b] \notin Gone
    BY <1>3, <2>3, InvNoOrphans DEF NoOrphans, Gone
  <2>5. x \in Needs[b]
    BY <2>3
  <2>6. QED
    BY <2>3, <2>4, <2>5
<1>4. Procs \subseteq S
  <2> HIDE DEF Needs, S
  <2> QED BY <1>1, <1>2, <1>3, OrderInduction
<1>5. ASSUME NEW x \in Procs \ {"A"} PROVE pc[x] = "reaped"
  <2>1. PICK b \in Battles, i \in 1 .. 2 : Children[b][i] = x
    BY Tree
  <2>2. b \in Procs /\ x \in ToSet(Children[b])
    BY <2>1, Tree DEF Procs
  <2>3. pc[b] \in Gone
    BY <1>4, <2>2
  <2>4. QED
    BY <2>2, <2>3, InvNoOrphans DEF NoOrphans
<1>6. QED
  BY <1>5

\* Then no status is anywhere.
LEMMA NobodyIsLeft ==
  ASSUME IInv, pc["A"] \in Gone
  PROVE  \A n : ~Present(n)
<1>1. \A x \in Procs : pc[x] \in Gone
  BY EverybodyIsReaped DEF Gone
<1>2. \A x \in Procs : up[x] = <<>> /\ down[x] = <<>> /\ (x \in Players => fifo[x] = <<>>)
  BY <1>1, InvNothingUnread DEF NothingUnread
<1>3. \A x \in Procs : ToSet(up[x]) = {} /\ ToSet(down[x]) = {} /\ InFifo(x) = {}
  BY <1>2, NothingInside DEF InFifo
<1>4. \A x \in Procs : Seated(x, 1) = {} /\ Seated(x, 2) = {} /\ InHand(x) = {} /\ InFile(x) = {}
  BY <1>1 DEF Seated, Held, InHand, InFile, Gone
<1>5. ASSUME NEW k \in Places PROVE At(k) = {}
  <2>1. PICK x \in Procs : \/ k = <<"up", x>> \/ k = <<"down", x>> \/ k = <<"first", x>>
                           \/ k = <<"second", x>> \/ k = <<"hand", x>> \/ k = <<"fifo", x>> \/ k = <<"file", x>>
    BY Kinds
  <2>2. /\ At(<<"up", x>>) = {} /\ At(<<"down", x>>) = {} /\ At(<<"first", x>>) = {}
        /\ At(<<"second", x>>) = {} /\ At(<<"hand", x>>) = {} /\ At(<<"fifo", x>>) = {}
        /\ At(<<"file", x>>) = {}
    BY <1>3, <1>4, PlaceAt
  <2>3. QED
    BY <2>1, <2>2
<1>6. QED
  BY <1>5 DEF Present

LEMMA InvDoubleElimination == ASSUME IInv, PInv PROVE DoubleElimination
<1> SUFFICES ASSUME champion # -1, NEW n \in Numbers
             PROVE  IF n = champion
                    THEN Len(defeats[n]) <= 1 /\ "A" \notin ToSet(defeats[n])
                    ELSE \/ defeats[n] = <<"A">>
                         \/ /\ Len(defeats[n]) = 2
                            /\ defeats[n][1] \in DOMAIN Agent
                            /\ defeats[n][2] \notin DOMAIN Agent
  BY DEF DoubleElimination
<1>1. pc["A"] \in Gone /\ champion = Winner("A") /\ (Won(n) => Record(n, TRUE) \/ Record(n, FALSE))
  BY DEF PInv, Champion
<1>2. Out(n)
  BY <1>1, NobodyIsLeft DEF PInv, Everybody
<1>3. Won(n) <=> n = champion
  BY <1>1 DEF Won, Decided
<1>4. CASE n = champion
  <2>1. CASE defeats[n] = <<>>
    <3>1. ToSet(defeats[n]) = {}
      BY <2>1, NothingInside
    <3>2. Len(defeats[n]) = 0
      BY <2>1
    <3>3. QED
      BY <1>4, <3>1, <3>2
  <2>2. CASE \E a \in DOMAIN Agent : defeats[n] = <<a>>
    <3>1. PICK a \in DOMAIN Agent : defeats[n] = <<a>>
      BY <2>2
    <3>2. a # "A"
      BY Halves
    <3>3. PICK q : q = <<a>>
      OBVIOUS
    <3>4. ToSet(q) = {a} /\ Len(q) = 1
      BY <3>3 DEF ToSet
    <3>5. QED
      BY <1>4, <3>1, <3>2, <3>3, <3>4
  <2>3. QED
    BY <1>1, <1>3, <1>4, <2>1, <2>2 DEF Record
<1>5. CASE n # champion
  <2>1. CASE defeats[n] = <<"A">>
    BY <1>5, <2>1
  <2>2. CASE \E a \in DOMAIN Agent, b \in Battles \ DOMAIN Agent : defeats[n] = <<a, b>>
    <3>1. PICK a \in DOMAIN Agent, b \in Battles \ DOMAIN Agent : defeats[n] = <<a, b>>
      BY <2>2
    <3>2. PICK q : q = <<a, b>>
      OBVIOUS
    <3>3. Len(q) = 2 /\ q[1] = a /\ q[2] = b
      BY <3>2
    <3>4. QED
      BY <1>5, <3>1, <3>2, <3>3
  <2>3. QED
    BY <1>2, <1>3, <1>5, <2>1, <2>2 DEF Out
<1>6. QED
  BY <1>4, <1>5

\* When a champion has been named everyone else has lost twice, or the last battle, and the
\* champion once at most.
THEOREM EverybodyElseHasLost == Spec => []DoubleElimination
BY Invariance, Placement, InvDoubleElimination, PTL
=============================================================================
