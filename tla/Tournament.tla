----------------------------- MODULE Tournament -----------------------------
(***************************************************************************)
(* HW2: a tournament of processes (battle.c, player.c).  A battle forks    *)
(* its two children, battles or players, and shares two pipes with each.   *)
(* It reads a status from either child, plays a round and sends both back  *)
(* until one has lost; then it waits for the loser's side to exit and      *)
(* relays between the winner below and its own parent.  A real player who  *)
(* loses hands its status over a FIFO to the agent of that battle, a       *)
(* player process that has waited for it in the other half of the tree.    *)
(*                                                                         *)
(* Programs between two blocking calls run alone; what they send never     *)
(* blocks, so that a step is one blocking call and all that follows it.    *)
(***************************************************************************)
EXTENDS TournamentTree, Integers

CONSTANTS
  Children,    \* the two children of every battle
  Id,          \* the number of every player process
  Agent,       \* the agent of every battle that has one
  BattleAttr,  \* the attribute a battle doubles
  Rosters      \* HP, ATK and attribute of the real players, by number

ASSUME TournamentAssumption ==
  /\ WellFormed(Children, Agent, Id, "A")
  /\ DOMAIN BattleAttr = DOMAIN Children
  /\ \A r \in Rosters : \A n \in DOMAIN r : r[n].HP \in Nat \ {0} /\ r[n].ATK \in Nat \ {0}
  /\ \A r \in Rosters : DOMAIN r = {n \in {Id[p] : p \in DOMAIN Id} : IsReal(n)}

Battles == DOMAIN Children
Players == DOMAIN Id
Procs   == Battles \union Players

VARIABLES
  pc,          \* where a process is
  status,      \* status[2] of a battle
  win,         \* the winner's place in it, 0 before there is one
  mystatus,    \* of a player
  origin_HP,   \* of a player
  down, up,    \* pipes: to the stdin and from the stdout of a process
  fifos,       \* the FIFOs of the agents that exist in the directory
  fifo,        \* what has been written to the FIFO of an agent
  champion,    \* what A has printed
  roster,      \* player_status.txt
  defeats      \* history: the battles each real player has lost, in order

vars == <<pc, status, win, mystatus, origin_HP, down, up, fifos, fifo, champion, roster, defeats>>

-----------------------------------------------------------------------------
\* A status; ATK and attr never change and are looked up in the roster.
NoStatus == [player |-> -1, HP |-> 0, battle |-> "none", ended |-> 0]

Power(b, s) ==
  roster[s.player].ATK * (IF roster[s.player].attr = BattleAttr[b] THEN 2 ELSE 1)

Ended(pair) == [i \in 1 .. 2 |-> [pair[i] EXCEPT !.ended = 1]]

\* One round: the weaker strikes first, the other one strikes back if it can.
play(b, pair) ==
  LET first  == IF \/ pair[1].HP < pair[2].HP
                   \/ pair[1].HP = pair[2].HP /\ pair[1].player < pair[2].player
                THEN 1 ELSE 2
      second == 3 - first
      strike == [pair EXCEPT ![second].HP = @ - Power(b, pair[first])]
      back   == [strike EXCEPT ![first].HP = @ - Power(b, pair[second])]
  IN  IF strike[second].HP <= 0 THEN Ended(strike)
      ELSE IF back[first].HP <= 0 THEN Ended(back) ELSE back

\* Slip: a tired winner.
NotRecovered(s, origin) == [s EXCEPT !.ended = 0]

\* The winner of a battle recovers half of what it has lost.
Recovered(s, origin) == [s EXCEPT !.HP = (origin - @) \div 2 + @, !.ended = 0]

\* Slip: the flag of the lost battle stays up.
StillEnded(s, origin) == [s EXCEPT !.HP = origin]

\* The loser goes on with full HP.
Restored(s, origin) == [s EXCEPT !.HP = origin, !.ended = 0]

Goto(x, label) == pc' = [pc EXCEPT ![x] = label]

Send(pipe, x, s) == [pipe EXCEPT ![x] = Append(@, s)]
Receive(pipe, x) == [pipe EXCEPT ![x] = Tail(@)]

-----------------------------------------------------------------------------
\* Either a clean directory or one with the FIFOs of an earlier tournament.
Init ==
  /\ pc = [x \in Procs |-> IF x = "A" THEN "fork_1" ELSE "unborn"]
  /\ status = [b \in Battles |-> <<NoStatus, NoStatus>>]
  /\ win = [b \in Battles |-> 0]
  /\ mystatus = [p \in Players |-> NoStatus]
  /\ origin_HP = [p \in Players |-> 0]
  /\ down = [x \in Procs |-> <<>>]
  /\ up = [x \in Procs |-> <<>>]
  /\ fifos \in {{}, {p \in Players : ~IsReal(Id[p])}}
  /\ fifo = [p \in Players |-> <<>>]
  /\ champion = -1
  /\ roster \in Rosters
  /\ defeats = [n \in DOMAIN roster |-> <<>>]

\* Slip: battle_num is one too large.
StartsAsBattle(c) == "fork_1"

\* The program a child is told to be.
Starts(c) == IF c \in Battles THEN "fork_1" ELSE "start"

\* fork and exec of a child; the second one is forked later.
Fork(b, i) ==
  /\ pc[b] = <<"fork_1", "fork_2">>[i]
  /\ LET c == Children[b][i]
     IN  pc' = [pc EXCEPT ![b] = <<"fork_2", "enter_1">>[i], ![c] = Starts(c)]
  /\ UNCHANGED <<status, win, mystatus, origin_HP, down, up, fifos, fifo, champion, roster, defeats>>

\* The first status of a child takes part in this battle from now on.
Admit(b, i) ==
  LET c == Children[b][i]
  IN  /\ pc[b] = <<"enter_1", "enter_2">>[i]
      /\ up[c] # <<>>
      /\ status' = [status EXCEPT ![b][i] = [Head(up[c]) EXCEPT !.battle = b]]
      /\ up' = Receive(up, c)
      /\ Goto(b, <<"enter_2", "play">>[i])
      /\ UNCHANGED <<win, mystatus, origin_HP, down, fifos, fifo, champion, roster, defeats>>

\* Slip: only the first status is waited for.
AfterReadPlay(i) == "play"

\* Both statuses are waited for.
AfterRead(i) == <<"read_2", "play">>[i]

\* The statuses that come back after a round.
ReadBack(b, i) ==
  LET c == Children[b][i]
  IN  /\ pc[b] = <<"read_1", "read_2">>[i]
      /\ up[c] # <<>>
      /\ status' = [status EXCEPT ![b][i] = Head(up[c])]
      /\ up' = Receive(up, c)
      /\ Goto(b, AfterRead(i))
      /\ UNCHANGED <<win, mystatus, origin_HP, down, fifos, fifo, champion, roster, defeats>>

\* A round, which both children are told of.
Play(b) ==
  /\ pc[b] = "play"
  /\ LET pair == play(b, status[b])
         over == pair[1].ended = 1
         w    == IF pair[1].HP > 0 THEN 1 ELSE 2
     IN  /\ status' = [status EXCEPT ![b] = pair]
         /\ down' = Send(Send(down, Children[b][1], pair[1]), Children[b][2], pair[2])
         /\ win' = [win EXCEPT ![b] = IF over THEN w ELSE 0]
         /\ defeats' = IF over THEN [defeats EXCEPT ![pair[3 - w].player] = Append(@, b)] ELSE defeats
         /\ Goto(b, IF over THEN "wait" ELSE "read_1")
  /\ UNCHANGED <<mystatus, origin_HP, up, fifos, fifo, champion, roster>>

\* wait(0) for whichever child exits; A waits for both and names the champion.
WaitFirst(b) ==
  /\ pc[b] = "wait"
  /\ \E c \in ToSet(Children[b]) :
       /\ pc[c] = "exit"
       /\ pc' = [pc EXCEPT ![c] = "reaped", ![b] = IF b = "A" THEN "last_wait" ELSE "relay_up"]
  /\ UNCHANGED <<status, win, mystatus, origin_HP, down, up, fifos, fifo, champion, roster, defeats>>

\* Slip: the champion is whoever sits first.
WinnerSitsFirst(b) == status[b][1].player

Winner(b) == status[b][win[b]].player

WaitLast(b) ==
  /\ pc[b] = "last_wait"
  /\ \E c \in ToSet(Children[b]) :
       /\ pc[c] = "exit"
       /\ pc' = [pc EXCEPT ![c] = "reaped", ![b] = "exit"]
  /\ champion' = IF b = "A" THEN Winner(b) ELSE champion
  /\ UNCHANGED <<status, win, mystatus, origin_HP, down, up, fifos, fifo, roster, defeats>>

\* The winner's answer goes to the parent ...
RelayUp(b) ==
  LET c == Children[b][win[b]]
  IN  /\ pc[b] = "relay_up"
      /\ up[c] # <<>>
      /\ status' = [status EXCEPT ![b][win[b]] = Head(up[c])]
      /\ up' = Send(Receive(up, c), b, Head(up[c]))
      /\ Goto(b, "relay_down")
      /\ UNCHANGED <<win, mystatus, origin_HP, down, fifos, fifo, champion, roster, defeats>>

\* Slip: the last child is not waited for.
AfterRelayExit(s) ==
  IF s.HP <= 0 \/ (s.battle = "A" /\ s.ended = 1) THEN "exit" ELSE "relay_up"

\* A winner that has lost above, or has fought the last battle, exits.
AfterRelay(s) ==
  IF s.HP <= 0 \/ (s.battle = "A" /\ s.ended = 1) THEN "last_wait" ELSE "relay_up"

\* ... and the parent's to the winner, until it has lost or won the last battle.
RelayDown(b) ==
  LET c == Children[b][win[b]]
      s == Head(down[b])
  IN  /\ pc[b] = "relay_down"
      /\ down[b] # <<>>
      /\ status' = [status EXCEPT ![b][win[b]] = s]
      /\ down' = Send(Receive(down, b), c, s)
      /\ Goto(b, AfterRelay(s))
      /\ UNCHANGED <<win, mystatus, origin_HP, up, fifos, fifo, champion, roster, defeats>>

-----------------------------------------------------------------------------
\* A player has its status and sends it to its parent.
Begin(p, s) ==
  /\ mystatus' = [mystatus EXCEPT ![p] = s]
  /\ origin_HP' = [origin_HP EXCEPT ![p] = s.HP]
  /\ up' = Send(up, p, s)
  /\ Goto(p, "fight")

\* A real player reads player_status.txt.
ReadStatus(p) ==
  /\ pc[p] = "start" /\ IsReal(Id[p])
  /\ Begin(p, [NoStatus EXCEPT !.player = Id[p], !.HP = roster[Id[p]].HP])
  /\ UNCHANGED <<status, win, down, fifos, fifo, champion, roster, defeats>>

\* An agent makes its FIFO, which may be there already, and opens it to read.
MakeFifo(p) ==
  /\ pc[p] = "start" /\ ~IsReal(Id[p])
  /\ fifos' = fifos \union {p}
  /\ Goto(p, "open_read")
  /\ UNCHANGED <<status, win, mystatus, origin_HP, down, up, fifo, champion, roster, defeats>>

\* Slip: a FIFO that is not there yet is given up.
OpenFailedOnce == "exit"

\* The while around the open.
OpenFailed == "open_write"

\* The loser cannot open a FIFO that does not exist and tries again.
RetryOpen(p) ==
  /\ pc[p] = "open_write"
  /\ Agent[mystatus[p].battle] \notin fifos
  /\ Goto(p, OpenFailed)
  /\ UNCHANGED <<status, win, mystatus, origin_HP, down, up, fifos, fifo, champion, roster, defeats>>

\* An open for writing and one for reading return when both ends are there.
OpenFifo(p) ==
  /\ pc[p] = "open_write"
  /\ LET a == Agent[mystatus[p].battle]
     IN  /\ a \in fifos /\ pc[a] = "open_read"
         /\ pc' = [pc EXCEPT ![p] = "hand_over", ![a] = "take_over"]
  /\ UNCHANGED <<status, win, mystatus, origin_HP, down, up, fifos, fifo, champion, roster, defeats>>

\* The loser writes its status to the FIFO and exits.
HandOver(p) ==
  /\ pc[p] = "hand_over"
  /\ fifo' = Send(fifo, Agent[mystatus[p].battle], mystatus[p])
  /\ Goto(p, "exit")
  /\ UNCHANGED <<status, win, mystatus, origin_HP, down, up, fifos, champion, roster, defeats>>

\* The agent reads it and begins in the loser's place.
TakeOver(p) ==
  /\ pc[p] = "take_over"
  /\ fifo[p] # <<>>
  /\ Begin(p, Head(fifo[p]))
  /\ fifo' = Receive(fifo, p)
  /\ UNCHANGED <<status, win, down, fifos, champion, roster, defeats>>

\* The player reads the outcome of a round, of which it keeps mine.
Told(p, s, mine) ==
  /\ pc[p] = "fight"
  /\ down[p] # <<>> /\ s = Head(down[p])
  /\ down' = Receive(down, p)
  /\ mystatus' = [mystatus EXCEPT ![p] = mine]
  /\ UNCHANGED <<status, win, origin_HP, fifos, fifo, champion, roster, defeats>>

\* The battle goes on: the status is sent back as it is.
FightOn(p, s) ==
  /\ Told(p, s, s)
  /\ s.ended = 0
  /\ up' = Send(up, p, s)
  /\ UNCHANGED pc

\* The winner rests and is ready for the next battle.
Advance(p, s) ==
  /\ Told(p, s, Recovered(s, origin_HP[p]))
  /\ s.ended = 1 /\ s.HP > 0 /\ s.battle # "A"
  /\ up' = Send(up, p, mystatus'[p])
  /\ UNCHANGED pc

\* A real player has lost; sent is what its parent still has from it.
LoseAfter(p, s, sent) ==
  /\ Told(p, s, Restored(s, origin_HP[p]))
  /\ s.ended = 1 /\ s.HP <= 0 /\ s.battle # "A" /\ IsReal(Id[p])
  /\ up' = sent
  /\ Goto(p, "open_write")

\* Slip: the lost status is sent back like any other.
LoseAndAnswer(p, s) == LoseAfter(p, s, Send(up, p, s))

\* It sends nothing and looks for the agent of this battle.
Lose(p, s) == LoseAfter(p, s, up)

\* Slip: every winner goes home.
IsOutEarly(p, s) == s.HP > 0 \/ s.battle = "A" \/ ~IsReal(Id[p])

\* Nothing is left to do after A, or for an agent that has lost.
IsOut(p, s) == s.battle = "A" \/ (s.HP <= 0 /\ ~IsReal(Id[p]))

Leave(p, s) ==
  /\ Told(p, s, s)
  /\ s.ended = 1 /\ IsOut(p, s)
  /\ Goto(p, "exit")
  /\ UNCHANGED up

-----------------------------------------------------------------------------
BattleStep(b) ==
  \/ \E i \in 1 .. 2 : Fork(b, i) \/ Admit(b, i) \/ ReadBack(b, i)
  \/ Play(b) \/ WaitFirst(b) \/ WaitLast(b) \/ RelayUp(b) \/ RelayDown(b)

PlayerStep(p) ==
  \/ ReadStatus(p) \/ MakeFifo(p)
  \/ RetryOpen(p) \/ OpenFifo(p) \/ HandOver(p) \/ TakeOver(p)
  \/ \E s \in ToSet(down[p]) : FightOn(p, s) \/ Advance(p, s) \/ Lose(p, s) \/ Leave(p, s)

Next ==
  \/ \E b \in Battles : BattleStep(b)
  \/ \E p \in Players : PlayerStep(p)

\* Every process that can run is run by the kernel, sooner or later.
Spec ==
  /\ Init /\ [][Next]_vars
  /\ \A b \in Battles : WF_vars(BattleStep(b))
  /\ \A p \in Players : WF_vars(PlayerStep(p))
-----------------------------------------------------------------------------
Gone == {"exit", "reaped"}

\* Type correctness.
Numbers == DOMAIN roster
Statuses == [player : Numbers \union {-1}, HP : Int, battle : Battles \union {"none"}, ended : {0, 1}]

TypeOK ==
  /\ \A b \in Battles :
       /\ pc[b] \in {"unborn", "fork_1", "fork_2", "enter_1", "enter_2", "play", "read_1", "read_2",
                     "wait", "relay_up", "relay_down", "last_wait"} \union Gone
       /\ \A i \in 1 .. 2 : status[b][i] \in Statuses
       /\ win[b] \in 0 .. 2
  /\ \A p \in Players :
       /\ pc[p] \in {"unborn", "start", "fight", "open_write", "hand_over", "open_read", "take_over"}
                      \union Gone
       /\ mystatus[p] \in Statuses
       /\ \A s \in ToSet(fifo[p]) : s \in Statuses
  /\ \A x \in Procs : \A s \in ToSet(down[x] \o up[x]) : s \in Statuses
  /\ champion \in Numbers \union {-1}

\* A parent and a child take turns, through every relay: at most one status is
\* on its way between them, so that nobody reads an answer to an earlier one and
\* no pipe fills up.
TakeTurns == \A x \in Procs : Len(up[x]) + Len(down[x]) <= 1

\* A process leaves no status unread that it has sent or been sent.
NothingUnread ==
  \A x \in Procs : pc[x] \in Gone =>
    /\ up[x] = <<>> /\ down[x] = <<>>
    /\ x \in Players => fifo[x] = <<>>

\* The child that the first wait(0) of a battle meets is the loser's: the
\* winner's stays until its last status has been relayed.  Nobody ever reads from
\* or writes to a process that has gone, so that end of file and SIGPIPE do not
\* occur.
LoserGoesFirst ==
  \A b \in Battles, i \in 1 .. 2 : pc[Children[b][i]] \in Gone =>
    /\ pc[b] \in {"wait", "relay_up", "relay_down", "last_wait"} \union Gone
    /\ win[b] = i => pc[b] \in {"last_wait"} \union Gone \/ b = "A"

\* Every child has been waited for when its parent exits.
NoOrphans ==
  \A b \in Battles : pc[b] \in Gone => \A c \in ToSet(Children[b]) : pc[c] = "reaped"

\* Whatever way a fighter has come into a battle, up the tree or through a FIFO,
\* it is alive, not stronger than it was in the beginning, knows where it is, and
\* does not carry the flag of an earlier battle.
FitToFight ==
  \A b \in Battles : pc[b] = "play" =>
    /\ status[b][1].player # status[b][2].player
    /\ \A i \in 1 .. 2 :
         /\ status[b][i].HP \in 1 .. roster[status[b][i].player].HP
         /\ status[b][i].battle = b
         /\ status[b][i].ended = 0

\* Double elimination: who is not the champion has lost the last battle, maybe as the
\* only one, or has lost twice, the first time in the winners' tree and the second
\* time in the losers' tree or in the last battle; the champion has lost at most once,
\* and not the last battle.
DoubleElimination ==
  champion # -1 =>
    \A n \in Numbers :
      IF n = champion
      THEN Len(defeats[n]) <= 1 /\ "A" \notin ToSet(defeats[n])
      ELSE \/ defeats[n] = <<"A">>
           \/ /\ Len(defeats[n]) = 2
              /\ defeats[n][1] \in DOMAIN Agent
              /\ defeats[n][2] \notin DOMAIN Agent

\* The tournament played battle by battle, in one program.
Outcome(b, pair) ==
  LET rounds[k \in Nat] ==
        IF k = 0 THEN pair
        ELSE LET before == rounds[k - 1]
             IN  IF before[1].ended = 1 THEN before ELSE play(b, before)
  IN  rounds[pair[1].HP + pair[2].HP]

Entrant ==
  LET fresh(n) == [NoStatus EXCEPT !.player = n, !.HP = roster[n].HP]
      entrant[x \in Procs] ==
        IF x \in Players /\ IsReal(Id[x]) THEN fresh(Id[x])
        ELSE LET b    == IF x \in Battles THEN x ELSE CHOOSE c \in DOMAIN Agent : Agent[c] = x
                 pair == Outcome(b, [i \in 1 .. 2 |-> entrant[Children[b][i]]])
                 w    == IF pair[1].HP > 0 THEN 1 ELSE 2
             IN  IF x \in Battles
                 THEN [pair[w] EXCEPT !.HP = (roster[pair[w].player].HP - @) \div 2 + @, !.ended = 0]
                 ELSE fresh(pair[3 - w].player)
  IN  entrant

\* The champion does not depend on the order in which the processes ran.
SameChampion == champion # -1 => champion = Entrant["A"].player

\* Liveness: whatever FIFO is opened first, every process exits, all are waited
\* for and a champion is named.
EveryoneExits ==
  <>(champion # -1 /\ pc["A"] = "exit" /\ \A x \in Procs \ {"A"} : pc[x] = "reaped")
=============================================================================
