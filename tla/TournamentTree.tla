--------------------------- MODULE TournamentTree ---------------------------
(***************************************************************************)
(* HW2: who plays where.  battle.c and player.c hold the tree of processes *)
(* in tables that must agree: the children of a battle and how many of     *)
(* them are battles, the parent of a battle, the battle of a player, and   *)
(* the agent, a player process of the losers' tree, that carries on for    *)
(* the loser of a battle.  A process is named as in the logs, a player     *)
(* with a P in front of its id.                                            *)
(***************************************************************************)
EXTENDS Naturals, FiniteSets, SequencesExt

\* A real player is told by its id.
IsReal(n) == n <= 7

\* What can be put in order, everything behind all that leads to it, next[y] being the
\* successors of y: nothing is missing when there is no cycle.
InOrder(next) ==
  LET ordered[n \in Nat] ==
        IF n = 0 THEN {}
        ELSE LET before == ordered[n - 1]
             IN  {x \in DOMAIN next : \A y \in DOMAIN next : x \in next[y] => y \in before}
  IN  ordered[Cardinality(DOMAIN next)]

\* Whether x is in the winners' half of the tree: a real player, or a battle whose
\* loser goes on.
AmongWinners(x, agent, id) == IF x \in DOMAIN id THEN IsReal(id[x]) ELSE x \in DOMAIN agent

\* What both programs take for granted of the tables: every process but the
\* root has one seat, the halves of the winners and of the losers meet in the
\* root only, every battle of the winners has an agent of its own, and no process
\* waits for itself, be it for a winner below it or for the loser of another battle.
WellFormed(children, agent, id, root) ==
  LET Battles == DOMAIN children
      Procs == Battles \union DOMAIN id
      Seats == Battles \X (1 .. 2)
      Child == [x \in Procs |-> IF x \in Battles THEN ToSet(children[x]) ELSE {}]
      Needs == [x \in Procs |-> Child[x] \union {b \in DOMAIN agent : agent[b] = x}]
  IN  /\ root \in Battles /\ Battles \intersect DOMAIN id = {} /\ IsFiniteSet(Procs)
      /\ \A b \in Battles : children[b] \in (Procs \ {root}) \X (Procs \ {root})
      /\ \A x \in Procs \ {root} : Cardinality({s \in Seats : children[s[1]][s[2]] = x}) = 1
      /\ \A p, q \in DOMAIN id : id[p] = id[q] => p = q
      /\ DOMAIN agent \subseteq Battles \ {root}
      /\ \A b \in Battles \ {root}, i \in 1 .. 2 :
           AmongWinners(children[b][i], agent, id) <=> b \in DOMAIN agent
      /\ {agent[b] : b \in DOMAIN agent} = {p \in DOMAIN id : ~IsReal(id[p])}
      /\ \A b, c \in DOMAIN agent : agent[b] = agent[c] => b = c
      /\ InOrder(Needs) = Procs

-----------------------------------------------------------------------------
child_name ==
  [A |-> <<"B", "C">>,   B |-> <<"D", "E">>,   C |-> <<"F", "P14">>, D |-> <<"G", "H">>,
   E |-> <<"I", "J">>,   F |-> <<"K", "L">>,   G |-> <<"P0", "P1">>, H |-> <<"P2", "P3">>,
   I |-> <<"P4", "P5">>, J |-> <<"P6", "P7">>, K |-> <<"M", "P10">>, L |-> <<"N", "P13">>,
   M |-> <<"P8", "P9">>, N |-> <<"P11", "P12">>]

battle_num == [A |-> 2, B |-> 2, C |-> 1, D |-> 2, E |-> 2, F |-> 2, G |-> 0,
               H |-> 0, I |-> 0, J |-> 0, K |-> 1, L |-> 1, M |-> 0, N |-> 0]

parent_table == [B |-> "A", C |-> "A", D |-> "B", E |-> "B", F |-> "C", G |-> "D", H |-> "D",
                 I |-> "E", J |-> "E", K |-> "F", L |-> "F", M |-> "K", N |-> "L"]

which_agent == [G |-> "P8", I |-> "P9", D |-> "P10", H |-> "P11", J |-> "P12",
                E |-> "P13", B |-> "P14"]

which_target == [P0 |-> "G", P1 |-> "G", P2 |-> "H", P3 |-> "H", P4 |-> "I", P5 |-> "I",
                 P6 |-> "J", P7 |-> "J", P8 |-> "M", P9 |-> "M", P10 |-> "K", P11 |-> "N",
                 P12 |-> "N", P13 |-> "L", P14 |-> "C"]

player_id == [P0 |-> 0, P1 |-> 1, P2 |-> 2, P3 |-> 3, P4 |-> 4, P5 |-> 5, P6 |-> 6, P7 |-> 7,
              P8 |-> 8, P9 |-> 9, P10 |-> 10, P11 |-> 11, P12 |-> 12, P13 |-> 13, P14 |-> 14]

\* The tables of the code agree with each other and are well-formed.
ASSUME TablesAgree ==
  /\ WellFormed(child_name, which_agent, player_id, "A")
  /\ DOMAIN battle_num = DOMAIN child_name
  /\ \A b \in DOMAIN child_name, i \in 1 .. 2 :
       LET c == child_name[b][i]
       IN  /\ i <= battle_num[b] <=> c \in DOMAIN child_name
           /\ IF i <= battle_num[b] THEN parent_table[c] = b ELSE which_target[c] = b
=============================================================================
