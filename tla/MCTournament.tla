---------------------------- MODULE MCTournament ----------------------------
(***************************************************************************)
(* A tournament of four real players: the top of the code's tree with the  *)
(* battles G to J replaced by players, and as many agents as it needs.     *)
(***************************************************************************)
EXTENDS Tournament

MCChildren == [A |-> <<"B", "C">>, B |-> <<"D", "E">>, C |-> <<"F", "P14">>,
               D |-> <<"P0", "P1">>, E |-> <<"P2", "P3">>, F |-> <<"P10", "P13">>]

MCId == [P0 |-> 0, P1 |-> 1, P2 |-> 2, P3 |-> 3, P10 |-> 10, P13 |-> 13, P14 |-> 14]

MCAgent == [D |-> "P10", E |-> "P13", B |-> "P14"]

MCBattleAttr == [A |-> "FIRE", B |-> "GRASS", C |-> "WATER", D |-> "WATER",
                 E |-> "FIRE", F |-> "FIRE"]

Fighter(hp, atk, attr) == [HP |-> hp, ATK |-> atk, attr |-> attr]

Roster(a, b, c, d) == [n \in 0 .. 3 |-> <<a, b, c, d>>[n + 1]]

\* Short and long battles, ties, a loser that comes back, and an attribute that
\* decides.
MCRosters ==
  { Roster(Fighter(2, 1, "FIRE"),  Fighter(2, 1, "FIRE"),  Fighter(3, 2, "WATER"), Fighter(2, 1, "GRASS")),
    Roster(Fighter(4, 2, "GRASS"), Fighter(5, 1, "WATER"), Fighter(1, 3, "FIRE"),  Fighter(4, 2, "WATER")),
    Roster(Fighter(3, 1, "WATER"), Fighter(1, 1, "GRASS"), Fighter(2, 2, "FIRE"),  Fighter(6, 1, "GRASS")),
    Roster(Fighter(1, 1, "FIRE"),  Fighter(6, 2, "FIRE"),  Fighter(5, 1, "GRASS"), Fighter(5, 2, "FIRE")) }
=============================================================================
