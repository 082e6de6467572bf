SPECIFICATION Spec
CONSTANTS
  Children <- MCChildren
  Id <- MCId
  Agent <- MCAgent
  BattleAttr <- MCBattleAttr
  Rosters <- MCRosters
INVARIANTS
  TypeOK
  TakeTurns
  NothingUnread
  LoserGoesFirst
  NoOrphans
  FitToFight
  DoubleElimination
  SameChampion
PROPERTY
  EveryoneExits
CHECK_DEADLOCK FALSE
