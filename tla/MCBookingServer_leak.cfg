CONSTANTS
  Limit = 2
  IntMax <- MCIntMax
  ReadServers = {}
  WriteServers = {w1}
  Records = {r1}
  NoId = NoId
  NSlots = 1
  OnDisk <- EmptyOnDisk
  Commands <- OneCommand
  Words = {"exit"}
  Departures = {"fin"}
  Polite = FALSE
  Kills = FALSE
  MaxReaders = 1
  Free = Free
SPECIFICATION Spec
INVARIANTS LockHasSession
