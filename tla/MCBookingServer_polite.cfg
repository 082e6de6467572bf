CONSTANTS
  Limit = 2
  IntMax <- MCIntMax
  ReadServers = {p1}
  WriteServers = {w1}
  Records = {r1}
  NoId = NoId
  NSlots = 1
  OnDisk <- EmptyOnDisk
  Commands <- OneCommand
  Words = {"exit", "junk", "ctrlc"}
  Departures = {}
  Polite = TRUE
  Kills = FALSE
  MaxReaders = 1
  Free = Free
SPECIFICATION Spec
INVARIANTS LockHasSession
