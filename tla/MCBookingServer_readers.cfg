CONSTANTS
  Limit = 2
  IntMax <- MCIntMax
  ReadServers = {p1}
  WriteServers = {}
  Records = {r1}
  NoId = NoId
  NSlots = 2
  OnDisk <- EmptyOnDisk
  Commands <- OneCommand
  Words = {"exit", "junk", "ctrlc"}
  Departures = {"fin", "rst"}
  Polite = FALSE
  Kills = TRUE
  MaxReaders = 1
  Free = Free
SPECIFICATION FairSpec
INVARIANTS KernelLockCounted
PROPERTIES KernelLockKept InputIsRead
