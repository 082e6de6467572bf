CONSTANTS
  Limit = 2
  IntMax <- MCIntMax
  ReadServers = {}
  WriteServers = {w1, w2}
  Records = {r1}
  NoId = NoId
  NSlots = 1
  OnDisk <- EmptyOnDisk
  Commands <- OneCommand
  Words = {}
  Departures = {}
  Polite = FALSE
  Kills = FALSE
  MaxReaders = 1
  Free = Free
SPECIFICATION Spec
INVARIANTS OneWriter
