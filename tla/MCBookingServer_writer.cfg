CONSTANTS
  Limit = 2
  IntMax <- MCIntMax
  ReadServers = {}
  WriteServers = {w1}
  Records = {r1}
  NoId = NoId
  NSlots = 2
  OnDisk <- EmptyOnDisk
  Commands <- MCCommands
  Words = {"exit", "junk", "ctrlc", "partial"}
  Departures = {"fin", "rst"}
  Polite = FALSE
  Kills = TRUE
  MaxReaders = 1
  Free = Free
SPECIFICATION FairSpec
INVARIANTS TypeOK RecordsValid SecondLineHasSession ShownIsCurrent
PROPERTIES ImplementsLedger CommandFreesRecord
