CONSTANTS
  IntMax = 6
  FibArgs <- MCFibArgs
  ColArgs <- MCColArgs
  SubArgs <- MCSubArgs
  Timeslice = 3
  Lines <- MCLines
  Leftovers = {"7"}
  MaxInput = 3
SPECIFICATION FairSpec
INVARIANTS TypeOK InOnePlace AlarmLives FibonacciRight SubarrayRight
PROPERTIES ImplementsThreads FairShare ReaderWakes Terminates
