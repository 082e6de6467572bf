SPECIFICATION Spec
CONSTANTS
  MAX_LEVEL = 2
  SIZE_LIMIT = 2
  REQ_THREAD = 2
  MAX_REQ = 3
  UNIT = 120
  NUM_OF_GENRE = 2
  MaxFailures = 2
  Inputs <- MCInputs
INVARIANTS
  TypeOK
  NoRace
  PartIsSorted
  CallerOutlivesCallee
  WorkersAreFew
PROPERTIES
  ImplementsAnswers
  MainEnds
CHECK_DEADLOCK FALSE
