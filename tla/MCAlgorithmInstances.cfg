SPECIFICATION FairSpec
CONSTANTS
  Initiator = initiator
  Worker = {a}
  Faults = TRUE
  MaxTrouble = 2
INVARIANTS
  TypeOK CompletedByAll StartsTogether
PROPERTIES
  SuccessIsKnown FailureStopsAll
\* The system stops when the instance has ended.
CHECK_DEADLOCK FALSE
