SPECIFICATION FairSpec
CONSTANTS
  Initiator = initiator
  Worker = {a, b}
  Faults = FALSE
  MaxTrouble = 1
PROPERTY SuccessCompletes
\* The system stops when the instance has ended.
CHECK_DEADLOCK FALSE
