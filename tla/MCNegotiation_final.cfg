SPECIFICATION Spec
CONSTANTS
  UserCall = {1, 2}
  AutoCall = {3, 4, 5}
  None = None
  Mode <- AllAutomatic
  PolicyOutcomes = {TRUE}
  SignOutcomes = {TRUE}
  Faults = FALSE
  SerialClients = FALSE
PROPERTIES FinalizedIsFinal
\* The calls are bounded, so the system stops when they are used up.
CHECK_DEADLOCK FALSE
