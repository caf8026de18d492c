SPECIFICATION Spec
CONSTANTS
  UserCall = {1, 2, 3}
  AutoCall = {11}
  AddressGiven = {TRUE, FALSE}
  PolicyOutcomes = {TRUE, FALSE}
  AutoStart = TRUE
  Faults = TRUE
  SerialClients = FALSE
INVARIANTS TypeOK AcknowledgedByAll
PROPERTY ImplementsOrder
\* The calls are bounded, so the system stops when they are used up.
CHECK_DEADLOCK FALSE
