SPECIFICATION Spec
CONSTANTS
  UserCall = {1, 2, 3, 4}
  AutoCall = {}
  None = None
  Mode <- AllManual
  PolicyOutcomes = {TRUE}
  SignOutcomes = {TRUE, FALSE}
  Faults = TRUE
  SerialClients = FALSE
INVARIANTS
  TypeOK AcknowledgedByBoth AgreementIssued
PROPERTY ImplementsHandshake
\* The calls are bounded, so the system stops when they are used up.
CHECK_DEADLOCK FALSE
