SPECIFICATION Spec
CONSTANTS
  UserCall = {1, 2, 3, 4, 5}
  AutoCall = {}
  AddressGiven = {TRUE}
  PolicyOutcomes = {TRUE, FALSE}
  AutoStart = FALSE
  Faults = FALSE
  SerialClients = TRUE
INVARIANT QuietAgreement
\* The calls are bounded, so the system stops when they are used up.
CHECK_DEADLOCK FALSE
