SPECIFICATION FairSpec
CONSTANTS
  UserCall = {1, 2, 3, 4}
  AutoCall = {11, 12, 13, 14, 15}
  None = None
  Mode <- SemiManualProvider
  PolicyOutcomes = {TRUE, FALSE}
  SignOutcomes = {FALSE}
  Faults = FALSE
  SerialClients = TRUE
INVARIANTS AgreementMatchesOffer FinalizedOnSameAgreement
PROPERTY AgreedIsFinalized
\* The calls are bounded, so the system stops when they are used up.
CHECK_DEADLOCK FALSE
