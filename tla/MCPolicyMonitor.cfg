SPECIFICATION FairSpec
CONSTANTS
  Transfer = {t1, t2}
  t1 = t1
  t2 = t2
  agreement <- MCAgreement
  Templates <- MCTemplates
  Credentials <- MCCredentials
  Purposes <- MCPurposes
  MaxTime = 1
  MaxMoves = 2
  MaxTrouble = 1
INVARIANTS TypeOK DecisionsExplained AdmittedOnce TransfersAreMonitored
PROPERTY DeniedIsStopped
\* The commands and troubles are bounded, so the system may stop.
CHECK_DEADLOCK FALSE
