SPECIFICATION FairSpec
CONSTANTS
  Initiator = initiator
  Worker = {a, b}
  SignCall = {1, 2, 3}
  LinkCall = {1}
  None = None
  Calms = {TRUE, FALSE}
  MaxWork = 3
INVARIANTS
  TypeOK HashCoversAll FinalizedByAll SingleHash LinkedHasPolicy
PROPERTY SignedIsFinalized
\* The calls are bounded, so the system stops when they are used up.
CHECK_DEADLOCK FALSE
