SPECIFICATION Spec
CONSTANTS
  c1 = c1
  c2 = c2
  c3 = c3
  k1 = k1
  k2 = k2
  Cred = {c1, c2, c3}
  Client = {k1, k2}
  MaxList = 1
  Index <- MCIndex
  Limit = 2
  None = none
  MaxCalls = 4
  MaxTrouble = 1
SYMMETRY Symmetry
INVARIANTS
  TypeOK RevocationsStick OnlyAskedAreRevoked ListsFit
\* The calls are bounded, so the system stops when they are used up.
CHECK_DEADLOCK FALSE
