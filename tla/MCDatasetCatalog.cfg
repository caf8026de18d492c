SPECIFICATION Spec
CONSTANTS
  Dataset = {d1, d2}
  Call = {1, 2, 3, 4}
  None = none
  MaxTrouble = 2
SYMMETRY Alike
INVARIANTS
  TypeOK SuccessAgrees OfferedIsStored OfferedIsLinked
\* The calls are bounded, so the system stops when they are used up.
CHECK_DEADLOCK FALSE
