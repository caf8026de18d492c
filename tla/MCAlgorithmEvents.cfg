SPECIFICATION FairSpec
CONSTANTS
  e1 = e1
  e2 = e2
  u1 = u1
  Event <- MCEvent
  Upload <- MCUpload
  Of <- MCOf
  Chunks = 2
  None = none
  MaxTrouble = 2
INVARIANTS
  TypeOK AnsweredIsStored NothingSkipped
PROPERTIES
  CreatedIsReturned UploadedArrives
\* The system stops when all calls have ended: the polls go on.
CHECK_DEADLOCK FALSE
