SPECIFICATION FairSpec
CONSTANTS
  evidence = evidence
  media = media
  Objects <- MCObjects
  Foreign <- MCForeign
  MaxFaults = 2
CHECK_DEADLOCK FALSE
INVARIANTS
  TypeOK
  NoUntrackedBytes
  RecoveryCanReconcile
PROPERTIES
  ClaimRespected
  KeepsPromise
  EventuallyDelivered
