SPECIFICATION Spec
CONSTANTS
  evidence = evidence
  media = media
  Objects <- MCObjects
  Foreign <- MCForeign
  MaxFaults = 1
CHECK_DEADLOCK FALSE
INVARIANTS
  InitializedHasState
