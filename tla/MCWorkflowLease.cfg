CONSTANTS
  w1 = w1
  w2 = w2
  svc = svc
  NRuns = 2
  Processes <- MCProcesses
  Principals <- MCPrincipals
  IdOf <- MCIdOf
  MaxAttempts = 3
  MaxCrashes = 1

SPECIFICATION FairSpec

INVARIANTS
  TypeOK
  OneValidReceipt
  AuditChain

PROPERTIES
  LeaseRespected
  KeepsPromise
  EventuallySettles

\* Once every run is settled or out of attempts nothing is left to do.
CHECK_DEADLOCK FALSE
