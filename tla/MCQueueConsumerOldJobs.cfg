SPECIFICATION Spec
CONSTANTS
  c1 = c1
  c2 = c2
  artifact = artifact
  job1 = job1
  job2 = job2
  Consumers <- MCConsumers
  Requests <- MCRequests
  Keys <- MCKeys
  Entities <- MCEntities
  Jobs <- MCJobs
  Messages <- MCMessages
  MaxAttempt = 1
  MaxSource = 2
  MaxWithdrawal = 1
  MaxClaims = 3
SYMMETRY ConsumerSymmetry
INVARIANT OldJobsCannotReverse
