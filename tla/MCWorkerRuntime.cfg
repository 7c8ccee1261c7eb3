CONSTANTS
  j1 = j1
  j2 = j2
  r1 = r1
  r2 = r2
  Jobs <- MCJobs
  Misrouted <- MCMisrouted
  Replicas <- MCReplicas
  NSteps = 2
  MaxAttempts = 2
  BatchSizes = {0}
  MaxCrashes = 1
  MaxEarlyExpiries = 1

SPECIFICATION FairSpec

INVARIANTS
  TypeOK
  GoneMeansReported
  StepsInOrder
  SuccessMeansAllSteps
  RetryBudget

PROPERTY EveryJobSettles

\* When every job is gone the replicas poll an empty stream for ever.
CHECK_DEADLOCK FALSE
