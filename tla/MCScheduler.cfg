\* Safety: two batches, two workers, limits changed at any time, failing
\* database calls, cancellation, shutdown, and any number of restarts.
SPECIFICATION Spec
CONSTANTS
  a = a
  b = b
  w1 = w1
  w2 = w2
  Job <- TwoJobs
  Batch = {a, b}
  BatchOf <- OwnBatches
  Proposal = {a}
  Export = {1}
  Worker = {w1, w2}
  Config <- RaiseAndLower
SYMMETRY WorkerSymmetry
INVARIANTS
  OneWorkerPerJob
  RunningIsCarried
  SuccessHasResult
  StopReachesRunner
PROPERTIES
  OutcomeSpec
