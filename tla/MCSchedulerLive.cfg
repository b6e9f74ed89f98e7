\* Two jobs of one batch, one or two workers as the operator pleases; fair goroutines, no
\* symmetry.
SPECIFICATION FairSpec
CONSTANTS
  a = a
  b = b
  w1 = w1
  w2 = w2
  Job <- TwoJobs
  Batch = {a}
  BatchOf <- PairBatch
  Proposal = {}
  Export = {1}
  Worker = {w1, w2}
  Config <- OneOrTwo
INVARIANTS
  SweepIsComplete
PROPERTIES
  LifecycleSpec
  AdmittedWorkEnds
  ShutdownDrains
