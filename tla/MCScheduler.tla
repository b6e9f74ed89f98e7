----------------------------- MODULE MCScheduler -----------------------------
(* Small instances of Scheduler for TLC. *)
EXTENDS Scheduler, TLC

CONSTANTS a, b, w1, w2

\* Job 1 is an export; a batch of its own for each of two jobs ...
TwoJobs    == 1..2
OwnBatches == [j \in TwoJobs |-> IF j = 1 THEN a ELSE b]
\* ... or both the children of one batch.
PairBatch  == [j \in TwoJobs |-> a]

\* Capacity and workers are raised and lowered together, as main.go does with
\* the export limit (there the capacity is four times the workers).
Limit(q, n) == [capacity |-> q, workers |-> n]
RaiseAndLower == {Limit(1, 1), Limit(2, 2)}
OneOrTwo      == {Limit(2, 1), Limit(4, 2)}

WorkerSymmetry == Permutations(Worker)
=============================================================================
