------------------------------ MODULE Scheduler ------------------------------
(***************************************************************************)
(* The durable job queue: the jobs table (JobsStore), the in-process       *)
(* Scheduler with its worker goroutines, and the process that is killed    *)
(* and restarted around them.                                              *)
(*                                                                         *)
(*  - Everything a handler does under Scheduler.mu is one action; code     *)
(*    that runs outside mu (the runner, the terminal write) is split at    *)
(*    every database access.                                               *)
(*  - The wake channel only shortens the 100 ms poll, so a waiting worker  *)
(*    may leave its select at any time.                                    *)
(*  - A database call may fail.  A compare-and-set may also commit and     *)
(*    then fail to re-read the row, which its caller sees as an error.     *)
(***************************************************************************)
EXTENDS Integers, FiniteSets

CONSTANTS
  Job,        \* the job ids clients submit
  Batch,      \* the batch ids
  BatchOf,    \* the batch each job is a child of
  Proposal,   \* batches admitted by executing an approved export proposal
  Export,     \* jobs of kind export; the others are scans and detections
  Worker,     \* goroutine identities, reused after a goroutine exits
  Config      \* the SchedulerConfig values an operator may apply

ASSUME SchedulerAssumption ==
  /\ Job \subseteq Nat \ {0}
  /\ BatchOf \in [Job -> Batch]
  /\ Proposal \subseteq Batch
  /\ Export \subseteq Job
  /\ Config \subseteq [capacity : Nat \ {0}, workers : Nat \ {0}]

VARIABLES
  row,        \* the jobs table: state, result_json and error_code of each job
  stamp,      \* created_at of each row, as the rank of its admission
  clock,      \* the next admission's rank
  outputs,    \* export jobs whose validated files are published on disk
  phase,      \* "off", "ready" (constructed), "started" or "stopped"
  shut,       \* s.ctx is cancelled
  config,     \* s.config
  workers,    \* s.workers
  running,    \* keys of the s.running map
  pc,         \* where each goroutine is; "idle" when it does not exist
  held,       \* the job a worker has claimed
  err,        \* what its runner returned
  cause,      \* context.Cause of the job context
  sweeping,   \* CancelBatch requests in flight
  sweep,      \* the ids each of them has still to cancel
  orphaned,   \* history: terminal write given up since boot
  unread,     \* history: cancellations since boot that committed but reported an error
  missed      \* history: published exports that a restart's Reconcile passed by

durable == <<row, stamp, clock, outputs>>
process == <<phase, shut, config>>
worker  == <<pc, held, err, cause, running, workers>>
request == <<sweeping, sweep>>
history == <<orphaned, unread, missed>>
vars    == <<durable, process, worker, request, history>>

-----------------------------------------------------------------------------
(* The jobs table *)

NoJob    == 0
Active   == {"queued", "running"}
Terminal == {"succeeded", "failed", "cancelled"}

\* result is the runner's JSON, the scheduler's {} or NULL; code is NULL,
\* interrupted_by_restart, or one of the other failure codes.
Record(s, r, c) == [state |-> s, result |-> r, code |-> c]
Absent      == Record("absent", "null", "null")
Queued      == Record("queued", "null", "null")
Running     == Record("running", "null", "null")
Saved       == Record("succeeded", "runner", "null")
EmptyResult == Record("succeeded", "empty", "null")
Failed      == Record("failed", "null", "failed")
FailedScan  == Record("failed", "runner", "failed")
Interrupted == Record("failed", "null", "interrupted")
Cancelled   == Record("cancelled", "null", "null")

Rows == {Absent, Queued, Running, Saved, EmptyResult, Failed, FailedScan,
         Interrupted, Cancelled}

Is(j, s)  == row[j].state = s
Child(b)  == {j \in Job : BatchOf[j] = b}
ActiveJobs == {j \in Job : row[j].state \in Active}

\* Fault: the claim does not look at the state column.
OldestUnfinished(j) ==
    /\ row[j].state \in Active
    /\ \A k \in Job : row[k].state \in Active =>
          stamp[j] < stamp[k] \/ (stamp[j] = stamp[k] /\ j <= k)

\* SELECT ... WHERE state='queued' ORDER BY created_at, id LIMIT 1
Oldest(j) ==
    /\ Is(j, "queued")
    /\ \A k \in Job : Is(k, "queued") =>
          stamp[j] < stamp[k] \/ (stamp[j] = stamp[k] /\ j <= k)

\* JobsStore.Batch: the derived state of a batch.
BatchState(b) ==
    LET some(s) == \E j \in Child(b) : Is(j, s)
        over    == \A j \in Child(b) : row[j].state \in Terminal
    IN  CASE over /\ some("failed")    -> "failed"
          [] over /\ ~some("failed") /\ some("cancelled") -> "cancelled"
          [] over /\ ~some("failed") /\ ~some("cancelled") -> "succeeded"
          [] ~over /\ some("running")  -> "running"
          [] ~over /\ ~some("running") -> "queued"

-----------------------------------------------------------------------------
(* Initial state: an empty database and no process *)

Fresh(v) == [w \in Worker |-> v]

Init ==
    /\ row = [j \in Job |-> Absent]
    /\ stamp = [j \in Job |-> 0]
    /\ clock = 1
    /\ outputs = {}
    /\ phase = "off" /\ shut = FALSE /\ config \in Config
    /\ workers = 0 /\ running = {} /\ pc = Fresh("idle")
    /\ held = Fresh(NoJob) /\ err = Fresh("nil") /\ cause = Fresh("none")
    /\ sweeping = {} /\ sweep = [b \in Batch |-> {}]
    /\ orphaned = {} /\ unread = {} /\ missed = {}

Accepting == phase \in {"ready", "started"} /\ ~shut

-----------------------------------------------------------------------------
(* Admission *)

Admit(b) ==
    /\ Child(b) # {}
    /\ row' = [j \in Job |-> IF j \in Child(b) THEN Queued ELSE row[j]]
    /\ stamp' = [j \in Job |-> IF j \in Child(b) THEN clock ELSE stamp[j]]
    /\ clock' = clock + 1
    /\ UNCHANGED <<outputs, process, worker, request, history>>

HasRoom(b) == Cardinality(ActiveJobs) + Cardinality(Child(b)) <= config.capacity

\* New ids every time: a batch is submitted once.
Submit(b) ==
    /\ Accepting
    /\ b \notin Proposal
    /\ \A j \in Child(b) : Is(j, "absent")
    /\ HasRoom(b)
    /\ Admit(b)

\* Executing a proposal again finds its rows and returns them.
SubmitProposal(b) ==
    /\ Accepting
    /\ b \in Proposal
    /\ \A j \in Child(b) : Is(j, "absent")
    /\ HasRoom(b)
    /\ Admit(b)

-----------------------------------------------------------------------------
(* Starting workers and changing limits *)

\* startWorkers: grows to the limit, never shrinks.
Missing(limit) == IF workers < limit THEN limit - workers ELSE 0

Go(n) ==
    \E S \in SUBSET {w \in Worker : pc[w] = "idle"} :
        /\ Cardinality(S) = n
        /\ pc' = [w \in Worker |-> IF w \in S THEN "loop" ELSE pc[w]]

Spawn(limit) == Go(Missing(limit)) /\ workers' = workers + Missing(limit)

Start ==
    /\ phase = "ready"
    /\ phase' = "started"
    /\ Spawn(config.workers)
    /\ UNCHANGED <<durable, shut, config, held, err, cause, running, request, history>>

SetLimits(c) ==
    /\ phase \in {"ready", "started"}
    /\ config' = c
    /\ IF phase = "started" THEN Spawn(c.workers) ELSE UNCHANGED <<pc, workers>>
    /\ UNCHANGED <<durable, phase, shut, held, err, cause, running, request, history>>

-----------------------------------------------------------------------------
(* The worker loop up to the runner *)

Goto(w, label) == pc' = [pc EXCEPT ![w] = label]

AtTop(w) == pc[w] = "loop" /\ phase = "started" /\ workers <= config.workers

Claim(w) ==
    /\ AtTop(w)
    /\ ~shut
    /\ \E j \in Job :
        /\ Oldest(j)
        /\ row' = [row EXCEPT ![j] = Running]
        /\ held' = [held EXCEPT ![w] = j]
    /\ Goto(w, "claimed")
    /\ UNCHANGED <<stamp, clock, outputs, process, err, cause, running, workers,
                   request, history>>

\* sql.ErrNoRows, a database error, or s.ctx cancelled under the claim.
ClaimNothing(w) ==
    /\ AtTop(w)
    /\ Goto(w, "wait")
    /\ UNCHANGED <<durable, process, held, err, cause, running, workers, request, history>>

Wake(w) ==
    /\ pc[w] = "wait"
    /\ Goto(w, "loop")
    /\ UNCHANGED <<durable, process, held, err, cause, running, workers, request, history>>

\* The stop channel is closed: this exit does not count s.workers down.
LeaveWait(w) ==
    /\ pc[w] = "wait"
    /\ phase = "stopped"
    /\ Goto(w, "idle")
    /\ UNCHANGED <<durable, process, held, err, cause, running, workers, request, history>>

RetireWhen(w, cond) ==
    /\ pc[w] = "loop"
    /\ cond
    /\ Goto(w, "idle")
    /\ workers' = workers - 1
    /\ UNCHANGED <<durable, process, held, err, cause, running, request, history>>

\* Faults: the last worker retires too; stop is ignored.
RetireAtLimit(w)     == RetireWhen(w, phase = "stopped" \/ workers >= config.workers)
RetireOnlyExcess(w)  == RetireWhen(w, workers > config.workers)

Retire(w) == RetireWhen(w, phase = "stopped" \/ workers > config.workers)

RegisterAs(w, c) ==
    /\ pc[w] = "claimed"
    /\ running' = running \cup {held[w]}
    /\ cause' = [cause EXCEPT ![w] = c]
    /\ Goto(w, "registered")
    /\ UNCHANGED <<durable, process, held, err, workers, request, history>>

\* Fault: a shutdown between claim and registration goes unnoticed.
RegisterLive(w) == RegisterAs(w, "none")

Register(w) == RegisterAs(w, IF phase = "stopped" THEN "stopped" ELSE "none")

\* Fault: only the context is looked at.
RecheckContext(w) ==
    /\ pc[w] = "registered"
    /\ IF cause[w] = "none"
       THEN Goto(w, "running") /\ UNCHANGED err
       ELSE Goto(w, "returned") /\ err' = [err EXCEPT ![w] = "error"]
    /\ UNCHANGED <<durable, process, held, cause, running, workers, request, history>>

\* Re-reads the row once cancellable; the read itself may fail.
Recheck(w) ==
    /\ pc[w] = "registered"
    /\ \/ /\ cause[w] = "none"
          /\ Is(held[w], "running")
          /\ Goto(w, "running")
          /\ UNCHANGED err
       \/ /\ Goto(w, "returned")
          /\ err' = [err EXCEPT ![w] = "error"]
    /\ UNCHANGED <<durable, process, held, cause, running, workers, request, history>>

-----------------------------------------------------------------------------
(* The runner.  Exports publish files and then write their own result;    *)
(* scans and detections write theirs directly.                             *)

Return(w, e) ==
    /\ err' = [err EXCEPT ![w] = e]
    /\ Goto(w, "returned")

\* Any failure before a result exists, cancellation included.
RunnerFails(w) ==
    /\ pc[w] = "running"
    /\ Return(w, "error")
    /\ UNCHANGED <<durable, process, held, cause, running, workers, request, history>>

FailAs(w, r) ==
    /\ pc[w] = "running"
    /\ held[w] \notin Export
    /\ Is(held[w], "running")
    /\ row' = [row EXCEPT ![held[w]] = r]
    /\ Return(w, "error")
    /\ UNCHANGED <<stamp, clock, outputs, process, held, cause, running, workers,
                   request, history>>

\* A scan that failed records its partial result with the failure.
FailWithResult(w) == FailAs(w, FailedScan)

Publish(w) ==
    /\ pc[w] = "running"
    /\ held[w] \in Export
    /\ outputs' = outputs \cup {held[w]}
    /\ Goto(w, "published")
    /\ UNCHANGED <<row, stamp, clock, process, held, err, cause, running, workers,
                   request, history>>

\* The published file is not the one that was validated: take it back.
RollBack(w) ==
    /\ pc[w] = "published"
    /\ outputs' = outputs \ {held[w]}
    /\ Return(w, "error")
    /\ UNCHANGED <<row, stamp, clock, process, held, cause, running, workers,
                   request, history>>

HasResult(w) == pc[w] = (IF held[w] \in Export THEN "published" ELSE "running")

\* Fault: the persistence error is swallowed.
UnsavedIgnored(w) == "nil"

\* Exports hand an unsaved result to the scheduler, the others just fail.
Unsaved(w) == IF held[w] \in Export THEN "unsaved" ELSE "error"

\* The runner's own compare-and-set wins; its re-read may still fail.
SaveResult(w) ==
    /\ HasResult(w)
    /\ Is(held[w], "running")
    /\ row' = [row EXCEPT ![held[w]] = Saved]
    /\ Return(w, "nil") \/ Return(w, Unsaved(w))
    /\ UNCHANGED <<stamp, clock, outputs, process, held, cause, running, workers,
                   request, history>>

\* It finds the row no longer running: a cancelled export rolls its files
\* back, which may fail.
SaveRefused(w) ==
    /\ HasResult(w)
    /\ ~Is(held[w], "running")
    /\ \/ UNCHANGED outputs
       \/ /\ held[w] \in Export /\ Is(held[w], "cancelled")
          /\ outputs' = outputs \ {held[w]}
    /\ Return(w, Unsaved(w))
    /\ UNCHANGED <<row, stamp, clock, process, held, cause, running, workers,
                   request, history>>

\* It does not reach the database within its 100 ms.
SaveTimesOut(w) ==
    /\ HasResult(w)
    /\ Return(w, Unsaved(w))
    /\ UNCHANGED <<durable, process, held, cause, running, workers, request, history>>

-----------------------------------------------------------------------------
(* After the runner *)

Deregister(w) ==
    /\ pc[w] = "returned"
    /\ running' = running \ {held[w]}
    /\ Goto(w, "finalizing")
    /\ UNCHANGED <<durable, process, held, err, cause, workers, request, history>>

\* Fault: shutdown wins over a published result.
TargetStopFirst(w) ==
    CASE cause[w] = "stopped" -> Interrupted
      [] cause[w] # "stopped" /\ err[w] = "unsaved" -> Saved
      [] cause[w] = "cancelled" /\ err[w] # "unsaved" -> Cancelled
      [] err[w] = "nil" /\ cause[w] = "none" -> EmptyResult
      [] err[w] = "error" /\ cause[w] = "none" -> Failed

\* terminalTarget: the row the scheduler writes if the runner did not.
Target(w) ==
    CASE err[w] = "unsaved" -> Saved
      [] err[w] # "unsaved" /\ cause[w] = "stopped" -> Interrupted
      [] err[w] # "unsaved" /\ cause[w] = "cancelled" -> Cancelled
      [] err[w] = "nil" /\ cause[w] = "none" -> EmptyResult
      [] err[w] = "error" /\ cause[w] = "none" -> Failed

NextJob(w) ==
    /\ held' = [held EXCEPT ![w] = NoJob]
    /\ err' = [err EXCEPT ![w] = "nil"]
    /\ cause' = [cause EXCEPT ![w] = "none"]
    /\ Goto(w, "loop")

\* finalize reads the row: nothing to do unless it is still running.
ReadState(w) ==
    /\ pc[w] = "finalizing"
    /\ IF Is(held[w], "running")
       THEN Goto(w, "persisting") /\ UNCHANGED <<held, err, cause>>
       ELSE NextJob(w)
    /\ UNCHANGED <<durable, process, running, workers, request, history>>

Write(w, r) ==
    /\ pc[w] = "persisting"
    /\ row' = [row EXCEPT ![held[w]] = r]
    /\ NextJob(w)
    /\ UNCHANGED <<stamp, clock, outputs, process, running, workers, request, history>>

\* Fault: the row read before is written over whatever it says now.
PersistBlindly(w) == Write(w, Target(w))

\* One of the attempts reaches the database; the write is conditional.
Persist(w) == Write(w, IF Is(held[w], "running") THEN Target(w) ELSE row[held[w]])

\* Three reads or three writes fail: the failure is logged, and the row
\* stays as it is until someone cancels it or the process restarts.
GiveUp(w) ==
    /\ pc[w] \in {"finalizing", "persisting"}
    /\ orphaned' = IF Is(held[w], "running") THEN orphaned \cup {held[w]} ELSE orphaned
    /\ NextJob(w)
    /\ UNCHANGED <<durable, process, running, workers, request, unread, missed>>

-----------------------------------------------------------------------------
(* Cancellation *)

\* Only a context still in s.running can be cancelled; the first cause stays.
CancelContexts(S, why) ==
    cause' = [w \in Worker |->
                IF held[w] \in S \cap running /\ cause[w] = "none" THEN why ELSE cause[w]]

CancelRow(j) ==
    /\ row[j].state \in Active
    /\ row' = [row EXCEPT ![j] = Cancelled]

CancelJob(j) ==
    /\ Accepting
    /\ CancelRow(j)
    /\ CancelContexts({j}, "cancelled")
    /\ UNCHANGED unread

\* The row is cancelled but the caller gets an error before the runner's
\* context is: the re-read inside transition lost its connection.
CancelJobUnread(j) ==
    /\ Accepting
    /\ CancelRow(j)
    /\ unread' = unread \cup {j}
    /\ UNCHANGED cause

Cancel(j) ==
    /\ CancelJob(j) \/ CancelJobUnread(j)
    /\ UNCHANGED <<stamp, clock, outputs, process, pc, held, err, running, workers,
                   request, orphaned, missed>>

BeginSweep(b, S) ==
    /\ phase # "off"
    /\ b \notin sweeping
    /\ \E j \in Child(b) : ~Is(j, "absent")
    /\ sweeping' = sweeping \cup {b}
    /\ sweep' = [sweep EXCEPT ![b] = S]
    /\ UNCHANGED <<durable, process, worker, history>>

\* Fault: the sweep only looks for queued children.
BeginCancelBacklog(b) == BeginSweep(b, {j \in Child(b) : Is(j, "queued")})

BeginCancelBatch(b) == BeginSweep(b, Child(b) \cap ActiveJobs)

\* The next id: cancelled, or already terminal (ErrJobState is ignored).
CancelChild(b, j) ==
    /\ j \in sweep[b]
    /\ Accepting
    /\ \/ CancelJob(j)
       \/ row[j].state \in Terminal /\ UNCHANGED <<row, cause, unread>>
    /\ sweep' = [sweep EXCEPT ![b] = @ \ {j}]
    /\ UNCHANGED <<stamp, clock, outputs, process, pc, held, err, running, workers,
                   sweeping, orphaned, missed>>

\* Any other error ends the sweep where it is, before or after its write.
AbortCancelBatch(b) ==
    /\ sweep[b] # {}
    /\ \/ UNCHANGED <<row, cause, unread>>
       \/ \E j \in sweep[b] : CancelJobUnread(j)
    /\ sweeping' = sweeping \ {b}
    /\ sweep' = [sweep EXCEPT ![b] = {}]
    /\ UNCHANGED <<stamp, clock, outputs, process, pc, held, err, running, workers,
                   orphaned, missed>>

EndCancelBatch(b) ==
    /\ b \in sweeping
    /\ sweep[b] = {}
    /\ sweeping' = sweeping \ {b}
    /\ UNCHANGED <<durable, process, worker, sweep, history>>

-----------------------------------------------------------------------------
(* Shutdown, process death and start-up *)

\* s.cancel() comes first, so that nothing blocks on mu ...
BeginShutdown ==
    /\ Accepting
    /\ shut' = TRUE
    /\ UNCHANGED <<durable, phase, config, worker, request, history>>

\* ... and then, under mu, every registered runner is told.
StopScheduler ==
    /\ shut
    /\ phase \in {"ready", "started"}
    /\ phase' = "stopped"
    /\ CancelContexts(Job, "stopped")
    /\ UNCHANGED <<durable, shut, config, pc, held, err, running, workers, request, history>>

\* A kill at any moment, or main returning after Shutdown drained or gave up.
Exit ==
    /\ phase # "off"
    /\ phase' = "off" /\ shut' = FALSE
    /\ workers' = 0 /\ running' = {} /\ pc' = Fresh("idle")
    /\ held' = Fresh(NoJob) /\ err' = Fresh("nil") /\ cause' = Fresh("none")
    /\ sweeping' = {} /\ sweep' = [b \in Batch |-> {}]
    /\ orphaned' = {} /\ unread' = {}
    /\ UNCHANGED <<durable, config, missed>>

\* ArtifactStore.Reconcile visits each export that left files behind.  A
\* running one is adopted if its files validate; otherwise, and when it was
\* cancelled, the files are removed.
ReconcileExport(j) ==
    /\ phase = "off"
    /\ j \in outputs
    /\ \/ /\ Is(j, "running")
          /\ row' = [row EXCEPT ![j] = Saved]
          /\ UNCHANGED outputs
       \/ /\ row[j].state \in {"running", "cancelled"}
          /\ outputs' = outputs \ {j}
          /\ UNCHANGED row
    /\ UNCHANGED <<stamp, clock, process, worker, request, history>>

\* Fault: rows left running by the dead process are not recovered.
RecoverNothing ==
    /\ phase = "off"
    /\ phase' = "ready"
    /\ config' \in Config
    /\ UNCHANGED <<durable, shut, worker, request, history>>

\* JobsStore.Recover, once Reconcile has walked the manifests: all but those
\* it cannot read or whose destination directory is absent at this boot.
Recover ==
    /\ phase = "off"
    /\ missed' = missed \cup {j \in outputs : row[j].state \in {"running", "cancelled"}}
    /\ row' = [j \in Job |-> IF Is(j, "running") THEN Interrupted ELSE row[j]]
    /\ phase' = "ready"
    /\ config' \in Config
    /\ UNCHANGED <<stamp, clock, outputs, shut, worker, request, orphaned, unread>>

-----------------------------------------------------------------------------
RunnerStep(w) ==
    \/ RunnerFails(w) \/ FailWithResult(w) \/ Publish(w) \/ RollBack(w)
    \/ SaveResult(w) \/ SaveRefused(w) \/ SaveTimesOut(w)

\* Every other step of a worker that holds or awaits a job.
LoopStep(w) ==
    \/ ClaimNothing(w) \/ Wake(w) \/ LeaveWait(w) \/ Retire(w)
    \/ Register(w) \/ Recheck(w) \/ Deregister(w)
    \/ ReadState(w) \/ Persist(w) \/ GiveUp(w)

Client ==
    \/ \E b \in Batch : \/ Submit(b) \/ SubmitProposal(b)
                        \/ BeginCancelBatch(b) \/ AbortCancelBatch(b) \/ EndCancelBatch(b)
                        \/ \E j \in Job : CancelChild(b, j)
    \/ \E j \in Job : Cancel(j)
    \/ \E c \in Config : SetLimits(c)

Lifecycle ==
    \/ Start \/ BeginShutdown \/ StopScheduler \/ Exit \/ Recover
    \/ \E j \in Job : ReconcileExport(j)

Next ==
    \/ Client
    \/ Lifecycle
    \/ \E w \in Worker : Claim(w) \/ LoopStep(w) \/ RunnerStep(w)

Spec == Init /\ [][Next]_vars

(***************************************************************************)
(* Goroutines are scheduled and runners return (FFmpeg ends, or is killed  *)
(* through its context).  A claim fails only while the database does, so a *)
(* worker that keeps trying in front of queued work eventually claims.     *)
(***************************************************************************)
Fairness ==
    \A w \in Worker :
        /\ WF_vars(LoopStep(w))
        /\ WF_vars(RunnerStep(w))
        /\ SF_vars(Claim(w))

FairSpec == Spec /\ Fairness

-----------------------------------------------------------------------------
(* Properties *)

PC == {"idle", "loop", "wait", "claimed", "registered", "running", "published",
       "returned", "finalizing", "persisting"}

\* Every variable stays in its declared set (jobs.go, scheduler.go types).
TypeOK ==
    /\ row \in [Job -> Rows]
    /\ stamp \in [Job -> Nat]
    /\ clock \in Nat \ {0}
    /\ outputs \subseteq Export
    /\ phase \in {"off", "ready", "started", "stopped"}
    /\ shut \in BOOLEAN
    /\ config \in Config
    /\ workers \in Int
    /\ running \subseteq Job
    /\ pc \in [Worker -> PC]
    /\ held \in [Worker -> Job \cup {NoJob}]
    /\ err \in [Worker -> {"nil", "error", "unsaved"}]
    /\ cause \in [Worker -> {"none", "cancelled", "stopped"}]
    /\ sweeping \subseteq Batch
    /\ sweep \in [Batch -> SUBSET Job]
    /\ orphaned \subseteq Job
    /\ unread \subseteq Job
    /\ missed \subseteq Job

\* A job has at most one worker from its claim to its terminal write, so no
\* job is executed twice (worker, claim: scheduler.go:375-428, 536-568).
OneWorkerPerJob ==
    \A v, w \in Worker : held[v] = held[w] /\ held[v] # NoJob => v = w

\* A row says running only while a worker of this process carries the job,
\* unless its terminal write was given up: nothing is stuck in running for
\* any other reason (finalize: scheduler.go:430-448).
RunningIsCarried ==
    phase # "off" =>
        \A j \in Job : Is(j, "running") =>
            j \in orphaned \/ \E w \in Worker : held[w] = j

\* Once an export's files are published, its row never reports a failure,
\* unless a restart could not find them: an unsaved result outlives shutdown,
\* lost writes and restarts (terminalTarget: scheduler.go:450-455, Reconcile
\* before Recover: main.go:119).
PublishedNeverFails ==
    \A j \in outputs : Is(j, "failed") => j \in missed

\* A success always carries the result its runner produced and, for an
\* export, published files: the scheduler's {} never stands in for it
\* (RunQueuedSnapshot: batch_export.go:146-159).
SuccessHasResult ==
    \A j \in Job : Is(j, "succeeded") =>
        row[j].result = "runner" /\ (j \in Export => j \in outputs)

\* A runner still at work on a cancelled job has had its context cancelled,
\* also when the cancellation fell between claim and registration
\* (Cancel and worker: scheduler.go:349-365, 406-417).
CancelReachesRunner ==
    \A w \in Worker :
        pc[w] \in {"running", "published"} /\ Is(held[w], "cancelled") =>
            cause[w] # "none" \/ held[w] \in unread

\* After Shutdown no runner works under a live context, also when it was
\* registered after the shutdown (scheduler.go:278-289, 406-410).
ShutdownReachesRunner ==
    phase = "stopped" =>
        \A w \in Worker : pc[w] \in {"registered", "running", "published"} =>
            cause[w] # "none"

\* Whoever ends a job or the process, its runner hears of it (scheduler.go:278-289,
\* 349-365, 406-417).
StopReachesRunner == CancelReachesRunner /\ ShutdownReachesRunner

\* When a batch cancellation has worked through its ids, every child of the
\* batch is terminal, whatever the workers did meanwhile (CancelBatch:
\* scheduler.go:300-342).
SweepIsComplete ==
    \A b \in sweeping : sweep[b] = {} =>
        \A j \in Child(b) : row[j].state \in Terminal

\* The rows refine the job life cycle: batches are admitted whole, terminal
\* states are final, and only a restart fails several jobs at once.
Queue == INSTANCE JobLifecycle WITH state <- [j \in Job |-> row[j].state]
LifecycleSpec == Queue!Spec

\* Rows and files of exports change together as ExportOutcome allows.
Outcome == INSTANCE ExportOutcome WITH Job <- Export,
             state <- [j \in Export |-> row[j].state], whole <- outputs, excused <- missed
OutcomeSpec == Outcome!Spec

\* The verdict a client reads for a batch never changes once it is terminal
\* (JobsStore.Batch: jobs.go:153-175).
BatchVerdictIsFinal ==
    [][\A b \in Batch :
         Child(b) # {} /\ BatchState(b) \in Terminal => BatchState(b)' = BatchState(b)]_vars

\* If the process stays up, every admitted job is claimed and ends, whatever
\* limits the operator sets meanwhile, unless its terminal write is given up
\* (SetLimits promises that queued work is not discarded: scheduler.go:252).
AdmittedWorkEnds ==
    <>[](phase = "started" /\ ~shut) =>
        \A j \in Job : (row[j].state \in Active)
                         ~> (row[j].state \in Terminal \/ j \in orphaned)

\* Shutdown drains: every goroutine leaves its loop (Shutdown waits on done).
ShutdownDrains ==
    phase = "stopped" ~> (phase = "off" \/ \A w \in Worker : pc[w] = "idle")

=============================================================================
