--------------------------- MODULE SchedulerProofs ---------------------------
(***************************************************************************)
(* Theorems about Scheduler for every set of jobs, batches and workers.    *)
(***************************************************************************)
EXTENDS Scheduler, TLAPS

-----------------------------------------------------------------------------
(* Typing.  TypeOK is not inductive: that Register adds a job to running   *)
(* needs a claimed worker to hold one.                                     *)

\* A worker holds a job exactly between its claim and the end of finalize.
HoldsJob ==
    \A w \in Worker : held[w] = NoJob <=> pc[w] \in {"idle", "loop", "wait"}

Typed == TypeOK /\ HoldsJob

\* The initial state is well typed.
LEMMA TypedInit == Init => Typed
<1> SUFFICES ASSUME Init PROVE Typed
  OBVIOUS
<1> USE DEF Init, Fresh
<1>1. row \in [Job -> Rows] /\ stamp \in [Job -> Nat] /\ clock \in Nat \ {0}
  BY DEF Rows
<1>2. pc \in [Worker -> PC] /\ held \in [Worker -> Job \cup {NoJob}]
  BY DEF PC
<1>3. /\ err \in [Worker -> {"nil", "error", "unsaved"}]
      /\ cause \in [Worker -> {"none", "cancelled", "stopped"}]
      /\ sweep \in [Batch -> SUBSET Job]
  OBVIOUS
<1>4. /\ outputs \subseteq Export /\ phase = "off" /\ config \in Config
      /\ workers = 0 /\ running = {} /\ sweeping = {} /\ orphaned = {} /\ unread = {} /\ missed = {}
  OBVIOUS
<1>5. HoldsJob
  BY DEF HoldsJob
<1>6. shut \in BOOLEAN
  BY Zenon
<1> HIDE DEF Init, Fresh
<1>7. TypeOK
  BY <1>1, <1>2, <1>3, <1>4, <1>6 DEF TypeOK
<1> QED BY <1>5, <1>7 DEF Typed

\* Every step keeps the types and the tie between held and pc.
LEMMA TypedStep == Typed /\ [Next]_vars => Typed'
<1> SUFFICES ASSUME Typed, [Next]_vars PROVE Typed'
  OBVIOUS
<1> USE SchedulerAssumption DEF Typed, TypeOK, HoldsJob, durable, process, worker, request, history
<1>1. ASSUME NEW b \in Batch, Submit(b) \/ SubmitProposal(b) PROVE Typed'
  <2>1. Admit(b)
    BY <1>1 DEF Submit, SubmitProposal
  <2>2. /\ row' \in [Job -> Rows]
        /\ stamp' \in [Job -> Nat]
        /\ clock' \in Nat \ {0}
    BY <2>1 DEF Admit, Rows
  <2> QED BY <2>1, <2>2 DEF Admit
<1>2. ASSUME NEW b \in Batch, BeginCancelBatch(b) PROVE Typed'
  BY <1>2 DEF BeginCancelBatch, BeginSweep, Child
<1>3. ASSUME NEW b \in Batch, AbortCancelBatch(b) PROVE Typed'
  <2>1. row' \in [Job -> Rows] /\ unread' \subseteq Job /\ cause' = cause
    <3>1. CASE UNCHANGED <<row, cause, unread>>
      BY <3>1
    <3>2. ASSUME NEW j \in sweep[b], CancelJobUnread(j)
          PROVE  row' \in [Job -> Rows] /\ unread' \subseteq Job /\ cause' = cause
      BY <3>2 DEF CancelJobUnread, CancelRow, Rows
    <3> QED BY <1>3, <3>1, <3>2 DEF AbortCancelBatch
  <2> QED BY <1>3, <2>1 DEF AbortCancelBatch
<1>4. ASSUME NEW b \in Batch, EndCancelBatch(b) PROVE Typed'
  BY <1>4 DEF EndCancelBatch
<1>5. ASSUME NEW b \in Batch, NEW j \in Job, CancelChild(b, j) PROVE Typed'
  BY <1>5 DEF CancelChild, CancelJob, CancelRow, CancelContexts, Rows
<1>6. ASSUME NEW j \in Job, Cancel(j) PROVE Typed'
  BY <1>6 DEF Cancel, CancelJob, CancelJobUnread, CancelRow, CancelContexts, Rows
<1>7. ASSUME NEW c \in Config, SetLimits(c) PROVE Typed'
  BY <1>7 DEF SetLimits, Spawn, Go, Missing, PC
<1>8. ASSUME Start PROVE Typed'
  BY <1>8 DEF Start, Spawn, Go, Missing, PC
<1>9. ASSUME BeginShutdown \/ StopScheduler PROVE Typed'
  BY <1>9 DEF BeginShutdown, StopScheduler, CancelContexts
<1>10. ASSUME Exit PROVE Typed'
  <2>1. /\ pc' \in [Worker -> PC]
        /\ held' \in [Worker -> Job \cup {NoJob}]
        /\ HoldsJob'
    BY <1>10 DEF Exit, Fresh, PC
  <2>2. /\ err' \in [Worker -> {"nil", "error", "unsaved"}]
        /\ cause' \in [Worker -> {"none", "cancelled", "stopped"}]
        /\ sweep' \in [Batch -> SUBSET Job]
    BY <1>10 DEF Exit, Fresh
  <2>3. /\ phase' = "off" /\ workers' = 0 /\ running' = {} /\ sweeping' = {}
        /\ orphaned' = {} /\ unread' = {} /\ UNCHANGED <<row, stamp, clock, outputs, config, missed>>
    BY <1>10 DEF Exit
  <2>4. shut' \in BOOLEAN
    BY <1>10, Zenon DEF Exit
  <2> QED BY <2>1, <2>2, <2>3, <2>4
<1>11. ASSUME Recover PROVE Typed'
  BY <1>11 DEF Recover, Rows
<1>12. ASSUME NEW j \in Job, ReconcileExport(j) PROVE Typed'
  BY <1>12 DEF ReconcileExport, Rows
<1>13. ASSUME NEW w \in Worker, Claim(w) PROVE Typed'
  BY <1>13 DEF Claim, Goto, PC, Rows, NoJob
<1>14. ASSUME NEW w \in Worker, RunnerStep(w) PROVE Typed'
  <2>1. ASSUME RunnerFails(w) PROVE Typed'
    BY <2>1 DEF RunnerFails, Return, Goto, PC
  <2>6. ASSUME SaveTimesOut(w) PROVE Typed'
    BY <2>6 DEF SaveTimesOut, Return, Unsaved, HasResult, Goto, PC
  <2>2. ASSUME FailWithResult(w) PROVE Typed'
    BY <2>2 DEF FailWithResult, FailAs, Return, Goto, PC, Rows
  <2>3. ASSUME Publish(w) PROVE Typed'
    BY <2>3 DEF Publish, Goto, PC
  <2>4. ASSUME RollBack(w) PROVE Typed'
    BY <2>4 DEF RollBack, Return, Goto, PC
  <2>7. ASSUME SaveRefused(w) PROVE Typed'
    BY <2>7 DEF SaveRefused, Return, Unsaved, HasResult, Goto, PC
  <2>5. ASSUME SaveResult(w) PROVE Typed'
    BY <2>5 DEF SaveResult, Return, Unsaved, HasResult, Goto, PC, Rows
  <2> QED BY <1>14, <2>1, <2>2, <2>3, <2>4, <2>5, <2>6, <2>7 DEF RunnerStep
<1>15. ASSUME NEW w \in Worker, LoopStep(w) PROVE Typed'
  <2>0. ASSUME NextJob(w)
        PROVE  /\ pc' \in [Worker -> PC] /\ held' \in [Worker -> Job \cup {NoJob}]
               /\ err' \in [Worker -> {"nil", "error", "unsaved"}]
               /\ cause' \in [Worker -> {"none", "cancelled", "stopped"}] /\ HoldsJob'
    BY <2>0 DEF NextJob, Goto, PC
  <2>1. ASSUME ReadState(w) PROVE Typed'
    <3>1. CASE NextJob(w)
      BY <2>0, <2>1, <3>1 DEF ReadState
    <3>2. CASE Goto(w, "persisting") /\ UNCHANGED <<held, err, cause>>
      BY <2>1, <3>2 DEF ReadState, Goto, PC
    <3> QED BY <2>1, <3>1, <3>2 DEF ReadState
  <2>8. ASSUME GiveUp(w) PROVE Typed'
    <3>1. orphaned' \subseteq Job
      BY <2>8 DEF GiveUp, Is, PC
    <3>2. NextJob(w) /\ UNCHANGED <<durable, process, running, workers, request, unread, missed>>
      BY <2>8 DEF GiveUp
    <3> QED BY <2>0, <3>1, <3>2
  <2>2. ASSUME Persist(w) PROVE Typed'
    <3>1. row' \in [Job -> Rows]
      BY <2>2 DEF Persist, Write, Target, Rows, PC
    <3>2. NextJob(w) /\ UNCHANGED <<stamp, clock, outputs, process, running, workers, request, history>>
      BY <2>2 DEF Persist, Write
    <3> QED BY <2>0, <3>1, <3>2
  <2>3. ASSUME ClaimNothing(w) \/ Wake(w) \/ LeaveWait(w) PROVE Typed'
    <3>1. CASE ClaimNothing(w)
      BY <3>1 DEF ClaimNothing, AtTop, Goto, PC
    <3>2. CASE Wake(w)
      BY <3>2 DEF Wake, Goto, PC
    <3>3. CASE LeaveWait(w)
      BY <3>3 DEF LeaveWait, Goto, PC
    <3> QED BY <2>3, <3>1, <3>2, <3>3
  <2>7. ASSUME Retire(w) PROVE Typed'
    BY <2>7 DEF Retire, RetireWhen, Goto, PC
  <2>4. ASSUME Register(w) PROVE Typed'
    BY <2>4 DEF Register, RegisterAs, Goto, PC
  <2>5. ASSUME Recheck(w) PROVE Typed'
    BY <2>5 DEF Recheck, Goto, PC
  <2>6. ASSUME Deregister(w) PROVE Typed'
    BY <2>6 DEF Deregister, Goto, PC
  <2> QED BY <1>15, <2>1, <2>2, <2>3, <2>4, <2>5, <2>6, <2>7, <2>8 DEF LoopStep
<1>16. CASE UNCHANGED vars
  BY <1>16 DEF vars
<1> QED
  BY <1>1, <1>2, <1>3, <1>4, <1>5, <1>6, <1>7, <1>8, <1>9, <1>10, <1>11, <1>12,
     <1>13, <1>14, <1>15, <1>16 DEF Next, Client, Lifecycle

\* Every variable keeps its type in every behaviour.
THEOREM TypeCorrect == Spec => []TypeOK
<1>1. Spec => []Typed
  BY TypedInit, TypedStep, PTL DEF Spec
<1> QED BY <1>1, PTL DEF Typed

-----------------------------------------------------------------------------
(* The inductive invariant: where each worker stands says what its job's   *)
(* row and files may be, whatever clients, shutdowns and restarts did.     *)

\* Between boots there is no goroutine and no request.
OffIsEmpty ==
    /\ phase \in {"off", "ready"} => held = [w \in Worker |-> NoJob]
    /\ phase = "off" => sweeping = {}

\* A held job was claimed: its row is past the queue.
HeldIsClaimed ==
    \A w \in Worker : held[w] # NoJob => row[held[w]].state \notin {"absent", "queued"}

\* From registration to deregistration the job's context can be cancelled.
HeldIsRunning ==
    \A w \in Worker :
        pc[w] \in {"registered", "running", "published", "returned"} => held[w] \in running

\* Until the runner returns, only a cancellation can have moved the row.
RunnerOwnsRow ==
    \A w \in Worker :
        pc[w] \in {"claimed", "registered", "running", "published"} =>
            row[held[w]].state \in {"running", "cancelled"}

\* Files appear with the step to "published", and not before.
FilesFollowRunner ==
    /\ \A j \in outputs : row[j].state \notin {"absent", "queued"}
    /\ \A w \in Worker : pc[w] = "published" => held[w] \in outputs
    /\ \A w \in Worker :
          pc[w] \in {"claimed", "registered", "running"} => held[w] \notin outputs

\* A runner that returned with the row still running either failed without
\* files or hands the scheduler the result of the files it left.
UnsavedMeansFiles ==
    \A w \in Worker :
        pc[w] \in {"returned", "finalizing", "persisting"} /\ Is(held[w], "running") =>
            err[w] = (IF held[w] \in outputs THEN "unsaved" ELSE "error")

\* The children of a batch are admitted together.
AdmittedTogether ==
    \A j, k \in Job : BatchOf[j] = BatchOf[k] /\ Is(j, "absent") => Is(k, "absent")

\* A sweep forgets only children that are terminal.
SweepCovers ==
    \A b \in sweeping : \A j \in Child(b) : j \in sweep[b] \/ row[j].state \in Terminal

\* Who holds which job, and what that says about its row.
Ownership ==
    /\ OneWorkerPerJob /\ HeldIsClaimed /\ OffIsEmpty /\ HeldIsRunning /\ RunnerOwnsRow

\* What the files on disk and the results in the rows say about each other.
Results ==
    /\ FilesFollowRunner /\ UnsavedMeansFiles /\ PublishedNeverFails /\ SuccessHasResult

\* Whom a cancellation or a shutdown reaches.
Signals ==
    /\ RunningIsCarried /\ CancelReachesRunner /\ ShutdownReachesRunner

Batches == AdmittedTogether /\ SweepCovers

IInv == Typed /\ Ownership /\ Results /\ Signals /\ Batches

\* The fields of the rows that the proofs below look at.
LEMMA RowFacts ==
    /\ Absent.state = "absent" /\ Queued.state = "queued" /\ Running.state = "running"
    /\ Saved.state = "succeeded" /\ Saved.result = "runner" /\ EmptyResult.state = "succeeded"
    /\ Failed.state = "failed" /\ FailedScan.state = "failed" /\ Interrupted.state = "failed"
    /\ Cancelled.state = "cancelled"
  BY DEF Absent, Queued, Running, Saved, EmptyResult, Failed, FailedScan, Interrupted,
     Cancelled, Record

\* What a cancelled row means for the contexts: every registered worker of
\* the job is told, unless the caller got an error.
CancelHits(k) ==
    /\ row[k].state \in Active
    /\ row' = [row EXCEPT ![k] = Cancelled]
    /\ unread \subseteq unread'
    /\ \A w \in Worker : cause[w] # "none" => cause'[w] # "none"
    /\ k \in unread' \/ \A w \in Worker : held[w] = k /\ k \in running => cause'[w] # "none"

\* What no cancellation touches.
uncancelled == <<stamp, clock, outputs, process, pc, held, err, running, workers, orphaned, missed>>

\* All three ways to cancel touch one active row, or none.
LEMMA CancelsOneRow ==
    ASSUME Typed,
           \/ \E j \in Job : Cancel(j)
           \/ \E b \in Batch : AbortCancelBatch(b) \/ \E j \in Job : CancelChild(b, j)
    PROVE  /\ UNCHANGED uncancelled
           /\ sweeping' \subseteq sweeping
           /\ UNCHANGED <<row, cause, unread>> \/ \E k \in Job : CancelHits(k)
<1> USE DEF Typed, TypeOK
<1>1. ASSUME NEW j \in Job, CancelJob(j) \/ CancelJobUnread(j) PROVE CancelHits(j)
  BY <1>1 DEF CancelJob, CancelJobUnread, CancelRow, CancelContexts, CancelHits
<1>2. ASSUME NEW j \in Job, Cancel(j)
      PROVE  /\ UNCHANGED uncancelled
             /\ sweeping' = sweeping /\ CancelHits(j)
  BY <1>1, <1>2 DEF Cancel, request, uncancelled
<1>3. ASSUME NEW b \in Batch, AbortCancelBatch(b)
      PROVE  /\ UNCHANGED uncancelled
             /\ sweeping' = sweeping \ {b}
             /\ UNCHANGED <<row, cause, unread>> \/ \E k \in Job : CancelHits(k)
  BY <1>1, <1>3 DEF AbortCancelBatch, uncancelled
<1>4. ASSUME NEW b \in Batch, NEW j \in Job, CancelChild(b, j)
      PROVE  /\ UNCHANGED uncancelled
             /\ sweeping' = sweeping
             /\ UNCHANGED <<row, cause, unread>> \/ CancelHits(j)
  BY <1>1, <1>4 DEF CancelChild, uncancelled
<1> QED BY <1>2, <1>3, <1>4

\* Both ways to submit turn absent rows into queued ones.
LEMMA SubmitsNewRows ==
    ASSUME Typed, NEW b \in Batch, Submit(b) \/ SubmitProposal(b)
    PROVE  /\ UNCHANGED <<outputs, process, worker, request, history>>
           /\ \A k \in Job : IF k \in Child(b) THEN row[k].state = "absent" /\ row'[k] = Queued
                                               ELSE row'[k] = row[k]
<1>1. Admit(b) /\ \A j \in Child(b) : row[j].state = "absent"
  BY DEF Submit, SubmitProposal, Is
<1> QED BY <1>1 DEF Admit, Typed, TypeOK

\* An admission leaves the rows of claimed jobs alone.
LEMMA SubmitKeepsHeldRows ==
    ASSUME Typed, HeldIsClaimed, NEW b \in Batch, Submit(b) \/ SubmitProposal(b)
    PROVE  \A w \in Worker : held[w] # NoJob => held[w] \in Job /\ row'[held[w]] = row[held[w]]
<1> SUFFICES ASSUME NEW w \in Worker, held[w] # NoJob
             PROVE  held[w] \in Job /\ row'[held[w]] = row[held[w]]
  OBVIOUS
<1>1. held[w] \in Job /\ row[held[w]].state # "absent"
  BY DEF Typed, TypeOK, HeldIsClaimed
<1> QED BY <1>1, SubmitsNewRows

\* An empty database with no process satisfies the invariant.
LEMMA InvInit == Init => IInv
<1> SUFFICES ASSUME Init PROVE IInv
  OBVIOUS
<1> USE SchedulerAssumption, RowFacts DEF Init, Fresh, Is
<1>1. Typed
  BY TypedInit
<1>2. OneWorkerPerJob /\ HeldIsClaimed /\ OffIsEmpty
  BY DEF OneWorkerPerJob, HeldIsClaimed, OffIsEmpty
<1>3. HeldIsRunning /\ RunnerOwnsRow /\ FilesFollowRunner
  BY DEF HeldIsRunning, RunnerOwnsRow, FilesFollowRunner
<1>4. UnsavedMeansFiles /\ PublishedNeverFails /\ SuccessHasResult
  BY DEF UnsavedMeansFiles, PublishedNeverFails, SuccessHasResult
<1>5. RunningIsCarried /\ CancelReachesRunner /\ ShutdownReachesRunner
  BY DEF RunningIsCarried, CancelReachesRunner, ShutdownReachesRunner
<1>6. AdmittedTogether /\ SweepCovers
  BY DEF AdmittedTogether, SweepCovers
<1> QED BY <1>1, <1>2, <1>3, <1>4, <1>5, <1>6 DEF IInv, Ownership, Results, Signals, Batches

\* Ownership is inductive on its own.
LEMMA OwnershipStep == Typed /\ Ownership /\ [Next]_vars => Ownership'
<1> SUFFICES ASSUME Typed, Ownership, [Next]_vars PROVE Ownership'
  OBVIOUS
<1>0. Typed'
  BY TypedStep
<1> USE SchedulerAssumption, RowFacts, <1>0
    DEF Typed, TypeOK, HoldsJob, durable, process, worker, request, history, uncancelled,
        Ownership, OneWorkerPerJob, HeldIsClaimed, OffIsEmpty, HeldIsRunning, RunnerOwnsRow,
        Is
<1>1. ASSUME NEW b \in Batch, Submit(b) \/ SubmitProposal(b) PROVE Ownership'
  <2>0. \A w \in Worker : held[w] # NoJob => held[w] \in Job /\ row'[held[w]] = row[held[w]]
    BY <1>1, SubmitKeepsHeldRows
  <2>1. OneWorkerPerJob'
    BY <1>1, <2>0, SubmitsNewRows
  <2>2. HeldIsClaimed'
    BY <1>1, <2>0, SubmitsNewRows
  <2>3. OffIsEmpty'
    BY <1>1, <2>0, SubmitsNewRows
  <2>4. HeldIsRunning'
    BY <1>1, <2>0, SubmitsNewRows
  <2>5. RunnerOwnsRow'
    BY <1>1, <2>0, SubmitsNewRows
  <2> QED BY <2>1, <2>2, <2>3, <2>4, <2>5
<1>2. ASSUME NEW b \in Batch, BeginCancelBatch(b) PROVE Ownership'
  BY <1>2 DEF BeginCancelBatch, BeginSweep, Child, ActiveJobs, Active, Terminal, Rows
<1>3. ASSUME NEW b \in Batch, EndCancelBatch(b) PROVE Ownership'
  BY <1>3 DEF EndCancelBatch
<1>4. ASSUME \/ \E j \in Job : Cancel(j)
             \/ \E b \in Batch : AbortCancelBatch(b) \/ \E j \in Job : CancelChild(b, j)
      PROVE Ownership'
  <2>1. CASE UNCHANGED <<row, cause, unread>>
    BY <1>4, <2>1, CancelsOneRow
  <2>2. ASSUME NEW k \in Job, CancelHits(k)
        PROVE  Ownership'
    <3>1. OneWorkerPerJob'
      BY <1>4, <2>2, CancelsOneRow DEF CancelHits, Active
    <3>2. HeldIsClaimed'
      BY <1>4, <2>2, CancelsOneRow DEF CancelHits, Active
    <3>3. OffIsEmpty'
      BY <1>4, <2>2, CancelsOneRow DEF CancelHits, Active
    <3>4. HeldIsRunning'
      BY <1>4, <2>2, CancelsOneRow DEF CancelHits, Active
    <3>5. RunnerOwnsRow'
      BY <1>4, <2>2, CancelsOneRow DEF CancelHits, Active
    <3> QED BY <3>1, <3>2, <3>3, <3>4, <3>5
  <2> QED BY <1>4, <2>1, <2>2, CancelsOneRow
<1>5. ASSUME (\E c \in Config : SetLimits(c)) \/ Start PROVE Ownership'
  BY <1>5 DEF SetLimits, Start, Spawn, Go
<1>6. ASSUME BeginShutdown \/ StopScheduler PROVE Ownership'
  BY <1>6 DEF BeginShutdown, StopScheduler, CancelContexts
<1>7. ASSUME Exit PROVE Ownership'
  BY <1>7 DEF Exit, Fresh
<1>8. ASSUME Recover PROVE Ownership'
  BY <1>8 DEF Recover
<1>9. ASSUME NEW j \in Job, ReconcileExport(j) PROVE Ownership'
  BY <1>9 DEF ReconcileExport
<1>10. ASSUME NEW w \in Worker, Claim(w) PROVE Ownership'
  <2> PICK j \in Job :
        /\ Oldest(j)
        /\ row' = [row EXCEPT ![j] = Running] /\ held' = [held EXCEPT ![w] = j]
    BY <1>10 DEF Claim
  <2>1. pc[w] = "loop" /\ phase = "started" /\ row[j].state = "queued"
    BY <1>10 DEF Claim, AtTop, Oldest
  <2>2. /\ pc' = [pc EXCEPT ![w] = "claimed"]
        /\ UNCHANGED <<stamp, clock, outputs, process, err, cause, running, workers,
                       request, history>>
    BY <1>10 DEF Claim, Goto
  <2> QED BY <2>1, <2>2 DEF NoJob
<1>11. ASSUME NEW w \in Worker, RunnerFails(w) PROVE Ownership'
  BY <1>11 DEF RunnerFails, Return, Goto
<1>12. ASSUME NEW w \in Worker, FailWithResult(w) PROVE Ownership'
  BY <1>12 DEF FailWithResult, FailAs, Return, Goto
<1>13. ASSUME NEW w \in Worker, Publish(w) \/ RollBack(w) PROVE Ownership'
  BY <1>13 DEF Publish, RollBack, Return, Goto
<1>14. ASSUME NEW w \in Worker, SaveResult(w) PROVE Ownership'
  BY <1>14 DEF SaveResult, Return, Unsaved, HasResult, Goto
<1>15. ASSUME NEW w \in Worker, SaveRefused(w) \/ SaveTimesOut(w) PROVE Ownership'
  BY <1>15 DEF SaveRefused, SaveTimesOut, Return, Unsaved, HasResult, Goto
<1>16. ASSUME NEW w \in Worker, ClaimNothing(w) \/ Wake(w) \/ LeaveWait(w) \/ Retire(w)
       PROVE  Ownership'
  BY <1>16 DEF ClaimNothing, AtTop, Wake, LeaveWait, Retire, RetireWhen, Goto
<1>17. ASSUME NEW w \in Worker, Register(w) \/ Recheck(w) PROVE Ownership'
  BY <1>17 DEF Register, RegisterAs, Recheck, Goto
<1>18. ASSUME NEW w \in Worker, Deregister(w) PROVE Ownership'
  BY <1>18 DEF Deregister, Goto
<1>19. ASSUME NEW w \in Worker, ReadState(w) \/ GiveUp(w) PROVE Ownership'
  BY <1>19 DEF ReadState, GiveUp, NextJob, Goto
<1>20. ASSUME NEW w \in Worker, Persist(w) PROVE Ownership'
  BY <1>20 DEF Persist, Write, Target, NextJob, Goto
<1>21. ASSUME UNCHANGED vars PROVE Ownership'
  BY <1>21 DEF vars
<1> QED BY <1>1, <1>2, <1>3, <1>4, <1>5, <1>6, <1>7, <1>8, <1>9, <1>10, <1>11, <1>12, <1>13,
   <1>14, <1>15, <1>16, <1>17, <1>18, <1>19, <1>20, <1>21 DEF Next, Client, Lifecycle,
   RunnerStep, LoopStep

\* Results are inductive relative to ownership: only the one worker of a job
\* publishes its files, and only while its row is still its own.
LEMMA ResultsStep == Typed /\ Ownership /\ Results /\ [Next]_vars => Results'
<1> SUFFICES ASSUME Typed, Ownership, Results, [Next]_vars PROVE Results'
  OBVIOUS
<1>0. Typed'
  BY TypedStep
<1> USE SchedulerAssumption, RowFacts, <1>0
    DEF Typed, TypeOK, HoldsJob, durable, process, worker, request, history, uncancelled,
        Results, FilesFollowRunner, UnsavedMeansFiles, PublishedNeverFails,
           SuccessHasResult, Ownership, OneWorkerPerJob, HeldIsClaimed, OffIsEmpty,
        HeldIsRunning, RunnerOwnsRow, Is
<1>1. ASSUME NEW b \in Batch, Submit(b) \/ SubmitProposal(b) PROVE Results'
  <2>0. \A w \in Worker : held[w] # NoJob => held[w] \in Job /\ row'[held[w]] = row[held[w]]
    BY <1>1, SubmitKeepsHeldRows
  <2>1. FilesFollowRunner'
    BY <1>1, <2>0, SubmitsNewRows
  <2>2. UnsavedMeansFiles'
    BY <1>1, <2>0, SubmitsNewRows
  <2>3. PublishedNeverFails'
    BY <1>1, <2>0, SubmitsNewRows
  <2>4. SuccessHasResult'
    BY <1>1, <2>0, SubmitsNewRows
  <2> QED BY <2>1, <2>2, <2>3, <2>4
<1>2. ASSUME NEW b \in Batch, BeginCancelBatch(b) PROVE Results'
  BY <1>2 DEF BeginCancelBatch, BeginSweep, Child, ActiveJobs, Active, Terminal, Rows
<1>3. ASSUME NEW b \in Batch, EndCancelBatch(b) PROVE Results'
  BY <1>3 DEF EndCancelBatch
<1>4. ASSUME \/ \E j \in Job : Cancel(j)
             \/ \E b \in Batch : AbortCancelBatch(b) \/ \E j \in Job : CancelChild(b, j)
      PROVE Results'
  <2>1. CASE UNCHANGED <<row, cause, unread>>
    BY <1>4, <2>1, CancelsOneRow
  <2>2. ASSUME NEW k \in Job, CancelHits(k)
        PROVE  Results'
    <3>1. FilesFollowRunner'
      BY <1>4, <2>2, CancelsOneRow DEF CancelHits, Active
    <3>2. UnsavedMeansFiles'
      BY <1>4, <2>2, CancelsOneRow DEF CancelHits, Active
    <3>3. PublishedNeverFails'
      BY <1>4, <2>2, CancelsOneRow DEF CancelHits, Active
    <3>4. SuccessHasResult'
      BY <1>4, <2>2, CancelsOneRow DEF CancelHits, Active
    <3> QED BY <3>1, <3>2, <3>3, <3>4
  <2> QED BY <1>4, <2>1, <2>2, CancelsOneRow
<1>5. ASSUME (\E c \in Config : SetLimits(c)) \/ Start PROVE Results'
  BY <1>5 DEF SetLimits, Start, Spawn, Go
<1>6. ASSUME BeginShutdown \/ StopScheduler PROVE Results'
  BY <1>6 DEF BeginShutdown, StopScheduler, CancelContexts
<1>7. ASSUME Exit PROVE Results'
  BY <1>7 DEF Exit, Fresh
<1>8. ASSUME Recover PROVE Results'
  BY <1>8 DEF Recover
<1>9. ASSUME NEW j \in Job, ReconcileExport(j) PROVE Results'
  BY <1>9 DEF ReconcileExport
<1>10. ASSUME NEW w \in Worker, Claim(w) PROVE Results'
  <2> PICK j \in Job :
        /\ Oldest(j)
        /\ row' = [row EXCEPT ![j] = Running] /\ held' = [held EXCEPT ![w] = j]
    BY <1>10 DEF Claim
  <2>1. pc[w] = "loop" /\ phase = "started" /\ row[j].state = "queued"
    BY <1>10 DEF Claim, AtTop, Oldest
  <2>2. /\ pc' = [pc EXCEPT ![w] = "claimed"]
        /\ UNCHANGED <<stamp, clock, outputs, process, err, cause, running, workers,
                       request, history>>
    BY <1>10 DEF Claim, Goto
  <2> QED BY <2>1, <2>2 DEF NoJob
<1>11. ASSUME NEW w \in Worker, RunnerFails(w) PROVE Results'
  BY <1>11 DEF RunnerFails, Return, Goto
<1>12. ASSUME NEW w \in Worker, FailWithResult(w) PROVE Results'
  BY <1>12 DEF FailWithResult, FailAs, Return, Goto
<1>13. ASSUME NEW w \in Worker, Publish(w) \/ RollBack(w) PROVE Results'
  BY <1>13 DEF Publish, RollBack, Return, Goto
<1>14. ASSUME NEW w \in Worker, SaveResult(w) PROVE Results'
  BY <1>14 DEF SaveResult, Return, Unsaved, HasResult, Goto
<1>15. ASSUME NEW w \in Worker, SaveRefused(w) \/ SaveTimesOut(w) PROVE Results'
  BY <1>15 DEF SaveRefused, SaveTimesOut, Return, Unsaved, HasResult, Goto
<1>16. ASSUME NEW w \in Worker, ClaimNothing(w) \/ Wake(w) \/ LeaveWait(w) \/ Retire(w)
       PROVE  Results'
  BY <1>16 DEF ClaimNothing, AtTop, Wake, LeaveWait, Retire, RetireWhen, Goto
<1>17. ASSUME NEW w \in Worker, Register(w) \/ Recheck(w) PROVE Results'
  BY <1>17 DEF Register, RegisterAs, Recheck, Goto
<1>18. ASSUME NEW w \in Worker, Deregister(w) PROVE Results'
  BY <1>18 DEF Deregister, Goto
<1>19. ASSUME NEW w \in Worker, ReadState(w) \/ GiveUp(w) PROVE Results'
  BY <1>19 DEF ReadState, GiveUp, NextJob, Goto
<1>20. ASSUME NEW w \in Worker, Persist(w) PROVE Results'
  BY <1>20 DEF Persist, Write, Target, NextJob, Goto
<1>21. ASSUME UNCHANGED vars PROVE Results'
  BY <1>21 DEF vars
<1> QED BY <1>1, <1>2, <1>3, <1>4, <1>5, <1>6, <1>7, <1>8, <1>9, <1>10, <1>11, <1>12, <1>13,
   <1>14, <1>15, <1>16, <1>17, <1>18, <1>19, <1>20, <1>21 DEF Next, Client, Lifecycle,
   RunnerStep, LoopStep

\* Signals are inductive relative to ownership: a registered context is in
\* s.running, where Cancel and Shutdown find it.
LEMMA SignalsStep == Typed /\ Ownership /\ Signals /\ [Next]_vars => Signals'
<1> SUFFICES ASSUME Typed, Ownership, Signals, [Next]_vars PROVE Signals'
  OBVIOUS
<1>0. Typed'
  BY TypedStep
<1> USE SchedulerAssumption, RowFacts, <1>0
    DEF Typed, TypeOK, HoldsJob, durable, process, worker, request, history, uncancelled,
        Signals, RunningIsCarried, CancelReachesRunner, ShutdownReachesRunner, Ownership,
        OneWorkerPerJob, HeldIsClaimed, OffIsEmpty, HeldIsRunning, RunnerOwnsRow, Is
<1>1. ASSUME NEW b \in Batch, Submit(b) \/ SubmitProposal(b) PROVE Signals'
  <2>0. \A w \in Worker : held[w] # NoJob => held[w] \in Job /\ row'[held[w]] = row[held[w]]
    BY <1>1, SubmitKeepsHeldRows
  <2>1. RunningIsCarried'
    BY <1>1, <2>0, SubmitsNewRows
  <2>2. CancelReachesRunner'
    BY <1>1, <2>0, SubmitsNewRows
  <2>3. ShutdownReachesRunner'
    BY <1>1, <2>0, SubmitsNewRows
  <2> QED BY <2>1, <2>2, <2>3
<1>2. ASSUME NEW b \in Batch, BeginCancelBatch(b) PROVE Signals'
  BY <1>2 DEF BeginCancelBatch, BeginSweep, Child, ActiveJobs, Active, Terminal, Rows
<1>3. ASSUME NEW b \in Batch, EndCancelBatch(b) PROVE Signals'
  BY <1>3 DEF EndCancelBatch
<1>4. ASSUME \/ \E j \in Job : Cancel(j)
             \/ \E b \in Batch : AbortCancelBatch(b) \/ \E j \in Job : CancelChild(b, j)
      PROVE Signals'
  <2>1. CASE UNCHANGED <<row, cause, unread>>
    BY <1>4, <2>1, CancelsOneRow
  <2>2. ASSUME NEW k \in Job, CancelHits(k)
        PROVE  Signals'
    <3>1. RunningIsCarried'
      BY <1>4, <2>2, CancelsOneRow DEF CancelHits, Active
    <3>2. CancelReachesRunner'
      <4> SUFFICES ASSUME NEW w \in Worker, pc'[w] \in {"running", "published"},
                          Is(held[w], "cancelled")'
                   PROVE  cause'[w] # "none" \/ held'[w] \in unread'
        BY DEF CancelReachesRunner
      <4>1. held'[w] = held[w] /\ pc'[w] = pc[w] /\ held[w] \in Job
        BY <1>4, CancelsOneRow
      <4>2. CASE held[w] = k
        BY <2>2, <4>1, <4>2 DEF CancelHits
      <4>3. CASE held[w] # k
        <5>1. row'[held[w]] = row[held[w]]
          BY <2>2, <4>1, <4>3 DEF CancelHits
        <5>2. cause[w] # "none" \/ held[w] \in unread
          BY <4>1, <5>1
        <5> QED BY <2>2, <4>1, <5>2 DEF CancelHits
      <4> QED BY <4>2, <4>3
    <3>3. ShutdownReachesRunner'
      BY <1>4, <2>2, CancelsOneRow DEF CancelHits, Active
    <3> QED BY <3>1, <3>2, <3>3
  <2> QED BY <1>4, <2>1, <2>2, CancelsOneRow
<1>5. ASSUME (\E c \in Config : SetLimits(c)) \/ Start PROVE Signals'
  BY <1>5 DEF SetLimits, Start, Spawn, Go
<1>6. ASSUME BeginShutdown \/ StopScheduler PROVE Signals'
  BY <1>6 DEF BeginShutdown, StopScheduler, CancelContexts
<1>7. ASSUME Exit PROVE Signals'
  BY <1>7 DEF Exit, Fresh
<1>8. ASSUME Recover PROVE Signals'
  BY <1>8 DEF Recover
<1>9. ASSUME NEW j \in Job, ReconcileExport(j) PROVE Signals'
  BY <1>9 DEF ReconcileExport
<1>10. ASSUME NEW w \in Worker, Claim(w) PROVE Signals'
  <2> PICK j \in Job :
        /\ Oldest(j)
        /\ row' = [row EXCEPT ![j] = Running] /\ held' = [held EXCEPT ![w] = j]
    BY <1>10 DEF Claim
  <2>1. pc[w] = "loop" /\ phase = "started" /\ row[j].state = "queued"
    BY <1>10 DEF Claim, AtTop, Oldest
  <2>2. /\ pc' = [pc EXCEPT ![w] = "claimed"]
        /\ UNCHANGED <<stamp, clock, outputs, process, err, cause, running, workers,
                       request, history>>
    BY <1>10 DEF Claim, Goto
  <2> QED BY <2>1, <2>2 DEF NoJob
<1>11. ASSUME NEW w \in Worker, RunnerFails(w) PROVE Signals'
  BY <1>11 DEF RunnerFails, Return, Goto
<1>12. ASSUME NEW w \in Worker, FailWithResult(w) PROVE Signals'
  BY <1>12 DEF FailWithResult, FailAs, Return, Goto
<1>13. ASSUME NEW w \in Worker, Publish(w) \/ RollBack(w) PROVE Signals'
  BY <1>13 DEF Publish, RollBack, Return, Goto
<1>14. ASSUME NEW w \in Worker, SaveResult(w) PROVE Signals'
  BY <1>14 DEF SaveResult, Return, Unsaved, HasResult, Goto
<1>15. ASSUME NEW w \in Worker, SaveRefused(w) \/ SaveTimesOut(w) PROVE Signals'
  BY <1>15 DEF SaveRefused, SaveTimesOut, Return, Unsaved, HasResult, Goto
<1>16. ASSUME NEW w \in Worker, ClaimNothing(w) \/ Wake(w) \/ LeaveWait(w) \/ Retire(w)
       PROVE  Signals'
  BY <1>16 DEF ClaimNothing, AtTop, Wake, LeaveWait, Retire, RetireWhen, Goto
<1>17. ASSUME NEW w \in Worker, Register(w) \/ Recheck(w) PROVE Signals'
  BY <1>17 DEF Register, RegisterAs, Recheck, Goto
<1>18. ASSUME NEW w \in Worker, Deregister(w) PROVE Signals'
  BY <1>18 DEF Deregister, Goto
<1>19. ASSUME NEW w \in Worker, ReadState(w) \/ GiveUp(w) PROVE Signals'
  BY <1>19 DEF ReadState, GiveUp, NextJob, Goto
<1>20. ASSUME NEW w \in Worker, Persist(w) PROVE Signals'
  BY <1>20 DEF Persist, Write, Target, NextJob, Goto
<1>21. ASSUME UNCHANGED vars PROVE Signals'
  BY <1>21 DEF vars
<1> QED BY <1>1, <1>2, <1>3, <1>4, <1>5, <1>6, <1>7, <1>8, <1>9, <1>10, <1>11, <1>12, <1>13,
   <1>14, <1>15, <1>16, <1>17, <1>18, <1>19, <1>20, <1>21 DEF Next, Client, Lifecycle,
   RunnerStep, LoopStep

\* Batches need no more than the types: terminal rows never move.
LEMMA BatchesStep == Typed /\ Batches /\ [Next]_vars => Batches'
<1> SUFFICES ASSUME Typed, Batches, [Next]_vars PROVE Batches'
  OBVIOUS
<1>0. Typed'
  BY TypedStep
<1> USE SchedulerAssumption, RowFacts, <1>0
    DEF Typed, TypeOK, HoldsJob, durable, process, worker, request, history,
        Batches, AdmittedTogether, SweepCovers, Is, Child, Terminal
<1>1. ASSUME NEW b \in Batch, Submit(b) \/ SubmitProposal(b) PROVE Batches'
  <2>1. AdmittedTogether'
    BY <1>1, SubmitsNewRows DEF Child
  <2>2. SweepCovers'
    BY <1>1, SubmitsNewRows DEF Child
  <2> QED BY <2>1, <2>2
<1>2. ASSUME NEW b \in Batch, BeginCancelBatch(b) PROVE Batches'
  BY <1>2 DEF BeginCancelBatch, BeginSweep, ActiveJobs, Active, Rows
<1>3. ASSUME NEW b \in Batch, EndCancelBatch(b) PROVE Batches'
  BY <1>3 DEF EndCancelBatch
<1>4. ASSUME \/ \E j \in Job : Cancel(j)
             \/ \E b \in Batch : AbortCancelBatch(b) \/ \E j \in Job : CancelChild(b, j)
      PROVE Batches'
  BY <1>4 DEF Cancel, AbortCancelBatch, CancelChild, CancelJob, CancelJobUnread, CancelRow,
     CancelContexts, Active
<1>5. ASSUME (\E c \in Config : SetLimits(c)) \/ Start PROVE Batches'
  BY <1>5 DEF SetLimits, Start, Spawn, Go
<1>6. ASSUME BeginShutdown \/ StopScheduler PROVE Batches'
  BY <1>6 DEF BeginShutdown, StopScheduler, CancelContexts
<1>7. ASSUME Exit PROVE Batches'
  BY <1>7 DEF Exit, Fresh
<1>8. ASSUME Recover PROVE Batches'
  BY <1>8 DEF Recover
<1>9. ASSUME NEW j \in Job, ReconcileExport(j) PROVE Batches'
  BY <1>9 DEF ReconcileExport
<1>10. ASSUME NEW w \in Worker, Claim(w) PROVE Batches'
  <2> PICK j \in Job :
        /\ Oldest(j)
        /\ row' = [row EXCEPT ![j] = Running] /\ held' = [held EXCEPT ![w] = j]
    BY <1>10 DEF Claim
  <2>1. pc[w] = "loop" /\ phase = "started" /\ row[j].state = "queued"
    BY <1>10 DEF Claim, AtTop, Oldest
  <2>2. /\ pc' = [pc EXCEPT ![w] = "claimed"]
        /\ UNCHANGED <<stamp, clock, outputs, process, err, cause, running, workers,
                       request, history>>
    BY <1>10 DEF Claim, Goto
  <2> QED BY <2>1, <2>2 DEF NoJob
<1>11. ASSUME NEW w \in Worker, RunnerFails(w) PROVE Batches'
  BY <1>11 DEF RunnerFails, Return, Goto
<1>12. ASSUME NEW w \in Worker, FailWithResult(w) PROVE Batches'
  BY <1>12 DEF FailWithResult, FailAs, Return, Goto
<1>13. ASSUME NEW w \in Worker, Publish(w) \/ RollBack(w) PROVE Batches'
  BY <1>13 DEF Publish, RollBack, Return, Goto
<1>14. ASSUME NEW w \in Worker, SaveResult(w) PROVE Batches'
  BY <1>14 DEF SaveResult, Return, Unsaved, HasResult, Goto
<1>15. ASSUME NEW w \in Worker, SaveRefused(w) \/ SaveTimesOut(w) PROVE Batches'
  BY <1>15 DEF SaveRefused, SaveTimesOut, Return, Unsaved, HasResult, Goto
<1>16. ASSUME NEW w \in Worker, ClaimNothing(w) \/ Wake(w) \/ LeaveWait(w) \/ Retire(w)
       PROVE  Batches'
  BY <1>16 DEF ClaimNothing, AtTop, Wake, LeaveWait, Retire, RetireWhen, Goto
<1>17. ASSUME NEW w \in Worker, Register(w) \/ Recheck(w) PROVE Batches'
  BY <1>17 DEF Register, RegisterAs, Recheck, Goto
<1>18. ASSUME NEW w \in Worker, Deregister(w) PROVE Batches'
  <2>1. UNCHANGED <<row, sweeping, sweep>>
    BY <1>18 DEF Deregister
  <2> QED BY <2>1
<1>19. ASSUME NEW w \in Worker, ReadState(w) \/ GiveUp(w) PROVE Batches'
  BY <1>19 DEF ReadState, GiveUp, NextJob, Goto
<1>20. ASSUME NEW w \in Worker, Persist(w) PROVE Batches'
  BY <1>20 DEF Persist, Write, Target, NextJob, Goto
<1>21. ASSUME UNCHANGED vars PROVE Batches'
  BY <1>21 DEF vars
<1> QED BY <1>1, <1>2, <1>3, <1>4, <1>5, <1>6, <1>7, <1>8, <1>9, <1>10, <1>11, <1>12, <1>13,
   <1>14, <1>15, <1>16, <1>17, <1>18, <1>19, <1>20, <1>21 DEF Next, Client, Lifecycle,
   RunnerStep, LoopStep

\* The conjunction is inductive ...
LEMMA InvStep == IInv /\ [Next]_vars => IInv'
  BY TypedStep, OwnershipStep, ResultsStep, SignalsStep, BatchesStep DEF IInv

\* ... and so holds in every reachable state.
LEMMA Invariance == Spec => []IInv
  BY InvInit, InvStep, PTL DEF Spec

\* No job is ever executed by two workers at once.
THEOREM OneWorker == Spec => []OneWorkerPerJob
  BY Invariance, PTL DEF IInv, Ownership

\* A published export is never reported as failed.
THEOREM Published == Spec => []PublishedNeverFails
  BY Invariance, PTL DEF IInv, Results

\* A success has its runner's result and, for an export, its files.
THEOREM Success == Spec => []SuccessHasResult
  BY Invariance, PTL DEF IInv, Results

\* No row is stuck in running unless its terminal write was given up.
THEOREM Carried == Spec => []RunningIsCarried
  BY Invariance, PTL DEF IInv, Signals

\* A cancellation and a shutdown reach the runner whenever they fell.
THEOREM StopReaches == Spec => []StopReachesRunner
<1>1. IInv => StopReachesRunner
  BY DEF IInv, Signals, StopReachesRunner
<1> QED BY <1>1, Invariance, PTL

\* A finished batch cancellation has left no active child.
THEOREM SweepComplete == Spec => []SweepIsComplete
<1>1. IInv => SweepIsComplete
  BY DEF IInv, Batches, SweepCovers, SweepIsComplete
<1> QED BY <1>1, Invariance, PTL

-----------------------------------------------------------------------------
(* Refinement: every step of the scheduler changes the state column as     *)
(* JobLifecycle allows, or not at all.                                     *)

States == [j \in Job |-> row[j].state]

\* A write to one row that moves its state along one edge of the life cycle.
LEMMA OneRowMoves ==
    ASSUME Typed, NEW j \in Job, NEW r, row' = [row EXCEPT ![j] = r],
           \/ row[j].state = "queued" /\ r.state = "running"
           \/ row[j].state = "running" /\ r.state \in {"succeeded", "failed", "cancelled"}
           \/ row[j].state = "queued" /\ r.state = "cancelled"
           \/ row[j].state = r.state
    PROVE  [Queue!Next]_States
<1>1. States' = [States EXCEPT ![j] = r.state]
  BY DEF Typed, TypeOK, States
<1>2. States[j] = row[j].state
  BY DEF States
<1>3. CASE row[j].state = r.state
  BY <1>1, <1>2, <1>3 DEF States
<1>4. CASE row[j].state = "queued" /\ r.state = "running"
  BY <1>1, <1>2, <1>4 DEF Queue!Next, Queue!Claim, Queue!Transition, States
<1>5. CASE row[j].state = "running" /\ r.state = "succeeded"
  BY <1>1, <1>2, <1>5 DEF Queue!Next, Queue!Succeed, Queue!Transition, States
<1>6. CASE row[j].state = "running" /\ r.state = "failed"
  BY <1>1, <1>2, <1>6 DEF Queue!Next, Queue!Fail, Queue!Transition, States
<1>7. CASE row[j].state \in {"queued", "running"} /\ r.state = "cancelled"
  BY <1>1, <1>2, <1>7 DEF Queue!Next, Queue!Cancel, Queue!Transition, Queue!Active, States
<1> QED BY <1>3, <1>4, <1>5, <1>6, <1>7

\* Initially no job exists in either specification.
LEMMA RefinesInit == Init => Queue!Init
  BY RowFacts DEF Init, Queue!Init

\* Each action is one abstract action or leaves every state as it is.
LEMMA RefinesStep == Typed /\ [Next]_vars => [Queue!Next]_States
<1> SUFFICES ASSUME Typed, [Next]_vars PROVE [Queue!Next]_States
  OBVIOUS
<1> USE RowFacts
<1>1. CASE UNCHANGED row
  BY <1>1 DEF States
<1>2. ASSUME NEW b \in Batch, Submit(b) \/ SubmitProposal(b) PROVE [Queue!Next]_States
  <2>1. States' = [j \in Job |-> IF j \in Child(b) THEN "queued" ELSE States[j]]
    BY <1>2, SubmitsNewRows DEF States
  <2>2. Child(b) # {} /\ \A j \in Child(b) : States[j] = "absent"
    BY <1>2, SubmitsNewRows DEF Submit, SubmitProposal, Admit, States, Child
  <2>3. Child(b) \in SUBSET Job
    BY DEF Child
  <2> QED BY <2>1, <2>2, <2>3 DEF Queue!Next, Queue!Admit, States
<1>3. ASSUME \/ \E j \in Job : Cancel(j)
             \/ \E b \in Batch : AbortCancelBatch(b) \/ \E j \in Job : CancelChild(b, j)
      PROVE  [Queue!Next]_States
  <2>1. ASSUME NEW k \in Job, CancelHits(k) PROVE [Queue!Next]_States
    BY <2>1, OneRowMoves DEF CancelHits, Active
  <2> QED BY <1>1, <1>3, <2>1, CancelsOneRow
<1>4. ASSUME Recover PROVE [Queue!Next]_States
  <2>1. States' = [j \in Job |-> IF States[j] = "running" THEN "failed" ELSE States[j]]
    BY <1>4 DEF Recover, Is, States
  <2> QED BY <2>1 DEF Queue!Next, Queue!Recover, States
<1>5. ASSUME NEW j \in Job, ReconcileExport(j) PROVE [Queue!Next]_States
  BY <1>1, <1>5, OneRowMoves DEF ReconcileExport, Is
<1>6. ASSUME NEW w \in Worker, Claim(w) PROVE [Queue!Next]_States
  BY <1>6, OneRowMoves DEF Claim, Oldest, Is
<1>7. ASSUME NEW w \in Worker, FailWithResult(w) \/ SaveResult(w) PROVE [Queue!Next]_States
  <2>1. held[w] \in Job
    BY <1>7 DEF Typed, TypeOK, HoldsJob, FailWithResult, FailAs, SaveResult, HasResult
  <2> QED BY <1>7, <2>1, OneRowMoves DEF FailWithResult, FailAs, SaveResult, Is
<1>8. ASSUME NEW w \in Worker, Persist(w) PROVE [Queue!Next]_States
  <2>1. held[w] \in Job
    BY <1>8 DEF Typed, TypeOK, HoldsJob, Persist, Write
  <2>2. Target(w).state \in {"succeeded", "failed", "cancelled"}
    BY DEF Target, Typed, TypeOK
  <2> QED BY <1>8, <2>1, <2>2, OneRowMoves DEF Persist, Write, Is
<1>9. ASSUME NEW w \in Worker,
             \/ RunnerFails(w) \/ Publish(w) \/ RollBack(w) \/ SaveRefused(w) \/ SaveTimesOut(w)
             \/ ClaimNothing(w) \/ Wake(w) \/ LeaveWait(w) \/ Retire(w)
             \/ Register(w) \/ Recheck(w) \/ Deregister(w) \/ ReadState(w) \/ GiveUp(w)
      PROVE  UNCHANGED row
  BY <1>9 DEF RunnerFails, Publish, RollBack, SaveRefused, SaveTimesOut, ClaimNothing, Wake,
     LeaveWait, Retire, RetireWhen, Register, RegisterAs, Recheck, Deregister, ReadState,
     GiveUp, durable
<1>10. ASSUME \/ \E b \in Batch : BeginCancelBatch(b) \/ EndCancelBatch(b)
              \/ \E c \in Config : SetLimits(c)
              \/ Start \/ BeginShutdown \/ StopScheduler \/ Exit \/ UNCHANGED vars
       PROVE  UNCHANGED row
  BY <1>10 DEF BeginCancelBatch, BeginSweep, EndCancelBatch, SetLimits, Start, BeginShutdown,
     StopScheduler, Exit, durable, vars
<1> QED
  BY <1>1, <1>2, <1>3, <1>4, <1>5, <1>6, <1>7, <1>8, <1>9, <1>10
     DEF Next, Client, Lifecycle, RunnerStep, LoopStep

\* The scheduler implements the job life cycle clients rely on.
THEOREM Refinement == Spec => LifecycleSpec
<1>1. Spec => []Typed
  BY TypedInit, TypedStep, PTL DEF Spec
<1>2. Spec => [][Queue!Next]_States
  BY <1>1, RefinesStep, PTL DEF Spec
<1> QED BY <1>2, RefinesInit, PTL DEF Spec, LifecycleSpec, Queue!Spec, States

\* Nothing moves a row out of a terminal state.
LEMMA TerminalStays ==
    Typed /\ [Next]_vars =>
        \A j \in Job : row[j].state \in Terminal => row'[j].state = row[j].state
<1> SUFFICES ASSUME Typed, [Next]_vars, NEW j \in Job, row[j].state \in Terminal
             PROVE  row'[j].state = row[j].state
  OBVIOUS
<1>1. States[j] = row[j].state /\ States'[j] = row'[j].state
  BY DEF States
<1>2. CASE Queue!Next
  BY <1>1, <1>2 DEF Queue!Next, Queue!Admit, Queue!Claim, Queue!Succeed, Queue!Fail,
     Queue!Cancel, Queue!Recover, Queue!Transition, Queue!Active, Terminal, States
<1>3. CASE UNCHANGED States
  BY <1>1, <1>3
<1> QED BY <1>2, <1>3, RefinesStep

\* What a client polls for: a row that has been terminal once never says anything else,
\* through retries, cancellations, shutdowns and restarts (JobLifecycle's FinalStates).
THEOREM TerminalStatesAreFinal == Spec => Queue!FinalStates
<1>1. Typed /\ [Next]_vars =>
        [\A j \in Job : States[j] \in Queue!Terminal => States'[j] = States[j]]_States
  BY TerminalStays DEF States, Terminal, Queue!Terminal
<1>2. Spec => []Typed
  BY TypedInit, TypedStep, PTL DEF Spec
<1> QED BY <1>1, <1>2, PTL DEF Spec, Queue!FinalStates, States

\* A batch's terminal verdict never changes.
THEOREM VerdictFinal == Spec => BatchVerdictIsFinal
<1>1. ASSUME Typed, [Next]_vars, NEW b \in Batch, Child(b) # {}, BatchState(b) \in Terminal
      PROVE  BatchState(b)' = BatchState(b)
  <2>1. \A j \in Child(b) : row[j].state \in Terminal
    BY <1>1 DEF BatchState, Terminal
  <2>2. \A j \in Child(b) : row'[j].state = row[j].state
    BY <1>1, <2>1, TerminalStays DEF Child
  <2> QED BY <2>1, <2>2 DEF BatchState, Child, Is
<1>2. Typed /\ [Next]_vars =>
        [\A b \in Batch : Child(b) # {} /\ BatchState(b) \in Terminal
                            => BatchState(b)' = BatchState(b)]_vars
  BY <1>1
<1>3. Spec => []Typed
  BY TypedInit, TypedStep, PTL DEF Spec
<1> QED BY <1>2, <1>3, PTL DEF Spec, BatchVerdictIsFinal

-----------------------------------------------------------------------------
(* Rows and files: every step of the scheduler is one that ExportOutcome   *)
(* allows.                                                                  *)

ExportStates == [j \in Export |-> row[j].state]

\* What ExportOutcome sees of a step.
OutcomeMoves == [Outcome!Next]_(Outcome!vars)

\* A write to one row, which says of the files of an export what is true.
LEMMA OneRowTells ==
    ASSUME Typed, NEW j \in Job, NEW r, row' = [row EXCEPT ![j] = r], UNCHANGED <<outputs, missed>>,
           \/ row[j].state = "queued" /\ r.state = "running"
           \/ row[j].state \in {"queued", "running"} /\ r.state = "cancelled"
           \/ row[j].state = "running" /\ r.state = "succeeded" /\ (j \in Export => j \in outputs)
           \/ row[j].state = "running" /\ r.state = "failed" /\ j \notin outputs
           \/ row[j].state = r.state
    PROVE  OutcomeMoves
<1> USE DEF OutcomeMoves, Outcome!vars
<1>1. ExportStates' = IF j \in Export THEN [ExportStates EXCEPT ![j] = r.state] ELSE ExportStates
  BY SchedulerAssumption DEF Typed, TypeOK, ExportStates
<1>2. CASE j \notin Export \/ row[j].state = r.state
  <2>1. ExportStates' = ExportStates
    BY <1>1, <1>2 DEF ExportStates
  <2> QED BY <2>1 DEF ExportStates
<1>3. CASE j \in Export /\ row[j].state # r.state
  <2>1. ExportStates' = [ExportStates EXCEPT ![j] = r.state] /\ ExportStates[j] = row[j].state
    BY <1>1, <1>3 DEF ExportStates
  <2>2. CASE row[j].state = "queued" /\ r.state = "running"
    BY <1>3, <2>1, <2>2 DEF Outcome!Next, Outcome!Claim, Outcome!Move, ExportStates
  <2>3. CASE row[j].state \in {"queued", "running"} /\ r.state = "cancelled"
    BY <1>3, <2>1, <2>3 DEF Outcome!Next, Outcome!Cancel, Outcome!Move, ExportStates
  <2>4. CASE row[j].state = "running" /\ r.state = "succeeded" /\ j \in outputs
    BY <1>3, <2>1, <2>4 DEF Outcome!Next, Outcome!Succeed, Outcome!Move, ExportStates
  <2>5. CASE row[j].state = "running" /\ r.state = "failed" /\ j \notin outputs
    BY <1>3, <2>1, <2>5 DEF Outcome!Next, Outcome!Fail, Outcome!Move, ExportStates
  <2> QED BY <1>3, <2>2, <2>3, <2>4, <2>5
<1> QED BY <1>2, <1>3

\* The files of one export appear, or go while its row is no success.
LEMMA FilesTell ==
    ASSUME NEW j \in Export, UNCHANGED <<row, missed>>,
           \/ outputs' = outputs \cup {j} /\ row[j].state \in {"running", "cancelled"}
           \/ outputs' = outputs \ {j} /\ row[j].state # "succeeded"
    PROVE  OutcomeMoves
<1>1. ExportStates' = ExportStates /\ ExportStates[j] = row[j].state
  BY DEF ExportStates
<1>2. CASE outputs' = outputs \cup {j} /\ row[j].state \in {"running", "cancelled"}
  BY <1>1, <1>2 DEF OutcomeMoves, Outcome!Next, Outcome!Publish, ExportStates
<1>3. CASE outputs' = outputs \ {j} /\ row[j].state # "succeeded"
  BY <1>1, <1>3 DEF OutcomeMoves, Outcome!Next, Outcome!Withdraw, ExportStates
<1> QED BY <1>2, <1>3

\* At first there are no exports and no files.
LEMMA OutcomeInit == Init => Outcome!Init
  BY RowFacts, SchedulerAssumption DEF Init, Outcome!Init

\* Only one worker has the row of a job, and it knows whether there are files.
LEMMA OutcomeStep == Typed /\ Ownership /\ Results /\ [Next]_vars => OutcomeMoves
<1> SUFFICES ASSUME Typed, Ownership, Results, [Next]_vars PROVE OutcomeMoves
  OBVIOUS
<1>a. outputs \subseteq Export /\ Export \subseteq Job
  BY SchedulerAssumption DEF Typed, TypeOK
<1>b. ASSUME NEW w \in Worker, pc[w] \notin {"idle", "loop", "wait"} PROVE held[w] \in Job
  BY <1>b DEF Typed, TypeOK, HoldsJob
<1>1. CASE UNCHANGED <<row, outputs, missed>>
  BY <1>1 DEF OutcomeMoves, Outcome!vars
<1>2. ASSUME NEW b \in Batch, Submit(b) \/ SubmitProposal(b) PROVE OutcomeMoves
  <2> DEFINE B == Child(b) \cap Export
  <2>1. UNCHANGED <<outputs, missed>>
    BY <1>2, SubmitsNewRows DEF history
  <2>2. ExportStates' = [j \in Export |-> IF j \in B THEN "queued" ELSE ExportStates[j]]
    BY <1>2, <1>a, SubmitsNewRows, RowFacts DEF ExportStates
  <2>3. B \in SUBSET Export /\ \A j \in B : ExportStates[j] = "absent"
    BY <1>2, <1>a, SubmitsNewRows DEF ExportStates
  <2> HIDE DEF B
  <2> QED BY <2>1, <2>2, <2>3 DEF OutcomeMoves, Outcome!Next, Outcome!Admit, ExportStates
<1>3. ASSUME \/ \E j \in Job : Cancel(j)
             \/ \E b \in Batch : AbortCancelBatch(b) \/ \E j \in Job : CancelChild(b, j)
      PROVE  OutcomeMoves
  <2>1. UNCHANGED <<outputs, missed>>
    BY <1>3, CancelsOneRow DEF uncancelled
  <2>2. ASSUME NEW k \in Job, CancelHits(k) PROVE OutcomeMoves
    BY <2>1, <2>2, OneRowTells, RowFacts DEF CancelHits, Active
  <2> QED BY <1>1, <1>3, <2>1, <2>2, CancelsOneRow
<1>4. ASSUME Recover PROVE OutcomeMoves
  <2>1. ExportStates' = [j \in Export |-> IF ExportStates[j] = "running" THEN "failed" ELSE ExportStates[j]]
    BY <1>4, <1>a, RowFacts DEF Recover, Is, ExportStates
  <2>2. outputs' = outputs /\ missed \subseteq missed'
    BY <1>4 DEF Recover
  <2>3. \A j \in outputs : ExportStates[j] = "running" => j \in missed'
    BY <1>4, <1>a DEF Recover, ExportStates
  <2> QED BY <2>1, <2>2, <2>3 DEF OutcomeMoves, Outcome!Next, Outcome!Recover, ExportStates
<1>5. ASSUME NEW j \in Job, ReconcileExport(j) PROVE OutcomeMoves
  <2>1. j \in outputs /\ j \in Export /\ missed' = missed
    BY <1>5, <1>a DEF ReconcileExport, history
  <2>2. CASE row[j].state = "running" /\ row' = [row EXCEPT ![j] = Saved] /\ outputs' = outputs
    BY <2>1, <2>2, OneRowTells, RowFacts
  <2>3. CASE row[j].state \in {"running", "cancelled"} /\ outputs' = outputs \ {j} /\ row' = row
    BY <2>1, <2>3, FilesTell
  <2> QED BY <1>5, <2>2, <2>3 DEF ReconcileExport, Is
<1>6. ASSUME NEW w \in Worker, Claim(w) PROVE OutcomeMoves
  <2>1. PICK j \in Job : Oldest(j) /\ row' = [row EXCEPT ![j] = Running]
    BY <1>6 DEF Claim
  <2>2. UNCHANGED <<outputs, missed>>
    BY <1>6 DEF Claim, history
  <2> QED BY <2>1, <2>2, OneRowTells, RowFacts DEF Oldest, Is
<1>7. ASSUME NEW w \in Worker, FailWithResult(w) PROVE OutcomeMoves
  <2>1. held[w] \in Job /\ held[w] \notin outputs /\ row[held[w]].state = "running"
    BY <1>7, <1>a, <1>b DEF FailWithResult, FailAs, Is
  <2>2. row' = [row EXCEPT ![held[w]] = FailedScan] /\ UNCHANGED <<outputs, missed>>
    BY <1>7 DEF FailWithResult, FailAs, history
  <2> QED BY <2>1, <2>2, OneRowTells, RowFacts
<1>8. ASSUME NEW w \in Worker, SaveResult(w) PROVE OutcomeMoves
  <2>1. held[w] \in Job /\ (held[w] \in Export => held[w] \in outputs) /\ row[held[w]].state = "running"
    BY <1>8, <1>b DEF SaveResult, HasResult, Is, Results, FilesFollowRunner
  <2>2. row' = [row EXCEPT ![held[w]] = Saved] /\ UNCHANGED <<outputs, missed>>
    BY <1>8 DEF SaveResult, history
  <2> QED BY <2>1, <2>2, OneRowTells, RowFacts
<1>9. ASSUME NEW w \in Worker, Persist(w) PROVE OutcomeMoves
  <2>1. pc[w] = "persisting" /\ held[w] \in Job /\ UNCHANGED <<outputs, missed>>
    BY <1>9, <1>b DEF Persist, Write, history
  <2>2. CASE row[held[w]].state = "running"
    <3>1. row' = [row EXCEPT ![held[w]] = Target(w)]
      BY <1>9, <2>2 DEF Persist, Write, Is
    <3>2. err[w] = (IF held[w] \in outputs THEN "unsaved" ELSE "error")
      BY <2>1, <2>2 DEF Results, UnsavedMeansFiles, Is
    <3>3. cause[w] \in {"none", "cancelled", "stopped"}
      BY DEF Typed, TypeOK
    <3>4. CASE held[w] \in outputs
      <4>1. Target(w).state = "succeeded"
        BY <3>2, <3>4, RowFacts DEF Target
      <4> QED BY <2>1, <2>2, <3>1, <3>4, <4>1, OneRowTells
    <3>5. CASE held[w] \notin outputs
      <4>1. Target(w).state \in {"failed", "cancelled"}
        BY <3>2, <3>3, <3>5, RowFacts DEF Target
      <4> QED BY <2>1, <2>2, <3>1, <3>5, <4>1, OneRowTells
    <3> QED BY <3>4, <3>5
  <2>3. CASE row[held[w]].state # "running"
    <3>1. row' = [row EXCEPT ![held[w]] = row[held[w]]]
      BY <1>9, <2>3 DEF Persist, Write, Is
    <3> QED BY <2>1, <3>1, OneRowTells
  <2> QED BY <2>2, <2>3
<1>10. ASSUME NEW w \in Worker, Publish(w) \/ RollBack(w) PROVE OutcomeMoves
  <2>1. UNCHANGED <<row, missed>>
    BY <1>10 DEF Publish, RollBack, history
  <2>2. held[w] \in Export /\ row[held[w]].state \in {"running", "cancelled"}
    BY <1>10, <1>a DEF Publish, RollBack, Ownership, RunnerOwnsRow, Results, FilesFollowRunner
  <2>3. outputs' = outputs \cup {held[w]} \/ outputs' = outputs \ {held[w]}
    BY <1>10 DEF Publish, RollBack
  <2> QED BY <2>1, <2>2, <2>3, FilesTell
<1>11. ASSUME NEW w \in Worker, SaveRefused(w) PROVE OutcomeMoves
  <2>1. UNCHANGED <<row, missed>>
    BY <1>11 DEF SaveRefused, history
  <2>2. CASE outputs' = outputs
    BY <1>1, <2>1, <2>2
  <2>3. CASE held[w] \in Export /\ Is(held[w], "cancelled") /\ outputs' = outputs \ {held[w]}
    BY <2>1, <2>3, FilesTell DEF Is
  <2> QED BY <1>11, <2>2, <2>3 DEF SaveRefused
<1>12. ASSUME NEW w \in Worker,
              \/ RunnerFails(w) \/ SaveTimesOut(w)
              \/ ClaimNothing(w) \/ Wake(w) \/ LeaveWait(w) \/ Retire(w)
              \/ Register(w) \/ Recheck(w) \/ Deregister(w) \/ ReadState(w) \/ GiveUp(w)
       PROVE  UNCHANGED <<row, outputs, missed>>
  BY <1>12 DEF RunnerFails, SaveTimesOut, ClaimNothing, Wake, LeaveWait, Retire, RetireWhen,
     Register, RegisterAs, Recheck, Deregister, ReadState, GiveUp, durable, history
<1>13. ASSUME \/ \E b \in Batch : BeginCancelBatch(b) \/ EndCancelBatch(b)
              \/ \E c \in Config : SetLimits(c)
              \/ Start \/ BeginShutdown \/ StopScheduler \/ Exit \/ UNCHANGED vars
       PROVE  UNCHANGED <<row, outputs, missed>>
  BY <1>13 DEF BeginCancelBatch, BeginSweep, EndCancelBatch, SetLimits, Start, BeginShutdown,
     StopScheduler, Exit, durable, history, vars
<1> QED
  BY <1>1, <1>2, <1>3, <1>4, <1>5, <1>6, <1>7, <1>8, <1>9, <1>10, <1>11, <1>12, <1>13
     DEF Next, Client, Lifecycle, RunnerStep, LoopStep

\* What the scheduler does to rows and to the files of exports is what ExportOutcome
\* promises, through crashes and restarts (Publish, RollBack, SaveRefused, ReconcileExport,
\* Persist and Recover).
THEOREM OutcomesFollowFiles == Spec => OutcomeSpec
<1>1. IInv => Typed /\ Ownership /\ Results
  BY DEF IInv
<1>2. Spec => [][Outcome!Next]_(Outcome!vars)
  BY <1>1, Invariance, OutcomeStep, PTL DEF Spec, OutcomeMoves
<1> QED BY <1>2, OutcomeInit, PTL DEF Spec, OutcomeSpec, Outcome!Spec
=============================================================================
