# Videocutlist in TLA+

TLA+ specifications of [videocutlist](../src/README.md), the TLC runs that check them on small
instances, and TLAPS proofs about them for every instance. Each definition is translated from
the Go source; `PROJECT.json` ("map") says from which lines.

To check a run: `tlc -workers 2 -config MCScheduler.cfg MCScheduler.tla`, with the module named in
section 3. To check the proofs: `tlapm M.tla` for each `M` of `SchedulerProofs`, `ExportArtifactsProofs`,
`PreviewsProofs`, `ProposalsProofs`, `ProjectsProofs`, `McpProofs`, `SettingsProofs`, `RequestsProofs`.

## 1. The system

Videocutlist is a single Go process in front of one SQLite database, a directory of cached
previews and one or more export directories. A browser client and MCP clients (programs with
credentials) edit projects, which are lists of cuts over media files, and export them through
FFmpeg.

| Component | State | Operations | What makes it hard |
|---|---|---|---|
| Durable job queue (`internal/jobs`) | `jobs` table; `Scheduler`: limits, goroutine count, map of running contexts, stop and wake channels | Submit, SubmitProposal, Start, SetLimits, Cancel, CancelBatch, Shutdown, Recover; per worker: claim, register, run, deregister, finalize | workers, clients, shutdown and crashes race on rows; database calls fail after committing |
| Job runners (`runtime/queued_jobs.go`, `projects/batch_export.go`) | none of their own | run a scan, a detection or an export and write its result | the result write has its own 100 ms deadline and competes with cancellation |
| Export execution (`internal/export/export.go`) | temporary files, published files, manifest | Run: cut, verify, write manifest, publish by rename, roll back | a crash between any two of these |
| Artifact store (`internal/export/artifacts.go`) | published files per job, manifest paths, active downloads | RegisterManifest, ClearManifest, Put, Remove, Open, Cleanup, Reconcile | files, manifests, rows and maps change one after another |
| Batch archives (`runtime/services.go`) | one ZIP and manifest per batch, a lock file | DownloadBatch | processes that share a directory build, find and adopt the same archive |
| Preview cache (`internal/preview/cache`) | entries on disk, leases, sizes | Open, Begin, Commit, Discard, SetMaxBytes, CleanupPartials | eviction against readers, two writers of a key, cancellation at the last moment |
| Preview manager, process limits (`internal/projects/preview*.go`) | in-flight requests, active processes, limit | Preview, AcquireProcess, SetLimits | one limit shared by previews, detections and exports |
| Preview assets (`internal/preview/assets`) | files, budget | ValidateSource, Thumbnails, Waveform, SetMaxBytes | a file that changes while its assets are validated, rendered and cached |
| Project store (`internal/db/project.go`, `internal/projects/services.go`) | project documents with revisions | Get, Save, List, update_cutlist | stale revisions; media that change between check and save |
| MCP proposals (`internal/mcp/proposals.go`) | `export_proposals` table: validated snapshots, expiry, approval | Prepare, Approve, Execute | execution reads proposal, project, credential and sources one after the other, and races expiry, approval and a second execution |
| MCP credentials (`internal/mcp/credentials.go`) | credentials, scopes, last use, audit | Create, Revoke, TouchLastUsed, AuthorizeCredential, grantProjectTx, RecordAudit | revocation against requests in flight |
| MCP transport (`internal/mcp/transport.go`) | sessions, slots, request windows | ServeHTTP, newSession, validSession, deleteSession, callTool | capacity, expiry and rate limits, on every way out |
| MCP tools (`internal/mcp/*_tools.go`) | none | list, get, create, update | a resource that changes between its authorization and its reading; cursors |
| Media index (`internal/library/media/index`, `projects.MediaUseCase`) | catalogue of the media roots, library status | Refresh, OpenResolved, Sync, ReconcileRoots, ReconfigureLimits, RefreshMedia | a refresh or a changing file between look-up and opening; overtaken refreshes; a lock held for long |
| Runtime settings (`internal/runtime/runtime_settings.go`, `internal/settings`) | settings row, values in force in five components | Update, Apply, roll-back | one component refuses after others accepted, or the save fails |
| Project model, interchange | none | validation, EDL/CSV conversion | boundaries |
| HTTP API, web assets | counters | decode, call a service, encode | conditional answers |
| Browser client (`client/src/features`) | selections, pending requests, drafts | controllers per feature | answers that arrive after the selection changed |

**How they interact.** HTTP handlers and MCP tools call the services; the services submit jobs.
The scheduler's workers call `QueuedJobs.Run`, which calls the exporter, the media scanner or
the detector; they write results through `JobsStore` themselves and return to the worker, which
writes a terminal state if none was written. Exports publish files and register them with the
artifact store. At start-up `main` runs `ArtifactStore.Reconcile` (which may finish a running
job), then `JobsStore.Recover` (which fails the rest), then `Scheduler.Start`.
`RuntimeSettingsApplier` gives new limits to the scanner, the process limit, the two caches and
the scheduler, in this order; the scanner takes them under the writer's side of the lock that
refreshes and openings of a source hold as readers.

**What makes each correct** is listed as properties below for what is modelled. Every hazard found
while reading is in `PROJECT.json` ("hazards") at its line.

## 2. The modules

| Module | Models |
|---|---|
| `JobLifecycle` | what the queue promises a client that polls a job: the state column and its legal changes |
| `ExportOutcome` | what the row of an export promises about its files, and which files may come and go under which row |
| `Scheduler` | the jobs table, the scheduler, its workers and runners, clients, shutdown, crash and recovery |
| `ExportArtifacts` | the files of exports: manifests, publication, roll-back, downloads, expiry, what a restart makes of them |
| `Archives` | the ZIP of a finished batch, built and found by requests in several processes |
| `Previews` | preview requests, the cache of rendered files, the shared limit of FFmpeg processes |
| `Assets` | thumbnails and waveforms: conditional requests, rendering, a cache with a budget |
| `VersionedRow` | what the project store promises its clients: a row that is replaced only by who has read it |
| `Projects` | a project's row, editors that load and save it, agents that apply operations to it |
| `Pages` | a listing that an agent follows page by page over a changing table |
| `Mcp` | credentials with their scopes, the transport, and four tools |
| `Proposals` | export proposals of assistants, their approval, and the calls that start them |
| `Library` | the scanner, its catalogue and lock, openings of a source, the library status |
| `Settings` | updates of the runtime settings; composes with `Library`, whose lock one of its steps takes for writing |
| `MCScheduler`, `MCArtifacts`, `MCPreviews`, `MCProposals`, `MCSettings`, `MCMcp`, `MCRequests` | instances for TLC; `MCRequests` instantiates `Projects`, `Pages`, `Assets` and `Archives` side by side |
| `SchedulerProofs`, `ExportArtifactsProofs`, `PreviewsProofs`, `ProposalsProofs`, `ProjectsProofs`, `McpProofs`, `SettingsProofs` | the theorems about the module each is named after |
| `RequestsProofs` | the theorems about `Pages`, `Assets` and `Archives`, as `MCRequests` instantiates them |

`Scheduler` and `ExportArtifacts` meet in the row of an export. `Scheduler` has the queue in full
and sees of the files only whether they are out (`Publish`, `RollBack`, `ReconcileExport`);
`ExportArtifacts` has the files in full and sees of the queue only the row, the result and who
writes them (`Begin`, `Save`, `Cancel`, `Recover`). That the two agree about what they share is stated
by two abstract specifications which both implement: `JobLifecycle` for the row alone and
`ExportOutcome` for rows and files together. Its `whole` is `outputs` in `Scheduler`; in
`ExportArtifacts` it is derived, the exports with a manifest whose listed files are all still
their own (`Whole`), as a restart judges them. Its `excused` are what a restart passed by
(`missed`, `skipped`), and in `ExportArtifacts` also what expired, leaked or was touched by
others. `Archives` begins where the outputs of all jobs
of a batch are there. `Previews` shares nothing with them but
the process slots, which it takes itself and others take from it. `Proposals` ends where
`Scheduler!SubmitProposal` begins: its `started` are the proposals whose jobs that action has
admitted, which `Create` and `FindCreated` read and write as the one transaction it is.
`Settings` extends `Library`: both share the configuration lock and the scanner's limits, and the
stop of the scheduler cancels refreshes. What `Projects` and `Assets` see of the library is the
duration and the version of a medium; what `Mcp` sees of a project is its media.

### Scheduler and the code

| Model | Code |
|---|---|
| `row` | the `jobs` table: state, `result_json` (the runner's, the scheduler's `{}`, or null), `error_code` (null, `interrupted_by_restart`, or any other) |
| `stamp`, `clock` | `created_at`, as the rank of the admission; `id` breaks ties |
| `outputs` | exports whose validated files were published and not taken back |
| `phase`, `shut` | no process, constructed, started, stopped; `shut`: `s.ctx` is cancelled |
| `config`, `workers`, `running` | `s.config`, `s.workers`, the keys of `s.running` |
| `pc`, `held`, `err`, `cause` | per goroutine: its place in `worker`, its job, what the runner returned, `context.Cause(ctx)` |
| `sweeping`, `sweep` | calls of `CancelBatch` in flight and the ids they still have to cancel |
| `orphaned`, `unread`, `missed` | history, read by properties only: terminal writes given up, cancellations that committed and reported an error, exports a restart passed by |

Atomicity follows the locks. What runs under `Scheduler.mu` (admission, claim, registration,
cancellation of one job, the stop) is one action; what runs outside (the re-read of the row, the
runner, the result write, deregistration, the terminal read and write) is an action each. A
database call may fail. A compare-and-set may commit and then fail when it re-reads the row
(`jobs.go:144`), which the caller sees as an error: `CancelJobUnread`, the second outcome of
`SaveResult`, `AbortCancelBatch`. `Exit` is a kill at any moment, or `main` returning; `Recover`
is the next start. `ReconcileExport` visits one export; what it did not visit when `Recover`
runs it could not find (unreadable manifest, or a destination directory that is absent at this
boot: `artifacts.go:412-427`), and `missed` remembers it.

Retries of the terminal read and write are one action that succeeds or `GiveUp`, because nothing
between two attempts is visible to anybody. The wake channel only shortens the 100 ms poll, so
`Wake` is always possible.

### ExportArtifacts and the code

| Model | Code |
|---|---|
| `disk` | what lies under each name in the destination: nothing, the very file the run built (device and inode), or something else |
| `manifest` | the names listed in `.videocutlist-export-<job>.json` |
| `row`, `result` | state and output names of the job |
| `entry`, `registered`, `active` | `ArtifactStore.values`, the keys of `manifests`, `active` |
| `pc`, `try`, `todo`, `published` | where `Service.Run` and its caller are: the attempt each part is at, parts to do, `publishedOwners` or `mergeOwner` |
| `expired` | jobs whose `RetainUntil` has passed |
| `process`, `visited`, `asking` | down, in `Reconcile`, or up; how far `Reconcile` is; `Download` between `Put` and `Open` |
| `meddled`, `leaked`, `skipped` | history: names other users of the directory changed, files whose unlink failed in a roll-back, jobs whose manifest a restart could not read |

Each write to the disk, to the database or under `ArtifactStore.mu` is an action, so a crash can
come between any two. The two modes differ in the order of their deferred clean-ups: separate
mode takes its files back and then clears the manifest, merge mode clears the manifest first
(Go runs deferred calls last in, first out), which `TakeBack` and `Disown` keep. Unlinks fail
where the code looks at the error and where it does not. `Collide`, `Meddle` and `Reuse` are
the other users of the directory; they are external. Cleaning up at start-up is the same
action as the ticker's. Removal of manifests by others and reuse of inodes are not modelled.

### Previews and the code

| Model | Code |
|---|---|
| `file`, `older` | the `.mp4` of each key, by the request that rendered it; order of modification times |
| `partial`, `open`, `max` | `.partial` files on disk; `Store.open`; `Store.max` |
| `pathLock` | `Store.paths`: the mutex of a key, held while ffprobe runs |
| `global`, `taken`, `busy` | `PreviewLimits`: limit, count, and the others that hold a slot |
| `pc`, `found`, `cancelled` | per request: its place in `Preview`, `streamPreview` and `Commit`; the file its `Open` validates; its context |
| `rejected` | history: files an `Open` removed |

What runs under `Store.mu` is one action. Eviction is `Publish`: it takes the least recent
entries without a lease until the rest fits, may fail at any of them, and then takes the new
entry back. A crash may cut it short (`CrashInPublish`). A request can remove its own files;
modification times are distinct.

### Proposals and the code

| Model | Code |
|---|---|
| `prepared`, `saved`, `approved`, `started` | what `Prepare` has read; rows of `export_proposals`; `approved_at`; rows of `jobs` with that `proposal_id` |
| `revision`, `version`, `active` | the project's revision; ETag, size, duration and root of each source; credentials neither revoked nor expired |
| `age` | the clock against `expires_at`: before it, past it while the texts SQL compares do not show it yet, past it |
| `approving` | calls of `Approve` between their read and their update |
| `pc`, `target`, `sawApproval`, `checked` | per call of `start_export`: the next read of `Execute`, its arguments, what it has read |
| `consented`, `timely`, `held`, `retries` | history: approved in time; came when the proposal could be started; sources that were the validated ones during the call; came when the jobs were there |

Each read is an action; what a call has read is kept until it returns. `TouchLastUsed` reads the
credential and updates it unless it was revoked, which is as good as one look at both. The
transport's own check, before `Execute` repeats it, is the subject of `Mcp`; whether a
scope covers a project and what a preflight finds is left open here. Times are written with
`time.RFC3339Nano`, which drops trailing zeros, so that `...05.5Z` sorts after `...05.52Z`: this is
the second state of `age`.

### Archives and the code

| Model | Code |
|---|---|
| `zip`, `announced` | the file under each archive name, by the request that built it (device and inode), or somebody else's; the batch's manifest: a name and the identity of its file |
| `present`, `elapsed` | outputs that can still be opened; `RetainUntil`, which the archive has from its outputs |
| `lock` | `flock` on the lock file of the directory; a crash frees it |
| `temp`, `content` | temporary archives, and the outputs each has got |
| `values`, `owned` | per process: `ArtifactStore.values`, and whether `manifests` has a path |
| `server`, `seen` | per process: down, at a stage of `Reconcile`, or up; the manifest it has read |
| `stage`, `attempt`, `note` | per request: its place in `DownloadBatch`, the name it is at, the manifest it has read |
| `overlapped` | history: a process reconciled while another had announced its archive and not yet published it |

### Assets and the code

| Model | Code |
|---|---|
| `disk`, `catalog` | the version (size and modification time) of the file, and the one that is indexed |
| `cache`, `older`, `budget` | the files of the asset directory with what each was rendered from; the order of their modification times, which a use renews; `MaxBytes` |
| `step`, `kind`, `known`, `item` | per request: where it is, the asset, its `If-None-Match`, the record the handler read |
| `source`, `detached`, `reads` | the descriptor that was opened, whether the name has since gone to another file, the versions FFmpeg has read through it |
| `over`, `since` | history: the limit was lowered below what is cached; versions the file has had during the request |

The mutex of the asset store makes a look-up and a publication one step each. Rendering is the
time between them, in which the file may be replaced (the descriptor keeps the old one) or written
in place (FFmpeg may read both).

### Projects and the code

| Model | Code |
|---|---|
| `row` | the row of `projects`: revision, and for each item its list of segments |
| `duration` | what the library says of the medium of each item; 0 when it is unavailable |
| `pc`, `expected`, `base`, `draft`, `unchecked`, `edits` | per writer: its place in `Save` or `update_cutlist`, the revision and document it has read, the document it saves, items it has yet to check, operations it has applied |

A writer is an editor (`GET` and `PUT` of the project handlers) or an agent (`update_cutlist`). `CheckItem` is one iteration
of the loop in `ProjectUseCase.Save`, since every iteration reads the library; `Update` and `Insert` are
`SaveTx`, compare-and-set and re-read in one transaction. `ValidSegments` is the check of the code: only
neighbours in the order of starts are compared. The four operations of `update_cutlist` are `Add`, `Adjust`,
`Remove` and `Reorder`, which apply to the draft one after the other.

### Pages and the code

`rows` is a table in the order of its ids; a call (`asked`, `cursor`, `limit`, `scanned`, `items`)
is `listMedia` or `listProjects`, each `Scan` one query of the store with what is kept of it, and
`CursorAfter` the cursor it hands out. `got` is what the client has by now; `steady`, history, are
allowed rows that have been there all the time.

### Mcp and the code

| Model | Code |
|---|---|
| `row`, `expired`, `scope`, `audit` | `mcp_credentials`: neither revoked nor expired, or which; the project scope; entries of `mcp_audit` |
| `content`, `maker` | the media of each project; the credential it was created with |
| `owner`, `unused` | `sessions`: the credential of each, minutes since its use |
| `count`, `stale` | `windows`: requests counted for a credential; windows that are over |
| `slots` | the semaphore of `ServeHTTP` |
| `pc`, `cred`, `tool`, `about`, `session`, `read`, `found`, `answer` | per request: where it is, what it presents and asks, the scope and the media it has read, what its tool returns |

`TouchLastUsed` is two steps, the read and the conditional update, and a request makes both twice:
in `Authenticate` and, for a tool, in `AuthorizeCredential`. The look-up of a resource (`FindResource`),
its authorization and the call are steps of their own, between which anybody may edit a project, revoke or expire
a credential. `CreateProject` is one transaction with its grant. `End` is the deferred release of a slot.

### Library, Settings and the code

| Model | Code |
|---|---|
| `configured`, `disk`, `catalog` | the configured roots; what each name holds; the available row of each |
| `pc`, `cancelled` | where a refresh or an opening is; those whose context is cancelled |
| `todo`, `walk`, `unread`, `found`, `failed` | of a refresh: roots to come, the root it walks, names to come, what it has found, whether a root failed |
| `previous`, `verdict`, `newest`, `status` | of `MediaUseCase`: the status a refresh replaced, the one it came to, the generation, the status shown |
| `source`, `record`, `fd`, `answer` | of `OpenResolved`: the name, the record, the descriptor, what it returns |
| `writer`, `limits` | the `RWMutex` with its waiting writer; the limits of the scanner |
| `stored`, `published`, `live`, `stopped` | the settings row and its revision, the snapshot, the documents the other four components have their limits from, the scheduler's stop |
| `requests`, `wanted`, `abandoned` | calls of `Update` |
| `updating`, `stage`, `step`, `target`, `rolling` | the holder of the mutex of the service: applying, undoing, saving or publishing, which component, what |

The lock is that of Go: a waiting writer holds new readers back, and its unlock lets those in before the
next writer. `AwaitScanner` and `SetScanner` are the two halves of taking it. The walk of a root looks at
one name at a time, and the file system changes in between.

Operators whose comment begins with "Fault" are variants of the operator that follows them with
one plausible mistake. Nothing uses them; each is put in place of its original to see that a
property notices (`PROJECT.json`, "mutants").

## 3. The runs

| Run (`.cfg`, module) | Instance | Checks | States |
|---|---|---|---|
| `MCScheduler` | an export admitted by proposal, a scan admitted directly, two workers, limits (1,1) and (2,2) | `OneWorkerPerJob`, `RunningIsCarried`, `SuccessHasResult`, `StopReachesRunner`, `OutcomeSpec` (refinement) | 446 k |
| `MCSchedulerLive`, `MCScheduler` | one batch of two jobs, one or two workers, fairness | `SweepIsComplete`, `LifecycleSpec` (refinement), `AdmittedWorkEnds`, `ShutdownDrains` | 231 k |
| `MCArtifacts` | a separate-mode export of two files, two names for each; or two merge-mode exports, one kept in the archive; one download at a time, fairness | `Evidence`, `FailedLeavesNothing`, `SuccessKeepsFiles`, `DownloadsKeepFiles`, `ForeignFilesStay`, `ExpiredFilesGo` | 436 k |
| `MCPreviews` | three requests for two keys of sizes 1 and 2, cache limit 1 or 2, one or two slots, one other process, fairness | `NothingLeaks`, `ReadersKeepTheirEntry`, `GrowthWithinLimit`, `PublishesOnlyWanted`, `CancelledRequestsEnd` | 268 k |
| `MCProposals` | one proposal of a project with two sources, two versions of each, two revisions, an attended and an unattended credential, two calls | `Consent`, `StartsOnlyWhatHeld`, `OneBatchPerProposal` | 976 k |
| `MCSettings` | two roots with a file each, limits of one or two files; two refreshes, or a refresh, an opening and an update, or two updates | `LiveIsStored`, `StatusOfNewest`, `NobodyIsStuck`, `ServedAsIndexed` | 599 k |
| `MCMcp` | two requests, two credentials, one slot, one session, two projects of two media; sessions over some minutes, or tools in one | `WithinLimits`, `ScopesHold`, `SessionsAreKept`, `CallsAreEntitled` | 754 k |
| `MCRequests` | two editors; an editor and an agent; five rows by pages of two; two clients of a medium's assets; two processes with a request each for one archive and a crash | `EditorsKnow`, `SavedIsDisjoint`, `NoLostUpdate`, `RowSpec` (refinement); `NothingMissed`; `FreshBytes`, `WithinBudget`; `ArchiveIsWholeAndListed`, `WaitersGoOn` | 420 k |
| `MCArtifactsSibling`, `MCArtifacts` | one separate-mode export | `UntouchedOutputsStay`: violated | |
| `MCArtifactsReplaced`, `MCArtifacts` | one merge-mode export | `ReplacementsStay`: violated | |
| `MCPreviewsCancelled`, `MCPreviews` | as Previews, fixed limits | `CancelledOpenKeepsEntry`: violated | |
| `MCProposalsRetries`, `MCProposals` | as Proposals | `RetriesReturnTheSameJobs`: violated | |

**Scenarios.** `MCArtifacts`, `MCSettings`, `MCMcp` and `MCRequests` check several small instances in one run. A
variable `scenario` is chosen initially and never changes, and `Within(scenario)` says which part of the
state moves in it; every property is checked in every scenario. The steps are those of the component, none is added or changed.

**Bounds.** *Scheduler.* Rows are never deleted and ids never reused, so the number of jobs bounds every
behaviour: `clock` stops at the number of batches and no state constraint is needed. Restarts,
limit changes and failures are unbounded. Two workers and two jobs are enough for a race over
a job, for a job waiting behind another, for a worker too many, and for a sweep that meets children in
different states. Capacity and workers are changed
together, as `main` does with the export limit (there the capacity is four times the workers).
Workers are interchangeable, so the safety run uses symmetry; the liveness run does not.

*ExportArtifacts.* Two files are enough for one to be published, skipped, replaced or
downloaded while the other is not, and two attempts for a name to be taken once and for the
last time; a job's steps read no other job's files (its names are its own), so a second job
matters only for what a boot does to several. `Attempts` stands for 100, `Streams` bounds
`active`. *Archives.* Two processes with a request each meet over the lock, the manifest and the names; the crash
may come at any step of either. One cancelled request and one lost output will do, since the other request then
tells the two apart. `Attempts` stands for 100, `Crashes` bounds the restarts.

*Previews.* Two requests meet over one key, a third fills the other key so that
eviction has a choice and a reader in its way; each request comes once. Both entries together
exceed the larger cache limit, and one alone exceeds the smaller. *Assets.* The budget holds one asset or both,
and the file changes once, which makes an older and a newer version of everything; `Versions` bounds that.

*Projects.* Three revisions let a writer be behind by one save and by two. The segments are two identifiers over a
medium of length two: touching, overlapping and out of order. `MaxSegments`, `MaxOperations` and `MaxRevision`
bound documents, calls and saves. *Pages.* Pages of two, calls of at most three rows and of one or two items: a page
is left early, the scan limit falls into a page, and rows come and go on both sides of the cursor.

*Mcp.* One slot and one session are at their limit as soon as two requests are there; three requests in a minute, two
minutes until a session expires and one audit entry reach each bound and pass it. *Proposals.* Proposals share nothing
but what changes around them, so one is enough; a proposal of a single source skips the look
at the revision and has no other step of its own. Two versions let a source change and come
back, two calls can both pass every check before either inserts. `MaxRevision` bounds the edits;
the versions, the items and the calls are interchangeable, hence the symmetry.

*Settings.* Any two of the actors meet in a scenario of their own, and three of them in one; two roots let
a refresh fail in one and go on to the other. `MaxRevision` bounds the changes of the document.

**Fairness.** `Scheduler!FairSpec` assumes that goroutines are scheduled and that runners return (FFmpeg
ends, or is killed through its context): weak fairness of `LoopStep` and `RunnerStep`. A claim
fails only while the database does, hence strong fairness of `Claim`: a worker that comes back
to queued work again and again claims in the end. No fairness is assumed of clients, of
shutdown or of restarts, so `AdmittedWorkEnds` is about processes that stay up, and exempts
rows whose terminal write was given up.

`ExpiredFilesGo` assumes that the 15-minute ticker runs `Cleanup`, that unlinks succeed in the
end and that downloads end. `CancelledRequestsEnd` assumes that goroutines run and ffprobe ends;
FFmpeg need not end and a reader need not be closed unless the request is cancelled, and the
others need never give a slot back. `WaitersGoOn` assumes that the handlers in `DownloadBatch` run while their
process is up (weak fairness of `Step` of each request: a waiter polls the lock every 10 ms and is continuously able to take
it once it is free for good, and each holder gives it back after a bounded number of steps); no process that is down need come back.
`NobodyIsStuck` is the safety counterpart for the locks of `Settings`: whoever is under way can take a step, or
waits for a lock whose holder can.

Deadlock is checked in every run but `MCRequests`, where a listing that has ended and a batch whose requests
have all ended really stop. In the others a client, a restart or a source can always act.

**What the runs showed.** Four runs find what a test or a comment of the repository excludes:

- *A cancelled preview removes a good cache entry* (`CancelledOpenKeepsEntry`).
  `TestOpenCancellationPreservesEntry` wants the entry kept, and `Open` keeps it if the
  validator returns the context's error. The program's validator runs ffprobe with
  `exec.CommandContext`, and a killed command reports `signal: killed`; `Open` takes that for a
  bad file.
- *One missing file takes its siblings along* (`UntouchedOutputsStay`). If one file of a
  succeeded, unexpired export was moved or replaced, the next restart removes the others
  (`adoptManifestOutputs`), though the comment on `Reconcile` speaks of unfinished manifests and
  the runbook calls exports durable.
- *An expired download forgets what is its own* (`ReplacementsStay`). `Cleanup` checks the
  identity of a file only while there is a manifest. After it has removed both, a `Download`
  request puts the entry back without one, and the next `Cleanup` removes whatever has that
  name, for example a file restored from a backup.
- *A repeated start is refused* (`RetriesReturnTheSameJobs`). `start_export` is described by
  "retries return the same jobs", but `Execute` asks of a proposal that has its jobs all it asks of a
  new one: after its expiry, an edit of the project or a change of a source the caller gets an error.

The other runs pass. Some limits of the code appear as the exemptions the properties need. In
`ExportArtifacts`: a crash in a merge roll-back, after the manifest went and before the file
did, leaves a file that nothing lists (`leaked`, and the exemption in `Evidence`); an export
cancelled after its result write had timed out keeps its files until the next restart
(`FailedLeavesNothing`). In `Archives`: start-up reconciles without the lock, so a process that
starts while another is between manifest and publication removes the manifest of an archive about to appear;
it is then listed nowhere, and a later request builds a second one (`overlapped`). In `Assets`: a request
whose record was read before a refresh and whose source is validated after it compares its `If-None-Match` with the
older version and may answer 304 (`httpapi/preview_handlers.go:129-136`); `FreshBytes` is therefore about the answers that carry
bytes. In `Previews`: an `Open` removes a file it takes for invalid even
while another request reads it; an eviction that fails has already taken other entries; a crash
between rename and eviction leaves the cache over its limit. In `Scheduler`: a terminal write given up leaves a
row that says running until it is cancelled or the process restarts (`orphaned`); a cancellation whose re-read fails does
not reach the runner (`unread`), though the row stays cancelled; and files whose directory is
absent at one boot belong to a failed job afterwards (`missed`). In `Settings`: a scheduler that has stopped keeps
the limits it had.

## 4. The proofs

`SchedulerProofs` proves, for every set of jobs, batches, workers and limits that satisfies
`SchedulerAssumption` (job ids are positive numbers, each job belongs to one batch, limits are
positive):

| Theorem | Statement |
|---|---|
| `TypeCorrect` | `Spec => []TypeOK` |
| `OneWorker`, `Published`, `Success`, `Carried`, `StopReaches`, `SweepComplete` | `Spec => []` of the invariant each is named after |
| `Refinement` | `Spec => LifecycleSpec` |
| `TerminalStatesAreFinal` | `Spec => Queue!FinalStates`, what `JobLifecycle` promises of one row |
| `VerdictFinal` | `Spec => BatchVerdictIsFinal` |
| `OutcomesFollowFiles` | `Spec => OutcomeSpec`: the scheduler implements `ExportOutcome` |

None of these invariants is inductive alone. `TypeOK` is not, because `Register` adds the held
job to `running` and only `HoldsJob` (a worker holds a job exactly between claim and finalize)
says that there is one. The rest of the invariant, `IInv`, is layered so that each layer is
inductive relative to the ones before it:

1. `Typed`: `TypeOK` and `HoldsJob`;
2. `Ownership`: one worker per job; the row of a held job was claimed; from registration to
   deregistration the job is in `s.running`; until the runner returns, only a cancellation can
   have moved the row;
3. `Results`, from `Ownership`: files appear when the runner publishes and not before; a runner
   that returned with the row still running either left files and an unsaved result or left
   none and an error. This is what makes `Target` write a success exactly for published files;
4. `Signals`, from `Ownership`: who a cancellation or a shutdown reaches;
5. `Batches`: children of a batch are admitted together, and a sweep forgets only terminal ones.

Each layer has one lemma with one step per action. `CancelsOneRow` and `SubmitsNewRows` say
once what the three ways to cancel and the two ways to submit have in common. The refinement
needs only `Typed`: `OneRowMoves` shows that a write to one row along an edge of the life cycle
is a step of `JobLifecycle`, and every action that writes is of that form except admission
and recovery, which are steps of their own. `OutcomesFollowFiles` needs `Results` too: a row becomes
succeeded only with files and failed only without (`FilesTell`), and of a success none are rolled back.
`PublishedNeverFails` (`Published`) is half of what follows from `ExportOutcome`, so that the run checks the refinement instead.

`ExportArtifactsProofs` proves, for every set of jobs and parts, merge or separate, kept or not, and any number of names to try
and of downloads (`ArtifactsAssumption`):

| Theorem | Statement |
|---|---|
| `TypeCorrect` | types, and that what a job lists, holds, serves or reports are names of its own |
| `EvidenceKept`, `FailuresLeaveNothing`, `SuccessesKeepFiles` | `Spec => []Evidence`, `[]FailedLeavesNothing`, `[]SuccessKeepsFiles` |
| `DownloadsAreSafe`, `OthersKeepFiles` | `Spec => DownloadsKeepFiles`, `Spec => ForeignFilesStay` |
| `RowsFollowTheLifecycle` | `Spec => [][Lifecycle!Next]_row`: rows of exports move as `JobLifecycle` allows |
| `OutcomesFollowFiles` | `Spec => OutcomeSpec`: rows and files change as `ExportOutcome` allows, as in `Scheduler` |
| `RowsTell` | `Spec => []Outcome!RowsTellOfFiles`: from a success or a failure a client may conclude whether the files are there |

The invariant is layered as in `SchedulerProofs`. `Named` separates the jobs: after it every claim is about one of
them. `Phases` relates where a run is to its row, to the store's entry and to who may be downloading: nobody
downloads from a job that is not a success, so a roll-back cannot hurt a download. `Accounts` is `Evidence` with
what it needs: a file is among those the run has published (`Holding`), or leaked once the run has taken back
(`Undone`), and with the store or reported as a result it is listed there. `Cleared` follows what a boot has
visited, because `FailedLeavesNothing` only holds when it has been to every manifest. `Present` is
`SuccessKeepsFiles`, from the publication to the row that says so: what a run has published is there when it saves
its result, and its manifest has no more. `RowsFollowTheLifecycle` joins this module with `Scheduler`: each takes
of the row what it needs, and both keep to one specification of it.

`OutcomesFollowFiles` does so for rows and files together. Here `whole` and `excused` are not variables of the module
but follow from manifests, files and history, so the step to prove is what each action does to them:
`SavedIsWhole` (a run that saves its result has all it lists), `LeakedIsExcused` (one that reports a failure has taken its
files back, or an unlink failed), `DiscardTells` (a restart discards those of a success only if something happened to them) and `RecoverTells` (what is running and
whole when `Recover` comes was passed by). They need `Accounts`, `Present` and `Cleared`.

`PreviewsProofs` proves, for every finite set of requests and of other holders of slots, any keys,
sizes and limits (`PreviewsAssumption`):

| Theorem | Statement |
|---|---|
| `TypeCorrect`, `NoLeaks`, `ReadersKeep` | `Spec => []TypeOK`, `[]NothingLeaks`, `[]ReadersKeepTheirEntry` |
| `PublishesWanted`, `GrowthStaysWithinLimit` | `Spec => PublishesOnlyWanted`, `Spec => GrowthWithinLimit` |

`TypeOK` is not inductive: a release subtracts one, and only the count of what is taken says that
there is one to subtract. So `Typed` has integers for the counters (and says that a request that has
got as far as validation looks at a file), and `Slots`, `Leases` and `Partials` say what is counted:
`MoveIn`, `MoveOut` and `MoveAround` state once how a step of one request changes the size of a set
of places, and each action is an instance of one of them. `Partials` needs `Asleep`, that no request is
anywhere while the process is down, for `Boot`. `ReadersKeepTheirEntry` needs `Placed`, that the
file at the path of a key was rendered for that key: an evicted file is then at the path whose
lease count `Evictable` looks at, and by `Leases` that count is not zero while it is read. By `Placed` there are also finitely
many entries (`FewEntries`), so that bytes can be counted: `Weight` is the number of pairs of an entry and one of its bytes,
which makes it monotone by the library's facts about finite sets (`FewerBytes`), without an induction over sums.

`ProposalsProofs` proves, for any proposals, items, credentials and calls (`ProposalsAssumption`):

| Theorem | Statement |
|---|---|
| `TypeCorrect` | `Spec => []TypeOK` |
| `Consented`, `HeldWhenStarted`, `OneBatch` | `Spec => []Consent`, `[]StartsOnlyWhatHeld`, `[]OneBatchPerProposal` |

`TypeOK` is inductive, and has saved proposals complete, so that nothing is added to them later.
`Approvals` carries consent from the approval to the
insertion: an approved proposal that has not expired was approved in time, and `Load` looks at both at
once, so a call that saw an approval is about a consented proposal whatever time passes
afterwards. `Timeliness` says what a call that came too late has yet to fail at; it is kept because none
of the three obstacles ever goes away, and a call that has passed the last check has none left.
`Comparisons` and `Batches` are about sources and the insertion. With `Load` comparing times as
`Approve`'s update does, the step of `Load` in `Approvals` and in `Timeliness` cannot be proved.

`ProjectsProofs` proves, for any items, segments, media, editors, agents and bounds (`ProjectsAssumption`):

| Theorem | Statement |
|---|---|
| `TypeCorrect` | `Spec => []TypeOK` |
| `SavingLosesNothing` | `Spec => NoLostUpdate` |
| `EditorsKnowTheRow`, `SavedSegmentsAreDisjoint` | `Spec => []EditorsKnow`, `[]SavedIsDisjoint` |
| `Refinement` | `Spec => RowSpec` |

`Known` says of every writer that it expects no later revision than there is, and that it has read the document of
the one it expects if that still is the revision; a save raises the revision, so the claim becomes empty for the
others, and the saver learns the new row in the transaction. `NoLostUpdate` and `EditorsKnow` follow. So does the
refinement of `VersionedRow`, in which a client knows a row as a whole: a writer has read the row that it expects
(`Seen`) from its reading to its leaving, a saving is by one that knows the row there is, and every other step
reads, forgets or stutters. For `SavedIsDisjoint`, `ValidIsDisjoint` shows that the check of neighbours by start,
which is all the code does, excludes any two segments that overlap: between two segments in the order of starts,
`NextSegment` finds the one that follows the first, and ends are carried along by induction over a number (a least
counterexample). `Checked` says that what a writer has had checked is disjoint.

`McpProofs` proves, for finite sets of requests and sessions, any credentials, scopes, projects and limits (`McpAssumption`):

| Theorem | Statement |
|---|---|
| `TypeCorrect`, `LimitsHold` | `Spec => []TypeOK`, `[]WithinLimits` |
| `ScopesAlwaysHold` | `Spec => []ScopesHold` |
| `SessionsStay`, `CallsEntitled` | `Spec => SessionsAreKept`, `Spec => CallsAreEntitled` |

The count of the slots is never negative because `SlotsHeld` says whose they are; `Places` and `RequestHolders`
state how a step of one request changes the set of holders, so types and slots are one invariant (`LInv`) with the
bound on the sessions. `SessionsStay` is about steps from it: `OwnersStay` says what every action does to the
owners. Entitlement rests on `ReadInScope`: the scope a request has read is no larger than what it is now, because
scopes only grow while a credential lives. So what is allowed by it when a tool is called is in the scope at that
moment, and what `GetProject` answers is checked against the media it returns. `Granted` adds that a scope has only
projects that exist. `OnlyTouchCalls` shows that no other step than the conditional update of `TouchLastUsed`
brings a request to its call.

`SettingsProofs` proves, for any roots, files, versions, refreshes, openings, settings and updates
(`LibraryAssumption`, `SettingsAssumption`):

| Theorem | Statement |
|---|---|
| `TypeCorrect` | types of the settings, the library and the calls under way |
| `LiveSettingsAreStored`, `StatusIsOfNewest` | `Spec => []LiveIsStored`, `[]StatusOfNewest` |
| `SourcesAreServedAsIndexed` | `Spec => ServedAsIndexed` |

`Applied` says how far the update under way is: which components have the new document and which the published one,
in the order of the appliers, and that an undo goes back to the published one; whatever step fails, the components
behind it follow. A scheduler that has stopped follows anything (`Follows`). `NewestShown` carries the status of
the latest refresh from its verdict to its showing, past those it has overtaken. `ServedAsIndexed` is about single
steps; it needs that an opening that is not yet answered has a file (`Sourced`), and that only one that has been
served has a descriptor (`Answered`).

`RequestsProofs` is about three modules that share no state, in the names `MCRequests` gives them (`Listing`,
`Timeline`, `Batch`), for all values of their constants that satisfy `PagesAssumption`, `AssetsAssumption` and
`ArchivesAssumption`:

| Theorem | Statement |
|---|---|
| `NothingIsMissed` | `Listing!Spec => []NothingMissed`, for any ids, allowed rows, page, scan and item limits |
| `FreshBytesAreServed`, `CacheStaysWithinBudget` | `Timeline!Spec => []FreshBytes`, `[]WithinBudget`, for any clients, kinds, sizes, limits and number of versions |
| `ArchivesAreWholeAndListed` | `Batch!Spec => []ArchiveIsWholeAndListed`, for any processes, requests, outputs, attempts and crashes |

*Pages.* The invariant `PagesInv` says that the rows up to the cursor that have been there all the time are with
the client or among the items of the call. Its step `ScanStep` needs what the first `n` rows after a cursor are:
`Least`, `Greatest` and `Firsts` are about sets of numbers.
*Assets.* `Fresh` says that what is cached under the key of a version comes from that version and later ones, and
`Bound` (`Informed`) that what a request has opened, read from or is told of comes from versions since it came; the
two meet in `LookUp`, where a hit is of the version that the request has opened. `WithinBudget` rests on
`EvictFits`: of assets in an order (`Ranked`, which `TouchedIsRanked` keeps), those that fit together with all used
since fit together, because the one used longest ago among them already counts them all (`MostOf`). Bytes are the
number of pairs of an asset and one of its bytes, as in `Previews`.
*Archives.* `Exclusive` says that who builds has the lock, so that nobody else announces or publishes meanwhile.
`Complete` says that a temporary file about to be published has every output, and so has every archive. That an
archive is the one announced (`Listed`) holds until a process has reconciled across another's publication: then
`overlapped` says so for good (`HistoryStays`), and until then `NoOverlap`, `Remembered`, `Building` and `Judged`
say what processes and requests know of the manifest, which is still true. `CleanupTakes` states what a clean-up
removes.

**Model-checked only.** Of the safety properties of the passing runs only `NobodyIsStuck` has no theorem: it uses
ENABLED. Liveness under fairness (`AdmittedWorkEnds`, `ShutdownDrains`, `ExpiredFilesGo`, `CancelledRequestsEnd`,
`WaitersGoOn`) is beyond the proof system and stays with TLC, and so do the properties of the four runs that expect
a violation. The other way round, the types of each module, `RowsFollowTheLifecycle`, `TerminalStatesAreFinal`,
`VerdictFinal`, `Published`, `RowsTell` and the `OutcomesFollowFiles` of `ExportArtifactsProofs` are theorems that no run repeats. `MCRequests` and the other MC modules only choose constants and
restrict initial states and steps, so that what is proved of a `Spec` holds of what they run.

## 5. Plan

In the order of what matters most to a user's files and data. Done: every module of section 2, and a theorem for
every safety property a run checks but `NobodyIsStuck`. Next:

1. The browser client's controllers: no answer is applied to a selection that has changed, no autosave overwrites a draft.
2. The statuses of single roots and the reconfiguration of roots in `Library`.

## 6. Not modelled

*Outside the program or without state:* SQLite itself (used as an atomic store whose writes are serialised), FFmpeg and ffprobe
(they succeed, fail or are killed), the wording of errors and logs, HTTP and JSON encoding, static
assets, generated code, `settings/config.go` (flags and environment, read once), import and export of project files, PNG
validation and waveform buckets. `JobsStore.Create` and `JobsStore.Start` are called only by tests.

*Left out of a module:*

- `Scheduler`: the expiry of published files (`outputs` records that they were published). Rows admitted in the same
  second are ordered by their texts in the code, in time in the model; no promise of the repository rests on that order.
- `ExportArtifacts`, `Archives`: reuse of inodes, manifests that cannot be parsed, temporary files whose unlink fails, the free-space check.
- `Mcp`: the enabled switch, origins, secrets, and the tools and permissions for previews, detections and exports. Media
  scopes stay as created, for nothing changes them. Reading the clock and taking the mutex of the sessions or windows is one step.
- `Projects`: names, profiles, marker notes and export options of an item; one project.
- `Library`, `Settings`: statuses of single roots, `Scanner.Reconfigure`, folders and browsing, probe metadata, the values of single
  settings. Of limits that have passed validation only `Scheduler.SetLimits` can refuse any, as in the code.
- Detections run as jobs of `Scheduler`; what they parse is pure.
- The browser client, which shares nothing with the server but requests.
