--------------------------- MODULE ExportArtifacts ---------------------------
(***************************************************************************)
(* The files of exports: how a run names, announces, publishes and takes   *)
(* back its outputs (export.Service.Run), who owns them afterwards         *)
(* (ArtifactStore), and what a restart makes of them (Reconcile).          *)
(*                                                                         *)
(*  - A file is known by device and inode, so "ours" is the very file the  *)
(*    run built; "foreign" is anything else found under the same name.     *)
(*    Whoever else uses the directory may put, replace or move files.      *)
(*  - Names end in a random suffix, so no name is ever given out twice;    *)
(*    a name is (job, part, attempt).                                      *)
(*  - A manifest is written to a temporary file and renamed, so it is      *)
(*    read whole; its content here is the set of names it lists.           *)
(*  - unlink and the database may fail wherever the code looks at the      *)
(*    error or ignores it.                                                 *)
(***************************************************************************)
EXTENDS Integers, FiniteSets

CONSTANTS
  Job,        \* export jobs
  Part,       \* the segments a separate export publishes one by one
  Merge,      \* jobs that publish one file
  Archive,    \* jobs whose destination keeps its files for good
  Attempts,   \* how many names a part may try (100 in the code)
  Streams     \* bound on simultaneous downloads of a job

ASSUME ArtifactsAssumption ==
  /\ Part \subseteq Nat /\ 1 \in Part
  /\ Merge \subseteq Job /\ Archive \subseteq Job
  /\ Attempts \in Nat \ {0} /\ Streams \in Nat \ {0}

VARIABLES
  disk,       \* what lies under each name: "none", "ours" or "foreign"
  manifest,   \* the names each job's manifest file lists; {} is no manifest
  row,        \* the state column of each job
  result,     \* the output names in its result_json
  expired,    \* jobs whose RetainUntil has passed
  process,    \* "down", "boot" (in Reconcile) or "up"
  visited,    \* manifests Reconcile has been to in this boot
  entry,      \* ArtifactStore.values: the names an entry holds
  registered, \* jobs with a path in ArtifactStore.manifests
  active,     \* ArtifactStore.active: open downloads
  asking,     \* Download requests between Put and Open
  pc,         \* where Run and its caller are; "idle" before and after
  try,        \* the attempt each planned part is at; 0 is a part not planned
  todo,       \* parts still to be published
  published,  \* publishedOwners, or mergeOwner once mergePublished
  meddled,    \* history: names somebody else has put, replaced or moved
  leaked,     \* history: files a roll-back left behind without a manifest
  skipped     \* history: jobs whose manifest a Reconcile could not read

disks   == <<disk, manifest>>
rows    == <<row, result>>
store   == <<entry, registered, active, asking>>
boot    == <<process, visited>>
run     == <<pc, try, todo, published>>
history == <<meddled, leaked, skipped>>
vars    == <<disks, rows, expired, boot, store, run, history>>

Name == Job \X Part \X (1..Attempts)

Parts(j)   == IF j \in Merge THEN {1} ELSE Part
First(S)   == CHOOSE p \in S : \A q \in S : p <= q
Mine(j)    == {n \in Name : n[1] = j /\ disk[n] = "ours"}
Lists(j)   == manifest[j] \cap Mine(j)
Current(j, p) == <<j, p, try[j][p]>>
Planned(j) == {Current(j, p) : p \in {q \in Parts(j) : try[j][q] # 0}}
Without(S) == [n \in Name |-> IF n \in S THEN "none" ELSE disk[n]]
Goto(j, at) == pc' = [pc EXCEPT ![j] = at]

\* unlink of a manifest whose error nobody looks at: it may stay behind.
RemoveManifest(j) == \E left \in {{}, manifest[j]} : manifest' = [manifest EXCEPT ![j] = left]

Init ==
    /\ disk = [n \in Name |-> "none"] /\ manifest = [j \in Job |-> {}]
    /\ row = [j \in Job |-> "queued"] /\ result = [j \in Job |-> {}]
    /\ expired = {} /\ process = "up" /\ visited = {}
    /\ entry = [j \in Job |-> {}] /\ registered = {}
    /\ active = [j \in Job |-> 0] /\ asking = {}
    /\ pc = [j \in Job |-> "idle"] /\ try = [j \in Job |-> [p \in Part |-> 0]]
    /\ todo = [j \in Job |-> {}] /\ published = [j \in Job |-> {}]
    /\ meddled = {} /\ leaked = {} /\ skipped = {}

-----------------------------------------------------------------------------
(* Run: generate, then announce and publish part by part *)

\* A worker has claimed the job.  In separate mode a segment that cannot be
\* cut is left out; in merge mode it ends the run (Fail).
Begin(j) ==
    /\ process = "up" /\ pc[j] = "idle" /\ row[j] = "queued"
    /\ row' = [row EXCEPT ![j] = "running"]
    /\ Goto(j, "next")
    /\ \E S \in (IF j \in Merge THEN {Parts(j)} ELSE SUBSET Part) :
          /\ todo' = [todo EXCEPT ![j] = S]
          /\ try' = [try EXCEPT ![j] = [p \in Part |-> IF p \in S THEN 1 ELSE 0]]
    /\ UNCHANGED <<disks, result, expired, boot, store, published, history>>

Working(j) == process = "up" /\ pc[j] \in {"next", "publish", "check"}
At(j, at)  == process = "up" /\ pc[j] = at

\* Fault: the manifest is left to Commit.
AnnounceNothing(j) ==
    /\ At(j, "next") /\ todo[j] # {}
    /\ Goto(j, "publish")
    /\ UNCHANGED <<disks, rows, expired, boot, store, try, todo, published, history>>

\* The manifest names every planned output before the next one is published.
Announce(j) ==
    /\ At(j, "next") /\ todo[j] # {}
    /\ manifest' = [manifest EXCEPT ![j] = Planned(j)]
    /\ registered' = registered \cup {j}
    /\ Goto(j, "publish")
    /\ UNCHANGED <<disk, rows, expired, boot, entry, active, asking, try, todo,
                   published, history>>

\* A separate output that fails verification or naming is left out.
SkipPart(j) ==
    /\ j \notin Merge /\ todo[j] # {}
    /\ At(j, "next") \/ At(j, "publish")
    /\ todo' = [todo EXCEPT ![j] = @ \ {First(@)}]
    /\ Goto(j, "next")
    /\ UNCHANGED <<disks, rows, expired, boot, store, try, published, history>>

\* PublishOpenedNoReplace succeeds only if the name is free.
Publish(j) ==
    /\ At(j, "publish")
    /\ LET n == Current(j, First(todo[j])) IN
          /\ disk[n] = "none"
          /\ disk' = [disk EXCEPT ![n] = "ours"]
          /\ published' = [published EXCEPT ![j] = @ \cup {n}]
    /\ Goto(j, "check")
    /\ UNCHANGED <<manifest, rows, expired, boot, store, try, todo, history>>

\* The name was taken meanwhile: take another and announce again.
Rename(j) ==
    /\ At(j, "publish")
    /\ LET p == First(todo[j]) IN
          /\ disk[Current(j, p)] # "none" /\ try[j][p] < Attempts
          /\ try' = [try EXCEPT ![j][p] = @ + 1]
    /\ Goto(j, "next")
    /\ UNCHANGED <<disks, rows, expired, boot, store, todo, published, history>>

\* Lstat finds the file just published.
Check(j) ==
    /\ At(j, "check")
    /\ disk[Current(j, First(todo[j]))] = "ours"
    /\ todo' = [todo EXCEPT ![j] = @ \ {First(@)}]
    /\ Goto(j, "next")
    /\ UNCHANGED <<disks, rows, expired, boot, store, try, published, history>>

\* All parts are done and at least one is out.  A separate export narrows its
\* manifest to what it published; both put the entry that downloads use.
Commit(j) ==
    /\ At(j, "next") /\ todo[j] = {} /\ published[j] # {}
    /\ manifest' = [manifest EXCEPT ![j] = published[j]]
    /\ registered' = registered \cup {j}
    /\ entry' = [entry EXCEPT ![j] = published[j]]
    /\ Goto(j, "save")
    /\ UNCHANGED <<disk, rows, expired, boot, active, asking, try, todo, published,
                   history>>

-----------------------------------------------------------------------------
(* Run: the deferred clean-ups *)

\* Any error, cancellation or shutdown before Commit; Lstat may fail too.  In
\* merge mode nothing is left to fail once Lstat has found the file.
Fail(j) ==
    /\ Working(j)
    /\ j \in Merge => todo[j] # {}
    /\ Goto(j, IF j \in Merge THEN "disown" ELSE "takeback")
    /\ UNCHANGED <<disks, rows, expired, boot, store, try, todo, published, history>>

\* ClearManifest: first in merge mode, last in separate mode.
Disown(j) ==
    /\ At(j, "disown")
    /\ IF j \in registered THEN RemoveManifest(j) ELSE UNCHANGED manifest
    /\ registered' = registered \ {j}
    /\ Goto(j, IF j \in Merge THEN "takeback" ELSE "error")
    /\ UNCHANGED <<disk, rows, expired, boot, entry, active, asking, try, todo,
                   published, history>>

\* Fault: the roll-back trusts the name.
TakeBackByName(j) ==
    /\ At(j, "takeback")
    /\ disk' = Without(published[j])
    /\ Goto(j, IF j \in Merge THEN "error" ELSE "disown")
    /\ UNCHANGED <<manifest, rows, expired, boot, store, try, todo, published, history>>

\* Fault: the roll-back forgets what it published.
TakeBackNothing(j) ==
    /\ At(j, "takeback")
    /\ Goto(j, IF j \in Merge THEN "error" ELSE "disown")
    /\ UNCHANGED <<disks, rows, expired, boot, store, try, todo, published, history>>

\* removeOwned for each published output; a failing unlink is ignored.
TakeBack(j) ==
    /\ At(j, "takeback")
    /\ \E stuck \in SUBSET (published[j] \cap Mine(j)) :
          /\ disk' = Without((published[j] \cap Mine(j)) \ stuck)
          /\ leaked' = leaked \cup stuck
    /\ Goto(j, IF j \in Merge THEN "error" ELSE "disown")
    /\ UNCHANGED <<manifest, rows, expired, boot, store, try, todo, published, meddled,
                   skipped>>

-----------------------------------------------------------------------------
(* The caller: the result write, and what it removes when refused *)

SetRow(j, s) == row' = [row EXCEPT ![j] = s]

\* The compare-and-set running -> succeeded, by the runner or, when its
\* 100 ms ran out, by the scheduler.
Save(j) ==
    /\ At(j, "save") \/ At(j, "retry")
    /\ row[j] = "running"
    /\ SetRow(j, "succeeded")
    /\ result' = [result EXCEPT ![j] = published[j]]
    /\ Goto(j, "done")
    /\ UNCHANGED <<disks, expired, boot, store, try, todo, published, history>>

SaveTimesOut(j) ==
    /\ At(j, "save")
    /\ Goto(j, "retry")
    /\ UNCHANGED <<disks, rows, expired, boot, store, try, todo, published, history>>

\* Fault: the manifest goes first.
RemoveEvidence(j) ==
    /\ \E gone \in SUBSET Lists(j) : disk' = Without(gone)
    /\ manifest' = [manifest EXCEPT ![j] = {}]
    /\ registered' = registered \ {j}
    /\ entry' = [entry EXCEPT ![j] = {}]

\* ArtifactStore.Remove: every listed output that is still the job's own, then
\* the manifest; if one cannot be removed the manifest and the entry stay.
Remove(j) ==
    \E gone \in SUBSET Lists(j) :
       /\ disk' = Without(gone)
       /\ \/ /\ gone = Lists(j)
             /\ manifest' = [manifest EXCEPT ![j] = {}]
             /\ registered' = registered \ {j}
             /\ entry' = [entry EXCEPT ![j] = {}]
          \/ UNCHANGED <<manifest, registered, entry>>

\* Refused because the job was cancelled: roll back.
SaveRefused(j) ==
    /\ At(j, "save") /\ row[j] = "cancelled"
    /\ Remove(j)
    /\ Goto(j, "done")
    /\ UNCHANGED <<rows, expired, boot, active, asking, try, todo, published, history>>

\* The roll-back is skipped: the row or the manifest cannot be read, or the
\* cancellation came after the first write had timed out.
SaveAbandoned(j) ==
    /\ At(j, "save") \/ At(j, "retry")
    /\ row[j] = "cancelled"
    /\ Goto(j, "done")
    /\ UNCHANGED <<disks, rows, expired, boot, store, try, todo, published, history>>

\* The scheduler's own retries failed: the row stays as it is.
GiveUp(j) ==
    /\ At(j, "retry") \/ At(j, "error")
    /\ Goto(j, "done")
    /\ UNCHANGED <<disks, rows, expired, boot, store, try, todo, published, history>>

ReportFailure(j) ==
    /\ At(j, "error")
    /\ IF row[j] = "running" THEN SetRow(j, "failed") ELSE UNCHANGED row
    /\ Goto(j, "done")
    /\ UNCHANGED <<disks, result, expired, boot, store, try, todo, published, history>>

\* A client cancels the job; what its worker does next is above.
Cancel(j) ==
    /\ process = "up" /\ row[j] \in {"queued", "running"}
    /\ SetRow(j, "cancelled")
    /\ UNCHANGED <<disks, result, expired, boot, store, run, history>>

-----------------------------------------------------------------------------
(* Downloads and expiry *)

\* Download looks the result up, without regard to its expiry, and puts the
\* entry anew ...
AskDownload(j) ==
    /\ process = "up" /\ row[j] = "succeeded" /\ j \notin Archive
    /\ entry' = [entry EXCEPT ![j] = result[j]]
    /\ asking' = asking \cup {j}
    /\ UNCHANGED <<disks, rows, expired, boot, registered, active, run, history>>

\* ... then opens one of its files, if the entry is there and has time left.
Open(j) ==
    /\ process = "up" /\ j \in asking
    /\ asking' = asking \ {j}
    /\ active' = [active EXCEPT ![j] =
          IF @ < Streams /\ j \notin expired /\ \E n \in entry[j] : disk[n] # "none"
          THEN @ + 1 ELSE @]
    /\ UNCHANGED <<disks, rows, expired, boot, entry, registered, run, history>>

Refuse(j) ==
    /\ process = "up" /\ j \in asking
    /\ asking' = asking \ {j}
    /\ UNCHANGED <<disks, rows, expired, boot, entry, registered, active, run, history>>

\* Fault: a closed download still counts.
CloseUncounted(j) ==
    /\ process = "up" /\ active[j] > 0
    /\ UNCHANGED vars

Close(j) ==
    /\ process = "up" /\ active[j] > 0
    /\ active' = [active EXCEPT ![j] = @ - 1]
    /\ UNCHANGED <<disks, rows, expired, boot, entry, registered, asking, run, history>>

\* RetainUntil passes: 24 hours after the run by default, a century for an
\* archive.
Expire(j) ==
    /\ j \notin Archive /\ j \notin expired
    /\ manifest[j] # {} \/ row[j] = "succeeded"
    /\ expired' = expired \cup {j}
    /\ UNCHANGED <<disks, rows, boot, store, run, history>>

Due(j) == entry[j] # {} /\ j \in expired /\ j \notin Archive

\* What Cleanup may remove of an entry: with a manifest, the listed outputs
\* that are still the job's own; without one, whatever has the name.
Removable(j) ==
    IF j \in registered
    THEN entry[j] \cap Lists(j)
    ELSE {n \in entry[j] : disk[n] # "none"}

\* An entry that has to stay: its file could not be removed or is not listed.
Kept(j, gone) ==
    IF j \in registered
    THEN (Removable(j) \ gone) \cup (entry[j] \ manifest[j])
    ELSE Removable(j) \ gone

\* The rest of Cleanup for job j, once its files are gone.
Expel(j, gone) ==
    /\ disk' = Without(gone)
    /\ entry' = [entry EXCEPT ![j] = Kept(j, gone)]
    /\ IF Kept(j, gone) = {}
       THEN /\ IF j \in registered THEN RemoveManifest(j) ELSE UNCHANGED manifest
            /\ registered' = registered \ {j}
       ELSE UNCHANGED <<manifest, registered>>
    /\ UNCHANGED <<rows, expired, boot, active, asking, run, history>>

\* Fault: open downloads do not count.
CleanupAlways(j) ==
    /\ process = "up" /\ Due(j)
    /\ \E gone \in SUBSET Removable(j) : Expel(j, gone)

\* Fault: expiry does not count.
CleanupEarly(j) ==
    /\ process = "up" /\ entry[j] # {} /\ active[j] = 0
    /\ \E gone \in SUBSET Removable(j) : Expel(j, gone)

\* The part of ArtifactStore.Cleanup that is about job j; the store's mutex is
\* held throughout and no job's part touches another's files.  An unreadable
\* manifest makes it skip the job, which is no step.
Cleanup(j) ==
    /\ process = "up" /\ Due(j) /\ active[j] = 0
    /\ \E gone \in SUBSET Removable(j) : Expel(j, gone)

-----------------------------------------------------------------------------
(* Crash and restart *)

\* The process dies, or Reconcile returned an error and main gave up.  A merge
\* roll-back that is cut in two leaves its file to nobody.
Forget ==
    /\ process' = "down" /\ visited' = {}
    /\ entry' = [j \in Job |-> {}] /\ registered' = {}
    /\ active' = [j \in Job |-> 0] /\ asking' = {}
    /\ pc' = [j \in Job |-> "idle"] /\ try' = [j \in Job |-> [p \in Part |-> 0]]
    /\ todo' = [j \in Job |-> {}] /\ published' = [j \in Job |-> {}]

Crash ==
    /\ process # "down"
    /\ Forget
    /\ leaked' = leaked \cup
          UNION {published[j] \cap Mine(j) : j \in {k \in Merge : pc[k] = "takeback"}}
    /\ UNCHANGED <<disks, rows, expired, meddled, skipped>>

Boot ==
    /\ process = "down"
    /\ process' = "boot" /\ visited' = {}
    /\ UNCHANGED <<disks, rows, expired, store, run, history>>

\* The walk comes to the manifest of job j.
Visits(j) == process = "boot" /\ manifest[j] # {} /\ j \notin visited
Owned(j)  == manifest[j] \subseteq Mine(j)
FirstName(j) == CHOOSE n \in manifest[j] : \A m \in manifest[j] : n[2] <= m[2]

\* cleanupManifest
Discard(j) ==
    /\ disk' = Without(Lists(j))
    /\ RemoveManifest(j)
    /\ visited' = visited \cup {j}
    /\ UNCHANGED <<rows, expired, process, store, run, history>>

\* ... in which an unlink fails: Reconcile and the start-up fail with it.
DiscardFails(j) ==
    /\ \E gone \in (SUBSET Lists(j)) \ {Lists(j)} : disk' = Without(gone)
    /\ Forget
    /\ UNCHANGED <<manifest, rows, expired, history>>

Adopt(j) ==
    /\ entry' = [entry EXCEPT ![j] = manifest[j]]
    /\ registered' = registered \cup {j}
    /\ visited' = visited \cup {j}
    /\ UNCHANGED <<disks, expired, process, active, asking, run, history>>

\* A running job whose files are all there and pass ffprobe has succeeded.
AdoptRunning(j) ==
    /\ Visits(j) /\ row[j] = "running" /\ Owned(j)
    /\ Adopt(j)
    /\ SetRow(j, "succeeded")
    /\ result' = [result EXCEPT ![j] = manifest[j]]

\* The database refuses the success: the start-up fails, and the write may
\* have been committed all the same.
AdoptRunningFails(j) ==
    /\ Visits(j) /\ row[j] = "running" /\ Owned(j)
    /\ Forget
    /\ \/ /\ SetRow(j, "succeeded")
          /\ result' = [result EXCEPT ![j] = manifest[j]]
       \/ UNCHANGED rows
    /\ UNCHANGED <<disks, expired, history>>

\* Files that are not all there, or that ffprobe does not pass, are removed.
DiscardRunning(j) ==
    /\ Visits(j) /\ row[j] = "running"
    /\ Discard(j) \/ DiscardFails(j)

\* Fault: a cancelled job's files are adopted.
AdoptCancelled(j) ==
    /\ Visits(j) /\ row[j] = "cancelled" /\ Owned(j)
    /\ Adopt(j)
    /\ UNCHANGED rows

DiscardCancelled(j) ==
    /\ Visits(j) /\ row[j] = "cancelled"
    /\ Discard(j) \/ DiscardFails(j)

AdoptSucceeded(j) ==
    /\ Visits(j) /\ row[j] = "succeeded" /\ j \notin expired /\ Owned(j)
    /\ Adopt(j)
    /\ UNCHANGED rows

\* Fault: a success whose files cannot be checked is discarded.
DiscardUnverified(j) ==
    /\ Visits(j) /\ row[j] = "succeeded"
    /\ Discard(j) \/ DiscardFails(j)

\* A success is discarded when it has expired, or when one of its files is
\* gone or replaced.
DiscardSucceeded(j) ==
    /\ Visits(j) /\ row[j] = "succeeded"
    /\ j \in expired \/ ~Owned(j)
    /\ Discard(j) \/ DiscardFails(j)

\* ffprobe cannot check a file that is there (the first it looks at, or a later
\* one): keep everything for the next restart.
KeepUnverified(j) ==
    /\ Visits(j) /\ row[j] = "succeeded" /\ j \notin expired
    /\ disk[FirstName(j)] = "ours"
    /\ visited' = visited \cup {j}
    /\ UNCHANGED <<disks, rows, expired, process, store, run, history>>

\* A failed job's manifest is left alone, and so is one that cannot be read.
PassBy(j) ==
    /\ Visits(j)
    /\ visited' = visited \cup {j}
    /\ skipped' = IF row[j] = "failed" THEN skipped ELSE skipped \cup {j}
    /\ UNCHANGED <<disks, rows, expired, process, store, run, meddled, leaked>>

\* The walk is over; JobsStore.Recover fails what is still running.
Recover ==
    /\ process = "boot" /\ \A j \in Job : ~Visits(j)
    /\ row' = [j \in Job |-> IF row[j] = "running" THEN "failed" ELSE row[j]]
    /\ process' = "up"
    /\ UNCHANGED <<disks, result, expired, visited, store, run, history>>

-----------------------------------------------------------------------------
(* Everybody else with access to the directory *)

\* A file appears under a name that has been chosen and not yet published.
Collide(j) ==
    \E p \in todo[j] :
       /\ disk[Current(j, p)] = "none"
       /\ disk' = [disk EXCEPT ![Current(j, p)] = "foreign"]
       /\ meddled' = meddled \cup {Current(j, p)}
       /\ UNCHANGED <<manifest, rows, expired, boot, store, run, leaked, skipped>>

\* A published file is moved away or replaced.
Meddle(n) ==
    /\ disk[n] = "ours"
    /\ \E x \in {"none", "foreign"} : disk' = [disk EXCEPT ![n] = x]
    /\ meddled' = meddled \cup {n}
    /\ UNCHANGED <<manifest, rows, expired, boot, store, run, leaked, skipped>>

\* Another file is put where an output used to be.
Reuse(n) ==
    /\ n \in meddled \/ n[1] \in expired
    /\ n \in result[n[1]]
    /\ disk[n] = "none"
    /\ disk' = [disk EXCEPT ![n] = "foreign"]
    /\ meddled' = meddled \cup {n}
    /\ UNCHANGED <<manifest, rows, expired, boot, store, run, leaked, skipped>>

-----------------------------------------------------------------------------
RunStep(j) ==
    \/ Begin(j) \/ Announce(j) \/ SkipPart(j) \/ Publish(j) \/ Rename(j) \/ Check(j)
    \/ Commit(j) \/ Fail(j) \/ Disown(j) \/ TakeBack(j)
    \/ Save(j) \/ SaveTimesOut(j) \/ SaveRefused(j) \/ SaveAbandoned(j)
    \/ GiveUp(j) \/ ReportFailure(j)

ClientStep(j) == Cancel(j) \/ AskDownload(j) \/ Open(j) \/ Refuse(j) \/ Close(j)

ReconcileStep(j) ==
    \/ AdoptRunning(j) \/ AdoptRunningFails(j) \/ DiscardRunning(j)
    \/ DiscardCancelled(j) \/ AdoptSucceeded(j) \/ DiscardSucceeded(j)
    \/ KeepUnverified(j) \/ PassBy(j)

Outsider == \E n \in Name : Meddle(n) \/ Reuse(n) \/ Collide(n[1])

Next ==
    \/ \E j \in Job : RunStep(j) \/ ClientStep(j) \/ ReconcileStep(j)
    \/ \E j \in Job : Expire(j) \/ Cleanup(j)
    \/ Crash \/ Boot \/ Recover \/ Outsider

Spec == Init /\ [][Next]_vars

\* While the process is up the 15-minute ticker runs Cleanup, whose unlinks
\* succeed in the end, and downloads end.
ClearOut(j) == Cleanup(j) /\ entry'[j] = {}
FairSpec ==
    Spec /\ \A j \in Job : WF_vars(ClearOut(j)) /\ WF_vars(Close(j))

-----------------------------------------------------------------------------
(* Properties *)

\* WriteManifest "records ownership before any publication": a published file is
\* always listed in its job's manifest, so that whatever happens next some
\* restart or clean-up can find it.  The one place where it is not is a merge
\* roll-back, which removes the manifest first.
Evidence ==
    \A j \in Job : Mine(j) \subseteq manifest[j] \cup leaked
                      \cup (IF j \in Merge /\ pc[j] = "takeback" THEN published[j] ELSE {})

\* A failed export keeps no files, whether it failed in this life of the process
\* or in an earlier one, and after a restart nor does a cancelled one, unless they
\* leaked or a restart could not read its manifest.
FailedLeavesNothing ==
    \A j \in Job \ skipped :
       (row[j] = "failed" \/ (row[j] = "cancelled" /\ process = "up" /\ pc[j] = "idle"))
         => Mine(j) \subseteq leaked

\* The files of a success stay until it expires, whatever is retried, cancelled
\* or restarted, as long as nobody else has touched any of them.
SuccessKeepsFiles ==
    \A j \in Job : row[j] = "succeeded" /\ j \notin expired /\ result[j] \cap meddled = {}
                     => result[j] # {} /\ result[j] \subseteq Mine(j)

\* No step removes a file of a job that is being downloaded.
DownloadsKeepFiles ==
    [][\A n \in Name : disk[n] = "ours" /\ disk'[n] # "ours" /\ active[n[1]] > 0
          => n \in meddled']_vars

\* Files that are not the run's own are never removed or replaced, except by
\* the expiry of an entry that has no manifest.
ForeignFilesStay ==
    [][\A n \in Name : disk[n] = "foreign" /\ disk'[n] # "foreign"
          => n \in entry[n[1]] /\ n[1] \notin registered]_vars

\* A manifest whose files are all there, and the jobs for whose files there is
\* an excuse.
Whole   == {j \in Job : manifest[j] # {} /\ manifest[j] \subseteq Mine(j)}
Excused == expired \cup skipped \cup {n[1] : n \in meddled \cup leaked}

\* Rows and files change together as ExportOutcome allows, which Scheduler also
\* implements.
Outcome == INSTANCE ExportOutcome WITH state <- row, whole <- Whole, excused <- Excused
OutcomeSpec == Outcome!Spec

\* Once a download has expired its files go, unless the process does.
ExpiredFilesGo ==
    \A j \in Job : (Due(j) /\ process = "up") ~> (Mine(j) \cap result[j] = {} \/ process # "up")

-----------------------------------------------------------------------------
(* What the documentation says and the code does not do *)

\* "Exports are durable outputs" (export-recovery.md), which only the expiry of
\* their own job may remove; in particular a file that nobody else touched.
UntouchedOutputsStay ==
    \A j \in Job : row[j] = "succeeded" /\ j \notin expired
                     => result[j] \subseteq Mine(j) \cup meddled

\* TestArtifactStoreCleanupPreservesReplacedOwnedOutput: clean-up does not remove
\* a file that replaced an output.
ReplacementsStay ==
    [][\A n \in Name : disk[n] = "foreign" => disk'[n] = "foreign"]_vars
=============================================================================
