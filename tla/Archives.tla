------------------------------ MODULE Archives ------------------------------
(***************************************************************************)
(* The ZIP of a finished batch (ExportExecutor.DownloadBatch): several     *)
(* requests, in several processes that share one output directory, ask for *)
(* the same batch.  One of them builds the archive, the others are to find *)
(* it: in the memory of their own process or through the manifest on disk. *)
(*                                                                         *)
(*  - An archive is known by device and inode, here by the request that    *)
(*    built it; Foreign stands for anybody else's file.                    *)
(*  - The lock is flock on a file that stays, polled every 10 ms; a crash  *)
(*    frees it.                                                            *)
(*  - Outputs and archive expire together: the archive takes the earliest  *)
(*    time of its outputs.                                                 *)
(*  - A process that starts reconciles the manifest without the lock.      *)
(***************************************************************************)
EXTENDS Integers

CONSTANTS
  Process, Request,
  HomeOf,     \* the process each request arrives in
  Output,     \* the files of the batch's jobs
  Attempts,   \* how many names may be tried (100 in the code)
  Crashes,    \* bound on crashes
  None, Foreign

ArchivesAssumption ==
  /\ HomeOf \in [Request -> Process]
  /\ Attempts \in Nat \ {0} /\ Crashes \in Nat
  /\ None \notin Request /\ Foreign \notin Request /\ None # Foreign
  /\ None \notin 1..Attempts \cup [name : 1..Attempts, file : Request]

VARIABLES
  zip,        \* the file under each archive name
  announced,  \* the batch's manifest: a name and the identity of its file
  present,    \* outputs whose file is still there
  elapsed,    \* RetainUntil has passed
  lock,       \* the request holding the lock file
  temp,       \* requests whose temporary archive exists
  content,    \* the outputs in the archive each request builds
  values,     \* ArtifactStore.values of each process: the name of the archive
  owned,      \* processes with a path in ArtifactStore.manifests
  server,     \* "down", "boot", "judge", "clean" (in Reconcile) or "up"
  seen,       \* the manifest Reconcile has read
  stage,      \* where each request is
  attempt,    \* the name it is at
  note,       \* the manifest it has read
  cancelled,  \* requests whose context has ended
  crashes,    \* crashes so far
  overlapped  \* history: a process reconciled while another was publishing

files   == <<zip, announced, present, temp, content>>
stores  == <<values, owned>>
boots   == <<server, seen, crashes>>
calls   == <<stage, attempt, note, cancelled>>
vars    == <<files, elapsed, lock, stores, boots, calls, overlapped>>

Name == 1..Attempts
Free == "idle"
Ended == {"reading", "ended", "lost"}

Home(r) == HomeOf[r]
At(r, at) == server[Home(r)] = "up" /\ stage[r] = at
Goto(r, at) == stage' = [stage EXCEPT ![r] = at]
Intact(m) == zip[m.name] = m.file

\* validateBatchArchive: as many sound entries as the batch has outputs.
Whole(file) == content[file] = Output

\* validateManifestArchive, which does not know the batch: at least one entry.
Readable(file) == content[file] # {}

\* A process reconciles while a request of another has announced its archive
\* and not yet published it.
Overlap(processes, requests) == overlapped' = (overlapped \/
    /\ \E p \in Process : processes[p] \in {"judge", "clean"}
    /\ \E r \in Request : requests[r] = "publish")

Init ==
    /\ zip = [n \in Name |-> None] /\ announced = None /\ present = Output
    /\ elapsed = FALSE /\ lock = None /\ temp = {}
    /\ content = [r \in Request |-> {}]
    /\ values = [p \in Process |-> None] /\ owned = {}
    /\ server = [p \in Process |-> "up"] /\ seen = [p \in Process |-> None]
    /\ stage = [r \in Request |-> Free] /\ attempt = [r \in Request |-> 1]
    /\ note = [r \in Request |-> None]
    /\ cancelled = {} /\ crashes = 0 /\ overlapped = FALSE

-----------------------------------------------------------------------------
(* Returning: with a file or an error, and always without the lock *)

\* ArtifactStore.Open: the entry is there, has time left and names a file.
Openable(name) == name # None /\ ~elapsed /\ zip[name] # None

Locals(r) == attempt' = [attempt EXCEPT ![r] = 1] /\ note' = [note EXCEPT ![r] = None]

\* The deferred unlock of downloadBatchWithLock.
Unlock(r) == lock' = IF lock = r THEN None ELSE lock

\* Fault: an error returns before the unlock is deferred.
FailLocked(r) ==
    /\ Goto(r, "ended") /\ Locals(r) /\ UNCHANGED lock

Fail(r) == Goto(r, "ended") /\ Locals(r) /\ Unlock(r)

Hand(r) == Goto(r, "reading") /\ Locals(r) /\ Unlock(r)

-----------------------------------------------------------------------------
(* DownloadBatch up to the lock *)

\* The archive this process remembers, or the outputs of the batch's jobs; the
\* batch may be unfinished or its jobs unreadable.
Ask(r) ==
    /\ At(r, Free)
    /\ \/ Openable(values[Home(r)]) /\ Hand(r)
       \/ /\ ~Openable(values[Home(r)]) /\ ~elapsed
          /\ Goto(r, "waiting") /\ UNCHANGED <<attempt, note, lock>>
       \/ ~Openable(values[Home(r)]) /\ Fail(r)
    /\ UNCHANGED <<files, elapsed, stores, boots, cancelled, overlapped>>

Lock(r) ==
    /\ At(r, "waiting") /\ r \notin cancelled
    /\ lock = None
    /\ lock' = r
    /\ Goto(r, "look")
    /\ UNCHANGED <<files, elapsed, stores, boots, attempt, note, cancelled, overlapped>>

StopWaiting(r) ==
    /\ At(r, "waiting") /\ r \in cancelled
    /\ Fail(r)
    /\ UNCHANGED <<files, elapsed, stores, boots, cancelled, overlapped>>

-----------------------------------------------------------------------------
(* Under the lock: an archive that is already there *)

\* Somebody in this process may have built it while we waited.
Look(r) ==
    /\ At(r, "look")
    /\ IF Openable(values[Home(r)]) /\ r \notin cancelled THEN Hand(r)
       ELSE IF r \in cancelled THEN Fail(r)
       ELSE Goto(r, "read") /\ UNCHANGED <<attempt, note, lock>>
    /\ UNCHANGED <<files, elapsed, stores, boots, cancelled, overlapped>>

\* Fault: only the memory of this process is asked.
BuildAnyway(r) ==
    /\ At(r, "read")
    /\ Goto(r, "build")
    /\ UNCHANGED <<files, elapsed, lock, stores, boots, attempt, note, cancelled,
                   overlapped>>

\* Somebody in another process may have: its manifest says so.
ReadManifest(r) ==
    /\ At(r, "read")
    /\ IF announced = None
       THEN Goto(r, "build") /\ UNCHANGED <<attempt, note, lock>>
       ELSE IF elapsed THEN Fail(r)
       ELSE /\ note' = [note EXCEPT ![r] = announced]
            /\ Goto(r, "check") /\ UNCHANGED <<attempt, lock>>
    /\ UNCHANGED <<files, elapsed, stores, boots, cancelled, overlapped>>

\* Lstat, identity and the number of entries; then the entry is put.
CheckPublished(r) ==
    /\ At(r, "check")
    /\ IF Intact(note[r]) /\ Whole(note[r].file) /\ r \notin cancelled
       THEN /\ values' = [values EXCEPT ![Home(r)] = note[r].name]
            /\ Goto(r, "compare") /\ UNCHANGED <<attempt, note, lock>>
       ELSE Fail(r) /\ UNCHANGED values
    /\ UNCHANGED <<files, elapsed, owned, boots, cancelled, overlapped>>

\* What has been opened must still be the file of the manifest.
Compare(r) ==
    /\ At(r, "compare")
    /\ LET name == values[Home(r)] IN
       IF Openable(name) /\ zip[name] = note[r].file
       THEN Hand(r) /\ owned' = owned \cup {Home(r)}
       ELSE Fail(r) /\ UNCHANGED owned
    /\ UNCHANGED <<files, elapsed, values, boots, cancelled, overlapped>>

-----------------------------------------------------------------------------
(* Under the lock: building the archive *)

\* Fault: an output that cannot be opened is left out.
CopySkipping(r) ==
    /\ At(r, "build")
    /\ temp' = temp \cup {r}
    /\ content' = [content EXCEPT ![r] = present]
    /\ Goto(r, "name")
    /\ UNCHANGED <<zip, announced, present, elapsed, lock, stores, boots, attempt, note,
                   cancelled, overlapped>>

\* Each output is opened as a download of its own and copied.
Copy(r) ==
    /\ At(r, "build") /\ r \notin cancelled /\ ~elapsed
    /\ \E o \in present \ content[r] :
          content' = [content EXCEPT ![r] = @ \cup {o}]
    /\ temp' = temp \cup {r}
    /\ Goto(r, IF content'[r] = Output THEN "name" ELSE "build")
    /\ UNCHANGED <<zip, announced, present, elapsed, lock, stores, boots, attempt, note,
                   cancelled, overlapped>>

\* Any error or cancellation before the archive is announced: the temporary
\* file is removed.
Abandon(r) ==
    /\ At(r, "build") \/ At(r, "name")
    /\ temp' = temp \ {r}
    /\ Fail(r)
    /\ UNCHANGED <<zip, announced, present, content, elapsed, stores, boots, cancelled,
                   overlapped>>

NextName(r) ==
    /\ At(r, "name") /\ zip[attempt[r]] # None /\ attempt[r] < Attempts
    /\ attempt' = [attempt EXCEPT ![r] = @ + 1]
    /\ UNCHANGED <<files, elapsed, lock, stores, boots, stage, note, cancelled, overlapped>>

\* The manifest, with the identity of the temporary file, precedes it.
Announce(r) ==
    /\ At(r, "name") /\ zip[attempt[r]] = None
    /\ announced' = [name |-> attempt[r], file |-> r]
    /\ owned' = owned \cup {Home(r)}
    /\ Goto(r, "publish")
    /\ Overlap(server, stage')
    /\ UNCHANGED <<zip, present, temp, content, elapsed, lock, values, boots, attempt, note,
                   cancelled>>

\* ClearManifest: by path, whatever the file says meanwhile.
ClearManifest(p) ==
    /\ announced' = IF p \in owned THEN None ELSE announced
    /\ owned' = owned \ {p}

\* The rename that never replaces: the temporary name becomes the archive.
Publish(r) ==
    /\ At(r, "publish") /\ zip[attempt[r]] = None
    /\ zip' = [zip EXCEPT ![attempt[r]] = r]
    /\ temp' = temp \ {r}
    /\ values' = [values EXCEPT ![Home(r)] = attempt[r]]
    /\ Goto(r, "open")
    /\ UNCHANGED <<announced, present, content, elapsed, lock, owned, boots, attempt, note,
                   cancelled, overlapped>>

\* Another file took the name: withdraw the manifest and try the next name.
Collision(r) ==
    /\ At(r, "publish") /\ zip[attempt[r]] # None /\ attempt[r] < Attempts
    /\ ClearManifest(Home(r))
    /\ attempt' = [attempt EXCEPT ![r] = @ + 1]
    /\ Goto(r, "name")
    /\ UNCHANGED <<zip, present, temp, content, elapsed, lock, values, boots, note,
                   cancelled, overlapped>>

\* No name is left, or the rename fails otherwise.
PublishFails(r) ==
    /\ At(r, "publish")
    /\ ClearManifest(Home(r))
    /\ temp' = temp \ {r}
    /\ Fail(r)
    /\ UNCHANGED <<zip, present, content, elapsed, values, boots, cancelled, overlapped>>

\* The archive is handed out, or taken back by its name if it cannot be opened.
Deliver(r) ==
    /\ At(r, "open")
    /\ LET name == values[Home(r)] IN
       IF Openable(name)
       THEN Hand(r) /\ UNCHANGED <<zip, announced, owned>>
       ELSE /\ zip' = [zip EXCEPT ![attempt[r]] = None]
            /\ ClearManifest(Home(r))
            /\ Fail(r)
    /\ UNCHANGED <<present, temp, content, elapsed, values, boots, cancelled, overlapped>>

Close(r) ==
    /\ At(r, "reading")
    /\ Goto(r, "ended")
    /\ UNCHANGED <<files, elapsed, lock, stores, boots, attempt, note, cancelled, overlapped>>

-----------------------------------------------------------------------------
(* Crash, restart and expiry *)

\* The kernel frees the lock; what is on disk stays, temporary files included.
Crash(p) ==
    /\ server[p] # "down" /\ crashes < Crashes
    /\ crashes' = crashes + 1
    /\ server' = [server EXCEPT ![p] = "down"]
    /\ seen' = [seen EXCEPT ![p] = None]
    /\ values' = [values EXCEPT ![p] = None]
    /\ owned' = owned \ {p}
    /\ lock' = IF lock # None /\ Home(lock) = p THEN None ELSE lock
    /\ LET mine == {r \in Request : Home(r) = p /\ stage[r] \notin {Free, "ended"}} IN
          /\ stage' = [r \in Request |-> IF r \in mine THEN "lost" ELSE stage[r]]
          /\ attempt' = [r \in Request |-> IF r \in mine THEN 1 ELSE attempt[r]]
          /\ note' = [r \in Request |-> IF r \in mine THEN None ELSE note[r]]
    /\ UNCHANGED <<files, elapsed, cancelled, overlapped>>

Boot(p) ==
    /\ server[p] = "down"
    /\ server' = [server EXCEPT ![p] = "boot"]
    /\ UNCHANGED <<files, elapsed, lock, stores, seen, crashes, calls, overlapped>>

\* Reconcile reads the manifest ...
Reconcile(p) ==
    /\ server[p] = "boot"
    /\ seen' = [seen EXCEPT ![p] = announced]
    /\ server' = [server EXCEPT ![p] = IF announced = None THEN "up" ELSE "judge"]
    /\ Overlap(server', stage)
    /\ UNCHANGED <<files, elapsed, lock, stores, crashes, calls>>

\* ... and adopts the archive it announces, if that is there, is ours, can be read
\* and has time left.
Adopt(p) ==
    /\ server[p] = "judge"
    /\ IF ~elapsed /\ Intact(seen[p]) /\ Readable(seen[p].file)
       THEN /\ values' = [values EXCEPT ![p] = seen[p].name]
            /\ owned' = owned \cup {p}
            /\ server' = [server EXCEPT ![p] = "up"]
            /\ seen' = [seen EXCEPT ![p] = None]
       ELSE /\ server' = [server EXCEPT ![p] = "clean"]
            /\ UNCHANGED <<stores, seen>>
    /\ Overlap(server', stage)
    /\ UNCHANGED <<files, elapsed, lock, crashes, calls>>

\* cleanupManifest: the listed file if it is ours, and the manifest by its path.
Discard(p) ==
    /\ server[p] = "clean"
    /\ zip' = [zip EXCEPT ![seen[p].name] = IF Intact(seen[p]) THEN None ELSE @]
    /\ announced' = None
    /\ server' = [server EXCEPT ![p] = "up"]
    /\ seen' = [seen EXCEPT ![p] = None]
    /\ UNCHANGED <<present, temp, content, elapsed, lock, stores, crashes, calls, overlapped>>

\* ArtifactStore.Cleanup: an expired entry nobody in this process is reading.
\* With a manifest only the file it names goes, without one whatever has the
\* name; an entry whose manifest cannot be read stays.
Cleanup(p) ==
    /\ server[p] = "up" /\ values[p] # None /\ elapsed
    /\ ~\E r \in Request : Home(r) = p /\ stage[r] = "reading"
    /\ IF p \in owned
       THEN /\ announced # None /\ announced.name = values[p]
            /\ zip' = [zip EXCEPT ![values[p]] = IF Intact(announced) THEN None ELSE @]
            /\ announced' = None
       ELSE zip' = [zip EXCEPT ![values[p]] = None] /\ UNCHANGED announced
    /\ values' = [values EXCEPT ![p] = None]
    /\ owned' = owned \ {p}
    /\ UNCHANGED <<present, temp, content, elapsed, lock, boots, calls, overlapped>>

Expire ==
    /\ ~elapsed
    /\ elapsed' = TRUE
    /\ UNCHANGED <<files, lock, stores, boots, calls, overlapped>>

-----------------------------------------------------------------------------
(* The clients and others who use the directory *)

Cancel(r) ==
    /\ stage[r] \notin Ended /\ r \notin cancelled
    /\ cancelled' = cancelled \cup {r}
    /\ UNCHANGED <<files, elapsed, lock, stores, boots, stage, attempt, note, overlapped>>

\* Somebody else's file takes a name.
Collide(n) ==
    /\ zip[n] = None
    /\ zip' = [zip EXCEPT ![n] = Foreign]
    /\ UNCHANGED <<announced, present, temp, content, elapsed, lock, stores, boots, calls,
                   overlapped>>

\* An output is moved away.
Vanish(o) ==
    /\ o \in present
    /\ present' = present \ {o}
    /\ UNCHANGED <<zip, announced, temp, content, elapsed, lock, stores, boots, calls,
                   overlapped>>

-----------------------------------------------------------------------------

Step(r) ==
    \/ Ask(r) \/ Lock(r) \/ StopWaiting(r)
    \/ Look(r) \/ ReadManifest(r) \/ CheckPublished(r) \/ Compare(r)
    \/ Copy(r) \/ Abandon(r) \/ NextName(r)
    \/ Announce(r) \/ Publish(r) \/ Collision(r) \/ PublishFails(r) \/ Deliver(r)

Restart(p) == Boot(p) \/ Reconcile(p) \/ Adopt(p) \/ Discard(p)

Next ==
    \/ \E r \in Request : Step(r) \/ Close(r) \/ Cancel(r)
    \/ \E p \in Process : Crash(p) \/ Restart(p) \/ Cleanup(p)
    \/ \E n \in Name : Collide(n)
    \/ \E o \in Output : Vanish(o)
    \/ Expire

Spec == Init /\ [][Next]_vars

\* A handler that can go on does; a process that is down need not come back.
Fairness == \A r \in Request : WF_vars(Step(r))

FairSpec == Spec /\ Fairness

-----------------------------------------------------------------------------
(* Properties *)

\* An archive of the batch that lies in the directory holds every output, whoever
\* built it, and is the one the manifest announces: whoever looks for it later, in
\* whatever process and after whatever crash, finds it there and cleans it up.  The
\* exception to the latter is a process that reconciled in the middle of a
\* publication.
ArchiveIsWholeAndListed ==
    \A n \in Name : zip[n] \in Request =>
        /\ Whole(zip[n])
        /\ overlapped \/ announced = [name |-> n, file |-> zip[n]]

\* A request that waits for the lock gets it or ends, whatever becomes of the
\* request that holds it.
WaitersGoOn ==
    \A r \in Request : stage[r] = "waiting" ~> (stage[r] # "waiting" \/ server[Home(r)] # "up")
=============================================================================
