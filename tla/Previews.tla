------------------------------ MODULE Previews ------------------------------
(***************************************************************************)
(* Previews: a request is served from the cache of rendered files          *)
(* (cache.Store), or renders the file itself in one of the FFmpeg slots    *)
(* that previews share with exports and detections (PreviewLimits),        *)
(* streams it, and offers it to the cache (PreviewManager).                *)
(*                                                                         *)
(*  - A file is known by its inode; here, by the request that rendered it. *)
(*  - Code that runs under Store.mu is part of one action; pathLock is the *)
(*    per-key mutex, which is held while a file is validated.              *)
(*  - A request may be cancelled at any time, which includes its reader    *)
(*    being closed; FFmpeg and ffprobe succeed, fail or are killed.        *)
(*  - Files have different modification times, and a request can remove    *)
(*    the files that are its own.  Evicting another's file may fail.       *)
(***************************************************************************)
EXTENDS Integers, FiniteSets

CONSTANTS
  Request,    \* preview requests, each of which comes once
  Key,        \* cache keys
  KeyOf,      \* the key each request asks for
  Size,       \* the size of the file rendered for a key
  Other,      \* exports, detections and timeline assets that take slots
  ByteLimit,  \* cache limits an operator may set
  SlotLimit,  \* process limits an operator may set
  None        \* no request

ASSUME PreviewsAssumption ==
  /\ KeyOf \in [Request -> Key] /\ Size \in [Key -> Nat \ {0}]
  /\ ByteLimit \subseteq Nat \ {0} /\ SlotLimit \subseteq Nat \ {0}
  /\ None \notin Request /\ IsFiniteSet(Request) /\ IsFiniteSet(Other)

VARIABLES
  file,       \* the entry on disk for each key, as the request that rendered it
  older,      \* the order of the files' modification times, as a set of pairs
  partial,    \* requests with a .partial file on disk
  open,       \* Store.open: leases on each key
  max,        \* Store.max
  pathLock,   \* who holds the mutex of each key
  global,     \* PreviewLimits.global
  taken,      \* PreviewLimits.active
  busy,       \* others that hold a slot
  pc,         \* where a request is
  found,      \* the file its Open is looking at
  cancelled,  \* requests whose context is cancelled
  rejected,   \* history: files removed by an Open as invalid
  process     \* "up" or "down"

cache  == <<file, older, partial, open, pathLock>>
limits == <<max, global>>
slots  == <<taken, busy>>
client == <<found, cancelled, rejected>>
vars   == <<cache, limits, slots, client, pc, process>>

Goto(r, at) == pc' = [pc EXCEPT ![r] = at]
At(r, at)   == process = "up" /\ pc[r] = at

Init ==
    /\ file = [k \in Key |-> None] /\ older = {} /\ partial = {}
    /\ open = [k \in Key |-> 0] /\ pathLock = [k \in Key |-> None]
    /\ max \in ByteLimit /\ global \in SlotLimit
    /\ taken = 0 /\ busy = {}
    /\ pc = [r \in Request |-> "idle"] /\ found = [r \in Request |-> None]
    /\ cancelled = {} /\ rejected = {} /\ process = "up"

-----------------------------------------------------------------------------
(* Store.Open *)

Arrive(r) ==
    /\ At(r, "idle")
    /\ Goto(r, "open")
    /\ UNCHANGED <<cache, limits, slots, client, process>>

\* With the key's mutex: no file is a miss, a file has to be validated.
LookUp(r) ==
    /\ At(r, "open") /\ pathLock[KeyOf[r]] = None
    /\ found' = [found EXCEPT ![r] = file[KeyOf[r]]]
    /\ IF file[KeyOf[r]] = None
       THEN Goto(r, "acquire") /\ UNCHANGED pathLock
       ELSE Goto(r, "validate") /\ pathLock' = [pathLock EXCEPT ![KeyOf[r]] = r]
    /\ UNCHANGED <<file, older, partial, open, limits, slots, cancelled, rejected, process>>

Unlock(r) == pathLock' = [pathLock EXCEPT ![KeyOf[r]] = None]

\* RemoveFileIfOwned(path, owner)
RemoveIfOwned(k, owner) ==
    file' = [file EXCEPT ![k] = IF @ = owner THEN None ELSE @]

Valid(r) ==
    /\ At(r, "validate") /\ r \notin cancelled
    /\ Goto(r, "lease")
    /\ UNCHANGED <<cache, limits, slots, client, process>>

\* Not valid: the file is removed, leased or not, and the request is a miss.
Remove(r) ==
    /\ RemoveIfOwned(KeyOf[r], found[r])
    /\ rejected' = rejected \cup {found[r]}
    /\ Unlock(r)
    /\ Goto(r, "acquire")
    /\ UNCHANGED <<older, partial, open, limits, slots, found, cancelled, process>>

Reject(r) ==
    /\ At(r, "validate") /\ r \notin cancelled
    /\ Remove(r)

\* The context kills ffprobe.  exec.Cmd reports that as the signal, not as the
\* context's error, so Open takes it for a verdict on the file.
OpenKilled(r) ==
    /\ At(r, "validate") /\ r \in cancelled
    /\ Remove(r)

\* ffprobe does not start under a cancelled context, or is already done.
OpenCancelled(r) ==
    /\ At(r, "validate") /\ r \in cancelled
    /\ Unlock(r)
    /\ Goto(r, "done")
    /\ UNCHANGED <<file, older, partial, open, limits, slots, client, process>>

\* The order with the file of r now the latest.
Touched(r) == {p \in older : r \notin {p[1], p[2]}} \cup ((Request \ {r}) \X {r})

\* Fault: the validated file is leased without another look at the path.
LeaseFound(r) ==
    /\ At(r, "lease")
    /\ Unlock(r)
    /\ open' = [open EXCEPT ![KeyOf[r]] = @ + 1]
    /\ Goto(r, "reading")
    /\ UNCHANGED <<file, older, partial, limits, slots, client, process>>

\* Under Store.mu: lease the file if the path still leads to it; its
\* modification time may fail to change.
Lease(r) ==
    /\ At(r, "lease")
    /\ Unlock(r)
    /\ IF file[KeyOf[r]] = found[r]
       THEN /\ open' = [open EXCEPT ![KeyOf[r]] = @ + 1]
            /\ older' \in {older, Touched(found[r])}
            /\ Goto(r, "reading")
       ELSE /\ UNCHANGED <<open, older>>
            /\ Goto(r, "acquire")
    /\ UNCHANGED <<file, partial, limits, slots, client, process>>

\* Fault: every Close counts.
CloseHitAgain(r) ==
    /\ At(r, "reading")
    /\ open' = [open EXCEPT ![KeyOf[r]] = @ - 1]
    /\ UNCHANGED <<file, older, partial, pathLock, limits, slots, client, pc, process>>

\* leasedFile.Close, which counts once.
CloseHit(r) ==
    /\ At(r, "reading")
    /\ open' = [open EXCEPT ![KeyOf[r]] = @ - 1]
    /\ Goto(r, "done")
    /\ UNCHANGED <<file, older, partial, pathLock, limits, slots, client, process>>

-----------------------------------------------------------------------------
(* PreviewLimits *)

HasSlot == taken < global

\* A request whose context is already cancelled takes a free slot all the same.
Acquire(r) ==
    /\ At(r, "acquire") \/ At(r, "wait")
    /\ HasSlot
    /\ taken' = taken + 1
    /\ Goto(r, "begin")
    /\ UNCHANGED <<cache, limits, busy, client, process>>

Wait(r) ==
    /\ At(r, "acquire") /\ ~HasSlot
    /\ Goto(r, "wait")
    /\ UNCHANGED <<cache, limits, slots, client, process>>

\* Fault: cancellation is noticed with the next free slot.
StopWaitingLate(r) ==
    /\ At(r, "wait") /\ r \in cancelled /\ HasSlot
    /\ Goto(r, "done")
    /\ UNCHANGED <<cache, limits, slots, client, process>>

StopWaiting(r) ==
    /\ At(r, "wait") /\ r \in cancelled
    /\ Goto(r, "done")
    /\ UNCHANGED <<cache, limits, slots, client, process>>

OtherAcquires(o) ==
    /\ process = "up" /\ o \notin busy /\ HasSlot
    /\ taken' = taken + 1 /\ busy' = busy \cup {o}
    /\ UNCHANGED <<cache, limits, client, pc, process>>

OtherReleases(o) ==
    /\ process = "up" /\ o \in busy
    /\ taken' = taken - 1 /\ busy' = busy \ {o}
    /\ UNCHANGED <<cache, limits, client, pc, process>>

-----------------------------------------------------------------------------
(* PreviewManager.Preview and streamPreview *)

Begin(r) ==
    /\ At(r, "begin")
    /\ partial' = partial \cup {r}
    /\ Goto(r, "start")
    /\ UNCHANGED <<file, older, open, pathLock, limits, slots, client, process>>

BeginFails(r) ==
    /\ At(r, "begin")
    /\ taken' = taken - 1
    /\ Goto(r, "done")
    /\ UNCHANGED <<cache, limits, busy, client, process>>

StartProcess(r) ==
    /\ At(r, "start") /\ r \notin cancelled
    /\ Goto(r, "stream")
    /\ UNCHANGED <<cache, limits, slots, client, process>>

\* Fault: the slot is not given back when FFmpeg does not start.
StartLeaks(r) ==
    /\ At(r, "start")
    /\ partial' = partial \ {r}
    /\ Goto(r, "done")
    /\ UNCHANGED <<file, older, open, pathLock, limits, slots, client, process>>

StartFails(r) ==
    /\ At(r, "start")
    /\ partial' = partial \ {r}
    /\ taken' = taken - 1
    /\ Goto(r, "done")
    /\ UNCHANGED <<file, older, open, pathLock, limits, busy, client, process>>

\* FFmpeg ends well; the last write gave the file its modification time.
StreamEnds(r) ==
    /\ At(r, "stream")
    /\ older' = Touched(r)
    /\ Goto(r, IF r \in cancelled THEN "discard" ELSE "commit")
    /\ UNCHANGED <<file, partial, open, pathLock, limits, slots, client, process>>

\* FFmpeg fails or is killed, or a write does not get through.
StreamFails(r) ==
    /\ At(r, "stream")
    /\ Goto(r, "discard")
    /\ UNCHANGED <<cache, limits, slots, client, process>>

\* Partial.Discard, and every way in which Commit ends without an entry.
Drop(r) ==
    /\ partial' = partial \ {r}
    /\ Goto(r, "release")

Discard(r) ==
    /\ At(r, "discard")
    /\ Drop(r)
    /\ UNCHANGED <<file, older, open, pathLock, limits, slots, client, process>>

CommitValidates(r) ==
    /\ At(r, "commit") /\ r \notin cancelled
    /\ Goto(r, "publish")
    /\ UNCHANGED <<cache, limits, slots, client, process>>

CommitRejects(r) ==
    /\ At(r, "commit")
    /\ Drop(r)
    /\ UNCHANGED <<file, older, open, pathLock, limits, slots, client, process>>

\* Fault: cancellation is only checked before the locks are taken.
MayPublishLate(r) == file[KeyOf[r]] = None

\* Publication, with the key's mutex and Store.mu: nothing is published for a
\* cancelled request or over another file ...
MayPublish(r) == r \notin cancelled /\ file[KeyOf[r]] = None

\* ... nor if the disk refuses the rename or the walk over the entries, or the
\* file alone is over the limit: then it is removed again.
NotPublished(r) ==
    /\ At(r, "publish") /\ pathLock[KeyOf[r]] = None
    /\ Drop(r)
    /\ UNCHANGED <<file, older, open, pathLock, limits, slots, client, process>>

\* Byte b of the entry of a key is the key with b.
Weight(f) == Cardinality(UNION {{k} \X (1..Size[k]) : k \in {k \in Key : f[k] # None}})

\* Fault: leases are not looked at.
EvictableAll(f) == {x \in Request : f[KeyOf[x]] = x}

Evictable(f) == {x \in Request : f[KeyOf[x]] = x /\ open[KeyOf[x]] = 0}

Evict(f, V)  == [k \in Key |-> IF f[k] \in V THEN None ELSE f[k]]
Enough(f, V) == Weight(Evict(f, V)) <= max

\* evictLocked takes the oldest first and stops as soon as the rest fits, or
\* when a file cannot be removed, or when everything left is leased.
Evictions(f) ==
    {V \in SUBSET Evictable(f) :
       \A x \in V : /\ \A y \in Evictable(f) \ V : <<x, y>> \in older
                    /\ ~Enough(f, {y \in V : <<y, x>> \in older})}

Renamed(r) == [file EXCEPT ![KeyOf[r]] = r]

\* Fault: a failed eviction leaves the new entry.
PublishAnyway(r) ==
    /\ At(r, "publish") /\ pathLock[KeyOf[r]] = None
    /\ MayPublish(r) /\ Size[KeyOf[r]] <= max
    /\ \E V \in Evictions(Renamed(r)) : file' = Evict(Renamed(r), V)
    /\ Drop(r)
    /\ UNCHANGED <<older, open, pathLock, limits, slots, client, process>>

\* The new entry may itself be the least recent.
Publish(r) ==
    /\ At(r, "publish") /\ pathLock[KeyOf[r]] = None
    /\ MayPublish(r) /\ Size[KeyOf[r]] <= max
    /\ \E V \in Evictions(Renamed(r)) :
          file' = IF Enough(Renamed(r), V)
                  THEN Evict(Renamed(r), V)
                  ELSE [Evict(Renamed(r), V) EXCEPT ![KeyOf[r]] = None]
    /\ Drop(r)
    /\ UNCHANGED <<older, open, pathLock, limits, slots, client, process>>

Release(r) ==
    /\ At(r, "release")
    /\ taken' = taken - 1
    /\ Goto(r, "done")
    /\ UNCHANGED <<cache, limits, busy, client, process>>

-----------------------------------------------------------------------------
(* Clients, settings, crash and restart *)

Cancel(r) ==
    /\ process = "up" /\ pc[r] \notin {"idle", "done"} /\ r \notin cancelled
    /\ cancelled' = cancelled \cup {r}
    /\ UNCHANGED <<cache, limits, slots, found, rejected, pc, process>>

SetMaxBytes ==
    /\ process = "up"
    /\ max' \in ByteLimit
    /\ UNCHANGED <<cache, global, slots, client, pc, process>>

SetLimits ==
    /\ process = "up"
    /\ global' \in SlotLimit
    /\ UNCHANGED <<cache, max, slots, client, pc, process>>

\* What was only in memory is gone, and with it every request.
Die ==
    /\ process = "up" /\ process' = "down"
    /\ open' = [k \in Key |-> 0] /\ pathLock' = [k \in Key |-> None]
    /\ taken' = 0 /\ busy' = {}
    /\ pc' = [r \in Request |-> IF pc[r] = "idle" THEN "idle" ELSE "done"]
    /\ UNCHANGED <<older, limits, client>>

Crash == Die /\ UNCHANGED <<file, partial>>

\* The process dies after the rename and before the eviction is through.
CrashInPublish(r) ==
    /\ At(r, "publish") /\ pathLock[KeyOf[r]] = None
    /\ MayPublish(r)
    /\ \E V \in Evictions(Renamed(r)) : file' = Evict(Renamed(r), V)
    /\ partial' = partial \ {r}
    /\ Die

\* The next start removes partial files and takes the saved limits.
Boot ==
    /\ process = "down" /\ process' = "up"
    /\ partial' = {}
    /\ max' \in ByteLimit /\ global' \in SlotLimit
    /\ UNCHANGED <<file, older, open, pathLock, slots, client, pc>>

-----------------------------------------------------------------------------
OpenStep(r) ==
    \/ Arrive(r) \/ LookUp(r) \/ Valid(r) \/ Reject(r) \/ OpenKilled(r) \/ OpenCancelled(r)
    \/ Lease(r) \/ CloseHit(r)

RenderStep(r) ==
    \/ Acquire(r) \/ Wait(r) \/ StopWaiting(r) \/ Begin(r) \/ BeginFails(r)
    \/ StartProcess(r) \/ StartFails(r) \/ StreamEnds(r) \/ StreamFails(r) \/ Discard(r)
    \/ CommitValidates(r) \/ CommitRejects(r) \/ NotPublished(r) \/ Publish(r) \/ Release(r)

Next ==
    \/ \E r \in Request : OpenStep(r) \/ RenderStep(r) \/ Cancel(r) \/ CrashInPublish(r)
    \/ \E o \in Other : OtherAcquires(o) \/ OtherReleases(o)
    \/ SetMaxBytes \/ SetLimits \/ Crash \/ Boot

Spec == Init /\ [][Next]_vars

\* Goroutines are scheduled and ffprobe ends.  FFmpeg ends and a reader is closed
\* once the request is cancelled, and nobody else has to give a slot back.
FairSpec ==
    Spec /\ \A r \in Request :
       WF_vars(/\ pc[r] # "idle" /\ (pc[r] \in {"reading", "stream"} => r \in cancelled)
               /\ OpenStep(r) \/ RenderStep(r))

-----------------------------------------------------------------------------
(* Properties *)

Rendering == {"begin", "start", "stream", "discard", "commit", "publish", "release"}
Writing   == {"start", "stream", "discard", "commit", "publish"}
Place     == Rendering \cup
               {"idle", "open", "validate", "lease", "reading", "acquire", "wait", "done"}
In(P)      == {r \in Request : pc[r] \in P}
Readers(k) == {r \in Request : pc[r] = "reading" /\ KeyOf[r] = k}

TypeOK ==
    /\ file \in [Key -> Request \cup {None}]
    /\ older \subseteq Request \X Request
    /\ partial \subseteq Request
    /\ open \in [Key -> Nat] /\ pathLock \in [Key -> Request \cup {None}]
    /\ max \in ByteLimit /\ global \in SlotLimit
    /\ taken \in Nat /\ busy \subseteq Other
    /\ pc \in [Request -> Place]
    /\ found \in [Request -> Request \cup {None}]
    /\ cancelled \subseteq Request /\ rejected \subseteq Request \cup {None}
    /\ process \in {"up", "down"}

\* Whatever a request runs into, what it took is given back: the slots taken are
\* those of rendering requests and of others at work, the leases of a key are
\* its readers, and the partial files of a live process are those being written.
NothingLeaks ==
    /\ taken = Cardinality(In(Rendering)) + Cardinality(busy)
    /\ \A k \in Key : open[k] = Cardinality(Readers(k))
    /\ process = "up" => partial = In(Writing)

\* "An eviction will not remove a leased file": while a request reads an entry,
\* the entry stays, unless another Open has taken that very file for invalid.
ReadersKeepTheirEntry ==
    \A r \in Request :
       pc[r] = "reading" => found[r] \in rejected \cup {file[KeyOf[r]]}

\* The cache grows only up to its limit as it is at that moment, unless the
\* process dies before it has evicted enough.
GrowthWithinLimit ==
    [][Weight(file') > Weight(file) => Weight(file') <= max \/ process' = "down"]_vars

\* "Never publish after the request has been cancelled", and never over another
\* writer's entry.
PublishesOnlyWanted ==
    [][\A k \in Key : file'[k] # file[k] /\ file'[k] # None
          => file'[k] \notin cancelled /\ file[k] = None]_vars

\* A cancelled request ends, whatever it is waiting for.
CancelledRequestsEnd ==
    \A r \in Request : (r \in cancelled) ~> (pc[r] = "done")

-----------------------------------------------------------------------------
(* What a test says and the code does not do *)

\* TestOpenCancellationPreservesEntry: an Open that ends by cancellation leaves
\* the entry alone.
CancelledOpenKeepsEntry ==
    [][\A r \in cancelled :
          pc[r] = "validate" /\ pc'[r] # "validate" /\ process' = "up" => file' = file]_vars
=============================================================================
