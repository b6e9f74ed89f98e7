------------------------------- MODULE Library -------------------------------
(***************************************************************************)
(* The media library: the scanner (index.Scanner), its catalogue in the    *)
(* database (store.MediaStore) and the library status (MediaUseCase).      *)
(*                                                                         *)
(*  - Refreshes run as jobs, several at a time, and may be cancelled.      *)
(*  - Opening a source reads its record, opens the file, and looks again.  *)
(*  - Files come, change and go at any time.                               *)
(*  - Both hold the scanner's configuration lock for reading from start to *)
(*    end; module Settings takes it for writing.  As in Go, a writer that  *)
(*    waits holds new readers back, and lets those in before the next one. *)
(*                                                                         *)
(* A transaction either happens or not.  What ffprobe reports, folders and *)
(* the status of each single root are left out.                            *)
(***************************************************************************)
EXTENDS Integers, FiniteSets

CONSTANTS
  Root,      \* media roots the deployment may configure
  File,      \* names of media files
  RootOf,    \* the root each is in
  Version,   \* of a file: what its size and modification time tell apart
  Refresh,   \* refreshes
  Open,      \* openings of a source, by previews, exports and detections
  MaxFiles,  \* the setting with this name, for each settings document
  None       \* nothing

ASSUME LibraryAssumption ==
  /\ None \notin Version /\ Refresh \cap Open = {}
  /\ RootOf \in [File -> Root]

VARIABLES
  configured,  \* roots, as the deployment configures them
  disk,        \* what each name holds on disk
  catalog,     \* what the available row of each name says
  pc,          \* where a call is
  cancelled,   \* calls whose context is cancelled
  todo,        \* roots a refresh has yet to scan
  walk,        \* the root it walks
  unread,      \* files its walk of a root has yet to come to
  found,       \* files its walk has found
  failed,      \* refreshes one of whose roots has failed
  previous,    \* the status a refresh has replaced
  verdict,     \* the status it has come to
  newest,      \* the refresh that last began
  status,      \* of the library
  source,      \* the file to be opened
  record,      \* its record, as read
  fd,          \* the descriptor, as opened
  answer,      \* the descriptor the caller has
  writer,      \* whether a writer waits for the configuration lock
  limits       \* the settings document whose limits the scanner has

walking  == <<todo, walk, unread, found, failed>>
showing  == <<previous, verdict, newest, status>>
opening  == <<source, record, fd, answer>>
config   == <<writer, limits>>
library  == <<configured, disk, catalog, pc, cancelled, walking, showing, opening, config>>

Call     == Refresh \cup Open
NoFile   == [f \in File |-> None]
In(r)    == {f \in File : RootOf[f] = r}

LibraryInit ==
    /\ configured \in SUBSET Root
    /\ disk \in [File -> Version \cup {None}] /\ catalog = NoFile
    /\ pc = [c \in Call |-> "idle"] /\ cancelled = {} /\ writer = FALSE
    /\ todo = [c \in Refresh |-> {}] /\ unread = todo
    /\ walk = [c \in Refresh |-> None] /\ found = [c \in Refresh |-> NoFile]
    /\ failed = {} /\ previous = [c \in Refresh |-> "none"] /\ verdict = previous
    /\ newest = None /\ status = "none"
    /\ source = [o \in Open |-> None] /\ record = source /\ fd = source /\ answer = source

-----------------------------------------------------------------------------
(* The configuration lock *)

At(c, at)   == pc[c] = at
Goto(c, at) == pc' = [pc EXCEPT ![c] = at]
Busy(c)     == ~At(c, "idle")

\* Stages in which a call holds the lock for reading.
Reading   == {"roots", "walk", "get", "open", "check"}
Readers   == {c \in Call : pc[c] \in Reading}
Blocked   == {c \in Call : At(c, "blocked")}
First(c)  == IF c \in Refresh THEN "roots" ELSE "get"

\* RLock ...
Lock(c) ==
    /\ At(c, "lock")
    /\ Goto(c, IF writer THEN "blocked" ELSE First(c))
    /\ UNCHANGED <<configured, disk, catalog, cancelled, walking, showing, opening, config>>

\* ... and Unlock of a writer: the readers it has held back go first.
LetReadersIn ==
    /\ writer' = FALSE
    /\ pc' = [c \in Call |-> IF c \in Blocked THEN First(c) ELSE pc[c]]

-----------------------------------------------------------------------------
(* MediaUseCase.RefreshMedia, Scanner.Refresh and MediaStore.Sync *)

BeginRefresh(c) ==
    /\ At(c, "idle") /\ configured # {}
    /\ Goto(c, "lock")
    /\ todo' = [todo EXCEPT ![c] = configured]
    /\ previous' = [previous EXCEPT ![c] = status]
    /\ newest' = c /\ status' = "scanning"
    /\ verdict' = [verdict EXCEPT ![c] = "none"]
    /\ UNCHANGED <<configured, disk, catalog, cancelled, walk, unread, found, failed, opening, config>>

\* Fault: the walk takes the lock once more, as Scan does.
RelockRoot(c, r) ==
    /\ At(c, "roots") /\ r \in todo[c] /\ ~writer
    /\ Goto(c, "walk")
    /\ todo' = [todo EXCEPT ![c] = @ \ {r}]
    /\ walk' = [walk EXCEPT ![c] = r] /\ unread' = [unread EXCEPT ![c] = In(r)]
    /\ UNCHANGED <<configured, disk, catalog, cancelled, found, failed, showing, opening, config>>

WalkRoot(c, r) ==
    /\ At(c, "roots") /\ r \in todo[c]
    /\ Goto(c, "walk")
    /\ todo' = [todo EXCEPT ![c] = @ \ {r}]
    /\ walk' = [walk EXCEPT ![c] = r] /\ unread' = [unread EXCEPT ![c] = In(r)]
    /\ UNCHANGED <<configured, disk, catalog, cancelled, found, failed, showing, opening, config>>

Found(c) == {f \in File : found[c][f] # None}

\* The walk comes to a name: it looks whether there is a file, and probes it.
ReadFile(c, f) ==
    /\ At(c, "walk") /\ f \in unread[c] /\ c \notin cancelled
    /\ disk[f] # None => Cardinality(Found(c)) < MaxFiles[limits]
    /\ unread' = [unread EXCEPT ![c] = @ \ {f}]
    /\ found' = [found EXCEPT ![c][f] = disk[f]]
    /\ UNCHANGED <<configured, disk, catalog, pc, cancelled, todo, walk, failed, showing, opening, config>>

\* What one walk has found replaces the rows of its root.
Sync(c) ==
    /\ At(c, "walk") /\ unread[c] = {} /\ c \notin cancelled
    /\ Goto(c, "roots")
    /\ catalog' = [f \in File |-> IF RootOf[f] = walk[c] THEN found[c][f] ELSE catalog[f]]
    /\ found' = [found EXCEPT ![c] = NoFile] /\ walk' = [walk EXCEPT ![c] = None]
    /\ UNCHANGED <<configured, disk, cancelled, todo, unread, failed, showing, opening, config>>

\* The walk, a probe or the transaction fails, the root has too many files, or
\* the refresh is cancelled: then it does not go on to the next root.
FailRoot(c) ==
    /\ At(c, "walk")
    /\ Goto(c, "roots")
    /\ failed' = failed \cup {c}
    /\ todo' = [todo EXCEPT ![c] = IF c \in cancelled THEN {} ELSE @]
    /\ walk' = [walk EXCEPT ![c] = None] /\ unread' = [unread EXCEPT ![c] = {}]
    /\ found' = [found EXCEPT ![c] = NoFile]
    /\ UNCHANGED <<configured, disk, catalog, cancelled, showing, opening, config>>

\* Whether the catalogue has any media.
Shown == IF catalog = NoFile THEN "empty" ELSE "media"

Resolve(c, state) ==
    /\ Goto(c, "show")
    /\ verdict' = [verdict EXCEPT ![c] = state]

\* Refresh returns and unlocks ...
EndRefresh(c) ==
    /\ At(c, "roots") /\ todo[c] = {}
    /\ IF c \notin failed THEN Goto(c, "list") /\ UNCHANGED verdict
       ELSE IF c \in cancelled THEN Goto(c, "restore") /\ UNCHANGED verdict
       ELSE Resolve(c, "failed")
    /\ UNCHANGED <<configured, disk, catalog, cancelled, walking, previous, newest, status, opening, config>>

\* ... the catalogue is asked whether there are media ...
List(c) ==
    /\ At(c, "list") /\ c \notin cancelled
    /\ \E state \in {Shown, "failed"} : Resolve(c, state)
    /\ UNCHANGED <<configured, disk, catalog, cancelled, walking, previous, newest, status, opening, config>>

ListCancelled(c) ==
    /\ At(c, "list") /\ c \in cancelled
    /\ Goto(c, "restore")
    /\ UNCHANGED <<configured, disk, catalog, cancelled, walking, showing, opening, config>>

\* Fault: a cancelled refresh puts back whatever it has replaced.
RestorePrevious(c) ==
    /\ At(c, "restore")
    /\ Resolve(c, previous[c])
    /\ UNCHANGED <<configured, disk, catalog, cancelled, walking, previous, newest, status, opening, config>>

\* ... a cancelled one restores what was known before, or else asks the catalogue,
\* with a context of its own that may time out ...
Restore(c) ==
    /\ At(c, "restore")
    /\ IF previous[c] \in {"empty", "media"} THEN Resolve(c, previous[c])
       ELSE \E state \in {Shown, IF previous[c] = "failed" THEN "failed" ELSE "empty"} : Resolve(c, state)
    /\ UNCHANGED <<configured, disk, catalog, cancelled, walking, previous, newest, status, opening, config>>

\* ... and the result is shown, unless another refresh has begun since.
Show(c) ==
    /\ At(c, "show")
    /\ Goto(c, "idle")
    /\ status' = IF newest = c THEN verdict[c] ELSE status
    /\ failed' = failed \ {c} /\ cancelled' = cancelled \ {c}
    /\ previous' = [previous EXCEPT ![c] = "none"]
    /\ verdict' = [verdict EXCEPT ![c] = IF newest = c THEN @ ELSE "none"]
    /\ UNCHANGED <<configured, disk, catalog, todo, walk, unread, found, newest, opening, config>>

RefreshStep(c) ==
    \/ Lock(c) \/ EndRefresh(c) \/ List(c) \/ ListCancelled(c) \/ Restore(c) \/ Show(c)
    \/ Sync(c) \/ FailRoot(c)
    \/ \E r \in Root : WalkRoot(c, r)
    \/ \E f \in File : ReadFile(c, f)

-----------------------------------------------------------------------------
(* Scanner.OpenResolved *)

BeginOpen(o, f) ==
    /\ At(o, "idle")
    /\ Goto(o, "lock")
    /\ source' = [source EXCEPT ![o] = f]
    /\ UNCHANGED <<configured, disk, catalog, cancelled, walking, showing, record, fd, answer, config>>

Return(o, file) ==
    /\ Goto(o, IF file = None THEN "idle" ELSE "served")
    /\ answer' = [answer EXCEPT ![o] = file]
    /\ source' = [source EXCEPT ![o] = None] /\ record' = [record EXCEPT ![o] = None]
    /\ fd' = [fd EXCEPT ![o] = None]
    /\ UNCHANGED <<configured, disk, catalog, cancelled, walking, showing, config>>

\* The record is read, and its root looked up ...
Get(o) ==
    /\ At(o, "get") /\ catalog[source[o]] # None /\ RootOf[source[o]] \in configured
    /\ Goto(o, "open")
    /\ record' = [record EXCEPT ![o] = catalog[source[o]]]
    /\ UNCHANGED <<configured, disk, catalog, cancelled, walking, showing, source, fd, answer, config>>

\* ... the file opened and looked at ...
OpenFile(o) ==
    /\ At(o, "open") /\ disk[source[o]] # None
    /\ Goto(o, "check")
    /\ fd' = [fd EXCEPT ![o] = disk[source[o]]]
    /\ UNCHANGED <<configured, disk, catalog, cancelled, walking, showing, source, record, answer, config>>

\* Fault: the name is not looked at again.
TrustDescriptor(o) == At(o, "check") /\ fd[o] = record[o] /\ Return(o, fd[o])

\* ... and served if the name still has it and it is the one that was indexed.
Serve(o) == At(o, "check") /\ fd[o] = disk[source[o]] /\ fd[o] = record[o] /\ Return(o, fd[o])

\* Not found, changed, or an error; and the caller closes what it was given.
Refuse(o) == pc[o] \in {"get", "open", "check"} /\ Return(o, None)

Close(o) == At(o, "served") /\ Return(o, None)

OpenStep(o) == Lock(o) \/ Get(o) \/ OpenFile(o) \/ Serve(o) \/ Refuse(o) \/ Close(o)

-----------------------------------------------------------------------------
(* Cancellation, the file system, and restarts *)

\* A scan job is cancelled while it runs.
Cancel(c) ==
    /\ Busy(c) /\ c \notin cancelled
    /\ cancelled' = cancelled \cup {c}
    /\ UNCHANGED <<configured, disk, catalog, pc, walking, showing, opening, config>>

Meddle(f) ==
    /\ disk' \in {[disk EXCEPT ![f] = v] : v \in Version \cup {None}}
    /\ UNCHANGED <<configured, catalog, pc, cancelled, walking, showing, opening, config>>

\* ReconcileRoots hides the rows of roots that are not configured any more.
ReconcileRoots(roots) ==
    catalog' = [f \in File |-> IF RootOf[f] \in roots THEN catalog[f] ELSE None]

\* The process ends, at any point, and starts with the roots then configured.
RestartLibrary(roots) ==
    /\ configured' = roots /\ ReconcileRoots(roots)
    /\ pc' = [c \in Call |-> "idle"] /\ cancelled' = {} /\ writer' = FALSE
    /\ todo' = [c \in Refresh |-> {}] /\ unread' = todo'
    /\ walk' = [c \in Refresh |-> None] /\ found' = [c \in Refresh |-> NoFile]
    /\ failed' = {} /\ previous' = [c \in Refresh |-> "none"] /\ verdict' = previous'
    /\ newest' = None /\ status' = "none"
    /\ source' = [o \in Open |-> None] /\ record' = source' /\ fd' = source' /\ answer' = source'
    /\ UNCHANGED disk

LibraryStep ==
    \/ \E c \in Refresh : BeginRefresh(c) \/ RefreshStep(c) \/ Cancel(c)
    \/ \E o \in Open, f \in File : BeginOpen(o, f)
    \/ \E o \in Open : OpenStep(o)
    \/ \E f \in File : Meddle(f)
=============================================================================
