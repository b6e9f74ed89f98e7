------------------------------ MODULE Settings -------------------------------
(***************************************************************************)
(* The runtime settings (RuntimeService, RuntimeSettingsApplier): a        *)
(* document in the database, the snapshot published to new work, and the   *)
(* limits of five components, the scanner of module Library among them.    *)
(*                                                                         *)
(*  - An update is applied to one component after the other, then saved,   *)
(*    then published; if a component refuses or the document cannot be     *)
(*    saved, it is taken back from all.                                    *)
(*  - The scanner takes its limits when no refresh and no opening of a     *)
(*    source holds its lock.                                               *)
(*  - The process may end between any two of these steps.                  *)
(*                                                                         *)
(* A statement that reports an error has had no effect.  What is in a      *)
(* document is left out.                                                   *)
(***************************************************************************)
EXTENDS Library

CONSTANTS
  Setting,     \* valid settings documents
  Update,      \* requests to change them
  MaxRevision  \* bound on the changes of the document

ASSUME SettingsAssumption ==
  /\ None \notin Setting \cup Update /\ MaxRevision \in Nat \ {0}
  /\ MaxFiles \in [Setting -> Nat \ {0}]

VARIABLES
  stored,     \* the row: its document and revision
  published,  \* the snapshot (RuntimeSettingsState)
  live,       \* the document each of the other components has its limits from
  stopped,    \* the scheduler takes no limits any more
  requests,   \* updates under way
  wanted,     \* the document and revision an update asks for
  abandoned,  \* updates whose client is gone
  updating,   \* the update that holds the mutex of the service
  stage,      \* where it is
  step,       \* the component it is at
  target,     \* the document it applies
  rolling     \* whether this is what it applies after saving has failed

settings == <<stored, published, live, stopped>>
asked    == <<requests, wanted, abandoned>>
applying == <<updating, stage, step, target, rolling>>
vars     == <<library, settings, asked, applying>>

\* The components in the order in which they are given limits.
Component == 1..5
Scanner   == 1
Scheduler == 5
Others    == Component \ {Scanner}
Has(i)    == IF i = Scanner THEN limits ELSE live[i]

Unlock ==
    updating' = None /\ stage' = "none" /\ step' = 0 /\ target' = None /\ rolling' = FALSE

Init ==
    /\ LibraryInit
    /\ limits \in Setting
    /\ stored = [value |-> limits, revision |-> 1] /\ published = limits
    /\ live = [i \in Others |-> limits] /\ stopped = FALSE
    /\ requests = {} /\ wanted = [u \in Update |-> None] /\ abandoned = {}
    /\ updating = None /\ stage = "none" /\ step = 0 /\ target = None /\ rolling = FALSE

-----------------------------------------------------------------------------
(* RuntimeService.Update *)

\* A client that has read the settings asks for others.
Ask(u, s) ==
    /\ ~stopped /\ u \notin requests
    /\ requests' = requests \cup {u}
    /\ wanted' = [wanted EXCEPT ![u] = [value |-> s, revision |-> stored.revision]]
    /\ UNCHANGED <<library, settings, abandoned, applying>>

Abandon(u) ==
    /\ u \in requests \ abandoned
    /\ abandoned' = abandoned \cup {u}
    /\ UNCHANGED <<library, settings, requests, wanted, applying>>

\* Update returns.
Leave(u) ==
    /\ Unlock
    /\ requests' = requests \ {u} /\ abandoned' = abandoned \ {u}
    /\ wanted' = [wanted EXCEPT ![u] = None]

\* With the mutex, the row is read: the update must be of this revision, and valid.
Begin(u) ==
    /\ updating = None /\ u \in requests
    /\ wanted[u].revision = stored.revision /\ u \notin abandoned
    /\ updating' = u /\ stage' = "apply" /\ step' = 1 /\ target' = wanted[u].value
    /\ UNCHANGED <<library, settings, asked, rolling>>

\* A conflict, an invalid document, or the row cannot be read.
Reject(u) ==
    /\ updating = None /\ u \in requests
    /\ Leave(u)
    /\ UNCHANGED <<library, settings>>
\* What the step in hand gives its component: the settings wanted (or, if they could not be
\* saved, the stored ones) or those last published.
Value == IF stage = "undo" THEN published ELSE target

Advance(u) ==
    \/ /\ stage = "apply" /\ step # Scheduler
       /\ step' = step + 1 /\ UNCHANGED <<updating, stage, target, rolling, asked>>
    \/ /\ stage = "apply" /\ step = Scheduler /\ ~rolling
       /\ stage' = "save" /\ step' = 0 /\ UNCHANGED <<updating, target, rolling, asked>>
    \/ /\ stage = "undo" /\ step # Scanner
       /\ step' = step - 1 /\ UNCHANGED <<updating, stage, target, rolling, asked>>
    \/ /\ <<stage, step>> = <<"undo", Scanner>> \/ (<<stage, step>> = <<"apply", Scheduler>> /\ rolling)
       /\ Leave(u)

\* ReconfigureLimits waits for the readers of the configuration lock ...
AwaitScanner(u) ==
    /\ updating = u /\ stage \in {"apply", "undo"} /\ step = Scanner /\ ~writer
    /\ writer' = TRUE
    /\ UNCHANGED <<configured, disk, catalog, pc, cancelled, walking, showing, opening, limits>>
    /\ UNCHANGED <<settings, asked, applying>>

\* ... and sets the limits.
SetScanner(u) ==
    /\ updating = u /\ writer /\ Readers = {}
    /\ limits' = Value
    /\ LetReadersIn
    /\ Advance(u)
    /\ UNCHANGED <<configured, disk, catalog, cancelled, walking, showing, opening>>
    /\ UNCHANGED settings

\* The process limit, the two caches and the scheduler.
SetOther(u) ==
    /\ updating = u /\ step \in Others
    /\ step = Scheduler => ~stopped
    /\ live' = [live EXCEPT ![step] = Value]
    /\ Advance(u)
    /\ UNCHANGED <<library, stored, published, stopped>>

\* A scheduler that has stopped takes no limits: the others are given back what they had.
SchedulerRefuses(u) ==
    /\ updating = u /\ step = Scheduler /\ stopped
    /\ IF stage = "undo" THEN Advance(u)
       ELSE stage' = "undo" /\ UNCHANGED <<updating, step, target, rolling, asked>>
    /\ UNCHANGED <<library, settings>>

\* The document replaces the stored one of the same revision ...
Save(u) ==
    /\ updating = u /\ stage = "save" /\ u \notin abandoned
    /\ stored.revision < MaxRevision
    /\ stored' = [value |-> target, revision |-> stored.revision + 1]
    /\ stage' = "publish"
    /\ UNCHANGED <<library, published, live, stopped, asked, updating, step, target, rolling>>

\* Fault: what cannot be saved is taken back with the context of the request.
SaveFailsAbandoned(u) ==
    /\ updating = u /\ stage = "save"
    /\ IF u \in abandoned THEN Leave(u)
       ELSE /\ stage' = "apply" /\ step' = Scanner /\ rolling' = TRUE /\ target' = stored.value
            /\ UNCHANGED <<updating, asked>>
    /\ UNCHANGED <<library, settings>>

\* ... or cannot be saved: the stored settings are applied, whether or not the client is gone.
SaveFails(u) ==
    /\ updating = u /\ stage = "save"
    /\ stage' = "apply" /\ step' = Scanner /\ rolling' = TRUE /\ target' = stored.value
    /\ UNCHANGED <<library, settings, asked, updating>>

Publish(u) ==
    /\ updating = u /\ stage = "publish"
    /\ published' = target
    /\ Leave(u)
    /\ UNCHANGED <<library, stored, live, stopped>>

UpdateStep(u) ==
    \/ AwaitScanner(u) \/ SetScanner(u) \/ SetOther(u) \/ SchedulerRefuses(u)
    \/ Save(u) \/ SaveFails(u) \/ Publish(u)

-----------------------------------------------------------------------------
(* Shutdown and restarts *)

\* The scheduler stops, and cancels the refreshes it runs.
StopScheduler ==
    /\ ~stopped /\ stopped' = TRUE
    /\ cancelled' = cancelled \cup {c \in Refresh : Busy(c)}
    /\ UNCHANGED <<configured, disk, catalog, pc, walking, showing, opening, config>>
    /\ UNCHANGED <<stored, published, live, asked, applying>>

\* The process ends, at any point, and starts again: the row takes over the roots then
\* configured (Seed), and everything starts with the settings of the row.
Restart(roots) ==
    /\ roots # configured => stored.revision < MaxRevision
    /\ RestartLibrary(roots)
    /\ stored' = [stored EXCEPT !.revision = IF roots = configured THEN @ ELSE @ + 1]
    /\ published' = stored.value /\ limits' = stored.value
    /\ live' = [i \in Others |-> stored.value]
    /\ stopped' = FALSE
    /\ requests' = {} /\ wanted' = [u \in Update |-> None] /\ abandoned' = {}
    /\ Unlock

-----------------------------------------------------------------------------
Next ==
    \/ LibraryStep /\ UNCHANGED <<settings, asked, applying>>
    \/ \E u \in Update, s \in Setting : Ask(u, s)
    \/ \E u \in Update : Abandon(u) \/ Begin(u) \/ Reject(u) \/ UpdateStep(u)
    \/ StopScheduler
    \/ \E roots \in SUBSET Root : Restart(roots)

Spec == Init /\ [][Next]_vars

-----------------------------------------------------------------------------
(* Properties *)

\* Whenever no update is under way, every component has the limits of the settings published
\* to new work, and these are the stored ones, so that a restart changes nothing: whatever was
\* refused, failed or abandoned.  (A stopped scheduler keeps what it had.)
LiveIsStored ==
    updating = None =>
        /\ stored.value = published
        /\ \A i \in Component : Has(i) = published \/ (i = Scheduler /\ stopped)

\* A source is served as it was indexed, and as its name has it at that moment: whatever
\* replaced the file or the record since the record was read.
ServedAsIndexed ==
    [][\A o \in Open : At(o, "check") /\ answer'[o] # None =>
          answer'[o] = record[o] /\ answer'[o] = disk[source[o]]]_vars

\* Once no refresh is under way, the library status is the one the refresh that began last
\* has come to, and not that of a scan: an overtaken or cancelled refresh leaves no trace.
StatusOfNewest ==
    newest # None /\ ~(\E c \in Refresh : Busy(c)) =>
        status = verdict[newest] /\ status \notin {"scanning", "none"}

\* Nobody waits for each other in a circle: whoever is under way can take a step, or waits for
\* the configuration lock or the mutex of an update that, in turn, only waits for readers
\* that can.  (Each of them takes a bounded number of steps.)
NobodyIsStuck ==
    /\ \A c \in Refresh : Busy(c) => ENABLED RefreshStep(c) \/ (c \in Blocked /\ writer)
    /\ \A o \in Open : Busy(o) => ENABLED OpenStep(o) \/ (o \in Blocked /\ writer)
    /\ writer => updating # None
    /\ IF updating = None THEN \A u \in requests : ENABLED Begin(u) \/ ENABLED Reject(u)
       ELSE ENABLED UpdateStep(updating) \/ (writer /\ Readers # {})
=============================================================================
