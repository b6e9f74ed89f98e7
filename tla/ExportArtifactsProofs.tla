----------------------- MODULE ExportArtifactsProofs -----------------------
(***************************************************************************)
(* Theorems about ExportArtifacts for every set of jobs and parts, and     *)
(* every bound on names and downloads.                                     *)
(***************************************************************************)
EXTENDS ExportArtifacts, WellFoundedInduction, TLAPS

State == {"queued", "running", "succeeded", "failed", "cancelled"}
Place == {"idle", "next", "publish", "check", "save", "retry", "done",
          "disown", "takeback", "error"}

\* Before Commit and after it, and the roll-back between failing and its report.
Exporting == {"next", "publish", "check"}
Saving    == {"save", "retry"}
Undoing   == {"takeback", "disown", "error"}

NamesOf(j) == {n \in Name : n[1] = j}

Typed ==
    /\ disk \in [Name -> {"none", "ours", "foreign"}]
    /\ manifest \in [Job -> SUBSET Name]
    /\ row \in [Job -> State]
    /\ result \in [Job -> SUBSET Name]
    /\ expired \subseteq Job
    /\ process \in {"down", "boot", "up"}
    /\ visited \subseteq Job
    /\ entry \in [Job -> SUBSET Name]
    /\ registered \subseteq Job
    /\ active \in [Job -> Nat]
    /\ asking \subseteq Job
    /\ pc \in [Job -> Place]
    /\ try \in [Job -> [Part -> 0..Attempts]]
    /\ todo \in [Job -> SUBSET Part]
    /\ published \in [Job -> SUBSET Name]
    /\ meddled \subseteq Name /\ leaked \subseteq Name /\ skipped \subseteq Job

\* What a job lists, holds, serves or reports are names of its own, and what it
\* has still to publish is planned and has a name; there is something to publish
\* when it is about to.
Named == \A j \in Job :
    /\ manifest[j] \subseteq NamesOf(j) /\ entry[j] \subseteq NamesOf(j)
    /\ result[j] \subseteq NamesOf(j) /\ published[j] \subseteq NamesOf(j)
    /\ todo[j] \subseteq {p \in Parts(j) : try[j][p] # 0}
    /\ pc[j] \in {"publish", "check"} => todo[j] # {}

\* Where a run is, what its row says and who may be downloading.
Phases == \A j \in Job :
    /\ process # "up" => pc[j] = "idle" /\ active[j] = 0 /\ j \notin asking
    /\ pc[j] \in Exporting \cup Undoing => entry[j] = {}
    /\ pc[j] \in Exporting \cup Undoing \cup Saving => row[j] \in {"running", "cancelled"}
    /\ row[j] = "queued" => pc[j] = "idle" /\ entry[j] = {} /\ manifest[j] = {} /\ published[j] = {}
    /\ row[j] = "running" /\ process = "up" => pc[j] # "idle"
    /\ j \in asking \/ active[j] > 0 => row[j] = "succeeded"

\* A run that has not given its files away has none but those it published.
Holding(j) ==
    \/ pc[j] \in Exporting \cup Saving \cup {"takeback"}
    \/ pc[j] = "disown" /\ j \in Merge

Undone(j) == pc[j] = "error" \/ (pc[j] = "disown" /\ j \notin Merge)

\* The names of the parts that are out.
Out(j) == {Current(j, p) : p \in {q \in Parts(j) : /\ try[j][q] # 0
                                                   /\ q \in todo[j] => pc[j] = "check" /\ q = First(todo[j])}}

Accounted(j) ==
    /\ row[j] = "queued" => Mine(j) = {}
    /\ Holding(j) => Mine(j) \subseteq published[j]
    /\ Undone(j) => Mine(j) \subseteq leaked
    /\ pc[j] \in Exporting => published[j] \subseteq Out(j)
    /\ pc[j] = "publish" => manifest[j] = Planned(j)
    /\ entry[j] # {} /\ j \in registered => Mine(j) \subseteq entry[j] \cup leaked
    /\ row[j] = "succeeded" => Mine(j) \subseteq result[j] \cup leaked
    /\ Mine(j) \subseteq manifest[j] \cup leaked
                 \cup (IF j \in Merge /\ pc[j] = "takeback" THEN published[j] ELSE {})

Accounts == \A j \in Job : Accounted(j)

\* What Reconcile leaves of a job that did not succeed.
ClearedOf(j) ==
    /\ row[j] = "failed" => Mine(j) \subseteq leaked
    /\ row[j] = "cancelled" /\ process = "up" /\ pc[j] = "idle" => Mine(j) \subseteq leaked
    /\ process = "boot" /\ j \in visited /\ row[j] \in {"running", "cancelled"}
         => Mine(j) \subseteq leaked

Cleared == \A j \in Job \ skipped : ClearedOf(j)

\* What was published is there until somebody else takes it or it expires.
PresentOf(j) ==
    /\ pc[j] \in Exporting \cup Saving => j \in expired \/ published[j] \subseteq Mine(j) \cup meddled
    /\ pc[j] \in Saving => published[j] # {} /\ manifest[j] \subseteq published[j]
    /\ row[j] = "succeeded" =>
         /\ manifest[j] \subseteq result[j] /\ result[j] # {}
         /\ j \in expired \/ result[j] \cap meddled # {} \/ result[j] \subseteq Mine(j)

Present == \A j \in Job : PresentOf(j)

-----------------------------------------------------------------------------
(* Names and numbers *)

\* A set of numbers has a least element.
LEMMA Least ==
    ASSUME NEW T, T \subseteq Nat, T # {}
    PROVE  \E x \in T : \A y \in T : x <= y
<1>1. PICK x \in T : \A y \in T : ~(<<y, x>> \in OpToRel(<, Nat))
  BY NatLessThanWellFounded, WFMin
<1>2. ASSUME NEW y \in T, ~(x <= y) PROVE FALSE
  <2>1. y < x
    BY <1>2
  <2>2. <<y, x>> \in OpToRel(<, Nat)
    BY <2>1 DEF OpToRel
  <2> QED BY <1>1, <2>2
<1> QED BY <1>2

\* The first part of those to be published is one of them.
LEMMA FirstIn ==
    ASSUME NEW S, S \subseteq Part, S # {}
    PROVE  First(S) \in S
<1>1. \E p \in S : \A q \in S : p <= q
  BY Least, ArtifactsAssumption
<1> QED BY <1>1 DEF First

\* A name is the name of a job.
LEMMA NamesOfJobs == \A n \in Name : n[1] \in Job
BY DEF Name

\* The name a planned part has now is a name of its job.
LEMMA CurrentNamed ==
    ASSUME Typed, NEW j \in Job, NEW p \in Parts(j), try[j][p] # 0
    PROVE  Current(j, p) \in NamesOf(j)
<1>1. p \in Part /\ try[j][p] \in 1..Attempts
  BY ArtifactsAssumption DEF Typed, Parts
<1> QED BY <1>1 DEF Current, NamesOf, Name

\* What somebody else puts in the way has a name that is known as touched.
LEMMA Collided ==
    ASSUME Typed, Named, NEW j \in Job, Collide(j)
    PROVE  \E n \in Name, x \in {"none", "foreign"} :
               disk' = [disk EXCEPT ![n] = x] /\ n \in meddled'
<1>1. PICK p \in todo[j] : /\ disk' = [disk EXCEPT ![Current(j, p)] = "foreign"]
                           /\ meddled' = meddled \cup {Current(j, p)}
  BY DEF Collide
<1>2. p \in Parts(j) /\ try[j][p] # 0
  BY DEF Named
<1>3. Current(j, p) \in Name
  BY <1>2, CurrentNamed DEF NamesOf
<1> QED BY <1>1, <1>3

LEMMA PlannedNamed ==
    ASSUME Typed, NEW j \in Job PROVE Planned(j) \subseteq NamesOf(j)
BY CurrentNamed DEF Planned

-----------------------------------------------------------------------------
(* Types *)

LEMMA TypedInit == Init => Typed /\ Named
BY ArtifactsAssumption DEF Init, Typed, Named, State, Place, NamesOf

\* What the process has forgotten is of its type.
LEMMA Forgotten ==
    ASSUME Forget
    PROVE  /\ process' = "down" /\ visited' = {} /\ registered' = {} /\ asking' = {}
           /\ entry' \in [Job -> SUBSET Name] /\ active' \in [Job -> Nat]
           /\ pc' \in [Job -> Place] /\ try' \in [Job -> [Part -> 0..Attempts]]
           /\ todo' \in [Job -> SUBSET Part] /\ published' \in [Job -> SUBSET Name]
<1>1. try' \in [Job -> [Part -> 0..Attempts]]
  BY ArtifactsAssumption DEF Forget
<1> QED BY <1>1 DEF Forget, Place

\* Discarding the files of a job, whether it succeeds or fails, keeps the types.
LEMMA DiscardTyped ==
    ASSUME Typed, NEW j \in Job, Discard(j) \/ DiscardFails(j)
    PROVE  Typed'
<1>1. disk' \in [Name -> {"none", "ours", "foreign"}]
  BY DEF Discard, DiscardFails, Without, Typed
<1>2. CASE Discard(j)
  <2>1. manifest' \in [Job -> SUBSET Name]
    BY <1>2 DEF Discard, RemoveManifest, Typed
  <2> QED BY <1>1, <1>2, <2>1 DEF Discard, Typed, rows, store, run, history
<1>3. CASE DiscardFails(j)
  BY <1>1, <1>3, Forgotten DEF DiscardFails, Typed, rows, history
<1> QED BY <1>2, <1>3

LEMMA TypedStep == Typed /\ Named /\ [Next]_vars => Typed'
<1> SUFFICES ASSUME Typed, Named, [Next]_vars PROVE Typed'
  OBVIOUS
<1> USE ArtifactsAssumption DEF Typed, State, Place, disks, rows, store, boot, run, history
<1>1. ASSUME NEW j \in Job, Begin(j) PROVE Typed'
  <2>1. \A S \in SUBSET Part : [p \in Part |-> IF p \in S THEN 1 ELSE 0] \in [Part -> 0..Attempts]
    OBVIOUS
  <2>2. Parts(j) \in SUBSET Part
    BY DEF Parts
  <2> QED BY <1>1, <2>1, <2>2 DEF Begin, Goto
<1>2. ASSUME NEW j \in Job, Announce(j) PROVE Typed'
  <2>1. Planned(j) \subseteq Name
    BY PlannedNamed DEF NamesOf
  <2> QED BY <1>2, <2>1 DEF Announce, At, Goto
<1>3. ASSUME NEW j \in Job, SkipPart(j) PROVE Typed'
  BY <1>3 DEF SkipPart, At, Goto
<1>4. ASSUME NEW j \in Job, Publish(j) PROVE Typed'
  <2>1. First(todo[j]) \in todo[j]
    BY <1>4, FirstIn DEF Publish, At, Named
  <2>2. Current(j, First(todo[j])) \in Name
    BY <2>1, CurrentNamed DEF Named, NamesOf
  <2> QED BY <1>4, <2>1, <2>2 DEF Publish, At, Goto
<1>5. ASSUME NEW j \in Job, Rename(j) PROVE Typed'
  <2> DEFINE p == First(todo[j])
  <2>1. p \in Part
    BY <1>5, FirstIn DEF Rename, At, Named
  <2>2. /\ try[j] \in [Part -> 0..Attempts] /\ try[j][p] < Attempts
        /\ try' = [try EXCEPT ![j] = [try[j] EXCEPT ![p] = try[j][p] + 1]]
    BY <1>5 DEF Rename
  <2> HIDE DEF p
  <2>3. try[j][p] + 1 \in 0..Attempts
    <3>1. try[j][p] \in 0..Attempts
      BY <2>1, <2>2
    <3> QED BY <2>2, <3>1
  <2>4. PICK f \in [Part -> 0..Attempts] : try' = [try EXCEPT ![j] = f]
    BY <2>2, <2>3
  <2>5. try' \in [Job -> [Part -> 0..Attempts]]
    BY <2>4
  <2> QED BY <1>5, <2>5 DEF Rename, Goto
<1>6. ASSUME NEW j \in Job, Check(j) PROVE Typed'
  BY <1>6 DEF Check, At, Goto
<1>7. ASSUME NEW j \in Job, Commit(j) PROVE Typed'
  BY <1>7 DEF Commit, At, Goto
<1>8. ASSUME NEW j \in Job, Fail(j) PROVE Typed'
  BY <1>8 DEF Fail, Working, Goto
<1>9. ASSUME NEW j \in Job, Disown(j) PROVE Typed'
  <2>1. \E left \in {{}, manifest[j]} : manifest' \in {manifest, [manifest EXCEPT ![j] = left]}
    BY <1>9 DEF Disown, RemoveManifest
  <2>2. manifest' \in [Job -> SUBSET Name]
    BY <2>1
  <2>3. pc' \in [Job -> Place]
    BY <1>9 DEF Disown, Goto
  <2> QED BY <1>9, <2>2, <2>3 DEF Disown
<1>10. ASSUME NEW j \in Job, TakeBack(j) PROVE Typed'
  BY <1>10 DEF TakeBack, At, Goto, Without
<1>11. ASSUME NEW j \in Job, Save(j) PROVE Typed'
  BY <1>11 DEF Save, At, Goto, SetRow
<1>12. ASSUME NEW j \in Job, SaveTimesOut(j) PROVE Typed'
  BY <1>12 DEF SaveTimesOut, At, Goto
<1>13. ASSUME NEW j \in Job, SaveRefused(j) PROVE Typed'
  BY <1>13 DEF SaveRefused, At, Goto, Remove, Without
<1>14. ASSUME NEW j \in Job, SaveAbandoned(j) PROVE Typed'
  BY <1>14 DEF SaveAbandoned, At, Goto
<1>15. ASSUME NEW j \in Job, GiveUp(j) PROVE Typed'
  BY <1>15 DEF GiveUp, At, Goto
<1>16. ASSUME NEW j \in Job, ReportFailure(j) PROVE Typed'
  BY <1>16 DEF ReportFailure, At, Goto, SetRow
<1>17. ASSUME NEW j \in Job, Cancel(j) PROVE Typed'
  BY <1>17 DEF Cancel, SetRow
<1>18. ASSUME NEW j \in Job, AskDownload(j) PROVE Typed'
  BY <1>18 DEF AskDownload
<1>19. ASSUME NEW j \in Job, Open(j) PROVE Typed'
  BY <1>19 DEF Open
<1>20. ASSUME NEW j \in Job, Refuse(j) PROVE Typed'
  BY <1>20 DEF Refuse
<1>21. ASSUME NEW j \in Job, Close(j) PROVE Typed'
  BY <1>21 DEF Close
<1>22. ASSUME NEW j \in Job, AdoptRunning(j) PROVE Typed'
  BY <1>22 DEF AdoptRunning, Adopt, SetRow, Visits, Owned
<1>23. ASSUME NEW j \in Job, AdoptRunningFails(j) PROVE Typed'
  <2>1. row' \in [Job -> State] /\ result' \in [Job -> SUBSET Name]
    <3>1. CASE UNCHANGED rows
      BY <3>1 DEF rows
    <3>2. CASE SetRow(j, "succeeded") /\ result' = [result EXCEPT ![j] = manifest[j]]
      <4>1. manifest[j] \subseteq Name
        OBVIOUS
      <4> QED BY <3>2, <4>1 DEF SetRow
    <3> QED BY <1>23, <3>1, <3>2 DEF AdoptRunningFails
  <2>2. Forget /\ UNCHANGED <<disk, manifest, expired, meddled, leaked, skipped>>
    BY <1>23 DEF AdoptRunningFails
  <2> QED BY <2>1, <2>2, Forgotten
<1>24. ASSUME NEW j \in Job, DiscardRunning(j) PROVE Typed'
  BY <1>24, DiscardTyped DEF DiscardRunning
<1>25. ASSUME NEW j \in Job, DiscardCancelled(j) PROVE Typed'
  BY <1>25, DiscardTyped DEF DiscardCancelled
<1>26. ASSUME NEW j \in Job, AdoptSucceeded(j) PROVE Typed'
  BY <1>26 DEF AdoptSucceeded, Adopt, Visits, Owned
<1>27. ASSUME NEW j \in Job, DiscardSucceeded(j) PROVE Typed'
  BY <1>27, DiscardTyped DEF DiscardSucceeded
<1>28. ASSUME NEW j \in Job, KeepUnverified(j) PROVE Typed'
  BY <1>28 DEF KeepUnverified, Visits
<1>29. ASSUME NEW j \in Job, PassBy(j) PROVE Typed'
  BY <1>29 DEF PassBy, Visits
<1>30. ASSUME NEW j \in Job, Expire(j) PROVE Typed'
  BY <1>30 DEF Expire
<1>31. ASSUME NEW j \in Job, Cleanup(j) PROVE Typed'
  BY <1>31 DEF Cleanup, Due, Expel, RemoveManifest, Kept, Removable, Without
<1>32. ASSUME Crash PROVE Typed'
  <2>1. leaked' \subseteq Name
    BY <1>32 DEF Crash, Mine
  <2> QED BY <1>32, <2>1, Forgotten DEF Crash
<1>33. ASSUME Boot PROVE Typed'
  BY <1>33 DEF Boot
<1>34. ASSUME Recover PROVE Typed'
  BY <1>34 DEF Recover, Visits
<1>35. ASSUME NEW j \in Job, Collide(j) PROVE Typed'
  <2>1. \A p \in todo[j] : Current(j, p) \in Name
    BY CurrentNamed DEF Named, NamesOf
  <2> QED BY <1>35, <2>1 DEF Collide
<1>36. ASSUME NEW n \in Name, Meddle(n) PROVE Typed'
  BY <1>36 DEF Meddle
<1>37. ASSUME NEW n \in Name, Reuse(n) PROVE Typed'
  BY <1>37 DEF Reuse
<1>38. CASE UNCHANGED vars
  BY <1>38 DEF vars
<1>39. CASE Outsider
  BY <1>39, <1>35, <1>36, <1>37, NamesOfJobs DEF Outsider
<1> QED BY <1>1, <1>2, <1>3, <1>4, <1>5, <1>6, <1>7, <1>8, <1>9, <1>10, <1>11, <1>12, <1>13, <1>14, <1>15, <1>16, <1>17, <1>18, <1>19, <1>20, <1>21, <1>22, <1>23, <1>24, <1>25, <1>26, <1>27, <1>28, <1>29, <1>30, <1>31, <1>32, <1>33, <1>34, <1>38, <1>39
  DEF Next, RunStep, ClientStep, ReconcileStep

\* Discarding the files of a job leaves names as they are, or none.
LEMMA DiscardNamed ==
    ASSUME Typed, Named, NEW j \in Job, Discard(j) \/ DiscardFails(j)
    PROVE  Named'
<1>1. CASE Discard(j)
  <2>1. \A k \in Job : manifest'[k] \subseteq manifest[k]
    BY <1>1 DEF Discard, RemoveManifest, Typed
  <2> QED BY <1>1, <2>1 DEF Discard, Named, rows, store, run, Parts
<1>2. CASE DiscardFails(j)
  BY <1>2 DEF DiscardFails, Forget, Named, rows
<1> QED BY <1>1, <1>2

\* Every step keeps the names of a job its own.
LEMMA NamedStep == Typed /\ Named /\ [Next]_vars => Named'
<1> SUFFICES ASSUME Typed, Named, [Next]_vars PROVE Named'
  OBVIOUS
<1> USE DEF Named, disks, rows, store, boot, run, history
<1>1. ASSUME NEW j \in Job, Begin(j) PROVE Named'
  <2>1. Parts(j) = IF j \in Merge THEN {1} ELSE Part
    BY DEF Parts
  <2>2. PICK S \in SUBSET Parts(j) :
          /\ todo' = [todo EXCEPT ![j] = S]
          /\ try' = [try EXCEPT ![j] = [p \in Part |-> IF p \in S THEN 1 ELSE 0]]
    <3> HIDE DEF Named, disks, rows, store, boot, run, history
    <3>1. PICK S \in (IF j \in Merge THEN {Parts(j)} ELSE SUBSET Part) :
             /\ todo' = [todo EXCEPT ![j] = S]
             /\ try' = [try EXCEPT ![j] = [p \in Part |-> IF p \in S THEN 1 ELSE 0]]
      BY <1>1, ZenonT(60) DEF Begin
    <3>2. S \in SUBSET Parts(j)
      BY <2>1
    <3> QED BY <3>1, <3>2
  <2>3. todo'[j] \subseteq {q \in Parts(j) : try'[j][q] # 0}
    BY <2>1, <2>2, ArtifactsAssumption DEF Typed
  <2>4. \A k \in Job \ {j} : todo'[k] = todo[k] /\ try'[k] = try[k]
    BY <2>2 DEF Typed
  <2>5. UNCHANGED <<manifest, entry, result, published>>
    BY <1>1 DEF Begin
  <2>6. pc'[j] = "next" /\ \A k \in Job \ {j} : pc'[k] = pc[k]
    BY <1>1 DEF Begin, Goto, Typed
  <2>7. \A k \in Job : todo'[k] \subseteq {q \in Parts(k) : try'[k][q] # 0}
    BY <2>3, <2>4
  <2> QED BY <2>4, <2>5, <2>6, <2>7 DEF Parts
<1>2. ASSUME NEW j \in Job, Announce(j) PROVE Named'
  <2>1. Planned(j) \subseteq NamesOf(j)
    BY PlannedNamed
  <2> QED BY <1>2, <2>1 DEF Announce, At, Goto, Typed
<1>3. ASSUME NEW j \in Job, SkipPart(j) PROVE Named'
  BY <1>3 DEF SkipPart, At, Goto, Typed
<1>4. ASSUME NEW j \in Job, Publish(j) PROVE Named'
  <2>1. First(todo[j]) \in todo[j]
    BY <1>4, FirstIn DEF Publish, At, Typed
  <2>2. Current(j, First(todo[j])) \in NamesOf(j)
    BY <2>1, CurrentNamed
  <2> QED BY <1>4, <2>1, <2>2 DEF Publish, At, Goto, Typed
<1>5. ASSUME NEW j \in Job, Rename(j) PROVE Named'
  BY <1>5 DEF Rename, At, Goto, Typed
<1>6. ASSUME NEW j \in Job, Check(j) PROVE Named'
  BY <1>6 DEF Check, At, Goto, Typed
<1>7. ASSUME NEW j \in Job, Commit(j) PROVE Named'
  BY <1>7 DEF Commit, At, Goto, Typed
<1>8. ASSUME NEW j \in Job, Fail(j) PROVE Named'
  BY <1>8 DEF Fail, Working, Goto, Typed
<1>9. ASSUME NEW j \in Job, Disown(j) PROVE Named'
  BY <1>9 DEF Disown, At, Goto, RemoveManifest, Typed
<1>10. ASSUME NEW j \in Job, TakeBack(j) PROVE Named'
  BY <1>10 DEF TakeBack, At, Goto, Typed
<1>11. ASSUME NEW j \in Job, Save(j) PROVE Named'
  BY <1>11 DEF Save, At, Goto, SetRow, Typed
<1>12. ASSUME NEW j \in Job, SaveTimesOut(j) PROVE Named'
  BY <1>12 DEF SaveTimesOut, At, Goto, Typed
<1>13. ASSUME NEW j \in Job, SaveRefused(j) PROVE Named'
  BY <1>13 DEF SaveRefused, At, Goto, Remove, Typed
<1>14. ASSUME NEW j \in Job, SaveAbandoned(j) PROVE Named'
  BY <1>14 DEF SaveAbandoned, At, Goto, Typed
<1>15. ASSUME NEW j \in Job, GiveUp(j) PROVE Named'
  BY <1>15 DEF GiveUp, At, Goto, Typed
<1>16. ASSUME NEW j \in Job, ReportFailure(j) PROVE Named'
  BY <1>16 DEF ReportFailure, At, Goto, SetRow, Typed
<1>17. ASSUME NEW j \in Job, Cancel(j) PROVE Named'
  BY <1>17 DEF Cancel, SetRow, Typed
<1>18. ASSUME NEW j \in Job, AskDownload(j) PROVE Named'
  BY <1>18 DEF AskDownload, Typed
<1>19. ASSUME NEW j \in Job, Open(j) PROVE Named'
  BY <1>19 DEF Open, Typed
<1>20. ASSUME NEW j \in Job, Refuse(j) PROVE Named'
  BY <1>20 DEF Refuse, Typed
<1>21. ASSUME NEW j \in Job, Close(j) PROVE Named'
  BY <1>21 DEF Close, Typed
<1>22. ASSUME NEW j \in Job, AdoptRunning(j) PROVE Named'
  BY <1>22 DEF AdoptRunning, Adopt, SetRow, Visits, Owned, Typed
<1>23. ASSUME NEW j \in Job, AdoptRunningFails(j) PROVE Named'
  <2>1. \A k \in Job : result'[k] \subseteq NamesOf(k)
    BY <1>23 DEF AdoptRunningFails, Typed
  <2> QED BY <1>23, <2>1 DEF AdoptRunningFails, Forget
<1>24. ASSUME NEW j \in Job, DiscardRunning(j) PROVE Named'
  BY <1>24, DiscardNamed DEF DiscardRunning
<1>25. ASSUME NEW j \in Job, DiscardCancelled(j) PROVE Named'
  BY <1>25, DiscardNamed DEF DiscardCancelled
<1>26. ASSUME NEW j \in Job, AdoptSucceeded(j) PROVE Named'
  BY <1>26 DEF AdoptSucceeded, Adopt, Visits, Owned, Typed
<1>27. ASSUME NEW j \in Job, DiscardSucceeded(j) PROVE Named'
  BY <1>27, DiscardNamed DEF DiscardSucceeded
<1>28. ASSUME NEW j \in Job, KeepUnverified(j) PROVE Named'
  BY <1>28 DEF KeepUnverified, Visits, Typed
<1>29. ASSUME NEW j \in Job, PassBy(j) PROVE Named'
  BY <1>29 DEF PassBy, Visits, Typed
<1>30. ASSUME NEW j \in Job, Expire(j) PROVE Named'
  BY <1>30 DEF Expire, Typed
<1>31. ASSUME NEW j \in Job, Cleanup(j) PROVE Named'
  BY <1>31 DEF Cleanup, Due, Expel, RemoveManifest, Kept, Removable, Typed
<1>32. ASSUME Crash PROVE Named'
  BY <1>32 DEF Crash, Forget, Typed
<1>33. ASSUME Boot PROVE Named'
  BY <1>33 DEF Boot, Typed
<1>34. ASSUME Recover PROVE Named'
  BY <1>34 DEF Recover, Visits, Typed
<1>35. ASSUME NEW j \in Job, Collide(j) PROVE Named'
  BY <1>35 DEF Collide
<1>36. ASSUME NEW n \in Name, Meddle(n) PROVE Named'
  BY <1>36 DEF Meddle
<1>37. ASSUME NEW n \in Name, Reuse(n) PROVE Named'
  BY <1>37 DEF Reuse
<1>38. CASE UNCHANGED vars
  BY <1>38 DEF vars
<1>39. CASE Outsider
  BY <1>39, <1>35, <1>36, <1>37, NamesOfJobs DEF Outsider
<1> QED BY <1>1, <1>2, <1>3, <1>4, <1>5, <1>6, <1>7, <1>8, <1>9, <1>10, <1>11, <1>12, <1>13, <1>14, <1>15, <1>16, <1>17, <1>18, <1>19, <1>20, <1>21, <1>22, <1>23, <1>24, <1>25, <1>26, <1>27, <1>28, <1>29, <1>30, <1>31, <1>32, <1>33, <1>34, <1>38, <1>39
  DEF Next, RunStep, ClientStep, ReconcileStep

-----------------------------------------------------------------------------
(* Runs, rows and downloads *)

LEMMA PhasesInit == Init => Phases
BY DEF Init, Phases, Exporting, Undoing, Saving

\* Every step keeps runs and rows in line.
LEMMA PhasesStep == Typed /\ Named /\ Phases /\ [Next]_vars => Phases'
<1> SUFFICES ASSUME Typed, Named, Phases, [Next]_vars PROVE Phases'
  OBVIOUS
<1> USE DEF Phases, Exporting, Undoing, Saving, disks, rows, store, boot, run, history
<1>1. ASSUME NEW j \in Job, Begin(j) PROVE Phases'
  BY <1>1 DEF Begin, At, Goto, Typed
<1>2. ASSUME NEW j \in Job, Announce(j) PROVE Phases'
  BY <1>2 DEF Announce, At, Goto, Typed
<1>3. ASSUME NEW j \in Job, SkipPart(j) PROVE Phases'
  BY <1>3 DEF SkipPart, At, Goto, Typed
<1>4. ASSUME NEW j \in Job, Publish(j) PROVE Phases'
  BY <1>4 DEF Publish, At, Goto, Typed
<1>5. ASSUME NEW j \in Job, Rename(j) PROVE Phases'
  BY <1>5 DEF Rename, At, Goto, Typed
<1>6. ASSUME NEW j \in Job, Check(j) PROVE Phases'
  BY <1>6 DEF Check, At, Goto, Typed
<1>7. ASSUME NEW j \in Job, Commit(j) PROVE Phases'
  BY <1>7 DEF Commit, At, Goto, Typed
<1>8. ASSUME NEW j \in Job, Fail(j) PROVE Phases'
  BY <1>8 DEF Fail, Working, Goto, Typed
<1>9. ASSUME NEW j \in Job, Disown(j) PROVE Phases'
  BY <1>9 DEF Disown, At, Goto, RemoveManifest, Typed
<1>10. ASSUME NEW j \in Job, TakeBack(j) PROVE Phases'
  BY <1>10 DEF TakeBack, At, Goto, Typed
<1>11. ASSUME NEW j \in Job, Save(j) PROVE Phases'
  BY <1>11 DEF Save, At, Goto, SetRow, Typed
<1>12. ASSUME NEW j \in Job, SaveTimesOut(j) PROVE Phases'
  BY <1>12 DEF SaveTimesOut, At, Goto, Typed
<1>13. ASSUME NEW j \in Job, SaveRefused(j) PROVE Phases'
  BY <1>13 DEF SaveRefused, At, Goto, Remove, Typed
<1>14. ASSUME NEW j \in Job, SaveAbandoned(j) PROVE Phases'
  BY <1>14 DEF SaveAbandoned, At, Goto, Typed
<1>15. ASSUME NEW j \in Job, GiveUp(j) PROVE Phases'
  BY <1>15 DEF GiveUp, At, Goto, Typed
<1>16. ASSUME NEW j \in Job, ReportFailure(j) PROVE Phases'
  BY <1>16 DEF ReportFailure, At, Goto, SetRow, Typed
<1>17. ASSUME NEW j \in Job, Cancel(j) PROVE Phases'
  BY <1>17 DEF Cancel, SetRow, Typed
<1>18. ASSUME NEW j \in Job, AskDownload(j) PROVE Phases'
  BY <1>18 DEF AskDownload, Typed
<1>19. ASSUME NEW j \in Job, Open(j) PROVE Phases'
  BY <1>19 DEF Open, Typed
<1>20. ASSUME NEW j \in Job, Refuse(j) PROVE Phases'
  BY <1>20 DEF Refuse, Typed
<1>21. ASSUME NEW j \in Job, Close(j) PROVE Phases'
  BY <1>21 DEF Close, Typed
<1>22. ASSUME NEW j \in Job, AdoptRunning(j) PROVE Phases'
  BY <1>22 DEF AdoptRunning, Adopt, SetRow, Visits, Owned, Typed
<1>23. ASSUME NEW j \in Job, AdoptRunningFails(j) PROVE Phases'
  BY <1>23 DEF AdoptRunningFails, Forget, SetRow, Visits, Owned, Typed
<1>24. ASSUME NEW j \in Job, DiscardRunning(j) PROVE Phases'
  <2>1. CASE Discard(j)
    BY <1>24, <2>1 DEF DiscardRunning, Discard, RemoveManifest, Visits, Typed
  <2>2. CASE DiscardFails(j)
    BY <1>24, <2>2 DEF DiscardRunning, DiscardFails, Forget, Visits, Typed
  <2> QED BY <1>24, <2>1, <2>2 DEF DiscardRunning
<1>25. ASSUME NEW j \in Job, DiscardCancelled(j) PROVE Phases'
  <2>1. CASE Discard(j)
    BY <1>25, <2>1 DEF DiscardCancelled, Discard, RemoveManifest, Visits, Typed
  <2>2. CASE DiscardFails(j)
    BY <1>25, <2>2 DEF DiscardCancelled, DiscardFails, Forget, Visits, Typed
  <2> QED BY <1>25, <2>1, <2>2 DEF DiscardCancelled
<1>26. ASSUME NEW j \in Job, AdoptSucceeded(j) PROVE Phases'
  BY <1>26 DEF AdoptSucceeded, Adopt, Visits, Owned, Typed
<1>27. ASSUME NEW j \in Job, DiscardSucceeded(j) PROVE Phases'
  <2>1. CASE Discard(j)
    BY <1>27, <2>1 DEF DiscardSucceeded, Discard, RemoveManifest, Visits, Typed
  <2>2. CASE DiscardFails(j)
    BY <1>27, <2>2 DEF DiscardSucceeded, DiscardFails, Forget, Visits, Typed
  <2> QED BY <1>27, <2>1, <2>2 DEF DiscardSucceeded
<1>28. ASSUME NEW j \in Job, KeepUnverified(j) PROVE Phases'
  BY <1>28 DEF KeepUnverified, Visits, Typed
<1>29. ASSUME NEW j \in Job, PassBy(j) PROVE Phases'
  BY <1>29 DEF PassBy, Visits, Typed
<1>30. ASSUME NEW j \in Job, Expire(j) PROVE Phases'
  BY <1>30 DEF Expire, Typed
<1>31. ASSUME NEW j \in Job, Cleanup(j) PROVE Phases'
  BY <1>31 DEF Cleanup, Due, Expel, RemoveManifest, Kept, Removable, Typed
<1>32. ASSUME Crash PROVE Phases'
  BY <1>32 DEF Crash, Forget, Typed
<1>33. ASSUME Boot PROVE Phases'
  BY <1>33 DEF Boot, Typed
<1>34. ASSUME Recover PROVE Phases'
  BY <1>34 DEF Recover, Visits, Typed
<1>35. ASSUME NEW j \in Job, Collide(j) PROVE Phases'
  BY <1>35 DEF Collide
<1>36. ASSUME NEW n \in Name, Meddle(n) PROVE Phases'
  BY <1>36 DEF Meddle
<1>37. ASSUME NEW n \in Name, Reuse(n) PROVE Phases'
  BY <1>37 DEF Reuse
<1>38. CASE UNCHANGED vars
  BY <1>38 DEF vars
<1>39. CASE Outsider
  BY <1>39, <1>35, <1>36, <1>37, NamesOfJobs DEF Outsider
<1> QED BY <1>1, <1>2, <1>3, <1>4, <1>5, <1>6, <1>7, <1>8, <1>9, <1>10, <1>11, <1>12, <1>13, <1>14, <1>15, <1>16, <1>17, <1>18, <1>19, <1>20, <1>21, <1>22, <1>23, <1>24, <1>25, <1>26, <1>27, <1>28, <1>29, <1>30, <1>31, <1>32, <1>33, <1>34, <1>38, <1>39
  DEF Next, RunStep, ClientStep, ReconcileStep

-----------------------------------------------------------------------------
(* What a step does to the files of each job *)

LEMMA MineSame ==
    ASSUME UNCHANGED disk
    PROVE  \A k \in Job : Mine(k)' = Mine(k)
BY DEF Mine

LEMMA MineWithout ==
    ASSUME Typed, NEW S, disk' = Without(S)
    PROVE  \A k \in Job : Mine(k)' = Mine(k) \ S
BY DEF Typed, Mine, Without

LEMMA MineMore ==
    ASSUME Typed, NEW j \in Job, NEW n \in NamesOf(j), disk' = [disk EXCEPT ![n] = "ours"]
    PROVE  \A k \in Job : Mine(k)' = IF k = j THEN Mine(k) \cup {n} ELSE Mine(k)
BY DEF Typed, Mine, NamesOf

LEMMA MineTaken ==
    ASSUME Typed, NEW n \in Name, NEW x \in {"none", "foreign"}, disk' = [disk EXCEPT ![n] = x]
    PROVE  \A k \in Job : Mine(k)' = Mine(k) \ {n}
BY DEF Typed, Mine

\* The names of a job that does not move.
LEMMA OutSame ==
    ASSUME NEW k \in Job, try'[k] = try[k], todo'[k] = todo[k], pc'[k] = "check" <=> pc[k] = "check"
    PROVE  Out(k)' = Out(k) /\ Planned(k)' = Planned(k)
BY DEF Out, Planned, Current

\* What is out is planned.
LEMMA OutPlanned == \A k \in Job : Out(k) \subseteq Planned(k)
BY DEF Out, Planned

\* A job of which a step only removes files, or that it ends without success.
LEMMA AccountedElsewhere ==
    ASSUME NEW k \in Job, Accounted(k), Mine(k)' \subseteq Mine(k), leaked \subseteq leaked',
           row'[k] \in {row[k], "failed", "cancelled"}, result'[k] = result[k], manifest'[k] = manifest[k],
           entry'[k] = entry[k], k \in registered' <=> k \in registered,
           pc'[k] = pc[k], try'[k] = try[k], todo'[k] = todo[k], published'[k] = published[k]
    PROVE  Accounted(k)'
BY OutSame DEF Accounted, Holding, Undone

\* A job of which the process forgets all while it starts.
LEMMA AccountedForgotten ==
    ASSUME Typed, Phases, NEW k \in Job, Accounted(k), process # "up", Forget,
           Mine(k)' \subseteq Mine(k), leaked \subseteq leaked', manifest'[k] = manifest[k],
           \/ row'[k] = row[k] /\ result'[k] = result[k]
           \/ row'[k] = "succeeded" /\ result'[k] = manifest[k]
    PROVE  Accounted(k)'
BY DEF Accounted, Holding, Undone, Phases, Forget, Exporting, Saving, Typed

LEMMA AccountsInit == Init => Accounts
BY DEF Init, Accounts, Accounted, Mine, Holding, Undone, Exporting, Saving

\* Every step keeps account of every file.
LEMMA AccountsStep == Typed /\ Named /\ Phases /\ Accounts /\ [Next]_vars => Accounts'
<1> SUFFICES ASSUME Typed, Named, Phases, Accounts, [Next]_vars PROVE Accounts'
  OBVIOUS
<1> USE DEF Accounts, Exporting, Undoing, Saving, disks, rows, store, boot, run, history
<1>1. ASSUME NEW j \in Job, Begin(j) PROVE Accounts'
  <2>1. \A k \in Job : Mine(k)' = Mine(k)
    BY <1>1, MineSame DEF Begin, At, Goto
  <2>2. Accounted(j)'
    BY <1>1, <2>1, OutSame DEF Begin, At, Goto, Accounted, Holding, Undone, Phases, Typed
  <2>3. \A k \in Job \ {j} : Accounted(k)'
    BY <1>1, <2>1, AccountedElsewhere DEF Begin, At, Goto, Typed
  <2> QED BY <2>2, <2>3
<1>2. ASSUME NEW j \in Job, Announce(j) PROVE Accounts'
  <2>1. \A k \in Job : Mine(k)' = Mine(k)
    BY <1>2, MineSame DEF Announce, At, Goto
  <2>2. Accounted(j)'
    BY <1>2, <2>1, OutSame, OutPlanned DEF Announce, At, Goto, Accounted, Holding, Undone, Phases, Typed
  <2>3. \A k \in Job \ {j} : Accounted(k)'
    BY <1>2, <2>1, AccountedElsewhere DEF Announce, At, Goto, Typed
  <2> QED BY <2>2, <2>3
<1>3. ASSUME NEW j \in Job, SkipPart(j) PROVE Accounts'
  <2>1. \A k \in Job : Mine(k)' = Mine(k)
    BY <1>3, MineSame DEF SkipPart
  <2>2. Accounted(j)'
    <3>1. pc[j] \in {"next", "publish"} => Out(j) \subseteq Out(j)'
      <4>1. todo'[j] \subseteq todo[j] /\ try' = try /\ pc[j] \in {"next", "publish"}
        BY <1>3 DEF SkipPart, At, Typed
      <4> QED BY <4>1 DEF Out, Current
    <3> QED BY <1>3, <2>1, <3>1 DEF SkipPart, At, Goto, Accounted, Holding, Undone, Phases, Typed
  <2>3. \A k \in Job \ {j} : Accounted(k)'
    BY <1>3, <2>1, AccountedElsewhere DEF SkipPart, At, Goto, Typed
  <2> QED BY <2>2, <2>3
<1>4. ASSUME NEW j \in Job, Publish(j) PROVE Accounts'
  <2> DEFINE p == First(todo[j])
             n == Current(j, p)
  <2>1. p \in todo[j] /\ n \in Planned(j) /\ n \in NamesOf(j)
    BY <1>4, FirstIn, CurrentNamed DEF Publish, At, Named, Typed, Planned
  <2>2. \A k \in Job : Mine(k)' = IF k = j THEN Mine(k) \cup {n} ELSE Mine(k)
    BY <1>4, <2>1, MineMore DEF Publish
  <2>3. Accounted(j)'
    <3>1. Out(j) \cup {n} \subseteq Out(j)'
      BY <1>4, <2>1 DEF Publish, At, Out, Current, Goto, Typed, Named
    <3> HIDE DEF n, p
    <3>2. published'[j] = published[j] \cup {n}
      BY <1>4 DEF Publish, Typed, n, p
    <3> QED BY <1>4, <2>1, <2>2, <3>1, <3>2 DEF Publish, At, Goto, Accounted, Holding, Undone, Phases, Typed
  <2>4. \A k \in Job \ {j} : Accounted(k)'
    BY <1>4, <2>2, AccountedElsewhere DEF Publish, At, Goto, Typed
  <2> QED BY <2>3, <2>4
<1>5. ASSUME NEW j \in Job, Rename(j) PROVE Accounts'
  <2>1. \A k \in Job : Mine(k)' = Mine(k)
    BY <1>5, MineSame DEF Rename
  <2>2. Accounted(j)'
    <3>1. First(todo[j]) \in todo[j]
      BY <1>5, FirstIn DEF Rename, At, Named, Typed
    <3>2. \A q \in Part \ todo[j] : try'[j][q] = try[j][q]
      BY <1>5, <3>1 DEF Rename, Typed
    <3>3. Out(j) \subseteq Out(j)'
      <4>1. pc[j] = "publish" /\ pc'[j] = "next" /\ todo' = todo
        BY <1>5 DEF Rename, At, Goto, Typed
      <4>2. SUFFICES ASSUME NEW q \in Parts(j), try[j][q] # 0, q \notin todo[j]
                     PROVE  Current(j, q) \in Out(j)'
        BY <4>1 DEF Out
      <4>3. q \in Part /\ try'[j][q] = try[j][q]
        BY <3>2, <4>2, ArtifactsAssumption DEF Parts
      <4> QED BY <4>1, <4>2, <4>3 DEF Out, Current, Parts
    <3> QED BY <1>5, <2>1, <3>3 DEF Rename, At, Goto, Accounted, Holding, Undone, Phases, Typed
  <2>3. \A k \in Job \ {j} : Accounted(k)'
    BY <1>5, <2>1, AccountedElsewhere DEF Rename, At, Goto, Typed
  <2> QED BY <2>2, <2>3
<1>6. ASSUME NEW j \in Job, Check(j) PROVE Accounts'
  <2>1. \A k \in Job : Mine(k)' = Mine(k)
    BY <1>6, MineSame DEF Check
  <2>2. Accounted(j)'
    <3>1. Out(j) \subseteq Out(j)'
      BY <1>6 DEF Check, At, Out, Current, Goto, Typed
    <3> QED BY <1>6, <2>1, <3>1 DEF Check, At, Goto, Accounted, Holding, Undone, Phases, Typed
  <2>3. \A k \in Job \ {j} : Accounted(k)'
    BY <1>6, <2>1, AccountedElsewhere DEF Check, At, Goto, Typed
  <2> QED BY <2>2, <2>3
<1>7. ASSUME NEW j \in Job, Commit(j) PROVE Accounts'
  <2>1. \A k \in Job : Mine(k)' = Mine(k)
    BY <1>7, MineSame DEF Commit, At, Goto
  <2>2. Accounted(j)'
    BY <1>7, <2>1, OutSame DEF Commit, At, Goto, Accounted, Holding, Undone, Phases, Typed
  <2>3. \A k \in Job \ {j} : Accounted(k)'
    BY <1>7, <2>1, AccountedElsewhere DEF Commit, At, Goto, Typed
  <2> QED BY <2>2, <2>3
<1>8. ASSUME NEW j \in Job, Fail(j) PROVE Accounts'
  <2>1. \A k \in Job : Mine(k)' = Mine(k)
    BY <1>8, MineSame DEF Fail, Working, Goto
  <2>2. Accounted(j)'
    BY <1>8, <2>1, OutSame DEF Fail, Working, Goto, Accounted, Holding, Undone, Phases, Typed
  <2>3. \A k \in Job \ {j} : Accounted(k)'
    BY <1>8, <2>1, AccountedElsewhere DEF Fail, Working, Goto, Typed
  <2> QED BY <2>2, <2>3
<1>9. ASSUME NEW j \in Job, Disown(j) PROVE Accounts'
  <2>1. \A k \in Job : Mine(k)' = Mine(k)
    BY <1>9, MineSame DEF Disown, At, Goto, RemoveManifest
  <2>2. Accounted(j)'
    BY <1>9, <2>1, OutSame DEF Disown, At, Goto, RemoveManifest, Accounted, Holding, Undone, Phases, Typed
  <2>3. \A k \in Job \ {j} : Accounted(k)'
    BY <1>9, <2>1, AccountedElsewhere DEF Disown, At, Goto, RemoveManifest, Typed
  <2> QED BY <2>2, <2>3
<1>10. ASSUME NEW j \in Job, TakeBack(j) PROVE Accounts'
  <2>1. PICK stuck \in SUBSET (published[j] \cap Mine(j)) :
            /\ disk' = Without((published[j] \cap Mine(j)) \ stuck)
            /\ leaked' = leaked \cup stuck
    BY <1>10 DEF TakeBack
  <2>2. \A k \in Job : Mine(k)' = Mine(k) \ ((published[j] \cap Mine(j)) \ stuck)
    BY <2>1, MineWithout
  <2>3. Accounted(j)'
    BY <1>10, <2>1, <2>2 DEF TakeBack, At, Goto, Accounted, Holding, Undone, Phases, Typed
  <2>4. \A k \in Job \ {j} : Accounted(k)'
    BY <1>10, <2>1, <2>2, AccountedElsewhere DEF TakeBack, Goto, Typed
  <2> QED BY <2>3, <2>4
<1>11. ASSUME NEW j \in Job, Save(j) PROVE Accounts'
  <2>1. \A k \in Job : Mine(k)' = Mine(k)
    BY <1>11, MineSame DEF Save, At, Goto, SetRow
  <2>2. Accounted(j)'
    <3>1. /\ pc[j] \in Saving /\ pc'[j] = "done" /\ row'[j] = "succeeded"
          /\ result'[j] = published[j]
          /\ UNCHANGED <<manifest, entry, registered, published, leaked>>
      BY <1>11 DEF Save, At, Goto, SetRow, Typed
    <3>2. Mine(j)' \subseteq result'[j]
      BY <2>1, <3>1 DEF Accounted, Holding
    <3> QED BY <2>1, <3>1, <3>2 DEF Accounted, Holding, Undone
  <2>3. \A k \in Job \ {j} : Accounted(k)'
    BY <1>11, <2>1, AccountedElsewhere DEF Save, At, Goto, SetRow, Typed
  <2> QED BY <2>2, <2>3
<1>12. ASSUME NEW j \in Job, SaveTimesOut(j) PROVE Accounts'
  <2>1. \A k \in Job : Mine(k)' = Mine(k)
    BY <1>12, MineSame DEF SaveTimesOut
  <2>2. Accounted(j)'
    <3>1. /\ pc[j] = "save" /\ pc'[j] = "retry" /\ row' = row
          /\ UNCHANGED <<result, manifest, entry, registered, published, leaked>>
      BY <1>12 DEF SaveTimesOut, At, Goto, Typed
    <3> QED BY <2>1, <3>1 DEF Accounted, Holding, Undone
  <2>3. \A k \in Job \ {j} : Accounted(k)'
    BY <1>12, <2>1, AccountedElsewhere DEF SaveTimesOut, At, Goto, Typed
  <2> QED BY <2>2, <2>3
<1>13. ASSUME NEW j \in Job, SaveRefused(j) PROVE Accounts'
  <2>1. PICK gone \in SUBSET Lists(j) :
            /\ disk' = Without(gone)
            /\ \/ /\ gone = Lists(j)
                  /\ manifest' = [manifest EXCEPT ![j] = {}]
                  /\ registered' = registered \ {j}
                  /\ entry' = [entry EXCEPT ![j] = {}]
               \/ UNCHANGED <<manifest, registered, entry>>
    BY <1>13 DEF SaveRefused, Remove
  <2>2. \A k \in Job : Mine(k)' = Mine(k) \ gone
    BY <2>1, MineWithout
  <2>3. Accounted(j)'
    <3>1. pc[j] = "save" /\ pc'[j] = "done" /\ UNCHANGED <<row, result, leaked, published>> /\ row[j] = "cancelled"
      BY <1>13 DEF SaveRefused, At, Goto, Typed
    <3>2. CASE UNCHANGED <<manifest, registered, entry>>
      BY <2>2, <3>1, <3>2 DEF Accounted, Holding, Undone, Typed
    <3>3. CASE gone = Lists(j) /\ manifest' = [manifest EXCEPT ![j] = {}] /\ entry' = [entry EXCEPT ![j] = {}]
      BY <1>13, <2>2, <3>1, <3>3 DEF SaveRefused, At, Lists, Accounted, Holding, Undone, Typed
    <3> QED BY <2>1, <3>2, <3>3
  <2>4. \A k \in Job \ {j} : Accounted(k)'
    BY <1>13, <2>1, <2>2, AccountedElsewhere DEF SaveRefused, Goto, Typed
  <2> QED BY <2>3, <2>4
<1>14. ASSUME NEW j \in Job, SaveAbandoned(j) PROVE Accounts'
  <2>1. \A k \in Job : Mine(k)' = Mine(k)
    BY <1>14, MineSame DEF SaveAbandoned
  <2>2. Accounted(j)'
    <3>1. /\ pc[j] \in {"save", "retry"} /\ pc'[j] = "done" /\ row' = row
          /\ UNCHANGED <<result, manifest, entry, registered, published, leaked>>
      BY <1>14 DEF SaveAbandoned, At, Goto, Typed
    <3> QED BY <2>1, <3>1 DEF Accounted, Holding, Undone
  <2>3. \A k \in Job \ {j} : Accounted(k)'
    BY <1>14, <2>1, AccountedElsewhere DEF SaveAbandoned, At, Goto, Typed
  <2> QED BY <2>2, <2>3
<1>15. ASSUME NEW j \in Job, GiveUp(j) PROVE Accounts'
  <2>1. \A k \in Job : Mine(k)' = Mine(k)
    BY <1>15, MineSame DEF GiveUp
  <2>2. Accounted(j)'
    <3>1. /\ pc[j] \in {"retry", "error"} /\ pc'[j] = "done" /\ row' = row
          /\ UNCHANGED <<result, manifest, entry, registered, published, leaked>>
      BY <1>15 DEF GiveUp, At, Goto, Typed
    <3> QED BY <2>1, <3>1 DEF Accounted, Holding, Undone
  <2>3. \A k \in Job \ {j} : Accounted(k)'
    BY <1>15, <2>1, AccountedElsewhere DEF GiveUp, At, Goto, Typed
  <2> QED BY <2>2, <2>3
<1>16. ASSUME NEW j \in Job, ReportFailure(j) PROVE Accounts'
  <2>1. \A k \in Job : Mine(k)' = Mine(k)
    BY <1>16, MineSame DEF ReportFailure
  <2>2. Accounted(j)'
    <3>1. /\ pc[j] \in {"error"} /\ pc'[j] = "done" /\ row'[j] \in {row[j], "failed"}
          /\ UNCHANGED <<result, manifest, entry, registered, published, leaked>>
      BY <1>16 DEF ReportFailure, At, Goto, SetRow, Typed
    <3> QED BY <2>1, <3>1 DEF Accounted, Holding, Undone
  <2>3. \A k \in Job \ {j} : Accounted(k)'
    BY <1>16, <2>1, AccountedElsewhere DEF ReportFailure, At, Goto, SetRow, Typed
  <2> QED BY <2>2, <2>3
<1>17. ASSUME NEW j \in Job, Cancel(j) PROVE Accounts'
  <2>1. \A k \in Job : Mine(k)' = Mine(k)
    BY <1>17, MineSame DEF Cancel, SetRow
  <2> QED BY <1>17, <2>1, AccountedElsewhere DEF Cancel, SetRow, Typed
<1>18. ASSUME NEW j \in Job, AskDownload(j) PROVE Accounts'
  <2>1. \A k \in Job : Mine(k)' = Mine(k)
    BY <1>18, MineSame DEF AskDownload
  <2>2. Accounted(j)'
    <3>1. /\ row[j] = "succeeded" /\ entry'[j] = result[j]
          /\ UNCHANGED <<rows, manifest, registered, pc, try, todo, published, leaked>>
      BY <1>18 DEF AskDownload, Typed
    <3> QED BY <2>1, <3>1, OutSame DEF Accounted, Holding, Undone
  <2>3. \A k \in Job \ {j} : Accounted(k)'
    BY <1>18, <2>1, AccountedElsewhere DEF AskDownload, Typed
  <2> QED BY <2>2, <2>3
<1>19. ASSUME NEW j \in Job, Open(j) PROVE Accounts'
  <2>1. \A k \in Job : Mine(k)' = Mine(k)
    BY <1>19, MineSame DEF Open
  <2> QED BY <1>19, <2>1, AccountedElsewhere DEF Open
<1>20. ASSUME NEW j \in Job, Refuse(j) PROVE Accounts'
  <2>1. \A k \in Job : Mine(k)' = Mine(k)
    BY <1>20, MineSame DEF Refuse
  <2> QED BY <1>20, <2>1, AccountedElsewhere DEF Refuse
<1>21. ASSUME NEW j \in Job, Close(j) PROVE Accounts'
  <2>1. \A k \in Job : Mine(k)' = Mine(k)
    BY <1>21, MineSame DEF Close
  <2> QED BY <1>21, <2>1, AccountedElsewhere DEF Close
<1>22. ASSUME NEW j \in Job, AdoptRunning(j) PROVE Accounts'
  <2>1. \A k \in Job : Mine(k)' = Mine(k)
    BY <1>22, MineSame DEF AdoptRunning, Adopt, SetRow, Visits, Owned
  <2>2. Accounted(j)'
    BY <1>22, <2>1, OutSame DEF AdoptRunning, Adopt, SetRow, Visits, Owned, Accounted, Holding, Undone, Phases, Typed
  <2>3. \A k \in Job \ {j} : Accounted(k)'
    BY <1>22, <2>1, AccountedElsewhere DEF AdoptRunning, Adopt, SetRow, Visits, Owned, Typed
  <2> QED BY <2>2, <2>3
<1>23. ASSUME NEW j \in Job, AdoptRunningFails(j) PROVE Accounts'
  <2>1. \A k \in Job : Mine(k)' = Mine(k)
    BY <1>23, MineSame DEF AdoptRunningFails
  <2> QED BY <1>23, <2>1, AccountedForgotten DEF AdoptRunningFails, Visits, SetRow, Typed
<1>24. ASSUME NEW j \in Job, DiscardRunning(j) PROVE Accounts'
  <2>1. CASE Discard(j)
    <3>1. \A k \in Job : Mine(k)' = Mine(k) \ Lists(j)
      BY <2>1, MineWithout DEF Discard
    <3>2. Accounted(j)'
      BY <1>24, <2>1, <3>1 DEF DiscardRunning, Discard, RemoveManifest, Visits, Lists, Accounted, Holding, Undone, Phases, Typed
    <3>3. \A k \in Job \ {j} : Accounted(k)'
      BY <2>1, <3>1, AccountedElsewhere DEF Discard, RemoveManifest, Typed
    <3> QED BY <3>2, <3>3
  <2>2. CASE DiscardFails(j)
    <3>1. \A k \in Job : Mine(k)' \subseteq Mine(k)
      BY <2>2, MineWithout DEF DiscardFails
    <3>2. process = "boot"
      BY <1>24 DEF DiscardRunning, Visits
    <3> QED BY <2>2, <3>1, <3>2, AccountedForgotten DEF DiscardFails
  <2> QED BY <1>24, <2>1, <2>2 DEF DiscardRunning
<1>25. ASSUME NEW j \in Job, DiscardCancelled(j) PROVE Accounts'
  <2>1. CASE Discard(j)
    <3>1. \A k \in Job : Mine(k)' = Mine(k) \ Lists(j)
      BY <2>1, MineWithout DEF Discard
    <3>2. Accounted(j)'
      BY <1>25, <2>1, <3>1 DEF DiscardCancelled, Discard, RemoveManifest, Visits, Lists, Accounted, Holding, Undone, Phases, Typed
    <3>3. \A k \in Job \ {j} : Accounted(k)'
      BY <2>1, <3>1, AccountedElsewhere DEF Discard, RemoveManifest, Typed
    <3> QED BY <3>2, <3>3
  <2>2. CASE DiscardFails(j)
    <3>1. \A k \in Job : Mine(k)' \subseteq Mine(k)
      BY <2>2, MineWithout DEF DiscardFails
    <3>2. process = "boot"
      BY <1>25 DEF DiscardCancelled, Visits
    <3> QED BY <2>2, <3>1, <3>2, AccountedForgotten DEF DiscardFails
  <2> QED BY <1>25, <2>1, <2>2 DEF DiscardCancelled
<1>26. ASSUME NEW j \in Job, AdoptSucceeded(j) PROVE Accounts'
  <2>1. \A k \in Job : Mine(k)' = Mine(k)
    BY <1>26, MineSame DEF AdoptSucceeded, Adopt, Visits, Owned
  <2>2. Accounted(j)'
    BY <1>26, <2>1, OutSame DEF AdoptSucceeded, Adopt, Visits, Owned, Accounted, Holding, Undone, Phases, Typed
  <2>3. \A k \in Job \ {j} : Accounted(k)'
    BY <1>26, <2>1, AccountedElsewhere DEF AdoptSucceeded, Adopt, Visits, Owned, Typed
  <2> QED BY <2>2, <2>3
<1>27. ASSUME NEW j \in Job, DiscardSucceeded(j) PROVE Accounts'
  <2>1. CASE Discard(j)
    <3>1. \A k \in Job : Mine(k)' = Mine(k) \ Lists(j)
      BY <2>1, MineWithout DEF Discard
    <3>2. Accounted(j)'
      BY <1>27, <2>1, <3>1 DEF DiscardSucceeded, Discard, RemoveManifest, Visits, Lists, Accounted, Holding, Undone, Phases, Typed
    <3>3. \A k \in Job \ {j} : Accounted(k)'
      BY <2>1, <3>1, AccountedElsewhere DEF Discard, RemoveManifest, Typed
    <3> QED BY <3>2, <3>3
  <2>2. CASE DiscardFails(j)
    <3>1. \A k \in Job : Mine(k)' \subseteq Mine(k)
      BY <2>2, MineWithout DEF DiscardFails
    <3>2. process = "boot"
      BY <1>27 DEF DiscardSucceeded, Visits
    <3> QED BY <2>2, <3>1, <3>2, AccountedForgotten DEF DiscardFails
  <2> QED BY <1>27, <2>1, <2>2 DEF DiscardSucceeded
<1>28. ASSUME NEW j \in Job, KeepUnverified(j) PROVE Accounts'
  <2>1. \A k \in Job : Mine(k)' = Mine(k)
    BY <1>28, MineSame DEF KeepUnverified
  <2> QED BY <1>28, <2>1, AccountedElsewhere DEF KeepUnverified
<1>29. ASSUME NEW j \in Job, PassBy(j) PROVE Accounts'
  <2>1. \A k \in Job : Mine(k)' = Mine(k)
    BY <1>29, MineSame DEF PassBy
  <2> QED BY <1>29, <2>1, AccountedElsewhere DEF PassBy
<1>30. ASSUME NEW j \in Job, Expire(j) PROVE Accounts'
  <2>1. \A k \in Job : Mine(k)' = Mine(k)
    BY <1>30, MineSame DEF Expire
  <2> QED BY <1>30, <2>1, AccountedElsewhere DEF Expire
<1>31. ASSUME NEW j \in Job, Cleanup(j) PROVE Accounts'
  <2>1. PICK gone \in SUBSET Removable(j) : Expel(j, gone)
    BY <1>31 DEF Cleanup
  <2>2. \A k \in Job : Mine(k)' = Mine(k) \ gone
    BY <2>1, MineWithout DEF Expel
  <2>3. Accounted(j)'
    <3>1. CASE j \in registered
      <4>1. Kept(j, gone) = ((entry[j] \cap Lists(j)) \ gone) \cup (entry[j] \ manifest[j])
        BY <3>1 DEF Kept, Removable
      <4>2. Mine(j) \subseteq entry[j] \cup leaked
        BY <1>31, <3>1 DEF Cleanup, Due, Accounted
      <4>3. Mine(j)' \subseteq Kept(j, gone) \cup leaked
        BY <2>2, <4>1, <4>2 DEF Lists
      <4> HIDE DEF Kept
      <4>4. pc[j] \notin Exporting \cup Undoing /\ row[j] # "queued"
        BY <1>31 DEF Cleanup, Due, Phases
      <4>5. /\ entry'[j] = Kept(j, gone) /\ UNCHANGED <<rows, run, leaked>>
            /\ manifest'[j] = manifest[j] \/ Kept(j, gone) = {}
        BY <2>1 DEF Expel, Typed
      <4> QED BY <2>2, <4>3, <4>4, <4>5 DEF Accounted, Holding, Undone
    <3>2. CASE j \notin registered
      <4>1. manifest' = manifest /\ registered' = registered
        BY <2>1, <3>2 DEF Expel
      <4> QED BY <2>1, <2>2, <3>2, <4>1, OutSame DEF Expel, Accounted, Holding, Undone, Typed
    <3> QED BY <3>1, <3>2
  <2>4. \A k \in Job \ {j} : Accounted(k)'
    BY <2>1, <2>2, AccountedElsewhere DEF Expel, RemoveManifest, Typed
  <2> QED BY <2>3, <2>4
<1>32. ASSUME Crash PROVE Accounts'
  <2>1. \A k \in Job : Mine(k)' = Mine(k)
    BY <1>32, MineSame DEF Crash
  <2>2. leaked \subseteq leaked' /\ \A k \in Merge : pc[k] = "takeback" => published[k] \cap Mine(k) \subseteq leaked'
    BY <1>32 DEF Crash
  <2>3. SUFFICES ASSUME NEW k \in Job PROVE Accounted(k)'
    OBVIOUS
  <2>4. pc'[k] = "idle" /\ entry'[k] = {} /\ UNCHANGED rows /\ UNCHANGED manifest
    BY <1>32 DEF Crash, Forget
  <2> QED BY <2>1, <2>2, <2>4 DEF Accounted, Holding, Undone, Typed
<1>33. ASSUME Boot PROVE Accounts'
  <2>1. \A k \in Job : Mine(k)' = Mine(k)
    BY <1>33, MineSame DEF Boot
  <2> QED BY <1>33, <2>1, AccountedElsewhere DEF Boot
<1>34. ASSUME Recover PROVE Accounts'
  <2>1. \A k \in Job : Mine(k)' = Mine(k)
    BY <1>34, MineSame DEF Recover
  <2>2. \A k \in Job : row'[k] \in {row[k], "failed"}
    BY <1>34 DEF Recover
  <2>3. UNCHANGED <<manifest, result, store, run, history>>
    BY <1>34 DEF Recover
  <2> QED BY <2>1, <2>2, <2>3, AccountedElsewhere
<1>35. ASSUME NEW j \in Job, Collide(j) PROVE Accounts'
  <2>1. PICK n \in Name, x \in {"none", "foreign"} : disk' = [disk EXCEPT ![n] = x]
    BY <1>35, Collided
  <2>2. \A k \in Job : Mine(k)' = Mine(k) \ {n}
    BY <2>1, MineTaken
  <2> QED BY <1>35, <2>2, AccountedElsewhere DEF Collide
<1>36. ASSUME NEW n \in Name, Meddle(n) PROVE Accounts'
  <2>1. PICK m \in Name, x \in {"none", "foreign"} : disk' = [disk EXCEPT ![m] = x]
    BY <1>36, CurrentNamed DEF Meddle, Named, NamesOf
  <2>2. \A k \in Job : Mine(k)' = Mine(k) \ {m}
    BY <2>1, MineTaken
  <2> QED BY <1>36, <2>2, AccountedElsewhere DEF Meddle
<1>37. ASSUME NEW n \in Name, Reuse(n) PROVE Accounts'
  <2>1. PICK m \in Name, x \in {"none", "foreign"} : disk' = [disk EXCEPT ![m] = x]
    BY <1>37, CurrentNamed DEF Reuse, Named, NamesOf
  <2>2. \A k \in Job : Mine(k)' = Mine(k) \ {m}
    BY <2>1, MineTaken
  <2> QED BY <1>37, <2>2, AccountedElsewhere DEF Reuse
<1>38. CASE UNCHANGED vars
  <2>1. \A k \in Job : Mine(k)' = Mine(k)
    BY <1>38, MineSame DEF vars
  <2> QED BY <1>38, <2>1, AccountedElsewhere DEF vars
<1>39. CASE Outsider
  BY <1>39, <1>35, <1>36, <1>37, NamesOfJobs DEF Outsider
<1> QED BY <1>1, <1>2, <1>3, <1>4, <1>5, <1>6, <1>7, <1>8, <1>9, <1>10, <1>11, <1>12, <1>13, <1>14, <1>15, <1>16, <1>17, <1>18, <1>19, <1>20, <1>21, <1>22, <1>23, <1>24, <1>25, <1>26, <1>27, <1>28, <1>29, <1>30, <1>31, <1>32, <1>33, <1>34, <1>38, <1>39
  DEF Next, RunStep, ClientStep, ReconcileStep

-----------------------------------------------------------------------------
(* Files come and go *)

\* What may remove files of a job: its roll-backs, clean-up when no download is
\* open, and a restart that does not adopt them.
MayClear(j) ==
    \/ pc[j] = "takeback"
    \/ pc[j] = "save" /\ row[j] = "cancelled" /\ pc'[j] = "done"
    \/ process = "up" /\ Due(j) /\ active[j] = 0
    \/ Visits(j) /\ row[j] \in {"running", "cancelled"}
    \/ Visits(j) /\ row[j] = "succeeded" /\ (j \in expired \/ ~Owned(j))

FilesMove(k) ==
    /\ Mine(k)' \subseteq Mine(k) \/ (pc[k] = "publish" /\ process = "up" /\ pc'[k] = "check")
    /\ Mine(k) \subseteq Mine(k)' \cup meddled' \/ MayClear(k)

\* Only a run adds files, and only to its own; only what MayClear says, or
\* somebody else, takes any.
LEMMA FilesStep ==
    ASSUME Typed, Named, [Next]_vars
    PROVE  \A k \in Job : FilesMove(k)
<1> USE DEF FilesMove, disks, rows, store, boot, run, history
<1>1. ASSUME NEW j \in Job, Begin(j) PROVE \A k \in Job : FilesMove(k)
  BY <1>1, MineSame DEF Begin
<1>2. ASSUME NEW j \in Job, Announce(j) PROVE \A k \in Job : FilesMove(k)
  BY <1>2, MineSame DEF Announce
<1>3. ASSUME NEW j \in Job, SkipPart(j) PROVE \A k \in Job : FilesMove(k)
  BY <1>3, MineSame DEF SkipPart
<1>4. ASSUME NEW j \in Job, Publish(j) PROVE \A k \in Job : FilesMove(k)
  <2> DEFINE n == Current(j, First(todo[j]))
  <2>1. n \in NamesOf(j)
    BY <1>4, FirstIn, CurrentNamed DEF Publish, At, Named, Typed
  <2>2. \A k \in Job : Mine(k)' = IF k = j THEN Mine(k) \cup {n} ELSE Mine(k)
    BY <1>4, <2>1, MineMore DEF Publish
  <2>3. pc[j] = "publish" /\ process = "up" /\ pc'[j] = "check"
    BY <1>4 DEF Publish, At, Goto, Typed
  <2> QED BY <2>2, <2>3
<1>5. ASSUME NEW j \in Job, Rename(j) PROVE \A k \in Job : FilesMove(k)
  BY <1>5, MineSame DEF Rename
<1>6. ASSUME NEW j \in Job, Check(j) PROVE \A k \in Job : FilesMove(k)
  BY <1>6, MineSame DEF Check
<1>7. ASSUME NEW j \in Job, Commit(j) PROVE \A k \in Job : FilesMove(k)
  BY <1>7, MineSame DEF Commit
<1>8. ASSUME NEW j \in Job, Fail(j) PROVE \A k \in Job : FilesMove(k)
  BY <1>8, MineSame DEF Fail
<1>9. ASSUME NEW j \in Job, Disown(j) PROVE \A k \in Job : FilesMove(k)
  BY <1>9, MineSame DEF Disown
<1>10. ASSUME NEW j \in Job, TakeBack(j) PROVE \A k \in Job : FilesMove(k)
  <2>1. \E S \in SUBSET NamesOf(j) : disk' = Without(S)
    BY <1>10 DEF TakeBack, Mine, NamesOf, Typed, Named
  <2>2. \A k \in Job : Mine(k)' \subseteq Mine(k) /\ (k # j => Mine(k)' = Mine(k))
    BY <2>1, MineWithout DEF Mine, NamesOf
  <2>3. MayClear(j)
    BY <1>10 DEF MayClear, TakeBack, At
  <2> QED BY <2>2, <2>3
<1>11. ASSUME NEW j \in Job, Save(j) PROVE \A k \in Job : FilesMove(k)
  BY <1>11, MineSame DEF Save
<1>12. ASSUME NEW j \in Job, SaveTimesOut(j) PROVE \A k \in Job : FilesMove(k)
  BY <1>12, MineSame DEF SaveTimesOut
<1>13. ASSUME NEW j \in Job, SaveRefused(j) PROVE \A k \in Job : FilesMove(k)
  <2>1. \E S \in SUBSET NamesOf(j) : disk' = Without(S)
    BY <1>13 DEF SaveRefused, Remove, Lists, NamesOf, Typed, Named
  <2>2. \A k \in Job : Mine(k)' \subseteq Mine(k) /\ (k # j => Mine(k)' = Mine(k))
    BY <2>1, MineWithout DEF Mine, NamesOf
  <2>3. MayClear(j)
    BY <1>13 DEF MayClear, SaveRefused, At, Goto, Typed
  <2> QED BY <2>2, <2>3
<1>14. ASSUME NEW j \in Job, SaveAbandoned(j) PROVE \A k \in Job : FilesMove(k)
  BY <1>14, MineSame DEF SaveAbandoned
<1>15. ASSUME NEW j \in Job, GiveUp(j) PROVE \A k \in Job : FilesMove(k)
  BY <1>15, MineSame DEF GiveUp
<1>16. ASSUME NEW j \in Job, ReportFailure(j) PROVE \A k \in Job : FilesMove(k)
  BY <1>16, MineSame DEF ReportFailure
<1>17. ASSUME NEW j \in Job, Cancel(j) PROVE \A k \in Job : FilesMove(k)
  BY <1>17, MineSame DEF Cancel
<1>18. ASSUME NEW j \in Job, AskDownload(j) PROVE \A k \in Job : FilesMove(k)
  BY <1>18, MineSame DEF AskDownload
<1>19. ASSUME NEW j \in Job, Open(j) PROVE \A k \in Job : FilesMove(k)
  BY <1>19, MineSame DEF Open
<1>20. ASSUME NEW j \in Job, Refuse(j) PROVE \A k \in Job : FilesMove(k)
  BY <1>20, MineSame DEF Refuse
<1>21. ASSUME NEW j \in Job, Close(j) PROVE \A k \in Job : FilesMove(k)
  BY <1>21, MineSame DEF Close
<1>22. ASSUME NEW j \in Job, AdoptRunning(j) PROVE \A k \in Job : FilesMove(k)
  BY <1>22, MineSame DEF AdoptRunning, Adopt
<1>23. ASSUME NEW j \in Job, AdoptRunningFails(j) PROVE \A k \in Job : FilesMove(k)
  BY <1>23, MineSame DEF AdoptRunningFails
<1>24. ASSUME NEW j \in Job, DiscardRunning(j) PROVE \A k \in Job : FilesMove(k)
  <2>1. \E S \in SUBSET NamesOf(j) : disk' = Without(S)
    BY <1>24 DEF DiscardRunning, Discard, DiscardFails, Lists, NamesOf, Typed, Named
  <2>2. \A k \in Job : Mine(k)' \subseteq Mine(k) /\ (k # j => Mine(k)' = Mine(k))
    BY <2>1, MineWithout DEF Mine, NamesOf
  <2>3. MayClear(j)
    BY <1>24 DEF MayClear, DiscardRunning
  <2> QED BY <2>2, <2>3
<1>25. ASSUME NEW j \in Job, DiscardCancelled(j) PROVE \A k \in Job : FilesMove(k)
  <2>1. \E S \in SUBSET NamesOf(j) : disk' = Without(S)
    BY <1>25 DEF DiscardCancelled, Discard, DiscardFails, Lists, NamesOf, Typed, Named
  <2>2. \A k \in Job : Mine(k)' \subseteq Mine(k) /\ (k # j => Mine(k)' = Mine(k))
    BY <2>1, MineWithout DEF Mine, NamesOf
  <2>3. MayClear(j)
    BY <1>25 DEF MayClear, DiscardCancelled
  <2> QED BY <2>2, <2>3
<1>26. ASSUME NEW j \in Job, AdoptSucceeded(j) PROVE \A k \in Job : FilesMove(k)
  BY <1>26, MineSame DEF AdoptSucceeded, Adopt
<1>27. ASSUME NEW j \in Job, DiscardSucceeded(j) PROVE \A k \in Job : FilesMove(k)
  <2>1. \E S \in SUBSET NamesOf(j) : disk' = Without(S)
    BY <1>27 DEF DiscardSucceeded, Discard, DiscardFails, Lists, NamesOf, Typed, Named
  <2>2. \A k \in Job : Mine(k)' \subseteq Mine(k) /\ (k # j => Mine(k)' = Mine(k))
    BY <2>1, MineWithout DEF Mine, NamesOf
  <2>3. MayClear(j)
    BY <1>27 DEF MayClear, DiscardSucceeded
  <2> QED BY <2>2, <2>3
<1>28. ASSUME NEW j \in Job, KeepUnverified(j) PROVE \A k \in Job : FilesMove(k)
  BY <1>28, MineSame DEF KeepUnverified
<1>29. ASSUME NEW j \in Job, PassBy(j) PROVE \A k \in Job : FilesMove(k)
  BY <1>29, MineSame DEF PassBy
<1>30. ASSUME NEW j \in Job, Expire(j) PROVE \A k \in Job : FilesMove(k)
  BY <1>30, MineSame DEF Expire
<1>31. ASSUME NEW j \in Job, Cleanup(j) PROVE \A k \in Job : FilesMove(k)
  <2>1. \E S \in SUBSET NamesOf(j) : disk' = Without(S)
    BY <1>31 DEF Cleanup, Expel, Removable, Lists, NamesOf, Typed, Named
  <2>2. \A k \in Job : Mine(k)' \subseteq Mine(k) /\ (k # j => Mine(k)' = Mine(k))
    BY <2>1, MineWithout DEF Mine, NamesOf
  <2>3. MayClear(j)
    BY <1>31 DEF MayClear, Cleanup
  <2> QED BY <2>2, <2>3
<1>32. ASSUME Crash PROVE \A k \in Job : FilesMove(k)
  BY <1>32, MineSame DEF Crash
<1>33. ASSUME Boot PROVE \A k \in Job : FilesMove(k)
  BY <1>33, MineSame DEF Boot
<1>34. ASSUME Recover PROVE \A k \in Job : FilesMove(k)
  <2>1. UNCHANGED disk
    BY <1>34 DEF Recover
  <2> QED BY <2>1, MineSame
<1>35. ASSUME NEW j \in Job, Collide(j) PROVE \A k \in Job : FilesMove(k)
  <2>1. PICK m \in Name, x \in {"none", "foreign"} : disk' = [disk EXCEPT ![m] = x] /\ m \in meddled'
    BY <1>35, Collided
  <2>2. \A k \in Job : Mine(k)' = Mine(k) \ {m}
    BY <2>1, MineTaken
  <2> QED BY <2>1, <2>2
<1>36. ASSUME NEW n \in Name, Meddle(n) PROVE \A k \in Job : FilesMove(k)
  <2>1. PICK m \in Name, x \in {"none", "foreign"} : disk' = [disk EXCEPT ![m] = x] /\ m \in meddled'
    BY <1>36, CurrentNamed DEF Meddle, Named, NamesOf
  <2>2. \A k \in Job : Mine(k)' = Mine(k) \ {m}
    BY <2>1, MineTaken
  <2> QED BY <2>1, <2>2
<1>37. ASSUME NEW n \in Name, Reuse(n) PROVE \A k \in Job : FilesMove(k)
  <2>1. PICK m \in Name, x \in {"none", "foreign"} : disk' = [disk EXCEPT ![m] = x] /\ m \in meddled'
    BY <1>37, CurrentNamed DEF Reuse, Named, NamesOf
  <2>2. \A k \in Job : Mine(k)' = Mine(k) \ {m}
    BY <2>1, MineTaken
  <2> QED BY <2>1, <2>2
<1>38. CASE UNCHANGED vars
  BY <1>38, MineSame DEF vars
<1>39. CASE Outsider
  BY <1>39, <1>35, <1>36, <1>37, NamesOfJobs DEF Outsider
<1> QED BY <1>1, <1>2, <1>3, <1>4, <1>5, <1>6, <1>7, <1>8, <1>9, <1>10, <1>11, <1>12, <1>13, <1>14, <1>15, <1>16, <1>17, <1>18, <1>19, <1>20, <1>21, <1>22, <1>23, <1>24, <1>25, <1>26, <1>27, <1>28, <1>29, <1>30, <1>31, <1>32, <1>33, <1>34, <1>38, <1>39
  DEF Next, RunStep, ClientStep, ReconcileStep

\* The history only grows, and what has expired stays so.
LEMMA HistoryGrows ==
    ASSUME [Next]_vars
    PROVE  /\ meddled \subseteq meddled' /\ leaked \subseteq leaked' /\ skipped \subseteq skipped'
           /\ expired \subseteq expired'
<1> DEFINE Grows == /\ meddled \subseteq meddled' /\ leaked \subseteq leaked' /\ skipped \subseteq skipped'
                    /\ expired \subseteq expired'
<1> USE DEF disks, rows, store, boot, run, history
<1>1. ASSUME NEW j \in Job, Begin(j) PROVE Grows
  BY <1>1 DEF Begin
<1>2. ASSUME NEW j \in Job, Announce(j) PROVE Grows
  BY <1>2 DEF Announce
<1>3. ASSUME NEW j \in Job, SkipPart(j) PROVE Grows
  BY <1>3 DEF SkipPart
<1>4. ASSUME NEW j \in Job, Publish(j) PROVE Grows
  BY <1>4 DEF Publish
<1>5. ASSUME NEW j \in Job, Rename(j) PROVE Grows
  BY <1>5 DEF Rename
<1>6. ASSUME NEW j \in Job, Check(j) PROVE Grows
  BY <1>6 DEF Check
<1>7. ASSUME NEW j \in Job, Commit(j) PROVE Grows
  BY <1>7 DEF Commit
<1>8. ASSUME NEW j \in Job, Fail(j) PROVE Grows
  BY <1>8 DEF Fail
<1>9. ASSUME NEW j \in Job, Disown(j) PROVE Grows
  BY <1>9 DEF Disown
<1>10. ASSUME NEW j \in Job, TakeBack(j) PROVE Grows
  BY <1>10 DEF TakeBack
<1>11. ASSUME NEW j \in Job, Save(j) PROVE Grows
  BY <1>11 DEF Save
<1>12. ASSUME NEW j \in Job, SaveTimesOut(j) PROVE Grows
  BY <1>12 DEF SaveTimesOut
<1>13. ASSUME NEW j \in Job, SaveRefused(j) PROVE Grows
  BY <1>13 DEF SaveRefused
<1>14. ASSUME NEW j \in Job, SaveAbandoned(j) PROVE Grows
  BY <1>14 DEF SaveAbandoned
<1>15. ASSUME NEW j \in Job, GiveUp(j) PROVE Grows
  BY <1>15 DEF GiveUp
<1>16. ASSUME NEW j \in Job, ReportFailure(j) PROVE Grows
  BY <1>16 DEF ReportFailure
<1>17. ASSUME NEW j \in Job, Cancel(j) PROVE Grows
  BY <1>17 DEF Cancel
<1>18. ASSUME NEW j \in Job, AskDownload(j) PROVE Grows
  BY <1>18 DEF AskDownload
<1>19. ASSUME NEW j \in Job, Open(j) PROVE Grows
  BY <1>19 DEF Open
<1>20. ASSUME NEW j \in Job, Refuse(j) PROVE Grows
  BY <1>20 DEF Refuse
<1>21. ASSUME NEW j \in Job, Close(j) PROVE Grows
  BY <1>21 DEF Close
<1>22. ASSUME NEW j \in Job, AdoptRunning(j) PROVE Grows
  BY <1>22 DEF AdoptRunning, Adopt
<1>23. ASSUME NEW j \in Job, AdoptRunningFails(j) PROVE Grows
  BY <1>23 DEF AdoptRunningFails
<1>24. ASSUME NEW j \in Job, DiscardRunning(j) PROVE Grows
  BY <1>24 DEF DiscardRunning, Discard, DiscardFails
<1>25. ASSUME NEW j \in Job, DiscardCancelled(j) PROVE Grows
  BY <1>25 DEF DiscardCancelled, Discard, DiscardFails
<1>26. ASSUME NEW j \in Job, AdoptSucceeded(j) PROVE Grows
  BY <1>26 DEF AdoptSucceeded, Adopt
<1>27. ASSUME NEW j \in Job, DiscardSucceeded(j) PROVE Grows
  BY <1>27 DEF DiscardSucceeded, Discard, DiscardFails
<1>28. ASSUME NEW j \in Job, KeepUnverified(j) PROVE Grows
  BY <1>28 DEF KeepUnverified
<1>29. ASSUME NEW j \in Job, PassBy(j) PROVE Grows
  BY <1>29 DEF PassBy
<1>30. ASSUME NEW j \in Job, Expire(j) PROVE Grows
  BY <1>30 DEF Expire
<1>31. ASSUME NEW j \in Job, Cleanup(j) PROVE Grows
  BY <1>31 DEF Cleanup, Expel
<1>32. ASSUME Crash PROVE Grows
  BY <1>32 DEF Crash
<1>33. ASSUME Boot PROVE Grows
  BY <1>33 DEF Boot
<1>34. ASSUME Recover PROVE Grows
  BY <1>34 DEF Recover
<1>35. ASSUME NEW j \in Job, Collide(j) PROVE Grows
  BY <1>35 DEF Collide
<1>36. ASSUME NEW n \in Name, Meddle(n) PROVE Grows
  BY <1>36 DEF Meddle
<1>37. ASSUME NEW n \in Name, Reuse(n) PROVE Grows
  BY <1>37 DEF Reuse
<1>38. CASE UNCHANGED vars
  BY <1>38 DEF vars
<1>39. CASE Outsider
  BY <1>39, <1>35, <1>36, <1>37, NamesOfJobs DEF Outsider
<1> QED BY <1>1, <1>2, <1>3, <1>4, <1>5, <1>6, <1>7, <1>8, <1>9, <1>10, <1>11, <1>12, <1>13, <1>14, <1>15, <1>16, <1>17, <1>18, <1>19, <1>20, <1>21, <1>22, <1>23, <1>24, <1>25, <1>26, <1>27, <1>28, <1>29, <1>30, <1>31, <1>32, <1>33, <1>34, <1>38, <1>39
  DEF Next, RunStep, ClientStep, ReconcileStep

-----------------------------------------------------------------------------
(* What is left of jobs that did not succeed *)

LEMMA ClearedInit == Init => Cleared
BY DEF Init, Cleared, ClearedOf

\* Every step leaves nothing of a failed job, and a restart nothing of a cancelled one.
LEMMA ClearedStep ==
    Typed /\ Named /\ Phases /\ Accounts /\ Cleared /\ [Next]_vars => Cleared'
<1> SUFFICES ASSUME Typed, Named, Phases, Accounts, Cleared, [Next]_vars,
                    NEW k \in Job, k \notin skipped'
             PROVE  ClearedOf(k)'
  BY DEF Cleared
<1>a. ClearedOf(k) /\ leaked \subseteq leaked'
  BY HistoryGrows DEF Cleared
<1>b. Mine(k)' \subseteq Mine(k) \/ (pc[k] = "publish" /\ process = "up" /\ pc'[k] = "check")
  BY FilesStep DEF FilesMove
<1> USE DEF ClearedOf, disks, rows, store, boot, run, history
<1>1. ASSUME NEW j \in Job, Begin(j) PROVE ClearedOf(k)'
  BY <1>1, <1>a, <1>b DEF Begin, At, Goto, Phases, Accounts, Accounted, Undone, Exporting, Undoing, Typed
<1>2. ASSUME NEW j \in Job, Announce(j) PROVE ClearedOf(k)'
  BY <1>2, <1>a, <1>b DEF Announce, At, Goto, Phases, Accounts, Accounted, Undone, Exporting, Undoing, Typed
<1>3. ASSUME NEW j \in Job, SkipPart(j) PROVE ClearedOf(k)'
  BY <1>3, <1>a, <1>b DEF SkipPart, At, Goto, Phases, Accounts, Accounted, Undone, Exporting, Undoing, Typed
<1>4. ASSUME NEW j \in Job, Publish(j) PROVE ClearedOf(k)'
  BY <1>4, <1>a, <1>b DEF Publish, At, Goto, Phases, Accounts, Accounted, Undone, Exporting, Undoing, Typed
<1>5. ASSUME NEW j \in Job, Rename(j) PROVE ClearedOf(k)'
  BY <1>5, <1>a, <1>b DEF Rename, At, Goto, Phases, Accounts, Accounted, Undone, Exporting, Undoing, Typed
<1>6. ASSUME NEW j \in Job, Check(j) PROVE ClearedOf(k)'
  BY <1>6, <1>a, <1>b DEF Check, At, Goto, Phases, Accounts, Accounted, Undone, Exporting, Undoing, Typed
<1>7. ASSUME NEW j \in Job, Commit(j) PROVE ClearedOf(k)'
  BY <1>7, <1>a, <1>b DEF Commit, At, Goto, Phases, Accounts, Accounted, Undone, Exporting, Undoing, Typed
<1>8. ASSUME NEW j \in Job, Fail(j) PROVE ClearedOf(k)'
  BY <1>8, <1>a, <1>b DEF Fail, Working, Goto, Phases, Accounts, Accounted, Undone, Exporting, Undoing, Typed
<1>9. ASSUME NEW j \in Job, Disown(j) PROVE ClearedOf(k)'
  BY <1>9, <1>a, <1>b DEF Disown, At, Goto, RemoveManifest, Phases, Accounts, Accounted, Undone, Exporting, Undoing, Typed
<1>10. ASSUME NEW j \in Job, TakeBack(j) PROVE ClearedOf(k)'
  BY <1>10, <1>a, <1>b DEF TakeBack, At, Goto, Phases, Accounts, Accounted, Undone, Exporting, Undoing, Typed
<1>11. ASSUME NEW j \in Job, Save(j) PROVE ClearedOf(k)'
  BY <1>11, <1>a, <1>b DEF Save, At, Goto, SetRow, Phases, Accounts, Accounted, Undone, Exporting, Undoing, Typed
<1>12. ASSUME NEW j \in Job, SaveTimesOut(j) PROVE ClearedOf(k)'
  BY <1>12, <1>a, <1>b DEF SaveTimesOut, At, Goto, Phases, Accounts, Accounted, Undone, Exporting, Undoing, Typed
<1>13. ASSUME NEW j \in Job, SaveRefused(j) PROVE ClearedOf(k)'
  BY <1>13, <1>a, <1>b DEF SaveRefused, At, Goto, Remove, Phases, Accounts, Accounted, Undone, Exporting, Undoing, Typed
<1>14. ASSUME NEW j \in Job, SaveAbandoned(j) PROVE ClearedOf(k)'
  BY <1>14, <1>a, <1>b DEF SaveAbandoned, At, Goto, Phases, Accounts, Accounted, Undone, Exporting, Undoing, Typed
<1>15. ASSUME NEW j \in Job, GiveUp(j) PROVE ClearedOf(k)'
  BY <1>15, <1>a, <1>b DEF GiveUp, At, Goto, Phases, Accounts, Accounted, Undone, Exporting, Undoing, Typed
<1>16. ASSUME NEW j \in Job, ReportFailure(j) PROVE ClearedOf(k)'
  BY <1>16, <1>a, <1>b DEF ReportFailure, At, Goto, SetRow, Phases, Accounts, Accounted, Undone, Exporting, Undoing, Typed
<1>17. ASSUME NEW j \in Job, Cancel(j) PROVE ClearedOf(k)'
  BY <1>17, <1>a, <1>b DEF Cancel, SetRow, Phases, Accounts, Accounted, Undone, Exporting, Undoing, Typed
<1>18. ASSUME NEW j \in Job, AskDownload(j) PROVE ClearedOf(k)'
  BY <1>18, <1>a, <1>b DEF AskDownload, Phases, Accounts, Accounted, Undone, Exporting, Undoing, Typed
<1>19. ASSUME NEW j \in Job, Open(j) PROVE ClearedOf(k)'
  BY <1>19, <1>a, <1>b DEF Open, Phases, Accounts, Accounted, Undone, Exporting, Undoing, Typed
<1>20. ASSUME NEW j \in Job, Refuse(j) PROVE ClearedOf(k)'
  BY <1>20, <1>a, <1>b DEF Refuse, Phases, Accounts, Accounted, Undone, Exporting, Undoing, Typed
<1>21. ASSUME NEW j \in Job, Close(j) PROVE ClearedOf(k)'
  BY <1>21, <1>a, <1>b DEF Close, Phases, Accounts, Accounted, Undone, Exporting, Undoing, Typed
<1>22. ASSUME NEW j \in Job, AdoptRunning(j) PROVE ClearedOf(k)'
  BY <1>22, <1>a, <1>b DEF AdoptRunning, Adopt, SetRow, Visits, Owned, Phases, Accounts, Accounted, Undone, Exporting, Undoing, Typed
<1>23. ASSUME NEW j \in Job, AdoptRunningFails(j) PROVE ClearedOf(k)'
  BY <1>23, <1>a, <1>b DEF AdoptRunningFails, Forget, SetRow, Visits, Owned, Phases, Accounts, Accounted, Undone, Exporting, Undoing, Typed
<1>24. ASSUME NEW j \in Job, DiscardRunning(j) PROVE ClearedOf(k)'
  <2>1. CASE Discard(j)
    <3>1. Mine(j)' = Mine(j) \ Lists(j)
      BY <2>1, MineWithout DEF Discard
    <3>2. Mine(j)' \subseteq leaked
      BY <1>24, <3>1 DEF DiscardRunning, Visits, Lists, Phases, Accounts, Accounted
    <3> QED BY <1>24, <2>1, <3>2, <1>a, <1>b DEF DiscardRunning, Discard, Visits, Phases
  <2>2. CASE DiscardFails(j)
    BY <1>24, <2>2, <1>a, <1>b DEF DiscardRunning, DiscardFails, Forget, Visits, Phases
  <2> QED BY <1>24, <2>1, <2>2 DEF DiscardRunning
<1>25. ASSUME NEW j \in Job, DiscardCancelled(j) PROVE ClearedOf(k)'
  <2>1. CASE Discard(j)
    <3>1. Mine(j)' = Mine(j) \ Lists(j)
      BY <2>1, MineWithout DEF Discard
    <3>2. Mine(j)' \subseteq leaked
      BY <1>25, <3>1 DEF DiscardCancelled, Visits, Lists, Phases, Accounts, Accounted
    <3> QED BY <1>25, <2>1, <3>2, <1>a, <1>b DEF DiscardCancelled, Discard, Visits, Phases
  <2>2. CASE DiscardFails(j)
    BY <1>25, <2>2, <1>a, <1>b DEF DiscardCancelled, DiscardFails, Forget, Visits, Phases
  <2> QED BY <1>25, <2>1, <2>2 DEF DiscardCancelled
<1>26. ASSUME NEW j \in Job, AdoptSucceeded(j) PROVE ClearedOf(k)'
  BY <1>26, <1>a, <1>b DEF AdoptSucceeded, Adopt, Visits, Owned, Phases, Accounts, Accounted, Undone, Exporting, Undoing, Typed
<1>27. ASSUME NEW j \in Job, DiscardSucceeded(j) PROVE ClearedOf(k)'
  <2>1. CASE Discard(j)
    <3>1. Mine(j)' = Mine(j) \ Lists(j)
      BY <2>1, MineWithout DEF Discard
    <3>2. Mine(j)' \subseteq leaked
      BY <1>27, <3>1 DEF DiscardSucceeded, Visits, Lists, Phases, Accounts, Accounted
    <3> QED BY <1>27, <2>1, <3>2, <1>a, <1>b DEF DiscardSucceeded, Discard, Visits, Phases
  <2>2. CASE DiscardFails(j)
    BY <1>27, <2>2, <1>a, <1>b DEF DiscardSucceeded, DiscardFails, Forget, Visits, Phases
  <2> QED BY <1>27, <2>1, <2>2 DEF DiscardSucceeded
<1>28. ASSUME NEW j \in Job, KeepUnverified(j) PROVE ClearedOf(k)'
  BY <1>28, <1>a, <1>b DEF KeepUnverified, Visits, Phases, Accounts, Accounted, Undone, Exporting, Undoing, Typed
<1>29. ASSUME NEW j \in Job, PassBy(j) PROVE ClearedOf(k)'
  BY <1>29, <1>a, <1>b DEF PassBy, Visits, Phases, Accounts, Accounted, Undone, Exporting, Undoing, Typed
<1>30. ASSUME NEW j \in Job, Expire(j) PROVE ClearedOf(k)'
  BY <1>30, <1>a, <1>b DEF Expire, Phases, Accounts, Accounted, Undone, Exporting, Undoing, Typed
<1>31. ASSUME NEW j \in Job, Cleanup(j) PROVE ClearedOf(k)'
  BY <1>31, <1>a, <1>b DEF Cleanup, Due, Expel, RemoveManifest, Kept, Removable, Phases, Accounts, Accounted, Undone, Exporting, Undoing, Typed
<1>32. ASSUME Crash PROVE ClearedOf(k)'
  BY <1>32, <1>a, <1>b DEF Crash, Forget, Phases, Accounts, Accounted, Undone, Exporting, Undoing, Typed
<1>33. ASSUME Boot PROVE ClearedOf(k)'
  BY <1>33, <1>a, <1>b DEF Boot, Phases, Accounts, Accounted, Undone, Exporting, Undoing, Typed
<1>34. ASSUME Recover PROVE ClearedOf(k)'
  BY <1>34, <1>a, <1>b DEF Recover, Visits, Phases, Accounts, Accounted, Undone, Exporting, Undoing, Typed
<1>35. ASSUME NEW j \in Job, Collide(j) PROVE ClearedOf(k)'
  BY <1>35, <1>a, <1>b DEF Collide
<1>36. ASSUME NEW n \in Name, Meddle(n) PROVE ClearedOf(k)'
  BY <1>36, <1>a, <1>b DEF Meddle
<1>37. ASSUME NEW n \in Name, Reuse(n) PROVE ClearedOf(k)'
  BY <1>37, <1>a, <1>b DEF Reuse
<1>38. CASE UNCHANGED vars
  BY <1>38, <1>a, <1>b DEF vars
<1>39. CASE Outsider
  BY <1>39, <1>35, <1>36, <1>37, NamesOfJobs DEF Outsider
<1> QED BY <1>1, <1>2, <1>3, <1>4, <1>5, <1>6, <1>7, <1>8, <1>9, <1>10, <1>11, <1>12, <1>13, <1>14, <1>15, <1>16, <1>17, <1>18, <1>19, <1>20, <1>21, <1>22, <1>23, <1>24, <1>25, <1>26, <1>27, <1>28, <1>29, <1>30, <1>31, <1>32, <1>33, <1>34, <1>38, <1>39
  DEF Next, RunStep, ClientStep, ReconcileStep

-----------------------------------------------------------------------------
(* What a success has kept *)

LEMMA PresentInit == Init => Present
BY DEF Init, Present, PresentOf, Exporting, Saving

\* A job of which a step removes files only as far as it may.
LEMMA PresentElsewhere ==
    ASSUME NEW k \in Job, Phases, PresentOf(k), Mine(k) \subseteq Mine(k)' \cup meddled' \/ MayClear(k),
           process = "up", meddled \subseteq meddled', expired' = expired, manifest'[k] \subseteq manifest[k],
           row'[k] = row[k], result'[k] = result[k], pc'[k] = pc[k], published'[k] = published[k]
    PROVE  PresentOf(k)'
<1>1. CASE Mine(k) \subseteq Mine(k)' \cup meddled'
  BY <1>1 DEF PresentOf
<1>2. CASE MayClear(k)
  <2>1. k \in expired \/ (pc[k] \notin Exporting \cup Saving /\ row[k] # "succeeded")
    BY <1>2 DEF MayClear, Due, Visits, Phases, Exporting, Saving, Undoing
  <2> QED BY <2>1 DEF PresentOf
<1> QED BY <1>1, <1>2

\* Every step keeps what was published until it expires or somebody else takes it.
LEMMA PresentStep ==
    Typed /\ Named /\ Phases /\ Present /\ [Next]_vars => Present'
<1> SUFFICES ASSUME Typed, Named, Phases, Present, [Next]_vars, NEW k \in Job
             PROVE  PresentOf(k)'
  BY DEF Present
<1>a. PresentOf(k) /\ meddled \subseteq meddled'
  BY HistoryGrows DEF Present
<1>b. FilesMove(k)
  BY FilesStep
<1> USE DEF PresentOf, Exporting, Saving, disks, rows, store, boot, run, history
<1>1. ASSUME NEW j \in Job, Begin(j) PROVE PresentOf(k)'
  <2>1. Mine(k)' = Mine(k)
    BY <1>1, MineSame DEF Begin
  <2> QED BY <1>1, <2>1, <1>a DEF Begin, At, Goto, Phases, Typed
<1>2. ASSUME NEW j \in Job, Announce(j) PROVE PresentOf(k)'
  <2>1. Mine(k)' = Mine(k)
    BY <1>2, MineSame DEF Announce
  <2> QED BY <1>2, <2>1, <1>a DEF Announce, At, Goto, Phases, Typed
<1>3. ASSUME NEW j \in Job, SkipPart(j) PROVE PresentOf(k)'
  <2>1. Mine(k)' = Mine(k)
    BY <1>3, MineSame DEF SkipPart
  <2> QED BY <1>3, <2>1, <1>a DEF SkipPart, At, Goto, Phases, Typed
<1>4. ASSUME NEW j \in Job, Publish(j) PROVE PresentOf(k)'
  <2> DEFINE n == Current(j, First(todo[j]))
  <2>1. n \in NamesOf(j)
    BY <1>4, FirstIn, CurrentNamed DEF Publish, At, Named, Typed
  <2>2. Mine(k)' = IF k = j THEN Mine(k) \cup {n} ELSE Mine(k)
    BY <1>4, <2>1, MineMore DEF Publish
  <2>3. published'[k] = IF k = j THEN published[k] \cup {n} ELSE published[k]
    BY <1>4 DEF Publish, Typed
  <2> HIDE DEF n
  <2> QED BY <1>4, <2>2, <2>3, <1>a DEF Publish, At, Goto, Phases, Typed
<1>5. ASSUME NEW j \in Job, Rename(j) PROVE PresentOf(k)'
  <2>1. Mine(k)' = Mine(k)
    BY <1>5, MineSame DEF Rename
  <2> QED BY <1>5, <2>1, <1>a DEF Rename, At, Goto, Phases, Typed
<1>6. ASSUME NEW j \in Job, Check(j) PROVE PresentOf(k)'
  <2>1. Mine(k)' = Mine(k)
    BY <1>6, MineSame DEF Check
  <2> QED BY <1>6, <2>1, <1>a DEF Check, At, Goto, Phases, Typed
<1>7. ASSUME NEW j \in Job, Commit(j) PROVE PresentOf(k)'
  <2>1. Mine(k)' = Mine(k)
    BY <1>7, MineSame DEF Commit
  <2> QED BY <1>7, <2>1, <1>a DEF Commit, At, Goto, Phases, Typed
<1>8. ASSUME NEW j \in Job, Fail(j) PROVE PresentOf(k)'
  <2>1. Mine(k)' = Mine(k)
    BY <1>8, MineSame DEF Fail
  <2> QED BY <1>8, <2>1, <1>a DEF Fail, Working, Goto, Phases, Typed
<1>9. ASSUME NEW j \in Job, Disown(j) PROVE PresentOf(k)'
  <2>1. Mine(k)' = Mine(k)
    BY <1>9, MineSame DEF Disown
  <2> QED BY <1>9, <2>1, <1>a DEF Disown, At, Goto, RemoveManifest, Phases, Typed
<1>10. ASSUME NEW j \in Job, TakeBack(j) PROVE PresentOf(k)'
  <2>1. Mine(k) \subseteq Mine(k)' \cup meddled' \/ MayClear(k)
    BY <1>b DEF FilesMove
  <2>2. CASE k # j
    BY <1>10, <2>1, <2>2, <1>a, PresentElsewhere DEF TakeBack, At, Goto, Typed
  <2>3. CASE k = j
    <3>1. pc'[j] \in {"error", "disown"} /\ row'[j] = row[j] /\ row[j] # "succeeded"
      BY <1>10 DEF TakeBack, At, Goto, Phases, Undoing, Typed
    <3> QED BY <2>3, <3>1
  <2> QED BY <2>2, <2>3
<1>11. ASSUME NEW j \in Job, Save(j) PROVE PresentOf(k)'
  <2>1. Mine(k)' = Mine(k)
    BY <1>11, MineSame DEF Save
  <2> QED BY <1>11, <2>1, <1>a DEF Save, At, Goto, SetRow, Phases, Typed
<1>12. ASSUME NEW j \in Job, SaveTimesOut(j) PROVE PresentOf(k)'
  <2>1. Mine(k)' = Mine(k)
    BY <1>12, MineSame DEF SaveTimesOut
  <2> QED BY <1>12, <2>1, <1>a DEF SaveTimesOut, At, Goto, Phases, Typed
<1>13. ASSUME NEW j \in Job, SaveRefused(j) PROVE PresentOf(k)'
  <2>1. Mine(k) \subseteq Mine(k)' \cup meddled' \/ MayClear(k)
    BY <1>b DEF FilesMove
  <2>2. CASE k # j
    BY <1>13, <2>1, <2>2, <1>a, PresentElsewhere DEF SaveRefused, At, Goto, Remove, Typed
  <2>3. CASE k = j
    BY <1>13, <2>1, <2>3, <1>a DEF SaveRefused, At, Goto, Remove, Phases, Typed
  <2> QED BY <2>2, <2>3
<1>14. ASSUME NEW j \in Job, SaveAbandoned(j) PROVE PresentOf(k)'
  <2>1. Mine(k)' = Mine(k)
    BY <1>14, MineSame DEF SaveAbandoned
  <2> QED BY <1>14, <2>1, <1>a DEF SaveAbandoned, At, Goto, Phases, Typed
<1>15. ASSUME NEW j \in Job, GiveUp(j) PROVE PresentOf(k)'
  <2>1. Mine(k)' = Mine(k)
    BY <1>15, MineSame DEF GiveUp
  <2> QED BY <1>15, <2>1, <1>a DEF GiveUp, At, Goto, Phases, Typed
<1>16. ASSUME NEW j \in Job, ReportFailure(j) PROVE PresentOf(k)'
  <2>1. Mine(k)' = Mine(k)
    BY <1>16, MineSame DEF ReportFailure
  <2> QED BY <1>16, <2>1, <1>a DEF ReportFailure, At, Goto, SetRow, Phases, Typed
<1>17. ASSUME NEW j \in Job, Cancel(j) PROVE PresentOf(k)'
  <2>1. Mine(k)' = Mine(k)
    BY <1>17, MineSame DEF Cancel
  <2> QED BY <1>17, <2>1, <1>a DEF Cancel, SetRow, Phases, Typed
<1>18. ASSUME NEW j \in Job, AskDownload(j) PROVE PresentOf(k)'
  <2>1. Mine(k)' = Mine(k)
    BY <1>18, MineSame DEF AskDownload
  <2> QED BY <1>18, <2>1, <1>a DEF AskDownload, Phases, Typed
<1>19. ASSUME NEW j \in Job, Open(j) PROVE PresentOf(k)'
  <2>1. Mine(k)' = Mine(k)
    BY <1>19, MineSame DEF Open
  <2> QED BY <1>19, <2>1, <1>a DEF Open, Phases, Typed
<1>20. ASSUME NEW j \in Job, Refuse(j) PROVE PresentOf(k)'
  <2>1. Mine(k)' = Mine(k)
    BY <1>20, MineSame DEF Refuse
  <2> QED BY <1>20, <2>1, <1>a DEF Refuse, Phases, Typed
<1>21. ASSUME NEW j \in Job, Close(j) PROVE PresentOf(k)'
  <2>1. Mine(k)' = Mine(k)
    BY <1>21, MineSame DEF Close
  <2> QED BY <1>21, <2>1, <1>a DEF Close, Phases, Typed
<1>22. ASSUME NEW j \in Job, AdoptRunning(j) PROVE PresentOf(k)'
  <2>1. Mine(k)' = Mine(k)
    BY <1>22, MineSame DEF AdoptRunning, Adopt
  <2> QED BY <1>22, <2>1, <1>a DEF AdoptRunning, Adopt, SetRow, Visits, Owned, Phases, Typed
<1>23. ASSUME NEW j \in Job, AdoptRunningFails(j) PROVE PresentOf(k)'
  <2>1. Mine(k)' = Mine(k)
    BY <1>23, MineSame DEF AdoptRunningFails
  <2>2. CASE UNCHANGED rows
    BY <1>23, <2>1, <2>2, <1>a DEF AdoptRunningFails, Forget, Typed
  <2>3. CASE row' = [row EXCEPT ![j] = "succeeded"] /\ result' = [result EXCEPT ![j] = manifest[j]]
    BY <1>23, <2>1, <2>3, <1>a DEF AdoptRunningFails, Forget, Visits, Owned, Typed
  <2> QED BY <1>23, <2>2, <2>3 DEF AdoptRunningFails, SetRow
<1>24. ASSUME NEW j \in Job, DiscardRunning(j) PROVE PresentOf(k)'
  <2>1. Mine(k) \subseteq Mine(k)' \cup meddled' \/ MayClear(k)
    BY <1>b DEF FilesMove
  <2>2. CASE Discard(j)
    BY <1>24, <2>1, <2>2, <1>a DEF DiscardRunning, Discard, RemoveManifest, Visits, Owned, MayClear, Phases, Typed
  <2>3. CASE DiscardFails(j)
    BY <1>24, <2>1, <2>3, <1>a DEF DiscardRunning, DiscardFails, Forget, Visits, Owned, MayClear, Phases, Typed
  <2> QED BY <1>24, <2>2, <2>3 DEF DiscardRunning
<1>25. ASSUME NEW j \in Job, DiscardCancelled(j) PROVE PresentOf(k)'
  <2>1. Mine(k) \subseteq Mine(k)' \cup meddled' \/ MayClear(k)
    BY <1>b DEF FilesMove
  <2>2. CASE Discard(j)
    BY <1>25, <2>1, <2>2, <1>a DEF DiscardCancelled, Discard, RemoveManifest, Visits, Owned, MayClear, Phases, Typed
  <2>3. CASE DiscardFails(j)
    BY <1>25, <2>1, <2>3, <1>a DEF DiscardCancelled, DiscardFails, Forget, Visits, Owned, MayClear, Phases, Typed
  <2> QED BY <1>25, <2>2, <2>3 DEF DiscardCancelled
<1>26. ASSUME NEW j \in Job, AdoptSucceeded(j) PROVE PresentOf(k)'
  <2>1. Mine(k)' = Mine(k)
    BY <1>26, MineSame DEF AdoptSucceeded, Adopt
  <2> QED BY <1>26, <2>1, <1>a DEF AdoptSucceeded, Adopt, Visits, Owned, Phases, Typed
<1>27. ASSUME NEW j \in Job, DiscardSucceeded(j) PROVE PresentOf(k)'
  <2>1. Mine(k) \subseteq Mine(k)' \cup meddled' \/ MayClear(k)
    BY <1>b DEF FilesMove
  <2>2. CASE Discard(j)
    BY <1>27, <2>1, <2>2, <1>a DEF DiscardSucceeded, Discard, RemoveManifest, Visits, Owned, MayClear, Phases, Typed
  <2>3. CASE DiscardFails(j)
    BY <1>27, <2>1, <2>3, <1>a DEF DiscardSucceeded, DiscardFails, Forget, Visits, Owned, MayClear, Phases, Typed
  <2> QED BY <1>27, <2>2, <2>3 DEF DiscardSucceeded
<1>28. ASSUME NEW j \in Job, KeepUnverified(j) PROVE PresentOf(k)'
  <2>1. Mine(k)' = Mine(k)
    BY <1>28, MineSame DEF KeepUnverified
  <2> QED BY <1>28, <2>1, <1>a DEF KeepUnverified, Visits, Phases, Typed
<1>29. ASSUME NEW j \in Job, PassBy(j) PROVE PresentOf(k)'
  <2>1. Mine(k)' = Mine(k)
    BY <1>29, MineSame DEF PassBy
  <2> QED BY <1>29, <2>1, <1>a DEF PassBy, Visits, Phases, Typed
<1>30. ASSUME NEW j \in Job, Expire(j) PROVE PresentOf(k)'
  <2>1. Mine(k)' = Mine(k)
    BY <1>30, MineSame DEF Expire
  <2> QED BY <1>30, <2>1, <1>a DEF Expire, Phases, Typed
<1>31. ASSUME NEW j \in Job, Cleanup(j) PROVE PresentOf(k)'
  <2>1. Mine(k) \subseteq Mine(k)' \cup meddled' \/ MayClear(k)
    BY <1>b DEF FilesMove
  <2>2. CASE k # j
    <3>1. process = "up" /\ UNCHANGED <<rows, expired, run, history>>
      BY <1>31 DEF Cleanup, Expel
    <3>2. manifest'[k] = manifest[k]
      BY <1>31, <2>2 DEF Cleanup, Expel, RemoveManifest, Typed
    <3> QED BY <2>1, <2>2, <3>1, <3>2, <1>a, PresentElsewhere
  <2>3. CASE k = j
    <3>1. /\ j \in expired' /\ UNCHANGED <<rows, pc, published>>
          /\ pc[j] \notin Exporting \cup Undoing
      BY <1>31, <2>3 DEF Cleanup, Due, Expel, Phases
    <3>2. manifest'[j] \subseteq manifest[j]
      BY <1>31 DEF Cleanup, Expel, RemoveManifest, Typed
    <3> QED BY <2>3, <3>1, <3>2, <1>a
  <2> QED BY <2>2, <2>3
<1>32. ASSUME Crash PROVE PresentOf(k)'
  <2>1. Mine(k)' = Mine(k)
    BY <1>32, MineSame DEF Crash
  <2> QED BY <1>32, <2>1, <1>a DEF Crash, Forget, Phases, Typed
<1>33. ASSUME Boot PROVE PresentOf(k)'
  <2>1. Mine(k)' = Mine(k)
    BY <1>33, MineSame DEF Boot
  <2> QED BY <1>33, <2>1, <1>a DEF Boot, Phases, Typed
<1>34. ASSUME Recover PROVE PresentOf(k)'
  <2>1. Mine(k)' = Mine(k)
    BY <1>34, MineSame DEF Recover
  <2>2. row'[k] = "succeeded" => row[k] = "succeeded"
    BY <1>34 DEF Recover
  <2>3. UNCHANGED <<manifest, result, expired, run, history>>
    BY <1>34 DEF Recover
  <2> QED BY <2>1, <2>2, <2>3, <1>a
<1>35. ASSUME NEW j \in Job, Collide(j) PROVE PresentOf(k)'
  <2>1. PICK m \in Name, x \in {"none", "foreign"} : disk' = [disk EXCEPT ![m] = x] /\ m \in meddled'
    BY <1>35, Collided
  <2>2. Mine(k)' = Mine(k) \ {m}
    BY <2>1, MineTaken
  <2> QED BY <1>35, <2>1, <2>2, <1>a DEF Collide
<1>36. ASSUME NEW n \in Name, Meddle(n) PROVE PresentOf(k)'
  <2>1. PICK m \in Name, x \in {"none", "foreign"} : disk' = [disk EXCEPT ![m] = x] /\ m \in meddled'
    BY <1>36, CurrentNamed DEF Meddle, Named, NamesOf
  <2>2. Mine(k)' = Mine(k) \ {m}
    BY <2>1, MineTaken
  <2> QED BY <1>36, <2>1, <2>2, <1>a DEF Meddle
<1>37. ASSUME NEW n \in Name, Reuse(n) PROVE PresentOf(k)'
  <2>1. PICK m \in Name, x \in {"none", "foreign"} : disk' = [disk EXCEPT ![m] = x] /\ m \in meddled'
    BY <1>37, CurrentNamed DEF Reuse, Named, NamesOf
  <2>2. Mine(k)' = Mine(k) \ {m}
    BY <2>1, MineTaken
  <2> QED BY <1>37, <2>1, <2>2, <1>a DEF Reuse
<1>38. CASE UNCHANGED vars
  <2>1. Mine(k)' = Mine(k)
    BY <1>38, MineSame DEF vars
  <2> QED BY <1>38, <2>1, <1>a DEF vars
<1>39. CASE Outsider
  BY <1>39, <1>35, <1>36, <1>37, NamesOfJobs DEF Outsider
<1> QED BY <1>1, <1>2, <1>3, <1>4, <1>5, <1>6, <1>7, <1>8, <1>9, <1>10, <1>11, <1>12, <1>13, <1>14, <1>15, <1>16, <1>17, <1>18, <1>19, <1>20, <1>21, <1>22, <1>23, <1>24, <1>25, <1>26, <1>27, <1>28, <1>29, <1>30, <1>31, <1>32, <1>33, <1>34, <1>38, <1>39
  DEF Next, RunStep, ClientStep, ReconcileStep

-----------------------------------------------------------------------------
(* Files of others *)

Foreign(n) == disk[n] = "foreign" /\ disk'[n] # "foreign"

\* Without removes nothing but what it is told.
LEMMA WithoutKeeps ==
    ASSUME Typed, NEW S, disk' = Without(S), NEW n \in Name, Foreign(n)
    PROVE  n \in S
BY DEF Typed, Without, Foreign

\* The one step that removes a foreign file is the expiry of an entry without a
\* manifest.
LEMMA ForeignStep ==
    ASSUME Typed, Named, [Next]_vars, NEW n \in Name, Foreign(n)
    PROVE  n \in entry[n[1]] /\ n[1] \notin registered
<1> DEFINE Goal == n \in entry[n[1]] /\ n[1] \notin registered
<1> USE DEF Foreign, disks, rows, store, boot, run, history
<1>1. ASSUME NEW j \in Job, Begin(j) PROVE Goal
  BY <1>1 DEF Begin
<1>2. ASSUME NEW j \in Job, Announce(j) PROVE Goal
  BY <1>2 DEF Announce
<1>3. ASSUME NEW j \in Job, SkipPart(j) PROVE Goal
  BY <1>3 DEF SkipPart
<1>4. ASSUME NEW j \in Job, Publish(j) PROVE Goal
  BY <1>4 DEF Publish, Typed
<1>5. ASSUME NEW j \in Job, Rename(j) PROVE Goal
  BY <1>5 DEF Rename
<1>6. ASSUME NEW j \in Job, Check(j) PROVE Goal
  BY <1>6 DEF Check
<1>7. ASSUME NEW j \in Job, Commit(j) PROVE Goal
  BY <1>7 DEF Commit
<1>8. ASSUME NEW j \in Job, Fail(j) PROVE Goal
  BY <1>8 DEF Fail
<1>9. ASSUME NEW j \in Job, Disown(j) PROVE Goal
  BY <1>9 DEF Disown
<1>10. ASSUME NEW j \in Job, TakeBack(j) PROVE Goal
  BY <1>10, WithoutKeeps DEF TakeBack, Mine
<1>11. ASSUME NEW j \in Job, Save(j) PROVE Goal
  BY <1>11 DEF Save
<1>12. ASSUME NEW j \in Job, SaveTimesOut(j) PROVE Goal
  BY <1>12 DEF SaveTimesOut
<1>13. ASSUME NEW j \in Job, SaveRefused(j) PROVE Goal
  BY <1>13, WithoutKeeps DEF SaveRefused, Remove, Lists, Mine
<1>14. ASSUME NEW j \in Job, SaveAbandoned(j) PROVE Goal
  BY <1>14 DEF SaveAbandoned
<1>15. ASSUME NEW j \in Job, GiveUp(j) PROVE Goal
  BY <1>15 DEF GiveUp
<1>16. ASSUME NEW j \in Job, ReportFailure(j) PROVE Goal
  BY <1>16 DEF ReportFailure
<1>17. ASSUME NEW j \in Job, Cancel(j) PROVE Goal
  BY <1>17 DEF Cancel
<1>18. ASSUME NEW j \in Job, AskDownload(j) PROVE Goal
  BY <1>18 DEF AskDownload
<1>19. ASSUME NEW j \in Job, Open(j) PROVE Goal
  BY <1>19 DEF Open
<1>20. ASSUME NEW j \in Job, Refuse(j) PROVE Goal
  BY <1>20 DEF Refuse
<1>21. ASSUME NEW j \in Job, Close(j) PROVE Goal
  BY <1>21 DEF Close
<1>22. ASSUME NEW j \in Job, AdoptRunning(j) PROVE Goal
  BY <1>22 DEF AdoptRunning, Adopt
<1>23. ASSUME NEW j \in Job, AdoptRunningFails(j) PROVE Goal
  BY <1>23 DEF AdoptRunningFails
<1>24. ASSUME NEW j \in Job, DiscardRunning(j) PROVE Goal
  BY <1>24, WithoutKeeps DEF DiscardRunning, Discard, DiscardFails, Lists, Mine
<1>25. ASSUME NEW j \in Job, DiscardCancelled(j) PROVE Goal
  BY <1>25, WithoutKeeps DEF DiscardCancelled, Discard, DiscardFails, Lists, Mine
<1>26. ASSUME NEW j \in Job, AdoptSucceeded(j) PROVE Goal
  BY <1>26 DEF AdoptSucceeded, Adopt
<1>27. ASSUME NEW j \in Job, DiscardSucceeded(j) PROVE Goal
  BY <1>27, WithoutKeeps DEF DiscardSucceeded, Discard, DiscardFails, Lists, Mine
<1>28. ASSUME NEW j \in Job, KeepUnverified(j) PROVE Goal
  BY <1>28 DEF KeepUnverified
<1>29. ASSUME NEW j \in Job, PassBy(j) PROVE Goal
  BY <1>29 DEF PassBy
<1>30. ASSUME NEW j \in Job, Expire(j) PROVE Goal
  BY <1>30 DEF Expire
<1>31. ASSUME NEW j \in Job, Cleanup(j) PROVE Goal
  <2>1. PICK gone \in SUBSET Removable(j) : disk' = Without(gone)
    BY <1>31 DEF Cleanup, Expel
  <2>2. n \in Removable(j) /\ disk[n] # "ours"
    BY <2>1, WithoutKeeps
  <2>3. n \in entry[j] /\ j \notin registered
    BY <2>2 DEF Removable, Lists, Mine
  <2>4. n[1] = j
    BY <2>3 DEF Named, NamesOf
  <2> QED BY <2>3, <2>4
<1>32. ASSUME Crash PROVE Goal
  BY <1>32 DEF Crash
<1>33. ASSUME Boot PROVE Goal
  BY <1>33 DEF Boot
<1>34. ASSUME Recover PROVE Goal
  BY <1>34 DEF Recover
<1>35. ASSUME NEW j \in Job, Collide(j) PROVE Goal
  BY <1>35 DEF Collide, Typed
<1>36. ASSUME NEW m \in Name, Meddle(m) PROVE Goal
  BY <1>36 DEF Meddle, Typed
<1>37. ASSUME NEW m \in Name, Reuse(m) PROVE Goal
  BY <1>37 DEF Reuse, Typed
<1>38. CASE UNCHANGED vars
  BY <1>38 DEF vars
<1>39. CASE Outsider
  BY <1>39, <1>35, <1>36, <1>37, NamesOfJobs DEF Outsider
<1> QED BY <1>1, <1>2, <1>3, <1>4, <1>5, <1>6, <1>7, <1>8, <1>9, <1>10, <1>11, <1>12, <1>13, <1>14, <1>15, <1>16, <1>17, <1>18, <1>19, <1>20, <1>21, <1>22, <1>23, <1>24, <1>25, <1>26, <1>27, <1>28, <1>29, <1>30, <1>31, <1>32, <1>33, <1>34, <1>38, <1>39
  DEF Next, RunStep, ClientStep, ReconcileStep

-----------------------------------------------------------------------------
(* The theorems *)

IInv == Typed /\ Named /\ Phases /\ Accounts /\ Cleared /\ Present

LEMMA IInvInit == Init => IInv
BY TypedInit, PhasesInit, AccountsInit, ClearedInit, PresentInit DEF IInv

LEMMA IInvStep == IInv /\ [Next]_vars => IInv'
BY TypedStep, NamedStep, PhasesStep, AccountsStep, ClearedStep, PresentStep DEF IInv

LEMMA Invariance == Spec => []IInv
BY IInvInit, IInvStep, PTL DEF Spec

\* Every variable keeps its type, and the names in a manifest, an entry or a result are
\* those of its own job: no job ever lists, serves or removes a file of another.
THEOREM TypeCorrect == Spec => [](Typed /\ Named)
<1>1. IInv => Typed /\ Named
  BY DEF IInv
<1> QED BY <1>1, Invariance, PTL

\* A published file is listed in the manifest of its job (WriteManifest in
\* Run), but for what a roll-back leaked and while a merge is taken back.
THEOREM EvidenceKept == Spec => []Evidence
<1>1. IInv => Evidence
  BY DEF IInv, Accounts, Accounted, Evidence
<1> QED BY <1>1, Invariance, PTL

\* A failed export, and after a restart a cancelled one, has left no files, but for what
\* leaked and for manifests that Reconcile could not read.
THEOREM FailuresLeaveNothing == Spec => []FailedLeavesNothing
<1>1. IInv => FailedLeavesNothing
  BY DEF IInv, Cleared, ClearedOf, FailedLeavesNothing
<1> QED BY <1>1, Invariance, PTL

\* What a success reports is there until it expires or somebody else takes it, through
\* retries, cancellations, clean-ups and restarts.
THEOREM SuccessesKeepFiles == Spec => []SuccessKeepsFiles
<1>1. IInv => SuccessKeepsFiles
  BY DEF IInv, Present, PresentOf, SuccessKeepsFiles
<1> QED BY <1>1, Invariance, PTL

\* No step removes a file of a job that is being downloaded: Cleanup counts open
\* downloads, and every other removal is of a job without any.
THEOREM DownloadsAreSafe == Spec => DownloadsKeepFiles
<1>1. ASSUME IInv, [Next]_vars, NEW n \in Name, disk[n] = "ours", disk'[n] # "ours", active[n[1]] > 0
      PROVE  n \in meddled'
  <2>1. n[1] \in Job /\ n \in Mine(n[1]) /\ n \notin Mine(n[1])'
    BY <1>1, NamesOfJobs DEF Mine
  <2>2. n \in meddled' \/ MayClear(n[1])
    BY <1>1, <2>1, FilesStep DEF IInv, FilesMove
  <2>3. ~MayClear(n[1])
    <3>1. active[n[1]] # 0
      BY <1>1
    <3>2. process = "up" /\ row[n[1]] = "succeeded"
      BY <1>1, <2>1, <3>1 DEF IInv, Phases
    <3> QED BY <1>1, <2>1, <3>1, <3>2 DEF IInv, Phases, MayClear, Visits, Undoing
  <2> QED BY <2>2, <2>3
<1>2. IInv /\ [Next]_vars => [\A n \in Name : disk[n] = "ours" /\ disk'[n] # "ours" /\ active[n[1]] > 0
                                => n \in meddled']_vars
  BY <1>1
<1> QED BY <1>2, Invariance, PTL DEF Spec, DownloadsKeepFiles

\* A file that is not the run's own goes only with an expired entry that has no manifest.
THEOREM OthersKeepFiles == Spec => ForeignFilesStay
<1>1. IInv /\ [Next]_vars => [\A n \in Name : disk[n] = "foreign" /\ disk'[n] # "foreign"
                                => n \in entry[n[1]] /\ n[1] \notin registered]_vars
  BY ForeignStep DEF IInv, Foreign
<1> QED BY <1>1, Invariance, PTL DEF Spec, ForeignFilesStay

-----------------------------------------------------------------------------
(* Rows *)

\* The rows of exports, as this module has them, under what the queue promises of all.
Lifecycle == INSTANCE JobLifecycle WITH state <- row

\* A row moves from one state to another on one of the edges of the life cycle.
LEMMA RowMoves ==
    ASSUME NEW j \in Job, NEW to, row' = [row EXCEPT ![j] = to],
           \/ row[j] = "queued" /\ to = "running"
           \/ row[j] = "running" /\ to \in {"succeeded", "failed"}
           \/ row[j] \in {"queued", "running"} /\ to = "cancelled"
    PROVE  Lifecycle!Next
<1>1. CASE row[j] = "queued" /\ to = "running"
  BY <1>1 DEF Lifecycle!Next, Lifecycle!Claim, Lifecycle!Transition
<1>2. CASE row[j] = "running" /\ to = "succeeded"
  BY <1>2 DEF Lifecycle!Next, Lifecycle!Succeed, Lifecycle!Transition
<1>3. CASE row[j] = "running" /\ to = "failed"
  BY <1>3 DEF Lifecycle!Next, Lifecycle!Fail, Lifecycle!Transition
<1>4. CASE row[j] \in {"queued", "running"} /\ to = "cancelled"
  BY <1>4 DEF Lifecycle!Next, Lifecycle!Cancel, Lifecycle!Transition, Lifecycle!Active
<1> QED
  BY <1>1, <1>2, <1>3, <1>4

LEMMA RowsStep == [Next]_vars => [Lifecycle!Next]_row
<1> SUFFICES ASSUME [Next]_vars PROVE Lifecycle!Next \/ row' = row
  OBVIOUS
<1>1. ASSUME NEW j \in Job, RunStep(j) PROVE Lifecycle!Next \/ row' = row
  <2>1. CASE Begin(j)
    BY <2>1, RowMoves DEF Begin
  <2>2. CASE Save(j)
    BY <2>2, RowMoves DEF Save, SetRow
  <2>3. CASE ReportFailure(j)
    BY <2>3, RowMoves DEF ReportFailure, SetRow
  <2>4. CASE \/ Announce(j) \/ SkipPart(j) \/ Publish(j) \/ Rename(j) \/ Check(j)
             \/ Commit(j) \/ Fail(j) \/ Disown(j) \/ TakeBack(j)
             \/ SaveTimesOut(j) \/ SaveRefused(j) \/ SaveAbandoned(j) \/ GiveUp(j)
    BY <2>4 DEF Announce, SkipPart, Publish, Rename, Check, Commit, Fail, Disown, TakeBack,
       SaveTimesOut, SaveRefused, SaveAbandoned, GiveUp, rows
  <2> QED
    BY <1>1, <2>1, <2>2, <2>3, <2>4 DEF RunStep
<1>2. ASSUME NEW j \in Job, ClientStep(j) PROVE Lifecycle!Next \/ row' = row
  <2>1. CASE Cancel(j)
    BY <2>1, RowMoves DEF Cancel, SetRow
  <2> QED
    BY <1>2, <2>1 DEF ClientStep, AskDownload, Open, Refuse, Close, rows
<1>3. ASSUME NEW j \in Job, ReconcileStep(j) PROVE Lifecycle!Next \/ row' = row
  <2>1. CASE AdoptRunning(j) \/ AdoptRunningFails(j)
    BY <2>1, RowMoves DEF AdoptRunning, AdoptRunningFails, SetRow, rows
  <2> QED
    BY <1>3, <2>1 DEF ReconcileStep, DiscardRunning, DiscardCancelled, AdoptSucceeded,
       DiscardSucceeded, KeepUnverified, PassBy, Discard, DiscardFails, rows
<1>4. CASE Recover
  BY <1>4 DEF Recover, Lifecycle!Next, Lifecycle!Recover
<1>5. CASE Crash \/ Boot \/ Outsider \/ \E j \in Job : Expire(j) \/ Cleanup(j)
  BY <1>5 DEF Crash, Boot, Outsider, Meddle, Reuse, Collide, Expire, Cleanup, Expel, rows
<1>6. CASE UNCHANGED vars
  BY <1>6 DEF vars, rows
<1> QED
  BY <1>1, <1>2, <1>3, <1>4, <1>5, <1>6 DEF Next

\* From their admission on, the rows of exports do what JobLifecycle allows, as those of
\* the scheduler do (its Refinement): what this module takes of the queue, and the rows
\* that Reconcile settles beside it, are among the steps promised to clients.
THEOREM RowsFollowTheLifecycle == Spec => [][Lifecycle!Next]_row
BY RowsStep, PTL DEF Spec

-----------------------------------------------------------------------------
(* Rows and files: every step is one that ExportOutcome allows *)

\* What ExportOutcome sees of a step.
OutcomeMoves == [Outcome!Next]_(Outcome!vars)

\* An excuse is for good.
LEMMA ExcusesStay == [Next]_vars => Excused \subseteq Excused'
BY HistoryGrows DEF Excused

\* A job whose manifest and files a step leaves alone.
LEMMA WholeSame ==
    ASSUME NEW k \in Job, manifest'[k] = manifest[k], Mine(k)' = Mine(k)
    PROVE  k \in Whole' <=> k \in Whole
BY DEF Whole

LEMMA WholeUnmoved == ASSUME UNCHANGED disks PROVE Whole' = Whole
BY MineSame DEF Whole, disks

\* A row moves and says of the files what is true.
LEMMA RowTells ==
    ASSUME NEW j \in Job, NEW to, row' = [row EXCEPT ![j] = to], UNCHANGED disks, [Next]_vars,
           \/ row[j] = "queued" /\ to = "running"
           \/ row[j] \in {"queued", "running"} /\ to = "cancelled"
           \/ row[j] = "running" /\ to = "succeeded" /\ j \in Whole \cup Excused'
           \/ row[j] = "running" /\ to = "failed" /\ j \notin Whole \ Excused'
    PROVE  OutcomeMoves
<1>1. Whole' = Whole /\ Excused \subseteq Excused'
  BY WholeUnmoved, ExcusesStay
<1>2. CASE row[j] = "queued" /\ to = "running"
  BY <1>1, <1>2 DEF OutcomeMoves, Outcome!Next, Outcome!Claim, Outcome!Move
<1>3. CASE row[j] \in {"queued", "running"} /\ to = "cancelled"
  BY <1>1, <1>3 DEF OutcomeMoves, Outcome!Next, Outcome!Cancel, Outcome!Move
<1>4. CASE row[j] = "running" /\ to = "succeeded" /\ j \in Whole \cup Excused'
  BY <1>1, <1>4 DEF OutcomeMoves, Outcome!Next, Outcome!Succeed, Outcome!Move
<1>5. CASE row[j] = "running" /\ to = "failed" /\ j \notin Whole \ Excused'
  BY <1>1, <1>5 DEF OutcomeMoves, Outcome!Next, Outcome!Fail, Outcome!Move
<1> QED BY <1>2, <1>3, <1>4, <1>5

\* Neither rows nor files move; an excuse may come up.
LEMMA NothingTells ==
    ASSUME UNCHANGED row, Whole' = Whole, [Next]_vars
    PROVE  OutcomeMoves
<1>1. Excused \subseteq Excused'
  BY ExcusesStay
<1> QED BY <1>1 DEF OutcomeMoves, Outcome!Next

\* The files of one job move: those of a run or a roll-back as they like, others only go,
\* and those of a success only with an excuse.
LEMMA FilesTell ==
    ASSUME NEW j \in Job, UNCHANGED row, [Next]_vars,
           \A k \in Job \ {j} : manifest'[k] = manifest[k] /\ Mine(k)' = Mine(k),
           \/ row[j] \in {"running", "cancelled"}
           \/ j \in Whole' => j \in Whole,
           row[j] = "succeeded" /\ j \in Whole => j \in Whole' \cup Excused'
    PROVE  OutcomeMoves
<1>1. Excused \subseteq Excused'
  BY ExcusesStay
<1>2. \A k \in Job \ {j} : k \in Whole' <=> k \in Whole
  BY WholeSame
<1>3. Whole \subseteq Job /\ Whole' \subseteq Job
  BY DEF Whole
<1>4. CASE j \in Whole <=> j \in Whole'
  <2>1. Whole' = Whole
    BY <1>2, <1>3, <1>4
  <2> QED BY <2>1, NothingTells
<1>5. CASE j \in Whole' /\ j \notin Whole
  <2>1. Whole' = Whole \cup {j} /\ row[j] \in {"running", "cancelled"}
    BY <1>2, <1>3, <1>5
  <2> QED BY <1>1, <2>1 DEF OutcomeMoves, Outcome!Next, Outcome!Publish
<1>6. CASE j \in Whole /\ j \notin Whole'
  <2>1. Whole' = Whole \ {j} /\ (row[j] = "succeeded" => j \in Excused')
    BY <1>2, <1>3, <1>6
  <2> QED BY <1>1, <2>1 DEF OutcomeMoves, Outcome!Next, Outcome!Withdraw
<1> QED BY <1>4, <1>5, <1>6

\* A run that has committed has its files, all in its manifest, or there is an excuse.
LEMMA SavedIsWhole ==
    ASSUME Typed, Named, Accounts, Present, NEW j \in Job, pc[j] \in Saving
    PROVE  j \in Whole \cup Excused
<1>1. published[j] # {} /\ manifest[j] \subseteq published[j] /\ published[j] \subseteq NamesOf(j)
  BY DEF Present, PresentOf, Named
<1>2. CASE j \in expired
  BY <1>2 DEF Excused
<1>3. CASE \E n \in published[j] : n \in meddled \cup leaked
  BY <1>1, <1>3 DEF Excused, NamesOf
<1>4. CASE j \notin expired /\ \A n \in published[j] : n \notin meddled \cup leaked
  <2>1. published[j] \subseteq Mine(j)
    BY <1>4 DEF Present, PresentOf
  <2>2. Mine(j) \subseteq manifest[j] \cup leaked
    BY DEF Accounts, Accounted, Saving
  <2> QED BY <1>1, <1>4, <2>1, <2>2 DEF Whole
<1> QED BY <1>2, <1>3, <1>4

\* A job that is whole and has only leaked files has an excuse.
LEMMA LeakedIsExcused ==
    ASSUME NEW j \in Job, j \in Whole, Mine(j) \subseteq leaked
    PROVE  j \in Excused
<1>1. PICK n \in Mine(j) : n \in leaked
  BY DEF Whole
<1> QED BY <1>1 DEF Excused, Mine

\* What goes with the files of one job leaves the others alone.
LEMMA OnlyOwnFiles ==
    ASSUME Typed, NEW j \in Job, NEW S, S \subseteq NamesOf(j), disk' = Without(S)
    PROVE  \A k \in Job : Mine(k)' = IF k = j THEN Mine(k) \ S ELSE Mine(k)
BY MineWithout DEF NamesOf, Mine

\* A restart that discards a manifest, or stops while it does.
LEMMA DiscardTells ==
    ASSUME Typed, Named, [Next]_vars, NEW j \in Job, Visits(j), UNCHANGED row,
           Discard(j) \/ DiscardFails(j),
           row[j] = "succeeded" => j \in expired \/ ~Owned(j)
    PROVE  OutcomeMoves
<1>1. PICK S \in SUBSET Lists(j) : disk' = Without(S)
  BY DEF Discard, DiscardFails
<1>2. \A k \in Job : Mine(k)' = IF k = j THEN Mine(k) \ S ELSE Mine(k)
  BY <1>1, OnlyOwnFiles DEF Lists, Mine, NamesOf
<1>3. manifest'[j] \in {{}, manifest[j]} /\ \A k \in Job \ {j} : manifest'[k] = manifest[k]
  BY DEF Discard, DiscardFails, RemoveManifest, Typed
<1>4. j \in Whole' => j \in Whole
  BY <1>2, <1>3 DEF Whole
<1>5. row[j] = "succeeded" /\ j \in Whole => j \in Excused'
  BY ExcusesStay DEF Owned, Whole, Excused
<1> QED BY <1>2, <1>3, <1>4, <1>5, FilesTell

LEMMA OutcomeInit == Init => Outcome!Init
BY DEF Init, Outcome!Init, Whole, Excused

\* A step of a run: it publishes and takes back while its row is its own, succeeds with
\* its files and reports a failure without.
LEMMA RunTells ==
    ASSUME IInv, [Next]_vars, NEW j \in Job, RunStep(j)
    PROVE  OutcomeMoves
<1> USE DEF IInv
<1>a. pc[j] \in Exporting \cup Undoing \cup Saving => row[j] \in {"running", "cancelled"}
  BY DEF Phases
<1>1. CASE Begin(j)
  BY <1>1, RowTells DEF Begin
<1>2. CASE SkipPart(j) \/ Rename(j) \/ Check(j) \/ Fail(j) \/ SaveTimesOut(j)
           \/ SaveAbandoned(j) \/ GiveUp(j)
  <2>1. UNCHANGED row /\ UNCHANGED disks
    BY <1>2 DEF SkipPart, Rename, Check, Fail, SaveTimesOut, SaveAbandoned, GiveUp, rows
  <2> QED BY <2>1, WholeUnmoved, NothingTells
<1>3. CASE Announce(j) \/ Commit(j) \/ Disown(j)
  <2>1. UNCHANGED row /\ UNCHANGED disk
    BY <1>3 DEF Announce, Commit, Disown, rows
  <2>2. \A k \in Job \ {j} : manifest'[k] = manifest[k]
    BY <1>3 DEF Announce, Commit, Disown, RemoveManifest, Typed
  <2>3. row[j] \in {"running", "cancelled"}
    BY <1>3, <1>a DEF Announce, Commit, Disown, At, Exporting, Undoing
  <2> QED BY <2>1, <2>2, <2>3, MineSame, FilesTell
<1>4. CASE Publish(j)
  <2>1. UNCHANGED row /\ UNCHANGED manifest
    BY <1>4 DEF Publish, rows
  <2>2. Current(j, First(todo[j])) \in NamesOf(j)
    BY <1>4, FirstIn, CurrentNamed DEF Publish, At, Named, Typed
  <2>3. \A k \in Job \ {j} : Mine(k)' = Mine(k)
    BY <1>4, <2>2, MineMore DEF Publish
  <2>4. row[j] \in {"running", "cancelled"}
    BY <1>4, <1>a DEF Publish, At, Exporting
  <2> QED BY <2>1, <2>3, <2>4, FilesTell
<1>5. CASE TakeBack(j)
  <2>1. UNCHANGED row /\ UNCHANGED manifest
    BY <1>5 DEF TakeBack, rows
  <2>2. PICK S \in SUBSET NamesOf(j) : disk' = Without(S)
    BY <1>5 DEF TakeBack, Mine, NamesOf
  <2>3. \A k \in Job \ {j} : Mine(k)' = Mine(k)
    BY <2>2, OnlyOwnFiles
  <2>4. row[j] \in {"running", "cancelled"}
    BY <1>5, <1>a DEF TakeBack, At, Undoing
  <2> QED BY <2>1, <2>3, <2>4, FilesTell
<1>6. CASE Save(j)
  <2>1. row' = [row EXCEPT ![j] = "succeeded"] /\ UNCHANGED disks /\ row[j] = "running"
    BY <1>6 DEF Save, SetRow
  <2>2. j \in Whole \cup Excused
    BY <1>6, SavedIsWhole DEF Save, At, Saving
  <2> QED BY <2>1, <2>2, ExcusesStay, RowTells
<1>7. CASE SaveRefused(j)
  <2>1. UNCHANGED row /\ row[j] = "cancelled"
    BY <1>7 DEF SaveRefused, rows
  <2>2. PICK S \in SUBSET NamesOf(j) : disk' = Without(S)
    BY <1>7 DEF SaveRefused, Remove, Lists, Mine, NamesOf
  <2>3. \A k \in Job \ {j} : Mine(k)' = Mine(k)
    BY <2>2, OnlyOwnFiles
  <2>4. \A k \in Job \ {j} : manifest'[k] = manifest[k]
    BY <1>7 DEF SaveRefused, Remove, Typed
  <2> QED BY <2>1, <2>3, <2>4, FilesTell
<1>8. CASE ReportFailure(j)
  <2>1. UNCHANGED disks
    BY <1>8 DEF ReportFailure
  <2>2. CASE row[j] = "running"
    <3>1. row' = [row EXCEPT ![j] = "failed"]
      BY <1>8, <2>2 DEF ReportFailure, SetRow
    <3>2. Mine(j) \subseteq leaked
      BY <1>8 DEF ReportFailure, At, Accounts, Accounted, Undone
    <3>3. j \notin Whole \ Excused'
      BY <3>2, LeakedIsExcused, ExcusesStay
    <3> QED BY <2>1, <2>2, <3>1, <3>3, RowTells
  <2>3. CASE row[j] # "running"
    <3>1. UNCHANGED row
      BY <1>8, <2>3 DEF ReportFailure
    <3> QED BY <2>1, <3>1, WholeUnmoved, NothingTells
  <2> QED BY <2>2, <2>3
<1> QED BY <1>1, <1>2, <1>3, <1>4, <1>5, <1>6, <1>7, <1>8 DEF RunStep

\* A step of Reconcile: what it adopts is whole, and it discards no success that is.
LEMMA ReconcileTells ==
    ASSUME IInv, [Next]_vars, NEW j \in Job, ReconcileStep(j)
    PROVE  OutcomeMoves
<1> USE DEF IInv
<1>1. CASE AdoptRunning(j)
  <2>1. j \in Whole
    BY <1>1 DEF AdoptRunning, Visits, Owned, Whole
  <2>2. row' = [row EXCEPT ![j] = "succeeded"] /\ UNCHANGED disks /\ row[j] = "running"
    BY <1>1 DEF AdoptRunning, Adopt, SetRow
  <2> QED BY <2>1, <2>2, RowTells
<1>2. CASE AdoptRunningFails(j)
  <2>1. j \in Whole
    BY <1>2 DEF AdoptRunningFails, Visits, Owned, Whole
  <2>2. UNCHANGED disks /\ row[j] = "running"
    BY <1>2 DEF AdoptRunningFails
  <2>3. row' = [row EXCEPT ![j] = "succeeded"] \/ UNCHANGED row
    BY <1>2 DEF AdoptRunningFails, SetRow, rows
  <2> QED BY <2>1, <2>2, <2>3, RowTells, WholeUnmoved, NothingTells
<1>3. CASE AdoptSucceeded(j) \/ KeepUnverified(j) \/ PassBy(j)
  <2>1. UNCHANGED row /\ UNCHANGED disks
    BY <1>3 DEF AdoptSucceeded, Adopt, KeepUnverified, PassBy, rows
  <2> QED BY <2>1, WholeUnmoved, NothingTells
<1>4. CASE DiscardRunning(j) \/ DiscardCancelled(j) \/ DiscardSucceeded(j)
  <2>1. Visits(j) /\ (Discard(j) \/ DiscardFails(j)) /\ (row[j] = "succeeded" => j \in expired \/ ~Owned(j))
    BY <1>4 DEF DiscardRunning, DiscardCancelled, DiscardSucceeded
  <2>2. UNCHANGED row
    BY <2>1 DEF Discard, DiscardFails, rows
  <2> QED BY <2>1, <2>2, DiscardTells
<1> QED BY <1>1, <1>2, <1>3, <1>4 DEF ReconcileStep

\* The walk is over: what is still running has no files, or none that are vouched for.
LEMMA RecoverTells ==
    ASSUME IInv, [Next]_vars, Recover
    PROVE  OutcomeMoves
<1>1. Whole' = Whole /\ Excused \subseteq Excused'
  BY WholeUnmoved, ExcusesStay DEF Recover
<1>2. ASSUME NEW j \in Whole, row[j] = "running" PROVE j \in Excused
  <2>1. j \in Job /\ manifest[j] # {}
    BY <1>2 DEF Whole
  <2>2. process = "boot" /\ j \in visited
    BY <2>1 DEF Recover, Visits
  <2>3. j \in skipped \/ Mine(j) \subseteq leaked
    BY <1>2, <2>1, <2>2 DEF IInv, Cleared, ClearedOf
  <2> QED BY <1>2, <2>1, <2>3, LeakedIsExcused DEF Excused
<1>3. row' = [j \in Job |-> IF row[j] = "running" THEN "failed" ELSE row[j]]
  BY DEF Recover
<1> QED BY <1>1, <1>2, <1>3 DEF OutcomeMoves, Outcome!Next, Outcome!Recover

\* What expires or is in others' hands has an excuse.
LEMMA OthersTell ==
    ASSUME IInv, [Next]_vars,
           Outsider \/ \E j \in Job : Expire(j) \/ Cleanup(j)
    PROVE  OutcomeMoves
<1> USE DEF IInv
<1>1. ASSUME NEW j \in Job, Expire(j) PROVE OutcomeMoves
  BY <1>1, WholeUnmoved, NothingTells DEF Expire, rows
<1>2. ASSUME NEW j \in Job, Cleanup(j) PROVE OutcomeMoves
  <2>1. UNCHANGED row /\ j \in expired
    BY <1>2 DEF Cleanup, Due, Expel, rows
  <2>2. PICK S \in SUBSET NamesOf(j) : disk' = Without(S)
    BY <1>2 DEF Cleanup, Expel, Removable, Lists, Mine, NamesOf, Named, Typed
  <2>3. \A k \in Job : Mine(k)' = IF k = j THEN Mine(k) \ S ELSE Mine(k)
    BY <2>2, OnlyOwnFiles
  <2>4. manifest'[j] \in {{}, manifest[j]} /\ \A k \in Job \ {j} : manifest'[k] = manifest[k]
    BY <1>2 DEF Cleanup, Expel, RemoveManifest, Typed
  <2>5. j \in Whole' => j \in Whole
    BY <2>3, <2>4 DEF Whole
  <2>6. j \in Excused'
    BY <2>1, ExcusesStay DEF Excused
  <2> QED BY <2>1, <2>3, <2>4, <2>5, <2>6, FilesTell
<1>3. ASSUME NEW n \in Name, Meddle(n) PROVE OutcomeMoves
  <2>1. UNCHANGED row /\ UNCHANGED manifest /\ n \in meddled'
    BY <1>3 DEF Meddle, rows
  <2>2. PICK x \in {"none", "foreign"} : disk' = [disk EXCEPT ![n] = x]
    BY <1>3 DEF Meddle
  <2>3. \A k \in Job : Mine(k)' = Mine(k) \ {n}
    BY <2>2, MineTaken
  <2>4. n[1] \in Job /\ n[1] \in Excused' /\ \A k \in Job \ {n[1]} : Mine(k)' = Mine(k)
    BY <2>1, <2>3, NamesOfJobs DEF Excused, Mine
  <2>5. n[1] \in Whole' => n[1] \in Whole
    BY <2>1, <2>3 DEF Whole
  <2> QED BY <2>1, <2>4, <2>5, FilesTell
<1>4. ASSUME NEW n \in Name, Reuse(n) \/ Collide(n[1]) PROVE OutcomeMoves
  <2>1. UNCHANGED row /\ UNCHANGED manifest
    BY <1>4 DEF Reuse, Collide, rows
  <2>2. PICK m : disk[m] = "none" /\ disk' = [disk EXCEPT ![m] = "foreign"]
    BY <1>4 DEF Reuse, Collide
  <2>3. \A k \in Job : Mine(k)' = Mine(k)
    BY <2>2 DEF Typed, Mine
  <2>4. Whole' = Whole
    BY <2>1, <2>3 DEF Whole
  <2> QED BY <2>1, <2>4, NothingTells
<1> QED BY <1>1, <1>2, <1>3, <1>4 DEF Outsider

LEMMA OutcomeStep == IInv /\ [Next]_vars => OutcomeMoves
<1> SUFFICES ASSUME IInv, [Next]_vars PROVE OutcomeMoves
  OBVIOUS
<1>1. ASSUME NEW j \in Job, ClientStep(j) PROVE OutcomeMoves
  <2>1. UNCHANGED disks
    BY <1>1 DEF ClientStep, Cancel, AskDownload, Open, Refuse, Close
  <2>2. CASE Cancel(j)
    BY <2>1, <2>2, RowTells DEF Cancel, SetRow
  <2>3. CASE AskDownload(j) \/ Open(j) \/ Refuse(j) \/ Close(j)
    BY <2>1, <2>3, WholeUnmoved, NothingTells DEF AskDownload, Open, Refuse, Close, rows
  <2> QED BY <1>1, <2>2, <2>3 DEF ClientStep
<1>2. CASE Crash \/ Boot \/ UNCHANGED vars
  BY <1>2, WholeUnmoved, NothingTells DEF Crash, Boot, vars, rows
<1> QED BY <1>1, <1>2, RunTells, ReconcileTells, RecoverTells, OthersTell DEF Next

\* The manifests, the published files and the rows change together as ExportOutcome
\* allows, which Scheduler implements too: what it takes of the files in Publish,
\* RollBack, SaveRefused and ReconcileExport is what export.Run and the artifact store do.
THEOREM OutcomesFollowFiles == Spec => OutcomeSpec
<1>1. Spec => [][Outcome!Next]_(Outcome!vars)
  BY Invariance, OutcomeStep, PTL DEF Spec, OutcomeMoves
<1> QED BY <1>1, OutcomeInit, PTL DEF Spec, OutcomeSpec, Outcome!Spec

\* What ExportOutcome allows keeps rows and files in agreement.
LEMMA TellStep == row \in [Job -> State] /\ Outcome!RowsTellOfFiles /\ OutcomeMoves => Outcome!RowsTellOfFiles'
<1> SUFFICES ASSUME row \in [Job -> State], Outcome!RowsTellOfFiles, OutcomeMoves
             PROVE  Outcome!RowsTellOfFiles'
  OBVIOUS
<1> USE DEF Outcome!RowsTellOfFiles
<1>1. CASE UNCHANGED <<row, Whole, Excused>>
  BY <1>1
<1>2. CASE Outcome!Next
  <2>1. Excused \subseteq Excused'
    BY <1>2 DEF Outcome!Next
  <2>2. ASSUME NEW B \in SUBSET Job, Outcome!Admit(B) PROVE Outcome!RowsTellOfFiles'
    BY <2>1, <2>2 DEF Outcome!Admit
  <2>3. ASSUME NEW j \in Job, Outcome!Claim(j) \/ Outcome!Cancel(j) PROVE Outcome!RowsTellOfFiles'
    BY <2>1, <2>3 DEF Outcome!Claim, Outcome!Cancel, Outcome!Move
  <2>4. ASSUME NEW j \in Job, Outcome!Publish(j) \/ Outcome!Withdraw(j) PROVE Outcome!RowsTellOfFiles'
    BY <2>1, <2>4 DEF Outcome!Publish, Outcome!Withdraw
  <2>5. ASSUME NEW j \in Job, Outcome!Succeed(j) \/ Outcome!Fail(j) PROVE Outcome!RowsTellOfFiles'
    BY <2>1, <2>5 DEF Outcome!Succeed, Outcome!Fail, Outcome!Move
  <2>6. CASE Outcome!Recover
    BY <2>1, <2>6 DEF Outcome!Recover
  <2>7. CASE UNCHANGED <<row, Whole>>
    BY <2>1, <2>7
  <2> QED BY <1>2, <2>2, <2>3, <2>4, <2>5, <2>6, <2>7 DEF Outcome!Next
<1> QED BY <1>1, <1>2 DEF OutcomeMoves, Outcome!vars

\* A client that polls its export to the end may conclude from the row: with a success all
\* files are there and in the manifest, with a failure not, unless there is an excuse.
THEOREM RowsTell == Spec => []Outcome!RowsTellOfFiles
<1>1. Init => Outcome!RowsTellOfFiles
  BY DEF Init, Outcome!RowsTellOfFiles
<1>2. IInv /\ Outcome!RowsTellOfFiles /\ [Next]_vars => Outcome!RowsTellOfFiles'
  BY OutcomeStep, TellStep DEF IInv, Typed
<1> QED BY <1>1, <1>2, Invariance, PTL DEF Spec
=============================================================================
