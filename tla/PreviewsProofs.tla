--------------------------- MODULE PreviewsProofs ---------------------------
(***************************************************************************)
(* Theorems about Previews for every set of requests, keys and limits.     *)
(***************************************************************************)
EXTENDS Previews, FiniteSetTheorems, TLAPS

-----------------------------------------------------------------------------
(* Sets of requests and their sizes *)

\* Moving a request within P or outside of P leaves In(P) alone.
LEMMA MoveAround ==
    ASSUME NEW P, NEW r \in Request, NEW at, pc \in [Request -> Place],
           Goto(r, at), pc[r] \in P <=> at \in P
    PROVE  In(P)' = In(P)
BY DEF Goto, In

\* A request that enters P adds one to its size.
LEMMA MoveIn ==
    ASSUME NEW P, NEW r \in Request, NEW at, pc \in [Request -> Place],
           Goto(r, at), pc[r] \notin P, at \in P
    PROVE  In(P)' = In(P) \cup {r} /\ Cardinality(In(P)') = Cardinality(In(P)) + 1
<1>1. In(P)' = In(P) \cup {r} /\ r \notin In(P)
  BY DEF Goto, In
<1>2. IsFiniteSet(In(P))
  BY PreviewsAssumption, FS_Subset DEF In
<1> QED BY <1>1, <1>2, FS_AddElement

\* A request that leaves P takes one off.
LEMMA MoveOut ==
    ASSUME NEW P, NEW r \in Request, NEW at, pc \in [Request -> Place],
           Goto(r, at), pc[r] \in P, at \notin P
    PROVE  In(P)' = In(P) \ {r} /\ Cardinality(In(P)') = Cardinality(In(P)) - 1
<1>1. In(P)' = In(P) \ {r} /\ r \in In(P)
  BY DEF Goto, In
<1>2. IsFiniteSet(In(P))
  BY PreviewsAssumption, FS_Subset DEF In
<1> QED BY <1>1, <1>2, FS_RemoveElement

-----------------------------------------------------------------------------
(* Types.  That open and taken are not negative follows from what they count;   *)
(* an Open that has got as far as validation looks at a file.                   *)

Looking == {"validate", "lease", "reading"}
Looks   == \A r \in Request : pc[r] \in Looking => found[r] \in Request

Typed ==
    /\ file \in [Key -> Request \cup {None}]
    /\ older \subseteq Request \X Request
    /\ partial \subseteq Request
    /\ open \in [Key -> Int] /\ pathLock \in [Key -> Request \cup {None}]
    /\ max \in ByteLimit /\ global \in SlotLimit
    /\ taken \in Int /\ busy \subseteq Other
    /\ pc \in [Request -> Place]
    /\ found \in [Request -> Request \cup {None}]
    /\ cancelled \subseteq Request /\ rejected \subseteq Request \cup {None}
    /\ process \in {"up", "down"}
    /\ Looks

\* The places requests go to exist.
LEMMA GotoTyped ==
    ASSUME NEW r \in Request, NEW at \in Place, pc \in [Request -> Place], Goto(r, at)
    PROVE  pc' \in [Request -> Place]
BY DEF Goto

\* A request that is past its Open, or only starts it, looks at nothing.
LEMMA GotoLooks ==
    ASSUME NEW r \in Request, NEW at, pc \in [Request -> Place], Goto(r, at),
           Looks, found' = found, at \in Looking => pc[r] \in Looking
    PROVE  Looks'
BY DEF Goto, Looks

\* What eviction leaves are entries.
LEMMA EvictTyped ==
    ASSUME Typed, NEW r \in Request, NEW V
    PROVE  /\ Renamed(r) \in [Key -> Request \cup {None}]
           /\ Evict(Renamed(r), V) \in [Key -> Request \cup {None}]
BY PreviewsAssumption DEF Typed, Renamed, Evict

LEMMA TypedInit == Init => Typed
BY PreviewsAssumption DEF Init, Typed, Place, Looks, Looking

\* Every step keeps the types.
LEMMA TypedStep == Typed /\ [Next]_vars => Typed'
<1> SUFFICES ASSUME Typed, [Next]_vars PROVE Typed'
  OBVIOUS
<1> USE PreviewsAssumption DEF Typed, At, cache, limits, slots, client
<1>1. ASSUME NEW r \in Request, Arrive(r) PROVE Typed'
  BY <1>1, GotoTyped, GotoLooks DEF Arrive, Place, Rendering, Looking
<1>2. ASSUME NEW r \in Request, LookUp(r) PROVE Typed'
  <2>1. \E at \in {"acquire", "validate"} : Goto(r, at)
    BY <1>2 DEF LookUp
  <2>2. pc' \in [Request -> Place]
    BY <2>1, GotoTyped DEF Place, Rendering
  <2>3. found' \in [Request -> Request \cup {None}] /\ pathLock' \in [Key -> Request \cup {None}]
    BY <1>2 DEF LookUp
  <2>4. Looks'
    BY <1>2 DEF LookUp, Looks, Looking, Goto
  <2> QED BY <1>2, <2>2, <2>3, <2>4 DEF LookUp
<1>3. ASSUME NEW r \in Request, Valid(r) PROVE Typed'
  BY <1>3, GotoTyped, GotoLooks DEF Valid, Place, Rendering, Looking
<1>4. ASSUME NEW r \in Request, Reject(r) PROVE Typed'
  BY <1>4, GotoTyped, GotoLooks DEF Reject, Remove, RemoveIfOwned, Unlock, Place, Rendering, Looking
<1>5. ASSUME NEW r \in Request, OpenKilled(r) PROVE Typed'
  BY <1>5, GotoTyped, GotoLooks DEF OpenKilled, Remove, RemoveIfOwned, Unlock, Place, Rendering, Looking
<1>6. ASSUME NEW r \in Request, OpenCancelled(r) PROVE Typed'
  BY <1>6, GotoTyped, GotoLooks DEF OpenCancelled, Unlock, Place, Rendering, Looking
<1>7. ASSUME NEW r \in Request, Lease(r) PROVE Typed'
  <2>1. found[r] \in Request
    BY <1>7 DEF Lease, Looks, Looking
  <2>2. older' \subseteq Request \X Request
    BY <1>7, <2>1 DEF Lease, Touched
  <2>3. open' \in [Key -> Int]
    BY <1>7 DEF Lease
  <2>4. \E at \in {"reading", "acquire"} : Goto(r, at)
    BY <1>7 DEF Lease
  <2>5. pc' \in [Request -> Place]
    BY <2>4, GotoTyped DEF Place, Rendering
  <2>6. pathLock' \in [Key -> Request \cup {None}]
    BY <1>7 DEF Lease, Unlock
  <2>7. Looks'
    BY <1>7, <2>4, GotoLooks DEF Lease, Looking
  <2> QED BY <1>7, <2>2, <2>3, <2>5, <2>6, <2>7 DEF Lease
<1>8. ASSUME NEW r \in Request, CloseHit(r) PROVE Typed'
  BY <1>8, GotoTyped, GotoLooks DEF CloseHit, Place, Rendering, Looking
<1>9. ASSUME NEW r \in Request, Acquire(r) PROVE Typed'
  BY <1>9, GotoTyped, GotoLooks DEF Acquire, Place, Rendering, Looking
<1>10. ASSUME NEW r \in Request, Wait(r) PROVE Typed'
  BY <1>10, GotoTyped, GotoLooks DEF Wait, Place, Rendering, Looking
<1>11. ASSUME NEW r \in Request, StopWaiting(r) PROVE Typed'
  BY <1>11, GotoTyped, GotoLooks DEF StopWaiting, Place, Rendering, Looking
<1>12. ASSUME NEW r \in Request, Begin(r) PROVE Typed'
  BY <1>12, GotoTyped, GotoLooks DEF Begin, Place, Rendering, Looking
<1>13. ASSUME NEW r \in Request, BeginFails(r) PROVE Typed'
  BY <1>13, GotoTyped, GotoLooks DEF BeginFails, Place, Rendering, Looking
<1>14. ASSUME NEW r \in Request, StartProcess(r) PROVE Typed'
  BY <1>14, GotoTyped, GotoLooks DEF StartProcess, Place, Rendering, Looking
<1>15. ASSUME NEW r \in Request, StartFails(r) PROVE Typed'
  BY <1>15, GotoTyped, GotoLooks DEF StartFails, Place, Rendering, Looking
<1>16. ASSUME NEW r \in Request, StreamEnds(r) PROVE Typed'
  BY <1>16, GotoTyped, GotoLooks DEF StreamEnds, Touched, Place, Rendering, Looking
<1>17. ASSUME NEW r \in Request, StreamFails(r) PROVE Typed'
  BY <1>17, GotoTyped, GotoLooks DEF StreamFails, Place, Rendering, Looking
<1>18. ASSUME NEW r \in Request, Discard(r) PROVE Typed'
  BY <1>18, GotoTyped, GotoLooks DEF Discard, Drop, Place, Rendering, Looking
<1>19. ASSUME NEW r \in Request, CommitValidates(r) PROVE Typed'
  BY <1>19, GotoTyped, GotoLooks DEF CommitValidates, Place, Rendering, Looking
<1>20. ASSUME NEW r \in Request, CommitRejects(r) PROVE Typed'
  BY <1>20, GotoTyped, GotoLooks DEF CommitRejects, Drop, Place, Rendering, Looking
<1>21. ASSUME NEW r \in Request, NotPublished(r) PROVE Typed'
  BY <1>21, GotoTyped, GotoLooks DEF NotPublished, Drop, Place, Rendering, Looking
<1>22. ASSUME NEW r \in Request, Publish(r) PROVE Typed'
  <2>1. PICK V : file' = IF Enough(Renamed(r), V) THEN Evict(Renamed(r), V)
                         ELSE [Evict(Renamed(r), V) EXCEPT ![KeyOf[r]] = None]
    BY <1>22 DEF Publish
  <2>2. file' \in [Key -> Request \cup {None}]
    BY <2>1, EvictTyped
  <2> QED BY <1>22, <2>2, GotoTyped, GotoLooks DEF Publish, Drop, Place, Rendering, Looking
<1>23. ASSUME NEW r \in Request, Release(r) PROVE Typed'
  BY <1>23, GotoTyped, GotoLooks DEF Release, Place, Rendering, Looking
<1>24. ASSUME NEW r \in Request, Cancel(r) PROVE Typed'
  BY <1>24 DEF Cancel, Looks
<1>25. ASSUME NEW r \in Request, CrashInPublish(r) PROVE Typed'
  <2>1. PICK V : file' = Evict(Renamed(r), V)
    BY <1>25 DEF CrashInPublish
  <2>2. file' \in [Key -> Request \cup {None}]
    BY <2>1, EvictTyped
  <2> QED BY <1>25, <2>2 DEF CrashInPublish, Die, Place, Looks, Looking
<1>26. ASSUME NEW o \in Other, OtherAcquires(o) PROVE Typed'
  BY <1>26 DEF OtherAcquires, Looks
<1>27. ASSUME NEW o \in Other, OtherReleases(o) PROVE Typed'
  BY <1>27 DEF OtherReleases, Looks
<1>28. CASE SetMaxBytes
  BY <1>28 DEF SetMaxBytes, Looks, Looking
<1>29. CASE SetLimits
  BY <1>29 DEF SetLimits, Looks, Looking
<1>30. CASE Crash
  BY <1>30 DEF Crash, Die, Place, Looks, Looking
<1>31. CASE Boot
  BY <1>31 DEF Boot, Looks, Looking
<1>32. CASE UNCHANGED vars
  BY <1>32 DEF vars, Looks, Looking
<1> QED BY <1>1, <1>2, <1>3, <1>4, <1>5, <1>6, <1>7, <1>8, <1>9, <1>10, <1>11, <1>12, <1>13, <1>14, <1>15, <1>16, <1>17, <1>18, <1>19, <1>20, <1>21, <1>22, <1>23, <1>24, <1>25, <1>26, <1>27, <1>28, <1>29, <1>30, <1>31, <1>32 DEF Next, OpenStep, RenderStep

-----------------------------------------------------------------------------
(* Slots, leases and partial files *)

Slots    == taken = Cardinality(In(Rendering)) + Cardinality(busy)
Leases   == \A k \in Key : open[k] = Cardinality(Readers(k))
Partials == process = "up" => partial = In(Writing)
Asleep   == process = "down" => \A r \in Request : pc[r] \in {"idle", "done"}

\* A process that dies leaves no request anywhere.
LEMMA DieEmpties ==
    ASSUME Typed, Die
    PROVE  In(Rendering)' = {} /\ \A k \in Key : Readers(k)' = {}
BY DEF Typed, Die, In, Rendering, Readers

\* The slots taken are those of rendering requests and of the others at work.
LEMMA SlotsStep == Typed /\ Slots /\ [Next]_vars => Slots'
<1> SUFFICES ASSUME Typed, Slots, [Next]_vars PROVE Slots'
  OBVIOUS
<1>a. pc \in [Request -> Place] /\ taken \in Int /\ busy \subseteq Other
  BY DEF Typed
<1>b. IsFiniteSet(In(Rendering)) /\ IsFiniteSet(busy)
  BY <1>a, PreviewsAssumption, FS_Subset DEF In
<1>c. Cardinality(In(Rendering)) \in Nat /\ Cardinality(busy) \in Nat
  BY <1>b, FS_CardinalityType
<1>d. ASSUME NEW r \in Request, NEW at, Goto(r, at), pc[r] \in Rendering <=> at \in Rendering,
             UNCHANGED slots
      PROVE  Slots'
  <2>1. In(Rendering)' = In(Rendering)
    BY <1>a, <1>d, MoveAround
  <2> QED BY <2>1, <1>d DEF Slots, slots
<1>e. ASSUME NEW r \in Request, NEW at, Goto(r, at), pc[r] \in Rendering, at \notin Rendering,
             taken' = taken - 1, busy' = busy
      PROVE  Slots'
  <2>1. Cardinality(In(Rendering)') = Cardinality(In(Rendering)) - 1
    BY <1>a, <1>e, MoveOut
  <2> QED BY <2>1, <1>a, <1>c, <1>e DEF Slots
<1>f. ASSUME pc' = pc, UNCHANGED slots PROVE Slots'
  BY <1>f DEF Slots, slots, In
<1>g. ASSUME Die PROVE Slots'
  <2>1. In(Rendering)' = {}
    BY <1>g, DieEmpties
  <2>2. taken' = 0 /\ busy' = {}
    BY <1>g DEF Die
  <2> QED BY <2>1, <2>2, FS_EmptySet DEF Slots
<1>1. ASSUME NEW r \in Request, Arrive(r) PROVE Slots'
  BY <1>1, <1>d DEF Arrive, At, Rendering
<1>2. ASSUME NEW r \in Request, LookUp(r) PROVE Slots'
  <2>1. PICK at \in {"acquire", "validate"} : Goto(r, at)
    BY <1>2 DEF LookUp
  <2> QED BY <1>2, <2>1, <1>d DEF LookUp, At, Rendering
<1>3. ASSUME NEW r \in Request, Valid(r) PROVE Slots'
  BY <1>3, <1>d DEF Valid, At, Rendering
<1>4. ASSUME NEW r \in Request, Reject(r) PROVE Slots'
  BY <1>4, <1>d DEF Reject, Remove, At, Rendering
<1>5. ASSUME NEW r \in Request, OpenKilled(r) PROVE Slots'
  BY <1>5, <1>d DEF OpenKilled, Remove, At, Rendering
<1>6. ASSUME NEW r \in Request, OpenCancelled(r) PROVE Slots'
  BY <1>6, <1>d DEF OpenCancelled, At, Rendering
<1>7. ASSUME NEW r \in Request, Lease(r) PROVE Slots'
  <2>1. PICK at \in {"reading", "acquire"} : Goto(r, at)
    BY <1>7 DEF Lease
  <2> QED BY <1>7, <2>1, <1>d DEF Lease, At, Rendering
<1>8. ASSUME NEW r \in Request, CloseHit(r) PROVE Slots'
  BY <1>8, <1>d DEF CloseHit, At, Rendering
<1>9. ASSUME NEW r \in Request, Acquire(r) PROVE Slots'
  <2>1. Cardinality(In(Rendering)') = Cardinality(In(Rendering)) + 1
    BY <1>9, <1>a, MoveIn DEF Acquire, At, Rendering
  <2> QED BY <2>1, <1>9, <1>a, <1>c DEF Acquire, Slots
<1>10. ASSUME NEW r \in Request, Wait(r) PROVE Slots'
  BY <1>10, <1>d DEF Wait, At, Rendering
<1>11. ASSUME NEW r \in Request, StopWaiting(r) PROVE Slots'
  BY <1>11, <1>d DEF StopWaiting, At, Rendering
<1>12. ASSUME NEW r \in Request, Begin(r) PROVE Slots'
  BY <1>12, <1>d DEF Begin, At, Rendering
<1>13. ASSUME NEW r \in Request, BeginFails(r) PROVE Slots'
  BY <1>13, <1>e DEF BeginFails, At, Rendering
<1>14. ASSUME NEW r \in Request, StartProcess(r) PROVE Slots'
  BY <1>14, <1>d DEF StartProcess, At, Rendering
<1>15. ASSUME NEW r \in Request, StartFails(r) PROVE Slots'
  BY <1>15, <1>e DEF StartFails, At, Rendering
<1>16. ASSUME NEW r \in Request, StreamEnds(r) PROVE Slots'
  <2>1. PICK at \in {"discard", "commit"} : Goto(r, at)
    BY <1>16 DEF StreamEnds
  <2> QED BY <1>16, <2>1, <1>d DEF StreamEnds, At, Rendering
<1>17. ASSUME NEW r \in Request, StreamFails(r) PROVE Slots'
  BY <1>17, <1>d DEF StreamFails, At, Rendering
<1>18. ASSUME NEW r \in Request, Discard(r) PROVE Slots'
  BY <1>18, <1>d DEF Discard, Drop, At, Rendering
<1>19. ASSUME NEW r \in Request, CommitValidates(r) PROVE Slots'
  BY <1>19, <1>d DEF CommitValidates, At, Rendering
<1>20. ASSUME NEW r \in Request, CommitRejects(r) PROVE Slots'
  BY <1>20, <1>d DEF CommitRejects, Drop, At, Rendering
<1>21. ASSUME NEW r \in Request, NotPublished(r) PROVE Slots'
  BY <1>21, <1>d DEF NotPublished, Drop, At, Rendering
<1>22. ASSUME NEW r \in Request, Publish(r) PROVE Slots'
  BY <1>22, <1>d DEF Publish, Drop, At, Rendering
<1>23. ASSUME NEW r \in Request, Release(r) PROVE Slots'
  BY <1>23, <1>e DEF Release, At, Rendering
<1>24. ASSUME NEW r \in Request, Cancel(r) PROVE Slots'
  BY <1>24, <1>f DEF Cancel
<1>25. ASSUME NEW r \in Request, CrashInPublish(r) PROVE Slots'
  BY <1>25, <1>g DEF CrashInPublish
<1>26. ASSUME NEW o \in Other, OtherAcquires(o) PROVE Slots'
  <2>1. Cardinality(busy') = Cardinality(busy) + 1
    BY <1>26, <1>b, FS_AddElement DEF OtherAcquires
  <2>2. In(Rendering)' = In(Rendering)
    BY <1>26 DEF OtherAcquires, In
  <2> QED BY <2>1, <2>2, <1>26, <1>a, <1>c DEF OtherAcquires, Slots
<1>27. ASSUME NEW o \in Other, OtherReleases(o) PROVE Slots'
  <2>1. Cardinality(busy') = Cardinality(busy) - 1
    BY <1>27, <1>b, FS_RemoveElement DEF OtherReleases
  <2>2. In(Rendering)' = In(Rendering)
    BY <1>27 DEF OtherReleases, In
  <2> QED BY <2>1, <2>2, <1>27, <1>a, <1>c DEF OtherReleases, Slots
<1>28. CASE SetMaxBytes \/ SetLimits \/ Boot \/ UNCHANGED vars
  BY <1>28, <1>f DEF SetMaxBytes, SetLimits, Boot, vars
<1>29. CASE Crash
  BY <1>29, <1>g DEF Crash
<1> QED BY <1>1, <1>2, <1>3, <1>4, <1>5, <1>6, <1>7, <1>8, <1>9, <1>10, <1>11, <1>12, <1>13, <1>14, <1>15, <1>16, <1>17, <1>18, <1>19, <1>20, <1>21, <1>22, <1>23, <1>24, <1>25, <1>26, <1>27, <1>28, <1>29 DEF Next, OpenStep, RenderStep

\* The leases of a key are its readers.
LEMMA LeasesStep == Typed /\ Leases /\ [Next]_vars => Leases'
<1> SUFFICES ASSUME Typed, Leases, [Next]_vars PROVE Leases'
  OBVIOUS
<1>a. /\ pc \in [Request -> Place] /\ open \in [Key -> Int] /\ KeyOf \in [Request -> Key]
      /\ \A k \in Key : IsFiniteSet(Readers(k)) /\ Cardinality(Readers(k)) \in Nat
  <2>1. \A k : IsFiniteSet(Readers(k))
    BY PreviewsAssumption, FS_Subset DEF Readers
  <2> QED BY <2>1, FS_CardinalityType, PreviewsAssumption DEF Typed
<1>b. ASSUME NEW r \in Request, NEW at, Goto(r, at), pc[r] # "reading", at # "reading",
             open' = open
      PROVE  Leases'
  <2>1. \A k : Readers(k)' = Readers(k)
    BY <1>a, <1>b DEF Goto, Readers
  <2> QED BY <2>1, <1>b DEF Leases
<1>c. ASSUME pc' = pc, open' = open PROVE Leases'
  BY <1>c DEF Leases, Readers
<1>d. ASSUME Die PROVE Leases'
  <2>1. \A k \in Key : Readers(k)' = {}
    BY <1>d, DieEmpties
  <2>2. \A k \in Key : open'[k] = 0
    BY <1>d DEF Die
  <2> QED BY <2>1, <2>2, FS_EmptySet DEF Leases
<1>1. ASSUME NEW r \in Request, Lease(r) PROVE Leases'
  <2>1. CASE file[KeyOf[r]] = found[r]
    <3>1. \A k \in Key : Readers(k)' = IF k = KeyOf[r] THEN Readers(k) \cup {r} ELSE Readers(k)
      BY <1>a, <1>1, <2>1 DEF Lease, Goto, Readers
    <3>2. r \notin Readers(KeyOf[r])
      BY <1>1 DEF Lease, At, Readers
    <3>3. Cardinality(Readers(KeyOf[r]) \cup {r}) = Cardinality(Readers(KeyOf[r])) + 1
      BY <3>2, <1>a, FS_AddElement
    <3>4. open' = [open EXCEPT ![KeyOf[r]] = @ + 1]
      BY <1>1, <2>1 DEF Lease
    <3> QED BY <3>1, <3>3, <3>4, <1>a DEF Leases
  <2>2. CASE file[KeyOf[r]] # found[r]
    BY <1>1, <2>2, <1>b DEF Lease, At
  <2> QED BY <2>1, <2>2
<1>2. ASSUME NEW r \in Request, CloseHit(r) PROVE Leases'
  <2>1. \A k \in Key : Readers(k)' = IF k = KeyOf[r] THEN Readers(k) \ {r} ELSE Readers(k)
    BY <1>a, <1>2 DEF CloseHit, Goto, Readers
  <2>2. r \in Readers(KeyOf[r])
    BY <1>2 DEF CloseHit, At, Readers
  <2>3. Cardinality(Readers(KeyOf[r]) \ {r}) = Cardinality(Readers(KeyOf[r])) - 1
    BY <2>2, <1>a, FS_RemoveElement
  <2>4. open' = [open EXCEPT ![KeyOf[r]] = @ - 1]
    BY <1>2 DEF CloseHit
  <2> QED BY <2>1, <2>3, <2>4, <1>a DEF Leases
<1>3. ASSUME NEW r \in Request, Arrive(r) PROVE Leases'
  BY <1>3, <1>b DEF Arrive, At, cache
<1>4. ASSUME NEW r \in Request, LookUp(r) PROVE Leases'
  <2>1. PICK at \in {"acquire", "validate"} : Goto(r, at)
    BY <1>4 DEF LookUp
  <2> QED BY <1>4, <2>1, <1>b DEF LookUp, At
<1>5. ASSUME NEW r \in Request, Valid(r) PROVE Leases'
  BY <1>5, <1>b DEF Valid, At, cache
<1>6. ASSUME NEW r \in Request, Reject(r) PROVE Leases'
  BY <1>6, <1>b DEF Reject, Remove, At, cache
<1>7. ASSUME NEW r \in Request, OpenKilled(r) PROVE Leases'
  BY <1>7, <1>b DEF OpenKilled, Remove, At, cache
<1>8. ASSUME NEW r \in Request, OpenCancelled(r) PROVE Leases'
  BY <1>8, <1>b DEF OpenCancelled, At, cache
<1>9. ASSUME NEW r \in Request, Acquire(r) PROVE Leases'
  BY <1>9, <1>b DEF Acquire, At, cache
<1>10. ASSUME NEW r \in Request, Wait(r) PROVE Leases'
  BY <1>10, <1>b DEF Wait, At, cache
<1>11. ASSUME NEW r \in Request, StopWaiting(r) PROVE Leases'
  BY <1>11, <1>b DEF StopWaiting, At, cache
<1>12. ASSUME NEW r \in Request, Begin(r) PROVE Leases'
  BY <1>12, <1>b DEF Begin, At, cache
<1>13. ASSUME NEW r \in Request, BeginFails(r) PROVE Leases'
  BY <1>13, <1>b DEF BeginFails, At, cache
<1>14. ASSUME NEW r \in Request, StartProcess(r) PROVE Leases'
  BY <1>14, <1>b DEF StartProcess, At, cache
<1>15. ASSUME NEW r \in Request, StartFails(r) PROVE Leases'
  BY <1>15, <1>b DEF StartFails, At, cache
<1>16. ASSUME NEW r \in Request, StreamEnds(r) PROVE Leases'
  <2>1. PICK at \in {"discard", "commit"} : Goto(r, at)
    BY <1>16 DEF StreamEnds
  <2> QED BY <1>16, <2>1, <1>b DEF StreamEnds, At
<1>17. ASSUME NEW r \in Request, StreamFails(r) PROVE Leases'
  BY <1>17, <1>b DEF StreamFails, At, cache
<1>18. ASSUME NEW r \in Request, Discard(r) PROVE Leases'
  BY <1>18, <1>b DEF Discard, Drop, At, cache
<1>19. ASSUME NEW r \in Request, CommitValidates(r) PROVE Leases'
  BY <1>19, <1>b DEF CommitValidates, At, cache
<1>20. ASSUME NEW r \in Request, CommitRejects(r) PROVE Leases'
  BY <1>20, <1>b DEF CommitRejects, Drop, At, cache
<1>21. ASSUME NEW r \in Request, NotPublished(r) PROVE Leases'
  BY <1>21, <1>b DEF NotPublished, Drop, At, cache
<1>22. ASSUME NEW r \in Request, Publish(r) PROVE Leases'
  BY <1>22, <1>b DEF Publish, Drop, At, cache
<1>23. ASSUME NEW r \in Request, Release(r) PROVE Leases'
  BY <1>23, <1>b DEF Release, At, cache
<1>24. ASSUME NEW r \in Request, Cancel(r) PROVE Leases'
  BY <1>24, <1>c DEF Cancel, cache
<1>25. ASSUME NEW o \in Other, OtherAcquires(o) \/ OtherReleases(o) PROVE Leases'
  BY <1>25, <1>c DEF OtherAcquires, OtherReleases, cache
<1>26. CASE SetMaxBytes \/ SetLimits \/ Boot \/ UNCHANGED vars
  BY <1>26, <1>c DEF SetMaxBytes, SetLimits, Boot, vars, cache
<1>27. CASE Crash \/ \E r \in Request : CrashInPublish(r)
  BY <1>27, <1>d DEF Crash, CrashInPublish
<1> QED BY <1>1, <1>2, <1>3, <1>4, <1>5, <1>6, <1>7, <1>8, <1>9, <1>10, <1>11, <1>12, <1>13, <1>14, <1>15, <1>16, <1>17, <1>18, <1>19, <1>20, <1>21, <1>22, <1>23, <1>24, <1>25, <1>26, <1>27 DEF Next, OpenStep, RenderStep

\* No request is anywhere while there is no process.
LEMMA AsleepStep == Typed /\ Asleep /\ [Next]_vars => Asleep'
<1> SUFFICES ASSUME Typed, Asleep, [Next]_vars PROVE Asleep'
  OBVIOUS
<1>1. CASE \E r \in Request : OpenStep(r)
  BY <1>1 DEF OpenStep, Arrive, LookUp, Valid, Reject, OpenKilled, Remove, OpenCancelled, Lease,
     CloseHit, At, Asleep
<1>2. CASE \E r \in Request : RenderStep(r)
  BY <1>2 DEF RenderStep, Acquire, Wait, StopWaiting, Begin, BeginFails, StartProcess, StartFails,
     StreamEnds, StreamFails, Discard, CommitValidates, CommitRejects, NotPublished, Publish,
     Release, At, Asleep
<1>3. CASE Crash \/ \E r \in Request : CrashInPublish(r)
  BY <1>3 DEF Crash, CrashInPublish, Die, Typed, Asleep
<1>4. CASE \E r \in Request : Cancel(r)
  BY <1>4 DEF Cancel, Asleep
<1>5. CASE \E o \in Other : OtherAcquires(o) \/ OtherReleases(o)
  BY <1>5 DEF OtherAcquires, OtherReleases, Asleep
<1>6. CASE SetMaxBytes \/ SetLimits \/ Boot \/ UNCHANGED vars
  BY <1>6 DEF SetMaxBytes, SetLimits, Boot, vars, Asleep
<1> QED BY <1>1, <1>2, <1>3, <1>4, <1>5, <1>6 DEF Next

\* The partial files of a live process are those being written.
LEMMA PartialsStep == Typed /\ Asleep /\ Partials /\ [Next]_vars => Partials'
<1> SUFFICES ASSUME Typed, Asleep, Partials, [Next]_vars PROVE Partials'
  OBVIOUS
<1>a. pc \in [Request -> Place]
  BY DEF Typed
<1>b. ASSUME NEW r \in Request, NEW at, Goto(r, at), pc[r] \in Writing <=> at \in Writing,
             partial' = partial, process' = process
      PROVE  Partials'
  <2>1. In(Writing)' = In(Writing)
    BY <1>a, <1>b, MoveAround
  <2> QED BY <2>1, <1>b DEF Partials
<1>c. ASSUME NEW r \in Request, NEW at, Goto(r, at), pc[r] \in Writing, at \notin Writing,
             partial' = partial \ {r}, process' = process
      PROVE  Partials'
  <2>1. In(Writing)' = In(Writing) \ {r}
    BY <1>a, <1>c, MoveOut
  <2> QED BY <2>1, <1>c DEF Partials
<1>d. ASSUME pc' = pc, partial' = partial, process' = process PROVE Partials'
  BY <1>d DEF Partials, In
<1>1. ASSUME NEW r \in Request, Arrive(r) PROVE Partials'
  BY <1>1, <1>b DEF Arrive, At, Writing, cache
<1>2. ASSUME NEW r \in Request, LookUp(r) PROVE Partials'
  <2>1. PICK at \in {"acquire", "validate"} : Goto(r, at)
    BY <1>2 DEF LookUp
  <2> QED BY <1>2, <2>1, <1>b DEF LookUp, At, Writing
<1>3. ASSUME NEW r \in Request, Valid(r) PROVE Partials'
  BY <1>3, <1>b DEF Valid, At, Writing, cache
<1>4. ASSUME NEW r \in Request, Reject(r) PROVE Partials'
  BY <1>4, <1>b DEF Reject, Remove, At, Writing, cache
<1>5. ASSUME NEW r \in Request, OpenKilled(r) PROVE Partials'
  BY <1>5, <1>b DEF OpenKilled, Remove, At, Writing, cache
<1>6. ASSUME NEW r \in Request, OpenCancelled(r) PROVE Partials'
  BY <1>6, <1>b DEF OpenCancelled, At, Writing, cache
<1>7. ASSUME NEW r \in Request, Lease(r) PROVE Partials'
  <2>1. PICK at \in {"reading", "acquire"} : Goto(r, at)
    BY <1>7 DEF Lease
  <2> QED BY <1>7, <2>1, <1>b DEF Lease, At, Writing
<1>8. ASSUME NEW r \in Request, CloseHit(r) PROVE Partials'
  BY <1>8, <1>b DEF CloseHit, At, Writing, cache
<1>9. ASSUME NEW r \in Request, Acquire(r) PROVE Partials'
  BY <1>9, <1>b DEF Acquire, At, Writing, cache
<1>10. ASSUME NEW r \in Request, Wait(r) PROVE Partials'
  BY <1>10, <1>b DEF Wait, At, Writing, cache
<1>11. ASSUME NEW r \in Request, StopWaiting(r) PROVE Partials'
  BY <1>11, <1>b DEF StopWaiting, At, Writing, cache
<1>12. ASSUME NEW r \in Request, Begin(r) PROVE Partials'
  <2>1. In(Writing)' = In(Writing) \cup {r}
    BY <1>12, <1>a, MoveIn DEF Begin, At, Writing
  <2> QED BY <2>1, <1>12 DEF Begin, At, Partials
<1>13. ASSUME NEW r \in Request, BeginFails(r) PROVE Partials'
  BY <1>13, <1>b DEF BeginFails, At, Writing, cache
<1>14. ASSUME NEW r \in Request, StartProcess(r) PROVE Partials'
  BY <1>14, <1>b DEF StartProcess, At, Writing, cache
<1>15. ASSUME NEW r \in Request, StartFails(r) PROVE Partials'
  BY <1>15, <1>c DEF StartFails, At, Writing
<1>16. ASSUME NEW r \in Request, StreamEnds(r) PROVE Partials'
  <2>1. PICK at \in {"discard", "commit"} : Goto(r, at)
    BY <1>16 DEF StreamEnds
  <2> QED BY <1>16, <2>1, <1>b DEF StreamEnds, At, Writing
<1>17. ASSUME NEW r \in Request, StreamFails(r) PROVE Partials'
  BY <1>17, <1>b DEF StreamFails, At, Writing, cache
<1>18. ASSUME NEW r \in Request, Discard(r) PROVE Partials'
  BY <1>18, <1>c DEF Discard, Drop, At, Writing
<1>19. ASSUME NEW r \in Request, CommitValidates(r) PROVE Partials'
  BY <1>19, <1>b DEF CommitValidates, At, Writing, cache
<1>20. ASSUME NEW r \in Request, CommitRejects(r) PROVE Partials'
  BY <1>20, <1>c DEF CommitRejects, Drop, At, Writing
<1>21. ASSUME NEW r \in Request, NotPublished(r) PROVE Partials'
  BY <1>21, <1>c DEF NotPublished, Drop, At, Writing
<1>22. ASSUME NEW r \in Request, Publish(r) PROVE Partials'
  BY <1>22, <1>c DEF Publish, Drop, At, Writing
<1>23. ASSUME NEW r \in Request, Release(r) PROVE Partials'
  BY <1>23, <1>b DEF Release, At, Writing, cache
<1>24. CASE Crash \/ \E r \in Request : CrashInPublish(r)
  BY <1>24 DEF Crash, CrashInPublish, Die, Partials
<1>25. CASE Boot
  BY <1>25 DEF Boot, Asleep, Partials, In, Writing
<1>26. CASE \E r \in Request : Cancel(r)
  BY <1>26, <1>d DEF Cancel, cache
<1>27. CASE \E o \in Other : OtherAcquires(o) \/ OtherReleases(o)
  BY <1>27, <1>d DEF OtherAcquires, OtherReleases, cache
<1>28. CASE SetMaxBytes \/ SetLimits \/ UNCHANGED vars
  BY <1>28, <1>d DEF SetMaxBytes, SetLimits, vars, cache
<1> QED BY <1>1, <1>2, <1>3, <1>4, <1>5, <1>6, <1>7, <1>8, <1>9, <1>10, <1>11, <1>12, <1>13, <1>14, <1>15, <1>16, <1>17, <1>18, <1>19, <1>20, <1>21, <1>22, <1>23, <1>24, <1>25, <1>26, <1>27, <1>28 DEF Next, OpenStep, RenderStep

-----------------------------------------------------------------------------
(* Entries and their readers *)

\* The file at the path of a key is one that was rendered for that key.
Placed == \A k \in Key : file[k] # None => KeyOf[file[k]] = k

\* What is published is the request's own file, where there was none, and not
\* for a cancelled request; other entries stay or go.
LEMMA PublishEffect ==
    ASSUME Typed, NEW r \in Request, Publish(r) \/ CrashInPublish(r)
    PROVE  /\ r \notin cancelled /\ file[KeyOf[r]] = None
           /\ \A k \in Key : file'[k] \in {None, file[k]} \/ (k = KeyOf[r] /\ file'[k] = r)
<1>1. r \notin cancelled /\ file[KeyOf[r]] = None
  BY DEF Publish, CrashInPublish, MayPublish
<1>2. PICK V : \/ file' = Evict(Renamed(r), V)
               \/ file' = [Evict(Renamed(r), V) EXCEPT ![KeyOf[r]] = None]
  BY DEF Publish, CrashInPublish
<1>3. \A k \in Key : Renamed(r)[k] = IF k = KeyOf[r] THEN r ELSE file[k]
  BY PreviewsAssumption DEF Renamed, Typed
<1>4. \A k \in Key : Evict(Renamed(r), V)[k] \in {None, Renamed(r)[k]}
  BY DEF Evict
<1>5. \A k \in Key : file'[k] \in {None, Evict(Renamed(r), V)[k]}
  BY <1>2 DEF Evict
<1> QED BY <1>1, <1>3, <1>4, <1>5

\* A leased entry is not evicted.
LEMMA LeasedStays ==
    ASSUME Typed, Placed, NEW r \in Request, Publish(r),
           NEW k \in Key, file[k] # None, open[k] # 0
    PROVE  file'[k] = file[k]
<1>1. k # KeyOf[r]
  BY DEF Publish, MayPublish
<1>2. PICK V \in Evictions(Renamed(r)) :
         \/ file' = Evict(Renamed(r), V)
         \/ file' = [Evict(Renamed(r), V) EXCEPT ![KeyOf[r]] = None]
  BY DEF Publish
<1>3. Renamed(r)[k] = file[k]
  BY <1>1, PreviewsAssumption DEF Renamed, Typed
<1>4. file[k] \notin V
  <2>1. \A x \in V : open[KeyOf[x]] = 0
    BY <1>2 DEF Evictions, Evictable
  <2> QED BY <2>1 DEF Placed
<1>5. Evict(Renamed(r), V)[k] = file[k]
  BY <1>3, <1>4 DEF Evict
<1> QED BY <1>1, <1>2, <1>5 DEF Evict

\* Only an Open that finds a file invalid and a publication touch the entries.
FileActions(r) == Reject(r) \/ OpenKilled(r) \/ Publish(r) \/ CrashInPublish(r)

\* Every other step leaves the entries and the list of rejected files alone.
LEMMA FilesOnlyThere ==
    ASSUME [Next]_vars
    PROVE  (\E r \in Request : FileActions(r)) \/ (file' = file /\ rejected' = rejected)
<1>1. CASE \E r \in Request : OpenStep(r)
  BY <1>1 DEF OpenStep, FileActions, Arrive, LookUp, Valid, OpenCancelled, Lease, CloseHit,
     cache, client
<1>2. CASE \E r \in Request : RenderStep(r)
  BY <1>2 DEF RenderStep, FileActions, Acquire, Wait, StopWaiting, Begin, BeginFails,
     StartProcess, StartFails, StreamEnds, StreamFails, Discard, CommitValidates,
     CommitRejects, NotPublished, Release, cache, client
<1>3. CASE \E r \in Request : Cancel(r) \/ CrashInPublish(r)
  BY <1>3 DEF Cancel, FileActions, cache
<1>4. CASE \E o \in Other : OtherAcquires(o) \/ OtherReleases(o)
  BY <1>4 DEF OtherAcquires, OtherReleases, cache, client
<1>5. CASE SetMaxBytes \/ SetLimits \/ Crash \/ Boot \/ UNCHANGED vars
  BY <1>5 DEF SetMaxBytes, SetLimits, Crash, Die, Boot, vars, cache, client
<1> QED BY <1>1, <1>2, <1>3, <1>4, <1>5 DEF Next

\* Every entry stays at the path of its key.
LEMMA PlacedStep == Typed /\ Placed /\ [Next]_vars => Placed'
<1> SUFFICES ASSUME Typed, Placed, [Next]_vars PROVE Placed'
  OBVIOUS
<1>1. ASSUME NEW r \in Request, Reject(r) \/ OpenKilled(r) PROVE Placed'
  BY <1>1 DEF Reject, OpenKilled, Remove, RemoveIfOwned, Typed, Placed
<1>2. ASSUME NEW r \in Request, Publish(r) \/ CrashInPublish(r) PROVE Placed'
  BY <1>2, PublishEffect DEF Placed
<1>3. CASE file' = file
  BY <1>3 DEF Placed
<1> QED BY <1>1, <1>2, <1>3, FilesOnlyThere DEF FileActions

\* A request starts to read only by a lease, and what it found changes only
\* when it looks up.
LEMMA ReadersOnlyByLease ==
    ASSUME Typed, [Next]_vars, NEW q \in Request, pc'[q] = "reading"
    PROVE  found'[q] = found[q] /\ (pc[q] = "reading" \/ (Lease(q) /\ file[KeyOf[q]] = found[q]))
<1> DEFINE Goal == found'[q] = found[q] /\ (pc[q] = "reading" \/ (Lease(q) /\ file[KeyOf[q]] = found[q]))
<1>a. pc \in [Request -> Place] /\ found \in [Request -> Request \cup {None}]
  BY DEF Typed
<1>b. ASSUME NEW r \in Request, NEW at, Goto(r, at), at # "reading", found' = found PROVE Goal
  BY <1>a, <1>b DEF Goto
<1>c. ASSUME pc' = pc, found' = found PROVE Goal
  BY <1>c
<1>1. ASSUME NEW r \in Request, LookUp(r) PROVE Goal
  <2>1. PICK at \in {"acquire", "validate"} : Goto(r, at)
    BY <1>1 DEF LookUp
  <2>2. q # r /\ pc[q] = "reading"
    BY <2>1, <1>a DEF Goto
  <2> QED BY <2>2, <1>1, <1>a DEF LookUp
<1>2. ASSUME NEW r \in Request, Lease(r) PROVE Goal
  BY <1>2, <1>a DEF Lease, Goto, client
<1>3. CASE \E r \in Request : OpenStep(r)
  BY <1>1, <1>2, <1>3, <1>b DEF OpenStep, Arrive, Valid, Reject, OpenKilled, Remove, OpenCancelled,
     CloseHit, client
<1>4. ASSUME NEW r \in Request, StreamEnds(r) PROVE Goal
  <2>1. PICK at \in {"discard", "commit"} : Goto(r, at)
    BY <1>4 DEF StreamEnds
  <2> QED BY <2>1, <1>4, <1>b DEF StreamEnds, client
<1>5. CASE \E r \in Request : RenderStep(r)
  BY <1>4, <1>5, <1>b DEF RenderStep, Acquire, Wait, StopWaiting, Begin, BeginFails, StartProcess,
     StartFails, StreamFails, Discard, Drop, CommitValidates, CommitRejects, NotPublished,
     Publish, Release, client
<1>6. CASE Crash \/ \E r \in Request : CrashInPublish(r)
  BY <1>6 DEF Crash, CrashInPublish, Die, client
<1>7. CASE \E r \in Request : Cancel(r)
  BY <1>7, <1>c DEF Cancel
<1>8. CASE \E o \in Other : OtherAcquires(o) \/ OtherReleases(o)
  BY <1>8, <1>c DEF OtherAcquires, OtherReleases, client
<1>9. CASE SetMaxBytes \/ SetLimits \/ Boot \/ UNCHANGED vars
  BY <1>9, <1>c DEF SetMaxBytes, SetLimits, Boot, vars, client
<1> QED BY <1>3, <1>5, <1>6, <1>7, <1>8, <1>9 DEF Next

\* What a request reads stays where it is, or has been taken for invalid.
LEMMA ReadersStep ==
    Typed /\ Leases /\ Placed /\ ReadersKeepTheirEntry /\ [Next]_vars => ReadersKeepTheirEntry'
<1> SUFFICES ASSUME Typed, Leases, Placed, ReadersKeepTheirEntry, [Next]_vars,
                    NEW q \in Request, pc'[q] = "reading"
             PROVE  found'[q] \in rejected' \cup {file'[KeyOf[q]]}
  BY DEF ReadersKeepTheirEntry
<1>1. /\ found'[q] = found[q]
      /\ pc[q] = "reading" \/ (Lease(q) /\ file[KeyOf[q]] = found[q])
  BY ReadersOnlyByLease
<1>2. found[q] \in rejected \cup {file[KeyOf[q]]}
  BY <1>1 DEF ReadersKeepTheirEntry
<1>3. KeyOf[q] \in Key
  BY PreviewsAssumption
<1>4. ASSUME NEW r \in Request, Reject(r) \/ OpenKilled(r)
      PROVE  found[q] \in rejected' \cup {file'[KeyOf[q]]}
  <2>1. rejected' = rejected \cup {found[r]}
    BY <1>4 DEF Reject, OpenKilled, Remove
  <2>2. file'[KeyOf[q]] = file[KeyOf[q]] \/ file[KeyOf[q]] = found[r]
    BY <1>3, <1>4 DEF Reject, OpenKilled, Remove, RemoveIfOwned, Typed
  <2> QED BY <1>2, <2>1, <2>2
<1>5. ASSUME NEW r \in Request, Publish(r)
      PROVE  found[q] \in rejected' \cup {file'[KeyOf[q]]}
  <2>1. rejected' = rejected
    BY <1>5 DEF Publish, client
  <2>2. ASSUME found[q] = file[KeyOf[q]] PROVE file'[KeyOf[q]] = file[KeyOf[q]]
    <3>1. pc[q] = "reading"
      BY <1>1, <1>5 DEF Lease, Publish, Drop, Goto, Typed, At
    <3>2. file[KeyOf[q]] # None
      BY <2>2, <3>1, PreviewsAssumption DEF Typed, Looks, Looking
    <3>3. IsFiniteSet(Readers(KeyOf[q])) /\ q \in Readers(KeyOf[q])
      BY <3>1, PreviewsAssumption, FS_Subset DEF Readers
    <3>4. open[KeyOf[q]] # 0
      BY <3>3, <1>3, FS_EmptySet DEF Leases
    <3> QED BY <3>2, <3>4, <1>3, <1>5, LeasedStays
  <2> QED BY <1>2, <2>1, <2>2
<1>6. ASSUME NEW r \in Request, CrashInPublish(r) PROVE FALSE
  BY <1>6 DEF CrashInPublish, Die
<1>7. CASE file' = file /\ rejected' = rejected
  BY <1>1, <1>2, <1>7
<1> QED BY <1>1, <1>4, <1>5, <1>6, <1>7, FilesOnlyThere DEF FileActions

-----------------------------------------------------------------------------
(* The bytes of the cache *)

Held(f) == {k \in Key : f[k] # None}

\* There are no more entries than requests that have rendered one.
LEMMA FewEntries == ASSUME Typed, Placed PROVE IsFiniteSet(Held(file))
<1> DEFINE made == {r \in Request : file[KeyOf[r]] = r}
           f    == [r \in made |-> KeyOf[r]]
<1>1. IsFiniteSet(made)
  BY PreviewsAssumption, FS_Subset
<1>2. \A k \in Held(file) : file[k] \in made /\ KeyOf[file[k]] = k
  BY PreviewsAssumption DEF Held, Typed, Placed
<1>3. \A r \in made : KeyOf[r] \in Held(file)
  BY PreviewsAssumption DEF Held
<1>4. f \in Surjection(made, Held(file))
  BY <1>2, <1>3 DEF Surjection
<1> QED BY <1>1, <1>4, FS_Surjection

\* A cache without some of the entries is not heavier.
LEMMA FewerBytes ==
    ASSUME Typed, Placed, NEW f, Held(f) \subseteq Held(file)
    PROVE  Weight(f) \in Nat /\ Weight(file) \in Nat /\ Weight(f) <= Weight(file)
<1> DEFINE Bytes(K) == {{k} \X (1..Size[k]) : k \in K}
           g        == [k \in Held(file) |-> {k} \X (1..Size[k])]
<1>1. IsFiniteSet(Bytes(Held(file)))
  <2>1. g \in Surjection(Held(file), Bytes(Held(file)))
    BY DEF Surjection
  <2> QED BY <2>1, FewEntries, FS_Surjection
<1>2. ASSUME NEW T \in Bytes(Held(file)) PROVE IsFiniteSet(T)
  <2>1. PICK k \in Held(file) : T = {k} \X (1..Size[k])
    OBVIOUS
  <2>2. 1 \in Int /\ Size[k] \in Int
    BY PreviewsAssumption DEF Held
  <2>3. IsFiniteSet({k}) /\ IsFiniteSet(1..Size[k])
    BY <2>2, FS_Singleton, FS_Interval
  <2> QED BY <2>1, <2>3, FS_Product
<1>3. IsFiniteSet(UNION Bytes(Held(file)))
  BY <1>1, <1>2, FS_UNION
<1>4. UNION Bytes(Held(f)) \in SUBSET UNION Bytes(Held(file))
  OBVIOUS
<1>5. Weight(f) = Cardinality(UNION Bytes(Held(f))) /\ Weight(file) = Cardinality(UNION Bytes(Held(file)))
  BY DEF Weight, Held
<1> HIDE DEF Bytes
<1> QED BY <1>3, <1>4, <1>5, FS_Subset, FS_CardinalityType

-----------------------------------------------------------------------------
(* The inductive invariant and the theorems *)

IInv == Typed /\ Slots /\ Leases /\ Partials /\ Asleep /\ Placed /\ ReadersKeepTheirEntry

\* Nothing is taken at first.
LEMMA IInvInit == Init => IInv
<1> SUFFICES ASSUME Init PROVE IInv
  OBVIOUS
<1>1. Typed
  BY TypedInit
<1>2. In(Rendering) = {} /\ In(Writing) = {} /\ \A k : Readers(k) = {}
  BY DEF Init, In, Rendering, Writing, Readers
<1>3. Slots /\ Leases
  BY <1>2, FS_EmptySet DEF Init, Slots, Leases
<1>4. Partials /\ Asleep
  BY <1>2 DEF Init, Partials, Asleep
<1>5. Placed /\ ReadersKeepTheirEntry
  BY DEF Init, Placed, ReadersKeepTheirEntry
<1> QED BY <1>1, <1>3, <1>4, <1>5 DEF IInv

\* Every step keeps the invariant.
LEMMA IInvStep == IInv /\ [Next]_vars => IInv'
BY TypedStep, SlotsStep, LeasesStep, PartialsStep, AsleepStep, PlacedStep, ReadersStep DEF IInv

\* Slots, leases and the rest of the state are what the code takes them for: in
\* particular neither counter is ever negative, however requests end.
THEOREM TypeCorrect == Spec => []TypeOK
<1>1. IInv => TypeOK
  <2> SUFFICES ASSUME IInv PROVE TypeOK
    OBVIOUS
  <2>1. IsFiniteSet(In(Rendering)) /\ IsFiniteSet(busy) /\ \A k : IsFiniteSet(Readers(k))
    BY PreviewsAssumption, FS_Subset DEF In, Readers, IInv, Typed
  <2>2. taken \in Nat
    BY <2>1, FS_CardinalityType DEF IInv, Slots
  <2>3. open \in [Key -> Nat]
    BY <2>1, FS_CardinalityType DEF IInv, Leases, Typed
  <2> QED BY <2>2, <2>3 DEF IInv, Typed, TypeOK
<1> QED BY <1>1, IInvInit, IInvStep, PTL DEF Spec

\* Whatever a request runs into, its slot, its lease and its partial file are
\* given back (PreviewLimits.release, leasedFile.Close, Partial.Discard).
THEOREM NoLeaks == Spec => []NothingLeaks
<1>1. IInv => NothingLeaks
  BY DEF IInv, Slots, Leases, Partials, NothingLeaks
<1> QED BY <1>1, IInvInit, IInvStep, PTL DEF Spec

\* evictLocked never takes a file from under its reader: only an Open that has
\* found that very file invalid does.
THEOREM ReadersKeep == Spec => []ReadersKeepTheirEntry
<1>1. IInv => ReadersKeepTheirEntry
  BY DEF IInv
<1> QED BY <1>1, IInvInit, IInvStep, PTL DEF Spec

\* Partial.Commit publishes nothing for a cancelled request and nothing over
\* another writer's entry.
THEOREM PublishesWanted == Spec => PublishesOnlyWanted
<1>1. ASSUME IInv, [Next]_vars, NEW k \in Key, file'[k] # file[k], file'[k] # None
      PROVE  file'[k] \notin cancelled /\ file[k] = None
  <2>1. PICK r \in Request : FileActions(r)
    BY <1>1, FilesOnlyThere
  <2>2. CASE Reject(r) \/ OpenKilled(r)
    BY <1>1, <2>2 DEF IInv, Typed, Reject, OpenKilled, Remove, RemoveIfOwned
  <2>3. CASE Publish(r) \/ CrashInPublish(r)
    BY <1>1, <2>3, PublishEffect DEF IInv
  <2> QED BY <2>1, <2>2, <2>3 DEF FileActions
<1>2. IInv /\ [Next]_vars =>
        [\A k \in Key : file'[k] # file[k] /\ file'[k] # None
           => file'[k] \notin cancelled /\ file[k] = None]_vars
  BY <1>1
<1> QED BY <1>2, IInvInit, IInvStep, PTL DEF Spec, PublishesOnlyWanted

\* Partial.Commit leaves the cache within its limit of that moment, or smaller than it was:
\* if eviction cannot make room, the new entry goes again.
THEOREM GrowthStaysWithinLimit == Spec => GrowthWithinLimit
<1>1. ASSUME IInv, [Next]_vars, Weight(file') > Weight(file)
      PROVE  Weight(file') <= max \/ process' = "down"
  <2>1. ASSUME Held(file') \subseteq Held(file) PROVE FALSE
    BY <1>1, <2>1, FewerBytes DEF IInv
  <2>2. ASSUME NEW r \in Request, Reject(r) \/ OpenKilled(r) PROVE FALSE
    <3>1. Held(file') \subseteq Held(file)
      BY <1>1, <2>2 DEF Reject, OpenKilled, Remove, RemoveIfOwned, Held, IInv, Typed
    <3> QED BY <2>1, <3>1
  <2>3. ASSUME NEW r \in Request, Publish(r) PROVE Weight(file') <= max
    <3>1. PICK V \in Evictions(Renamed(r)) :
             file' = IF Enough(Renamed(r), V)
                     THEN Evict(Renamed(r), V)
                     ELSE [Evict(Renamed(r), V) EXCEPT ![KeyOf[r]] = None]
      BY <2>3 DEF Publish
    <3>2. CASE Enough(Renamed(r), V)
      BY <3>1, <3>2 DEF Enough
    <3>3. CASE ~Enough(Renamed(r), V)
      <4>1. \A k \in Key : file'[k] # None => k # KeyOf[r]
        BY <3>1, <3>3, PreviewsAssumption DEF Evict
      <4>2. \A k \in Key : file'[k] \in {None, file[k]} \/ (k = KeyOf[r] /\ file'[k] = r)
        BY <1>1, <2>3, PublishEffect DEF IInv
      <4>3. Held(file') \subseteq Held(file)
        BY <4>1, <4>2 DEF Held
      <4> QED BY <2>1, <4>3
    <3> QED BY <3>2, <3>3
  <2>4. ASSUME NEW r \in Request, CrashInPublish(r) PROVE process' = "down"
    BY <2>4 DEF CrashInPublish, Die
  <2>5. CASE file' = file
    BY <2>1, <2>5
  <2> QED BY <1>1, <2>2, <2>3, <2>4, <2>5, FilesOnlyThere DEF FileActions
<1> QED BY <1>1, IInvInit, IInvStep, PTL DEF Spec, GrowthWithinLimit
=============================================================================
