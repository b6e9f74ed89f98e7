--------------------------- MODULE SettingsProofs ---------------------------
(***************************************************************************)
(* Theorems about Settings, and the media library it contains, for every   *)
(* set of roots, files, refreshes, openings, settings and updates.         *)
(***************************************************************************)
EXTENDS Settings, TLAPS

Place   == {"idle", "lock", "blocked", "roots", "walk", "list", "restore", "show",
            "get", "open", "check", "served"}
Shows   == {"empty", "media", "failed"}
Status  == Shows \cup {"none", "scanning"}
Listing == [File -> Version \cup {None}]
Row     == [value : Setting, revision : Nat]

LibraryTyped ==
    /\ configured \subseteq Root
    /\ disk \in Listing /\ catalog \in Listing
    /\ pc \in [Call -> Place] /\ cancelled \subseteq Call
    /\ todo \in [Refresh -> SUBSET Root] /\ walk \in [Refresh -> Root \cup {None}]
    /\ unread \in [Refresh -> SUBSET File] /\ found \in [Refresh -> Listing]
    /\ failed \subseteq Refresh
    /\ previous \in [Refresh -> Status] /\ verdict \in [Refresh -> Status]
    /\ newest \in Refresh \cup {None} /\ status \in Status
    /\ source \in [Open -> File \cup {None}] /\ record \in [Open -> Version \cup {None}]
    /\ fd \in [Open -> Version \cup {None}] /\ answer \in [Open -> Version \cup {None}]

\* An opening that has not been answered has a file to open.
Sourced == \A o \in Open :
    pc[o] \in {"lock", "blocked", "get", "open", "check"} => source[o] \in File

ValuesTyped ==
    /\ writer \in BOOLEAN /\ limits \in Setting
    /\ stored \in Row /\ published \in Setting
    /\ live \in [Others -> Setting] /\ stopped \in BOOLEAN

UpdateTyped ==
    /\ requests \subseteq Update /\ abandoned \subseteq Update
    /\ wanted \in [Update -> Row \cup {None}] /\ \A u \in requests : wanted[u] \in Row
    /\ updating \in Update \cup {None} /\ stage \in {"none", "apply", "undo", "save", "publish"}
    /\ step \in 0..5 /\ target \in Setting \cup {None} /\ rolling \in BOOLEAN

Typed == LibraryTyped /\ Sourced /\ ValuesTyped /\ UpdateTyped

\* A component that has the limits of document s, or no longer takes any.
Follows(i, s) == Has(i) = s \/ (i = Scheduler /\ stopped)

\* How far the update under way is, and who has which limits by then.
Applied ==
    /\ updating = None <=> stage = "none"
    /\ stage \in {"none", "save", "publish"} => step = 0 /\ ~rolling
    /\ stage \in {"apply", "undo"} => step \in Component
    /\ stage # "none" => target \in Setting
    /\ writer => stage \in {"apply", "undo"} /\ step = Scanner
    /\ IF stage = "publish" THEN stored.value = target ELSE stored.value = published
    /\ rolling => target = published
    /\ stage = "none" => \A i \in Component : Follows(i, published)
    /\ stage = "apply" => \A i \in Component : i < step => Follows(i, target)
    /\ stage = "undo" => \A i \in Component : i > step => Follows(i, published)
    /\ stage \in {"save", "publish"} => \A i \in Component : Follows(i, target)

\* What a refresh has come to can be shown, and the newest has shown it when it ends.
NewestShown ==
    /\ \A c \in Refresh : pc[c] = "show" => verdict[c] \in Shows
    /\ newest # None /\ pc[newest] = "idle" => status = verdict[newest] /\ status \in Shows

\* Only an opening that has been served has a descriptor.
Answered == \A o \in Open : answer[o] # None => pc[o] = "served"

-----------------------------------------------------------------------------
(* The library's types *)

LEMMA TypedInit == Init => Typed
<1> SUFFICES ASSUME Init PROVE Typed
  OBVIOUS
<1>1. LibraryTyped
  BY DEF Init, LibraryInit, LibraryTyped, Listing, NoFile, Place, Status, Call
<1>2. Sourced
  BY LibraryAssumption DEF Init, LibraryInit, Sourced, Call
<1>3. ValuesTyped
  <2>1. writer \in BOOLEAN /\ stopped \in BOOLEAN
    BY Zenon DEF Init, LibraryInit
  <2>2. stored \in Row /\ limits \in Setting /\ published \in Setting /\ live \in [Others -> Setting]
    BY DEF Init, Row
  <2> QED BY <2>1, <2>2 DEF ValuesTyped
<1>4. UpdateTyped
  <2>1. rolling \in BOOLEAN
    BY Zenon DEF Init
  <2> QED BY <2>1 DEF Init, UpdateTyped
<1> QED BY <1>1, <1>2, <1>3, <1>4 DEF Typed

\* The readers a writer lets in go where they would have gone.
LEMMA LetInTyped ==
    ASSUME pc \in [Call -> Place], LetReadersIn
    PROVE  pc' \in [Call -> Place]
BY DEF LetReadersIn, Place, First

\* Steps of the library keep its types.
LEMMA LibraryStepTyped == LibraryTyped /\ Sourced /\ LibraryStep => LibraryTyped' /\ Sourced'
<1> SUFFICES ASSUME LibraryTyped, Sourced, LibraryStep PROVE LibraryTyped' /\ Sourced'
  OBVIOUS
<1> USE LibraryAssumption DEF LibraryTyped, Sourced, Listing, Status, Shows, Place, Call, NoFile, walking, showing, opening, config
<1>1. ASSUME NEW c \in Refresh, BeginRefresh(c) PROVE LibraryTyped' /\ Sourced'
  BY <1>1 DEF At, BeginRefresh, Goto
<1>2. ASSUME NEW c \in Refresh, Lock(c) PROVE LibraryTyped' /\ Sourced'
  BY <1>2 DEF At, Lock, Goto, First
<1>3. ASSUME NEW c \in Refresh, EndRefresh(c) PROVE LibraryTyped' /\ Sourced'
  <2>1. \E at \in {"list", "restore", "show"} : Goto(c, at)
    BY <1>3 DEF EndRefresh, Resolve
  <2>2. verdict' \in [Refresh -> Status]
    BY <1>3 DEF EndRefresh, Resolve
  <2>3. pc' \in [Call -> Place] /\ Sourced'
    BY <1>3, <2>1 DEF EndRefresh, Goto
  <2> QED BY <1>3, <2>2, <2>3 DEF EndRefresh
<1>4. ASSUME NEW c \in Refresh, List(c) PROVE LibraryTyped' /\ Sourced'
  BY <1>4 DEF At, List, Goto, Resolve, Shown
<1>5. ASSUME NEW c \in Refresh, ListCancelled(c) PROVE LibraryTyped' /\ Sourced'
  BY <1>5 DEF At, ListCancelled, Goto
<1>6. ASSUME NEW c \in Refresh, Restore(c) PROVE LibraryTyped' /\ Sourced'
  <2>1. \E state \in Status : Resolve(c, state)
    BY <1>6 DEF Restore, Shown
  <2>2. verdict' \in [Refresh -> Status] /\ pc' \in [Call -> Place]
    BY <2>1 DEF Resolve, Goto
  <2>3. Sourced'
    BY <1>6, <2>1 DEF Restore, Resolve, Goto
  <2> QED BY <1>6, <2>2, <2>3 DEF Restore
<1>7. ASSUME NEW c \in Refresh, Show(c) PROVE LibraryTyped' /\ Sourced'
  BY <1>7 DEF At, Show, Goto
<1>8. ASSUME NEW c \in Refresh, Sync(c) PROVE LibraryTyped' /\ Sourced'
  BY <1>8 DEF At, Sync, Goto
<1>9. ASSUME NEW c \in Refresh, FailRoot(c) PROVE LibraryTyped' /\ Sourced'
  BY <1>9 DEF At, FailRoot, Goto
<1>10. ASSUME NEW c \in Refresh, NEW r \in Root, WalkRoot(c, r) PROVE LibraryTyped' /\ Sourced'
  BY <1>10 DEF At, WalkRoot, Goto, In
<1>11. ASSUME NEW c \in Refresh, NEW f \in File, ReadFile(c, f) PROVE LibraryTyped' /\ Sourced'
  BY <1>11 DEF At, ReadFile
<1>12. ASSUME NEW c \in Refresh, Cancel(c) PROVE LibraryTyped' /\ Sourced'
  BY <1>12 DEF Cancel, Busy
<1>13. ASSUME NEW o \in Open, NEW f \in File, BeginOpen(o, f) PROVE LibraryTyped' /\ Sourced'
  BY <1>13 DEF At, BeginOpen, Goto
<1>14. ASSUME NEW o \in Open, Lock(o) PROVE LibraryTyped' /\ Sourced'
  BY <1>14 DEF At, Lock, Goto, First
<1>15. ASSUME NEW o \in Open, Get(o) PROVE LibraryTyped' /\ Sourced'
  BY <1>15 DEF At, Get, Goto
<1>16. ASSUME NEW o \in Open, OpenFile(o) PROVE LibraryTyped' /\ Sourced'
  BY <1>16 DEF At, OpenFile, Goto
<1>17. ASSUME NEW o \in Open, Serve(o) PROVE LibraryTyped' /\ Sourced'
  BY <1>17 DEF At, Serve, Goto, Return
<1>18. ASSUME NEW o \in Open, Refuse(o) PROVE LibraryTyped' /\ Sourced'
  BY <1>18 DEF At, Refuse, Goto, Return
<1>19. ASSUME NEW o \in Open, Close(o) PROVE LibraryTyped' /\ Sourced'
  BY <1>19 DEF At, Close, Goto, Return
<1>20. ASSUME NEW f \in File, Meddle(f) PROVE LibraryTyped' /\ Sourced'
  <2>1. PICK v \in Version \cup {None} : disk' = [disk EXCEPT ![f] = v]
    BY <1>20 DEF Meddle
  <2> QED BY <1>20, <2>1 DEF Meddle
<1> QED BY <1>1, <1>2, <1>3, <1>4, <1>5, <1>6, <1>7, <1>8, <1>9, <1>10, <1>11, <1>12, <1>13, <1>14, <1>15, <1>16, <1>17, <1>18, <1>19, <1>20
  DEF LibraryStep, RefreshStep, OpenStep

\* Steps of the library are not about its limits.
LEMMA LibraryKeepsConfig == LibraryStep => UNCHANGED config
<1> SUFFICES ASSUME LibraryStep PROVE UNCHANGED config
  OBVIOUS
<1> USE DEF config
<1>1. ASSUME NEW c \in Refresh, BeginRefresh(c) PROVE UNCHANGED config
  BY <1>1 DEF At, BeginRefresh, Goto
<1>2. ASSUME NEW c \in Refresh, Lock(c) PROVE UNCHANGED config
  BY <1>2 DEF At, Lock, Goto, First
<1>3. ASSUME NEW c \in Refresh, EndRefresh(c) PROVE UNCHANGED config
  BY <1>3 DEF At, EndRefresh, Goto, Resolve
<1>4. ASSUME NEW c \in Refresh, List(c) PROVE UNCHANGED config
  BY <1>4 DEF At, List, Goto, Resolve, Shown
<1>5. ASSUME NEW c \in Refresh, ListCancelled(c) PROVE UNCHANGED config
  BY <1>5 DEF At, ListCancelled, Goto
<1>6. ASSUME NEW c \in Refresh, Restore(c) PROVE UNCHANGED config
  BY <1>6 DEF At, Restore, Goto, Resolve, Shown
<1>7. ASSUME NEW c \in Refresh, Show(c) PROVE UNCHANGED config
  BY <1>7 DEF At, Show, Goto
<1>8. ASSUME NEW c \in Refresh, Sync(c) PROVE UNCHANGED config
  BY <1>8 DEF At, Sync, Goto
<1>9. ASSUME NEW c \in Refresh, FailRoot(c) PROVE UNCHANGED config
  BY <1>9 DEF At, FailRoot, Goto
<1>10. ASSUME NEW c \in Refresh, NEW r \in Root, WalkRoot(c, r) PROVE UNCHANGED config
  BY <1>10 DEF At, WalkRoot, Goto, In
<1>11. ASSUME NEW c \in Refresh, NEW f \in File, ReadFile(c, f) PROVE UNCHANGED config
  BY <1>11 DEF At, ReadFile
<1>12. ASSUME NEW c \in Refresh, Cancel(c) PROVE UNCHANGED config
  BY <1>12 DEF Cancel, Busy
<1>13. ASSUME NEW o \in Open, NEW f \in File, BeginOpen(o, f) PROVE UNCHANGED config
  BY <1>13 DEF At, BeginOpen, Goto
<1>14. ASSUME NEW o \in Open, Lock(o) PROVE UNCHANGED config
  BY <1>14 DEF At, Lock, Goto, First
<1>15. ASSUME NEW o \in Open, Get(o) PROVE UNCHANGED config
  BY <1>15 DEF At, Get, Goto
<1>16. ASSUME NEW o \in Open, OpenFile(o) PROVE UNCHANGED config
  BY <1>16 DEF At, OpenFile, Goto
<1>17. ASSUME NEW o \in Open, Serve(o) PROVE UNCHANGED config
  BY <1>17 DEF At, Serve, Goto, Return
<1>18. ASSUME NEW o \in Open, Refuse(o) PROVE UNCHANGED config
  BY <1>18 DEF At, Refuse, Goto, Return
<1>19. ASSUME NEW o \in Open, Close(o) PROVE UNCHANGED config
  BY <1>19 DEF At, Close, Goto, Return
<1>20. ASSUME NEW f \in File, Meddle(f) PROVE UNCHANGED config
  BY <1>20 DEF Meddle
<1> QED BY <1>1, <1>2, <1>3, <1>4, <1>5, <1>6, <1>7, <1>8, <1>9, <1>10, <1>11, <1>12, <1>13, <1>14, <1>15, <1>16, <1>17, <1>18, <1>19, <1>20
  DEF LibraryStep, RefreshStep, OpenStep

\* The next step of an update is one.
LEMMA AdvanceTyped ==
    ASSUME Applied, UpdateTyped, NEW u \in Update, Advance(u), step \in Component
    PROVE  UpdateTyped'
<1>1. CASE UNCHANGED <<updating, target, rolling, asked>> /\ stage' \in {"apply", "undo", "save"} /\ step' \in 0..5
  BY <1>1 DEF UpdateTyped, asked
<1>2. CASE Leave(u)
  <2>1. rolling' \in BOOLEAN
    BY <1>2, Zenon DEF Leave, Unlock
  <2> QED BY <1>2, <2>1 DEF Leave, Unlock, UpdateTyped
<1> QED BY <1>1, <1>2 DEF Advance, Applied, Component, Scanner, Scheduler

LEMMA LibrarySame == LibraryTyped /\ Sourced /\ UNCHANGED library => LibraryTyped' /\ Sourced'
BY DEF library, walking, showing, opening, config, LibraryTyped, Sourced

\* Every step keeps the types.
LEMMA TypedStep == Typed /\ Applied /\ [Next]_vars => Typed'
<1> SUFFICES ASSUME Typed, Applied, [Next]_vars PROVE Typed'
  OBVIOUS
<1> USE LibraryAssumption, SettingsAssumption DEF Typed
<1>1. ASSUME LibraryStep, UNCHANGED <<settings, asked, applying>> PROVE Typed'
  <2>1. LibraryTyped' /\ Sourced'
    BY <1>1, LibraryStepTyped
  <2>2. ValuesTyped' /\ UpdateTyped'
    BY <1>1, LibraryKeepsConfig DEF ValuesTyped, UpdateTyped, config, settings, asked, applying
  <2> QED BY <2>1, <2>2
<1>2. ASSUME NEW u \in Update, NEW s \in Setting, Ask(u, s) PROVE Typed'
  <2>1. LibraryTyped' /\ Sourced'
    BY <1>2, LibrarySame DEF Ask
  <2>2. ValuesTyped'
    BY <1>2 DEF Ask, ValuesTyped, settings, library, config
  <2>3. [value |-> s, revision |-> stored.revision] \in Row
    BY DEF ValuesTyped, Row
  <2>4. UpdateTyped'
    BY <1>2, <2>3 DEF Ask, UpdateTyped, applying
  <2> QED BY <2>1, <2>2, <2>4
<1>3. ASSUME NEW u \in Update, Abandon(u) PROVE Typed'
  <2>1. LibraryTyped' /\ Sourced'
    BY <1>3, LibrarySame DEF Abandon
  <2>2. ValuesTyped'
    BY <1>3 DEF Abandon, ValuesTyped, UpdateTyped, Row, settings, library, config, Applied
  <2>3. UpdateTyped'
    BY <1>3 DEF Abandon, UpdateTyped, Row, asked, applying, Component, Applied
  <2> QED BY <2>1, <2>2, <2>3
<1>4. ASSUME NEW u \in Update, Begin(u) PROVE Typed'
  <2>1. LibraryTyped' /\ Sourced'
    BY <1>4, LibrarySame DEF Begin
  <2>2. ValuesTyped'
    BY <1>4 DEF Begin, ValuesTyped, UpdateTyped, Row, settings, library, config, Applied
  <2>3. UpdateTyped'
    BY <1>4 DEF Begin, UpdateTyped, Row, asked, applying, Component, Applied
  <2> QED BY <2>1, <2>2, <2>3
<1>5. ASSUME NEW u \in Update, Reject(u) PROVE Typed'
  <2>1. LibraryTyped' /\ Sourced'
    BY <1>5, LibrarySame DEF Reject
  <2>2. ValuesTyped'
    BY <1>5 DEF Reject, Leave, Unlock, ValuesTyped, UpdateTyped, Row, settings, library, config, Applied
  <2>3. UpdateTyped'
    BY <1>5 DEF Reject, Leave, Unlock, UpdateTyped, Row, asked, applying, Component, Applied
  <2> QED BY <2>1, <2>2, <2>3
<1>6. ASSUME NEW u \in Update, AwaitScanner(u) PROVE Typed'
  <2>1. LibraryTyped' /\ Sourced'
    BY <1>6 DEF AwaitScanner, walking, showing, opening, LibraryTyped, Sourced
  <2>2. writer' \in BOOLEAN
    BY <1>6, Zenon DEF AwaitScanner
  <2>3. ValuesTyped'
    BY <1>6, <2>2 DEF AwaitScanner, ValuesTyped, settings
  <2>4. UpdateTyped'
    BY <1>6 DEF AwaitScanner, UpdateTyped, asked, applying
  <2> QED BY <2>1, <2>3, <2>4
<1>7. ASSUME NEW u \in Update, SetScanner(u) PROVE Typed'
  <2>1. LibraryTyped' /\ Sourced'
    <3>1. pc' \in [Call -> Place]
      BY <1>7, LetInTyped DEF SetScanner, LibraryTyped
    <3>2. \A o \in Open : pc'[o] \in {"lock", "blocked", "get", "open", "check"} => pc[o] \in {"lock", "blocked", "get", "open", "check"}
      BY <1>7 DEF SetScanner, LetReadersIn, Blocked, At, Call, LibraryTyped
    <3> QED BY <1>7, <3>1, <3>2 DEF SetScanner, walking, showing, opening, LibraryTyped, Sourced
  <2>2. Advance(u) /\ Value \in Setting /\ step \in Component /\ writer' = FALSE
    BY <1>7 DEF SetScanner, Value, Applied, ValuesTyped, UpdateTyped, LetReadersIn
  <2>3. writer' \in BOOLEAN
    BY <2>2, Zenon
  <2>4. ValuesTyped'
    BY <1>7, <2>2, <2>3 DEF SetScanner, ValuesTyped, settings
  <2>5. UpdateTyped'
    BY <2>2, AdvanceTyped
  <2> QED BY <2>1, <2>4, <2>5
<1>8. ASSUME NEW u \in Update, SetOther(u) PROVE Typed'
  <2>1. LibraryTyped' /\ Sourced'
    BY <1>8, LibrarySame DEF SetOther
  <2>2. Advance(u) /\ Value \in Setting /\ step \in Component
    BY <1>8 DEF SetOther, Value, Applied, ValuesTyped, UpdateTyped, Others, Component, Scanner
  <2>3. ValuesTyped'
    BY <1>8, <2>2 DEF SetOther, ValuesTyped, library, config
  <2>4. UpdateTyped'
    BY <2>2, AdvanceTyped
  <2> QED BY <2>1, <2>3, <2>4
<1>9. ASSUME NEW u \in Update, SchedulerRefuses(u) PROVE Typed'
  <2>1. LibraryTyped' /\ Sourced'
    BY <1>9, LibrarySame DEF SchedulerRefuses
  <2>2. ValuesTyped'
    BY <1>9 DEF SchedulerRefuses, ValuesTyped, settings, library, config
  <2>3. step \in Component
    BY <1>9 DEF SchedulerRefuses, Component, Scheduler
  <2>4. UpdateTyped'
    BY <1>9, <2>3, AdvanceTyped DEF SchedulerRefuses, UpdateTyped, asked
  <2> QED BY <2>1, <2>2, <2>4
<1>10. ASSUME NEW u \in Update, Save(u) PROVE Typed'
  <2>1. LibraryTyped' /\ Sourced'
    BY <1>10, LibrarySame DEF Save
  <2>2. ValuesTyped'
    BY <1>10 DEF Save, ValuesTyped, UpdateTyped, Row, settings, library, config, Applied
  <2>3. UpdateTyped'
    BY <1>10 DEF Save, UpdateTyped, Row, asked, applying, Component, Applied
  <2> QED BY <2>1, <2>2, <2>3
<1>11. ASSUME NEW u \in Update, SaveFails(u) PROVE Typed'
  <2>1. LibraryTyped' /\ Sourced'
    BY <1>11, LibrarySame DEF SaveFails
  <2>2. ValuesTyped'
    BY <1>11 DEF SaveFails, ValuesTyped, UpdateTyped, Row, settings, library, config, Applied
  <2>3. UpdateTyped'
    <3>1. rolling' \in BOOLEAN
      BY <1>11, Zenon DEF SaveFails
    <3>2. stored.value \in Setting
      BY DEF ValuesTyped, Row
    <3> QED BY <1>11, <3>1, <3>2 DEF SaveFails, UpdateTyped, asked, Scanner
  <2> QED BY <2>1, <2>2, <2>3
<1>12. ASSUME NEW u \in Update, Publish(u) PROVE Typed'
  <2>1. LibraryTyped' /\ Sourced'
    BY <1>12, LibrarySame DEF Publish
  <2>2. ValuesTyped'
    BY <1>12 DEF Publish, Leave, Unlock, ValuesTyped, UpdateTyped, Row, settings, library, config, Applied
  <2>3. UpdateTyped'
    BY <1>12 DEF Publish, Leave, Unlock, UpdateTyped, Row, asked, applying, Component, Applied
  <2> QED BY <2>1, <2>2, <2>3
<1>13. ASSUME StopScheduler PROVE Typed'
  <2>1. LibraryTyped' /\ Sourced'
    <3>1. cancelled' \subseteq Call
      BY <1>13 DEF StopScheduler, LibraryTyped, Call
    <3> QED BY <1>13, <3>1 DEF StopScheduler, walking, showing, opening, LibraryTyped, Sourced
  <2>2. ValuesTyped'
    <3>1. stopped' \in BOOLEAN
      BY <1>13, Zenon DEF StopScheduler
    <3> QED BY <1>13, <3>1 DEF StopScheduler, ValuesTyped, config
  <2>3. UpdateTyped'
    BY <1>13 DEF StopScheduler, UpdateTyped, asked, applying
  <2> QED BY <2>1, <2>2, <2>3
<1>14. ASSUME NEW roots \in SUBSET Root, Restart(roots) PROVE Typed'
  <2>1. LibraryTyped' /\ Sourced'
    <3>1. catalog' \in Listing /\ found' \in [Refresh -> Listing]
      BY <1>14 DEF Restart, RestartLibrary, ReconcileRoots, LibraryTyped, Listing, NoFile
    <3>2. previous' \in [Refresh -> Status] /\ verdict' \in [Refresh -> Status] /\ status' \in Status
      BY <1>14 DEF Restart, RestartLibrary, Status
    <3>3. pc' \in [Call -> Place] /\ Sourced'
      BY <1>14 DEF Restart, RestartLibrary, Place, Sourced, Call
    <3> QED BY <1>14, <3>1, <3>2, <3>3 DEF Restart, RestartLibrary, LibraryTyped
  <2>2. ValuesTyped'
    <3>1. writer' \in BOOLEAN /\ stopped' \in BOOLEAN
      BY <1>14, Zenon DEF Restart, RestartLibrary
    <3>2. stored.value \in Setting /\ stored' \in Row
      BY <1>14 DEF Restart, ValuesTyped, Row
    <3> QED BY <1>14, <3>1, <3>2 DEF Restart, ValuesTyped
  <2>3. UpdateTyped'
    <3>1. rolling' \in BOOLEAN
      BY <1>14, Zenon DEF Restart, Unlock
    <3> QED BY <1>14, <3>1 DEF Restart, Unlock, UpdateTyped
  <2> QED BY <2>1, <2>2, <2>3
<1>15. CASE UNCHANGED vars
  BY <1>15 DEF vars, library, settings, asked, applying, walking, showing, opening, config, LibraryTyped, Sourced, ValuesTyped, UpdateTyped
<1> QED BY <1>1, <1>2, <1>3, <1>4, <1>5, <1>6, <1>7, <1>8, <1>9, <1>10, <1>11, <1>12, <1>13, <1>14, <1>15 DEF Next, UpdateStep

-----------------------------------------------------------------------------
(* Updates *)

LEMMA AppliedInit == Init => Applied
BY DEF Init, LibraryInit, Applied, Follows, Has, Component, Others, Scanner, Scheduler

\* A component that is given what the step in hand gives, or takes nothing any more,
\* brings the update to its next step.
LEMMA AdvanceApplied ==
    ASSUME Typed, Applied, NEW u \in Update, updating = u, Advance(u),
           stage \in {"apply", "undo"}, step \in Component, writer' = FALSE,
           \A i \in Component \ {step} : Has(i)' = Has(i),
           \A i \in Component : i = step => Has(i)' = Value \/ (i = Scheduler /\ stopped),
           UNCHANGED <<stored, published, stopped>>
    PROVE  Applied'
<1> USE SettingsAssumption DEF Applied, Component, Scanner, Scheduler, asked
<1>1. \A i \in Component : \A s : i # step /\ Follows(i, s) => Has(i)' = s \/ (i = Scheduler /\ stopped')
  BY DEF Follows
<1>2. \A i \in Component : i = step => Has(i)' = Value \/ (i = Scheduler /\ stopped')
  OBVIOUS
<1> HIDE DEF Component
<1>3. CASE stage = "apply" /\ step # Scheduler /\ step' = step + 1 /\ UNCHANGED <<updating, stage, target, rolling>>
  <2>1. \A i \in Component : i < step' => Has(i)' = target \/ (i = Scheduler /\ stopped')
    <3> SUFFICES ASSUME NEW i \in Component, i < step'
                 PROVE  Has(i)' = target \/ (i = Scheduler /\ stopped')
      OBVIOUS
    <3>1. CASE i = step
      BY <1>2, <1>3, <3>1 DEF Value
    <3>2. CASE i # step
      <4>1. Follows(i, target)
        BY <1>3, <3>2 DEF Component
      <4> QED BY <1>1, <3>2, <4>1
    <3> QED BY <3>1, <3>2
  <2>2. step' \in Component
    BY <1>3 DEF Component
  <2> QED BY <1>3, <2>1, <2>2 DEF Follows
<1>4. CASE stage = "apply" /\ step = Scheduler /\ ~rolling /\ stage' = "save" /\ step' = 0 /\ UNCHANGED <<updating, target, rolling>>
  <2>1. \A i \in Component : Has(i)' = target \/ (i = Scheduler /\ stopped')
    <3> SUFFICES ASSUME NEW i \in Component
                 PROVE  Has(i)' = target \/ (i = Scheduler /\ stopped')
      OBVIOUS
    <3>1. CASE i = step
      BY <1>2, <1>4, <3>1 DEF Value
    <3>2. CASE i # step
      <4>1. Follows(i, target)
        BY <1>4, <3>2 DEF Component
      <4> QED BY <1>1, <3>2, <4>1
    <3> QED BY <3>1, <3>2
  <2> QED BY <1>4, <2>1 DEF Follows
<1>5. CASE stage = "undo" /\ step # Scanner /\ step' = step - 1 /\ UNCHANGED <<updating, stage, target, rolling>>
  <2>1. \A i \in Component : i > step' => Has(i)' = published \/ (i = Scheduler /\ stopped')
    <3> SUFFICES ASSUME NEW i \in Component, i > step'
                 PROVE  Has(i)' = published \/ (i = Scheduler /\ stopped')
      OBVIOUS
    <3>1. CASE i = step
      BY <1>2, <1>5, <3>1 DEF Value
    <3>2. CASE i # step
      <4>1. Follows(i, published)
        BY <1>5, <3>2 DEF Component
      <4> QED BY <1>1, <3>2, <4>1
    <3> QED BY <3>1, <3>2
  <2>2. step' \in Component
    BY <1>5 DEF Component
  <2> QED BY <1>5, <2>1, <2>2 DEF Follows
<1>6. CASE ((stage = "undo" /\ step = Scanner) \/ (stage = "apply" /\ step = Scheduler /\ rolling)) /\ Leave(u)
  <2>1. \A i \in Component : Has(i)' = published \/ (i = Scheduler /\ stopped')
    <3> SUFFICES ASSUME NEW i \in Component
                 PROVE  Has(i)' = published \/ (i = Scheduler /\ stopped')
      OBVIOUS
    <3>1. CASE i = step
      BY <1>2, <1>6, <3>1 DEF Value
    <3>2. CASE i # step
      <4>1. Follows(i, published)
        BY <1>6, <3>2 DEF Component
      <4> QED BY <1>1, <3>2, <4>1
    <3> QED BY <3>1, <3>2
  <2> QED BY <1>6, <2>1 DEF Follows, Leave, Unlock
<1> QED BY <1>3, <1>4, <1>5, <1>6 DEF Advance

\* Every step keeps account of what has been applied.
LEMMA AppliedStep == Typed /\ Applied /\ [Next]_vars => Applied'
<1> SUFFICES ASSUME Typed, Applied, [Next]_vars PROVE Applied'
  OBVIOUS
<1> USE SettingsAssumption DEF settings, asked, applying
<1>1. ASSUME LibraryStep, UNCHANGED <<settings, asked, applying>> PROVE Applied'
  BY <1>1, LibraryKeepsConfig DEF Applied, Follows, Has, config
<1>2. ASSUME NEW u \in Update, NEW s \in Setting, Ask(u, s) PROVE Applied'
  BY <1>2 DEF Ask, Applied, Follows, Has, library, config
<1>3. ASSUME NEW u \in Update, Abandon(u) PROVE Applied'
  BY <1>3 DEF Abandon, Applied, Follows, Has, library, config
<1>4. ASSUME NEW u \in Update, Begin(u) PROVE Applied'
  <2>1. wanted[u].value \in Setting
    BY <1>4 DEF Begin, Typed, UpdateTyped, Row
  <2> QED BY <1>4, <2>1 DEF Begin, Applied, Follows, Has, library, config, Component
<1>5. ASSUME NEW u \in Update, Reject(u) PROVE Applied'
  BY <1>5 DEF Reject, Leave, Unlock, Applied, Follows, Has, library, config
<1>6. ASSUME NEW u \in Update, AwaitScanner(u) PROVE Applied'
  BY <1>6 DEF AwaitScanner, Applied, Follows, Has
<1>7. ASSUME NEW u \in Update, SetScanner(u) PROVE Applied'
  <2>1. stage \in {"apply", "undo"} /\ step = Scanner
    BY <1>7 DEF SetScanner, Applied
  <2>2. \A i \in Component : Has(i)' = IF i = Scanner THEN Value ELSE Has(i)
    BY <1>7 DEF SetScanner, Has
  <2>3. step \in Component
    BY <2>1 DEF Component, Scanner
  <2> QED BY <1>7, <2>1, <2>2, <2>3, AdvanceApplied DEF SetScanner, LetReadersIn
<1>8. ASSUME NEW u \in Update, SetOther(u) PROVE Applied'
  <2>1. step \in Component /\ step # Scanner
    BY <1>8 DEF SetOther, Others
  <2>2. stage \in {"apply", "undo"}
    BY <1>8, <2>1 DEF SetOther, Advance
  <2>3. writer = FALSE
    <3>1. writer \in BOOLEAN
      BY Zenon DEF Typed, ValuesTyped
    <3> QED BY <2>1, <3>1 DEF Applied
  <2>4. \A i \in Component : Has(i)' = IF i = step THEN Value ELSE Has(i)
    BY <1>8, <2>1 DEF SetOther, Has, library, config, Typed, ValuesTyped, Others
  <2> QED BY <1>8, <2>1, <2>2, <2>3, <2>4, AdvanceApplied DEF SetOther, library, config
<1>9. ASSUME NEW u \in Update, SchedulerRefuses(u) PROVE Applied'
  <2>1. step \in Component /\ step # Scanner
    BY <1>9 DEF SchedulerRefuses, Component, Scanner, Scheduler
  <2>2. writer = FALSE
    <3>1. writer \in BOOLEAN
      BY Zenon DEF Typed, ValuesTyped
    <3> QED BY <2>1, <3>1 DEF Applied
  <2>3. UNCHANGED <<library, settings>> /\ \A i \in Component : Has(i)' = Has(i)
    BY <1>9 DEF SchedulerRefuses, Has, library, config
  <2>4. CASE stage = "undo"
    BY <1>9, <2>1, <2>2, <2>3, <2>4, AdvanceApplied DEF SchedulerRefuses, library, config
  <2>5. CASE stage # "undo"
    <3>1. stage = "apply"
      BY <1>9, <2>5 DEF SchedulerRefuses, Applied, Typed, UpdateTyped, Scheduler
    <3> QED BY <1>9, <2>1, <2>2, <2>3, <2>5, <3>1 DEF SchedulerRefuses, Applied, Follows, Component, Scheduler, library, config
  <2> QED BY <2>4, <2>5
<1>10. ASSUME NEW u \in Update, Save(u) PROVE Applied'
  <2>1. stored'.value = target
    BY <1>10 DEF Save
  <2> QED BY <1>10, <2>1 DEF Save, Applied, Follows, Has, library, config
<1>11. ASSUME NEW u \in Update, SaveFails(u) PROVE Applied'
  <2>1. stored.value \in Setting
    BY DEF Typed, ValuesTyped, Row
  <2> QED BY <1>11, <2>1 DEF SaveFails, Applied, Follows, Has, library, config, Component, Scanner
<1>12. ASSUME NEW u \in Update, Publish(u) PROVE Applied'
  BY <1>12 DEF Publish, Leave, Unlock, Applied, Follows, Has, library, config
<1>13. ASSUME StopScheduler PROVE Applied'
  BY <1>13 DEF StopScheduler, Busy, At, Applied, Follows, Has, library, config
<1>14. ASSUME NEW roots \in SUBSET Root, Restart(roots) PROVE Applied'
  <2>1. stored'.value = stored.value
    BY <1>14 DEF Restart, Typed, ValuesTyped, Row
  <2>2. \A i \in Component : Has(i)' = stored.value
    BY <1>14 DEF Restart, Has, Others
  <2>3. writer' = FALSE
    BY <1>14 DEF Restart, RestartLibrary
  <2> QED BY <1>14, <2>1, <2>2, <2>3 DEF Restart, Unlock, Applied, Follows
<1>15. CASE UNCHANGED vars
  BY <1>15 DEF vars, library, config, Applied, Follows, Has
<1> QED BY <1>1, <1>2, <1>3, <1>4, <1>5, <1>6, <1>7, <1>8, <1>9, <1>10, <1>11, <1>12, <1>13, <1>14, <1>15 DEF Next, UpdateStep

-----------------------------------------------------------------------------
(* Refreshes and the status *)

LEMMA NewestInit == Init => NewestShown
BY DEF Init, LibraryInit, NewestShown, Call

\* Steps of the library show what the newest refresh has come to.
LEMMA LibraryShows == LibraryTyped /\ NewestShown /\ LibraryStep => NewestShown'
<1> SUFFICES ASSUME LibraryTyped, NewestShown, LibraryStep PROVE NewestShown'
  OBVIOUS
<1> USE LibraryAssumption DEF LibraryTyped, NewestShown, Call, Shows, showing
<1>1. ASSUME NEW c \in Refresh, BeginRefresh(c) PROVE NewestShown'
  BY <1>1 DEF At, BeginRefresh, Goto
<1>2. ASSUME NEW c \in Refresh, Lock(c) PROVE NewestShown'
  BY <1>2 DEF At, Lock, Goto, First
<1>3. ASSUME NEW c \in Refresh, EndRefresh(c) PROVE NewestShown'
  <2>1. CASE Resolve(c, "failed") /\ UNCHANGED <<newest, status>>
    BY <1>3, <2>1 DEF EndRefresh, At, Resolve, Goto
  <2>2. CASE \E at \in {"list", "restore"} : Goto(c, at) /\ UNCHANGED <<verdict, newest, status>>
    BY <1>3, <2>2 DEF EndRefresh, At, Goto
  <2> QED BY <1>3, <2>1, <2>2 DEF EndRefresh
<1>4. ASSUME NEW c \in Refresh, List(c) PROVE NewestShown'
  BY <1>4 DEF At, List, Goto, Resolve, Shown
<1>5. ASSUME NEW c \in Refresh, ListCancelled(c) PROVE NewestShown'
  BY <1>5 DEF At, ListCancelled, Goto
<1>6. ASSUME NEW c \in Refresh, Restore(c) PROVE NewestShown'
  BY <1>6 DEF At, Restore, Goto, Resolve, Shown
<1>7. ASSUME NEW c \in Refresh, Show(c) PROVE NewestShown'
  BY <1>7 DEF At, Show, Goto
<1>8. ASSUME NEW c \in Refresh, Sync(c) PROVE NewestShown'
  BY <1>8 DEF At, Sync, Goto
<1>9. ASSUME NEW c \in Refresh, FailRoot(c) PROVE NewestShown'
  BY <1>9 DEF At, FailRoot, Goto
<1>10. ASSUME NEW c \in Refresh, NEW r \in Root, WalkRoot(c, r) PROVE NewestShown'
  BY <1>10 DEF At, WalkRoot, Goto, In
<1>11. ASSUME NEW c \in Refresh, NEW f \in File, ReadFile(c, f) PROVE NewestShown'
  BY <1>11 DEF At, ReadFile
<1>12. ASSUME NEW c \in Refresh, Cancel(c) PROVE NewestShown'
  BY <1>12 DEF Cancel, Busy
<1>13. ASSUME NEW o \in Open, NEW f \in File, BeginOpen(o, f) PROVE NewestShown'
  BY <1>13 DEF At, BeginOpen, Goto
<1>14. ASSUME NEW o \in Open, Lock(o) PROVE NewestShown'
  BY <1>14 DEF At, Lock, Goto, First
<1>15. ASSUME NEW o \in Open, Get(o) PROVE NewestShown'
  BY <1>15 DEF At, Get, Goto
<1>16. ASSUME NEW o \in Open, OpenFile(o) PROVE NewestShown'
  BY <1>16 DEF At, OpenFile, Goto
<1>17. ASSUME NEW o \in Open, Serve(o) PROVE NewestShown'
  BY <1>17 DEF At, Serve, Goto, Return
<1>18. ASSUME NEW o \in Open, Refuse(o) PROVE NewestShown'
  BY <1>18 DEF At, Refuse, Goto, Return
<1>19. ASSUME NEW o \in Open, Close(o) PROVE NewestShown'
  BY <1>19 DEF At, Close, Goto, Return
<1>20. ASSUME NEW f \in File, Meddle(f) PROVE NewestShown'
  BY <1>20 DEF Meddle
<1> QED BY <1>1, <1>2, <1>3, <1>4, <1>5, <1>6, <1>7, <1>8, <1>9, <1>10, <1>11, <1>12, <1>13, <1>14, <1>15, <1>16, <1>17, <1>18, <1>19, <1>20
  DEF LibraryStep, RefreshStep, OpenStep

LEMMA NewestStep == Typed /\ NewestShown /\ [Next]_vars => NewestShown'
<1> SUFFICES ASSUME Typed, NewestShown, [Next]_vars PROVE NewestShown'
  OBVIOUS
<1> USE DEF Typed
<1>1. ASSUME LibraryStep, UNCHANGED <<settings, asked, applying>> PROVE NewestShown'
  BY <1>1, LibraryShows
<1>2. ASSUME NEW u \in Update, NEW s \in Setting, Ask(u, s) PROVE NewestShown'
  BY <1>2 DEF Ask, library, showing, NewestShown
<1>3. ASSUME NEW u \in Update, Abandon(u) PROVE NewestShown'
  BY <1>3 DEF Abandon, library, showing, NewestShown
<1>4. ASSUME NEW u \in Update, Begin(u) PROVE NewestShown'
  BY <1>4 DEF Begin, library, showing, NewestShown
<1>5. ASSUME NEW u \in Update, Reject(u) PROVE NewestShown'
  BY <1>5 DEF Reject, library, showing, NewestShown
<1>6. ASSUME NEW u \in Update, AwaitScanner(u) PROVE NewestShown'
  BY <1>6 DEF AwaitScanner, library, showing, NewestShown
<1>7. ASSUME NEW u \in Update, SetScanner(u) PROVE NewestShown'
  <2>1. \A c \in Refresh : pc'[c] \in {"idle", "show"} => pc'[c] = pc[c]
    BY <1>7 DEF SetScanner, LetReadersIn, First, Call, LibraryTyped
  <2> QED BY <1>7, <2>1 DEF SetScanner, showing, NewestShown, LibraryTyped
<1>8. ASSUME NEW u \in Update, SetOther(u) PROVE NewestShown'
  BY <1>8 DEF SetOther, library, showing, NewestShown
<1>9. ASSUME NEW u \in Update, SchedulerRefuses(u) PROVE NewestShown'
  BY <1>9 DEF SchedulerRefuses, library, showing, NewestShown
<1>10. ASSUME NEW u \in Update, Save(u) PROVE NewestShown'
  BY <1>10 DEF Save, library, showing, NewestShown
<1>11. ASSUME NEW u \in Update, SaveFails(u) PROVE NewestShown'
  BY <1>11 DEF SaveFails, library, showing, NewestShown
<1>12. ASSUME NEW u \in Update, Publish(u) PROVE NewestShown'
  BY <1>12 DEF Publish, library, showing, NewestShown
<1>13. ASSUME StopScheduler PROVE NewestShown'
  BY <1>13 DEF StopScheduler, library, showing, NewestShown
<1>14. ASSUME NEW roots \in SUBSET Root, Restart(roots) PROVE NewestShown'
  BY <1>14 DEF Restart, RestartLibrary, NewestShown, Call
<1>15. CASE UNCHANGED vars
  BY <1>15 DEF vars, library, showing, NewestShown
<1> QED BY <1>1, <1>2, <1>3, <1>4, <1>5, <1>6, <1>7, <1>8, <1>9, <1>10, <1>11, <1>12, <1>13, <1>14, <1>15 DEF Next, UpdateStep

-----------------------------------------------------------------------------
(* Sources *)

LEMMA AnsweredInit == Init => Answered
BY DEF Init, LibraryInit, Answered

LEMMA LibraryAnswers == LibraryTyped /\ Answered /\ LibraryStep => Answered'
<1> SUFFICES ASSUME LibraryTyped, Answered, LibraryStep PROVE Answered'
  OBVIOUS
<1> USE LibraryAssumption DEF LibraryTyped, Answered, Call, opening
<1>1. ASSUME NEW c \in Refresh, BeginRefresh(c) PROVE Answered'
  BY <1>1 DEF At, BeginRefresh, Goto
<1>2. ASSUME NEW c \in Refresh, Lock(c) PROVE Answered'
  BY <1>2 DEF At, Lock, Goto, First
<1>3. ASSUME NEW c \in Refresh, EndRefresh(c) PROVE Answered'
  BY <1>3 DEF At, EndRefresh, Goto, Resolve
<1>4. ASSUME NEW c \in Refresh, List(c) PROVE Answered'
  BY <1>4 DEF At, List, Goto, Resolve, Shown
<1>5. ASSUME NEW c \in Refresh, ListCancelled(c) PROVE Answered'
  BY <1>5 DEF At, ListCancelled, Goto
<1>6. ASSUME NEW c \in Refresh, Restore(c) PROVE Answered'
  BY <1>6 DEF At, Restore, Goto, Resolve, Shown
<1>7. ASSUME NEW c \in Refresh, Show(c) PROVE Answered'
  BY <1>7 DEF At, Show, Goto
<1>8. ASSUME NEW c \in Refresh, Sync(c) PROVE Answered'
  BY <1>8 DEF At, Sync, Goto
<1>9. ASSUME NEW c \in Refresh, FailRoot(c) PROVE Answered'
  BY <1>9 DEF At, FailRoot, Goto
<1>10. ASSUME NEW c \in Refresh, NEW r \in Root, WalkRoot(c, r) PROVE Answered'
  BY <1>10 DEF At, WalkRoot, Goto, In
<1>11. ASSUME NEW c \in Refresh, NEW f \in File, ReadFile(c, f) PROVE Answered'
  BY <1>11 DEF At, ReadFile
<1>12. ASSUME NEW c \in Refresh, Cancel(c) PROVE Answered'
  BY <1>12 DEF Cancel, Busy
<1>13. ASSUME NEW o \in Open, NEW f \in File, BeginOpen(o, f) PROVE Answered'
  BY <1>13 DEF At, BeginOpen, Goto
<1>14. ASSUME NEW o \in Open, Lock(o) PROVE Answered'
  BY <1>14 DEF At, Lock, Goto, First
<1>15. ASSUME NEW o \in Open, Get(o) PROVE Answered'
  BY <1>15 DEF At, Get, Goto
<1>16. ASSUME NEW o \in Open, OpenFile(o) PROVE Answered'
  BY <1>16 DEF At, OpenFile, Goto
<1>17. ASSUME NEW o \in Open, Serve(o) PROVE Answered'
  BY <1>17 DEF At, Serve, Goto, Return
<1>18. ASSUME NEW o \in Open, Refuse(o) PROVE Answered'
  BY <1>18 DEF At, Refuse, Goto, Return
<1>19. ASSUME NEW o \in Open, Close(o) PROVE Answered'
  BY <1>19 DEF At, Close, Goto, Return
<1>20. ASSUME NEW f \in File, Meddle(f) PROVE Answered'
  BY <1>20 DEF Meddle
<1> QED BY <1>1, <1>2, <1>3, <1>4, <1>5, <1>6, <1>7, <1>8, <1>9, <1>10, <1>11, <1>12, <1>13, <1>14, <1>15, <1>16, <1>17, <1>18, <1>19, <1>20
  DEF LibraryStep, RefreshStep, OpenStep

LEMMA AnsweredStep == Typed /\ Answered /\ [Next]_vars => Answered'
<1> SUFFICES ASSUME Typed, Answered, [Next]_vars PROVE Answered'
  OBVIOUS
<1> USE DEF Typed
<1>1. ASSUME LibraryStep, UNCHANGED <<settings, asked, applying>> PROVE Answered'
  BY <1>1, LibraryAnswers
<1>2. ASSUME NEW u \in Update, NEW s \in Setting, Ask(u, s) PROVE Answered'
  BY <1>2 DEF Ask, library, opening, Answered
<1>3. ASSUME NEW u \in Update, Abandon(u) PROVE Answered'
  BY <1>3 DEF Abandon, library, opening, Answered
<1>4. ASSUME NEW u \in Update, Begin(u) PROVE Answered'
  BY <1>4 DEF Begin, library, opening, Answered
<1>5. ASSUME NEW u \in Update, Reject(u) PROVE Answered'
  BY <1>5 DEF Reject, library, opening, Answered
<1>6. ASSUME NEW u \in Update, AwaitScanner(u) PROVE Answered'
  BY <1>6 DEF AwaitScanner, library, opening, Answered
<1>7. ASSUME NEW u \in Update, SetScanner(u) PROVE Answered'
  <2>1. \A o \in Open : pc[o] = "served" => pc'[o] = "served"
    BY <1>7 DEF SetScanner, LetReadersIn, Blocked, At, Call, LibraryTyped
  <2> QED BY <1>7, <2>1 DEF SetScanner, opening, Answered
<1>8. ASSUME NEW u \in Update, SetOther(u) PROVE Answered'
  BY <1>8 DEF SetOther, library, opening, Answered
<1>9. ASSUME NEW u \in Update, SchedulerRefuses(u) PROVE Answered'
  BY <1>9 DEF SchedulerRefuses, library, opening, Answered
<1>10. ASSUME NEW u \in Update, Save(u) PROVE Answered'
  BY <1>10 DEF Save, library, opening, Answered
<1>11. ASSUME NEW u \in Update, SaveFails(u) PROVE Answered'
  BY <1>11 DEF SaveFails, library, opening, Answered
<1>12. ASSUME NEW u \in Update, Publish(u) PROVE Answered'
  BY <1>12 DEF Publish, library, opening, Answered
<1>13. ASSUME StopScheduler PROVE Answered'
  BY <1>13 DEF StopScheduler, library, opening, Answered
<1>14. ASSUME NEW roots \in SUBSET Root, Restart(roots) PROVE Answered'
  BY <1>14 DEF Restart, RestartLibrary, Answered
<1>15. CASE UNCHANGED vars
  BY <1>15 DEF vars, library, opening, Answered
<1> QED BY <1>1, <1>2, <1>3, <1>4, <1>5, <1>6, <1>7, <1>8, <1>9, <1>10, <1>11, <1>12, <1>13, <1>14, <1>15 DEF Next, UpdateStep

\* What an opening in its last check is answered with.
Checked(o) == At(o, "check") /\ answer'[o] # None =>
                answer'[o] = record[o] /\ answer'[o] = disk[source[o]]

LEMMA LibraryServes ==
    ASSUME LibraryTyped, Answered, LibraryStep, NEW q \in Open PROVE Checked(q)
<1> USE LibraryAssumption DEF LibraryTyped, Answered, Call, opening, Checked, At
<1>1. ASSUME NEW c \in Refresh, BeginRefresh(c) PROVE Checked(q)
  BY <1>1 DEF At, BeginRefresh, Goto
<1>2. ASSUME NEW c \in Refresh, Lock(c) PROVE Checked(q)
  BY <1>2 DEF At, Lock, Goto, First
<1>3. ASSUME NEW c \in Refresh, EndRefresh(c) PROVE Checked(q)
  BY <1>3 DEF At, EndRefresh, Goto, Resolve
<1>4. ASSUME NEW c \in Refresh, List(c) PROVE Checked(q)
  BY <1>4 DEF At, List, Goto, Resolve, Shown
<1>5. ASSUME NEW c \in Refresh, ListCancelled(c) PROVE Checked(q)
  BY <1>5 DEF At, ListCancelled, Goto
<1>6. ASSUME NEW c \in Refresh, Restore(c) PROVE Checked(q)
  BY <1>6 DEF At, Restore, Goto, Resolve, Shown
<1>7. ASSUME NEW c \in Refresh, Show(c) PROVE Checked(q)
  BY <1>7 DEF At, Show, Goto
<1>8. ASSUME NEW c \in Refresh, Sync(c) PROVE Checked(q)
  BY <1>8 DEF At, Sync, Goto
<1>9. ASSUME NEW c \in Refresh, FailRoot(c) PROVE Checked(q)
  BY <1>9 DEF At, FailRoot, Goto
<1>10. ASSUME NEW c \in Refresh, NEW r \in Root, WalkRoot(c, r) PROVE Checked(q)
  BY <1>10 DEF At, WalkRoot, Goto, In
<1>11. ASSUME NEW c \in Refresh, NEW f \in File, ReadFile(c, f) PROVE Checked(q)
  BY <1>11 DEF At, ReadFile
<1>12. ASSUME NEW c \in Refresh, Cancel(c) PROVE Checked(q)
  BY <1>12 DEF Cancel, Busy
<1>13. ASSUME NEW o \in Open, NEW f \in File, BeginOpen(o, f) PROVE Checked(q)
  BY <1>13 DEF At, BeginOpen, Goto
<1>14. ASSUME NEW o \in Open, Lock(o) PROVE Checked(q)
  BY <1>14 DEF At, Lock, Goto, First
<1>15. ASSUME NEW o \in Open, Get(o) PROVE Checked(q)
  BY <1>15 DEF At, Get, Goto
<1>16. ASSUME NEW o \in Open, OpenFile(o) PROVE Checked(q)
  BY <1>16 DEF At, OpenFile, Goto
<1>17. ASSUME NEW o \in Open, Serve(o) PROVE Checked(q)
  BY <1>17 DEF At, Serve, Goto, Return
<1>18. ASSUME NEW o \in Open, Refuse(o) PROVE Checked(q)
  BY <1>18 DEF At, Refuse, Goto, Return
<1>19. ASSUME NEW o \in Open, Close(o) PROVE Checked(q)
  BY <1>19 DEF At, Close, Goto, Return
<1>20. ASSUME NEW f \in File, Meddle(f) PROVE Checked(q)
  BY <1>20 DEF Meddle
<1> QED BY <1>1, <1>2, <1>3, <1>4, <1>5, <1>6, <1>7, <1>8, <1>9, <1>10, <1>11, <1>12, <1>13, <1>14, <1>15, <1>16, <1>17, <1>18, <1>19, <1>20
  DEF LibraryStep, RefreshStep, OpenStep

\* Nothing but Serve answers an opening with a file.
LEMMA ServesStep == 
    ASSUME Typed, Answered, [Next]_vars, NEW o \in Open PROVE Checked(o)
<1> USE DEF Typed
<1>1. ASSUME LibraryStep, UNCHANGED <<settings, asked, applying>> PROVE Checked(o)
  BY <1>1, LibraryServes
<1>2. ASSUME NEW u \in Update, NEW s \in Setting, Ask(u, s) PROVE Checked(o)
  BY <1>2 DEF Ask, library, opening, Answered, Checked, At
<1>3. ASSUME NEW u \in Update, Abandon(u) PROVE Checked(o)
  BY <1>3 DEF Abandon, library, opening, Answered, Checked, At
<1>4. ASSUME NEW u \in Update, Begin(u) PROVE Checked(o)
  BY <1>4 DEF Begin, library, opening, Answered, Checked, At
<1>5. ASSUME NEW u \in Update, Reject(u) PROVE Checked(o)
  BY <1>5 DEF Reject, library, opening, Answered, Checked, At
<1>6. ASSUME NEW u \in Update, AwaitScanner(u) PROVE Checked(o)
  BY <1>6 DEF AwaitScanner, library, opening, Answered, Checked, At
<1>7. ASSUME NEW u \in Update, SetScanner(u) PROVE Checked(o)
  BY <1>7 DEF SetScanner, library, opening, Answered, Checked, At
<1>8. ASSUME NEW u \in Update, SetOther(u) PROVE Checked(o)
  BY <1>8 DEF SetOther, library, opening, Answered, Checked, At
<1>9. ASSUME NEW u \in Update, SchedulerRefuses(u) PROVE Checked(o)
  BY <1>9 DEF SchedulerRefuses, library, opening, Answered, Checked, At
<1>10. ASSUME NEW u \in Update, Save(u) PROVE Checked(o)
  BY <1>10 DEF Save, library, opening, Answered, Checked, At
<1>11. ASSUME NEW u \in Update, SaveFails(u) PROVE Checked(o)
  BY <1>11 DEF SaveFails, library, opening, Answered, Checked, At
<1>12. ASSUME NEW u \in Update, Publish(u) PROVE Checked(o)
  BY <1>12 DEF Publish, library, opening, Answered, Checked, At
<1>13. ASSUME StopScheduler PROVE Checked(o)
  BY <1>13 DEF StopScheduler, library, opening, Answered, Checked, At
<1>14. ASSUME NEW roots \in SUBSET Root, Restart(roots) PROVE Checked(o)
  BY <1>14 DEF Restart, RestartLibrary, Checked
<1>15. CASE UNCHANGED vars
  BY <1>15 DEF vars, library, opening, Answered, Checked, At
<1> QED BY <1>1, <1>2, <1>3, <1>4, <1>5, <1>6, <1>7, <1>8, <1>9, <1>10, <1>11, <1>12, <1>13, <1>14, <1>15 DEF Next, UpdateStep

-----------------------------------------------------------------------------
(* The theorems *)

IInv == Typed /\ Applied /\ NewestShown /\ Answered

LEMMA IInvInit == Init => IInv
BY TypedInit, AppliedInit, NewestInit, AnsweredInit DEF IInv

LEMMA IInvStep == IInv /\ [Next]_vars => IInv'
BY TypedStep, AppliedStep, NewestStep, AnsweredStep DEF IInv

LEMMA Invariance == Spec => []IInv
BY IInvInit, IInvStep, PTL DEF Spec

\* Every variable of the settings, the library and the calls under way keeps its type, and
\* an opening that has not been answered has a file to open.
THEOREM TypeCorrect == Spec => []Typed
<1>1. IInv => Typed
  BY DEF IInv
<1> QED BY <1>1, Invariance, PTL

\* When no update is under way, every component has the published settings, which are the
\* stored ones: RuntimeService.Update takes back whatever it has applied and cannot save.
THEOREM LiveSettingsAreStored == Spec => []LiveIsStored
<1>1. IInv => LiveIsStored
  BY DEF IInv, Applied, LiveIsStored, Follows
<1> QED BY <1>1, Invariance, PTL

\* Once no refresh is under way, the status shown is that of the refresh that began last.
THEOREM StatusIsOfNewest == Spec => []StatusOfNewest
<1>1. IInv => StatusOfNewest
  BY DEF IInv, Typed, LibraryTyped, NewestShown, StatusOfNewest, Busy, At, Shows
<1> QED BY <1>1, Invariance, PTL

\* OpenResolved serves a source as it was indexed and as its name has it at that moment.
THEOREM SourcesAreServedAsIndexed == Spec => ServedAsIndexed
<1>1. IInv /\ [Next]_vars =>
        [\A o \in Open : At(o, "check") /\ answer'[o] # None =>
            answer'[o] = record[o] /\ answer'[o] = disk[source[o]]]_vars
  BY ServesStep DEF IInv, Checked
<1> QED BY <1>1, Invariance, PTL DEF Spec, ServedAsIndexed

=============================================================================
