------------------------------- MODULE Projects -------------------------------
(***************************************************************************)
(* A project: its row in the database (ProjectStore), and those who write  *)
(* it (ProjectUseCase): editors, which load the document, change it and    *)
(* put it back, and agents, whose tool update_cutlist applies operations   *)
(* to its segments.  A document is checked, item by item, against the      *)
(* media library, which changes meanwhile, and then saved if the row still *)
(* has the revision it is based on.                                        *)
(*                                                                         *)
(*  - A document has items, each with the segments to keep of one medium,  *)
(*    in the order of the cut.  Names, labels, editor state and export     *)
(*    options are left out.                                                *)
(*  - A transaction either happens or not.  Its answer may be lost.        *)
(*  - Which projects and media an agent may use is up to module Mcp.       *)
(***************************************************************************)
EXTENDS Integers, Sequences, FiniteSets

CONSTANTS
  Item,          \* items a document may have, of a medium each
  SegmentId,     \* identifiers of segments
  MaxDuration,   \* of a medium
  Editor, Agent,
  MaxSegments,   \* bound on the segments an editor puts into an item
  MaxOperations, \* bound on the operations of one call of the tool
  MaxRevision    \* bound on the revisions of the project

ASSUME ProjectsAssumption ==
  /\ MaxDuration \in Nat \ {0} /\ MaxSegments \in Nat
  /\ MaxOperations \in Nat \ {0} /\ MaxRevision \in Nat \ {0}
  /\ Editor \cap Agent = {}

VARIABLES
  row,        \* the row: revision, 0 while there is none, and document
  duration,   \* of the medium of each item; 0 when it is unavailable
  pc,         \* where a writer is
  expected,   \* the revision it believes the row to have
  base,       \* the document it has read
  draft,      \* the document it is about to save
  unchecked,  \* items of it that are still to be checked
  edits       \* operations applied to it

writing == <<pc, expected, base, draft, unchecked, edits>>
vars    == <<row, duration, writing>>

Writer == Editor \cup Agent

-----------------------------------------------------------------------------
(* Documents *)

Span     == {s \in [start : 0..MaxDuration, end : 0..MaxDuration] : s.start < s.end}
Segment  == [id : SegmentId, span : Span]
NoItems  == [i \in {} |-> <<>>]

Ids(segments) == {segments[k].id : k \in DOMAIN segments}

\* Fault: of two segments with the same start neither comes before the other.
StartsBefore(segments, j, k) == segments[j].span.start < segments[k].span.start

\* Whether the segment at j comes before that at k in the order of their starts.
Before(segments, j, k) ==
    LET a == segments[j].span.start
        b == segments[k].span.start
    IN  a < b \/ (a = b /\ j < k)

Follows(segments, j, k) ==
    Before(segments, j, k) /\ ~\E l \in DOMAIN segments : Before(segments, j, l) /\ Before(segments, l, k)

\* validateSegments: in the order of their starts, each begins after the one before it ends.
ValidSegments(segments, end) ==
    /\ \A k \in DOMAIN segments : segments[k].span.end <= end
    /\ Cardinality(Ids(segments)) = Len(segments)
    /\ \A j, k \in DOMAIN segments :
         Follows(segments, j, k) => segments[j].span.end <= segments[k].span.start

\* What does not depend on the media.
ValidDocument(document) ==
    /\ DOMAIN document # {}
    /\ \A i \in DOMAIN document : ValidSegments(document[i], MaxDuration)

\* What the database may hold, and editors put.
SegmentLists == {<<>>} \cup UNION {[1..n -> Segment] : n \in 1..MaxSegments}
Cuts         == {segments \in SegmentLists : ValidSegments(segments, MaxDuration)}
Documents    == UNION {[items -> Cuts] : items \in (SUBSET Item) \ {{}}}

-----------------------------------------------------------------------------
(* Saving, by whoever *)

At(w, at)   == pc[w] = at
Goto(w, at) == pc' = [pc EXCEPT ![w] = at]

Init ==
    /\ row = [revision |-> 0, document |-> NoItems]
       \/ \E document \in Documents : row = [revision |-> 1, document |-> document]
    /\ duration \in [Item -> 0..MaxDuration]
    /\ pc = [w \in Writer |-> "idle"] /\ expected = [w \in Writer |-> 0]
    /\ base = [w \in Writer |-> NoItems] /\ draft = base
    /\ unchecked = [w \in Writer |-> {}] /\ edits = [w \in Writer |-> 0]

\* The writer is told of an error, or does not wait for its answer.
Leave(w) ==
    /\ Goto(w, "idle")
    /\ expected' = [expected EXCEPT ![w] = 0] /\ base' = [base EXCEPT ![w] = NoItems]
    /\ draft' = [draft EXCEPT ![w] = NoItems] /\ unchecked' = [unchecked EXCEPT ![w] = {}]
    /\ edits' = [edits EXCEPT ![w] = 0]
    /\ UNCHANGED duration

\* Each item is checked against its medium, as it is in the library at that moment ...
CheckItem(w, i) ==
    /\ At(w, "check") /\ i \in unchecked[w]
    /\ duration[i] # 0 /\ ValidSegments(draft[w][i], duration[i])
    /\ unchecked' = [unchecked EXCEPT ![w] = @ \ {i}]
    /\ UNCHANGED <<row, duration, pc, expected, base, draft, edits>>

\* ... and refused, or cannot be.
RefuseItem(w, i) ==
    /\ At(w, "check") /\ i \in unchecked[w]
    /\ Leave(w) /\ UNCHANGED row

\* The writer has the answer: an editor goes on from it.
Answered(w, answer) ==
    IF w \in Agent THEN Leave(w)
    ELSE /\ Goto(w, "loaded")
         /\ expected' = [expected EXCEPT ![w] = answer.revision]
         /\ base' = [base EXCEPT ![w] = answer.document]
         /\ draft' = [draft EXCEPT ![w] = NoItems]
         /\ UNCHANGED <<duration, unchecked, edits>>

Ready(w) == At(w, "check") /\ unchecked[w] = {}

Insert(w) ==
    /\ Ready(w) /\ expected[w] = 0 /\ row.revision = 0
    /\ row' = [revision |-> 1, document |-> draft[w]]
    /\ Answered(w, row') \/ Leave(w)

\* Fault: the row is replaced whatever its revision.
OverwriteRow(w) ==
    /\ Ready(w) /\ expected[w] # 0 /\ row.revision \in 1..(MaxRevision - 1)
    /\ row' = [revision |-> row.revision + 1, document |-> draft[w]]
    /\ Answered(w, row') \/ Leave(w)

\* Fault: the revision is read after the transaction, when another writer has saved as well.
UpdateThenRead(w) ==
    /\ Ready(w) /\ expected[w] # 0 /\ row.revision \in 1..(MaxRevision - 2)
    /\ row.revision = expected[w]
    /\ \E other \in Writer \ {w} :
         /\ row' = [revision |-> row.revision + 2, document |-> draft[other]]
         /\ Answered(w, [revision |-> row.revision + 2, document |-> draft[w]])

\* SaveTx: the row is replaced if it has the revision expected, and read once more in the
\* same transaction.
Update(w) ==
    /\ Ready(w) /\ expected[w] # 0 /\ row.revision \in 1..(MaxRevision - 1)
    /\ row.revision = expected[w]
    /\ row' = [revision |-> row.revision + 1, document |-> draft[w]]
    /\ Answered(w, row') \/ Leave(w)

\* It has another revision, there is one already, or the transaction fails.
SaveFails(w) ==
    /\ Ready(w)
    /\ Leave(w) /\ UNCHANGED row

Check(w, document) == Goto(w, "check") /\ unchecked' = [unchecked EXCEPT ![w] = DOMAIN document]

-----------------------------------------------------------------------------
(* Editors *)

Load(w) ==
    /\ At(w, "idle") /\ w \in Editor
    /\ Goto(w, "loaded")
    /\ expected' = [expected EXCEPT ![w] = row.revision]
    /\ base' = [base EXCEPT ![w] = row.document]
    /\ UNCHANGED <<row, duration, draft, unchecked, edits>>

\* The editor puts a document that is valid in itself; another is refused, to no effect.
Put(w) ==
    /\ At(w, "loaded")
    /\ \E document \in Documents :
         draft' = [draft EXCEPT ![w] = document] /\ Check(w, document)
    /\ UNCHANGED <<row, duration, expected, base, edits>>

\* The page is closed, or loads the project again.
Close(w) ==
    /\ At(w, "loaded")
    /\ Leave(w) /\ UNCHANGED row

-----------------------------------------------------------------------------
(* Agents: update_cutlist *)

\* The tool is called for some revision, and the project and its media looked up.
Call(w, revision) ==
    /\ At(w, "idle") /\ w \in Agent
    /\ row.revision # 0 /\ \A i \in DOMAIN row.document : duration[i] # 0
    /\ Goto(w, "get")
    /\ expected' = [expected EXCEPT ![w] = revision]
    /\ UNCHANGED <<row, duration, base, draft, unchecked, edits>>

\* Once the call is authorized, the project is read again, and must have that revision.
Get(w) ==
    /\ At(w, "get") /\ row.revision = expected[w]
    /\ Goto(w, "edit")
    /\ base' = [base EXCEPT ![w] = row.document] /\ draft' = [draft EXCEPT ![w] = row.document]
    /\ UNCHANGED <<row, duration, expected, unchecked, edits>>

Stale(w) ==
    /\ At(w, "get")
    /\ Leave(w) /\ UNCHANGED row

\* One operation turns the segments of an item into others.
Apply(w, i, segments) ==
    /\ At(w, "edit") /\ edits[w] < MaxOperations /\ i \in DOMAIN draft[w]
    /\ draft' = [draft EXCEPT ![w][i] = segments]
    /\ edits' = [edits EXCEPT ![w] = @ + 1]
    /\ UNCHANGED <<row, duration, pc, expected, base, unchecked>>

Segments(w, i) == IF At(w, "edit") /\ i \in DOMAIN draft[w] THEN draft[w][i] ELSE <<>>

\* A segment with a new identifier goes to a position.
Add(w, i, id, span, k) ==
    LET segments == Segments(w, i)
    IN  /\ k \in 0..Len(segments) /\ id \notin Ids(segments)
        /\ Apply(w, i, SubSeq(segments, 1, k) \o <<[id |-> id, span |-> span]>> \o SubSeq(segments, k + 1, Len(segments)))

Adjust(w, i, k, span) ==
    /\ k \in DOMAIN Segments(w, i)
    /\ Apply(w, i, [Segments(w, i) EXCEPT ![k].span = span])

Remove(w, i, k) ==
    LET segments == Segments(w, i)
    IN  /\ k \in DOMAIN segments
        /\ Apply(w, i, SubSeq(segments, 1, k - 1) \o SubSeq(segments, k + 1, Len(segments)))

\* The segments named, each once, in the order in which they are named.
Named(segments, ids) == [n \in DOMAIN ids |-> segments[CHOOSE k \in DOMAIN segments : segments[k].id = ids[n]]]

Names(ids) == \A m, n \in DOMAIN ids : ids[m] = ids[n] => m = n

Reorder(w, i, ids) ==
    LET segments == Segments(w, i)
    IN  /\ Names(ids) /\ ids # <<>> /\ \A n \in DOMAIN ids : ids[n] \in Ids(segments)
        /\ Len(ids) = Len(segments)
        /\ Apply(w, i, Named(segments, ids))

\* All operations have been applied: the document is saved.
EndEdits(w) ==
    /\ At(w, "edit") /\ edits[w] # 0 /\ ValidDocument(draft[w])
    /\ Check(w, draft[w])
    /\ UNCHANGED <<row, duration, expected, base, draft, edits>>

\* One names what the document does not have, or the document has become invalid.
Refuse(w) ==
    /\ At(w, "edit")
    /\ Leave(w) /\ UNCHANGED row

-----------------------------------------------------------------------------
\* The library refreshes (module Library).
Refresh(i, d) ==
    /\ duration[i] # d
    /\ duration' = [duration EXCEPT ![i] = d]
    /\ UNCHANGED <<row, writing>>

SaveStep(w) ==
    \/ \E i \in Item : CheckItem(w, i) \/ RefuseItem(w, i)
    \/ Insert(w) \/ Update(w) \/ SaveFails(w)

EditorStep(w) ==
    Load(w) \/ Put(w) \/ Close(w)

Operation(w, i) ==
    \/ \E id \in SegmentId, span \in Span, k \in 0..Len(Segments(w, i)) : Add(w, i, id, span, k)
    \/ \E k \in DOMAIN Segments(w, i) : Remove(w, i, k) \/ \E span \in Span : Adjust(w, i, k, span)
    \/ \E n \in 1..Len(Segments(w, i)) : \E ids \in [1..n -> Ids(Segments(w, i))] : Reorder(w, i, ids)

AgentStep(w) ==
    \/ \E revision \in 1..MaxRevision : Call(w, revision)
    \/ Get(w) \/ Stale(w) \/ EndEdits(w) \/ Refuse(w)
    \/ \E i \in Item : Operation(w, i)

Next ==
    \/ \E w \in Writer : SaveStep(w)
    \/ \E w \in Editor : EditorStep(w)
    \/ \E w \in Agent : AgentStep(w)
    \/ \E i \in Item, d \in 0..MaxDuration : Refresh(i, d)

Spec == Init /\ [][Next]_vars

-----------------------------------------------------------------------------
(* Properties *)

\* The variables have their types.
TypeOK ==
    /\ duration \in [Item -> 0..MaxDuration]
    /\ row.revision \in 0..MaxRevision /\ DOMAIN row.document \subseteq Item
    /\ pc \in [Writer -> {"idle", "loaded", "get", "edit", "check"}]
    /\ expected \in [Writer -> 0..MaxRevision]
    /\ unchecked \in [Writer -> SUBSET Item] /\ edits \in [Writer -> 0..MaxOperations]
    /\ \A w \in Writer : unchecked[w] \subseteq DOMAIN draft[w] /\ DOMAIN draft[w] \subseteq Item

\* Nobody's work is lost: whoever saves the project has seen the document it replaces, so
\* between the reading of it and the saving no one else has saved (SaveTx).
NoLostUpdate ==
    [][ row' # row => \E w \in Writer :
          At(w, "check") /\ pc'[w] # "check" /\ row'.document = draft[w] /\
          base[w] = row.document ]_vars

\* An editor that goes on from an answer knows the document that it saved, or the one it
\* loaded, under the revision it has in the database: as long as nobody saves, its next save
\* will not fail (SaveTx reads the row in the transaction).
EditorsKnow ==
    \A w \in Editor : At(w, "loaded") /\ expected[w] = row.revision => base[w] = row.document

Disjoint(segments) ==
    \A j, k \in DOMAIN segments : j # k =>
        /\ segments[j].id # segments[k].id
        /\ segments[j].span.end <= segments[k].span.start \/ segments[k].span.end <= segments[j].span.start

\* Whatever is saved has distinct segments no two of which overlap, in each item.
SavedIsDisjoint ==
    \A i \in DOMAIN row.document : Disjoint(row.document[i])

\* The row that a writer works on, once it has read one.
Seen == [w \in Writer |-> IF pc[w] \in {"loaded", "edit", "check"}
                         THEN {[revision |-> expected[w], document |-> base[w]]} ELSE {}]

\* However editors, agents, checks and lost answers interleave, a saving replaces exactly
\* the row that its writer has read: compare-and-set of the revision (SaveTx) and the
\* re-reading in the same transaction make the project a versioned row.
Row     == INSTANCE VersionedRow WITH Client <- Writer, known <- Seen
RowSpec == Row!Spec
===============================================================================
