--------------------------- MODULE ProjectsProofs ---------------------------
(***************************************************************************)
(* Theorems about Projects for every set of items, segments, editors and   *)
(* agents, and all bounds.                                                 *)
(***************************************************************************)
EXTENDS Projects, FiniteSetTheorems, WellFoundedInduction, SequenceTheorems, TLAPS

-----------------------------------------------------------------------------
(* Segments: what validateSegments checks of neighbours holds for all *)

\* A set of natural numbers has a least element.
LEMMA Least ==
    ASSUME NEW T, T \subseteq Nat, T # {}
    PROVE  \E x \in T : \A y \in T : x <= y
<1>1. PICK x \in T : \A y \in T : ~(<<y, x>> \in OpToRel(<, Nat))
  BY NatLessThanWellFounded, WFMin
<1>2. \A y \in T : x <= y
  <2> SUFFICES ASSUME NEW y \in T, ~(x <= y) PROVE FALSE
    OBVIOUS
  <2>1. x \in Nat /\ y \in Nat /\ y < x
    OBVIOUS
  <2>2. <<y, x>> \in OpToRel(<, Nat)
    BY <2>1 DEF OpToRel
  <2> QED
    BY <1>1, <2>2
<1> QED
  BY <1>2

LEMMA SegmentTypes ==
    ASSUME NEW segments \in Seq(Segment), NEW k \in DOMAIN segments
    PROVE  /\ k \in Nat
           /\ segments[k].span.start \in Nat /\ segments[k].span.end \in Nat
           /\ segments[k].span.start < segments[k].span.end
<1>1. DOMAIN segments = 1..Len(segments) /\ Len(segments) \in Nat
  BY LenProperties
<1>2. segments[k] \in Segment
  BY <1>1, ElementOfSeq
<1>3. segments[k].span \in Span
  BY <1>2 DEF Segment
<1> QED
  BY <1>1, <1>3, ProjectsAssumption DEF Span

\* The order of the starts is one.
LEMMA BeforeIsOrder ==
    ASSUME NEW segments \in Seq(Segment),
           NEW j \in DOMAIN segments, NEW k \in DOMAIN segments, NEW l \in DOMAIN segments
    PROVE  /\ j = k \/ Before(segments, j, k) \/ Before(segments, k, j)
           /\ Before(segments, j, k) /\ Before(segments, k, l) => Before(segments, j, l)
           /\ Before(segments, j, k) => segments[j].span.start <= segments[k].span.start
<1>1. \A m \in DOMAIN segments : segments[m].span.start \in Int /\ m \in Int
  BY SegmentTypes
<1> QED
  BY <1>1 DEF Before

\* Whatever comes after a segment is the next one or comes after it.
LEMMA NextSegment ==
    ASSUME NEW segments \in Seq(Segment),
           NEW j \in DOMAIN segments, NEW k \in DOMAIN segments, Before(segments, j, k)
    PROVE  \E l \in DOMAIN segments : Follows(segments, j, l) /\ (l = k \/ Before(segments, l, k))
<1> DEFINE Later  == {l \in DOMAIN segments : Before(segments, j, l)}
           Starts == {segments[l].span.start : l \in Later}
<1>1. \A m \in DOMAIN segments : segments[m].span.start \in Nat /\ m \in Nat
  BY SegmentTypes
<1>2. PICK s \in Starts : \A t \in Starts : s <= t
  <2>1. Starts \subseteq Nat /\ Starts # {}
    BY <1>1
  <2> HIDE DEF Starts
  <2> QED
    BY <2>1, Least
<1> DEFINE Firsts == {l \in Later : segments[l].span.start = s}
<1>3. PICK l \in Firsts : \A m \in Firsts : l <= m
  <2>1. Firsts \subseteq Nat /\ Firsts # {}
    BY <1>1
  <2> HIDE DEF Firsts
  <2> QED
    BY <2>1, Least
<1>4. \A m \in Later : l = m \/ Before(segments, l, m)
  <2> SUFFICES ASSUME NEW m \in Later, l # m PROVE Before(segments, l, m)
    OBVIOUS
  <2>1. s <= segments[m].span.start /\ segments[l].span.start = s
    BY <1>2
  <2>2. segments[m].span.start = s => l < m
    BY <1>1, <1>3
  <2> QED
    BY <1>1, <2>1, <2>2 DEF Before
<1>5. Follows(segments, j, l)
  <2> SUFFICES ASSUME NEW m \in DOMAIN segments, Before(segments, j, m), Before(segments, m, l)
               PROVE  FALSE
    BY DEF Follows
  <2>1. Before(segments, l, m) \/ l = m
    BY <1>4
  <2> QED
    BY <1>1, <2>1 DEF Before
<1> QED
  BY <1>4, <1>5

\* As many identifiers as segments: all are different.
LEMMA DistinctIds ==
    ASSUME NEW segments \in Seq(Segment), Cardinality(Ids(segments)) = Len(segments),
           NEW j \in DOMAIN segments, NEW k \in DOMAIN segments, j # k
    PROVE  segments[j].id # segments[k].id
<1> DEFINE f == [m \in DOMAIN segments |-> segments[m].id]
<1>1. DOMAIN segments = 1..Len(segments) /\ Len(segments) \in Nat
  BY LenProperties
<1>2. IsFiniteSet(DOMAIN segments) /\ Cardinality(DOMAIN segments) = Len(segments)
  <2> DEFINE n == Len(segments)
  <2>1. n \in Nat
    BY <1>1
  <2> HIDE DEF n
  <2>2. \A a, b \in Int :
           IsFiniteSet(a..b) /\ Cardinality(a..b) = IF a > b THEN 0 ELSE b - a + 1
    BY FS_Interval, Zenon
  <2>3. 1 \in Int /\ n \in Int
    BY <2>1
  <2>4. IsFiniteSet(1..n) /\ Cardinality(1..n) = IF 1 > n THEN 0 ELSE n - 1 + 1
    BY <2>2, <2>3, Zenon
  <2>5. (IF 1 > n THEN 0 ELSE n - 1 + 1) = n
    BY <2>1
  <2> QED
    BY <1>1, <2>4, <2>5, Zenon DEF n
<1>3. f \in Surjection(DOMAIN segments, Ids(segments))
  BY DEF Surjection, Ids
<1> HIDE DEF f
<1>4. f \in Injection(DOMAIN segments, Ids(segments))
  BY <1>2, <1>3, FS_Surjection
<1> QED
  BY <1>4 DEF Injection, IsInjective, f

\* Hence a checked list has distinct segments that do not overlap.
LEMMA ValidIsDisjoint ==
    ASSUME NEW segments \in Seq(Segment), NEW end, ValidSegments(segments, end)
    PROVE  Disjoint(segments)
<1>1. \A m \in DOMAIN segments :
         /\ segments[m].span.start \in Int /\ segments[m].span.end \in Int
         /\ segments[m].span.start < segments[m].span.end
  BY SegmentTypes
<1>2. ASSUME NEW j \in DOMAIN segments, NEW k \in DOMAIN segments, Before(segments, j, k)
      PROVE  segments[j].span.end <= segments[k].span.start
  <2>1. PICK l \in DOMAIN segments : Follows(segments, j, l) /\ (l = k \/ Before(segments, l, k))
    BY <1>2, NextSegment
  <2>2. segments[j].span.end <= segments[l].span.start
    BY <2>1 DEF ValidSegments
  <2>3. segments[l].span.start <= segments[k].span.start
    BY <1>1, <2>1, BeforeIsOrder
  <2> QED
    BY <1>1, <2>2, <2>3
<1> SUFFICES ASSUME NEW j \in DOMAIN segments, NEW k \in DOMAIN segments, j # k
             PROVE  /\ segments[j].id # segments[k].id
                    /\ \/ segments[j].span.end <= segments[k].span.start
                       \/ segments[k].span.end <= segments[j].span.start
  BY DEF Disjoint
<1>3. segments[j].id # segments[k].id
  BY DistinctIds DEF ValidSegments
<1> QED
  BY <1>2, <1>3, BeforeIsOrder

-----------------------------------------------------------------------------
(* Types *)

\* Documents in memory and in the row: lists of segments, not yet checked.
Drafts == UNION {[items -> Seq(Segment)] : items \in SUBSET Item}

Typed ==
    /\ row \in [revision : 0..MaxRevision, document : Drafts]
    /\ duration \in [Item -> 0..MaxDuration]
    /\ pc \in [Writer -> {"idle", "loaded", "get", "edit", "check"}]
    /\ expected \in [Writer -> 0..MaxRevision]
    /\ base \in [Writer -> Drafts] /\ draft \in [Writer -> Drafts]
    /\ unchecked \in [Writer -> SUBSET Item]
    /\ edits \in [Writer -> 0..MaxOperations]
    /\ \A w \in Writer : unchecked[w] \subseteq DOMAIN draft[w]
    /\ \A w \in Writer : pc[w] # "check" => unchecked[w] = {}

LEMMA DraftFacts ==
    /\ NoItems \in Drafts
    /\ \A d \in Drafts : DOMAIN d \subseteq Item /\ \A i \in DOMAIN d : d[i] \in Seq(Segment)
    /\ \A d \in Drafts, s \in Seq(Segment) : \A i \in DOMAIN d :
          [d EXCEPT ![i] = s] \in Drafts /\ DOMAIN [d EXCEPT ![i] = s] = DOMAIN d
    /\ Documents \subseteq Drafts
<1>1. NoItems \in [{} -> Seq(Segment)]
  BY DEF NoItems
<1>2. SegmentLists \subseteq Seq(Segment)
  <2>1. \A n \in Nat : [1..n -> Segment] \subseteq Seq(Segment)
    BY IsASeq
  <2> QED
    <3> SUFFICES ASSUME NEW s \in SegmentLists PROVE s \in Seq(Segment)
      OBVIOUS
    <3>1. CASE s = <<>>
      BY <3>1
    <3>2. CASE \E n \in 1..MaxSegments : s \in [1..n -> Segment]
      <4>1. PICK n \in 1..MaxSegments : s \in [1..n -> Segment]
        BY <3>2
      <4> QED
        BY <2>1, <4>1, ProjectsAssumption
    <3> QED
      BY <3>1, <3>2 DEF SegmentLists
<1>3. Documents \subseteq Drafts
  <2> SUFFICES ASSUME NEW items \in SUBSET Item, NEW d \in [items -> Cuts]
               PROVE  d \in [items -> Seq(Segment)]
    BY DEF Documents, Drafts
  <2> QED
    BY <1>2 DEF Cuts
<1>4. ASSUME NEW d \in Drafts, NEW s \in Seq(Segment), NEW i \in DOMAIN d
      PROVE  [d EXCEPT ![i] = s] \in Drafts /\ DOMAIN [d EXCEPT ![i] = s] = DOMAIN d
  <2>1. PICK items \in SUBSET Item : d \in [items -> Seq(Segment)]
    BY DEF Drafts
  <2>2. [d EXCEPT ![i] = s] \in [items -> Seq(Segment)]
    BY <2>1
  <2> QED
    BY <2>1, <2>2 DEF Drafts
<1>5. \A d \in Drafts : DOMAIN d \subseteq Item /\ \A i \in DOMAIN d : d[i] \in Seq(Segment)
  BY DEF Drafts
<1> QED
  BY <1>1, <1>3, <1>4, <1>5 DEF Drafts

LEMMA TypedInit == Init => Typed
<1> SUFFICES ASSUME Init PROVE Typed
  OBVIOUS
<1>1. row \in [revision : 0..MaxRevision, document : Drafts]
  BY DraftFacts, ProjectsAssumption DEF Init
<1>2. /\ base \in [Writer -> Drafts] /\ draft \in [Writer -> Drafts]
      /\ expected \in [Writer -> 0..MaxRevision] /\ edits \in [Writer -> 0..MaxOperations]
  BY DraftFacts, ProjectsAssumption DEF Init
<1> QED
  BY <1>1, <1>2 DEF Init, Typed

\* The results of the operations are lists of segments.
LEMMA ListsTyped ==
    ASSUME NEW segments \in Seq(Segment), NEW span \in Span, NEW id \in SegmentId
    PROVE  /\ \A k \in 0..Len(segments) :
                SubSeq(segments, 1, k) \o <<[id |-> id, span |-> span]>> \o SubSeq(segments, k + 1, Len(segments))
                  \in Seq(Segment)
           /\ \A k \in DOMAIN segments : [segments EXCEPT ![k].span = span] \in Seq(Segment)
<1>1. \A m, n \in Int : m >= 1 /\ n <= Len(segments) => SubSeq(segments, m, n) \in Seq(Segment)
  BY LenProperties, ElementOfSeq
<1>2. <<[id |-> id, span |-> span]>> \in Seq(Segment)
  BY DEF Segment
<1>3. ASSUME NEW k \in 0..Len(segments)
      PROVE  SubSeq(segments, 1, k) \o <<[id |-> id, span |-> span]>> \o SubSeq(segments, k + 1, Len(segments))
               \in Seq(Segment)
  <2>1. Len(segments) \in Nat
    BY LenProperties
  <2>2. SubSeq(segments, 1, k) \in Seq(Segment) /\ SubSeq(segments, k + 1, Len(segments)) \in Seq(Segment)
    BY <1>1, <2>1
  <2> QED
    BY <1>2, <2>2, ConcatProperties
<1>4. ASSUME NEW k \in DOMAIN segments
      PROVE  [segments EXCEPT ![k].span = span] \in Seq(Segment)
  <2>1. k \in 1..Len(segments)
    BY LenProperties
  <2>2. segments[k] \in Segment
    BY <2>1, ElementOfSeq
  <2>3. [segments[k] EXCEPT !.span = span] \in Segment
    BY <2>2 DEF Segment
  <2> QED
    BY <2>1, <2>3, ExceptSeq
<1> QED
  BY <1>3, <1>4

LEMMA RemovedTyped ==
    ASSUME NEW segments \in Seq(Segment), NEW k \in DOMAIN segments
    PROVE  SubSeq(segments, 1, k - 1) \o SubSeq(segments, k + 1, Len(segments)) \in Seq(Segment)
<1>1. Len(segments) \in Nat /\ k \in 1..Len(segments)
  BY LenProperties
<1>2. SubSeq(segments, 1, k - 1) \in Seq(Segment) /\ SubSeq(segments, k + 1, Len(segments)) \in Seq(Segment)
  BY <1>1, ElementOfSeq
<1> QED
  BY <1>2, ConcatProperties

LEMMA NamedTyped ==
    ASSUME NEW segments \in Seq(Segment), NEW n \in Nat, NEW ids \in [1..n -> Ids(segments)]
    PROVE  Named(segments, ids) \in Seq(Segment)
<1>1. DOMAIN segments = 1..Len(segments) /\ \A k \in DOMAIN segments : segments[k] \in Segment
  BY LenProperties, ElementOfSeq
<1>2. ASSUME NEW m \in 1..n
      PROVE  segments[CHOOSE k \in DOMAIN segments : segments[k].id = ids[m]] \in Segment
  <2>1. \E k \in DOMAIN segments : segments[k].id = ids[m]
    BY DEF Ids
  <2> QED
    BY <1>1, <2>1
<1>3. DOMAIN ids = 1..n
  OBVIOUS
<1>4. Named(segments, ids) \in [1..n -> Segment]
  BY <1>2, <1>3 DEF Named
<1> QED
  BY <1>4, IsASeq

\* A writer that leaves is as it was at first.
LEMMA LeaveTyped ==
    ASSUME Typed, NEW w \in Writer, Leave(w), row' \in [revision : 0..MaxRevision, document : Drafts]
    PROVE  Typed'
<1>1. 0 \in 0..MaxRevision /\ 0 \in 0..MaxOperations /\ NoItems \in Drafts
  BY ProjectsAssumption, DraftFacts
<1>2. pc' \in [Writer -> {"idle", "loaded", "get", "edit", "check"}]
  BY DEF Typed, Leave, Goto
<1>3. /\ expected' \in [Writer -> 0..MaxRevision] /\ edits' \in [Writer -> 0..MaxOperations]
      /\ unchecked' \in [Writer -> SUBSET Item]
  BY <1>1 DEF Typed, Leave
<1>4. base' \in [Writer -> Drafts] /\ draft' \in [Writer -> Drafts]
  BY <1>1 DEF Typed, Leave
<1>5. \A v \in Writer : unchecked'[v] \subseteq DOMAIN draft'[v]
  BY DEF Typed, Leave
<1>6. \A v \in Writer : pc'[v] # "check" => unchecked'[v] = {}
  BY DEF Typed, Leave, Goto
<1> QED
  BY <1>2, <1>3, <1>4, <1>5, <1>6 DEF Typed, Leave

\* One that has its answer keeps the types, too.
LEMMA AnsweredTyped ==
    ASSUME Typed, NEW w \in Writer, Ready(w), row' \in [revision : 0..MaxRevision, document : Drafts],
           Answered(w, row') \/ Leave(w)
    PROVE  Typed'
<1>1. CASE Leave(w)
  BY <1>1, LeaveTyped
<1>2. CASE ~Leave(w)
  <2>1. /\ pc' = [pc EXCEPT ![w] = "loaded"] /\ expected' = [expected EXCEPT ![w] = row'.revision]
        /\ base' = [base EXCEPT ![w] = row'.document] /\ draft' = [draft EXCEPT ![w] = NoItems]
        /\ UNCHANGED <<duration, unchecked, edits>> /\ unchecked[w] = {}
    BY <1>2 DEF Answered, Goto, Ready
  <2>2. row'.revision \in 0..MaxRevision /\ row'.document \in Drafts /\ NoItems \in Drafts
    BY DraftFacts
  <2>3. pc' \in [Writer -> {"idle", "loaded", "get", "edit", "check"}]
    BY <2>1 DEF Typed
  <2>4. expected' \in [Writer -> 0..MaxRevision]
    BY <2>1, <2>2 DEF Typed
  <2>5. base' \in [Writer -> Drafts] /\ draft' \in [Writer -> Drafts]
    BY <2>1, <2>2 DEF Typed
  <2>6. \A v \in Writer : unchecked'[v] \subseteq DOMAIN draft'[v]
    BY <2>1 DEF Typed
  <2>7. \A v \in Writer : pc'[v] # "check" => unchecked'[v] = {}
    BY <2>1 DEF Typed
  <2> QED
    BY <2>1, <2>3, <2>4, <2>5, <2>6, <2>7 DEF Typed
<1> QED
  BY <1>1, <1>2

\* A document is to be checked.
LEMMA CheckTyped ==
    ASSUME Typed, NEW w \in Writer, NEW document \in Drafts, Check(w, document),
           draft' = [draft EXCEPT ![w] = document],
           UNCHANGED <<row, duration, expected, base, edits>>
    PROVE  Typed'
<1>1. DOMAIN document \subseteq Item
  BY DraftFacts
<1>2. pc' \in [Writer -> {"idle", "loaded", "get", "edit", "check"}]
  BY DEF Typed, Check, Goto
<1>3. draft' \in [Writer -> Drafts]
  BY DEF Typed
<1>4. unchecked' \in [Writer -> SUBSET Item]
  BY <1>1 DEF Typed, Check
<1>5. \A v \in Writer : unchecked'[v] \subseteq DOMAIN draft'[v]
  BY DEF Typed, Check
<1>6. \A v \in Writer : pc'[v] # "check" => unchecked'[v] = {}
  BY DEF Typed, Check, Goto
<1> QED
  BY <1>2, <1>3, <1>4, <1>5, <1>6 DEF Typed

\* An operation leaves lists of segments.
LEMMA ApplyTyped ==
    ASSUME Typed, NEW w \in Writer, NEW i \in Item, NEW s \in Seq(Segment), Apply(w, i, s)
    PROVE  Typed'
<1>1. /\ draft' = [draft EXCEPT ![w] = [draft[w] EXCEPT ![i] = s]] /\ i \in DOMAIN draft[w]
      /\ edits' = [edits EXCEPT ![w] = edits[w] + 1] /\ edits[w] < MaxOperations
      /\ UNCHANGED <<row, duration, pc, expected, base, unchecked>>
  BY DEF Apply, Typed
<1>2. draft[w] \in Drafts
  BY DEF Typed
<1>3. [draft[w] EXCEPT ![i] = s] \in Drafts /\ DOMAIN [draft[w] EXCEPT ![i] = s] = DOMAIN draft[w]
  BY <1>1, <1>2, DraftFacts
<1> HIDE DEF Apply
<1>4. draft' \in [Writer -> Drafts]
  BY <1>1, <1>3 DEF Typed
<1>5. edits' \in [Writer -> 0..MaxOperations]
  BY <1>1, ProjectsAssumption DEF Typed
<1>6. \A v \in Writer : unchecked'[v] \subseteq DOMAIN draft'[v]
  BY <1>1, <1>3 DEF Typed
<1> QED
  BY <1>1, <1>4, <1>5, <1>6 DEF Typed

LEMMA SegmentsTyped ==
    ASSUME Typed, NEW w \in Writer, NEW i \in Item
    PROVE  Segments(w, i) \in Seq(Segment)
<1>1. draft[w] \in Drafts
  BY DEF Typed
<1> QED
  BY <1>1, DraftFacts, EmptySeq DEF Segments

LEMMA OperationTyped ==
    ASSUME Typed, NEW w \in Writer, NEW i \in Item, Operation(w, i)
    PROVE  Typed'
<1> DEFINE segments == Segments(w, i)
<1>1. segments \in Seq(Segment)
  BY SegmentsTyped
<1> HIDE DEF segments
<1>2. CASE \E id \in SegmentId, span \in Span, k \in 0..Len(segments) : Add(w, i, id, span, k)
  BY <1>1, <1>2, ListsTyped, ApplyTyped DEF Add, segments
<1>3. CASE \E k \in DOMAIN segments : Remove(w, i, k)
  BY <1>1, <1>3, RemovedTyped, ApplyTyped DEF Remove, segments
<1>4. CASE \E k \in DOMAIN segments, span \in Span : Adjust(w, i, k, span)
  <2>1. PICK k \in DOMAIN segments, span \in Span : Adjust(w, i, k, span)
    BY <1>4
  <2>2. k \in 1..Len(segments) /\ segments[k] \in Segment
    BY <1>1, LenProperties, ElementOfSeq
  <2>3. segments[k].id \in SegmentId
    BY <2>2 DEF Segment
  <2>4. [segments EXCEPT ![k].span = span] \in Seq(Segment)
    BY <1>1, <2>3, ListsTyped
  <2> QED
    BY <2>1, <2>4, ApplyTyped DEF Adjust, segments
<1>5. CASE \E n \in 1..Len(segments) : \E ids \in [1..n -> Ids(segments)] : Reorder(w, i, ids)
  <2>1. PICK n \in 1..Len(segments) : \E ids \in [1..n -> Ids(segments)] : Reorder(w, i, ids)
    BY <1>5
  <2>2. PICK ids \in [1..n -> Ids(segments)] : Reorder(w, i, ids)
    BY <2>1
  <2>3. Named(segments, ids) \in Seq(Segment)
    BY <1>1, NamedTyped
  <2> QED
    BY <2>2, <2>3, ApplyTyped DEF Reorder, segments
<1> QED
  BY <1>2, <1>3, <1>4, <1>5 DEF Operation, segments

\* Every step keeps the types.
LEMMA TypedStep == Typed /\ [Next]_vars => Typed'
<1> SUFFICES ASSUME Typed, [Next]_vars PROVE Typed'
  OBVIOUS
<1>1. row \in [revision : 0..MaxRevision, document : Drafts]
  BY DEF Typed
<1>2. ASSUME NEW w \in Writer, SaveStep(w) PROVE Typed'
  <2>1. CASE \E i \in Item : CheckItem(w, i)
    <3>1. PICK i \in Item : CheckItem(w, i)
      BY <2>1
    <3> QED
      BY <3>1 DEF Typed, CheckItem
  <2>2. CASE \E i \in Item : RefuseItem(w, i)
    BY <1>1, <2>2, LeaveTyped DEF RefuseItem
  <2>3. CASE Insert(w)
    <3>1. row' \in [revision : 0..MaxRevision, document : Drafts]
      BY <2>3, ProjectsAssumption DEF Insert, Typed
    <3> QED
      BY <2>3, <3>1, AnsweredTyped DEF Insert
  <2>4. CASE Update(w)
    <3>1. row' \in [revision : 0..MaxRevision, document : Drafts]
      BY <2>4, ProjectsAssumption DEF Update, Typed
    <3> QED
      BY <2>4, <3>1, AnsweredTyped DEF Update
  <2>5. CASE SaveFails(w)
    BY <1>1, <2>5, LeaveTyped DEF SaveFails
  <2> QED
    BY <1>2, <2>1, <2>2, <2>3, <2>4, <2>5 DEF SaveStep
<1>3. ASSUME NEW w \in Editor, EditorStep(w) PROVE Typed'
  <2>0. w \in Writer
    BY DEF Writer
  <2>1. CASE Load(w)
    <3>1. row.revision \in 0..MaxRevision /\ row.document \in Drafts
      BY <1>1
    <3>2. pc' \in [Writer -> {"idle", "loaded", "get", "edit", "check"}]
      BY <2>1 DEF Typed, Load, Goto
    <3>3. expected' \in [Writer -> 0..MaxRevision] /\ base' \in [Writer -> Drafts]
      BY <2>1, <3>1 DEF Typed, Load
    <3>4. \A v \in Writer : pc'[v] # "check" => unchecked'[v] = {}
      BY <2>1 DEF Typed, Load, Goto, At
    <3> QED
      BY <2>1, <3>2, <3>3, <3>4 DEF Typed, Load
  <2>2. CASE Put(w)
    <3>1. PICK document \in Documents : draft' = [draft EXCEPT ![w] = document] /\ Check(w, document)
      BY <2>2 DEF Put
    <3>2. document \in Drafts
      BY DraftFacts
    <3> QED
      BY <2>0, <2>2, <3>1, <3>2, CheckTyped DEF Put
  <2>3. CASE Close(w)
    BY <1>1, <2>0, <2>3, LeaveTyped DEF Close
  <2> QED
    BY <1>3, <2>1, <2>2, <2>3 DEF EditorStep
<1>4. ASSUME NEW w \in Agent, AgentStep(w) PROVE Typed'
  <2>0. w \in Writer
    BY DEF Writer
  <2>1. CASE \E revision \in 1..MaxRevision : Call(w, revision)
    <3>1. PICK revision \in 1..MaxRevision : Call(w, revision)
      BY <2>1
    <3>0. revision \in 0..MaxRevision
      BY ProjectsAssumption
    <3>2. expected' \in [Writer -> 0..MaxRevision]
      BY <3>0, <3>1 DEF Typed, Call
    <3>3. pc' \in [Writer -> {"idle", "loaded", "get", "edit", "check"}]
      BY <3>1 DEF Typed, Call, Goto
    <3>4. \A v \in Writer : pc'[v] # "check" => unchecked'[v] = {}
      BY <3>1 DEF Typed, Call, Goto, At
    <3> QED
      BY <3>1, <3>2, <3>3, <3>4 DEF Typed, Call
  <2>2. CASE Get(w)
    <3>1. row.document \in Drafts
      BY <1>1
    <3>2. pc' \in [Writer -> {"idle", "loaded", "get", "edit", "check"}]
      BY <2>2 DEF Typed, Get, Goto
    <3>3. base' \in [Writer -> Drafts] /\ draft' \in [Writer -> Drafts]
      BY <2>2, <3>1 DEF Typed, Get
    <3>4. unchecked[w] = {}
      BY <2>0, <2>2 DEF Typed, Get, At
    <3>5. \A v \in Writer : unchecked'[v] \subseteq DOMAIN draft'[v]
      BY <2>2, <3>4 DEF Typed, Get
    <3>6. \A v \in Writer : pc'[v] # "check" => unchecked'[v] = {}
      BY <2>2, <3>4 DEF Typed, Get, Goto
    <3> QED
      BY <2>2, <3>2, <3>3, <3>5, <3>6 DEF Typed, Get
  <2>3. CASE Stale(w)
    BY <1>1, <2>0, <2>3, LeaveTyped DEF Stale
  <2>4. CASE EndEdits(w)
    <3>1. draft[w] \in Drafts /\ draft' = [draft EXCEPT ![w] = draft[w]]
      BY <2>0, <2>4 DEF Typed, EndEdits
    <3> QED
      BY <2>0, <2>4, <3>1, CheckTyped DEF EndEdits
  <2>5. CASE Refuse(w)
    BY <1>1, <2>0, <2>5, LeaveTyped DEF Refuse
  <2>6. CASE \E i \in Item : Operation(w, i)
    BY <2>0, <2>6, OperationTyped
  <2> QED
    BY <1>4, <2>1, <2>2, <2>3, <2>4, <2>5, <2>6 DEF AgentStep
<1>5. CASE \E i \in Item, d \in 0..MaxDuration : Refresh(i, d)
  BY <1>5 DEF Typed, Refresh, writing
<1>6. CASE UNCHANGED vars
  BY <1>6 DEF Typed, vars, writing
<1> QED
  BY <1>2, <1>3, <1>4, <1>5, <1>6 DEF Next

\* The variables of Projects keep their types (TypeOK).
THEOREM TypeCorrect == Spec => []TypeOK
<1>1. Typed => TypeOK
  BY DraftFacts DEF Typed, TypeOK
<1> QED
  BY <1>1, TypedInit, TypedStep, PTL DEF Spec

-----------------------------------------------------------------------------
(* What a writer knows of the row *)

\* There is a document with the first revision.
Rows == row.revision = 0 => row.document = NoItems

\* Except between the call and the reading, a writer expects no later revision than there
\* is, and has read the document of the one it expects if that is still the revision.
Known(w) == pc[w] # "get" =>
    /\ expected[w] <= row.revision
    /\ expected[w] = row.revision => base[w] = row.document

KInv == Typed /\ Rows /\ \A w \in Writer : Known(w)

\* A writer that leaves, and the others as the row stays or has a later revision.
LEMMA LeaveKnown ==
    ASSUME KInv, NEW w \in Writer, Leave(w), Typed', row' = row \/ row'.revision > row.revision
    PROVE  KInv'
<1>1. Rows'
  BY DEF KInv, Typed, Rows
<1>2. ASSUME NEW v \in Writer PROVE Known(v)'
  <2>1. CASE v = w
    BY <1>1, <2>1 DEF KInv, Typed, Known, Leave, Rows
  <2>2. CASE v # w
    BY <2>2 DEF KInv, Typed, Known, Leave, Goto
  <2> QED
    BY <2>1, <2>2
<1> QED
  BY <1>1, <1>2 DEF KInv

\* A writer with the answer knows the row; the others as above.
LEMMA AnsweredKnown ==
    ASSUME KInv, NEW w \in Writer, Answered(w, row') \/ Leave(w), Typed', row'.revision > row.revision
    PROVE  KInv'
<1>1. CASE Leave(w)
  BY <1>1, LeaveKnown
<1>2. CASE ~Leave(w)
  <2>1. Rows'
    BY DEF KInv, Typed, Rows
  <2>2. /\ pc' = [pc EXCEPT ![w] = "loaded"] /\ expected' = [expected EXCEPT ![w] = row'.revision]
        /\ base' = [base EXCEPT ![w] = row'.document]
    BY <1>2 DEF Answered, Goto
  <2>3. ASSUME NEW v \in Writer PROVE Known(v)'
    <3>1. CASE v = w
      BY <2>2, <3>1 DEF KInv, Typed, Known
    <3>2. CASE v # w
      BY <2>2, <3>2 DEF KInv, Typed, Known
    <3> QED
      BY <3>1, <3>2
  <2> QED
    BY <2>1, <2>3 DEF KInv
<1> QED
  BY <1>1, <1>2

\* A step of one writer that touches neither the row nor what it or the others know.
LEMMA SameKnown ==
    ASSUME KInv, Typed', UNCHANGED <<row, expected, base>>,
           pc' = pc \/ \E w \in Writer : pc[w] # "get" /\ pc' = [pc EXCEPT ![w] = "check"]
    PROVE  KInv'
<1>1. \A v \in Writer : pc'[v] # "get" => pc[v] # "get"
  BY DEF KInv, Typed
<1> QED
  BY <1>1 DEF KInv, Rows, Known

LEMMA KInvStep == KInv /\ [Next]_vars => KInv'
<1> SUFFICES ASSUME KInv, [Next]_vars PROVE KInv'
  OBVIOUS
<1>1. Typed'
  BY TypedStep DEF KInv
<1>2. ASSUME NEW w \in Writer, SaveStep(w) PROVE KInv'
  <2>1. CASE \E i \in Item : CheckItem(w, i)
    BY <1>1, <2>1, SameKnown DEF CheckItem
  <2>2. CASE \E i \in Item : RefuseItem(w, i)
    BY <1>1, <2>2, LeaveKnown DEF RefuseItem
  <2>3. CASE Insert(w)
    <3>1. row'.revision > row.revision
      BY <2>3 DEF Insert
    <3> QED
      BY <1>1, <2>3, <3>1, AnsweredKnown DEF Insert
  <2>4. CASE Update(w)
    <3>1. row'.revision > row.revision
      BY <2>4, ProjectsAssumption DEF Update
    <3> QED
      BY <1>1, <2>4, <3>1, AnsweredKnown DEF Update
  <2>5. CASE SaveFails(w)
    BY <1>1, <2>5, LeaveKnown DEF SaveFails
  <2> QED
    BY <1>2, <2>1, <2>2, <2>3, <2>4, <2>5 DEF SaveStep
<1>3. ASSUME NEW w \in Editor, EditorStep(w) PROVE KInv'
  <2>0. w \in Writer
    BY DEF Writer
  <2>1. CASE Load(w)
    <3>1. ASSUME NEW v \in Writer PROVE Known(v)'
      BY <2>1 DEF KInv, Typed, Known, Load, Goto
    <3> QED
      BY <1>1, <2>1, <3>1 DEF KInv, Rows, Load
  <2>2. CASE Put(w)
    BY <1>1, <2>0, <2>2, SameKnown DEF Put, Check, Goto, At
  <2>3. CASE Close(w)
    BY <1>1, <2>0, <2>3, LeaveKnown DEF Close
  <2> QED
    BY <1>3, <2>1, <2>2, <2>3 DEF EditorStep
<1>4. ASSUME NEW w \in Agent, AgentStep(w) PROVE KInv'
  <2>0. w \in Writer
    BY DEF Writer
  <2>1. CASE \E revision \in 1..MaxRevision : Call(w, revision)
    <3>1. ASSUME NEW v \in Writer PROVE Known(v)'
      BY <2>1 DEF KInv, Typed, Known, Call, Goto
    <3> QED
      BY <1>1, <2>1, <3>1 DEF KInv, Rows, Call
  <2>2. CASE Get(w)
    <3>1. ASSUME NEW v \in Writer PROVE Known(v)'
      BY <2>2 DEF KInv, Typed, Known, Get, Goto
    <3> QED
      BY <1>1, <2>2, <3>1 DEF KInv, Rows, Get
  <2>3. CASE Stale(w)
    BY <1>1, <2>0, <2>3, LeaveKnown DEF Stale
  <2>4. CASE EndEdits(w)
    BY <1>1, <2>0, <2>4, SameKnown DEF EndEdits, Check, Goto, At
  <2>5. CASE Refuse(w)
    BY <1>1, <2>0, <2>5, LeaveKnown DEF Refuse
  <2>6. CASE \E i \in Item : Operation(w, i)
    <3>1. UNCHANGED <<row, pc, expected, base>>
      BY <2>6 DEF Operation, Add, Adjust, Remove, Reorder, Apply
    <3> QED
      BY <1>1, <3>1, SameKnown
  <2> QED
    BY <1>4, <2>1, <2>2, <2>3, <2>4, <2>5, <2>6 DEF AgentStep
<1>5. CASE \E i \in Item, d \in 0..MaxDuration : Refresh(i, d)
  BY <1>1, <1>5, SameKnown DEF Refresh, writing
<1>6. CASE UNCHANGED vars
  BY <1>1, <1>6, SameKnown DEF vars, writing
<1> QED
  BY <1>2, <1>3, <1>4, <1>5, <1>6 DEF Next

LEMMA KInvInit == Init => KInv
<1> SUFFICES ASSUME Init PROVE KInv
  OBVIOUS
<1>1. row.revision \in Nat /\ Rows
  BY DEF Init, Rows
<1>2. \A w \in Writer : expected[w] = 0 /\ base[w] = NoItems
  BY DEF Init
<1>3. \A w \in Writer : Known(w)
  BY <1>1, <1>2 DEF Known, Rows
<1> QED
  BY <1>1, <1>3, TypedInit DEF KInv

\* Only a saving changes the row, by a writer that has seen the document it replaces.
LEMMA SavingKnows ==
    ASSUME KInv, [Next]_vars, row' # row
    PROVE  \E w \in Writer :
              /\ At(w, "check") /\ pc'[w] # "check" /\ row'.document = draft[w]
              /\ base[w] = row.document
<1>1. \E w \in Writer : Insert(w) \/ Update(w)
  <2>1. ASSUME NEW w \in Writer, NEW i \in Item, CheckItem(w, i) \/ RefuseItem(w, i) PROVE row' = row
    BY <2>1 DEF CheckItem, RefuseItem
  <2>2. ASSUME NEW w \in Editor, EditorStep(w) PROVE row' = row
    BY <2>2 DEF EditorStep, Load, Put, Close
  <2>3. ASSUME NEW w \in Agent, AgentStep(w) PROVE row' = row
    <3>1. CASE \E i \in Item : Operation(w, i)
      BY <3>1 DEF Operation, Add, Adjust, Remove, Reorder, Apply
    <3> QED
      BY <2>3, <3>1 DEF AgentStep, Call, Get, Stale, EndEdits, Refuse
  <2> QED
    BY <2>1, <2>2, <2>3 DEF Next, SaveStep, SaveFails, Refresh, vars
<1>2. PICK w \in Writer : Insert(w) \/ Update(w)
  BY <1>1
<1>3. At(w, "check") /\ row'.document = draft[w] /\ expected[w] = row.revision
  BY <1>2 DEF Insert, Update, Ready
<1>4. pc'[w] # "check"
  BY <1>2 DEF Insert, Update, Answered, Leave, Goto, KInv, Typed
<1>5. base[w] = row.document
  BY <1>3 DEF KInv, Known, At
<1> QED
  BY <1>3, <1>4, <1>5

\* Whoever saves has seen the document it replaces: nobody's work is lost (NoLostUpdate).
THEOREM SavingLosesNothing == Spec => NoLostUpdate
<1>1. KInv /\ [Next]_vars =>
        [row' # row => \E w \in Writer :
            At(w, "check") /\ pc'[w] # "check" /\ row'.document = draft[w] /\ base[w] = row.document]_vars
  BY SavingKnows
<1> QED
  BY <1>1, KInvInit, KInvStep, PTL DEF Spec, NoLostUpdate

\* An editor knows the document of the revision it goes on from (EditorsKnow).
THEOREM EditorsKnowTheRow == Spec => []EditorsKnow
<1>1. KInv => EditorsKnow
  BY DEF KInv, Known, EditorsKnow, At, Writer
<1> QED
  BY <1>1, KInvInit, KInvStep, PTL DEF Spec

-----------------------------------------------------------------------------
(* A project is a versioned row *)

\* Who has read a row in the code has read it in the abstract specification.
Reading == {"loaded", "edit", "check"}

LEMMA SeenOf ==
    ASSUME NEW w \in Writer
    PROVE  Seen[w] = IF pc[w] \in Reading THEN {[revision |-> expected[w], document |-> base[w]]} ELSE {}
  BY DEF Seen, Reading

\* A step that changes what at most one writer has seen.
LEMMA SeenChange ==
    ASSUME NEW w \in Writer, NEW S,
           Seen'[w] = S, \A v \in Writer \ {w} : Seen'[v] = Seen[v]
    PROVE  Seen' = [Seen EXCEPT ![w] = S]
<1>1. DOMAIN Seen = Writer /\ DOMAIN Seen' = Writer
  BY DEF Seen
<1>2. Seen = [v \in Writer |-> Seen[v]] /\ Seen' = [v \in Writer |-> Seen'[v]]
  BY DEF Seen
<1> QED
  BY <1>1, <1>2

\* The row stays, and no writer reads or forgets one.
LEMMA SeenStays ==
    ASSUME UNCHANGED <<row, expected, base>>,
           \A v \in Writer : pc'[v] = pc[v] \/ (pc[v] \in Reading /\ pc'[v] \in Reading)
    PROVE  UNCHANGED <<row, Seen>>
<1>1. ASSUME NEW v \in Writer PROVE Seen'[v] = Seen[v]
  BY DEF Seen, Reading
<1>2. Seen = [v \in Writer |-> Seen[v]] /\ Seen' = [v \in Writer |-> Seen'[v]]
  BY DEF Seen
<1> QED
  BY <1>1, <1>2

\* A writer that leaves forgets the row.
LEMMA LeavingForgets ==
    ASSUME Typed, NEW w \in Writer, Leave(w)
    PROVE  Seen' = [Seen EXCEPT ![w] = {}]
<1>1. Seen'[w] = {}
  BY DEF Seen, Leave, Goto, Typed
<1>2. \A v \in Writer \ {w} : Seen'[v] = Seen[v]
  BY DEF Seen, Leave, Goto, Typed
<1> QED
  BY <1>1, <1>2, SeenChange

\* A saving is one of the row that the writer has read.
LEMMA SavingSaves ==
    ASSUME KInv, NEW w \in Writer, Insert(w) \/ Update(w)
    PROVE  Row!Save(w)
<1>1. /\ At(w, "check") /\ expected[w] = row.revision
      /\ row' = [revision |-> row.revision + 1, document |-> draft[w]]
      /\ Answered(w, row') \/ Leave(w)
  BY DEF Insert, Update, Ready
<1>2. base[w] = row.document /\ row = [revision |-> row.revision, document |-> row.document]
  BY <1>1 DEF KInv, Known, At, Typed
<1>3. Seen[w] = {row}
  BY <1>1, <1>2 DEF Seen, At
<1>4. row' = [revision |-> row.revision + 1, document |-> row'.document]
  BY <1>1
<1>5. \E answer \in {{}, {row'}} : Seen' = [Seen EXCEPT ![w] = answer]
  <2>1. CASE Leave(w)
    BY <2>1, LeavingForgets DEF KInv
  <2>2. CASE ~Leave(w)
    <3>1. /\ pc' = [pc EXCEPT ![w] = "loaded"] /\ expected' = [expected EXCEPT ![w] = row'.revision]
          /\ base' = [base EXCEPT ![w] = row'.document]
      BY <1>1, <2>2 DEF Answered, Goto
    <3>2. [revision |-> row'.revision, document |-> row'.document] = row'
      BY <1>1
    <3>3. pc'[w] = "loaded" /\ expected'[w] = row'.revision /\ base'[w] = row'.document
      BY <3>1 DEF KInv, Typed
    <3>4. Seen'[w] = {row'}
      BY <3>2, <3>3 DEF Seen
    <3>5. \A v \in Writer \ {w} : Seen'[v] = Seen[v]
      BY <3>1 DEF Seen, KInv, Typed
    <3> QED
      BY <3>4, <3>5, SeenChange
  <2> QED
    BY <2>1, <2>2
<1> QED
  BY <1>3, <1>4, <1>5 DEF Row!Save

\* Every step is one of the versioned row, or none.
LEMMA RowStep == KInv /\ [Next]_vars => [Row!Next]_(Row!vars)
<1> SUFFICES ASSUME KInv, [Next]_vars PROVE Row!Next \/ UNCHANGED <<row, Seen>>
  BY DEF Row!vars
<1>1. Typed /\ Typed'
  BY TypedStep DEF KInv
<1>2. ASSUME NEW w \in Writer, Leave(w), row' = row PROVE Row!Next
  BY <1>1, <1>2, LeavingForgets DEF Row!Next, Row!Forget
<1>3. ASSUME NEW w \in Writer, SaveStep(w) PROVE Row!Next \/ UNCHANGED <<row, Seen>>
  <2>1. CASE \E i \in Item : CheckItem(w, i)
    BY <2>1, SeenStays DEF CheckItem
  <2>2. CASE (\E i \in Item : RefuseItem(w, i)) \/ SaveFails(w)
    BY <1>2, <2>2 DEF RefuseItem, SaveFails
  <2>3. CASE Insert(w) \/ Update(w)
    BY <2>3, SavingSaves DEF Row!Next
  <2> QED
    BY <1>3, <2>1, <2>2, <2>3 DEF SaveStep
<1>4. ASSUME NEW w \in Editor, EditorStep(w) PROVE Row!Next \/ UNCHANGED <<row, Seen>>
  <2>0. w \in Writer
    BY DEF Writer
  <2>1. CASE Load(w)
    <3>1. row = [revision |-> row.revision, document |-> row.document]
      BY <1>1 DEF Typed
    <3>2. pc'[w] = "loaded" /\ expected'[w] = row.revision /\ base'[w] = row.document
      BY <1>1, <2>0, <2>1 DEF Load, Goto, Typed
    <3>3. Seen'[w] = {row}
      BY <2>0, <3>1, <3>2 DEF Seen
    <3>4. \A v \in Writer \ {w} : Seen'[v] = Seen[v]
      BY <1>1, <2>1 DEF Seen, Load, Goto, Typed
    <3> QED
      BY <2>0, <2>1, <3>3, <3>4, SeenChange DEF Row!Next, Row!Read, Load
  <2>2. CASE Put(w)
    BY <1>1, <2>0, <2>2, SeenStays DEF Put, Check, Goto, At, Reading, Typed
  <2>3. CASE Close(w)
    BY <1>2, <2>0, <2>3 DEF Close
  <2> QED
    BY <1>4, <2>1, <2>2, <2>3 DEF EditorStep
<1>5. ASSUME NEW w \in Agent, AgentStep(w) PROVE Row!Next \/ UNCHANGED <<row, Seen>>
  <2>0. w \in Writer
    BY DEF Writer
  <2>1. CASE \E revision \in 1..MaxRevision : Call(w, revision)
    <3>1. pc[w] = "idle" /\ pc' = [pc EXCEPT ![w] = "get"] /\ UNCHANGED <<row, base>>
          /\ \A v \in Writer \ {w} : expected'[v] = expected[v]
      BY <1>1, <2>0, <2>1 DEF Call, Goto, At, Typed
    <3>2. \A v \in Writer : Seen'[v] = Seen[v]
      BY <1>1, <3>1 DEF Seen, Typed
    <3>3. Seen = [v \in Writer |-> Seen[v]] /\ Seen' = [v \in Writer |-> Seen'[v]]
      BY DEF Seen
    <3> QED
      BY <3>1, <3>2, <3>3
  <2>2. CASE Get(w)
    <3>1. row = [revision |-> row.revision, document |-> row.document]
      BY <1>1 DEF Typed
    <3>2. pc'[w] = "edit" /\ expected'[w] = row.revision /\ base'[w] = row.document
      BY <1>1, <2>0, <2>2 DEF Get, Goto, Typed
    <3>3. Seen'[w] = {row}
      BY <2>0, <3>1, <3>2 DEF Seen
    <3>4. \A v \in Writer \ {w} : Seen'[v] = Seen[v]
      BY <1>1, <2>2 DEF Seen, Get, Goto, Typed
    <3> QED
      BY <2>0, <2>2, <3>3, <3>4, SeenChange DEF Row!Next, Row!Read, Get
  <2>3. CASE Stale(w) \/ Refuse(w)
    BY <1>2, <2>0, <2>3 DEF Stale, Refuse
  <2>4. CASE EndEdits(w)
    BY <1>1, <2>0, <2>4, SeenStays DEF EndEdits, Check, Goto, At, Reading, Typed
  <2>5. CASE \E i \in Item : Operation(w, i)
    <3>1. UNCHANGED <<row, pc, expected, base>>
      BY <2>5 DEF Operation, Add, Adjust, Remove, Reorder, Apply
    <3> QED
      BY <3>1, SeenStays
  <2> QED
    BY <1>5, <2>1, <2>2, <2>3, <2>4, <2>5 DEF AgentStep
<1>6. CASE \E i \in Item, d \in 0..MaxDuration : Refresh(i, d)
  BY <1>6, SeenStays DEF Refresh, writing
<1>7. CASE UNCHANGED vars
  BY <1>7, SeenStays DEF vars, writing
<1> QED
  BY <1>3, <1>4, <1>5, <1>6, <1>7 DEF Next

LEMMA RowInit == Init => Row!Init
<1> SUFFICES ASSUME Init PROVE Row!Init
  OBVIOUS
<1>1. row.revision \in {0, 1}
  BY DEF Init
<1>2. Seen = [w \in Writer |-> {}]
  BY DEF Init, Seen
<1> QED
  BY <1>1, <1>2 DEF Row!Init

\* Editors and agents together implement the versioned row (RowSpec): each saving replaces
\* exactly the row that its writer has read, whatever they, the checks of the items and the
\* library do in between.
THEOREM Refinement == Spec => RowSpec
<1>1. Spec => []KInv
  BY KInvInit, KInvStep, PTL DEF Spec
<1>2. Spec => [][Row!Next]_(Row!vars)
  BY <1>1, RowStep, PTL DEF Spec
<1> QED
  BY <1>2, RowInit, PTL DEF Spec, RowSpec, Row!Spec

-----------------------------------------------------------------------------
(* What is saved *)

\* What a writer has had checked is in order.
Checked(w) == pc[w] = "check" => \A i \in DOMAIN draft[w] \ unchecked[w] : Disjoint(draft[w][i])

CInv == Typed /\ SavedIsDisjoint /\ \A w \in Writer : Checked(w)

\* A step that brings no writer to the check, unless with everything still to be checked,
\* and saves nothing.
LEMMA NothingSaved ==
    ASSUME CInv, Typed', row' = row,
           \A w \in Writer : pc'[w] # "check" \/ unchecked'[w] = DOMAIN draft'[w]
                             \/ (pc[w] = "check" /\ draft'[w] = draft[w] /\ unchecked'[w] = unchecked[w])
    PROVE  CInv'
  BY DEF CInv, SavedIsDisjoint, Checked

LEMMA CInvStep == CInv /\ [Next]_vars => CInv'
<1> SUFFICES ASSUME CInv, [Next]_vars PROVE CInv'
  OBVIOUS
<1>1. Typed' /\ Typed
  BY TypedStep DEF CInv
<1>0. ASSUME NEW w \in Writer, Leave(w)
      PROVE  \A v \in Writer : pc'[v] # "check" \/ (pc[v] = "check" /\ draft'[v] = draft[v] /\ unchecked'[v] = unchecked[v])
  BY <1>0, <1>1 DEF Typed, Leave, Goto
<1>2. ASSUME NEW w \in Writer, SaveStep(w) PROVE CInv'
  <2>1. CASE \E i \in Item : CheckItem(w, i)
    <3>1. PICK i \in Item : CheckItem(w, i)
      BY <2>1
    <3>2. draft[w] \in Drafts /\ i \in DOMAIN draft[w]
      BY <1>1, <3>1 DEF Typed, CheckItem
    <3>3. draft[w][i] \in Seq(Segment)
      BY <3>2, DraftFacts
    <3>4. Disjoint(draft[w][i])
      BY <3>1, <3>3, ValidIsDisjoint DEF CheckItem
    <3>5. ASSUME NEW v \in Writer PROVE Checked(v)'
      BY <1>1, <3>1, <3>4 DEF CInv, Typed, Checked, CheckItem, Disjoint
    <3> QED
      BY <1>1, <3>1, <3>5 DEF CInv, CheckItem, SavedIsDisjoint, Disjoint
  <2>2. CASE \E i \in Item : RefuseItem(w, i)
    BY <1>0, <1>1, <2>2, NothingSaved DEF RefuseItem
  <2>3. CASE Insert(w) \/ Update(w)
    <3>1. Ready(w) /\ row'.document = draft[w]
      BY <2>3 DEF Insert, Update
    <3>2. SavedIsDisjoint'
      BY <3>1 DEF CInv, Checked, Ready, At, SavedIsDisjoint, Disjoint
    <3>3. \A v \in Writer : pc'[v] # "check" \/ (pc[v] = "check" /\ draft'[v] = draft[v] /\ unchecked'[v] = unchecked[v])
      <4>1. CASE Leave(w)
        BY <1>0, <4>1
      <4>2. CASE ~Leave(w)
        BY <1>1, <2>3, <4>2 DEF Insert, Update, Answered, Goto, Typed
      <4> QED
        BY <4>1, <4>2
    <3> QED
      BY <1>1, <3>2, <3>3 DEF CInv, Checked
  <2>5. CASE SaveFails(w)
    BY <1>0, <1>1, <2>5, NothingSaved DEF SaveFails
  <2> QED
    BY <1>2, <2>1, <2>2, <2>3, <2>5 DEF SaveStep
<1>3. ASSUME NEW w \in Editor, EditorStep(w) PROVE CInv'
  <2>0. w \in Writer
    BY DEF Writer
  <2>1. CASE Load(w)
    BY <1>1, <2>1, NothingSaved DEF Load, Goto, Typed
  <2>2. CASE Put(w)
    BY <1>1, <2>2, NothingSaved DEF Put, Check, Goto, Typed
  <2>3. CASE Close(w)
    BY <1>0, <1>1, <2>0, <2>3, NothingSaved DEF Close
  <2> QED
    BY <1>3, <2>1, <2>2, <2>3 DEF EditorStep
<1>4. ASSUME NEW w \in Agent, AgentStep(w) PROVE CInv'
  <2>0. w \in Writer
    BY DEF Writer
  <2>1. CASE \E revision \in 1..MaxRevision : Call(w, revision)
    BY <1>1, <2>1, NothingSaved DEF Call, Goto, Typed
  <2>2. CASE Get(w)
    BY <1>1, <2>2, NothingSaved DEF Get, Goto, Typed
  <2>3. CASE Stale(w)
    BY <1>0, <1>1, <2>0, <2>3, NothingSaved DEF Stale
  <2>4. CASE EndEdits(w)
    BY <1>1, <2>4, NothingSaved DEF EndEdits, Check, Goto, Typed
  <2>5. CASE Refuse(w)
    BY <1>0, <1>1, <2>0, <2>5, NothingSaved DEF Refuse
  <2>6. CASE \E i \in Item : Operation(w, i)
    <3>1. \E i \in Item : \E s : Apply(w, i, s)
      BY <2>6 DEF Operation, Add, Adjust, Remove, Reorder
    <3>2. \A v \in Writer : pc'[v] # "check" \/ (pc[v] = "check" /\ draft'[v] = draft[v] /\ unchecked'[v] = unchecked[v])
      BY <1>1, <3>1 DEF Apply, Typed, At
    <3>3. UNCHANGED row
      BY <3>1 DEF Apply
    <3> QED
      BY <1>1, <3>2, <3>3, NothingSaved
  <2> QED
    BY <1>4, <2>1, <2>2, <2>3, <2>4, <2>5, <2>6 DEF AgentStep
<1>5. CASE \E i \in Item, d \in 0..MaxDuration : Refresh(i, d)
  BY <1>1, <1>5, NothingSaved DEF Refresh, writing
<1>6. CASE UNCHANGED vars
  BY <1>1, <1>6, NothingSaved DEF vars, writing
<1> QED
  BY <1>2, <1>3, <1>4, <1>5, <1>6 DEF Next

LEMMA CInvInit == Init => CInv
<1> SUFFICES ASSUME Init PROVE CInv
  OBVIOUS
<1>1. \A w \in Writer : Checked(w)
  BY DEF Init, Checked
<1>2. SavedIsDisjoint
  <2> SUFFICES ASSUME NEW i \in DOMAIN row.document PROVE Disjoint(row.document[i])
    BY DEF SavedIsDisjoint
  <2>1. PICK document \in Documents : row.document = document
    BY DEF Init, NoItems
  <2>2. row.document[i] \in Cuts
    BY <2>1 DEF Documents
  <2>3. row.document[i] \in Seq(Segment)
    BY <2>1, DraftFacts
  <2> QED
    BY <2>2, <2>3, ValidIsDisjoint DEF Cuts
<1> QED
  BY <1>1, <1>2, TypedInit DEF CInv

\* Whatever is saved has distinct segments no two of which overlap, although only
\* neighbours are compared, and the media change meanwhile (SavedIsDisjoint).
THEOREM SavedSegmentsAreDisjoint == Spec => []SavedIsDisjoint
<1>1. CInv => SavedIsDisjoint
  BY DEF CInv
<1> QED
  BY <1>1, CInvInit, CInvStep, PTL DEF Spec
=============================================================================
