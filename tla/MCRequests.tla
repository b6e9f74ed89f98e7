----------------------------- MODULE MCRequests -----------------------------
(* Small instances of Projects, Pages, Assets and Archives for TLC. *)
EXTENDS Projects

CONSTANTS None, i1, i2, s1, s2, e1, e2, a1

CONSTANTS Id, Allowed, PageLimit, ScanLimit, Wanted
VARIABLES rows, listing, asked, cursor, limit, scanned, items, got, steady
Listing == INSTANCE Pages
ASSUME PagesAssumed    == Listing!PagesAssumption

CONSTANTS Client, Kind, Size, Limit, Versions, thumbnails, waveform
VARIABLES disk, catalog, cache, older, budget, over, step, kind, known, item, source, detached,
          reads, answer, since
Timeline == INSTANCE Assets
ASSUME AssetsAssumed   == Timeline!AssetsAssumption

CONSTANTS Process, Request, HomeOf, Output, Attempts, Crashes, Foreign, here, there, left, right
VARIABLES zip, announced, present, elapsed, lock, temp, content, values, owned, server, seen,
          stage, attempt, note, cancelled, crashes, overlapped
Batch == INSTANCE Archives
ASSUME ArchivesAssumed == Batch!ArchivesAssumption

SizeOf == [k \in {thumbnails, waveform} |-> IF k = thumbnails THEN 2 ELSE 1]
Homes  == [r \in {left, right} |-> IF r = left THEN here ELSE there]

-----------------------------------------------------------------------------

\* What editors put into the first item.
FirstCuts == {<<>>, <<[id |-> s1, span |-> [start |-> 0, end |-> 2]]>>}
        \cup {<<[id |-> s1, span |-> [start |-> a, end |-> 2]], [id |-> s2, span |-> [start |-> 0, end |-> 1]]>> : a \in 0..1}

\* One run has five scenarios, each of which leaves everything else as it was: two editors
\* at once, with one or two items, or an editor beside an agent, with one; a client that
\* follows the pages of a listing; the timeline of a medium; the archive of a batch.
Within(s) ==
    /\ \A e \in {e1, e2} : i1 \in DOMAIN draft[e] => draft[e][i1] \in FirstCuts
    /\ \A e \in {e1, e2} : i2 \in DOMAIN draft[e] => draft[e] = [i \in {i1, i2} |-> <<>>]
    /\ row.revision # 0 => i1 \in DOMAIN row.document
    /\ CASE s = "editors" -> pc[a1] = "idle" /\ duration[i2] = 2
         [] s = "agent"   -> /\ pc[e2] = "idle" /\ duration[i2] = 0
                             /\ Len(Segments(a1, i1)) <= 2 /\ expected[a1] <= row.revision
                             /\ row.revision < 3 \/ pc[a1] = "idle"
         [] OTHER         -> duration = [i \in Item |-> 0]

projects == vars
pages    == <<rows, listing, asked, cursor, limit, scanned, items, got, steady>>
timeline == <<disk, catalog, cache, older, budget, over, step, kind, known, item, source,
              detached, reads, answer, since>>
batch    == <<zip, announced, present, elapsed, lock, temp, content, values, owned, server,
              seen, stage, attempt, note, cancelled, crashes, overlapped>>
VARIABLE scenario

MCInit ==
    /\ scenario \in {"editors", "agent", "pages", "timeline", "batch"}
    /\ Init /\ row.revision = 0 /\ Within(scenario)
    /\ Listing!Init /\ (scenario # "pages" => rows = {})
    /\ Timeline!Init /\ (scenario # "timeline" => budget = 1)
    /\ Batch!Init

MCNext ==
    /\ UNCHANGED scenario
    /\ \/ /\ scenario \in {"editors", "agent"} /\ Next /\ Within(scenario)'
          /\ UNCHANGED <<pages, timeline, batch>>
       \/ /\ scenario = "pages" /\ Listing!Next
          /\ UNCHANGED <<projects, timeline, batch>>
       \/ /\ scenario = "timeline" /\ Timeline!Next
          /\ UNCHANGED <<projects, pages, batch>>
       \/ /\ scenario = "batch" /\ Batch!Next
          /\ cancelled' \subseteq {left} /\ present' # {}  \* one of each will do
          /\ UNCHANGED <<projects, pages, timeline>>

MCSpec ==
    /\ MCInit /\ [][MCNext]_<<projects, pages, timeline, batch, scenario>>
    /\ \A r \in Request : WF_batch(scenario = "batch" /\ Batch!Step(r))

-----------------------------------------------------------------------------

\* The properties of the modules that are instantiated here, under their names.
NothingMissed           == Listing!NothingMissed
FreshBytes              == Timeline!FreshBytes
WithinBudget            == Timeline!WithinBudget
ArchiveIsWholeAndListed == Batch!ArchiveIsWholeAndListed
WaitersGoOn             == Batch!WaitersGoOn
=============================================================================
