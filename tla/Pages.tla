------------------------------- MODULE Pages --------------------------------
(***************************************************************************)
(* Listing media and projects for an agent (listMedia and listProjects of  *)
(* the tools, over the List of the two stores): a call scans the table by  *)
(* pages, keeps what the credential may see until it has enough, and hands *)
(* out a cursor from which the client goes on.  Rows come and go meanwhile.*)
(*                                                                         *)
(*  - A row is its id; ids are ordered, and 0 is the empty cursor.         *)
(*  - What the credential allows, and a query matches, is a set of ids.    *)
(***************************************************************************)
EXTENDS Integers, FiniteSets, FiniteSetsExt

CONSTANTS
  Id,         \* the ids a table may hold
  Allowed,    \* those the caller is to see
  PageLimit,  \* rows per query (100 in the code)
  ScanLimit,  \* rows per call
  Wanted      \* the limits a client may ask for

PagesAssumption ==
  /\ Id \subseteq Nat \ {0} /\ IsFiniteSet(Id) /\ Allowed \subseteq Id
  /\ PageLimit \in Nat \ {0} /\ ScanLimit \in Nat \ {0}
  /\ Wanted \subseteq 1..PageLimit

VARIABLES
  rows,       \* the ids in the table
  listing,    \* "ready" or "again" between calls, "scan" in one, or "finished"
  asked,      \* the cursor of the current or next call
  cursor,     \* how far it has got
  limit,      \* how many items it may return
  scanned,    \* the rows it has looked at
  items,      \* what it has found
  got,        \* what the client has
  steady      \* history: allowed rows that have been there all the time

call  == <<asked, cursor, limit, scanned, items>>
vars  == <<rows, listing, call, got, steady>>

Init ==
    /\ rows \in SUBSET Id /\ steady = rows \cap Allowed
    /\ listing = "ready" /\ asked = 0 /\ cursor = 0 /\ limit = 1 /\ scanned = 0
    /\ items = {} /\ got = {}

Smaller(a, b) == IF a < b THEN a ELSE b
FirstOf(S, n) == {r \in S : Cardinality({q \in S : q <= r}) <= n}

RowsAfter(after) == {r \in rows : r > after}

Begin ==
    /\ listing \in {"ready", "again"}
    /\ listing' = "scan"
    /\ limit' \in Wanted
    /\ cursor' = asked /\ scanned' = 0 /\ items' = {}
    /\ UNCHANGED <<rows, asked, got, steady>>

Answer(next) ==
    /\ listing' = IF next = 0 THEN "finished" ELSE "ready"
    /\ asked' = next
    /\ got' = got \cup items'
    /\ cursor' = 0 /\ limit' = 1 /\ scanned' = 0

\* Fault: the cursor of the page is used though the page was left early.
CursorOfPage(page, found, more) == IF more THEN Max(page) ELSE 0

\* Where the client goes on once it has enough: after the item that was the
\* last, or after the page if that was its end.
CursorAfter(page, found, more) ==
    IF Max(found) # Max(page) THEN Max(found) ELSE IF more THEN Max(page) ELSE 0

\* One query and what is kept of it.
Scan ==
    /\ listing = "scan"
    /\ LET n     == Smaller(PageLimit, ScanLimit - scanned)
           page  == FirstOf(RowsAfter(cursor), n)
           more  == RowsAfter(cursor) # page
           found == FirstOf(page \cap Allowed, limit - Cardinality(items))
       IN
          /\ items' = items \cup found
          /\ IF Cardinality(items') = limit THEN Answer(CursorAfter(page, found, more))
             ELSE IF ~more THEN Answer(0)
             ELSE IF scanned + Cardinality(page) >= ScanLimit THEN Answer(Max(page))
             ELSE /\ cursor' = Max(page) /\ scanned' = scanned + Cardinality(page)
                  /\ UNCHANGED <<listing, asked, limit, got>>
    /\ UNCHANGED <<rows, steady>>

\* A listed medium is gone when it is read, or another error: the client may
\* ask again from the same cursor.
Fail ==
    /\ listing = "scan"
    /\ listing' = "again"
    /\ cursor' = 0 /\ limit' = 1 /\ scanned' = 0 /\ items' = {}
    /\ UNCHANGED <<rows, asked, got, steady>>

Change(id) ==
    /\ listing # "finished"
    /\ rows' = IF id \in rows THEN rows \ {id} ELSE rows \cup {id}
    /\ steady' = steady \ {id}
    /\ UNCHANGED <<listing, call, got>>

Next == Begin \/ Scan \/ Fail \/ \E id \in Id : Change(id)

Spec == Init /\ [][Next]_vars

-----------------------------------------------------------------------------
(* Properties *)

\* A client that follows the cursors to the end has seen every row it may see
\* that was in the table from its first call to its last, whatever came and
\* went before and behind the cursor.
NothingMissed == listing = "finished" => steady \subseteq got
=============================================================================
