---------------------------- MODULE VersionedRow ----------------------------
(***************************************************************************)
(* What the store of projects promises to whoever works on one, with no    *)
(* transactions, checks or lost answers in sight: a row with a revision,   *)
(* which a client reads as a whole and replaces only if it still is the    *)
(* row it has read; the answer to a saving is the row that was saved.      *)
(*                                                                         *)
(* Projects.tla is shown to implement this specification.                  *)
(***************************************************************************)
EXTENDS Naturals

CONSTANT Client

VARIABLES
  row,        \* the revision and the document; revision 0 is a row not yet there
  known       \* for each client the row it works on, if any: {} or {row}

vars == <<row, known>>

Init == row.revision \in {0, 1} /\ known = [c \in Client |-> {}]

Read(c) ==
    /\ known' = [known EXCEPT ![c] = {row}]
    /\ UNCHANGED row

Forget(c) ==
    /\ known' = [known EXCEPT ![c] = {}]
    /\ UNCHANGED row

\* The row is replaced by whoever knows it, and by a document in the next revision; the
\* client goes on from what it saved, or its answer is lost.
Save(c) ==
    /\ known[c] = {row}
    /\ row' = [revision |-> row.revision + 1, document |-> row'.document]
    /\ \E answer \in {{}, {row'}} : known' = [known EXCEPT ![c] = answer]

Next == \E c \in Client : Read(c) \/ Forget(c) \/ Save(c)

Spec == Init /\ [][Next]_vars
=============================================================================
