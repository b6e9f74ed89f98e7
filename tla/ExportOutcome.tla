---------------------------- MODULE ExportOutcome ----------------------------
(***************************************************************************)
(* What the row of an export says about its files, and the other way       *)
(* round, with no workers, names, manifests or boots in sight.  Scheduler  *)
(* and ExportArtifacts share the jobs table and the published files; each  *)
(* leaves out what the other one is about, and both are shown to implement *)
(* this specification.                                                     *)
(***************************************************************************)
CONSTANT Job        \* the exports

VARIABLES
  state,      \* the state column of each export
  whole,      \* exports all of whose outputs are published and accounted for
  excused     \* exports whose files nobody vouches for any more: expired, touched
              \* by others, left by an unlink that failed, or not read by a restart

vars == <<state, whole, excused>>

Init ==
    /\ state \in [Job -> {"absent", "queued"}]
    /\ whole = {} /\ excused = {}

Move(j, from, to) ==
    /\ state[j] \in from
    /\ state' = [state EXCEPT ![j] = to]
    /\ UNCHANGED whole

Admit(B) ==
    /\ \A j \in B : state[j] = "absent"
    /\ state' = [j \in Job |-> IF j \in B THEN "queued" ELSE state[j]]
    /\ UNCHANGED whole

Claim(j)  == Move(j, {"queued"}, "running")
Cancel(j) == Move(j, {"queued", "running"}, "cancelled")

\* A run publishes while its row is running, or before it hears of a cancellation.
Publish(j) ==
    /\ state[j] \in {"running", "cancelled"}
    /\ whole' = whole \cup {j}
    /\ UNCHANGED state

\* Files are rolled back or discarded, but not those of a success.
Withdraw(j) ==
    /\ state[j] = "succeeded" => j \in excused'
    /\ whole' = whole \ {j}
    /\ UNCHANGED state

\* Only an export with files succeeds, and only one without them fails.
Succeed(j) == j \in whole \cup excused' /\ Move(j, {"running"}, "succeeded")
Fail(j)    == j \notin whole \ excused' /\ Move(j, {"running"}, "failed")

\* A restart fails all that is still running: all with files have been adopted.
Recover ==
    /\ \A j \in whole : state[j] = "running" => j \in excused'
    /\ state' = [j \in Job |-> IF state[j] = "running" THEN "failed" ELSE state[j]]
    /\ UNCHANGED whole

\* An excuse may come up at any time and is for good.
Next ==
    /\ excused \subseteq excused'
    /\ \/ \E B \in SUBSET Job : Admit(B)
       \/ \E j \in Job : Claim(j) \/ Cancel(j) \/ Publish(j) \/ Withdraw(j)
                           \/ Succeed(j) \/ Fail(j)
       \/ Recover
       \/ UNCHANGED <<state, whole>>

Spec == Init /\ [][Next]_vars

-----------------------------------------------------------------------------
\* What a client may conclude from a terminal row about the files.
RowsTellOfFiles ==
    \A j \in Job \ excused :
        /\ state[j] = "succeeded" => j \in whole
        /\ state[j] = "failed" => j \notin whole
=============================================================================
