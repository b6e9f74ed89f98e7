---------------------------- MODULE JobLifecycle ----------------------------
(***************************************************************************)
(* What the durable job queue promises, with no workers, contexts or      *)
(* retries in sight: the state column of the jobs table and the only       *)
(* changes a client may ever observe in it, across restarts included.      *)
(*                                                                         *)
(* Scheduler.tla is shown to implement this specification.                 *)
(***************************************************************************)
CONSTANT Job

VARIABLE state      \* state[j]: the state column of row j, "absent" before admission

Active   == {"queued", "running"}
Terminal == {"succeeded", "failed", "cancelled"}
States   == {"absent"} \cup Active \cup Terminal

\* A compare-and-set of one row: the WHERE id=? AND state=? update.
Transition(j, from, to) ==
    /\ state[j] \in from
    /\ state' = [state EXCEPT ![j] = to]

Init == state = [j \in Job |-> "absent"]

\* A whole batch is admitted in one transaction or not at all.
Admit(B) ==
    /\ B # {}
    /\ \A j \in B : state[j] = "absent"
    /\ state' = [j \in Job |-> IF j \in B THEN "queued" ELSE state[j]]

Claim(j)   == Transition(j, {"queued"}, "running")
Succeed(j) == Transition(j, {"running"}, "succeeded")
Fail(j)    == Transition(j, {"running"}, "failed")
Cancel(j)  == Transition(j, Active, "cancelled")

\* Restart: whatever was still running is reported failed, all at once.
Recover ==
    state' = [j \in Job |-> IF state[j] = "running" THEN "failed" ELSE state[j]]

Next ==
    \/ \E B \in SUBSET Job : Admit(B)
    \/ \E j \in Job : Claim(j) \/ Succeed(j) \/ Fail(j) \/ Cancel(j)
    \/ Recover

Spec == Init /\ [][Next]_state

-----------------------------------------------------------------------------
TypeOK == state \in [Job -> States]

\* What a client polls for: once it has read a terminal state, no retry,
\* cancellation, shutdown or restart makes the row say anything else.
FinalStates ==
    [][\A j \in Job : state[j] \in Terminal => state'[j] = state[j]]_state
=============================================================================
