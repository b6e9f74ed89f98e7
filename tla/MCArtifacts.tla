----------------------------- MODULE MCArtifacts -----------------------------
(* Small instances of ExportArtifacts for TLC. *)
EXTENDS ExportArtifacts

CONSTANTS split, merged, kept

TwoFiles == {1, 2}

\* One run has two scenarios: an export that publishes two files one by one, with two names
\* for each; and two exports of one file and one name, one of which stays for good.
Within(s) ==
    /\ s = "split" => row[merged] = "queued" /\ row[kept] = "queued"
    /\ s = "merge" => row[split] = "queued" /\ \A j \in Merge : try[j][1] <= 1

VARIABLE scenario
MCInit == Init /\ scenario \in {"split", "merge"}
MCNext == Next /\ UNCHANGED scenario /\ Within(scenario)'
MCFairSpec ==
    /\ MCInit /\ [][MCNext]_<<vars, scenario>>
    /\ \A j \in Job : WF_vars(ClearOut(j)) /\ WF_vars(Close(j))

\* One export alone, of files with one name each.
OneFile == {1}
AloneSpec == Init /\ scenario = "alone" /\ [][Next /\ UNCHANGED scenario]_<<vars, scenario>>
=============================================================================
