----------------------------- MODULE MCSettings ------------------------------
(* Small instances of Settings for TLC. *)
EXTENDS Settings

CONSTANTS f1, f2, r1, r2, v1, v2, c1, c2, o1, u1, u2

RootOfEach == [f \in {f1, f2} |-> IF f = f1 THEN r1 ELSE r2]
AllowFiles == [s \in 1..2 |-> s]

\* One run has three scenarios: two refreshes overtake each other; or one of them meets an
\* opening of a source and an update of the settings; or two updates meet.
Overtaking == {c1, c2}
Meeting    == {c1, o1, u1}
Updating   == {u1, u2}

\* What the first two leave to the other: stops and abandoned updates to the last, a second
\* version of a file to the second, a second file and cancellations to the first.
Within(s) ==
    CASE s = Overtaking -> disk[f1] # v2 /\ disk[f2] = v1 /\ configured = Root /\ limits = 2
                           /\ ~stopped /\ cancelled \subseteq {c1}
      [] s = Meeting    -> disk[f1] # None /\ disk[f2] = None /\ configured \subseteq {r1} /\ ~stopped /\ cancelled = {} /\ abandoned = {}
      [] s = Updating   -> disk = NoFile

VARIABLE scenario
MCInit == Init /\ scenario \in {Overtaking, Meeting, Updating} /\ Within(scenario)
MCNext ==
    /\ Next /\ UNCHANGED scenario
    /\ \A c \in Call \ scenario : pc'[c] = "idle"
    /\ requests' \subseteq scenario
    /\ Within(scenario)'
MCSpec == MCInit /\ [][MCNext]_<<vars, scenario>>
=============================================================================
