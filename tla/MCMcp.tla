-------------------------------- MODULE MCMcp --------------------------------
(* A small instance of Mcp for TLC. *)
EXTENDS Mcp

CONSTANTS c1, c2, m1, m2, p1, p2, q1, q2, s1, s2

\* One credential may write, with the media of one root; the other only reads, everything.
Grants == [c \in {c1, c2} |-> {"media:read", "projects:read"} \cup (IF c = c1 THEN {"projects:write"} ELSE {})]
Media_ == [c \in {c1, c2} |-> IF c = c1 THEN [kind |-> "roots", ids |-> {"r1"}] ELSE [kind |-> "all", ids |-> {}]]
Roots  == [m \in {m1, m2} |-> IF m = m1 THEN "r1" ELSE "r2"]

\* One run has two scenarios: sessions and slots, without tools, over some minutes; and tools
\* within one minute, with one credential, that may be revoked, and projects, that may change.
Within(s) ==
    CASE s = "sessions" -> /\ cred[q1] # c2 /\ cred[q2] # c1 /\ tool[q2] # "list"
                           /\ \A r \in Request : tool[r] \in {"none", "initialize", "list", "delete"}
                           /\ expired = {} /\ \A c \in Credential : row[c] # "revoked" /\ count[c] < 3
                           /\ content[p1] = {m1}
      [] s = "tools"    -> /\ \A r \in Request : tool[r] \notin {"list", "delete"} /\ cred[r] # c2
                           /\ tool[q1] \notin {"get_media", "list_projects", "create_project"} /\ tool[q2] \notin {"initialize", "get_project"}
                           /\ row[c2] = "none" /\ stale = {} /\ {session[q1], session[q2], s1} \subseteq {s1, None}
                           /\ \A t \in Session : unused[t] = 0 /\ (owner[t] # None => t = s1)
                           /\ m1 \in content[p1] /\ content[p2] \subseteq {m1}
                           /\ \A r \in Request : tool[r] = "create_project" => m1 \in about[r]

VARIABLE scenario
MCInit ==
    /\ scenario \in {"sessions", "tools"}
    /\ Init /\ content = [p \in Project |-> IF p = p1 THEN {m1} ELSE {}]
MCNext ==
    /\ Next /\ UNCHANGED scenario
    /\ Within(scenario)'
    /\ scenario = "tools" => count'[c1] >= count[c1]
MCSpec == MCInit /\ [][MCNext]_<<vars, scenario>>
=============================================================================
