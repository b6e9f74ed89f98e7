------------------------------ MODULE McpProofs ------------------------------
(***************************************************************************)
(* Theorems about Mcp for any credentials, requests, sessions, projects    *)
(* and limits.                                                             *)
(***************************************************************************)
EXTENDS Mcp, FiniteSetTheorems, TLAPS

-----------------------------------------------------------------------------
(* Types *)

\* A request names what its tool is about.
Named == \A r \in Request : tool[r] \in Asks => about[r] \in Naming(tool[r])

\* An idle request is blank, and another one presents a credential that exists.
Blank == \A r \in Request :
    /\ pc[r] = "idle" => tool[r] = "none" /\ answer[r] = {} /\ cred[r] = None
    /\ pc[r] # "idle" => tool[r] \in Asks /\ cred[r] \in Credential /\ row[cred[r]] # "none"

TInv == TypeOK /\ Named /\ Blank

LEMMA NamingTypes ==
    /\ \A t \in Asks : Naming(t) \subseteq SUBSET (Media \cup Project)
    /\ Naming("get_media") = {{m} : m \in Media}
    /\ Naming("get_project") = {{p} : p \in Project}
    /\ Naming("create_project") = (SUBSET Media) \ {{}}
    /\ \A x : The({x}) = x
<1>1. /\ Naming("get_media") = {{m} : m \in Media}
      /\ Naming("get_project") = {{p} : p \in Project}
      /\ Naming("create_project") = (SUBSET Media) \ {{}}
      /\ Naming("list_projects") = {{}} /\ Naming("initialize") = {{}}
      /\ Naming("list") = {{}} /\ Naming("delete") = {{}}
  BY DEF Naming
<1>2. \A x : The({x}) = x
  BY DEF The
<1>3. ASSUME NEW t \in Asks PROVE Naming(t) \subseteq SUBSET (Media \cup Project)
  BY <1>1 DEF Asks, Tools
<1> QED
  BY <1>1, <1>2, <1>3

LEMMA TInvInit == Init => TInv
  BY McpAssumption DEF Init, Quiet, TInv, TypeOK, Named, Blank, Stages, Asks, Tools, Holding

\* The project of a request for one.
LEMMA ProjectOf ==
    ASSUME TInv, NEW r \in Request, tool[r] = "get_project"
    PROVE  /\ The(about[r]) \in Project /\ about[r] = {The(about[r])}
           /\ content[The(about[r])] \in SUBSET Media
<1>1. about[r] \in {{p} : p \in Project}
  BY NamingTypes DEF TInv, Named, Asks, Tools
<1>2. PICK p \in Project : about[r] = {p}
  BY <1>1
<1>3. The(about[r]) = p
  BY <1>2, NamingTypes
<1>4. content[p] \in SUBSET Media
  BY DEF TInv, TypeOK
<1> QED
  BY <1>2, <1>3, <1>4

\* A step of one request that changes nothing but its place, what it has read, found and
\* answers, and the counts, sessions and slots.
LEMMA StepTypes ==
    ASSUME TInv, NEW r \in Request, NEW at \in Stages \ {"idle"}, pc[r] # "idle",
           pc' = [pc EXCEPT ![r] = at],
           UNCHANGED <<stored, cred, tool, about>>,
           \/ session' = session /\ UNCHANGED <<owner, unused>>
           \/ /\ session' \in [Request -> Session \cup {None}]
              /\ owner' \in [Session -> Credential \cup {None}] /\ unused' \in [Session -> 0..SessionTTL],
           count' \in [Credential -> 0..RequestsPerMinute], stale' \subseteq Credential,
           slots' \in 0..MaxConcurrentRequests,
           read' \in [Request -> SUBSET Project], found' \in [Request -> SUBSET Media],
           answer' \in [Request -> SUBSET (Media \cup Project)],
           \A q \in Request : q # r => answer'[q] = answer[q]
    PROVE  TInv'
<1>1. TypeOK'
  <2>1. /\ session' \in [Request -> Session \cup {None}]
        /\ owner' \in [Session -> Credential \cup {None}] /\ unused' \in [Session -> 0..SessionTTL]
    BY DEF TInv, TypeOK
  <2>2. pc' \in [Request -> Stages]
    BY DEF TInv, TypeOK
  <2> QED
    BY <2>1, <2>2 DEF TInv, TypeOK, stored
<1>2. Named'
  BY DEF TInv, Named, stored
<1>3. Blank'
  BY DEF TInv, TypeOK, Blank, stored
<1> QED
  BY <1>1, <1>2, <1>3 DEF TInv

\* A step of one request that changes only its place.
LEMMA GotoTypes ==
    ASSUME TInv, NEW r \in Request, NEW at \in Stages \ {"idle"}, pc[r] # "idle", Goto(r, at),
           UNCHANGED <<stored, counted, asked, found, answer>>,
           read' = read \/ read' = [read EXCEPT ![r] = scope[cred[r]]]
    PROVE  TInv'
<1>1. cred[r] \in Credential
  BY DEF TInv, Blank
<1>2. read' \in [Request -> SUBSET Project]
  BY <1>1 DEF TInv, TypeOK
<1> QED
  BY <1>2, StepTypes DEF TInv, TypeOK, Goto, counted, asked

LEMMA SessionTypes ==
    ASSUME TInv, NEW c \in Credential, NEW live \in SUBSET Session, NEW x,
           Sessions(live, <<>>) \/ Sessions(live, [s \in {x} |-> c])
    PROVE  owner' \in [Session -> Credential \cup {None}] /\ unused' \in [Session -> 0..SessionTTL]
<1>1. CASE Sessions(live, <<>>)
  <2>1. DOMAIN <<>> = {}
    OBVIOUS
  <2> QED
    BY <1>1, <2>1, McpAssumption DEF Sessions, TInv, TypeOK
<1>2. CASE Sessions(live, [s \in {x} |-> c])
  <2> DEFINE new == [s \in {x} |-> c]
  <2>1. DOMAIN new = {x} /\ \A s \in {x} : new[s] = c
    OBVIOUS
  <2>2. Sessions(live, new)
    BY <1>2
  <2> HIDE DEF new
  <2> QED
    BY <2>1, <2>2, McpAssumption DEF Sessions, TInv, TypeOK
<1> QED
  BY <1>1, <1>2

\* Reading and marking a credential, whichever the stages.
LEMMA ReadTouchTypes ==
    ASSUME TInv, NEW r \in Request, NEW from, NEW to \in Stages \ {"idle"}, NEW denied \in Stages \ {"idle"},
           from # "idle", Read(r, from, to, denied) \/ Touch(r, from, to, denied)
    PROVE  TInv'
<1>1. pc[r] # "idle"
  BY DEF Read, Touch, At
<1>2. /\ Goto(r, to) \/ Goto(r, denied)
      /\ UNCHANGED <<stored, counted, asked, found, answer>>
      /\ read' = read \/ read' = [read EXCEPT ![r] = scope[cred[r]]]
  BY DEF Read, Touch
<1> QED
  BY <1>1, <1>2, GotoTypes

LEMMA Places ==
    /\ {"authenticate", "authenticated", "count", "limited", "delete", "slot", "busy", "end"} \subseteq Stages \ {"idle"}
    /\ {"initialize", "session", "find", "authorize", "authorized", "call", "audit", "release", "full"} \subseteq Stages \ {"idle"}
  BY DEF Stages, Holding

\* A tool has been called.
LEMMA AnswerTypes ==
    ASSUME TInv, NEW r \in Request, pc[r] # "idle", NEW ids \in SUBSET (Media \cup Project),
           Answer(r, ids), UNCHANGED stored
    PROVE  TInv'
<1>1. \/ pc' = [pc EXCEPT ![r] = "audit"] /\ answer' = [answer EXCEPT ![r] = ids]
      \/ pc' = [pc EXCEPT ![r] = "release"] /\ answer' = answer
  BY DEF Answer, Goto
<1>2. /\ answer' \in [Request -> SUBSET (Media \cup Project)]
      /\ \A q \in Request : q # r => answer'[q] = answer[q]
  BY <1>1 DEF TInv, TypeOK
<1>3. UNCHANGED <<counted, asked, read, found>>
  BY DEF Answer
<1>4. CASE pc' = [pc EXCEPT ![r] = "audit"]
  BY <1>2, <1>3, <1>4, Places, StepTypes DEF TInv, TypeOK, counted, asked
<1>5. CASE pc' = [pc EXCEPT ![r] = "release"]
  BY <1>2, <1>3, <1>5, Places, StepTypes DEF TInv, TypeOK, counted, asked
<1> QED
  BY <1>1, <1>4, <1>5

LEMMA CreateProjectTypes ==
    ASSUME TInv, NEW r \in Request, NEW p \in Project, CreateProject(r, p)
    PROVE  TInv'
<1> DEFINE c == cred[r]
<1>1. /\ c \in Credential /\ pc[r] = "call" /\ tool[r] = "create_project"
      /\ about[r] \in (SUBSET Media) \ {{}}
  BY NamingTypes DEF CreateProject, At, TInv, Named, Blank, Asks, Tools
<1>2. /\ content' \in [Project -> SUBSET Media] /\ maker' \in [Project -> Credential \cup {None}]
      /\ scope' \in [Credential -> SUBSET Project]
  BY <1>1 DEF CreateProject, TInv, TypeOK
<1>3. \/ pc' = [pc EXCEPT ![r] = "audit"] /\ answer' = [answer EXCEPT ![r] = about[r] \cup {p}]
      \/ pc' = [pc EXCEPT ![r] = "release"] /\ answer' = answer
  BY DEF CreateProject, Answer, Goto
<1>4. UNCHANGED <<row, expired, audit, counted, asked, read, found>>
  BY DEF CreateProject, Answer
<1>5. pc' \in [Request -> Stages] /\ answer' \in [Request -> SUBSET (Media \cup Project)]
  <2>1. pc \in [Request -> Stages] /\ answer \in [Request -> SUBSET (Media \cup Project)]
    BY DEF TInv, TypeOK
  <2>2. "audit" \in Stages /\ "release" \in Stages /\ about[r] \cup {p} \subseteq Media \cup Project
    BY <1>1, Places
  <2> QED
    BY <1>3, <2>1, <2>2
<1>6. TypeOK'
  BY <1>2, <1>4, <1>5 DEF TInv, TypeOK, counted, asked
<1>7. Named'
  BY <1>4 DEF TInv, Named, asked
<1>8. Blank'
  BY <1>1, <1>3, <1>4 DEF TInv, TypeOK, Blank, asked
<1> QED
  BY <1>6, <1>7, <1>8 DEF TInv

\* The requests that hold a slot.
Holders == {r \in Request : pc[r] \in Holding}

LEMMA EndTypes ==
    ASSUME TInv, slots = Cardinality(Holders), NEW r \in Request, End(r)
    PROVE  TInv'
<1>1. pc[r] # "idle"
  BY DEF End
<1>2. /\ pc' = [pc EXCEPT ![r] = "idle"] /\ cred' = [cred EXCEPT ![r] = None]
      /\ tool' = [tool EXCEPT ![r] = "none"] /\ about' = [about EXCEPT ![r] = {}]
      /\ session' = [session EXCEPT ![r] = None] /\ read' = [read EXCEPT ![r] = {}]
      /\ found' = [found EXCEPT ![r] = {}] /\ answer' = [answer EXCEPT ![r] = {}]
      /\ UNCHANGED <<stored, owner, unused, count, stale>>
  BY DEF End, Goto
<1>3. Named' /\ Blank'
  BY <1>2 DEF TInv, TypeOK, Named, Blank, stored, Asks, Tools
<1>4. slots' \in 0..MaxConcurrentRequests
  <2>1. IsFiniteSet(Holders) /\ Cardinality(Holders) \in Nat
    BY McpAssumption, FS_Subset, FS_CardinalityType DEF Holders
  <2>2. CASE pc[r] \in Holding
    <3>1. r \in Holders
      BY <2>2 DEF Holders
    <3>2. Cardinality(Holders) # 0
      BY <2>1, <3>1, FS_EmptySet
    <3>3. slots \in 1..MaxConcurrentRequests
      BY <2>1, <3>2, McpAssumption DEF TInv, TypeOK
    <3> QED
      BY <2>2, <3>3, McpAssumption DEF End
  <2>3. CASE pc[r] \notin Holding
    BY <2>3 DEF End, TInv, TypeOK
  <2> QED
    BY <2>2, <2>3
<1> QED
  BY <1>2, <1>3, <1>4 DEF TInv, TypeOK, stored, Stages, Asks, Tools

LEMMA RequestTypes ==
    ASSUME TInv, slots = Cardinality(Holders), NEW r \in Request, Step(r)
    PROVE  TInv'
<1>0. \A c \in Credential : HasPermission(c, PermissionOf(tool[r])) \in BOOLEAN
  BY DEF HasPermission
<1>1. CASE Authenticate(r)
  BY <1>1, Places, ReadTouchTypes DEF Authenticate
<1>2. CASE AllowRequest(r)
  <2> DEFINE counts == [c \in Credential |-> IF c \in stale THEN 0 ELSE count[c]]
             full   == counts[cred[r]] >= RequestsPerMinute
             next   == CASE full -> "limited" [] tool[r] = "delete" -> "delete" [] OTHER -> "slot"
  <2>1. /\ pc[r] = "count" /\ stale' = {}
        /\ count' = IF full THEN counts ELSE [counts EXCEPT ![cred[r]] = @ + 1]
        /\ UNCHANGED <<stored, owner, unused, slots, asked, read, found, answer>>
        /\ pc' = [pc EXCEPT ![r] = next]
    BY <1>2 DEF AllowRequest, At, Goto
  <2>2. cred[r] \in Credential
    BY <2>1 DEF TInv, Blank
  <2>3. counts \in [Credential -> 0..RequestsPerMinute]
    BY McpAssumption DEF TInv, TypeOK
  <2> HIDE DEF counts, full
  <2>5. next \in {"limited", "delete", "slot"}
    OBVIOUS
  <2> HIDE DEF next
  <2>4. count' \in [Credential -> 0..RequestsPerMinute]
    BY <2>1, <2>2, <2>3, McpAssumption DEF full
  <2> QED
    BY <2>1, <2>4, <2>5, Places, StepTypes DEF TInv, TypeOK, asked
<1>3. CASE DeleteSession(r)
  <2>1. /\ owner' \in [Session -> Credential \cup {None}] /\ unused' \in [Session -> 0..SessionTTL]
    BY <1>3, McpAssumption DEF DeleteSession, TInv, TypeOK
  <2> QED
    BY <1>3, <2>1, Places, StepTypes DEF DeleteSession, TInv, TypeOK, At, Goto, asked
<1>4. CASE TakeSlot(r)
  <2>1. slots' \in 0..MaxConcurrentRequests
    BY <1>4, McpAssumption DEF TakeSlot, TInv, TypeOK
  <2>2. /\ pc[r] = "slot" /\ \E at \in {"initialize", "session", "busy"} : pc' = [pc EXCEPT ![r] = at]
        /\ UNCHANGED <<stored, owner, unused, count, stale, asked, read, found, answer>>
    BY <1>4 DEF TakeSlot, At, Goto
  <2> QED
    BY <2>1, <2>2, Places, StepTypes DEF TInv, TypeOK, asked
<1>5. CASE NewSession(r)
  <2>1. cred[r] \in Credential /\ Live \subseteq Session /\ pc[r] = "initialize"
    BY <1>5 DEF NewSession, At, TInv, Blank, Live
  <2>2. UNCHANGED <<stored, count, stale, slots, cred, tool, about, read, found, answer>>
    BY <1>5 DEF NewSession
  <2>3. CASE Cardinality(Live) >= MaxSessions
    <3>1. Goto(r, "full") /\ Sessions(Live, <<>>) /\ UNCHANGED session
      BY <1>5, <2>3 DEF NewSession
    <3>2. owner' \in [Session -> Credential \cup {None}] /\ unused' \in [Session -> 0..SessionTTL]
      BY <2>1, <3>1, SessionTypes
    <3> QED
      BY <2>1, <2>2, <3>1, <3>2, Places, StepTypes DEF TInv, TypeOK, Goto
  <2>4. CASE ~(Cardinality(Live) >= MaxSessions)
    <3>1. PICK s \in Session \ Live :
             Sessions(Live, [new \in {s} |-> cred[r]]) /\ session' = [session EXCEPT ![r] = s] /\ Goto(r, "release")
      BY <1>5, <2>4 DEF NewSession
    <3>2. owner' \in [Session -> Credential \cup {None}] /\ unused' \in [Session -> 0..SessionTTL]
      BY <2>1, <3>1, SessionTypes
    <3>3. session' \in [Request -> Session \cup {None}]
      BY <3>1 DEF TInv, TypeOK
    <3> QED
      BY <2>1, <2>2, <3>1, <3>2, <3>3, Places, StepTypes DEF TInv, TypeOK, Goto
  <2> QED
    BY <2>3, <2>4
<1>6. CASE ValidSession(r)
  <2>1. cred[r] \in Credential /\ Live \subseteq Session /\ pc[r] = "session"
    BY <1>6 DEF ValidSession, At, TInv, Blank, Live
  <2>2. UNCHANGED <<stored, count, stale, slots, asked, read, found, answer>>
    BY <1>6 DEF ValidSession
  <2>3. \/ Sessions(Live, [s \in {session[r]} |-> cred[r]])
        \/ Sessions(Live, <<>>)
    BY <1>6 DEF ValidSession
  <2>4. owner' \in [Session -> Credential \cup {None}] /\ unused' \in [Session -> 0..SessionTTL]
    BY <2>1, <2>3, SessionTypes
  <2>5. Goto(r, "find") \/ Goto(r, "release")
    BY <1>6 DEF ValidSession
  <2> QED
    BY <2>1, <2>2, <2>4, <2>5, Places, StepTypes DEF TInv, TypeOK, Goto, asked
<1>7. CASE Malformed(r)
  BY <1>7, Places, GotoTypes DEF Malformed, At
<1>8. CASE FindResource(r)
  <2>1. /\ pc[r] = "find" /\ UNCHANGED <<stored, counted, asked, read, answer>>
        /\ Goto(r, "authorize") \/ Goto(r, "audit")
    BY <1>8 DEF FindResource, At
  <2>2. found' \in [Request -> SUBSET Media]
    BY <1>8, ProjectOf DEF FindResource, TInv, TypeOK
  <2> QED
    BY <2>1, <2>2, Places, StepTypes DEF TInv, TypeOK, Goto, asked, counted
<1>9. CASE AuthorizeCredential(r)
  <2>1. CASE Allowed(r, found[r])
    BY <1>9, <2>1, Places, ReadTouchTypes DEF AuthorizeCredential
  <2>2. CASE ~Allowed(r, found[r])
    BY <1>9, <2>2, Places, ReadTouchTypes DEF AuthorizeCredential
  <2> QED
    BY <2>1, <2>2
<1>10. CASE FailCall(r)
  BY <1>10, Places, GotoTypes DEF FailCall, At
<1>11. CASE GetMedia(r)
  BY <1>11, AnswerTypes DEF GetMedia, At, TInv, TypeOK
<1>12. CASE ListProjects(r)
  BY <1>12, AnswerTypes DEF ListProjects, At
<1>13. CASE GetProject(r)
  BY <1>13, ProjectOf, AnswerTypes DEF GetProject, At
<1>14. CASE \E p \in Project : CreateProject(r, p)
  BY <1>14, CreateProjectTypes
<1>15. CASE RecordAudit(r)
  <2>1. /\ pc[r] = "audit" /\ pc' = [pc EXCEPT ![r] = "release"]
        /\ UNCHANGED <<row, expired, scope, content, maker, counted, asked, read, found, answer>>
    BY <1>15 DEF RecordAudit, At, Goto
  <2>2. audit' \in [Credential -> 0..MaxAudit]
    BY <1>15, McpAssumption DEF RecordAudit, TInv, TypeOK
  <2>3. Named' /\ Blank'
    BY <2>1 DEF TInv, TypeOK, Named, Blank, asked
  <2>4. pc' \in [Request -> Stages]
    BY <2>1, Places DEF TInv, TypeOK
  <2> QED
    BY <2>1, <2>2, <2>3, <2>4 DEF TInv, TypeOK, asked, counted
<1>16. CASE End(r)
  BY <1>16, EndTypes
<1> QED
  BY <1>1, <1>2, <1>3, <1>4, <1>5, <1>6, <1>7, <1>8, <1>9, <1>10, <1>11, <1>12, <1>13, <1>14, <1>15, <1>16 DEF Step

LEMMA TInvStep == TInv /\ slots = Cardinality(Holders) /\ [Next]_vars => TInv'
<1> SUFFICES ASSUME TInv, slots = Cardinality(Holders), [Next]_vars PROVE TInv'
  OBVIOUS
<1>1. ASSUME NEW c \in Credential, Revoke(c) \/ Expire(c) PROVE TInv'
  BY <1>1 DEF Revoke, Expire, TInv, TypeOK, Named, Blank, counted, request, asked
<1>2. ASSUME NEW c \in Credential, NEW ids \in SUBSET Existing, Create(c, ids) PROVE TInv'
  <2>1. ids \subseteq Project
    BY DEF Existing
  <2> QED
    BY <1>2, <2>1 DEF Create, TInv, TypeOK, Named, Blank, counted, request, asked
<1>3. ASSUME NEW r \in Request, NEW c \in Credential, NEW t \in Asks, NEW s \in Session \cup {None},
             NEW ids \in Naming(t), Begin(r, c, t, ids, s)
      PROVE  TInv'
  <2>1. /\ pc' = [pc EXCEPT ![r] = "authenticate"] /\ cred' = [cred EXCEPT ![r] = c]
        /\ tool' = [tool EXCEPT ![r] = t] /\ about' = [about EXCEPT ![r] = ids]
        /\ session' = [session EXCEPT ![r] = s] /\ row[c] # "none"
        /\ UNCHANGED <<stored, counted, read, found, answer>>
    BY <1>3 DEF Begin, Goto
  <2>2. ids \in SUBSET (Media \cup Project)
    BY NamingTypes
  <2>3. TypeOK'
    BY <2>1, <2>2, Places DEF TInv, TypeOK, stored, counted
  <2>4. Named'
    BY <2>1 DEF TInv, TypeOK, Named
  <2>5. Blank'
    BY <2>1 DEF TInv, TypeOK, Blank, stored
  <2> QED
    BY <2>3, <2>4, <2>5 DEF TInv
<1>4. ASSUME NEW r \in Request, Step(r) PROVE TInv'
  BY <1>4, RequestTypes
<1>5. ASSUME NEW p \in Project, NEW media \in SUBSET Media, EditProject(p, media) PROVE TInv'
  BY <1>5 DEF EditProject, TInv, TypeOK, Named, Blank, counted, request, asked
<1>6. CASE Tick
  BY <1>6, McpAssumption DEF Tick, TInv, TypeOK, Named, Blank, stored, request, asked
<1>7. CASE Restart
  BY <1>7, McpAssumption DEF Restart, TInv, TypeOK, Named, Blank, stored, Stages, Asks, Tools
<1>8. CASE UNCHANGED vars
  BY <1>8 DEF vars, TInv, TypeOK, Named, Blank, stored, counted, request, asked
<1> QED
  BY <1>1, <1>2, <1>3, <1>4, <1>5, <1>6, <1>7, <1>8 DEF Next

-----------------------------------------------------------------------------
(* Limits *)

SlotsHeld == slots = Cardinality(Holders)

\* A request goes to a place where it holds a slot just as before.
LEMMA SameHolders ==
    ASSUME TInv, NEW r \in Request, NEW at, Goto(r, at), pc[r] \in Holding <=> at \in Holding
    PROVE  Holders' = Holders
<1>1. \A q \in Request : pc'[q] \in Holding <=> pc[q] \in Holding
  BY DEF Goto, TInv, TypeOK
<1> QED
  BY <1>1 DEF Holders

LEMMA HoldersFinite == IsFiniteSet(Holders) /\ Cardinality(Holders) \in Nat
  BY McpAssumption, FS_Subset, FS_CardinalityType DEF Holders

\* Reading and marking a credential is done either with a slot or without.
LEMMA ReadTouchHolders ==
    ASSUME TInv, NEW r \in Request, NEW from, NEW to, NEW denied,
           Read(r, from, to, denied) \/ Touch(r, from, to, denied),
           from \in Holding <=> to \in Holding, from \in Holding <=> denied \in Holding
    PROVE  Holders' = Holders /\ slots' = slots
<1>1. pc[r] = from /\ (Goto(r, to) \/ Goto(r, denied)) /\ slots' = slots
  BY DEF Read, Touch, At, counted
<1> QED
  BY <1>1, SameHolders

LEMMA AnswerHolders ==
    ASSUME TInv, NEW r \in Request, NEW ids, Answer(r, ids), pc[r] = "call"
    PROVE  Holders' = Holders /\ slots' = slots
<1>1. (Goto(r, "audit") \/ Goto(r, "release")) /\ slots' = slots
  BY DEF Answer, counted
<1> QED
  BY <1>1, SameHolders DEF Holding

LEMMA RequestHolders ==
    ASSUME TInv, SlotsHeld, NEW r \in Request, Step(r)
    PROVE  SlotsHeld'
<1>1. CASE Authenticate(r)
  BY <1>1, ReadTouchHolders DEF Authenticate, Holding, SlotsHeld
<1>2. CASE AllowRequest(r)
  <2>1. pc[r] = "count" /\ slots' = slots
    BY <1>2 DEF AllowRequest, At
  <2>2. \A q \in Request : pc'[q] \in Holding <=> pc[q] \in Holding
    BY <1>2, <2>1 DEF AllowRequest, Goto, TInv, TypeOK, Holding
  <2> QED
    BY <2>1, <2>2 DEF SlotsHeld, Holders
<1>3. CASE DeleteSession(r)
  BY <1>3, SameHolders DEF DeleteSession, At, Holding, SlotsHeld
<1>4. CASE TakeSlot(r)
  <2>1. pc[r] = "slot"
    BY <1>4 DEF TakeSlot, At
  <2>2. CASE slots' = slots + 1 /\ (Goto(r, "initialize") \/ Goto(r, "session"))
    <3>1. pc' \in [Request -> Stages] /\ pc'[r] \in Holding /\ \A q \in Request : q # r => pc'[q] = pc[q]
      BY <2>2, Places DEF Goto, TInv, TypeOK, Holding
    <3>2. Holders' = Holders \cup {r} /\ r \notin Holders
      BY <2>1, <3>1 DEF Holders, Holding
    <3>3. Cardinality(Holders \cup {r}) = Cardinality(Holders) + 1
      BY <3>2, HoldersFinite, FS_AddElement
    <3> QED
      BY <2>2, <3>2, <3>3 DEF SlotsHeld
  <2>3. CASE slots' = slots /\ Goto(r, "busy")
    BY <2>1, <2>3, SameHolders DEF Holding, SlotsHeld
  <2> QED
    BY <1>4, <2>2, <2>3 DEF TakeSlot
<1>5. CASE NewSession(r)
  <2>1. pc[r] = "initialize" /\ slots' = slots /\ (Goto(r, "full") \/ Goto(r, "release"))
    BY <1>5 DEF NewSession, At
  <2> QED
    BY <2>1, SameHolders DEF Holding, SlotsHeld
<1>6. CASE ValidSession(r)
  <2>1. pc[r] = "session" /\ slots' = slots /\ (Goto(r, "find") \/ Goto(r, "release"))
    BY <1>6 DEF ValidSession, At
  <2> QED
    BY <2>1, SameHolders DEF Holding, SlotsHeld
<1>7. CASE Malformed(r)
  <2>1. slots' = slots
    BY <1>7 DEF Malformed, counted
  <2>2. CASE pc[r] = "slot"
    BY <1>7, <2>1, <2>2, SameHolders DEF Malformed, At, Holding, SlotsHeld
  <2>3. CASE pc[r] \in {"initialize", "session", "find"}
    <3>1. Goto(r, "release")
      BY <1>7, <2>3 DEF Malformed, At
    <3> QED
      BY <2>1, <2>3, <3>1, SameHolders DEF Holding, SlotsHeld
  <2> QED
    BY <1>7, <2>2, <2>3 DEF Malformed
<1>8. CASE FindResource(r)
  <2>1. pc[r] = "find" /\ slots' = slots /\ (Goto(r, "authorize") \/ Goto(r, "audit"))
    BY <1>8 DEF FindResource, At, counted
  <2> QED
    BY <2>1, SameHolders DEF Holding, SlotsHeld
<1>9. CASE AuthorizeCredential(r)
  <2>1. CASE Allowed(r, found[r])
    BY <1>9, <2>1, ReadTouchHolders DEF AuthorizeCredential, Holding, SlotsHeld
  <2>2. CASE ~Allowed(r, found[r])
    BY <1>9, <2>2, ReadTouchHolders DEF AuthorizeCredential, Holding, SlotsHeld
  <2> QED
    BY <2>1, <2>2
<1>10. CASE FailCall(r)
  BY <1>10, SameHolders DEF FailCall, At, Holding, SlotsHeld, counted
<1>11. CASE GetMedia(r)
  BY <1>11, AnswerHolders DEF GetMedia, At, SlotsHeld
<1>12. CASE ListProjects(r)
  BY <1>12, AnswerHolders DEF ListProjects, At, SlotsHeld
<1>13. CASE GetProject(r)
  BY <1>13, AnswerHolders DEF GetProject, At, SlotsHeld
<1>14. CASE \E p \in Project : CreateProject(r, p)
  BY <1>14, AnswerHolders DEF CreateProject, At, SlotsHeld
<1>15. CASE RecordAudit(r)
  BY <1>15, SameHolders DEF RecordAudit, At, Holding, SlotsHeld, counted
<1>16. CASE End(r)
  <2>1. Goto(r, "idle") /\ slots' = IF pc[r] \in Holding THEN slots - 1 ELSE slots
    BY <1>16 DEF End
  <2>2. CASE pc[r] \in Holding
    <3>1. pc'[r] = "idle" /\ \A q \in Request : q # r => pc'[q] = pc[q]
      BY <2>1 DEF Goto, TInv, TypeOK
    <3>2. Holders' = Holders \ {r} /\ r \in Holders
      BY <2>2, <3>1 DEF Holders, Holding
    <3>3. Cardinality(Holders \ {r}) = Cardinality(Holders) - 1
      BY <3>2, HoldersFinite, FS_RemoveElement
    <3> QED
      BY <2>1, <2>2, <3>2, <3>3 DEF SlotsHeld
  <2>3. CASE pc[r] \notin Holding
    BY <2>1, <2>3, SameHolders DEF Holding, SlotsHeld
  <2> QED
    BY <2>2, <2>3
<1> QED
  BY <1>1, <1>2, <1>3, <1>4, <1>5, <1>6, <1>7, <1>8, <1>9, <1>10, <1>11, <1>12, <1>13, <1>14, <1>15, <1>16 DEF Step

LEMMA SlotsStep == TInv /\ SlotsHeld /\ [Next]_vars => SlotsHeld'
<1> SUFFICES ASSUME TInv, SlotsHeld, [Next]_vars PROVE SlotsHeld'
  OBVIOUS
<1>1. ASSUME NEW r \in Request, Step(r) PROVE SlotsHeld'
  BY <1>1, RequestHolders
<1>2. ASSUME NEW r \in Request, NEW c, NEW t, NEW s, NEW ids, Begin(r, c, t, ids, s) PROVE SlotsHeld'
  BY <1>2, SameHolders DEF Begin, At, Holding, SlotsHeld, counted
<1>3. CASE Restart
  <2>1. Holders' = {} /\ slots' = 0
    BY <1>3 DEF Restart, Holders, Holding
  <2> QED
    BY <2>1, FS_EmptySet DEF SlotsHeld
<1>4. CASE UNCHANGED <<slots, pc>>
  BY <1>4 DEF SlotsHeld, Holders
<1>5. ASSUME \/ \E c \in Credential : Revoke(c) \/ Expire(c) \/ \E ids \in SUBSET Existing : Create(c, ids)
             \/ \E p \in Project, media \in SUBSET Media : EditProject(p, media)
             \/ Tick \/ UNCHANGED vars
      PROVE  UNCHANGED <<slots, pc>>
  BY <1>5 DEF Revoke, Expire, Create, EditProject, Tick, vars, counted, request
<1> QED
  BY <1>1, <1>2, <1>3, <1>4, <1>5 DEF Next

Owned == {s \in Session : owner[s] # None}

SessionsBounded == Cardinality(Owned) <= MaxSessions

\* Sessions expire, and at most one is made, when there are fewer than the limit.
LEMMA SessionsLimited ==
    ASSUME TInv, SessionsBounded, Owned' \subseteq Owned \/
           \E s \in Session : Owned' \subseteq Live \cup {s} /\ Cardinality(Live) < MaxSessions
    PROVE  SessionsBounded'
<1>1. /\ IsFiniteSet(Owned) /\ Cardinality(Owned) \in Nat
      /\ IsFiniteSet(Live) /\ Cardinality(Live) \in Nat
      /\ IsFiniteSet(Owned') /\ Cardinality(Owned') \in Nat
  <2>1. Owned \subseteq Session /\ Live \subseteq Session /\ Owned' \subseteq Session
    BY DEF Owned, Live
  <2> QED
    BY <2>1, McpAssumption, FS_Subset, FS_CardinalityType
<1>2. CASE Owned' \subseteq Owned
  <2>1. Cardinality(Owned') <= Cardinality(Owned)
    BY <1>1, <1>2, FS_Subset
  <2> QED
    BY <1>1, <2>1, McpAssumption DEF SessionsBounded
<1>3. ASSUME NEW s \in Session, Owned' \subseteq Live \cup {s}, Cardinality(Live) < MaxSessions
      PROVE  SessionsBounded'
  <2>1. IsFiniteSet(Live \cup {s}) /\ Cardinality(Live \cup {s}) <= Cardinality(Live) + 1
    <3>1. CASE s \in Live
      <4>1. Live \cup {s} = Live
        BY <3>1
      <4>2. IsFiniteSet(Live \cup {s}) /\ Cardinality(Live \cup {s}) = Cardinality(Live)
        BY <1>1, <4>1, Zenon
      <4> QED
        BY <1>1, <4>2
    <3>2. CASE s \notin Live
      <4>1. IsFiniteSet(Live \cup {s}) /\ Cardinality(Live \cup {s}) = Cardinality(Live) + 1
        BY <1>1, <3>2, FS_AddElement
      <4> QED
        BY <1>1, <4>1
    <3> QED
      BY <3>1, <3>2
  <2>2. Cardinality(Live \cup {s}) \in Nat /\ Cardinality(Owned') <= Cardinality(Live \cup {s})
    BY <1>3, <2>1, FS_Subset, FS_CardinalityType
  <2> QED
    BY <1>1, <1>3, <2>1, <2>2, McpAssumption DEF SessionsBounded
<1> QED
  BY <1>2, <1>3

\* Only these steps give sessions another owner.
LEMMA OwnersStay ==
    ASSUME [Next]_vars, ~Restart,
           \A r \in Request : ~NewSession(r) /\ ~ValidSession(r) /\ ~DeleteSession(r)
    PROVE  owner' = owner
<1>1. ASSUME NEW r \in Request, Step(r) PROVE owner' = owner
  <2>1. ASSUME NEW from, NEW to, NEW denied, Read(r, from, to, denied) \/ Touch(r, from, to, denied) PROVE owner' = owner
    BY <2>1 DEF Read, Touch, counted
  <2>2. CASE Authenticate(r) \/ AuthorizeCredential(r)
    BY <2>1, <2>2 DEF Authenticate, AuthorizeCredential
  <2>3. CASE GetMedia(r) \/ ListProjects(r) \/ GetProject(r) \/ \E p \in Project : CreateProject(r, p)
    BY <2>3 DEF GetMedia, ListProjects, GetProject, CreateProject, Answer, counted
  <2>4. CASE AllowRequest(r) \/ TakeSlot(r) \/ Malformed(r) \/ FindResource(r) \/ FailCall(r) \/ RecordAudit(r) \/ End(r)
    BY <2>4 DEF AllowRequest, TakeSlot, Malformed, FindResource, FailCall, RecordAudit, End, counted
  <2> QED
    BY <1>1, <2>2, <2>3, <2>4 DEF Step
<1>2. ASSUME \/ \E c \in Credential : Revoke(c) \/ Expire(c) \/ \E ids \in SUBSET Existing : Create(c, ids)
             \/ \E r \in Request, c \in Credential, t \in Asks, s \in Session \cup {None} :
                  \E ids \in Naming(t) : Begin(r, c, t, ids, s)
             \/ \E p \in Project, media \in SUBSET Media : EditProject(p, media)
             \/ Tick \/ UNCHANGED vars
      PROVE  owner' = owner
  BY <1>2 DEF Revoke, Expire, Create, Begin, EditProject, Tick, vars, counted
<1> QED
  BY <1>1, <1>2 DEF Next

LEMMA SessionsStep == TInv /\ SessionsBounded /\ [Next]_vars => SessionsBounded'
<1> SUFFICES ASSUME TInv, SessionsBounded, [Next]_vars PROVE SessionsBounded'
  OBVIOUS
<1>1. ASSUME NEW r \in Request, NewSession(r) PROVE SessionsBounded'
  <2>1. cred[r] \in Credential /\ Live \subseteq Owned
    BY <1>1 DEF NewSession, At, TInv, Blank, Live, Owned
  <2>2. CASE Cardinality(Live) >= MaxSessions
    <3>1. Sessions(Live, <<>>)
      BY <1>1, <2>2 DEF NewSession
    <3>2. DOMAIN <<>> = {}
      OBVIOUS
    <3>3. Owned' \subseteq Owned
      BY <2>1, <3>1, <3>2 DEF Sessions, Owned
    <3> QED
      BY <3>3, SessionsLimited
  <2>3. CASE ~(Cardinality(Live) >= MaxSessions)
    <3>1. PICK s \in Session \ Live : Sessions(Live, [new \in {s} |-> cred[r]])
      BY <1>1, <2>3 DEF NewSession
    <3>2. Owned' \subseteq Live \cup {s}
      BY <3>1 DEF Sessions, Owned
    <3>3. Cardinality(Live) < MaxSessions
      <4>1. Cardinality(Live) \in Nat
        BY McpAssumption, FS_Subset, FS_CardinalityType DEF Live
      <4> QED
        BY <2>3, <4>1, McpAssumption
    <3> QED
      BY <3>2, <3>3, SessionsLimited
  <2> QED
    BY <2>2, <2>3
<1>2. ASSUME NEW r \in Request, ValidSession(r) PROVE SessionsBounded'
  <2>1. CASE session[r] \in Live /\ Sessions(Live, [s \in {session[r]} |-> cred[r]])
    BY <2>1, SessionsLimited DEF Sessions, Owned, Live
  <2>2. CASE Sessions(Live, <<>>)
    <3>1. DOMAIN <<>> = {}
      OBVIOUS
    <3> QED
      BY <2>2, <3>1, SessionsLimited DEF Sessions, Owned, Live
  <2> QED
    BY <1>2, <2>1, <2>2 DEF ValidSession
<1>3. ASSUME NEW r \in Request, DeleteSession(r) PROVE SessionsBounded'
  BY <1>3, SessionsLimited DEF DeleteSession, Owned
<1>4. CASE Restart
  BY <1>4, SessionsLimited DEF Restart, Owned
<1>5. CASE owner' = owner
  BY <1>5, SessionsLimited DEF Owned
<1> QED
  BY <1>1, <1>2, <1>3, <1>4, <1>5, OwnersStay

LInv == TInv /\ SlotsHeld /\ SessionsBounded

LEMMA LInvInit == Init => LInv
<1> SUFFICES ASSUME Init PROVE LInv
  OBVIOUS
<1>1. Holders = {} /\ Owned = {} /\ slots = 0
  BY DEF Init, Quiet, Holders, Holding, Owned
<1>2. Cardinality({}) = 0
  BY FS_EmptySet
<1> QED
  BY <1>1, <1>2, TInvInit, McpAssumption DEF LInv, SlotsHeld, SessionsBounded

LEMMA LInvStep == LInv /\ [Next]_vars => LInv'
  BY TInvStep, SlotsStep, SessionsStep DEF LInv, SlotsHeld

LEMMA Invariant == Spec => []LInv
  BY LInvInit, LInvStep, PTL DEF Spec

\* The variables of Mcp keep their types (TypeOK).
THEOREM TypeCorrect == Spec => []TypeOK
<1>1. LInv => TypeOK
  BY DEF LInv, TInv
<1> QED
  BY <1>1, Invariant, PTL

\* Slots, sessions and audit entries are never lost nor beyond their limits (WithinLimits).
THEOREM LimitsHold == Spec => []WithinLimits
<1>1. LInv => WithinLimits
  BY McpAssumption DEF LInv, TInv, TypeOK, SlotsHeld, SessionsBounded, Owned, Holders, WithinLimits
<1> QED
  BY <1>1, Invariant, PTL

-----------------------------------------------------------------------------
(* Sessions *)

\* A session in use is lost to nobody but its owner (SessionsAreKept).
THEOREM SessionsStay == Spec => SessionsAreKept
<1> DEFINE Deleted(s) == \E r \in Request : At(r, "delete") /\ session[r] = s /\ cred[r] = owner[s]
<1>1. ASSUME LInv, [Next]_vars, ~Restart, NEW s \in Live, owner'[s] # owner[s] PROVE Deleted(s)
  <2>0. s \in Session /\ DOMAIN <<>> = {}
    BY DEF Live
  <2>1. CASE \E r \in Request : DeleteSession(r)
    BY <1>1, <2>0, <2>1 DEF DeleteSession
  <2>2. ASSUME NEW r \in Request, NewSession(r) PROVE FALSE
    <3>1. CASE Sessions(Live, <<>>)
      BY <1>1, <2>0, <3>1 DEF Sessions
    <3>2. CASE \E new \in Session \ Live : Sessions(Live, [n \in {new} |-> cred[r]])
      BY <1>1, <2>0, <3>2 DEF Sessions
    <3> QED
      BY <2>2, <3>1, <3>2 DEF NewSession
  <2>3. ASSUME NEW r \in Request, ValidSession(r) PROVE FALSE
    <3>1. CASE Sessions(Live, <<>>)
      BY <1>1, <2>0, <3>1 DEF Sessions
    <3>2. CASE owner[session[r]] = cred[r] /\ Sessions(Live, [n \in {session[r]} |-> cred[r]])
      BY <1>1, <2>0, <3>2 DEF Sessions
    <3> QED
      BY <2>3, <3>1, <3>2 DEF ValidSession
  <2> QED
    BY <1>1, <2>1, <2>2, <2>3, OwnersStay
<1>2. LInv /\ [Next]_vars =>
        [ \/ Restart
          \/ \A s \in Live : owner'[s] # owner[s] =>
               \E r \in Request : At(r, "delete") /\ session[r] = s /\ cred[r] = owner[s] ]_vars
  BY <1>1
<1> QED
  BY <1>2, Invariant, PTL DEF Spec, SessionsAreKept

-----------------------------------------------------------------------------
(* Entitlement *)

\* What is known of a request: it has read a scope that is no larger than what it is now,
\* a tool is called only for what it is allowed, and an answer is within the scopes.
ReadInScope(r) ==
    /\ pc[r] = "idle" => read[r] = {}
    /\ pc[r] # "idle" => read[r] \subseteq scope[cred[r]]

CallAllowed(r) == pc[r] = "call" => Allowed(r, found[r])

AnswerAllowed(r) ==
    /\ \A m \in answer[r] \cap Media : AllowsMedia(cred[r], m)
    /\ pc[r] # "idle" => cred[r] \in Limitless \/ answer[r] \cap Project \subseteq scope[cred[r]]

Entitled(r) == ReadInScope(r) /\ CallAllowed(r) /\ AnswerAllowed(r)

EInv == TInv /\ \A r \in Request : Entitled(r)

\* What Allows means for each tool.
LEMMA AllowedMeans ==
    ASSUME TInv, NEW r \in Request, NEW media, Allowed(r, media)
    PROVE  /\ tool[r] = "get_media" => \A m \in about[r] : AllowsMedia(cred[r], m)
           /\ tool[r] = "get_project" =>
                /\ cred[r] \in Limitless \/ The(about[r]) \in read[r]
                /\ \A m \in media : AllowsMedia(cred[r], m)
           /\ tool[r] = "create_project" => \A m \in about[r] : AllowsMedia(cred[r], m)
<1>1. CASE tool[r] = "get_media"
  <2>1. PICK m \in Media : about[r] = {m}
    BY <1>1, NamingTypes DEF TInv, Named, Asks, Tools
  <2>2. The(about[r]) = m
    BY <2>1, NamingTypes
  <2>3. Allows(cred[r], read[r], "media:read", Resource(r, media)) /\ Resource(r, media).item = m
    BY <1>1, <2>2 DEF Allowed, PermissionOf, Resource
  <2>4. m = None \/ AllowsMedia(cred[r], m)
    BY <2>3 DEF Allows
  <2> QED
    BY <1>1, <2>1, <2>4, McpAssumption
<1>2. CASE tool[r] = "get_project"
  <2>1. The(about[r]) \in Project /\ The(about[r]) # None
    BY <1>2, ProjectOf, McpAssumption
  <2>2. /\ Allows(cred[r], read[r], "projects:read", Resource(r, media))
        /\ Resource(r, media).project = The(about[r]) /\ Resource(r, media).media = media
    BY <1>2 DEF Allowed, PermissionOf, Resource
  <2>3. AllowsProject(cred[r], read[r], The(about[r]), media)
    BY <2>1, <2>2 DEF Allows
  <2> QED
    BY <1>2, <2>3 DEF AllowsProject, AllowsProjectSummary, AllowsAll
<1>3. CASE tool[r] = "create_project"
  <2>1. /\ Allows(cred[r], read[r], "projects:write", Resource(r, media))
        /\ Resource(r, media).media = about[r]
    BY <1>3 DEF Allowed, PermissionOf, Resource
  <2>2. AllowsCreateProject(cred[r], about[r])
    BY <2>1 DEF Allows
  <2> QED
    BY <1>3, <2>2 DEF AllowsCreateProject, AllowsAll
<1> QED
  BY <1>1, <1>2, <1>3

\* Another request's steps leave a request as it is, and scopes only grow.
LEMMA OthersEntitled ==
    ASSUME TInv, NEW r \in Request, Entitled(r),
           pc'[r] = pc[r], cred'[r] = cred[r], tool'[r] = tool[r], about'[r] = about[r],
           read'[r] = read[r], found'[r] = found[r], answer'[r] = answer[r],
           \A c \in Credential : row[c] # "none" => scope[c] \subseteq scope'[c]
    PROVE  Entitled(r)'
<1>1. pc[r] # "idle" => scope[cred[r]] \subseteq scope'[cred[r]]
  BY DEF TInv, Blank
<1>2. ReadInScope(r)' /\ AnswerAllowed(r)'
  BY <1>1 DEF Entitled, ReadInScope, AnswerAllowed, AllowsMedia
<1>3. CallAllowed(r)'
  BY DEF Entitled, CallAllowed, Allowed, Resource, Allows, HasPermission, AllowsMedia, AllowsProject, AllowsProjectSummary, AllowsCreateProject, AllowsAll
<1> QED
  BY <1>2, <1>3 DEF Entitled

\* A step of a request to a place other than "call", with what it has read or its answer.
LEMMA GoesEntitled ==
    ASSUME TInv, \A q \in Request : Entitled(q), NEW r \in Request, NEW at \in Stages \ {"call", "idle"},
           pc[r] # "idle", Goto(r, at), UNCHANGED <<scope, cred, tool, about, answer>>,
           \/ read' = read
           \/ read' = [read EXCEPT ![r] = scope[cred[r]]],
           \A q \in Request : q # r => found'[q] = found[q]
    PROVE  \A q \in Request : Entitled(q)'
<1>1. ASSUME NEW q \in Request, q # r PROVE Entitled(q)'
  <2>1. pc'[q] = pc[q] /\ read'[q] = read[q]
    BY <1>1 DEF Goto, TInv, TypeOK
  <2> QED
    BY <1>1, <2>1, OthersEntitled
<1>2. Entitled(r)'
  <2>1. pc'[r] = at /\ (read'[r] = read[r] \/ read'[r] = scope[cred[r]])
    BY DEF Goto, TInv, TypeOK
  <2> QED
    BY <2>1 DEF Entitled, ReadInScope, CallAllowed, AnswerAllowed, AllowsMedia
<1> QED
  BY <1>1, <1>2

LEMMA AnswersEntitled ==
    ASSUME TInv, \A q \in Request : Entitled(q), NEW r \in Request, pc[r] # "idle",
           NEW ids \in SUBSET (Media \cup Project), Answer(r, ids),
           \A c \in Credential : scope[c] \subseteq scope'[c],
           \A m \in ids \cap Media : AllowsMedia(cred[r], m),
           cred[r] \in Limitless \/ ids \cap Project \subseteq scope'[cred[r]]
    PROVE  \A q \in Request : Entitled(q)'
<1>1. /\ \/ pc' = [pc EXCEPT ![r] = "audit"] /\ answer' = [answer EXCEPT ![r] = ids]
         \/ pc' = [pc EXCEPT ![r] = "release"] /\ answer' = answer
      /\ UNCHANGED <<cred, tool, about, read, found>>
  BY DEF Answer, Goto, asked
<1>2. ASSUME NEW q \in Request, q # r PROVE Entitled(q)'
  <2>1. pc'[q] = pc[q] /\ answer'[q] = answer[q]
    BY <1>1, <1>2 DEF TInv, TypeOK
  <2> QED
    BY <1>1, <2>1, OthersEntitled
<1>3. Entitled(r)'
  <2>1. /\ pc'[r] \in {"audit", "release"} /\ read'[r] = read[r] /\ cred'[r] = cred[r]
        /\ answer'[r] = ids \/ answer'[r] = answer[r]
    BY <1>1 DEF TInv, TypeOK
  <2>2. scope[cred[r]] \subseteq scope'[cred[r]]
    BY DEF TInv, Blank
  <2> QED
    BY <2>1, <2>2 DEF Entitled, ReadInScope, CallAllowed, AnswerAllowed, AllowsMedia
<1> QED
  BY <1>2, <1>3

\* Marking the credential used before a call.
LEMMA TouchEntitled ==
    ASSUME TInv, \A q \in Request : Entitled(q), NEW r \in Request,
           Touch(r, "authorized", IF Allowed(r, found[r]) THEN "call" ELSE "audit", "audit")
    PROVE  \A q \in Request : Entitled(q)'
<1>1. pc[r] = "authorized" /\ UNCHANGED <<stored, counted, asked, read, found, answer>>
  BY DEF Touch, At
<1>2. CASE Goto(r, "audit")
  BY <1>1, <1>2, Places, GoesEntitled DEF stored, asked
<1>3. CASE Allowed(r, found[r]) /\ Goto(r, "call")
  <2>1. ASSUME NEW q \in Request, q # r PROVE Entitled(q)'
    <3>1. pc'[q] = pc[q]
      BY <1>3, <2>1 DEF Goto, TInv, TypeOK
    <3> QED
      BY <1>1, <3>1, OthersEntitled DEF stored, asked
  <2>2. pc'[r] = "call"
    <3>1. pc \in [Request -> Stages]
      BY DEF TInv, TypeOK
    <3> QED
      BY <1>3, <3>1 DEF Goto
  <2>3. Allowed(r, found[r])'
    <3>1. UNCHANGED <<cred, tool, about, read, found>>
      BY <1>1 DEF asked
    <3> QED
      BY <1>3, <3>1 DEF Allowed, Resource
  <2>4. Entitled(r)'
    BY <1>1, <2>2, <2>3 DEF Entitled, ReadInScope, CallAllowed, AnswerAllowed, AllowsMedia, stored, asked
  <2> QED
    BY <2>1, <2>4
<1> QED
  BY <1>2, <1>3 DEF Touch

LEMMA RequestEntitled ==
    ASSUME EInv, NEW r \in Request, Step(r)
    PROVE  \A q \in Request : Entitled(q)'
<1>0. TInv /\ \A q \in Request : Entitled(q)
  BY DEF EInv
<1>1. ASSUME NEW from \in {"authenticate", "authenticated", "authorize"},
             NEW to \in {"authenticated", "count", "authorized"}, NEW denied \in {"end", "audit"},
             Read(r, from, to, denied) \/ Touch(r, from, to, denied)
      PROVE  \A q \in Request : Entitled(q)'
  <2>1. /\ pc[r] = from /\ from # "idle"
        /\ \E at \in Stages \ {"call", "idle"} : Goto(r, at)
        /\ UNCHANGED <<stored, counted, asked, found, answer>>
        /\ read' = read \/ read' = [read EXCEPT ![r] = scope[cred[r]]]
    BY <1>1, Places DEF Read, Touch, At
  <2> QED
    BY <1>0, <2>1, GoesEntitled DEF stored, asked
<1>2. CASE Authenticate(r)
  BY <1>1, <1>2 DEF Authenticate
<1>3. CASE AuthorizeCredential(r)
  BY <1>0, <1>1, <1>3, TouchEntitled DEF AuthorizeCredential
<1>4. CASE AllowRequest(r)
  <2>1. /\ pc[r] = "count" /\ UNCHANGED <<scope, cred, tool, about, read, found, answer>>
        /\ \E at \in {"limited", "delete", "slot"} : Goto(r, at)
    BY <1>4 DEF AllowRequest, At, stored, asked
  <2> QED
    BY <1>0, <2>1, Places, GoesEntitled
<1>5. CASE DeleteSession(r)
  BY <1>0, <1>5, Places, GoesEntitled DEF DeleteSession, At, stored, asked
<1>6. CASE TakeSlot(r)
  <2>1. /\ pc[r] = "slot" /\ \E at \in {"initialize", "session", "busy"} : Goto(r, at)
        /\ UNCHANGED <<scope, cred, tool, about, read, found, answer>>
    BY <1>6 DEF TakeSlot, At, stored, asked
  <2> QED
    BY <1>0, <2>1, Places, GoesEntitled
<1>7. CASE NewSession(r) \/ ValidSession(r)
  <2>1. /\ pc[r] \in {"initialize", "session"}
        /\ \E at \in {"full", "release", "find"} : Goto(r, at)
        /\ UNCHANGED <<scope, cred, tool, about, read, found, answer>>
    BY <1>7 DEF NewSession, ValidSession, At, stored, asked
  <2> QED
    BY <1>0, <2>1, Places, GoesEntitled
<1>8. CASE Malformed(r)
  BY <1>0, <1>8, Places, GoesEntitled DEF Malformed, At, stored, asked
<1>9. CASE FindResource(r)
  <2>1. /\ pc[r] = "find" /\ \E at \in {"authorize", "audit"} : Goto(r, at)
        /\ UNCHANGED <<scope, cred, tool, about, read, answer>>
        /\ \A q \in Request : q # r => found'[q] = found[q]
    BY <1>0, <1>9 DEF FindResource, At, stored, asked, TInv, TypeOK
  <2> QED
    BY <1>0, <2>1, Places, GoesEntitled
<1>10. CASE FailCall(r)
  BY <1>0, <1>10, Places, GoesEntitled DEF FailCall, At, stored, asked
<1>11. CASE GetMedia(r)
  <2>1. /\ pc[r] = "call" /\ tool[r] = "get_media" /\ Answer(r, about[r]) /\ scope' = scope
    BY <1>11 DEF GetMedia, At, stored
  <2>2. about[r] \in {{m} : m \in Media}
    BY <1>0, <2>1, NamingTypes DEF TInv, Named, Asks, Tools
  <2>3. about[r] \cap Project = {} /\ about[r] \in SUBSET (Media \cup Project)
    BY <2>2, McpAssumption
  <2>4. \A m \in about[r] \cap Media : AllowsMedia(cred[r], m)
    BY <1>0, <2>1, AllowedMeans DEF Entitled, CallAllowed
  <2> QED
    BY <1>0, <2>1, <2>3, <2>4, AnswersEntitled
<1>12. CASE ListProjects(r)
  <2> DEFINE ids == {p \in Project : content[p] # {} /\ AllowsProjectSummary(cred[r], read[r], p)}
  <2>1. /\ pc[r] = "call" /\ Answer(r, ids) /\ scope' = scope
    BY <1>12 DEF ListProjects, At, stored
  <2>2. ids \cap Media = {} /\ ids \in SUBSET (Media \cup Project)
    BY McpAssumption
  <2>3. cred[r] \in Limitless \/ ids \cap Project \subseteq scope[cred[r]]
    BY <1>0, <2>1 DEF Entitled, ReadInScope, AllowsProjectSummary
  <2> HIDE DEF ids
  <2> QED
    BY <1>0, <2>1, <2>2, <2>3, AnswersEntitled
<1>13. CASE GetProject(r)
  <2> DEFINE media == content[The(about[r])]
  <2>1. /\ pc[r] = "call" /\ tool[r] = "get_project" /\ Allowed(r, media) /\ scope' = scope
        /\ Answer(r, about[r] \cup media)
    BY <1>13 DEF GetProject, At, stored
  <2>2. media \in SUBSET Media /\ about[r] = {The(about[r])} /\ The(about[r]) \in Project
    BY <1>0, <2>1, ProjectOf
  <2> HIDE DEF media
  <2>3. /\ cred[r] \in Limitless \/ The(about[r]) \in read[r]
        /\ \A m \in media : AllowsMedia(cred[r], m)
    BY <1>0, <2>1, AllowedMeans
  <2>4. read[r] \subseteq scope[cred[r]]
    BY <1>0, <2>1 DEF Entitled, ReadInScope
  <2>5. /\ about[r] \cup media \in SUBSET (Media \cup Project)
        /\ (about[r] \cup media) \cap Media \subseteq media /\ (about[r] \cup media) \cap Project = about[r]
    BY <2>2, McpAssumption
  <2>6. cred[r] \in Limitless \/ about[r] \subseteq scope'[cred[r]]
    BY <2>1, <2>2, <2>3, <2>4
  <2>7. \A m \in (about[r] \cup media) \cap Media : AllowsMedia(cred[r], m)
    BY <2>3, <2>5
  <2> QED
    BY <1>0, <2>1, <2>5, <2>6, <2>7, AnswersEntitled
<1>14. ASSUME NEW p \in Project, CreateProject(r, p) PROVE \A q \in Request : Entitled(q)'
  <2>1. /\ pc[r] = "call" /\ tool[r] = "create_project" /\ Answer(r, about[r] \cup {p})
        /\ scope' = [scope EXCEPT ![cred[r]] = IF cred[r] \in Limitless THEN @ ELSE @ \cup {p}]
    BY <1>14 DEF CreateProject, At
  <2>2. about[r] \in SUBSET Media /\ cred[r] \in Credential
    BY <1>0, <2>1, NamingTypes DEF TInv, Named, Blank, Asks, Tools
  <2>3. \A m \in about[r] : AllowsMedia(cred[r], m)
    BY <1>0, <2>1, AllowedMeans DEF Entitled, CallAllowed
  <2>4. /\ \A c \in Credential : scope[c] \subseteq scope'[c]
        /\ cred[r] \in Limitless \/ p \in scope'[cred[r]]
    BY <1>0, <2>1, <2>2 DEF TInv, TypeOK
  <2>5. /\ about[r] \cup {p} \in SUBSET (Media \cup Project)
        /\ (about[r] \cup {p}) \cap Media \subseteq about[r] /\ (about[r] \cup {p}) \cap Project = {p}
    BY <2>2, McpAssumption
  <2>6. cred[r] \in Limitless \/ (about[r] \cup {p}) \cap Project \subseteq scope'[cred[r]]
    BY <2>4, <2>5
  <2>7. \A m \in (about[r] \cup {p}) \cap Media : AllowsMedia(cred[r], m)
    BY <2>3, <2>5
  <2> QED
    BY <1>0, <2>1, <2>4, <2>5, <2>6, <2>7, AnswersEntitled
<1>15. CASE RecordAudit(r)
  BY <1>0, <1>15, Places, GoesEntitled DEF RecordAudit, At, asked
<1>16. CASE End(r)
  <2>1. /\ pc' = [pc EXCEPT ![r] = "idle"] /\ cred' = [cred EXCEPT ![r] = None]
        /\ tool' = [tool EXCEPT ![r] = "none"] /\ about' = [about EXCEPT ![r] = {}]
        /\ read' = [read EXCEPT ![r] = {}] /\ found' = [found EXCEPT ![r] = {}]
        /\ answer' = [answer EXCEPT ![r] = {}] /\ scope' = scope
    BY <1>16 DEF End, Goto, stored
  <2>2. ASSUME NEW q \in Request, q # r PROVE Entitled(q)'
    <3>1. /\ pc'[q] = pc[q] /\ cred'[q] = cred[q] /\ tool'[q] = tool[q] /\ about'[q] = about[q]
          /\ read'[q] = read[q] /\ found'[q] = found[q] /\ answer'[q] = answer[q]
      BY <1>0, <2>1, <2>2 DEF TInv, TypeOK
    <3> QED
      BY <1>0, <2>1, <3>1, OthersEntitled
  <2>3. pc'[r] = "idle" /\ read'[r] = {} /\ answer'[r] = {}
    BY <1>0, <2>1 DEF TInv, TypeOK
  <2>4. Entitled(r)'
    BY <2>3 DEF Entitled, ReadInScope, CallAllowed, AnswerAllowed
  <2> QED
    BY <2>2, <2>4
<1> QED
  BY <1>2, <1>3, <1>4, <1>5, <1>6, <1>7, <1>8, <1>9, <1>10, <1>11, <1>12, <1>13, <1>14, <1>15, <1>16 DEF Step

LEMMA EntitledStep ==
    ASSUME EInv, [Next]_vars
    PROVE  \A q \in Request : Entitled(q)'
<1>0. TInv /\ \A q \in Request : Entitled(q)
  BY DEF EInv
<1>1. ASSUME NEW r \in Request, Step(r) PROVE \A q \in Request : Entitled(q)'
  BY <1>1, RequestEntitled
<1>2. ASSUME NEW r \in Request, NEW c \in Credential, NEW t, NEW s, NEW ids, Begin(r, c, t, ids, s)
      PROVE  \A q \in Request : Entitled(q)'
  <2>1. /\ pc[r] = "idle" /\ pc' = [pc EXCEPT ![r] = "authenticate"] /\ cred' = [cred EXCEPT ![r] = c]
        /\ tool' = [tool EXCEPT ![r] = t] /\ about' = [about EXCEPT ![r] = ids]
        /\ scope' = scope /\ UNCHANGED <<read, found, answer>>
    BY <1>2 DEF Begin, At, Goto, stored
  <2>2. ASSUME NEW q \in Request, q # r PROVE Entitled(q)'
    <3>1. pc'[q] = pc[q] /\ cred'[q] = cred[q] /\ tool'[q] = tool[q] /\ about'[q] = about[q]
      BY <1>0, <2>1, <2>2 DEF TInv, TypeOK
    <3> QED
      BY <1>0, <2>1, <3>1, OthersEntitled
  <2>3. pc'[r] = "authenticate" /\ read'[r] = {} /\ answer'[r] = {}
    BY <1>0, <2>1 DEF TInv, TypeOK, Blank, Entitled, ReadInScope
  <2>4. Entitled(r)'
    BY <2>3 DEF Entitled, ReadInScope, CallAllowed, AnswerAllowed
  <2> QED
    BY <2>2, <2>4
<1>3. ASSUME NEW c \in Credential, NEW ids, Create(c, ids) PROVE \A q \in Request : Entitled(q)'
  <2>1. /\ row[c] = "none" /\ scope' = [scope EXCEPT ![c] = ids] /\ UNCHANGED request
    BY <1>3 DEF Create
  <2>2. \A d \in Credential : row[d] # "none" => scope[d] \subseteq scope'[d]
    BY <1>0, <2>1 DEF TInv, TypeOK
  <2> QED
    BY <1>0, <2>1, <2>2, OthersEntitled DEF request, asked
<1>4. CASE Restart
  <2>1. \A q \in Request : pc'[q] = "idle" /\ read'[q] = {} /\ answer'[q] = {}
    BY <1>4 DEF Restart
  <2> QED
    BY <2>1 DEF Entitled, ReadInScope, CallAllowed, AnswerAllowed
<1>5. ASSUME \/ \E c \in Credential : Revoke(c) \/ Expire(c)
             \/ \E p \in Project, media \in SUBSET Media : EditProject(p, media)
             \/ Tick \/ UNCHANGED vars
      PROVE  \A q \in Request : Entitled(q)'
  <2>1. scope' = scope /\ UNCHANGED request
    BY <1>5 DEF Revoke, Expire, EditProject, Tick, vars, stored
  <2> QED
    BY <1>0, <2>1, OthersEntitled DEF request, asked
<1> QED
  BY <1>1, <1>2, <1>3, <1>4, <1>5 DEF Next

\* What was made with a credential is in its scope, and the scope of one that is yet to be
\* made is empty.
Granted == CreatedIsGranted /\ \A p \in Project : maker[p] \in Credential => row[maker[p]] # "none"

LEMMA GrantedStep ==
    ASSUME TInv, Granted, [Next]_vars
    PROVE  Granted'
<1>1. CASE UNCHANGED <<row, scope, content, maker>>
  BY <1>1 DEF Granted, CreatedIsGranted, Existing
<1>2. ASSUME NEW c \in Credential, Revoke(c) \/ Expire(c) PROVE Granted'
  <2>1. UNCHANGED <<scope, content, maker>> /\ \A d \in Credential : row[d] # "none" => row'[d] # "none"
    BY <1>2 DEF Revoke, Expire, TInv, TypeOK
  <2> QED
    BY <2>1 DEF Granted, CreatedIsGranted, Existing
<1>3. ASSUME NEW c \in Credential, NEW ids \in SUBSET Existing, Create(c, ids) PROVE Granted'
  <2>1. /\ row[c] = "none" /\ row' = [row EXCEPT ![c] = "active"] /\ scope' = [scope EXCEPT ![c] = ids]
        /\ UNCHANGED <<content, maker>>
    BY <1>3 DEF Create
  <2>2. \A p \in Project : maker[p] \in Credential => maker[p] # c
    BY <2>1 DEF Granted
  <2> QED
    BY <2>1, <2>2 DEF Granted, CreatedIsGranted, Existing, TInv, TypeOK
<1>4. ASSUME NEW p \in Project, NEW media \in SUBSET Media, EditProject(p, media) PROVE Granted'
  BY <1>4 DEF EditProject, Granted, CreatedIsGranted, Existing, TInv, TypeOK
<1>5. ASSUME NEW r \in Request, NEW p \in Project, CreateProject(r, p) PROVE Granted'
  <2>1. /\ pc[r] = "call" /\ tool[r] = "create_project" /\ content[p] = {} /\ row[cred[r]] = "active"
        /\ content' = [content EXCEPT ![p] = about[r]] /\ maker' = [maker EXCEPT ![p] = cred[r]]
        /\ scope' = [scope EXCEPT ![cred[r]] = IF cred[r] \in Limitless THEN @ ELSE @ \cup {p}]
        /\ row' = row
    BY <1>5 DEF CreateProject, At, Active
  <2>2. about[r] # {} /\ cred[r] \in Credential
    <3>1. about[r] \in (SUBSET Media) \ {{}}
      BY <2>1, NamingTypes DEF TInv, Named, Asks, Tools
    <3>2. cred[r] \in Credential
      BY <2>1 DEF TInv, Blank
    <3>3. about[r] # {}
      BY <3>1
    <3> QED
      BY <3>2, <3>3
  <2>3. \A c \in Credential : scope'[c] \subseteq scope[c] \cup {p} /\ scope[c] \subseteq scope'[c]
    BY <2>1 DEF TInv, TypeOK
  <2>4. /\ content'[p] # {} /\ maker'[p] = cred[r]
        /\ \A q \in Project : q # p => content'[q] = content[q] /\ maker'[q] = maker[q]
    BY <2>1, <2>2 DEF TInv, TypeOK
  <2>5. cred[r] \in Limitless \/ p \in scope'[cred[r]]
    BY <2>1, <2>2 DEF TInv, TypeOK
  <2>6. \A c \in Credential : scope'[c] \subseteq Existing'
    BY <2>3, <2>4 DEF Granted, CreatedIsGranted, Existing
  <2>7. \A q \in Project : maker'[q] \in Credential \ Limitless => q \in scope'[maker'[q]]
    BY <2>2, <2>3, <2>4, <2>5 DEF Granted, CreatedIsGranted
  <2>8. \A q \in Project : maker'[q] \in Credential => row'[maker'[q]] # "none"
    BY <2>1, <2>4 DEF Granted
  <2> QED
    BY <2>6, <2>7, <2>8 DEF Granted, CreatedIsGranted
<1>6. ASSUME NEW r \in Request, Step(r), ~\E p \in Project : CreateProject(r, p)
      PROVE  UNCHANGED <<row, scope, content, maker>>
  <2>1. ASSUME NEW from, NEW to, NEW denied, Read(r, from, to, denied) \/ Touch(r, from, to, denied) PROVE UNCHANGED stored
    BY <2>1 DEF Read, Touch
  <2>2. CASE Authenticate(r) \/ AuthorizeCredential(r)
    BY <2>1, <2>2 DEF Authenticate, AuthorizeCredential, stored
  <2> QED
    BY <1>6, <2>2 DEF Step, AllowRequest, DeleteSession, TakeSlot, NewSession, ValidSession, Malformed,
       FindResource, FailCall, GetMedia, ListProjects, GetProject, RecordAudit, End, stored
<1>7. ASSUME \/ \E r \in Request, c \in Credential, t \in Asks, s \in Session \cup {None} :
                  \E ids \in Naming(t) : Begin(r, c, t, ids, s)
             \/ Tick \/ Restart \/ UNCHANGED vars
      PROVE  UNCHANGED <<row, scope, content, maker>>
  BY <1>7 DEF Begin, Tick, Restart, vars, stored
<1> QED
  BY <1>1, <1>2, <1>3, <1>4, <1>5, <1>6, <1>7 DEF Next

GInv == LInv /\ EInv /\ Granted

LEMMA EntitledInvariant == Spec => []GInv
<1>1. Init => GInv
  <2> SUFFICES ASSUME Init PROVE GInv
    OBVIOUS
  <2>1. \A r \in Request : Entitled(r)
    BY DEF Init, Quiet, Entitled, ReadInScope, CallAllowed, AnswerAllowed
  <2>2. Granted
    BY McpAssumption DEF Init, Granted, CreatedIsGranted
  <2> QED
    BY <2>1, <2>2, LInvInit DEF GInv, EInv, LInv
<1>2. GInv /\ [Next]_vars => GInv'
  <2> SUFFICES ASSUME GInv, [Next]_vars PROVE GInv'
    OBVIOUS
  <2>1. LInv' /\ TInv'
    BY LInvStep DEF GInv, LInv
  <2> QED
    BY <2>1, EntitledStep, GrantedStep DEF GInv, EInv
<1> QED
  BY <1>1, <1>2, PTL DEF Spec

\* Project scopes hold: an answer is within the scopes of the credential it goes to, and
\* what was made with a credential, and nothing that does not exist, is in its scope
\* (ScopesHold).
THEOREM ScopesAlwaysHold == Spec => []ScopesHold
<1>1. GInv => ScopesHold
  <2> SUFFICES ASSUME GInv PROVE ScopesHold
    OBVIOUS
  <2>1. AnswersInScope
    <3> SUFFICES ASSUME NEW r \in Request, answer[r] # {}
                 PROVE  /\ \A m \in answer[r] \cap Media : AllowsMedia(cred[r], m)
                        /\ cred[r] \in Limitless \/ answer[r] \cap Project \subseteq scope[cred[r]]
      BY DEF AnswersInScope
    <3>1. pc[r] # "idle"
      BY DEF GInv, EInv, TInv, Blank
    <3> QED
      BY <3>1 DEF GInv, EInv, Entitled, AnswerAllowed
  <2> QED
    BY <2>1 DEF GInv, Granted, ScopesHold
<1> QED
  BY <1>1, EntitledInvariant, PTL

\* A request comes to call a tool only as its credential is marked used once more.
LEMMA OnlyTouchCalls ==
    ASSUME TInv, [Next]_vars, NEW r \in Request, pc[r] # "call", pc'[r] = "call"
    PROVE  Touch(r, "authorized", IF Allowed(r, found[r]) THEN "call" ELSE "audit", "audit")
<1>0. ASSUME NEW q \in Request, NEW at, Goto(q, at)
      PROVE  pc'[q] = at /\ \A s \in Request : s # q => pc'[s] = pc[s]
  BY <1>0 DEF Goto, TInv, TypeOK
<1>1. ASSUME NEW q \in Request, NEW at, Goto(q, at), at # "call" PROVE FALSE
  BY <1>0, <1>1
<1>2. ASSUME NEW q \in Request, NEW from, NEW to, NEW denied, to # "call", denied # "call",
             Read(q, from, to, denied) \/ Touch(q, from, to, denied)
      PROVE  FALSE
  BY <1>1, <1>2 DEF Read, Touch
<1>3. PICK q \in Request : Step(q)
  <2>1. ~UNCHANGED pc
    OBVIOUS
  <2>2. ~Restart
    BY DEF Restart
  <2>3. ASSUME NEW q \in Request, NEW c, NEW t, NEW s, NEW ids, Begin(q, c, t, ids, s) PROVE FALSE
    BY <1>1, <2>3 DEF Begin
  <2>4. ~Tick /\ ~UNCHANGED vars
    BY <2>1 DEF Tick, vars, request
  <2>5. \A c \in Credential : ~Revoke(c) /\ ~Expire(c) /\ \A ids : ~Create(c, ids)
    BY <2>1 DEF Revoke, Expire, Create, request
  <2>6. \A p \in Project, media \in SUBSET Media : ~EditProject(p, media)
    BY <2>1 DEF EditProject, request
  <2> QED
    BY <2>2, <2>3, <2>4, <2>5, <2>6 DEF Next
<1>4. ~Authenticate(q)
  BY <1>2 DEF Authenticate
<1>5. ~AllowRequest(q)
  <2>1. AllowRequest(q) => \E at \in {"limited", "delete", "slot"} : Goto(q, at)
    BY DEF AllowRequest
  <2> QED
    BY <1>1, <2>1
<1>6. ~DeleteSession(q) /\ ~FailCall(q) /\ ~RecordAudit(q) /\ ~End(q)
  BY <1>1 DEF DeleteSession, FailCall, RecordAudit, End
<1>7. ~TakeSlot(q)
  <2>1. TakeSlot(q) => \E at \in {"initialize", "session", "busy"} : Goto(q, at)
    BY DEF TakeSlot
  <2> QED
    BY <1>1, <2>1
<1>8. ~NewSession(q) /\ ~ValidSession(q)
  <2>1. NewSession(q) \/ ValidSession(q) => \E at \in {"full", "release", "find"} : Goto(q, at)
    BY DEF NewSession, ValidSession
  <2> QED
    BY <1>1, <2>1
<1>9. ~Malformed(q) /\ ~FindResource(q)
  <2>1. Malformed(q) \/ FindResource(q) => \E at \in {"end", "release", "authorize", "audit"} : Goto(q, at)
    BY DEF Malformed, FindResource
  <2> QED
    BY <1>1, <2>1
<1>10. ~GetMedia(q) /\ ~ListProjects(q) /\ ~GetProject(q) /\ \A p \in Project : ~CreateProject(q, p)
  <2>1. GetMedia(q) \/ ListProjects(q) \/ GetProject(q) \/ (\E p \in Project : CreateProject(q, p))
        => \E at \in {"audit", "release"} : Goto(q, at)
    BY DEF GetMedia, ListProjects, GetProject, CreateProject, Answer
  <2> QED
    BY <1>1, <2>1
<1>11. AuthorizeCredential(q)
  BY <1>3, <1>4, <1>5, <1>6, <1>7, <1>8, <1>9, <1>10 DEF Step
<1>12. Touch(q, "authorized", IF Allowed(q, found[q]) THEN "call" ELSE "audit", "audit")
  BY <1>2, <1>11 DEF AuthorizeCredential
<1>13. q = r
  BY <1>0, <1>12 DEF Touch
<1> QED
  BY <1>12, <1>13

\* No tool is called with a revoked credential, or for a project that is not in its scope
\* at that moment (CallsAreEntitled).
THEOREM CallsEntitled == Spec => CallsAreEntitled
<1>1. ASSUME GInv, [Next]_vars, NEW r \in Request, ~At(r, "call"), pc'[r] = "call"
      PROVE  /\ row[cred[r]] = "active"
             /\ tool[r] = "get_project" => cred[r] \in Limitless \/ about[r] \subseteq scope[cred[r]]
  <2>0. TInv /\ Entitled(r)
    BY <1>1 DEF GInv, EInv
  <2>1. Touch(r, "authorized", IF Allowed(r, found[r]) THEN "call" ELSE "audit", "audit")
    BY <1>1, <2>0, OnlyTouchCalls DEF At
  <2>2. pc[r] = "authorized" /\ row[cred[r]] # "revoked" /\ Allowed(r, found[r])
    BY <1>1, <2>0, <2>1 DEF Touch, At, Goto, TInv, TypeOK
  <2>3. row[cred[r]] = "active"
    BY <2>0, <2>2 DEF TInv, TypeOK, Blank
  <2>4. ASSUME tool[r] = "get_project" PROVE cred[r] \in Limitless \/ about[r] \subseteq scope[cred[r]]
    <3>1. about[r] = {The(about[r])} /\ (cred[r] \in Limitless \/ The(about[r]) \in read[r])
      BY <2>0, <2>2, <2>4, ProjectOf, AllowedMeans
    <3>2. read[r] \subseteq scope[cred[r]]
      BY <2>0, <2>2 DEF Entitled, ReadInScope
    <3> QED
      BY <3>1, <3>2
  <2> QED
    BY <2>3, <2>4
<1>2. GInv /\ [Next]_vars =>
        [ \A r \in Request : ~At(r, "call") /\ pc'[r] = "call" =>
            /\ row[cred[r]] = "active"
            /\ tool[r] = "get_project" => cred[r] \in Limitless \/ about[r] \subseteq scope[cred[r]] ]_vars
  BY <1>1
<1> QED
  BY <1>2, EntitledInvariant, PTL DEF Spec, CallsAreEntitled
=============================================================================
