--------------------------------- MODULE Mcp ---------------------------------
(***************************************************************************)
(* Assistant credentials (CredentialStore), the MCP transport that serves  *)
(* requests made with them, and two of its tools: get_project, which       *)
(* returns a project and its media, and create_project, which makes one    *)
(* and adds it to the scope of the credential it was made with.            *)
(*                                                                         *)
(*  - A request authenticates, is counted, takes a slot, uses a session,   *)
(*    finds the resource it is about, is authorized, calls its tool and    *)
(*    records that in the audit; other requests, revocation and expiry,    *)
(*    and edits of the project come between any two of these.              *)
(*  - Any statement may fail, for one because the client has gone.  A      *)
(*    statement that reports an error has had no effect.                   *)
(*  - A tick is a minute, the window of the rate limit.  Between reading   *)
(*    the clock and locking the mutex, no minute passes.                   *)
(***************************************************************************)
EXTENDS Integers, FiniteSets

CONSTANTS
  Credential,             \* credentials
  Permissions,            \* the set of permissions of each
  MediaScope,             \* and its media scope: a kind and a set of identifiers
  Limitless,              \* those whose project scope is of the kind all
  Media, RootOf,          \* media, and the root each is in
  Project,                \* identifiers of projects
  Request,                \* requests in flight
  Session,                \* identifiers of sessions
  MaxSessions,
  MaxConcurrentRequests,
  RequestsPerMinute,
  SessionTTL,             \* in minutes
  ScopeIDLimit,
  MaxAudit,               \* audit entries kept for each credential
  None                    \* nothing

ASSUME McpAssumption ==
  /\ Limitless \subseteq Credential /\ Media \cap Project = {}
  /\ IsFiniteSet(Session) /\ IsFiniteSet(Request)
  /\ MaxSessions \in Nat \ {0} /\ MaxConcurrentRequests \in Nat \ {0}
  /\ RequestsPerMinute \in Nat \ {0} /\ SessionTTL \in Nat \ {0}
  /\ ScopeIDLimit \in Nat \ {0} /\ MaxAudit \in Nat \ {0}
  /\ None \notin Session \cup Credential \cup Project \cup Media

VARIABLES
  row,       \* of a credential: none, active or revoked
  expired,   \* credentials whose time is over
  scope,     \* projects in the project scope of each
  audit,     \* how many audit entries each has
  content,   \* media of each project; none of a project that does not exist
  maker,     \* the credential a project was made with
  owner,     \* of a session: the credential it was made with
  unused,    \* minutes since a session was used
  count,     \* requests counted in the window of a credential
  stale,     \* credentials whose window is over
  slots,     \* slots that are taken
  pc,        \* where a request is
  cred,      \* the credential it presents
  tool,      \* what it asks for
  about,     \* the projects or media it names
  session,   \* the session it names
  read,      \* the project scope of its credential, as last read
  found,     \* the media of its project, as found
  answer     \* the projects and media its tool returns

stored   == <<row, expired, scope, audit, content, maker>>
counted  == <<owner, unused, count, stale, slots>>
asked    == <<cred, tool, about, session>>
request  == <<pc, asked, read, found, answer>>
vars     == <<stored, counted, request>>

-----------------------------------------------------------------------------
(* What a credential allows *)

HasPermission(c, permission) == permission \in Permissions[c]

AllowsMedia(c, m) ==
    \/ MediaScope[c].kind = "all"
    \/ MediaScope[c].kind = "roots" /\ RootOf[m] \in MediaScope[c].ids
    \/ MediaScope[c].kind = "media" /\ m \in MediaScope[c].ids

AllowsAll(c, media) == media # {} /\ \A m \in media : AllowsMedia(c, m)

\* ids is the set of projects in the project scope.
AllowsProjectSummary(c, ids, p) == c \in Limitless \/ p \in ids

AllowsProject(c, ids, p, media) == AllowsProjectSummary(c, ids, p) /\ AllowsAll(c, media)

AllowsCreateProject(c, media) ==
    {"media:read", "projects:read", "projects:write"} \subseteq Permissions[c] /\ AllowsAll(c, media)

\* A resource has a medium, a project and its media, or new media for one.
Allows(c, ids, permission, resource) ==
    /\ HasPermission(c, permission)
    /\ \/ permission = "media:read" /\ (resource.item = None \/ AllowsMedia(c, resource.item))
       \/ permission = "projects:read" /\
            \/ resource.project = None /\ resource.summary
            \/ resource.project # None /\ AllowsProject(c, ids, resource.project, resource.media)
       \/ permission = "projects:write" /\ resource.project = None /\ AllowsCreateProject(c, resource.media)

\* normalizeCredentialInput refuses anything else.
ValidCredential(c, ids) ==
    /\ "projects:write" \in Permissions[c] => "projects:read" \in Permissions[c]
    /\ (MediaScope[c].kind = "all") = (MediaScope[c].ids = {})
    /\ (c \in Limitless) = (ids = {})
    /\ Cardinality(ids) <= ScopeIDLimit

-----------------------------------------------------------------------------
(* The credential store *)

Active(c) == row[c] = "active" /\ c \notin expired

Create(c, ids) ==
    /\ row[c] = "none" /\ ValidCredential(c, ids)
    /\ row' = [row EXCEPT ![c] = "active"] /\ scope' = [scope EXCEPT ![c] = ids]
    /\ UNCHANGED <<expired, audit, content, maker, counted, request>>

Revoke(c) ==
    /\ row[c] # "none"
    /\ row' = [row EXCEPT ![c] = "revoked"]
    /\ UNCHANGED <<expired, scope, audit, content, maker, counted, request>>

Expire(c) ==
    /\ row[c] # "none" /\ c \notin expired
    /\ expired' = expired \cup {c}
    /\ UNCHANGED <<row, scope, audit, content, maker, counted, request>>

-----------------------------------------------------------------------------
(* A request *)

At(r, at)   == pc[r] = at
Goto(r, at) == pc' = [pc EXCEPT ![r] = at]

PermissionOf(t) ==
    CASE t = "get_media"                         -> "media:read"
      [] t \in {"list_projects", "get_project"} -> "projects:read"
      [] t = "create_project"                    -> "projects:write"

Tools    == {"get_media", "list_projects", "get_project", "create_project"}
Asks     == Tools \cup {"initialize", "list", "delete"}

\* What its arguments may name, as far as decoding lets them through.
Naming(t) ==
    CASE t = "get_media"      -> {{m} : m \in Media}
      [] t = "get_project"    -> {{p} : p \in Project}
      [] t = "create_project" -> (SUBSET Media) \ {{}}
      [] OTHER                -> {{}}

\* A request comes in with the token of a credential, which is looked up.
Begin(r, c, t, ids, s) ==
    /\ At(r, "idle") /\ row[c] # "none"
    /\ ids \in Naming(t) /\ (t = "initialize" => s = None)
    /\ Goto(r, "authenticate")
    /\ cred' = [cred EXCEPT ![r] = c] /\ tool' = [tool EXCEPT ![r] = t]
    /\ about' = [about EXCEPT ![r] = ids] /\ session' = [session EXCEPT ![r] = s]
    /\ UNCHANGED <<stored, counted, read, found, answer>>

\* TouchLastUsed reads the record and looks at the clock ...
Read(r, from, to, denied) ==
    /\ At(r, from)
    /\ \/ Active(cred[r]) /\ Goto(r, to) /\ read' = [read EXCEPT ![r] = scope[cred[r]]]
       \/ Goto(r, denied) /\ UNCHANGED read
    /\ UNCHANGED <<stored, counted, asked, found, answer>>

\* Fault: the conditional write does not look at the revocation.
TouchAnyway(r, from, to, denied) ==
    /\ At(r, from)
    /\ Goto(r, to) \/ Goto(r, denied)
    /\ UNCHANGED <<stored, counted, asked, read, found, answer>>

\* ... and marks it used, unless it has been revoked meanwhile: then it is read once
\* more, and found revoked.
Touch(r, from, to, denied) ==
    /\ At(r, from)
    /\ \/ row[cred[r]] # "revoked" /\ Goto(r, to)
       \/ Goto(r, denied)
    /\ UNCHANGED <<stored, counted, asked, read, found, answer>>

Authenticate(r) ==
    \/ Read(r, "authenticate", "authenticated", "end")
    \/ Touch(r, "authenticated", "count", "end")

\* Windows that are over are forgotten, everybody's.
AllowRequest(r) ==
    LET counts == [c \in Credential |-> IF c \in stale THEN 0 ELSE count[c]]
        full   == counts[cred[r]] >= RequestsPerMinute
    IN  /\ At(r, "count")
        /\ stale' = {}
        /\ count' = IF full THEN counts ELSE [counts EXCEPT ![cred[r]] = @ + 1]
        /\ Goto(r, CASE full -> "limited" [] tool[r] = "delete" -> "delete" [] OTHER -> "slot")
        /\ UNCHANGED <<stored, owner, unused, slots, asked, read, found, answer>>

\* Fault: the owner of the session is not looked at.
DeleteAnySession(r) ==
    /\ At(r, "delete")
    /\ owner' = [s \in Session |-> IF s = session[r] THEN None ELSE owner[s]]
    /\ unused' = [s \in Session |-> IF owner'[s] = None THEN 0 ELSE unused[s]]
    /\ Goto(r, "end")
    /\ UNCHANGED <<stored, count, stale, slots, asked, read, found, answer>>

\* A request deletes its own session, without a slot.
DeleteSession(r) ==
    /\ At(r, "delete")
    /\ owner' = [s \in Session |-> IF s = session[r] /\ owner[s] = cred[r] THEN None ELSE owner[s]]
    /\ unused' = [s \in Session |-> IF owner'[s] = None THEN 0 ELSE unused[s]]
    /\ Goto(r, "end")
    /\ UNCHANGED <<stored, count, stale, slots, asked, read, found, answer>>

TakeSlot(r) ==
    /\ At(r, "slot")
    /\ \/ slots < MaxConcurrentRequests /\ slots' = slots + 1
          /\ Goto(r, IF tool[r] = "initialize" THEN "initialize" ELSE "session")
       \/ slots >= MaxConcurrentRequests /\ Goto(r, "busy") /\ UNCHANGED slots
    /\ UNCHANGED <<stored, owner, unused, count, stale, asked, read, found, answer>>

\* The sessions that are left once those out of use have expired.
Live == {s \in Session : owner[s] # None /\ unused[s] < SessionTTL}

\* Every live session s is given the owner and the time new[s].
Sessions(live, new) ==
    /\ owner' = [s \in Session |-> IF s \in DOMAIN new THEN new[s] ELSE IF s \in live THEN owner[s] ELSE None]
    /\ unused' = [s \in Session |-> IF s \in live \ DOMAIN new THEN unused[s] ELSE 0]

\* At its limit, a new session is refused.
NewSession(r) ==
    /\ At(r, "initialize")
    /\ IF Cardinality(Live) >= MaxSessions
       THEN Goto(r, "full") /\ Sessions(Live, <<>>) /\ UNCHANGED session
       ELSE \E s \in Session \ Live :
              /\ Sessions(Live, [new \in {s} |-> cred[r]])
              /\ session' = [session EXCEPT ![r] = s]
              /\ Goto(r, "release")
    /\ UNCHANGED <<stored, count, stale, slots, cred, tool, about, read, found, answer>>

\* Only a live session of the same credential will do.
ValidSession(r) ==
    /\ At(r, "session")
    /\ IF session[r] \in Live /\ owner[session[r]] = cred[r]
       THEN /\ Sessions(Live, [s \in {session[r]} |-> cred[r]])
            /\ Goto(r, IF tool[r] \in Tools /\ HasPermission(cred[r], PermissionOf(tool[r])) THEN "find" ELSE "release")
       ELSE Sessions(Live, <<>>) /\ Goto(r, "release")
    /\ UNCHANGED <<stored, count, stale, slots, asked, read, found, answer>>

\* A request of a wrong kind, before it takes a slot, a message that cannot be understood,
\* or one of another version of the protocol.
Malformed(r) ==
    /\ pc[r] \in {"slot", "initialize", "session", "find"}
    /\ Goto(r, IF At(r, "slot") THEN "end" ELSE "release")
    /\ UNCHANGED <<stored, counted, asked, read, found, answer>>

The(ids) == CHOOSE id \in ids : TRUE

\* The project and media that the tool is about are looked up.
FindResource(r) ==
    /\ At(r, "find")
    /\ \/ /\ tool[r] = "get_project" => content[The(about[r])] # {}
          /\ found' = [found EXCEPT ![r] = IF tool[r] = "get_project" THEN content[The(about[r])] ELSE {}]
          /\ Goto(r, "authorize")
       \/ Goto(r, "audit") /\ UNCHANGED found
    /\ UNCHANGED <<stored, counted, asked, read, answer>>

Resource(r, media) ==
    [item    |-> IF tool[r] = "get_media" THEN The(about[r]) ELSE None,
     project |-> IF tool[r] = "get_project" THEN The(about[r]) ELSE None,
     media   |-> IF tool[r] = "create_project" THEN about[r] ELSE media,
     summary |-> tool[r] = "list_projects"]

Allowed(r, media) == Allows(cred[r], read[r], PermissionOf(tool[r]), Resource(r, media))

\* The credential is looked at again, as it is now.
AuthorizeCredential(r) ==
    \/ Read(r, "authorize", "authorized", "audit")
    \/ Touch(r, "authorized", IF Allowed(r, found[r]) THEN "call" ELSE "audit", "audit")

\* A tool that fails has done nothing.
FailCall(r) ==
    /\ At(r, "call")
    /\ Goto(r, "audit")
    /\ UNCHANGED <<stored, counted, asked, read, found, answer>>

\* What is too large to be returned is not recorded either.
Answer(r, ids) ==
    /\ \/ Goto(r, "audit") /\ answer' = [answer EXCEPT ![r] = ids]
       \/ Goto(r, "release") /\ UNCHANGED answer
    /\ UNCHANGED <<counted, asked, read, found>>

GetMedia(r) ==
    /\ At(r, "call") /\ tool[r] = "get_media"
    /\ Answer(r, about[r])
    /\ UNCHANGED stored

ListProjects(r) ==
    /\ At(r, "call") /\ tool[r] = "list_projects"
    /\ Answer(r, {p \in Project : content[p] # {} /\ AllowsProjectSummary(cred[r], read[r], p)})
    /\ UNCHANGED stored

\* Fault: the project it returns is not the one that was authorized.
GetProjectAsAuthorized(r) ==
    /\ At(r, "call") /\ tool[r] = "get_project"
    /\ Answer(r, about[r] \cup content[The(about[r])])
    /\ UNCHANGED stored

\* The project is read once more, and its media checked again.
GetProject(r) ==
    /\ At(r, "call") /\ tool[r] = "get_project"
    /\ LET media == content[The(about[r])]
       IN  Allowed(r, media) /\ Answer(r, about[r] \cup media)
    /\ UNCHANGED stored

\* Fault: the project is saved before the credential is granted it.
CreateUngranted(r, p) ==
    /\ At(r, "call") /\ tool[r] = "create_project" /\ content[p] = {}
    /\ content' = [content EXCEPT ![p] = about[r]] /\ maker' = [maker EXCEPT ![p] = cred[r]]
    /\ scope' = IF Active(cred[r]) THEN [scope EXCEPT ![cred[r]] = @ \cup {p}] ELSE scope
    /\ Answer(r, about[r] \cup {p})
    /\ UNCHANGED <<row, expired, audit>>

\* One transaction saves a project under a new identifier and grants it to the credential.
CreateProject(r, p) ==
    LET c == cred[r]
    IN  /\ At(r, "call") /\ tool[r] = "create_project" /\ content[p] = {}
        /\ AllowsCreateProject(c, about[r]) /\ Active(c)
        /\ c \in Limitless \/ Cardinality(scope[c]) < ScopeIDLimit
        /\ content' = [content EXCEPT ![p] = about[r]] /\ maker' = [maker EXCEPT ![p] = c]
        /\ scope' = [scope EXCEPT ![c] = IF c \in Limitless THEN @ ELSE @ \cup {p}]
        /\ Answer(r, about[r] \cup {p})
        /\ UNCHANGED <<row, expired, audit>>

\* An entry is added, and those beyond the newest deleted, or nothing is recorded.
RecordAudit(r) ==
    /\ At(r, "audit")
    /\ \/ audit' = [audit EXCEPT ![cred[r]] = IF @ < MaxAudit THEN @ + 1 ELSE @]
       \/ UNCHANGED audit
    /\ Goto(r, "release")
    /\ UNCHANGED <<row, expired, scope, content, maker, counted, asked, read, found, answer>>

\* Requests that hold a slot.
Holding == {"initialize", "session", "find", "authorize", "authorized", "call", "audit", "release", "full"}

\* Fault: a slot is only released where the request has been served.
EndUnreleased(r) ==
    /\ pc[r] \in {"end", "limited", "busy", "release", "full"}
    /\ Goto(r, "idle")
    /\ slots' = IF At(r, "release") THEN slots - 1 ELSE slots
    /\ cred' = [cred EXCEPT ![r] = None] /\ tool' = [tool EXCEPT ![r] = "none"]
    /\ about' = [about EXCEPT ![r] = {}] /\ session' = [session EXCEPT ![r] = None]
    /\ read' = [read EXCEPT ![r] = {}] /\ found' = [found EXCEPT ![r] = {}]
    /\ answer' = [answer EXCEPT ![r] = {}]
    /\ UNCHANGED <<stored, owner, unused, count, stale>>

\* The response is written; a slot is released.
End(r) ==
    /\ pc[r] \in {"end", "limited", "busy", "release", "full"}
    /\ Goto(r, "idle")
    /\ slots' = IF pc[r] \in Holding THEN slots - 1 ELSE slots
    /\ cred' = [cred EXCEPT ![r] = None] /\ tool' = [tool EXCEPT ![r] = "none"]
    /\ about' = [about EXCEPT ![r] = {}] /\ session' = [session EXCEPT ![r] = None]
    /\ read' = [read EXCEPT ![r] = {}] /\ found' = [found EXCEPT ![r] = {}]
    /\ answer' = [answer EXCEPT ![r] = {}]
    /\ UNCHANGED <<stored, owner, unused, count, stale>>

Step(r) ==
    \/ Authenticate(r) \/ AllowRequest(r) \/ DeleteSession(r) \/ TakeSlot(r)
    \/ NewSession(r) \/ ValidSession(r) \/ Malformed(r)
    \/ FindResource(r) \/ AuthorizeCredential(r) \/ FailCall(r)
    \/ GetMedia(r) \/ ListProjects(r) \/ GetProject(r)
    \/ \E p \in Project : CreateProject(r, p)
    \/ RecordAudit(r) \/ End(r)

-----------------------------------------------------------------------------
(* The rest of the system *)

\* Somebody saves a project (module Projects).
EditProject(p, media) ==
    /\ media # {} /\ content[p] # {}
    /\ content' = [content EXCEPT ![p] = media]
    /\ UNCHANGED <<row, expired, scope, audit, maker, counted, request>>

\* A minute passes.
Tick ==
    /\ unused' = [s \in Session |-> IF owner[s] # None /\ unused[s] < SessionTTL THEN unused[s] + 1 ELSE unused[s]]
    /\ stale' = {c \in Credential : count[c] > 0}
    /\ UNCHANGED <<stored, owner, count, slots, request>>

Quiet ==
    /\ owner = [s \in Session |-> None] /\ unused = [s \in Session |-> 0]
    /\ count = [c \in Credential |-> 0] /\ stale = {} /\ slots = 0
    /\ pc = [r \in Request |-> "idle"]
    /\ cred = [r \in Request |-> None] /\ tool = [r \in Request |-> "none"]
    /\ about = [r \in Request |-> {}] /\ session = [r \in Request |-> None]
    /\ read = [r \in Request |-> {}] /\ found = [r \in Request |-> {}]
    /\ answer = [r \in Request |-> {}]

\* The process ends, at any point, and starts again.
Restart ==
    /\ owner' = [s \in Session |-> None] /\ unused' = [s \in Session |-> 0]
    /\ count' = [c \in Credential |-> 0] /\ stale' = {} /\ slots' = 0
    /\ pc' = [r \in Request |-> "idle"]
    /\ cred' = [r \in Request |-> None] /\ tool' = [r \in Request |-> "none"]
    /\ about' = [r \in Request |-> {}] /\ session' = [r \in Request |-> None]
    /\ read' = [r \in Request |-> {}] /\ found' = [r \in Request |-> {}]
    /\ answer' = [r \in Request |-> {}]
    /\ UNCHANGED stored

Existing == {p \in Project : content[p] # {}}

Init ==
    /\ row = [c \in Credential |-> "none"] /\ expired = {}
    /\ scope = [c \in Credential |-> {}] /\ audit = [c \in Credential |-> 0]
    /\ content \in [Project -> SUBSET Media]
    /\ maker = [p \in Project |-> None]
    /\ Quiet

Next ==
    \/ \E c \in Credential : Revoke(c) \/ Expire(c) \/ \E ids \in SUBSET Existing : Create(c, ids)
    \/ \E r \in Request, c \in Credential, t \in Asks, s \in Session \cup {None} :
         \E ids \in Naming(t) : Begin(r, c, t, ids, s)
    \/ \E r \in Request : Step(r)
    \/ \E p \in Project, media \in SUBSET Media : EditProject(p, media)
    \/ Tick \/ Restart

Spec == Init /\ [][Next]_vars

-----------------------------------------------------------------------------
(* Properties *)

Stages == Holding \cup {"idle", "authenticate", "authenticated", "count", "slot", "delete", "end", "limited", "busy"}

\* The variables have their types, and the audit of a credential is bounded (RecordAudit).
TypeOK ==
    /\ row \in [Credential -> {"none", "active", "revoked"}] /\ expired \subseteq Credential
    /\ scope \in [Credential -> SUBSET Project] /\ audit \in [Credential -> 0..MaxAudit]
    /\ content \in [Project -> SUBSET Media] /\ maker \in [Project -> Credential \cup {None}]
    /\ owner \in [Session -> Credential \cup {None}] /\ unused \in [Session -> 0..SessionTTL]
    /\ count \in [Credential -> 0..RequestsPerMinute] /\ stale \subseteq Credential
    /\ slots \in 0..MaxConcurrentRequests
    /\ pc \in [Request -> Stages] /\ tool \in [Request -> Asks \cup {"none"}]
    /\ cred \in [Request -> Credential \cup {None}]
    /\ about \in [Request -> SUBSET (Media \cup Project)]
    /\ session \in [Request -> Session \cup {None}]
    /\ read \in [Request -> SUBSET Project] /\ found \in [Request -> SUBSET Media]
    /\ answer \in [Request -> SUBSET (Media \cup Project)]

\* Every slot that is taken is held by a request, whatever way requests end, so no slot is
\* lost (the deferred release in ServeHTTP); and neither sessions (newSession) nor the audit
\* entries of a credential (RecordAudit) ever outnumber their limit.
WithinLimits ==
    /\ slots = Cardinality({r \in Request : pc[r] \in Holding})
    /\ Cardinality({s \in Session : owner[s] # None}) <= MaxSessions
    /\ \A c \in Credential : audit[c] <= MaxAudit

\* A session in use stays with the credential it was made with, until a request with that
\* credential deletes it: no other request, of anybody, ends it or takes it over
\* (newSession, validSession, deleteSession).
SessionsAreKept ==
    [][ \/ Restart
        \/ \A s \in Live : owner'[s] # owner[s] =>
             \E r \in Request : At(r, "delete") /\ session[r] = s /\ cred[r] = owner[s] ]_vars

\* No tool is called with a credential that has been revoked, however late (the conditional
\* write of TouchLastUsed), and none for a project that is not in its scope at that moment,
\* though the scope was read before.
CallsAreEntitled ==
    [][ \A r \in Request : ~At(r, "call") /\ pc'[r] = "call" =>
          /\ row[cred[r]] = "active"
          /\ tool[r] = "get_project" => cred[r] \in Limitless \/ about[r] \subseteq scope[cred[r]] ]_vars

\* What a tool returns is within the scopes of the credential, also when the project has
\* been edited since it was authorized (getProject checks again).
AnswersInScope ==
    \A r \in Request : answer[r] # {} =>
      /\ \A m \in answer[r] \cap Media : AllowsMedia(cred[r], m)
      /\ cred[r] \in Limitless \/ answer[r] \cap Project \subseteq scope[cred[r]]

\* A project that was made with a credential is in its scope, and the scope has no project
\* that was not saved: both are done, or neither (createProject, CreateInTx, grantProjectTx).
CreatedIsGranted ==
    /\ \A p \in Project : maker[p] \in Credential \ Limitless => p \in scope[maker[p]]
    /\ \A c \in Credential : scope[c] \subseteq Existing

\* The project scope of a credential never shows more, nor less, than what was granted.
ScopesHold == AnswersInScope /\ CreatedIsGranted
=============================================================================
