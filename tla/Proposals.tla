----------------------------- MODULE Proposals ------------------------------
(***************************************************************************)
(* Export proposals of assistants (mcp.ProposalService): an assistant has  *)
(* an export validated and saved, the operator approves it in the app, and *)
(* the assistant starts it, any number of times.                           *)
(*                                                                         *)
(*  - Each read of the database is a step: projects, sources, credentials  *)
(*    and approvals change between the reads of one call.                  *)
(*  - A call may be abandoned at any step: its connection or the process   *)
(*    goes away.  The tables outlive it.                                   *)
(*  - Whether a credential's scope covers a proposal, what a preflight     *)
(*    finds and whether the queue has room is left open.                   *)
(***************************************************************************)
EXTENDS Integers

CONSTANTS
  Proposal,     \* proposals, each of which is prepared once
  OfProject,    \* those made from the project; the others name a source
  Item,         \* items of the project, each with its source
  ItemsOf,      \* the items of each proposal
  Version,      \* versions of a source, as the library knows them
  MaxRevision,  \* bound on the edits of the project
  Credential,   \* credentials with the permissions to prepare and to start
  Unattended,   \* those that need no approval
  Call,         \* calls of start_export
  None          \* nothing

ASSUME ProposalsAssumption ==
  /\ None \notin Version /\ MaxRevision \in Nat \ {0}
  /\ OfProject \subseteq Proposal /\ Unattended \subseteq Credential
  /\ ItemsOf \in [Proposal -> SUBSET Item]

VARIABLES
  revision,   \* of the project
  version,    \* of each source
  active,     \* credentials neither revoked nor expired
  prepared,   \* proposals as validated: [owner, revision, version of each item]
  saved,      \* proposals in the table
  age,        \* where the clock is for a saved proposal: see Ages
  approved,   \* proposals with an approved_at
  approving,  \* proposals the app has read in order to approve them
  started,    \* proposals with rows in the jobs table
  pc,         \* where a call is
  target,     \* the proposal and the credential of a call
  sawApproval, \* calls that have read an approved proposal
  checked,    \* items a call has found unchanged
  consented,  \* history: proposals approved in time
  timely,     \* history: calls that came when the proposal could be started
  retries,    \* history: calls of the owner that came when the proposal was started
  held        \* history: items that were unchanged at some time during a call

inputs  == <<revision, version, active>>
table   == <<prepared, saved, age, approved, approving, consented>>
calls   == <<pc, target, sawApproval, checked, timely, retries, held>>
vars    == <<inputs, table, started, calls>>

\* Times are stored as text without trailing zeros and SQL compares the texts:
\* within the second in which a proposal expires, it may still count as later.
Ages == {"live", "lapsing", "expired"}

Returned == {"answered", "denied", "expired", "stale", "unapproved", "blocked", "failed", "abandoned"}
Stages   == {"load", "revision", "authorize", "sources"}

Init ==
    /\ revision = 1 /\ version \in [Item -> Version] /\ active = Credential
    /\ prepared = [p \in Proposal |-> None] /\ saved = {}
    /\ age = [p \in Proposal |-> "live"]
    /\ approved = {} /\ approving = {} /\ consented = {}
    /\ started = {}
    /\ pc = [c \in Call |-> "idle"] /\ target = [c \in Call |-> None]
    /\ sawApproval = {} /\ checked = [c \in Call |-> {}]
    /\ timely = {} /\ retries = {} /\ held = [c \in Call |-> {}]

-----------------------------------------------------------------------------
(* ProposalService.Prepare and Approve *)

\* Prepare reads the project ...
Prepare(p, k) ==
    /\ prepared[p] = None /\ k \in active
    /\ prepared' = [prepared EXCEPT ![p] =
         [owner |-> k, revision |-> IF p \in OfProject THEN revision ELSE 0,
          version |-> [i \in ItemsOf[p] |-> None]]]
    /\ UNCHANGED <<inputs, saved, age, approved, approving, consented, started, calls>>

\* ... then each source ...
PrepareSource(p) ==
    /\ prepared[p] # None
    /\ \E i \in ItemsOf[p] :
          /\ prepared[p].version[i] = None
          /\ prepared' = [prepared EXCEPT ![p].version[i] = version[i]]
    /\ UNCHANGED <<inputs, saved, age, approved, approving, consented, started, calls>>

\* ... authorizes the credential and saves.  From now on the proposal expires.
\* (A revocation between the two has the effect of one just after.)
SavePrepared(p) ==
    /\ prepared[p] # None /\ p \notin saved
    /\ prepared[p].owner \in active
    /\ \A i \in ItemsOf[p] : prepared[p].version[i] # None
    /\ saved' = saved \cup {p}
    /\ UNCHANGED <<inputs, prepared, age, approved, approving, consented, started, calls>>

\* Approve reads the proposal and the clock ...
BeginApprove(p) ==
    /\ p \in saved /\ age[p] = "live"
    /\ approving' = approving \cup {p}
    /\ UNCHANGED <<inputs, prepared, saved, age, approved, consented, started, calls>>

\* ... and updates the row, if the texts still say that it has not expired.
Approve(p) ==
    /\ p \in approving /\ age[p] # "expired"
    /\ approving' = approving \ {p}
    /\ approved' = approved \cup {p}
    /\ consented' = IF age[p] = "live" THEN consented \cup {p} ELSE consented
    /\ UNCHANGED <<inputs, prepared, saved, age, started, calls>>

\* Too late, or by its text, or the update fails.
ApproveRefused(p) ==
    /\ p \in approving
    /\ approving' = approving \ {p}
    /\ UNCHANGED <<inputs, prepared, saved, age, approved, consented, started, calls>>

-----------------------------------------------------------------------------
(* ProposalService.Execute *)

P(c)         == target[c].proposal
At(c, at)    == pc[c] = at
Busy(c)      == pc[c] \in Stages
Goto(c, at)  == pc' = [pc EXCEPT ![c] = at]
Unchanged(p) == {i \in ItemsOf[p] : version[i] = prepared[p].version[i]}
Current(p)   == p \in OfProject => revision = prepared[p].revision

Arrive(c, p, k) ==
    /\ At(c, "idle") /\ p \in saved
    /\ Goto(c, "load")
    /\ target' = [target EXCEPT ![c] = [proposal |-> p, credential |-> k]]
    /\ timely' = IF age[p] = "live" /\ Current(p) /\ k \in active THEN timely \cup {c} ELSE timely
    /\ retries' = IF p \in started /\ k = prepared[p].owner THEN retries \cup {c} ELSE retries
    /\ held' = [held EXCEPT ![c] = Unchanged(p)]
    /\ UNCHANGED <<inputs, table, started, sawApproval, checked>>

\* Execute returns without having inserted jobs; what it has read is gone.
Return(c, how) ==
    /\ Goto(c, how)
    /\ target' = [target EXCEPT ![c] = None]
    /\ sawApproval' = sawApproval \ {c} /\ timely' = timely \ {c}
    /\ checked' = [checked EXCEPT ![c] = {}] /\ held' = [held EXCEPT ![c] = {}]
    /\ UNCHANGED <<inputs, table, started, retries>>

MayCall(c) == target[c].credential = prepared[P(c)].owner

\* Fault: the expiry is compared as Approve's update compares it.
LoadByText(c) ==
    /\ At(c, "load")
    /\ MayCall(c) /\ age[P(c)] # "expired"
    /\ sawApproval' = IF P(c) \in approved THEN sawApproval \cup {c} ELSE sawApproval
    /\ Goto(c, "revision")
    /\ UNCHANGED <<inputs, table, started, target, checked, timely, retries, held>>

\* The proposal is read: its owner, its approval and its expiry, by the clock.
Load(c) ==
    /\ At(c, "load")
    /\ MayCall(c) /\ age[P(c)] = "live"
    /\ sawApproval' = IF P(c) \in approved THEN sawApproval \cup {c} ELSE sawApproval
    /\ Goto(c, "revision")
    /\ UNCHANGED <<inputs, table, started, target, checked, timely, retries, held>>

LoadRefused(c) ==
    /\ At(c, "load")
    /\ \/ ~MayCall(c) /\ Return(c, "denied")
       \/ MayCall(c) /\ age[P(c)] # "live" /\ Return(c, "expired")

CheckRevision(c) ==
    /\ At(c, "revision") /\ Current(P(c))
    /\ Goto(c, "authorize")
    /\ UNCHANGED <<inputs, table, started, target, sawApproval, checked, timely, retries, held>>

RevisionRefused(c) ==
    /\ At(c, "revision") /\ ~Current(P(c))
    /\ Return(c, "stale")

HasConsent(c) == c \in sawApproval \/ target[c].credential \in Unattended

\* The credential's row says that it is active and what it may do.
Authorize(c) ==
    /\ At(c, "authorize")
    /\ target[c].credential \in active /\ HasConsent(c)
    /\ Goto(c, "sources")
    /\ UNCHANGED <<inputs, table, started, target, sawApproval, checked, timely, retries, held>>

AuthorizeRefused(c) ==
    /\ At(c, "authorize")
    /\ \/ Return(c, "denied")
       \/ target[c].credential \in active /\ ~HasConsent(c) /\ Return(c, "unapproved")

\* One source after the other is compared with the proposal's, and its preflight
\* repeated.
CheckSource(c) ==
    /\ At(c, "sources")
    /\ \E i \in Unchanged(P(c)) \ checked[c] :
          checked' = [checked EXCEPT ![c] = @ \cup {i}]
    /\ UNCHANGED <<inputs, table, started, pc, target, sawApproval, timely, retries, held>>

SourceRefused(c) ==
    /\ At(c, "sources")
    /\ \E i \in ItemsOf[P(c)] \ checked[c], why \in {"stale", "blocked"} :
          (i \notin Unchanged(P(c)) => why = "stale") /\ Return(c, why)

\* Fault: one source is enough.
SomeChecked(c) == checked[c] # {}

AllChecked(c) == checked[c] = ItemsOf[P(c)]

\* Fault: inserted without a look at what is there.
CreateAnyway(c) ==
    /\ At(c, "sources") /\ AllChecked(c)
    /\ started' = started \cup {P(c)}
    /\ Goto(c, "created")
    /\ UNCHANGED <<inputs, table, target, sawApproval, checked, timely, retries, held>>

\* Scheduler.SubmitProposal: the jobs of the proposal are there, or all are
\* inserted in one transaction (whether or not the answer arrives).
Create(c) ==
    /\ At(c, "sources") /\ AllChecked(c)
    /\ P(c) \notin started
    /\ started' = started \cup {P(c)}
    /\ Goto(c, "created")
    /\ UNCHANGED <<inputs, table, target, sawApproval, checked, timely, retries, held>>

FindCreated(c) ==
    /\ At(c, "sources") /\ AllChecked(c)
    /\ P(c) \in started
    /\ Return(c, "answered")

\* The scheduler has stopped, new jobs have no room, or the database fails.
SubmitRefused(c) ==
    /\ At(c, "sources") /\ AllChecked(c)
    /\ Return(c, "failed")

\* The connection or the process goes away, or the database fails.
Abandon(c) ==
    /\ Busy(c)
    /\ Return(c, "abandoned")

-----------------------------------------------------------------------------
(* What else goes on *)

EditProject ==
    /\ revision < MaxRevision
    /\ revision' = revision + 1
    /\ UNCHANGED <<version, active, table, started, calls>>

\* A source is replaced, or comes back.
ChangeSource(i) ==
    /\ \E v \in Version \ {version[i]} :
          /\ version' = [version EXCEPT ![i] = v]
          /\ held' = [c \in Call |->
               IF Busy(c) /\ i \in ItemsOf[P(c)] /\ prepared[P(c)].version[i] = v
               THEN held[c] \cup {i} ELSE held[c]]
    /\ UNCHANGED <<revision, active, table, started, pc, target, sawApproval, checked, timely, retries>>

\* Revoked, or expired.
Deactivate(k) ==
    /\ k \in active
    /\ active' = active \ {k}
    /\ UNCHANGED <<revision, version, table, started, calls>>

TimePasses(p) ==
    /\ p \in saved
    /\ \/ age[p] = "live" /\ age' = [age EXCEPT ![p] = "lapsing"]
       \/ age[p] = "lapsing" /\ age' = [age EXCEPT ![p] = "expired"]
    /\ UNCHANGED <<inputs, prepared, saved, approved, approving, consented, started, calls>>

Proposing(p) ==
    \/ \E k \in Credential : Prepare(p, k)
    \/ PrepareSource(p) \/ SavePrepared(p)
    \/ BeginApprove(p) \/ Approve(p) \/ ApproveRefused(p) \/ TimePasses(p)

Execute(c) ==
    \/ \E p \in Proposal, k \in Credential : Arrive(c, p, k)
    \/ Load(c) \/ LoadRefused(c) \/ CheckRevision(c) \/ RevisionRefused(c)
    \/ Authorize(c) \/ AuthorizeRefused(c) \/ CheckSource(c) \/ SourceRefused(c)
    \/ Create(c) \/ FindCreated(c) \/ SubmitRefused(c) \/ Abandon(c)

Next ==
    \/ \E p \in Proposal : Proposing(p)
    \/ \E c \in Call : Execute(c)
    \/ \E i \in Item : ChangeSource(i)
    \/ \E k \in Credential : Deactivate(k)
    \/ EditProject

Spec == Init /\ [][Next]_vars

-----------------------------------------------------------------------------
(* Properties *)

Validated(p) == [owner : Credential, revision : 0..MaxRevision,
                 version : [ItemsOf[p] -> Version \cup {None}]]

TypeOK ==
    /\ revision \in 1..MaxRevision /\ version \in [Item -> Version] /\ active \subseteq Credential
    /\ DOMAIN prepared = Proposal /\ \A p \in Proposal : prepared[p] \in Validated(p) \cup {None}
    /\ saved \subseteq Proposal /\ age \in [Proposal -> Ages]
    /\ approved \subseteq saved /\ approving \subseteq saved /\ consented \subseteq approved
    /\ started \subseteq saved
    /\ \A p \in saved : prepared[p] # None /\ \A i \in ItemsOf[p] : prepared[p].version[i] \in Version
    /\ pc \in [Call -> {"idle", "created"} \cup Stages \cup Returned]
    /\ DOMAIN target = Call
    /\ \A c \in Call : IF pc[c] \in Stages \cup {"created"}
                       THEN target[c] \in [proposal : saved, credential : Credential]
                       ELSE target[c] = None
    /\ sawApproval \subseteq Call /\ timely \subseteq Call /\ retries \subseteq Call
    /\ checked \in [Call -> SUBSET Item] /\ held \in [Call -> SUBSET Item]

\* Nothing is exported for an assistant that the operator has not approved before
\* the proposal expired, unless its credential needs no approval.  Approve can be
\* late by SQL's comparison of texts; Execute's own look at the clock makes up for it.
Consent ==
    \A p \in started : p \in consented \/ prepared[p].owner \in Unattended

\* A proposal is started only by a call that came while it had not expired, its
\* project was at its revision and the credential was active, and only if each of
\* its sources was the validated one at some time during the call, though Execute
\* reads all of these one after the other and never together.
StartsOnlyWhatHeld ==
    \A c \in Call : pc[c] = "created" => c \in timely /\ held[c] = ItemsOf[P(c)]

\* However many calls race, one of them inserts the jobs of a proposal.
OneBatchPerProposal ==
    \A c, d \in Call : pc[c] = "created" /\ pc[d] = "created" /\ P(c) = P(d) => c = d

\* start_export: "retries return the same jobs".  A call of the owner that comes
\* when the proposal has its jobs is not refused for what Execute would ask of a
\* proposal that has none.
RetriesReturnTheSameJobs ==
    \A c \in retries : pc[c] \notin {"expired", "stale", "unapproved", "blocked"}
=============================================================================
