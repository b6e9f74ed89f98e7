-------------------------- MODULE ProposalsProofs ---------------------------
(***************************************************************************)
(* Theorems about Proposals for every set of proposals, items, credentials *)
(* and calls.                                                              *)
(***************************************************************************)
EXTENDS Proposals, TLAPS

\* Where a call has a target.
Underway == Stages \cup {"created"}

\* Every refusal, a repeated start and an abandoned call are a Return.
LEMMA Returning ==
    ASSUME NEW c \in Call,
           \/ LoadRefused(c) \/ RevisionRefused(c) \/ AuthorizeRefused(c) \/ SourceRefused(c)
           \/ FindCreated(c) \/ SubmitRefused(c) \/ Abandon(c)
    PROVE  \E how \in Returned : Return(c, how)
BY DEF LoadRefused, RevisionRefused, AuthorizeRefused, SourceRefused, FindCreated, SubmitRefused,
       Abandon, Returned

-----------------------------------------------------------------------------
(* Types *)

LEMMA TypesInit == Init => TypeOK
BY ProposalsAssumption DEF Init, TypeOK, Ages, Stages

\* Every step keeps the types.
LEMMA TypesStep == TypeOK /\ [Next]_vars => TypeOK'
<1> SUFFICES ASSUME TypeOK, [Next]_vars PROVE TypeOK'
  OBVIOUS
<1> USE ProposalsAssumption DEF TypeOK, Validated, At, Busy, Goto, P, Stages, Returned, Ages,
            inputs, table, calls
<1>1. ASSUME NEW p \in Proposal, NEW k \in Credential, Prepare(p, k) PROVE TypeOK'
  BY <1>1 DEF Prepare
<1>2. ASSUME NEW p \in Proposal, PrepareSource(p) PROVE TypeOK'
  BY <1>2 DEF PrepareSource
<1>3. ASSUME NEW p \in Proposal, SavePrepared(p) PROVE TypeOK'
  BY <1>3 DEF SavePrepared
<1>4. ASSUME NEW p \in Proposal, BeginApprove(p) PROVE TypeOK'
  BY <1>4 DEF BeginApprove
<1>5. ASSUME NEW p \in Proposal, Approve(p) PROVE TypeOK'
  BY <1>5 DEF Approve
<1>6. ASSUME NEW p \in Proposal, ApproveRefused(p) PROVE TypeOK'
  BY <1>6 DEF ApproveRefused
<1>7. ASSUME NEW p \in Proposal, TimePasses(p) PROVE TypeOK'
  BY <1>7 DEF TimePasses
<1>8. ASSUME NEW c \in Call, NEW p \in Proposal, NEW k \in Credential, Arrive(c, p, k)
     PROVE  TypeOK'
  BY <1>8 DEF Arrive, Unchanged
<1>9. ASSUME NEW c \in Call, Load(c) PROVE TypeOK'
  BY <1>9 DEF Load
<1>10. ASSUME NEW c \in Call, CheckRevision(c) PROVE TypeOK'
  BY <1>10 DEF CheckRevision
<1>11. ASSUME NEW c \in Call, Authorize(c) PROVE TypeOK'
  BY <1>11 DEF Authorize
<1>12. ASSUME NEW c \in Call, CheckSource(c) PROVE TypeOK'
  BY <1>12 DEF CheckSource, Unchanged
<1>13. ASSUME NEW c \in Call, Create(c) PROVE TypeOK'
  BY <1>13 DEF Create
<1>14. ASSUME EditProject PROVE TypeOK'
  BY <1>14 DEF EditProject
<1>15. ASSUME NEW i \in Item, ChangeSource(i) PROVE TypeOK'
  BY <1>15 DEF ChangeSource
<1>16. ASSUME NEW k \in Credential, Deactivate(k) PROVE TypeOK'
  BY <1>16 DEF Deactivate
<1>17. ASSUME NEW c \in Call, NEW how \in Returned, Return(c, how) PROVE TypeOK'
  BY <1>17 DEF Return
<1>18. CASE UNCHANGED vars
  BY <1>18 DEF vars
<1> HIDE DEF TypeOK, Validated, At, Busy, Goto, P, Stages, Returned, Ages, inputs, table, calls
<1> QED
  BY <1>1, <1>2, <1>3, <1>4, <1>5, <1>6, <1>7, <1>8, <1>9, <1>10, <1>11, <1>12, <1>13, <1>14,
     <1>15, <1>16, <1>17, <1>18, Returning DEF Next, Proposing, Execute

-----------------------------------------------------------------------------
(* Approval *)

\* Approved and not expired is approved in time; a call that has read an approval
\* is about such a proposal; and what a call has passed it satisfies, since the
\* owner of a saved proposal and the target of a call do not change.
Approvals ==
    /\ \A p \in approved : age[p] = "live" => p \in consented
    /\ \A c \in sawApproval : pc[c] \in Underway /\ P(c) \in consented
    /\ \A c \in Call : pc[c] \in Stages \ {"load"} => MayCall(c)
    /\ \A c \in Call : pc[c] = "sources" => HasConsent(c)
    /\ Consent

LEMMA ApprovalsInit == Init => Approvals
BY DEF Init, Approvals, Consent, Stages

\* Every step keeps Approvals.
LEMMA ApprovalsStep == TypeOK /\ Approvals /\ [Next]_vars => Approvals'
<1> SUFFICES ASSUME TypeOK, Approvals, [Next]_vars PROVE Approvals'
  OBVIOUS
<1> USE ProposalsAssumption DEF TypeOK, Approvals, Consent, MayCall, HasConsent, At, Busy,
            Goto, P, Underway, Stages, Returned, inputs, table, calls
<1>1. ASSUME NEW p \in Proposal, NEW k \in Credential, Prepare(p, k) PROVE Approvals'
  BY <1>1 DEF Prepare
<1>2. ASSUME NEW p \in Proposal, PrepareSource(p) PROVE Approvals'
  BY <1>2 DEF PrepareSource
<1>3. ASSUME NEW p \in Proposal, SavePrepared(p) PROVE Approvals'
  BY <1>3 DEF SavePrepared
<1>4. ASSUME NEW p \in Proposal, BeginApprove(p) PROVE Approvals'
  BY <1>4 DEF BeginApprove
<1>5. ASSUME NEW p \in Proposal, Approve(p) PROVE Approvals'
  BY <1>5 DEF Approve
<1>6. ASSUME NEW p \in Proposal, ApproveRefused(p) PROVE Approvals'
  BY <1>6 DEF ApproveRefused
<1>7. ASSUME NEW p \in Proposal, TimePasses(p) PROVE Approvals'
  BY <1>7 DEF TimePasses
<1>8. ASSUME NEW c \in Call, NEW p \in Proposal, NEW k \in Credential, Arrive(c, p, k)
     PROVE  Approvals'
  BY <1>8 DEF Arrive
<1>9. ASSUME NEW c \in Call, Load(c) PROVE Approvals'
  BY <1>9 DEF Load
<1>10. ASSUME NEW c \in Call, CheckRevision(c) PROVE Approvals'
  BY <1>10 DEF CheckRevision
<1>11. ASSUME NEW c \in Call, Authorize(c) PROVE Approvals'
  BY <1>11 DEF Authorize
<1>12. ASSUME NEW c \in Call, CheckSource(c) PROVE Approvals'
  BY <1>12 DEF CheckSource
<1>13. ASSUME NEW c \in Call, Create(c) PROVE Approvals'
  BY <1>13 DEF Create
<1>14. ASSUME EditProject PROVE Approvals'
  BY <1>14 DEF EditProject
<1>15. ASSUME NEW i \in Item, ChangeSource(i) PROVE Approvals'
  BY <1>15 DEF ChangeSource
<1>16. ASSUME NEW k \in Credential, Deactivate(k) PROVE Approvals'
  BY <1>16 DEF Deactivate
<1>17. ASSUME NEW c \in Call, NEW how \in Returned, Return(c, how) PROVE Approvals'
  BY <1>17 DEF Return
<1>18. CASE UNCHANGED vars
  BY <1>18 DEF vars
<1> HIDE DEF TypeOK, Approvals, Consent, MayCall, HasConsent, At, Busy, Goto, P, Underway,
            Stages, Returned, inputs, table, calls
<1> QED
  BY <1>1, <1>2, <1>3, <1>4, <1>5, <1>6, <1>7, <1>8, <1>9, <1>10, <1>11, <1>12, <1>13, <1>14,
     <1>15, <1>16, <1>17, <1>18, Returning DEF Next, Proposing, Execute

-----------------------------------------------------------------------------
(* Time, revision and credential *)

\* What a call that came too late has yet to fail at.  None of the three comes back:
\* time passes, revisions grow beyond the validated one, credentials stay inactive.
Timeliness ==
    /\ \A p \in Proposal : prepared[p] # None => prepared[p].revision <= revision
    /\ \A c \in Call : pc[c] \in Underway /\ c \notin timely =>
          \/ pc[c] = "load" /\ age[P(c)] # "live"
          \/ pc[c] \in {"load", "revision"} /\ ~Current(P(c))
          \/ pc[c] \in {"load", "revision", "authorize"} /\ target[c].credential \notin active

LEMMA TimelinessInit == Init => Timeliness
BY DEF Init, Timeliness, Underway, Stages

\* Every step keeps Timeliness.
LEMMA TimelinessStep == TypeOK /\ Timeliness /\ [Next]_vars => Timeliness'
<1> SUFFICES ASSUME TypeOK, Timeliness, [Next]_vars PROVE Timeliness'
  OBVIOUS
<1> USE ProposalsAssumption DEF TypeOK, Timeliness, Validated, Current, Ages, At, Busy, Goto,
            P, Underway, Stages, Returned, inputs, table, calls
<1>1. ASSUME NEW p \in Proposal, NEW k \in Credential, Prepare(p, k) PROVE Timeliness'
  BY <1>1 DEF Prepare
<1>2. ASSUME NEW p \in Proposal, PrepareSource(p) PROVE Timeliness'
  BY <1>2 DEF PrepareSource
<1>3. ASSUME NEW p \in Proposal, SavePrepared(p) PROVE Timeliness'
  BY <1>3 DEF SavePrepared
<1>4. ASSUME NEW p \in Proposal, BeginApprove(p) PROVE Timeliness'
  BY <1>4 DEF BeginApprove
<1>5. ASSUME NEW p \in Proposal, Approve(p) PROVE Timeliness'
  BY <1>5 DEF Approve
<1>6. ASSUME NEW p \in Proposal, ApproveRefused(p) PROVE Timeliness'
  BY <1>6 DEF ApproveRefused
<1>7. ASSUME NEW p \in Proposal, TimePasses(p) PROVE Timeliness'
  BY <1>7 DEF TimePasses
<1>8. ASSUME NEW c \in Call, NEW p \in Proposal, NEW k \in Credential, Arrive(c, p, k)
     PROVE  Timeliness'
  BY <1>8 DEF Arrive
<1>9. ASSUME NEW c \in Call, Load(c) PROVE Timeliness'
  BY <1>9 DEF Load
<1>10. ASSUME NEW c \in Call, CheckRevision(c) PROVE Timeliness'
  BY <1>10 DEF CheckRevision
<1>11. ASSUME NEW c \in Call, Authorize(c) PROVE Timeliness'
  BY <1>11 DEF Authorize
<1>12. ASSUME NEW c \in Call, CheckSource(c) PROVE Timeliness'
  BY <1>12 DEF CheckSource
<1>13. ASSUME NEW c \in Call, Create(c) PROVE Timeliness'
  BY <1>13 DEF Create
<1>14. ASSUME EditProject PROVE Timeliness'
  BY <1>14 DEF EditProject
<1>15. ASSUME NEW i \in Item, ChangeSource(i) PROVE Timeliness'
  BY <1>15 DEF ChangeSource
<1>16. ASSUME NEW k \in Credential, Deactivate(k) PROVE Timeliness'
  BY <1>16 DEF Deactivate
<1>17. ASSUME NEW c \in Call, NEW how \in Returned, Return(c, how) PROVE Timeliness'
  BY <1>17 DEF Return
<1>18. CASE UNCHANGED vars
  BY <1>18 DEF vars
<1> HIDE DEF TypeOK, Timeliness, Validated, Current, Ages, At, Busy, Goto, P, Underway, Stages,
            Returned, inputs, table, calls
<1> QED
  BY <1>1, <1>2, <1>3, <1>4, <1>5, <1>6, <1>7, <1>8, <1>9, <1>10, <1>11, <1>12, <1>13, <1>14,
     <1>15, <1>16, <1>17, <1>18, Returning DEF Next, Proposing, Execute

-----------------------------------------------------------------------------
(* Sources *)

\* What a call finds unchanged was unchanged during the call.
Comparisons ==
    \A c \in Call :
      /\ pc[c] \notin Underway => checked[c] = {}
      /\ pc[c] \in Stages => Unchanged(P(c)) \subseteq held[c]
      /\ pc[c] \in Underway => checked[c] \subseteq held[c] /\ held[c] \subseteq ItemsOf[P(c)]
      /\ pc[c] = "created" => AllChecked(c)

LEMMA ComparisonsInit == Init => Comparisons
<1> SUFFICES ASSUME Init, NEW c \in Call PROVE pc[c] = "idle" /\ checked[c] = {}
  BY DEF Comparisons, Underway, Stages
<1> QED
  BY DEF Init

\* Every step keeps Comparisons.
LEMMA ComparisonsStep == TypeOK /\ Comparisons /\ [Next]_vars => Comparisons'
<1> SUFFICES ASSUME TypeOK, Comparisons, [Next]_vars PROVE Comparisons'
  OBVIOUS
<1> USE ProposalsAssumption DEF TypeOK, Comparisons, Unchanged, AllChecked, At, Busy, Goto, P,
            Underway, Stages, Returned, inputs, table, calls
<1>1. ASSUME NEW p \in Proposal, NEW k \in Credential, Prepare(p, k) PROVE Comparisons'
  BY <1>1 DEF Prepare
<1>2. ASSUME NEW p \in Proposal, PrepareSource(p) PROVE Comparisons'
  BY <1>2 DEF PrepareSource
<1>3. ASSUME NEW p \in Proposal, SavePrepared(p) PROVE Comparisons'
  BY <1>3 DEF SavePrepared
<1>4. ASSUME NEW p \in Proposal, BeginApprove(p) PROVE Comparisons'
  BY <1>4 DEF BeginApprove
<1>5. ASSUME NEW p \in Proposal, Approve(p) PROVE Comparisons'
  BY <1>5 DEF Approve
<1>6. ASSUME NEW p \in Proposal, ApproveRefused(p) PROVE Comparisons'
  BY <1>6 DEF ApproveRefused
<1>7. ASSUME NEW p \in Proposal, TimePasses(p) PROVE Comparisons'
  BY <1>7 DEF TimePasses
<1>8. ASSUME NEW c \in Call, NEW p \in Proposal, NEW k \in Credential, Arrive(c, p, k)
     PROVE  Comparisons'
  BY <1>8 DEF Arrive
<1>9. ASSUME NEW c \in Call, Load(c) PROVE Comparisons'
  BY <1>9 DEF Load
<1>10. ASSUME NEW c \in Call, CheckRevision(c) PROVE Comparisons'
  BY <1>10 DEF CheckRevision
<1>11. ASSUME NEW c \in Call, Authorize(c) PROVE Comparisons'
  BY <1>11 DEF Authorize
<1>12. ASSUME NEW c \in Call, CheckSource(c) PROVE Comparisons'
  BY <1>12 DEF CheckSource
<1>13. ASSUME NEW c \in Call, Create(c) PROVE Comparisons'
  BY <1>13 DEF Create
<1>14. ASSUME EditProject PROVE Comparisons'
  BY <1>14 DEF EditProject
<1>15. ASSUME NEW i \in Item, ChangeSource(i) PROVE Comparisons'
  BY <1>15 DEF ChangeSource
<1>16. ASSUME NEW k \in Credential, Deactivate(k) PROVE Comparisons'
  BY <1>16 DEF Deactivate
<1>17. ASSUME NEW c \in Call, NEW how \in Returned, Return(c, how) PROVE Comparisons'
  BY <1>17 DEF Return
<1>18. CASE UNCHANGED vars
  BY <1>18 DEF vars
<1> HIDE DEF TypeOK, Comparisons, Unchanged, AllChecked, At, Busy, Goto, P, Underway, Stages, Returned, inputs, table, calls
<1> QED
  BY <1>1, <1>2, <1>3, <1>4, <1>5, <1>6, <1>7, <1>8, <1>9, <1>10, <1>11, <1>12, <1>13, <1>14,
     <1>15, <1>16, <1>17, <1>18, Returning DEF Next, Proposing, Execute

-----------------------------------------------------------------------------
(* Batches *)

\* The call that inserts the jobs leaves them for the others to find.
Batches ==
    /\ \A c \in Call : pc[c] = "created" => P(c) \in started
    /\ OneBatchPerProposal

LEMMA BatchesInit == Init => Batches
BY DEF Init, Batches, OneBatchPerProposal

\* Every step keeps Batches.
LEMMA BatchesStep == TypeOK /\ Batches /\ [Next]_vars => Batches'
<1> SUFFICES ASSUME TypeOK, Batches, [Next]_vars PROVE Batches'
  OBVIOUS
<1> USE DEF TypeOK, Batches, OneBatchPerProposal, At, Busy, Goto, P, Underway, Stages,
            Returned, inputs, table, calls
<1>1. ASSUME NEW p \in Proposal, NEW k \in Credential, Prepare(p, k) PROVE Batches'
  BY <1>1 DEF Prepare
<1>2. ASSUME NEW p \in Proposal, PrepareSource(p) PROVE Batches'
  BY <1>2 DEF PrepareSource
<1>3. ASSUME NEW p \in Proposal, SavePrepared(p) PROVE Batches'
  BY <1>3 DEF SavePrepared
<1>4. ASSUME NEW p \in Proposal, BeginApprove(p) PROVE Batches'
  BY <1>4 DEF BeginApprove
<1>5. ASSUME NEW p \in Proposal, Approve(p) PROVE Batches'
  BY <1>5 DEF Approve
<1>6. ASSUME NEW p \in Proposal, ApproveRefused(p) PROVE Batches'
  BY <1>6 DEF ApproveRefused
<1>7. ASSUME NEW p \in Proposal, TimePasses(p) PROVE Batches'
  BY <1>7 DEF TimePasses
<1>8. ASSUME NEW c \in Call, NEW p \in Proposal, NEW k \in Credential, Arrive(c, p, k)
     PROVE  Batches'
  BY <1>8 DEF Arrive
<1>9. ASSUME NEW c \in Call, Load(c) PROVE Batches'
  BY <1>9 DEF Load
<1>10. ASSUME NEW c \in Call, CheckRevision(c) PROVE Batches'
  BY <1>10 DEF CheckRevision
<1>11. ASSUME NEW c \in Call, Authorize(c) PROVE Batches'
  BY <1>11 DEF Authorize
<1>12. ASSUME NEW c \in Call, CheckSource(c) PROVE Batches'
  BY <1>12 DEF CheckSource
<1>13. ASSUME NEW c \in Call, Create(c) PROVE Batches'
  BY <1>13 DEF Create
<1>14. ASSUME EditProject PROVE Batches'
  BY <1>14 DEF EditProject
<1>15. ASSUME NEW i \in Item, ChangeSource(i) PROVE Batches'
  BY <1>15 DEF ChangeSource
<1>16. ASSUME NEW k \in Credential, Deactivate(k) PROVE Batches'
  BY <1>16 DEF Deactivate
<1>17. ASSUME NEW c \in Call, NEW how \in Returned, Return(c, how) PROVE Batches'
  BY <1>17 DEF Return
<1>18. CASE UNCHANGED vars
  BY <1>18 DEF vars
<1> HIDE DEF TypeOK, Batches, OneBatchPerProposal, At, Busy, Goto, P, Underway, Stages,
            Returned, inputs, table, calls
<1> QED
  BY <1>1, <1>2, <1>3, <1>4, <1>5, <1>6, <1>7, <1>8, <1>9, <1>10, <1>11, <1>12, <1>13, <1>14,
     <1>15, <1>16, <1>17, <1>18, Returning DEF Next, Proposing, Execute

-----------------------------------------------------------------------------
(* Theorems *)

\* What is saved is complete, what is approved or started is saved, and every call
\* under way is about a saved proposal.
THEOREM TypeCorrect == Spec => []TypeOK
BY TypesInit, TypesStep, PTL DEF Spec

\* Nothing is exported without an approval in time or a credential that needs none.
THEOREM Consented == Spec => []Consent
<1>1. TypeOK /\ Approvals /\ [Next]_vars => (TypeOK /\ Approvals)'
  BY TypesStep, ApprovalsStep
<1>2. Approvals => Consent
  BY DEF Approvals
<1> QED BY TypesInit, ApprovalsInit, <1>1, <1>2, PTL DEF Spec

\* What is started could be started when the call came, and its sources were the
\* validated ones.
THEOREM HeldWhenStarted == Spec => []StartsOnlyWhatHeld
<1> DEFINE I == TypeOK /\ Timeliness /\ Comparisons
<1>1. Init => I
  BY TypesInit, TimelinessInit, ComparisonsInit
<1>2. I /\ [Next]_vars => I'
  BY TypesStep, TimelinessStep, ComparisonsStep
<1>3. I => StartsOnlyWhatHeld
  <2> SUFFICES ASSUME I, NEW c \in Call, pc[c] = "created"
               PROVE  c \in timely /\ held[c] = ItemsOf[P(c)]
    BY DEF StartsOnlyWhatHeld
  <2>1. c \in timely
    BY DEF Timeliness, Underway
  <2>2. held[c] = ItemsOf[P(c)]
    BY DEF Comparisons, AllChecked, Underway
  <2> QED BY <2>1, <2>2
<1> HIDE DEF I
<1> QED BY <1>1, <1>2, <1>3, PTL DEF Spec

\* The jobs of a proposal are inserted at most once.
THEOREM OneBatch == Spec => []OneBatchPerProposal
<1>1. TypeOK /\ Batches /\ [Next]_vars => (TypeOK /\ Batches)'
  BY TypesStep, BatchesStep
<1>2. Batches => OneBatchPerProposal
  BY DEF Batches
<1> QED BY TypesInit, BatchesInit, <1>1, <1>2, PTL DEF Spec

=============================================================================
