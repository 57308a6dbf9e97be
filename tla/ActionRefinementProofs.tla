----------------------- MODULE ActionRefinementProofs -----------------------
(***************************************************************************)
(* Under the documented operation, execution with its crashes, retries and *)
(* reconciliations implements the write-once specification ExternalWrite,  *)
(* and no step takes a receipt back.                                       *)
(***************************************************************************)
EXTENDS ActionExecutionProofs

\* No step of the documented operation takes a succeeded row back.
LEMMA ReceiptStep ==
    ASSUME QInv, [Next]_vars
    PROVE  \A k \in Keys : row[k].status = "succeeded" => row'[k].status = "succeeded"
<1> SUFFICES ASSUME NEW k \in Keys, row[k].status = "succeeded"
             PROVE  row'[k].status = "succeeded"
  OBVIOUS
<1> USE DEF QInv, Inv, TypeInv, TypeOK
<1>0. /\ net[k] = "created"
      /\ executor[k] \notin {"claimed", "running", "posting"}
      /\ row[k] # NoRow
  BY DEF RowInv, QuiescentRow, NoRow
<1>1. CASE UNCHANGED row
  BY <1>1
<1>2. ASSUME NEW p \in Proposals, NEW j \in Keys, NEW u \in Users, Claim(p, j, u)
      PROVE  row'[k].status = "succeeded"
  <2>1. row[j] = NoRow
    BY <1>2, ClaimFacts
  <2>2. row'[k] = row[k]
    BY <1>0, <1>2, <2>1 DEF Claim
  <2>3. QED
    BY <2>2
<1>3. ASSUME NEW j \in Keys, ExecutorStep(j)
      PROVE  row'[k].status = "succeeded"
  BY <1>0, <1>3 DEF ExecutorStep, TokenUnavailable, Start, EvidenceLost, FailBeforeProvider,
       PostIssue, Succeed, MarkUncertain, IndexConflict, SetStatus
<1>4. ASSUME NEW s \in Syncers, SyncRecord(s)
      PROVE  row'[k].status = "succeeded"
  <2>1. CASE SyncRecordSuccess(s)
    BY <2>1, RowFacts DEF SyncRecordSuccess, Rows
  <2>2. CASE SyncRecordNotWritten(s)
    <3>1. sync[s].key # k
      BY <1>0, <2>2 DEF SyncRecordNotWritten, ConcludesNotWritten, QuiescentSyncer, Live
    <3>2. QED
      BY <2>2, <3>1 DEF SyncRecordNotWritten
  <2>3. QED
    BY <1>4, <2>1, <2>2 DEF SyncRecord
<1>5. QED
  BY <1>1, <1>2, <1>3, <1>4 DEF Next, vars, executionVars, Crash, ProviderCreates, ProviderDrops,
       GraceElapses, SyncRead, SyncAnswer, SyncRefresh, SyncList, SyncAborts, ConnectionChanges

\* A recorded receipt is never overwritten.
THEOREM ReceiptIsFinalTheorem ==
    ASSUME QuiescentSync, BoundedDelay
    PROVE  Spec => ReceiptIsFinal
<1>1. QInv /\ [Next]_vars =>
        [\A k \in Keys : row[k].status = "succeeded" => row'[k].status = "succeeded"]_vars
  BY ReceiptStep
<1>2. QED
  BY <1>1, QuiescentInvariance, PTL DEF Spec, ReceiptIsFinal

-----------------------------------------------------------------------------
(* The refinement mapping of module ActionExecution, by name.              *)

Verdict == [p \in Proposals |-> IF status[p] = "executed" THEN "approved" ELSE status[p]]
Written == {pk \in Proposals \X Keys : row[pk[2]].proposal = pk[1] /\ net[pk[2]] = "created"}
Executed == {p \in Proposals : status[p] = "executed"}

\* The initial states are initial states of ExternalWrite.
LEMMA RefinementInit == Init => Abstract!Init
BY DEF Init, ProposalInit, Abstract!Init

\* Steps that neither touch a proposal's status nor create an issue stutter.
LEMMA RefinementStutter ==
    ASSUME TypeInv, UNCHANGED <<status, net>>,
           \A k \in Keys : net[k] = "created" => row'[k].proposal = row[k].proposal
    PROVE  UNCHANGED <<Verdict, Written, Executed>>
<1>1. Written' = Written
  BY DEF Written
<1>2. QED
  BY <1>1 DEF Verdict, Executed

\* Decisions are rulings on the proposals they decide.
LEMMA RefinementProposal ==
    ASSUME QInv, ProposalNext, UNCHANGED executionVars
    PROVE  \/ UNCHANGED <<Verdict, Written, Executed>>
           \/ \E p \in Proposals : Abstract!Submit(p)
           \/ \E B \in SUBSET Proposals, v \in Decisions : Abstract!Rule(B, v)
<1> USE DEF QInv, Inv, TypeInv, TypeOK, ProposalTypeOK
<1>0. Written' = Written
  BY DEF Written, executionVars
<1>1. ASSUME NEW p \in Proposals, CreateProposal(p)
      PROVE  Abstract!Submit(p)
  <2>1. Executed' = Executed /\ Verdict' = [Verdict EXCEPT ![p] = "proposed"] /\ Verdict[p] = "absent"
    BY <1>1 DEF CreateProposal, Executed, Verdict
  <2>2. QED
    BY <1>0, <2>1 DEF Abstract!Submit, Executed, Verdict, Written
<1>2. ASSUME NEW p \in Proposals, EvidenceChanges(p)
      PROVE  UNCHANGED <<Verdict, Written, Executed>>
  BY <1>0, <1>2 DEF EvidenceChanges, Executed, Verdict
<1>3. ASSUME NEW A \in SUBSET Proposals, NEW cmd, ApplyDecisions(A, cmd), NEW v \in Decisions,
             \A p \in A : cmd[p].decision = v /\ status[p] = "proposed"
      PROVE  Abstract!Rule(A, v)
  <2>1. \A p \in A : Verdict[p] = "proposed"
    BY <1>3 DEF Verdict
  <2>2. Verdict' = [p \in Proposals |-> IF p \in A THEN v ELSE Verdict[p]]
    BY <1>3 DEF ApplyDecisions, Verdict, Decisions
  <2>3. Executed' = Executed
    BY <1>3 DEF ApplyDecisions, Executed, Decisions
  <2>4. QED
    BY <1>0, <2>1, <2>2, <2>3 DEF Abstract!Rule, Executed, Verdict, Written
<1>4. \A p \in Proposals, c \in Commands :
         DecisionOutcome(p, c) = "applied" => status[p] = "proposed"
  BY DEF DecisionOutcome, ReplayOutcome, Decidable
<1>5. ASSUME NEW p \in Proposals, NEW c \in Commands, Decide(p, c)
      PROVE  Abstract!Rule({p}, c.decision) /\ c.decision \in Decisions
  <2> DEFINE cmd == [q \in {p} |-> c]
  <2>1. c.decision \in Decisions
    BY DEF Commands
  <2>2. ApplyDecisions({p}, cmd) /\ status[p] = "proposed" /\ cmd[p].decision = c.decision
    BY <1>4, <1>5 DEF Decide
  <2> HIDE DEF cmd
  <2>3. QED
    BY <1>3, <2>1, <2>2
<1>6. ASSUME NEW B \in SUBSET Proposals, NEW d \in Decisions, NEW u \in Users,
             NEW cmd \in [B -> {c \in Commands : c.decision = d /\ c.user = u}],
             BulkDecide(B, cmd)
      PROVE  \E A \in SUBSET Proposals : Abstract!Rule(A, d)
  <2> DEFINE A == {p \in B : DecisionOutcome(p, cmd[p]) = "applied"}
  <2>1. ApplyDecisions(A, cmd)
    BY <1>6 DEF BulkDecide
  <2>2. \A p \in A : cmd[p].decision = d /\ status[p] = "proposed"
    BY <1>4, <1>6
  <2>3. Abstract!Rule(A, d)
    BY <1>3, <2>1, <2>2
  <2>4. QED
    BY <2>3
<1>7. CASE \E p \in Proposals : CreateProposal(p) \/ EvidenceChanges(p)
  BY <1>1, <1>2, <1>7
<1>8. CASE \E p \in Proposals, c \in Commands : Decide(p, c)
  <2>1. PICK p \in Proposals, c \in Commands : Decide(p, c)
    BY <1>8
  <2>2. Abstract!Rule({p}, c.decision) /\ c.decision \in Decisions /\ {p} \in SUBSET Proposals
    BY <1>5, <2>1
  <2>3. QED
    BY <2>2
<1>9. CASE \E B \in SUBSET Proposals, d \in Decisions, u \in Users :
             \E cmd \in [B -> {c \in Commands : c.decision = d /\ c.user = u}] : BulkDecide(B, cmd)
  BY <1>6, <1>9
<1>10. QED
  BY <1>7, <1>8, <1>9 DEF ProposalNext

\* GitHub creating an issue is the one write of its proposal.
LEMMA RefinementWrite ==
    ASSUME QInv, NEW k \in Keys, ProviderCreates(k)
    PROVE  \E p \in Proposals : Abstract!Write(p, k)
<1> USE DEF QInv, Inv, TypeInv, TypeOK
<1> DEFINE p == row[k].proposal
<1>1. /\ net[k] = "inflight"
      /\ row[k] \in Rows
      /\ p \in Proposals
      /\ status[p] \in {"approved", "executed"}
      /\ row[k].status \in ActiveOrSucceeded
  BY RowFacts DEF ProviderCreates, RowInv, QuiescentRow, Live, ActiveOrSucceeded, RowStatus
<1>2. \A j \in Keys : <<p, j>> \notin Written
  BY <1>1 DEF Written, OneActiveExecution, QuiescentRow, Live, ActiveOrSucceeded, RowStatus
<1>3. Written' = Written \cup {<<p, k>>}
  BY <1>1 DEF ProviderCreates, Written
<1>4. Verdict[p] = "approved" /\ UNCHANGED <<Verdict, Executed>>
  BY <1>1 DEF ProviderCreates, proposalVars, Verdict, Executed
<1>5. QED
  BY <1>1, <1>2, <1>3, <1>4 DEF Abstract!Write, Verdict, Written, Executed

\* Recording a receipt acknowledges a written issue.
LEMMA RefinementAcknowledge ==
    ASSUME QInv, NEW k \in Keys, net[k] = "created", row[k] \in Rows,
           NEW old, SetProposalStatus(row[k].proposal, old, "executed"), UNCHANGED net,
           \A j \in Keys : row'[j].proposal = row[j].proposal
    PROVE  \/ UNCHANGED <<Verdict, Written, Executed>>
           \/ \E p \in Proposals : Abstract!Acknowledge(p)
<1> USE DEF QInv, Inv, TypeInv, TypeOK, ProposalTypeOK
<1> DEFINE p == row[k].proposal
<1>1. p \in Proposals /\ status[p] \in {"approved", "executed"} /\ <<p, k>> \in Written
  BY RowFacts DEF RowInv, Written
<1>2. Written' = Written
  BY DEF Written
<1>3. CASE old = "executed"
  BY <1>2, <1>3 DEF SetProposalStatus, Verdict, Executed
<1>4. CASE old # "executed"
  <2>1. status' = [status EXCEPT ![p] = "executed"]
    BY <1>4 DEF SetProposalStatus
  <2>2. Verdict' = Verdict /\ Executed' = Executed \cup {p}
    BY <1>1, <2>1 DEF Verdict, Executed
  <2>3. QED
    BY <1>1, <1>2, <2>2 DEF Abstract!Acknowledge, Verdict, Written, Executed
<1>5. QED
  BY <1>3, <1>4

\* Every step implements a step of ExternalWrite or a stuttering one.
LEMMA RefinementStep ==
    ASSUME QInv, [Next]_vars
    PROVE  [Abstract!Next]_<<Verdict, Written, Executed>>
<1> USE DEF QInv, Inv, TypeInv, TypeOK
<1>1. CASE ProposalNext /\ UNCHANGED executionVars
  BY <1>1, RefinementProposal DEF Abstract!Next, Decisions
<1>2. ASSUME NEW p \in Proposals, NEW k \in Keys, NEW u \in Users, Claim(p, k, u)
      PROVE  UNCHANGED <<Verdict, Written, Executed>>
  <2>1. net[k] # "created"
    BY <1>2, ClaimFacts, RowFacts DEF RowInv
  <2>2. QED
    BY <1>2, <2>1, RefinementStutter DEF Claim, proposalVars
<1>3. ASSUME NEW k \in Keys, ExecutorStep(k) \/ Crash(k)
      PROVE  [Abstract!Next]_<<Verdict, Written, Executed>>
  <2>1. CASE Succeed(k)
    <3>1. row[k] \in Rows /\ \A j \in Keys : row'[j].proposal = row[j].proposal
      BY <2>1 DEF Succeed, SetStatus, Rows
    <3>2. QED
      BY <2>1, <3>1, RefinementAcknowledge DEF Succeed, Abstract!Next
  <2>2. CASE PostIssue(k)
    <3>1. net[k] # "created" /\ net'[k] # "created" /\ UNCHANGED <<row, status>>
      BY <2>2 DEF PostIssue, RowInv, proposalVars
    <3>2. Written' = Written
      BY <2>2, <3>1 DEF PostIssue, Written
    <3>3. QED
      BY <3>1, <3>2 DEF Verdict, Executed
  <2>3. ASSUME UNCHANGED <<proposalVars, net>>,
               row' = row \/ \E st \in RowStatus : row' = [row EXCEPT ![k].status = st],
               row[k] \in Rows
        PROVE  UNCHANGED <<Verdict, Written, Executed>>
    BY <2>3, RefinementStutter DEF proposalVars, Rows
  <2>4. QED
    BY <1>3, <2>1, <2>2, <2>3 DEF ExecutorStep, TokenUnavailable, Start, EvidenceLost,
         FailBeforeProvider, MarkUncertain, IndexConflict, Crash, SetStatus, RowStatus
<1>4. ASSUME NEW k \in Keys, ProviderCreates(k)
      PROVE  Abstract!Next
  BY <1>4, RefinementWrite DEF Abstract!Next
<1>5. ASSUME NEW k \in Keys, ProviderDrops(k)
      PROVE  UNCHANGED <<Verdict, Written, Executed>>
  <2>1. Written' = Written
    BY <1>5 DEF ProviderDrops, Written
  <2>2. QED
    BY <1>5, <2>1 DEF ProviderDrops, proposalVars, Verdict, Executed
<1>6. ASSUME UNCHANGED <<proposalVars, row, net>>
      PROVE  UNCHANGED <<Verdict, Written, Executed>>
  BY <1>6, RefinementStutter DEF proposalVars
<1>7. ASSUME NEW s \in Syncers, SyncRecordSuccess(s)
      PROVE  [Abstract!Next]_<<Verdict, Written, Executed>>
  <2> DEFINE k == sync[s].key
  <2>1. k \in Keys /\ row[k] \in Rows /\ net[k] = "created"
    BY <1>7, RowFacts DEF SyncRecordSuccess, SyncInv
  <2>2. \A j \in Keys : row'[j].proposal = row[j].proposal
    BY <1>7, <2>1 DEF SyncRecordSuccess, Rows
  <2>3. QED
    BY <1>7, <2>1, <2>2, RefinementAcknowledge DEF SyncRecordSuccess, Abstract!Next
<1>8. ASSUME NEW s \in Syncers, SyncRecordNotWritten(s)
      PROVE  UNCHANGED <<Verdict, Written, Executed>>
  <2> DEFINE k == sync[s].key
  <2>1. k \in Keys /\ row[k] \in Rows
    BY <1>8, RowFacts DEF SyncRecordNotWritten, ConcludesNotWritten
  <2>2. sync[s].pstatus = "approved"
    BY <1>8 DEF SyncRecordNotWritten, ConcludesNotWritten, QuiescentSyncer, Live
  <2>3. status' = status
    BY <1>8, <2>1, <2>2 DEF SyncRecordNotWritten, SetProposalStatus, ProposalTypeOK
  <2>4. \A j \in Keys : row'[j].proposal = row[j].proposal
    BY <1>8, <2>1 DEF SyncRecordNotWritten, Rows
  <2>5. QED
    BY <1>8, <2>3, <2>4, RefinementStutter DEF SyncRecordNotWritten
<1>9. QED
  BY <1>1, <1>2, <1>3, <1>4, <1>5, <1>6, <1>7, <1>8
     DEF Next, vars, executionVars, GraceElapses, ConnectionChanges, SyncRead, SyncAnswer,
         SyncRefresh, SyncList, SyncRecord, SyncAborts

\* Reconciled after the fact and with effects that settle in time, the execution
\* machinery is a write-once external write per approved proposal.
THEOREM RefinementTheorem ==
    ASSUME QuiescentSync, BoundedDelay
    PROVE  Spec => RefinesExternalWrite
<1>1. QInv /\ [Next]_vars => [Abstract!Next]_<<Verdict, Written, Executed>>
  BY RefinementStep
<1>2. QInv /\ [Next]_vars => [Abstract!Next]_(Abstract!vars)
  BY <1>1 DEF Abstract!vars, Verdict, Written, Executed
<1>3. QED
  BY <1>2, RefinementInit, QuiescentInvariance, PTL DEF Spec, RefinesExternalWrite, Abstract!Spec
=============================================================================
