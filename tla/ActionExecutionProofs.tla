------------------------ MODULE ActionExecutionProofs ------------------------
(***************************************************************************)
(* Proofs about ActionExecution, for every set of proposals, keys, users   *)
(* and reconciliation requests.                                            *)
(***************************************************************************)
EXTENDS ActionExecution, TLAPS

-----------------------------------------------------------------------------
(* Type correctness.                                                       *)

\* The empty database of Init has the declared types.
LEMMA InitType == Init => TypeOK
BY ExecutionAssumption DEF Init, ProposalInit, TypeOK, ProposalTypeOK, ProposalStatus

\* Proposal creation, decisions and changes of evidence keep the proposal types.
LEMMA ProposalTypeStep ==
    ASSUME ProposalTypeOK, ProposalNext
    PROVE  ProposalTypeOK'
<1>1. ASSUME NEW p \in Proposals, CreateProposal(p) \/ EvidenceChanges(p)
      PROVE  ProposalTypeOK'
  BY <1>1 DEF CreateProposal, EvidenceChanges, ProposalTypeOK, ProposalStatus
<1>2. ASSUME NEW A \in SUBSET Proposals, NEW cmd,
             \A p \in A : cmd[p] \in Commands, ApplyDecisions(A, cmd)
      PROVE  ProposalTypeOK'
  <2>1. \A p \in A : cmd[p].decision \in Decisions
    BY <1>2 DEF Commands
  <2>2. status' \in [Proposals -> ProposalStatus]
    BY <1>2, <2>1 DEF ApplyDecisions, ProposalTypeOK, ProposalStatus, Decisions
  <2>3. updatedAt' \in [Proposals -> Nat]
    BY <1>2 DEF ApplyDecisions, ProposalTypeOK
  <2>4. ruling' \in [Proposals -> Commands \cup {None}]
    BY <1>2 DEF ApplyDecisions, ProposalTypeOK
  <2>5. memory' \in [Proposals -> SUBSET {"created", "approved", "rejected"}]
    BY <1>2, <2>1 DEF ApplyDecisions, ProposalTypeOK, Decisions
  <2>6. QED
    BY <1>2, <2>2, <2>3, <2>4, <2>5 DEF ApplyDecisions, ProposalTypeOK
<1>3. ASSUME NEW p \in Proposals, NEW c \in Commands, Decide(p, c)
      PROVE  ProposalTypeOK'
  BY <1>2, <1>3 DEF Decide
<1>4. ASSUME NEW B \in SUBSET Proposals, NEW d \in Decisions, NEW u \in Users,
             NEW cmd \in [B -> {c \in Commands : c.decision = d /\ c.user = u}],
             BulkDecide(B, cmd)
      PROVE  ProposalTypeOK'
  BY <1>2, <1>4 DEF BulkDecide
<1>5. QED
  BY <1>1, <1>3, <1>4 DEF ProposalNext

\* Types are kept because a request works only on a row that exists.
TypeInv ==
    /\ TypeOK
    /\ \A k \in Keys : executor[k] # "idle" => row[k] \in Rows
    /\ \A s \in Syncers : sync[s].pc # "idle" => row[sync[s].key] \in Rows

\* Every step of a request, of GitHub or of an operator keeps the types.
LEMMA TypeStep ==
    ASSUME TypeInv, [Next]_vars
    PROVE  TypeInv'
<1> USE DEF TypeInv, TypeOK
<1>a. \A r \in Rows : r.proposal \in Proposals /\ r # NoRow
  BY DEF Rows, NoRow, RowStatus
<1>b. \A r \in Rows, st \in RowStatus :
         [r EXCEPT !.status = st] \in Rows
  BY DEF Rows
<1>c. \A r \in Rows, st \in RowStatus :
         [r EXCEPT !.status = st, !.reconciled = TRUE] \in Rows
  BY DEF Rows
<1>d. ASSUME NEW k \in Keys, NEW e \in EventTypes, Record(k, e)
      PROVE  audit' \in [Keys -> SUBSET EventTypes]
  BY <1>d DEF Record
<1>e. {"claimed", "started", "failed", "uncertain", "succeeded", "reconciled",
       "not_observed"} \subseteq EventTypes
  BY DEF EventTypes
<1>f. \A s \in Syncers : sync[s].pc # "idle" => sync[s].key \in Keys
  BY DEF SyncIdle
<1>1. CASE ProposalNext /\ UNCHANGED executionVars
  BY <1>1, ProposalTypeStep DEF executionVars
<1>2. ASSUME NEW p \in Proposals, NEW k \in Keys, NEW u \in Users, Claim(p, k, u)
      PROVE  TypeInv'
  <2>1. updatedAt[p] \in Nat /\ ProposalTypeOK'
    BY <1>2 DEF Claim, proposalVars, ProposalTypeOK
  <2>2. row'[k] \in Rows
    BY <1>2, <2>1 DEF Claim, Rows, RowStatus
  <2>3. row' \in [Keys -> Rows \cup {NoRow}] /\ \A j \in Keys : row[j] \in Rows => row'[j] \in Rows
    BY <1>2, <2>2 DEF Claim
  <2>4. audit' \in [Keys -> SUBSET EventTypes]
    BY <1>2, <1>d, <1>e DEF Claim
  <2>5. executor' \in [Keys -> {"idle", "claimed", "running", "posting", "done"}]
    BY <1>2 DEF Claim
  <2>6. TypeOK'
    BY <1>2, <2>1, <2>3, <2>4, <2>5 DEF Claim
  <2>7. (\A j \in Keys : executor[j] # "idle" => row[j] \in Rows)'
    BY <1>2, <2>2, <2>3 DEF Claim
  <2>8. (\A s \in Syncers : sync[s].pc # "idle" => row[sync[s].key] \in Rows)'
    BY <1>2, <2>3, <1>f DEF Claim
  <2>9. QED
    BY <2>6, <2>7, <2>8
<1>3. ASSUME NEW k \in Keys, ExecutorStep(k) \/ Crash(k)
      PROVE  TypeInv'
  <2>0. row[k] \in Rows
    BY <1>3 DEF ExecutorStep, TokenUnavailable, Start, EvidenceLost, PostIssue, Succeed,
                MarkUncertain, IndexConflict, Crash
  <2>1. ASSUME NEW st \in RowStatus, SetStatus(k, st)
        PROVE  row' \in [Keys -> Rows \cup {NoRow}] /\ \A j \in Keys : row[j] \in Rows => row'[j] \in Rows
    BY <2>0, <2>1, <1>b DEF SetStatus
  <2>2. CASE TokenUnavailable(k) \/ EvidenceLost(k)
    BY <2>2, <2>1, <2>0, <1>d, <1>e, <1>f DEF TokenUnavailable, EvidenceLost, FailBeforeProvider,
                proposalVars, ProposalTypeOK, RowStatus
  <2>3. CASE Start(k) \/ MarkUncertain(k)
    BY <2>3, <2>1, <2>0, <1>d, <1>e, <1>f DEF Start, MarkUncertain, proposalVars, ProposalTypeOK, RowStatus
  <2>4. CASE PostIssue(k) \/ IndexConflict(k) \/ Crash(k)
    BY <2>4, <2>0 DEF PostIssue, IndexConflict, Crash, proposalVars, ProposalTypeOK
  <2>5. CASE Succeed(k)
    <3>1. ProposalTypeOK'
      BY <2>5, <2>0, <1>a DEF Succeed, SetProposalStatus, ProposalTypeOK, ProposalStatus
    <3>2. QED
      BY <2>5, <2>1, <2>0, <3>1, <1>d, <1>e, <1>f DEF Succeed, RowStatus
  <2>6. QED
    BY <1>3, <2>2, <2>3, <2>4, <2>5 DEF ExecutorStep
<1>4. ASSUME NEW k \in Keys, ProviderCreates(k) \/ ProviderDrops(k)
      PROVE  TypeInv'
  BY <1>4 DEF ProviderCreates, ProviderDrops, proposalVars, ProposalTypeOK
<1>5. ASSUME NEW k \in Keys, GraceElapses(k)
      PROVE  TypeInv'
  BY <1>5 DEF GraceElapses, proposalVars, ProposalTypeOK
<1>6. ASSUME NEW s \in Syncers, NEW p \in Proposals, SyncRead(s, p)
      PROVE  TypeInv'
  <2>1. PICK k \in ActiveRows(p) :
          sync' = [sync EXCEPT ![s] = [pc |-> "read", key |-> k,
                         status |-> row[k].status, pstatus |-> status[p]]]
    BY <1>6 DEF SyncRead
  <2>2. row[k] \in Rows
    BY <1>a DEF ActiveRows, NoRow, ActiveOrSucceeded, RowStatus
  <2>3. QED
    BY <1>6, <2>1, <2>2 DEF SyncRead, ActiveRows, proposalVars, ProposalTypeOK, SyncIdle
<1>7. ASSUME NEW s \in Syncers, SyncAnswer(s) \/ SyncRecord(s) \/ SyncAborts(s)
      PROVE  TypeInv'
  <2>0. /\ sync[s].pc # "idle"
        /\ sync[s].key \in Keys
        /\ row[sync[s].key] \in Rows
    BY <1>7 DEF SyncAnswer, SyncRecord, SyncRefresh, SyncList, SyncRecordSuccess,
                SyncRecordNotWritten, ConcludesNotWritten, SyncAborts, SyncIdle
  <2>1. CASE SyncRefresh(s) \/ SyncAborts(s)
    BY <2>0, <2>1 DEF SyncRefresh, SyncAborts, EndSync, proposalVars, ProposalTypeOK, SyncIdle
  <2>2. CASE SyncList(s)
    BY <2>0, <2>2 DEF SyncList, EndSync, proposalVars, ProposalTypeOK, SyncIdle
  <2>3. ASSUME NEW st \in RowStatus,
               row' = [row EXCEPT ![sync[s].key].status = st, ![sync[s].key].reconciled = TRUE]
        PROVE  row' \in [Keys -> Rows \cup {NoRow}] /\ \A j \in Keys : row[j] \in Rows => row'[j] \in Rows
    BY <2>0, <2>3, <1>c
  <2>4. CASE SyncRecordSuccess(s)
    <3>1. ProposalTypeOK'
      BY <2>0, <2>4, <1>a DEF SyncRecordSuccess, SetProposalStatus, ProposalTypeOK, ProposalStatus
    <3>2. QED
      BY <2>0, <2>3, <2>4, <3>1, <1>d, <1>e, <1>f DEF SyncRecordSuccess, EndSync, SyncIdle, RowStatus
  <2>5. CASE SyncRecordNotWritten(s)
    <3>1. ProposalTypeOK'
      BY <2>0, <2>5, <1>a DEF SyncRecordNotWritten, SetProposalStatus, ProposalTypeOK, ProposalStatus
    <3>2. QED
      BY <2>0, <2>3, <2>5, <3>1, <1>d, <1>e, <1>f DEF SyncRecordNotWritten, EndSync, SyncIdle, RowStatus
  <2>6. QED
    BY <1>7, <2>1, <2>2, <2>4, <2>5 DEF SyncAnswer, SyncRecord
<1>8. CASE ConnectionChanges
  BY <1>8 DEF ConnectionChanges, proposalVars, ProposalTypeOK
<1>9. CASE UNCHANGED vars
  BY <1>9 DEF vars, executionVars, proposalVars, ProposalTypeOK
<1>10. QED
  BY <1>1, <1>2, <1>3, <1>4, <1>5, <1>6, <1>7, <1>8, <1>9 DEF Next

\* Every behaviour keeps every row, event and request of its declared type; in
\* particular no request holds an execution in a status it cannot have read.
THEOREM TypeCorrect == Spec => []TypeOK
<1>1. Init => TypeInv
  BY InitType DEF TypeInv, Init, SyncIdle
<1>2. QED
  BY <1>1, TypeStep, PTL DEF Spec, TypeInv

-----------------------------------------------------------------------------
(* The inductive invariant of every behaviour.                             *)

\* How far a request and its provider call are, compared with its row.
RowInv(k) ==
    /\ executor[k] = "idle" => row[k] = NoRow /\ net[k] = "unsent"
    /\ executor[k] \in {"claimed", "running"} => net[k] = "unsent"
    /\ row[k] # NoRow => /\ "claimed" \in audit[k]
                         /\ status[row[k].proposal] \in {"approved", "executed"}
    /\ executor[k] = "running" \/ net[k] # "unsent" => "started" \in audit[k]
    /\ row[k].status = "succeeded" => net[k] = "created"
    /\ row[k].status = "failed" /\ ~row[k].reconciled =>
         net[k] = "unsent" /\ executor[k] = "done"

\* A reconciliation that found the marker found an issue that stays.
SyncInv(s) == sync[s].pc = "found" => net[sync[s].key] = "created"

ReportInv ==
    /\ \A k \in canonical : net[k] = "created"
    /\ \A p \in Proposals : status[p] = "executed" => Issues(p) # {}

Inv ==
    /\ TypeInv
    /\ DecisionRecorded
    /\ \A k \in Keys : RowInv(k)
    /\ \A s \in Syncers : SyncInv(s)
    /\ ReportInv
    /\ OneActiveExecution

\* Facts about one proposal that decisions establish.
RecordedFor(p) ==
    LET decided == IF ruling[p] = None THEN {} ELSE {ruling[p].decision}
    IN /\ memory[p] \cap Decisions = decided
       /\ status[p] \in {"approved", "executed"} <=> decided = {"approved"}
       /\ status[p] = "rejected" <=> decided = {"rejected"}

\* Only a proposed proposal is decided, and what is decided is recorded.
LEMMA DecisionStep ==
    ASSUME ProposalTypeOK, DecisionRecorded, ProposalNext
    PROVE  /\ DecisionRecorded'
           /\ \A p \in Proposals : status[p] \in {"approved", "executed", "rejected"} =>
                                      status'[p] = status[p]
           /\ \A p \in Proposals : status'[p] = "executed" => status[p] = "executed"
<1> DEFINE Kept == \A p \in Proposals :
                      /\ status[p] \in {"approved", "executed", "rejected"} => status'[p] = status[p]
                      /\ status'[p] = "executed" => status[p] = "executed"
<1>0. DecisionRecorded <=> \A p \in Proposals : RecordedFor(p)
  BY DEF DecisionRecorded, RecordedFor
<1>1. ASSUME NEW p \in Proposals, CreateProposal(p) \/ EvidenceChanges(p)
      PROVE  DecisionRecorded' /\ Kept
  BY ZenonT(40), <1>1 DEF CreateProposal, EvidenceChanges, DecisionRecorded, ProposalTypeOK, Decisions
<1>2. ASSUME NEW A \in SUBSET Proposals, NEW cmd, ApplyDecisions(A, cmd),
             \A p \in A : cmd[p] \in Commands /\ status[p] = "proposed"
      PROVE  DecisionRecorded' /\ Kept
  <2>1. \A p \in A : /\ cmd[p] # None
                     /\ cmd[p].decision \in Decisions
    BY <1>2, ProposalAssumption DEF Commands
  <2>2. Kept
    BY <1>2, <2>1 DEF ApplyDecisions, ProposalTypeOK, Decisions
  <2>3. ASSUME NEW p \in Proposals PROVE RecordedFor(p)'
    <3>1. CASE p \notin A
      BY <1>2, <3>1 DEF ApplyDecisions, DecisionRecorded, RecordedFor, ProposalTypeOK
    <3>2. CASE p \in A
      <4>1. memory[p] \cap Decisions = {}
        BY <1>2, <3>2, <1>0 DEF DecisionRecorded, Decisions
      <4>2. /\ memory'[p] = memory[p] \cup {cmd[p].decision}
            /\ ruling'[p] = cmd[p]
            /\ status'[p] = cmd[p].decision
        BY <1>2, <3>2 DEF ApplyDecisions
      <4>3. QED
        BY <2>1, <3>2, <4>1, <4>2 DEF RecordedFor, Decisions
    <3>3. QED
      BY <3>1, <3>2
  <2>4. QED
    BY <2>2, <2>3 DEF DecisionRecorded, RecordedFor
<1>3. \A p \in Proposals, c \in Commands :
         DecisionOutcome(p, c) = "applied" => status[p] = "proposed"
  BY DEF DecisionOutcome, ReplayOutcome, Decidable
<1>4. ASSUME NEW p \in Proposals, NEW c \in Commands, Decide(p, c)
      PROVE  DecisionRecorded' /\ Kept
  <2> DEFINE cmd == [q \in {p} |-> c]
  <2>1. ApplyDecisions({p}, cmd) /\ cmd[p] \in Commands /\ status[p] = "proposed"
    BY <1>3, <1>4 DEF Decide
  <2> HIDE DEF cmd, Kept
  <2>2. QED
    BY <1>2, <2>1
<1>5. ASSUME NEW B \in SUBSET Proposals, NEW d \in Decisions, NEW u \in Users,
             NEW cmd \in [B -> {c \in Commands : c.decision = d /\ c.user = u}],
             BulkDecide(B, cmd)
      PROVE  DecisionRecorded' /\ Kept
  <2> DEFINE A == {p \in B : DecisionOutcome(p, cmd[p]) = "applied"}
  <2>1. ApplyDecisions(A, cmd)
    BY <1>5 DEF BulkDecide
  <2>2. \A p \in A : cmd[p] \in Commands /\ status[p] = "proposed"
    BY <1>3, <1>5
  <2> HIDE DEF Kept
  <2>3. QED
    BY <1>2, <2>1, <2>2
<1>6. QED
  BY <1>1, <1>4, <1>5 DEF ProposalNext

\* The inductive invariant holds of the empty database.
LEMMA InvInit == Init => Inv
<1> SUFFICES ASSUME Init PROVE Inv
  OBVIOUS
<1>1. TypeInv
  BY InitType DEF TypeInv, Init, SyncIdle
<1>2. DecisionRecorded
  BY DEF Init, ProposalInit, DecisionRecorded, Decisions
<1>3. QED
  BY <1>1, <1>2 DEF Init, ProposalInit, Inv, RowInv, SyncInv, ReportInv, OneActiveExecution,
                    NoRow, SyncIdle, RowStatus, ActiveOrSucceeded

\* What every kind of row update has in common.
LEMMA RowFacts ==
    ASSUME TypeInv
    PROVE  /\ \A r \in Rows : r.proposal \in Proposals /\ r # NoRow /\ r.status \in RowStatus
           /\ \A k \in Keys : row[k] # NoRow => row[k] \in Rows
           /\ \A k \in Keys : row[k].status \in RowStatus => row[k] \in Rows
           /\ \A s \in Syncers : sync[s].pc # "idle" => sync[s].key \in Keys
BY DEF TypeInv, TypeOK, Rows, NoRow, RowStatus, SyncIdle

\* A step that leaves the proposals alone, takes no issue away and moves no row
\* to another proposal keeps everything that is reported about issues.
LEMMA ReportFrame ==
    ASSUME Inv, UNCHANGED <<proposalVars, sync, canonical>>,
           \A j \in Keys : net[j] = "created" => net'[j] = "created",
           \A j \in Keys : row'[j].proposal = row[j].proposal
    PROVE  DecisionRecorded' /\ (\A s \in Syncers : SyncInv(s)') /\ ReportInv'
<1>1. DecisionRecorded'
  BY DEF proposalVars, DecisionRecorded, Inv
<1>2. \A s \in Syncers : SyncInv(s)'
  BY DEF SyncInv, Inv, TypeInv, TypeOK, SyncIdle
<1>3. ReportInv'
  BY DEF ReportInv, Issues, Inv, proposalVars, TypeInv, TypeOK
<1>4. QED
  BY <1>1, <1>2, <1>3

\* A step of the request that executes a row.
LEMMA ExecutorInv ==
    ASSUME Inv, TypeInv', NEW k \in Keys, ExecutorStep(k) \/ Crash(k)
    PROVE  Inv'
<1> USE DEF Inv, TypeInv, TypeOK
<1>0. /\ row[k] \in Rows
      /\ row[k] # NoRow
      /\ row[k].proposal \in Proposals
      /\ executor[k] \in {"claimed", "running", "posting"}
      /\ status[row[k].proposal] \in {"approved", "executed"}
  <2>1. executor[k] \in {"claimed", "running", "posting"}
    BY DEF ExecutorStep, TokenUnavailable, Start, EvidenceLost, PostIssue, Succeed,
           MarkUncertain, IndexConflict, Crash
  <2>2. QED
    BY <2>1, RowFacts DEF RowInv
<1>1. CASE TokenUnavailable(k) \/ EvidenceLost(k)
  <2>1. /\ UNCHANGED <<proposalVars, net, grace, connected, sync, canonical>>
        /\ row' = [row EXCEPT ![k].status = "failed"]
        /\ audit' = [audit EXCEPT ![k] = @ \cup {"failed"}]
        /\ executor' = [executor EXCEPT ![k] = "done"]
        /\ net[k] = "unsent"
    BY <1>1 DEF TokenUnavailable, EvidenceLost, FailBeforeProvider, SetStatus, Record, RowInv
  <2>2. ASSUME NEW j \in Keys PROVE RowInv(j)'
    <3>1. CASE j # k
      BY <2>1, <3>1 DEF RowInv, proposalVars
    <3>2. CASE j = k
      BY <1>0, <2>1, <3>2 DEF RowInv, proposalVars, Rows
    <3>3. QED
      BY <3>1, <3>2
  <2>3. OneActiveExecution'
    BY <1>0, <2>1 DEF OneActiveExecution, ActiveOrSucceeded, RowStatus, Rows
  <2>4. QED
    BY <1>0, <2>1, <2>2, <2>3, ReportFrame DEF Rows
<1>2. CASE Start(k)
  <2>1. /\ UNCHANGED <<proposalVars, net, grace, connected, sync, canonical>>
        /\ row' = [row EXCEPT ![k].status = "running"]
        /\ audit' = [audit EXCEPT ![k] = @ \cup {"started"}]
        /\ executor' = [executor EXCEPT ![k] = "running"]
        /\ net[k] = "unsent"
        /\ IndexAllows(k, row[k].proposal)
    BY <1>2 DEF Start, SetStatus, Record, RowInv
  <2>2. ASSUME NEW j \in Keys PROVE RowInv(j)'
    <3>1. CASE j # k
      BY <2>1, <3>1 DEF RowInv, proposalVars
    <3>2. CASE j = k
      BY <1>0, <2>1, <3>2 DEF RowInv, proposalVars, Rows
    <3>3. QED
      BY <3>1, <3>2
  <2>3. OneActiveExecution'
    BY <1>0, <2>1 DEF OneActiveExecution, IndexAllows, ActiveOrSucceeded, RowStatus, Rows
  <2>4. QED
    BY <1>0, <2>1, <2>2, <2>3, ReportFrame DEF Rows
<1>3. CASE PostIssue(k)
  <2>1. /\ UNCHANGED <<proposalVars, row, grace, audit, connected, sync, canonical>>
        /\ net' = [net EXCEPT ![k] = "inflight"]
        /\ executor' = [executor EXCEPT ![k] = "posting"]
        /\ executor[k] = "running"
        /\ net[k] = "unsent"
    BY <1>3 DEF PostIssue, RowInv
  <2>2. ASSUME NEW j \in Keys PROVE RowInv(j)'
    <3>1. CASE j # k
      BY <2>1, <3>1 DEF RowInv, proposalVars
    <3>2. CASE j = k
      BY <1>0, <2>1, <3>2 DEF RowInv, proposalVars, Rows
    <3>3. QED
      BY <3>1, <3>2
  <2>3. OneActiveExecution'
    BY <2>1 DEF OneActiveExecution
  <2>4. QED
    BY <2>1, <2>2, <2>3, ReportFrame
<1>4. CASE Succeed(k)
  <2>1. /\ UNCHANGED <<evidence, ruling, memory, net, grace, connected, sync, canonical>>
        /\ row' = [row EXCEPT ![k].status = "succeeded"]
        /\ audit' = [audit EXCEPT ![k] = @ \cup {"succeeded"}]
        /\ executor' = [executor EXCEPT ![k] = "done"]
        /\ status' = [status EXCEPT ![row[k].proposal] = "executed"]
        /\ executor[k] = "posting"
        /\ net[k] = "created"
        /\ IndexAllows(k, row[k].proposal)
    BY <1>4 DEF Succeed, SetStatus, SetProposalStatus, Record
  <2>2. ASSUME NEW j \in Keys PROVE RowInv(j)'
    <3>1. CASE j # k
      BY <1>0, <2>1, <3>1, RowFacts DEF RowInv, ProposalTypeOK
    <3>2. CASE j = k
      BY <1>0, <2>1, <3>2 DEF RowInv, Rows, ProposalTypeOK
    <3>3. QED
      BY <3>1, <3>2
  <2>3. OneActiveExecution'
    BY <1>0, <2>1 DEF OneActiveExecution, IndexAllows, ActiveOrSucceeded, RowStatus, Rows
  <2>4. DecisionRecorded'
    BY ZenonT(40), <1>0, <2>1 DEF DecisionRecorded, ProposalTypeOK
  <2>5. ReportInv'
    BY <1>0, <2>1 DEF ReportInv, Issues, Rows, ProposalTypeOK
  <2>6. QED
    BY <2>1, <2>2, <2>3, <2>4, <2>5 DEF SyncInv
<1>5. CASE MarkUncertain(k)
  <2>1. /\ UNCHANGED <<proposalVars, net, grace, connected, sync, canonical>>
        /\ row' = [row EXCEPT ![k].status = "uncertain"]
        /\ audit' = [audit EXCEPT ![k] = @ \cup {"uncertain"}]
        /\ executor' = [executor EXCEPT ![k] = "done"]
        /\ IndexAllows(k, row[k].proposal)
    BY <1>5 DEF MarkUncertain, SetStatus, Record
  <2>2. ASSUME NEW j \in Keys PROVE RowInv(j)'
    <3>1. CASE j # k
      BY <2>1, <3>1 DEF RowInv, proposalVars
    <3>2. CASE j = k
      BY <1>0, <2>1, <3>2 DEF RowInv, proposalVars, Rows
    <3>3. QED
      BY <3>1, <3>2
  <2>3. OneActiveExecution'
    BY <1>0, <2>1 DEF OneActiveExecution, IndexAllows, ActiveOrSucceeded, RowStatus, Rows
  <2>4. QED
    BY <1>0, <2>1, <2>2, <2>3, ReportFrame DEF Rows
<1>6. CASE IndexConflict(k) \/ Crash(k)
  <2>1. /\ UNCHANGED <<proposalVars, row, net, grace, audit, connected, sync, canonical>>
        /\ executor' = [executor EXCEPT ![k] = "done"]
    BY <1>6 DEF IndexConflict, Crash
  <2>2. \A j \in Keys : RowInv(j)'
    BY <1>0, <2>1 DEF RowInv, proposalVars
  <2>3. QED
    BY <2>1, <2>2, ReportFrame DEF OneActiveExecution
<1>7. QED
  BY <1>1, <1>2, <1>3, <1>4, <1>5, <1>6 DEF ExecutorStep

\* A claim is granted only for an unused key of an approved proposal that has no
\* active or succeeded execution.
LEMMA ClaimFacts ==
    ASSUME TypeInv, NEW p \in Proposals, NEW k \in Keys, NEW u \in Users, Claim(p, k, u)
    PROVE  row[k] = NoRow /\ ActiveRows(p) = {} /\ status[p] = "approved"
<1>0. ASSUME NEW j \in Keys, row[j].status \in RowStatus, NEW same \in BOOLEAN
      PROVE  ExistingOutcome(p, j, same) # "claim"
  BY <1>0 DEF ExistingOutcome, RowStatus, Unresolved
<1>1. row[k] = NoRow
  BY <1>0, RowFacts DEF Claim, ExecuteOutcome
<1>2. ActiveRows(p) = {}
  <2> SUFFICES ASSUME ActiveRows(p) # {} PROVE FALSE
    OBVIOUS
  <2> DEFINE j == CHOOSE i \in ActiveRows(p) : TRUE
  <2>1. j \in ActiveRows(p)
    OBVIOUS
  <2>2. j \in Keys /\ row[j].status \in RowStatus
    BY <2>1 DEF ActiveRows, ActiveOrSucceeded
  <2>3. ExistingOutcome(p, j, TRUE) = "claim"
    BY <1>1 DEF Claim, ExecuteOutcome
  <2> HIDE DEF j
  <2>4. QED
    BY <1>0, <2>2, <2>3
<1>3. QED
  BY <1>1, <1>2 DEF Claim, ExecuteOutcome, Executable

\* Decisions and the first transaction of an execute request.
LEMMA RequestInv ==
    ASSUME Inv, TypeInv',
           \/ ProposalNext /\ UNCHANGED executionVars
           \/ \E p \in Proposals, k \in Keys, u \in Users : Claim(p, k, u)
    PROVE  Inv'
<1> USE DEF Inv, TypeInv, TypeOK
<1>1. CASE ProposalNext /\ UNCHANGED executionVars
  <2>1. /\ DecisionRecorded'
        /\ \A p \in Proposals : status[p] \in {"approved", "executed", "rejected"} =>
                                   status'[p] = status[p]
        /\ \A p \in Proposals : status'[p] = "executed" => status[p] = "executed"
    BY <1>1, DecisionStep
  <2>2. ASSUME NEW k \in Keys PROVE RowInv(k)'
    BY <1>1, <2>1, RowFacts DEF RowInv, executionVars
  <2>3. ReportInv'
    BY <1>1, <2>1 DEF ReportInv, Issues, executionVars
  <2>4. QED
    BY <1>1, <2>1, <2>2, <2>3 DEF SyncInv, OneActiveExecution, executionVars
<1>2. ASSUME NEW p \in Proposals, NEW k \in Keys, NEW u \in Users, Claim(p, k, u)
      PROVE  Inv'
  <2>1. row[k] = NoRow /\ ActiveRows(p) = {} /\ status[p] = "approved"
    BY <1>2, ClaimFacts
  <2>2. net[k] = "unsent"
    BY <2>1, RowFacts DEF RowInv
  <2>3. /\ UNCHANGED <<proposalVars, net, grace, connected, sync, canonical>>
        /\ row' = [row EXCEPT ![k] = [proposal |-> p, user |-> u, version |-> updatedAt[p],
                                      status |-> "claimed", reconciled |-> FALSE]]
        /\ executor' = [executor EXCEPT ![k] = "claimed"]
        /\ audit' = [audit EXCEPT ![k] = @ \cup {"claimed"}]
    BY <1>2 DEF Claim, Record
  <2>4. ASSUME NEW j \in Keys PROVE RowInv(j)'
    <3>1. CASE j # k
      BY <2>3, <3>1 DEF RowInv, proposalVars
    <3>2. CASE j = k
      BY <2>1, <2>2, <2>3, <3>2 DEF RowInv, proposalVars, NoRow
    <3>3. QED
      BY <3>1, <3>2
  <2>5. OneActiveExecution'
    <3> SUFFICES ASSUME NEW i \in Keys, NEW j \in Keys,
                        row'[i].status \in ActiveOrSucceeded,
                        row'[j].status \in ActiveOrSucceeded,
                        row'[i].proposal = row'[j].proposal
                 PROVE  i = j
      BY DEF OneActiveExecution
    <3>1. CASE i # k /\ j # k
      BY <2>3, <3>1 DEF OneActiveExecution
    <3>2. CASE i = k \/ j = k
      BY <2>1, <2>3, <3>2 DEF ActiveRows
    <3>3. QED
      BY <3>1, <3>2
  <2>6. DecisionRecorded'
    BY <2>3 DEF DecisionRecorded, proposalVars
  <2>7. ReportInv'
    BY <2>1, <2>2, <2>3 DEF ReportInv, Issues, proposalVars
  <2>8. QED
    BY <2>3, <2>4, <2>5, <2>6, <2>7 DEF SyncInv
<1>3. QED
  BY <1>1, <1>2

\* GitHub, time, and connection changes.
LEMMA EnvironmentInv ==
    ASSUME Inv, TypeInv',
           \/ \E k \in Keys : ProviderCreates(k) \/ ProviderDrops(k) \/ GraceElapses(k)
           \/ ConnectionChanges
    PROVE  Inv'
<1> USE DEF Inv, TypeInv, TypeOK
<1>1. ASSUME NEW k \in Keys, ProviderCreates(k) \/ ProviderDrops(k)
      PROVE  Inv'
  <2>1. /\ UNCHANGED <<proposalVars, row, executor, grace, audit, connected, sync, canonical>>
        /\ net[k] = "inflight"
        /\ \E v \in {"created", "dropped"} : net' = [net EXCEPT ![k] = v]
    BY <1>1 DEF ProviderCreates, ProviderDrops
  <2>2. ASSUME NEW j \in Keys PROVE RowInv(j)'
    BY <2>1 DEF RowInv, proposalVars
  <2>3. QED
    BY <2>1, <2>2, ReportFrame DEF OneActiveExecution
<1>2. ASSUME UNCHANGED <<proposalVars, row, executor, net, audit, sync, canonical>>
      PROVE  Inv'
  <2>1. ASSUME NEW j \in Keys PROVE RowInv(j)'
    BY <1>2 DEF RowInv, proposalVars
  <2>2. QED
    BY <1>2, <2>1, ReportFrame DEF OneActiveExecution
<1>3. QED
  BY <1>1, <1>2 DEF GraceElapses, ConnectionChanges

\* A row that gets its outcome, with what the proposal then says, keeps what holds
\* of every row and of every proposal.
LEMMA OutcomeRecorded ==
    ASSUME Inv, TypeInv', UNCHANGED <<evidence, ruling, memory, executor, net>>,
           \A t \in Syncers : SyncInv(t)', \A j \in canonical' : net[j] = "created",
           NEW k \in Keys, row[k] # NoRow,
           NEW st \in {"succeeded", "failed"}, st = "succeeded" => net[k] = "created",
           st = "succeeded" => IndexAllows(k, row[k].proposal),
           row' = [row EXCEPT ![k].status = st, ![k].reconciled = TRUE],
           NEW e \in EventTypes, audit' = [audit EXCEPT ![k] = @ \cup {e}],
           NEW old, NEW new \in {"approved", "executed"}, new = "executed" => net[k] = "created",
           SetProposalStatus(row[k].proposal, old, new)
    PROVE  Inv'
<1> DEFINE q == row[k].proposal
<1>1. /\ row \in [Keys -> Rows \cup {NoRow}] /\ audit \in [Keys -> SUBSET EventTypes]
      /\ status \in [Proposals -> ProposalStatus]
  BY DEF Inv, TypeInv, TypeOK, ProposalTypeOK
<1>2. row[k] \in Rows /\ q \in Proposals
  BY <1>1 DEF Rows
<1>3. \A j \in Keys : RowInv(j)
  BY DEF Inv
<1>4. status[q] \in {"approved", "executed"}
  BY <1>3 DEF RowInv
<1>5. /\ \A p \in Proposals \ {q} : status'[p] = status[p]
      /\ status'[q] \in {"approved", "executed"}
      /\ status'[q] = "executed" => status[q] = "executed" \/ net[k] = "created"
  <2>1. status' = [status EXCEPT ![q] = IF old = new THEN @ ELSE new]
    BY DEF SetProposalStatus
  <2>2. QED
    BY <1>1, <1>2, <1>4, <2>1
<1>6. /\ row'[k] = [row[k] EXCEPT !.status = st, !.reconciled = TRUE]
      /\ \A j \in Keys \ {k} : row'[j] = row[j] /\ audit'[j] = audit[j]
      /\ audit[k] \subseteq audit'[k]
  BY <1>1
<1>7. row'[k].proposal = q /\ row'[k].status = st /\ row'[k].reconciled
  <2>1. ASSUME NEW r \in Rows
        PROVE  LET r1 == [r EXCEPT !.status = st, !.reconciled = TRUE]
               IN  r1.proposal = r.proposal /\ r1.status = st /\ r1.reconciled
    BY DEF Rows
  <2>2. QED
    BY <1>2, <1>6, <2>1
<1>8. executor' = executor /\ net' = net
  OBVIOUS
<1>9. ASSUME NEW j \in Keys PROVE RowInv(j)'
  <2>1. CASE j # k
    <3>1. row'[j] = row[j] /\ audit'[j] = audit[j]
      BY <1>6, <2>1
    <3>2. row[j] # NoRow => row[j].proposal \in Proposals
      BY <1>1 DEF Rows
    <3>3. row[j] # NoRow => status'[row[j].proposal] \in {"approved", "executed"}
      BY <1>3, <1>5, <3>2 DEF RowInv
    <3>4. QED
      BY <1>3, <1>8, <3>1, <3>3 DEF RowInv
  <2>2. CASE j = k
    <3>1. audit[k] \subseteq audit'[k] /\ row'[k].status = st /\ row'[k].reconciled
      BY <1>6, <1>7
    <3>2. status'[row'[k].proposal] \in {"approved", "executed"}
      BY <1>5, <1>7
    <3>3. RowInv(k)
      BY <1>3
    <3>4. QED
      BY <1>8, <2>2, <3>1, <3>2, <3>3 DEF RowInv
  <2>3. QED
    BY <2>1, <2>2
<1>10. OneActiveExecution'
  <2> SUFFICES ASSUME NEW i \in Keys, NEW j \in Keys,
                      row'[i].status \in ActiveOrSucceeded,
                      row'[j].status \in ActiveOrSucceeded,
                      row'[i].proposal = row'[j].proposal
               PROVE  i = j
    BY DEF OneActiveExecution
  <2>1. CASE i # k /\ j # k
    <3>1. row'[i] = row[i] /\ row'[j] = row[j]
      BY <1>6, <2>1
    <3>2. QED
      BY <3>1 DEF Inv, OneActiveExecution
  <2>2. ASSUME NEW x \in Keys \ {k}, row'[x].status \in ActiveOrSucceeded, row'[x].proposal = q,
               st \in ActiveOrSucceeded
        PROVE  FALSE
    <3>1. IndexAllows(k, q)
      BY <2>2 DEF ActiveOrSucceeded
    <3>2. row'[x] = row[x]
      BY <1>6
    <3>3. QED
      BY <2>2, <3>1, <3>2 DEF IndexAllows
  <2>3. QED
    BY <1>7, <2>1, <2>2
<1>11. DecisionRecorded'
  <2>1. ASSUME NEW p \in Proposals PROVE RecordedFor(p)'
    <3>1. RecordedFor(p)
      BY DEF Inv, DecisionRecorded, RecordedFor
    <3>2. /\ status'[p] \in {"approved", "executed"} <=> status[p] \in {"approved", "executed"}
          /\ status'[p] = "rejected" <=> status[p] = "rejected"
      BY <1>4, <1>5
    <3>3. QED
      BY <3>1, <3>2 DEF RecordedFor
  <2>2. QED
    BY <2>1 DEF DecisionRecorded, RecordedFor
<1>12. ReportInv'
  <2>1. ASSUME NEW p \in Proposals, status'[p] = "executed" PROVE Issues(p)' # {}
    <3>1. PICK j \in Keys : row[j].proposal = p /\ net[j] = "created"
      BY <1>2, <1>5, <2>1 DEF Inv, ReportInv, Issues
    <3>2. row'[j].proposal = p /\ net'[j] = "created"
      BY <1>6, <1>7, <1>8, <3>1
    <3>3. QED
      BY <3>2 DEF Issues
  <2>2. QED
    BY <1>8, <2>1 DEF ReportInv
<1>13. QED
  BY <1>9, <1>10, <1>11, <1>12 DEF Inv

\* The steps of a reconciliation request.
LEMMA SyncerInv ==
    ASSUME Inv, TypeInv', NEW s \in Syncers,
           \/ \E p \in Proposals : SyncRead(s, p)
           \/ SyncAnswer(s) \/ SyncRecord(s) \/ SyncAborts(s)
    PROVE  Inv'
<1> USE DEF Inv, TypeInv, TypeOK
<1> DEFINE k == sync[s].key
<1>1. ASSUME UNCHANGED <<proposalVars, row, executor, net, audit>>,
             \A j \in canonical' : net[j] = "created",
             \A t \in Syncers : SyncInv(t)'
      PROVE  Inv'
  <2>1. ASSUME NEW j \in Keys PROVE RowInv(j)'
    BY <1>1 DEF RowInv, proposalVars
  <2>2. DecisionRecorded' /\ OneActiveExecution'
    BY <1>1 DEF DecisionRecorded, OneActiveExecution, proposalVars
  <2>3. ReportInv'
    BY <1>1 DEF ReportInv, Issues, proposalVars
  <2>4. QED
    BY <1>1, <2>1, <2>2, <2>3
<1>2. CASE \E p \in Proposals : SyncRead(s, p)
  <2>1. \A t \in Syncers : SyncInv(t)'
    BY <1>2 DEF SyncRead, SyncInv
  <2>2. QED
    BY <1>1, <1>2, <2>1 DEF SyncRead, ReportInv
<1>3. CASE SyncRefresh(s) \/ SyncAborts(s)
  <2>1. \A t \in Syncers : SyncInv(t)'
    BY <1>3 DEF SyncRefresh, SyncAborts, EndSync, SyncInv, SyncIdle
  <2>2. QED
    BY <1>1, <1>3, <2>1 DEF SyncRefresh, SyncAborts, ReportInv
<1>4. CASE SyncList(s)
  <2>1. \A t \in Syncers : SyncInv(t)'
    BY <1>4 DEF SyncList, EndSync, SyncInv, SyncIdle
  <2>2. QED
    BY <1>1, <1>4, <2>1 DEF SyncList, ReportInv
<1>5. ASSUME sync[s].pc # "idle", UNCHANGED <<evidence, ruling, memory, executor, net>>,
             sync' = [sync EXCEPT ![s] = SyncIdle],
             NEW st \in {"succeeded", "failed"}, st = "succeeded" => net[k] = "created",
             st = "succeeded" => IndexAllows(k, row[k].proposal),
             row' = [row EXCEPT ![k].status = st, ![k].reconciled = TRUE],
             NEW e \in EventTypes, audit' = [audit EXCEPT ![k] = @ \cup {e}],
             NEW new \in {"approved", "executed"}, new = "executed" => net[k] = "created",
             SetProposalStatus(row[k].proposal, sync[s].pstatus, new),
             \A j \in canonical' : net[j] = "created"
      PROVE  Inv'
  <2>1. k \in Keys /\ row[k] # NoRow
    BY <1>5, RowFacts
  <2>2. \A t \in Syncers : SyncInv(t)'
    BY <1>5 DEF SyncInv, SyncIdle
  <2> HIDE DEF k, Inv, TypeInv, TypeOK
  <2>3. QED
    BY <1>5, <2>1, <2>2, OutcomeRecorded
<1>6. CASE SyncRecordSuccess(s)
  <2>1. net[k] = "created" /\ k \in Keys
    BY <1>6, RowFacts DEF SyncRecordSuccess, SyncInv
  <2>2. \A j \in canonical' : net[j] = "created"
    BY <1>6, <2>1 DEF SyncRecordSuccess, ReportInv
  <2>3. "reconciled" \in EventTypes
    BY DEF EventTypes
  <2>4. QED
    BY <1>5, <1>6, <2>1, <2>2, <2>3 DEF SyncRecordSuccess, Record, EndSync, SetProposalStatus
<1>7. CASE SyncRecordNotWritten(s)
  <2>1. "not_observed" \in EventTypes
    BY DEF EventTypes
  <2>2. sync[s].pc # "idle"
    BY <1>7 DEF SyncRecordNotWritten, ConcludesNotWritten
  <2>3. QED
    BY <1>5, <1>7, <2>1, <2>2 DEF SyncRecordNotWritten, Record, EndSync, ReportInv, SetProposalStatus
<1>8. QED
  BY <1>2, <1>3, <1>4, <1>6, <1>7 DEF SyncAnswer, SyncRecord

\* No step of Next breaks the inductive invariant.
LEMMA InvStep == Inv /\ [Next]_vars => Inv'
<1> SUFFICES ASSUME Inv, [Next]_vars PROVE Inv'
  OBVIOUS
<1>1. TypeInv'
  BY TypeStep DEF Inv
<1>2. CASE Next
  BY <1>1, <1>2, RequestInv, ExecutorInv, EnvironmentInv, SyncerInv DEF Next
<1>3. CASE UNCHANGED vars
  <2>1. \A k \in Keys : RowInv(k)'
    BY <1>3 DEF vars, executionVars, proposalVars, RowInv, Inv
  <2>2. QED
    BY <1>1, <1>3, <2>1, ReportFrame DEF vars, executionVars, OneActiveExecution, Inv
<1>4. QED
  BY <1>2, <1>3

\* The invariant holds in every reachable state, with any number of requests
\* and reconciliations interleaved in any way.
THEOREM Invariance == Spec => []Inv
BY InvInit, InvStep, PTL DEF Spec


\* Receipts, canonical records and executed proposals stand for issues that
\* exist at GitHub.
THEOREM ReceiptsRealTheorem == Spec => []ReceiptsAreReal
<1>1. Inv => ReceiptsAreReal
  BY DEF Inv, RowInv, ReportInv, ReceiptsAreReal
<1>2. QED
  BY <1>1, Invariance, PTL

\* No provider call precedes the durable claim and start, or lacks an approval.
THEOREM WriteAheadTheorem == Spec => []WriteAhead
<1>1. ASSUME Inv, NEW k \in Keys, net[k] # "unsent"
      PROVE  /\ {"claimed", "started"} \subseteq audit[k]
             /\ ruling[row[k].proposal] # None
             /\ ruling[row[k].proposal].decision = "approved"
             /\ status[row[k].proposal] \in {"approved", "executed"}
  <2>1. row[k] \in Rows /\ row[k] # NoRow /\ row[k].proposal \in Proposals
    BY <1>1, RowFacts DEF Inv, TypeInv, RowInv
  <2>2. RecordedFor(row[k].proposal)
    BY <1>1, <2>1 DEF Inv, DecisionRecorded, RecordedFor
  <2>3. QED
    BY <1>1, <2>1, <2>2 DEF Inv, RowInv, RecordedFor
<1>2. Inv => WriteAhead
  BY <1>1 DEF WriteAhead
<1>3. QED
  BY <1>2, Invariance, PTL

\* A failure recorded by the executor means that GitHub was never called.
THEOREM DefinitiveFailureTheorem == Spec => []DefinitiveFailure
<1>1. Inv => DefinitiveFailure
  BY DEF Inv, RowInv, DefinitiveFailure
<1>2. QED
  BY <1>1, Invariance, PTL

\* Status, audit event and company memory agree on every decision.
THEOREM DecisionRecordedTheorem == Spec => []DecisionRecorded
BY Invariance, PTL DEF Inv

\* The partial unique index is never violated by a committed state.
THEOREM OneActiveTheorem == Spec => []OneActiveExecution
BY Invariance, PTL DEF Inv

-----------------------------------------------------------------------------
(* The strengthening for the documented operation.                         *)

Live(k) == net[k] \in {"inflight", "created"}

QuiescentRow(k) ==
    /\ executor[k] = "claimed" => row[k].status = "claimed"
    /\ executor[k] \in {"running", "posting"} => row[k].status = "running"
    /\ Live(k) => row[k].status \in {"running", "uncertain", "succeeded"}
    /\ grace[k] => executor[k] = "done" /\ net[k] # "inflight"

QuiescentSyncer(s) ==
    sync[s].pc # "idle" =>
        /\ executor[sync[s].key] = "done"
        /\ ConcludesNotWritten(s) => ~Live(sync[s].key)
        /\ sync[s].pstatus \in {"approved", "executed"}
        /\ sync[s].pstatus = "executed" => net[sync[s].key] = "created"

QInv ==
    /\ Inv
    /\ \A k \in Keys : QuiescentRow(k)
    /\ \A s \in Syncers : QuiescentSyncer(s)

\* The strengthened invariant of the documented operation holds initially.
LEMMA QInvInit == Init => QInv
<1>1. Init => Inv
  BY InvInit
<1>2. QED
  BY <1>1 DEF Init, QInv, QuiescentRow, QuiescentSyncer, SyncIdle, Live

\* The active row of an executed proposal is the row of its issue.
LEMMA ActiveIsIssue ==
    ASSUME QInv, NEW p \in Proposals, status[p] = "executed", NEW k \in ActiveRows(p)
    PROVE  net[k] = "created"
<1>1. PICK j \in Keys : row[j].proposal = p /\ net[j] = "created"
  BY DEF QInv, Inv, ReportInv, Issues
<1>2. row[j].status \in ActiveOrSucceeded
  BY <1>1 DEF QInv, QuiescentRow, Live, ActiveOrSucceeded, RowStatus
<1>3. j = k
  BY <1>1, <1>2 DEF QInv, Inv, OneActiveExecution, ActiveRows
<1>4. QED
  BY <1>1, <1>3

\* With quiescent reconciliation and bounded delay no step breaks it.
LEMMA QInvStep ==
    ASSUME QuiescentSync, BoundedDelay, QInv, [Next]_vars
    PROVE  QInv'
<1> USE DEF TypeInv, TypeOK
<1>0. Inv' /\ Inv /\ TypeInv
  BY InvStep DEF QInv, Inv
<1>r. \A k \in Keys : QuiescentRow(k)
  BY DEF QInv
<1>s. \A s \in Syncers : QuiescentSyncer(s)
  BY DEF QInv
<1>t. \A s \in Syncers : sync[s].pc # "idle" => sync[s].key \in Keys
  BY <1>0, RowFacts
<1>1. CASE ProposalNext /\ UNCHANGED executionVars
  BY <1>0, <1>1, <1>r, <1>s DEF executionVars, QInv, QuiescentRow, QuiescentSyncer, Live,
                                ConcludesNotWritten
<1>2. ASSUME NEW k \in Keys, UNCHANGED <<sync, grace>>, executor[k] # "done",
             \A j \in Keys \ {k} : /\ net'[j] = net[j]
                                   /\ row'[j] = row[j]
                                   /\ executor'[j] = executor[j],
             QuiescentRow(k)'
      PROVE  QInv'
  <2>1. \A j \in Keys : QuiescentRow(j)'
    BY <1>2, <1>r DEF QuiescentRow, Live
  <2>2. \A s \in Syncers : QuiescentSyncer(s)'
    BY <1>2, <1>s, <1>t DEF QuiescentSyncer, ConcludesNotWritten, Live
  <2>3. QED
    BY <1>0, <2>1, <2>2 DEF QInv
<1>3. ASSUME NEW p \in Proposals, NEW k \in Keys, NEW u \in Users, Claim(p, k, u)
      PROVE  QInv'
  <2>1. row'[k].status = "claimed" /\ executor'[k] = "claimed" /\ UNCHANGED <<sync, grace, net>>
    BY <1>0, <1>3 DEF Claim
  <2>2. executor[k] = "idle" /\ net[k] = "unsent"
    BY <1>0, <1>3, ClaimFacts, RowFacts DEF Inv, RowInv
  <2>3. QuiescentRow(k)'
    BY <1>r, <2>1, <2>2 DEF QuiescentRow, Live
  <2>4. QED
    BY <1>0, <1>2, <1>3, <2>1, <2>2, <2>3 DEF Claim
<1>4. ASSUME NEW k \in Keys, ExecutorStep(k) \/ Crash(k)
      PROVE  QInv'
  <2>1. executor[k] \in {"claimed", "running", "posting"} /\ row[k] \in Rows /\ ~grace[k]
    BY <1>0, <1>4, <1>r DEF QuiescentRow, ExecutorStep, TokenUnavailable, Start, EvidenceLost,
           PostIssue, Succeed, MarkUncertain, IndexConflict, Crash
  <2>2. /\ UNCHANGED <<sync, grace>>
        /\ \A j \in Keys \ {k} : /\ net'[j] = net[j]
                                 /\ row'[j] = row[j]
                                 /\ executor'[j] = executor[j]
    BY <1>0, <1>4 DEF ExecutorStep, TokenUnavailable, Start, EvidenceLost, FailBeforeProvider,
           PostIssue, Succeed, MarkUncertain, IndexConflict, Crash, SetStatus
  <2>3. QuiescentRow(k)'
    <3>1. CASE TokenUnavailable(k) \/ EvidenceLost(k)
      BY <1>0, <1>r, <2>1, <3>1 DEF TokenUnavailable, EvidenceLost, FailBeforeProvider, SetStatus,
             QuiescentRow, Live, Inv, RowInv
    <3>2. CASE Start(k)
      BY <1>0, <1>r, <2>1, <3>2 DEF Start, SetStatus, QuiescentRow, Live, Inv, RowInv, Rows
    <3>3. CASE PostIssue(k)
      BY <1>0, <1>r, <2>1, <3>3 DEF PostIssue, QuiescentRow, Live
    <3>4. CASE Succeed(k) \/ MarkUncertain(k)
      BY <1>0, <1>r, <2>1, <3>4 DEF Succeed, MarkUncertain, SetStatus, QuiescentRow, Live, Rows
    <3>5. CASE IndexConflict(k) \/ Crash(k)
      BY <1>0, <1>r, <2>1, <3>5 DEF IndexConflict, Crash, QuiescentRow, Live
    <3>6. QED
      BY <1>4, <3>1, <3>2, <3>3, <3>4, <3>5 DEF ExecutorStep
  <2>4. QED
    BY <1>2, <2>1, <2>2, <2>3
<1>5. ASSUME NEW k \in Keys, ProviderCreates(k) \/ ProviderDrops(k)
      PROVE  QInv'
  <2>1. /\ UNCHANGED <<row, executor, grace, sync>>
        /\ net[k] = "inflight"
        /\ \E v \in {"created", "dropped"} : net' = [net EXCEPT ![k] = v]
    BY <1>5 DEF ProviderCreates, ProviderDrops
  <2>2. \A j \in Keys : QuiescentRow(j)'
    BY <1>0, <1>r, <2>1 DEF QuiescentRow, Live
  <2>3. \A s \in Syncers : QuiescentSyncer(s)'
    BY <1>0, <1>s, <1>t, <2>1 DEF QuiescentSyncer, ConcludesNotWritten, Live
  <2>4. QED
    BY <1>0, <2>2, <2>3 DEF QInv
<1>6. ASSUME NEW k \in Keys, GraceElapses(k)
      PROVE  QInv'
  <2>1. \A j \in Keys : QuiescentRow(j)'
    BY <1>0, <1>r, <1>6 DEF GraceElapses, QuiescentRow, Live
  <2>2. \A s \in Syncers : QuiescentSyncer(s)'
    BY <1>s, <1>6 DEF GraceElapses, QuiescentSyncer, ConcludesNotWritten, Live
  <2>3. QED
    BY <1>0, <2>1, <2>2 DEF QInv
<1>7. CASE ConnectionChanges
  BY <1>0, <1>7, <1>r, <1>s DEF ConnectionChanges, QInv, QuiescentRow, QuiescentSyncer, Live,
                                ConcludesNotWritten
<1>8. ASSUME NEW s \in Syncers, UNCHANGED <<row, executor, net, grace>>,
             QuiescentSyncer(s)',
             \A t \in Syncers \ {s} : sync'[t] = sync[t]
      PROVE  QInv'
  <2>1. \A j \in Keys : QuiescentRow(j)'
    BY <1>r, <1>8 DEF QuiescentRow, Live
  <2>2. \A t \in Syncers : QuiescentSyncer(t)'
    BY <1>s, <1>8 DEF QuiescentSyncer, ConcludesNotWritten, Live
  <2>3. QED
    BY <1>0, <2>1, <2>2 DEF QInv
<1>9. ASSUME NEW s \in Syncers, NEW p \in Proposals, SyncRead(s, p)
      PROVE  QInv'
  <2>1. PICK k \in ActiveRows(p) :
          /\ executor[k] = "done"
          /\ sync' = [sync EXCEPT ![s] = [pc |-> "read", key |-> k,
                         status |-> row[k].status, pstatus |-> status[p]]]
    BY <1>9 DEF SyncRead
  <2>2. k \in Keys /\ row[k].proposal = p /\ row[k] # NoRow /\ row[k].status \in RowStatus
    BY DEF ActiveRows, ActiveOrSucceeded, RowStatus, NoRow
  <2>3. status[p] \in {"approved", "executed"}
    BY <1>0, <2>2 DEF Inv, RowInv
  <2>4. status[p] = "executed" => net[k] = "created"
    BY ActiveIsIssue
  <2>5. row[k].status = "claimed" => ~Live(k)
    BY <1>r, <2>2 DEF QuiescentRow
  <2>6. UNCHANGED <<row, executor, net, grace>>
    BY <1>9 DEF SyncRead
  <2>7. QuiescentSyncer(s)'
    <3>1. sync'[s] = [pc |-> "read", key |-> k, status |-> row[k].status, pstatus |-> status[p]]
      BY <1>0, <2>1
    <3>2. QED
      BY <2>1, <2>2, <2>3, <2>4, <2>5, <2>6, <3>1 DEF QuiescentSyncer, ConcludesNotWritten, Live
  <2>8. QED
    BY <1>8, <2>1, <2>6, <2>7
<1>10. ASSUME NEW s \in Syncers, SyncAnswer(s) \/ SyncAborts(s)
       PROVE  QInv'
  <2>1. /\ UNCHANGED <<row, executor, net, grace>>
        /\ \A t \in Syncers \ {s} : sync'[t] = sync[t]
    BY <1>0, <1>10 DEF SyncAnswer, SyncRefresh, SyncList, SyncAborts, EndSync
  <2>2. CASE sync' = [sync EXCEPT ![s] = SyncIdle]
    BY <1>0, <1>8, <2>1, <2>2 DEF QuiescentSyncer, SyncIdle
  <2>3. CASE SyncList(s) /\ sync' # [sync EXCEPT ![s] = SyncIdle]
    <3>1. QuiescentSyncer(s)'
      <4>1. /\ sync[s].pc = "read"
            /\ \/ /\ net[sync[s].key] = "created"
                  /\ sync' = [sync EXCEPT ![s].pc = "found"]
               \/ /\ net[sync[s].key] # "created"
                  /\ grace[sync[s].key]
                  /\ sync' = [sync EXCEPT ![s].pc = "absent"]
        BY <2>3 DEF SyncList, EndSync
      <4>2. sync[s].key \in Keys /\ QuiescentRow(sync[s].key) /\ QuiescentSyncer(s)
        BY <1>r, <1>s, <1>t, <4>1
      <4>3. \E pc \in {"found", "absent"} : sync'[s] = [sync[s] EXCEPT !.pc = pc]
        BY <1>0, <4>1
      <4>4. /\ sync'[s].key = sync[s].key
            /\ sync'[s].pstatus = sync[s].pstatus
            /\ sync'[s].pc = "absent" => net[sync[s].key] # "created" /\ grace[sync[s].key]
            /\ sync'[s].pc \in {"found", "absent"}
        BY <1>0, <4>1, <4>3 DEF SyncIdle
      <4>5. QED
        BY <2>1, <4>1, <4>2, <4>4 DEF QuiescentRow, QuiescentSyncer, ConcludesNotWritten, Live
    <3>2. QED
      BY <1>8, <2>1, <3>1
  <2>4. QED
    BY <1>10, <2>2, <2>3 DEF SyncAnswer, SyncRefresh, SyncAborts, EndSync
<1>11. ASSUME NEW s \in Syncers, SyncRecord(s)
       PROVE  QInv'
  <2> DEFINE k == sync[s].key
  <2>1. /\ sync[s].pc # "idle"
        /\ k \in Keys
        /\ row[k] \in Rows
        /\ executor[k] = "done"
        /\ SyncRecordSuccess(s) => net[k] = "created"
        /\ SyncRecordNotWritten(s) => ~Live(k)
    BY <1>0, <1>11, <1>s, <1>t DEF SyncRecord, SyncRecordSuccess, SyncRecordNotWritten,
           ConcludesNotWritten, QuiescentSyncer, Inv, SyncInv
  <2>2. /\ UNCHANGED <<executor, net, grace>>
        /\ sync' = [sync EXCEPT ![s] = SyncIdle]
        /\ \A j \in Keys \ {k} : row'[j] = row[j]
        /\ SyncRecordSuccess(s) => row'[k].status = "succeeded"
        /\ SyncRecordNotWritten(s) => row'[k].status = "failed"
    BY <1>0, <1>11, <2>1 DEF SyncRecord, SyncRecordSuccess, SyncRecordNotWritten, EndSync, Rows
  <2>3. \A j \in Keys : QuiescentRow(j)'
    BY <1>r, <1>11, <2>1, <2>2 DEF QuiescentRow, Live, SyncRecord
  <2>4. \A t \in Syncers : QuiescentSyncer(t)'
    BY <1>0, <1>s, <2>2 DEF QuiescentSyncer, ConcludesNotWritten, Live, SyncIdle
  <2>5. QED
    BY <1>0, <2>3, <2>4 DEF QInv
<1>12. CASE UNCHANGED vars
  BY <1>0, <1>12, <1>r, <1>s DEF vars, executionVars, QInv, QuiescentRow, QuiescentSyncer, Live,
                                 ConcludesNotWritten
<1>13. QED
  BY <1>1, <1>3, <1>4, <1>5, <1>6, <1>7, <1>9, <1>10, <1>11, <1>12 DEF Next

\* With reconciliation after the request has ended and effects that settle within
\* the grace period, the strengthened invariant holds in every reachable state.
THEOREM QuiescentInvariance ==
    ASSUME QuiescentSync, BoundedDelay
    PROVE  Spec => []QInv
<1>1. QInv /\ [Next]_vars => QInv'
  BY QInvStep
<1>2. QED
  BY <1>1, QInvInit, PTL DEF Spec

\* Under the same conditions no proposal ever has two issues, whatever crashes,
\* retries with new keys, lost answers and repeated reconciliations happen.
THEOREM AtMostOneIssueTheorem ==
    ASSUME QuiescentSync, BoundedDelay
    PROVE  Spec => []AtMostOneIssue
<1>1. QInv => AtMostOneIssue
  BY DEF QInv, Inv, QuiescentRow, Live, OneActiveExecution, ActiveOrSucceeded, RowStatus,
         AtMostOneIssue, Issues
<1>2. QED
  BY <1>1, QuiescentInvariance, PTL

\* ... a failed row has no issue, now or later.
THEOREM FailedMeansNotWrittenTheorem ==
    ASSUME QuiescentSync, BoundedDelay
    PROVE  Spec => []FailedMeansNotWritten
<1>1. QInv => FailedMeansNotWritten
  BY DEF QInv, QuiescentRow, Live, FailedMeansNotWritten
<1>2. QED
  BY <1>1, QuiescentInvariance, PTL
=============================================================================
