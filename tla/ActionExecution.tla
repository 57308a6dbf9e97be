--------------------------- MODULE ActionExecution ---------------------------
(***************************************************************************)
(* Execution of approved proposals as GitHub issues, and the read-only     *)
(* reconciliation of executions whose outcome is unknown                   *)
(* (github_issue_execution_service.py,                                     *)
(* github_execution_result_sync_service.py, their endpoints in             *)
(* app/api/actions.py).                                                    *)
(*                                                                         *)
(* A request is a process that commits several times.  Between two commits *)
(* it works on the ORM objects it holds: an attribute is written back only *)
(* if the process assigned a value other than the one in its memory, and   *)
(* the UPDATE selects the row by id, whatever the row now contains.        *)
(*                                                                         *)
(* (workspace, client idempotency key) is unique, so the key names the     *)
(* execution row and the request that inserted it.                         *)
(***************************************************************************)
EXTENDS ActionProposal

CONSTANTS Keys,            \* client idempotency keys of execute requests
          Syncers,         \* concurrent sync-execution-result requests
          IssueProposals,  \* create-GitHub-issue proposals, valid payload, allowed repository
          QuiescentSync,   \* operators reconcile only once the execute request has ended
          BoundedDelay     \* an attempt and its effect at GitHub settle within the grace period

ASSUME ExecutionAssumption ==
    /\ IssueProposals \subseteq Proposals
    /\ QuiescentSync \in BOOLEAN
    /\ BoundedDelay \in BOOLEAN
    /\ None \notin Keys \cup Proposals \cup Users

VARIABLES row,        \* ActionExecution rows by key
          executor,   \* where the request that inserted the row is
          net,        \* the issue POST of a key, at GitHub
          grace,      \* 60 s have passed since started_at
          audit,      \* ActionExecutionEvent types recorded for a row
          connected,  \* the GitHub connection is connected and has a token
          sync,       \* reconciliation requests and the objects they hold
          canonical   \* keys whose issue was normalized into canonical records

executionVars == <<row, executor, net, grace, audit, connected, sync, canonical>>
vars == <<proposalVars, executionVars>>

RowStatus == {"claimed", "running", "succeeded", "failed", "uncertain"}
ActiveOrSucceeded == RowStatus \ {"failed"}
Unresolved == {"claimed", "running", "uncertain"}

EventTypes == {"claimed", "started", "failed", "uncertain", "succeeded", "reconciled",
               "not_observed"}
Rows == [proposal : Proposals, user : Users, version : Nat,
         status : RowStatus, reconciled : BOOLEAN]
NoRow == [proposal |-> None, user |-> None, version |-> 0,
          status |-> "none", reconciled |-> FALSE]
SyncIdle == [pc |-> "idle", key |-> None, status |-> "none", pstatus |-> "absent"]

TypeOK ==
    /\ ProposalTypeOK
    /\ row \in [Keys -> Rows \cup {NoRow}]
    /\ executor \in [Keys -> {"idle", "claimed", "running", "posting", "done"}]
    /\ net \in [Keys -> {"unsent", "inflight", "created", "dropped"}]
    /\ grace \in [Keys -> BOOLEAN]
    /\ audit \in [Keys -> SUBSET EventTypes]
    /\ connected \in BOOLEAN
    /\ sync \in [Syncers -> {SyncIdle} \cup
                 [pc : {"read", "found", "absent"}, key : Keys,
                  status : ActiveOrSucceeded, pstatus : ProposalStatus]]
    /\ canonical \subseteq Keys

Init ==
    /\ ProposalInit
    /\ row = [k \in Keys |-> NoRow]
    /\ executor = [k \in Keys |-> "idle"]
    /\ net = [k \in Keys |-> "unsent"]
    /\ grace = [k \in Keys |-> FALSE]
    /\ audit = [k \in Keys |-> {}]
    /\ connected = TRUE
    /\ sync = [s \in Syncers |-> SyncIdle]
    /\ canonical = {}

-----------------------------------------------------------------------------
(* Database operations.                                                    *)
\* uq_action_executions_one_active_or_success_per_proposal, for row k of p.
IndexAllows(k, p) ==
    \A j \in Keys \ {k} :
        row[j].proposal = p => row[j].status \notin ActiveOrSucceeded

SetStatus(k, st) == row' = [row EXCEPT ![k].status = st]

Record(k, event) == audit' = [audit EXCEPT ![k] = @ \cup {event}]

\* proposal.status := new on an object loaded with status old.
SetProposalStatus(p, old, new) ==
    /\ status' = [status EXCEPT ![p] = IF old = new THEN @ ELSE new]
    /\ updatedAt' = [updatedAt EXCEPT ![p] = IF old = new THEN @ ELSE @ + 1]
    /\ UNCHANGED <<evidence, ruling, memory>>
ActiveRows(p) == {k \in Keys : row[k].proposal = p /\ row[k].status \in ActiveOrSucceeded}

-----------------------------------------------------------------------------
(* The execute request.                                                    *)

\* _resolve_existing_execution for row k.
ExistingOutcome(p, k, sameRequest) ==
    IF row[k].proposal # p \/ ~sameRequest THEN "idempotency_reused"
    ELSE CASE row[k].status = "succeeded"  -> "receipt"
           [] row[k].status \in Unresolved -> "in_progress"
           [] row[k].status = "failed"     -> "retry_key_required"

\* _execution_request_hash covers the proposal's updated_at and the user.
RequestHash(p, u) == <<p, updatedAt[p], u>>
\* Faulty variant: the approval is not checked.
ExecutableUnapproved(p) ==
    /\ status[p] # "absent"
    /\ p \in IssueProposals
    /\ evidence[p]
    /\ connected

Executable(p) ==
    /\ status[p] = "approved"
    /\ p \in IssueProposals
    /\ evidence[p]
    /\ connected

\* The answer of the first transaction, which holds the proposal FOR UPDATE.
ExecuteOutcome(p, k, u) ==
    IF status[p] = "absent" THEN "not_found"
    ELSE IF row[k] # NoRow
      THEN ExistingOutcome(p, k, <<row[k].proposal, row[k].version, row[k].user>>
                                   = RequestHash(p, u))
    ELSE IF ActiveRows(p) # {}
      THEN ExistingOutcome(p, CHOOSE j \in ActiveRows(p) : TRUE, TRUE)
    ELSE IF Executable(p) THEN "claim" ELSE "blocked"

\* First commit: the durable claim.  Every other outcome leaves the rows alone.
Claim(p, k, u) ==
    /\ ExecuteOutcome(p, k, u) = "claim"
    /\ row' = [row EXCEPT ![k] = [proposal |-> p, user |-> u, version |-> updatedAt[p],
                                  status |-> "claimed", reconciled |-> FALSE]]
    /\ executor' = [executor EXCEPT ![k] = "claimed"]
    /\ Record(k, "claimed")
    /\ UNCHANGED <<proposalVars, net, grace, connected, sync, canonical>>

\* _mark_pre_provider_failed and its event; the proposal is still approved in
\* the memory of the request, so its row is not written.
FailBeforeProvider(k) ==
    /\ SetStatus(k, "failed")
    /\ Record(k, "failed")
    /\ executor' = [executor EXCEPT ![k] = "done"]
    /\ UNCHANGED <<proposalVars, net, grace, connected, sync, canonical>>

TokenUnavailable(k) ==
    /\ executor[k] = "claimed"
    /\ FailBeforeProvider(k)

\* Second commit: running and started_at, before any network I/O.
Start(k) ==
    /\ executor[k] = "claimed"
    /\ IndexAllows(k, row[k].proposal)
    /\ SetStatus(k, "running")
    /\ Record(k, "started")
    /\ executor' = [executor EXCEPT ![k] = "running"]
    /\ UNCHANGED <<proposalVars, net, grace, connected, sync, canonical>>

EvidenceLost(k) ==
    /\ executor[k] = "running"
    /\ ~evidence[row[k].proposal]
    /\ FailBeforeProvider(k)

\* Evidence is validated again, then create_issue posts the marked issue.
PostIssue(k) ==
    /\ executor[k] = "running"
    /\ evidence[row[k].proposal]
    /\ net' = [net EXCEPT ![k] = "inflight"]
    /\ executor' = [executor EXCEPT ![k] = "posting"]
    /\ UNCHANGED <<proposalVars, row, grace, audit, connected, sync, canonical>>

\* Faulty variant: any answer of the provider counts as success.
SucceedOnAnyAnswer(k) ==
    /\ executor[k] = "posting"
    /\ net[k] # "inflight"
    /\ IndexAllows(k, row[k].proposal)
    /\ SetStatus(k, "succeeded")
    /\ SetProposalStatus(row[k].proposal, "approved", "executed")
    /\ Record(k, "succeeded")
    /\ executor' = [executor EXCEPT ![k] = "done"]
    /\ UNCHANGED <<net, grace, connected, sync, canonical>>

\* Third commit: the receipt.
Succeed(k) ==
    /\ executor[k] = "posting"
    /\ net[k] = "created"
    /\ IndexAllows(k, row[k].proposal)
    /\ SetStatus(k, "succeeded")
    /\ SetProposalStatus(row[k].proposal, "approved", "executed")
    /\ Record(k, "succeeded")
    /\ executor' = [executor EXCEPT ![k] = "done"]
    /\ UNCHANGED <<net, grace, connected, sync, canonical>>

\* Faulty variant: an exception during the provider call is recorded as a failure.
FailOnException(k) ==
    /\ executor[k] = "posting"
    /\ FailBeforeProvider(k)

\* create_issue raised: timeout, lost connection, refusal, malformed answer.
MarkUncertain(k) ==
    /\ executor[k] = "posting"
    /\ IndexAllows(k, row[k].proposal)
    /\ SetStatus(k, "uncertain")
    /\ Record(k, "uncertain")
    /\ executor' = [executor EXCEPT ![k] = "done"]
    /\ UNCHANGED <<proposalVars, net, grace, connected, sync, canonical>>

\* The unique index refuses the UPDATE: an unhandled error, nothing is written.
IndexConflict(k) ==
    /\ executor[k] \in {"claimed", "posting"}
    /\ ~IndexAllows(k, row[k].proposal)
    /\ executor' = [executor EXCEPT ![k] = "done"]
    /\ UNCHANGED <<proposalVars, row, net, grace, audit, connected, sync, canonical>>

\* The API process dies, or the request is cancelled, between two commits.
Crash(k) ==
    /\ executor[k] \in {"claimed", "running", "posting"}
    /\ executor' = [executor EXCEPT ![k] = "done"]
    /\ UNCHANGED <<proposalVars, row, net, grace, audit, connected, sync, canonical>>

ExecutorStep(k) ==
    \/ TokenUnavailable(k) \/ Start(k) \/ EvidenceLost(k) \/ PostIssue(k)
    \/ Succeed(k) \/ MarkUncertain(k) \/ IndexConflict(k)

-----------------------------------------------------------------------------
(* GitHub and time.                                                        *)

ProviderCreates(k) ==
    /\ net[k] = "inflight"
    /\ net' = [net EXCEPT ![k] = "created"]
    /\ UNCHANGED <<proposalVars, row, executor, grace, audit, connected, sync, canonical>>

ProviderDrops(k) ==
    /\ net[k] = "inflight"
    /\ net' = [net EXCEPT ![k] = "dropped"]
    /\ UNCHANGED <<proposalVars, row, executor, grace, audit, connected, sync, canonical>>

\* _absence_reconciliation_eligible_at becomes true for row k.
GraceElapses(k) ==
    /\ "started" \in audit[k]
    /\ ~grace[k]
    /\ BoundedDelay => executor[k] = "done" /\ net[k] # "inflight"
    /\ grace' = [grace EXCEPT ![k] = TRUE]
    /\ UNCHANGED <<proposalVars, row, executor, net, audit, connected, sync, canonical>>

\* The connection is disconnected or connected again by an operator.
ConnectionChanges ==
    /\ connected' \in BOOLEAN
    /\ UNCHANGED <<proposalVars, row, executor, net, grace, audit, sync, canonical>>

-----------------------------------------------------------------------------
(* The sync-execution-result request.  It takes no row lock.               *)

SyncRead(s, p) ==
    /\ sync[s].pc = "idle"
    /\ p \in IssueProposals
    /\ connected
    /\ \E k \in ActiveRows(p) :
         /\ QuiescentSync => executor[k] = "done"
         /\ sync' = [sync EXCEPT ![s] = [pc |-> "read", key |-> k,
                         status |-> row[k].status, pstatus |-> status[p]]]
    /\ UNCHANGED <<proposalVars, row, executor, net, grace, audit, connected, canonical>>

EndSync(s) == sync' = [sync EXCEPT ![s] = SyncIdle]

\* A succeeded execution: get_issue, then normalization into canonical records.
SyncRefresh(s) ==
    /\ sync[s].pc = "read"
    /\ sync[s].status = "succeeded"
    /\ net[sync[s].key] = "created"
    /\ canonical' = canonical \cup {sync[s].key}
    /\ EndSync(s)
    /\ UNCHANGED <<proposalVars, row, executor, net, grace, audit, connected>>

\* Faulty variant: an absent marker is conclusive without the grace period.
ListWithoutGrace(s) ==
    LET k == sync[s].key
    IN /\ sync[s].pc = "read"
       /\ sync[s].status \in {"running", "uncertain"}
       /\ sync' = [sync EXCEPT ![s].pc = IF net[k] = "created" THEN "found" ELSE "absent"]
       /\ UNCHANGED <<proposalVars, row, executor, net, grace, audit, connected, canonical>>

\* Faulty variant: an absent marker is never conclusive.
ListAlwaysPending(s) ==
    /\ sync[s].pc = "read"
    /\ sync[s].status \in {"running", "uncertain"}
    /\ IF net[sync[s].key] = "created" THEN sync' = [sync EXCEPT ![s].pc = "found"]
                                       ELSE EndSync(s)
    /\ UNCHANGED <<proposalVars, row, executor, net, grace, audit, connected, canonical>>

\* list_issues returned a complete snapshot, searched for the marker.  Within
\* the grace period GitHub may not list an issue it has created.
SyncList(s) ==
    LET k == sync[s].key
        seen(pc) == sync' = [sync EXCEPT ![s].pc = pc]
    IN /\ sync[s].pc = "read"
       /\ sync[s].status \in {"running", "uncertain"}
       /\ \/ net[k] = "created" /\ seen("found")
          \/ net[k] # "created" /\ grace[k] /\ seen("absent")
          \/ ~grace[k] /\ EndSync(s)          \* _record_reconciliation_pending
       /\ UNCHANGED <<proposalVars, row, executor, net, grace, audit, connected, canonical>>

\* _record_reconciled_success, its event and the normalization, one commit.
SyncRecordSuccess(s) ==
    LET k == sync[s].key
    IN /\ sync[s].pc = "found"
       /\ IndexAllows(k, row[k].proposal)
       /\ row' = [row EXCEPT ![k].status = "succeeded", ![k].reconciled = TRUE]
       /\ SetProposalStatus(row[k].proposal, sync[s].pstatus, "executed")
       /\ Record(k, "reconciled")
       /\ canonical' = canonical \cup {k}
       /\ EndSync(s)
       /\ UNCHANGED <<executor, net, grace, connected>>

\* Faulty variant: the status the request read is not looked at.
ConcludesFromAnyStatus(s) == sync[s].pc \in {"absent", "read"}

\* Whether the request concluded that no issue was or will be written: a claim
\* it read as claimed, or a complete snapshot after the grace period.
ConcludesNotWritten(s) ==
    \/ sync[s].pc = "absent"
    \/ sync[s].pc = "read" /\ sync[s].status = "claimed"

\* _record_write_not_observed.
SyncRecordNotWritten(s) ==
    LET k == sync[s].key
    IN /\ ConcludesNotWritten(s)
       /\ row' = [row EXCEPT ![k].status = "failed", ![k].reconciled = TRUE]
       /\ SetProposalStatus(row[k].proposal, sync[s].pstatus, "approved")
       /\ Record(k, "not_observed")
       /\ EndSync(s)
       /\ UNCHANGED <<executor, net, grace, connected, canonical>>

\* The provider read or the token fails, the index refuses the UPDATE, or the
\* process dies: the request ends and the rows are as they were.
SyncAborts(s) ==
    /\ sync[s].pc # "idle"
    /\ EndSync(s)
    /\ UNCHANGED <<proposalVars, row, executor, net, grace, audit, connected, canonical>>

SyncAnswer(s) == SyncRefresh(s) \/ SyncList(s)
SyncRecord(s) == SyncRecordSuccess(s) \/ SyncRecordNotWritten(s)

-----------------------------------------------------------------------------

Next ==
    \/ ProposalNext /\ UNCHANGED executionVars
    \/ \E p \in Proposals, k \in Keys, u \in Users : Claim(p, k, u)
    \/ \E k \in Keys : \/ ExecutorStep(k) \/ Crash(k)
                       \/ ProviderCreates(k) \/ ProviderDrops(k) \/ GraceElapses(k)
    \/ \E s \in Syncers : \/ \E p \in Proposals : SyncRead(s, p)
                          \/ SyncAnswer(s) \/ SyncRecord(s) \/ SyncAborts(s)
    \/ ConnectionChanges

Spec == Init /\ [][Next]_vars

\* The event loop keeps running a request, and every await of it has a timeout;
\* GitHub settles a request; time passes.  The operator repeats reconciliation
\* while it is possible, and not every repetition fails.
Fairness ==
    /\ \A k \in Keys : /\ WF_vars(ExecutorStep(k))
                       /\ WF_vars(ProviderCreates(k) \/ ProviderDrops(k))
                       /\ WF_vars(GraceElapses(k))
    /\ \A s \in Syncers : /\ SF_vars(SyncAnswer(s))
                          /\ SF_vars(SyncRecord(s))
                          /\ \A p \in Proposals : SF_vars(SyncRead(s, p))

FairSpec == Spec /\ Fairness

-----------------------------------------------------------------------------
(* Properties of every behaviour.                                          *)

Issues(p) == {k \in Keys : row[k].proposal = p /\ net[k] = "created"}

\* What the system reports as done exists at GitHub: a succeeded execution and a
\* canonical record have their marked issue, an executed proposal has at least
\* one, whoever recorded it (the request or a reconciliation) and in any order.
ReceiptsAreReal ==
    /\ \A k \in Keys : row[k].status = "succeeded" => net[k] = "created"
    /\ \A k \in canonical : net[k] = "created"
    /\ \A p \in Proposals : status[p] = "executed" => Issues(p) # {}

\* Nothing is sent to GitHub before the claim and the start are durable, and
\* only for a proposal that a human approved (never one that is rejected later).
WriteAhead ==
    \A k \in Keys : net[k] # "unsent" =>
        /\ {"claimed", "started"} \subseteq audit[k]
        /\ ruling[row[k].proposal] # None
        /\ ruling[row[k].proposal].decision = "approved"
        /\ status[row[k].proposal] \in {"approved", "executed"}

\* A failure the executor itself recorded is definitive: the provider was never
\* called for that row, and the request has ended, so it never will be.
DefinitiveFailure ==
    \A k \in Keys : row[k].status = "failed" /\ ~row[k].reconciled =>
        net[k] = "unsent" /\ executor[k] = "done"

\* uq_action_executions_one_active_or_success_per_proposal holds in every
\* committed state although requests decide on rows they read earlier.
OneActiveExecution ==
    \A j, k \in Keys :
        /\ row[j].status \in ActiveOrSucceeded
        /\ row[k].status \in ActiveOrSucceeded
        /\ row[j].proposal = row[k].proposal
        => j = k

-----------------------------------------------------------------------------
(* Properties of the documented operation: reconciliation after the        *)
(* request has ended, effects settled within the grace period.             *)

\* docs/DECISIONS.md: "exactly one provider call, one ActionExecution and one
\* external issue" per approved proposal, through retries and crashes.
AtMostOneIssue ==
    \A p \in Proposals : \A j, k \in Issues(p) : j = k

\* A failed row stands for an issue that does not exist and will not appear, so
\* the retry with a new key that it permits cannot duplicate it.
FailedMeansNotWritten ==
    \A k \in Keys : row[k].status = "failed" => net[k] \notin {"inflight", "created"}

\* No step takes a recorded receipt back.
ReceiptIsFinal ==
    [][\A k \in Keys : row[k].status = "succeeded" => row'[k].status = "succeeded"]_vars

\* An execution does not stay claimed, running or uncertain for ever, if the
\* connection is usable again and again.
Reconciled ==
    []<>connected =>
        \A k \in Keys : row[k].status \in Unresolved ~> row[k].status \notin Unresolved

\* The execution implements a write-once external write per proposal.
Abstract == INSTANCE ExternalWrite WITH
    verdict <- [p \in Proposals |-> IF status[p] = "executed" THEN "approved" ELSE status[p]],
    issues  <- {pk \in Proposals \X Keys : row[pk[2]].proposal = pk[1] /\ net[pk[2]] = "created"},
    acknowledged <- {p \in Proposals : status[p] = "executed"}

RefinesExternalWrite == Abstract!Spec

-----------------------------------------------------------------------------
(* What the documents claim beyond that.                                   *)

\* docs/deploy/external-action-result-smoke.md: "Duplicate execute does not
\* create a second provider issue; it returns/uses the existing receipt."
ReplayReturnsReceipt ==
    \A k \in Keys : row[k].status = "succeeded" =>
        ExecuteOutcome(row[k].proposal, k, row[k].user) = "receipt"
=============================================================================
