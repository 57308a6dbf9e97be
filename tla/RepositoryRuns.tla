--------------------------- MODULE RepositoryRuns ---------------------------
(***************************************************************************)
(* Analysis jobs of repositories and the publication of their results      *)
(* (repository_intelligence/persistence.py).  A worker claims a job under a *)
(* lease, analyses, and persists one result: a run, the upserts of what it  *)
(* saw, and, when its coverage is complete, the retirement of what earlier  *)
(* runs of the same scope saw and it did not.                               *)
(*                                                                         *)
(* A scope stands for repository, profile, audit level, policy hash and     *)
(* engine version; an item belongs to the repository it was found in.       *)
(* The retention of raw artifacts only clears the manifest of a run and is  *)
(* left out.                                                               *)
(***************************************************************************)
EXTENDS Integers, FiniteSets

CONSTANTS
    Jobs,           \* jobs, by their idempotency key
    Workers,        \* worker identities
    Scopes,
    RepositoryOf,   \* the repository of a scope and of an item
    Facts,          \* fingerprints of facts
    Relationships,  \* fingerprints of relationships to other repositories
    Findings,       \* fingerprints of findings
    Contradictions, \* fingerprints of contradictions
    Reportable,     \* sets of items that an analyzer may find together
    Left, Right,    \* the facts that a contradiction refers to
    MaxAttempts,    \* max_attempts of a request
    None

Items == Facts \cup Relationships \cup Findings \cup Contradictions

ASSUME RunsAssumption ==
    /\ MaxAttempts \in Nat \ {0}
    /\ Reportable \subseteq SUBSET Items
    /\ None \notin Jobs
    /\ Left \in [Contradictions -> Facts] /\ Right \in [Contradictions -> Facts]
    /\ DOMAIN RepositoryOf = Scopes \cup Items
    /\ \A c \in Contradictions :
          RepositoryOf[Left[c]] = RepositoryOf[c] /\ RepositoryOf[Right[c]] = RepositoryOf[c]

VARIABLES
    job,    \* repository_analysis_jobs
    run,    \* repository_audit_runs, by the job they belong to
    row,    \* facts, findings and contradictions with their lifecycle
    writer  \* persist_repository_intelligence_result under way, by worker

runVars == <<job, run, row, writer>>

NoJob == [status |-> "absent"]
NoRun == [status |-> "absent"]
NoRow == [status |-> "absent"]
NotWriting == [pc |-> "idle"]

Terminal == {"succeeded", "partial", "failed", "cancelled"}

\* accepted_risk and false_positive
HumanDecided == {"decided"}

\* What an analyzer can report: a contradiction comes with both of its facts.
Reports ==
    {R \in Reportable :
        \A c \in R \cap Contradictions : {Left[c], Right[c]} \subseteq R}

RunsInit ==
    /\ job = [j \in Jobs |-> NoJob]
    /\ run = [j \in Jobs |-> NoRun]
    /\ row = [i \in Items |-> NoRow]
    /\ writer = [w \in Workers |-> NotWriting]

----------------------------------------------------------------------------
(***************************************************************************)
(* Jobs.                                                                   *)
(***************************************************************************)
\* The row of a job is locked by the transaction that persists its result.
JobLocked(j) == \E w \in Workers : writer[w].pc # "idle" /\ writer[w].job = j

\* enqueue_repository_analysis_job; a replayed or a conflicting key changes nothing.
Enqueue(j, scope) ==
    /\ job[j] = NoJob
    /\ job' = [job EXCEPT ![j] =
            [status |-> "queued", scope |-> scope, attempts |-> 0, owner |-> None,
             leased |-> FALSE, due |-> TRUE, cancel |-> FALSE]]
    /\ UNCHANGED <<run, row, writer>>

Ended(j, status) ==
    [job[j] EXCEPT !.status = status, !.owner = None, !.leased = FALSE]

\* claim_repository_analysis_job on a job that may still run.
Claim(w, j) ==
    /\ job[j].status \in {"queued", "running"}
    /\ ~JobLocked(j)
    /\ job' = [job EXCEPT ![j] =
            IF job[j].cancel THEN Ended(j, "cancelled")
            ELSE IF ~job[j].due \/ job[j].leased THEN job[j]
            ELSE IF job[j].attempts >= MaxAttempts THEN Ended(j, "failed")
            ELSE [job[j] EXCEPT !.status = "running", !.attempts = job[j].attempts + 1,
                                !.owner = w, !.leased = TRUE]]
    /\ UNCHANGED <<run, row, writer>>

\* Mutant: a late failure is recorded whatever became of the job.
FailLate(w, j, retryable) ==
    /\ job[j] # NoJob
    /\ ~JobLocked(j)
    /\ job' = [job EXCEPT ![j] =
            IF retryable /\ job[j].attempts < MaxAttempts
            THEN [Ended(j, "queued") EXCEPT !.due = FALSE]
            ELSE Ended(j, "failed")]
    /\ UNCHANGED <<run, row, writer>>

\* fail_repository_analysis_job
Fail(w, j, retryable) ==
    /\ job[j].status = "running"
    /\ job[j].owner = w
    /\ ~JobLocked(j)
    /\ job' = [job EXCEPT ![j] =
            IF retryable /\ job[j].attempts < MaxAttempts
            THEN [Ended(j, "queued") EXCEPT !.due = FALSE]
            ELSE Ended(j, "failed")]
    /\ UNCHANGED <<run, row, writer>>

\* request_repository_analysis_cancellation
Cancel(j) ==
    /\ job[j].status \in {"queued", "running"}
    /\ ~JobLocked(j)
    /\ job' = [job EXCEPT ![j] =
            [(IF job[j].status = "queued" THEN Ended(j, "cancelled") ELSE job[j])
                EXCEPT !.cancel = TRUE]]
    /\ UNCHANGED <<run, row, writer>>

LeaseExpires(j) ==
    /\ job[j].status = "running" /\ job[j].leased
    /\ job' = [job EXCEPT ![j].leased = FALSE]
    /\ UNCHANGED <<run, row, writer>>

RetryDue(j) ==
    /\ job[j].status = "queued" /\ ~job[j].due
    /\ job' = [job EXCEPT ![j].due = TRUE]
    /\ UNCHANGED <<run, row, writer>>

----------------------------------------------------------------------------
(***************************************************************************)
(* Publication.  The result is written in one transaction: until its commit *)
(* no other transaction sees its run, and the rows it updates are locked.   *)
(***************************************************************************)
RowLocked(i) == \E w \in Workers : writer[w].pc # "idle" /\ i \in writer[w].locks

Committed == {j \in Jobs : run[j] # NoRun}

\* Mutant: runs of every scope count as prior runs.
AllRuns(j) == Committed \ {j}

\* Runs of the same scope that this transaction can see.
PriorRuns(j) == {k \in Committed : k # j /\ job[k].scope = job[j].scope}

\* The rows _reconcile_absent_records selects: seen last by a prior run, not yet
\* retired, and not decided by a person.
Absentees(j, report) ==
    {i \in Items \ report :
        /\ row[i].status \notin {"absent", "stale", "resolved"} \cup HumanDecided
        /\ row[i].last \in PriorRuns(j)}

\* What a job can report is its repository's own.
OwnReport(j, report) == \A i \in report : RepositoryOf[i] = RepositoryOf[job[j].scope]

\* Mutant: the cancellation is not looked at.
PersistAnyway(w, j, report, complete) ==
    LET absent == IF complete THEN Absentees(j, report) ELSE {}
        existing == {i \in report : row[i] # NoRow}
    IN  /\ writer[w] = NotWriting
        /\ job[j].status = "running" /\ job[j].owner = w
        /\ ~JobLocked(j)
        /\ run[j] = NoRun
        /\ OwnReport(j, report)
        /\ \A i \in existing \cup absent : ~RowLocked(i)
        /\ writer' = [writer EXCEPT ![w] =
                [pc |-> "writing", job |-> j, report |-> report, complete |-> complete,
                 absent |-> absent, new |-> report \ existing,
                 locks |-> existing \cup absent]]
        /\ UNCHANGED <<job, run, row>>

\* persist_repository_intelligence_result for a job without a run.  The lease must
\* be the worker's, and may have expired.
PersistBegin(w, j, report, complete) ==
    LET absent == IF complete THEN Absentees(j, report) ELSE {}
        existing == {i \in report : row[i] # NoRow}
    IN  /\ writer[w] = NotWriting
        /\ job[j].status = "running"
        /\ job[j].owner = w
        /\ ~job[j].cancel
        /\ ~JobLocked(j)
        /\ run[j] = NoRun
        /\ OwnReport(j, report)
        /\ \A i \in existing \cup absent : ~RowLocked(i)
        /\ writer' = [writer EXCEPT ![w] =
                [pc |-> "writing", job |-> j, report |-> report, complete |-> complete,
                 absent |-> absent, new |-> report \ existing,
                 locks |-> existing \cup absent]]
        /\ UNCHANGED <<job, run, row>>

\* The result of a job whose cancellation was recorded is refused whoever brings
\* it, and the job finished; the caller may still roll that back.
PersistCancelled(j) ==
    /\ job[j] # NoJob
    /\ job[j].cancel
    /\ ~JobLocked(j)
    /\ job' = [job EXCEPT ![j] = Ended(j, "cancelled")]
    /\ UNCHANGED <<run, row, writer>>

\* The same result again: the job ends as its run says.
PersistReplay(j) ==
    /\ run[j] # NoRun
    /\ ~job[j].cancel
    /\ ~JobLocked(j)
    /\ job' = [job EXCEPT ![j] = Ended(j, run[j].status)]
    /\ UNCHANGED <<run, row, writer>>

\* _upsert_facts: the row of the fingerprint is current again and owned by this run.
SeenFact(j) == [status |-> "current", last |-> j]

\* _upsert_relationships does the same to the row of source, type and target.
SeenRelationship(j) == [status |-> "current", last |-> j]

\* _upsert_findings; "open" is a finding that is new or lacks evidence, as the
\* analyzer says.
SeenFinding(i, j) ==
    [status |-> CASE row[i].status = "resolved" -> "regressed"
                  [] row[i].status \in HumanDecided -> row[i].status
                  [] OTHER -> "open",
     last |-> j]

\* _upsert_contradictions
SeenContradiction(j) == [status |-> "current", last |-> j]

Seen(i, j) ==
    CASE i \in Facts -> SeenFact(j)
      [] i \in Relationships -> SeenRelationship(j)
      [] i \in Findings -> SeenFinding(i, j)
      [] i \in Contradictions -> SeenContradiction(j)

\* _reconcile_absent_records
Retired(i) == [row[i] EXCEPT !.status = IF i \in Facts \cup Relationships THEN "stale" ELSE "resolved"]

\* The commit; a row that another transaction inserted meanwhile is a duplicate key
\* and rolls everything back.
PersistCommit(w) ==
    /\ writer[w].pc = "writing"
    /\ writer' = [writer EXCEPT ![w] = NotWriting]
    /\ LET t == writer[w]
       IN  IF \E i \in t.new : row[i] # NoRow
           THEN UNCHANGED <<job, run, row>>
           ELSE /\ run' = [run EXCEPT ![t.job] =
                        [status |-> IF t.complete THEN "succeeded" ELSE "partial",
                         report |-> t.report]]
                /\ row' = [i \in Items |->
                        IF i \in t.report THEN Seen(i, t.job)
                        ELSE IF i \in t.absent THEN Retired(i)
                        ELSE row[i]]
                /\ job' = [job EXCEPT ![t.job] =
                        Ended(t.job, IF t.complete THEN "succeeded" ELSE "partial")]

\* The worker's process or its transaction ends without a commit.
PersistAbort(w) ==
    /\ writer[w].pc = "writing"
    /\ writer' = [writer EXCEPT ![w] = NotWriting]
    /\ UNCHANGED <<job, run, row>>

----------------------------------------------------------------------------
\* A person accepts a finding or calls it a false positive; nothing in the
\* repository writes these statuses yet.
Triage(i) ==
    /\ row[i].status \in {"open", "regressed"}
    /\ ~RowLocked(i)
    /\ row' = [row EXCEPT ![i].status = "decided"]
    /\ UNCHANGED <<job, run, writer>>

\* delete_repository_intelligence_records of repository p: it waits for a result
\* being written and then fails on the foreign key of the run it did not see.
DeleteRecords(p) ==
    LET gone == {j \in Jobs : job[j] # NoJob /\ RepositoryOf[job[j].scope] = p}
    IN  /\ gone # {}
        /\ \A w \in Workers : writer[w] # NotWriting => writer[w].job \notin gone
        /\ job' = [j \in Jobs |-> IF j \in gone THEN NoJob ELSE job[j]]
        /\ run' = [j \in Jobs |-> IF j \in gone THEN NoRun ELSE run[j]]
        /\ row' = [i \in Items |-> IF RepositoryOf[i] = p THEN NoRow ELSE row[i]]
        /\ UNCHANGED writer

RunsNext ==
    \/ \E j \in Jobs :
          \/ \E scope \in Scopes : Enqueue(j, scope)
          \/ Cancel(j) \/ LeaseExpires(j) \/ RetryDue(j)
          \/ PersistCancelled(j) \/ PersistReplay(j)
    \/ \E w \in Workers, j \in Jobs :
          \/ Claim(w, j)
          \/ \E retryable \in BOOLEAN : Fail(w, j, retryable)
          \/ \E report \in Reports, complete \in BOOLEAN : PersistBegin(w, j, report, complete)
    \/ \E w \in Workers : PersistCommit(w) \/ PersistAbort(w)
    \/ \E i \in Findings : Triage(i)
    \/ \E scope \in Scopes : DeleteRecords(RepositoryOf[scope])

RunsSpec == RunsInit /\ [][RunsNext]_runVars

----------------------------------------------------------------------------
(***************************************************************************)
(* "Reconcile only complete trusted coverage": what is retired was missed   *)
(* by a complete run of the scope that saw it last; a partial run, or a run *)
(* of another scope, retires nothing.                                       *)
(***************************************************************************)
RetiredWasMissed ==
    \A i \in Items : row[i].status \in {"stale", "resolved"} =>
        \E j \in Committed \ {row[i].last} :
            /\ run[j].status = "succeeded"
            /\ job[j].scope = job[row[i].last].scope
            /\ i \notin run[j].report

(***************************************************************************)
(* No run publishes a result of a job whose cancellation was recorded       *)
(* before its transaction locked the job.                                   *)
(***************************************************************************)
CancelledPublishesNothing ==
    [][\A j \in Jobs : job[j] # NoJob /\ run[j] = NoRun /\ job[j].cancel =>
            run'[j] = NoRun]_runVars

(***************************************************************************)
(* A job and its run say the same: a published result is never that of a    *)
(* job that failed or was cancelled, whatever a worker whose lease was lost  *)
(* reports late, and no job has succeeded without its result.               *)
(***************************************************************************)
JobTellsRun ==
    \A j \in Jobs : run[j] # NoRun \/ job[j].status \in {"succeeded", "partial"} =>
        job[j].status = run[j].status
=============================================================================
