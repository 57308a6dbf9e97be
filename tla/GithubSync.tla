----------------------------- MODULE GithubSync -----------------------------
(***************************************************************************)
(* The durable queue of GitHub reads: enqueueing and cancelling jobs,      *)
(* workers that claim them with leases and resume each other's work        *)
(* (github_sync_worker_service.py, github_sync_job_service.py,             *)
(* github_app_live_sync_service.py), and the imports that write records    *)
(* outside the queue: local normalization of a job (/normalize-local) and  *)
(* the result sync of an executed action, which imports the one issue it   *)
(* read (github_execution_result_sync_service.py).                         *)
(*                                                                         *)
(* Each action is one committed transaction or one read from the provider. *)
(* lease_owner is unique for each claim; the attempt number of the claim,  *)
(* which no other claim of the job has, stands for it.  The branches for a *)
(* running job with cancel_requested_at set, and _finish_resumed_job, are  *)
(* not here: Cancel ends the job at once, and FinishedIffComplete shows    *)
(* that a job that still runs has a repository left to read.               *)
(*                                                                         *)
(* A worker writes a repository's own record before its items, and the     *)
(* lock on that row, taken by the upsert when the row is absent too, is    *)
(* held to the commit: batches of one repository are serialized and each   *)
(* is one action.  Imports need not write that record, and are two.        *)
(***************************************************************************)
EXTENDS SourceRecords, FiniteSets

CONSTANTS Jobs,         \* sync jobs
          LiveJobs,     \* jobs enqueued for a provider read; the others are manual records
          Requested,    \* the repositories of a job, without duplicates
          ResultJobs,   \* manual records that a result sync makes for its own import
          CompleteScope, \* jobs that read every state of the work items
          Workers,      \* worker tasks
          MaxAttempts,  \* SyncJob.max_attempts
          None

ASSUME SyncAssumption ==
    /\ LiveJobs \subseteq Jobs
    /\ ResultJobs \subseteq Jobs \ LiveJobs
    /\ CompleteScope \subseteq Jobs
    /\ Requested \in [Jobs -> SUBSET Repos]
    /\ \A j \in Jobs : IsFiniteSet(Requested[j]) /\ Requested[j] # {}
    /\ MaxAttempts \in Nat \ {0}
    /\ None \notin Jobs \cup Repos

VARIABLES job,         \* sync_jobs rows
          worker,      \* what a worker task holds
          normalizing, \* observed_at of the import that runs for a job, or 0
          missed       \* records for which that import's SELECT ... FOR UPDATE found no row

imports == <<normalizing, missed>>
vars == <<sourceVars, job, worker, imports>>

Finished == {"succeeded", "partial"}
Terminal == Finished \cup {"failed", "cancelled"}
JobStatus == Terminal \cup {"absent", "queued", "running"}
Active == {"queued", "running"}

\* elapsed: next_attempt_at of a queued, lease_expires_at of a running job has
\* passed.  local: the log of the job holds a normalize-local entry.
JobRows == [status : JobStatus, attempt : 0..MaxAttempts, owner : 0..MaxAttempts,
            elapsed : BOOLEAN, completed : SUBSET Repos, partial : BOOLEAN, local : BOOLEAN]
NoJob == [status |-> "absent", attempt |-> 0, owner |-> 0, elapsed |-> FALSE,
          completed |-> {}, partial |-> FALSE, local |-> FALSE]

WorkerSteps == {"idle", "claimed", "opening", "next", "reading", "read", "batch"}
Idle == [pc |-> "idle", job |-> None, claim |-> 0, todo |-> {}, repo |-> None,
         batch |-> NoSnapshot]

TypeOK ==
    /\ SourceTypeOK
    /\ job \in [Jobs -> JobRows]
    /\ worker \in [Workers ->
         {Idle} \cup [pc : WorkerSteps \ {"idle"}, job : LiveJobs, claim : 1..MaxAttempts,
                      todo : SUBSET Repos, repo : Repos \cup {None}, batch : Snapshots]]
    /\ normalizing \in [Jobs -> Times]
    /\ missed \in [Jobs -> SUBSET Repos]

Init ==
    /\ SourceInit
    /\ job = [j \in Jobs |-> NoJob]
    /\ worker = [w \in Workers |-> Idle]
    /\ normalizing = [j \in Jobs |-> 0]
    /\ missed = [j \in Jobs |-> {}]

-----------------------------------------------------------------------------
(* Requests of operators.                                                  *)

\* enqueue_github_app_installation_sync, create_manual_github_sync_job.
Enqueue(j) ==
    /\ j \notin ResultJobs
    /\ job[j].status = "absent"
    /\ job' = [job EXCEPT ![j].status = "queued", ![j].elapsed = TRUE]
    /\ UNCHANGED <<sourceVars, worker, imports>>

\* request_github_sync_job_cancellation locks the row, which an import that has
\* come to the records has already changed.
Cancel(j) ==
    /\ job[j].status \in Active
    /\ missed[j] = {}
    /\ job' = [job EXCEPT ![j].status = "cancelled", ![j].owner = 0, ![j].elapsed = FALSE]
    /\ UNCHANGED <<sourceVars, worker, imports>>

\* What an import writes: a manual job carries the records to normalize; the
\* live request of other jobs holds none.
Imported(j) == IF j \in LiveJobs THEN {} ELSE Requested[j]

\* normalize-local reads the job without a lock; a result sync takes observed_at,
\* reads its issue from GitHub and makes a job row others never see queued ...
NormalizeRead(j) ==
    /\ IF j \in ResultJobs
       THEN job[j].status = "absent" /\ \A r \in Requested[j] : listed[r]
       ELSE job[j].status = "queued"
    /\ normalizing[j] = 0
    /\ normalizing' = [normalizing EXCEPT ![j] = clock]
    /\ UNCHANGED <<sourceVars, job, worker, missed>>

\* ... its locked SELECT of a record finds no row, while others may still insert
\* one (the records of one import are looked up one by one, each before its own
\* upsert; only the order across different rows is lost here) ...
NormalizeMiss(j, r) ==
    /\ normalizing[j] # 0
    /\ r \in Imported(j) \ missed[j]
    /\ record[r].state = "none"
    /\ missed' = [missed EXCEPT ![j] = @ \cup {r}]
    /\ UNCHANGED <<sourceVars, job, worker, normalizing>>

\* ... and later it writes the records, and the status and progress of the job.
\* Only the result sync's import is attested by the provider.
NormalizeWrite(j) ==
    /\ normalizing[j] # 0
    /\ \E outcome \in Finished :
         job' = [job EXCEPT ![j].status = outcome, ![j].completed = {},
                            ![j].partial = FALSE, ![j].local = TRUE]
    /\ LET imported == [present |-> TRUE, read |-> normalizing[j], stamp |-> normalizing[j]]
       IN Write(Imported(j), [r \in Repos |-> imported], j \in ResultJobs, missed[j], FALSE)
    /\ normalizing' = [normalizing EXCEPT ![j] = 0]
    /\ missed' = [missed EXCEPT ![j] = {}]
    /\ UNCHANGED worker

\* The next attempt of a queued job is due, the lease of a running one expires.
TimerElapses(j) ==
    /\ job[j].status \in Active
    /\ ~job[j].elapsed
    /\ job' = [job EXCEPT ![j].elapsed = TRUE]
    /\ UNCHANGED <<sourceVars, worker, imports>>

Import(j) == NormalizeRead(j) \/ (\E r \in Repos : NormalizeMiss(j, r)) \/ NormalizeWrite(j)
JobStep(j) == Enqueue(j) \/ Cancel(j) \/ TimerElapses(j) \/ Import(j)

-----------------------------------------------------------------------------
(* Workers.                                                                *)

Step(w, pc) == worker' = [worker EXCEPT ![w].pc = pc]
Release(w) == worker' = [worker EXCEPT ![w] = Idle]
\* Faulty variant: exhausted jobs are left running.
ExpireNothing == job

\* _expire_exhausted_leases.
ExpireExhausted ==
    [j \in Jobs |->
        IF job[j].status = "running" /\ job[j].elapsed /\ job[j].attempt >= MaxAttempts
        THEN [job[j] EXCEPT !.status = "failed", !.owner = 0, !.elapsed = FALSE]
        ELSE job[j]]

Claimable(j) ==
    /\ j \in LiveJobs
    /\ job[j].status \in Active
    /\ job[j].elapsed
    /\ job[j].attempt < MaxAttempts

\* claim_next_github_sync_job.
Claim(w, j) ==
    LET attempt == job[j].attempt + 1
        leased == [job[j] EXCEPT !.status = "running", !.elapsed = FALSE,
                                 !.attempt = attempt, !.owner = attempt]
    IN /\ worker[w] = Idle
       /\ Claimable(j)
       /\ job' = [ExpireExhausted EXCEPT ![j] = leased]
       /\ worker' = [worker EXCEPT ![w] =
              [pc |-> "claimed", job |-> j, claim |-> attempt, todo |-> {},
               repo |-> None, batch |-> NoSnapshot]]
       /\ UNCHANGED <<sourceVars, imports>>

\* A poll that finds no job to claim.
Poll(w) ==
    /\ worker[w] = Idle
    /\ \A j \in Jobs : ~Claimable(j)
    /\ ExpireExhausted # job
    /\ job' = ExpireExhausted
    /\ UNCHANGED <<sourceVars, worker, imports>>

\* Faulty variant: the claim is checked by the status alone.
HoldsByStatus(w) == job[worker[w].job].status = "running"

\* _locked_claim_job.
Holds(w) ==
    LET j == worker[w].job
    IN job[j].status = "running" /\ job[j].owner = worker[w].claim

\* _prepare_claim, then the first _renew_or_cancel.
Renew(w) ==
    /\ worker[w].pc = "claimed"
    /\ Holds(w)
    /\ job' = [job EXCEPT ![worker[w].job].elapsed = FALSE]
    /\ Step(w, "opening")
    /\ UNCHANGED <<sourceVars, imports>>

\* open_github_app_provider_context, then _completed_repositories, which looks
\* at the owner of the lease only.
LoadProgress(w) ==
    LET j == worker[w].job
    IN /\ worker[w].pc = "opening"
       /\ job[j].owner = worker[w].claim
       /\ worker' = [worker EXCEPT ![w].pc = "next",
                                   ![w].todo = Requested[j] \ job[j].completed]
       /\ UNCHANGED <<sourceVars, job, imports>>

\* The next round of the loop: renew the lease and turn to repository r.
StartRepository(w, r) ==
    /\ worker[w].pc = "next"
    /\ r \in worker[w].todo
    /\ Holds(w)
    /\ job' = [job EXCEPT ![worker[w].job].elapsed = FALSE]
    /\ worker' = [worker EXCEPT ![w].pc = "reading", ![w].repo = r,
                                ![w].todo = @ \ {r}]
    /\ UNCHANGED <<sourceVars, imports>>

\* read_github_app_repository_batch lists the items ...
ReadItems(w) ==
    /\ worker[w].pc = "reading"
    /\ worker' = [worker EXCEPT ![w].pc = "read",
                     ![w].batch = [present |-> listed[worker[w].repo], read |-> clock,
                                   stamp |-> 0]]
    /\ UNCHANGED <<sourceVars, job, imports>>

\* ... and takes observed_at once every list is complete.
StampBatch(w) ==
    /\ worker[w].pc = "read"
    /\ worker' = [worker EXCEPT ![w].pc = "batch", ![w].batch.stamp = clock]
    /\ UNCHANGED <<sourceVars, job, imports>>

\* Faulty variant: the job ends one repository early.
RowEndsEarly(row, j, r, lacking) ==
    LET done == row.completed \cup {r}
        last == Cardinality(done) + 1 >= Cardinality(Requested[j])
        partial == row.partial \/ lacking
    IN [row EXCEPT !.completed = done, !.partial = partial, !.elapsed = FALSE,
                   !.owner = IF last THEN 0 ELSE @,
                   !.status = IF ~last THEN @ ELSE IF partial THEN "partial" ELSE "succeeded"]

\* The job row once repository r is written.
RowAfter(row, j, r, lacking) ==
    LET done == row.completed \cup {r}
        last == Cardinality(done) >= Cardinality(Requested[j])
        partial == row.partial \/ lacking
    IN [row EXCEPT !.completed = done, !.partial = partial, !.elapsed = FALSE,
                   !.owner = IF last THEN 0 ELSE @,
                   !.status = IF ~last THEN @ ELSE IF partial THEN "partial" ELSE "succeeded"]

\* _persist_repository_batch: the records and the progress in one transaction.
Persist(w) ==
    LET j == worker[w].job
        r == worker[w].repo
        b == worker[w].batch
        complete == j \in CompleteScope
    IN /\ worker[w].pc = "batch"
       /\ Holds(w)
       /\ IF r \in job[j].completed
          THEN UNCHANGED <<job, sourceVars>>
          ELSE /\ job' = [job EXCEPT ![j] = RowAfter(@, j, r, ~complete /\ ~b.present)]
               /\ Write({r}, [q \in {r} |-> b], TRUE, {}, complete)
       /\ worker' = [worker EXCEPT ![w] =
              IF @.todo = {} THEN Idle
              ELSE [@ EXCEPT !.pc = "next", !.repo = None, !.batch = NoSnapshot]]
       /\ UNCHANGED imports

\* Some transaction of the worker finds that the claim is not its own any more.
LostLease(w) ==
    /\ \/ worker[w].pc \in {"claimed", "next", "batch"} /\ ~Holds(w)
       \/ worker[w].pc = "opening" /\ job[worker[w].job].owner # worker[w].claim
    /\ Release(w)
    /\ UNCHANGED <<sourceVars, job, imports>>

\* Faulty variant: the failure is recorded without looking at the lease.
FailUnfenced(w, retryable) ==
    LET j == worker[w].job
        retry == retryable /\ job[j].attempt < MaxAttempts
    IN /\ worker[w].pc # "idle"
       /\ job' = [job EXCEPT ![j].status = IF retry THEN "queued" ELSE "failed",
                             ![j].owner = 0, ![j].elapsed = FALSE]
       /\ Release(w)
       /\ UNCHANGED <<sourceVars, imports>>

\* _retry_or_fail.  Configuration errors end the job, provider errors and
\* unexpected ones are retried while attempts remain.
Fail(w, retryable) ==
    LET j == worker[w].job
        retry == retryable /\ job[j].attempt < MaxAttempts
    IN /\ worker[w].pc \in IF retryable THEN WorkerSteps \ {"idle"} ELSE {"claimed", "opening"}
       /\ job' = IF Holds(w)
                 THEN [job EXCEPT ![j].status = IF retry THEN "queued" ELSE "failed",
                                  ![j].owner = 0, ![j].elapsed = FALSE]
                 ELSE job
       /\ Release(w)
       /\ UNCHANGED <<sourceVars, imports>>

\* The worker process stops, or cannot reach the database.
Crash(w) ==
    /\ worker[w].pc # "idle"
    /\ Release(w)
    /\ UNCHANGED <<sourceVars, job, imports>>

WorkerStep(w) ==
    \/ Renew(w) \/ LoadProgress(w) \/ \E r \in Repos : StartRepository(w, r)
    \/ ReadItems(w) \/ StampBatch(w) \/ Persist(w) \/ LostLease(w)

TakeJob(w) == Poll(w) \/ \E j \in Jobs : Claim(w, j)

-----------------------------------------------------------------------------

Next ==
    \/ Tick /\ UNCHANGED <<job, worker, imports>>
    \/ \E j \in Jobs : JobStep(j)
    \/ \E w \in Workers : \/ TakeJob(w) \/ WorkerStep(w) \/ Crash(w)
                          \/ \E retryable \in BOOLEAN : Fail(w, retryable)

Spec == Init /\ [][Next]_vars

\* Workers poll for ever, every await of theirs has a timeout, time passes.
Fairness ==
    /\ \A w \in Workers : WF_vars(TakeJob(w)) /\ WF_vars(WorkerStep(w))
    /\ \A j \in Jobs : WF_vars(TimerElapses(j))

FairSpec == Spec /\ Fairness

-----------------------------------------------------------------------------

\* A job that was read by workers reports success, or partial success, exactly
\* when every requested repository has been written, whatever claims, crashes,
\* retries and resumptions came before; so a job that is still queued or
\* running has a repository left.
FinishedIffComplete ==
    \A j \in Jobs : job[j].status # "absent" /\ ~job[j].local =>
        /\ job[j].completed \subseteq Requested[j]
        /\ job[j].status \in Finished <=> job[j].completed = Requested[j]

\* A step that records repository r as completed for job j.
Advances(j, r) == r \notin job[j].completed /\ r \in job'[j].completed

\* Only the worker whose claim owns the running job advances it, and canonical
\* records change only together with that progress (or by a local import): the
\* batch a worker still holds after cancellation or takeover is discarded, and
\* no repository is written twice for a job.
WritesUnderLease ==
    [][\A j \in Jobs, r \in Repos :
         /\ Advances(j, r) =>
              /\ job[j].status = "running"
              /\ \E w \in Workers : /\ worker'[w] # worker[w]
                                    /\ worker[w].job = j
                                    /\ worker[w].claim = job[j].owner
         /\ record'[r] # record[r] =>
              \E i \in Jobs : Advances(i, r) \/ normalizing[i] # 0]_vars

\* A job that has ended stays as it ended: no retry, resumption, late failure or
\* cancellation revives or relabels it.  Only a normalize-local request that
\* read the job while it was queued does, since it takes no lock.
EndedStaysEnded ==
    [][\A j \in Jobs : job[j].status \in Terminal =>
          job'[j].status = job[j].status \/ normalizing[j] # 0]_vars

\* Every queued job ends, although workers crash and reads fail.
EveryJobEnds ==
    \A j \in LiveJobs : job[j].status \in Active ~> job[j].status \in Terminal
=============================================================================
