# FounderOS: specifications of the service and its operation

FounderOS (company-knowledge-os) is a FastAPI service over PostgreSQL. It reads
a company's work from GitHub, Jira, Gmail and Drive into canonical records,
derives briefings and proposals from them, lets administrators decide on the
proposals, and writes approved ones to GitHub. The API runs many requests
concurrently on one event loop or several processes; every `await` is a point
where another request may commit. Transactions are READ COMMITTED, sessions
keep loaded objects after a commit (`expire_on_commit=False`), and an UPDATE
selects its row by primary key. Most of what can go wrong follows from that.

## Inventory

| part | state | operations | interacts with | what is hard |
|---|---|---|---|---|
| Proposals and decisions | `action_proposals`, audit events, memory events | create, approve, reject, bulk | execution (status), headquarters snapshot | stale versions, replays, batches with one commit |
| Issue execution | `action_executions`, `action_execution_events` | execute (four commits, one POST) | GitHub, reconciliation | crash between commits, lost answers, duplicate writes |
| Result reconciliation | the same rows, without a lock | sync-execution-result | GitHub lists, canonical records | stale reads, absence as evidence |
| Sync queue and workers | `sync_jobs` with leases | enqueue, claim, renew, persist, retry, cancel, expire | GitHub App, records | takeover, resumption, cancellation in flight |
| Canonical records | `source_records` and projections | upsert, tombstone, restore | every importer, company memory | snapshots written out of order |
| Company memory | append-only events, per-user checkpoint | append, checkpoint | all writers | sequence under concurrency, order of checkpoints |
| Sessions, passwords, setup links, invites | `user_sessions`, tokens | login, logout, change, set up, enroll, clean up | login admission | races of revocation and creation |
| Login admission and throttle | Redis or in-memory counters, `login_attempts` | acquire, release, record failure, reset | login | expiry of counters, late failures |
| GitHub App setup | one setup session per workspace | manifest, install, OAuth, select, restart | GitHub, credentials, connections | callbacks that return after a restart or a hand-over |
| Connector control | `integration_connections` | apply, disconnect, read check | providers | a check that writes what it read before a probe |
| Repository intelligence | jobs, runs, facts, relationships, findings, contradictions; checkouts on disk | enqueue, claim, check out, persist, retire, read | repositories | overlapping runs, views of several statements, killed checkouts |
| Company world | persons, affiliations, interactions, resolutions | confirm, dismiss, backfill | mail records | evidence that changes under a decision |
| Documents | a document and its versions | edit, correct, forget | memory control | edits around a purge |
| AI settings | one configuration per workspace | save, check, remove | AI provider | a check of settings that were replaced |
| Local imports | `source_records`, `tasks` | import Jira, Gmail, Drive | canonical records | overlapping upserts |
| Headquarters | none of its own; the per-user checkpoint | view, acknowledge | everything above | limits of lists, late commits |
| Briefings | `briefings`, their items | generate, save, propose to-dos | proposals | repeated and overlapping requests |
| Assistant | flights and a rate window in one process | ask, retrieve, answer | headquarters, provider | shared flights, capped evidence |
| Local runtime | processes, ports, runtime record, database, bundles | make local, local-backend, local-stop, local-backup | the host | kills at any step, reused pids |
| Disaster recovery | copies and receipts on a target | export, drill, prune | bundles | kills between two files, retention over time |
| Web interface, HTTP wiring, audit scripts | none | render, report | everything | not concurrent |

What makes each correct:

* **Decisions**: made once, by an administrator, on the version that was shown;
  status, audit and memory tell the same decision for ever.
* **Execution**: one issue per approved proposal, whatever fails; what is
  reported as done exists; what is reported as failed does not.
* **Queue**: every job ends, in success exactly when every repository was
  written; only the holder of the lease writes.
* **Records**: the newest snapshot wins, and memory records every
  disappearance and restoration.
* **Accounts**: a password change logs the other sessions out; one-time links
  and invites work once and never replace a password; concurrent hashing is
  bounded whatever is lost.
* **GitHub App setup**: a callback finds only a state issued to the present
  owner; the installation is verified twice by the same App; reads stay within
  what GitHub listed and an administrator selected.
* **Connector control**: a receipt is about the credential it is shown with.
* **Repository intelligence**: only a complete run of the same scope retires what
  it missed; a cancelled job publishes nothing; views fit together; a checkout
  in use is whole; reported cycles are the mutual dependences.
* **Workspace**: what is acknowledged was shown and what was shown is
  acknowledged; purges and decisions act on what their author saw; an answer
  rests on evidence of the snapshot it names; follow-ups are not repeated.
* **Operation**: only own processes are signalled; a bundle is one moment; a
  migration is backed up; the newest copy and one of each month stay.

## Modules

| module | models |
|---|---|
| `ActionProposal` | proposals and decisions (`action_proposal_service.py`, `action_proposal_decision_service.py`, decision endpoints) |
| `ActionExecution` | extends it with execute requests, GitHub, and reconciliation |
| `ExternalWrite` | what a proposal's life promises, without requests or failures |
| `SourceRecords` | snapshots, canonical records, lifecycle events |
| `GithubSync` | extends it with the job queue, workers, cancellation, normalize-local |
| `GithubAppSetup` | setup session, App credential, installation and connection rows of a workspace |
| `ConnectorControl` | extends it with saved tokens, the operator bridge and the read check |
| `Accounts` | users, memberships, sessions, setup links, founder invites |
| `LoginGate` | admission control (process and Redis) and the lock of an address |
| `LocalRuntime` | operator commands of one checkout (`scripts/local_runtime.py`) |
| `OffsiteBackups` | encrypted copies on a target (`scripts/disaster_recovery.py`) |
| `RepositoryRuns` | analysis jobs and the publication of their results |
| `RepositoryViews` | extends it with the detail of a repository and its cross-source reads |
| `RepositoryCheckout` | materialising one commit into an ephemeral directory |
| `RepositoryRelationships` | signals, their resolution, the graph and its cycles |
| `CompanyMemory` | the numbered ledger of a workspace |
| `Headquarters` | extends it with sources, missions, onboarding, changes and checkpoints |
| `Documents`, `AISettings`, `CompanyWorld`, `LocalImports`, `Assistant`, `Briefings` | the component of that name |
| `MCActionExecution`, `MCGithubSync`, `MCConnectorControl`, `MCInstallation`, `MCRepositories`, `MCWorkspace`, `MCOffsite` | instances for TLC |
| `ActionExecutionProofs`, `ActionRefinementProofs` | theorems about `ActionExecution` |
| `GithubSyncProofs`, `ConnectorProofs` | theorems about `GithubSync`, `ConnectorControl` |
| `InstallationProofs` | theorems about `Accounts`, `LoginGate`, `LocalRuntime`, `OffsiteBackups` |
| `RepositoryProofs` | theorems about `RepositoryRuns`, `RepositoryViews`, `RepositoryCheckout`, `RepositoryRelationships` |
| `WorkspaceProofs` | theorems about `Documents`, `AISettings`, `Assistant`, `CompanyWorld`, `LocalImports`, `Briefings`, `Headquarters` |
| `StepwiseRecursion` | lemmas: induction up to a number, least numbers, functions defined from one number to the next |

### ActionProposal

`status`, `updatedAt` and `ruling` are columns of the proposal row and its
decision audit event; `memory` is the set of company-memory events about it.
`updatedAt` counts UPDATEs: a client's proposal version and the execution's
request hash both depend on the row's `updated_at`. `evidence` says whether the
cited evidence validates now. A decision is one transaction with the row locked,
so `Decide` and `BulkDecide` are single actions. `DecisionOutcome` follows the
order of checks in `decide_action_proposal`: role, existence, replay, then the
first-decision checks. Only `"applied"` changes the database; refusals roll
back and replays append events that are already there. A bulk request commits
its applied items together and loses them all on an unexpected error.

### ActionExecution

A key names the row it inserted and the request that inserted it
(`(workspace, key)` is unique). `executor[k]` is the program counter of
`execute_approved_github_issue_action` between commits:

    idle -Claim-> claimed -Start-> running -PostIssue-> posting -Succeed / MarkUncertain-> done

with `TokenUnavailable`, `EvidenceLost`, `IndexConflict` and `Crash` leaving it
early. `net[k]` is the POST at GitHub: GitHub may create the issue at any time
until it drops the request, also after the client gave up. `grace[k]` is the
60-second delay before an absent marker is conclusive.

`sync[s]` holds what a reconciliation read without a lock: the row's status and
the proposal's. It then lists issues (`SyncList`), and records success or "not
written" on rows selected by id. `SetProposalStatus(p, old, new)` is the ORM
rule that an attribute set to the value it was loaded with is not written.

Two constants state how the system is operated. `QuiescentSync`: reconciliation
is requested only for executions whose request has ended. `BoundedDelay`: an
attempt and its effect at GitHub settle within the grace period. Both are what
the runbooks assume and no code enforces; runs that do not need them set them
to FALSE.

### SourceRecords and GithubSync

A repository stands for one work item of it, which a snapshot lists or lacks. A
snapshot carries when it was read and the `observed_at` it is stamped with.
`Upsert` is the conditional `ON CONFLICT DO UPDATE`, `Tombstone` the
reconciliation of an authoritative (all states, fully paginated) read. What the
upsert knows of an earlier deletion comes from a `SELECT ... FOR UPDATE` before
it, which locks nothing when there is no row: `Write` is told which records were
`unseen` in that sense. They are revived whatever the caller allows, and without
a lifecycle event. Of the history variables, `newest` remembers the
latest-stamped snapshot that was written and `untold` the records revived that
way; no action reads them.

`job` rows carry status, attempts, the lease owner and the progress in
`cursor_after`; each action is one committed transaction of
`github_sync_worker_service.py` or one provider read. Lease owners are unique
per claim, and so is the attempt number, which stands for them. A lease may
expire at any moment, also while its worker lives. `normalizing` is a
normalize-local request between its unlocked read and its write, `missed` the
records it has looked for in vain; a record it misses may be inserted and
tombstoned by workers before `NormalizeWrite`. `ResultJobs` are the jobs that an
execution-result sync makes to import the issue it has read; only these imports
may restore. The batches of workers need no such step: each first writes its
repository's record, whose lock, also as an inserted row, is held to the commit,
so two batches of a repository do not overlap. An import does not write it.
Left out: the
branches for a running job whose cancellation is merely requested (`Cancel`
ends it in the same transaction), `_finish_resumed_job` (unreachable, see
`FinishedIffComplete`), and jobs whose stored request does not parse.

### GithubAppSetup and ConnectorControl

`setup`, `credential` and `installation` are the rows that exist once per
workspace, `row` the connections of provider github, of which there may be
several. Every operation of the setup holds the lock of the setup row from its
first read to its commit, also over its calls to GitHub, so each is one action;
the claimed phases (`manifest_exchanging`, `oauth_exchanging`) are never
committed. `start_github_app_manifest_setup` alone looks for an App and an
installation before it takes the lock: `CheckStart`, then `Start`. Endpoints
commit the errors of a refresh and roll back those of everything else.

One-time states are random and stored as a hash. The stored one is named by the
administrator it was issued to, and an older one never matches, so an
administrator's callback is possible when the stored state is theirs. `appOf`
is GitHub's own knowledge of which App an installation belongs to, fixed when it
first matters. `offered` is a history of the repositories GitHub listed.

Connection rows are locked by nobody. The read check is the only operation that
waits for a provider between loading a connection and writing it:
`BeginCheck` keeps the loaded row, `PassCheck` and `FailCheck` write the columns
that differ from it (`Column`) and the whole metadata. A row's metadata is
reduced to who wrote it, the installation, the selection and the read receipt;
`connection_method`, `installation_verified` and `created_via` always change
together. A check that passes renames the row's account, which is how
`_find_provider_token_connection` and `_persist_verified_installation` look rows
up; the model keeps that.

### Accounts and LoginGate

`tx[h]` is the transaction a handler is in, with what it has read and locked:
login verifies a password in one transaction and creates its session in
another (`LoginVerify`, `LoginCommit`); a password change authorises, verifies
and then revokes and stores (`ChangeAuthorise`, `ChangeVerify`, `ChangeRevoke`,
`ChangeCommit`); setup links and invites are locked before they are spent. A
password is its number. Rows end as `Deleted` when the sweep removes them.
`session[s].late` marks a session whose login had verified the old password
when a change revoked the others; nothing in the code can revoke it, and
`OnlyChangerSurvives` names that exception.

`LoginGate` keeps relative time. `RunAcquireScript` and `RunReleaseScript` are
the two Lua scripts, each atomic; the answer of either may be lost, which is
where an in-flight slot leaks until its key expires. `lapsed` is a history that
says a lease outlived that key; the bound of `ConcurrentWorkBounded` has this
exception for Redis and none for one process.

### LocalRuntime and OffsiteBackups

A command is a sequence of steps over shared host state: `proc`, `sig` and
`port` are the process table, `record` the runtime record, `db` and `raw` what a
bundle copies. `Kill` ends any command at any step; `Stranger` gives a free pid
to a process of somebody else. Reading a process and signalling it is one step,
so a pid reused in between is outside the model, as are workers started by hand
and applications that write at a schema other than the code's head. `moments`
is the history of contents that database and raw storage had together.

A copy is an artifact and its receipt. `Visit` is the body of the retention loop of
`retained_backup_paths`, and `Round` takes it to the newest copy that is left. Time
is in days; the code compares hours at the far end of a window, where no tier
promises anything. `RecoveryPointsKept` is about single steps: as what a policy
promises only shrinks while days pass, what no step loses is there as long as it is
promised. One
offsite command runs at a time (the scripts take no lock; the runbook has one
operator), and may be killed between any two steps.

### RepositoryRuns, RepositoryViews, RepositoryCheckout, RepositoryRelationships

`PersistBegin` locks the job and checks owner, lease and cancellation,
`PersistCommit` writes the run, everything it saw, and the retirement of what it
missed; other transactions act in between. A cancelled job is finished as such
before status and owner are looked at (`PersistCancelled`), a job that has its run
is answered from it (`PersistReplay`). `Absentees` are rows last seen by a prior
run of the same scope. A detail is one action per SELECT statement, its
relationships those of the repository and those that target it; `whole` are the
runs that were complete when it began and still are. A checkout is
one action per system or git call, `worktree` what is on disk. `Components` is
Tarjan's search one step at a time: `calls` are the calls of `visit` that have not
returned, `left` the targets each has still to follow, `roots` the outer loop;
`TarjanStep` enters, follows or returns, and `Work` steps are always enough. Its
result is compared with `Inseparable`, a definition by closed sets.

Not modelled here: the collectors, which parse file formats, and the L2
isolation, whose check of the aggregate scratch bound always raises, so that it
never runs; and the portfolio, graph and history views, which count rows, and the
rows that wait for a person, in single statements. External repository ids sort
before the placeholder of an unresolved target. An analysis is refused for
`notBuilt`, `selfEdge`, `evidenceBound`, `opposingDirections` and the limits on
relationships, cycles, their depth and findings; the limits on repositories,
signals and bytes only refuse more of them.

### The workspace modules

`CompanyMemory`: an append locks the stream row until its transaction ends;
numbers are therefore committed in order, although `now()` is not.
`Headquarters`: a view is one REPEATABLE READ snapshot and its id is a digest of
all it shows; acknowledging compares that id with a snapshot read again and
upserts the checkpoint. `world` says of each of the two whether the Company World
was read: its savepoint may time out, and then the snapshot lacks its missions. A
view or an acknowledgement of more missions than `FingerprintLimit` is refused
(`Rememberable`). Onboarding counts the records of every provider in the code;
records are written only for the four that have a source card.

`Documents`: titles and bodies are the stamp of the transaction that wrote them;
the UPDATE of an edit names only the columns it changes, and the version it
appends is the session's copy, with the other column as it was loaded. Transaction starts are unique. `AISettings`: `Check` reads, the provider
answers, `FinishCheck` stores the receipt if the fingerprint is unchanged.
`CompanyWorld`: `ShowCandidate` and `ShowVersion` are two statements;
`LockEvidence` takes the messages FOR SHARE and derives the candidate again.
The objects of the first reading are gone by then, so the second reading is not
served from the identity map. `LocalImports`: one upsert per step, row locks held
to the end; `JiraId` normalises the key a caller gave.

`Assistant`: `inFlight` and `attempts` are the process-local controller; a flight
is retrieved, answered by rule or by the provider, validated and delivered to
every page that joined it. `AssistantRetrieval` adds the offered facts one by
one (`AddFact`, with its two limits); `Extended` is the capped list that evidence
and citations are collected in; `Replies` are what the provider may say, `ValidateReasoning` what is
accepted of it; the section "opinion" stands for the three generated ones. An
answer of either kind that is larger than a response may be fails its flight
(`AnswerTooLarge`).
`Briefings`: the brain is read in two statements (`ReadRows`, `ReadCounts`),
`ItemsOf` builds the items, `CreateTodos` proposes one to-do per actionable item
that `ExistingOpenItemKeys` did not list; `RefuseTodos` is the proposal check
that fails the request as a whole. Texts, severities and the limit of 20
references per item are left out; rows of different kinds are read in one step.

## Runs

Bounds are the constants in the configurations. Two attempts are the least with
which a retry can duplicate a write, two reconciliations the least that can
interfere; two workers, two repositories and two attempts the least with which
a job is taken over and resumed; `MaxClock` names the bound on time. Two
administrators are the least that can hand a setup over, two Apps and two
installations the least that can be mixed up; `MaxRows` bounds the connections,
two of which are an App's and a token's. `ActionRacing` has one proposal, so a bulk
decision has one item there; with two it takes longer than all other runs. That
`DecisionRecorded` survives batches of any size is proved.

| run | result | shows |
|---|---|---|
| `ActionRacing` | pass | one proposal, two attempts, two reconciliations at any time, unbounded delay: `DecisionRecorded`, `ReceiptsAreReal`, `DefinitiveFailure` |
| `ActionQuiescent` | pass | two proposals (one decided together with the other but not executable), documented operation: `AtMostOneIssue`, `FailedMeansNotWritten`, `ReceiptIsFinal`, `RefinesExternalWrite`, and under fairness `Reconciled` |
| `SyncQueue` | pass | a live job over two repositories and a manual one, two workers, two attempts: `FinishedIffComplete`, `WritesUnderLease`, `EndedStaysEnded`, and under fairness `EveryJobEnds` |
| `SyncRecords` | pass | a complete and a partial live job and a local import of the same item, which may look for the record before it exists: `NewestIsKept`, `LedgerExplains` |
| `ConnectorSetup` | pass | two administrators, Apps and installations, a token and a read check: `PendingStateIsOwners`, `VerifiedTwice`, `LiveReadsWereOffered` |
| `Installation` | pass | accounts: `OnlyChangerSurvives`, `InviteSpentOnce`, `LinkNeverReplaces`; gate: `ConcurrentWorkBounded`; local runtime: `OnlyOwnSignalled`, `BundleIsOneMoment`, `MigrationIsBacked`; copies: `RecoveryPointsKept` |
| `Repositories` | pass | jobs and publication: `RetiredWasMissed`, `JobTellsRun`, `CancelledPublishesNothing`; detail: `DetailIsWhole`; checkouts: `UsedCheckoutIsWhole`; graph: `CyclesAreMutualDependence` |
| `Workspace` | pass | ledger and checkpoint: `UnseenIsCounted`, `AcknowledgedIsQuiet`; sources: `GuidanceAgrees`; documents: `PurgesOnlyPreviewed`; AI settings: `VerifiedIsCurrent`; world: `DecidedOnWhatWasShown`; imports: `IssuesAreTheirRecords`; assistant: `AnswersAreSupported`; briefings: `RepeatsOnlyInFlight` |
| `ActionDuplicate` | violation | without quiescent reconciliation two issues are written |
| `SyncSnapshotOrder` | violation | an older snapshot undoes the absence a newer one saw |
| `PurgedVersion` | violation | an edit puts purged text back as a new version |
| `OffsiteRetention` | violation | after 56 daily copies and prunes the previous month has no copy |

`Installation`, `Repositories` and `Workspace` put components into one run that
share no state a property looks at; the variable `focus`, fixed in the initial
state, says which of them moves, so their state spaces add. Two overlapping
requests or commands, workers or clients are the least that can interfere, and
all these instances have them. Further bounds: `MaxPw` passwords, three session
rows, one setup link and one invite (a second adds a copy of the same life);
`MaxStrangers` reused pids and `MaxWrites` application writes; days, weeks of two
and months of four days and two policies, one of which promises next to nothing, for the copies, real weeks
and months for `OffsiteRetention`; `MaxAttempts` claims of three jobs in two scopes, so that a
foreign scope, a partial and a complete run meet; four repositories in the graph,
enough for a cycle that is reached through a visited branch, with `MaxFindings`
below what a graph without edges has; the other limits of an analysis are
those of the largest graph of `MaxSignals` signals;
`ScanLimit`, `ItemLimit`, `FingerprintLimit`, `DetailLimit`, `FactLimit`,
`CitationLimit` and `ViewLimit` small enough that lists are cut; `MaxStamp` transactions on a
document, enough for an edit, a correction and a forgetting to overlap;
`MaxTodos` and `MaxChanges` for one briefing.

The GithubSync runs do not check deadlock: once every job has ended, workers
only poll, which changes nothing. Neither do those of ConnectorControl, where
tokens, Apps and rows are used up, nor the three joined runs, where commands
and requests end.

### Findings

1. **A claimed execution may be failed while it starts** (`ActionDuplicate`).
   Reconciliation reads the row as `claimed`, the request commits `running` and
   posts, reconciliation's UPDATE sets `failed` and reopens the proposal, and a
   retry posts again. DEC-100 in `docs/DECISIONS.md` argues that a claimed row
   has caused no network I/O, which holds of the row when it is read, not when
   it is written.
2. **Absence is not remembered** (`SyncSnapshotOrder`): a complete snapshot
   without the item writes nothing when the record is missing or tombstoned.
3. **Purged text returns** (`PurgedVersion`): an edit that loaded the document
   before a correction appends a version with the old title or body.
   DEC-113 promises one canonical version.
4. **No monthly copies** (`OffsiteRetention`): a copy the full weekly tier drops
   is not offered to the monthly one, so a copy is deleted before it could
   become the monthly point. `docs/operations/disaster-recovery.md` promises 12.

### Further divergences

Stated as properties in their modules and violated by the model; adding the
property to the named configuration reproduces the trace.

* `ReplayReturnsReceipt` (`ActionRacing`): the request hash of an execution
  includes `updated_at`, which success changes, so a repeat is refused.
* `DecisionReplayReturnsReceipt` (`ActionRacing`): a repeated approval after
  execution rebuilds the memory event from the status `executed` and raises.
* `LedgerTellsLifecycle` (`SyncRecords`): an import looks for a record that does
  not exist, a worker inserts it, a complete read finds the item missing and
  tombstones the record, and the import's conflict update, stamped no earlier,
  makes it live again. The locked SELECT (`github_normalization_service.py:668`)
  had seen no deleted record, so no restored event is written (745-753), and an
  import that may not restore has restored; `docs/DECISIONS.md:3136` promises that
  restoration needs a trusted observation and remains in the ledger.
  `LedgerExplains` names this exception and shows that there is no other.
* `ReadOrder` (`SyncRecords`): a batch is stamped when its lists are complete;
  the execution-result path stamps before it reads.
* `SelectionCanBeRevised` (`ConnectorSetup`): a restart in status `error` clears
  the setup's `installation_id`; once a read check made the connection
  `connected`, a further restart resumes a selection that is always refused.
* `ReceiptProvesCredential` (`ConnectorSetup`): the read check records its result
  on a row whose token was replaced meanwhile.

### Observations

Met while modelling, and kept by the models as the code has them:

* normalize-local takes no lock and may relabel a job that was claimed or
  cancelled since (exceptions in `EndedStaysEnded` and `FinishedIffComplete`).
* A login under way during a password change keeps its session.
* Overlapping document edits leave a newest version that differs from the
  document.
* Opposing directional signals of one type abort the analysis of the whole
  portfolio, so a cycle of two of one type is never reported and the finding
  "contradiction" is never emitted. Merged relationships keep the first summary.
* The detail puts inbound relationships that need confirmation in its queue and
  lists stale unknowns; the portfolio, which is not modelled, counts neither.
  Resolved critical findings may push open ones out of a cut detail. Claim sets of other repositories are counted as
  rejected everywhere.
* A checkout directory left by a crash blocks its run id; a `FileExistsError` in
  the caller's block is reported as "run directory already exists".
* A job that ended `partial` without records makes headquarters say the data is
  ready and onboarding that it is pending. Disconnected sources with data
  count as healthy. Acknowledging while Company World timed out drops its
  candidates from the checkpoint, so they are news again; `AcknowledgedIsQuiet` is
  therefore about missions that were part of what was acknowledged.
* Local imports have no snapshot order (the last commit wins and clears
  `connection_id`); two imports in opposite orders can deadlock, of which
  PostgreSQL aborts one.
* A page may join a flight that began before the snapshot changed.
* Overlapping requests for the to-dos of one briefing create duplicates. A
  reference the proposal schema refuses fails the whole request.
* `prune` unlinks artifact, then receipt; killed in between, a receipt without
  its artifact stops every later command. An export killed after promoting
  leaves an artifact without a receipt.
* Overlapping `make local`: the second overwrites the record of the first, and a
  stale reconciliation may unlink another launch's record. A supervisor killed
  between spawning and recording leaves an orphan.

### Fairness

`ActionExecution`: the event loop keeps running requests and every await has a
timeout (weak fairness of the executor), GitHub settles every request, time
passes. Operators repeat reconciliation, and not every repetition is aborted
(strong fairness of the three steps of a reconciliation, since a crash or a
failed read may interrupt each); `Reconciled` also assumes that the connection
is usable again and again. Claims, decisions, crashes and connection changes
are not fair.

`GithubSync`: workers poll for ever, every await of theirs has a timeout, leases
and retry delays elapse. Crashes and failures are unrestricted; the attempt
limit bounds them.

No other run uses fairness: their properties are invariants and action
properties.

## Proofs

All theorems hold for every value of the constants that satisfies the named
assumptions; those are typing facts about the constants, which every TLC run
evaluates. What goes beyond types: pids are numbered apart from "no pid"
(`RuntimeAssumption`), retention counts are not negative, which the code refuses
(`OffsiteAssumption`), a file may be no larger than a checkout, which the policy is
validated for (`CheckoutAssumption`), the marker of "no job" is no job
(`RunsAssumption`), and a portfolio is finite, selectors name its members, and
signals come from its members and are of a known type
(`RelationshipsAssumption`; the code builds the index from the portfolio and
refuses other signals). No theorem assumes a bound on anything: the bounds in the
guards are constants like the others.

`ActionExecutionProofs`. `Inv` is inductive for every behaviour. Besides the
types and the properties themselves it says how far a request, its POST and its
row can be apart (`RowInv`): no POST before `started` is recorded, a row's
proposal is approved or executed, success implies a created issue; and that a
reconciliation which found a marker found an issue (`SyncInv`), which is why a
late, unlocked write of success is still true. From it follow `TypeCorrect`,
`DecisionRecordedTheorem`, `ReceiptsRealTheorem`, `WriteAheadTheorem`,
`DefinitiveFailureTheorem`, `OneActiveTheorem`, without any timing assumption.

`QInv` strengthens it under `QuiescentSync /\ BoundedDelay`: while a request runs
nobody else touches its row (`QuiescentRow`), and a reconciliation that concluded
"not written" is right and stays right (`QuiescentSyncer`). With the unique
index this gives `AtMostOneIssueTheorem` and `FailedMeansNotWrittenTheorem`.
`ActionDuplicate` shows that the first assumption cannot be dropped.

`ActionRefinementProofs` shows under the same assumptions that a receipt is
final and that the specification implements `ExternalWrite`: each step is a
ruling, a write, an acknowledgement or a stutter.

`GithubSyncProofs` proves every safety property of the synchronisation. `Inv` is
inductive. `RecordInv`: a stored observation or tombstone is no newer than the
newest snapshot applied, what that snapshot listed is stored as it was read, and
a record is deleted exactly when the ledger says so, unless it is live and
`untold`. That holds whichever records an import missed, because `Write` keeps it
for any set of unseen ones. `JobInv`: completed repositories are requested
ones, and all are complete exactly when the job has finished. `WorkerInv`: a
worker turns only to repositories its job asks for. That the worker's last repository is
the job's last one is a cardinality argument (`LastRepository`). The two action
properties follow from what one step may do to a row (`RowSteps`).

`ConnectorProofs`, over the specification of `ConnectorControl`, so for any
interleaving of setups, callbacks, saved tokens, operator commands and checks.
`ConnectorInv`: the state of a callback is its owner's and is gone once the
installation is verified (`StateInv`, needed because only from then on may another
administrator take over); the App of a pending setup is configured and the named
installation is one of its own (`AppInv`); what a row selects, what the setup
offers, and what a check under way has loaded and may write back was offered
(`OfferInv`). Rows are numbered as they are created, so the next free row is the
least one (`LeastNumber` of `StepwiseRecursion`).

`InstallationProofs`. *Accounts* (over `AccountsSpec`): an account with a live
session has a password (`PasswordInv`), a setup link in use is locked, the only one
for its account, and the account has no password (`SetupInv`), an invite in use is
locked, good and used by one request (`EnrollInv`), and a password change about to
commit has seen every session but the late ones (`SurvivorInv`). *Login gate* (over
`GateSpec`): the counter is never behind the leases unless the Redis key expired
(`GateInv`), a cardinality argument for each acquire, release, loss and crash.
*Operator commands* (over `Spec`): `OwnInv` says that a pid with a recorded
signature has had no stranger with that signature, that a command's own pid is not
free, and that a child it has not reaped is no stranger's; signatures never repeat
at a pid. `BackupInv` ties a backup under way to history: its dump was a content of
the database while the raw storage lay between what was scanned first and what it
is, so an equal second scan makes it one moment; a command about to migrate an old
database has a bundle of what it holds, and nothing writes at the old head.
*Offsite copies* (over `OffsiteSpec`): the last completed export is the newest copy
(`LastInv`) and no prune under way holds it (`TaskInv`); the argument needs nothing
of the tiers, because the newest copy has a place of its own. The recovery points
need the loop: `TierInv` says of every round that the tiers hold a copy of each day
and week promised of the copies seen so far. A tier cannot be full when a promised
period comes (`RoomIsLeft`), since the loop goes from new to old and only the later
periods, fewer than promised, can have taken its places; the weekly window reaches
back far enough (`WeeksAre`). `PruneInv` carries it from the decision of a prune over
its files one by one, with `Loads` for the beginning. No such argument exists for
months, as `OffsiteRetention` shows.

`RepositoryProofs`. *Publication* (over `RunsSpec`): `WriteInv`: a transaction that
writes a result holds its job, running and not cancelled, and every row it will
retire, which it missed and which a prior run of its scope saw last; two such
transactions share neither job nor rows. `OwnedInv` ties rows to runs and runs to
jobs. `RetiredWasMissed` and `JobTellsRun` are part of the invariant; the latter
needs that a transaction about to publish holds a running job without a run, so
that no late report of failure can come after it. *Views* (over `ViewsSpec`):
`WholeInv` says what a detail has read of the runs that were complete when it
began, at each of its statements. *Checkouts* (over `CheckoutSpec`): a request past `mkdir`
owns the directory of its run, which holds exactly the entries written so far
(`Holds`, `Written`); an accepted listing has portably distinct paths
(`AcceptedIsDistinct`), since each record was compared with those before it.
*Cycles* (over `RelationshipsSpec`): that Tarjan's search is correct, for every
portfolio. `SearchInv` says of every state of the search that indices follow the
order of the stack and calls follow it too (`OrderInv`), which edges have been
followed (`LeftInv`), that the components found are inseparable and closed
(`FoundInv`), that a node whose call lasts reaches what is above it on the stack, and
all that is stacked reaches a call at or below it (`StackInv`), that a low link is
the index of a stacked node it reaches (`LowInv`), and that a followed edge has
lowered it (`LinkInv`). Hence a
call that returns with its own index as low link pops exactly one class of mutual
reachability (`PoppingKeeps`). Every step shortens what is left to do
(`Shrinks`, over `ToDo`), and `Work` is as much as there can be (`WorkIsEnough`), so
the search ends with every node in a component (`ComponentsAre`). From it
`CyclesAreMutualDependenceTheorem`: the cycles reported are the sets of two or more
repositories that depend on each other.

`WorkspaceProofs`:

* *Documents* (over `DocumentsSpec`). `EditInv`: the time that an edit under way
  will write is nobody else's and in no preview. So a row that has the time a preview
  read is the row it read, and versions have only been added since (`PreviewInv`);
  an equal count then means the same versions, a cardinality argument
  (`PurgedIsShown`). `PurgesOnlyPreviewedTheorem` rests on transaction starts being
  unique, which the model assumes.
* *AI settings* (over `AISpec`). `StoredIsCurrent`: a stored receipt is about the
  settings beside it. `ReadIsCurrent`: a check under way read these settings, or an
  older version, whose receipt is not stored. `VerifiedIsCurrentTheorem` follows.
* *Assistant* (over `AssistantSpec`). The capped lists are recursive functions, so
  what they hold is an induction over their length (`StepwiseRecursion`:
  `InductionUpTo` takes it from the well-founded induction of the library, with a set
  in place of a predicate, and `RecursionUpTo` shows that such a function exists; the
  search for cycles and the retention loop use both as well). `ExtendedIs` bounds a list of
  citations and says that it loses nothing; `RetrievalIs`, that every fact found for
  a snapshot cites something and only what is listed (`Found`). Hence an answer by
  rule or by a validated reply passes the response model (`ByRuleIs`, `GenerativeIs`).
  `AssistantInv`: a page waits for, and is shown, a flight of its own question, and
  what has landed is a result for the snapshot asked about.
* *Company World* (over `WorldSpec`). `WorldInv`: the messages a decision rests on
  are locked from the second derivation to the commit, and the version a member
  holds names what was shown; an import waits for the locks.
* *Headquarters* (over `HqSpec`, for any number of writers, events, clients and
  any limits). `LedgerInv`: the stream row is locked from numbering to commit, so at
  most one writer holds a number, and it is the next one. Hence a snapshot covers
  its number (`Covered`): every event it did not see is numbered beyond it, now and
  later. `ClientInv` and `MarkInv` carry that through a client's view and an
  acknowledgement to the checkpoint, which gives `UnseenIsCountedTheorem`; with the
  missions it is compared by, `AcknowledgedIsQuietTheorem`, whether the Company World
  was read or not. `GuidanceAgreesTheorem`
  relates two computations over the same sources; it holds of any source rows.
* *Imports* (over `ImportsSpec`). `ImportInv`: an import has locked both rows of an
  issue or neither, but for the issue whose task it is about to write (`Paired`),
  so every commit and every rollback leaves record and task equal.
* *Briefings* (over `BriefingsSpec`). `BriefingInv`: what a request found open covers
  all that is still open of the to-dos it saw (`TakenInv`); decisions only close.

`TypeCorrect`, `SyncTypeCorrect`, `ConnectorTypeCorrect`, `WriteAheadTheorem`,
`OneActiveTheorem` and `NewestSurvivesTheorem` hold of `TypeOK`, `WriteAhead`,
`OneActiveExecution` and `NewestSurvives`, which are proved and not run.

Every safety property of a passing run is proved. Only model-checked: the liveness
properties `Reconciled` and `EveryJobEnds`, since fairness is out of the prover's
reach. Of the properties of the expected violations, `AtMostOneIssue` is proved under
`QuiescentSync /\ BoundedDelay`; the other four are false.

## Plan

1. (done) `ActionProposal`, `ActionExecution`, `ExternalWrite` and their proofs.
2. (done) `SourceRecords`, `GithubSync` and their proofs.
3. (done) `GithubAppSetup`, `ConnectorControl`.
4. (done) `Accounts`, `LoginGate`, `LocalRuntime`, `OffsiteBackups`.
5. (done) the four repository modules and the workspace modules.
6. (done) proofs of every safety property that the passing runs check.

## Not modelled

* Content of payloads, texts and evidence references; secrecy and encryption.
* The marker search stops after ten pages; in a larger repository every
  reconciliation fails and the outcome stays unknown. The list is modelled
  complete.
* Two transactions may lock records in opposite orders; PostgreSQL aborts one of
  them, which for a worker is the retryable failure. The records of one import
  are looked up together and written together, although the code handles one
  record after the other; what is lost is the order across records.
* The failure counter of an address counts attempts admitted before a lock was
  set; the model has it, no property is about it.
* Repository, task and pull-request projections, rewritten in the transaction of
  their record; entity and operational listings, which are single reads.
* Probes of Jira, Gmail and Drive connections and the write-readiness check.
* The collectors and the L2 isolation of repository intelligence (above); audit
  and smoke scripts, HTTP wiring, migrations and the web client.

`PROJECT.json` lists every component with its status.
