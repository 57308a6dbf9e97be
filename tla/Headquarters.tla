---------------------------- MODULE Headquarters ----------------------------
(***************************************************************************)
(* What a member of a workspace is shown, and what acknowledging it means   *)
(* (headquarters_read_service.py, company_memory_checkpoint_service.py).    *)
(* A view is one repeatable-read snapshot of the sources, the proposals,    *)
(* the Company World candidates and the ledger; its id is the digest of all *)
(* it shows.  The checkpoint of a membership remembers what was             *)
(* acknowledged: the fingerprints of the items and the ledger's number.     *)
(*                                                                         *)
(* Events stand for the decision of the proposal, or the resolution of the  *)
(* candidate, that they name; the subjects of events are Proposals and      *)
(* Candidates.  Ages are measured in freshness windows: data is fresh or    *)
(* stale.                                                                  *)
(***************************************************************************)
EXTENDS CompanyMemory, Sequences, FiniteSetsExt, TLC

CONSTANTS
    Sources,        \* CONNECTOR_DESCRIPTORS
    Proposals, Candidates,
    Cites,          \* proposal -> the source whose record it cites
    Clients,        \* the open tabs and devices of one member
    ScanLimit,      \* HEADQUARTERS_PROPOSAL_SCAN_LIMIT
    ItemLimit,      \* HEADQUARTERS_TEMPORAL_EVENT_LIMIT
    FingerprintLimit,   \* HEADQUARTERS_CHECKPOINT_FINGERPRINT_LIMIT
    MaxAttempts,    \* bound: reads of one source
    None

ASSUME HeadquartersAssumption ==
    /\ Proposals \cap Candidates = {} /\ Proposals \cup Candidates = Events
    /\ Proposals \subseteq Nat
    /\ Cites \in [Proposals -> Sources]
    /\ ScanLimit \in Nat \ {0} /\ ItemLimit \in Nat \ {0} /\ FingerprintLimit \in Nat

VARIABLES
    source,     \* connections, jobs and records, by source
    open,       \* proposals and candidates that await a decision
    briefings,  \* whether a briefing exists
    checkpoint, \* company_memory_checkpoints of this member
    client      \* what a client shows, and its acknowledgement under way

hqVars == <<memoryVars, source, open, briefings, checkpoint, client>>

\* A queued job reads as a running one.
JobStatuses == {"running", "failed", "cancelled", "succeeded", "partial"}

NewSource == [connected |-> FALSE, error |-> FALSE, job |-> None, attempt |-> 0,
              records |-> FALSE, stale |-> FALSE]

HqInit ==
    /\ MemoryInit
    /\ source = [s \in Sources |-> NewSource]
    /\ open = {} /\ briefings = FALSE
    /\ checkpoint = None
    /\ client = [c \in Clients |-> [pc |-> "idle", shows |-> None]]

----------------------------------------------------------------------------
(***************************************************************************)
(* The state of a source.  A job counts only while its connection is active.*)
(***************************************************************************)
LatestJob(s) == IF s.connected THEN s.job ELSE None

ReadState(s) ==
    IF LatestJob(s) = "running" THEN "running"
    ELSE IF LatestJob(s) = "failed" THEN "failed"
    ELSE IF LatestJob(s) \in {"succeeded", "partial"} THEN "succeeded"
    ELSE IF s.connected /\ s.error THEN "failed"
    ELSE "idle"

\* Mutant: records of a disconnected source are not data.
DataWhileConnected(s) ==
    IF LatestJob(s) = "partial" THEN "partial"
    ELSE IF s.connected /\ s.records THEN "available" ELSE "empty"

DataState(s) ==
    IF LatestJob(s) = "partial" THEN "partial"
    ELSE IF s.records THEN "available" ELSE "empty"

PrimaryState(s) ==
    IF ReadState(s) = "failed" THEN "failed"
    ELSE IF DataState(s) = "partial" THEN "partial"
    ELSE IF s.records /\ s.stale THEN "stale"
    ELSE IF DataState(s) = "empty" /\ s.connected THEN "no_data"
    ELSE IF DataState(s) = "available" THEN "healthy"
    ELSE "setup"

NeedsAttention(s) ==
    s.connected /\ PrimaryState(s) \in {"failed", "partial", "stale", "no_data"}

Configured == {p \in Sources : source[p].connected}
DataReady == {p \in Sources : DataState(source[p]) \in {"available", "partial"}}

----------------------------------------------------------------------------
(***************************************************************************)
(* Decisions.  The newest proposals are scanned, and those are kept whose   *)
(* evidence still resolves.                                                 *)
(***************************************************************************)
OpenProposals == open \cap Proposals

Scanned ==
    {p \in OpenProposals : Cardinality({q \in OpenProposals : q > p}) < ScanLimit}

EvidenceResolves(p) == source[Cites[p]].records

Verified == {p \in Scanned : EvidenceResolves(p)}

OpenCandidates == open \cap Candidates

----------------------------------------------------------------------------
(***************************************************************************)
(* Missions and guidance.                                                   *)
(***************************************************************************)
\* What the fingerprint of a mission is a digest of.
Mission(kind, of, what) == [kind |-> kind, of |-> of, what |-> what]

ProposalMissions == {Mission("proposal", p, <<>>) : p \in Verified}

\* A source's mission is new whenever its state or its last attempt is.
SourceMissions ==
    {Mission("source", p, <<PrimaryState(source[p]), source[p].attempt>>)
        : p \in {q \in Sources : NeedsAttention(source[q])}}

WorldMissions == {Mission("world", c, <<>>) : c \in OpenCandidates}

ConnectSource == DataReady = {} /\ Configured = {}

CreateBriefing == DataReady # {} /\ ~briefings

\* Those that can be changes.  A Company World that times out, or is refused,
\* leaves a view without its missions ("world" is whether it was read).
Missions(world) ==
    ProposalMissions \cup SourceMissions \cup {m \in WorldMissions : world}

\* _build_onboarding: the required steps are the company, the first data and
\* this view; the first and the last are always complete.  The first data are
\* counted over all records; only the described sources have a writer of any.
OnboardingReady == \E p \in Sources : source[p].records
OnboardingStep == IF OnboardingReady THEN None ELSE "canonical_data"

----------------------------------------------------------------------------
(***************************************************************************)
(* Changes since the checkpoint.                                            *)
(***************************************************************************)
Selected(world) ==
    IF checkpoint = None THEN Missions(world)
    ELSE {m \in Missions(world) : m \notin checkpoint.prints}

ResolvedSince ==
    IF checkpoint = None THEN {}
    ELSE {k \in Resolving : event[k] > checkpoint.seq}

ChangesTotal(world) == Cardinality(Selected(world)) + Cardinality(ResolvedSince)

Committed == {k \in Events : event[k] # 0}

\* company_memory_checkpoint_cursor
Cursor == IF checkpoint = None THEN None ELSE <<checkpoint.seq, checkpoint.prints>>

\* _build_changes refuses to remember more, and the view fails.
Rememberable(world) == Cardinality(Missions(world)) <= FingerprintLimit

\* What the id of a view is a digest of.
Snapshot(world) ==
    [world |-> world, missions |-> Missions(world), seq |-> stream, sources |-> source, waiting |-> OpenProposals,
     briefings |-> briefings, cursor |-> Cursor]

\* Mutant: only the items that are listed are remembered.
ListedPrints(world) ==
    CHOOSE P \in SUBSET Missions(world) :
        Cardinality(P) = Min({ItemLimit, Cardinality(Missions(world))})

CheckpointPrints(world) == Missions(world)

----------------------------------------------------------------------------
(***************************************************************************)
(* Clients.                                                                 *)
(***************************************************************************)
\* read_workspace_headquarters
View(c, world) ==
    /\ client[c].pc = "idle" /\ Rememberable(world)
    /\ client' = [client EXCEPT ![c] =
            [pc |-> "idle", shows |-> [id |-> Snapshot(world), saw |-> Committed]]]
    /\ UNCHANGED <<memoryVars, source, open, briefings, checkpoint>>

\* acknowledge_company_memory_checkpoint up to its write: one more snapshot,
\* compared with the one that the client names.
Acknowledge(c, world) ==
    /\ client[c].pc = "idle" /\ client[c].shows # None
    /\ Rememberable(world) /\ Snapshot(world) = client[c].shows.id
    /\ client' = [client EXCEPT ![c] =
            [pc |-> "writing", shows |-> @.shows, base |-> checkpoint,
             mark |-> [seq |-> stream, prints |-> CheckpointPrints(world),
                       saw |-> @.shows.saw, missions |-> Missions(world)]]]
    /\ UNCHANGED <<memoryVars, source, open, briefings, checkpoint>>

\* The upsert: under repeatable read it fails when another transaction has
\* written the row since the snapshot.
Upsert(c) ==
    /\ client[c].pc = "writing"
    /\ checkpoint' = IF checkpoint = client[c].base THEN client[c].mark ELSE checkpoint
    /\ client' = [client EXCEPT ![c] = [pc |-> "idle", shows |-> None]]
    /\ UNCHANGED <<memoryVars, source, open, briefings>>

----------------------------------------------------------------------------
(***************************************************************************)
(* The rest of the workspace, as far as a view tells it.                    *)
(***************************************************************************)
\* A proposal is created or a candidate is projected.
Appears(k) ==
    /\ k \notin open /\ event[k] = 0
    /\ open' = open \cup {k}
    /\ UNCHANGED <<memoryVars, source, briefings, checkpoint, client>>

BeginDecision(w, k) ==
    /\ k \in open
    /\ BeginAppend(w, k)
    /\ UNCHANGED <<source, open, briefings, checkpoint, client>>

NumberDecision(w) ==
    /\ TakeSequence(w)
    /\ UNCHANGED <<stream, event, source, open, briefings, checkpoint, client>>

CommitDecision(w) ==
    /\ CommitAppend(w)
    /\ open' = open \ {writer[w].key}
    /\ UNCHANGED <<source, briefings, checkpoint, client>>

FailDecision(w) ==
    /\ RollBack(w)
    /\ UNCHANGED <<stream, event, source, open, briefings, checkpoint, client>>

Set(p, s) ==
    /\ source' = [source EXCEPT ![p] = s]
    /\ UNCHANGED <<memoryVars, open, briefings, checkpoint, client>>

Connect(p) == ~source[p].connected /\ Set(p, [source[p] EXCEPT !.connected = TRUE])
Disconnect(p) == source[p].connected /\ Set(p, [source[p] EXCEPT !.connected = FALSE])

StartRead(p) ==
    /\ source[p].connected /\ source[p].job # "running" /\ source[p].attempt < MaxAttempts
    /\ Set(p, [source[p] EXCEPT !.job = "running", !.attempt = @ + 1])

EndRead(p, status) ==
    /\ source[p].job = "running"
    /\ LET read == status \in {"succeeded", "partial"}
       IN  Set(p, [source[p] EXCEPT
                !.job = status,
                !.error = IF status = "cancelled" THEN @ ELSE status = "failed",
                !.records = @ \/ read, !.stale = @ /\ ~read])

\* The record that was read is marked deleted; the freshness window passes.
Vanish(p) == source[p].records /\ Set(p, [source[p] EXCEPT !.records = FALSE])
Age(p) == source[p].records /\ ~source[p].stale /\ Set(p, [source[p] EXCEPT !.stale = TRUE])

Brief ==
    /\ ~briefings /\ briefings' = TRUE
    /\ UNCHANGED <<memoryVars, source, open, checkpoint, client>>

ClientNext ==
    \/ \E c \in Clients, world \in BOOLEAN : View(c, world) \/ Acknowledge(c, world)
    \/ \E c \in Clients : Upsert(c)

DecisionNext ==
    \/ \E k \in Events : Appears(k)
    \/ \E w \in Writers : NumberDecision(w) \/ CommitDecision(w) \/ FailDecision(w)
    \/ \E w \in Writers, k \in Events : BeginDecision(w, k)

SourceNext ==
    \/ \E p \in Sources : Connect(p) \/ Disconnect(p) \/ StartRead(p) \/ Vanish(p) \/ Age(p)
    \/ \E p \in Sources, status \in JobStatuses \ {"running"} : EndRead(p, status)
    \/ Brief

HqNext == ClientNext \/ DecisionNext \/ SourceNext

HqSpec == HqInit /\ [][HqNext]_hqVars

----------------------------------------------------------------------------
(***************************************************************************)
(* Properties.                                                              *)
(***************************************************************************)
\* What a member acknowledged, the member was shown: every event that is not
\* counted as a change any more was in a view before it was acknowledged,
\* however late the transaction that wrote it commits
\* (company_memory_event_service.py:343, headquarters_read_service.py:594).
UnseenIsCounted ==
    checkpoint # None =>
        \A k \in Committed \ checkpoint.saw : event[k] > checkpoint.seq

\* After an acknowledgement nothing is reported as changed until something
\* changes, also when there was more than the view lists, and when the Company
\* World of one of the two views was not read
\* (headquarters_read_service.py:300-329, 2095-2185).
AcknowledgedIsQuiet ==
    \A world \in BOOLEAN :
        (checkpoint # None /\ stream = checkpoint.seq
            /\ Missions(world) \subseteq checkpoint.missions)
            => ChangesTotal(world) = 0

\* The setup missions and the onboarding steps, computed apart, never send the
\* member two ways (headquarters_read_service.py:1556-1660, 2214-2434).
GuidanceAgrees ==
    /\ ConnectSource => OnboardingStep = "canonical_data"
    /\ OnboardingReady /\ ~briefings => CreateBriefing
=============================================================================
