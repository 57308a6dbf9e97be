--------------------------- MODULE ActionProposal ---------------------------
(***************************************************************************)
(* Action proposals of one workspace and the local decision on them        *)
(* (app/services/action_proposal_service.py,                               *)
(* action_proposal_decision_service.py, the decision endpoints of          *)
(* app/api/actions.py).  A decision is one database transaction that holds *)
(* the proposal row FOR UPDATE, so each request is one atomic action.      *)
(***************************************************************************)
EXTENDS Naturals

CONSTANTS Proposals,     \* proposal identifiers
          AiProposals,   \* the proposals whose created_by is ai or system
          Users,         \* authenticated users
          Admins,        \* users whose membership role allows admin
          DecisionKeys,  \* client idempotency keys of decision requests
          Versions,      \* proposal versions a client may quote
          None

VARIABLES status,     \* ActionProposal.status; "absent" before the insert
          updatedAt,  \* ActionProposal.updated_at, as a counter of UPDATEs
          evidence,   \* whether the cited evidence validates at this moment
          ruling,     \* the proposal_approved / proposal_rejected audit event
          memory      \* the company-memory events about the proposal

proposalVars == <<status, updatedAt, evidence, ruling, memory>>

ProposalStatus == {"absent", "proposed", "approved", "rejected", "executed"}
Decisions == {"approved", "rejected"}

\* What a client says of the headquarters snapshot it decided on: nothing, one
\* that is still current and lists the proposal, or one that is not.
Snapshots == {"none", "current", "stale"}

Commands == [key : DecisionKeys, decision : Decisions, version : Versions,
             snapshot : Snapshots, user : Users]

ASSUME ProposalAssumption ==
    /\ AiProposals \subseteq Proposals
    /\ Admins \subseteq Users
    /\ Versions \subseteq Nat
    /\ None \notin Commands

\* The request fingerprint stored with the decision event and compared on
\* replay: everything but the key and the user.
Fingerprint(c) == <<c.decision, c.snapshot, c.version>>

ProposalTypeOK ==
    /\ status \in [Proposals -> ProposalStatus]
    /\ updatedAt \in [Proposals -> Nat]
    /\ evidence \in [Proposals -> BOOLEAN]
    /\ ruling \in [Proposals -> Commands \cup {None}]
    /\ memory \in [Proposals -> SUBSET {"created", "approved", "rejected"}]

ProposalInit ==
    /\ status = [p \in Proposals |-> "absent"]
    /\ updatedAt = [p \in Proposals |-> 0]
    /\ evidence = [p \in Proposals |-> TRUE]
    /\ ruling = [p \in Proposals |-> None]
    /\ memory = [p \in Proposals |-> {}]

-----------------------------------------------------------------------------
(* The outcome of a decision request.                                      *)

\* _replayed_result: the same key must come with the same input, and the
\* proposal must be where that decision left it or further.
ReplayMatches(p, c) ==
    /\ Fingerprint(c) = Fingerprint(ruling[p])
    /\ status[p] \in IF c.decision = "approved" THEN {"approved", "executed"}
                                                ELSE {"rejected"}

ReplayOutcome(p, c) ==
    IF ~ReplayMatches(p, c) THEN "conflict"
    \* append_action_proposal_decision_memory_event knows no other statuses
    ELSE IF status[p] \in Decisions THEN "replayed" ELSE "server_error"

\* The checks a first decision has to pass.
Decidable(p, c) ==
    /\ status[p] = "proposed"
    /\ c.version = updatedAt[p]
    /\ c.decision = "approved" =>
         /\ evidence[p]
         /\ p \in AiProposals => c.snapshot # "none"
    /\ c.snapshot # "stale"

DecisionOutcome(p, c) ==
    IF c.user \notin Admins THEN "forbidden"
    ELSE IF status[p] = "absent" THEN "not_found"
    ELSE IF ruling[p] # None /\ ruling[p].key = c.key THEN ReplayOutcome(p, c)
    ELSE IF Decidable(p, c) THEN "applied" ELSE "conflict"

-----------------------------------------------------------------------------

\* create_action_proposal: the row and its memory event in one transaction.
CreateProposal(p) ==
    /\ status[p] = "absent"
    /\ status' = [status EXCEPT ![p] = "proposed"]
    /\ memory' = [memory EXCEPT ![p] = @ \cup {"created"}]
    /\ UNCHANGED <<updatedAt, evidence, ruling>>

\* Faulty variant: a decision that leaves no company-memory event.
ApplyWithoutMemory(A, cmd) ==
    /\ status' = [p \in Proposals |-> IF p \in A THEN cmd[p].decision ELSE status[p]]
    /\ updatedAt' = [p \in Proposals |-> IF p \in A THEN updatedAt[p] + 1 ELSE updatedAt[p]]
    /\ ruling' = [p \in Proposals |-> IF p \in A THEN cmd[p] ELSE ruling[p]]
    /\ UNCHANGED <<evidence, memory>>

\* The decided proposals A with their commands: status, audit and memory event.
ApplyDecisions(A, cmd) ==
    /\ status' = [p \in Proposals |-> IF p \in A THEN cmd[p].decision ELSE status[p]]
    /\ updatedAt' = [p \in Proposals |-> IF p \in A THEN updatedAt[p] + 1 ELSE updatedAt[p]]
    /\ ruling' = [p \in Proposals |-> IF p \in A THEN cmd[p] ELSE ruling[p]]
    /\ memory' = [p \in Proposals |->
                    IF p \in A THEN memory[p] \cup {cmd[p].decision} ELSE memory[p]]
    /\ UNCHANGED evidence

\* The approve and reject endpoints.  Every other outcome changes nothing: a
\* refusal rolls back, a replay appends events that are already there.
Decide(p, c) ==
    /\ DecisionOutcome(p, c) = "applied"
    /\ ApplyDecisions({p}, [q \in {p} |-> c])

\* The bulk endpoints: the items of one batch share a session and one commit;
\* refused items are reported, an unexpected error loses the whole batch.
BulkDecide(B, cmd) ==
    LET outcome(p) == DecisionOutcome(p, cmd[p])
        A == {p \in B : outcome(p) = "applied"}
    IN /\ \A p \in B : outcome(p) # "server_error"
       /\ A # {}
       /\ ApplyDecisions(A, cmd)

\* Source data that evidence refers to comes and goes (ingestion, deletion).
EvidenceChanges(p) ==
    /\ \E valid \in BOOLEAN : evidence' = [evidence EXCEPT ![p] = valid]
    /\ UNCHANGED <<status, updatedAt, ruling, memory>>

ProposalNext ==
    \/ \E p \in Proposals : CreateProposal(p) \/ EvidenceChanges(p)
    \/ \E p \in Proposals, c \in Commands : Decide(p, c)
    \/ \E B \in SUBSET Proposals, d \in Decisions, u \in Users :
         \E cmd \in [B -> {c \in Commands : c.decision = d /\ c.user = u}] :
             BulkDecide(B, cmd)

-----------------------------------------------------------------------------

\* The proposal's status, its decision event and company memory tell the same
\* story, whatever execution and reconciliation later do to the status: only an
\* approved proposal is ever approved or executed, a rejected one stays rejected.
DecisionRecorded ==
    \A p \in Proposals :
        LET decided == IF ruling[p] = None THEN {} ELSE {ruling[p].decision}
        IN /\ memory[p] \cap Decisions = decided
           /\ status[p] \in {"approved", "executed"} <=> decided = {"approved"}
           /\ status[p] = "rejected" <=> decided = {"rejected"}

\* A replayed decision answers with its receipt (docs/DECISIONS.md: "Replaying
\* the same key and input returns the original durable receipt").
DecisionReplayReturnsReceipt ==
    \A p \in Proposals :
        ruling[p] # None => DecisionOutcome(p, ruling[p]) = "replayed"
=============================================================================
