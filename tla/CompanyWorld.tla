---------------------------- MODULE CompanyWorld ----------------------------
(***************************************************************************)
(* Candidates of the Company World and their resolution                     *)
(* (company_map_read_service.py, company_world_confirmation_service.py,     *)
(* company_world_backfill_service.py).  Mail messages name external people  *)
(* and, by their domains, organizations: candidates.  A member is shown a   *)
(* candidate with a version of its evidence and confirms or dismisses it;   *)
(* meanwhile the mail is read again.                                        *)
(*                                                                         *)
(* A message is who it names and the hash of its payload.  What a candidate *)
(* shows besides its evidence is the number of its people.                  *)
(***************************************************************************)
EXTENDS Integers, FiniteSets

CONSTANTS
    Messages,       \* mail records, numbered by age
    People,         \* external addresses
    DomainOf,       \* address -> organization, or Public
    Public,         \* the domains that name no organization
    Window,         \* messages that a projection considers, newest first
    Members,        \* requests of members
    MaxHash         \* bound: contents of one message

ASSUME WorldAssumption ==
    Messages \subseteq Nat /\ Window \in Nat \ {0} /\ Public \notin People

Organizations == {DomainOf[p] : p \in People} \ {Public}
WorldCandidates == People \cup Organizations

VARIABLES
    message,        \* source_records of the mailbox
    internal,       \* addresses of workspace members
    person,         \* persons: <<address, origin>>
    affiliation,    \* affiliations: <<address, organization>>
    interaction,    \* interactions: <<address, message>>
    resolution,     \* company_world_resolutions: candidate -> decision
    worldLock,      \* who holds the advisory lock of the workspace
    ask             \* requests under way

worldVars == <<message, internal, person, affiliation, interaction, resolution, worldLock, ask>>

IdleAsk == [pc |-> "idle"]

WorldInit ==
    /\ message = [m \in Messages |-> [live |-> FALSE, names |-> {}, hash |-> 0]]
    /\ internal = {} /\ person = {} /\ affiliation = {} /\ interaction = {}
    /\ resolution = [c \in WorldCandidates |-> "open"]
    /\ worldLock = {}
    /\ ask = [f \in Members |-> IdleAsk]

----------------------------------------------------------------------------
(***************************************************************************)
(* The projection.                                                          *)
(***************************************************************************)
Live == {m \in Messages : message[m].live}

Considered == {m \in Live : Cardinality({n \in Live : n > m}) < Window}

External(m) == message[m].names \ internal

\* The people of a candidate that a message names.
Named(c, m) == {p \in External(m) : p = c \/ DomainOf[p] = c}

Evidence(c) == {m \in Considered : Named(c, m) # {}}

\* What is shown, computed from the messages that were read.
Visible(c, ids) == [ids |-> ids, people |-> Cardinality(UNION {Named(c, m) : m \in ids})]

\* _candidate_version
CandidateVersion(c, visible) ==
    <<c, visible, {<<m, message[m].hash>> : m \in visible.ids \cap Live}>>

----------------------------------------------------------------------------
(***************************************************************************)
(* A view reads the messages and then, in a later statement, the hashes.    *)
(***************************************************************************)
ShowCandidate(f, c) ==
    /\ ask[f] = IdleAsk
    /\ Evidence(c) # {} /\ resolution[c] = "open"
    /\ ask' = [ask EXCEPT ![f] = [pc |-> "reading", of |-> c, shows |-> Visible(c, Evidence(c))]]
    /\ UNCHANGED <<message, internal, person, affiliation, interaction, resolution, worldLock>>

ShowVersion(f) ==
    /\ ask[f].pc = "reading"
    /\ ask' = [ask EXCEPT ![f] =
            [pc |-> "shown", of |-> @.of, shows |-> @.shows,
             version |-> CandidateVersion(@.of, @.shows)]]
    /\ UNCHANGED <<message, internal, person, affiliation, interaction, resolution, worldLock>>

----------------------------------------------------------------------------
(***************************************************************************)
(* resolve_company_world_candidate, one transaction under the workspace's   *)
(* advisory lock.                                                           *)
(***************************************************************************)
EndAsk(f) ==
    /\ ask' = [ask EXCEPT ![f] = IdleAsk]
    /\ worldLock' = worldLock \ {f}

\* A candidate that is resolved already is a replay or a conflict, and neither
\* writes.  Otherwise its evidence is read.
Submit(f) ==
    LET c == ask[f].of IN
    /\ ask[f].pc = "shown" /\ worldLock = {}
    /\ IF resolution[c] # "open" \/ Evidence(c) = {}
       THEN EndAsk(f)
       ELSE /\ worldLock' = {f}
            /\ ask' = [ask EXCEPT ![f] =
                    [pc |-> "read", of |-> c, shows |-> @.shows, version |-> @.version,
                     evidence |-> Evidence(c)]]
    /\ UNCHANGED <<message, internal, person, affiliation, interaction, resolution>>

\* _lock_candidate_evidence: FOR SHARE, all of it or none
LockEvidence(f) ==
    /\ ask[f].pc = "read"
    /\ IF ask[f].evidence \subseteq Live
       THEN ask' = [ask EXCEPT ![f] = [@ EXCEPT !.pc = "locked"]] /\ UNCHANGED worldLock
       ELSE EndAsk(f)
    /\ UNCHANGED <<message, internal, person, affiliation, interaction, resolution>>

\* The candidate is read again and must be the one that was shown.
AsShown(f) ==
    LET c == ask[f].of IN
    /\ Evidence(c) = ask[f].evidence
    /\ CandidateVersion(c, Visible(c, Evidence(c))) = ask[f].version

\* _resolved_organization_for_person_candidate: the organization of a person is
\* decided first, and only a confirmed one can have an affiliation.
OrganizationDecided(c, affiliates) ==
    IF c \in Organizations THEN ~affiliates
    ELSE IF DomainOf[c] = Public THEN ~affiliates
    ELSE \/ resolution[DomainOf[c]] = "confirmed"
         \/ resolution[DomainOf[c]] = "dismissed" /\ ~affiliates

Decide(f, decision, affiliates) ==
    /\ ask[f].pc = "locked"
    /\ decision = "dismissed" => ~affiliates
    /\ IF AsShown(f) /\ (decision = "confirmed" => OrganizationDecided(ask[f].of, affiliates))
       THEN /\ ask' = [ask EXCEPT ![f] =
                    [pc |-> "decided", of |-> @.of,
                     shows |-> @.shows, decision |-> decision, affiliates |-> affiliates]]
            /\ UNCHANGED worldLock
       ELSE EndAsk(f)
    /\ UNCHANGED <<message, internal, person, affiliation, interaction, resolution>>

\* _get_or_create_external_person, by address
WithPerson(p, origin) ==
    IF \E r \in person : r[1] = p THEN person ELSE person \cup {<<p, origin>>}

\* materialize_person_interactions
InteractionsOf(p, ids) == {<<p, m>> : m \in {n \in ids \cap Live : p \in message[n].names}}

CommitResolution(f) ==
    LET c == ask[f].of
        confirms == ask[f].decision = "confirmed" /\ c \in People
    IN  /\ ask[f].pc = "decided"
        /\ resolution' = [resolution EXCEPT ![c] = ask[f].decision]
        /\ person' = IF confirms THEN WithPerson(c, "confirmed") ELSE person
        /\ affiliation' = IF ask[f].affiliates
                          THEN affiliation \cup {<<c, DomainOf[c]>>} ELSE affiliation
        /\ interaction' = interaction \cup
                IF confirms THEN InteractionsOf(c, ask[f].shows.ids) ELSE {}
        /\ EndAsk(f)
        /\ UNCHANGED <<message, internal>>

----------------------------------------------------------------------------
(***************************************************************************)
(* The backfill, and what changes the evidence.                             *)
(***************************************************************************)
\* backfill_company_world with apply: members that conflict with no person, and
\* the interactions of confirmed people, unbounded by the window.
Backfill ==
    /\ worldLock = {}
    /\ person' = person \cup {<<p, "membership">> : p \in {q \in internal : ~\E r \in person : r[1] = q}}
    /\ interaction' = interaction \cup
            UNION {InteractionsOf(r[1], Messages) : r \in {x \in person : x[2] = "confirmed"}}
    /\ UNCHANGED <<message, internal, affiliation, resolution, worldLock, ask>>

\* Mutant: the rows are read without FOR SHARE.
NeverLocked(m) == FALSE

\* Held until the transaction ends; the evidence that was locked is the one shown
\* once the decision is made.
ShareLocked(m) ==
    \E f \in Members :
        \/ ask[f].pc = "locked" /\ m \in ask[f].evidence
        \/ ask[f].pc = "decided" /\ m \in ask[f].shows.ids

\* The mailbox is read again: a message is new, has changed, or is gone.
Deliver(m, names) ==
    /\ message[m].hash < MaxHash /\ ~ShareLocked(m)
    /\ message' = [message EXCEPT ![m] = [live |-> TRUE, names |-> names, hash |-> @.hash + 1]]
    /\ UNCHANGED <<internal, person, affiliation, interaction, resolution, worldLock, ask>>

Withdraw(m) ==
    /\ message[m].live /\ ~ShareLocked(m)
    /\ message' = [message EXCEPT ![m].live = FALSE]
    /\ UNCHANGED <<internal, person, affiliation, interaction, resolution, worldLock, ask>>

\* An external person becomes a member of the workspace.
Join(p) ==
    /\ p \notin internal
    /\ internal' = internal \cup {p}
    /\ UNCHANGED <<message, person, affiliation, interaction, resolution, worldLock, ask>>

WorldNext ==
    \/ \E f \in Members, c \in WorldCandidates : ShowCandidate(f, c)
    \/ \E f \in Members : ShowVersion(f) \/ Submit(f) \/ LockEvidence(f) \/ CommitResolution(f)
    \/ \E f \in Members, decision \in {"confirmed", "dismissed"}, affiliates \in BOOLEAN :
            Decide(f, decision, affiliates)
    \/ Backfill
    \/ \E m \in Messages, names \in SUBSET People : Deliver(m, names)
    \/ \E m \in Messages : Withdraw(m)
    \/ \E p \in People : Join(p)

WorldSpec == WorldInit /\ [][WorldNext]_worldVars

----------------------------------------------------------------------------
\* A decision is made on the evidence that was shown: when it is written, every
\* message that supported the candidate is still there and still names it,
\* whatever the mailbox did meanwhile and although the view was read in two
\* statements (company_world_confirmation_service.py:154-187, 380).
DecidedOnWhatWasShown ==
    [][\A f \in Members : (ask[f].pc = "decided" /\ ask'[f] = IdleAsk) =>
        \A m \in ask[f].shows.ids :
            message[m].live /\ \E p \in message[m].names : ask[f].of \in {p, DomainOf[p]}]_worldVars
=============================================================================
