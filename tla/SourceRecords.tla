---------------------------- MODULE SourceRecords ----------------------------
(***************************************************************************)
(* Canonical source records of GitHub work items and the rules by which    *)
(* provider snapshots, taken concurrently and written in any order, change *)
(* them (_upsert_source_record of github_normalization_service.py,         *)
(* source_reconciliation_service.py).  Every repository stands for one     *)
(* work item of it; a snapshot either lists the item or does not.          *)
(***************************************************************************)
EXTENDS Naturals

CONSTANTS Repos,     \* repositories, each with one work item
          MaxClock   \* bound on the passing of time

ASSUME ClockAssumption == MaxClock \in Nat \ {0}

VARIABLES clock,   \* the time
          listed,  \* whether GitHub lists the work item now
          record,  \* SourceRecord of the work item
          ledger,  \* last lifecycle event of the record in company memory
          newest,  \* history: the latest-stamped snapshot that was written
          untold   \* history: records brought back without a lifecycle event

sourceVars == <<clock, listed, record, ledger, newest, untold>>

Times == 0..MaxClock

\* A snapshot: what was read, when it was read, and the observed_at it carries.
Snapshots == [present : BOOLEAN, read : Times, stamp : Times]
NoSnapshot == [present |-> FALSE, read |-> 0, stamp |-> 0]

\* tomb and tombRead stand for tombstone_observed_at and its provenance.
Records == [state : {"none", "live", "deleted"}, read : Times, observed : Times,
            tomb : Times, tombRead : Times]
NoRecord == [state |-> "none", read |-> 0, observed |-> 0, tomb |-> 0, tombRead |-> 0]

SourceTypeOK ==
    /\ clock \in Times
    /\ listed \in [Repos -> BOOLEAN]
    /\ record \in [Repos -> Records]
    /\ ledger \in [Repos -> {"none", "disappeared", "restored"}]
    /\ newest \in [Repos -> Snapshots]
    /\ untold \subseteq Repos

SourceInit ==
    /\ clock = 1
    /\ listed \in [Repos -> BOOLEAN]
    /\ record = [r \in Repos |-> NoRecord]
    /\ ledger = [r \in Repos |-> "none"]
    /\ newest = [r \in Repos |-> NoSnapshot]
    /\ untold = {}

\* Time passes, and work items appear and disappear at GitHub.
Tick ==
    /\ clock < MaxClock
    /\ clock' = clock + 1
    /\ listed' \in [Repos -> BOOLEAN]
    /\ UNCHANGED <<record, ledger, newest, untold>>

-----------------------------------------------------------------------------
\* Faulty variant: a snapshot is written whenever it arrives.
UpsertUnordered(rec, b, restore) ==
    IF rec.state = "deleted" /\ ~restore
    THEN rec
    ELSE [state |-> "live", read |-> b.read, observed |-> b.stamp, tomb |-> 0, tombRead |-> 0]

\* The INSERT ... ON CONFLICT DO UPDATE of _upsert_source_record, WHERE the stored
\* observation and tombstone are not newer.  restore: a record that was deleted
\* does not end the call before it.
Upsert(rec, b, restore) ==
    IF \/ rec.state = "deleted" /\ ~restore
       \/ rec.observed > b.stamp
       \/ rec.tomb > b.stamp
    THEN rec
    ELSE [state |-> "live", read |-> b.read, observed |-> b.stamp, tomb |-> 0, tombRead |-> 0]

\* reconcile_authoritative_github_records, for an item the snapshot lacks.
Tombstone(rec, b) ==
    IF rec.state = "live" /\ rec.observed <= b.stamp
    THEN [rec EXCEPT !.state = "deleted", !.tomb = b.stamp, !.tombRead = b.read]
    ELSE rec

\* The record after snapshot b: only an authoritative snapshot, one that covers
\* every state of the items, says anything by what it lacks.
Written(rec, b, restore, authoritative) ==
    IF b.present THEN Upsert(rec, b, restore)
    ELSE IF authoritative THEN Tombstone(rec, b) ELSE rec

\* Faulty variant: restorations are not recorded.
LifecycleTombstonesOnly(event, old, new, unseen) ==
    IF old.state # "deleted" /\ new.state = "deleted" THEN "disappeared" ELSE event

\* append_source_record_lifecycle_memory_event, in the same transaction.  A
\* write that had not seen the record does not know that it was deleted.
Lifecycle(event, old, new, unseen) ==
    IF old.state # "deleted" /\ new.state = "deleted" THEN "disappeared"
    ELSE IF old.state = "deleted" /\ new.state = "live" /\ ~unseen THEN "restored"
    ELSE event

\* The records of the repositories in R after their snapshots.  Whether a record
\* is deleted is read by SELECT ... FOR UPDATE, which holds a present row to the
\* commit but locks nothing when there is none: for the records in unseen it
\* found no row, and the upsert acts on whatever others have written since.
Write(R, b, restore, unseen, authoritative) ==
    LET mayRevive(r) == restore \/ r \in unseen
        new(r) == Written(record[r], b[r], mayRevive(r), authoritative)
        informs(r) == /\ b[r].present => mayRevive(r) \/ record[r].state # "deleted"
                      /\ b[r].present \/ authoritative
                      /\ b[r].stamp >= newest[r].stamp
        revived(r) == record[r].state = "deleted" /\ new(r).state = "live"
    IN /\ record' = [r \in Repos |-> IF r \in R THEN new(r) ELSE record[r]]
       /\ ledger' = [r \in Repos |->
              IF r \in R THEN Lifecycle(ledger[r], record[r], new(r), r \in unseen)
              ELSE ledger[r]]
       /\ newest' = [r \in Repos |->
              IF r \in R /\ informs(r) THEN b[r] ELSE newest[r]]
       /\ untold' = {r \in Repos :
              IF r \in R /\ revived(r) THEN r \in unseen
              ELSE r \in untold /\ (r \in R => new(r).state = "live")}
       /\ UNCHANGED <<clock, listed>>

-----------------------------------------------------------------------------

\* What the latest-stamped snapshot listed is live in the canonical records with
\* the content that snapshot read, however late older snapshots are written.
NewestIsKept ==
    \A r \in Repos : newest[r].present =>
        record[r].state = "live" /\ record[r].read = newest[r].read

\* Company memory explains every record: it is deleted exactly when its last
\* lifecycle event says that it disappeared, unless it was brought back by a
\* write that had looked for it before it existed.  No order of snapshots,
\* tombstones and restorations by several jobs loses an event otherwise.
LedgerExplains ==
    \A r \in Repos :
        record[r].state = "deleted" <=> ledger[r] = "disappeared" /\ r \notin untold

\* docs/DECISIONS.md: "Disappearance and restoration append content-free lifecycle
\* events in the same database transaction": the last event of a record tells
\* whether it is deleted.
LedgerTellsLifecycle ==
    \A r \in Repos : record[r].state = "deleted" <=> ledger[r] = "disappeared"

\* docs/DECISIONS.md: "an older snapshot cannot overwrite, tombstone or falsely
\* restore state already established by a newer one", with the snapshots ordered
\* by the observed_at they carry.
SnapshotOrder ==
    \A r \in Repos : newest[r] # NoSnapshot =>
        (record[r].state = "live" <=> newest[r].present)

\* The same sentence, with the snapshots ordered by when they were read: an item
\* is not tombstoned on the word of a list older than its own observation.
ReadOrder ==
    \A r \in Repos : record[r].state = "deleted" /\ record[r].tomb > record[r].observed =>
        record[r].tombRead >= record[r].read
=============================================================================
