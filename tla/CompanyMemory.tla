---------------------------- MODULE CompanyMemory ----------------------------
(***************************************************************************)
(* The lifecycle ledger of one workspace (company_memory_event_service.py). *)
(* A transaction that changes something appends an event about it; events   *)
(* are numbered by a counter row that every append locks until its          *)
(* transaction ends.                                                        *)
(*                                                                         *)
(* An event is its idempotency key: the same key always comes with the same *)
(* material, so a conflict of fingerprints does not arise here.             *)
(***************************************************************************)
EXTENDS Integers, FiniteSets

CONSTANTS
    Writers,        \* transactions that append
    Events,         \* idempotency keys
    Resolving       \* the events that a reader is told about

ASSUME MemoryAssumption == Resolving \subseteq Events

VARIABLES
    stream,     \* company_memory_event_streams.last_sequence
    event,      \* committed events: key -> sequence number, 0 while absent
    writer      \* transactions under way

memoryVars == <<stream, event, writer>>

IdleWriter == [pc |-> "idle"]

MemoryInit ==
    /\ stream = 0
    /\ event = [k \in Events |-> 0]
    /\ writer = [w \in Writers |-> IdleWriter]

\* The transaction has read that no such event exists.
BeginAppend(w, k) ==
    /\ writer[w] = IdleWriter
    /\ event[k] = 0
    /\ writer' = [writer EXCEPT ![w] = [pc |-> "begun", key |-> k]]
    /\ UNCHANGED <<stream, event>>

StreamLocked == \E w \in Writers : writer[w].pc = "numbered"

\* Mutant: numbers come from a counter that no transaction holds.
TakeFreeSequence(w) ==
    LET taken == {writer[v].seq : v \in {x \in Writers : writer[x].pc = "numbered"}}
        next == 1 + CHOOSE n \in taken \cup {stream} : \A m \in taken \cup {stream} : m <= n
    IN  /\ writer[w].pc = "begun"
        /\ event[writer[w].key] = 0
        /\ writer' = [writer EXCEPT ![w] = [pc |-> "numbered", key |-> @.key, seq |-> next]]

\* _next_workspace_sequence and the insert.  When the key has been committed
\* meanwhile the savepoint is rolled back, number included, and the committed
\* event is returned as a replay.
TakeSequence(w) ==
    /\ writer[w].pc = "begun"
    /\ ~StreamLocked
    /\ writer' = [writer EXCEPT ![w] =
            IF event[@.key] # 0
            THEN [pc |-> "replayed", key |-> @.key]
            ELSE [pc |-> "numbered", key |-> @.key, seq |-> stream + 1]]

\* The transaction commits: its number and its event become visible.
CommitAppend(w) ==
    /\ writer[w].pc \in {"numbered", "replayed"}
    /\ IF writer[w].pc = "numbered"
       THEN stream' = writer[w].seq /\ event' = [event EXCEPT ![writer[w].key] = writer[w].seq]
       ELSE UNCHANGED <<stream, event>>
    /\ writer' = [writer EXCEPT ![w] = IdleWriter]

\* Any later statement of the transaction may fail.
RollBack(w) ==
    /\ writer[w] # IdleWriter
    /\ writer' = [writer EXCEPT ![w] = IdleWriter]
=============================================================================
