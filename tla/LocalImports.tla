---------------------------- MODULE LocalImports ----------------------------
(***************************************************************************)
(* Imports of Jira issues, Gmail messages and Drive files that a member     *)
(* supplies (jira_connector_service.py, gmail_connector_service.py,         *)
(* drive_connector_service.py).  An import is one transaction that upserts  *)
(* its entries one after the other, in the order they were given; every     *)
(* upsert locks its row until the transaction ends.  A Jira entry is a      *)
(* source record and a task.                                                *)
(*                                                                         *)
(* An entry is the id it was given and its content; the content of one      *)
(* import is told from another's by the import.                             *)
(***************************************************************************)
EXTENDS Integers, Sequences, FiniteSets

CONSTANTS
    Importers,      \* import requests
    Given,          \* ids as they are given
    Blank,          \* an id that is missing or blank
    IssueKey,       \* given id -> Jira key, upper case; Blank if it is none
    Batches,        \* provider -> the sequences of given ids that are imported
    NoRow

ASSUME ImportsAssumption ==
    /\ Blank \in Given /\ IssueKey \in [Given -> Given]
    /\ \A p \in DOMAIN Batches : Batches[p] \subseteq Seq(Given)

Providers == {"jira", "gmail", "drive"}
Tables == {"record", "task"}
Rows == Tables \X Providers \X (Given \ {Blank})

VARIABLES
    row,        \* source_records and tasks, committed
    import      \* imports under way

importVars == <<row, import>>

IdleImport == [pc |-> "idle", locked |-> {}]

ImportsInit ==
    /\ row = [r \in Rows |-> NoRow]
    /\ import = [i \in Importers |-> IdleImport]

----------------------------------------------------------------------------
\* The external id of an entry; Blank is a failure of that entry alone.
\* build_normalized_jira_issue
JiraId(given) == IssueKey[given]

\* build_normalized_gmail_message
GmailId(given) == given

\* build_normalized_drive_file
DriveId(given) == given

\* The three imports: an entry without an id is skipped, and the rest goes on.
BeginImport(i, provider, ids) ==
    /\ import[i] = IdleImport
    /\ import' = [import EXCEPT ![i] =
            [pc |-> "record", provider |-> provider, locked |-> {},
             todo |-> SelectSeq(ids, LAMBDA k : k # Blank)]]
    /\ UNCHANGED row

ImportJira(i, batch) == BeginImport(i, "jira", [n \in DOMAIN batch |-> JiraId(batch[n])])
ImportGmail(i, batch) == BeginImport(i, "gmail", [n \in DOMAIN batch |-> GmailId(batch[n])])
ImportDrive(i, batch) == BeginImport(i, "drive", [n \in DOMAIN batch |-> DriveId(batch[n])])

LockedBy(r) == {i \in Importers : r \in import[i].locked}

\* INSERT ... ON CONFLICT DO UPDATE: waits for the row's lock, then writes.
\* What is written is seen by others when the import commits.
UpsertRow(i, r, next) ==
    /\ LockedBy(r) \subseteq {i}
    /\ import' = [import EXCEPT ![i].locked = import[i].locked \cup {r},
                                ![i].pc = next.pc, ![i].todo = next.todo]
    /\ UNCHANGED row

TargetRow(i, table) == <<table, import[i].provider, Head(import[i].todo)>>

UpsertRecord(i) ==
    LET c == import[i] IN
    /\ c.pc = "record" /\ c.todo # <<>>
    /\ UpsertRow(i, TargetRow(i, "record"),
              IF c.provider = "jira" THEN [pc |-> "task", todo |-> c.todo]
              ELSE [pc |-> "record", todo |-> Tail(c.todo)])

\* Mutant: a task that exists already is left as it is.
InsertTask(i) ==
    LET c == import[i] IN
    /\ c.pc = "task"
    /\ IF row[TargetRow(i, "task")] = NoRow
       THEN UpsertRow(i, TargetRow(i, "task"), [pc |-> "record", todo |-> Tail(c.todo)])
       ELSE import' = [import EXCEPT ![i].pc = "record", ![i].todo = Tail(@)] /\ UNCHANGED row

UpsertTask(i) ==
    /\ import[i].pc = "task"
    /\ UpsertRow(i, TargetRow(i, "task"), [pc |-> "record", todo |-> Tail(import[i].todo)])

\* The route commits; an import's rows are told by the import.
CommitImport(i) ==
    /\ import[i].pc = "record" /\ import[i].todo = <<>>
    /\ row' = [r \in Rows |-> IF r \in import[i].locked THEN i ELSE row[r]]
    /\ import' = [import EXCEPT ![i] = IdleImport]

\* The route fails, or the import is the victim of a deadlock of two imports
\* that list the same entries in different orders.
AbortImport(i) ==
    /\ import[i].pc \in {"record", "task"}
    /\ import' = [import EXCEPT ![i] = IdleImport]
    /\ UNCHANGED row

ImportsNext ==
    \E i \in Importers :
        \/ \E batch \in Batches["jira"] : ImportJira(i, batch)
        \/ \E batch \in Batches["gmail"] : ImportGmail(i, batch)
        \/ \E batch \in Batches["drive"] : ImportDrive(i, batch)
        \/ UpsertRecord(i) \/ UpsertTask(i) \/ CommitImport(i) \/ AbortImport(i)

ImportsSpec == ImportsInit /\ [][ImportsNext]_importVars

----------------------------------------------------------------------------
\* What the lists show: issues from the tasks, the others from the records.
Kept(table, p) ==
    {<<k, row[<<table, p, k>>]>> : k \in {x \in Given \ {Blank} : row[<<table, p, x>>] # NoRow}}

ListedIssues == Kept("task", "jira")
ListedRecords(p) == Kept("record", p)

\* The issues that are listed are the records that are kept as evidence, each
\* with the content of the same import, however imports overlap
\* (jira_connector_service.py:158-219).
IssuesAreTheirRecords == ListedIssues = ListedRecords("jira")
=============================================================================
