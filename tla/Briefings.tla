----------------------------- MODULE Briefings -----------------------------
(***************************************************************************)
(* Founder briefings and the follow-ups made from them.  A briefing is      *)
(* generated from the company brain, a read of the workspace in several     *)
(* statements that see one another's commits, and saved with its items and  *)
(* their evidence.  A later request turns the actionable items of a saved   *)
(* briefing into internal to-do proposals.  A row of the brain stands for   *)
(* its evidence reference; texts are left out.                              *)
(***************************************************************************)
EXTENDS Integers, Sequences, FiniteSets

CONSTANTS BrainRows,       \* rows the company brain may show
          KindOf,          \* repository, issue, jira, gmail, drive or note
          Refused,         \* rows whose reference create_action_proposal refuses
          ViewLimit,       \* the limit of a request
          Options,         \* what a request asks to include
          Signals,         \* states of the GitHub connection and its newest job
          Authors, Generators,
          MaxBriefings, MaxTodos, MaxChanges,
          NoItem

ASSUME BriefingsAssumption ==
    /\ KindOf \in [BrainRows -> {"repository", "issue", "jira", "gmail", "drive", "note"}]
    /\ Refused \subseteq BrainRows
    /\ ViewLimit \in Nat \ {0}
    /\ Options \subseteq SUBSET {"connections", "inventory", "sync_jobs"}

VARIABLES brainRow,        \* absent, open, done (closed) or gone (archived, deleted)
          signal,          \* the connection and the newest GitHub job
          changes,         \* how often the workspace has moved
          author,          \* requests that generate a briefing
          briefing,        \* saved briefings, oldest first
          generator,       \* requests that make proposals from a briefing
          todo             \* internal to-do proposals, in commit order

briefingVars == <<brainRow, signal, changes, author, briefing, generator, todo>>

Imported == {"repository", "issue", "jira", "gmail", "drive"}

ItemOrder == <<"jira-work-items", "gmail-message-signals",
               "drive-file-signals", "internal-document-context">>

Actionable == {ItemOrder[i] : i \in DOMAIN ItemOrder}

IdleAuthor == [pc |-> "idle"]
IdleGenerator == [pc |-> "idle"]

BriefingsInit ==
    /\ brainRow \in [BrainRows -> {"absent", "open"}]
    /\ signal \in Signals
    /\ changes = 0
    /\ author = [a \in Authors |-> IdleAuthor]
    /\ briefing = <<>>
    /\ generator = [g \in Generators |-> IdleGenerator]
    /\ todo = <<>>

-----------------------------------------------------------------------------
(* The workspace: imports, closed work, archived notes, records that a      *)
(* GitHub sync no longer finds                                              *)

NextStates(r) ==
    CASE brainRow[r] = "absent" -> {"open"}
      [] brainRow[r] = "open" -> {s \in {"done"} : KindOf[r] \in {"issue", "jira"}}
                            \cup {s \in {"gone"} : KindOf[r] \in {"issue", "note"}}
      [] OTHER -> {"open"}

RowMoves(r) ==
    /\ changes < MaxChanges
    /\ \E s \in NextStates(r) : brainRow' = [brainRow EXCEPT ![r] = s]
    /\ changes' = changes + 1
    /\ UNCHANGED <<signal, author, briefing, generator, todo>>

SignalMoves ==
    /\ changes < MaxChanges
    /\ signal' \in Signals \ {signal}
    /\ changes' = changes + 1
    /\ UNCHANGED <<brainRow, author, briefing, generator, todo>>

-----------------------------------------------------------------------------
(* What the company brain reads *)

OfKind(k) == {r \in BrainRows : KindOf[r] = k}

\* Open work whose record is not deleted, notes that are not archived.
OpenRows(k) == {r \in OfKind(k) : brainRow[r] = "open"}

\* The rows the sections show: the newest of the open ones, up to the limit.
BrainSections ==
    LET Shown(k) == {v \in SUBSET OpenRows(k) :
                    \/ Cardinality(v) = ViewLimit
                    \/ v = OpenRows(k) /\ Cardinality(v) < ViewLimit}
    IN  {[repository |-> a, issue |-> b, jira |-> c, gmail |-> d, drive |-> e, note |-> f] :
            a \in Shown("repository"), b \in Shown("issue"), c \in Shown("jira"),
            d \in Shown("gmail"), e \in Shown("drive"), f \in Shown("note")}

\* The full count of the records that are not deleted, by provider.
Volume == [k \in Imported |-> Cardinality({r \in OfKind(k) : brainRow[r] \in {"open", "done"}})]

-----------------------------------------------------------------------------
(* The items of a briefing *)

\* What an item cites; without evidence it carries a warning that says so.
BriefingItem(refs) == [refs |-> refs, warned |-> refs = {}]

ConnectionItem(s) == BriefingItem(IF s.connection = "none" THEN {} ELSE {"connection"})

RepositoryItem(inventory) == BriefingItem(inventory)

\* Repositories, open issues of either tracker, open pull requests.
CoverageItem(view) ==
    BriefingItem(IF view.repository \cup view.issue \cup view.jira = {} THEN {} ELSE {"brain"})

ConnectorItem(volume) == BriefingItem({k \in Imported : volume[k] > 0})

\* A section without rows has no item.
SectionItem(view, k) == IF view[k] = {} THEN NoItem ELSE BriefingItem(view[k])

JiraWorkItem(view) == SectionItem(view, "jira")
GmailMessagesItem(view) == SectionItem(view, "gmail")
DriveFilesItem(view) == SectionItem(view, "drive")
InternalDocumentsItem(view) == SectionItem(view, "note")

\* The total a section's summary states: never less than what it shows.
StatedTotal(view, volume, k) ==
    IF volume[k] > Cardinality(view[k]) THEN volume[k] ELSE Cardinality(view[k])

SyncJobItem(s) == BriefingItem(IF s.job = "none" THEN {} ELSE {"job"})

\* Only with a job there is an item that says whether it was normalized.
NormalizationItem(s) == IF s.job = "none" THEN NoItem ELSE BriefingItem({"job"})

BriefingKeys(opts) ==
    {k \in {"github-connection"} : "connections" \in opts}
    \cup {k \in {"github-repositories", "source-coverage", "connector-source-coverage"}
               \cup Actionable : "inventory" \in opts}
    \cup {k \in {"github-sync-jobs", "github-normalization"} : "sync_jobs" \in opts}

ItemsOf(a, s) ==
    [key \in BriefingKeys(a.opts) |->
        CASE key = "github-connection" -> ConnectionItem(a.signal)
          [] key = "github-repositories" -> RepositoryItem(a.inventory)
          [] key = "source-coverage" -> CoverageItem(a.view)
          [] key = "connector-source-coverage" -> ConnectorItem(a.volume)
          [] key = "jira-work-items" -> JiraWorkItem(a.view)
          [] key = "gmail-message-signals" -> GmailMessagesItem(a.view)
          [] key = "drive-file-signals" -> DriveFilesItem(a.view)
          [] key = "internal-document-context" -> InternalDocumentsItem(a.view)
          [] key = "github-sync-jobs" -> SyncJobItem(s)
          [] OTHER -> NormalizationItem(s)]

-----------------------------------------------------------------------------
(* Generating a briefing *)

\* The connection and the repository inventory.  What the options leave out is
\* read here all the same, and used for nothing.
BeginBriefing(a) ==
    /\ author[a].pc = "idle" /\ Len(briefing) < MaxBriefings
    /\ \E opts \in Options, v \in BrainSections :
         author' = [author EXCEPT ![a] =
            [pc |-> "rows", opts |-> opts, signal |-> signal,
             inventory |-> v.repository]]
    /\ UNCHANGED <<brainRow, signal, changes, briefing, generator, todo>>

ReadRows(a) ==
    /\ author[a].pc = "rows"
    /\ \E v \in BrainSections :
         author' = [author EXCEPT ![a] =
            [pc |-> "counts", opts |-> author[a].opts, signal |-> author[a].signal,
             inventory |-> author[a].inventory, view |-> v]]
    /\ UNCHANGED <<brainRow, signal, changes, briefing, generator, todo>>

ReadCounts(a) ==
    /\ author[a].pc = "counts"
    /\ author' = [author EXCEPT ![a] =
            [pc |-> "save", opts |-> author[a].opts, signal |-> author[a].signal,
             inventory |-> author[a].inventory, view |-> author[a].view, volume |-> Volume]]
    /\ UNCHANGED <<brainRow, signal, changes, briefing, generator, todo>>

\* The jobs are read, the briefing and its items are inserted and committed.
SaveBriefing(a) ==
    /\ author[a].pc = "save" /\ Len(briefing) < MaxBriefings
    /\ LET w == author[a] IN
       briefing' = Append(briefing,
            [items |-> ItemsOf(w, signal),
             totals |-> [k \in {"jira", "gmail", "drive"} |-> StatedTotal(w.view, w.volume, k)]])
    /\ author' = [author EXCEPT ![a] = IdleAuthor]
    /\ UNCHANGED <<brainRow, signal, changes, generator, todo>>

-----------------------------------------------------------------------------
(* Proposals from a saved briefing *)

\* Mutant: an approved to-do no longer counts as open.
OpenStatusesProposedOnly == {"proposed"}

OpenStatuses == {"proposed", "approved", "executed"}

\* The items of briefing b that an open to-do already follows up.
ExistingOpenItemKeys(b) ==
    {todo[i].item : i \in {j \in DOMAIN todo :
        todo[j].briefing = b /\ todo[j].status \in OpenStatuses}}

\* The actionable items that are there, have evidence and no open to-do.
Proposable(b, taken) ==
    LET items == briefing[b].items
    IN  {k \in Actionable \cap DOMAIN items :
            items[k] # NoItem /\ items[k].refs # {} /\ k \notin taken}

ReadOpenTodos(g, b) ==
    /\ generator[g].pc = "idle"
    /\ generator' = [generator EXCEPT ![g] =
            [pc |-> "create", briefing |-> b, taken |-> ExistingOpenItemKeys(b),
             seen |-> DOMAIN todo]]
    /\ UNCHANGED <<brainRow, signal, changes, author, briefing, todo>>

\* The items of S in the order in which a briefing lists them.
Position(k) == CHOOSE i \in DOMAIN ItemOrder : ItemOrder[i] = k

InItemOrder(S) ==
    {s \in [1..Cardinality(S) -> S] :
        \A i, j \in DOMAIN s : i < j => Position(s[i]) < Position(s[j])}

\* The proposals of one request, in the order of the items, committed together.
CreateTodos(g) ==
    /\ generator[g].pc = "create"
    /\ LET w == generator[g]
           new == Proposable(w.briefing, w.taken)
       IN  /\ \A k \in new : briefing[w.briefing].items[k].refs \cap Refused = {}
           /\ Len(todo) + Cardinality(new) <= MaxTodos
           /\ \E s \in InItemOrder(new) :
                todo' = todo \o [i \in DOMAIN s |->
                    [briefing |-> w.briefing, item |-> s[i], status |-> "proposed", seen |-> w.seen]]
    /\ generator' = [generator EXCEPT ![g] = IdleGenerator]
    /\ UNCHANGED <<brainRow, signal, changes, author, briefing>>

\* A reference the proposal schema refuses fails the request: all rolled back.
RefuseTodos(g) ==
    /\ generator[g].pc = "create"
    /\ \E k \in Proposable(generator[g].briefing, generator[g].taken) :
         briefing[generator[g].briefing].items[k].refs \cap Refused # {}
    /\ generator' = [generator EXCEPT ![g] = IdleGenerator]
    /\ UNCHANGED <<brainRow, signal, changes, author, briefing, todo>>

\* A member proposes a to-do for an item by hand, whatever is open already.
CreateByHand(b, k) ==
    /\ Len(todo) < MaxTodos
    /\ k \in Actionable \cap DOMAIN briefing[b].items
    /\ briefing[b].items[k] # NoItem
    /\ todo' = Append(todo, [briefing |-> b, item |-> k, status |-> "proposed",
                             seen |-> {}])
    /\ UNCHANGED <<brainRow, signal, changes, author, briefing, generator>>

DecideTodo(i, decision) ==
    /\ todo[i].status = "proposed"
    /\ todo' = [todo EXCEPT ![i].status = decision]
    /\ UNCHANGED <<brainRow, signal, changes, author, briefing, generator>>

BriefingsNext ==
    \/ \E r \in BrainRows : RowMoves(r)
    \/ SignalMoves
    \/ \E a \in Authors : BeginBriefing(a) \/ ReadRows(a) \/ ReadCounts(a) \/ SaveBriefing(a)
    \/ \E g \in Generators :
         (\E b \in DOMAIN briefing : ReadOpenTodos(g, b)) \/ CreateTodos(g) \/ RefuseTodos(g)
    \/ \E b \in DOMAIN briefing, k \in Actionable : CreateByHand(b, k)
    \/ \E i \in DOMAIN todo, d \in {"approved", "rejected"} : DecideTodo(i, d)

BriefingsSpec == BriefingsInit /\ [][BriefingsNext]_briefingVars

-----------------------------------------------------------------------------
(* Properties *)

\* A to-do made from a briefing while another to-do of the same item is open
\* comes from a request that read the open ones before that other was
\* committed: asking again never repeats an open follow-up, whatever was
\* decided in between, and only overlapping requests can.
RepeatsOnlyInFlight ==
    \A q \in DOMAIN todo : \A p \in todo[q].seen :
        ~ /\ todo[p].briefing = todo[q].briefing
          /\ todo[p].item = todo[q].item
          /\ todo[p].status \in {"proposed", "approved"}
          /\ todo[q].status \in {"proposed", "approved"}
=============================================================================
