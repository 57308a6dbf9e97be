---------------------------- MODULE MCWorkspace ----------------------------
(***************************************************************************)
(* What a workspace's members do, checked one concern at a time: the        *)
(* concerns share no state, so "focus" fixes which of them moves in a       *)
(* behaviour.  The ledger is checked with its sources read and its          *)
(* decisions open, the sources with an empty ledger.                        *)
(***************************************************************************)
EXTENDS Headquarters, Documents, AISettings, CompanyWorld,
        LocalImports, Assistant, Briefings

VARIABLE focus

workspaceVars == <<hqVars, documentVars, aiVars, worldVars, importVars,
                   assistantVars, briefingVars, focus>>

Foci == {"ledger", "sources", "documents", "ai", "world", "imports", "assistant",
         "briefings"}

MCCites == [p \in Proposals |-> CHOOSE s \in Sources : TRUE]

MCDomainOf == [p \in People |-> "organization"]

\* Two spellings of one Jira key; batches in opposite orders, with an entry
\* twice, and with an entry that has no id.
MCIssueKey ==
    [g \in Given |-> CASE g \in {"A-1", "a-1"} -> "A-1" [] g = "B-1" -> "B-1" [] OTHER -> Blank]

MCBatches ==
    [jira |-> {<<"A-1", "B-1">>, <<"B-1", "a-1">>, <<"a-1", "A-1">>, <<"none", "B-1">>},
     gmail |-> {<<"a-1", "A-1">>},
     drive |-> {<<"none", "B-1">>}]

\* A snapshot with more evidence than an answer may cite, one of it not
\* trusted, and an empty one.
Ref(e) == <<e, "ref">>

MCContent ==
    [s1 |-> [priority |-> <<Ref("e1"), Ref("x"), Ref("e2")>>,
             queue |-> <<<<Ref("e3"), Ref("e1")>>>>,
             owner |-> <<>>, reviews |-> <<>>, counts |-> <<"sources", "decisions">>],
     s2 |-> [priority |-> <<>>, queue |-> <<>>, owner |-> <<>>, reviews |-> <<>>, counts |-> <<>>]]

MCTrusted == {Ref("e1"), Ref("e2"), Ref("e3")}
MCRefs == MCTrusted \cup {Ref("x")}

MCIntentOf == [q1 |-> "current_priority"]

\* Two Jira issues where one is shown, an archived note, a reference that the
\* proposals refuse.
MCKindOf == [j1 |-> "jira", j2 |-> "jira", n1 |-> "note", d1 |-> "drive"]

MCOptions == {{"connections", "inventory", "sync_jobs"}}

MCSignals == {[connection |-> "none", job |-> "none"],
              [connection |-> "connected", job |-> "queued"]}

BriefingsStart ==
    /\ BriefingsInit
    /\ signal.connection = "none"
    /\ brainRow["j2"] = "absent" /\ brainRow["d1"] = "absent" /\ brainRow["n1"] = "open"

BriefingsIdle == BriefingsStart /\ brainRow["j1"] = "absent"

\* Stale, so that a source, a proposal and a candidate together are more than
\* a view may remember.
ReadSource ==
    [NewSource EXCEPT !.connected = TRUE, !.job = "succeeded", !.records = TRUE, !.stale = TRUE]

LedgerInit ==
    /\ MemoryInit
    /\ source = [s \in Sources |-> ReadSource]
    /\ open = Events \ {1} /\ briefings = TRUE
    /\ checkpoint = None
    /\ client = [c \in Clients |-> [pc |-> "idle", shows |-> None]]

\* Nobody asks: which snapshot is shown does not matter.
AssistantIdle == AssistantInit /\ screen = "s1" /\ ~llm

WorkspaceInit ==
    /\ focus \in Foci
    /\ IF focus = "ledger" THEN LedgerInit ELSE HqInit
    /\ DocumentsInit /\ AIInit /\ WorldInit /\ ImportsInit
    /\ IF focus = "assistant" THEN AssistantInit ELSE AssistantIdle
    /\ IF focus = "briefings" THEN BriefingsStart ELSE BriefingsIdle

WorkspaceNext ==
    /\ UNCHANGED focus
    /\ \/ /\ focus = "ledger" /\ (ClientNext \/ DecisionNext)
          /\ UNCHANGED <<documentVars, aiVars, worldVars,
                         importVars, assistantVars, briefingVars>>
       \/ /\ focus = "sources"
          /\ \/ \E c \in Clients : View(c, TRUE) \/ Acknowledge(c, TRUE) \/ Upsert(c)
             \/ SourceNext
          /\ UNCHANGED <<documentVars, aiVars, worldVars,
                         importVars, assistantVars, briefingVars>>
       \/ /\ focus = "documents" /\ DocumentsNext
          /\ UNCHANGED <<hqVars, aiVars, worldVars,
                         importVars, assistantVars, briefingVars>>
       \/ /\ focus = "ai" /\ AINext
          /\ UNCHANGED <<hqVars, documentVars, worldVars,
                         importVars, assistantVars, briefingVars>>
       \/ /\ focus = "world" /\ WorldNext
          /\ UNCHANGED <<hqVars, documentVars, aiVars,
                         importVars, assistantVars, briefingVars>>
       \/ /\ focus = "imports" /\ ImportsNext
          /\ UNCHANGED <<hqVars, documentVars, aiVars,
                         worldVars, assistantVars, briefingVars>>
       \/ /\ focus = "assistant" /\ AssistantNext
          /\ UNCHANGED <<hqVars, documentVars, aiVars,
                         worldVars, importVars, briefingVars>>
       \/ /\ focus = "briefings" /\ BriefingsNext
          /\ UNCHANGED <<hqVars, documentVars, aiVars,
                         worldVars, importVars, assistantVars>>

WorkspaceSpec == WorkspaceInit /\ [][WorkspaceNext]_workspaceVars

Symmetry == Permutations(Writers) \cup Permutations(Clients) \cup Permutations(Generators)
=============================================================================
