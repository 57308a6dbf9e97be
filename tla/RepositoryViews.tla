-------------------------- MODULE RepositoryViews --------------------------
(***************************************************************************)
(* The detail of a repository (repository_intelligence/read_service.py and  *)
(* cross_source.py): the request issues one SELECT after another under READ *)
(* COMMITTED, so results may be published or deleted between two of them.   *)
(* Its relationships are the repository's own and those of others that      *)
(* target it.  Rows are their identities; what a payload says of a row, the *)
(* questions put to a person among it, and the links to evidence are left   *)
(* out.                                                                     *)
(***************************************************************************)
EXTENDS RepositoryRuns

CONSTANTS Subject,      \* the repository that is read
          Inbound,      \* relationships that target it
          Unknowns,     \* facts of type unknown
          ClaimSets,    \* claims that tasks, pull requests and documents carry
          DetailLimit   \* rows of one kind that a detail shows

ASSUME ViewsAssumption ==
    /\ Inbound \subseteq Relationships
    /\ Unknowns \subseteq Facts
    /\ DetailLimit \in Nat \ {0}

VARIABLE view   \* the request being served

viewVars == <<runVars, view>>

NoView == [pc |-> "idle"]

ViewsInit == RunsInit /\ view = NoView

\* What was found in the repository itself.
Own(kind) == {i \in kind : RepositoryOf[i] = Subject}

Rows(kind) == {i \in kind : row[i] # NoRow}
Current(kind) == {i \in kind : row[i].status = "current"}

\* Any choice an ORDER BY with current rows first and a LIMIT can make; the
\* order among them is by time and is left open.
CurrentFirst(kind) ==
    {S \in SUBSET Rows(kind) :
        /\ Cardinality(S) <= DetailLimit
        /\ Rows(kind) \subseteq S \/ Cardinality(S) = DetailLimit
        /\ Current(kind) \subseteq S \/ S \subseteq Current(kind)}

\* Findings are ordered by severity whatever their status.
SeverityFirst ==
    {S \in SUBSET Rows(Own(Findings)) :
        /\ Cardinality(S) <= DetailLimit
        /\ Rows(Own(Findings)) \subseteq S \/ Cardinality(S) = DetailLimit}

-----------------------------------------------------------------------------
(* The detail of a repository, statement by statement *)

\* whole: the runs that were committed when the reading began and still are;
\* cut: facts were left out.
EmptyView ==
    [pc |-> "begun", whole |-> Committed, facts |-> {}, relationships |-> {},
     findings |-> {}, contradictions |-> {}, runs |-> {}, compared |-> {}, cut |-> FALSE]

\* The repository and its newest run.
DetailBegin ==
    /\ view.pc \in {"idle", "done"}
    /\ view' = EmptyView
    /\ UNCHANGED runVars

\* Mutant: only current facts are read, as for the portfolio.
DetailCurrentFacts ==
    /\ view.pc = "begun"
    /\ view' = [view EXCEPT !.pc = "facts", !.facts = Current(Own(Facts))]
    /\ UNCHANGED runVars

\* All facts, current ones first.
DetailFacts ==
    /\ view.pc = "begun"
    /\ \E S \in CurrentFirst(Own(Facts)) :
          view' = [view EXCEPT !.pc = "facts", !.facts = S, !.cut = S # Rows(Own(Facts))]
    /\ UNCHANGED runVars

\* Outbound and inbound ones.
DetailRelationships ==
    /\ view.pc = "facts"
    /\ \E S \in CurrentFirst(Own(Relationships) \cup Inbound) :
          view' = [view EXCEPT !.pc = "relationships", !.relationships = S]
    /\ UNCHANGED runVars

DetailFindings ==
    /\ view.pc = "relationships"
    /\ \E S \in SeverityFirst : view' = [view EXCEPT !.pc = "findings", !.findings = S]
    /\ UNCHANGED runVars

DetailContradictions ==
    /\ view.pc = "findings"
    /\ \E S \in CurrentFirst(Own(Contradictions)) :
          view' = [view EXCEPT !.pc = "contradictions", !.contradictions = S]
    /\ UNCHANGED runVars

\* The rows whose runs are looked up.
ShownRows == view.facts \cup view.relationships \cup view.findings \cup view.contradictions

\* _run_times resolves the runs that the rows were seen by.
DetailRunTimes ==
    /\ view.pc = "contradictions"
    /\ view' = [view EXCEPT !.pc = "times", !.runs = Committed]
    /\ UNCHANGED runVars

\* A claim set is refused when it does not validate or names another
\* repository; otherwise each claim is held against the fact of its identity.
Comparison(claim) ==
    [fact |-> claim.fact,
     status |-> IF claim.fact \notin Current(Own(Facts)) \ Unknowns THEN "insufficient_evidence"
                ELSE IF claim.agrees THEN "agreement" ELSE "contradiction"]

ClaimSetValid(set) == set.valid

ClaimSetAccepted(set) == ClaimSetValid(set) /\ set.here

\* Any of the sources may be there, live and among the newest ones.
CrossSourceRecords == SUBSET ClaimSets

\* The facts are read again.
DetailCrossSource ==
    /\ view.pc = "times"
    /\ \E sources \in CrossSourceRecords :
          view' = [view EXCEPT !.pc = "done",
                !.compared = {Comparison(c) : c \in UNION {s.claims : s \in {t \in sources : ClaimSetAccepted(t)}}}]
    /\ UNCHANGED runVars

-----------------------------------------------------------------------------
\* Writers go on; a view notes which runs were deleted under it.
Noticed ==
    view' = IF view = NoView THEN view
            ELSE [view EXCEPT !.whole = view.whole \cap {j \in Jobs : run'[j] # NoRun}]

ViewNext ==
    \/ DetailBegin \/ DetailFacts \/ DetailRelationships \/ DetailFindings
    \/ DetailContradictions \/ DetailRunTimes \/ DetailCrossSource

\* One request is read while jobs are enqueued, claimed, published and deleted.
ViewsNext == ViewNext \/ (RunsNext /\ Noticed)

ViewsSpec == ViewsInit /\ [][ViewsNext]_viewVars

-----------------------------------------------------------------------------
(* What the payloads say *)

\* The times of a row; a run that was not found leaves them empty.
SeenAt(i) == IF row[i].last \in view.runs THEN row[i].last ELSE None

\* The two sides of a contradiction, taken from the facts that are shown.
ContradictionPayload(c) ==
    LET shown(f) == IF f \in view.facts THEN f ELSE None
    IN  [left |-> shown(Left[c]), right |-> shown(Right[c])]

-----------------------------------------------------------------------------
(* Properties *)

\* Whatever is published while a detail is read, what it shows of the results
\* that were complete when it began fits together: every row has the time of
\* the run that saw it, a contradiction shows both of its facts, and a claim
\* is only held against a fact that is listed, unless the list was cut.
DetailIsWhole ==
    view.pc = "done" =>
        \A i \in ShownRows : row[i] # NoRow /\ row[i].last \in view.whole =>
            /\ SeenAt(i) # None
            /\ ~view.cut =>
                  /\ i \in view.contradictions =>
                        ContradictionPayload(i) = [left |-> Left[i], right |-> Right[i]]
                  /\ \A c \in view.compared :
                        c.status # "insufficient_evidence" /\ c.fact \in run[row[i].last].report =>
                            c.fact \in view.facts
=============================================================================
