----------------------- MODULE RepositoryRelationships -----------------------
(***************************************************************************)
(* From signals to a portfolio graph                                        *)
(* (repository_intelligence/relationships.py).  Every repository's analyzer *)
(* reports, for a relationship type, a selector it saw; the portfolio says  *)
(* which repository a selector names.  Signals are resolved, merged and     *)
(* validated; the graph's cycles are the components Tarjan's algorithm      *)
(* finds.                                                                   *)
(*                                                                         *)
(* A repository is a number: numbers order as repository ids and as         *)
(* external ids, and both order before the id of an unresolved target.      *)
(* Summaries and confidences are derived from the fields kept here; the     *)
(* bounds on repositories, on signals and on the bytes of the result are    *)
(* left out.                                                               *)
(***************************************************************************)
EXTENDS Integers, Sequences, SequencesExt, FiniteSets, FiniteSetsExt

CONSTANTS
    Repositories,   \* the portfolio
    Directional, Symmetric, \* relationship types
    Named,          \* type and selector -> the repository that they name
    Slug(_),        \* the stable slug of a selector that names none
    ReportableSignals,     \* the signals that may be reported
    MaxSignals,     \* bound: signals of one analysis
    MaxEvidence,    \* max_evidence_refs_per_relationship
    MaxRelationships, MaxCycles, MaxCycleDepth, MaxFindings

ASSUME RelationshipsAssumption ==
    /\ Repositories \subseteq Nat \ {0} /\ IsFiniteSet(Repositories)
    /\ \A k \in DOMAIN Named : Named[k] \in Repositories
    /\ \A s \in ReportableSignals : s.from \in Repositories /\ s.type \in Directional \cup Symmetric
    /\ Directional \cap Symmetric = {}
    /\ MaxEvidence \in Nat \ {0} /\ MaxSignals \in Nat

VARIABLES
    signals,    \* the signals reported so far
    analysis    \* the last analysis that was built, or why there is none

relationshipVars == <<signals, analysis>>

\* The repository id of an unresolved target, and the slug of a resolved one.
Unknown == 0
NoSlug == ""

RelationshipsInit == signals = {} /\ analysis = [error |-> "notBuilt"]

----------------------------------------------------------------------------
(***************************************************************************)
(* Resolution of one group of signals: one source, type and selector.       *)
(***************************************************************************)
GroupKey(s) == <<s.from, s.type, s.selector>>

\* _selector_index
Target(type, selector) ==
    IF <<type, selector>> \in DOMAIN Named
    THEN [repo |-> Named[<<type, selector>>], slug |-> NoSlug]
    ELSE [repo |-> Unknown, slug |-> Slug(selector)]

\* RepositoryRelationshipV1: a symmetric relationship is kept in one direction.
Normalized(type, from, to) ==
    IF type \in Symmetric /\ to.repo # Unknown /\ to.repo < from
    THEN [type |-> type, from |-> to.repo, to |-> [to EXCEPT !.repo = from]]
    ELSE [type |-> type, from |-> from, to |-> to]

Resolved(key) == Normalized(key[2], key[1], Target(key[2], key[3]))

Keys(S) == {GroupKey(s) : s \in S}

\* The signals whose groups resolve to one identity: they are merged, so that
\* the evidence is the union and one observation makes the edge observed.
Merged(S, id) == {s \in S : Resolved(GroupKey(s)) = id}

Relationship(S, id) ==
    [id |-> id,
     evidence |-> UNION {s.evidence : s \in Merged(S, id)},
     observed |-> \E s \in Merged(S, id) : s.observed]

MergedRelationships(S) == {Relationship(S, Resolved(k)) : k \in Keys(S)}

\* A group that resolves to its own source.
SelfEdge(S) == \E k \in Keys(S) : Target(k[2], k[3]).repo = k[1]

\* _reject_directional_contradictions
Opposing(E) ==
    \E e, f \in E :
        /\ e.id.type \in Directional /\ f.id.type = e.id.type
        /\ e.id.to.repo # Unknown
        /\ f.id.from = e.id.to.repo /\ f.id.to.repo = e.id.from

----------------------------------------------------------------------------
(***************************************************************************)
(* Cycles.  The state of Tarjan's algorithm: the next index, the index and  *)
(* low link of every visited node, the stack and the components so far; and *)
(* where visit is: the nodes whose calls have not returned, the targets a   *)
(* node has still to follow and the roots the outer loop has still to try.  *)
(***************************************************************************)
Adjacency(E) ==
    [r \in Repositories |->
        {e.id.to.repo : e \in {f \in E : /\ f.id.from = r
                                         /\ f.id.type \notin Symmetric
                                         /\ f.id.to.repo # Unknown}}]

Smaller(m, n) == IF m < n THEN m ELSE n
Least(S) == CHOOSE m \in S : \A n \in S : m <= n

NotVisited == -1

TarjanStart(adj) ==
    [next |-> 0, index |-> [r \in Repositories |-> NotVisited],
     low |-> [r \in Repositories |-> NotVisited], stack |-> <<>>, found |-> {},
     calls |-> <<>>, left |-> adj, roots |-> Repositories]

\* A call of visit(node).
Enter(st, node) ==
    [st EXCEPT !.index[node] = st.next, !.low[node] = st.next, !.next = @ + 1,
               !.stack = Append(@, node), !.calls = Append(@, node)]

\* Mutant: a node that is visited but no longer on the stack also lowers the link.
FollowVisited(st, node) ==
    LET target == Least(st.left[node])
        taken == [st EXCEPT !.left[node] = @ \ {target}]
    IN  IF st.index[target] = NotVisited THEN Enter(taken, target)
        ELSE [taken EXCEPT !.low[node] = Smaller(@, st.index[target])]

\* What visit(node) does with its next target.
Follow(st, node) ==
    LET target == Least(st.left[node])
        taken == [st EXCEPT !.left[node] = @ \ {target}]
    IN  IF st.index[target] = NotVisited THEN Enter(taken, target)
        ELSE IF target \in Range(st.stack)
             THEN [taken EXCEPT !.low[node] = Smaller(@, st.index[target])]
             ELSE taken

\* The component of a root is what was pushed since the root.
Pop(st, node) ==
    LET at == CHOOSE i \in DOMAIN st.stack : st.stack[i] = node
        component == {st.stack[i] : i \in at..Len(st.stack)}
    IN  [st EXCEPT !.stack = SubSeq(@, 1, at - 1), !.found = @ \cup {component}]

\* The end of visit(node): its caller, if it has one, takes over the low link.
Return(st, node) ==
    LET popped == IF st.low[node] = st.index[node] THEN Pop(st, node) ELSE st
        calls == Front(st.calls)
    IN  IF calls = <<>> THEN [popped EXCEPT !.calls = calls]
        ELSE [popped EXCEPT !.calls = calls,
                            !.low[Last(calls)] = Smaller(@, st.low[node])]

\* The loop over every repository.
NextRoot(st) ==
    LET root == Least(st.roots)
        taken == [st EXCEPT !.roots = @ \ {root}]
    IN  IF st.index[root] = NotVisited THEN Enter(taken, root) ELSE taken

TarjanStep(st) ==
    IF st.calls # <<>>
    THEN IF st.left[Last(st.calls)] # {} THEN Follow(st, Last(st.calls))
                                         ELSE Return(st, Last(st.calls))
    ELSE IF st.roots # {} THEN NextRoot(st) ELSE st

\* The search takes one step for every root, every edge and every return.
Edges(adj) == {d \in Repositories \X Repositories : d[2] \in adj[d[1]]}
Work(adj) == 2 * Cardinality(Repositories) + Cardinality(Edges(adj))

\* _strongly_connected_components
Components(adj) ==
    LET upTo[n \in 0..Work(adj)] ==
            IF n = 0 THEN TarjanStart(adj) ELSE TarjanStep(upTo[n - 1])
    IN  upTo[Work(adj)].found

Cycles(E) == {c \in Components(Adjacency(E)) : Cardinality(c) > 1}

----------------------------------------------------------------------------
(***************************************************************************)
(* The analysis.                                                            *)
(***************************************************************************)
Unresolved(E) == {e \in E : e.id.to.repo = Unknown}

Orphans(E) ==
    Repositories \ UNION {{e.id.from, e.id.to.repo} : e \in E}

\* _graph_findings: one for every cycle, orphan and unresolved target; its
\* evidence is that of its edges.
GraphFindings(E) ==
    {[kind |-> "cycle", repositories |-> c,
      edges |-> {e \in E : {e.id.from, e.id.to.repo} \subseteq c}] : c \in Cycles(E)}
    \cup {[kind |-> "orphan", repositories |-> {r}, edges |-> {}] : r \in Orphans(E)}
    \cup {[kind |-> "unresolved", repositories |-> {e.id.from}, edges |-> {e}]
        : e \in Unresolved(E)}

\* build_repository_relationship_analysis
Analysis(S) ==
    LET E == MergedRelationships(S) IN
    IF SelfEdge(S) THEN [error |-> "selfEdge"]
    ELSE IF \E e \in E : Cardinality(e.evidence) > MaxEvidence THEN [error |-> "evidenceBound"]
    ELSE IF Cardinality(E) > MaxRelationships THEN [error |-> "edgeBound"]
    ELSE IF Opposing(E) THEN [error |-> "opposingDirections"]
    ELSE IF \/ Cardinality(Cycles(E)) > MaxCycles
            \/ \E c \in Cycles(E) : Cardinality(c) > MaxCycleDepth
         THEN [error |-> "cycleBound"]
    ELSE IF Cardinality(GraphFindings(E)) > MaxFindings THEN [error |-> "findingBound"]
    ELSE [error |-> "", signals |-> S, edges |-> E,
          cycles |-> Cycles(E), findings |-> GraphFindings(E)]

\* relationship_signals_from_static_collection: a collected fact becomes a signal.
Report(s) ==
    /\ Cardinality(signals) < MaxSignals
    /\ s \notin signals
    /\ signals' = signals \cup {s}
    /\ UNCHANGED analysis

Build ==
    /\ analysis' = Analysis(signals)
    /\ UNCHANGED signals

RelationshipsNext == Build \/ \E s \in ReportableSignals : Report(s)

RelationshipsSpec == RelationshipsInit /\ [][RelationshipsNext]_relationshipVars

----------------------------------------------------------------------------
(***************************************************************************)
(* Properties.                                                              *)
(***************************************************************************)
Built == analysis.error = ""

\* The dependencies of an analysis, and the sets of repositories they never leave.
Dependencies ==
    {<<e.id.from, e.id.to.repo>> : e \in {f \in analysis.edges :
        f.id.type \in Directional /\ f.id.to.repo # Unknown}}
Closed == {C \in SUBSET Repositories : \A d \in Dependencies : d[1] \in C => d[2] \in C}

\* Two repositories depend on each other when no such set separates them.
Inseparable(r, closed) == {q \in Repositories : \A C \in closed : q \in C <=> r \in C}

\* The cycles an analysis reports are exactly the sets of repositories that
\* depend on each other: what the depth-first search leaves on its stack and
\* its low links are never too few or too many (relationships.py:938-1010).
CyclesAreMutualDependence ==
    Built => LET closed == Closed
             IN  analysis.cycles =
                    {c \in {Inseparable(r, closed) : r \in Repositories} : Cardinality(c) > 1}
=============================================================================
