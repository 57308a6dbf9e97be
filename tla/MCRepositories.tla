--------------------------- MODULE MCRepositories ---------------------------
(***************************************************************************)
(* Repository intelligence, one concern at a time: the publication of       *)
(* analysis results, what is read of them meanwhile, the checkout of a      *)
(* commit, and the signals of the portfolio.  "focus" fixes which of them a *)
(* behaviour is about.                                                      *)
(***************************************************************************)
EXTENDS RepositoryViews, RepositoryCheckout, RepositoryRelationships, TLC

CONSTANTS repo1, repo2, a, b, c, f1, f2, c1, g1, x1, x2

VARIABLE focus

-----------------------------------------------------------------------------
\* repo1 has two scopes, repo2 one.  In repo1 one contradiction between two
\* facts, one relationship and one finding; enough to see, miss and see again
\* each of them, together and apart.  In repo2 a relationship to repo1.
RepositoryOfEach == [k \in Scopes \cup Items |-> IF k \in {c, x2} THEN repo2 ELSE repo1]
LeftOf == [k \in {c1} |-> f1]
RightOf == [k \in {c1} |-> f2]
Reported == {{}, {f1, x1, g1}, {f1, f2, c1}, {x2}}

\* A claim that agrees and one that does not, and a set that is refused.
MCClaimSets ==
    {[valid |-> TRUE, here |-> TRUE,
      claims |-> {[fact |-> f1, agrees |-> TRUE], [fact |-> f2, agrees |-> FALSE]}],
     [valid |-> FALSE, here |-> TRUE, claims |-> {}]}

\* Where nothing is read, all jobs are of repo1: repo2's runs touch none of its rows.
OnlyRepo1 == \A j \in Jobs : job'[j] # NoJob => job'[j].scope # c

\* While a view is read: two jobs, of one scope or of two repositories, publish
\* one after the other, and a repository's records may be deleted.
Publish ==
    /\ \/ \E j \in Jobs, scope \in Scopes : Enqueue(j, scope)
       \/ \E w \in Workers, j \in Jobs :
             \/ Claim(w, j)
             \/ \E report \in Reports, complete \in BOOLEAN : PersistBegin(w, j, report, complete)
       \/ \E w \in Workers : PersistCommit(w)
       \/ \E scope \in Scopes : DeleteRecords(RepositoryOf[scope])
    /\ Cardinality({j \in Jobs : job'[j] # NoJob}) <= 2
    /\ \A j, k \in {i \in Jobs : job'[i] # NoJob} :
          RepositoryOf[job'[j].scope] = RepositoryOf[job'[k].scope] => job'[j].scope = job'[k].scope
    /\ Cardinality({j \in Jobs : job'[j].status = "running"}) <= 1

-----------------------------------------------------------------------------
\* Path segments a, its upper-case spelling A, b and .git; A folds to a.
MCFold(name) == IF name = "A" THEN "a" ELSE name

Paths ==
    {<<"a">>, <<"A">>, <<"b">>, <<"a", "b">>, <<"A", "b">>, <<"a", "A">>, <<"a", "b", "b">>}

File(path, size, actual) == [path |-> path, size |-> size, actual |-> actual, blob |-> TRUE]

\* Every pair of paths; and trees whose sizes, kinds or blobs are odd.
MCTrees ==
    {<<File(path1, 1, 1), File(path2, 1, 1)>> : path1, path2 \in Paths}
    \cup {<<File(<<"a">>, s, n), File(<<"b">>, 2, 2)>> : s \in 0..3, n \in {0, 1, 2, 4}}
    \cup {<<File(<<".git", "a">>, 1, 1)>>, <<>>,
          <<[File(<<"a">>, 1, 1) EXCEPT !.blob = FALSE]>>,
          <<File(<<"a">>, 0, 0), File(<<"b">>, 0, 0), File(<<"c">>, 0, 0)>>}

MCFlaws ==
    {"nonPositiveBound", "abbreviatedSha", "sourceIsLink", "gitIsLink", "sourceOverlapsData",
     "directoryNotPrivate", "alternates", "commitMissing"}

\* What may be wrong is the first request's; the second may name the same run.
MCInputs == [request \in Requests |->
    IF request = CHOOSE first \in Requests : TRUE
    THEN [run : {CHOOSE r \in RunIds : TRUE}, flaw : {"none"}, tree : MCTrees]
         \cup [run : {CHOOSE r \in RunIds : TRUE}, flaw : MCFlaws, tree : {<<>>}]
    ELSE [run : RunIds, flaw : {"none"}, tree : {<<File(<<"a">>, 1, 1)>>, <<File(<<"a">>, 1, 2)>>}]]

----------------------------------------------------------------------------
Types == Directional \cup Symmetric

\* Selectors up to 4 name the repository of that number; 11 and 12 name none
\* and have one slug.
Portfolio == [k \in Types \X (1..4) |-> k[2]]
MCSlug(selector) == "unknown"

Signal(from, type, selector, evidence, observed) ==
    [from |-> from, type |-> type, selector |-> selector,
     evidence |-> evidence, observed |-> observed]

\* Every dependency of one type, and what merges, opposes or overflows.
MCSignals ==
    {Signal(from, "calls", to, {"e1"}, TRUE) : from, to \in 1..4}
    \cup {Signal(2, "imports", 1, {"e2"}, TRUE), Signal(1, "calls", 2, {"e2"}, FALSE),
          Signal(1, "shares", 3, {"e1"}, FALSE), Signal(3, "shares", 1, {"e2", "e3"}, TRUE),
          Signal(1, "calls", 11, {"e1"}, TRUE), Signal(1, "calls", 12, {"e2"}, FALSE)}

-----------------------------------------------------------------------------
repositoriesVars == <<viewVars, checkoutVars, relationshipVars, focus>>

RepositoriesInit ==
    /\ ViewsInit /\ CheckoutInit /\ RelationshipsInit
    /\ focus \in {"runs", "views", "checkout", "portfolio"}

RepositoriesNext ==
    /\ UNCHANGED focus
    /\ \/ /\ focus = "runs" /\ RunsNext /\ Noticed /\ OnlyRepo1
          /\ UNCHANGED <<checkoutVars, relationshipVars>>
       \/ /\ focus = "views" /\ (ViewNext \/ (Publish /\ Noticed))
          /\ UNCHANGED <<checkoutVars, relationshipVars>>
       \/ /\ focus = "checkout" /\ CheckoutNext
          /\ UNCHANGED <<viewVars, relationshipVars>>
       \/ /\ focus = "portfolio" /\ RelationshipsNext
          /\ UNCHANGED <<viewVars, checkoutVars>>

RepositoriesSpec == RepositoriesInit /\ [][RepositoriesNext]_repositoriesVars

Interchangeable == Permutations(Jobs) \cup Permutations(Workers) \cup Permutations({a, b})
=============================================================================
