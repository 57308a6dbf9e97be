SPECIFICATION RepositoriesSpec
CONSTANTS
    repo1 = repo1
    repo2 = repo2
    a = a
    b = b
    c = c
    f1 = f1
    f2 = f2
    c1 = c1
    g1 = g1
    x1 = x1
    x2 = x2
    Jobs = {j1, j2, j3}
    Workers = {w1, w2}
    Scopes = {a, b, c}
    RepositoryOf <- RepositoryOfEach
    Facts = {f1, f2}
    Relationships = {x1, x2}
    Findings = {g1}
    Contradictions = {c1}
    Reportable <- Reported
    Left <- LeftOf
    Right <- RightOf
    MaxAttempts = 2
    None = None
    Unknowns = {}
    Subject = repo1
    Inbound = {x2}
    ClaimSets <- MCClaimSets
    DetailLimit = 2
    Requests = {q1, q2}
    RunIds = {r1, r2}
    Fold <- MCFold
    GitDirectory = ".git"
    Inputs <- MCInputs
    MaxFiles = 2
    MaxBytes = 3
    MaxFileBytes = 2
    MaxDepth = 2
    Repositories = {1, 2, 3, 4}
    Directional = {"calls", "imports"}
    Symmetric = {"shares"}
    Named <- Portfolio
    Slug <- MCSlug
    ReportableSignals <- MCSignals
    MaxSignals = 4
    MaxEvidence = 2
    MaxRelationships = 4
    MaxCycles = 1
    MaxCycleDepth = 4
    MaxFindings = 3
SYMMETRY Interchangeable
CHECK_DEADLOCK FALSE
INVARIANTS
    RetiredWasMissed
    JobTellsRun
    UsedCheckoutIsWhole
    DetailIsWhole
    CyclesAreMutualDependence
PROPERTIES
    CancelledPublishesNothing
