SPECIFICATION WorkspaceSpec
CONSTANTS
    Writers = {x1, x2}
    Events = {1, 2, k1}
    Resolving = {1, 2, k1}
    Sources = {s1}
    Proposals = {1, 2}
    Candidates = {k1}
    Cites <- MCCites
    Clients = {c1, c2}
    ScanLimit = 1
    ItemLimit = 1
    FingerprintLimit = 2
    MaxAttempts = 1
    None = None
    Handlers = {h1, h2}
    MaxStamp = 5
    Checkers = {a1, a2}
    ModelChoices = {m1, m2}
    MaxVersion = 4
    NoKey = 0
    Messages = {1, 2}
    People = {p1}
    DomainOf <- MCDomainOf
    Public = Public
    Window = 1
    Members = {f1, f2}
    MaxHash = 2
    Importers = {i1, i2}
    Given = {"A-1", "a-1", "B-1", "none"}
    Blank = "none"
    IssueKey <- MCIssueKey
    Batches <- MCBatches
    NoRow = NoRow
    Tabs = {t1,t2}
    Questions = {"q1"}
    IntentOf <- MCIntentOf
    Unsafe = {}
    Snapshots = {"s1","s2"}
    Content <- MCContent
    Refs <- MCRefs
    Trusted <- MCTrusted
    Aggregates = {"sources", "decisions"}
    FactLimit = 3
    CitationLimit = 1
    Limit = 1
    QueryWindow = 1
    MaxFlights = 2
    MaxClock = 1
    NoFlight = NoFlight
    BrainRows = {"j1", "j2", "n1", "d1"}
    KindOf <- MCKindOf
    Refused = {"d1"}
    ViewLimit = 1
    Options <- MCOptions
    Signals <- MCSignals
    Authors = {b1}
    Generators = {g1, g2}
    MaxBriefings = 1
    MaxTodos = 2
    MaxChanges = 2
    NoItem = NoItem
SYMMETRY Symmetry
CHECK_DEADLOCK FALSE
INVARIANTS
    UnseenIsCounted
    AcknowledgedIsQuiet
    
    VerifiedIsCurrent
    IssuesAreTheirRecords
    AnswersAreSupported
    RepeatsOnlyInFlight
PROPERTIES
    PurgesOnlyPreviewed
    DecidedOnWhatWasShown
