SPECIFICATION InstallationSpec
CONSTANTS
    e1 = e1
    w1 = w1
    w2 = w2
    Handlers = {h1, h2}
    Emails = {e1, e2}
    Orphans = {e2}
    Slugs = {w1, w2}
    Sessions = {s1, s2, s3}
    Tokens = {t1}
    Invites = {i1}
    MaxPw = 2
    None = None
    Requests = {h1, h2}
    Clients = {h1, h2}
    Addresses = {a1}
    PerClient = 2
    Global = 3
    MaxConcurrent = 1
    Window = 2
    LeaseTtl = 2
    Threshold = 2
    Lockout = 2
    Commands = {h1, h2}
    Pids = {s1, s2, s3}
    NoPid = NoPid
    MaxWrites = 1
    MaxStrangers = 1
    MaxDay = 5
    WeekDays = 2
    MonthDays = 4
    Policies <- ShortPolicies
SYMMETRY Symmetry
CHECK_DEADLOCK FALSE
INVARIANTS
    OnlyChangerSurvives
    InviteSpentOnce
    ConcurrentWorkBounded
    OnlyOwnSignalled
    BundleIsOneMoment
PROPERTIES
    LinkNeverReplaces
    MigrationIsBacked
    RecoveryPointsKept
