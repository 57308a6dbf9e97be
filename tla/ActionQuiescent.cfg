\* The documented operation: two proposals (one of them not executable), two
\* attempts, one operator who reconciles after the request has ended.
CONSTANTS
    None = None
    Proposals = {p1, p2}
    AiProposals = {p2}
    IssueProposals = {p1}
    Users = {u1}
    Admins = {u1}
    DecisionKeys = {dk1}
    Versions = {0, 1}
    Keys = {k1, k2}
    Syncers = {s1}
    QuiescentSync = TRUE
    BoundedDelay = TRUE
SPECIFICATION FairSpec
INVARIANTS
    AtMostOneIssue
    FailedMeansNotWritten
PROPERTIES
    ReceiptIsFinal
    RefinesExternalWrite
    Reconciled
