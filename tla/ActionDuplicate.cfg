\* Reconciliation at any time, even though every attempt settles within the grace period.
CONSTANTS
    None = None
    Proposals = {p1}
    AiProposals = {p1}
    IssueProposals = {p1}
    Users = {u1}
    Admins = {u1}
    DecisionKeys = {dk1}
    Versions = {0, 1}
    Keys = {k1, k2}
    Syncers = {s1}
    QuiescentSync = FALSE
    BoundedDelay = TRUE
SPECIFICATION Spec
INVARIANT AtMostOneIssue
