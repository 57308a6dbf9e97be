\* One proposal, two attempts, two reconciliations at any time, no timing assumption.
CONSTANTS
    None = None
    Proposals = {p1}
    AiProposals = {p1}
    IssueProposals = {p1}
    Users = {u1}
    Admins = {u1}
    DecisionKeys = {dk1}
    Versions = {0, 1}
    Keys = {k1, k2}
    Syncers = {s1, s2}
    QuiescentSync = FALSE
    BoundedDelay = FALSE
SPECIFICATION Spec
SYMMETRY KeySymmetry
INVARIANTS
    DecisionRecorded
    ReceiptsAreReal
    DefinitiveFailure
