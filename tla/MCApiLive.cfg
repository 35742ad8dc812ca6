\* The documented flow over every route, without faults, under fairness;
\* branch_parallelism 0.
SPECIFICATION ApiFairSpec
CONSTANTS
    NoTxn = NoTxn
    NoRequest = NoRequest
    NoKey = NoKey
    Gids = {g1}
    BranchIds = {b1, b2}
    Handlers = {h1, h2}
    Ops = {"start", "add_branch", "submit", "abort"}
    BranchParallelism = 0
    Discipline = "lifecycle"
    Faults = {}
    ConfirmCap = 0
    AdmitCap = 0
INVARIANTS
    SettledWhenQuiet
    LifecycleCoherent
    AddedBranchesKept
    AnsweredAddListed
PROPERTIES
    ApiRequestsEnd
    CommittingEnds
