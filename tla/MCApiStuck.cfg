\* Submits that are dropped by the request timeout, lost in a restart, or overwritten by
\* a report.
SPECIFICATION ApiFairSpec
CONSTANTS
    NoTxn = NoTxn
    NoRequest = NoRequest
    NoKey = NoKey
    Gids = {g1}
    BranchIds = {b1}
    Handlers = {h1, h2}
    Ops = {"start", "add_branch", "branch_succeed", "submit"}
    BranchParallelism = 2
    Discipline = "started"
    Faults = {"crash", "drop"}
    ConfirmCap = 0
    AdmitCap = 0
PROPERTIES
    CommittingEndsAfterFaults
