\* One client that waits for each answer and retries at will, every fault.
SPECIFICATION ApiSpec
CONSTANTS
    NoTxn = NoTxn
    NoRequest = NoRequest
    NoKey = NoKey
    Gids = {g1}
    BranchIds = {b1}
    Handlers = {h1, h2}
    Ops = {"start", "add_branch", "branch_succeed", "branch_fail", "submit", "abort"}
    BranchParallelism = 2
    Discipline = "serial"
    Faults = {"crash", "drop", "storage"}
    ConfirmCap = 0
    AdmitCap = 2
SYMMETRY Symmetry
INVARIANTS
    ApiTypeOK
    AdmittedOnce
PROPERTIES
    ImplementsSaga
