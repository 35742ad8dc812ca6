\* Branches added at once or beside a submit.
SPECIFICATION Spec
CONSTANTS
    NoTxn = NoTxn
    NoRequest = NoRequest
    Gids = {g1}
    BranchIds = {b1, b2}
    Handlers = {h1, h2}
    Ops = {"start", "add_branch", "submit"}
    BranchParallelism = 2
    Discipline = "started"
    Faults = {}
    ConfirmCap = 0
INVARIANTS
    AddedBranchesKept
