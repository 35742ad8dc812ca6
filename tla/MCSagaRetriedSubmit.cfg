\* A client that waits for each answer submits again after a timeout.
SPECIFICATION Spec
CONSTANTS
    NoTxn = NoTxn
    NoRequest = NoRequest
    Gids = {g1}
    BranchIds = {b1}
    Handlers = {h1, h2}
    Ops = {"start", "add_branch", "submit"}
    BranchParallelism = 2
    Discipline = "serial"
    Faults = {"drop"}
    ConfirmCap = 2
INVARIANTS
    ConfirmedOnce
