\* All operations, clients without discipline, every fault: two requests at
\* once on one transaction of up to two branches.
SPECIFICATION Spec
CONSTANTS
    NoTxn = NoTxn
    NoRequest = NoRequest
    Gids = {g1}
    BranchIds = {b1, b2}
    Handlers = {h1, h2}
    Ops = {"start", "add_branch", "branch_succeed", "branch_fail", "submit", "abort"}
    BranchParallelism = 1
    Discipline = "any"
    Faults = {"crash", "drop", "storage"}
    ConfirmCap = 0
SYMMETRY Symmetry
INVARIANTS
    TypeOK
    UniqueBranchIds
    StatusHasCause
    DecisionSound
    ParallelismBounded
    SubmitGoesOn
    OneCallPerSubmit
PROPERTIES
    RequestsAdvance
