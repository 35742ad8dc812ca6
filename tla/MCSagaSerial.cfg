\* Clients that wait for each answer, all operations in any order, crashes, a
\* transaction of up to two branches started again at will.
SPECIFICATION Spec
CONSTANTS
    NoTxn = NoTxn
    NoRequest = NoRequest
    Gids = {g1}
    BranchIds = {b1, b2}
    Handlers = {h1, h2}
    Ops = {"start", "add_branch", "branch_succeed", "branch_fail", "submit", "abort"}
    BranchParallelism = 2
    Discipline = "serial"
    Faults = {"crash"}
    ConfirmCap = 2
SYMMETRY Symmetry
INVARIANTS
    ConfirmedOnce
PROPERTIES
    ImplementsContract
