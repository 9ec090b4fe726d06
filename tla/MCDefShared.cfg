SPECIFICATION Spec
CONSTANTS
    Generators = {g1, g2, g3}
    Pids = {p1, p2}
    Inputs <- MCInputs
    None = None
SYMMETRY Symmetry
INVARIANTS
    NmReadsOwnObjects
PROPERTIES
    SuccessCleansUp
