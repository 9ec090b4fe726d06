SPECIFICATION Spec
CONSTANTS
    Generators = {g1}
    Pids = {p1}
    Inputs <- MCInputs
    None = None
INVARIANTS
    ExportsExact
PROPERTIES
    GeneratorsEnd
