CONSTANTS
  Objects = {a, b, c}
  Symbols <- Names
  Order <- ByteOrder
  Libraries <- MCLibraries
SPECIFICATION Spec
SYMMETRY Members
INVARIANTS StampMeansValid VerdictIsExact
