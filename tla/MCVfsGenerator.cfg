CONSTANTS
  Names <- Spellings
  Fold <- Lowered
  Order <- ByteOrder
  Dots <- DotEntries
  InitialCapacity = 1
  Pending = Pending
  Failed = Failed
  Arguments <- Words
  Generic <- Slashes
  PathOrder <- Ranks
  MaxArgs = 6
  MaxDepth = 2
  MaxNodes = 3
SPECIFICATION GeneratorSpec
INVARIANTS MemorySafe WellFormed OutputIsComplete
PROPERTY Selects
