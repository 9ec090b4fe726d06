\* "asan" stands for asan and msan, "ubsan" for the ten sanitizers every
\* transition resets, "profile" for fuzzer and profile.
CONSTANTS
  Platforms <- MCPlatforms
  Execs <- MCExecs
  Sanitizers = {"asan", "ubsan", "profile"}
  Inheritable = {"asan"}
  Retained = {"profile"}
  MaxFlags = 0
  None = None

SPECIFICATION Spec
INVARIANT InstrumentedAsRequested
CHECK_DEADLOCK FALSE
