\* "asan" stands for asan and msan, "ubsan" for the ten sanitizers every
\* transition resets, "profile" for fuzzer and profile.
CONSTANTS
  Platforms <- MCPlatforms
  Execs <- MCExecs
  Sanitizers = {"asan", "ubsan", "profile"}
  Inheritable = {"asan"}
  Retained = {"profile"}
  MaxFlags = 2
  None = None

SPECIFICATION Spec
INVARIANTS
  NoCycle
  StageProduction
  ProfileMatchesCpu
  ToolsAreClean
  RuntimesAreClean
CHECK_DEADLOCK FALSE
