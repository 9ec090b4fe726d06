CONSTANTS
  Platforms <- AllPlatforms
  SupportedExecs <- Execs
  SupportedTargets <- Targets
  WindowsPlatforms <- OnWindows
  MaxModules = 2
  MaxTags = 2
SPECIFICATION Spec
INVARIANT AcceptedTagsLoad
