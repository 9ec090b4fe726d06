CONSTANTS
  Platforms <- AllPlatforms
  SupportedExecs <- Execs
  SupportedTargets <- Targets
  WindowsPlatforms <- OnWindows
  MaxTags = 2
  Frameworks <- AllFrameworks
  DefaultFrameworks <- Defaults
  HeaderOwners <- AllFrameworks
  Versions <- LlvmVersions
  InvalidVersions <- NotNumeric
  IndexFiles <- Indexes
  DefaultIndex <- Bundled
  Contents <- IndexContents
  Malformed = Malformed
  SupportedArchs <- Archs
  KernelArch <- ArchNames
  Minors <- Defaultable
  KernelVersions <- Constrainable
  LibcVersion <- LibcVersions
  Required <- Always
  Optional <- Sometimes
  MaxDirectories = 4
  MaxModules = 2
  None = None
SPECIFICATION Spec
INVARIANT AllLibsAsTagged
