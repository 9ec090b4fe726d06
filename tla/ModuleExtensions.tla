-------------------------- MODULE ModuleExtensions --------------------------
(***************************************************************************)
(* The module extensions that read tags of every module of a build, and    *)
(* the repository rule behind llvm.from_path and llvm.from_git, one per    *)
(* behaviour: Bazel evaluates each on its own, with the modules that use   *)
(* it, so that the tags, the program counter and the loop variable they    *)
(* have in common are one variable each and the others rest.               *)
(***************************************************************************)
EXTENDS Naturals, Sequences, FiniteSets

CONSTANTS
  Platforms, SupportedExecs, SupportedTargets, WindowsPlatforms, MaxTags,
  Frameworks, DefaultFrameworks, HeaderOwners,
  Versions, InvalidVersions, IndexFiles, DefaultIndex,
  Contents, Malformed, SupportedArchs, KernelArch, Minors, KernelVersions, LibcVersion,
  Required, Optional, MaxDirectories,
  MaxModules, None

ASSUME ExtensionsAssumption ==
  /\ SupportedExecs \in Seq(Platforms) /\ SupportedExecs # <<>>
  /\ SupportedTargets \in Seq(Platforms) /\ SupportedTargets # <<>>
  /\ WindowsPlatforms \subseteq Platforms
  /\ DefaultFrameworks \subseteq Frameworks /\ DefaultFrameworks # {}
  /\ HeaderOwners \subseteq Frameworks
  /\ InvalidVersions \subseteq Versions /\ DefaultIndex \in IndexFiles
  /\ MaxModules \in Nat /\ MaxTags \in Nat
  /\ MaxDirectories \in Nat \ {0}

\* Starlark's None is no version, label, or struct.
ASSUME NoneAssumption ==
  /\ None \notin Versions /\ None \notin IndexFiles /\ None \notin Minors
  /\ None # [kind |-> "host"]
  /\ \A kind \in {"path", "git", "archive"} : None # [kind |-> kind, version |-> None]
  /\ \A i \in 1..MaxModules : None # [kind |-> "archive", module |-> i]

\* An indexed version has three parts, which _version_key reads with int().
ASSUME VersionsAssumption ==
  \A index \in Contents : \A e \in index : e.version \in Nat \X Nat \X Nat

\* Source trees have finitely many files, none of which is a directory.
ASSUME ProjectAssumption ==
  /\ Required \cup Optional \subseteq Seq(STRING) \ {<<>>}
  /\ IsFiniteSet(Required \cup Optional)
  /\ \A f \in Required \cup Optional : \A n \in 1..(Len(f) - 1) :
       SubSeq(f, 1, n) \notin Required \cup Optional

VARIABLES
  extension,   \* the extension or repository that is evaluated
  modules, pc, next,
  execs, targets, declared,
  mac, forceHost, envAllLibs, envFrameworks, rootSource, dependencySource, sdkSource,
  frameworks, allLibs, repository,
  selected, llvmVersion, sources, users, indexFile, dependencyIndex, seed, warned,
  decoded, default, todo, newest, repositories, aliases,
  mode, files, fs, stack, turn

shared == <<modules, pc, next>>
registration == <<execs, targets, declared>>
sdk == <<mac, forceHost, envAllLibs, envFrameworks, rootSource, dependencySource,
         sdkSource, frameworks, allLibs, repository>>
compiler == <<selected, llvmVersion, sources, users, indexFile, dependencyIndex, seed, warned>>
headers == <<decoded, default, todo, newest, repositories, aliases>>
project == <<mode, files, fs, stack, turn>>
vars == <<extension, shared, registration, sdk, compiler, headers, project>>

Toolchain == INSTANCE ToolchainRegistration
Osx == INSTANCE OsxExtension WITH NoSource <- None
Llvm == INSTANCE LlvmExtension
Kernel == INSTANCE KernelHeaders
Project == INSTANCE LlvmProjectRepository

NoRegistration == execs = <<>> /\ targets = <<>> /\ declared = {}

NoSdk ==
  /\ mac = FALSE /\ forceHost = FALSE /\ envAllLibs = FALSE /\ envFrameworks = {}
  /\ rootSource = None /\ dependencySource = None /\ sdkSource = None
  /\ frameworks = {} /\ allLibs = FALSE /\ repository = {}

NoCompiler ==
  /\ selected = None /\ llvmVersion = None /\ sources = None /\ users = <<>>
  /\ indexFile = DefaultIndex /\ dependencyIndex = None /\ seed = None /\ warned = FALSE

NoHeaders ==
  /\ decoded = {} /\ default = None /\ todo = {} /\ newest = <<>>
  /\ repositories = {} /\ aliases = {}

NoProject == mode = "git" /\ files = {} /\ fs = <<>> /\ stack = <<>> /\ turn = 0

NoExtension == modules = <<>> /\ next = 1

Init ==
  \/ extension = "toolchain" /\ Toolchain!Init /\ NoSdk /\ NoCompiler /\ NoHeaders /\ NoProject
  \/ extension = "osx" /\ Osx!Init /\ NoRegistration /\ NoCompiler /\ NoHeaders /\ NoProject
  \/ extension = "llvm" /\ Llvm!Init /\ NoRegistration /\ NoSdk /\ NoHeaders /\ NoProject
  \/ extension = "kernel_headers" /\ Kernel!Init /\ NoRegistration /\ NoSdk /\ NoCompiler /\ NoProject
  \/ /\ extension = "llvm-project" /\ Project!Init
     /\ NoExtension /\ NoRegistration /\ NoSdk /\ NoCompiler /\ NoHeaders

ToolchainStep ==
  /\ extension = "toolchain" /\ Toolchain!Next
  /\ UNCHANGED <<extension, sdk, compiler, headers, project>>

OsxStep ==
  /\ extension = "osx" /\ Osx!Next
  /\ UNCHANGED <<extension, registration, compiler, headers, project>>

LlvmStep ==
  /\ extension = "llvm" /\ Llvm!Next
  /\ UNCHANGED <<extension, registration, sdk, headers, project>>

KernelStep ==
  /\ extension = "kernel_headers" /\ Kernel!Next
  /\ UNCHANGED <<extension, registration, sdk, compiler, project>>

ProjectStep ==
  /\ extension = "llvm-project" /\ Project!Next
  /\ UNCHANGED <<extension, modules, next, registration, sdk, compiler, headers>>

Ended == pc \in {"failed", "refused", "broken", "loaded", "done"}

Done == Ended /\ UNCHANGED vars

Next == ToolchainStep \/ OsxStep \/ LlvmStep \/ KernelStep \/ ProjectStep \/ Done

Spec == Init /\ [][Next]_vars

-----------------------------------------------------------------------------
(* Properties.                                                              *)

\* Every requested configuration has exactly one toolchain of the package that
\* the toolchain extension writes.
OneToolchainPerConfiguration ==
  extension = "toolchain" => Toolchain!OneToolchainPerConfiguration

\* The osx extension uses an SDK that somebody entitled to it asked for.
SourceJustified == extension = "osx" => Osx!SourceJustified

\* A module's experimental_include_all_sdk_libs tag has the effect its
\* documentation promises.
AllLibsAsTagged == extension = "osx" => Osx!AllLibsAsTagged

\* The root's tags decide on the version of LLVM and on the prebuilt index, and
\* the prebuilt compiler, the advertised version and the sources agree, or a
\* warning or the build's one override says why not.
VersionsAsDecided == extension = "llvm" => Llvm!RootDecides /\ Llvm!SeedMatchesSources

\* Every branch of the kernel headers package leads to an existing repository
\* with the newest indexed release.
HeadersResolve == extension = "kernel_headers" => Kernel!HeadersResolve

\* llvm_project_from_path does not change the checkout it exposes by links.
CheckoutUntouched == extension = "llvm-project" => Project!CheckoutUntouched

\* @llvm-project shows the overlay over the sources.
MergedView == extension = "llvm-project" => Project!MergedView
=============================================================================
