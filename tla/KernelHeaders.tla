---------------------------- MODULE KernelHeaders ----------------------------
(***************************************************************************)
(* Linux headers, from the tags of every module to the targets a build     *)
(* depends on: the kernel_headers extension reads an index, declares one   *)
(* repository per version and architecture and writes three tables; the    *)
(* @kernel_headers package, loaded later, turns the tables into aliases.   *)
(* A version is a tuple of numbers, a minor version its first two.         *)
(***************************************************************************)
EXTENDS Naturals, Sequences, SequencesExt

CONSTANTS
  Contents,          \* contents of index files: sets of [version, arch] records
  Malformed,         \* the content of a file that is not JSON
  SupportedArchs,    \* _SUPPORTED_ARCHS
  KernelArch,        \* arch_to_kernel_arch, a function of the target architectures
  Minors,            \* minor versions a tag may name
  KernelVersions,    \* LINUX_KERNEL_VERSIONS: minor versions
  LibcVersion,       \* LIBC_KERNEL_VERSIONS: libc to version
  MaxModules,
  None

VARIABLES
  modules,           \* module_ctx.modules, the root first
  pc,
  next,              \* the module of the loop's next turn
  decoded,           \* decoded_index
  default,           \* DEFAULT_LINUX_KERNEL_VERSION
  todo,              \* keys of the index not yet in the version map
  newest,            \* LINUX_KERNEL_VERSION_MAP
  repositories,      \* the http_archives that are declared
  aliases            \* the targets of the package, by constraint and architecture

tables == <<todo, newest, repositories>>
vars == <<modules, pc, next, decoded, default, tables, aliases>>

Init ==
  /\ modules \in BoundedSeq([root : BOOLEAN, configure : BoundedSeq(Minors, 2),
                             index : BoundedSeq(Contents \cup {Malformed}, 1)], MaxModules)
  /\ \A i \in DOMAIN modules : modules[i].root => i = 1
  /\ pc = "tags" /\ next = 1
  /\ decoded = {} /\ default = None
  /\ todo = {} /\ newest = <<>> /\ repositories = {} /\ aliases = {}

Fail == pc' = "failed" /\ UNCHANGED <<modules, next, decoded, default, tables, aliases>>

-----------------------------------------------------------------------------
(* _kernel_headers_impl                                                     *)

Reading == pc = "tags" /\ next <= Len(modules)

\* A dependency configures a default, or the root does so twice.
RefuseConfigure ==
  /\ Reading /\ modules[next].configure # <<>>
  /\ ~modules[next].root \/ Len(modules[next].configure) > 1
  /\ Fail

ReadModule ==
  /\ Reading
  /\ \/ modules[next].configure = <<>> /\ UNCHANGED default
     \/ /\ modules[next].root /\ Len(modules[next].configure) = 1
        /\ default' = modules[next].configure[1]
  /\ decoded' = IF modules[next].index = <<>> THEN decoded ELSE Last(modules[next].index)
  /\ next' = next + 1
  /\ UNCHANGED <<modules, pc, tables, aliases>>

VersionsOf(index) == {e.version : e \in index}
MinorOf(version) == SubSeq(version, 1, 2)

\* None.keys() or None.items() after a file that is not JSON.
NoIndex == pc = "tags" /\ next > Len(modules) /\ decoded = Malformed /\ Fail

StartMap ==
  /\ pc = "tags" /\ next > Len(modules) /\ decoded # Malformed
  /\ todo' = VersionsOf(decoded)
  /\ pc' = "map"
  /\ UNCHANGED <<modules, next, decoded, default, newest, repositories, aliases>>

\* Mutant: versions are compared as text, so that 6.1.9 comes after 6.1.10.
NewerAsText(v, w) ==
  LET Text(n) == IF n < 10 THEN 10 * n ELSE n
  IN  Text(v[3]) > Text(w[3])

\* _version_key(v) > _version_key(w), for versions of one minor version.
Newer(v, w) == v[3] > w[3]

\* One turn of _linux_kernel_version_map; the index lists its keys in any order.
MapVersion ==
  /\ pc = "map"
  /\ \E version \in todo :
       LET minor == MinorOf(version) IN
       /\ todo' = todo \ {version}
       /\ newest' = IF minor \in DOMAIN newest /\ ~Newer(version, newest[minor]) THEN newest
                    ELSE [m \in DOMAIN newest \cup {minor} |->
                            IF m = minor THEN version ELSE newest[m]]
  /\ UNCHANGED <<modules, pc, next, decoded, default, repositories, aliases>>

DefaultKnown == default = None \/ default \in DOMAIN newest

UnknownDefault == pc = "map" /\ todo = {} /\ ~DefaultKnown /\ Fail

\* Entries the rest of the toolchain can use: LINUX_KERNEL_ARCHS_BY_VERSION, and
\* the repositories.
Usable == {e \in decoded : e.arch \in SupportedArchs}

DeclareRepositories ==
  /\ pc = "map" /\ todo = {} /\ DefaultKnown
  /\ repositories' = Usable
  /\ pc' = "package"
  /\ UNCHANGED <<modules, next, decoded, default, todo, newest, aliases>>

-----------------------------------------------------------------------------
(* declare_kernel_headers_repository_target, when the package is loaded     *)

Archs == DOMAIN KernelArch

\* _kernel_headers_available
Available(arch, version) == [version |-> version, arch |-> KernelArch[arch]] \in Usable

\* The branches for one minor version: the newest release, where it is available.
BranchesOf(kind, minor) ==
  {[kind |-> kind, constraint |-> minor, arch |-> a, version |-> newest[minor]] :
     a \in {b \in Archs : Available(b, newest[minor])}}

\* The branches for an unconstrained target that no default was given for.
LibcBranches ==
  UNION {{[kind |-> "libc", constraint |-> libc, arch |-> a, version |-> LibcVersion[libc]] :
            a \in {b \in Archs : Available(b, LibcVersion[libc])}} : libc \in DOMAIN LibcVersion}

Fallback == IF default = None THEN LibcBranches ELSE BranchesOf("default", default)

\* fail() in _linux_kernel_headers_version: a constraint value the index lacks.
Unmapped == KernelVersions \ DOMAIN newest

MissingEntry == pc = "package" /\ Unmapped # {} /\ Fail

\* A select without a branch is an error.
Branchless == {} \in {Fallback} \cup {BranchesOf("kernel", minor) : minor \in KernelVersions}

EmptySelect == pc = "package" /\ Unmapped = {} /\ Branchless /\ Fail

LoadPackage ==
  /\ pc = "package" /\ Unmapped = {} /\ ~Branchless
  /\ aliases' = Fallback \cup UNION {BranchesOf("kernel", minor) : minor \in KernelVersions}
  /\ pc' = "loaded"
  /\ UNCHANGED <<modules, next, decoded, default, tables>>

Next ==
  \/ RefuseConfigure \/ ReadModule \/ NoIndex \/ StartMap \/ MapVersion \/ UnknownDefault
  \/ DeclareRepositories \/ MissingEntry \/ EmptySelect \/ LoadPackage

-----------------------------------------------------------------------------
(* Properties.                                                              *)

Indexes == {i \in DOMAIN modules : modules[i].index # <<>>}
LastIndexed == CHOOSE i \in Indexes : \A j \in Indexes : j <= i

\* In a package that loads, every branch leads to a repository that exists, for
\* the architecture it serves, in the index of the last module that has one; a
\* minor version is its newest release there, whatever the order of the index;
\* and only the root's default stands in for a missing constraint.
HeadersResolve ==
  pc = "loaded" =>
    /\ \A b \in aliases :
         /\ [version |-> b.version, arch |-> KernelArch[b.arch]] \in repositories
         /\ repositories \subseteq Last(modules[LastIndexed].index)
         /\ b.kind \in {"kernel", "default"} =>
              /\ MinorOf(b.version) = b.constraint
              /\ \A v \in VersionsOf(decoded) :
                   MinorOf(v) = b.constraint => v[3] <= b.version[3]
         /\ b.kind = "default" =>
              \E i \in DOMAIN modules :
                modules[i].root /\ modules[i].configure = <<b.constraint>>
    /\ \A minor \in KernelVersions :
         \E b \in aliases : b.kind = "kernel" /\ b.constraint = minor
=============================================================================
