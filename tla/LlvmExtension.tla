---------------------------- MODULE LlvmExtension ----------------------------
(***************************************************************************)
(* Two module extensions, one after the other: llvm chooses the version    *)
(* (@llvm_version) and the sources (@llvm-project) of LLVM from the tags   *)
(* of its modules; llvm_toolchain_minimal loads that version and chooses   *)
(* the index and in it the prebuilt compiler that builds those sources.    *)
(* llvm.configure only adds to a set of backends and is left out.          *)
(***************************************************************************)
EXTENDS Naturals, Sequences, SequencesExt

CONSTANTS
  Versions,          \* LLVM versions, those tags name and those indexed
  InvalidVersions,   \* those without a numeric major version
  IndexFiles,        \* labels of indexes of prebuilt releases, DefaultIndex among them
  DefaultIndex,      \* DEFAULT_LLVM_TOOLCHAIN_MINIMAL_INDEX_FILE
  MaxModules,
  None

VARIABLES
  modules,           \* mctx.modules of llvm: the root, if it uses it, is first
  pc,
  next,              \* the module of the loop's next turn
  selected,          \* module_selected_version
  llvmVersion,       \* LLVM_VERSION of @llvm_version
  sources,           \* @llvm-project
  users,             \* module_ctx.modules of llvm_toolchain_minimal
  indexFile,
  dependencyIndex,
  seed,              \* the version of the prebuilt compiler
  warned             \* that it is not LLVM_VERSION

minimal == <<users, indexFile, dependencyIndex, seed, warned>>
vars == <<modules, pc, next, selected, llvmVersion, sources, minimal>>

Overrides == {"path", "git", "archive"}   \* from_path, from_git, from_archive

RootFirst(list) == \A i \in DOMAIN list : list[i].root => i = 1

Init ==
  /\ modules \in BoundedSeq([root : BOOLEAN, version : BoundedSeq(Versions, 2),
                             overrides : BoundedSeq(Overrides, 2)], MaxModules)
  /\ RootFirst(modules)
  /\ pc = "version" /\ next = 1
  /\ selected = None /\ llvmVersion = None /\ sources = None
  /\ users = <<>> /\ indexFile = DefaultIndex /\ dependencyIndex = None
  /\ seed = None /\ warned = FALSE

Fail == pc' = "failed" /\ UNCHANGED <<modules, next, selected, llvmVersion, sources, minimal>>

-----------------------------------------------------------------------------
(* _get_llvm_version                                                        *)

ReadingVersions == pc = "version" /\ next <= Len(modules)

TwoVersions == ReadingVersions /\ Len(modules[next].version) > 1 /\ Fail

\* The root's version is returned at once; the other tags are not even counted.
RootVersion ==
  /\ ReadingVersions /\ modules[next].root /\ Len(modules[next].version) = 1
  /\ llvmVersion' = modules[next].version[1]
  /\ pc' = "sources" /\ next' = 1
  /\ UNCHANGED <<modules, selected, sources, minimal>>

ReadVersion ==
  /\ ReadingVersions
  /\ \/ modules[next].version = <<>> /\ UNCHANGED selected
     \/ /\ ~modules[next].root /\ Len(modules[next].version) = 1
        /\ selected' = modules[next].version[1]
  /\ next' = next + 1
  /\ UNCHANGED <<modules, pc, llvmVersion, sources, minimal>>

SelectVersion ==
  /\ pc = "version" /\ next > Len(modules)
  /\ selected # None
  /\ llvmVersion' = selected
  /\ pc' = "sources" /\ next' = 1
  /\ UNCHANGED <<modules, selected, sources, minimal>>

MissingVersion == pc = "version" /\ next > Len(modules) /\ selected = None /\ Fail

\* llvm_versions.json is read whether or not it will be needed.
BadVersionIndex == pc = "sources" /\ next = 1 /\ sources = None /\ Fail

-----------------------------------------------------------------------------
(* _create_llvm_project_repository                                          *)

ReadingOverrides == pc = "sources" /\ next <= Len(modules)

SecondOverride ==
  /\ ReadingOverrides
  /\ Len(modules[next].overrides) + (IF sources = None THEN 0 ELSE 1) > 1
  /\ Fail

ReadOverride ==
  /\ ReadingOverrides
  /\ Len(modules[next].overrides) + (IF sources = None THEN 0 ELSE 1) <= 1
  /\ sources' = IF modules[next].overrides = <<>> THEN sources
                ELSE [kind |-> modules[next].overrides[1], version |-> None]
  /\ next' = next + 1
  /\ UNCHANGED <<modules, pc, selected, llvmVersion, minimal>>

\* The modules that use llvm_toolchain_minimal, which is evaluated next.
LoadMinimal ==
  /\ users' \in BoundedSeq([root : BOOLEAN, index : BoundedSeq(IndexFiles, 2)], MaxModules)
  /\ RootFirst(users')
  /\ pc' = "index" /\ next' = 1
  /\ UNCHANGED <<modules, selected, llvmVersion, indexFile, dependencyIndex, seed, warned>>

KeepOverride ==
  /\ pc = "sources" /\ next > Len(modules) /\ sources # None
  /\ LoadMinimal
  /\ UNCHANGED sources

\* _source_archive_for_version with a good entry in llvm_versions.json.
IndexedSources ==
  /\ pc = "sources" /\ next > Len(modules) /\ sources = None
  /\ llvmVersion \notin InvalidVersions
  /\ sources' = [kind |-> "index", version |-> llvmVersion]
  /\ LoadMinimal

\* An invalid version, or a missing or malformed entry.
NoIndexedSources == pc = "sources" /\ next > Len(modules) /\ sources = None /\ Fail

-----------------------------------------------------------------------------
(* _get_index                                                               *)

ReadingIndexes == pc = "index" /\ next <= Len(users)

TwoIndexes == ReadingIndexes /\ Len(users[next].index) > 1 /\ Fail

\* Mutant: the loop goes on after the root's index.
RootIndexContinues ==
  /\ ReadingIndexes /\ users[next].root /\ Len(users[next].index) = 1
  /\ indexFile' = users[next].index[1]
  /\ next' = next + 1
  /\ UNCHANGED <<modules, pc, selected, llvmVersion, sources, users, dependencyIndex,
                 seed, warned>>

\* The tags of the dependencies, which come after the root, are not read: if the
\* root names the default index, no dependency's replaces it after the loop.
RootIndex ==
  /\ ReadingIndexes /\ users[next].root /\ Len(users[next].index) = 1
  /\ indexFile' = users[next].index[1]
  /\ pc' = "release"
  /\ UNCHANGED <<modules, next, selected, llvmVersion, sources, users, dependencyIndex,
                 seed, warned>>

ReadIndexTag ==
  /\ ReadingIndexes
  /\ \/ users[next].index = <<>> /\ UNCHANGED dependencyIndex
     \/ /\ ~users[next].root /\ Len(users[next].index) = 1
        /\ dependencyIndex' = users[next].index[1]
  /\ next' = next + 1
  /\ UNCHANGED <<modules, pc, selected, llvmVersion, sources, users, indexFile, seed, warned>>

LastIndex ==
  /\ pc = "index" /\ next > Len(users)
  /\ pc' = "release"
  /\ UNCHANGED <<modules, next, selected, llvmVersion, sources, minimal>>

\* The file that is read after the loop, which asks whether the label is the
\* default one, not whether the root named one.
ChosenIndex ==
  IF dependencyIndex # None /\ indexFile = DefaultIndex THEN dependencyIndex ELSE indexFile

-----------------------------------------------------------------------------
(* _release_key and _release_repo_specs, for every content of the index     *)

\* The version whose release is used; None when there is none.
SeedVersion(latest, default) == IF llvmVersion \in latest THEN llvmVersion ELSE default

ChooseSeed ==
  /\ pc = "release"
  /\ \E latest \in SUBSET Versions, default \in Versions \cup {None} :
       /\ SeedVersion(latest, default) \in latest
       /\ seed' = SeedVersion(latest, default)
       /\ warned' = (llvmVersion \notin latest)
  /\ indexFile' = ChosenIndex
  /\ pc' = "done"
  /\ UNCHANGED <<modules, next, selected, llvmVersion, sources, users, dependencyIndex>>

\* No release and no default, a default without a release, an index that cannot
\* be read, a release without an archive for one of the platforms.
NoSeed == pc = "release" /\ Fail

Next ==
  \/ TwoVersions \/ RootVersion \/ ReadVersion \/ SelectVersion \/ MissingVersion
  \/ BadVersionIndex \/ SecondOverride \/ ReadOverride \/ KeepOverride \/ IndexedSources \/ NoIndexedSources
  \/ TwoIndexes \/ RootIndex \/ ReadIndexTag \/ LastIndex \/ ChooseSeed \/ NoSeed

-----------------------------------------------------------------------------
(* Properties.                                                              *)

\* The tag that counts among one-element lists: the root's, else the last one.
Deciding(list, Tag(_), default) ==
  LET tagged == {i \in DOMAIN list : Tag(list[i]) # <<>>}
      roots == {i \in tagged : list[i].root}
      Highest(set) == CHOOSE i \in set : \A j \in set : j <= i
  IN  IF roots # {} THEN Tag(list[Highest(roots)])[1]
      ELSE IF tagged # {} THEN Tag(list[Highest(tagged)])[1] ELSE default

\* What the root says is what counts, for the version as for the index of
\* prebuilt releases, also when it names the default index that dependencies may
\* replace, and no tag of a dependency can break it: not even one that is
\* malformed.  Without the root's word the last dependency's counts.
RootDecides ==
  /\ llvmVersion # None =>
       llvmVersion = Deciding(modules, LAMBDA m : m.version, None)
  /\ pc = "done" => indexFile = Deciding(users, LAMBDA u : u.index, DefaultIndex)
  /\ pc = "failed" /\ llvmVersion = None =>
       \A i \in DOMAIN modules : modules[i].root => Len(modules[i].version) # 1

\* The sources are of the version everybody is told, unless exactly one module of
\* the build overrides them, whose override they are; and the prebuilt compiler
\* is of that version unless a warning said otherwise.  (Which version overridden
\* sources have is not known to the extensions, nor to this model.)
SeedMatchesSources ==
  pc = "done" =>
    /\ \/ /\ sources = [kind |-> "index", version |-> llvmVersion]
          /\ \A i \in DOMAIN modules : modules[i].overrides = <<>>
       \/ \E i \in DOMAIN modules :
            /\ modules[i].overrides = <<sources.kind>>
            /\ \A j \in DOMAIN modules \ {i} : modules[j].overrides = <<>>
    /\ warned <=> seed # llvmVersion
=============================================================================
