------------------------ MODULE LlvmProjectRepository ------------------------
(***************************************************************************)
(* The repository rules that make @llvm-project from a local checkout      *)
(* (llvm_project_from_path) and from a clone (llvm_project_from_git): the  *)
(* sources with LLVM's own Bazel overlay merged into them and a few files  *)
(* generated.  A checkout is exposed by symbolic links, and belongs to     *)
(* somebody else.  Paths are sequences of names, a content is the path of  *)
(* the source file it comes from.  Bazel's file operations are external.   *)
(***************************************************************************)
EXTENDS Naturals, Sequences, SequencesExt

CONSTANTS
  Required,           \* the files of every LLVM source tree, by relative path
  Optional,           \* those a tree may have or not, in its overlay too
  MaxDirectories      \* _MAX_OVERLAY_DIRECTORIES

VARIABLES
  mode,    \* "path", "git", or "prefix": git with a strip_prefix
  files,   \* the source tree
  fs,      \* the file system: a node for every path that exists
  pc,
  stack,   \* the directories of the overlay still to be merged
  turn     \* turns of the current loop

vars == <<mode, files, fs, pc, stack, turn>>

Overlay == <<"utils", "bazel", "llvm-project-overlay">>   \* LLVM_PROJECT_OVERLAY
ThirdParty == <<"utils", "bazel", "third_party_build">>
Bazelignore == <<".bazelignore">>
CMakeLists == <<"llvm", "CMakeLists.txt">>
LLVMVersion == <<"cmake", "Modules", "LLVMVersion.cmake">>
Helper == <<"llvm", "include", "InstrumentorRuntimeHelper.h">>

Checkout == <<"checkout">>
Repository == <<"repository">>
GitRoot == IF mode = "prefix" THEN <<"repository", ".tmp_git_root">> ELSE Repository
SourceRoot ==
  CASE mode = "path" -> Checkout
    [] mode = "git" -> Repository
    [] mode = "prefix" -> GitRoot \o <<"prefix">>
OverlayRoot == SourceRoot \o Overlay

-----------------------------------------------------------------------------
(* Bazel's file operations.                                                 *)

Dir == [kind |-> "dir"]
File(content) == [kind |-> "file", content |-> content]
Link(target) == [kind |-> "link", target |-> target]
Generated == <<>>   \* the content of generated files

Ancestors(path) == {SubSeq(path, 1, n) : n \in 1..(Len(path) - 1)}

\* The place of path: a link above it is followed (no link leads to another).
Real(path) ==
  LET links == {a \in Ancestors(path) \cap DOMAIN fs : fs[a].kind = "link"}
  IN  IF links = {} THEN path
      ELSE LET a == CHOOSE a \in links : TRUE
           IN  fs[a].target \o SubSeq(path, Len(a) + 1, Len(path))

\* The place where reading path ends up.
Followed(path) ==
  LET real == Real(path)
  IN  IF real \in DOMAIN fs /\ fs[real].kind = "link" THEN fs[real].target ELSE real

Exists(path) == Followed(path) \in DOMAIN fs
IsDir(path) == Exists(path) /\ fs[Followed(path)].kind = "dir"
Readdir(path) == {x \in DOMAIN fs : Len(x) = Len(path) + 1 /\ IsPrefix(path, x)}

\* nodes in the file system tree, with the directories above them.
With(tree, nodes) ==
  [x \in DOMAIN tree \cup DOMAIN nodes \cup UNION {Ancestors(y) : y \in DOMAIN nodes} |->
     IF x \in DOMAIN nodes THEN nodes[x] ELSE IF x \in DOMAIN tree THEN tree[x] ELSE Dir]

\* tree without the places and what is below them.
Without(tree, places) ==
  [x \in {y \in DOMAIN tree : ~\E p \in places : IsPrefix(p, y)} |-> tree[x]]

\* rctx.file for every path that content is a function of: a link is replaced.
Written(content) ==
  With(fs, [x \in {Real(p) : p \in DOMAIN content} |->
              File(content[CHOOSE p \in DOMAIN content : Real(p) = x])])

\* rctx.file cannot replace a directory, nor create one in the place of a file.
Blocked(path) ==
  \/ Real(path) \in DOMAIN fs /\ fs[Real(path)].kind = "dir"
  \/ \E a \in Ancestors(Real(path)) \cap DOMAIN fs : fs[a].kind = "file"

Planted(root) ==
  With([x \in {Repository} |-> Dir],
       [x \in {root \o f : f \in files} |-> File(SubSeq(x, Len(root) + 1, Len(x)))])

Fail == pc' = "failed" /\ UNCHANGED <<mode, files, fs, stack, turn>>

Goto(label) == pc' = label /\ UNCHANGED <<mode, files, stack, turn>>

-----------------------------------------------------------------------------
Init ==
  /\ mode \in {"path", "git", "prefix"}
  /\ \E some \in SUBSET Optional : files = Required \cup some
  /\ fs = IF mode = "path" THEN Planted(Checkout) ELSE [x \in {Repository} |-> Dir]
  /\ pc = IF mode = "path" THEN "overlay" ELSE "clone"
  /\ stack = << <<>> >> /\ turn = 0

-----------------------------------------------------------------------------
(* llvm_project_from_git, until the overlay is copied                       *)

Clone ==
  /\ pc = "clone"
  /\ fs' = With(Planted(SourceRoot), [x \in {GitRoot \o <<".git">>} |-> Dir])
  /\ Goto("strip")

\* Two references, or git_repo fails.
CloneFails == pc = "clone" /\ Fail

\* The root of the repository gets a link to every entry of the prefix.
StripPrefix ==
  /\ pc = "strip"
  /\ fs' = IF mode = "git" THEN fs
           ELSE With(fs, [x \in {Repository \o <<Last(e)>> : e \in Readdir(SourceRoot)} |->
                            Link(SourceRoot \o <<Last(x)>>)])
  /\ Goto("patch")

\* strip_prefix is not in the clone.
MissingPrefix == pc = "strip" /\ mode = "prefix" /\ Fail

\* Patches change contents, which are not told apart here.
Patch == pc = "patch" /\ UNCHANGED fs /\ Goto("overlay")
PatchFails == pc = "patch" /\ Fail

-----------------------------------------------------------------------------
(* copy_overlay and symlink_source_and_overlay: a directory in every turn   *)

Directory == Last(stack)
OverlayEntries == Readdir(OverlayRoot \o Directory)
OverlayDirs == {Last(e) : e \in {e \in OverlayEntries : fs[e].kind = "dir"}}
OverlayFiles == {Last(e) : e \in OverlayEntries} \ OverlayDirs
SourceEntries == {Last(e) : e \in Readdir(SourceRoot \o Directory)}

In(root, names) == {root \o Directory \o <<n>> : n \in names}

Turn == pc = "overlay" /\ turn < MaxDirectories

\* Mutant: the directories found in this turn replace those still to be merged.
NextTurnForgets ==
  /\ stack' = SetToSeq({Directory \o <<d>> : d \in OverlayDirs})
  /\ turn' = IF stack' = <<>> THEN 0 ELSE turn + 1
  /\ pc' = IF stack' # <<>> THEN "overlay"
           ELSE IF mode = "path" THEN "materialize" ELSE "delete"
  /\ UNCHANGED <<mode, files>>

NextTurn ==
  /\ stack' = Front(stack) \o SetToSeq({Directory \o <<d>> : d \in OverlayDirs})
  /\ turn' = IF stack' = <<>> THEN 0 ELSE turn + 1
  /\ pc' = IF stack' # <<>> THEN "overlay"
           ELSE IF mode = "path" THEN "materialize" ELSE "delete"
  /\ UNCHANGED <<mode, files>>

OverlayMissing == pc = "overlay" /\ ~IsDir(OverlayRoot) /\ Fail

CopyOverlay ==
  /\ Turn /\ mode # "path" /\ IsDir(OverlayRoot)
  /\ \A p \in In(Repository, OverlayFiles) : ~Blocked(p)
  /\ fs' = Written([p \in In(Repository, OverlayFiles) |-> Overlay \o Tail(p)])
  /\ NextTurn

CopyBlocked ==
  /\ Turn /\ mode # "path" /\ IsDir(OverlayRoot)
  /\ \E p \in In(Repository, OverlayFiles) : Blocked(p)
  /\ Fail

\* The entries of the checkout's directory that become links.
LinkedEntries == SourceEntries \ OverlayDirs

Links == In(Repository, OverlayFiles \cup LinkedEntries)

\* A directory of the overlay alone cannot be listed in the checkout, and a link
\* cannot be made where something is.
CannotLink ==
  \/ ~IsDir(SourceRoot \o Directory)
  \/ OverlayFiles \cap LinkedEntries # {}
  \/ \E p \in Links : Real(p) \in DOMAIN fs

SymlinkOverlay ==
  /\ Turn /\ mode = "path" /\ IsDir(OverlayRoot)
  /\ ~CannotLink
  /\ fs' = With(fs,
       [x \in {Real(p) : p \in Links} |->
          Link((IF Last(x) \in OverlayFiles THEN OverlayRoot ELSE SourceRoot)
                 \o Directory \o <<Last(x)>>)])
  /\ NextTurn

SymlinkFails == Turn /\ mode = "path" /\ IsDir(OverlayRoot) /\ CannotLink /\ Fail

TooManyDirectories == pc = "overlay" /\ turn = MaxDirectories /\ Fail

DeleteGit ==
  /\ pc = "delete"
  /\ fs' = Without(fs, {GitRoot \o <<".git">>})
  /\ Goto("expose")

-----------------------------------------------------------------------------
(* _materialize_third_party_build                                           *)

\* Mutant: only the directory that is written to is replaced.
MaterializedLast == <<ThirdParty>>

Materialized == <<SubSeq(ThirdParty, 1, 1), SubSeq(ThirdParty, 1, 2), ThirdParty>>

\* A directory of links stands in for the link to the directory.
Materialize ==
  /\ pc = "materialize" /\ turn < Len(Materialized)
  /\ LET directory == Materialized[turn + 1]
         place == Real(Repository \o directory)
     IN  /\ IsDir(SourceRoot \o directory)
         /\ fs' = With(Without(fs, {place}),
                       [x \in {place \o <<Last(e)>> : e \in Readdir(SourceRoot \o directory)} |->
                          Link(SourceRoot \o directory \o <<Last(x)>>)])
  /\ turn' = turn + 1
  /\ pc' = IF turn' = Len(Materialized) THEN "expose" ELSE pc
  /\ UNCHANGED <<mode, files, stack>>

MaterializeFails ==
  /\ pc = "materialize" /\ turn < Len(Materialized)
  /\ ~IsDir(SourceRoot \o Materialized[turn + 1])
  /\ Fail

-----------------------------------------------------------------------------
(* write_llvm_project_files                                                 *)

Generate(paths) == fs' = Written([p \in {Repository \o q : q \in paths} |-> Generated])

CanGenerate(paths) == \A p \in paths : ~Blocked(Repository \o p)

HasPfm == Exists(Repository \o ThirdParty \o <<"pfm.BUILD">>)

\* _expose_third_party_build_files
Exposed == {Bazelignore, ThirdParty \o <<"BUILD.bazel">>}

ExposeThirdParty ==
  /\ pc = "expose" /\ HasPfm /\ Exists(Repository \o Bazelignore)
  /\ Generate(Exposed)
  /\ Goto("build")

NothingToExpose == pc = "expose" /\ ~HasPfm /\ UNCHANGED fs /\ Goto("build")

NoBazelignore == pc = "expose" /\ HasPfm /\ ~Exists(Repository \o Bazelignore) /\ Fail

\* What the rest of the function writes, in its order.
Outputs(label) ==
  CASE label = "build" -> {<<"BUILD.bazel">>}
    [] label = "vars" -> {<<"vars.bzl">>}
    [] label = "targets" -> {<<"llvm", "targets.bzl">>, <<"bolt", "targets.bzl">>}
    [] label = "helper" -> IF Exists(Repository \o Helper) THEN {<<"llvm", "instrumentor.bzl">>} ELSE {}

Following == [build |-> "vars", vars |-> "targets", targets |-> "helper", helper |-> "done"]

\* _write_llvm_vars reads the version from two files.
CanRead(label) ==
  label = "vars" => Exists(Repository \o CMakeLists) /\ Exists(Repository \o LLVMVersion)

WriteFiles ==
  /\ pc \in DOMAIN Following
  /\ CanRead(pc) /\ CanGenerate(Outputs(pc))
  /\ Generate(Outputs(pc))
  /\ Goto(Following[pc])

WriteFails ==
  /\ pc \in DOMAIN Following
  /\ ~CanRead(pc) \/ ~CanGenerate(Outputs(pc))
  /\ Fail

-----------------------------------------------------------------------------
Next ==
  \/ Clone \/ CloneFails \/ StripPrefix \/ MissingPrefix \/ Patch \/ PatchFails
  \/ OverlayMissing \/ CopyOverlay \/ CopyBlocked \/ SymlinkOverlay \/ SymlinkFails
  \/ TooManyDirectories \/ DeleteGit
  \/ Materialize \/ MaterializeFails
  \/ ExposeThirdParty \/ NothingToExpose \/ NoBazelignore \/ WriteFiles \/ WriteFails

-----------------------------------------------------------------------------
(* Properties.                                                              *)

\* The files of the overlay, by the place they are merged into.
Overlaid == {SubSeq(f, Len(Overlay) + 1, Len(f)) : f \in {f \in files : IsPrefix(Overlay, f)}}

\* What the rules expect of the overlay of a checkout: llvm and bolt, where files
\* are generated, are directories of it, and utils, which is replaced, is not.
Conforming ==
  LET directories == {Head(f) : f \in {f \in Overlaid : Len(f) > 1}}
  IN  {"llvm", "bolt"} \subseteq directories /\ "utils" \notin directories

\* Copying the overlay of a clone does not write to the overlay.
Apart == \A f \in Overlaid : ~IsPrefix(Overlay, f)

\* Making a repository from a local checkout neither writes to the checkout nor
\* deletes from it, whichever step fails, although almost every path of the
\* repository leads there through a link.
CheckoutUntouched ==
  mode = "path" /\ Conforming =>
    LET before == Planted(Checkout)
    IN  \A x \in {x \in DOMAIN before \cup DOMAIN fs : IsPrefix(Checkout, x)} :
          x \in DOMAIN before \cap DOMAIN fs /\ before[x] = fs[x]

\* Every file of the overlay and, where it has none, every file of the sources is
\* found in the finished repository, but for the files that the rules replace.
MergedView ==
  pc = "done" /\ (IF mode = "path" THEN Conforming ELSE Apart) =>
    \A f \in files \cup Overlaid :
      LET origin == IF f \in Overlaid THEN Overlay \o f ELSE f
          place == Followed(Repository \o f)
      IN  /\ place \in DOMAIN fs
          /\ \/ fs[place].content = origin
             \/ fs[place].content = Generated /\ f \in Exposed \cup {<<"BUILD.bazel">>}
=============================================================================
