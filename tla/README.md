# TLA+ models of hermetic-llvm

hermetic-llvm is a Bazel module that provides an LLVM C/C++ toolchain without
using anything of the host. This directory models the parts of it that have
control of their own, checks them with TLC on small instances and proves the
central results with TLAPS. `PROJECT.json` lists components, runs, mutants,
hazards, findings, theorems and, for every definition, the lines it models.

## 1. The system

| Component | State it keeps | Operations | Modelled by |
|---|---|---|---|
| link wrapper (`tools/internal/link_wrapper.c`) | one child process, linked file, dSYM, interface library | link, dsymutil, strip, nm, ifs/readtapi or copy | `LinkWrapper`; on Windows `RedirectedRun` |
| def file generator (`tools/def_file_generator`) | object list, three string sets, a response file in a shared directory, the .def file | read parameter files, expand arguments, run llvm-nm, filter symbols, write | `DefFileGenerator`, `SortedStringSet`, `ParameterFile`; on Windows `RedirectedRun` |
| static library validator (`tools/internal`) | symbol list, duplicate block, stamp | run llvm-nm, sort, scan, run llvm-cxxfilt | `StaticLibraryValidator`; on Windows `RedirectedRun` |
| case-insensitive VFS generator (`tools/case_insensitive_vfs`) | entry array, stack of directories, text buffer, output file | collect a directory, render recursively, write | `PreferredEntries` (implements `EntrySelection`), `CaseInsensitiveVfs`, `JsonString` |
| module map generator (`tools/internal/module_map_generator.c`) | line buffer, output | read a line, stat the header, write a submodule | `ModuleMapGenerator` |
| header parser (`tools/internal/header_parser.c`) | the output Bazel expects | touch it, become or start clang++ | `HeaderParser` |
| bootstrap stages, runtime stages, sanitizer settings (`toolchain/bootstrap`, `toolchain/runtimes`, `config`) | the configuration of every target | transitions, tool maps, FDO profiles | `BootstrapGraph` |
| toolchain registration (`extensions/toolchain.bzl`, both `declare_toolchains`) | lists of platforms, the generated package | gather tags, declare targets | `ToolchainRegistration` |
| osx extension (`extensions/osx.bzl`) | SDK source, frameworks, flags | choose the SDK, derive includes and excludes | `OsxExtension` |
| llvm extension, prebuilt index (`extensions/llvm.bzl`, `extensions/llvm_toolchain_minimal.bzl`) | selected version, sources, index, seed compiler | fold over the tags, then over those of the second extension | `LlvmExtension` |
| kernel headers (`kernel/extension`) | indexes, repositories, tables of the package | gather tags, newest release of a minor version, selects | `KernelHeaders` |
| source repositories (`private/llvm_project_*.bzl`) | the file system below the repository and the checkout | clone, merge the overlay, generate files | `LlvmProjectRepository` (checkouts and clones) |
| libc and GCC extensions, features and arguments, platforms, runtimes, scripts | see `PROJECT.json` | | not modelled, with the reason there |

How they interact. Module extensions run first and produce repositories:
`toolchain` the package of toolchain targets, `osx` the macOS SDK, `llvm` the
sources (made by a repository rule from an archive, a clone or a local checkout)
and `@llvm_version`, which `llvm_toolchain_minimal` loads to choose the prebuilt
compiler that builds them, `kernel_headers` the Linux headers and the package of
selects that is loaded with them. Bazel then analyses a build: every target is analysed in a
configuration, transitions change it on the way to the dependencies, and the
toolchain a target is compiled with is found by its configuration. The C tools
run inside build actions: the link wrapper in place of clang++, the def file
generator before linking a DLL, the validator after archiving, the VFS
generator over a Windows SDK, the module map generator and the header parser in
actions that never produce code. They share nothing with each other except files
and, for two def file generators on a machine without a sandbox, a directory.

What is hard here:

* *processes*: a wrapper and its child run concurrently; waits are interrupted,
  children are killed with their output half written, process ids are reused;
* *partial failure*: each of up to four programs, and every read, write and
  close, may fail after earlier steps left files behind;
* *in-place algorithms*: arrays that are compacted, shifted or bisected while
  they are walked over, text that is decoded into the buffer it is read from;
* *borrowed state*: on Windows a tool redirects its own streams for a child, and
  a repository made of links leads into a checkout that belongs to the user;
* *configuration*: nothing in the source says which compiler builds which
  compiler; it follows from settings left behind by transitions many steps away;
* *tags of many modules*: an extension sees the tags of modules that were
  written without knowledge of each other.

The hazards are listed at their lines in `PROJECT.json`.

## 2. Modules

Every component is one module: `VARIABLES`, `Init`, one action per step of the
code, `Next`, `Spec`, then the properties. Definitions called "Mutant" are
plausible bugs; for every property there is one that TLC must find violating it
when it stands in for the definition it mutates.

* **LinkWrapper**. `pc` is the wrapper's position, `child` the forked process.
  `Wrapper` steps and `Child` steps interleave. A file's content is reduced to
  what its consumers tell apart (absent, partial, with debug information,
  stripped, copy, stub, and left over from a copy that failed and could not be
  removed). An environment is a record of the variables that are
  set, of the facts about the library, and of an inherited `SIG_IGN` for SIGCHLD.
* **SortedStringSet**. The loops of `string_set_insert`, `string_set_contains`
  and `remove_imported_symbols`, one iteration per step, over arrays indexed
  from 0 as in C. Strings are ranks in strcmp's order.
* **DefFileGenerator**. Any number of generators, each a sequential process; the
  string sets are plain sets, which `SortedStringSet` justifies. Symbols are
  names with the form the filters look at. Kills are actions.
* **StaticLibraryValidator**. The tool and its child; a library is a function
  from members and symbols to linkages, llvm-nm's lines are derived from it. The
  letter of a symbol depends on the object format: only ELF marks weak
  definitions (`W`, `V`), and unique symbols, ifuncs and weak references have
  lower-case letters, which `should_keep_type` drops by `isupper` before it looks
  at the letter. `Exclusive` is what the code thereby takes for a definition. Two
  strong ifuncs of one name, which a linker refuses, are therefore accepted, and
  on COFF link-once definitions in two members are reported; both are listed as a
  hazard without a property, since no document says what the tool promises.
* **CaseFolding** holds what the two VFS modules share: spellings, their fold,
  which of several spellings is preferred, which sets are ambiguous.
  **EntrySelection** is the abstract specification of
  `ci_collect_preferred_entries`: one answer, independent of readdir's order.
  **PreferredEntries** is the code: growing array, sort, validation, in-place
  collapse, ownership of the strings; `Selects` says it implements
  `EntrySelection` under the mapping `Result`. **CaseInsensitiveVfs** uses the
  abstract result and models the recursion with an explicit stack, the separator
  logic, the command line and the output file. Directories are chosen when they
  are read, so all trees within the bounds occur. **VfsGenerator** puts both
  levels into one specification: a behaviour is one call or the whole program.
* **BootstrapGraph**. A target is a rule with a configuration; `Deps` computes
  its dependencies through the transitions. Bazel is external: it evaluates the
  requested target depth first (`stack`, `made`), and `Produce` says what comes
  out, in particular by which generation of compiler and with which profile.
* **ToolchainRegistration**. The tags of all modules, the two lists, then the
  two macros declaring targets; a name declared twice breaks the package
  (external: Bazel).
* **OsxExtension**. The two loops over the modules and the final derivation; the
  root, if it uses the extension, is the first module, as Bazel guarantees.
* **LlvmExtension**. Two extensions in a row: the loop that finds the version
  (and leaves at the root's tag), the loop that finds the override of the
  sources, then, with the version loaded, the loop that finds the index and the
  choice of the release in it, for every content of the index. A tag may name
  the default index, as the repository's own does: after the loop the default
  label means "no tag of the root", so a root that names it keeps it only because
  the loop ended there. Which version overridden sources have is not known to the
  extensions; the property says only whose override is used.
* **KernelHeaders**. Tags, index, newest release of every minor version, then
  the package: every branch of its selects is followed to a repository.
* **LlvmProjectRepository**. `fs` maps every path that exists to a directory, a
  file or a link; Bazel's operations (external) follow links above the last
  name and replace the last one. One step per directory of the overlay walk,
  per materialised level and per generated file. The sources are any set of files.
* **ModuleExtensions** composes the extensions that read tags and the repository
  rule: Bazel evaluates each on its own, so a behaviour is that of one of them,
  and the tags, the program counter and the loop variable are shared variables.
* **ParameterFile**, **ModuleMapGenerator**, **JsonString**: text, character by
  character, because the properties are about the conversions: line buffers that
  grow, shell words decoded in place, a size computed in one loop and used by
  another. Characters are one per class that the code tells apart.
* **HeaderParser**: both systems; clang++ is external.
* **RedirectedRun**: how three of the programs start others on Windows, step by
  step over the standard streams, with every call failing.
* **SmallTools** composes these five, one program per behaviour, like `ModuleExtensions` does.

## 3. Runs

| Run | What it covers | Properties |
|---|---|---|
| `link_wrapper` | every environment with at most one required variable missing, exit codes 1 and 255, signals 9 and 11 | `SuccessIsComplete`, `NoOrphan`, `FirstFailureReported`, `NoHalfCopy`, `DebugInfoNeverLost`, `Terminates` |
| `string_set` | five strings, capacity 2: up to three probes, two growths | `StrictlySorted`, `InBounds`, `ContainsIsMembership`, `InsertAdds`, `RemoveIsDifference`, `CallsReturn` |
| `def_exports` | one generator, command lines of up to three arguments in every order, both ABIs | `ExportsExact`, `GeneratorsEnd` |
| `def_shared` | three generators, two process ids, one directory, kills (symmetry over both) | `NmReadsOwnObjects`, `SuccessCleansUp` |
| `static_library_validator` | three members; one symbol in all linkages beside strong and weak definitions of another; ELF, Mach-O, COFF; failing tools (symmetry over the members) | `StampMeansValid`, `VerdictIsExact` |
| `vfs_generator` | one call: every directory over three spellings of one name and two of another, every readdir order, capacity 1; the program: six words of command line, three entries in two levels | `MemorySafe`, `Selects`, `WellFormed`, `OutputIsComplete` |
| `small_tools` | every argument of up to four characters and every file of up to five as a parameter file; header lists of up to six characters; strings of up to four bytes; every failure of a redirection | `ParametersExact`, `LineIsOneWord`, `LinesInBounds`, `JsonExact`, `StatusIsTruthful`, `StreamsComeBack`, `ToolsEnd` |
| `bootstrap_graph` | four execution platforms, five targets, all stages, two settings on the command line | `NoCycle`, `StageProduction`, `ProfileMatchesCpu`, `ToolsAreClean`, `RuntimesAreClean` |
| `module_extensions` | two modules with all tags for each extension; every environment and host; every content of an LLVM index; four indexes of kernel headers; sources with every subset of six files and overlays with every subset of seven, from a checkout, a clone and a clone with a prefix | `OneToolchainPerConfiguration`, `SourceJustified`, `VersionsAsDecided`, `HeadersResolve`, `CheckoutUntouched`, `MergedView` |

Why the bounds are enough. The wrapper's environment space is complete except
for two missing variables, and the first missing one ends it. Five strings reach
every position of a bisection with an odd and an even interval. Three clashing
members give groups of one, two and three, before or after another symbol's. Three generators and two ids give a
reused id while another generator is alive. A run of three spellings shows a
collapse that selects the first, a middle or the last entry; two runs show
that one does not disturb the next. Two modules are the least that
can disagree, the tags of an index name the default one and another, and the extensions' loops carry nothing but the accumulators
from one module to the next. The kernel indexes have a release that is newer as
numbers and older as text, one that serves some architectures, one that serves
none and a missing minor version. Buffers start at two characters and double, so
lines of up to five cross two growths; every character class follows every
other inside, before and after each kind of quotes. The overlays have nested
directories, a directory and a file that the sources have or lack, and the limit
of the walk (a million in the code) is met and exceeded. In the graph, one sanitizer stands for each class
the transitions treat alike, which the configuration file explains.

Deadlock is checked except in `bootstrap_graph`, whose evaluation ends when the
stack is empty; the other modules end in a stuttering `Done` step.

### Violations

* `bootstrap_instrumented` (`InstrumentedAsRequested`): a Stage 2 package
  requested directly is not instrumented, because the transition sets
  `host_profile`, which counts only in exec configurations.
* `toolchain_duplicates` (`AcceptedTagsLoad`): two modules that each ask for the
  same platform, which the extension accepts, make the generated package
  declare a name twice.

* `osx_all_libs` (`AllLibsAsTagged`): the tag `experimental_include_all_sdk_libs`
  has no effect, because `ReadEnvironment` overwrites what `ReadTags` gathered, as
  line 113 of `osx.bzl` does.

`CheckoutUntouched` and `MergedView` hold for checkouts whose overlay has the
directories `llvm` and `bolt` and no `utils` (`Conforming`), which the rules take
for granted: without `bolt`, for instance, `bolt` is a link and
`bolt/targets.bzl` would be written into the checkout. For clones, `MergedView`
holds if the overlay does not contain its own path (`Apart`).

`StreamsComeBack` admits two exceptions of the code: restoring a stream may itself
fail (`stuck`), which only the link wrapper reports, and the validator returns with
its streams redirected when an argument is not UTF-8, and ends right after.

## 4. Fairness

Safety needs none, and only the modules with a liveness property state any.
`LinkWrapper`: weak fairness of the wrapper and of its child. The wrapper is
never blocked except in waitpid; that the programs it runs end is an assumption
about them, named in the property. `WaitInterrupted` may happen any number of
times and is never required: it changes no state, so it cannot keep the child
from ending or the wrapper from reaping it. `SortedStringSet`: a loop that was entered keeps iterating.
`DefFileGenerator`: a generator that was started keeps running; being killed is
not required to happen. `SmallTools`: a program that can go on does, and the
programs it starts end; failures of reads, writes and allocations are never
required.

## 5. Proofs

All constants are arbitrary within the named assumptions of the modules.

* **LinkWrapperProofs**: type correctness and every safety property of the run. The inductive
  invariant `IInv` adds to them that a child exists exactly while the wrapper
  waits and that a child which exited with 0 has completed its output
  (`ChildInv`), what has been completed before each control point (`OrderInv`),
  that a versioned library is half written only inside the copy, and left over
  only by a wrapper that reported a failure, because the result of `remove` is
  ignored (`CopyInv`), and that all programs before the last one succeeded (`RanInv`). Without
  `OrderInv`, `SuccessIsComplete` is not inductive: a state about to copy the
  library with a missing dSYM would end in success.
* **SortedStringSetProofs**: type correctness and every safety and action
  property of the run, for
  every set of strings, initial capacity and sequence of calls. `IInv` has one
  loop invariant per loop; two lemmas say what shifting one slot up
  (`OpenSlotCorrect`) and one down (`RemoveEntryCorrect`) do to the contents and
  the order.
* **BootstrapGraphProofs**: every property of the run, for every set of
  platforms, executors and sanitizers, and for every command line within
  `MaxFlags`. `NoCycle`: `Rank` maps a target to a number, by compiler generation
  first and runtime stage second; `DepsBelow` shows that every dependency has a
  smaller rank, and `Descending`, the inductive invariant, that ranks go down
  along the stack. The proof relies on the stage's profile being merged by
  Stage 1 without a profile (`Merge`). The other four follow from `Production`:
  every finished target was produced as its configuration says, from
  dependencies that were finished before it. It has to speak of
  all finished targets, since what a target is made of lies several transitions
  below it; `Stripped` says which settings cannot be left in such a
  configuration.
* **DefFileGeneratorProofs**: `NmReadsOwnObjects` and `SuccessCleansUp` for any
  number of generators that share a directory, from `Responses`: no two live
  generators have one process id, and between writing and deleting it the
  response file named after the id of a live generator holds that generator's
  objects. Nothing can be said of files of dead ones, which is the case the
  invariant must leave open. `ExportsExact` from `Exporting`: at each point of
  the loops the three string sets hold what the inputs read so far define.
* **StaticLibraryValidatorProofs**: `StampMeansValid` and `VerdictIsExact` for
  every library and format. `KeptLinkages` says which linkages pass
  `should_keep_type`. `IInv` says that the scan stands at the start of a group
  (`Boundary`), that the sorted lines enumerate the definitions (`Enumerates`)
  and that the block lists the groups of two or more before it and nothing else
  (`Lists`); a verdict is exact because the last boundary is the end.
* **VfsGeneratorProofs**: `MemorySafe`, `WellFormed`, `OutputIsComplete` and the
  refinement `Selects`, for every set of names, every idempotent fold, every tree
  and every order of readdir. `CallInv` has one part per phase. While collapsing,
  the array is the preferred entries of the runs already read, a gap, and the runs
  that are not, and a string was freed exactly if its name is in neither
  (`CollapseInv`): the gap is why the in-place write is harmless. `Run` says where a run of equal folds ends in a sorted array,
  `SelectedIsPreferred` that the entry selected is the one preferred entry of its
  run, which needs that validation found no ambiguity (`ValidateInv`). For the
  refinement, every step but the returns leaves `Result` at `Pending`; a return of
  TRUE is a `Select`, since a strictly sorted array is a bijection.
  For the overlay, `TextInv` says for every call of `render_directory` on the stack
  what the text may end with and how many brackets are open (`InRoot`,
  `BetweenRoots`); `WellFormed` follows since each statement writes a token that
  may come next. `OutputInv` counts: every file is listed as often as its root
  was passed, and once more if a call on the stack has passed its entry (`Due`,
  `Passed`). The paths on the stack extend each other (`Nested`) and every
  directory that was read was reached from a root (`TreeInv`), so an entry is
  passed by one call only.
* **ModuleExtensionsProofs**: `SourceJustified`, `OneToolchainPerConfiguration`,
  `HeadersResolve`, `VersionsAsDecided` and `CheckoutUntouched`, for any number of
  modules and tags and every source tree.
  Each extension has a loop invariant that relates its accumulators to the
  modules already read: the sources seen and who may name them (`OsxInv`), the
  platforms and the targets declared for them (`ToolchainInv`), the last index read, the
  root's default and the newest release so far (`KernelInv`), the last tag that
  decides on the version and the index and the one module that overrides the
  sources (`LlvmInv`). That a root's default index stands needs the root to be the
  first module: no dependency was read before it. The checkout stays
  as it was found (`SameCheckout`) because links are only in the repository and
  none stands where the overlay has a directory (`LinksBeside`): a path to be
  written then resolves, link by link, to a place in the repository, unless the
  directory that is to be materialized is itself a link (`NoLink`), which is why
  the order of the steps matters.
* **SmallToolsProofs**: every invariant of the run, for texts of any length and
  any initial capacity above one. `ParametersInv` and
  `ModuleMapInv` keep room for the terminator and the decoder's writing position
  behind its reading position; a buffer that is not allocated means that nothing was
  read, so the first character of the file is what `Crash` stands at. `MapInv`: the
  map declares the lines before the one that is read. `RunInv` says, for each
  of the two orders of restoring and waiting, which duplicates are open while the
  streams are redirected; a success is then possible only with all of them back.
  `LineIsOneWord` compares the decoder with a grammar and `JsonExact` the writer
  with a parser. `WordInv`: the values of the line are the output followed by the
  values of the rest (`Remaining`), which has one equation for each case of the
  decoder (`Unfolds`); in a trimmed line a blank outside quotes is always followed by
  another word. `ParametersExact` relates the decoder to Bazel's quoting.
  `ArgumentsInv`: in the file written for a list of arguments, of which the line of
  the k-th begins at `from[k]` (`Listed`), the reader has a beginning of the line of
  the next argument, and a line that ended stands for that argument or for nothing
  (`Understood`). The text of an argument is walked character by character: `at[k]`
  is where its k-th character is quoted (`Encloses`), and up to there the line
  stands for the characters before it (`Walked`); a newline can only be one of the
  argument's own (`BlankIsOwn`), and a line cut there has an open quote
  (`CutIsNothing`). The lemmas hold for lists of any length; the initial states of
  the module have at most two arguments. `JsonInv`: byte
  k is written from position `at[k]` on, and its size was counted (`Filled`,
  `Sized`); `RoundTrip` reads back from the last byte to the first. Grammar and
  parser are recursive functions; that such a function exists, and what it
  is at each position, is proved from the last position to the first by a minimal
  counterexample (`Least`; `ReadsFrom`, `InsideIs`, `WordsIs`, `Flattens`).

The assumptions on constants say what the code or the format of its data gives:
a fold is idempotent and strcmp tells names apart (`FoldAssumption`), "." and
".." are no names (`EntriesAssumption`), versions in an index are triples
of numbers (`VersionsAssumption`), the default index is a label that a tag may name
(`ExtensionsAssumption`), a source tree has finitely many files and none
is a directory (`ProjectAssumption`), the markers for "nothing" are none of the
values they stand beside (`NoneAssumption`, `GraphAssumption`).

Model-checked only: the liveness properties (outside the prover's reach), and
`MergedView` of `ModuleExtensions`, whose walk through the overlay recurses over a
tree in three modes. They hold on the instances of section 3. `MergedView` is not
true of every tree that the constants admit: an overlay that contains its own
path is changed while a clone copies it (`Apart` excludes it), and a tree could use
the names `.git` and `.tmp_git_root`; a theorem has to exclude these too.

## 6. What the models leave out

Text that no property is about: the columns of llvm-nm's output are records, the
generated messages, indentation and CMake settings are left out. Memory
exhaustion ends every tool at once and is modelled only where something is left
behind. Unchecked I/O errors of the def file generator are recorded in `lost` and
excluded from `ExportsExact`, since nothing in the code reports them; likewise
those of the module map generator. A `dup2` that fails in the validator's child,
where its result is not looked at, is not modelled. llvm-nm's letters other than
those of definitions, references, common, unique and ifunc symbols are not either:
the remaining upper-case ones count like `T`, lower-case ones are dropped.
Two branches of the llvm extension are data: the union of backends of
`llvm.configure` and the tables of patches by major version.
Bare-metal and UEFI targets, variants of libc, and the lists of features are not
part of `BootstrapGraph`. `osx.libraries` only adds patterns.

Not modelled: the glibc, musl and GCC extensions are tables of releases, patches
and version ranges, and their one choice (`gcc.from_path`) is the kind of fold
over tags that `OsxExtension` and `LlvmExtension` model; archives are unpacked by
bsdtar in a straight line and Bazel discards the directory when a step fails;
features, arguments and platforms are declarations evaluated by rules_cc and
Bazel; the C files below `3rd_party` and the runtimes are upstream code; the
scripts run by hand or by CI, one at a time.

## 7. Reproducing

    tlc -workers 2 -config MCLinkWrapper.cfg MCLinkWrapper
    tlapm LinkWrapperProofs.tla

Each run of section 3 is one module and configuration of `PROJECT.json`; the
slowest are `bootstrap_graph` and `small_tools`, under a minute each.

## 8. Plan

Done, in this order: the link wrapper with its proofs; the string sets with
their proofs; the def file generator; the bootstrap graph and its acyclicity;
the VFS generator and its abstract specification; the validator; toolchain
registration; the osx extension; the text handling and the Windows processes of
the tools; the llvm and kernel headers extensions; the repositories made from
checkouts and clones.

Proved since, for every value of the constants: the properties of the graph
besides `NoCycle`, of the def file generator, of the validator, of the extensions
that read tags, the memory safety and refinement of the VFS generator's
directory reader, the form and content of the overlay it writes, the buffers,
streams and formats of the small tools, the arguments that reach the def file
generator, and that a checkout is left alone.

A proof worth adding: `MergedView`, by what the walk has merged before each
directory of its list, for trees without the names above.
