------------------------ MODULE ToolchainRegistration ------------------------
(***************************************************************************)
(* From the toolchain.exec and toolchain.target tags of every module to    *)
(* the toolchain targets of @llvm_toolchains: the module extension gathers *)
(* the tags, and the two declare_toolchains macros, stage 0 and bootstrap, *)
(* declare one package of targets, whose names must be distinct.           *)
(***************************************************************************)
EXTENDS Naturals, Sequences, SequencesExt

CONSTANTS
  Platforms,          \* (os, arch) pairs the tags can spell
  SupportedExecs,     \* SUPPORTED_EXECS, SUPPORTED_TARGETS: sequences
  SupportedTargets,
  WindowsPlatforms,   \* the pairs whose os is windows
  MaxModules,         \* modules that use the extension
  MaxTags             \* tags of each kind in one module

Abis == {"unconstrained", "gnu", "gnullvm", "msvc"}
MingwCompatible == {"unconstrained", "gnu", "gnullvm"}
BootstrapStages == {"stage1", "stage2", "stage3"}
Stages == {"stage0"} \cup BootstrapStages

VARIABLES
  modules,    \* mctx.modules: the tags of each
  pc,
  next,       \* the module or the exec platform of the loop's next turn
  execs,
  targets,
  declared    \* the targets of the package, by name

vars == <<modules, pc, next, execs, targets, declared>>

Init ==
  /\ modules \in BoundedSeq([exec : BoundedSeq(Platforms, MaxTags),
                             target : BoundedSeq(Platforms, MaxTags)], MaxModules)
  /\ pc = "gather" /\ next = 1
  /\ execs = <<>> /\ targets = <<>>
  /\ declared = {}

-----------------------------------------------------------------------------

\* _validate_platform_pair on every tag of a module.
Valid(module) ==
  /\ ToSet(module.exec) \subseteq ToSet(SupportedExecs)
  /\ ToSet(module.target) \subseteq ToSet(SupportedTargets)

GatherModule ==
  /\ pc = "gather" /\ next <= Len(modules)
  /\ Valid(modules[next])
  /\ execs' = execs \o modules[next].exec
  /\ targets' = targets \o modules[next].target
  /\ next' = next + 1
  /\ UNCHANGED <<modules, pc, declared>>

RefuseModule ==
  /\ pc = "gather" /\ next <= Len(modules)
  /\ ~Valid(modules[next])
  /\ pc' = "refused"
  /\ UNCHANGED <<modules, next, execs, targets, declared>>

OrDefault(list, default) == IF list = <<>> THEN default ELSE list

WriteRepository ==
  /\ pc = "gather" /\ next > Len(modules)
  /\ execs' = OrDefault(execs, SupportedExecs)
  /\ targets' = OrDefault(targets, SupportedTargets)
  /\ pc' = "stage0" /\ next' = 1
  /\ UNCHANGED <<modules, declared>>

-----------------------------------------------------------------------------

\* Mutant: a Windows toolchain without the MinGW setting serves every ABI.
ServedAbisAll(target, msvc) ==
  IF target \in WindowsPlatforms THEN IF msvc THEN {"msvc"} ELSE Abis ELSE Abis

\* The ABIs of the target platform that the target settings let through.
ServedAbis(target, msvc) ==
  IF target \in WindowsPlatforms THEN IF msvc THEN {"msvc"} ELSE MingwCompatible
  ELSE Abis

\* A toolchain target; its name says all the fields but "abis".
Toolchain(stage, exec, target, msvc) ==
  [stage |-> stage, exec |-> exec, target |-> target, msvc |-> msvc,
   abis |-> ServedAbis(target, msvc)]

\* The second toolchain of a Windows target.
MsvcVariants(exec, target) ==
  IF target \in WindowsPlatforms /\ exec \in ToSet(SupportedExecs)
  THEN {FALSE, TRUE} ELSE {FALSE}

\* What the body of a macro's loop declares for one exec platform at one stage,
\* beside one cc_toolchain and its directories.
DeclaredFor(stage, exec) ==
  UNION {{Toolchain(stage, exec, t, msvc) : msvc \in MsvcVariants(exec, t)} :
           t \in ToSet(targets)}

\* The body meets a name the package already has: its exec platform was
\* declared before, or a target is listed twice.
NameTaken(exec) ==
  \/ \E i \in 1..(next - 1) : execs[i] = exec
  \/ ~IsInjective(targets)

DeclareExec(phase, stages) ==
  /\ pc = phase /\ next <= Len(execs)
  /\ ~NameTaken(execs[next])
  /\ declared' = declared \cup UNION {DeclaredFor(s, execs[next]) : s \in stages}
  /\ next' = next + 1
  /\ UNCHANGED <<modules, pc, execs, targets>>

DeclareStage0 == DeclareExec("stage0", {"stage0"})

DeclareBootstrap == DeclareExec("bootstrap", BootstrapStages)

\* Bazel rejects a package that declares a name twice.
DuplicateName ==
  /\ pc \in {"stage0", "bootstrap"} /\ next <= Len(execs)
  /\ NameTaken(execs[next])
  /\ pc' = "broken"
  /\ UNCHANGED <<modules, next, execs, targets, declared>>

StartBootstrap ==
  /\ pc = "stage0" /\ next > Len(execs)
  /\ pc' = "bootstrap" /\ next' = 1
  /\ UNCHANGED <<modules, execs, targets, declared>>

Load ==
  /\ pc = "bootstrap" /\ next > Len(execs)
  /\ pc' = "loaded"
  /\ UNCHANGED <<modules, next, execs, targets, declared>>

Done == pc \in {"refused", "broken", "loaded"} /\ UNCHANGED vars

Next ==
  \/ GatherModule \/ RefuseModule \/ WriteRepository
  \/ DeclareStage0 \/ StartBootstrap \/ DeclareBootstrap \/ DuplicateName \/ Load
  \/ Done

Spec == Init /\ [][Next]_vars

-----------------------------------------------------------------------------
(* Properties.                                                              *)

\* Platforms the tags of all modules name, or all of them when none does.
Requested(kind, supported) ==
  LET named == UNION {ToSet(modules[i][kind]) : i \in DOMAIN modules}
  IN  IF named = {} THEN ToSet(supported) ELSE named

\* The toolchains Bazel may choose for a configuration.
Matching(stage, exec, target, abi) ==
  {t \in declared : t.stage = stage /\ t.exec = exec /\ t.target = target
                    /\ abi \in t.abis}

\* Once the package loads, every requested pair of platforms has exactly one
\* matching toolchain at every stage and for every Windows ABI, so that the
\* order of registration never decides; a pair nobody requested has none.
OneToolchainPerConfiguration ==
  pc = "loaded" =>
    \A stage \in Stages, exec, target \in Platforms, abi \in Abis :
      LET matching == Matching(stage, exec, target, abi)
      IN  IF /\ exec \in Requested("exec", SupportedExecs)
             /\ target \in Requested("target", SupportedTargets)
          THEN \E t \in matching : matching = {t}
          ELSE matching = {}

\* README.md: "This registers the cross-product of the specified exec and
\* target platforms."  As long as no module repeats a tag of its own, the
\* extension's package loads: two modules may name the same platform.
AcceptedTagsLoad ==
  (\A i \in DOMAIN modules : IsInjective(modules[i].exec) /\ IsInjective(modules[i].target))
    => pc # "broken"
=============================================================================
