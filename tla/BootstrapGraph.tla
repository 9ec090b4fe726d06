--------------------------- MODULE BootstrapGraph ---------------------------
(***************************************************************************)
(* The configured-target graph of the LLVM bootstrap.  Which compiler      *)
(* builds a target is not written anywhere: it follows from the settings   *)
(* that the transitions of toolchain/bootstrap and toolchain/runtimes      *)
(* leave behind them, across the exec transition, on the way from the      *)
(* requested target to each dependency.  A wrong reset shows up as a       *)
(* dependency cycle, as a stage built by the wrong compiler, or as an      *)
(* instrumented object inside a shipped compiler.                          *)
(*                                                                         *)
(* A target is a rule in a configuration.  Bazel (external) evaluates the  *)
(* requested target depth first: "stack" is the path of targets under      *)
(* evaluation, "made" maps every finished target to what was produced.     *)
(***************************************************************************)
EXTENDS Integers, Sequences, FiniteSets

CONSTANTS
  Platforms,     \* platforms a program may be built for: [os, cpu] records
  Execs,         \* the platforms that run compilers
  Sanitizers,    \* the flags of config/defs.bzl, "profile" among them
  Inheritable,   \* the ones libc++ inherits (asan, msan)
  Retained,      \* the ones _reset_sanitizers does not reset (fuzzer, profile)
  MaxFlags,      \* bound on the flags set on the command line
  None           \* the compiler of things no compiler built

\* Release builds register a Linux executor for each CPU with a profile.
ProfileCpus == {"aarch64", "x86_64"}
Executor(cpu) == [os |-> "linux", cpu |-> cpu]

ASSUME GraphAssumption ==
  /\ Execs \subseteq Platforms
  /\ \A cpu \in ProfileCpus : Executor(cpu) \in Execs
  /\ \A p \in Platforms : DOMAIN p = {"os", "cpu"}
  /\ "profile" \in Sanitizers
  /\ Inheritable \subseteq Sanitizers \ {"profile"}
  /\ Retained \subseteq Sanitizers
  /\ MaxFlags \in Nat
  /\ None \notin Nat

VARIABLES
  host,    \* the execution platform of ordinary actions
  stack,   \* targets under evaluation, the requested one first
  made,    \* finished targets and what they produced
  failed   \* whether analysis stopped at an unmatched select()

vars == <<host, stack, made, failed>>

-----------------------------------------------------------------------------
(* Configurations.  Bootstrap stages are numbered as in bootstrap_stages.bzl:
   0 prebuilt seed, 1 from source, 2 instrumented, 3 profile applied.        *)

RuntimeStages == {"stage0", "stage1", "stage1_hosted", "complete"}

Settings == {"target", "host"} \X Sanitizers

Config == [stage: 0..3, runtime: RuntimeStages, platform: Platforms,
           exec: BOOLEAN, fdo: BOOLEAN, flags: SUBSET Settings]

\* <sanitizer>_enabled: the host settings count in exec configurations, the
\* target settings everywhere else.
Selected(c) ==
  {s \in Sanitizers : <<IF c.exec THEN "host" ELSE "target", s>> \in c.flags}

\* Mutant: runtime_stage loses scope = "universal".
ExecConfigResetsRuntime(c, on) ==
  [stage |-> c.stage, runtime |-> "complete", platform |-> on, exec |-> TRUE,
   fdo |-> c.fdo, flags |-> c.flags]

\* cfg = "exec": the Starlark settings above are universal and survive it.
ExecConfig(c, on) ==
  [stage |-> c.stage, runtime |-> c.runtime, platform |-> on, exec |-> TRUE,
   fdo |-> c.fdo, flags |-> c.flags]

\* Mutant: every runtime inherits what libc++ inherits.
RuntimeConfigInherits(c, runtime, inherited) ==
  [stage |-> c.stage, runtime |-> runtime, platform |-> c.platform,
   exec |-> c.exec, fdo |-> c.fdo,
   flags |-> {f \in c.flags : f[2] \in Inheritable}]

\* configure_builder_for_runtimes.
RuntimeConfig(c, runtime, inherited) ==
  [stage |-> c.stage, runtime |-> runtime, platform |-> c.platform,
   exec |-> c.exec, fdo |-> c.fdo,
   flags |-> {f \in c.flags : f[2] \in inherited}]

\* The transition of cc_stage0_object: crt objects.
StartObjectConfig(c) ==
  [stage |-> c.stage, runtime |-> "stage0", platform |-> c.platform,
   exec |-> c.exec, fdo |-> c.fdo, flags |-> {}]

\* _reset_sanitizers, which builds the internal symbolizer.
UnsanitizedConfig(c) ==
  [stage |-> c.stage, runtime |-> "complete", platform |-> c.platform,
   exec |-> c.exec, fdo |-> c.fdo,
   flags |-> {f \in c.flags : f[2] \in Retained}]

\* The attributes of the k-th stage's bootstrap_binary targets: in a tool map,
\* or in the package toolchain/bootstrap/stage<k>.
Attributes(rule, k, p) ==
  [fdo_profile |-> k = 3 /\ (rule = "package" => p.os # "msvc"),
   fdo_instrumented |-> k = 2,
   source_backed |-> k = 3 /\ rule = "package"]

\* Mutant: only source_backed and fdo_profile select the Stage 1 compiler.
BootstrapConfigSeedsStage2(c, a) ==
  [stage |-> IF a.source_backed \/ a.fdo_profile THEN 1 ELSE 0,
   runtime |-> "complete", platform |-> c.platform, exec |-> c.exec,
   fdo |-> a.fdo_profile,
   flags |-> IF a.fdo_instrumented THEN {<<"host", "profile">>} ELSE {}]

\* Mutant: disable_sanitizers is not called.
BootstrapConfigKeepsFlags(c, a) ==
  [stage |-> IF a.source_backed \/ a.fdo_profile \/ a.fdo_instrumented
             THEN 1 ELSE 0,
   runtime |-> "complete", platform |-> c.platform, exec |-> c.exec,
   fdo |-> a.fdo_profile,
   flags |-> c.flags \cup IF a.fdo_instrumented THEN {<<"host", "profile">>} ELSE {}]

\* _bootstrap_transition_impl.
BootstrapConfig(c, a) ==
  [stage |-> IF a.source_backed \/ a.fdo_profile \/ a.fdo_instrumented
             THEN 1 ELSE 0,
   runtime |-> "complete", platform |-> c.platform, exec |-> c.exec,
   fdo |-> a.fdo_profile,
   flags |-> IF a.fdo_instrumented THEN {<<"host", "profile">>} ELSE {}]

\* Mutant: workloads keep the stage of the merge.
GenerationConfigKeepsStage(c, p) ==
  [stage |-> c.stage, runtime |-> "complete", platform |-> p, exec |-> c.exec,
   fdo |-> FALSE, flags |-> {}]

\* _profile_generation_transition_impl.
GenerationConfig(c, p) ==
  [stage |-> 2, runtime |-> "complete", platform |-> p, exec |-> c.exec,
   fdo |-> FALSE, flags |-> {}]

\* _profile_merge_transition_impl.
MergeConfig(c) ==
  [stage |-> 1, runtime |-> c.runtime, platform |-> c.platform,
   exec |-> c.exec, fdo |-> FALSE, flags |-> c.flags]

-----------------------------------------------------------------------------
(* Targets and their dependencies.                                          *)

Rules == {"program", "llvm", "internal", "tool", "helper", "package",
          "toolchain", "start_object", "runtime", "cxx_static", "cxx_shared",
          "profile_runtime", "sanitizer_runtime", "symbolizer", "workload", "profdata"}

Target == [rule: Rules, k: 0..3, cfg: Config, on: Execs]

\* A target whose actions run on the platform on.
Tgt(rule, c, on) == [rule |-> rule, k |-> 0, cfg |-> c, on |-> on]
Boot(rule, k, c, on) == [rule |-> rule, k |-> k, cfg |-> c, on |-> on]

\* The cc_toolchain a C++ target resolves: same configuration, same executor.
ToolchainOf(n) == Tgt("toolchain", n.cfg, n.on)

\* The alias llvm_fdo_profdata, in the configuration of its consumer.
Profdata(c) == Tgt("profdata", MergeConfig(c), host)

\* Linux and macOS select the complete tool map in the configuration of the
\* toolchain; every other branch is an alias resolved after the exec transition.
CompleteTools(n) ==
  \/ n.cfg.runtime = "complete"
  \/ ExecConfig(n.cfg, n.on).runtime = "complete"

\* The tools of the selected tool map that are built from source.
ToolMap(n) ==
  LET e == ExecConfig(n.cfg, n.on)
      hosted == RuntimeConfig(e, "stage1_hosted", {})
      direct == Tgt("internal", hosted, host)
      prebuilt == n.cfg.stage = 0
      windows == n.cfg.platform.os \in {"mingw", "msvc"}
  IN  (IF prebuilt THEN {} ELSE {Boot("tool", n.cfg.stage, e, host)})
      \cup (IF CompleteTools(n) /\ ~prebuilt
            THEN {Boot("helper", n.cfg.stage, e, host)} ELSE {})
      \cup (IF CompleteTools(n) /\ (prebuilt \/ windows) THEN {direct} ELSE {})

\* What a link needs from source.  Only the runtimes of runtime stage 0 are
\* compiled without any: they are what the later stages link.  MSVC has one libc++,
\* which is static and inherits nothing (libcxx.static.stage0_non_asan).
RuntimesOf(n) ==
  LET c == n.cfg
      rt(rule, runtime, inherited) ==
        {Tgt(rule, RuntimeConfig(c, runtime, inherited), host)}
      start == IF c.platform.os = "linux"
               THEN {Tgt("start_object", StartObjectConfig(c), host)} ELSE {}
      profile == IF "profile" \in Selected(c)
                 THEN rt("profile_runtime", "stage0", {}) ELSE {}
      sanitizers == IF Selected(c) \ {"profile"} # {}
                    THEN rt("sanitizer_runtime", "stage0", {}) ELSE {}
      gnu == IF c.runtime = "complete" /\ c.platform.os \in {"linux", "mingw"}
             THEN rt("cxx_static", "stage0", Inheritable)
                  \cup rt("cxx_shared", "stage1", Inheritable)
                  \cup rt("runtime", "stage1", {})
             ELSE {}
      msvc == IF c.runtime = "complete" /\ c.platform.os = "msvc"
              THEN rt("cxx_static", "stage0", {}) ELSE {}
  IN  IF c.runtime = "stage0" THEN {}
      ELSE rt("runtime", "stage0", {}) \cup start \cup profile \cup sanitizers
           \cup gnu \cup msvc

ToolchainDeps(n) ==
  ToolMap(n) \cup RuntimesOf(n) \cup (IF n.cfg.fdo THEN {Profdata(n.cfg)} ELSE {})

\* What a bootstrap_binary copies, and the label of its profile.
BootDeps(n) ==
  LET a == Attributes(n.rule, n.k, n.cfg.platform)
      b == BootstrapConfig(n.cfg, a)
      actual == IF n.rule = "helper"
                THEN Tgt("internal", RuntimeConfig(b, "stage1_hosted", {}), host)
                ELSE Tgt("llvm", b, host)
  IN  {actual} \cup (IF a.fdo_profile THEN {Profdata(n.cfg)} ELSE {})

Deps(n) ==
  CASE n.rule = "toolchain" -> ToolchainDeps(n)
    [] n.rule \in {"tool", "helper", "package"} -> BootDeps(n)
    [] n.rule = "sanitizer_runtime" ->
         {ToolchainOf(n)} \cup
         (IF n.cfg.platform.os = "linux"
          THEN {Tgt("symbolizer", UnsanitizedConfig(n.cfg), host)} ELSE {})
    [] n.rule = "profdata" ->
         {ToolchainOf(n)} \cup
         {Tgt("workload", GenerationConfig(n.cfg, p),
              Executor(n.cfg.platform.cpu)) : p \in Platforms}
    [] OTHER -> {ToolchainOf(n)}

-----------------------------------------------------------------------------
(* What a target produces.                                                  *)

\* An artifact says the generation of the compiler that compiled it (by), whether
\* it is instrumented or sanitized, its CPU, and which compilers wrote the profile
\* applied to it, and on which CPU they ran (trained).
\* This one is the downloaded Stage 0 compiler for an execution platform.
Seed(on) == [by |-> None, instrumented |-> FALSE, sanitized |-> FALSE,
             cpu |-> on.cpu, trained |-> {}]

\* The generation of a compiler binary, told from how it was made.
Generation(a) ==
  CASE a.by = None -> 0
    [] a.by = 0 /\ ~a.instrumented -> 1
    [] a.by = 1 /\ a.instrumented -> 2
    [] a.by = 1 /\ ~a.instrumented -> 3
    [] OTHER -> 4

\* The compiler of a toolchain: downloaded, or its tool map's.
Compiler(n) ==
  IF n.cfg.stage = 0 THEN Seed(n.on)
  ELSE made[Boot("tool", n.cfg.stage, ExecConfig(n.cfg, n.on), host)]

\* A compilation: the toolchain's compiler, flags and profile.
Compiled(n) ==
  [by |-> Generation(made[ToolchainOf(n)]),
   instrumented |-> "profile" \in Selected(n.cfg),
   sanitized |-> Selected(n.cfg) \ {"profile"} # {},
   cpu |-> n.cfg.platform.cpu,
   trained |-> IF n.cfg.fdo THEN made[Profdata(n.cfg)].trained ELSE {}]

\* A training workload keeps the profile written by the compiler that ran.
Trained(n) ==
  LET a == made[ToolchainOf(n)]
  IN  [Compiled(n) EXCEPT !.trained = IF a.instrumented
                                      THEN {<<Generation(a), n.on.cpu>>} ELSE {}]

\* llvm-profdata merge.
Merged(n) ==
  [Compiled(n) EXCEPT !.trained =
     UNION {made[w].trained : w \in {d \in Deps(n) : d.rule = "workload"}}]

\* A bootstrap_binary is a copy of, or a link to, its actual binary.
Copied(n) == made[CHOOSE d \in Deps(n) : d.rule \in {"llvm", "internal"}]

Produce(n) ==
  CASE n.rule = "toolchain" -> Compiler(n)
    [] n.rule \in {"tool", "helper", "package"} -> Copied(n)
    [] n.rule = "workload" -> Trained(n)
    [] n.rule = "profdata" -> Merged(n)
    [] OTHER -> Compiled(n)

-----------------------------------------------------------------------------
(* Evaluation.                                                              *)

\* bazel build of a program, or of a package of bootstrap binaries, with any
\* bootstrap stage and sanitizer settings on the command line.
Requests ==
  {Tgt("program", c, host) : c \in {c \in Config :
      c.runtime = "complete" /\ ~c.exec /\ ~c.fdo /\ Cardinality(c.flags) <= MaxFlags}}
  \cup
  {Boot("package", k, c, host) : k \in 1..3, c \in {c \in Config :
      c.runtime = "complete" /\ c.stage = 0 /\ ~c.exec /\ ~c.fdo
      /\ Cardinality(c.flags) <= MaxFlags}}

Init ==
  /\ host \in Execs
  /\ \E n \in Requests : stack = <<n>>
  /\ made = <<>>
  /\ failed = FALSE

Top == stack[Len(stack)]
Missing == Deps(Top) \ DOMAIN made

Unmatched(n) == n.rule = "profdata" /\ n.cfg.platform.cpu \notin ProfileCpus

\* A dependency that was not evaluated yet is evaluated first.
Descend ==
  /\ stack # <<>>
  /\ ~Unmatched(Top)
  /\ Missing # {}
  /\ stack' = Append(stack, CHOOSE d \in Missing : TRUE)
  /\ UNCHANGED <<host, made, failed>>

\* Every dependency is there: run the target's actions.
Finish ==
  /\ stack # <<>>
  /\ ~Unmatched(Top)
  /\ Missing = {}
  /\ made' = [n \in DOMAIN made \cup {Top} |->
                IF n \in DOMAIN made THEN made[n] ELSE Produce(Top)]
  /\ stack' = SubSeq(stack, 1, Len(stack) - 1)
  /\ UNCHANGED <<host, failed>>

\* A select() without a matching branch stops the analysis.
Fail ==
  /\ stack # <<>>
  /\ Unmatched(Top)
  /\ failed' = TRUE
  /\ stack' = <<>>
  /\ UNCHANGED <<host, made>>

Next == Descend \/ Finish \/ Fail

Spec == Init /\ [][Next]_vars

-----------------------------------------------------------------------------
(* Properties.                                                              *)

\* No target depends on itself, through any chain of transitions: the runtimes
\* of a toolchain, its helper tools and the compilers of earlier stages never
\* need the toolchain they are made for.
NoCycle == \A i, j \in DOMAIN stack : stack[i] = stack[j] => i = j

\* The table of toolchain/bootstrap/README.md: a toolchain of stage k compiles
\* with a compiler of generation k, so Stage 1 is built by the seed and Stages
\* 2 and 3 by Stage 1, for every target and whatever the command line says.
StageProduction ==
  \A n \in DOMAIN made :
    n.rule = "toolchain" => Generation(made[n]) = n.cfg.stage

\* The profile applied to a Stage 3 compiler was written only by instrumented
\* Stage 2 compilers that ran on the CPU the compiler is built for.
ProfileMatchesCpu ==
  \A n \in DOMAIN made :
    n.rule = "toolchain" /\ n.cfg.stage = 3
      => made[n].trained = {<<2, made[n].cpu>>}

\* No sanitizer reaches a compiler or a helper tool, and no instrumentation
\* reaches one outside Stage 2, whatever host_* settings the user has set.
ToolsAreClean ==
  \A n \in DOMAIN made :
    n.rule \in {"tool", "helper", "package", "internal"} =>
      /\ ~made[n].sanitized
      /\ made[n].instrumented => n.k = 2

\* Start files, builtins, sanitizer runtimes and their symbolizer are linked
\* into every program and are never sanitized or instrumented themselves.
RuntimesAreClean ==
  \A n \in DOMAIN made :
    n.rule \in {"start_object", "runtime", "profile_runtime",
                "sanitizer_runtime", "symbolizer"} =>
      ~made[n].sanitized /\ ~made[n].instrumented

\* What bootstrap_binary.bzl says of fdo_instrumented: "If set, build the
\* actual binary with FDO instrumentation."
InstrumentedAsRequested ==
  \A n \in DOMAIN made :
    n.rule \in {"tool", "package"} /\ n.k = 2 => made[n].instrumented
=============================================================================
