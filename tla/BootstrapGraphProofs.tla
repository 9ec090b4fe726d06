------------------------ MODULE BootstrapGraphProofs ------------------------
(***************************************************************************)
(* The configured graph of the bootstrap, for every set of platforms,      *)
(* executors and sanitizers.  First, it has no cycle: Rank orders targets  *)
(* by the compiler generation they need (Major), then, inside one          *)
(* generation, by the runtimes their toolchain links (Minor), and every    *)
(* dependency goes down.  Then, what the finished targets are made of:     *)
(* Production says it of each rule, from what it says of the dependencies. *)
(***************************************************************************)
EXTENDS BootstrapGraph, TLAPS

\* A profile is collected by Stage 2 (2), merged (3) and applied (4 and more);
\* Stage 3 is made of all of them.
Major(c) == IF c.stage = 3 THEN 8 ELSE c.stage + (IF c.fdo THEN 4 ELSE 0)

\* Runtime stage 0 links nothing.  A toolchain with an enabled sanitizer is
\* above the complete one without, which builds the symbolizer.
Minor(c) ==
  CASE c.runtime = "stage0" -> 1
    [] c.runtime \in {"stage1", "stage1_hosted"} ->
         IF Selected(c) = {} THEN 3 ELSE 10
    [] OTHER -> IF Selected(c) = {} THEN 6 ELSE 12

\* The rank of a compiler of stage k is just below that of its toolchains.
BootRank(k) == CASE k \in {0, 1} -> 19 [] k = 2 -> 39 [] OTHER -> 159

Rank(n) ==
  CASE n.rule = "toolchain" -> 20 * Major(n.cfg) + Minor(n.cfg)
    [] n.rule \in {"tool", "helper", "package"} -> BootRank(n.k)
    [] n.rule = "profdata" -> 79
    [] n.rule = "sanitizer_runtime" ->
         20 * Major(n.cfg) + (IF n.cfg.flags = {} THEN 8 ELSE 14)
    [] OTHER -> 20 * Major(n.cfg) + Minor(n.cfg) + 1

\* Profiles are merged with Stage 1 and without a profile.
Merge(n) == n.rule = "profdata" => n.cfg.stage = 1 /\ n.cfg.fdo = FALSE

\* The targets that occur.
Good(n) == n \in Target /\ Merge(n)

-----------------------------------------------------------------------------

\* The attributes of a bootstrap_binary.
LEMMA AttributeTypes ==
  ASSUME NEW rule, NEW k, NEW p
  PROVE  Attributes(rule, k, p) \in
           [fdo_profile: BOOLEAN, fdo_instrumented: BOOLEAN, source_backed: BOOLEAN]
BY DEF Attributes

\* Ranks are numbers, and Minor fits below the next Major.
LEMMA RankTypes ==
  ASSUME NEW c \in Config
  PROVE  Major(c) \in 0..8 /\ Minor(c) \in 1..12
BY DEF Major, Minor, Config

\* Ranks of targets are numbers.
LEMMA RankNumbers ==
  ASSUME NEW n \in Target
  PROVE  Rank(n) \in Int
<1>1. n.cfg \in Config
  BY DEF Target
<1>2. Major(n.cfg) \in Int /\ Minor(n.cfg) \in Int
  BY <1>1, RankTypes
<1>3. BootRank(n.k) \in Int
  BY DEF BootRank
<1>. QED  BY <1>2, <1>3 DEF Rank

\* A transition that only removes flags enables no sanitizer.
LEMMA FewerFlags ==
  ASSUME NEW c \in Config, NEW d \in Config, d.exec = c.exec, d.flags \subseteq c.flags
  PROVE  Selected(d) \subseteq Selected(c)
BY DEF Selected, Config

LEMMA NoFlags ==
  ASSUME NEW d \in Config, d.flags = {}
  PROVE  Selected(d) = {}
BY DEF Selected, Config

-----------------------------------------------------------------------------
(* Every dependency is a target, and has a smaller rank.                    *)

Below(d, n) == Good(d) /\ Rank(d) < Rank(n)

\* The constructors of targets.
LEMMA TargetTypes ==
  ASSUME NEW c \in Config, NEW on \in Execs, NEW rule \in Rules, NEW k \in 0..3
  PROVE  /\ Tgt(rule, c, on) \in Target
         /\ Boot(rule, k, c, on) \in Target
BY DEF Tgt, Boot, Target

\* A compiled target is below whatever is above its configuration.
LEMMA CompiledBelow ==
  ASSUME NEW c \in Config, host \in Execs, NEW n,
         NEW rule \in Rules \ {"toolchain", "tool", "helper", "package",
                              "profdata", "sanitizer_runtime"},
         NEW on \in Execs,
         20 * Major(c) + Minor(c) + 1 < Rank(n)
  PROVE  Below(Tgt(rule, c, on), n)
<1>1. Tgt(rule, c, on) \in Target
  BY TargetTypes
<1>2. Rank(Tgt(rule, c, on)) = 20 * Major(c) + Minor(c) + 1
  BY DEF Rank, Tgt, Rules
<1>. QED  BY <1>1, <1>2 DEF Below, Good, Merge, Tgt

\* A compiled target needs its toolchain.
LEMMA ToolchainBelow ==
  ASSUME NEW n \in Target, 20 * Major(n.cfg) + Minor(n.cfg) < Rank(n)
  PROVE  Below(ToolchainOf(n), n)
<1>1. ToolchainOf(n) \in Target
  BY DEF ToolchainOf, Tgt, Target, Rules
<1>2. Rank(ToolchainOf(n)) = 20 * Major(n.cfg) + Minor(n.cfg)
  BY DEF Rank, ToolchainOf, Tgt
<1>3. Merge(ToolchainOf(n))
  BY DEF Merge, ToolchainOf, Tgt
<1>. QED  BY <1>1, <1>2, <1>3 DEF Below, Good

\* A profile is merged below whatever has a rank of 80 or more.
LEMMA ProfdataBelow ==
  ASSUME NEW c \in Config, host \in Execs, NEW n, 79 < Rank(n)
  PROVE  Below(Profdata(c), n)
<1>1. MergeConfig(c) \in Config
  BY DEF MergeConfig, Config
<1>2. Profdata(c) \in Target
  BY <1>1, TargetTypes DEF Profdata, Rules
<1>3. Merge(Profdata(c)) /\ Rank(Profdata(c)) = 79
  BY DEF Merge, Profdata, Tgt, MergeConfig, Rank
<1>. QED  BY <1>2, <1>3 DEF Below, Good

\* The tools of a toolchain.
LEMMA ToolMapBelow ==
  ASSUME NEW n \in Target, n.rule = "toolchain", host \in Execs, NEW d \in ToolMap(n)
  PROVE  Below(d, n)
<1>. DEFINE e == ExecConfig(n.cfg, n.on)
            h == RuntimeConfig(e, "stage1_hosted", {})
<1>1. n.cfg \in Config /\ n.on \in Execs /\ n.on \in Platforms
  BY GraphAssumption DEF Target
<1>2. e \in Config /\ h \in Config
  BY <1>1 DEF ExecConfig, RuntimeConfig, Config, RuntimeStages
<1>3. Rank(n) = 20 * Major(n.cfg) + Minor(n.cfg)
  BY DEF Rank
<1>4. Major(n.cfg) \in 0..8 /\ Minor(n.cfg) \in 1..12
  BY <1>1, RankTypes
<1>5. ASSUME NEW rule \in {"tool", "helper"}, n.cfg.stage # 0
      PROVE  Below(Boot(rule, n.cfg.stage, e, host), n)
  <2>1. n.cfg.stage \in 1..3
    BY <1>1, <1>5 DEF Config
  <2>2. Boot(rule, n.cfg.stage, e, host) \in Target
    BY <1>2, <2>1, TargetTypes DEF Rules
  <2>3. Rank(Boot(rule, n.cfg.stage, e, host)) = BootRank(n.cfg.stage)
    BY DEF Rank, Boot
  <2>4. BootRank(n.cfg.stage) < 20 * Major(n.cfg) + 1
    BY <2>1, <1>1 DEF BootRank, Major, Config
  <2>5. Merge(Boot(rule, n.cfg.stage, e, host))
    BY DEF Merge, Boot
  <2>6. Rank(Boot(rule, n.cfg.stage, e, host)) < Rank(n)
    <3>. DEFINE b == BootRank(n.cfg.stage)
                M == Major(n.cfg)
                m == Minor(n.cfg)
    <3>1. b \in Int /\ b < 20 * M + 1 /\ M \in 0..8 /\ m \in 1..12
      BY <2>1, <2>4, <1>4 DEF BootRank
    <3>. HIDE DEF b, M, m
    <3>2. b < 20 * M + m
      BY <3>1
    <3>. QED  BY <3>2, <2>3, <1>3 DEF b, M, m
  <2>. QED  BY <2>2, <2>5, <2>6 DEF Below, Good
<1>6. ASSUME CompleteTools(n)
      PROVE  Below(Tgt("internal", h, host), n)
  <2>1. n.cfg.runtime = "complete"
    BY <1>6 DEF CompleteTools, ExecConfig
  <2>2. Minor(n.cfg) >= 6
    BY <2>1 DEF Minor
  <2>3. h.flags = {}
    BY DEF RuntimeConfig
  <2>4. Selected(h) = {}
    BY <2>3, <1>2, NoFlags
  <2>5. Minor(h) = 3
    BY <2>4 DEF Minor, RuntimeConfig
  <2>6. Major(h) = Major(n.cfg)
    BY DEF Major, RuntimeConfig, ExecConfig
  <2>7. 20 * Major(h) + Minor(h) + 1 < Rank(n)
    BY <2>2, <2>5, <2>6, <1>3, <1>4
  <2>. QED  BY <2>7, <1>2, CompiledBelow DEF Rules
<1>7. CASE n.cfg.stage = 0
  <2>1. CompleteTools(n) /\ d = Tgt("internal", h, host)
    BY <1>7 DEF ToolMap
  <2>. QED  BY <2>1, <1>6
<1>8. CASE n.cfg.stage # 0
  <2>1. \/ d = Boot("tool", n.cfg.stage, e, host)
        \/ d = Boot("helper", n.cfg.stage, e, host)
        \/ CompleteTools(n) /\ d = Tgt("internal", h, host)
    BY <1>8 DEF ToolMap
  <2>. QED  BY <2>1, <1>5, <1>6, <1>8
<1>. QED  BY <1>7, <1>8

\* The runtimes a toolchain links.
LEMMA RuntimesBelow ==
  ASSUME NEW n \in Target, n.rule = "toolchain", host \in Execs, NEW d \in RuntimesOf(n)
  PROVE  Below(d, n)
<1>. DEFINE c == n.cfg
            rt(r, S) == RuntimeConfig(c, r, S)
<1>1. c \in Config
  BY DEF Target
<1>2. Rank(n) = 20 * Major(c) + Minor(c)
  BY DEF Rank
<1>3. Major(c) \in 0..8 /\ Minor(c) \in 1..12
  BY <1>1, RankTypes
<1>4. c.runtime # "stage0"
  BY DEF RuntimesOf
<1>5. Minor(c) >= 3
  BY <1>1, <1>4 DEF Minor, Config, RuntimeStages
<1>6. ASSUME NEW S, NEW r \in RuntimeStages
      PROVE  rt(r, S) \in Config /\ Major(rt(r, S)) = Major(c)
             /\ Selected(rt(r, S)) \subseteq Selected(c)
  <2>1. rt(r, S) \in Config
    BY <1>1 DEF RuntimeConfig, Config
  <2>2. rt(r, S).exec = c.exec /\ rt(r, S).flags \subseteq c.flags
    BY DEF RuntimeConfig
  <2>3. Major(rt(r, S)) = Major(c)
    BY DEF Major, RuntimeConfig
  <2>. QED  BY <2>1, <2>2, <2>3, <1>1, FewerFlags
<1>7. ASSUME NEW S, NEW rule \in {"runtime", "profile_runtime", "cxx_static"}
      PROVE  Below(Tgt(rule, rt("stage0", S), host), n)
  <2>1. rt("stage0", S) \in Config /\ Major(rt("stage0", S)) = Major(c)
    BY <1>6 DEF RuntimeStages
  <2>2. Minor(rt("stage0", S)) = 1
    BY DEF Minor, RuntimeConfig
  <2>3. 20 * Major(rt("stage0", S)) + Minor(rt("stage0", S)) + 1 < Rank(n)
    BY <2>1, <2>2, <1>2, <1>3, <1>5
  <2>. QED  BY <2>1, <2>3, CompiledBelow DEF Rules
<1>8. Below(Tgt("start_object", StartObjectConfig(c), host), n)
  <2>1. StartObjectConfig(c) \in Config
    BY <1>1 DEF StartObjectConfig, Config, RuntimeStages
  <2>2. Major(StartObjectConfig(c)) = Major(c) /\ Minor(StartObjectConfig(c)) = 1
    BY DEF Major, Minor, StartObjectConfig
  <2>3. 20 * Major(StartObjectConfig(c)) + Minor(StartObjectConfig(c)) + 1 < Rank(n)
    BY <2>2, <1>2, <1>3, <1>5
  <2>. QED  BY <2>1, <2>3, CompiledBelow DEF Rules
<1>9. ASSUME Selected(c) # {}
      PROVE  Below(Tgt("sanitizer_runtime", rt("stage0", {}), host), n)
  <2>. DEFINE t == Tgt("sanitizer_runtime", rt("stage0", {}), host)
  <2>1. rt("stage0", {}) \in Config /\ Major(rt("stage0", {})) = Major(c)
    BY <1>6 DEF RuntimeStages
  <2>2. rt("stage0", {}).flags = {}
    BY DEF RuntimeConfig
  <2>3. t \in Target
    BY <2>1, TargetTypes DEF Rules
  <2>4. Merge(t)
    BY DEF Merge, Tgt
  <2>5. Rank(t) = 20 * Major(c) + 8
    BY <2>1, <2>2 DEF Rank, Tgt
  <2>6. Minor(c) >= 10
    BY <1>1, <1>4, <1>9 DEF Minor, Config, RuntimeStages
  <2>7. Rank(t) < Rank(n)
    BY <2>5, <2>6, <1>2, <1>3
  <2>. QED  BY <2>3, <2>4, <2>7 DEF Below, Good
<1>10. ASSUME c.runtime = "complete"
       PROVE  /\ Below(Tgt("cxx_shared", rt("stage1", Inheritable), host), n)
              /\ Below(Tgt("runtime", rt("stage1", {}), host), n)
  <2>. DEFINE x == rt("stage1", Inheritable)
              y == rt("stage1", {})
  <2>1. x \in Config /\ Major(x) = Major(c) /\ Selected(x) \subseteq Selected(c)
    BY <1>6 DEF RuntimeStages
  <2>2. y \in Config /\ Major(y) = Major(c)
    BY <1>6 DEF RuntimeStages
  <2>3. y.flags = {}
    BY DEF RuntimeConfig
  <2>4. Selected(y) = {}
    BY <2>2, <2>3, NoFlags
  <2>5. x.runtime = "stage1" /\ y.runtime = "stage1"
    BY DEF RuntimeConfig
  <2>6. Minor(y) = 3
    BY <2>4, <2>5 DEF Minor
  <2>7. Minor(x) = IF Selected(x) = {} THEN 3 ELSE 10
    BY <2>5 DEF Minor
  <2>8. Minor(c) = IF Selected(c) = {} THEN 6 ELSE 12
    BY <1>10 DEF Minor
  <2>9. Minor(x) + 1 < Minor(c)
    BY <2>1, <2>7, <2>8
  <2>10. Minor(x) \in Int
    BY <2>7
  <2>11. 20 * Major(x) + Minor(x) + 1 < Rank(n)
    BY <2>1, <2>9, <2>10, <1>2, <1>3
  <2>12. 20 * Major(y) + Minor(y) + 1 < Rank(n)
    BY <2>2, <2>6, <2>8, <1>2, <1>3
  <2>13. Below(Tgt("cxx_shared", x, host), n)
    BY <2>1, <2>11, CompiledBelow DEF Rules
  <2>14. Below(Tgt("runtime", y, host), n)
    BY <2>2, <2>12, CompiledBelow DEF Rules
  <2>. QED  BY <2>13, <2>14
<1>11. \/ d = Tgt("runtime", rt("stage0", {}), host)
       \/ d = Tgt("start_object", StartObjectConfig(c), host)
       \/ d = Tgt("profile_runtime", rt("stage0", {}), host)
       \/ Selected(c) # {} /\ d = Tgt("sanitizer_runtime", rt("stage0", {}), host)
       \/ d = Tgt("cxx_static", rt("stage0", Inheritable), host)
       \/ d = Tgt("cxx_static", rt("stage0", {}), host)
       \/ c.runtime = "complete" /\ d = Tgt("cxx_shared", rt("stage1", Inheritable), host)
       \/ c.runtime = "complete" /\ d = Tgt("runtime", rt("stage1", {}), host)
  BY <1>4 DEF RuntimesOf
<1>. QED  BY <1>11, <1>7, <1>8, <1>9, <1>10

\* What a bootstrap_binary is made of.
LEMMA BootBelow ==
  ASSUME NEW n \in Target, n.rule \in {"tool", "helper", "package"}, host \in Execs,
         NEW d \in BootDeps(n)
  PROVE  Below(d, n)
<1>. DEFINE a == Attributes(n.rule, n.k, n.cfg.platform)
            b == BootstrapConfig(n.cfg, a)
            h == RuntimeConfig(b, "stage1_hosted", {})
<1>1. n.cfg \in Config /\ n.k \in 0..3
  BY DEF Target
<1>2. a \in [fdo_profile: BOOLEAN, fdo_instrumented: BOOLEAN, source_backed: BOOLEAN]
  BY AttributeTypes
<1>3. b \in Config
  <2>. HIDE DEF a
  <2>1. (IF a.fdo_instrumented THEN {<<"host", "profile">>} ELSE {}) \in SUBSET Settings
    BY GraphAssumption DEF Settings
  <2>. QED  BY <1>1, <1>2, <2>1 DEF BootstrapConfig, Config, RuntimeStages
<1>4. h \in Config /\ Major(h) = Major(b)
  BY <1>3 DEF RuntimeConfig, Config, RuntimeStages, Major
<1>5. Rank(n) = BootRank(n.k)
  BY DEF Rank
<1>6. 20 * Major(b) + 13 < BootRank(n.k)
  <2>1. CASE n.k \in {0, 1}
    <3>1. n.k # 3 /\ n.k # 2
      BY <2>1
    <3>2. a.fdo_profile = FALSE /\ a.fdo_instrumented = FALSE /\ a.source_backed = FALSE
      BY <3>1, Zenon DEF Attributes
    <3>. HIDE DEF a
    <3>3. b.stage = 0 /\ ~b.fdo
      BY <3>2 DEF BootstrapConfig
    <3>. QED  BY <2>1, <3>3 DEF Major, BootRank
  <2>2. CASE n.k = 2
    <3>1. n.k # 3
      BY <2>2
    <3>2. a.fdo_profile = FALSE
      BY <3>1, Zenon DEF Attributes
    <3>. HIDE DEF a
    <3>3. b.stage \in {0, 1} /\ ~b.fdo
      BY <3>2 DEF BootstrapConfig
    <3>. QED  BY <2>2, <3>3 DEF Major, BootRank
  <2>3. CASE n.k = 3
    BY <2>3 DEF Major, BootstrapConfig, Attributes, BootRank
  <2>. QED  BY <2>1, <2>2, <2>3, <1>1
<1>7. ASSUME NEW x \in Config, Major(x) = Major(b)
      PROVE  20 * Major(x) + Minor(x) + 1 < Rank(n)
  <2>1. Minor(x) \in 1..12 /\ Major(x) \in 0..8
    BY RankTypes
  <2>2. BootRank(n.k) \in Int
    BY DEF BootRank
  <2>. QED  BY <2>1, <2>2, <1>5, <1>6, <1>7
<1>8. CASE d = Tgt("internal", h, host)
  BY <1>8, <1>4, <1>7, CompiledBelow DEF Rules
<1>9. CASE d = Tgt("llvm", b, host)
  BY <1>9, <1>3, <1>7, CompiledBelow DEF Rules
<1>10. CASE a.fdo_profile /\ d = Profdata(n.cfg)
  <2>1. n.k = 3
    BY <1>10 DEF Attributes
  <2>2. 79 < Rank(n)
    BY <2>1, <1>5 DEF BootRank
  <2>. QED  BY <2>2, <1>1, <1>10, ProfdataBelow
<1>. QED  BY <1>8, <1>9, <1>10 DEF BootDeps

\* Every dependency of a target that is evaluated has a smaller rank.
LEMMA DepsBelow ==
  ASSUME NEW n, Good(n), ~Unmatched(n), host \in Execs, NEW d \in Deps(n)
  PROVE  Below(d, n)
<1>. DEFINE c == n.cfg
<1>1. n \in Target /\ Merge(n)
  BY DEF Good
<1>2. c \in Config /\ n.on \in Execs /\ n.rule \in Rules
  BY <1>1 DEF Target
<1>3. Major(c) \in 0..8 /\ Minor(c) \in 1..12
  BY <1>2, RankTypes
<1>4. CASE n.rule = "toolchain"
  <2>1. CASE d \in ToolMap(n)
    BY <2>1, <1>1, <1>4, ToolMapBelow
  <2>2. CASE d \in RuntimesOf(n)
    BY <2>2, <1>1, <1>4, RuntimesBelow
  <2>3. CASE c.fdo /\ d = Profdata(c)
    <3>1. Major(c) >= 4
      BY <2>3, <1>2 DEF Major, Config
    <3>2. Rank(n) = 20 * Major(c) + Minor(c)
      BY <1>4 DEF Rank
    <3>3. 79 < Rank(n)
      BY <3>1, <3>2, <1>3
    <3>. QED  BY <3>3, <2>3, <1>2, ProfdataBelow
  <2>. QED  BY <2>1, <2>2, <2>3, <1>4 DEF Deps, ToolchainDeps
<1>5. CASE n.rule \in {"tool", "helper", "package"}
  <2>1. d \in BootDeps(n)
    BY <1>5 DEF Deps
  <2>. QED  BY <2>1, <1>1, <1>5, BootBelow
<1>6. CASE n.rule = "sanitizer_runtime"
  <2>. DEFINE u == UnsanitizedConfig(c)
              top == IF c.flags = {} THEN 8 ELSE 14
  <2>1. Rank(n) = 20 * Major(c) + top
    BY <1>6 DEF Rank
  <2>2. Minor(c) < top
    <3>1. CASE c.flags = {}
      <4>1. Selected(c) = {}
        BY <3>1, <1>2, NoFlags
      <4>. QED  BY <3>1, <4>1 DEF Minor
    <3>. QED  BY <3>1, <1>3
  <2>3. u \in Config /\ Major(u) = Major(c) /\ u.runtime = "complete"
        /\ u.flags \subseteq c.flags
    BY <1>2 DEF UnsanitizedConfig, Config, RuntimeStages, Major
  <2>4. Minor(u) + 1 < top
    <3>. HIDE DEF u
    <3>1. CASE c.flags = {}
      <4>1. Selected(u) = {}
        BY <3>1, <2>3, NoFlags
      <4>. QED  BY <3>1, <4>1, <2>3 DEF Minor
    <3>2. Minor(u) \in 1..12
      BY <2>3, RankTypes
    <3>. QED  BY <3>1, <3>2
  <2>5. Minor(u) \in 1..12
    BY <2>3, RankTypes
  <2>6. 20 * Major(c) + Minor(c) < Rank(n)
    BY <2>1, <2>2, <1>3
  <2>7. 20 * Major(u) + Minor(u) + 1 < Rank(n)
    BY <2>1, <2>3, <2>4, <2>5, <1>3
  <2>8. CASE d = ToolchainOf(n)
    BY <2>8, <2>6, <1>1, ToolchainBelow
  <2>9. CASE d = Tgt("symbolizer", u, host)
    BY <2>9, <2>3, <2>7, CompiledBelow DEF Rules
  <2>. QED  BY <2>8, <2>9, <1>6 DEF Deps
<1>7. CASE n.rule = "profdata"
  <2>1. Rank(n) = 79 /\ c.stage = 1 /\ c.fdo = FALSE
    BY <1>1, <1>7 DEF Rank, Merge
  <2>2. Major(c) = 1
    BY <2>1 DEF Major
  <2>3. 20 * Major(c) + Minor(c) < Rank(n)
    BY <2>1, <2>2, <1>3
  <2>4. Executor(c.platform.cpu) \in Execs
    BY <1>7, GraphAssumption DEF Unmatched
  <2>5. ASSUME NEW p \in Platforms, d = Tgt("workload", GenerationConfig(c, p),
                                            Executor(c.platform.cpu))
        PROVE  Below(d, n)
    <3>. DEFINE g == GenerationConfig(c, p)
    <3>1. g \in Config /\ Major(g) = 2
      BY <1>2 DEF GenerationConfig, Config, RuntimeStages, Major
    <3>2. Minor(g) \in 1..12
      BY <3>1, RankTypes
    <3>3. 20 * Major(g) + Minor(g) + 1 < Rank(n)
      BY <3>1, <3>2, <2>1
    <3>. QED  BY <3>1, <3>3, <2>4, <2>5, CompiledBelow DEF Rules
  <2>6. CASE d = ToolchainOf(n)
    BY <2>6, <2>3, <1>1, ToolchainBelow
  <2>7. \/ d = ToolchainOf(n)
        \/ \E p \in Platforms : d = Tgt("workload", GenerationConfig(c, p),
                                         Executor(c.platform.cpu))
    BY <1>7 DEF Deps
  <2>. QED  BY <2>5, <2>6, <2>7
<1>8. CASE n.rule \notin {"toolchain", "tool", "helper", "package",
                         "sanitizer_runtime", "profdata"}
  <2>1. d = ToolchainOf(n)
    BY <1>8 DEF Deps
  <2>2. Rank(n) = 20 * Major(c) + Minor(c) + 1
    BY <1>8 DEF Rank
  <2>3. 20 * Major(c) + Minor(c) < Rank(n)
    BY <2>2, <1>3
  <2>. QED  BY <2>1, <2>3, <1>1, ToolchainBelow
<1>. QED  BY <1>4, <1>5, <1>6, <1>7, <1>8

-----------------------------------------------------------------------------
(* The invariant: ranks go down along the stack.                            *)

Descending ==
  /\ host \in Execs
  /\ stack \in Seq(Target)
  /\ \A i \in DOMAIN stack : Merge(stack[i])
  /\ \A i, j \in DOMAIN stack : i < j => Rank(stack[j]) < Rank(stack[i])

\* Descending holds initially: the stack holds the request alone.
LEMMA InitDescending == Init => Descending
<1>. SUFFICES ASSUME Init PROVE Descending
  OBVIOUS
<1>1. PICK n \in Requests : stack = <<n>>
  BY DEF Init
<1>2. host \in Execs
  BY DEF Init
<1>3. n \in Target /\ n.rule # "profdata"
  <2>1. CASE \E c \in Config : n = Tgt("program", c, host)
    <3>1. PICK c \in Config : n = Tgt("program", c, host)
      BY <2>1
    <3>2. n \in Target
      BY <3>1, <1>2, TargetTypes DEF Rules
    <3>. QED  BY <3>1, <3>2 DEF Tgt
  <2>2. CASE \E k \in 1..3, c \in Config : n = Boot("package", k, c, host)
    <3>1. PICK k \in 1..3, c \in Config : n = Boot("package", k, c, host)
      BY <2>2
    <3>2. k \in 0..3
      OBVIOUS
    <3>3. n \in Target
      BY <3>1, <3>2, <1>2, TargetTypes DEF Rules
    <3>. QED  BY <3>1, <3>3 DEF Boot
  <2>. QED  BY <2>1, <2>2 DEF Requests
<1>4. Merge(n)
  BY <1>3 DEF Merge
<1>5. stack \in Seq(Target) /\ DOMAIN stack = {1} /\ stack[1] = n
  BY <1>1, <1>3
<1>. QED  BY <1>2, <1>4, <1>5 DEF Descending

\* Every step keeps the ranks descending.
LEMMA NextDescending == Descending /\ [Next]_vars => Descending'
<1>. SUFFICES ASSUME Descending, [Next]_vars PROVE Descending'
  OBVIOUS
<1>0. stack \in Seq(Target) /\ host \in Execs
  BY DEF Descending
<1>1. CASE Descend
  <2>. DEFINE d == CHOOSE d \in Missing : TRUE
              L == Len(stack)
  <2>1. stack # <<>> /\ ~Unmatched(Top) /\ Missing # {} /\ stack' = Append(stack, d)
        /\ host' = host
    BY <1>1 DEF Descend
  <2>2. L \in Nat \ {0} /\ L \in DOMAIN stack /\ Top = stack[L]
    BY <2>1, <1>0 DEF Top
  <2>3. Good(Top)
    BY <2>2, <1>0 DEF Descending, Good
  <2>4. d \in Deps(Top)
    BY <2>1 DEF Missing
  <2>5. Below(d, Top)
    BY <2>1, <2>3, <2>4, <1>0, DepsBelow
  <2>. HIDE DEF d
  <2>6. d \in Target /\ Merge(d) /\ Rank(d) < Rank(stack[L])
    BY <2>5, <2>2 DEF Below, Good
  <2>7. /\ stack' \in Seq(Target)
        /\ DOMAIN stack' = 1..(L + 1)
        /\ stack'[L + 1] = d
        /\ \A i \in 1..L : stack'[i] = stack[i]
    BY <2>1, <2>6, <1>0
  <2>8. DOMAIN stack = 1..L
    BY <1>0
  <2>9. \A i \in DOMAIN stack' : Merge(stack'[i])
    BY <2>6, <2>7, <2>8, <2>2 DEF Descending
  <2>10. ASSUME NEW i \in 1..L PROVE Rank(d) < Rank(stack[i])
    <3>. HIDE DEF L
    <3>1. i \in DOMAIN stack /\ (i = L \/ i < L)
      BY <2>2, <2>8
    <3>2. stack[i] \in Target /\ stack[L] \in Target
      BY <3>1, <2>2, <1>0
    <3>3. Rank(d) \in Int /\ Rank(stack[i]) \in Int /\ Rank(stack[L]) \in Int
      BY <3>2, <2>6, RankNumbers
    <3>4. i < L => Rank(stack[L]) < Rank(stack[i])
      BY <3>1, <2>2 DEF Descending
    <3>5. CASE i = L
      BY <3>5, <2>6
    <3>6. CASE i < L
      BY <3>3, <3>4, <3>6, <2>6
    <3>. QED  BY <3>1, <3>5, <3>6
  <2>11. ASSUME NEW i \in DOMAIN stack', NEW j \in DOMAIN stack', i < j
         PROVE  Rank(stack'[j]) < Rank(stack'[i])
    <3>1. i \in 1..L /\ (j \in 1..L \/ j = L + 1)
      BY <2>2, <2>7, <2>11
    <3>2. CASE j = L + 1
      BY <3>1, <3>2, <2>7, <2>10
    <3>3. CASE j \in 1..L
      BY <3>1, <3>3, <2>7, <2>8, <2>11 DEF Descending
    <3>. QED  BY <3>1, <3>2, <3>3
  <2>. QED  BY <2>1, <2>7, <2>9, <2>11, <1>0 DEF Descending
<1>2. CASE Finish
  <2>. DEFINE L == Len(stack)
  <2>1. stack # <<>> /\ stack' = SubSeq(stack, 1, L - 1) /\ host' = host
    BY <1>2 DEF Finish
  <2>2. L \in Nat \ {0} /\ DOMAIN stack = 1..L
    BY <2>1, <1>0
  <2>3. /\ stack' \in Seq(Target)
        /\ DOMAIN stack' = 1..(L - 1)
        /\ \A i \in 1..(L - 1) : stack'[i] = stack[i]
    BY <2>1, <2>2, <1>0
  <2>4. \A i \in 1..(L - 1) : i \in DOMAIN stack
    BY <2>2
  <2>. QED  BY <2>1, <2>3, <2>4, <1>0 DEF Descending
<1>3. CASE Fail
  <2>1. stack' = <<>> /\ host' = host
    BY <1>3 DEF Fail
  <2>2. stack' \in Seq(Target) /\ DOMAIN stack' = {}
    BY <2>1
  <2>. QED  BY <2>1, <2>2, <1>0 DEF Descending
<1>4. CASE UNCHANGED vars
  BY <1>4 DEF vars, Descending
<1>. QED  BY <1>1, <1>2, <1>3, <1>4 DEF Next

\* No target of the bootstrap depends on itself, for every set of platforms,
\* executors and sanitizers and every command line (the transitions of
\* toolchain/bootstrap and toolchain/runtimes).
THEOREM Acyclic == Spec => []NoCycle
<1>1. Descending => NoCycle
  <2>. SUFFICES ASSUME Descending, NEW i \in DOMAIN stack, NEW j \in DOMAIN stack,
                       stack[i] = stack[j]
                PROVE  i = j
    BY DEF NoCycle
  <2>1. i \in Nat /\ j \in Nat
    BY DEF Descending
  <2>2. stack[i] \in Target
    BY DEF Descending
  <2>3. Rank(stack[i]) \in Int
    BY <2>2, RankNumbers
  <2>4. ~(i < j)
    <3>1. i < j => Rank(stack[j]) < Rank(stack[i])
      BY DEF Descending
    <3>. QED  BY <3>1, <2>3
  <2>5. ~(j < i)
    <3>1. j < i => Rank(stack[i]) < Rank(stack[j])
      BY DEF Descending
    <3>. QED  BY <3>1, <2>3
  <2>. QED  BY <2>1, <2>4, <2>5
<1>. QED  BY <1>1, InitDescending, NextDescending, PTL DEF Spec
-----------------------------------------------------------------------------
(* What the finished targets are: a second invariant, over "made".          *)

\* The transitions leave no sanitizer to these: RuntimeConfig and
\* StartObjectConfig drop every flag, and the symbolizer is configured from a
\* sanitizer runtime, which has none left.
Flagless == {"internal", "start_object", "runtime", "profile_runtime",
             "sanitizer_runtime", "symbolizer"}

Stripped(n) == n.rule \in Flagless => n.cfg.flags = {}

\* Targets that copy another's output; every other target is compiled.
Copies == {"tool", "helper", "package"}

\* The profile that belongs to a CPU.
ProfileOf(cpu) == {<<2, cpu>>}

\* What can be said of the artifact a of a finished target n.
\* A compiled target comes from the compiler its configuration names, with the
\* sanitizers its configuration selects.
CompiledAsConfigured(n, a) ==
  n.rule \notin Copies \cup {"toolchain"} =>
    /\ a.by = n.cfg.stage
    /\ a.instrumented <=> "profile" \in Selected(n.cfg)
    /\ a.sanitized <=> Selected(n.cfg) \ {"profile"} # {}
    /\ a.cpu = n.cfg.platform.cpu

\* The way of a profile: written by a workload, merged, applied to LLVM.
ProfileApplied(n, a) ==
  /\ n.rule = "workload" /\ n.cfg.stage = 2 => a.trained = ProfileOf(n.on.cpu)
  /\ n.rule = "profdata" => a.trained = ProfileOf(n.cfg.platform.cpu)
  /\ n.rule = "llvm" /\ n.cfg.fdo => a.trained = ProfileOf(n.cfg.platform.cpu)

\* A bootstrap_binary is clean, and one of a tool map is of its stage.
CopiedAsStaged(n, a) ==
  /\ n.rule \in Copies => ~a.sanitized /\ (a.instrumented => n.k = 2)
  /\ n.rule = "tool" /\ n.cfg.exec /\ n.k # 0 => Generation(a) = n.k
  /\ n.rule = "tool" /\ n.k = 3 => a.trained = ProfileOf(a.cpu)

\* A toolchain has the compiler of its stage.
ToolchainAsStaged(n, a) ==
  n.rule = "toolchain" =>
    /\ Generation(a) = n.cfg.stage
    /\ n.cfg.stage = 3 => a.trained = ProfileOf(a.cpu)

Product(n, a) ==
  /\ CompiledAsConfigured(n, a) /\ ProfileApplied(n, a)
  /\ CopiedAsStaged(n, a) /\ ToolchainAsStaged(n, a)

\* A toolchain that applies a profile has it at hand.
ProfileThere(n) == n.rule = "toolchain" /\ n.cfg.fdo => Profdata(n.cfg) \in DOMAIN made

Production ==
  /\ \A i \in DOMAIN stack : Stripped(stack[i])
  /\ \A n \in DOMAIN made :
       Good(n) /\ Stripped(n) /\ Product(n, made[n]) /\ ProfileThere(n)

-----------------------------------------------------------------------------

\* Instrumented and plain compilers are told apart by how they were made.
LEMMA Generations ==
  ASSUME NEW a
  PROVE  /\ a.by = None => Generation(a) = 0
         /\ a.by = 0 /\ ~a.instrumented => Generation(a) = 1
         /\ a.by = 1 /\ a.instrumented => Generation(a) = 2
         /\ a.by = 1 /\ ~a.instrumented => Generation(a) = 3
         /\ Generation(a) = 2 => a.instrumented
<1>1. None # 0 /\ None # 1
  BY GraphAssumption
<1>2. CASE a.by = None
  BY <1>1, <1>2 DEF Generation
<1>3. CASE a.by = 0
  BY <1>1, <1>3 DEF Generation
<1>4. CASE a.by = 1
  BY <1>1, <1>4 DEF Generation
<1>5. CASE a.by # None /\ a.by # 0 /\ a.by # 1
  BY <1>5 DEF Generation
<1>. QED  BY <1>2, <1>3, <1>4, <1>5

\* Every dependency of a stripped target is stripped.
LEMMA DepsStripped ==
  ASSUME NEW n, n \in Target, Stripped(n), NEW d \in Deps(n)
  PROVE  Stripped(d)
<1>. DEFINE c == n.cfg
            bare(r) == RuntimeConfig(c, r, {})
<1>1. CASE n.rule = "toolchain"
  <2>1. CASE d \in ToolMap(n)
    BY <2>1 DEF ToolMap, Boot, Tgt, RuntimeConfig, Stripped, Flagless
  <2>2. CASE d \in RuntimesOf(n)
    <3>1. \/ d.rule \notin Flagless
          \/ d.cfg = StartObjectConfig(c)
          \/ \E r \in RuntimeStages : d.cfg = bare(r)
      BY <2>2 DEF RuntimesOf, Tgt, Flagless, RuntimeStages
    <3>2. StartObjectConfig(c).flags = {}
      BY DEF StartObjectConfig
    <3>3. \A r : bare(r).flags = {}
      BY DEF RuntimeConfig
    <3>. QED  BY <3>1, <3>2, <3>3 DEF Stripped
  <2>3. CASE d = Profdata(c)
    BY <2>3 DEF Profdata, Tgt, Stripped, Flagless
  <2>. QED  BY <2>1, <2>2, <2>3, <1>1 DEF Deps, ToolchainDeps
<1>2. CASE n.rule \in Copies
  <2>1. d \in BootDeps(n)
    BY <1>2 DEF Deps, Copies
  <2>. QED  BY <2>1 DEF BootDeps, Tgt, Profdata, RuntimeConfig, Stripped, Flagless
<1>3. CASE n.rule \notin Copies \cup {"toolchain"}
  <2>1. \/ d = ToolchainOf(n)
        \/ d.rule = "workload"
        \/ n.rule = "sanitizer_runtime" /\ d.cfg = UnsanitizedConfig(c)
    BY <1>3 DEF Deps, Tgt, Copies
  <2>2. CASE d = ToolchainOf(n)
    BY <2>2 DEF ToolchainOf, Tgt, Stripped, Flagless
  <2>3. CASE d.rule = "workload"
    BY <2>3 DEF Stripped, Flagless
  <2>4. CASE n.rule = "sanitizer_runtime" /\ d.cfg = UnsanitizedConfig(c)
    <3>1. c.flags = {}
      BY <2>4 DEF Stripped, Flagless
    <3>. QED  BY <3>1, <2>4 DEF UnsanitizedConfig, Stripped
  <2>. QED  BY <2>1, <2>2, <2>3, <2>4
<1>. QED  BY <1>1, <1>2, <1>3

\* A compilation that has its dependencies is as its configuration says.
LEMMA CompiledProduct ==
  ASSUME Production, host \in Execs, NEW n, Good(n), Deps(n) \subseteq DOMAIN made,
         n.rule \notin Copies \cup {"toolchain"}
  PROVE  /\ Compiled(n).by = n.cfg.stage
         /\ Compiled(n).instrumented <=> "profile" \in Selected(n.cfg)
         /\ Compiled(n).sanitized <=> Selected(n.cfg) \ {"profile"} # {}
         /\ Compiled(n).cpu = n.cfg.platform.cpu
         /\ n.cfg.fdo => Compiled(n).trained = ProfileOf(n.cfg.platform.cpu)
         /\ Generation(made[ToolchainOf(n)]) = n.cfg.stage
<1>. DEFINE t == ToolchainOf(n)
<1>1. t \in Deps(n)
  BY DEF Deps, Copies
<1>2. t \in DOMAIN made /\ t.rule = "toolchain" /\ t.cfg = n.cfg
  BY <1>1 DEF ToolchainOf, Tgt
<1>3. Generation(made[t]) = n.cfg.stage
  BY <1>2 DEF Production, Product, ToolchainAsStaged
<1>4. ASSUME n.cfg.fdo
      PROVE  made[Profdata(n.cfg)].trained = ProfileOf(n.cfg.platform.cpu)
  <2>. DEFINE p == Profdata(n.cfg)
  <2>1. p \in DOMAIN made
    BY <1>2, <1>4 DEF Production, ProfileThere
  <2>2. p.rule = "profdata" /\ p.cfg.platform = n.cfg.platform
    BY DEF Profdata, Tgt, MergeConfig
  <2>. HIDE DEF p
  <2>3. made[p].trained = ProfileOf(p.cfg.platform.cpu)
    BY <2>1, <2>2 DEF Production, Product, ProfileApplied
  <2>. QED  BY <2>2, <2>3 DEF p
<1>. QED  BY <1>3, <1>4 DEF Compiled

\* A workload that ran Stage 2 has a profile of the CPU it ran on.
LEMMA TrainedProduct ==
  ASSUME Production, host \in Execs, NEW n, Good(n), Deps(n) \subseteq DOMAIN made,
         n.rule = "workload"
  PROVE  Product(n, Trained(n))
<1>. DEFINE a == made[ToolchainOf(n)]
<1>1. n.rule \notin Copies \cup {"toolchain"}
  BY DEF Copies
<1>2. Generation(a) = n.cfg.stage
  BY <1>1, CompiledProduct
<1>3. n.cfg.stage = 2 => a.instrumented
  BY <1>2, Generations
<1>4. /\ Trained(n).by = Compiled(n).by
      /\ Trained(n).instrumented = Compiled(n).instrumented
      /\ Trained(n).sanitized = Compiled(n).sanitized
      /\ Trained(n).cpu = Compiled(n).cpu
      /\ Trained(n).trained = IF a.instrumented THEN {<<Generation(a), n.on.cpu>>} ELSE {}
  BY DEF Trained, Compiled
<1>5. n.cfg.stage = 2 => Trained(n).trained = ProfileOf(n.on.cpu)
  BY <1>2, <1>3, <1>4 DEF ProfileOf
<1>. QED  BY <1>1, <1>4, <1>5, CompiledProduct
          DEF Product, CompiledAsConfigured, ProfileApplied, CopiedAsStaged,
              ToolchainAsStaged, Copies

\* A merged profile holds what the workloads for its CPU wrote.
LEMMA MergedProduct ==
  ASSUME Production, host \in Execs, NEW n, Good(n), Deps(n) \subseteq DOMAIN made,
         ~Unmatched(n), n.rule = "profdata"
  PROVE  Product(n, Merged(n))
<1>. DEFINE cpu == n.cfg.platform.cpu
            W == {d \in Deps(n) : d.rule = "workload"}
            w(p) == Tgt("workload", GenerationConfig(n.cfg, p), Executor(cpu))
<1>1. n.rule \notin Copies \cup {"toolchain"}
  BY DEF Copies
<1>2. W = {w(p) : p \in Platforms}
  BY DEF Deps, Copies, ToolchainOf, Tgt
<1>3. Platforms # {}
  BY GraphAssumption DEF ProfileCpus
<1>4. ASSUME NEW d \in W PROVE made[d].trained = ProfileOf(cpu)
  <2>1. PICK p \in Platforms : d = w(p)
    BY <1>2
  <2>2. d.rule = "workload" /\ d.cfg.stage = 2 /\ d.on = Executor(cpu)
    BY <2>1 DEF Tgt, GenerationConfig
  <2>3. d.on.cpu = cpu
    BY <2>2 DEF Executor
  <2>4. d \in DOMAIN made
    OBVIOUS
  <2>. QED  BY <2>2, <2>3, <2>4 DEF Production, Product, ProfileApplied
<1>5. W # {}
  BY <1>2, <1>3
<1>6. UNION {made[d].trained : d \in W} = ProfileOf(cpu)
  <2>. HIDE DEF W
  <2>. QED  BY <1>4, <1>5
<1>7. /\ Merged(n).by = Compiled(n).by
      /\ Merged(n).instrumented = Compiled(n).instrumented
      /\ Merged(n).sanitized = Compiled(n).sanitized
      /\ Merged(n).cpu = Compiled(n).cpu
      /\ Merged(n).trained = UNION {made[d].trained : d \in W}
  BY DEF Merged, Compiled
<1>. QED  BY <1>1, <1>6, <1>7, CompiledProduct
          DEF Product, CompiledAsConfigured, ProfileApplied, CopiedAsStaged,
              ToolchainAsStaged, Copies

\* The compiler of a toolchain is of the toolchain's stage.
LEMMA CompilerProduct ==
  ASSUME Production, host \in Execs, NEW n, Good(n), Deps(n) \subseteq DOMAIN made,
         n.rule = "toolchain"
  PROVE  Product(n, Compiler(n))
<1>. DEFINE k == n.cfg.stage
            d == Boot("tool", k, ExecConfig(n.cfg, n.on), host)
<1>1. k \in 0..3
  BY DEF Good, Target, Config
<1>2. CASE k = 0
  <2>1. Compiler(n).by = None
    BY <1>2 DEF Compiler, Seed
  <2>2. Generation(Compiler(n)) = 0
    BY <2>1, Generations
  <2>. QED  BY <2>2, <1>2 DEF Product, CompiledAsConfigured, ProfileApplied,
                              CopiedAsStaged, ToolchainAsStaged, Copies
<1>3. CASE k # 0
  <2>1. d \in ToolMap(n)
    BY <1>3 DEF ToolMap
  <2>2. d \in DOMAIN made
    BY <2>1 DEF Deps, ToolchainDeps
  <2>3. d.rule = "tool" /\ d.k = k /\ d.cfg.exec
    BY DEF Boot, ExecConfig
  <2>4. Compiler(n) = made[d]
    BY <1>3 DEF Compiler
  <2>. HIDE DEF d
  <2>5. Generation(made[d]) = k /\ (k = 3 => made[d].trained = ProfileOf(made[d].cpu))
    BY <2>2, <2>3, <1>3 DEF Production, Product, CopiedAsStaged
  <2>. QED  BY <2>4, <2>5 DEF Product, CompiledAsConfigured, ProfileApplied,
                              CopiedAsStaged, ToolchainAsStaged, Copies
<1>. QED  BY <1>2, <1>3

\* A bootstrap_binary is clean and of its stage.
LEMMA CopiedProduct ==
  ASSUME Production, host \in Execs, NEW n, Good(n), Deps(n) \subseteq DOMAIN made,
         n.rule \in Copies
  PROVE  Product(n, Copied(n))
<1>. DEFINE at == Attributes(n.rule, n.k, n.cfg.platform)
            b == BootstrapConfig(n.cfg, at)
            actual == IF n.rule = "helper"
                      THEN Tgt("internal", RuntimeConfig(b, "stage1_hosted", {}), host)
                      ELSE Tgt("llvm", b, host)
            a == made[actual]
<1>1. actual \in Deps(n)
  BY DEF Deps, BootDeps, Copies
<1>2. Copied(n) = a
  <2>1. \A d \in Deps(n) : d.rule \in {"llvm", "internal"} => d = actual
    BY DEF Deps, BootDeps, Copies, Profdata, Tgt
  <2>2. actual.rule \in {"llvm", "internal"}
    BY DEF Tgt
  <2>. HIDE DEF actual
  <2>3. (CHOOSE d \in Deps(n) : d.rule \in {"llvm", "internal"}) = actual
    BY <2>1, <2>2, <1>1
  <2>. QED  BY <2>3 DEF Copied
<1>3. actual \in DOMAIN made
  BY <1>1
<1>4. /\ a.by = actual.cfg.stage
      /\ a.instrumented <=> "profile" \in Selected(actual.cfg)
      /\ a.sanitized <=> Selected(actual.cfg) \ {"profile"} # {}
      /\ a.cpu = actual.cfg.platform.cpu
  <2>1. actual.rule \notin Copies \cup {"toolchain"}
    BY DEF Tgt, Copies
  <2>. HIDE DEF actual
  <2>. QED  BY <2>1, <1>3 DEF Production, Product, CompiledAsConfigured
<1>5. n.k \in 0..3
  BY DEF Good, Target
<1>6. /\ actual.cfg.flags \subseteq {<<"host", "profile">>}
      /\ actual.cfg.flags # {} => n.k = 2
  <2>1. b.flags \subseteq {<<"host", "profile">>} /\ (b.flags # {} => n.k = 2)
    BY DEF BootstrapConfig, Attributes
  <2>2. RuntimeConfig(b, "stage1_hosted", {}).flags = {}
    BY DEF RuntimeConfig
  <2>3. actual.cfg \in {b, RuntimeConfig(b, "stage1_hosted", {})}
    BY DEF Tgt
  <2>. HIDE DEF b
  <2>. QED  BY <2>1, <2>2, <2>3
<1>7. Selected(actual.cfg) \subseteq {"profile"}
  <2>. HIDE DEF actual
  <2>. QED  BY <1>6 DEF Selected
<1>8. "profile" \in Selected(actual.cfg) => n.k = 2
  <2>. HIDE DEF actual
  <2>. QED  BY <1>6 DEF Selected
<1>9. ~a.sanitized /\ (a.instrumented => n.k = 2)
  BY <1>4, <1>7, <1>8
<1>10. ASSUME n.rule = "tool"
       PROVE  /\ actual = Tgt("llvm", b, host)
              /\ n.k = 1 => b.stage = 0
              /\ n.k \in {2, 3} => b.stage = 1
              /\ n.k = 2 => b.flags = {<<"host", "profile">>}
              /\ n.k = 3 => b.fdo
              /\ b.exec = n.cfg.exec
  <2>1. /\ at.fdo_profile = (n.k = 3)
        /\ at.fdo_instrumented = (n.k = 2)
        /\ at.source_backed = FALSE
    BY <1>10, Zenon DEF Attributes
  <2>2. n.k \in {0, 1, 2, 3}
    BY <1>5
  <2>. HIDE DEF at
  <2>3. /\ b.stage = IF at.source_backed \/ at.fdo_profile \/ at.fdo_instrumented THEN 1 ELSE 0
        /\ b.flags = IF at.fdo_instrumented THEN {<<"host", "profile">>} ELSE {}
        /\ b.fdo = at.fdo_profile /\ b.exec = n.cfg.exec
    BY DEF BootstrapConfig
  <2>4. actual = Tgt("llvm", b, host)
    BY <1>10
  <2>. HIDE DEF b, actual
  <2>5. CASE n.k \in {0, 1}
    <3>0. n.k # 3 /\ n.k # 2
      BY <2>5
    <3>1. at.fdo_profile = FALSE /\ at.fdo_instrumented = FALSE
      BY <2>1, <3>0, Zenon
    <3>. QED  BY <2>1, <2>3, <2>4, <2>5, <3>1
  <2>6. CASE n.k = 2
    <3>1. at.fdo_instrumented = TRUE
      BY <2>1, <2>6
    <3>. QED  BY <2>3, <2>4, <2>6, <3>1
  <2>7. CASE n.k = 3
    <3>1. at.fdo_profile = TRUE
      BY <2>1, <2>7
    <3>. QED  BY <2>3, <2>4, <2>7, <3>1
  <2>. QED  BY <2>2, <2>5, <2>6, <2>7
<1>11. ASSUME n.rule = "tool", n.cfg.exec, n.k # 0
       PROVE  Generation(a) = n.k
  <2>1. actual.cfg = b
    BY <1>10, <1>11 DEF Tgt
  <2>2. n.k = 2 => a.instrumented
    <3>. HIDE DEF b
    <3>1. n.k = 2 => <<"host", "profile">> \in b.flags /\ b.exec
      BY <1>10, <1>11
    <3>. QED  BY <3>1, <2>1, <1>4, GraphAssumption DEF Selected
  <2>3. n.k = 1 => a.by = 0
    BY <2>1, <1>4, <1>10, <1>11
  <2>4. n.k \in {2, 3} => a.by = 1
    BY <2>1, <1>4, <1>10, <1>11
  <2>. HIDE DEF a
  <2>. QED  BY <2>2, <2>3, <2>4, <1>5, <1>9, <1>11, Generations
<1>12. ASSUME n.rule = "tool", n.k = 3
       PROVE  a.trained = ProfileOf(a.cpu)
  <2>1. actual.rule = "llvm" /\ actual.cfg.fdo
    BY <1>10, <1>12 DEF Tgt
  <2>. HIDE DEF actual
  <2>2. a.trained = ProfileOf(actual.cfg.platform.cpu)
    BY <2>1, <1>3 DEF Production, Product, ProfileApplied
  <2>. QED  BY <2>2, <1>4
<1>. HIDE DEF a
<1>. QED  BY <1>2, <1>9, <1>11, <1>12
          DEF Product, CompiledAsConfigured, ProfileApplied, CopiedAsStaged,
              ToolchainAsStaged, Copies

\* Whatever a target produces from its dependencies is as it should be.
LEMMA ProduceProduct ==
  ASSUME Production, host \in Execs, NEW n, Good(n), Deps(n) \subseteq DOMAIN made,
         ~Unmatched(n)
  PROVE  Product(n, Produce(n))
<1>1. CASE n.rule = "toolchain"
  BY <1>1, CompilerProduct DEF Produce
<1>2. CASE n.rule \in Copies
  BY <1>2, CopiedProduct DEF Produce, Copies
<1>3. CASE n.rule = "workload"
  BY <1>3, TrainedProduct DEF Produce
<1>4. CASE n.rule = "profdata"
  BY <1>4, MergedProduct DEF Produce
<1>5. CASE n.rule \notin Copies \cup {"toolchain", "workload", "profdata"}
  <2>1. Produce(n) = Compiled(n)
    BY <1>5 DEF Produce, Copies
  <2>2. n.rule \notin Copies \cup {"toolchain"}
    BY <1>5
  <2>. QED  BY <2>1, <2>2, <1>5, CompiledProduct
            DEF Product, CompiledAsConfigured, ProfileApplied, CopiedAsStaged,
                ToolchainAsStaged, Copies
<1>. QED  BY <1>1, <1>2, <1>3, <1>4, <1>5

\* Production holds initially: nothing is made, and requests need no stripping.
LEMMA InitProduction == Init => Production
<1>. SUFFICES ASSUME Init PROVE Production
  OBVIOUS
<1>1. PICK n \in Requests : stack = <<n>>
  BY DEF Init
<1>2. n.rule \in {"program", "package"}
  BY DEF Requests, Tgt, Boot
<1>3. DOMAIN stack = {1} /\ stack[1] = n
  BY <1>1
<1>4. DOMAIN made = {}
  BY DEF Init
<1>. QED  BY <1>2, <1>3, <1>4 DEF Production, Stripped, Flagless

\* Every step keeps Production: a dependency that is evaluated is stripped, and
\* a target is finished from finished dependencies.
LEMMA NextProduction == Descending /\ Production /\ [Next]_vars => Production'
<1>. SUFFICES ASSUME Descending, Production, [Next]_vars PROVE Production'
  OBVIOUS
<1>0. stack \in Seq(Target) /\ host \in Execs
  BY DEF Descending
<1>. DEFINE L == Len(stack)
<1>t. ASSUME stack # <<>>
      PROVE  L \in Nat \ {0} /\ L \in DOMAIN stack /\ Top = stack[L] /\ Good(Top)
             /\ Stripped(Top) /\ DOMAIN stack = 1..L
  <2>1. L \in Nat \ {0} /\ L \in DOMAIN stack /\ Top = stack[L] /\ DOMAIN stack = 1..L
    BY <1>0, <1>t DEF Top
  <2>. QED  BY <2>1, <1>0 DEF Descending, Good, Production
<1>1. CASE Descend
  <2>. DEFINE d == CHOOSE d \in Missing : TRUE
  <2>1. stack # <<>> /\ Missing # {} /\ stack' = Append(stack, d)
        /\ made' = made /\ host' = host
    BY <1>1 DEF Descend
  <2>2. d \in Deps(Top)
    BY <2>1 DEF Missing
  <2>3. Stripped(d)
    BY <2>1, <2>2, <1>t, DepsStripped DEF Good
  <2>. HIDE DEF d
  <2>4. DOMAIN stack' = 1..(L + 1) /\ stack'[L + 1] = d
        /\ \A i \in 1..L : stack'[i] = stack[i]
    BY <2>1, <1>0
  <2>5. ASSUME NEW i \in DOMAIN stack' PROVE Stripped(stack'[i])
    <3>1. i = L + 1 \/ i \in 1..L
      BY <2>1, <2>4, <1>t
    <3>. QED  BY <3>1, <2>1, <2>3, <2>4, <1>t DEF Production
  <2>6. \A n \in DOMAIN made' : ProfileThere(n)'
    BY <2>1 DEF Production, ProfileThere, Profdata
  <2>. QED  BY <2>1, <2>5, <2>6 DEF Production
<1>2. CASE Finish
  <2>1. /\ stack # <<>> /\ ~Unmatched(Top) /\ Missing = {}
        /\ made' = [n \in DOMAIN made \cup {Top} |->
                      IF n \in DOMAIN made THEN made[n] ELSE Produce(Top)]
        /\ stack' = SubSeq(stack, 1, L - 1) /\ host' = host
    BY <1>2 DEF Finish
  <2>2. DOMAIN made' = DOMAIN made \cup {Top}
        /\ (\A n \in DOMAIN made : made'[n] = made[n])
        /\ (Top \notin DOMAIN made => made'[Top] = Produce(Top))
    BY <2>1
  <2>3. Deps(Top) \subseteq DOMAIN made
    BY <2>1 DEF Missing
  <2>4. Product(Top, Produce(Top))
    BY <2>1, <2>3, <1>0, <1>t, ProduceProduct
  <2>5. ProfileThere(Top)
    BY <2>3 DEF ProfileThere, Deps, ToolchainDeps
  <2>6. \A n \in DOMAIN made' : ProfileThere(n)
    BY <2>2, <2>5 DEF Production
  <2>7. \A n \in DOMAIN made' : ProfileThere(n)'
    BY <2>1, <2>2, <2>6 DEF ProfileThere, Profdata
  <2>8. \A n \in DOMAIN made' : Good(n) /\ Stripped(n) /\ Product(n, made'[n])
    BY <2>1, <2>2, <2>4, <1>t DEF Production
  <2>9. \A i \in DOMAIN stack' : Stripped(stack'[i])
    <3>1. DOMAIN stack' = 1..(L - 1) /\ \A i \in 1..(L - 1) : stack'[i] = stack[i]
      BY <2>1, <1>0, <1>t
    <3>2. \A i \in 1..(L - 1) : i \in DOMAIN stack
      BY <2>1, <1>t
    <3>. QED  BY <3>1, <3>2 DEF Production
  <2>. QED  BY <2>7, <2>8, <2>9 DEF Production
<1>3. CASE Fail
  <2>1. DOMAIN stack' = {} /\ made' = made /\ host' = host
    BY <1>3 DEF Fail
  <2>. QED  BY <2>1 DEF Production, ProfileThere, Profdata
<1>4. CASE UNCHANGED vars
  BY <1>4 DEF vars, Production, ProfileThere, Profdata
<1>. QED  BY <1>1, <1>2, <1>3, <1>4 DEF Next

\* What the finished targets are, whatever was requested.
LEMMA ProductionInvariant == Spec => []Production
<1>. QED  BY InitDescending, NextDescending, InitProduction, NextProduction, PTL DEF Spec

\* Every toolchain of stage k compiles with a compiler of generation k (the
\* table of toolchain/bootstrap/README.md), for every command line.
THEOREM Stages == Spec => []StageProduction
<1>1. Production => StageProduction
  BY DEF Production, Product, ToolchainAsStaged, StageProduction
<1>. QED  BY <1>1, ProductionInvariant, PTL

\* The profile applied to a Stage 3 compiler comes from instrumented Stage 2
\* compilers on its own CPU (llvm_fdo_profile_data.bzl, bootstrap_binary.bzl).
THEOREM Profiles == Spec => []ProfileMatchesCpu
<1>1. Production => ProfileMatchesCpu
  BY DEF Production, Product, ToolchainAsStaged, ProfileMatchesCpu, ProfileOf
<1>. QED  BY <1>1, ProductionInvariant, PTL

\* No sanitizer reaches a tool that is built from source, and no
\* instrumentation but that of Stage 2 (_bootstrap_transition_impl and
\* configure_builder_for_runtimes).
THEOREM CleanTools == Spec => []ToolsAreClean
<1>1. Production => ToolsAreClean
  <2>. SUFFICES ASSUME Production, NEW n \in DOMAIN made,
                       n.rule \in {"tool", "helper", "package", "internal"}
                PROVE  ~made[n].sanitized /\ (made[n].instrumented => n.k = 2)
    BY DEF ToolsAreClean
  <2>1. CASE n.rule \in Copies
    BY <2>1 DEF Production, Product, CopiedAsStaged
  <2>2. CASE n.rule = "internal"
    <3>1. n.cfg \in Config /\ n.cfg.flags = {}
      BY <2>2 DEF Production, Stripped, Flagless, Good, Target
    <3>2. Selected(n.cfg) = {}
      BY <3>1, NoFlags
    <3>. QED  BY <2>2, <3>2 DEF Production, Product, CompiledAsConfigured, Copies
  <2>. QED  BY <2>1, <2>2 DEF Copies
<1>. QED  BY <1>1, ProductionInvariant, PTL

\* No sanitizer and no instrumentation reaches the runtimes that every program
\* links (configure_builder_for_runtimes, cc_stage0_object, _reset_sanitizers).
THEOREM CleanRuntimes == Spec => []RuntimesAreClean
<1>1. Production => RuntimesAreClean
  <2>. SUFFICES ASSUME Production, NEW n \in DOMAIN made,
                       n.rule \in {"start_object", "runtime", "profile_runtime",
                                   "sanitizer_runtime", "symbolizer"}
                PROVE  ~made[n].sanitized /\ ~made[n].instrumented
    BY DEF RuntimesAreClean
  <2>1. n.cfg \in Config /\ n.cfg.flags = {}
    BY DEF Production, Stripped, Flagless, Good, Target
  <2>2. Selected(n.cfg) = {}
    BY <2>1, NoFlags
  <2>. QED  BY <2>2 DEF Production, Product, CompiledAsConfigured, Copies
<1>. QED  BY <1>1, ProductionInvariant, PTL
=============================================================================
