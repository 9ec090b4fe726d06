------------------------ MODULE ModuleExtensionsProofs ------------------------
(***************************************************************************)
(* What the module extensions decide is right for every number of modules, *)
(* whatever their tags say: which SDK the osx extension takes, which       *)
(* toolchains @llvm_toolchains declares, which kernel headers a target     *)
(* gets, which version of LLVM is built.  And for every source tree,       *)
(* making a repository of a checkout leaves the checkout as it was.        *)
(***************************************************************************)
EXTENDS ModuleExtensions, FiniteSetTheorems, SequenceTheorems, TLAPS

-----------------------------------------------------------------------------
(* osx                                                                      *)

OsxTypes ==
  /\ modules \in Seq(Osx!Tags) /\ Len(modules) <= MaxModules
  /\ \A i \in DOMAIN modules : modules[i].root => i = 1
  /\ mac \in BOOLEAN /\ forceHost \in BOOLEAN
  /\ next \in Nat \ {0}

\* What _get_sdk_source knows of the first n - 1 modules.
SeenSources(n) ==
  /\ \A i \in DOMAIN modules : i < n => ~Osx!TooManyTags(i)
  /\ rootSource = IF n > 1 /\ 1 \in DOMAIN modules /\ modules[1].root
                  THEN Osx!ModuleSource(1) ELSE None
  /\ dependencySource = None =>
       \A i \in DOMAIN modules :
         i < n /\ ~modules[i].root => Osx!ModuleSource(i) = None
  /\ dependencySource # None =>
       \E i \in DOMAIN modules :
         i < n /\ ~modules[i].root /\ dependencySource = Osx!ModuleSource(i)

OsxInv ==
  /\ OsxTypes
  /\ pc \in {"source", "tags", "declare", "done", "failed"}
  /\ pc = "source" => next <= Len(modules) + 1 /\ SeenSources(next)
  /\ pc \in {"tags", "declare", "done"} =>
       /\ SeenSources(Len(modules) + 1)
       /\ sdkSource = Osx!Winner /\ sdkSource # None
  /\ pc # "done" => repository = {}
  /\ pc = "done" => \A r \in repository : r.source = sdkSource
  /\ pc = "failed" => \/ \E i \in DOMAIN modules : Osx!TooManyTags(i)
                      \/ \A i \in DOMAIN modules : ~Osx!Offers(i)

\* The osx extension goes on alone.
LEMMA OsxAlone ==
  ASSUME extension = "osx", [Next]_vars
  PROVE  /\ extension' = "osx"
         /\ \/ Osx!Next
            \/ UNCHANGED <<modules, pc, next, mac, forceHost, rootSource,
                           dependencySource, sdkSource, repository>>
  BY DEF Next, vars, shared, sdk, ToolchainStep, OsxStep, LlvmStep, KernelStep,
         ProjectStep, Done

\* The extension starts with the first module.
LEMMA OsxInit ==
  ASSUME Osx!Init
  PROVE  OsxInv
<1>1. PICK n \in 0..MaxModules : modules \in [1..n -> Osx!Tags]
  BY DEF Osx!Init
<1>2. modules \in Seq(Osx!Tags) /\ Len(modules) = n /\ n \in Nat
  BY <1>1, ExtensionsAssumption
<1>3. OsxTypes
  BY <1>1, <1>2, ExtensionsAssumption DEF OsxTypes, Osx!Init
<1>4. SeenSources(1) /\ 1 <= Len(modules) + 1
  BY <1>2 DEF SeenSources, Osx!Init
<1> QED BY <1>3, <1>4 DEF OsxInv, Osx!Init

\* A module has a source exactly when it offers one that the host can use.
LEMMA SourceOffered ==
  ASSUME OsxTypes, NEW i \in DOMAIN modules
  PROVE  /\ i \in 1..Len(modules) /\ i \in Nat
         /\ Osx!ModuleSource(i) \in {None, Osx!Host, Osx!Archive(i)}
         /\ Osx!Host # None /\ Osx!Archive(i) # None
         /\ Osx!ModuleSource(i) # None <=> Osx!Offers(i)
         /\ Osx!ModuleSource(i) = Osx!Host => mac /\ modules[i].from_host > 0
         /\ Osx!ModuleSource(i) = Osx!Archive(i) => modules[i].from_archive > 0
         /\ mac /\ modules[i].from_host > 0 => Osx!ModuleSource(i) = Osx!Host
         /\ modules[i].from_archive \in 0..2 /\ modules[i].from_host \in 0..2
         /\ modules[i].root \in BOOLEAN
<1>1. /\ i \in 1..Len(modules) /\ i \in Nat /\ i \in 1..MaxModules
      /\ modules[i] \in Osx!Tags
  BY ExtensionsAssumption DEF OsxTypes
<1>2. Osx!Host # None /\ Osx!Archive(i) # None
  BY <1>1, NoneAssumption DEF Osx!Host, Osx!Archive
<1>3. Osx!Host # Osx!Archive(i)
  <2>1. Osx!Host.kind = "host" /\ Osx!Archive(i).kind = "archive"
    BY DEF Osx!Host, Osx!Archive
  <2> QED BY <2>1
<1>4. /\ modules[i].from_archive \in 0..2 /\ modules[i].from_host \in 0..2
      /\ modules[i].root \in BOOLEAN
  BY <1>1 DEF Osx!Tags
<1> HIDE DEF Osx!Host, Osx!Archive
<1>5. CASE mac /\ modules[i].from_host > 0
  BY <1>1, <1>2, <1>3, <1>4, <1>5 DEF Osx!ModuleSource, Osx!Offers
<1>6. CASE ~(mac /\ modules[i].from_host > 0)
  BY <1>1, <1>2, <1>3, <1>4, <1>6 DEF Osx!ModuleSource, Osx!Offers
<1> QED BY <1>5, <1>6

\* Reading the tags of one more module.
LEMMA SeenOneMore ==
  ASSUME OsxTypes, next <= Len(modules), SeenSources(next), Osx!ReadSource
  PROVE  SeenSources(next)'
<1>1. /\ next \in DOMAIN modules /\ next \in Nat /\ next >= 1
      /\ DOMAIN modules = 1..Len(modules) /\ Len(modules) \in Nat
  BY DEF OsxTypes
<1>2. /\ next' = next + 1 /\ UNCHANGED <<modules, mac>>
      /\ ~Osx!TooManyTags(next)
      /\ rootSource' = IF modules[next].root THEN Osx!ModuleSource(next) ELSE rootSource
      /\ dependencySource' =
           IF modules[next].root \/ Osx!ModuleSource(next) = None THEN dependencySource
           ELSE Osx!ModuleSource(next)
  BY DEF Osx!ReadSource, Osx!inputs
<1>3. \A i \in DOMAIN modules : /\ i \in Nat /\ i < next + 1 <=> i < next \/ i = next
                                /\ Osx!ModuleSource(i)' = Osx!ModuleSource(i)
                                /\ Osx!TooManyTags(i)' <=> Osx!TooManyTags(i)
  BY <1>1, <1>2 DEF Osx!ModuleSource, Osx!TooManyTags, Osx!Host, Osx!Archive
<1>4. \A i \in DOMAIN modules' : i < next' => ~Osx!TooManyTags(i)'
  BY <1>2, <1>3 DEF SeenSources
<1>5. modules[next].root => next = 1
  BY <1>1 DEF OsxTypes
<1>6. rootSource' = IF next' > 1 /\ 1 \in DOMAIN modules' /\ modules'[1].root
                    THEN Osx!ModuleSource(1)' ELSE None
  <2>1. CASE next = 1
    BY <1>1, <1>2, <1>3, <2>1 DEF SeenSources
  <2>2. CASE next # 1
    BY <1>1, <1>2, <1>3, <1>5, <2>2 DEF SeenSources
  <2> QED BY <2>1, <2>2
<1>7. ASSUME dependencySource' = None, NEW i \in DOMAIN modules', i < next',
             ~modules'[i].root
      PROVE  Osx!ModuleSource(i)' = None
  <2>1. dependencySource = None
    BY <1>2, <1>7
  <2>2. CASE i < next
    BY <1>2, <1>3, <1>7, <2>1, <2>2 DEF SeenSources
  <2>3. CASE i = next
    BY <1>2, <1>3, <1>7, <2>3
  <2> QED BY <1>2, <1>3, <1>7, <2>2, <2>3
<1>8. ASSUME dependencySource' # None
      PROVE  \E i \in DOMAIN modules' :
               i < next' /\ ~modules'[i].root /\ dependencySource' = Osx!ModuleSource(i)'
  <2>1. CASE modules[next].root \/ Osx!ModuleSource(next) = None
    <3>1. PICK i \in DOMAIN modules :
            i < next /\ ~modules[i].root /\ dependencySource = Osx!ModuleSource(i)
      BY <1>2, <1>8, <2>1 DEF SeenSources
    <3> QED BY <1>2, <1>3, <2>1, <3>1
  <2>2. CASE ~(modules[next].root \/ Osx!ModuleSource(next) = None)
    BY <1>1, <1>2, <1>3, <2>2
  <2> QED BY <2>1, <2>2
<1> QED BY <1>4, <1>6, <1>7, <1>8 DEF SeenSources

\* Nobody offers an SDK when the loop over the modules found none.
LEMMA NothingOffered ==
  ASSUME OsxTypes, SeenSources(Len(modules) + 1), Osx!Winner = None,
         NEW i \in DOMAIN modules
  PROVE  ~Osx!Offers(i)
<1>1. /\ i \in 1..Len(modules) /\ Len(modules) \in Nat /\ DOMAIN modules = 1..Len(modules)
      /\ i < Len(modules) + 1 /\ Len(modules) + 1 > 1 /\ 1 \in DOMAIN modules
  BY DEF OsxTypes
<1>2. Osx!Host # None
  BY SourceOffered
<1>3. rootSource = None /\ dependencySource = None
  BY <1>2 DEF Osx!Winner
<1>4. Osx!ModuleSource(i) = None
  <2>1. CASE modules[i].root
    <3>1. i = 1
      BY <2>1 DEF OsxTypes
    <3> QED BY <1>1, <1>3, <2>1, <3>1 DEF SeenSources
  <2>2. CASE ~modules[i].root
    BY <1>1, <1>3, <2>2 DEF SeenSources
  <2> QED BY <2>1, <2>2
<1> QED BY <1>4, SourceOffered

\* Every step of the osx extension preserves what it knows.
LEMMA OsxNext ==
  ASSUME OsxInv, \/ Osx!Next
                 \/ UNCHANGED <<modules, pc, next, mac, forceHost, rootSource,
                                dependencySource, sdkSource, repository>>
  PROVE  OsxInv'
<1>0. /\ OsxTypes /\ Len(modules) \in Nat /\ DOMAIN modules = 1..Len(modules)
      /\ next \in Nat
  BY DEF OsxInv, OsxTypes
\* Steps that leave the sources alone.
<1>1. ASSUME UNCHANGED <<modules, mac, forceHost, rootSource, dependencySource>>
      PROVE  /\ next' \in Nat \ {0} => OsxTypes'
             /\ Osx!Winner' = Osx!Winner
             /\ \A i \in DOMAIN modules : /\ Osx!TooManyTags(i)' <=> Osx!TooManyTags(i)
                                          /\ Osx!Offers(i)' <=> Osx!Offers(i)
  <2>1. next' \in Nat \ {0} => OsxTypes'
    BY <1>1, <1>0 DEF OsxTypes
  <2>2. \A i \in DOMAIN modules : /\ Osx!TooManyTags(i)' <=> Osx!TooManyTags(i)
                                  /\ Osx!Offers(i)' <=> Osx!Offers(i)
    BY <1>1 DEF Osx!TooManyTags, Osx!Offers
  <2>3. Osx!Winner' = Osx!Winner
    BY <1>1 DEF Osx!Winner, Osx!Host
  <2> QED BY <2>1, <2>2, <2>3
<1>2. CASE UNCHANGED <<modules, pc, next, mac, forceHost, rootSource,
                       dependencySource, sdkSource, repository>>
  <2>1. /\ OsxTypes'
        /\ SeenSources(next)' <=> SeenSources(next)
        /\ SeenSources(Len(modules) + 1)' <=> SeenSources(Len(modules) + 1)
        /\ Osx!Winner' = Osx!Winner
    <3>2. next' = next /\ Len(modules') = Len(modules)
      BY <1>2
    <3>3. SeenSources(next)' <=> SeenSources(next)
      BY <1>2, <3>2 DEF SeenSources, Osx!TooManyTags, Osx!ModuleSource, Osx!Host, Osx!Archive
    <3>4. SeenSources(Len(modules) + 1)' <=> SeenSources(Len(modules) + 1)
      BY <1>2, <3>2 DEF SeenSources, Osx!TooManyTags, Osx!ModuleSource, Osx!Host, Osx!Archive
    <3> QED BY <1>1, <1>2, <3>3, <3>4 DEF OsxInv, OsxTypes
  <2> QED BY <1>1, <1>2, <2>1 DEF OsxInv
<1>3. CASE Osx!ReadSource
  <2>1. /\ pc = "source" /\ pc' = "source" /\ next <= Len(modules) /\ next' = next + 1
        /\ UNCHANGED <<modules, mac, forceHost, sdkSource, repository>>
    BY <1>3 DEF Osx!ReadSource, Osx!inputs
  <2>2. SeenSources(next)'
    BY <1>0, <1>3, <2>1, SeenOneMore DEF OsxInv
  <2>3. OsxTypes' /\ next' <= Len(modules') + 1
    BY <1>0, <2>1 DEF OsxTypes
  <2> QED BY <2>1, <2>2, <2>3 DEF OsxInv
<1>4. CASE Osx!RefuseTags
  <2>1. /\ pc = "source" /\ pc' = "failed" /\ next <= Len(modules) /\ next' = next
        /\ Osx!TooManyTags(next) /\ repository' = repository
        /\ UNCHANGED <<modules, mac, forceHost, rootSource, dependencySource>>
    BY <1>4 DEF Osx!RefuseTags, Osx!inputs
  <2>2. next \in DOMAIN modules
    BY <1>0, <2>1 DEF OsxInv, OsxTypes
  <2>3. OsxTypes' /\ \E i \in DOMAIN modules' : Osx!TooManyTags(i)'
    BY <1>0, <1>1, <2>1, <2>2 DEF OsxInv, OsxTypes
  <2> QED BY <2>1, <2>3 DEF OsxInv
<1>5. CASE Osx!ChooseSource
  <2>1. /\ pc = "source" /\ pc' = "tags" /\ next > Len(modules) /\ next' = 1
        /\ Osx!Winner # None /\ sdkSource' = Osx!Winner
        /\ UNCHANGED <<modules, mac, forceHost, rootSource, dependencySource, repository>>
    BY <1>5 DEF Osx!ChooseSource, Osx!inputs
  <2>2. next = Len(modules) + 1
    BY <1>0, <2>1 DEF OsxInv
  <2>3. SeenSources(Len(modules) + 1)
    BY <2>1, <2>2 DEF OsxInv
  <2>4. SeenSources(Len(modules) + 1)'
    BY <2>1, <2>3 DEF SeenSources, Osx!TooManyTags, Osx!ModuleSource, Osx!Host, Osx!Archive
  <2>5. OsxTypes' /\ Osx!Winner' = Osx!Winner
    BY <1>1, <2>1
  <2> QED BY <2>1, <2>4, <2>5 DEF OsxInv
<1>6. CASE Osx!MissingSource
  <2>1. /\ pc = "source" /\ pc' = "failed" /\ next > Len(modules) /\ next' = next
        /\ Osx!Winner = None
        /\ UNCHANGED <<modules, mac, forceHost, rootSource, dependencySource, repository>>
    BY <1>6 DEF Osx!MissingSource, Osx!inputs
  <2>2. next = Len(modules) + 1
    BY <1>0, <2>1 DEF OsxInv
  <2>3. \A i \in DOMAIN modules : ~Osx!Offers(i)
    BY <1>0, <2>1, <2>2, NothingOffered DEF OsxInv
  <2>4. OsxTypes' /\ \A i \in DOMAIN modules' : ~Osx!Offers(i)'
    BY <1>0, <1>1, <2>1, <2>3 DEF OsxInv, OsxTypes
  <2> QED BY <2>1, <2>4 DEF OsxInv
<1>7. CASE Osx!ReadTags \/ Osx!ReadEnvironment \/ Osx!DeclareRepository
  <2>1. /\ pc \in {"tags", "declare"} /\ pc' \in {"tags", "declare", "done"}
        /\ next' \in {next, next + 1}
        /\ UNCHANGED <<modules, mac, forceHost, rootSource, dependencySource, sdkSource>>
    BY <1>7 DEF Osx!ReadTags, Osx!ReadEnvironment, Osx!DeclareRepository, Osx!inputs
  <2>2. /\ pc' # "done" => repository' = {}
        /\ pc' = "done" => \A r \in repository' : r.source = sdkSource
    BY <1>7, <2>1 DEF OsxInv, Osx!ReadTags, Osx!ReadEnvironment, Osx!DeclareRepository
  <2>3. SeenSources(Len(modules) + 1)
    BY <2>1 DEF OsxInv
  <2>4. SeenSources(Len(modules) + 1)'
    BY <2>1, <2>3 DEF SeenSources, Osx!TooManyTags, Osx!ModuleSource, Osx!Host, Osx!Archive
  <2>5. OsxTypes' /\ Osx!Winner' = Osx!Winner
    <3>1. next' \in Nat \ {0}
      BY <1>0, <2>1 DEF OsxTypes
    <3> QED BY <1>1, <2>1, <3>1
  <2> QED BY <2>1, <2>2, <2>4, <2>5 DEF OsxInv
<1> QED BY <1>2, <1>3, <1>4, <1>5, <1>6, <1>7 DEF Osx!Next

\* What the extension knows is enough to justify its choice.
LEMMA OsxJustified ==
  ASSUME OsxInv
  PROVE  Osx!SourceJustified
<1>0. /\ OsxTypes /\ Len(modules) \in Nat /\ DOMAIN modules = 1..Len(modules)
  BY DEF OsxInv, OsxTypes
<1> SUFFICES ASSUME NEW r \in repository
             PROVE  /\ r.source.kind = "host" =>
                         /\ mac
                         /\ \/ forceHost
                            \/ /\ \E i \in DOMAIN modules : modules[i].from_host > 0
                               /\ \A i \in DOMAIN modules :
                                    modules[i].root /\ Osx!Offers(i) => modules[i].from_host > 0
                    /\ r.source.kind = "archive" =>
                         /\ modules[r.source.module].from_archive = 1
                         /\ ~(mac /\ forceHost)
                         /\ \A i \in DOMAIN modules :
                              modules[i].root /\ Osx!Offers(i) => r.source.module = i
  BY DEF OsxInv, Osx!SourceJustified
<1>1. /\ pc = "done" /\ r.source = sdkSource /\ sdkSource = Osx!Winner
      /\ Osx!Winner # None /\ SeenSources(Len(modules) + 1)
  BY DEF OsxInv
<1>2. \A i \in DOMAIN modules : i < Len(modules) + 1
  BY <1>0
<1>3. Osx!Host.kind = "host" /\ \A i : Osx!Archive(i).kind = "archive" /\ Osx!Archive(i).module = i
  BY DEF Osx!Host, Osx!Archive
<1>4. CASE mac /\ forceHost
  <2>1. r.source = Osx!Host
    BY <1>1, <1>4 DEF Osx!Winner
  <2> QED BY <1>3, <1>4, <2>1
<1>5. CASE ~(mac /\ forceHost) /\ rootSource # None
  <2>1. r.source = rootSource
    BY <1>1, <1>5 DEF Osx!Winner
  <2>2. 1 \in DOMAIN modules /\ modules[1].root /\ rootSource = Osx!ModuleSource(1)
    BY <1>1, <1>5 DEF SeenSources
  <2>3. ~Osx!TooManyTags(1)
    BY <1>1, <1>2, <2>2 DEF SeenSources
  <2>4. \A i \in DOMAIN modules : modules[i].root => i = 1
    BY <1>0 DEF OsxTypes
  <2>5. rootSource = Osx!Host \/ rootSource = Osx!Archive(1)
    BY <1>0, <1>5, <2>2, SourceOffered
  <2>6. CASE rootSource = Osx!Host
    <3>1. mac /\ modules[1].from_host > 0
      BY <1>0, <2>2, <2>6, SourceOffered
    <3> QED BY <1>3, <2>1, <2>2, <2>4, <2>6, <3>1
  <2>7. CASE rootSource = Osx!Archive(1)
    <3>1. modules[1].from_archive > 0 /\ modules[1].from_archive \in 0..2
      BY <1>0, <2>2, <2>7, SourceOffered
    <3>2. modules[1].from_archive = 1
      BY <2>3, <3>1 DEF Osx!TooManyTags
    <3> QED BY <1>3, <1>5, <2>1, <2>4, <2>7, <3>2
  <2> QED BY <2>5, <2>6, <2>7
<1>6. CASE ~(mac /\ forceHost) /\ rootSource = None
  <2>1. r.source = dependencySource /\ dependencySource # None
    BY <1>1, <1>6 DEF Osx!Winner
  <2>2. PICK i \in DOMAIN modules : ~modules[i].root /\ dependencySource = Osx!ModuleSource(i)
    BY <1>1, <2>1 DEF SeenSources
  <2>3. ~Osx!TooManyTags(i)
    BY <1>1, <1>2 DEF SeenSources
  <2>4. ASSUME NEW j \in DOMAIN modules, modules[j].root
        PROVE  ~Osx!Offers(j)
    <3>1. j = 1 /\ Len(modules) + 1 > 1
      BY <1>0, <2>4 DEF OsxTypes
    <3>2. Osx!ModuleSource(j) = None
      BY <1>1, <1>6, <2>4, <3>1 DEF SeenSources
    <3> QED BY <1>0, <3>2, SourceOffered
  <2>5. dependencySource = Osx!Host \/ dependencySource = Osx!Archive(i)
    BY <1>0, <2>1, <2>2, SourceOffered
  <2>6. CASE dependencySource = Osx!Host
    <3>1. mac /\ modules[i].from_host > 0
      BY <1>0, <2>2, <2>6, SourceOffered
    <3> QED BY <1>3, <2>1, <2>4, <2>6, <3>1
  <2>7. CASE dependencySource = Osx!Archive(i)
    <3>1. modules[i].from_archive > 0 /\ modules[i].from_archive \in 0..2
      BY <1>0, <2>2, <2>7, SourceOffered
    <3>2. modules[i].from_archive = 1
      BY <2>3, <3>1 DEF Osx!TooManyTags
    <3> QED BY <1>3, <1>6, <2>1, <2>4, <2>7, <3>2
  <2> QED BY <2>5, <2>6, <2>7
<1> QED BY <1>4, <1>5, <1>6

\* Whatever the modules ask for, @macos_sdk is an SDK that somebody entitled to
\* it asked for, and the extension fails for a reason (extensions/osx.bzl).
THEOREM Justified == Spec => []SourceJustified
<1> DEFINE I == extension = "osx" => OsxInv
<1>1. Init => I
  BY OsxInit DEF Init
<1>2. I /\ [Next]_vars => I'
  <2> SUFFICES ASSUME I, [Next]_vars, extension' = "osx" PROVE OsxInv'
    OBVIOUS
  <2>1. extension = "osx"
    BY DEF Next, vars, ToolchainStep, OsxStep, LlvmStep, KernelStep, ProjectStep, Done
  <2> QED BY <2>1, OsxAlone, OsxNext
<1>3. I => SourceJustified
  BY OsxJustified DEF SourceJustified
<1> QED BY <1>1, <1>2, <1>3, PTL DEF Spec

-----------------------------------------------------------------------------
(* toolchain                                                                *)

PlatformTags == [exec : Seq(Platforms), target : Seq(Platforms)]

\* The platforms that the first n - 1 modules name.
ExecsBefore(n) == UNION {Toolchain!ToSet(modules[i].exec) :
                           i \in {j \in DOMAIN modules : j < n}}
TargetsBefore(n) == UNION {Toolchain!ToSet(modules[i].target) :
                             i \in {j \in DOMAIN modules : j < n}}

\* What the macro's loop declares at the stages in its first n - 1 turns.
DeclaredBefore(stages, n) ==
  UNION {UNION {Toolchain!DeclaredFor(s, execs[i]) : s \in stages} :
           i \in {j \in DOMAIN execs : j < n}}

ToolchainInv ==
  /\ modules \in Seq(PlatformTags)
  /\ execs \in Seq(Platforms) /\ targets \in Seq(Platforms)
  /\ next \in Nat \ {0}
  /\ pc \in {"gather", "stage0", "bootstrap", "loaded", "refused", "broken"}
  /\ pc = "gather" =>
       /\ next <= Len(modules) + 1
       /\ Toolchain!ToSet(execs) = ExecsBefore(next)
       /\ Toolchain!ToSet(targets) = TargetsBefore(next)
       /\ Toolchain!ToSet(execs) \subseteq Toolchain!ToSet(SupportedExecs)
       /\ declared = {}
  /\ pc \in {"stage0", "bootstrap", "loaded"} =>
       /\ Toolchain!ToSet(execs) = Toolchain!Requested("exec", SupportedExecs)
       /\ Toolchain!ToSet(targets) = Toolchain!Requested("target", SupportedTargets)
       /\ Toolchain!ToSet(execs) \subseteq Toolchain!ToSet(SupportedExecs)
  /\ pc \in {"stage0", "bootstrap"} => next <= Len(execs) + 1
  /\ pc = "stage0" => declared = DeclaredBefore({"stage0"}, next)
  /\ pc = "bootstrap" =>
       declared = DeclaredBefore({"stage0"}, Len(execs) + 1)
                    \cup DeclaredBefore(Toolchain!BootstrapStages, next)
  /\ pc = "loaded" =>
       declared = DeclaredBefore({"stage0"}, Len(execs) + 1)
                    \cup DeclaredBefore(Toolchain!BootstrapStages, Len(execs) + 1)

\* The toolchain extension goes on alone.
LEMMA ToolchainAlone ==
  ASSUME extension = "toolchain", [Next]_vars
  PROVE  /\ extension' = "toolchain"
         /\ Toolchain!Next \/ UNCHANGED <<modules, pc, next, execs, targets, declared>>
  BY DEF Next, vars, shared, registration, ToolchainStep, OsxStep, LlvmStep, KernelStep,
         ProjectStep, Done

\* The elements of a sequence of tags.
LEMMA ToolchainToSet ==
  ASSUME NEW S, NEW list \in Seq(S)
  PROVE  /\ Toolchain!ToSet(list) = {list[i] : i \in 1..Len(list)}
         /\ Toolchain!ToSet(list) \subseteq S
         /\ Toolchain!ToSet(list) = {} <=> list = <<>>
<1>1. DOMAIN list = 1..Len(list) /\ Len(list) \in Nat
  OBVIOUS
<1>2. Toolchain!ToSet(list) = {list[i] : i \in 1..Len(list)}
  BY <1>1 DEF Toolchain!ToSet
<1>3. Toolchain!ToSet(list) \subseteq S
  BY <1>2
<1>4. ASSUME list # <<>> PROVE Toolchain!ToSet(list) # {}
  <2>1. 1 \in 1..Len(list)
    BY <1>4
  <2> QED BY <1>2, <2>1
<1>5. list = <<>> => Toolchain!ToSet(list) = {}
  BY <1>2
<1> QED BY <1>2, <1>3, <1>4, <1>5

\* The tags of no module have been read.
LEMMA ToolchainInit ==
  ASSUME Toolchain!Init
  PROVE  ToolchainInv
<1>0. MaxModules \in Nat /\ MaxTags \in Nat
  BY ExtensionsAssumption
<1>1. ASSUME NEW S, NEW n \in Nat, NEW s \in Toolchain!BoundedSeq(S, n)
      PROVE  s \in Seq(S)
  BY DEF Toolchain!BoundedSeq, Toolchain!SeqOf
<1>2. modules \in Seq([exec : Toolchain!BoundedSeq(Platforms, MaxTags),
                       target : Toolchain!BoundedSeq(Platforms, MaxTags)])
  BY <1>0, <1>1 DEF Toolchain!Init
<1>3. [exec : Toolchain!BoundedSeq(Platforms, MaxTags),
       target : Toolchain!BoundedSeq(Platforms, MaxTags)] \subseteq PlatformTags
  BY <1>0, <1>1 DEF PlatformTags
<1>4. modules \in Seq(PlatformTags)
  <2> DEFINE Tags == [exec : Toolchain!BoundedSeq(Platforms, MaxTags),
                      target : Toolchain!BoundedSeq(Platforms, MaxTags)]
  <2>1. modules \in Seq(Tags) /\ Tags \subseteq PlatformTags
    BY <1>2, <1>3
  <2> HIDE DEF Tags
  <2> QED BY <2>1
<1>5. \A i \in DOMAIN modules : ~(i < 1)
  BY <1>4
<1>6. ExecsBefore(1) = {} /\ TargetsBefore(1) = {}
  BY <1>5 DEF ExecsBefore, TargetsBefore
<1>7. Toolchain!ToSet(<<>>) = {}
  BY DEF Toolchain!ToSet
<1>8. Len(modules) \in Nat
  BY <1>4
<1>9. pc = "gather" /\ next = 1 /\ execs = <<>> /\ targets = <<>> /\ declared = {}
  BY DEF Toolchain!Init
<1>10. Toolchain!ToSet(execs) = ExecsBefore(next) /\ Toolchain!ToSet(targets) = TargetsBefore(next)
       /\ Toolchain!ToSet(execs) \subseteq Toolchain!ToSet(SupportedExecs)
  BY <1>6, <1>7, <1>9
<1>11. execs \in Seq(Platforms) /\ targets \in Seq(Platforms)
  BY <1>9
<1> QED BY <1>4, <1>8, <1>9, <1>10, <1>11 DEF ToolchainInv

\* The tags of all modules, by the name of the tag.
LEMMA RequestedPlatforms ==
  ASSUME modules \in Seq(PlatformTags)
  PROVE  /\ ExecsBefore(Len(modules) + 1) =
              UNION {Toolchain!ToSet(modules[i]["exec"]) : i \in DOMAIN modules}
         /\ TargetsBefore(Len(modules) + 1) =
              UNION {Toolchain!ToSet(modules[i]["target"]) : i \in DOMAIN modules}
<1>1. \A j \in DOMAIN modules : j < Len(modules) + 1
  OBVIOUS
<1>2. {j \in DOMAIN modules : j < Len(modules) + 1} = DOMAIN modules
  BY <1>1
<1>3. \A i \in DOMAIN modules : modules[i]["exec"] = modules[i].exec
                                /\ modules[i]["target"] = modules[i].target
  BY DEF PlatformTags
<1> QED BY <1>2, <1>3 DEF ExecsBefore, TargetsBefore

\* The tags of one more module.
LEMMA GatheredPlatforms ==
  ASSUME modules \in Seq(PlatformTags), NEW n \in 1..Len(modules)
  PROVE  /\ ExecsBefore(n + 1) = ExecsBefore(n) \cup Toolchain!ToSet(modules[n].exec)
         /\ TargetsBefore(n + 1) = TargetsBefore(n) \cup Toolchain!ToSet(modules[n].target)
<1>1. {j \in DOMAIN modules : j < n + 1} = {j \in DOMAIN modules : j < n} \cup {n}
  OBVIOUS
<1> QED BY <1>1 DEF ExecsBefore, TargetsBefore

\* The targets of one more turn of a macro's loop.
LEMMA DeclaredTurn ==
  ASSUME execs \in Seq(Platforms), NEW stages
  PROVE  /\ DeclaredBefore(stages, 1) = {}
         /\ \A n \in 1..Len(execs) :
              DeclaredBefore(stages, n + 1) =
                DeclaredBefore(stages, n)
                  \cup UNION {Toolchain!DeclaredFor(s, execs[n]) : s \in stages}
<1>1. {j \in DOMAIN execs : j < 1} = {}
  OBVIOUS
<1>2. DeclaredBefore(stages, 1) = {}
  BY <1>1 DEF DeclaredBefore
<1>3. ASSUME NEW n \in 1..Len(execs)
      PROVE  DeclaredBefore(stages, n + 1) =
               DeclaredBefore(stages, n)
                 \cup UNION {Toolchain!DeclaredFor(s, execs[n]) : s \in stages}
  <2>1. {j \in DOMAIN execs : j < n + 1} = {j \in DOMAIN execs : j < n} \cup {n}
    OBVIOUS
  <2> QED BY <2>1 DEF DeclaredBefore
<1> QED BY <1>2, <1>3

\* A concatenation has the elements of both.
LEMMA ToolchainConcat ==
  ASSUME NEW S, NEW s \in Seq(S), NEW t \in Seq(S)
  PROVE  /\ s \o t \in Seq(S)
         /\ Toolchain!ToSet(s \o t) = Toolchain!ToSet(s) \cup Toolchain!ToSet(t)
<1>1. s \o t \in Seq(S) /\ Len(s \o t) = Len(s) + Len(t)
      /\ Len(s) \in Nat /\ Len(t) \in Nat
  OBVIOUS
<1>2. Toolchain!ToSet(s) = {s[i] : i \in 1..Len(s)}
  BY ToolchainToSet
<1>3. Toolchain!ToSet(t) = {t[i] : i \in 1..Len(t)}
  BY ToolchainToSet
<1>4. Toolchain!ToSet(s \o t) = {(s \o t)[i] : i \in 1..(Len(s) + Len(t))}
  <2> DEFINE st == s \o t
  <2>1. st \in Seq(S) /\ Len(st) = Len(s) + Len(t)
    BY <1>1
  <2> HIDE DEF st
  <2>2. Toolchain!ToSet(st) = {st[i] : i \in 1..Len(st)}
    BY <2>1, ToolchainToSet
  <2> QED BY <2>1, <2>2 DEF st
<1>5. \A i \in 1..Len(s) : i \in 1..(Len(s) + Len(t)) /\ (s \o t)[i] = s[i]
  BY <1>1
<1>6. \A i \in 1..Len(t) : i + Len(s) \in 1..(Len(s) + Len(t)) /\ (s \o t)[i + Len(s)] = t[i]
  BY <1>1
<1>7. \A i \in 1..(Len(s) + Len(t)) :
         i \in 1..Len(s) \/ (i - Len(s) \in 1..Len(t) /\ i = (i - Len(s)) + Len(s))
  BY <1>1
<1>8. Toolchain!ToSet(s) \subseteq Toolchain!ToSet(s \o t)
  BY <1>2, <1>4, <1>5
<1>9. Toolchain!ToSet(t) \subseteq Toolchain!ToSet(s \o t)
  BY <1>3, <1>4, <1>6
<1>10. Toolchain!ToSet(s \o t) \subseteq Toolchain!ToSet(s) \cup Toolchain!ToSet(t)
  <2> SUFFICES ASSUME NEW i \in 1..(Len(s) + Len(t))
               PROVE  (s \o t)[i] \in Toolchain!ToSet(s) \cup Toolchain!ToSet(t)
    BY <1>4
  <2>1. CASE i \in 1..Len(s)
    BY <1>2, <1>5, <2>1
  <2>2. CASE i - Len(s) \in 1..Len(t) /\ i = (i - Len(s)) + Len(s)
    <3>1. PICK j \in 1..Len(t) : i = j + Len(s)
      BY <2>2
    <3> QED BY <1>3, <1>6, <3>1
  <2> QED BY <1>7, <2>1, <2>2
<1> QED BY <1>1, <1>8, <1>9, <1>10

\* The platforms that are asked for depend on the tags alone.
LEMMA RequestedFrame ==
  ASSUME modules' = modules
  PROVE  /\ Toolchain!Requested("exec", SupportedExecs)' = Toolchain!Requested("exec", SupportedExecs)
         /\ Toolchain!Requested("target", SupportedTargets)' =
              Toolchain!Requested("target", SupportedTargets)
<1>1. Toolchain!Requested("exec", SupportedExecs)' = Toolchain!Requested("exec", SupportedExecs)
  BY DEF Toolchain!Requested, Toolchain!ToSet
<1>2. Toolchain!Requested("target", SupportedTargets)' =
        Toolchain!Requested("target", SupportedTargets)
  BY DEF Toolchain!Requested, Toolchain!ToSet
<1> QED BY <1>1, <1>2

\* One step of the toolchain extension or of its package.
LEMMA ToolchainNext ==
  ASSUME ToolchainInv, Toolchain!Next \/ UNCHANGED <<modules, pc, next, execs, targets, declared>>
  PROVE  ToolchainInv'
<1>0. /\ SupportedExecs \in Seq(Platforms) /\ SupportedExecs # <<>>
      /\ SupportedTargets \in Seq(Platforms) /\ SupportedTargets # <<>>
  BY ExtensionsAssumption
<1>1. /\ modules \in Seq(PlatformTags) /\ execs \in Seq(Platforms) /\ targets \in Seq(Platforms)
      /\ next \in Nat \ {0}
  BY DEF ToolchainInv
<1>2. Len(modules) \in Nat /\ Len(execs) \in Nat
  BY <1>1
<1>3. CASE Toolchain!GatherModule
  <2>1. /\ pc = "gather" /\ pc' = "gather" /\ next \in 1..Len(modules) /\ next' = next + 1
        /\ modules' = modules /\ declared' = declared /\ declared = {}
    BY <1>1, <1>2, <1>3 DEF Toolchain!GatherModule, ToolchainInv
  <2>2. /\ execs' = execs \o modules[next].exec
        /\ targets' = targets \o modules[next].target
        /\ Toolchain!ToSet(modules[next].exec) \subseteq Toolchain!ToSet(SupportedExecs)
    BY <1>3 DEF Toolchain!GatherModule, Toolchain!Valid
  <2>3. modules[next].exec \in Seq(Platforms) /\ modules[next].target \in Seq(Platforms)
    <3>1. modules[next] \in PlatformTags
      BY <1>1, <2>1
    <3> QED BY <3>1 DEF PlatformTags
  <2>4. /\ execs' \in Seq(Platforms)
        /\ Toolchain!ToSet(execs') =
             Toolchain!ToSet(execs) \cup Toolchain!ToSet(modules[next].exec)
    BY <1>1, <2>2, <2>3, ToolchainConcat
  <2>5. /\ targets' \in Seq(Platforms)
        /\ Toolchain!ToSet(targets') =
             Toolchain!ToSet(targets) \cup Toolchain!ToSet(modules[next].target)
    BY <1>1, <2>2, <2>3, ToolchainConcat
  <2>6. /\ ExecsBefore(next + 1) = ExecsBefore(next) \cup Toolchain!ToSet(modules[next].exec)
        /\ TargetsBefore(next + 1) = TargetsBefore(next) \cup Toolchain!ToSet(modules[next].target)
    BY <1>1, <2>1, GatheredPlatforms
  <2>7. /\ Toolchain!ToSet(execs) = ExecsBefore(next)
        /\ Toolchain!ToSet(targets) = TargetsBefore(next)
        /\ Toolchain!ToSet(execs) \subseteq Toolchain!ToSet(SupportedExecs)
    BY <2>1 DEF ToolchainInv
  <2>8. /\ ExecsBefore(next)' = ExecsBefore(next + 1)
        /\ TargetsBefore(next)' = TargetsBefore(next + 1)
    BY <2>1 DEF ExecsBefore, TargetsBefore
  <2>9. next' \in Nat \ {0} /\ next' <= Len(modules') + 1
    BY <1>1, <1>2, <2>1
  <2>10. /\ Toolchain!ToSet(execs)' = ExecsBefore(next)'
         /\ Toolchain!ToSet(targets)' = TargetsBefore(next)'
         /\ Toolchain!ToSet(execs)' \subseteq Toolchain!ToSet(SupportedExecs)
    BY <2>2, <2>4, <2>5, <2>6, <2>7, <2>8 DEF Toolchain!ToSet
  <2> QED BY <1>1, <2>1, <2>4, <2>5, <2>9, <2>10 DEF ToolchainInv
<1>4. CASE Toolchain!WriteRepository
  <2>1. /\ pc = "gather" /\ pc' = "stage0" /\ next = Len(modules) + 1 /\ next' = 1
        /\ modules' = modules /\ declared' = declared /\ declared = {}
        /\ execs' = Toolchain!OrDefault(execs, SupportedExecs)
        /\ targets' = Toolchain!OrDefault(targets, SupportedTargets)
    BY <1>1, <1>2, <1>4 DEF Toolchain!WriteRepository, ToolchainInv
  <2>2. execs' \in Seq(Platforms) /\ targets' \in Seq(Platforms)
    BY <1>0, <1>1, <2>1 DEF Toolchain!OrDefault
  <2>3. /\ Toolchain!ToSet(execs) =
             UNION {Toolchain!ToSet(modules[i]["exec"]) : i \in DOMAIN modules}
        /\ Toolchain!ToSet(targets) =
             UNION {Toolchain!ToSet(modules[i]["target"]) : i \in DOMAIN modules}
        /\ Toolchain!ToSet(execs) \subseteq Toolchain!ToSet(SupportedExecs)
    BY <1>1, <2>1, RequestedPlatforms DEF ToolchainInv
  <2>4. /\ Toolchain!ToSet(execs) = {} <=> execs = <<>>
        /\ Toolchain!ToSet(targets) = {} <=> targets = <<>>
    BY <1>1, ToolchainToSet
  <2>5. Toolchain!ToSet(execs') = Toolchain!Requested("exec", SupportedExecs)
    BY <2>1, <2>3, <2>4 DEF Toolchain!OrDefault, Toolchain!Requested
  <2>6. Toolchain!ToSet(targets') = Toolchain!Requested("target", SupportedTargets)
    BY <2>1, <2>3, <2>4 DEF Toolchain!OrDefault, Toolchain!Requested
  <2>7. Toolchain!ToSet(execs') \subseteq Toolchain!ToSet(SupportedExecs)
    BY <2>1, <2>3 DEF Toolchain!OrDefault
  <2>8. {j \in DOMAIN execs' : j < 1} = {}
    BY <2>2
  <2>9. DeclaredBefore({"stage0"}, next)' = {}
    BY <2>1, <2>8 DEF DeclaredBefore
  <2>10. /\ Toolchain!ToSet(execs)' = Toolchain!Requested("exec", SupportedExecs)'
         /\ Toolchain!ToSet(targets)' = Toolchain!Requested("target", SupportedTargets)'
         /\ Toolchain!ToSet(execs)' \subseteq Toolchain!ToSet(SupportedExecs)
    <3>1. /\ Toolchain!Requested("exec", SupportedExecs)' = Toolchain!Requested("exec", SupportedExecs)
          /\ Toolchain!Requested("target", SupportedTargets)' =
               Toolchain!Requested("target", SupportedTargets)
      BY <2>1, RequestedFrame
    <3>2. /\ Toolchain!ToSet(execs)' = Toolchain!ToSet(execs')
          /\ Toolchain!ToSet(targets)' = Toolchain!ToSet(targets')
      BY DEF Toolchain!ToSet
    <3> QED BY <2>5, <2>6, <2>7, <3>1, <3>2
  <2>11. next' \in Nat \ {0} /\ next' <= Len(execs') + 1
    BY <2>1, <2>2
  <2> QED BY <1>1, <2>1, <2>2, <2>9, <2>10, <2>11 DEF ToolchainInv
<1>5. ASSUME modules' = modules, execs' = execs, targets' = targets,
              pc \in {"stage0", "bootstrap", "loaded"}
       PROVE  /\ Toolchain!ToSet(execs)' = Toolchain!Requested("exec", SupportedExecs)'
              /\ Toolchain!ToSet(targets)' = Toolchain!Requested("target", SupportedTargets)'
              /\ Toolchain!ToSet(execs)' \subseteq Toolchain!ToSet(SupportedExecs)
  <2>1. /\ Toolchain!ToSet(execs) = Toolchain!Requested("exec", SupportedExecs)
        /\ Toolchain!ToSet(targets) = Toolchain!Requested("target", SupportedTargets)
        /\ Toolchain!ToSet(execs) \subseteq Toolchain!ToSet(SupportedExecs)
    BY <1>5 DEF ToolchainInv
  <2>2. /\ Toolchain!Requested("exec", SupportedExecs)' = Toolchain!Requested("exec", SupportedExecs)
        /\ Toolchain!Requested("target", SupportedTargets)' =
             Toolchain!Requested("target", SupportedTargets)
    BY <1>5, RequestedFrame
  <2>3. /\ Toolchain!ToSet(execs)' = Toolchain!ToSet(execs)
        /\ Toolchain!ToSet(targets)' = Toolchain!ToSet(targets)
    BY <1>5 DEF Toolchain!ToSet
  <2> QED BY <2>1, <2>2, <2>3
<1>6. CASE Toolchain!DeclareStage0
  <2>1. /\ pc = "stage0" /\ pc' = "stage0" /\ next \in 1..Len(execs) /\ next' = next + 1
        /\ modules' = modules /\ execs' = execs /\ targets' = targets
        /\ declared' = declared \cup UNION {Toolchain!DeclaredFor(s, execs[next]) : s \in {"stage0"}}
    BY <1>1, <1>2, <1>6 DEF Toolchain!DeclareStage0, Toolchain!DeclareExec
  <2>2. declared = DeclaredBefore({"stage0"}, next)
    BY <2>1 DEF ToolchainInv
  <2>3. declared' = DeclaredBefore({"stage0"}, next + 1)
    BY <1>1, <2>1, <2>2, DeclaredTurn
  <2>4. DeclaredBefore({"stage0"}, next)' = DeclaredBefore({"stage0"}, next + 1)
    BY <2>1 DEF DeclaredBefore, Toolchain!DeclaredFor, Toolchain!ToSet
  <2> QED BY <1>1, <1>2, <1>5, <2>1, <2>3, <2>4 DEF ToolchainInv
<1>7. CASE Toolchain!DeclareBootstrap
  <2>1. /\ pc = "bootstrap" /\ pc' = "bootstrap" /\ next \in 1..Len(execs) /\ next' = next + 1
        /\ modules' = modules /\ execs' = execs /\ targets' = targets
        /\ declared' = declared \cup UNION {Toolchain!DeclaredFor(s, execs[next]) :
                                             s \in Toolchain!BootstrapStages}
    BY <1>1, <1>2, <1>7 DEF Toolchain!DeclareBootstrap, Toolchain!DeclareExec
  <2>2. declared = DeclaredBefore({"stage0"}, Len(execs) + 1)
                     \cup DeclaredBefore(Toolchain!BootstrapStages, next)
    BY <2>1 DEF ToolchainInv
  <2>3. declared' = DeclaredBefore({"stage0"}, Len(execs) + 1)
                      \cup DeclaredBefore(Toolchain!BootstrapStages, next + 1)
    BY <1>1, <2>1, <2>2, DeclaredTurn
  <2>4. /\ DeclaredBefore(Toolchain!BootstrapStages, next)' =
             DeclaredBefore(Toolchain!BootstrapStages, next + 1)
        /\ DeclaredBefore({"stage0"}, Len(execs) + 1)' = DeclaredBefore({"stage0"}, Len(execs) + 1)
    BY <2>1 DEF DeclaredBefore, Toolchain!DeclaredFor, Toolchain!ToSet, Toolchain!BootstrapStages
  <2> QED BY <1>1, <1>2, <1>5, <2>1, <2>3, <2>4 DEF ToolchainInv
<1>8. CASE Toolchain!StartBootstrap
  <2>1. /\ pc = "stage0" /\ pc' = "bootstrap" /\ next = Len(execs) + 1 /\ next' = 1
        /\ modules' = modules /\ execs' = execs /\ targets' = targets /\ declared' = declared
    BY <1>1, <1>2, <1>8 DEF Toolchain!StartBootstrap, ToolchainInv
  <2>2. declared = DeclaredBefore({"stage0"}, Len(execs) + 1)
    BY <2>1 DEF ToolchainInv
  <2>3. DeclaredBefore(Toolchain!BootstrapStages, 1) = {}
    BY <1>1, DeclaredTurn
  <2>4. /\ DeclaredBefore(Toolchain!BootstrapStages, next)' =
             DeclaredBefore(Toolchain!BootstrapStages, 1)
        /\ DeclaredBefore({"stage0"}, Len(execs) + 1)' = DeclaredBefore({"stage0"}, Len(execs) + 1)
    BY <2>1 DEF DeclaredBefore, Toolchain!DeclaredFor, Toolchain!ToSet, Toolchain!BootstrapStages
  <2> QED BY <1>1, <1>2, <1>5, <2>1, <2>2, <2>3, <2>4 DEF ToolchainInv
<1>9. CASE Toolchain!Load
  <2>1. /\ pc = "bootstrap" /\ pc' = "loaded" /\ next = Len(execs) + 1 /\ next' = next
        /\ modules' = modules /\ execs' = execs /\ targets' = targets /\ declared' = declared
    BY <1>1, <1>2, <1>9 DEF Toolchain!Load, ToolchainInv
  <2>2. declared = DeclaredBefore({"stage0"}, Len(execs) + 1)
                     \cup DeclaredBefore(Toolchain!BootstrapStages, Len(execs) + 1)
    BY <2>1 DEF ToolchainInv
  <2>3. /\ DeclaredBefore(Toolchain!BootstrapStages, Len(execs) + 1)' =
             DeclaredBefore(Toolchain!BootstrapStages, Len(execs) + 1)
        /\ DeclaredBefore({"stage0"}, Len(execs) + 1)' = DeclaredBefore({"stage0"}, Len(execs) + 1)
    BY <2>1 DEF DeclaredBefore, Toolchain!DeclaredFor, Toolchain!ToSet, Toolchain!BootstrapStages
  <2> QED BY <1>1, <1>2, <1>5, <2>1, <2>2, <2>3 DEF ToolchainInv
<1>10. CASE Toolchain!RefuseModule
  BY <1>1, <1>10 DEF Toolchain!RefuseModule, ToolchainInv
<1>11. CASE Toolchain!DuplicateName
  BY <1>1, <1>11 DEF Toolchain!DuplicateName, ToolchainInv
<1>12. CASE UNCHANGED <<modules, pc, next, execs, targets, declared>>
  <2>1. /\ modules' = modules /\ pc' = pc /\ next' = next /\ execs' = execs
        /\ targets' = targets /\ declared' = declared
    BY <1>12
  <2>2. /\ ExecsBefore(next)' = ExecsBefore(next) /\ TargetsBefore(next)' = TargetsBefore(next)
        /\ Toolchain!ToSet(execs)' = Toolchain!ToSet(execs)
        /\ Toolchain!ToSet(targets)' = Toolchain!ToSet(targets)
    BY <2>1 DEF ExecsBefore, TargetsBefore, Toolchain!ToSet
  <2>3. /\ DeclaredBefore({"stage0"}, next)' = DeclaredBefore({"stage0"}, next)
        /\ DeclaredBefore({"stage0"}, Len(execs) + 1)' = DeclaredBefore({"stage0"}, Len(execs) + 1)
    BY <2>1 DEF DeclaredBefore, Toolchain!DeclaredFor, Toolchain!ToSet
  <2>4. /\ DeclaredBefore(Toolchain!BootstrapStages, next)' =
             DeclaredBefore(Toolchain!BootstrapStages, next)
        /\ DeclaredBefore(Toolchain!BootstrapStages, Len(execs) + 1)' =
             DeclaredBefore(Toolchain!BootstrapStages, Len(execs) + 1)
    BY <2>1 DEF DeclaredBefore, Toolchain!DeclaredFor, Toolchain!ToSet, Toolchain!BootstrapStages
  <2> QED BY <1>5, <2>1, <2>2, <2>3, <2>4 DEF ToolchainInv
<1>13. CASE Toolchain!Done
  BY <1>12, <1>13 DEF Toolchain!Done, Toolchain!vars
<1> QED BY <1>3, <1>4, <1>6, <1>7, <1>8, <1>9, <1>10, <1>11, <1>12, <1>13 DEF Toolchain!Next

\* The toolchains of a loaded package: those of the requested platforms.
LEMMA LoadedToolchains ==
  ASSUME ToolchainInv, pc = "loaded"
  PROVE  \A d : d \in declared <=>
           \E s \in Toolchain!Stages,
              e \in Toolchain!Requested("exec", SupportedExecs),
              t \in Toolchain!Requested("target", SupportedTargets) :
             \E msvc \in BOOLEAN :
               /\ d = Toolchain!Toolchain(s, e, t, msvc)
               /\ msvc = TRUE => t \in WindowsPlatforms
<1>1. /\ execs \in Seq(Platforms)
      /\ Toolchain!ToSet(execs) = Toolchain!Requested("exec", SupportedExecs)
      /\ Toolchain!ToSet(targets) = Toolchain!Requested("target", SupportedTargets)
      /\ Toolchain!ToSet(execs) \subseteq Toolchain!ToSet(SupportedExecs)
      /\ declared = DeclaredBefore({"stage0"}, Len(execs) + 1)
                      \cup DeclaredBefore(Toolchain!BootstrapStages, Len(execs) + 1)
  BY DEF ToolchainInv
<1>2. {j \in DOMAIN execs : j < Len(execs) + 1} = DOMAIN execs
  <2>1. execs \in Seq(Platforms)
    BY <1>1
  <2>2. \A j \in DOMAIN execs : j < Len(execs) + 1
    BY <2>1
  <2> QED BY <2>2
<1>3. \A stages, d :
        d \in DeclaredBefore(stages, Len(execs) + 1) <=>
          \E s \in stages, e \in Toolchain!ToSet(execs) : d \in Toolchain!DeclaredFor(s, e)
  BY <1>2 DEF DeclaredBefore, Toolchain!ToSet
<1>4. \A d : d \in declared <=>
        \E s \in Toolchain!Stages, e \in Toolchain!ToSet(execs) : d \in Toolchain!DeclaredFor(s, e)
  BY <1>1, <1>3 DEF Toolchain!Stages
<1>5. \A s, e, d : e \in Toolchain!ToSet(SupportedExecs) =>
        (d \in Toolchain!DeclaredFor(s, e) <=>
           \E t \in Toolchain!ToSet(targets) : \E msvc \in BOOLEAN :
             /\ d = Toolchain!Toolchain(s, e, t, msvc)
             /\ msvc = TRUE => t \in WindowsPlatforms)
  <2> SUFFICES ASSUME NEW s, NEW e \in Toolchain!ToSet(SupportedExecs), NEW d
               PROVE  d \in Toolchain!DeclaredFor(s, e) <=>
                        \E t \in Toolchain!ToSet(targets) : \E msvc \in BOOLEAN :
                          /\ d = Toolchain!Toolchain(s, e, t, msvc)
                          /\ msvc = TRUE => t \in WindowsPlatforms
    OBVIOUS
  <2>1. \A t, msvc : msvc \in Toolchain!MsvcVariants(e, t) <=>
          msvc \in BOOLEAN /\ (msvc = TRUE => t \in WindowsPlatforms)
    BY DEF Toolchain!MsvcVariants
  <2>2. d \in Toolchain!DeclaredFor(s, e) <=>
          \E t \in Toolchain!ToSet(targets) : \E msvc \in Toolchain!MsvcVariants(e, t) :
            d = Toolchain!Toolchain(s, e, t, msvc)
    BY DEF Toolchain!DeclaredFor
  <2> QED BY <2>1, <2>2
<1> QED BY <1>1, <1>4, <1>5

\* The toolchains that Bazel may choose for a configuration.
LEMMA OneMatch ==
  ASSUME ToolchainInv
  PROVE  Toolchain!OneToolchainPerConfiguration
<1> SUFFICES ASSUME pc = "loaded", NEW stage \in Toolchain!Stages, NEW exec \in Platforms,
                    NEW target \in Platforms, NEW abi \in Toolchain!Abis
             PROVE  IF /\ exec \in Toolchain!Requested("exec", SupportedExecs)
                       /\ target \in Toolchain!Requested("target", SupportedTargets)
                    THEN \E t \in Toolchain!Matching(stage, exec, target, abi) :
                           Toolchain!Matching(stage, exec, target, abi) = {t}
                    ELSE Toolchain!Matching(stage, exec, target, abi) = {}
  BY DEF Toolchain!OneToolchainPerConfiguration
<1> DEFINE Match == Toolchain!Matching(stage, exec, target, abi)
           Asked == /\ exec \in Toolchain!Requested("exec", SupportedExecs)
                    /\ target \in Toolchain!Requested("target", SupportedTargets)
           Serving(msvc) == Toolchain!Toolchain(stage, exec, target, msvc)
<1>1. \A s, e, t, msvc : /\ Toolchain!Toolchain(s, e, t, msvc).stage = s
                         /\ Toolchain!Toolchain(s, e, t, msvc).exec = e
                         /\ Toolchain!Toolchain(s, e, t, msvc).target = t
                         /\ Toolchain!Toolchain(s, e, t, msvc).abis = Toolchain!ServedAbis(t, msvc)
  BY DEF Toolchain!Toolchain
<1>2. \A d : d \in Match <=>
        /\ Asked
        /\ \E msvc \in BOOLEAN : /\ d = Serving(msvc)
                                 /\ msvc = TRUE => target \in WindowsPlatforms
                                 /\ abi \in Toolchain!ServedAbis(target, msvc)
  <2> SUFFICES ASSUME NEW d
               PROVE  d \in Match <=>
                        /\ Asked
                        /\ \E msvc \in BOOLEAN :
                             /\ d = Serving(msvc)
                             /\ msvc = TRUE => target \in WindowsPlatforms
                             /\ abi \in Toolchain!ServedAbis(target, msvc)
    OBVIOUS
  <2>1. d \in Match <=> /\ d \in declared /\ d.stage = stage /\ d.exec = exec
                        /\ d.target = target /\ abi \in d.abis
    BY DEF Toolchain!Matching
  <2>2. ASSUME d \in Match
        PROVE  /\ Asked
               /\ \E msvc \in BOOLEAN : /\ d = Serving(msvc)
                                        /\ msvc = TRUE => target \in WindowsPlatforms
                                        /\ abi \in Toolchain!ServedAbis(target, msvc)
    <3>1. PICK s \in Toolchain!Stages,
               e \in Toolchain!Requested("exec", SupportedExecs),
               t \in Toolchain!Requested("target", SupportedTargets) :
            \E msvc \in BOOLEAN : /\ d = Toolchain!Toolchain(s, e, t, msvc)
                                  /\ msvc = TRUE => t \in WindowsPlatforms
      BY <2>1, <2>2, LoadedToolchains
    <3>2. PICK msvc \in BOOLEAN : /\ d = Toolchain!Toolchain(s, e, t, msvc)
                                  /\ msvc = TRUE => t \in WindowsPlatforms
      BY <3>1
    <3>3. s = stage /\ e = exec /\ t = target /\ abi \in Toolchain!ServedAbis(target, msvc)
      BY <1>1, <2>1, <2>2, <3>2
    <3> QED BY <3>2, <3>3
  <2>3. ASSUME Asked, NEW msvc \in BOOLEAN, d = Serving(msvc),
               msvc = TRUE => target \in WindowsPlatforms,
               abi \in Toolchain!ServedAbis(target, msvc)
        PROVE  d \in Match
    <3>1. d \in declared
      BY <2>3, LoadedToolchains
    <3> QED BY <1>1, <2>1, <2>3, <3>1
  <2> QED BY <2>2, <2>3
<1>3. CASE ~Asked
  <2>1. Match = {}
    BY <1>2, <1>3
  <2> QED BY <1>3, <2>1
<1>4. CASE Asked
  <2>1. PICK msvc \in BOOLEAN : msvc = TRUE <=> (target \in WindowsPlatforms /\ abi = "msvc")
    OBVIOUS
  <2>2. \A m \in BOOLEAN : /\ m = TRUE => target \in WindowsPlatforms
                           /\ abi \in Toolchain!ServedAbis(target, m)
                         <=> m = msvc
    BY <2>1 DEF Toolchain!ServedAbis, Toolchain!Abis, Toolchain!MingwCompatible
  <2>3. Match = {Serving(msvc)}
    BY <1>2, <1>4, <2>2
  <2> QED BY <1>4, <2>3
<1> QED BY <1>3, <1>4

\* Every requested configuration has exactly one toolchain, and no other has
\* any, whatever the tags and the supported platforms (extensions/toolchain.bzl
\* and the declare_toolchains macros).
THEOREM OneToolchain == Spec => []OneToolchainPerConfiguration
<1> DEFINE I == extension = "toolchain" => ToolchainInv
<1>1. Init => I
  BY ToolchainInit DEF Init
<1>2. I /\ [Next]_vars => I'
  <2> SUFFICES ASSUME I, [Next]_vars, extension' = "toolchain" PROVE ToolchainInv'
    OBVIOUS
  <2>1. extension = "toolchain"
    BY DEF Next, vars, ToolchainStep, OsxStep, LlvmStep, KernelStep, ProjectStep, Done
  <2> QED BY <2>1, ToolchainAlone, ToolchainNext
<1>3. I => OneToolchainPerConfiguration
  BY OneMatch DEF OneToolchainPerConfiguration
<1> QED BY <1>1, <1>2, <1>3, PTL DEF Spec

-----------------------------------------------------------------------------
(* kernel_headers                                                           *)

HeaderTags == [root : BOOLEAN, configure : Seq(Minors),
               index : Seq(Contents \cup {Malformed})]

\* Among the first n - 1 modules, those with an index.
IndexedBefore(n) == {i \in DOMAIN modules : i < n /\ modules[i].index # <<>>}

\* The index is that of the last one of them.
LastIndexRead(n) ==
  \/ IndexedBefore(n) = {} /\ decoded = {}
  \/ \E i \in IndexedBefore(n) : /\ \A j \in IndexedBefore(n) : j <= i
                                 /\ decoded = Kernel!Last(modules[i].index)

\* The default is the root's.
RootDefault ==
  default # None =>
    \E i \in DOMAIN modules : modules[i].root = TRUE /\ modules[i].configure = <<default>>

\* The version map has the newest release of every minor version that was seen.
NewestSeen ==
  /\ \A m \in DOMAIN newest : /\ newest[m] \in Kernel!VersionsOf(decoded)
                              /\ Kernel!MinorOf(newest[m]) = m
  /\ \A v \in Kernel!VersionsOf(decoded) \ todo :
       LET m == Kernel!MinorOf(v)
       IN  m \in DOMAIN newest /\ v[3] <= newest[m][3]

KernelInv ==
  /\ modules \in Seq(HeaderTags) /\ next \in Nat \ {0}
  /\ decoded \in Contents \cup {Malformed, {}}
  /\ RootDefault
  /\ pc \in {"tags", "map", "package", "loaded", "failed"}
  /\ pc = "tags" => /\ next <= Len(modules) + 1 /\ LastIndexRead(next)
                    /\ newest = <<>>
  /\ pc \in {"map", "package", "loaded"} =>
       /\ LastIndexRead(Len(modules) + 1)
       /\ decoded \in Contents \cup {{}}
       /\ NewestSeen
  /\ pc = "map" => todo \subseteq Kernel!VersionsOf(decoded)
  /\ pc \in {"package", "loaded"} =>
       /\ todo = {} /\ repositories = Kernel!Usable /\ Kernel!DefaultKnown
  /\ pc = "loaded" =>
       /\ Kernel!Unmapped = {} /\ ~Kernel!Branchless
       /\ aliases = Kernel!Fallback
                       \cup UNION {Kernel!BranchesOf("kernel", minor) : minor \in KernelVersions}

\* The kernel headers extension goes on alone.
LEMMA KernelAlone ==
  ASSUME extension = "kernel_headers", [Next]_vars
  PROVE  /\ extension' = "kernel_headers"
         /\ \/ Kernel!Next
            \/ UNCHANGED <<modules, pc, next, decoded, default, todo, newest, repositories, aliases>>
  BY DEF Next, vars, shared, headers, ToolchainStep, OsxStep, LlvmStep, KernelStep,
         ProjectStep, Done

\* The extension starts with the first module and an empty index.
LEMMA KernelInit ==
  ASSUME Kernel!Init
  PROVE  KernelInv
<1>0. MaxModules \in Nat
  BY ExtensionsAssumption
<1>1. ASSUME NEW S, NEW n \in Nat, NEW s \in Kernel!BoundedSeq(S, n)
      PROVE  s \in Seq(S)
  BY DEF Kernel!BoundedSeq, Kernel!SeqOf
<1>2. modules \in Seq(HeaderTags)
  <2> DEFINE Tags == [root : BOOLEAN, configure : Kernel!BoundedSeq(Minors, 2),
                      index : Kernel!BoundedSeq(Contents \cup {Malformed}, 1)]
  <2>1. modules \in Seq(Tags)
    BY <1>0, <1>1 DEF Kernel!Init
  <2>2. Tags \subseteq HeaderTags
    BY <1>1 DEF HeaderTags
  <2> HIDE DEF Tags
  <2> QED BY <2>1, <2>2
<1>3. pc = "tags" /\ next = 1 /\ decoded = {} /\ default = None /\ newest = <<>>
  BY DEF Kernel!Init
<1>4. \A i \in DOMAIN modules : ~(i < 1)
  BY <1>2
<1>5. LastIndexRead(next)
  BY <1>3, <1>4 DEF LastIndexRead, IndexedBefore
<1>6. Len(modules) \in Nat
  BY <1>2
<1>7. RootDefault
  BY <1>3 DEF RootDefault
<1> QED BY <1>2, <1>3, <1>5, <1>6, <1>7 DEF KernelInv

\* Reading the tags of one more module.
LEMMA ReadOneMore ==
  ASSUME KernelInv, Kernel!ReadModule
  PROVE  KernelInv'
<1>1. /\ pc = "tags" /\ pc' = "tags" /\ next \in 1..Len(modules) /\ next' = next + 1
      /\ modules' = modules /\ newest' = newest /\ newest = <<>>
      /\ LastIndexRead(next) /\ RootDefault
      /\ decoded' = IF modules[next].index = <<>> THEN decoded ELSE Kernel!Last(modules[next].index)
  BY DEF KernelInv, Kernel!ReadModule, Kernel!Reading, Kernel!tables
<1>2. modules \in Seq(HeaderTags) /\ Len(modules) \in Nat /\ DOMAIN modules = 1..Len(modules)
  BY DEF KernelInv
<1>3. modules[next] \in HeaderTags
  BY <1>1, <1>2
<1>4. /\ modules[next].root \in BOOLEAN /\ modules[next].configure \in Seq(Minors)
      /\ modules[next].index \in Seq(Contents \cup {Malformed})
  BY <1>3 DEF HeaderTags
<1>5. decoded' \in Contents \cup {Malformed, {}}
  <2>1. CASE modules[next].index = <<>>
    BY <1>1, <2>1 DEF KernelInv
  <2>2. CASE modules[next].index # <<>>
    <3>1. Len(modules[next].index) \in DOMAIN modules[next].index
      BY <1>4, <2>2
    <3>2. modules[next].index[Len(modules[next].index)] \in Contents \cup {Malformed}
      BY <1>4, <3>1
    <3> QED BY <1>1, <2>2, <3>2 DEF Kernel!Last
  <2> QED BY <2>1, <2>2
<1>6. RootDefault'
  <2>1. CASE UNCHANGED default
    BY <1>1, <2>1 DEF RootDefault
  <2>2. CASE /\ modules[next].root /\ Len(modules[next].configure) = 1
             /\ default' = modules[next].configure[1]
    <3>1. modules[next].configure = <<default'>>
      BY <1>4, <2>2
    <3> QED BY <1>1, <1>2, <1>4, <2>2, <3>1 DEF RootDefault
  <2> QED BY <2>1, <2>2 DEF Kernel!ReadModule
<1>7. LastIndexRead(next)'
  <2>1. \A i \in DOMAIN modules : i \in Nat /\ (i < next + 1 <=> i < next \/ i = next)
    BY <1>1, <1>2
  <2>2. CASE modules[next].index = <<>>
    <3>1. IndexedBefore(next)' = IndexedBefore(next)
      BY <1>1, <2>1, <2>2 DEF IndexedBefore
    <3> QED BY <1>1, <2>2, <3>1 DEF LastIndexRead
  <2>3. CASE modules[next].index # <<>>
    <3>1. IndexedBefore(next)' = IndexedBefore(next) \cup {next}
      BY <1>1, <1>2, <2>1, <2>3 DEF IndexedBefore
    <3>2. \A j \in IndexedBefore(next)' : j <= next
      BY <1>1, <1>2, <3>1 DEF IndexedBefore
    <3> QED BY <1>1, <2>3, <3>1, <3>2 DEF LastIndexRead
  <2> QED BY <2>2, <2>3
<1> QED BY <1>1, <1>2, <1>5, <1>6, <1>7 DEF KernelInv

\* One more version of the index in the version map.
LEMMA MapOneMore ==
  ASSUME KernelInv, Kernel!MapVersion
  PROVE  KernelInv'
<1>1. PICK version \in todo :
        /\ todo' = todo \ {version}
        /\ newest' = IF /\ Kernel!MinorOf(version) \in DOMAIN newest
                        /\ ~Kernel!Newer(version, newest[Kernel!MinorOf(version)]) THEN newest
                     ELSE [m \in DOMAIN newest \cup {Kernel!MinorOf(version)} |->
                             IF m = Kernel!MinorOf(version) THEN version ELSE newest[m]]
  BY DEF Kernel!MapVersion
<1>2. /\ pc = "map" /\ pc' = "map" /\ modules' = modules /\ next' = next /\ decoded' = decoded
      /\ default' = default
  BY DEF Kernel!MapVersion
<1>3. /\ decoded \in Contents \cup {{}} /\ NewestSeen /\ LastIndexRead(Len(modules) + 1)
      /\ todo \subseteq Kernel!VersionsOf(decoded)
  BY <1>2 DEF KernelInv
<1> DEFINE Known == Kernel!VersionsOf(decoded)
           minor == Kernel!MinorOf(version)
<1>4. \A v \in Known : v[3] \in Nat
  BY <1>3, VersionsAssumption DEF Kernel!VersionsOf
<1>5. version \in Known /\ Kernel!VersionsOf(decoded)' = Known
  BY <1>2, <1>3 DEF Kernel!VersionsOf
<1>6. /\ \A m \in DOMAIN newest : newest[m] \in Known /\ Kernel!MinorOf(newest[m]) = m
      /\ \A v \in Known \ todo : /\ Kernel!MinorOf(v) \in DOMAIN newest
                                /\ v[3] <= newest[Kernel!MinorOf(v)][3]
  BY <1>3 DEF NewestSeen
<1> HIDE DEF Known
<1>7. /\ \A m \in DOMAIN newest' : newest'[m] \in Known /\ Kernel!MinorOf(newest'[m]) = m
      /\ \A v \in Known \ todo' : /\ Kernel!MinorOf(v) \in DOMAIN newest'
                                 /\ v[3] <= newest'[Kernel!MinorOf(v)][3]
  <2>1. CASE minor \in DOMAIN newest /\ ~Kernel!Newer(version, newest[minor])
    <3>1. newest' = newest /\ version[3] <= newest[minor][3]
      BY <1>1, <1>4, <1>5, <1>6, <2>1 DEF Kernel!Newer
    <3> QED BY <1>1, <1>6, <2>1, <3>1
  <2>2. CASE ~(minor \in DOMAIN newest /\ ~Kernel!Newer(version, newest[minor]))
    <3>1. newest' = [m \in DOMAIN newest \cup {minor} |-> IF m = minor THEN version ELSE newest[m]]
      BY <1>1, <2>2
    <3>2. minor \in DOMAIN newest => version[3] > newest[minor][3]
      BY <2>2 DEF Kernel!Newer
    <3>3. ASSUME NEW v \in Known \ todo'
          PROVE  /\ Kernel!MinorOf(v) \in DOMAIN newest'
                 /\ v[3] <= newest'[Kernel!MinorOf(v)][3]
      <4>1. CASE v = version
        BY <1>4, <1>5, <3>1, <4>1
      <4>2. CASE v # version
        <5>1. v \in Known \ todo
          BY <1>1, <4>2
        <5>2. Kernel!MinorOf(v) \in DOMAIN newest /\ v[3] <= newest[Kernel!MinorOf(v)][3]
          BY <1>6, <5>1
        <5>3. CASE Kernel!MinorOf(v) = minor
          <6>1. /\ v[3] \in Nat /\ version[3] \in Nat /\ newest[minor][3] \in Nat
                /\ newest'[minor] = version
            BY <1>4, <1>5, <1>6, <3>1, <5>1, <5>2, <5>3
          <6> QED BY <3>1, <3>2, <5>2, <5>3, <6>1
        <5>4. CASE Kernel!MinorOf(v) # minor
          BY <3>1, <5>2, <5>4
        <5> QED BY <5>3, <5>4
      <4> QED BY <4>1, <4>2
    <3>4. \A m \in DOMAIN newest' : newest'[m] \in Known /\ Kernel!MinorOf(newest'[m]) = m
      BY <1>5, <1>6, <3>1
    <3> QED BY <3>3, <3>4
  <2> QED BY <2>1, <2>2
<1>8. NewestSeen'
  BY <1>5, <1>7 DEF NewestSeen, Known
<1>9. LastIndexRead(Len(modules) + 1)'
  BY <1>2, <1>3 DEF LastIndexRead, IndexedBefore
<1>10. RootDefault'
  BY <1>2 DEF RootDefault, KernelInv
<1>11. todo' \subseteq Kernel!VersionsOf(decoded)'
  BY <1>1, <1>3, <1>5 DEF Known
<1>12. modules' \in Seq(HeaderTags) /\ next' \in Nat \ {0} /\ decoded' \in Contents \cup {{}}
  BY <1>2, <1>3 DEF KernelInv
<1> QED BY <1>2, <1>8, <1>9, <1>10, <1>11, <1>12 DEF KernelInv

\* One step of the extension or of the package.
LEMMA KernelNext ==
  ASSUME KernelInv,
         \/ Kernel!Next
         \/ UNCHANGED <<modules, pc, next, decoded, default, todo, newest, repositories, aliases>>
  PROVE  KernelInv'
<1>1. CASE Kernel!ReadModule
  BY <1>1, ReadOneMore
<1>2. CASE Kernel!MapVersion
  BY <1>2, MapOneMore
<1>3. ASSUME modules' = modules, next' = next, decoded' = decoded, default' = default
      PROVE  /\ modules' \in Seq(HeaderTags) /\ next' \in Nat \ {0}
             /\ decoded' \in Contents \cup {Malformed, {}} /\ RootDefault'
             /\ LastIndexRead(next) => LastIndexRead(next)'
             /\ LastIndexRead(Len(modules) + 1) => LastIndexRead(Len(modules) + 1)'
             /\ Kernel!Usable' = Kernel!Usable
             /\ Kernel!VersionsOf(decoded)' = Kernel!VersionsOf(decoded)
             /\ NewestSeen /\ newest' = newest /\ todo' = todo => NewestSeen'
             /\ newest' = newest /\ Kernel!DefaultKnown => Kernel!DefaultKnown'
  <2>1. RootDefault'
    BY <1>3 DEF RootDefault, KernelInv
  <2>2. /\ LastIndexRead(next) => LastIndexRead(next)'
        /\ LastIndexRead(Len(modules) + 1) => LastIndexRead(Len(modules) + 1)'
    BY <1>3 DEF LastIndexRead, IndexedBefore
  <2>3. /\ Kernel!Usable' = Kernel!Usable
        /\ Kernel!VersionsOf(decoded)' = Kernel!VersionsOf(decoded)
    BY <1>3 DEF Kernel!Usable, Kernel!VersionsOf
  <2>4. NewestSeen /\ newest' = newest /\ todo' = todo => NewestSeen'
    BY <2>3 DEF NewestSeen
  <2>5. newest' = newest /\ Kernel!DefaultKnown => Kernel!DefaultKnown'
    BY <1>3 DEF Kernel!DefaultKnown
  <2>6. modules' \in Seq(HeaderTags) /\ next' \in Nat \ {0} /\ decoded' \in Contents \cup {Malformed, {}}
    BY <1>3 DEF KernelInv
  <2> QED BY <2>1, <2>2, <2>3, <2>4, <2>5, <2>6
<1>4. ASSUME decoded' = decoded, newest' = newest, default' = default
      PROVE  /\ Kernel!Unmapped' = Kernel!Unmapped
             /\ Kernel!Fallback' = Kernel!Fallback
             /\ \A minor \in KernelVersions :
                  Kernel!BranchesOf("kernel", minor)' = Kernel!BranchesOf("kernel", minor)
  <2>1. Kernel!Usable' = Kernel!Usable
    BY <1>4 DEF Kernel!Usable
  <2>2. \A arch, version : Kernel!Available(arch, version)' <=> Kernel!Available(arch, version)
    BY <2>1 DEF Kernel!Available
  <2>3. \A kind, minor : Kernel!BranchesOf(kind, minor)' = Kernel!BranchesOf(kind, minor)
    BY <1>4, <2>1 DEF Kernel!BranchesOf, Kernel!Available
  <2>4. Kernel!LibcBranches' = Kernel!LibcBranches
    BY <2>1 DEF Kernel!LibcBranches, Kernel!Available
  <2>5. Kernel!Fallback' = Kernel!Fallback
    BY <1>4, <2>1, <2>4 DEF Kernel!Fallback, Kernel!BranchesOf, Kernel!Available
  <2> QED BY <1>4, <2>3, <2>5 DEF Kernel!Unmapped
<1>5. CASE Kernel!Fail
  <2>1. /\ pc' = "failed" /\ modules' = modules /\ next' = next /\ decoded' = decoded
        /\ default' = default
    BY <1>5 DEF Kernel!Fail
  <2> QED BY <1>3, <2>1 DEF KernelInv
<1>6. CASE Kernel!StartMap
  <2>1. /\ pc = "tags" /\ pc' = "map" /\ modules' = modules /\ next' = next /\ decoded' = decoded
        /\ default' = default /\ newest' = newest /\ newest = <<>> /\ decoded # Malformed
        /\ todo' = Kernel!VersionsOf(decoded) /\ next > Len(modules) /\ next <= Len(modules) + 1
        /\ LastIndexRead(next)
    BY <1>6 DEF Kernel!StartMap, KernelInv
  <2>2. Len(modules) \in Nat /\ next \in Nat /\ decoded \in Contents \cup {{}}
    BY <2>1 DEF KernelInv
  <2>3. next = Len(modules) + 1
    BY <2>1, <2>2
  <2>4. LastIndexRead(Len(modules) + 1)
    BY <2>1, <2>3
  <2>5. NewestSeen'
    <3>1. DOMAIN newest' = {}
      BY <2>1
    <3>2. todo' = Kernel!VersionsOf(decoded)'
      BY <1>3, <2>1
    <3> QED BY <3>1, <3>2 DEF NewestSeen
  <2> QED BY <1>3, <2>1, <2>2, <2>4, <2>5 DEF KernelInv
<1>7. CASE Kernel!DeclareRepositories
  <2>1. /\ pc = "map" /\ pc' = "package" /\ modules' = modules /\ next' = next
        /\ decoded' = decoded /\ default' = default /\ newest' = newest /\ todo' = todo
        /\ todo = {} /\ Kernel!DefaultKnown /\ repositories' = Kernel!Usable
    BY <1>7 DEF Kernel!DeclareRepositories
  <2>2. LastIndexRead(Len(modules) + 1) /\ NewestSeen /\ decoded \in Contents \cup {{}}
    BY <2>1 DEF KernelInv
  <2> QED BY <1>3, <2>1, <2>2 DEF KernelInv
<1>8. CASE Kernel!LoadPackage
  <2>1. /\ pc = "package" /\ pc' = "loaded" /\ modules' = modules /\ next' = next
        /\ decoded' = decoded /\ default' = default /\ newest' = newest /\ todo' = todo
        /\ repositories' = repositories /\ Kernel!Unmapped = {} /\ ~Kernel!Branchless
        /\ aliases' = Kernel!Fallback
                        \cup UNION {Kernel!BranchesOf("kernel", minor) : minor \in KernelVersions}
    BY <1>8 DEF Kernel!LoadPackage, Kernel!tables
  <2>2. /\ LastIndexRead(Len(modules) + 1) /\ NewestSeen /\ decoded \in Contents \cup {{}}
        /\ todo = {} /\ repositories = Kernel!Usable /\ Kernel!DefaultKnown
    BY <2>1 DEF KernelInv
  <2>3. Kernel!Unmapped' = {} /\ ~Kernel!Branchless' /\
        aliases' = Kernel!Fallback'
                     \cup UNION {Kernel!BranchesOf("kernel", minor)' : minor \in KernelVersions}
    BY <1>4, <2>1 DEF Kernel!Branchless
  <2> QED BY <1>3, <2>1, <2>2, <2>3 DEF KernelInv
<1>9. CASE UNCHANGED <<modules, pc, next, decoded, default, todo, newest, repositories, aliases>>
  <2>1. /\ modules' = modules /\ pc' = pc /\ next' = next /\ decoded' = decoded
        /\ default' = default /\ newest' = newest /\ todo' = todo
        /\ repositories' = repositories /\ aliases' = aliases
    BY <1>9
  <2>2. pc = "loaded" =>
          /\ Kernel!Unmapped' = {} /\ ~Kernel!Branchless'
          /\ aliases' = Kernel!Fallback'
                          \cup UNION {Kernel!BranchesOf("kernel", minor)' : minor \in KernelVersions}
    BY <1>4, <2>1 DEF Kernel!Branchless, KernelInv
  <2> QED BY <1>3, <2>1, <2>2 DEF KernelInv
<1> QED BY <1>1, <1>2, <1>5, <1>6, <1>7, <1>8, <1>9
        DEF Kernel!Next, Kernel!RefuseConfigure, Kernel!NoIndex, Kernel!UnknownDefault,
            Kernel!MissingEntry, Kernel!EmptySelect

\* A package that loads resolves every branch.
LEMMA LoadedResolves ==
  ASSUME KernelInv
  PROVE  Kernel!HeadersResolve
<1> SUFFICES ASSUME pc = "loaded" PROVE Kernel!HeadersResolve
  BY DEF Kernel!HeadersResolve
<1>1. /\ LastIndexRead(Len(modules) + 1) /\ NewestSeen /\ RootDefault
      /\ todo = {} /\ repositories = Kernel!Usable /\ Kernel!DefaultKnown
      /\ Kernel!Unmapped = {} /\ ~Kernel!Branchless
      /\ aliases = Kernel!Fallback
                     \cup UNION {Kernel!BranchesOf("kernel", minor) : minor \in KernelVersions}
  BY DEF KernelInv
<1>2. modules \in Seq(HeaderTags) /\ Len(modules) \in Nat /\ DOMAIN modules = 1..Len(modules)
  BY DEF KernelInv
<1>3. \A e \in Kernel!Usable : repositories \subseteq Kernel!Last(modules[Kernel!LastIndexed].index)
  <2> SUFFICES ASSUME NEW e \in Kernel!Usable
               PROVE  repositories \subseteq Kernel!Last(modules[Kernel!LastIndexed].index)
    OBVIOUS
  <2>1. decoded # {} /\ repositories \subseteq decoded
    BY <1>1 DEF Kernel!Usable
  <2>2. IndexedBefore(Len(modules) + 1) = Kernel!Indexes
    BY <1>2 DEF IndexedBefore, Kernel!Indexes
  <2>3. PICK i \in Kernel!Indexes : /\ \A j \in Kernel!Indexes : j <= i
                                   /\ decoded = Kernel!Last(modules[i].index)
    BY <1>1, <2>1, <2>2 DEF LastIndexRead
  <2>4. /\ Kernel!LastIndexed \in Kernel!Indexes
        /\ \A j \in Kernel!Indexes : j <= Kernel!LastIndexed
    BY <2>3 DEF Kernel!LastIndexed
  <2>5. Kernel!LastIndexed = i
    <3>1. Kernel!Indexes \subseteq Nat
      BY <1>2 DEF Kernel!Indexes
    <3> QED BY <2>3, <2>4, <3>1
  <2> QED BY <2>1, <2>3, <2>5
<1>4. ASSUME NEW kind, NEW minor \in DOMAIN newest, NEW b \in Kernel!BranchesOf(kind, minor)
      PROVE  /\ b.kind = kind /\ b.constraint = minor
             /\ [version |-> b.version, arch |-> KernelArch[b.arch]] \in Kernel!Usable
             /\ Kernel!MinorOf(b.version) = minor
             /\ \A v \in Kernel!VersionsOf(decoded) :
                  Kernel!MinorOf(v) = b.constraint => v[3] <= b.version[3]
  <2>1. PICK a \in Kernel!Archs :
          /\ Kernel!Available(a, newest[minor])
          /\ b = [kind |-> kind, constraint |-> minor, arch |-> a, version |-> newest[minor]]
    BY DEF Kernel!BranchesOf
  <2>2. b.kind = kind /\ b.constraint = minor /\ b.arch = a /\ b.version = newest[minor]
    BY <2>1
  <2>3. [version |-> b.version, arch |-> KernelArch[b.arch]] \in Kernel!Usable
    BY <2>1, <2>2 DEF Kernel!Available
  <2> QED BY <1>1, <2>2, <2>3 DEF NewestSeen
<1>5. ASSUME NEW b \in Kernel!LibcBranches
      PROVE  /\ b.kind = "libc"
             /\ [version |-> b.version, arch |-> KernelArch[b.arch]] \in Kernel!Usable
  <2>1. PICK libc \in DOMAIN LibcVersion, a \in Kernel!Archs :
          /\ Kernel!Available(a, LibcVersion[libc])
          /\ b = [kind |-> "libc", constraint |-> libc, arch |-> a, version |-> LibcVersion[libc]]
    BY DEF Kernel!LibcBranches
  <2>2. b.kind = "libc" /\ b.arch = a /\ b.version = LibcVersion[libc]
    BY <2>1
  <2> QED BY <2>1, <2>2 DEF Kernel!Available
<1>6. KernelVersions \subseteq DOMAIN newest
  BY <1>1 DEF Kernel!Unmapped
<1> DEFINE Resolves(b) ==
      /\ [version |-> b.version, arch |-> KernelArch[b.arch]] \in repositories
      /\ repositories \subseteq Kernel!Last(modules[Kernel!LastIndexed].index)
      /\ b.kind \in {"kernel", "default"} =>
           /\ Kernel!MinorOf(b.version) = b.constraint
           /\ \A v \in Kernel!VersionsOf(decoded) :
                Kernel!MinorOf(v) = b.constraint => v[3] <= b.version[3]
      /\ b.kind = "default" =>
           \E i \in DOMAIN modules : modules[i].root /\ modules[i].configure = <<b.constraint>>
<1>7. ASSUME NEW b \in aliases PROVE Resolves(b)
  <2>1. CASE \E minor \in KernelVersions : b \in Kernel!BranchesOf("kernel", minor)
    <3>1. PICK minor \in KernelVersions : b \in Kernel!BranchesOf("kernel", minor)
      BY <2>1
    <3> QED BY <1>1, <1>3, <1>4, <1>6, <3>1
  <2>2. CASE b \in Kernel!Fallback /\ default = None
    <3>1. b \in Kernel!LibcBranches
      BY <2>2 DEF Kernel!Fallback
    <3> QED BY <1>1, <1>3, <1>5, <3>1
  <2>3. CASE b \in Kernel!Fallback /\ default # None
    <3>1. b \in Kernel!BranchesOf("default", default) /\ default \in DOMAIN newest
      BY <1>1, <2>3 DEF Kernel!Fallback, Kernel!DefaultKnown
    <3>2. \E i \in DOMAIN modules : modules[i].root /\ modules[i].configure = <<default>>
      BY <1>1, <2>3 DEF RootDefault
    <3> QED BY <1>1, <1>3, <1>4, <3>1, <3>2
  <2> QED BY <1>1, <2>1, <2>2, <2>3
<1>8. ASSUME NEW minor \in KernelVersions
      PROVE  \E b \in aliases : b.kind = "kernel" /\ b.constraint = minor
  <2>1. Kernel!BranchesOf("kernel", minor) # {}
    BY <1>1 DEF Kernel!Branchless
  <2>2. PICK b \in Kernel!BranchesOf("kernel", minor) : TRUE
    BY <2>1
  <2>3. b \in aliases
    BY <1>1, <2>2
  <2>4. b.kind = "kernel" /\ b.constraint = minor
    BY <1>4, <1>6, <2>2
  <2> QED BY <2>3, <2>4
<1> QED BY <1>7, <1>8 DEF Kernel!HeadersResolve

\* For every index and every set of tags, a branch of the kernel headers package
\* leads to a repository of the last index, a minor version to its newest
\* release there, and a default is the root's (kernel/extension/kernel_headers.bzl).
THEOREM Resolved == Spec => []HeadersResolve
<1> DEFINE I == extension = "kernel_headers" => KernelInv
<1>1. Init => I
  BY KernelInit DEF Init
<1>2. I /\ [Next]_vars => I'
  <2> SUFFICES ASSUME I, [Next]_vars, extension' = "kernel_headers" PROVE KernelInv'
    OBVIOUS
  <2>1. extension = "kernel_headers"
    BY DEF Next, vars, ToolchainStep, OsxStep, LlvmStep, KernelStep, ProjectStep, Done
  <2> QED BY <2>1, KernelAlone, KernelNext
<1>3. I => HeadersResolve
  BY LoadedResolves DEF HeadersResolve
<1> QED BY <1>1, <1>2, <1>3, PTL DEF Spec

-----------------------------------------------------------------------------
(* llvm and llvm_toolchain_minimal                                          *)

CompilerTags == [root : BOOLEAN, version : Seq(Versions), overrides : Seq(Llvm!Overrides)]
IndexTags == [root : BOOLEAN, index : Seq(IndexFiles)]

\* The modules with a version, those with an index, and what the tag says.
Versioned == {i \in DOMAIN modules : modules[i].version # <<>>}
Indexed == {i \in DOMAIN users : users[i].index # <<>>}
VersionTag == [i \in DOMAIN modules |-> modules[i].version[1]]
IndexTag == [i \in DOMAIN users |-> users[i].index[1]]

\* The value of the last of the tagged modules before n, if there is one.
LastTag(tagged, n, tag, value, none) ==
  \/ (\A i \in tagged : ~(i < n)) /\ value = none
  \/ \E i \in tagged : /\ i < n /\ \A j \in tagged : j < n => j <= i
                       /\ value = tag[i]

\* One more module.
LEMMA LastTagTurn ==
  ASSUME NEW tagged \in SUBSET Nat, NEW n \in Nat, NEW tag, NEW value, NEW none,
         LastTag(tagged, n, tag, value, none)
  PROVE  /\ n \notin tagged => LastTag(tagged, n + 1, tag, value, none)
         /\ n \in tagged => LastTag(tagged, n + 1, tag, tag[n], none)
<1>1. \A i \in tagged : i < n + 1 <=> i < n \/ i = n
  OBVIOUS
<1>2. n \in tagged => LastTag(tagged, n + 1, tag, tag[n], none)
  BY <1>1 DEF LastTag
<1>3. ASSUME n \notin tagged PROVE LastTag(tagged, n + 1, tag, value, none)
  <2>1. \A i \in tagged : i < n + 1 <=> i < n
    BY <1>1, <1>3
  <2> QED BY <2>1 DEF LastTag
<1> QED BY <1>2, <1>3

\* What Deciding says of the versions.
LEMMA DecidingVersion ==
  ASSUME modules \in Seq(CompilerTags), Llvm!RootFirst(modules)
  PROVE  /\ \A i \in Versioned : modules[i].root =>
              Llvm!Deciding(modules, LAMBDA m : m.version, None) = VersionTag[i]
         /\ \A value :
              /\ \A i \in Versioned : ~modules[i].root
              /\ LastTag(Versioned, Len(modules) + 1, VersionTag, value, None)
              => Llvm!Deciding(modules, LAMBDA m : m.version, None) = value
<1>1. DOMAIN modules = 1..Len(modules) /\ Len(modules) \in Nat
  OBVIOUS
<1>2. Versioned \subseteq Nat /\ \A i \in Versioned : i < Len(modules) + 1 /\ i \in DOMAIN modules
  BY <1>1 DEF Versioned
<1> DEFINE roots == {i \in Versioned : modules[i].root}
           Highest(set) == CHOOSE i \in set : \A j \in set : j <= i
<1>3. Llvm!Deciding(modules, LAMBDA m : m.version, None) =
        IF roots # {} THEN modules[Highest(roots)].version[1]
        ELSE IF Versioned # {} THEN modules[Highest(Versioned)].version[1] ELSE None
  BY DEF Llvm!Deciding, Versioned
<1>4. ASSUME NEW set \in SUBSET Nat, NEW i \in set, \A j \in set : j <= i
      PROVE  Highest(set) = i
  <2>1. Highest(set) \in set /\ \A j \in set : j <= Highest(set)
    BY <1>4
  <2>2. PICK h : h = Highest(set)
    OBVIOUS
  <2>3. h \in set /\ h <= i /\ i <= h
    BY <1>4, <2>1, <2>2
  <2>4. h = i
    BY <2>3
  <2> QED BY <2>2, <2>4
<1> HIDE DEF Highest
<1>5. ASSUME NEW i \in Versioned, modules[i].root
      PROVE  Llvm!Deciding(modules, LAMBDA m : m.version, None) = VersionTag[i]
  <2>1. i \in roots /\ \A j \in roots : j <= i
    BY <1>2, <1>5 DEF Llvm!RootFirst
  <2>2. Highest(roots) = i
    BY <1>2, <1>4, <2>1
  <2> QED BY <1>2, <1>3, <2>1, <2>2 DEF VersionTag
<1>6. ASSUME NEW value, \A i \in Versioned : ~modules[i].root,
             LastTag(Versioned, Len(modules) + 1, VersionTag, value, None)
      PROVE  Llvm!Deciding(modules, LAMBDA m : m.version, None) = value
  <2>1. roots = {}
    BY <1>6
  <2>2. CASE Versioned = {}
    BY <1>3, <1>6, <2>1, <2>2 DEF LastTag
  <2>3. CASE Versioned # {}
    <3>1. PICK i \in Versioned : (\A j \in Versioned : j <= i) /\ value = VersionTag[i]
      BY <1>2, <1>6, <2>3 DEF LastTag
    <3>2. Highest(Versioned) = i
      BY <1>2, <1>4, <3>1
    <3> QED BY <1>2, <1>3, <2>1, <2>3, <3>1, <3>2 DEF VersionTag
  <2> QED BY <2>2, <2>3
<1> QED BY <1>5, <1>6

\* What Deciding says of the indexes.
LEMMA DecidingIndex ==
  ASSUME users \in Seq(IndexTags), Llvm!RootFirst(users)
  PROVE  /\ \A i \in Indexed : users[i].root =>
              Llvm!Deciding(users, LAMBDA u : u.index, DefaultIndex) = IndexTag[i]
         /\ \A value :
              /\ \A i \in Indexed : ~users[i].root
              /\ LastTag(Indexed, Len(users) + 1, IndexTag, value, DefaultIndex)
              => Llvm!Deciding(users, LAMBDA u : u.index, DefaultIndex) = value
<1>1. DOMAIN users = 1..Len(users) /\ Len(users) \in Nat
  OBVIOUS
<1>2. Indexed \subseteq Nat /\ \A i \in Indexed : i < Len(users) + 1 /\ i \in DOMAIN users
  BY <1>1 DEF Indexed
<1> DEFINE roots == {i \in Indexed : users[i].root}
           Highest(set) == CHOOSE i \in set : \A j \in set : j <= i
<1>3. Llvm!Deciding(users, LAMBDA u : u.index, DefaultIndex) =
        IF roots # {} THEN users[Highest(roots)].index[1]
        ELSE IF Indexed # {} THEN users[Highest(Indexed)].index[1] ELSE DefaultIndex
  BY DEF Llvm!Deciding, Indexed
<1>4. ASSUME NEW set \in SUBSET Nat, NEW i \in set, \A j \in set : j <= i
      PROVE  Highest(set) = i
  <2>1. Highest(set) \in set /\ \A j \in set : j <= Highest(set)
    BY <1>4
  <2>2. PICK h : h = Highest(set)
    OBVIOUS
  <2>3. h \in set /\ h <= i /\ i <= h
    BY <1>4, <2>1, <2>2
  <2>4. h = i
    BY <2>3
  <2> QED BY <2>2, <2>4
<1> HIDE DEF Highest
<1>5. ASSUME NEW i \in Indexed, users[i].root
      PROVE  Llvm!Deciding(users, LAMBDA u : u.index, DefaultIndex) = IndexTag[i]
  <2>1. i \in roots /\ \A j \in roots : j <= i
    BY <1>2, <1>5 DEF Llvm!RootFirst
  <2>2. Highest(roots) = i
    BY <1>2, <1>4, <2>1
  <2> QED BY <1>2, <1>3, <2>1, <2>2 DEF IndexTag
<1>6. ASSUME NEW value, \A i \in Indexed : ~users[i].root,
             LastTag(Indexed, Len(users) + 1, IndexTag, value, DefaultIndex)
      PROVE  Llvm!Deciding(users, LAMBDA u : u.index, DefaultIndex) = value
  <2>1. roots = {}
    BY <1>6
  <2>2. CASE Indexed = {}
    BY <1>3, <1>6, <2>1, <2>2 DEF LastTag
  <2>3. CASE Indexed # {}
    <3>1. PICK i \in Indexed : (\A j \in Indexed : j <= i) /\ value = IndexTag[i]
      BY <1>2, <1>6, <2>3 DEF LastTag
    <3>2. Highest(Indexed) = i
      BY <1>2, <1>4, <3>1
    <3> QED BY <1>2, <1>3, <2>1, <2>3, <3>1, <3>2 DEF IndexTag
  <2> QED BY <2>2, <2>3
<1> QED BY <1>5, <1>6

\* No root among the first n - 1 modules has a version, and the last of the
\* others is selected; the same of the indexes.
VersionsRead(n) ==
  /\ \A i \in Versioned : i < n => modules[i].root = FALSE
  /\ LastTag(Versioned, n, VersionTag, selected, None)

IndexesRead(n) ==
  /\ \A i \in Indexed : i < n => users[i].root = FALSE
  /\ LastTag(Indexed, n, IndexTag, dependencyIndex, None)

\* The root's version or index, or the last one of the others.
VersionDecided ==
  \/ \E i \in Versioned : modules[i].root = TRUE /\ llvmVersion = VersionTag[i]
  \/ /\ \A i \in Versioned : modules[i].root = FALSE
     /\ LastTag(Versioned, Len(modules) + 1, VersionTag, llvmVersion, None)

IndexDecided(file) ==
  \/ \E i \in Indexed : users[i].root = TRUE /\ file = IndexTag[i]
  \/ /\ \A i \in Indexed : users[i].root = FALSE
     /\ LastTag(Indexed, Len(users) + 1, IndexTag, file, DefaultIndex)

LlvmTypes ==
  /\ modules \in Seq(CompilerTags) /\ Llvm!RootFirst(modules)
  /\ users \in Seq(IndexTags) /\ Llvm!RootFirst(users)
  /\ next \in Nat \ {0}
  /\ pc \in {"version", "sources", "index", "release", "done", "failed"}

VersionInv ==
  /\ pc = "version" => next <= Len(modules) + 1 /\ llvmVersion = None /\ VersionsRead(next)
  /\ llvmVersion # None => llvmVersion \in Versions /\ VersionDecided
  /\ pc \in {"sources", "index", "release", "done"} => llvmVersion # None
  /\ pc = "failed" /\ llvmVersion = None =>
       \A i \in DOMAIN modules : modules[i].root = TRUE => Len(modules[i].version) # 1

\* None of the first n - 1 modules overrides the sources, or one does.
NoOverride(n) == \A i \in DOMAIN modules : i < n => modules[i].overrides = <<>>

OverrideTaken(n) ==
  /\ sources # None
  /\ \E i \in DOMAIN modules :
       /\ modules[i].overrides = <<sources.kind>>
       /\ \A j \in DOMAIN modules : j < n /\ j # i => modules[j].overrides = <<>>

SourcesInv ==
  /\ pc = "version" => sources = None
  /\ pc = "sources" =>
       /\ next <= Len(modules) + 1
       /\ (sources = None /\ NoOverride(next)) \/ OverrideTaken(next)
  /\ pc \in {"index", "release", "done"} =>
       \/ OverrideTaken(Len(modules) + 1)
       \/ /\ sources = [kind |-> "index", version |-> llvmVersion]
          /\ NoOverride(Len(modules) + 1)

SeedInv ==
  /\ pc \in {"version", "sources", "index"} => indexFile = DefaultIndex
  /\ pc \in {"version", "sources"} => dependencyIndex = None
  /\ pc = "index" => next <= Len(users) + 1 /\ IndexesRead(next)
  /\ pc = "release" => IndexDecided(Llvm!ChosenIndex)
  /\ pc = "done" => IndexDecided(indexFile) /\ (warned <=> seed # llvmVersion)

LlvmInv == LlvmTypes /\ VersionInv /\ SourcesInv /\ SeedInv

\* The two extensions go on alone.
LEMMA LlvmAlone ==
  ASSUME extension = "llvm", [Next]_vars
  PROVE  /\ extension' = "llvm"
         /\ Llvm!Next \/ UNCHANGED <<modules, pc, next, compiler>>
  BY DEF Next, vars, shared, compiler, ToolchainStep, OsxStep, LlvmStep, KernelStep,
         ProjectStep, Done

\* The tags of no module have been read.
LEMMA LlvmInit ==
  ASSUME Llvm!Init
  PROVE  LlvmInv
<1>0. MaxModules \in Nat
  BY ExtensionsAssumption
<1>1. ASSUME NEW S, NEW n \in Nat, NEW s \in Llvm!BoundedSeq(S, n)
      PROVE  s \in Seq(S)
  BY DEF Llvm!BoundedSeq, Llvm!SeqOf
<1>2. modules \in Seq(CompilerTags)
  <2> DEFINE Tags == [root : BOOLEAN, version : Llvm!BoundedSeq(Versions, 2),
                      overrides : Llvm!BoundedSeq(Llvm!Overrides, 2)]
  <2>1. modules \in Seq(Tags)
    BY <1>0, <1>1 DEF Llvm!Init
  <2>2. Tags \subseteq CompilerTags
    BY <1>1 DEF CompilerTags
  <2> HIDE DEF Tags
  <2> QED BY <2>1, <2>2
<1>3. /\ pc = "version" /\ next = 1 /\ selected = None /\ llvmVersion = None /\ sources = None
      /\ users = <<>> /\ indexFile = DefaultIndex /\ dependencyIndex = None
      /\ Llvm!RootFirst(modules)
  BY DEF Llvm!Init
<1>4. \A i \in Versioned : ~(i < 1)
  BY <1>2 DEF Versioned
<1>5. VersionsRead(next)
  BY <1>3, <1>4 DEF VersionsRead, LastTag
<1>6. Len(modules) \in Nat /\ users \in Seq(IndexTags) /\ Llvm!RootFirst(users)
  BY <1>2, <1>3 DEF Llvm!RootFirst
<1>7. LlvmTypes
  BY <1>2, <1>3, <1>6 DEF LlvmTypes
<1> QED BY <1>3, <1>5, <1>6, <1>7 DEF LlvmInv, VersionInv, SourcesInv, SeedInv

\* The variables of a step keep their types.
LEMMA LlvmTypesKept ==
  ASSUME LlvmTypes, Llvm!Next \/ UNCHANGED <<modules, pc, next, compiler>>
  PROVE  LlvmTypes' /\ modules' = modules
<1>1. modules' = modules
  BY DEF compiler, Llvm!Next, Llvm!TwoVersions, Llvm!RootVersion, Llvm!ReadVersion, Llvm!SelectVersion,
         Llvm!MissingVersion, Llvm!BadVersionIndex, Llvm!SecondOverride, Llvm!ReadOverride,
         Llvm!KeepOverride, Llvm!IndexedSources, Llvm!NoIndexedSources, Llvm!TwoIndexes,
         Llvm!RootIndex, Llvm!ReadIndexTag, Llvm!LastIndex, Llvm!ChooseSeed, Llvm!NoSeed,
         Llvm!Fail, Llvm!LoadMinimal
<1>2. modules' \in Seq(CompilerTags) /\ Llvm!RootFirst(modules)'
  BY <1>1 DEF LlvmTypes, Llvm!RootFirst
<1>3. CASE Llvm!LoadMinimal
  <2>1. users' \in Seq(IndexTags)
    <3>0. MaxModules \in Nat
      BY ExtensionsAssumption
    <3>1. ASSUME NEW S, NEW n \in Nat, NEW s \in Llvm!BoundedSeq(S, n)
          PROVE  s \in Seq(S)
      BY DEF Llvm!BoundedSeq, Llvm!SeqOf
    <3> DEFINE Tags == [root : BOOLEAN, index : Llvm!BoundedSeq(IndexFiles, 2)]
    <3>2. users' \in Seq(Tags)
      BY <1>3, <3>0, <3>1 DEF Llvm!LoadMinimal
    <3>3. Tags \subseteq IndexTags
      BY <3>1 DEF IndexTags
    <3> HIDE DEF Tags
    <3> QED BY <3>2, <3>3
  <2>2. pc' = "index" /\ next' = 1 /\ Llvm!RootFirst(users)'
    BY <1>3 DEF Llvm!LoadMinimal, Llvm!RootFirst
  <2> QED BY <1>1, <1>2, <2>1, <2>2 DEF LlvmTypes
<1>4. CASE UNCHANGED users /\ next' \in {1, next, next + 1}
           /\ pc' \in {"version", "sources", "index", "release", "done", "failed"}
  BY <1>1, <1>2, <1>4 DEF LlvmTypes, Llvm!RootFirst
<1>5. CASE UNCHANGED <<modules, pc, next, compiler>>
  BY <1>4, <1>5 DEF compiler, LlvmTypes
<1>6. CASE Llvm!Fail
  BY <1>4, <1>6 DEF Llvm!Fail, Llvm!minimal
<1>7. CASE Llvm!RootVersion \/ Llvm!ReadVersion \/ Llvm!SelectVersion \/ Llvm!ReadOverride
  BY <1>4, <1>7 DEF Llvm!RootVersion, Llvm!ReadVersion, Llvm!SelectVersion, Llvm!ReadOverride,
                    Llvm!minimal, LlvmTypes
<1>8. CASE Llvm!RootIndex \/ Llvm!ReadIndexTag \/ Llvm!LastIndex \/ Llvm!ChooseSeed
  BY <1>4, <1>8 DEF Llvm!RootIndex, Llvm!ReadIndexTag, Llvm!LastIndex, Llvm!ChooseSeed,
                    Llvm!minimal, LlvmTypes
<1> QED BY <1>1, <1>3, <1>5, <1>6, <1>7, <1>8
        DEF Llvm!Next, Llvm!TwoVersions, Llvm!MissingVersion, Llvm!BadVersionIndex,
            Llvm!SecondOverride, Llvm!KeepOverride, Llvm!IndexedSources, Llvm!NoIndexedSources,
            Llvm!TwoIndexes, Llvm!NoSeed

\* _get_llvm_version decides on the version and nothing changes it afterwards.
LEMMA VersionKept ==
  ASSUME LlvmTypes, VersionInv, Llvm!Next \/ UNCHANGED <<modules, pc, next, compiler>>
  PROVE  VersionInv'
<1>1. modules \in Seq(CompilerTags) /\ modules' = modules /\ Llvm!RootFirst(modules)
      /\ next \in Nat \ {0}
  BY LlvmTypesKept DEF LlvmTypes
<1>2. /\ DOMAIN modules = 1..Len(modules) /\ Len(modules) \in Nat
      /\ \A i \in DOMAIN modules : /\ modules[i].root \in BOOLEAN
                                   /\ modules[i].version \in Seq(Versions)
  <2>1. DOMAIN modules = 1..Len(modules) /\ Len(modules) \in Nat
    BY <1>1
  <2>2. \A i \in DOMAIN modules : modules[i] \in CompilerTags
    BY <1>1
  <2> QED BY <2>1, <2>2 DEF CompilerTags
<1>3. Versioned' = Versioned /\ VersionTag' = VersionTag
  BY <1>1 DEF Versioned, VersionTag
<1>4. /\ Versioned \subseteq Nat /\ Versioned \subseteq DOMAIN modules
      /\ \A i \in Versioned : i < Len(modules) + 1 /\ VersionTag[i] \in Versions
  <2>1. Versioned \subseteq Nat /\ Versioned \subseteq DOMAIN modules
        /\ \A i \in Versioned : i < Len(modules) + 1
    BY <1>2 DEF Versioned
  <2>2. ASSUME NEW i \in Versioned PROVE VersionTag[i] \in Versions
    <3>1. modules[i].version \in Seq(Versions) /\ modules[i].version # <<>>
      BY <1>2, <2>1 DEF Versioned
    <3>2. modules[i].version[1] \in Versions
      BY <3>1
    <3> QED BY <2>1, <3>2 DEF VersionTag
  <2> QED BY <2>1, <2>2
<1>5. ASSUME llvmVersion' = llvmVersion, pc' # "version", pc' \in {"failed"} \/ pc # "version",
             pc' # "failed" => pc # "failed", LlvmTypes',
             pc' = "failed" /\ llvmVersion = None =>
               \A i \in DOMAIN modules : modules[i].root = TRUE => Len(modules[i].version) # 1
      PROVE  VersionInv'
  <2>1. llvmVersion' # None => llvmVersion' \in Versions /\ VersionDecided'
    BY <1>1, <1>3, <1>5 DEF VersionInv, VersionDecided
  <2> QED BY <1>1, <1>5, <2>1 DEF VersionInv, LlvmTypes
<1>6. CASE Llvm!TwoVersions
  <2>1. /\ pc = "version" /\ next \in DOMAIN modules /\ Len(modules[next].version) > 1
        /\ pc' = "failed" /\ llvmVersion' = llvmVersion /\ VersionsRead(next)
    BY <1>1, <1>2, <1>6 DEF Llvm!TwoVersions, Llvm!ReadingVersions, Llvm!Fail, VersionInv
  <2>2. ASSUME NEW i \in DOMAIN modules, modules[i].root = TRUE
        PROVE  Len(modules[i].version) # 1
    <3>1. i = 1
      BY <1>1, <2>2 DEF Llvm!RootFirst
    <3>2. CASE next = 1
      <4>1. modules[i].version \in Seq(Versions)
        BY <1>2, <2>2
      <4>2. PICK n \in Nat : n = Len(modules[i].version)
        BY <4>1
      <4>3. n > 1
        BY <2>1, <3>1, <3>2, <4>2
      <4>4. n # 1
        BY <4>3
      <4> QED BY <4>2, <4>4
    <3>3. CASE next # 1
      <4>1. i < next /\ i \notin Versioned
        BY <1>1, <2>1, <2>2, <3>1, <3>3 DEF VersionsRead
      <4>2. modules[i].version = <<>>
        BY <2>2, <4>1 DEF Versioned
      <4> QED BY <4>2
    <3> QED BY <3>2, <3>3
  <2> QED BY <1>5, <2>1, <2>2, LlvmTypesKept
<1>7. CASE Llvm!RootVersion
  <2>1. /\ pc = "version" /\ next \in DOMAIN modules /\ modules[next].root
        /\ Len(modules[next].version) = 1 /\ pc' = "sources"
        /\ llvmVersion' = modules[next].version[1]
    BY <1>1, <1>2, <1>7 DEF Llvm!RootVersion, Llvm!ReadingVersions
  <2>2. next \in Versioned /\ llvmVersion' = VersionTag[next] /\ modules[next].root = TRUE
    BY <1>2, <2>1 DEF Versioned, VersionTag
  <2>3. llvmVersion' \in Versions
    BY <1>4, <2>2
  <2>4. VersionDecided'
    BY <1>1, <1>3, <2>2 DEF VersionDecided
  <2>5. llvmVersion' # None
    BY <2>3, NoneAssumption
  <2> QED BY <2>1, <2>3, <2>4, <2>5 DEF VersionInv
<1>8. CASE Llvm!ReadVersion
  <2>1. /\ pc = "version" /\ next \in DOMAIN modules /\ pc' = "version" /\ next' = next + 1
        /\ llvmVersion' = llvmVersion /\ llvmVersion = None /\ VersionsRead(next)
        /\ next <= Len(modules)
    BY <1>1, <1>2, <1>8 DEF Llvm!ReadVersion, Llvm!ReadingVersions, VersionInv
  <2>2. CASE modules[next].version = <<>> /\ selected' = selected
    <3>1. next \notin Versioned
      BY <2>2 DEF Versioned
    <3>2. LastTag(Versioned, next + 1, VersionTag, selected, None)
      BY <1>1, <1>4, <2>1, <3>1, LastTagTurn DEF VersionsRead
    <3>3. \A i \in Versioned : i < next + 1 => modules[i].root = FALSE
      BY <1>1, <1>4, <2>1, <3>1 DEF VersionsRead
    <3>4. VersionsRead(next)'
      BY <1>1, <1>3, <2>1, <2>2, <3>2, <3>3 DEF VersionsRead
    <3> QED BY <1>1, <1>2, <2>1, <3>4 DEF VersionInv
  <2>3. CASE /\ ~modules[next].root /\ Len(modules[next].version) = 1
             /\ selected' = modules[next].version[1]
    <3>1. next \in Versioned /\ selected' = VersionTag[next] /\ modules[next].root = FALSE
      BY <1>2, <2>1, <2>3 DEF Versioned, VersionTag
    <3>2. LastTag(Versioned, next + 1, VersionTag, selected', None)
      BY <1>1, <1>4, <2>1, <3>1, LastTagTurn DEF VersionsRead
    <3>3. \A i \in Versioned : i < next + 1 => modules[i].root = FALSE
      BY <1>1, <1>4, <2>1, <3>1 DEF VersionsRead
    <3>4. VersionsRead(next)'
      BY <1>1, <1>3, <2>1, <3>2, <3>3 DEF VersionsRead
    <3> QED BY <1>1, <1>2, <2>1, <3>4 DEF VersionInv
  <2> QED BY <1>8, <2>2, <2>3 DEF Llvm!ReadVersion
<1>9. ASSUME pc = "version", next > Len(modules)
      PROVE  /\ \A i \in Versioned : modules[i].root = FALSE
             /\ LastTag(Versioned, Len(modules) + 1, VersionTag, selected, None)
  <2>1. next = Len(modules) + 1 /\ VersionsRead(next)
    BY <1>1, <1>2, <1>9 DEF VersionInv
  <2> QED BY <1>4, <2>1 DEF VersionsRead
<1>10. CASE Llvm!SelectVersion
  <2>1. /\ pc = "version" /\ next > Len(modules) /\ selected # None /\ llvmVersion' = selected
        /\ pc' = "sources"
    BY <1>10 DEF Llvm!SelectVersion
  <2>2. selected \in Versions
    BY <1>4, <1>9, <2>1 DEF LastTag
  <2>3. VersionDecided'
    BY <1>1, <1>3, <1>9, <2>1 DEF VersionDecided
  <2> QED BY <2>1, <2>2, <2>3 DEF VersionInv
<1>11. CASE Llvm!MissingVersion
  <2>1. /\ pc = "version" /\ next > Len(modules) /\ pc' = "failed" /\ llvmVersion' = llvmVersion
    BY <1>11 DEF Llvm!MissingVersion, Llvm!Fail
  <2>2. ASSUME NEW i \in DOMAIN modules, modules[i].root = TRUE
        PROVE  Len(modules[i].version) # 1
    <3>1. modules[i].version = <<>>
      BY <1>9, <2>1, <2>2 DEF Versioned
    <3> QED BY <3>1
  <2> QED BY <1>5, <2>1, <2>2, LlvmTypesKept
<1>12. CASE /\ pc \in {"sources", "index", "release", "done"} /\ llvmVersion' = llvmVersion
            /\ pc' \in {"sources", "index", "release", "done", "failed"}
  <2>1. llvmVersion # None
    BY <1>12 DEF VersionInv
  <2> QED BY <1>5, <1>12, <2>1, LlvmTypesKept
<1>13. CASE UNCHANGED <<modules, pc, next, compiler>>
  <2>1. pc' = pc /\ next' = next /\ llvmVersion' = llvmVersion /\ selected' = selected
    BY <1>13 DEF compiler
  <2>2. VersionsRead(next) => VersionsRead(next)'
    BY <1>1, <1>3, <2>1 DEF VersionsRead
  <2>3. VersionDecided => VersionDecided'
    BY <1>1, <1>3, <2>1 DEF VersionDecided
  <2> QED BY <1>1, <2>1, <2>2, <2>3 DEF VersionInv
<1>14. CASE \/ Llvm!BadVersionIndex \/ Llvm!SecondOverride \/ Llvm!ReadOverride \/ Llvm!KeepOverride
            \/ Llvm!IndexedSources \/ Llvm!NoIndexedSources
  BY <1>12, <1>14 DEF Llvm!BadVersionIndex, Llvm!SecondOverride, Llvm!ReadOverride,
       Llvm!KeepOverride, Llvm!IndexedSources, Llvm!NoIndexedSources, Llvm!ReadingOverrides,
       Llvm!LoadMinimal, Llvm!Fail
<1>15. CASE \/ Llvm!TwoIndexes \/ Llvm!RootIndex \/ Llvm!ReadIndexTag \/ Llvm!LastIndex
            \/ Llvm!ChooseSeed \/ Llvm!NoSeed
  BY <1>12, <1>15 DEF Llvm!TwoIndexes, Llvm!RootIndex, Llvm!ReadIndexTag, Llvm!LastIndex,
       Llvm!ChooseSeed, Llvm!NoSeed, Llvm!ReadingIndexes, Llvm!Fail
<1> QED BY <1>6, <1>7, <1>8, <1>10, <1>11, <1>13, <1>14, <1>15 DEF Llvm!Next

\* _create_llvm_project_repository takes an override or the indexed sources of
\* the version.
LEMMA SourcesKept ==
  ASSUME LlvmTypes, SourcesInv, Llvm!Next \/ UNCHANGED <<modules, pc, next, compiler>>
  PROVE  SourcesInv'
<1>1. modules \in Seq(CompilerTags) /\ modules' = modules /\ next \in Nat \ {0}
  BY LlvmTypesKept DEF LlvmTypes
<1>2. /\ DOMAIN modules = 1..Len(modules) /\ Len(modules) \in Nat
      /\ \A i \in DOMAIN modules : modules[i].overrides \in Seq(Llvm!Overrides)
  <2>1. DOMAIN modules = 1..Len(modules) /\ Len(modules) \in Nat
    BY <1>1
  <2>2. \A i \in DOMAIN modules : modules[i] \in CompilerTags
    BY <1>1
  <2> QED BY <2>1, <2>2 DEF CompilerTags
<1>3. ASSUME sources' = sources
      PROVE  /\ NoOverride(next) /\ next' = next => NoOverride(next)'
             /\ OverrideTaken(next) /\ next' = next => OverrideTaken(next)'
             /\ NoOverride(Len(modules) + 1) => NoOverride(Len(modules) + 1)'
             /\ OverrideTaken(Len(modules) + 1) => OverrideTaken(Len(modules) + 1)'
  BY <1>1, <1>3 DEF NoOverride, OverrideTaken
<1>4. CASE /\ sources' = sources
           /\ \/ pc' = "failed"
              \/ pc' = pc /\ llvmVersion' = llvmVersion /\ (pc = "sources" => next' = next)
              \/ /\ pc \in {"index", "release"} /\ pc' \in {"index", "release", "done"}
                 /\ llvmVersion' = llvmVersion
  BY <1>1, <1>3, <1>4 DEF SourcesInv
<1>5. CASE pc = "version" /\ pc' = "sources" /\ next' = 1 /\ sources' = sources
  <2>1. NoOverride(next)'
    BY <1>1, <1>2, <1>5 DEF NoOverride
  <2> QED BY <1>1, <1>2, <1>5, <2>1 DEF SourcesInv
<1>6. CASE Llvm!ReadOverride
  <2>1. /\ pc = "sources" /\ pc' = "sources" /\ next <= Len(modules) /\ next' = next + 1
        /\ Len(modules[next].overrides) + (IF sources = None THEN 0 ELSE 1) <= 1
        /\ sources' = IF modules[next].overrides = <<>> THEN sources
                      ELSE [kind |-> modules[next].overrides[1], version |-> None]
    BY <1>6 DEF Llvm!ReadOverride, Llvm!ReadingOverrides
  <2>2. next \in DOMAIN modules /\ next + 1 <= Len(modules) + 1
    BY <1>1, <1>2, <2>1
  <2>3. \A i \in DOMAIN modules : i < next + 1 <=> i < next \/ i = next
    BY <1>1, <1>2
  <2>4. CASE modules[next].overrides = <<>>
    <3>1. sources = None /\ NoOverride(next) => sources' = None /\ NoOverride(next)'
      BY <1>1, <2>1, <2>3, <2>4 DEF NoOverride
    <3>2. OverrideTaken(next) => OverrideTaken(next)'
      BY <1>1, <2>1, <2>3, <2>4 DEF OverrideTaken
    <3> QED BY <1>1, <2>1, <2>2, <3>1, <3>2 DEF SourcesInv
  <2>5. CASE modules[next].overrides # <<>>
    <3>1. PICK list \in Seq(Llvm!Overrides) : list = modules[next].overrides
      BY <1>2, <2>2
    <3>2. Len(list) \in Nat /\ Len(list) # 0
      BY <2>5, <3>1
    <3>3. sources = None /\ Len(list) = 1
      <4>1. PICK n \in Nat : n = Len(list)
        BY <3>2
      <4>2. PICK taken \in {0, 1} : taken = (IF sources = None THEN 0 ELSE 1)
        OBVIOUS
      <4>3. n + taken <= 1
        BY <2>1, <3>1, <4>1, <4>2
      <4>4. n = 1 /\ taken = 0
        BY <3>2, <4>1, <4>2, <4>3
      <4> QED BY <4>1, <4>2, <4>4
    <3>4. list = <<list[1]>> /\ list[1] \in Llvm!Overrides
      BY <3>1, <3>3
    <3>5. NoOverride(next)
      BY <2>1, <3>3 DEF SourcesInv, OverrideTaken
    <3>6. sources' = [kind |-> list[1], version |-> None]
      BY <2>1, <2>5, <3>1
    <3>7. sources' # None /\ sources'.kind = list[1]
      BY <3>4, <3>6, NoneAssumption DEF Llvm!Overrides
    <3>8. modules'[next].overrides = <<sources'.kind>>
      BY <1>1, <3>1, <3>4, <3>7
    <3>9. \A j \in DOMAIN modules' : j < next' /\ j # next => modules'[j].overrides = <<>>
      BY <1>1, <2>1, <2>3, <3>5 DEF NoOverride
    <3>10. OverrideTaken(next)'
      BY <1>1, <2>2, <3>7, <3>8, <3>9 DEF OverrideTaken
    <3> QED BY <1>1, <2>1, <2>2, <3>10 DEF SourcesInv
  <2> QED BY <2>4, <2>5
<1>7. pc = "sources" /\ next > Len(modules) => next = Len(modules) + 1
  BY <1>1, <1>2 DEF SourcesInv
<1>8. CASE Llvm!KeepOverride
  <2>1. /\ pc = "sources" /\ next > Len(modules) /\ sources # None /\ sources' = sources
        /\ pc' = "index"
    BY <1>8 DEF Llvm!KeepOverride, Llvm!LoadMinimal
  <2>2. OverrideTaken(Len(modules) + 1)
    BY <1>7, <2>1 DEF SourcesInv
  <2> QED BY <1>3, <2>1, <2>2 DEF SourcesInv
<1>9. CASE Llvm!IndexedSources
  <2>1. /\ pc = "sources" /\ next > Len(modules) /\ sources = None
        /\ pc' = "index" /\ sources' = [kind |-> "index", version |-> llvmVersion]
        /\ llvmVersion' = llvmVersion
    BY <1>9 DEF Llvm!IndexedSources, Llvm!LoadMinimal
  <2>2. NoOverride(Len(modules) + 1)
    BY <1>7, <2>1 DEF SourcesInv, OverrideTaken
  <2>3. NoOverride(Len(modules) + 1)'
    BY <1>1, <2>2 DEF NoOverride
  <2> QED BY <2>1, <2>3 DEF SourcesInv
<1>10. CASE Llvm!Fail
  BY <1>4, <1>10 DEF Llvm!Fail
<1>11. CASE Llvm!RootVersion \/ Llvm!SelectVersion
  BY <1>5, <1>11 DEF Llvm!RootVersion, Llvm!SelectVersion, Llvm!ReadingVersions
<1>12. CASE Llvm!ReadVersion
  BY <1>4, <1>12 DEF Llvm!ReadVersion, Llvm!ReadingVersions
<1>13. CASE Llvm!RootIndex \/ Llvm!ReadIndexTag \/ Llvm!LastIndex \/ Llvm!ChooseSeed
  BY <1>4, <1>13 DEF Llvm!RootIndex, Llvm!ReadIndexTag, Llvm!LastIndex, Llvm!ChooseSeed,
                     Llvm!ReadingIndexes
<1>14. CASE UNCHANGED <<modules, pc, next, compiler>>
  BY <1>4, <1>14 DEF compiler
<1> QED BY <1>6, <1>8, <1>9, <1>10, <1>11, <1>12, <1>13, <1>14
        DEF Llvm!Next, Llvm!TwoVersions, Llvm!MissingVersion, Llvm!BadVersionIndex,
            Llvm!SecondOverride, Llvm!NoIndexedSources, Llvm!TwoIndexes, Llvm!NoSeed

\* _get_index decides on the index, and _release_key on the compiler.
LEMMA SeedKept ==
  ASSUME LlvmTypes, SeedInv, Llvm!Next \/ UNCHANGED <<modules, pc, next, compiler>>
  PROVE  SeedInv'
<1>1. users \in Seq(IndexTags) /\ users' \in Seq(IndexTags) /\ next \in Nat \ {0}
  BY LlvmTypesKept DEF LlvmTypes
<1>2. /\ DOMAIN users = 1..Len(users) /\ Len(users) \in Nat
      /\ \A i \in DOMAIN users : users[i].root \in BOOLEAN /\ users[i].index \in Seq(IndexFiles)
  <2>1. DOMAIN users = 1..Len(users) /\ Len(users) \in Nat
    BY <1>1
  <2>2. \A i \in DOMAIN users : users[i] \in IndexTags
    BY <1>1
  <2> QED BY <2>1, <2>2 DEF IndexTags
<1>3. users' = users => Indexed' = Indexed /\ IndexTag' = IndexTag
  BY DEF Indexed, IndexTag
<1>4. /\ Indexed \subseteq Nat /\ Indexed \subseteq DOMAIN users
      /\ \A i \in Indexed : i < Len(users) + 1 /\ IndexTag[i] \in IndexFiles
  <2>1. Indexed \subseteq Nat /\ Indexed \subseteq DOMAIN users
        /\ \A i \in Indexed : i < Len(users) + 1
    BY <1>2 DEF Indexed
  <2>2. ASSUME NEW i \in Indexed PROVE IndexTag[i] \in IndexFiles
    <3>1. users[i].index \in Seq(IndexFiles) /\ users[i].index # <<>>
      BY <1>2, <2>1 DEF Indexed
    <3>2. users[i].index[1] \in IndexFiles
      BY <3>1
    <3> QED BY <2>1, <3>2 DEF IndexTag
  <2> QED BY <2>1, <2>2
<1>5. None \notin IndexFiles
  BY NoneAssumption
<1>6. CASE pc = "sources" /\ Llvm!LoadMinimal
  <2>1. /\ pc' = "index" /\ next' = 1 /\ indexFile' = indexFile
        /\ dependencyIndex' = dependencyIndex
    BY <1>6 DEF Llvm!LoadMinimal
  <2>2. \A i \in Indexed' : ~(i < 1)
    BY <1>1 DEF Indexed
  <2>3. IndexesRead(next)'
    BY <1>6, <2>1, <2>2 DEF IndexesRead, LastTag, SeedInv
  <2>4. Len(users') \in Nat
    BY <1>1
  <2> QED BY <1>6, <2>1, <2>3, <2>4 DEF SeedInv
<1>7. CASE Llvm!RootIndex
  <2>1. /\ pc = "index" /\ next \in DOMAIN users /\ users[next].root
        /\ Len(users[next].index) = 1 /\ pc' = "release" /\ users' = users
        /\ indexFile' = users[next].index[1] /\ dependencyIndex' = dependencyIndex
    BY <1>1, <1>2, <1>7 DEF Llvm!RootIndex, Llvm!ReadingIndexes
  <2>2. next \in Indexed /\ indexFile' = IndexTag[next] /\ users[next].root = TRUE
    BY <1>2, <2>1 DEF Indexed, IndexTag
  <2>3. next = 1
    BY <2>1 DEF LlvmTypes, Llvm!RootFirst
  <2>4. LastTag(Indexed, 1, IndexTag, dependencyIndex, None)
    BY <2>1, <2>3 DEF SeedInv, IndexesRead
  <2>5. \A i \in Indexed : ~(i < 1)
    BY <1>2 DEF Indexed
  <2>6. dependencyIndex = None
    BY <2>4, <2>5 DEF LastTag
  <2>7. Llvm!ChosenIndex' = indexFile'
    BY <2>1, <2>6 DEF Llvm!ChosenIndex
  <2>8. IndexDecided(Llvm!ChosenIndex)'
    BY <1>3, <2>1, <2>2, <2>7 DEF IndexDecided
  <2> QED BY <2>1, <2>8 DEF SeedInv
<1>8. CASE Llvm!ReadIndexTag
  <2>1. /\ pc = "index" /\ next \in DOMAIN users /\ pc' = "index" /\ next' = next + 1
        /\ users' = users /\ indexFile' = indexFile /\ indexFile = DefaultIndex
        /\ IndexesRead(next) /\ next <= Len(users)
    BY <1>1, <1>2, <1>8 DEF Llvm!ReadIndexTag, Llvm!ReadingIndexes, SeedInv
  <2>2. CASE users[next].index = <<>> /\ dependencyIndex' = dependencyIndex
    <3>1. next \notin Indexed
      BY <2>2 DEF Indexed
    <3>2. LastTag(Indexed, next + 1, IndexTag, dependencyIndex, None)
      BY <1>1, <1>4, <2>1, <3>1, LastTagTurn DEF IndexesRead
    <3>3. \A i \in Indexed : i < next + 1 => users[i].root = FALSE
      BY <1>1, <1>4, <2>1, <3>1 DEF IndexesRead
    <3>4. IndexesRead(next)'
      BY <1>3, <2>1, <2>2, <3>2, <3>3 DEF IndexesRead
    <3> QED BY <1>1, <1>2, <2>1, <3>4 DEF SeedInv
  <2>3. CASE /\ ~users[next].root /\ Len(users[next].index) = 1
             /\ dependencyIndex' = users[next].index[1]
    <3>1. next \in Indexed /\ dependencyIndex' = IndexTag[next] /\ users[next].root = FALSE
      BY <1>2, <2>1, <2>3 DEF Indexed, IndexTag
    <3>2. LastTag(Indexed, next + 1, IndexTag, dependencyIndex', None)
      BY <1>1, <1>4, <2>1, <3>1, LastTagTurn DEF IndexesRead
    <3>3. \A i \in Indexed : i < next + 1 => users[i].root = FALSE
      BY <1>1, <1>4, <2>1, <3>1 DEF IndexesRead
    <3>4. IndexesRead(next)'
      BY <1>3, <2>1, <3>2, <3>3 DEF IndexesRead
    <3> QED BY <1>1, <1>2, <2>1, <3>4 DEF SeedInv
  <2> QED BY <1>8, <2>2, <2>3 DEF Llvm!ReadIndexTag
<1>9. CASE Llvm!LastIndex
  <2>1. /\ pc = "index" /\ next > Len(users) /\ pc' = "release" /\ users' = users
        /\ indexFile' = indexFile /\ dependencyIndex' = dependencyIndex
        /\ indexFile = DefaultIndex /\ IndexesRead(next) /\ next <= Len(users) + 1
    BY <1>9 DEF Llvm!LastIndex, Llvm!minimal, SeedInv
  <2>2. next = Len(users) + 1
    BY <1>1, <1>2, <2>1
  <2>3. /\ \A i \in Indexed : users[i].root = FALSE
        /\ LastTag(Indexed, Len(users) + 1, IndexTag, dependencyIndex, None)
    BY <1>4, <2>1, <2>2 DEF IndexesRead
  <2>4. LastTag(Indexed, Len(users) + 1, IndexTag, Llvm!ChosenIndex, DefaultIndex)
    BY <1>4, <1>5, <2>1, <2>3 DEF LastTag, Llvm!ChosenIndex
  <2>5. Llvm!ChosenIndex' = Llvm!ChosenIndex
    BY <2>1 DEF Llvm!ChosenIndex
  <2>6. IndexDecided(Llvm!ChosenIndex)'
    BY <1>3, <2>1, <2>3, <2>4, <2>5 DEF IndexDecided
  <2> QED BY <2>1, <2>6 DEF SeedInv
<1>10. CASE Llvm!ChooseSeed
  <2>1. /\ pc = "release" /\ pc' = "done" /\ users' = users /\ llvmVersion' = llvmVersion
        /\ indexFile' = Llvm!ChosenIndex /\ IndexDecided(Llvm!ChosenIndex)
    BY <1>10 DEF Llvm!ChooseSeed, SeedInv
  <2>2. PICK latest \in SUBSET Versions, default_ \in Versions \cup {None} :
          /\ Llvm!SeedVersion(latest, default_) \in latest
          /\ seed' = Llvm!SeedVersion(latest, default_)
          /\ warned' = (llvmVersion \notin latest)
    BY <1>10 DEF Llvm!ChooseSeed
  <2>3. warned' <=> seed' # llvmVersion'
    BY <2>1, <2>2 DEF Llvm!SeedVersion
  <2>4. IndexDecided(indexFile)'
    BY <1>3, <2>1 DEF IndexDecided
  <2> QED BY <2>1, <2>3, <2>4 DEF SeedInv
<1>11. CASE Llvm!Fail
  BY <1>11 DEF Llvm!Fail, SeedInv
<1>12. CASE /\ pc \in {"version", "sources"} /\ pc' \in {"version", "sources"}
            /\ indexFile' = indexFile /\ dependencyIndex' = dependencyIndex
  BY <1>12 DEF SeedInv
<1>13. CASE Llvm!RootVersion \/ Llvm!ReadVersion \/ Llvm!SelectVersion \/ Llvm!ReadOverride
  BY <1>12, <1>13 DEF Llvm!RootVersion, Llvm!ReadVersion, Llvm!SelectVersion, Llvm!ReadOverride,
                      Llvm!ReadingVersions, Llvm!ReadingOverrides, Llvm!minimal
<1>14. CASE UNCHANGED <<modules, pc, next, compiler>>
  <2>1. /\ pc' = pc /\ next' = next /\ users' = users /\ indexFile' = indexFile
        /\ dependencyIndex' = dependencyIndex /\ seed' = seed /\ warned' = warned
        /\ llvmVersion' = llvmVersion
    BY <1>14 DEF compiler
  <2>2. IndexesRead(next) => IndexesRead(next)'
    BY <1>3, <2>1 DEF IndexesRead
  <2>3. /\ IndexDecided(indexFile) => IndexDecided(indexFile)'
        /\ IndexDecided(Llvm!ChosenIndex) => IndexDecided(Llvm!ChosenIndex)'
    BY <1>3, <2>1 DEF IndexDecided, Llvm!ChosenIndex
  <2> QED BY <2>1, <2>2, <2>3 DEF SeedInv
<1> QED BY <1>6, <1>7, <1>8, <1>9, <1>10, <1>11, <1>13, <1>14
        DEF Llvm!Next, Llvm!TwoVersions, Llvm!MissingVersion, Llvm!BadVersionIndex,
            Llvm!SecondOverride, Llvm!KeepOverride, Llvm!IndexedSources, Llvm!NoIndexedSources,
            Llvm!TwoIndexes, Llvm!NoSeed

\* The compiler, the version and the sources agree.
LEMMA LlvmDecided ==
  ASSUME LlvmInv
  PROVE  Llvm!RootDecides /\ Llvm!SeedMatchesSources
<1>1. /\ modules \in Seq(CompilerTags) /\ Llvm!RootFirst(modules)
      /\ users \in Seq(IndexTags) /\ Llvm!RootFirst(users)
  BY DEF LlvmInv, LlvmTypes
<1>2. ASSUME llvmVersion # None
      PROVE  llvmVersion = Llvm!Deciding(modules, LAMBDA m : m.version, None)
  <2>1. VersionDecided
    BY <1>2 DEF LlvmInv, VersionInv
  <2>2. CASE \E i \in Versioned : modules[i].root = TRUE /\ llvmVersion = VersionTag[i]
    BY <1>1, <2>2, DecidingVersion
  <2>3. CASE /\ \A i \in Versioned : modules[i].root = FALSE
             /\ LastTag(Versioned, Len(modules) + 1, VersionTag, llvmVersion, None)
    BY <1>1, <2>3, DecidingVersion
  <2> QED BY <2>1, <2>2, <2>3 DEF VersionDecided
<1>3. ASSUME pc = "done"
      PROVE  indexFile = Llvm!Deciding(users, LAMBDA u : u.index, DefaultIndex)
  <2>1. IndexDecided(indexFile)
    BY <1>3 DEF LlvmInv, SeedInv
  <2>2. CASE \E i \in Indexed : users[i].root = TRUE /\ indexFile = IndexTag[i]
    BY <1>1, <2>2, DecidingIndex
  <2>3. CASE /\ \A i \in Indexed : users[i].root = FALSE
             /\ LastTag(Indexed, Len(users) + 1, IndexTag, indexFile, DefaultIndex)
    BY <1>1, <2>3, DecidingIndex
  <2> QED BY <2>1, <2>2, <2>3 DEF IndexDecided
<1>4. pc = "failed" /\ llvmVersion = None =>
        \A i \in DOMAIN modules : modules[i].root => Len(modules[i].version) # 1
  BY DEF LlvmInv, VersionInv
<1>5. Llvm!RootDecides
  BY <1>2, <1>3, <1>4 DEF Llvm!RootDecides
<1>6. \A i \in DOMAIN modules : i < Len(modules) + 1
  BY <1>1
<1>7. ASSUME pc = "done"
      PROVE  \/ /\ sources = [kind |-> "index", version |-> llvmVersion]
                /\ \A i \in DOMAIN modules : modules[i].overrides = <<>>
             \/ \E i \in DOMAIN modules :
                  /\ modules[i].overrides = <<sources.kind>>
                  /\ \A j \in DOMAIN modules \ {i} : modules[j].overrides = <<>>
  <2>1. CASE OverrideTaken(Len(modules) + 1)
    BY <1>6, <2>1 DEF OverrideTaken
  <2>2. CASE /\ sources = [kind |-> "index", version |-> llvmVersion]
             /\ NoOverride(Len(modules) + 1)
    BY <1>6, <2>2 DEF NoOverride
  <2> QED BY <1>7, <2>1, <2>2 DEF LlvmInv, SourcesInv
<1>8. Llvm!SeedMatchesSources
  BY <1>7 DEF Llvm!SeedMatchesSources, LlvmInv, SeedInv
<1> QED BY <1>5, <1>8

\* The root's tags decide on the version of LLVM and on the index, and the
\* compiler, the version and the sources agree or a warning or the one override
\* says why not, for all tags, those that name the default index included, and all
\* indexes (extensions/llvm.bzl and llvm_toolchain_minimal.bzl).
THEOREM Decided == Spec => []VersionsAsDecided
<1> DEFINE I == extension = "llvm" => LlvmInv
<1>1. Init => I
  BY LlvmInit DEF Init
<1>2. I /\ [Next]_vars => I'
  <2> SUFFICES ASSUME I, [Next]_vars, extension' = "llvm" PROVE LlvmInv'
    OBVIOUS
  <2>1. extension = "llvm"
    BY DEF Next, vars, ToolchainStep, OsxStep, LlvmStep, KernelStep, ProjectStep, Done
  <2>2. LlvmInv /\ (Llvm!Next \/ UNCHANGED <<modules, pc, next, compiler>>)
    BY <2>1, LlvmAlone
  <2> QED BY <2>2, LlvmTypesKept, VersionKept, SourcesKept, SeedKept DEF LlvmInv
<1>3. I => VersionsAsDecided
  BY LlvmDecided DEF VersionsAsDecided
<1> QED BY <1>1, <1>2, <1>3, PTL DEF Spec

-----------------------------------------------------------------------------
(* llvm-project                                                             *)

\* A path is a sequence of names, of which some are known.
Name ==
  STRING \cup {"checkout", "repository", "utils", "bazel", "llvm-project-overlay",
               "third_party_build", ".bazelignore", "BUILD.bazel", "vars.bzl",
               "llvm", "bolt", "targets.bzl", "instrumentor.bzl"}
Path == Seq(Name)

\* The checkout as it was found, and the directories of its overlay.
Before == Project!Planted(Project!Checkout)

OverlayDir(q) ==
  LET x == Project!Checkout \o Project!Overlay \o q
  IN  x \in DOMAIN Before /\ Before[x].kind = "dir"

\* The checkout is in the tree as it was found.
SameCheckout(tree) ==
  \A x \in DOMAIN Before \cup DOMAIN tree :
    x[1] = "checkout" => x \in DOMAIN Before \cap DOMAIN tree /\ tree[x] = Before[x]

\* Links are in the repository, none in the place of a directory of the overlay.
LinksBeside(tree) ==
  \A x \in DOMAIN tree :
    tree[x].kind = "link" => Len(x) > 1 /\ x[1] = "repository" /\ ~OverlayDir(Tail(x))

Repo(q) == Project!Repository \o q

\* One of the directories that are materialized is no link.
NoLink(tree, k) ==
  LET x == Repo(SubSeq(Project!ThirdParty, 1, k))
  IN  x \in DOMAIN tree => tree[x].kind # "link"

\* The constant paths are paths.
LEMMA ConstantPaths ==
  /\ Project!Checkout \in Path /\ Len(Project!Checkout) = 1 /\ Project!Checkout[1] = "checkout"
  /\ Project!Repository \in Path /\ Len(Project!Repository) = 1
  /\ Project!Repository[1] = "repository"
  /\ Project!Overlay \in Path /\ Len(Project!Overlay) = 3
  /\ Project!ThirdParty \in Path /\ Len(Project!ThirdParty) = 3
  /\ Project!ThirdParty[1] = "utils"
<1>0. {"checkout", "repository", "utils", "bazel", "llvm-project-overlay", "third_party_build"}
        \subseteq Name
  BY DEF Name
<1>1. ASSUME NEW a \in Name
      PROVE  <<a>> \in Path /\ Len(<<a>>) = 1 /\ <<a>>[1] = a
  BY DEF Path
<1>2. ASSUME NEW a \in Name, NEW b \in Name, NEW c \in Name
      PROVE  <<a, b, c>> \in Path /\ Len(<<a, b, c>>) = 3 /\ <<a, b, c>>[1] = a
  BY DEF Path
<1>3. /\ Project!Overlay \in Path /\ Len(Project!Overlay) = 3
      /\ Project!ThirdParty \in Path /\ Len(Project!ThirdParty) = 3
      /\ Project!ThirdParty[1] = "utils"
  BY <1>2, <1>0 DEF Project!Overlay, Project!ThirdParty
<1>4. /\ Project!Checkout \in Path /\ Len(Project!Checkout) = 1 /\ Project!Checkout[1] = "checkout"
      /\ Project!Repository \in Path /\ Len(Project!Repository) = 1
      /\ Project!Repository[1] = "repository"
  BY <1>1, <1>0 DEF Project!Checkout, Project!Repository
<1> QED BY <1>3, <1>4

\* A path with a name is not empty.
LEMMA EmptyPath ==
  /\ <<>> \in Path /\ Len(<<>>) = 0
  /\ \A p \in Path : Len(p) \in Nat /\ (p # <<>> <=> Len(p) >= 1)
<1>1. <<>> \in Path /\ Len(<<>>) = 0
  BY EmptySeq DEF Path
<1>2. \A p \in Path : p # <<>> => Len(p) \in Nat \ {0}
  BY EmptySeq DEF Path
<1>3. \A p \in Path : Len(p) \in Nat
  BY LenProperties DEF Path
<1>4. ASSUME NEW p \in Path PROVE p # <<>> <=> Len(p) >= 1
  BY <1>1, <1>2
<1> QED BY <1>1, <1>3, <1>4

\* A path of one name is not empty.
LEMMA OneName == ASSUME NEW r \in Path, Len(r) = 1 PROVE r # <<>>
<1>1. Len(r) >= 1
  OBVIOUS
<1> QED BY <1>1, EmptyPath, Zenon

\* A path below another one.
LEMMA Below ==
  ASSUME NEW r \in Path, NEW q \in Path, r # <<>>
  PROVE  /\ r \o q \in Path /\ Len(r \o q) = Len(r) + Len(q) /\ (r \o q)[1] = r[1]
         /\ r \o q # <<>> /\ Len(r) >= 1
         /\ \A i \in 1..Len(q) : (r \o q)[Len(r) + i] = q[i]
<1>1. Len(r) \in Nat \ {0} /\ Len(q) \in Nat
  BY EmptySeq, LenProperties DEF Path
<1>2. /\ r \o q \in Path /\ Len(r \o q) = Len(r) + Len(q)
      /\ \A i \in 1..Len(r) + Len(q) :
           (r \o q)[i] = IF i <= Len(r) THEN r[i] ELSE q[i - Len(r)]
  BY ConcatProperties DEF Path
<1>3. r \o q # <<>>
  BY <1>1, <1>2, EmptySeq DEF Path
<1> QED BY <1>1, <1>2, <1>3

\* What remains of it when the root, of one name, is taken away.
LEMMA TailBelow ==
  ASSUME NEW r \in Path, NEW q \in Path, Len(r) = 1
  PROVE  Tail(r \o q) = q
<1>1. r # <<>>
  BY EmptySeq
<1>2. /\ r \o q \in Seq(Name) /\ r \o q # <<>> /\ Len(r \o q) = 1 + Len(q)
      /\ \A i \in 1..Len(q) : (r \o q)[1 + i] = q[i]
  BY <1>1, Below DEF Path
<1>3. /\ Tail(r \o q) \in Seq(Name) /\ Len(Tail(r \o q)) = Len(r \o q) - 1
      /\ \A i \in 1..Len(Tail(r \o q)) : Tail(r \o q)[i] = (r \o q)[i + 1]
  BY <1>2, HeadTailProperties
<1>4. Len(q) \in Nat /\ q \in Seq(Name)
  BY LenProperties DEF Path
<1>5. Len(Tail(r \o q)) = Len(q)
  BY <1>2, <1>3, <1>4
<1>6. \A i \in 1..Len(q) : Tail(r \o q)[i] = q[i]
  BY <1>2, <1>3, <1>4, <1>5
<1> QED BY <1>3, <1>4, <1>5, <1>6, SeqEqual

\* A path begins with the names above it.
LEMMA Beginning ==
  ASSUME NEW p \in Path, NEW n \in 0..Len(p)
  PROVE  /\ SubSeq(p, 1, n) \in Path /\ Len(SubSeq(p, 1, n)) = n
         /\ \A i \in 1..n : SubSeq(p, 1, n)[i] = p[i]
<1>1. Len(p) \in Nat /\ \A i \in 1..n : p[i] \in Name
  BY ElementOfSeq, LenProperties DEF Path
<1> QED BY <1>1, SubSeqProperties DEF Path

\* The directories above a path.
LEMMA Above ==
  ASSUME NEW p \in Path, NEW a \in Project!Ancestors(p)
  PROVE  /\ a \in Path /\ a # <<>> /\ a[1] = p[1] /\ Len(a) \in Nat /\ Len(a) < Len(p)
         /\ \E n \in 1..Len(p) - 1 : a = SubSeq(p, 1, n)
<1>1. PICK n \in 1..Len(p) - 1 : a = SubSeq(p, 1, n)
  BY DEF Project!Ancestors
<1>2. Len(p) \in Nat /\ n \in 0..Len(p) /\ n >= 1 /\ n < Len(p)
  BY <1>1, LenProperties DEF Path
<1>3. a \in Path /\ Len(a) = n /\ \A i \in 1..n : a[i] = p[i]
  BY <1>1, <1>2, Beginning
<1>4. a # <<>>
  BY <1>2, <1>3, EmptySeq
<1> QED BY <1>1, <1>2, <1>3, <1>4

\* Above a path below a root there are the root and paths below it.
LEMMA AboveBelow ==
  ASSUME NEW r \in Path, Len(r) = 1, NEW q \in Path, NEW a \in Project!Ancestors(r \o q)
  PROVE  \E k \in 0..Len(q) - 1 : a = r \o SubSeq(q, 1, k)
<1>0. r # <<>>
  BY OneName
<1>1. /\ r \o q \in Path /\ Len(r \o q) = 1 + Len(q) /\ (r \o q)[1] = r[1]
      /\ \A i \in 1..Len(q) : (r \o q)[1 + i] = q[i]
  BY <1>0, Below
<1>2. PICK n \in 1..Len(r \o q) - 1 : a = SubSeq(r \o q, 1, n)
  BY <1>1, Above
<1>3. Len(q) \in Nat
  BY LenProperties DEF Path
<1> DEFINE k == n - 1
<1>4. k \in 0..Len(q) - 1 /\ n \in 0..Len(r \o q) /\ n = k + 1
  BY <1>1, <1>2, <1>3
<1>5. a \in Path /\ Len(a) = n /\ \A i \in 1..n : a[i] = (r \o q)[i]
  BY <1>1, <1>2, <1>4, Beginning
<1> DEFINE b == SubSeq(q, 1, k)
<1>6. b \in Path /\ Len(b) = k /\ \A i \in 1..k : b[i] = q[i]
  BY <1>3, <1>4, Beginning
<1> HIDE DEF b, k
<1>7. /\ r \o b \in Path /\ Len(r \o b) = 1 + k /\ (r \o b)[1] = r[1]
      /\ \A i \in 1..k : (r \o b)[1 + i] = b[i]
  <2>1. /\ r \o b \in Path /\ Len(r \o b) = Len(r) + Len(b) /\ (r \o b)[1] = r[1]
        /\ \A i \in 1..Len(b) : (r \o b)[Len(r) + i] = b[i]
    BY <1>0, <1>6, Below
  <2> QED BY <2>1, <1>6
<1>8. ASSUME NEW i \in 1..Len(a) PROVE a[i] = (r \o b)[i]
  <2>1. CASE i = 1
    BY <2>1, <1>1, <1>4, <1>5, <1>7
  <2>2. CASE i # 1
    <3>1. i - 1 \in 1..k /\ i = 1 + (i - 1) /\ i - 1 \in 1..Len(q)
      BY <2>2, <1>3, <1>4, <1>5
    <3>2. (r \o b)[i] = b[i - 1] /\ (r \o q)[i] = q[i - 1]
      BY <3>1, <1>1, <1>7
    <3> QED BY <3>1, <3>2, <1>4, <1>5, <1>6
  <2> QED BY <2>1, <2>2
<1>9. a = r \o b
  <2>1. a \in Seq(Name) /\ r \o b \in Seq(Name) /\ Len(a) = Len(r \o b)
    BY <1>4, <1>5, <1>7 DEF Path
  <2> QED BY <2>1, <1>8, SeqEqual
<1> QED BY <1>4, <1>9 DEF b

\* No link above it: a path is its own place.
LEMMA OwnPlace ==
  ASSUME NEW p, \A a \in Project!Ancestors(p) \cap DOMAIN fs : fs[a].kind # "link"
  PROVE  Project!Real(p) = p
  BY DEF Project!Real

\* Nodes that are added in the repository.
LEMMA Adding ==
  ASSUME NEW tree, DOMAIN tree \subseteq Path \ {<<>>}, SameCheckout(tree), LinksBeside(tree),
         NEW nodes, DOMAIN nodes \subseteq Path,
         \A x \in DOMAIN nodes :
           /\ x # <<>> /\ x[1] = "repository"
           /\ nodes[x].kind = "link" => Len(x) > 1 /\ ~OverlayDir(Tail(x))
  PROVE  LET grown == Project!With(tree, nodes)
         IN  /\ DOMAIN grown \subseteq Path \ {<<>>}
             /\ SameCheckout(grown) /\ LinksBeside(grown)
             /\ \A x \in DOMAIN grown :
                  grown[x].kind = "link" =>
                    \/ x \in DOMAIN nodes /\ nodes[x].kind = "link"
                    \/ x \in DOMAIN tree \ DOMAIN nodes /\ tree[x].kind = "link"
<1> DEFINE grown == Project!With(tree, nodes)
           new == UNION {Project!Ancestors(y) : y \in DOMAIN nodes}
<1>1. /\ DOMAIN grown = DOMAIN tree \cup DOMAIN nodes \cup new
      /\ \A x \in DOMAIN grown :
           grown[x] = IF x \in DOMAIN nodes THEN nodes[x]
                      ELSE IF x \in DOMAIN tree THEN tree[x] ELSE [kind |-> "dir"]
  BY DEF Project!With, Project!Dir
<1>2. \A x \in new : x \in Path /\ x # <<>> /\ x[1] = "repository"
  BY Above
<1> HIDE DEF grown, new
<1>3. DOMAIN grown \subseteq Path \ {<<>>}
  BY <1>1, <1>2
<1>4. \A x \in DOMAIN grown : x[1] = "checkout" =>
        x \notin DOMAIN nodes /\ x \in DOMAIN tree /\ grown[x] = tree[x]
  BY <1>1, <1>2
<1>5. \A x \in DOMAIN tree : x \in DOMAIN grown
  BY <1>1
<1>6. SameCheckout(grown)
  BY <1>4, <1>5 DEF SameCheckout
<1>7. \A x \in DOMAIN grown :
        grown[x].kind = "link" =>
          \/ x \in DOMAIN nodes /\ nodes[x].kind = "link"
          \/ x \in DOMAIN tree \ DOMAIN nodes /\ tree[x].kind = "link"
  BY <1>1
<1>8. LinksBeside(grown)
  BY <1>7 DEF LinksBeside
<1> QED BY <1>3, <1>6, <1>7, <1>8 DEF grown

\* Nodes that are removed from the repository.
LEMMA Removing ==
  ASSUME NEW tree, DOMAIN tree \subseteq Path \ {<<>>}, SameCheckout(tree), LinksBeside(tree),
         NEW place \in Path, place # <<>>, place[1] = "repository"
  PROVE  LET pruned == Project!Without(tree, {place})
         IN  /\ DOMAIN pruned \subseteq DOMAIN tree
             /\ \A x \in DOMAIN pruned : pruned[x] = tree[x] /\ x # place
             /\ SameCheckout(pruned) /\ LinksBeside(pruned)
<1> DEFINE pruned == Project!Without(tree, {place})
<1>1. /\ DOMAIN pruned = {x \in DOMAIN tree : ~Project!IsPrefix(place, x)}
      /\ \A x \in DOMAIN pruned : pruned[x] = tree[x]
  BY DEF Project!Without
<1>2. Project!IsPrefix(place, place)
  BY LenProperties DEF Project!IsPrefix, Path
<1>3. ASSUME NEW x \in DOMAIN tree, x[1] = "checkout"
      PROVE  ~Project!IsPrefix(place, x)
  <2> SUFFICES ASSUME Project!IsPrefix(place, x) PROVE FALSE
    OBVIOUS
  <2>1. Len(place) \in Nat /\ Len(place) >= 1 /\ Len(x) \in Nat /\ x \in Path
    BY LenProperties, EmptySeq DEF Path
  <2>2. SubSeq(place, 1, Len(place)) = SubSeq(x, 1, Len(place)) /\ Len(place) <= Len(x)
    BY DEF Project!IsPrefix
  <2>3. SubSeq(place, 1, Len(place))[1] = place[1] /\ SubSeq(x, 1, Len(place))[1] = x[1]
    BY <2>1, <2>2, Beginning
  <2> QED BY <2>2, <2>3, <1>3
<1> HIDE DEF pruned
<1>4. SameCheckout(pruned)
  BY <1>1, <1>3 DEF SameCheckout
<1>5. LinksBeside(pruned)
  BY <1>1 DEF LinksBeside
<1> QED BY <1>1, <1>2, <1>4, <1>5 DEF pruned

Conformed == files \subseteq Required \cup Optional /\ Project!Conforming

\* The files of a tree are paths.
LEMMA FilePaths ==
  ASSUME files \subseteq Required \cup Optional, NEW f \in files
  PROVE  f \in Path /\ f # <<>> /\ Len(f) \in Nat /\ Len(f) >= 1
<1>1. f \in Seq(STRING) /\ f # <<>>
  BY ProjectAssumption
<1>2. f \in Path
  BY <1>1, SeqMonotonic DEF Path, Name
<1> QED BY <1>1, <1>2, EmptyPath

\* What is in a checkout.
LEMMA Planting ==
  ASSUME files \subseteq Required \cup Optional
  PROVE  /\ \A x : x \in DOMAIN Before <=>
                     \/ x = Project!Repository
                     \/ \E f \in files : \/ x = Project!Checkout \o f
                                         \/ x \in Project!Ancestors(Project!Checkout \o f)
         /\ \A x \in DOMAIN Before :
              /\ Before[x].kind \in {"dir", "file"}
              /\ Before[x].kind = "dir" <=> ~ \E f \in files : x = Project!Checkout \o f
         /\ DOMAIN Before \subseteq Path \ {<<>>}
<1> DEFINE nodes == [x \in {Project!Checkout \o f : f \in files} |->
                       Project!File(SubSeq(x, Len(Project!Checkout) + 1, Len(x)))]
           tree == [x \in {Project!Repository} |-> Project!Dir]
<1>1. Before = Project!With(tree, nodes)
  BY DEF Before, Project!Planted
<1>2. /\ DOMAIN tree = {Project!Repository} /\ \A x \in DOMAIN tree : tree[x].kind = "dir"
      /\ DOMAIN nodes = {Project!Checkout \o f : f \in files}
      /\ \A x \in DOMAIN nodes : nodes[x].kind = "file"
  BY DEF Project!Dir, Project!File
<1>3. /\ DOMAIN Before = DOMAIN tree \cup DOMAIN nodes
                           \cup UNION {Project!Ancestors(y) : y \in DOMAIN nodes}
      /\ \A x \in DOMAIN Before :
           Before[x] = IF x \in DOMAIN nodes THEN nodes[x]
                       ELSE IF x \in DOMAIN tree THEN tree[x] ELSE [kind |-> "dir"]
  <2> HIDE DEF tree, nodes
  <2> QED BY <1>1 DEF Project!With, Project!Dir
<1> HIDE DEF tree, nodes
<1>4. \A x : x \in DOMAIN Before <=>
               \/ x = Project!Repository
               \/ \E f \in files : \/ x = Project!Checkout \o f
                                   \/ x \in Project!Ancestors(Project!Checkout \o f)
  <2>1. \A y : y \in DOMAIN nodes <=> \E f \in files : y = Project!Checkout \o f
    BY <1>2
  <2>2. \A x : x \in DOMAIN Before <=>
                 \/ x = Project!Repository \/ x \in DOMAIN nodes
                 \/ \E y \in DOMAIN nodes : x \in Project!Ancestors(y)
    <3>1. \A x : x \in UNION {Project!Ancestors(y) : y \in DOMAIN nodes}
                   <=> \E y \in DOMAIN nodes : x \in Project!Ancestors(y)
      OBVIOUS
    <3> QED BY <1>2, <1>3, <3>1, Zenon
  <2> QED BY <2>1, <2>2, Zenon
<1>5. ASSUME NEW x \in DOMAIN Before
      PROVE  Before[x].kind = IF x \in DOMAIN nodes THEN "file" ELSE "dir"
  <2>1. [kind |-> "dir"].kind = "dir"
    OBVIOUS
  <2>2. CASE x \in DOMAIN nodes
    BY <1>2, <1>3, <2>2
  <2>3. CASE x \notin DOMAIN nodes /\ x \in DOMAIN tree
    BY <1>2, <1>3, <2>3
  <2>4. CASE x \notin DOMAIN nodes /\ x \notin DOMAIN tree
    BY <1>3, <2>1, <2>4
  <2> QED BY <2>2, <2>3, <2>4
<1>6. \A x \in DOMAIN Before :
        /\ Before[x].kind \in {"dir", "file"}
        /\ Before[x].kind = "dir" <=> ~ \E f \in files : x = Project!Checkout \o f
  BY <1>2, <1>5
<1>7. ASSUME NEW f \in files
      PROVE  Project!Checkout \o f \in Path /\ Project!Checkout \o f # <<>>
  <2>1. f \in Path
    BY FilePaths
  <2> QED BY <2>1, Below, OneName, ConstantPaths
<1>8. Project!Repository \in Path /\ Project!Repository # <<>>
  BY ConstantPaths, OneName
<1>9. DOMAIN Before \subseteq Path \ {<<>>}
  BY <1>4, <1>7, <1>8, Above
<1> QED BY <1>4, <1>6, <1>9

\* The root of the overlay.
LEMMA RootOfOverlay ==
  LET root == Project!Checkout \o Project!Overlay
  IN  /\ root \in Path /\ Len(root) = 4 /\ root # <<>> /\ root[1] = "checkout"
      /\ \A i \in 1..3 : root[1 + i] = Project!Overlay[i]
      /\ \A q \in Path :
           /\ root \o q \in Path /\ Len(root \o q) = 4 + Len(q)
           /\ (root \o q)[1] = "checkout"
           /\ \A i \in 1..3 : (root \o q)[1 + i] = Project!Overlay[i]
           /\ \A i \in 1..Len(q) : (root \o q)[4 + i] = q[i]
<1> DEFINE root == Project!Checkout \o Project!Overlay
<1>1. /\ root \in Path /\ root # <<>> /\ Len(root) = 4 /\ root[1] = "checkout"
      /\ \A i \in 1..3 : root[1 + i] = Project!Overlay[i]
  <2>1. /\ root \in Path /\ root # <<>>
        /\ Len(root) = Len(Project!Checkout) + Len(Project!Overlay)
        /\ root[1] = Project!Checkout[1]
        /\ \A i \in 1..Len(Project!Overlay) :
             root[Len(Project!Checkout) + i] = Project!Overlay[i]
    BY Below, OneName, ConstantPaths
  <2> QED BY <2>1, ConstantPaths
<1> HIDE DEF root
<1>2. ASSUME NEW q \in Path
      PROVE  /\ root \o q \in Path /\ Len(root \o q) = 4 + Len(q)
             /\ (root \o q)[1] = "checkout"
             /\ \A i \in 1..3 : (root \o q)[1 + i] = Project!Overlay[i]
             /\ \A i \in 1..Len(q) : (root \o q)[4 + i] = q[i]
  <2>1. /\ root \o q \in Path /\ Len(root \o q) = Len(root) + Len(q)
        /\ \A i \in 1..Len(root) + Len(q) :
             (root \o q)[i] = IF i <= Len(root) THEN root[i] ELSE q[i - Len(root)]
    BY <1>1, ConcatProperties DEF Path
  <2>2. Len(q) \in Nat
    BY EmptyPath
  <2> QED BY <1>1, <2>1, <2>2
<1> QED BY <1>1, <1>2 DEF root

\* The image of a finite set is finite.
LEMMA FiniteImage ==
  ASSUME NEW S, IsFiniteSet(S), NEW g, DOMAIN g = S, g = [x \in S |-> g[x]]
  PROVE  IsFiniteSet({g[x] : x \in S})
<1>1. g \in Surjection(S, {g[x] : x \in S})
  BY DEF Surjection
<1> QED BY <1>1, FS_Surjection

\* A checkout is finite.
LEMMA FiniteCheckout ==
  ASSUME files \subseteq Required \cup Optional
  PROVE  IsFiniteSet(DOMAIN Before)
<1> DEFINE places == {Project!Checkout \o f : f \in files}
           above == {Project!Ancestors(y) : y \in places}
<1>1. IsFiniteSet(files)
  BY ProjectAssumption, FS_Subset
<1>2. IsFiniteSet(places)
  <2> DEFINE g == [f \in files |-> Project!Checkout \o f]
  <2>1. DOMAIN g = files /\ g = [f \in files |-> g[f]] /\ places = {g[f] : f \in files}
    OBVIOUS
  <2> HIDE DEF g, places
  <2> QED BY <1>1, <2>1, FiniteImage
<1>3. ASSUME NEW y \in places PROVE IsFiniteSet(Project!Ancestors(y))
  <2>1. PICK f \in files : y = Project!Checkout \o f
    OBVIOUS
  <2>2. y \in Path /\ Len(y) \in Nat
    <3>1. f \in Path
      BY FilePaths
    <3> QED BY <2>1, <3>1, Below, OneName, ConstantPaths, EmptyPath
  <2> DEFINE I == 1..Len(y) - 1
             g == [n \in I |-> SubSeq(y, 1, n)]
  <2>3. IsFiniteSet(I)
    BY <2>2, FS_Interval
  <2>4. DOMAIN g = I /\ g = [n \in I |-> g[n]] /\ Project!Ancestors(y) = {g[n] : n \in I}
    BY DEF Project!Ancestors
  <2> HIDE DEF g, I
  <2> QED BY <2>3, <2>4, FiniteImage
<1>4. IsFiniteSet(above)
  <2> DEFINE g == [y \in places |-> Project!Ancestors(y)]
  <2>1. DOMAIN g = places /\ g = [y \in places |-> g[y]] /\ above = {g[y] : y \in places}
    OBVIOUS
  <2> HIDE DEF g, places, above
  <2> QED BY <1>2, <2>1, FiniteImage
<1>5. \A T \in above : IsFiniteSet(T)
  BY <1>3
<1>6. DOMAIN Before \subseteq {Project!Repository} \cup places \cup UNION above
  BY Planting
<1> HIDE DEF places, above
<1>7. IsFiniteSet(UNION above)
  BY <1>4, <1>5, FS_UNION
<1>8. IsFiniteSet({Project!Repository} \cup places \cup UNION above)
  BY <1>2, <1>7, FS_Union, FS_Singleton
<1> QED BY <1>6, <1>8, FS_Subset

\* The sequence that a finite set becomes has its members.
LEMMA SequenceOfSet ==
  ASSUME NEW S, IsFiniteSet(S)
  PROVE  Project!SetToSeq(S) \in Seq(S)
<1> DEFINE n == Cardinality(S)
<1>1. n \in Nat /\ \E f : f \in Bijection(1..n, S)
  BY FS_CardinalityType DEF ExistsBijection
<1>2. \E f \in [1..n -> S] : Project!IsInjective(f)
  BY <1>1 DEF Bijection, Injection, IsInjective, Project!IsInjective
<1>3. Project!Cardinality(S) = Cardinality(S)
  BY DEF Project!Cardinality, Cardinality
<1>4. Project!SetToSeq(S) \in [1..n -> S]
  BY <1>2, <1>3 DEF Project!SetToSeq
<1> QED BY <1>1, <1>4

\* A path of the overlay comes from a file that is merged below it.
LEMMA FromFile ==
  ASSUME files \subseteq Required \cup Optional, NEW q \in Path, q # <<>>, OverlayDir(q)
  PROVE  \E f \in files : /\ Len(f) > 3 + Len(q) /\ Project!IsPrefix(Project!Overlay, f)
                          /\ \A i \in 1..Len(q) : f[3 + i] = q[i]
<1> DEFINE root == Project!Checkout \o Project!Overlay
           x == root \o q
<1>1. /\ x \in Path /\ Len(x) = 4 + Len(q) /\ x[1] = "checkout"
      /\ \A i \in 1..3 : x[1 + i] = Project!Overlay[i]
      /\ \A i \in 1..Len(q) : x[4 + i] = q[i]
  BY RootOfOverlay
<1>2. x \in DOMAIN Before /\ Before[x].kind = "dir"
  BY DEF OverlayDir
<1> HIDE DEF x, root
<1>3. x # Project!Repository
  BY <1>1, ConstantPaths
<1>4. PICK f \in files : x \in Project!Ancestors(Project!Checkout \o f)
  BY <1>2, <1>3, Planting
<1> DEFINE y == Project!Checkout \o f
<1>5. /\ f \in Path /\ Len(f) \in Nat /\ y \in Path /\ Len(y) = 1 + Len(f)
      /\ \A i \in 1..Len(f) : y[1 + i] = f[i]
  <2>1. f \in Path /\ Len(f) \in Nat
    BY FilePaths
  <2>2. /\ y \in Path /\ Len(y) = Len(Project!Checkout) + Len(f)
        /\ \A i \in 1..Len(f) : y[Len(Project!Checkout) + i] = f[i]
    BY <2>1, Below, OneName, ConstantPaths
  <2> QED BY <2>1, <2>2, ConstantPaths
<1> HIDE DEF y
<1>6. PICK n \in 1..Len(y) - 1 : x = SubSeq(y, 1, n)
  BY <1>4, <1>5, Above DEF y
<1>7. n \in 0..Len(y) /\ Len(q) \in Nat /\ n < Len(y)
  BY <1>5, EmptyPath
<1>8. Len(x) = n /\ \A i \in 1..n : x[i] = y[i]
  BY <1>5, <1>6, <1>7, Beginning
<1>9. Len(f) > 3 + Len(q)
  BY <1>1, <1>5, <1>7, <1>8
<1>10. \A i \in 1..3 : f[i] = Project!Overlay[i]
  BY <1>1, <1>5, <1>7, <1>8
<1>11. \A i \in 1..Len(q) : f[3 + i] = q[i]
  <2> SUFFICES ASSUME NEW i \in 1..Len(q) PROVE f[3 + i] = q[i]
    OBVIOUS
  <2>1. 4 + i \in 1..n /\ 3 + i \in 1..Len(f) /\ 1 + (3 + i) = 4 + i
    BY <1>1, <1>7, <1>8, <1>9
  <2> QED BY <2>1, <1>1, <1>5, <1>8
<1>12. Project!IsPrefix(Project!Overlay, f)
  <2>1. /\ SubSeq(Project!Overlay, 1, 3) \in Path /\ Len(SubSeq(Project!Overlay, 1, 3)) = 3
        /\ \A i \in 1..3 : SubSeq(Project!Overlay, 1, 3)[i] = Project!Overlay[i]
    <3>1. 3 \in 0..Len(Project!Overlay)
      BY ConstantPaths
    <3> QED BY <3>1, Beginning, ConstantPaths
  <2>2. /\ SubSeq(f, 1, 3) \in Path /\ Len(SubSeq(f, 1, 3)) = 3
        /\ \A i \in 1..3 : SubSeq(f, 1, 3)[i] = f[i]
    <3>1. 3 \in 0..Len(f)
      BY <1>5, <1>7, <1>9
    <3> QED BY <3>1, <1>5, Beginning
  <2>3. SubSeq(Project!Overlay, 1, 3) = SubSeq(f, 1, 3)
    BY <2>1, <2>2, <1>10, SeqEqual DEF Path
  <2> QED BY <2>3, <1>5, <1>7, <1>9, ConstantPaths DEF Project!IsPrefix
<1> QED BY <1>9, <1>11, <1>12

\* The part of an overlaid file's path below the overlay.
LEMMA OverlaidFile ==
  ASSUME files \subseteq Required \cup Optional, NEW f \in files, Len(f) > 3
  PROVE  LET g == SubSeq(f, Len(Project!Overlay) + 1, Len(f))
         IN  /\ g \in Path /\ Len(g) = Len(f) - 3 /\ Head(g) = f[4]
             /\ \A i \in 1..Len(f) - 3 : g[i] = f[3 + i]
<1> DEFINE g == SubSeq(f, 4, Len(f))
<1>1. f \in Path /\ Len(f) \in Nat /\ \A i \in 4..Len(f) : f[i] \in Name
  <2>1. f \in Path /\ Len(f) \in Nat
    BY FilePaths
  <2> QED BY <2>1, ElementOfSeq DEF Path
<1>2. /\ g \in Seq(Name) /\ Len(g) = IF 4 <= Len(f) THEN Len(f) - 4 + 1 ELSE 0
      /\ \A i \in 1..Len(f) - 4 + 1 : g[i] = f[4 + i - 1]
  BY <1>1, SubSeqProperties
<1>3. g \in Path /\ Len(g) = Len(f) - 3 /\ \A i \in 1..Len(f) - 3 : g[i] = f[3 + i]
  BY <1>1, <1>2 DEF Path
<1> HIDE DEF g
<1>4. Head(g) = f[4]
  <2>1. Head(g) = g[1]
    BY <1>1, <1>3 DEF Path
  <2> QED BY <2>1, <1>1, <1>3
<1>5. g = SubSeq(f, Len(Project!Overlay) + 1, Len(f))
  BY ConstantPaths DEF g
<1> QED BY <1>3, <1>4, <1>5

\* Nothing is merged into utils.
LEMMA UtilsBeside ==
  ASSUME Conformed, NEW q \in Path, Len(q) >= 2, q[1] = "utils"
  PROVE  ~OverlayDir(q)
<1> SUFFICES ASSUME OverlayDir(q) PROVE FALSE
  OBVIOUS
<1>1. q # <<>> /\ Len(q) \in Nat
  BY EmptyPath
<1>2. PICK f \in files : /\ Len(f) > 3 + Len(q) /\ Project!IsPrefix(Project!Overlay, f)
                         /\ \A i \in 1..Len(q) : f[3 + i] = q[i]
  BY <1>1, FromFile DEF Conformed
<1> DEFINE g == SubSeq(f, Len(Project!Overlay) + 1, Len(f))
<1>3. Len(f) \in Nat /\ Len(f) > 3
  <2>1. Len(f) \in Nat
    BY FilePaths DEF Conformed
  <2> QED BY <2>1, <1>1, <1>2
<1>4. Len(g) = Len(f) - 3 /\ Head(g) = f[4]
  BY <1>3, OverlaidFile DEF Conformed
<1>5. f[4] = "utils"
  BY <1>1, <1>2
<1>6. g \in Project!Overlaid
  BY <1>2 DEF Project!Overlaid
<1> HIDE DEF g
<1>7. Len(g) > 1 /\ Head(g) = "utils"
  BY <1>1, <1>2, <1>3, <1>4, <1>5
<1> QED BY <1>6, <1>7 DEF Conformed, Project!Conforming

\* llvm and bolt, where files are generated, are directories of the overlay.
LEMMA GeneratedInOverlay ==
  ASSUME Conformed, NEW name \in {"llvm", "bolt"}
  PROVE  <<name>> \in Path /\ OverlayDir(<<name>>)
<1> DEFINE root == Project!Checkout \o Project!Overlay
           x == root \o <<name>>
<1>1. <<name>> \in Path /\ Len(<<name>>) = 1 /\ <<name>>[1] = name
  <2>1. name \in Name
    BY DEF Name
  <2> QED BY <2>1 DEF Path
<1>2. PICK g \in Project!Overlaid : Len(g) > 1 /\ Head(g) = name
  BY DEF Conformed, Project!Conforming
<1>3. PICK f \in files : /\ Project!IsPrefix(Project!Overlay, f)
                         /\ g = SubSeq(f, Len(Project!Overlay) + 1, Len(f))
  BY <1>2 DEF Project!Overlaid
<1>4. f \in Path /\ Len(f) \in Nat
  BY FilePaths DEF Conformed
<1>5. Len(f) > 4
  <2>1. 3 <= Len(f)
    BY <1>3, ConstantPaths DEF Project!IsPrefix
  <2>2. ~(Len(f) = 3)
    <3> SUFFICES ASSUME Len(f) = 3 PROVE FALSE
      OBVIOUS
    <3>1. g = SubSeq(f, 4, 3)
      BY <1>3, ConstantPaths
    <3>2. SubSeq(f, 4, 3) = <<>>
      BY SubSeqEmpty
    <3> QED BY <1>2, <3>1, <3>2, EmptyPath
  <2>3. Len(g) = Len(f) - 3
    <3>1. Len(f) > 3
      BY <2>1, <2>2, <1>4
    <3> QED BY <3>1, <1>3, OverlaidFile DEF Conformed
  <2> QED BY <2>1, <2>2, <2>3, <1>2, <1>4
<1>6. f[4] = name /\ \A i \in 1..3 : f[i] = Project!Overlay[i]
  <2>1. f[4] = name
    BY <1>2, <1>3, <1>4, <1>5, OverlaidFile DEF Conformed
  <2>2. /\ \A i \in 1..3 : SubSeq(Project!Overlay, 1, 3)[i] = Project!Overlay[i]
        /\ \A i \in 1..3 : SubSeq(f, 1, 3)[i] = f[i]
    <3>1. 3 \in 0..Len(Project!Overlay) /\ 3 \in 0..Len(f)
      BY <1>4, <1>5, ConstantPaths
    <3> QED BY <3>1, <1>4, Beginning, ConstantPaths
  <2>3. SubSeq(Project!Overlay, 1, 3) = SubSeq(f, 1, 3)
    BY <1>3, ConstantPaths DEF Project!IsPrefix
  <2> QED BY <2>1, <2>2, <2>3
<1>7. /\ x \in Path /\ Len(x) = 5 /\ x[1] = "checkout" /\ x[5] = name
      /\ \A i \in 1..3 : x[1 + i] = Project!Overlay[i]
  <2>1. /\ x \in Path /\ Len(x) = 4 + 1 /\ x[1] = "checkout"
        /\ \A i \in 1..3 : x[1 + i] = Project!Overlay[i]
        /\ \A i \in 1..1 : x[4 + i] = <<name>>[i]
    BY <1>1, RootOfOverlay
  <2> QED BY <2>1, <1>1
<1> HIDE DEF x, root
<1>8. ASSUME NEW h \in files
      PROVE  LET y == Project!Checkout \o h
             IN  /\ h \in Path /\ Len(h) \in Nat /\ y \in Path /\ Len(y) = 1 + Len(h)
                 /\ y[1] = "checkout" /\ \A i \in 1..Len(h) : y[1 + i] = h[i]
  <2> DEFINE y == Project!Checkout \o h
  <2>1. h \in Path /\ Len(h) \in Nat
    BY FilePaths DEF Conformed
  <2>2. /\ y \in Path /\ Len(y) = Len(Project!Checkout) + Len(h)
        /\ y[1] = Project!Checkout[1]
        /\ \A i \in 1..Len(h) : y[Len(Project!Checkout) + i] = h[i]
    BY <2>1, Below, OneName, ConstantPaths
  <2> HIDE DEF y
  <2>3. y \in Path /\ Len(y) = 1 + Len(h) /\ y[1] = "checkout" /\ \A i \in 1..Len(h) : y[1 + i] = h[i]
    BY <2>2, ConstantPaths
  <2> QED BY <2>1, <2>3 DEF y
<1> DEFINE y == Project!Checkout \o f
<1>9. /\ y \in Path /\ Len(y) = 1 + Len(f) /\ y[1] = "checkout"
      /\ \A i \in 1..Len(f) : y[1 + i] = f[i]
  BY <1>8
<1>10. x \in Project!Ancestors(y)
  <2> HIDE DEF y
  <2>1. 5 \in 1..Len(y) - 1 /\ 5 \in 0..Len(y)
    BY <1>4, <1>5, <1>9
  <2>2. /\ SubSeq(y, 1, 5) \in Path /\ Len(SubSeq(y, 1, 5)) = 5
        /\ \A i \in 1..5 : SubSeq(y, 1, 5)[i] = y[i]
    BY <2>1, <1>9, Beginning
  <2>3. ASSUME NEW i \in 1..5 PROVE x[i] = SubSeq(y, 1, 5)[i]
    <3>1. CASE i = 1
      BY <3>1, <2>2, <1>7, <1>9
    <3>2. CASE i \in 2..4
      <4>1. i - 1 \in 1..3 /\ i = 1 + (i - 1) /\ i - 1 \in 1..Len(f)
        BY <3>2, <1>4, <1>5
      <4> QED BY <4>1, <2>2, <1>6, <1>7, <1>9
    <3>3. CASE i = 5
      <4>1. 4 \in 1..Len(f) /\ 5 = 1 + 4
        BY <1>4, <1>5
      <4> QED BY <4>1, <3>3, <2>2, <1>6, <1>7, <1>9
    <3> QED BY <3>1, <3>2, <3>3
  <2>4. x = SubSeq(y, 1, 5)
    BY <2>2, <2>3, <1>7, SeqEqual DEF Path
  <2> QED BY <2>1, <2>4 DEF Project!Ancestors
<1>11. ASSUME NEW h \in files PROVE x # Project!Checkout \o h
  <2> SUFFICES ASSUME x = Project!Checkout \o h PROVE FALSE
    OBVIOUS
  <2>1. /\ h \in Path /\ Len(h) \in Nat /\ Len(x) = 1 + Len(h)
        /\ \A i \in 1..Len(h) : x[1 + i] = h[i]
    BY <1>8
  <2>2. Len(h) = 4 /\ 4 \in 0..Len(f)
    <3>1. Len(x) = 5
      BY <1>7
    <3>2. Len(h) \in Nat /\ 5 = 1 + Len(h)
      BY <2>1, <3>1, Zenon
    <3>3. \A n \in Nat : 5 = 1 + n => n = 4
      OBVIOUS
    <3>4. \A n \in Nat : n > 4 => 4 \in 0..n
      OBVIOUS
    <3> QED BY <3>2, <3>3, <3>4, <1>4, <1>5, Zenon
  <2>3. /\ SubSeq(f, 1, 4) \in Path /\ Len(SubSeq(f, 1, 4)) = 4
        /\ \A i \in 1..4 : SubSeq(f, 1, 4)[i] = f[i]
    BY <2>2, <1>4, Beginning
  <2>4. ASSUME NEW i \in 1..4 PROVE h[i] = SubSeq(f, 1, 4)[i]
    <3>1. h[i] = x[1 + i] /\ SubSeq(f, 1, 4)[i] = f[i]
      BY <2>1, <2>2, <2>3
    <3>2. CASE i \in 1..3
      BY <3>1, <3>2, <1>6, <1>7
    <3>3. CASE i = 4
      BY <3>1, <3>3, <1>6, <1>7
    <3> QED BY <3>2, <3>3
  <2>5. h = SubSeq(f, 1, 4)
    BY <2>1, <2>2, <2>3, <2>4, SeqEqual DEF Path
  <2>6. 4 \in 1..Len(f) - 1 /\ f \in Required \cup Optional /\ h \in Required \cup Optional
    BY <1>4, <1>5 DEF Conformed
  <2> QED BY <2>5, <2>6, ProjectAssumption
<1>12. x \in DOMAIN Before /\ Before[x].kind = "dir"
  BY <1>10, <1>11, Planting DEF Conformed
<1> QED BY <1>1, <1>12 DEF OverlayDir, x, root

\* The directories of the overlay below which everything is a directory of it.
InOverlay == {d \in Path : \A k \in 1..Len(d) : OverlayDir(SubSeq(d, 1, k))}

Finishing == {"expose", "build", "vars", "targets", "helper", "done"}

\* Whatever is written, no link of the repository is on its way.
CheckoutInv ==
  /\ Conformed
  /\ DOMAIN fs \subseteq Path \ {<<>>} /\ turn \in Nat
  /\ pc \in {"overlay", "materialize", "failed"} \cup Finishing
  /\ SameCheckout(fs) /\ LinksBeside(fs)
  /\ pc = "overlay" => stack \in Seq(InOverlay) /\ stack # <<>>
  /\ pc = "materialize" => \A k \in 1..3 : k <= turn => NoLink(fs, k)
  /\ pc \in Finishing => \A k \in 1..3 : NoLink(fs, k)

\* A path below a path of the repository, and the names it begins with.
LEMMA InRepository ==
  ASSUME NEW q \in Path
  PROVE  /\ Repo(q) \in Path /\ Len(Repo(q)) = 1 + Len(q) /\ Repo(q)[1] = "repository"
         /\ Repo(q) # <<>> /\ Tail(Repo(q)) = q
<1>1. /\ Repo(q) \in Path /\ Len(Repo(q)) = Len(Project!Repository) + Len(q)
      /\ Repo(q)[1] = Project!Repository[1] /\ Repo(q) # <<>>
  BY Below, OneName, ConstantPaths DEF Repo
<1>2. Tail(Repo(q)) = q
  BY TailBelow, ConstantPaths DEF Repo
<1> QED BY <1>1, <1>2, ConstantPaths

\* There is no link in the place of a directory of the overlay.
LEMMA NoLinkThere ==
  ASSUME LinksBeside(fs), NEW q \in Path, OverlayDir(q), Repo(q) \in DOMAIN fs
  PROVE  fs[Repo(q)].kind # "link"
<1>1. Tail(Repo(q)) = q
  BY InRepository
<1> QED BY <1>1 DEF LinksBeside

\* A path of the repository is its own place when no link is on its way.
LEMMA OwnPlaceInRepository ==
  ASSUME LinksBeside(fs), NEW q \in Path,
         \A k \in 1..Len(q) - 1 :
           Repo(SubSeq(q, 1, k)) \in DOMAIN fs => fs[Repo(SubSeq(q, 1, k))].kind # "link"
  PROVE  Project!Real(Repo(q)) = Repo(q)
<1>1. ASSUME NEW a \in Project!Ancestors(Repo(q)), a \in DOMAIN fs
      PROVE  fs[a].kind # "link"
  <2>1. PICK k \in 0..Len(q) - 1 : a = Repo(SubSeq(q, 1, k))
    BY AboveBelow, ConstantPaths DEF Repo
  <2>2. Len(q) \in Nat /\ k \in 0..Len(q)
    BY EmptyPath
  <2>3. CASE k = 0
    <3>1. SubSeq(q, 1, k) \in Path /\ Len(SubSeq(q, 1, k)) = 0
      BY <2>2, <2>3, Beginning
    <3>2. Len(Repo(SubSeq(q, 1, k))) = 1 + 0
      BY <3>1, InRepository, Zenon
    <3>3. ~(Len(a) > 1)
      <4>1. Len(a) = 1 + 0
        BY <2>1, <3>2, Zenon
      <4>2. ~(1 + 0 > 1)
        OBVIOUS
      <4> QED BY <4>1, <4>2, Zenon
    <3>4. fs[a].kind = "link" => Len(a) > 1
      BY <1>1, Zenon DEF LinksBeside
    <3> QED BY <3>3, <3>4
  <2>4. CASE k # 0
    <3>1. k \in 1..Len(q) - 1
      BY <2>2, <2>4
    <3> QED BY <1>1, <2>1, <3>1
  <2> QED BY <2>3, <2>4
<1> QED BY <1>1, OwnPlace

\* What a path begins with begins with the same names.
LEMMA BeginningOfBeginning ==
  ASSUME NEW p \in Path, NEW n \in 0..Len(p), NEW k \in 0..n
  PROVE  SubSeq(SubSeq(p, 1, n), 1, k) = SubSeq(p, 1, k)
<1> DEFINE s == SubSeq(p, 1, n)
<1>1. Len(p) \in Nat /\ k \in 0..Len(p)
  BY EmptyPath
<1>2. s \in Path /\ Len(s) = n /\ \A i \in 1..n : s[i] = p[i]
  BY Beginning
<1> HIDE DEF s
<1>3. SubSeq(s, 1, k) \in Path /\ Len(SubSeq(s, 1, k)) = k /\ \A i \in 1..k : SubSeq(s, 1, k)[i] = s[i]
  BY <1>2, Beginning
<1>4. SubSeq(p, 1, k) \in Path /\ Len(SubSeq(p, 1, k)) = k /\ \A i \in 1..k : SubSeq(p, 1, k)[i] = p[i]
  BY <1>1, Beginning
<1>5. \A i \in 1..k : SubSeq(s, 1, k)[i] = SubSeq(p, 1, k)[i]
  BY <1>1, <1>2, <1>3, <1>4
<1> QED BY <1>3, <1>4, <1>5, SeqEqual DEF Path, s

\* A name below a path.
LEMMA NameBelow ==
  ASSUME NEW p \in Path, NEW n \in Name
  PROVE  LET x == p \o <<n>>
         IN  /\ x \in Path /\ Len(x) = Len(p) + 1 /\ Project!Last(x) = n
             /\ Len(p) \in Nat
             /\ \A i \in 1..Len(p) : x[i] = p[i]
             /\ \A k \in 1..Len(p) : SubSeq(x, 1, k) = SubSeq(p, 1, k)
             /\ SubSeq(x, 1, Len(x)) = x /\ Project!IsPrefix(p, x)
<1> DEFINE x == p \o <<n>>
<1>1. <<n>> \in Path /\ Len(<<n>>) = 1 /\ <<n>>[1] = n
  BY DEF Path
<1>2. Len(p) \in Nat
  BY EmptyPath
<1>3. /\ x \in Path /\ Len(x) = Len(p) + 1 /\ x[Len(p) + 1] = n
      /\ \A i \in 1..Len(p) : x[i] = p[i]
  <2>1. /\ x \in Path /\ Len(x) = Len(p) + Len(<<n>>)
        /\ \A i \in 1..Len(p) + Len(<<n>>) :
             x[i] = IF i <= Len(p) THEN p[i] ELSE <<n>>[i - Len(p)]
    BY <1>1, ConcatProperties DEF Path
  <2> HIDE DEF x
  <2> QED BY <2>1, <1>1, <1>2
<1> HIDE DEF x
<1>4. Project!Last(x) = n
  BY <1>3 DEF Project!Last
<1>5. ASSUME NEW k \in 1..Len(p) PROVE SubSeq(x, 1, k) = SubSeq(p, 1, k)
  <2>1. k \in 0..Len(p) /\ k \in 0..Len(x)
    BY <1>2, <1>3
  <2>2. SubSeq(x, 1, k) \in Path /\ Len(SubSeq(x, 1, k)) = k /\ \A i \in 1..k : SubSeq(x, 1, k)[i] = x[i]
    BY <2>1, <1>3, Beginning
  <2>3. SubSeq(p, 1, k) \in Path /\ Len(SubSeq(p, 1, k)) = k /\ \A i \in 1..k : SubSeq(p, 1, k)[i] = p[i]
    BY <2>1, Beginning
  <2>4. \A i \in 1..k : SubSeq(x, 1, k)[i] = SubSeq(p, 1, k)[i]
    BY <2>1, <2>2, <2>3, <1>2, <1>3
  <2> QED BY <2>2, <2>3, <2>4, SeqEqual DEF Path
<1>6. SubSeq(x, 1, Len(x)) = x
  BY <1>3, SubSeqFull DEF Path
<1>7. SubSeq(p, 1, Len(p)) = SubSeq(x, 1, Len(p))
  <2>1. CASE Len(p) = 0
    <3>1. SubSeq(p, 1, 0) = <<>> /\ SubSeq(x, 1, 0) = <<>>
      BY SubSeqEmpty
    <3> QED BY <2>1, <3>1
  <2>2. CASE Len(p) # 0
    <3>1. Len(p) \in 1..Len(p)
      BY <2>2, <1>2
    <3> QED BY <3>1, <1>5
  <2> QED BY <2>1, <2>2
<1>8. Project!IsPrefix(p, x)
  BY <1>2, <1>3, <1>7 DEF Project!IsPrefix
<1> QED BY <1>2, <1>3, <1>4, <1>5, <1>6, <1>8 DEF x

\* What Readdir returns is the directory's path and a name.
LEMMA EntryName ==
  ASSUME NEW p \in Path, NEW e \in Path, Len(e) = Len(p) + 1, Project!IsPrefix(p, e)
  PROVE  Project!Last(e) \in Name /\ e = p \o <<Project!Last(e)>>
<1>1. Len(p) \in Nat /\ Len(e) \in 1..Len(e) /\ Len(p) \in 0..Len(e)
  BY EmptyPath
<1>2. Project!Last(e) = e[Len(p) + 1] /\ Project!Last(e) \in Name
  BY <1>1, ElementOfSeq DEF Project!Last, Path
<1> DEFINE n == Project!Last(e)
           x == p \o <<n>>
<1>3. /\ x \in Path /\ Len(x) = Len(p) + 1 /\ Project!Last(x) = n
      /\ \A i \in 1..Len(p) : x[i] = p[i]
  BY <1>2, NameBelow
<1>4. \A i \in 1..Len(p) : p[i] = e[i]
  <2>1. SubSeq(p, 1, Len(p)) = SubSeq(e, 1, Len(p))
    BY DEF Project!IsPrefix
  <2>2. /\ \A i \in 1..Len(p) : SubSeq(p, 1, Len(p))[i] = p[i]
        /\ \A i \in 1..Len(p) : SubSeq(e, 1, Len(p))[i] = e[i]
    <3>1. Len(p) \in 0..Len(p)
      BY <1>1
    <3> QED BY <3>1, <1>1, Beginning
  <2> QED BY <2>1, <2>2
<1>5. x[Len(p) + 1] = n
  BY <1>3 DEF Project!Last
<1> HIDE DEF x, n
<1>6. ASSUME NEW i \in 1..Len(e) PROVE e[i] = x[i]
  <2>1. CASE i \in 1..Len(p)
    BY <2>1, <1>3, <1>4
  <2>2. CASE i \notin 1..Len(p)
    <3>1. i = Len(p) + 1
      BY <2>2, <1>1
    <3> QED BY <3>1, <1>2, <1>5 DEF n
  <2> QED BY <2>1, <2>2
<1>7. e = x
  BY <1>3, <1>6, SeqEqual DEF Path
<1> QED BY <1>2, <1>7 DEF x, n

\* Where the sources of a checkout are.
LEMMA RootsOfCheckout ==
  ASSUME mode = "path"
  PROVE  /\ Project!SourceRoot = Project!Checkout
         /\ Project!OverlayRoot = Project!Checkout \o Project!Overlay
  BY DEF Project!SourceRoot, Project!OverlayRoot

\* What is listed has names.
LEMMA Listing ==
  ASSUME CheckoutInv, NEW p \in Path, NEW e \in Project!Readdir(p)
  PROVE  /\ e \in DOMAIN fs /\ e \in Path /\ e = p \o <<Project!Last(e)>>
         /\ Project!Last(e) \in Name
<1>1. e \in DOMAIN fs /\ e \in Path /\ Len(e) = Len(p) + 1 /\ Project!IsPrefix(p, e)
  BY DEF Project!Readdir, CheckoutInv
<1> QED BY <1>1, EntryName

\* The directories of the overlay that are listed.
LEMMA OverlayListing ==
  ASSUME CheckoutInv, mode = "path", pc = "overlay"
  PROVE  /\ Project!Directory \in InOverlay /\ Project!Front(stack) \in Seq(InOverlay)
         /\ Project!OverlayDirs \subseteq Name /\ Project!OverlayFiles \subseteq Name
         /\ Project!SourceEntries \subseteq Name
         /\ IsFiniteSet(Project!OverlayDirs)
         /\ \A n \in Name :
              n \in Project!OverlayDirs <=> OverlayDir(Project!Directory \o <<n>>)
<1> DEFINE D == Project!Directory
           root == Project!Checkout \o Project!Overlay
           p == root \o D
           entries == Project!OverlayEntries
           dirs == {e \in entries : fs[e].kind = "dir"}
<1>1. stack \in Seq(InOverlay) /\ stack # <<>>
  BY DEF CheckoutInv
<1>2. D \in InOverlay /\ Project!Front(stack) \in Seq(InOverlay)
  <2>1. Len(stack) \in Nat \ {0} /\ Len(stack) \in 1..Len(stack)
    BY <1>1, EmptySeq
  <2>2. D \in InOverlay
    BY <1>1, <2>1, ElementOfSeq DEF Project!Directory, Project!Last
  <2>3. \A i \in 1..Len(stack) - 1 : stack[i] \in InOverlay
    BY <1>1, <2>1, ElementOfSeq
  <2>4. SubSeq(stack, 1, Len(stack) - 1) \in Seq(InOverlay)
    BY <2>1, <2>3, SubSeqProperties
  <2> QED BY <2>2, <2>4 DEF Project!Front
<1>3. D \in Path /\ root \in Path /\ Project!Checkout \in Path
  BY <1>2, RootOfOverlay, ConstantPaths DEF InOverlay
<1>4. p \in Path /\ Project!Checkout \o D \in Path
  BY <1>3, ConcatProperties DEF Path
<1>5. entries = Project!Readdir(p)
  BY RootsOfCheckout DEF Project!OverlayEntries
<1>6. Project!SourceEntries = {Project!Last(e) : e \in Project!Readdir(Project!Checkout \o D)}
  BY RootsOfCheckout DEF Project!SourceEntries
<1>7. Project!OverlayDirs = {Project!Last(e) : e \in dirs}
  BY DEF Project!OverlayDirs
<1> HIDE DEF D, p, entries, dirs
<1>8. \A e \in entries : Project!Last(e) \in Name
  BY <1>4, <1>5, Listing
<1>9. \A n \in Project!SourceEntries : n \in Name
  BY <1>4, <1>6, Listing
<1>10. dirs = {e \in entries : fs[e].kind = "dir"}
  BY DEF dirs
<1>11. Project!OverlayDirs \subseteq Name /\ Project!OverlayFiles \subseteq Name
  BY <1>7, <1>8, <1>10 DEF Project!OverlayFiles, entries
<1>12. ASSUME NEW n \in Name
       PROVE  n \in Project!OverlayDirs <=> OverlayDir(D \o <<n>>)
  <2> DEFINE x == root \o (D \o <<n>>)
  <2>0. D \o <<n>> \in Path /\ <<n>> \in Path
    BY <1>3, NameBelow DEF Path
  <2>1. x = p \o <<n>>
    BY <1>3, <2>0, ConcatAssociative DEF Path, p
  <2>2. x \in Path /\ x[1] = "checkout"
    BY <2>0, RootOfOverlay
  <2>3. /\ Len(x) = Len(p) + 1 /\ Project!IsPrefix(p, x) /\ Project!Last(x) = n
    BY <1>4, <2>1, NameBelow
  <2>4. OverlayDir(D \o <<n>>) <=> x \in DOMAIN Before /\ Before[x].kind = "dir"
    BY DEF OverlayDir
  <2> HIDE DEF x, root
  <2>5. ASSUME OverlayDir(D \o <<n>>) PROVE n \in Project!OverlayDirs
    <3>1. x \in DOMAIN fs /\ fs[x].kind = "dir"
      BY <2>2, <2>4, <2>5 DEF CheckoutInv, SameCheckout
    <3>2. x \in entries
      BY <1>5, <2>3, <3>1 DEF Project!Readdir
    <3> QED BY <1>7, <1>10, <2>3, <3>1, <3>2
  <2>6. ASSUME n \in Project!OverlayDirs PROVE OverlayDir(D \o <<n>>)
    <3>1. PICK e \in dirs : n = Project!Last(e)
      BY <1>7, <2>6
    <3>2. e \in entries /\ fs[e].kind = "dir"
      BY <1>10
    <3>3. e = p \o <<n>> /\ e \in DOMAIN fs
      BY <1>4, <1>5, <3>1, <3>2, Listing
    <3> QED BY <2>1, <2>2, <2>4, <3>2, <3>3 DEF CheckoutInv, SameCheckout
  <2> QED BY <2>5, <2>6
<1>13. IsFiniteSet(Project!OverlayDirs)
  <2>1. ASSUME NEW e \in dirs PROVE e \in DOMAIN Before
    <3>1. e \in entries
      BY <1>10
    <3>2. e = p \o <<Project!Last(e)>> /\ e \in DOMAIN fs /\ Project!Last(e) \in Name
      BY <1>4, <1>5, <3>1, Listing
    <3>3. p[1] = "checkout" /\ Len(p) = 4 + Len(D) /\ Len(D) \in Nat
      BY <1>3, RootOfOverlay, EmptyPath DEF p
    <3>4. e[1] = p[1]
      <4>1. 1 \in 1..Len(p)
        BY <3>3
      <4> QED BY <4>1, <1>4, <3>2, NameBelow
    <3> QED BY <3>2, <3>3, <3>4 DEF CheckoutInv, SameCheckout
  <2>2. IsFiniteSet(dirs)
    <3>1. IsFiniteSet(DOMAIN Before)
      BY FiniteCheckout DEF CheckoutInv, Conformed
    <3> QED BY <2>1, <3>1, FS_Subset
  <2> DEFINE g == [e \in dirs |-> Project!Last(e)]
  <2>3. DOMAIN g = dirs /\ g = [e \in dirs |-> g[e]] /\ Project!OverlayDirs = {g[e] : e \in dirs}
    BY <1>7
  <2> HIDE DEF g
  <2> QED BY <2>2, <2>3, FiniteImage
<1> QED BY <1>2, <1>9, <1>11, <1>12, <1>13 DEF D

\* A directory of the overlay comes with those below it, by the names on the way.
LEMMA DeeperInOverlay ==
  ASSUME NEW d \in InOverlay, NEW n \in Name, OverlayDir(d \o <<n>>)
  PROVE  d \o <<n>> \in InOverlay
<1> DEFINE q == d \o <<n>>
<1>1. d \in Path /\ \A k \in 1..Len(d) : OverlayDir(SubSeq(d, 1, k))
  BY DEF InOverlay
<1>2. /\ q \in Path /\ Len(q) = Len(d) + 1 /\ Len(d) \in Nat
      /\ \A k \in 1..Len(d) : SubSeq(q, 1, k) = SubSeq(d, 1, k)
      /\ SubSeq(q, 1, Len(q)) = q
  BY <1>1, NameBelow
<1>3. OverlayDir(q)
  OBVIOUS
<1> HIDE DEF q
<1>4. ASSUME NEW k \in 1..Len(q) PROVE OverlayDir(SubSeq(q, 1, k))
  <2>1. CASE k \in 1..Len(d)
    BY <1>1, <1>2, <2>1
  <2>2. CASE k \notin 1..Len(d)
    <3>1. k = Len(q)
      BY <1>2, <2>2
    <3> QED BY <1>2, <1>3, <3>1
  <2> QED BY <2>1, <2>2
<1> QED BY <1>2, <1>4 DEF InOverlay, q

\* What the invariant asks of a step, the files being the same.
LEMMA CheckoutKept ==
  ASSUME CheckoutInv, files' = files,
         DOMAIN fs' \subseteq Path \ {<<>>}, turn' \in Nat,
         pc' \in {"overlay", "materialize", "failed"} \cup Finishing,
         SameCheckout(fs'), LinksBeside(fs'),
         pc' = "overlay" => stack' \in Seq(InOverlay) /\ stack' # <<>>,
         pc' = "materialize" => \A k \in 1..3 : k <= turn' => NoLink(fs', k),
         pc' \in Finishing => \A k \in 1..3 : NoLink(fs', k)
  PROVE  CheckoutInv'
<1>1. Before' = Before
  BY DEF Before, Project!Planted
<1>2. Conformed'
  BY DEF CheckoutInv, Conformed, Project!Conforming, Project!Overlaid
<1>3. \A q : OverlayDir(q)' <=> OverlayDir(q)
  BY <1>1 DEF OverlayDir
<1>4. InOverlay' = InOverlay
  BY <1>3 DEF InOverlay
<1>5. SameCheckout(fs)'
  BY <1>1 DEF SameCheckout
<1>6. LinksBeside(fs)'
  BY <1>3 DEF LinksBeside
<1>7. \A k : NoLink(fs, k)' <=> NoLink(fs', k)
  BY DEF NoLink, Repo
<1> QED BY <1>2, <1>4, <1>5, <1>6, <1>7 DEF CheckoutInv, Finishing

\* Nothing but the program counter changes when a step fails.
LEMMA CheckoutFails ==
  ASSUME CheckoutInv, Project!Fail
  PROVE  CheckoutInv'
<1>1. /\ pc' = "failed" /\ files' = files /\ fs' = fs /\ stack' = stack /\ turn' = turn
  BY DEF Project!Fail
<1>2. pc' \notin Finishing
  BY <1>1 DEF Finishing
<1> QED BY <1>1, <1>2, CheckoutKept DEF CheckoutInv

\* Where a link is made: at a name, in a directory of the overlay.
LEMMA LinkPlace ==
  ASSUME CheckoutInv, NEW d \in InOverlay, NEW n \in Name
  PROVE  LET p == Project!Repository \o d \o <<n>>
         IN  /\ Project!Real(p) = p /\ p = Repo(d \o <<n>>) /\ Project!Last(p) = n
             /\ p \in Path /\ p # <<>> /\ p[1] = "repository" /\ Len(p) > 1 /\ Tail(p) = d \o <<n>>
<1> DEFINE p == Project!Repository \o d \o <<n>>
           q == d \o <<n>>
<1>1. d \in Path /\ \A k \in 1..Len(d) : OverlayDir(SubSeq(d, 1, k))
  BY DEF InOverlay
<1>2. /\ q \in Path /\ Len(q) = Len(d) + 1 /\ Len(d) \in Nat /\ <<n>> \in Path
      /\ \A k \in 1..Len(d) : SubSeq(q, 1, k) = SubSeq(d, 1, k)
  BY <1>1, NameBelow DEF Path
<1>3. p = Repo(q)
  <2>1. Project!Repository \in Seq(Name) /\ d \in Seq(Name) /\ <<n>> \in Seq(Name)
    BY <1>1, <1>2, ConstantPaths DEF Path
  <2>2. (Project!Repository \o d) \o <<n>> = Project!Repository \o (d \o <<n>>)
    BY <2>1, ConcatAssociative
  <2> QED BY <2>2, Zenon DEF Repo
<1>4. Project!Last(p) = n
  <2>1. Project!Repository \o d \in Path
    BY <1>1, ConstantPaths, ConcatProperties DEF Path
  <2> QED BY <2>1, NameBelow
<1> HIDE DEF p, q
<1>5. p \in Path /\ p # <<>> /\ p[1] = "repository" /\ Len(p) = 1 + Len(q) /\ Tail(p) = q
  BY <1>2, <1>3, InRepository
<1>6. Project!Real(Repo(q)) = Repo(q)
  <2>1. ASSUME NEW k \in 1..Len(q) - 1, Repo(SubSeq(q, 1, k)) \in DOMAIN fs
        PROVE  fs[Repo(SubSeq(q, 1, k))].kind # "link"
    <3>1. k \in 1..Len(d) /\ k \in 0..Len(d)
      BY <1>2
    <3>2. SubSeq(d, 1, k) \in Path
      BY <3>1, <1>1, Beginning
    <3>3. OverlayDir(SubSeq(d, 1, k)) /\ SubSeq(q, 1, k) = SubSeq(d, 1, k)
      BY <3>1, <1>1, <1>2
    <3> QED BY <2>1, <3>2, <3>3, NoLinkThere DEF CheckoutInv
  <2> QED BY <2>1, <1>2, OwnPlaceInRepository DEF CheckoutInv
<1>7. Len(p) > 1
  BY <1>2, <1>5
<1> QED BY <1>3, <1>4, <1>5, <1>6, <1>7 DEF p, q

\* A turn of symlink_source_and_overlay.
LEMMA CheckoutLinked ==
  ASSUME CheckoutInv, mode = "path", Project!SymlinkOverlay
  PROVE  CheckoutInv'
<1> DEFINE D == Project!Directory
           names == Project!OverlayFiles \cup Project!LinkedEntries
           nodes == [x \in {Project!Real(p) : p \in Project!Links} |->
                       Project!Link((IF Project!Last(x) \in Project!OverlayFiles
                                     THEN Project!OverlayRoot ELSE Project!SourceRoot)
                                    \o D \o <<Project!Last(x)>>)]
           dirs == {D \o <<d>> : d \in Project!OverlayDirs}
<1>1. /\ pc = "overlay" /\ fs' = Project!With(fs, nodes)
      /\ stack' = Project!Front(stack) \o Project!SetToSeq(dirs)
      /\ turn' = IF stack' = <<>> THEN 0 ELSE turn + 1
      /\ pc' = IF stack' # <<>> THEN "overlay" ELSE "materialize"
      /\ files' = files
  BY DEF Project!SymlinkOverlay, Project!Turn, Project!NextTurn
<1>2. /\ D \in InOverlay /\ Project!Front(stack) \in Seq(InOverlay)
      /\ Project!OverlayDirs \subseteq Name /\ Project!OverlayFiles \subseteq Name
      /\ Project!SourceEntries \subseteq Name /\ IsFiniteSet(Project!OverlayDirs)
      /\ \A n \in Name : n \in Project!OverlayDirs <=> OverlayDir(D \o <<n>>)
  BY <1>1, OverlayListing
<1>3. \A n \in names : n \in Name /\ n \notin Project!OverlayDirs
  BY <1>2 DEF Project!OverlayFiles, Project!LinkedEntries
<1>4. Project!Links = {Project!Repository \o D \o <<n>> : n \in names}
  BY DEF Project!Links, Project!In
<1>5. /\ DOMAIN nodes = {Project!Real(p) : p \in Project!Links}
      /\ \A x \in DOMAIN nodes : nodes[x].kind = "link"
  BY DEF Project!Link
<1> HIDE DEF nodes, names, dirs, D
<1>6. ASSUME NEW x \in DOMAIN nodes
      PROVE  /\ x \in Path /\ x # <<>> /\ x[1] = "repository" /\ Len(x) > 1
             /\ ~OverlayDir(Tail(x))
  <2>1. PICK n \in names : x = Project!Real(Project!Repository \o D \o <<n>>)
    BY <1>4, <1>5
  <2>2. n \in Name /\ ~OverlayDir(D \o <<n>>)
    BY <1>2, <1>3
  <2> DEFINE p == Project!Repository \o D \o <<n>>
  <2>3. /\ Project!Real(p) = p
        /\ p \in Path /\ p # <<>> /\ p[1] = "repository" /\ Len(p) > 1 /\ Tail(p) = D \o <<n>>
    BY <2>2, <1>2, LinkPlace
  <2>4. x = p
    BY <2>1, <2>3
  <2> HIDE DEF p
  <2> QED BY <2>2, <2>3, <2>4
<1>7. DOMAIN nodes \subseteq Path
  BY <1>6
<1>8. DOMAIN fs' \subseteq Path \ {<<>>} /\ SameCheckout(fs') /\ LinksBeside(fs')
  BY <1>1, <1>6, <1>7, Adding DEF CheckoutInv
<1>9. stack' \in Seq(InOverlay)
  <2>1. dirs \subseteq InOverlay
    BY <1>2, DeeperInOverlay DEF dirs
  <2>2. IsFiniteSet(dirs)
    <3> DEFINE g == [d \in Project!OverlayDirs |-> D \o <<d>>]
    <3>1. /\ DOMAIN g = Project!OverlayDirs /\ g = [d \in Project!OverlayDirs |-> g[d]]
          /\ dirs = {g[d] : d \in Project!OverlayDirs}
      BY DEF dirs
    <3> HIDE DEF g
    <3> QED BY <3>1, <1>2, FiniteImage
  <2>3. Project!SetToSeq(dirs) \in Seq(InOverlay)
    BY <2>1, <2>2, SequenceOfSet, SeqMonotonic
  <2> QED BY <2>3, <1>1, <1>2, ConcatProperties
<1>10. turn' \in Nat /\ pc' \in {"overlay", "materialize"}
  BY <1>1 DEF CheckoutInv
<1>11. pc' = "overlay" => stack' # <<>>
  BY <1>1
<1>12. pc' = "materialize" => turn' = 0
  BY <1>1
<1>13. pc' \notin Finishing
  BY <1>10 DEF Finishing
<1>14. pc' = "materialize" => \A k \in 1..3 : k <= turn' => NoLink(fs', k)
  BY <1>12
<1> QED BY <1>1, <1>8, <1>9, <1>10, <1>11, <1>13, <1>14, CheckoutKept

\* What is materialized, and the paths it is below.
LEMMA MaterializedPath ==
  ASSUME NEW n \in 1..3
  PROVE  LET q == SubSeq(Project!ThirdParty, 1, n)
         IN  /\ Len(Project!Materialized) = 3 /\ Project!Materialized[n] = q
             /\ q \in Path /\ Len(q) = n /\ q[1] = "utils"
             /\ \A k \in 1..n : SubSeq(q, 1, k) = SubSeq(Project!ThirdParty, 1, k)
<1>1. n \in 0..3 /\ 0 <= n
  OBVIOUS
<1> DEFINE q == SubSeq(Project!ThirdParty, 1, n)
<1>2. q \in Path /\ Len(q) = n /\ \A i \in 1..n : q[i] = Project!ThirdParty[i]
  BY <1>1, Beginning, ConstantPaths
<1>3. \A k \in 1..n : SubSeq(q, 1, k) = SubSeq(Project!ThirdParty, 1, k)
  BY <1>1, BeginningOfBeginning, ConstantPaths
<1>4. SubSeq(Project!ThirdParty, 1, 3) = Project!ThirdParty
  BY ConstantPaths, SubSeqFull DEF Path
<1> HIDE DEF q
<1>5. Len(Project!Materialized) = 3 /\ Project!Materialized[n] = SubSeq(Project!ThirdParty, 1, n)
  <2>1. CASE n = 1
    BY <2>1 DEF Project!Materialized
  <2>2. CASE n = 2
    BY <2>2 DEF Project!Materialized
  <2>3. CASE n = 3
    BY <2>3, <1>4 DEF Project!Materialized
  <2> QED BY <2>1, <2>2, <2>3
<1>6. q[1] = "utils"
  BY <1>2, ConstantPaths
<1> QED BY <1>2, <1>3, <1>5, <1>6 DEF q

\* A turn of _materialize_third_party_build.
LEMMA CheckoutMaterialized ==
  ASSUME CheckoutInv, mode = "path", Project!Materialize
  PROVE  CheckoutInv'
<1> DEFINE n == turn + 1
           q == SubSeq(Project!ThirdParty, 1, n)
           place == Project!Real(Project!Repository \o Project!Materialized[n])
           listed == Project!Readdir(Project!SourceRoot \o Project!Materialized[n])
           nodes == [x \in {place \o <<Project!Last(e)>> : e \in listed} |->
                       Project!Link(Project!SourceRoot \o Project!Materialized[n]
                                     \o <<Project!Last(x)>>)]
           pruned == Project!Without(fs, {place})
<1>0. Len(Project!Materialized) = 3
  BY DEF Project!Materialized
<1>1. /\ pc = "materialize" /\ turn < 3 /\ fs' = Project!With(pruned, nodes)
      /\ turn' = turn + 1 /\ pc' = IF turn' = 3 THEN "expose" ELSE pc
      /\ files' = files
  BY <1>0 DEF Project!Materialize
<1>2. n \in 1..3 /\ turn \in Nat
  BY <1>1 DEF CheckoutInv
<1>3. /\ Project!Materialized[n] = q /\ q \in Path /\ Len(q) = n /\ q[1] = "utils"
      /\ \A k \in 1..n : SubSeq(q, 1, k) = SubSeq(Project!ThirdParty, 1, k)
  BY <1>2, MaterializedPath
<1>4. \A k \in 1..3 : k <= turn => NoLink(fs, k)
  BY <1>1 DEF CheckoutInv
<1> HIDE DEF q
<1>5. Project!Real(Repo(q)) = Repo(q)
  <2>1. ASSUME NEW k \in 1..Len(q) - 1, Repo(SubSeq(q, 1, k)) \in DOMAIN fs
        PROVE  fs[Repo(SubSeq(q, 1, k))].kind # "link"
    <3>1. k \in 1..3 /\ k <= turn /\ k \in 1..n
      BY <1>2, <1>3
    <3> QED BY <3>1, <2>1, <1>3, <1>4 DEF NoLink
  <2> QED BY <2>1, <1>3, OwnPlaceInRepository DEF CheckoutInv
<1>6. place = Repo(q)
  BY <1>3, <1>5 DEF Repo
<1>7. place \in Path /\ Len(place) = 1 + n /\ place[1] = "repository" /\ place # <<>> /\ Tail(place) = q
  BY <1>3, <1>6, InRepository
<1>8. \A e \in listed : Project!Last(e) \in Name
  <2>1. Project!SourceRoot \o Project!Materialized[n] \in Path
    BY <1>3, RootsOfCheckout, ConstantPaths, ConcatProperties DEF Path
  <2> QED BY <2>1, Listing
<1>9. /\ DOMAIN nodes = {place \o <<Project!Last(e)>> : e \in listed}
      /\ \A x \in DOMAIN nodes : nodes[x].kind = "link"
  BY DEF Project!Link
<1> HIDE DEF place, listed, nodes
<1>10. /\ DOMAIN pruned \subseteq DOMAIN fs
       /\ \A x \in DOMAIN pruned : pruned[x] = fs[x] /\ x # place
       /\ SameCheckout(pruned) /\ LinksBeside(pruned)
  BY <1>7, Removing DEF CheckoutInv
<1> HIDE DEF pruned
<1>11. ASSUME NEW x \in DOMAIN nodes
       PROVE  /\ x \in Path /\ x # <<>> /\ x[1] = "repository" /\ Len(x) = 2 + n
              /\ ~OverlayDir(Tail(x))
  <2>1. PICK m \in Name : x = place \o <<m>>
    BY <1>8, <1>9
  <2>2. x = Repo(q \o <<m>>)
    <3>1. Project!Repository \in Seq(Name) /\ q \in Seq(Name) /\ <<m>> \in Seq(Name)
      BY <1>3, ConstantPaths DEF Path
    <3>2. (Project!Repository \o q) \o <<m>> = Project!Repository \o (q \o <<m>>)
      BY <3>1, ConcatAssociative
    <3> QED BY <2>1, <3>2, <1>6, Zenon DEF Repo
  <2> DEFINE r == q \o <<m>>
  <2>3. r \in Path /\ Len(r) = Len(q) + 1 /\ \A i \in 1..Len(q) : r[i] = q[i]
    BY <1>3, NameBelow
  <2> HIDE DEF r
  <2>4. Len(r) = n + 1 /\ Len(r) >= 2 /\ r[1] = "utils"
    BY <2>3, <1>2, <1>3
  <2>5. ~OverlayDir(r)
    BY <2>3, <2>4, UtilsBeside DEF CheckoutInv
  <2>6. /\ Repo(r) \in Path /\ Repo(r) # <<>> /\ Repo(r)[1] = "repository"
        /\ Len(Repo(r)) = 1 + Len(r) /\ Tail(Repo(r)) = r
    BY <2>3, InRepository
  <2>7. Len(Repo(r)) = 2 + n
    BY <2>4, <2>6, <1>2
  <2> QED BY <2>2, <2>5, <2>6, <2>7 DEF r
<1>12. ASSUME NEW x \in DOMAIN nodes
       PROVE  /\ x # <<>> /\ x[1] = "repository"
              /\ nodes[x].kind = "link" => Len(x) > 1 /\ ~OverlayDir(Tail(x))
  BY <1>2, <1>11
<1>13. /\ DOMAIN fs' \subseteq Path \ {<<>>} /\ SameCheckout(fs') /\ LinksBeside(fs')
       /\ \A x \in DOMAIN fs' :
            fs'[x].kind = "link" =>
              \/ x \in DOMAIN nodes
              \/ x \in DOMAIN pruned /\ pruned[x].kind = "link"
  <2>1. DOMAIN nodes \subseteq Path /\ DOMAIN pruned \subseteq Path \ {<<>>}
    BY <1>10, <1>11 DEF CheckoutInv
  <2> QED BY <2>1, <1>1, <1>10, <1>12, Adding
<1>14. ASSUME NEW k \in 1..3, k <= n PROVE NoLink(fs', k)
  <2> DEFINE s == SubSeq(Project!ThirdParty, 1, k)
  <2>1. s \in Path /\ Len(s) = k
    BY MaterializedPath
  <2>2. Len(Repo(s)) = 1 + k
    BY <2>1, InRepository
  <2> HIDE DEF s
  <2>3. Repo(s) \notin DOMAIN nodes
    BY <2>2, <1>2, <1>11, <1>14
  <2>4. Repo(s) \in DOMAIN pruned => pruned[Repo(s)].kind # "link"
    <3>1. CASE k <= turn
      BY <3>1, <1>4, <1>10 DEF NoLink, s
    <3>2. CASE k = n
      BY <3>2, <1>6, <1>10 DEF s, q
    <3> QED BY <3>1, <3>2, <1>2, <1>14
  <2> QED BY <2>3, <2>4, <1>13 DEF NoLink, s
<1>15. turn' = n /\ turn' \in Nat
  BY <1>1, <1>2
<1>16. pc' \in {"materialize", "expose"} /\ (pc' = "expose" => turn' = 3)
  BY <1>1
<1>17. pc' \in Finishing => pc' = "expose"
  BY <1>16 DEF Finishing
<1>18. pc' = "materialize" => \A k \in 1..3 : k <= turn' => NoLink(fs', k)
  BY <1>14, <1>15
<1>19. pc' \in Finishing => \A k \in 1..3 : NoLink(fs', k)
  BY <1>14, <1>15, <1>16, <1>17
<1>20. pc' \in {"overlay", "materialize", "failed"} \cup Finishing /\ pc' # "overlay"
  BY <1>16 DEF Finishing
<1> HIDE DEF n
<1> QED BY <1>1, <1>13, <1>15, <1>18, <1>19, <1>20, CheckoutKept

\* Files that are generated where no link is on the way.
LEMMA CheckoutGenerated ==
  ASSUME CheckoutInv, pc \in Finishing, NEW paths, paths \subseteq Path,
         \A q \in paths : Project!Real(Repo(q)) = Repo(q),
         Project!Generate(paths), files' = files, turn' = turn, pc' \in Finishing
  PROVE  CheckoutInv'
<1> DEFINE content == [p \in {Project!Repository \o q : q \in paths} |-> Project!Generated]
           nodes == [x \in {Project!Real(p) : p \in DOMAIN content} |->
                       Project!File(content[CHOOSE p \in DOMAIN content : Project!Real(p) = x])]
<1>1. fs' = Project!With(fs, nodes)
  BY DEF Project!Generate, Project!Written
<1>2. /\ DOMAIN nodes = {Project!Real(p) : p \in {Project!Repository \o q : q \in paths}}
      /\ \A x \in DOMAIN nodes : nodes[x].kind = "file"
  BY DEF Project!File
<1> HIDE DEF nodes
<1>3. ASSUME NEW x \in DOMAIN nodes PROVE x \in Path /\ x # <<>> /\ x[1] = "repository"
  <2>1. PICK q \in paths : x = Project!Real(Repo(q))
    BY <1>2 DEF Repo
  <2>2. x = Repo(q) /\ q \in Path
    BY <2>1
  <2> QED BY <2>2, InRepository
<1>4. /\ DOMAIN fs' \subseteq Path \ {<<>>} /\ SameCheckout(fs') /\ LinksBeside(fs')
      /\ \A x \in DOMAIN fs' : fs'[x].kind = "link" => x \in DOMAIN fs /\ fs[x].kind = "link"
  <2>1. DOMAIN nodes \subseteq Path
    BY <1>3
  <2>2. \A x \in DOMAIN nodes : nodes[x].kind # "link"
    BY <1>2
  <2> QED BY <2>1, <2>2, <1>1, <1>3, Adding DEF CheckoutInv
<1>5. ASSUME NEW k \in 1..3 PROVE NoLink(fs', k)
  BY <1>4 DEF CheckoutInv, NoLink
<1>6. pc' # "overlay" /\ pc' # "materialize" /\ turn' \in Nat
  BY DEF Finishing, CheckoutInv
<1> QED BY <1>4, <1>5, <1>6, CheckoutKept DEF CheckoutInv

\* The places where files are generated.
LEMMA GeneratedPlaces ==
  ASSUME CheckoutInv, pc \in Finishing
  PROVE  /\ \A n \in Name : <<n>> \in Path /\ Project!Real(Repo(<<n>>)) = Repo(<<n>>)
         /\ \A d \in {"llvm", "bolt"}, n \in Name :
              <<d, n>> \in Path /\ Project!Real(Repo(<<d, n>>)) = Repo(<<d, n>>)
         /\ \A n \in Name : LET q == Project!ThirdParty \o <<n>>
                            IN  q \in Path /\ Project!Real(Repo(q)) = Repo(q)
<1>0. LinksBeside(fs)
  BY DEF CheckoutInv
<1>1. ASSUME NEW n \in Name
      PROVE  <<n>> \in Path /\ Project!Real(Repo(<<n>>)) = Repo(<<n>>)
  <2>1. <<n>> \in Path /\ Len(<<n>>) = 1
    BY DEF Path
  <2>2. \A k \in 1..Len(<<n>>) - 1 : FALSE
    BY <2>1
  <2> QED BY <2>1, <2>2, <1>0, OwnPlaceInRepository
<1>2. ASSUME NEW d \in {"llvm", "bolt"}, NEW n \in Name
      PROVE  <<d, n>> \in Path /\ Project!Real(Repo(<<d, n>>)) = Repo(<<d, n>>)
  <2> DEFINE q == <<d>> \o <<n>>
  <2>1. <<d>> \in Path /\ OverlayDir(<<d>>) /\ Len(<<d>>) = 1
    <3>1. <<d>> \in Path /\ OverlayDir(<<d>>)
      BY GeneratedInOverlay DEF CheckoutInv
    <3>2. Len(<<d>>) = 1
      OBVIOUS
    <3> QED BY <3>1, <3>2
  <2>3. /\ q \in Path /\ Len(q) = Len(<<d>>) + 1
        /\ \A k \in 1..Len(<<d>>) : SubSeq(q, 1, k) = SubSeq(<<d>>, 1, k)
        /\ \A k \in 1..Len(<<d>>) : q[k] = <<d>>[k]
        /\ Project!Last(q) = n
    BY <2>1, NameBelow
  <2>2. q = <<d, n>>
    <3> HIDE DEF q
    <3>1. q \in Seq(Name) /\ Len(q) = 2 /\ q[1] = d /\ q[2] = n
      <4>1. <<d>>[1] = d
        OBVIOUS
      <4> QED BY <4>1, <2>1, <2>3 DEF Path, Project!Last
    <3>2. d \in Name
      BY DEF Name
    <3>3. /\ <<d, n>> \in Seq(Name) /\ Len(<<d, n>>) = 2
          /\ <<d, n>>[1] = d /\ <<d, n>>[2] = n
      BY <3>2
    <3>4. \A i \in 1..2 : q[i] = <<d, n>>[i]
      BY <3>1, <3>3
    <3> QED BY <3>1, <3>3, <3>4, SeqEqual
  <2>4. SubSeq(<<d>>, 1, 1) = <<d>>
    BY <2>1, SubSeqFull DEF Path
  <2> HIDE DEF q
  <2>5. ASSUME NEW k \in 1..Len(q) - 1 PROVE SubSeq(q, 1, k) = <<d>>
    <3>1. k = 1 /\ k \in 1..Len(<<d>>)
      BY <2>1, <2>3
    <3> QED BY <3>1, <2>3, <2>4
  <2>6. Project!Real(Repo(q)) = Repo(q)
    <3>1. Repo(<<d>>) \in DOMAIN fs => fs[Repo(<<d>>)].kind # "link"
      BY <1>0, <2>1, NoLinkThere
    <3> QED BY <1>0, <2>3, <2>5, <3>1, OwnPlaceInRepository
  <2> QED BY <2>2, <2>3, <2>6
<1>3. ASSUME NEW n \in Name
      PROVE  LET q == Project!ThirdParty \o <<n>>
             IN  q \in Path /\ Project!Real(Repo(q)) = Repo(q)
  <2> DEFINE q == Project!ThirdParty \o <<n>>
  <2>1. /\ q \in Path /\ Len(q) = 4
        /\ \A k \in 1..3 : SubSeq(q, 1, k) = SubSeq(Project!ThirdParty, 1, k)
    <3>1. /\ q \in Path /\ Len(q) = Len(Project!ThirdParty) + 1
          /\ \A k \in 1..Len(Project!ThirdParty) :
               SubSeq(q, 1, k) = SubSeq(Project!ThirdParty, 1, k)
      BY NameBelow, ConstantPaths
    <3> HIDE DEF q
    <3> QED BY <3>1, ConstantPaths
  <2> HIDE DEF q
  <2>2. \A k \in 1..3 : NoLink(fs, k)
    BY DEF CheckoutInv
  <2>3. ASSUME NEW k \in 1..Len(q) - 1, Repo(SubSeq(q, 1, k)) \in DOMAIN fs
        PROVE  fs[Repo(SubSeq(q, 1, k))].kind # "link"
    <3>1. k \in 1..3
      BY <2>1
    <3> QED BY <3>1, <2>1, <2>2, <2>3 DEF NoLink
  <2>4. Project!Real(Repo(q)) = Repo(q)
    BY <1>0, <2>1, <2>3, OwnPlaceInRepository
  <2> QED BY <2>1, <2>4 DEF q
<1> QED BY <1>1, <1>2, <1>3

\* What write_llvm_project_files generates, after the third-party files.
LEMMA CheckoutWritten ==
  ASSUME CheckoutInv, Project!WriteFiles
  PROVE  CheckoutInv'
<1> DEFINE paths == Project!Outputs(pc)
<1>1. /\ pc \in {"build", "vars", "targets", "helper"}
      /\ Project!Generate(paths) /\ files' = files /\ turn' = turn
      /\ pc' \in {"vars", "targets", "helper", "done"}
  BY DEF Project!WriteFiles, Project!Following, Project!Goto
<1>2. pc \in Finishing /\ pc' \in Finishing
  BY <1>1 DEF Finishing
<1>3. {"BUILD.bazel", "vars.bzl", "targets.bzl", "instrumentor.bzl"} \subseteq Name
  BY DEF Name
<1>4. ASSUME NEW q \in paths
      PROVE  \/ \E n \in Name : q = <<n>>
             \/ \E d \in {"llvm", "bolt"}, n \in Name : q = <<d, n>>
  <2>1. CASE pc = "build"
    BY <2>1, <1>3 DEF Project!Outputs
  <2>2. CASE pc = "vars"
    BY <2>2, <1>3 DEF Project!Outputs
  <2>3. CASE pc = "targets"
    <3>1. q = <<"llvm", "targets.bzl">> \/ q = <<"bolt", "targets.bzl">>
      BY <2>3 DEF Project!Outputs
    <3> QED BY <3>1, <1>3
  <2>4. CASE pc = "helper"
    <3>1. q = <<"llvm", "instrumentor.bzl">>
      BY <2>4 DEF Project!Outputs
    <3> QED BY <3>1, <1>3
  <2> QED BY <1>1, <2>1, <2>2, <2>3, <2>4
<1> HIDE DEF paths
<1>5. ASSUME NEW q \in paths PROVE q \in Path /\ Project!Real(Repo(q)) = Repo(q)
  BY <1>2, <1>4, GeneratedPlaces
<1> QED BY <1>1, <1>2, <1>5, CheckoutGenerated

\* _expose_third_party_build_files.
LEMMA CheckoutExposed ==
  ASSUME CheckoutInv, Project!ExposeThirdParty
  PROVE  CheckoutInv'
<1>1. /\ pc = "expose" /\ pc' = "build" /\ files' = files /\ turn' = turn
      /\ Project!Generate(Project!Exposed)
  BY DEF Project!ExposeThirdParty, Project!Goto
<1>2. pc \in Finishing /\ pc' \in Finishing
  BY <1>1 DEF Finishing
<1>3. {"BUILD.bazel", ".bazelignore"} \subseteq Name
  BY DEF Name
<1>4. ASSUME NEW q \in Project!Exposed PROVE q \in Path /\ Project!Real(Repo(q)) = Repo(q)
  <2>1. q = <<".bazelignore">> \/ q = Project!ThirdParty \o <<"BUILD.bazel">>
    BY DEF Project!Exposed, Project!Bazelignore
  <2> QED BY <2>1, <1>2, <1>3, GeneratedPlaces
<1> QED BY <1>1, <1>2, <1>4, CheckoutGenerated

\* A checkout is there, and its overlay to be merged, when the rule starts.
LEMMA CheckoutInit ==
  ASSUME Project!Init, mode = "path", Project!Conforming
  PROVE  CheckoutInv
<1>1. /\ files \subseteq Required \cup Optional /\ fs = Before
      /\ pc = "overlay" /\ stack = << <<>> >> /\ turn = 0
  BY DEF Project!Init, Before
<1>2. /\ DOMAIN Before \subseteq Path \ {<<>>}
      /\ \A x \in DOMAIN Before : Before[x].kind \in {"dir", "file"}
  BY <1>1, Planting
<1>3. SameCheckout(fs)
  BY <1>1 DEF SameCheckout
<1>4. LinksBeside(fs)
  BY <1>1, <1>2 DEF LinksBeside
<1>5. stack \in Seq(InOverlay) /\ stack # <<>>
  <2>1. <<>> \in Path /\ Len(<<>>) = 0
    BY EmptyPath
  <2>2. \A k \in 1..Len(<<>>) : FALSE
    BY <2>1
  <2>3. <<>> \in InOverlay
    BY <2>1, <2>2 DEF InOverlay
  <2> DEFINE e == <<>>
  <2> HIDE DEF e
  <2>4. <<e>> \in Seq(InOverlay) /\ Len(<<e>>) = 1
    BY <2>3 DEF e
  <2>5. stack = <<e>>
    BY <1>1 DEF e
  <2> QED BY <2>4, <2>5, EmptySeq
<1>6. pc \notin Finishing
  BY <1>1 DEF Finishing
<1> QED BY <1>1, <1>2, <1>3, <1>4, <1>5, <1>6 DEF CheckoutInv, Conformed

\* The rule goes on alone.
LEMMA ProjectAlone ==
  ASSUME extension = "llvm-project", [Next]_vars
  PROVE  /\ extension' = "llvm-project"
         /\ Project!Next \/ UNCHANGED <<mode, files, fs, pc, stack, turn>>
  BY DEF Next, vars, shared, project, ToolchainStep, OsxStep, LlvmStep, KernelStep,
         ProjectStep, Done

\* Neither the rule nor the sources change.
LEMMA ProjectFrame ==
  ASSUME Project!Next
  PROVE  mode' = mode /\ files' = files
  BY DEF Project!Next, Project!Clone, Project!CloneFails, Project!StripPrefix,
         Project!MissingPrefix, Project!Patch, Project!PatchFails, Project!OverlayMissing,
         Project!CopyOverlay, Project!CopyBlocked, Project!SymlinkOverlay,
         Project!SymlinkFails, Project!TooManyDirectories, Project!DeleteGit,
         Project!Materialize, Project!MaterializeFails, Project!ExposeThirdParty,
         Project!NothingToExpose, Project!NoBazelignore, Project!WriteFiles,
         Project!WriteFails, Project!Fail, Project!Goto, Project!NextTurn

\* Every step that a checkout takes part in.
LEMMA CheckoutNext ==
  ASSUME CheckoutInv, mode = "path", Project!Next
  PROVE  CheckoutInv'
<1>0. pc \notin {"clone", "strip", "patch", "delete"}
  BY DEF CheckoutInv, Finishing
<1>1. CASE Project!Clone \/ Project!CloneFails \/ Project!StripPrefix \/ Project!MissingPrefix
             \/ Project!Patch \/ Project!PatchFails \/ Project!DeleteGit
  BY <1>0, <1>1 DEF Project!Clone, Project!CloneFails, Project!StripPrefix,
     Project!MissingPrefix, Project!Patch, Project!PatchFails, Project!DeleteGit
<1>2. CASE Project!OverlayMissing \/ Project!CopyBlocked \/ Project!SymlinkFails
             \/ Project!TooManyDirectories \/ Project!MaterializeFails
             \/ Project!NoBazelignore \/ Project!WriteFails
  <2>1. Project!Fail
    BY <1>2 DEF Project!OverlayMissing, Project!CopyBlocked, Project!SymlinkFails,
       Project!TooManyDirectories, Project!MaterializeFails, Project!NoBazelignore,
       Project!WriteFails
  <2> QED BY <2>1, CheckoutFails
<1>3. CASE Project!CopyOverlay
  BY <1>3 DEF Project!CopyOverlay
<1>4. CASE Project!SymlinkOverlay
  BY <1>4, CheckoutLinked
<1>5. CASE Project!Materialize
  BY <1>5, CheckoutMaterialized
<1>6. CASE Project!ExposeThirdParty
  BY <1>6, CheckoutExposed
<1>7. CASE Project!NothingToExpose
  <2>1. pc = "expose" /\ pc' = "build" /\ fs' = fs /\ files' = files /\ turn' = turn
    BY <1>7 DEF Project!NothingToExpose, Project!Goto
  <2>2. pc \in Finishing /\ pc' \in Finishing
    BY <2>1 DEF Finishing
  <2> QED BY <2>1, <2>2, CheckoutKept DEF CheckoutInv
<1>8. CASE Project!WriteFiles
  BY <1>8, CheckoutWritten
<1> QED BY <1>1, <1>2, <1>3, <1>4, <1>5, <1>6, <1>7, <1>8 DEF Project!Next

\* For every source tree whose overlay conforms, making @llvm-project from a
\* checkout of it changes nothing in the checkout (llvm_project_repository.bzl).
THEOREM Untouched == Spec => []CheckoutUntouched
<1> DEFINE I == extension = "llvm-project" /\ mode = "path" /\ Project!Conforming => CheckoutInv
<1>1. Init => I
  BY CheckoutInit DEF Init
<1>2. I /\ [Next]_vars => I'
  <2> SUFFICES ASSUME I, [Next]_vars, extension' = "llvm-project", mode' = "path",
                      Project!Conforming'
               PROVE  CheckoutInv'
    OBVIOUS
  <2>1. extension = "llvm-project"
    BY DEF Next, vars, ToolchainStep, OsxStep, LlvmStep, KernelStep, ProjectStep, Done
  <2>2. CASE Project!Next
    <3>1. mode = "path" /\ files' = files
      BY <2>2, ProjectFrame
    <3>2. Project!Conforming
      BY <3>1 DEF Project!Conforming, Project!Overlaid
    <3> QED BY <2>1, <2>2, <3>1, <3>2, CheckoutNext
  <2>3. CASE UNCHANGED <<mode, files, fs, pc, stack, turn>>
    <3>1. mode = "path" /\ Project!Conforming
      BY <2>3 DEF Project!Conforming, Project!Overlaid
    <3>2. CheckoutInv
      BY <2>1, <3>1
    <3> QED BY <2>3, <3>2, CheckoutKept DEF CheckoutInv
  <2> QED BY <2>1, <2>2, <2>3, ProjectAlone
<1>3. I => CheckoutUntouched
  <2> SUFFICES ASSUME CheckoutInv, mode = "path",
                      NEW x \in DOMAIN Before \cup DOMAIN fs,
                      Project!IsPrefix(Project!Checkout, x)
               PROVE  x \in DOMAIN Before \cap DOMAIN fs /\ Before[x] = fs[x]
    BY DEF CheckoutUntouched, Project!CheckoutUntouched, Before
  <2>1. x \in Path /\ x # <<>>
    BY Planting DEF CheckoutInv, Conformed
  <2>2. 1 \in 0..Len(x) /\ 1 \in 0..Len(Project!Checkout)
    BY <2>1, EmptyPath, ConstantPaths
  <2>3. SubSeq(x, 1, 1)[1] = x[1] /\ SubSeq(Project!Checkout, 1, 1)[1] = Project!Checkout[1]
    BY <2>1, <2>2, Beginning, ConstantPaths
  <2>4. SubSeq(Project!Checkout, 1, 1) = SubSeq(x, 1, 1)
    BY ConstantPaths DEF Project!IsPrefix
  <2>5. x[1] = "checkout"
    BY <2>3, <2>4, ConstantPaths
  <2> QED BY <2>5 DEF CheckoutInv, SameCheckout
<1> QED BY <1>1, <1>2, <1>3, PTL DEF Spec
==============================================================================
