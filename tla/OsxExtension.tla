---------------------------- MODULE OsxExtension ----------------------------
(***************************************************************************)
(* The osx module extension: which macOS SDK becomes @macos_sdk, and what  *)
(* of it.  The tags of the root module and of its dependencies compete     *)
(* with each other, with three environment variables and with the host.    *)
(* osx.libraries only adds its names to the includes and is left out.      *)
(***************************************************************************)
EXTENDS Naturals, Sequences

CONSTANTS
  Frameworks,          \* names of frameworks
  DefaultFrameworks,   \* _DEFAULT_FRAMEWORKS
  HeaderOwners,        \* frameworks whose absence excludes headers of usr/include
  MaxModules,
  NoSource             \* None

VARIABLES
  modules,             \* mctx.modules: the root, if it uses the extension, is first
  mac,                 \* Bazel runs on macOS
  forceHost,           \* BAZEL_MACOS_USE_HOST_SDK=1
  envAllLibs,          \* BAZEL_MACOS_EXPERIMENTAL_INCLUDE_ALL_SDK_LIBS=1
  envFrameworks,       \* BAZEL_MACOS_FRAMEWORKS: {} when unset, {names} when set
  pc,
  next,                \* the module of the loop's next turn
  rootSource,
  dependencySource,
  sdkSource,
  frameworks,
  allLibs,             \* experimental_include_all_sdk_libs
  repository           \* the attributes of @macos_sdk

inputs == <<modules, mac, forceHost, envAllLibs, envFrameworks>>
vars == <<inputs, pc, next, rootSource, dependencySource, sdkSource, frameworks,
          allLibs, repository>>

\* from_archive and from_host are counts of tags.
Tags == [root : BOOLEAN, from_archive : 0..2, from_host : 0..2,
         frameworks : {{}} \cup {{f} : f \in Frameworks}, all_libs : BOOLEAN]

Init ==
  /\ modules \in UNION {[1..n -> Tags] : n \in 0..MaxModules}
  /\ \A i \in DOMAIN modules : modules[i].root => i = 1
  /\ mac \in BOOLEAN /\ forceHost \in BOOLEAN /\ envAllLibs \in BOOLEAN
  /\ envFrameworks \in {{}, {{}}} \cup {{{f}} : f \in Frameworks}
  /\ pc = "source" /\ next = 1
  /\ rootSource = NoSource /\ dependencySource = NoSource /\ sdkSource = NoSource
  /\ frameworks = {} /\ allLibs = FALSE
  /\ repository = {}

-----------------------------------------------------------------------------
(* _get_sdk_source                                                          *)

Host == [kind |-> "host"]
Archive(i) == [kind |-> "archive", module |-> i]

TooManyTags(i) == modules[i].from_archive > 1 \/ modules[i].from_host > 1

\* Mutant: the host's SDK is offered on every host.
ModuleSourceAnywhere(i) ==
  IF modules[i].from_host > 0 THEN Host
  ELSE IF modules[i].from_archive > 0 THEN Archive(i) ELSE NoSource

\* module_source.
ModuleSource(i) ==
  IF mac /\ modules[i].from_host > 0 THEN Host
  ELSE IF modules[i].from_archive > 0 THEN Archive(i) ELSE NoSource

ReadSource ==
  /\ pc = "source" /\ next <= Len(modules)
  /\ ~TooManyTags(next)
  /\ LET source == ModuleSource(next)
     IN  /\ rootSource' = IF modules[next].root THEN source ELSE rootSource
         /\ dependencySource' =
              IF modules[next].root \/ source = NoSource THEN dependencySource
              ELSE source
  /\ next' = next + 1
  /\ UNCHANGED <<inputs, pc, sdkSource, frameworks, allLibs, repository>>

RefuseTags ==
  /\ pc = "source" /\ next <= Len(modules)
  /\ TooManyTags(next)
  /\ pc' = "failed"
  /\ UNCHANGED <<inputs, next, rootSource, dependencySource, sdkSource,
                 frameworks, allLibs, repository>>

\* The source that wins.
Winner ==
  IF mac /\ forceHost THEN Host
  ELSE IF rootSource # NoSource THEN rootSource ELSE dependencySource

ChooseSource ==
  /\ pc = "source" /\ next > Len(modules)
  /\ Winner # NoSource
  /\ sdkSource' = Winner
  /\ pc' = "tags" /\ next' = 1
  /\ UNCHANGED <<inputs, rootSource, dependencySource, frameworks, allLibs, repository>>

MissingSource ==
  /\ pc = "source" /\ next > Len(modules)
  /\ Winner = NoSource
  /\ pc' = "failed"
  /\ UNCHANGED <<inputs, next, rootSource, dependencySource, sdkSource,
                 frameworks, allLibs, repository>>

-----------------------------------------------------------------------------
(* _osx_extension_impl                                                      *)

ReadTags ==
  /\ pc = "tags" /\ next <= Len(modules)
  /\ frameworks' = frameworks \cup modules[next].frameworks
  /\ allLibs' = (allLibs \/ modules[next].all_libs)
  /\ next' = next + 1
  /\ UNCHANGED <<inputs, pc, rootSource, dependencySource, sdkSource, repository>>

\* The environment replaces what the tags said, even by nothing at all; the
\* defaults stand in for an empty list.
ReadEnvironment ==
  /\ pc = "tags" /\ next > Len(modules)
  /\ allLibs' = envAllLibs
  /\ LET requested == IF envFrameworks = {} THEN frameworks ELSE UNION envFrameworks
     IN  frameworks' = IF requested = {} THEN DefaultFrameworks ELSE requested
  /\ pc' = "declare"
  /\ UNCHANGED <<inputs, next, rootSource, dependencySource, sdkSource, repository>>

\* The headers left out of usr/include, by the framework they belong to.
ExcludedHeaders == HeaderOwners \ frameworks

DeclareRepository ==
  /\ pc = "declare"
  /\ repository' = {[source |-> sdkSource, frameworks |-> frameworks,
                     excluded |-> ExcludedHeaders, allLibs |-> allLibs]}
  /\ pc' = "done"
  /\ UNCHANGED <<inputs, next, rootSource, dependencySource, sdkSource,
                 frameworks, allLibs>>

Next ==
  \/ ReadSource \/ RefuseTags \/ ChooseSource \/ MissingSource
  \/ ReadTags \/ ReadEnvironment \/ DeclareRepository

-----------------------------------------------------------------------------
(* Properties.                                                              *)

\* Module i offers an SDK that can be used on this host.
Offers(i) == modules[i].from_archive > 0 \/ (mac /\ modules[i].from_host > 0)

\* Whatever the modules say, the host's SDK is used only on macOS, when the
\* environment forces it or a module asked for it that the root does not
\* overrule; a dependency's archive only when the root offers nothing usable.
\* And the extension fails only on repeated tags or when nobody offers an SDK.
SourceJustified ==
  /\ \A r \in repository :
       /\ r.source.kind = "host" =>
            /\ mac
            /\ \/ forceHost
               \/ /\ \E i \in DOMAIN modules : modules[i].from_host > 0
                  /\ \A i \in DOMAIN modules :
                       modules[i].root /\ Offers(i) => modules[i].from_host > 0
       /\ r.source.kind = "archive" =>
            /\ modules[r.source.module].from_archive = 1
            /\ ~(mac /\ forceHost)
            /\ \A i \in DOMAIN modules :
                 modules[i].root /\ Offers(i) => r.source.module = i
  /\ pc = "failed" =>
       \/ \E i \in DOMAIN modules : TooManyTags(i)
       \/ \A i \in DOMAIN modules : ~Offers(i)

\* A module that asks for the libraries of the SDK by a tag gets them in the
\* repository, whichever SDK was chosen.
AllLibsAsTagged ==
  \A r \in repository : (\E i \in DOMAIN modules : modules[i].all_libs) => r.allLibs
=============================================================================
