-------------------------- MODULE MCModuleExtensions --------------------------
(* Two modules per extension.  Toolchains: a platform that is exec and       *)
(* target, a Windows one, one that is only a target.  SDK: Security is a     *)
(* default and owns headers, IOKit only owns headers.  LLVM: three versions, *)
(* one of them without a numeric major version; tags name the default index  *)
(* or another one.  Kernel headers: an index                                 *)
(* whose newest release differs as text and as numbers, one whose newest     *)
(* release serves one architecture only, one without a constraint's minor    *)
(* version, one whose newest release serves no architecture.  Sources with   *)
(* and without each file that a step of the rules looks for, and overlays    *)
(* with nested directories, with a directory that the sources do not have or *)
(* have as a file, with a file the sources have too, without the directories *)
(* that files are generated in, and none.                                    *)
EXTENDS ModuleExtensions

AllPlatforms == {"linux_x86_64", "windows_x86_64", "linux_riscv64"}
Execs == <<"linux_x86_64", "windows_x86_64">>
Targets == <<"linux_x86_64", "linux_riscv64", "windows_x86_64">>
OnWindows == {"windows_x86_64"}

AllFrameworks == {"Security", "IOKit"}
Defaults == {"Security"}

LlvmVersions == {"21.1.8", "20.1.8", "main"}
NotNumeric == {"main"}
Bundled == "//extensions:llvm_toolchain_minimal_index.json"
Indexes == {Bundled, "//:mirror.json"}

Release(version, archs) == [version : {version}, arch : archs]
Complete == Release(<<6, 1, 9>>, {"x86"}) \cup Release(<<6, 1, 10>>, {"x86", "arm64", "mips"})
              \cup Release(<<6, 12, 1>>, {"x86", "arm64"})
Partial == Release(<<6, 1, 9>>, {"x86", "arm64"}) \cup Release(<<6, 1, 10>>, {"arm64"})
              \cup Release(<<6, 12, 1>>, {"x86"})
WithoutMinor == Release(<<6, 1, 9>>, {"x86", "arm64"})
Unserved == Release(<<6, 1, 9>>, {"x86"}) \cup Release(<<6, 12, 1>>, {"mips"})
IndexContents == {Complete, Partial, WithoutMinor, Unserved}

Archs == {"x86", "arm64"}
ArchNames == [x86_64 |-> "x86", aarch64 |-> "arm64"]
Defaultable == {<<6, 12>>, <<5, 4>>}
Constrainable == {<<6, 1>>, <<6, 12>>}
LibcVersions == [gnu |-> <<6, 1, 9>>, musl |-> <<6, 1, 10>>]

Always == {<<"llvm", "CMakeLists.txt">>, <<"bolt", "CMakeLists.txt">>}

ThirdPartyBuild == <<"utils", "bazel", "third_party_build">>
MaybeInSources ==
  {<<"cmake", "Modules", "LLVMVersion.cmake">>,
   <<"llvm", "include", "InstrumentorRuntimeHelper.h">>, <<"BUILD.bazel">>, <<"third-party">>,
   ThirdPartyBuild \o <<"pfm.BUILD">>, ThirdPartyBuild \o <<"BUILD.bazel">>}

ProjectOverlay == <<"utils", "bazel", "llvm-project-overlay">>
MaybeInOverlay ==
  {<<".bazelignore">>, <<"llvm", "BUILD.bazel">>, <<"bolt", "BUILD.bazel">>,
   <<"utils", "BUILD.bazel">>, <<"llvm", "include", "BUILD.bazel">>,
   <<"third-party", "BUILD.bazel">>, <<"bolt", "CMakeLists.txt">>}

Sometimes == MaybeInSources \cup {ProjectOverlay \o f : f \in MaybeInOverlay}
=============================================================================
