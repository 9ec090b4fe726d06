---------------------- MODULE MCToolchainRegistration ----------------------
(* Two modules with up to two tags of each kind: over a platform that is    *)
(* exec and target, a Windows one, and one that is only a target.           *)
EXTENDS ToolchainRegistration

AllPlatforms == {"linux_x86_64", "windows_x86_64", "linux_riscv64"}
Execs == <<"linux_x86_64", "windows_x86_64">>
Targets == <<"linux_x86_64", "linux_riscv64", "windows_x86_64">>
OnWindows == {"windows_x86_64"}
=============================================================================
