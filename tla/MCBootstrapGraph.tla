-------------------------- MODULE MCBootstrapGraph --------------------------
(***************************************************************************)
(* Execution on Linux (both CPUs with a profile, and one without), MinGW;  *)
(* programs for those and for MSVC; one sanitizer of each kind.            *)
(***************************************************************************)
EXTENDS BootstrapGraph

MCExecs == {[os |-> "linux", cpu |-> "x86_64"], [os |-> "linux", cpu |-> "aarch64"],
            [os |-> "linux", cpu |-> "riscv64"], [os |-> "mingw", cpu |-> "x86_64"]}
MCPlatforms == MCExecs \cup {[os |-> "msvc", cpu |-> "x86_64"]}
=============================================================================
