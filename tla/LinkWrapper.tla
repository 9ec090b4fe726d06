----------------------------- MODULE LinkWrapper -----------------------------
(***************************************************************************)
(* tools/internal/link_wrapper.c: the executable the toolchain runs in     *)
(* place of clang++ for every final link.  It runs the link, then dsymutil *)
(* and llvm-strip when a dSYM is wanted, then produces the interface       *)
(* library.  Two processes interleave: the wrapper, and the one child that *)
(* run_process forked and waitpid() is waiting for.                        *)
(*                                                                         *)
(* Contents of files are reduced to what consumers can tell apart; the     *)
(* programs that are run are external and may fail, crash or be killed at  *)
(* any point, leaving their output half written.                           *)
(***************************************************************************)
EXTENDS Naturals, Sequences

CONSTANTS
    Environments,   \* the environments the wrapper may be started in
    FailureCodes,   \* exit codes with which a program reports failure
    Signals         \* signals that may kill a program

(***************************************************************************)
(* An environment: the variables of required_env() that are set and not    *)
(* empty, the optional switches, and two facts outside the process: the    *)
(* library has versioned symbols; SIGCHLD was inherited as ignored (then   *)
(* waitpid blocks until the child is gone and fails with ECHILD).          *)
(***************************************************************************)
RequiredVars == {"LLVM_CLANGXX", "LLVM_LINK_OUTPUT", "LLVM_DSYMUTIL",
                 "LLVM_STRIP", "LLVM_INTERFACE_LIBRARY_FORMAT",
                 "LLVM_INTERFACE_LIBRARY_INPUT",
                 "LLVM_INTERFACE_LIBRARY_OUTPUT", "LLVM_NM", "LLVM_IFS",
                 "LLVM_READTAPI"}

EnvironmentType == [vars : SUBSET RequiredVars, dsymPath : BOOLEAN,
                    stripDebug : BOOLEAN, interface : BOOLEAN,
                    format : {"elf", "tbd", "other"},
                    versioned : BOOLEAN, sigchldIgnored : BOOLEAN]

ASSUME EnvironmentsAssumption == Environments \subseteq EnvironmentType
ASSUME CodesAssumption == /\ FailureCodes \subseteq 1..255
                          /\ Signals \subseteq 1..64

VARIABLES
    env,      \* the environment; never written
    pc,       \* what the wrapper does next
    child,    \* the forked process: its program, its state, its exit code
    status,   \* result of the last run_process, in the end the exit status
    linkOut,  \* LLVM_LINK_OUTPUT
    dsym,     \* LLVM_DSYM_PATH
    iface,    \* LLVM_INTERFACE_LIBRARY_OUTPUT; "leftover": remove() failed
    ran       \* history: programs started, with the status each ended with

vars == <<env, pc, child, status, linkOut, dsym, iface, ran>>

Programs == {"clang++", "dsymutil", "strip", "nm", "ifs", "readtapi"}

\* The program a control point runs, and the variables it insists on first.
Program == [link |-> "clang++", dsym |-> "dsymutil", strip |-> "strip",
            nm |-> "nm", ifs |-> "ifs", readtapi |-> "readtapi"]

Needs == [link |-> {"LLVM_CLANGXX"},
          dsym |-> {"LLVM_LINK_OUTPUT", "LLVM_DSYMUTIL"},
          strip |-> {"LLVM_STRIP"},
          interface |-> {"LLVM_INTERFACE_LIBRARY_FORMAT",
                         "LLVM_INTERFACE_LIBRARY_INPUT",
                         "LLVM_INTERFACE_LIBRARY_OUTPUT"},
          nm |-> {"LLVM_NM"}, ifs |-> {"LLVM_IFS"},
          readtapi |-> {"LLVM_READTAPI"}]

RunPoints == DOMAIN Program
NoChild == [program |-> "none", state |-> "none", code |-> 0]
Terminated == {"exited", "killed"}

-----------------------------------------------------------------------------
Init ==
    /\ env \in Environments
    /\ pc = "link"
    /\ child = NoChild
    /\ status = 0
    /\ linkOut = "absent" /\ dsym = "absent" /\ iface = "absent"
    /\ ran = <<>>

Files == <<linkOut, dsym, iface>>

\* Returning from main, or exit() in required_env.
Exit(s) == pc' = "exited" /\ status' = s

-----------------------------------------------------------------------------
(* Mutations: plausible bugs that the properties below are checked to catch. *)

\* The dSYM is made after stripping.
AfterLinkStripsFirst ==
    IF env.dsymPath THEN IF env.stripDebug THEN "strip" ELSE "dsym" ELSE "afterDsym"

\* The linker is told to strip although a dSYM is still to be made.
LinkedStripsAlways == IF env.stripDebug THEN "stripped" ELSE "debug"

\* EINTR is an error like any other.
WaitInterruptedGivesUp ==
    /\ pc = "wait" /\ child.state \notin Terminated
    /\ Exit(127)
    /\ UNCHANGED <<env, child, Files, ran>>

\* A child killed by a signal counts as exited with WEXITSTATUS, that is 0.
WaitStatusIgnoresSignals == IF child.state = "exited" THEN child.code ELSE 0

\* The status of llvm-strip is not looked at.
WaitIgnoresStrip ==
    /\ pc = "wait"
    /\ child.state \in Terminated
    /\ status' = IF child.state = "exited" THEN child.code ELSE 128 + child.code
    /\ pc' = IF status' # 0 /\ child.program # "strip" THEN "exited"
             ELSE CASE child.program = "clang++" ->
                         IF env.dsymPath THEN "dsym" ELSE "afterDsym"
                    [] child.program = "dsymutil" ->
                         IF env.stripDebug THEN "strip" ELSE "afterDsym"
                    [] child.program = "strip" -> "afterDsym"
                    [] child.program = "nm" -> "scan"
                    [] OTHER -> "exited"
    /\ ran' = [ran EXCEPT ![Len(ran)] = [program |-> child.program, status |-> status']]
    /\ child' = NoChild
    /\ UNCHANGED <<env, Files>>

\* A failed copy is reported, but its destination is not removed.
CopyFailsKeepsFile ==
    /\ pc = "copying"
    /\ Exit(1)
    /\ UNCHANGED <<env, child, Files, ran>>

\* Every error of waitpid is retried, ECHILD too.
WaitRetriesAllErrors ==
    /\ pc = "wait"
    /\ child.state \in Terminated
    /\ env.sigchldIgnored
    /\ UNCHANGED vars

-----------------------------------------------------------------------------
(* The wrapper up to the fork. *)

\* required_env: a variable this point needs is unset or empty.
MissingEnv ==
    /\ pc \in DOMAIN Needs
    /\ ~(Needs[pc] \subseteq env.vars)
    /\ Exit(127)
    /\ UNCHANGED <<env, child, Files, ran>>

\* run_process and run_process_with_stdout up to the fork.
Fork ==
    /\ pc \in RunPoints
    /\ Needs[pc] \subseteq env.vars
    /\ child' = [program |-> Program[pc], state |-> "forked", code |-> 0]
    /\ ran' = Append(ran, [program |-> Program[pc], status |-> 0])
    /\ pc' = "wait"
    /\ UNCHANGED <<env, status, Files>>

\* fork() fails; for llvm-nm also tmpfile(), which returns 1.
ForkFails ==
    /\ pc \in RunPoints
    /\ Needs[pc] \subseteq env.vars
    /\ \E s \in IF pc = "nm" THEN {1, 127} ELSE {127} : Exit(s)
    /\ UNCHANGED <<env, child, Files, ran>>

-----------------------------------------------------------------------------
(* The child. *)

Ended(state, code) == [program |-> child.program, state |-> state, code |-> code]

\* execv (and for llvm-nm the dup2 before it) fails: _exit(127).
ChildExecFails ==
    /\ child.state = "forked"
    /\ child' = Ended("exited", 127)
    /\ UNCHANGED <<env, pc, status, Files, ran>>

\* External: the program starts and opens its output for writing.
ChildStarts ==
    /\ child.state = "forked"
    /\ child' = [child EXCEPT !.state = "running"]
    /\ linkOut' = IF child.program \in {"clang++", "strip"} THEN "partial" ELSE linkOut
    /\ dsym' = IF child.program = "dsymutil" THEN "partial" ELSE dsym
    /\ iface' = IF child.program \in {"ifs", "readtapi"} THEN "partial" ELSE iface
    /\ UNCHANGED <<env, pc, status, ran>>

\* What clang++ leaves: -Wl,-S is on the command line when symbols are to be
\* stripped and no dSYM is made (strip_debug_symbols_when_no_dsym).
Linked == IF env.stripDebug /\ ~env.dsymPath THEN "stripped" ELSE "debug"

\* External: the program exits 0, its output complete.  dsymutil finds debug
\* information only in a binary that still has it.
ChildSucceeds ==
    /\ child.state = "running"
    /\ child' = Ended("exited", 0)
    /\ linkOut' = CASE child.program = "clang++" -> Linked
                    [] child.program = "strip" -> "stripped"
                    [] OTHER -> linkOut
    /\ dsym' = IF child.program = "dsymutil"
                 THEN IF linkOut = "debug" THEN "debug" ELSE "empty" ELSE dsym
    /\ iface' = IF child.program \in {"ifs", "readtapi"} THEN "stub" ELSE iface
    /\ UNCHANGED <<env, pc, status, ran>>

\* External: the program reports failure or is killed; its output stays as it is.
ChildFails ==
    /\ child.state = "running"
    /\ \/ \E c \in FailureCodes :
              child' = Ended("exited", c)
       \/ \E s \in Signals :
              child' = Ended("killed", s)
    /\ UNCHANGED <<env, pc, status, Files, ran>>

-----------------------------------------------------------------------------
(* The wrapper after the fork. *)

\* waitpid returns EINTR: the loop calls it again.
WaitInterrupted ==
    /\ pc = "wait"
    /\ child.state \notin Terminated
    /\ UNCHANGED vars

\* The status run_process returns for the terminated child.
WaitStatus ==
    IF env.sigchldIgnored THEN 127
    ELSE IF child.state = "exited" THEN child.code ELSE 128 + child.code

\* Where main or generate_interface_library goes on after a program succeeded.
AfterLink == IF env.dsymPath THEN "dsym" ELSE "afterDsym"
AfterDsym == IF env.stripDebug THEN "strip" ELSE "afterDsym"

Resume(program) ==
    CASE program = "clang++" -> AfterLink
      [] program = "dsymutil" -> AfterDsym
      [] program = "strip" -> "afterDsym"
      [] program = "nm" -> "scan"
      [] program \in {"ifs", "readtapi"} -> "exited"

\* waitpid returns; every caller returns a status other than 0 at once.
Wait ==
    /\ pc = "wait"
    /\ child.state \in Terminated
    /\ status' = WaitStatus
    /\ pc' = IF WaitStatus # 0 THEN "exited" ELSE Resume(child.program)
    /\ ran' = [ran EXCEPT ![Len(ran)] = [program |-> child.program, status |-> WaitStatus]]
    /\ child' = NoChild
    /\ UNCHANGED <<env, Files>>

\* main: LLVM_GENERATE_INTERFACE_LIBRARY is not "yes": return 0.
NoInterface ==
    /\ pc = "afterDsym"
    /\ ~env.interface
    /\ Exit(0)
    /\ UNCHANGED <<env, child, Files, ran>>

\* main: the three variables are required before anything is generated.
WantInterface ==
    /\ pc = "afterDsym"
    /\ env.interface
    /\ pc' = "interface"
    /\ UNCHANGED <<env, child, status, Files, ran>>

\* generate_interface_library: dispatch on the format.
Dispatch ==
    /\ pc = "interface"
    /\ Needs.interface \subseteq env.vars
    /\ pc' = CASE env.format = "elf" -> "nm"
               [] env.format = "tbd" -> "readtapi"
               [] OTHER -> "exited"
    /\ status' = IF env.format \in {"elf", "tbd"} THEN status ELSE 1
    /\ UNCHANGED <<env, child, Files, ran>>

\* has_versioned_symbols: look for '@' in llvm-nm's output.
Scan ==
    /\ pc = "scan"
    /\ pc' = IF env.versioned THEN "copy" ELSE "ifs"
    /\ UNCHANGED <<env, child, status, Files, ran>>

\* has_versioned_symbols: fseek or fgets fails.
ScanFails ==
    /\ pc = "scan"
    /\ Exit(1)
    /\ UNCHANGED <<env, child, Files, ran>>

\* copy_file: both files are open, the destination truncated.
CopyOpen ==
    /\ pc = "copy"
    /\ pc' = "copying"
    /\ iface' = "partial"
    /\ UNCHANGED <<env, child, status, linkOut, dsym, ran>>

\* copy_file: one of the two fopen calls fails.
CopyOpenFails ==
    /\ pc = "copy"
    /\ Exit(1)
    /\ UNCHANGED <<env, child, Files, ran>>

\* copy_file: every chunk written, both files closed.
CopySucceeds ==
    /\ pc = "copying"
    /\ iface' = "copy"
    /\ Exit(0)
    /\ UNCHANGED <<env, child, linkOut, dsym, ran>>

\* copy_file: a read, a write or a close fails.  The destination is removed,
\* but what remove() returns is not looked at: when it fails, whatever was
\* written, all of it or not, is left over.
CopyFails ==
    /\ pc = "copying"
    /\ iface' \in {"absent", "leftover"}
    /\ Exit(1)
    /\ UNCHANGED <<env, child, linkOut, dsym, ran>>

\* The process has ended.
Done == pc = "exited" /\ UNCHANGED vars

Wrapper == \/ MissingEnv \/ Fork \/ ForkFails \/ Wait \/ NoInterface
           \/ WantInterface \/ Dispatch \/ Scan \/ ScanFails \/ CopyOpen
           \/ CopyOpenFails \/ CopySucceeds \/ CopyFails

Child == ChildExecFails \/ ChildStarts \/ ChildSucceeds \/ ChildFails

Next == Wrapper \/ Child \/ WaitInterrupted \/ Done

\* The wrapper runs until it exits, and the programs it runs terminate.
Fairness == WF_vars(Wrapper) /\ WF_vars(Child)

Spec == Init /\ [][Next]_vars /\ Fairness

-----------------------------------------------------------------------------
(* Properties. *)

TypeOK ==
    /\ env \in Environments
    /\ pc \in RunPoints \cup {"wait", "afterDsym", "interface", "scan", "copy",
                              "copying", "exited"}
    /\ child \in [program : Programs \cup {"none"},
                  state : {"none", "forked", "running"} \cup Terminated,
                  code : 0..255]
    /\ status \in 0..255
    /\ linkOut \in {"absent", "partial", "debug", "stripped"}
    /\ dsym \in {"absent", "partial", "empty", "debug"}
    /\ iface \in {"absent", "partial", "leftover", "copy", "stub"}
    /\ ran \in Seq([program : Programs, status : 0..255])

\* The interface library the format calls for: a library whose symbols carry
\* versions is copied, because a stub would lose them (the interface_libraries
\* test compares the bytes); any other is reduced to a stub.
ExpectedInterface ==
    IF env.format = "elf" /\ env.versioned THEN "copy" ELSE "stub"

\* Exit status 0 is only ever reported when everything the environment asked
\* for exists and is complete: the linked file, stripped if so requested, a
\* dSYM that holds the debug information, and the right interface library.
SuccessIsComplete ==
    pc = "exited" /\ status = 0 =>
        /\ linkOut = (IF env.stripDebug THEN "stripped" ELSE "debug")
        /\ env.dsymPath => dsym = "debug"
        /\ env.interface => iface = ExpectedInterface

\* The wrapper never ends while a program it forked may still be writing its
\* outputs, interrupted system calls included: the build would consume them.
NoOrphan == pc = "exited" => child = NoChild

\* The first program that fails is the last one started, and its status (128
\* plus the signal if it was killed) is the wrapper's own.
FirstFailureReported ==
    \A i \in DOMAIN ran :
        ran[i].status # 0 => i = Len(ran) /\ pc = "exited" /\ status = ran[i].status

\* However copy_file ends, a library that is not whole outlives the wrapper only
\* if remove() itself failed, and then the wrapper reports failure: no consumer
\* is ever handed a truncated copy together with status 0.
NoHalfCopy ==
    pc = "exited" /\ env.format = "elf" /\ env.versioned =>
        \/ iface \in {"absent", "copy"}
        \/ iface = "leftover" /\ status # 0

\* Debug information is removed from the linked file only once the dSYM has it.
DebugInfoNeverLost ==
    [][linkOut = "debug" /\ linkOut' # "debug" => dsym = "debug"]_vars

\* The wrapper ends, provided the programs it runs do.
Terminates == <>(pc = "exited")

==============================================================================
