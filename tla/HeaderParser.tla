---------------------------- MODULE HeaderParser ----------------------------
(***************************************************************************)
(* header_parser, which stands in for the compiler when a header is only   *)
(* to be parsed: it makes the output that Bazel expects, which -fsyntax-   *)
(* only does not write, and becomes clang++.  On Windows it waits instead. *)
(***************************************************************************)
EXTENDS Integers

VARIABLES
  pc,
  env,        \* the variables that are set and not empty
  windows,
  stamp,      \* the output: "absent", or "empty", or "old" from an earlier run
  verdict,    \* what clang++ said: "none", "accepted", "rejected", "killed"
  status      \* the exit status

vars == <<pc, env, windows, stamp, verdict, status>>

Init ==
  /\ pc = "start"
  /\ env \in SUBSET {"PARSE_HEADER", "LLVM_CLANGXX"}
  /\ windows \in BOOLEAN
  /\ stamp \in {"absent", "old"}
  /\ verdict = "none" /\ status = 0

Exit(code) == pc' = "exited" /\ status' = code

NoOutput ==
  /\ pc = "start" /\ "PARSE_HEADER" \notin env
  /\ Exit(2)
  /\ UNCHANGED <<env, windows, stamp, verdict>>

\* fopen(path, "a") creates the file or leaves it as it is.
Touch ==
  /\ pc = "start" /\ "PARSE_HEADER" \in env
  /\ stamp' = IF stamp = "absent" THEN "empty" ELSE stamp
  /\ pc' = "clang"
  /\ UNCHANGED <<env, windows, verdict, status>>

\* fopen fails, or fclose after the file was made.
TouchFails ==
  /\ pc = "start" /\ "PARSE_HEADER" \in env
  /\ stamp' \in {stamp, IF stamp = "absent" THEN "empty" ELSE stamp}
  /\ Exit(2)
  /\ UNCHANGED <<env, windows, verdict>>

NoClang ==
  /\ pc = "clang" /\ "LLVM_CLANGXX" \notin env
  /\ Exit(2)
  /\ UNCHANGED <<env, windows, stamp, verdict>>

\* execv fails, or _spawnv returns -1.
ExecFails ==
  /\ pc = "clang" /\ "LLVM_CLANGXX" \in env
  /\ Exit(2)
  /\ UNCHANGED <<env, windows, stamp, verdict>>

\* With execv the status is clang's own; _spawnv returns it, where -1 looks like
\* a failed start.
StatusOf(code) == IF windows /\ code = -1 THEN 2 ELSE code

\* External: clang++ accepts the header, rejects it or is killed.
Clang ==
  /\ pc = "clang" /\ "LLVM_CLANGXX" \in env
  /\ \/ verdict' = "accepted" /\ Exit(StatusOf(0))
     \/ verdict' = "rejected" /\ Exit(StatusOf(1))
     \/ verdict' = "killed" /\ \E code \in IF windows THEN {-1, 3} ELSE {137} : Exit(StatusOf(code))
  /\ UNCHANGED <<env, windows, stamp>>

Next == NoOutput \/ Touch \/ TouchFails \/ NoClang \/ ExecFails \/ Clang

-----------------------------------------------------------------------------

\* Bazel takes the header for valid exactly when clang++ accepted it, and then
\* finds the output it asked for; an old output proves nothing.
ParsedIsAccepted ==
  pc = "exited" =>
    /\ (status = 0) <=> (verdict = "accepted")
    /\ status = 0 => stamp # "absent"
=============================================================================
