---------------------------- MODULE VfsGenerator ----------------------------
(***************************************************************************)
(* case_insensitive_vfs at two levels: one call of its function            *)
(* ci_collect_preferred_entries, iteration by iteration (PreferredEntries, *)
(* which this module extends), or the whole program, in which such a call  *)
(* is one step.  The other level rests at its initial state.               *)
(***************************************************************************)
EXTENDS PreferredEntries

CONSTANTS Arguments, Generic, PathOrder, MaxArgs, MaxDepth, MaxNodes

ASSUME VfsAssumption ==
  /\ {"-root", "-output"} \subseteq Arguments
  /\ DOMAIN Generic = Arguments
  /\ \A a \in Arguments : PathOrder[Generic[a]] \in Nat
  /\ \A a, b \in Arguments :
       PathOrder[Generic[a]] = PathOrder[Generic[b]] => Generic[a] = Generic[b]
  /\ {MaxArgs, MaxDepth, MaxNodes} \subseteq Nat

VARIABLES
  level,   \* "call" or "program"
  argv, roots, output, at, next, tree, frames, overlay, file, exit

program == <<argv, roots, output, at, next, tree, frames, overlay, file, exit>>

Program == INSTANCE CaseInsensitiveVfs WITH pc <- at

GeneratorInit ==
  /\ level \in {"call", "program"}
  /\ Init /\ (level = "program" => dir = {})
  /\ Program!Init /\ (level = "call" => argv = <<>>)

CallStep == level = "call" /\ Next /\ UNCHANGED <<level, program>>

ProgramStep == level = "program" /\ Program!Next /\ UNCHANGED <<level, vars>>

GeneratorNext == CallStep \/ ProgramStep

GeneratorSpec == GeneratorInit /\ [][GeneratorNext]_<<level, vars, program>>

-----------------------------------------------------------------------------
(* Properties of the program; those of a call are MemorySafe and Selects.   *)

\* The overlay is well-formed JSON at every moment of the recursion.
WellFormed == Program!WellFormed

\* The output file is the complete overlay, or untouched.
OutputIsComplete == Program!OutputIsComplete
=============================================================================
