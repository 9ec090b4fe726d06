----------------------------- MODULE MCDefShared -----------------------------
(* Three generators in one directory, with two process ids among them. *)
EXTENDS DefFileGenerator, TLC

Obj(id) == [kind |-> "obj", id |-> id, funcs |-> {}, data |-> {},
            lines |-> <<[sym |-> Plain(id), type |-> "T"]>>]

MCInputs == [args : {<<Obj("a")>>, <<Obj("b")>>}, abi : {"gnu"}, nm : BOOLEAN]
\* Processes and process ids are interchangeable: only their identity matters.
Symmetry == Permutations(Generators) \cup Permutations(Pids)
==============================================================================
