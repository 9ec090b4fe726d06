---------------------- MODULE MCStaticLibraryValidator ----------------------
(* Libraries of three members and two symbols: all linkages for one symbol, *)
(* the first or the last in the order, beside strong and weak definitions   *)
(* of the other.                                                            *)
EXTENDS StaticLibraryValidator, TLC

Names == {"f", "g"}
ByteOrder == "f" :> 1 @@ "g" :> 2

MCLibraries ==
  {[o \in Objects |-> (varied :> l[o]) @@ [s \in Names |-> r[o]]] :
     varied \in Names, l \in [Objects -> Linkages],
     r \in [Objects -> {"absent", "strong", "weak function"}]}

\* The members are interchangeable.
Members == Permutations(Objects)
=============================================================================
