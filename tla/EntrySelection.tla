--------------------------- MODULE EntrySelection ---------------------------
(***************************************************************************)
(* What ci_collect_preferred_entries promises to its callers: one answer,  *)
(* which is the preferred entries of the directory, in the one order that  *)
(* does not depend on readdir, or a failure, and never the entries of an   *)
(* ambiguous directory.                                                    *)
(***************************************************************************)
EXTENDS CaseFolding, FiniteSets

CONSTANTS Pending, Failed

VARIABLES
  dir,     \* the names in the directory
  result   \* Pending, Failed or the sequence of entries returned

Init == dir \in SUBSET Names /\ result = Pending

Select ==
  /\ result = Pending
  /\ ~Ambiguous(dir)
  /\ \E entries \in [1..Cardinality(Preferred(dir)) -> Preferred(dir)] :
       /\ \A i, j \in DOMAIN entries : i < j => Before(entries[i], entries[j])
       /\ result' = entries
  /\ UNCHANGED dir

Refuse == result = Pending /\ result' = Failed /\ UNCHANGED dir

Next == Select \/ Refuse

Spec == Init /\ [][Next]_<<dir, result>>
=============================================================================
