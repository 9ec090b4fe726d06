---------------------------- MODULE CaseFolding ----------------------------
(***************************************************************************)
(* Names of directory entries, how they fold to lower case, and which of   *)
(* the entries that fold alike stands for the others.  A name is opaque;   *)
(* Fold is tolower() over its bytes and Order is strcmp().                 *)
(***************************************************************************)
EXTENDS Naturals

CONSTANTS
  Names,   \* names of directory entries
  Fold,    \* ci_fold_case
  Order    \* the rank of a name under strcmp

ASSUME FoldAssumption ==
  /\ Fold \in [Names -> Names]
  /\ \A n \in Names : Fold[Fold[n]] = Fold[n]
  /\ Order \in [Names -> Nat]
  /\ \A m, n \in Names : Order[m] = Order[n] => m = n

\* compare_entries: by folded name, then by name.
Before(m, n) ==
  \/ Order[Fold[m]] < Order[Fold[n]]
  \/ Fold[m] = Fold[n] /\ Order[m] < Order[n]

\* Two entries fold alike and neither they nor any other is the folded name.
Ambiguous(S) ==
  \E m, n \in S : m # n /\ Fold[m] = Fold[n] /\ Fold[n] \notin S

\* What a case-insensitive view of the directory shows: the lower-case entry
\* where there is one.
Preferred(S) == {n \in S : Fold[n] = n \/ Fold[n] \notin S}
=============================================================================
