-------------------------- MODULE PreferredEntries --------------------------
(***************************************************************************)
(* ci_collect_preferred_entries: read a directory into a growing array,    *)
(* sort it, refuse ambiguous spellings, and collapse every run of entries  *)
(* that fold alike to one of them, in place.  An entry owns its strings,   *)
(* which are freed when the entry is dropped and by ci_free_entries.       *)
(***************************************************************************)
EXTENDS CaseFolding, Sequences, FiniteSets, Functions

CONSTANTS
  Dots,              \* "." and "..", which every directory lists
  InitialCapacity,   \* of the array (64)
  Pending, Failed    \* answers that are no set of names

ASSUME EntriesAssumption ==
  /\ InitialCapacity \in Nat \ {0}
  /\ Dots \cap Names = {}
  /\ IsFiniteSet(Names)

VARIABLES
  dir,        \* the names in the directory
  unread,     \* directory entries readdir() has not returned
  pc,
  values,     \* the array, with what is left beyond count
  count,
  capacity,
  read,       \* also "start" of validate_sorted_entries
  write,
  frees,      \* how often the strings of each name were freed
  ok          \* the return value

vars == <<dir, unread, pc, values, count, capacity, read, write, frees, ok>>

Init ==
  /\ dir \in SUBSET Names
  /\ unread = dir \cup Dots
  /\ pc = "open"
  /\ values = <<>> /\ count = 0 /\ capacity = 0
  /\ read = 1 /\ write = 1
  /\ frees = [n \in Names |-> 0]
  /\ ok = FALSE

-----------------------------------------------------------------------------

\* ci_free_entries.
FreeEntries ==
  /\ frees' = [n \in Names |->
                 frees[n] + Cardinality({i \in 1..count : values[i] = n})]
  /\ values' = <<>>
  /\ count' = 0

Return(result) == pc' = "done" /\ ok' = result

\* opendir() fails.
OpenFails ==
  /\ pc = "open"
  /\ Return(FALSE)
  /\ UNCHANGED <<dir, unread, values, count, capacity, read, write, frees>>

Open ==
  /\ pc = "open"
  /\ pc' = "read"
  /\ UNCHANGED <<dir, unread, values, count, capacity, read, write, frees, ok>>

ReadDot ==
  /\ pc = "read"
  /\ \E n \in unread \cap Dots : unread' = unread \ {n}
  /\ UNCHANGED <<dir, pc, values, count, capacity, read, write, frees, ok>>

\* The capacity for one more entry.
Grown ==
  IF count # capacity THEN capacity
  ELSE IF capacity = 0 THEN InitialCapacity ELSE 2 * capacity

\* readdir() returns a name, in any order; append_entry.
AppendEntry ==
  /\ pc = "read"
  /\ capacity' = Grown
  /\ \E n \in unread \cap Names :
       unread' = unread \ {n} /\ values' = Append(values, n)
  /\ count' = count + 1
  /\ UNCHANGED <<dir, pc, read, write, frees, ok>>

\* readdir() fails.
ReadFails ==
  /\ pc = "read"
  /\ FreeEntries
  /\ Return(FALSE)
  /\ UNCHANGED <<dir, unread, capacity, read, write>>

\* A directory with one entry or none is returned as it is.
ReturnFew ==
  /\ pc = "read" /\ unread = {}
  /\ count <= 1
  /\ Return(TRUE)
  /\ UNCHANGED <<dir, unread, values, count, capacity, read, write, frees>>

\* qsort with compare_entries.
Sort ==
  /\ pc = "read" /\ unread = {}
  /\ count > 1
  /\ \E v \in [1..count -> Range(values)] :
       /\ Range(v) = Range(values)
       /\ \A i, j \in 1..count : i < j => Before(v[i], v[j])
       /\ values' = v
  /\ pc' = "validate"
  /\ UNCHANGED <<dir, unread, count, capacity, read, write, frees, ok>>

-----------------------------------------------------------------------------

\* The end of the run of entries that fold like the one at i.
GroupEnd(i) ==
  CHOOSE e \in (i + 1)..(count + 1) :
    /\ \A k \in i..(e - 1) : Fold[values[k]] = Fold[values[i]]
    /\ e <= count => Fold[values[e]] # Fold[values[i]]

Lower(i) == Fold[values[i]] = values[i]

\* A run of two or more without its lower-case spelling.
BadGroup ==
  /\ GroupEnd(read) - read > 1
  /\ \A i \in read..(GroupEnd(read) - 1) : ~Lower(i)

ValidateGroup ==
  /\ pc = "validate" /\ read <= count
  /\ ~BadGroup
  /\ read' = GroupEnd(read)
  /\ UNCHANGED <<dir, unread, pc, values, count, capacity, write, frees, ok>>

RefuseGroup ==
  /\ pc = "validate" /\ read <= count
  /\ BadGroup
  /\ FreeEntries
  /\ Return(FALSE)
  /\ UNCHANGED <<dir, unread, capacity, read, write>>

StartCollapse ==
  /\ pc = "validate" /\ read > count
  /\ pc' = "collapse"
  /\ read' = 1 /\ write' = 1
  /\ UNCHANGED <<dir, unread, values, count, capacity, frees, ok>>

\* Mutant: the first entry of a run is selected.
SelectedFirst == read

\* The first lower-case entry of the run, or its first entry.
Selected ==
  LET group == read..(GroupEnd(read) - 1)
      lower == {i \in group : Lower(i)}
  IN  IF lower = {} THEN read
      ELSE CHOOSE i \in lower : \A k \in lower : i <= k

\* Mutant: the selected entry's strings are freed too.
CollapseGroupFreesAll ==
  /\ pc = "collapse" /\ read <= count
  /\ frees' = [n \in Names |->
        frees[n] + Cardinality({i \in read..(GroupEnd(read) - 1) : values[i] = n})]
  /\ values' = [values EXCEPT ![write] = values[Selected]]
  /\ write' = write + 1
  /\ read' = GroupEnd(read)
  /\ UNCHANGED <<dir, unread, pc, count, capacity, ok>>

CollapseGroup ==
  /\ pc = "collapse" /\ read <= count
  /\ frees' = [n \in Names |->
        frees[n] + Cardinality({i \in read..(GroupEnd(read) - 1) :
                                  i # Selected /\ values[i] = n})]
  /\ values' = [values EXCEPT ![write] = values[Selected]]
  /\ write' = write + 1
  /\ read' = GroupEnd(read)
  /\ UNCHANGED <<dir, unread, pc, count, capacity, ok>>

EndCollapse ==
  /\ pc = "collapse" /\ read > count
  /\ count' = write - 1
  /\ Return(TRUE)
  /\ UNCHANGED <<dir, unread, values, capacity, read, write, frees>>

Done == pc = "done" /\ UNCHANGED vars

Next ==
  \/ OpenFails \/ Open \/ ReadDot \/ AppendEntry \/ ReadFails \/ ReturnFew
  \/ Sort \/ ValidateGroup \/ RefuseGroup \/ StartCollapse \/ CollapseGroup
  \/ EndCollapse \/ Done

Spec == Init /\ [][Next]_vars

-----------------------------------------------------------------------------
(* Properties.                                                              *)

\* append_entry never writes past the array, across its growth.
InArray == count <= capacity

\* The in-place collapse never overwrites, and never frees, an entry of a run
\* it has yet to read.
UnreadIntact ==
  pc = "collapse" =>
    /\ \A i \in read..count : frees[values[i]] = 0
    /\ \A i \in 1..(write - 1), j \in read..count : Fold[values[i]] # Fold[values[j]]

\* Every string allocated by append_entry is freed exactly once or still owned
\* by exactly one returned entry, on every path out of the function.
OwnedOnce ==
  pc = "done" =>
    \A n \in Names :
      frees[n] + Cardinality({i \in 1..count : values[i] = n})
        = IF n \in dir \ unread THEN 1 ELSE 0

\* The array and the strings of the entries are never misused while they are
\* read, compacted in place and freed one by one.
MemorySafe == InArray /\ UnreadIntact /\ OwnedOnce

\* The answer seen by the caller.
Result ==
  IF pc # "done" THEN Pending
  ELSE IF ~ok THEN Failed ELSE SubSeq(values, 1, count)

Selection == INSTANCE EntrySelection WITH result <- Result

\* Whatever the order of readdir, the caller gets the preferred entries of the
\* directory in the same order, or a failure; an ambiguous directory always
\* fails.
Selects == Selection!Spec

=============================================================================
