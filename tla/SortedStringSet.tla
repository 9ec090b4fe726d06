--------------------------- MODULE SortedStringSet ---------------------------
(***************************************************************************)
(* struct string_list used as a set (tools/def_file_generator): a growing  *)
(* array kept in strcmp order without duplicates.  string_set_insert walks *)
(* it linearly, string_set_contains bisects it, and the loop of            *)
(* remove_imported_symbols deletes from it while walking over it.  Every   *)
(* iteration of the three loops is a step.                                 *)
(*                                                                         *)
(* Strings are represented by their ranks in strcmp's order.  Arrays are   *)
(* functions on 0 .. count-1, as in C.                                     *)
(***************************************************************************)
EXTENDS Integers

CONSTANTS
    Strings,          \* the strings that may be stored
    InitialCapacity   \* slots allocated first: 32

ASSUME StringsAssumption == Strings \subseteq Int
ASSUME CapacityAssumption == InitialCapacity \in Nat \ {0}

VARIABLES
    values,    \* the array
    count,     \* entries in use
    capacity,  \* slots allocated
    pc,        \* "idle" or the loop that is running
    arg,       \* value passed to insert or contains
    drop,      \* import_pointers, during remove_imported_symbols
    position,  \* insert: position; remove_imported_symbols: index
    low, high, \* contains: the interval still to be searched
    result,    \* contains: the value returned
    before     \* history: the contents when the call was made

vars == <<values, count, capacity, pc, arg, drop, position, low, high, result,
          before>>

Elements == {values[i] : i \in 0..(count - 1)}

Init ==
    /\ values = [i \in 0..-1 |-> 0] /\ count = 0 /\ capacity = 0
    /\ pc = "idle" /\ arg = 0 /\ drop = {}
    /\ position = 0 /\ low = 0 /\ high = 0 /\ result = FALSE
    /\ before = {}

\* Returning to the caller: the locals of the call are gone.
Return ==
    /\ pc' = "idle"
    /\ arg' = 0 /\ drop' = {} /\ position' = 0 /\ low' = 0 /\ high' = 0
    /\ result' = FALSE /\ before' = {}

-----------------------------------------------------------------------------
(* Mutations: plausible bugs that the properties below are checked to catch. *)

\* memmove moves one entry too few: the last one is not shifted.
OpenSlotShort(p, v) ==
    [i \in 0..count |-> CASE i = p -> v
                         [] i < p \/ i = count - 1 -> values[i]
                         [] OTHER -> values[i - 1]]

\* The array grows one insertion too late.
GrowLate == IF count > capacity THEN 2 * capacity ELSE
            IF capacity = 0 THEN InitialCapacity ELSE capacity

\* The bisection continues from middle instead of middle + 1.
SearchRightStalls ==
    /\ pc = "contains" /\ low < high
    /\ values[low + (high - low) \div 2] < arg
    /\ low' = low + (high - low) \div 2
    /\ UNCHANGED <<values, count, capacity, pc, arg, drop, position, high,
                   result, before>>

\* The walk of remove_imported_symbols ends before the last entry.
RemoveReturnEarly ==
    /\ pc = "remove" /\ position >= count - 1
    /\ Return
    /\ UNCHANGED <<values, count, capacity>>

\* An entry that is greater is taken for an equal one.
InsertPresentLoose ==
    /\ pc = "insert" /\ position < count /\ values[position] >= arg
    /\ Return
    /\ UNCHANGED <<values, count, capacity>>

\* high is taken for the last index instead of one past it.
ContainsCallInclusive(v) ==
    /\ pc = "idle"
    /\ pc' = "contains" /\ arg' = v /\ low' = 0
    /\ high' = IF count = 0 THEN 0 ELSE count - 1
    /\ before' = Elements
    /\ UNCHANGED <<values, count, capacity, drop, position, result>>

-----------------------------------------------------------------------------
(* string_set_insert *)

InsertCall(v) ==
    /\ pc = "idle"
    /\ pc' = "insert" /\ arg' = v /\ position' = 0 /\ before' = Elements
    /\ UNCHANGED <<values, count, capacity, drop, low, high, result>>

InsertAdvance ==
    /\ pc = "insert" /\ position < count /\ values[position] < arg
    /\ position' = position + 1
    /\ UNCHANGED <<values, count, capacity, pc, arg, drop, low, high, result,
                   before>>

\* The value is already there.
InsertPresent ==
    /\ pc = "insert" /\ position < count /\ values[position] = arg
    /\ Return
    /\ UNCHANGED <<values, count, capacity>>

Grow == IF count = capacity
          THEN IF capacity = 0 THEN InitialCapacity ELSE 2 * capacity
          ELSE capacity

\* memmove one slot up from p, then store v at p.
OpenSlot(p, v) == [i \in 0..count |-> IF i < p THEN values[i]
                                      ELSE IF i = p THEN v ELSE values[i - 1]]

InsertNew ==
    /\ pc = "insert" /\ (position < count => values[position] > arg)
    /\ capacity' = Grow
    /\ values' = OpenSlot(position, arg)
    /\ count' = count + 1
    /\ Return

-----------------------------------------------------------------------------
(* string_set_contains *)

ContainsCall(v) ==
    /\ pc = "idle"
    /\ pc' = "contains" /\ arg' = v /\ low' = 0 /\ high' = count
    /\ before' = Elements
    /\ UNCHANGED <<values, count, capacity, drop, position, result>>

Middle == low + (high - low) \div 2

SearchRight ==
    /\ pc = "contains" /\ low < high /\ values[Middle] < arg
    /\ low' = Middle + 1
    /\ UNCHANGED <<values, count, capacity, pc, arg, drop, position, high,
                   result, before>>

SearchLeft ==
    /\ pc = "contains" /\ low < high /\ values[Middle] > arg
    /\ high' = Middle
    /\ UNCHANGED <<values, count, capacity, pc, arg, drop, position, low,
                   result, before>>

Found ==
    /\ pc = "contains" /\ low < high /\ values[Middle] = arg
    /\ result' = TRUE /\ pc' = "contained"
    /\ UNCHANGED <<values, count, capacity, arg, drop, position, low, high, before>>

NotFound ==
    /\ pc = "contains" /\ low >= high
    /\ result' = FALSE /\ pc' = "contained"
    /\ UNCHANGED <<values, count, capacity, arg, drop, position, low, high, before>>

\* The caller takes the result.
ContainsReturn ==
    /\ pc = "contained"
    /\ Return
    /\ UNCHANGED <<values, count, capacity>>

-----------------------------------------------------------------------------
(* remove_imported_symbols, for one of its two lists.  Its test is           *)
(* string_set_contains on import_pointers, whose result is membership        *)
(* (ContainsIsMembership).                                                   *)

RemoveCall(imports) ==
    /\ pc = "idle"
    /\ pc' = "remove" /\ drop' = imports /\ position' = 0 /\ before' = Elements
    /\ UNCHANGED <<values, count, capacity, arg, low, high, result>>

\* string_set_remove_at(position); the index stays.
RemoveEntry ==
    /\ pc = "remove" /\ position < count /\ values[position] \in drop
    /\ values' = [i \in 0..(count - 2) |->
                    IF i < position THEN values[i] ELSE values[i + 1]]
    /\ count' = count - 1
    /\ UNCHANGED <<capacity, pc, arg, drop, position, low, high, result, before>>

RemoveKeeps ==
    /\ pc = "remove" /\ position < count /\ values[position] \notin drop
    /\ position' = position + 1
    /\ UNCHANGED <<values, count, capacity, pc, arg, drop, low, high, result,
                   before>>

RemoveReturn ==
    /\ pc = "remove" /\ position >= count
    /\ Return
    /\ UNCHANGED <<values, count, capacity>>

-----------------------------------------------------------------------------
Loop == \/ InsertAdvance \/ InsertPresent \/ InsertNew
        \/ SearchRight \/ SearchLeft \/ Found \/ NotFound \/ ContainsReturn
        \/ RemoveEntry \/ RemoveKeeps \/ RemoveReturn

Call == \/ \E v \in Strings : InsertCall(v) \/ ContainsCall(v)
        \/ \E imports \in SUBSET Strings : RemoveCall(imports)

Next == Call \/ Loop

\* A loop that has been entered is executed to its end.
Spec == Init /\ [][Next]_vars /\ WF_vars(Loop)

-----------------------------------------------------------------------------
(* Properties. *)

TypeOK ==
    /\ count \in Nat /\ capacity \in Nat
    /\ values \in [0..(count - 1) -> Strings]
    /\ pc \in {"idle", "insert", "contains", "contained", "remove"}
    /\ arg \in Int
    /\ drop \in SUBSET Strings /\ before \in SUBSET Strings
    /\ position \in Nat /\ low \in Nat /\ high \in Nat
    /\ result \in BOOLEAN

\* In every state, inside the loops too, the array is strictly increasing:
\* sorted as bisection needs it, and without duplicates.
StrictlySorted ==
    \A i, j \in 0..(count - 1) : i < j => values[i] < values[j]

\* The array never outgrows its allocation, and no loop reads past the end:
\* every index a loop is about to dereference is below count.
InBounds ==
    /\ count <= capacity
    /\ pc \in {"insert", "remove"} => position <= count
    /\ pc = "contains" => low <= high /\ high <= count

\* string_set_contains answers membership.
ContainsIsMembership == pc = "contained" => (result <=> arg \in Elements)

\* string_set_insert adds its argument and nothing else.
InsertAdds == [][(pc = "insert" /\ pc' = "idle") => Elements' = before \cup {arg}]_vars

\* remove_imported_symbols removes exactly the imported symbols, neighbours in
\* the array included, although it shifts the array it is walking over.
RemoveIsDifference ==
    [][(pc = "remove" /\ pc' = "idle") => Elements' = before \ drop]_vars

\* Every call returns.
CallsReturn == (pc # "idle") ~> (pc = "idle")
==============================================================================
