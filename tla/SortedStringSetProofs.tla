------------------------ MODULE SortedStringSetProofs ------------------------
(***************************************************************************)
(* The three loops over a sorted string set are correct for every set of   *)
(* strings, every initial capacity and every sequence of calls.            *)
(***************************************************************************)
EXTENDS SortedStringSet, TLAPS

Idx == 0..(count - 1)

\* Loop invariant of string_set_insert: everything before position is smaller.
InsertInv == pc = "insert" =>
    /\ arg \in Strings
    /\ \A i \in Idx : i < position => values[i] < arg
    /\ before = Elements

\* Loop invariant of string_set_contains: whatever lies outside low .. high-1
\* is too small or too large.
ContainsInv == pc = "contains" =>
    /\ arg \in Strings
    /\ \A i \in Idx : i < low => values[i] < arg
    /\ \A i \in Idx : i >= high => values[i] > arg

\* Loop invariant of remove_imported_symbols: what has been passed is kept, and
\* what is gone is imported.
RemoveInv == pc = "remove" =>
    /\ \A i \in Idx : i < position => values[i] \notin drop
    /\ Elements \subseteq before
    /\ before \ drop \subseteq Elements

IInv == /\ TypeOK /\ StrictlySorted /\ InBounds
        /\ InsertInv /\ ContainsInv /\ RemoveInv /\ ContainsIsMembership

-----------------------------------------------------------------------------
LEMMA InitIInv == Init => IInv
<1> SUFFICES ASSUME Init PROVE IInv
  OBVIOUS
<1> USE DEF Init
<1>1. values \in [0..(count - 1) -> Strings]
  <2>1. 0..(count - 1) = {} /\ DOMAIN values = {}
    OBVIOUS
  <2> QED
    BY <2>1
<1>2. TypeOK
  <2>1. result \in BOOLEAN
    BY Zenon
  <2> QED
    BY <1>1, <2>1, Zenon, SMT DEF TypeOK
<1>3. StrictlySorted /\ InBounds
  BY DEF StrictlySorted, InBounds
<1>4. InsertInv /\ ContainsInv /\ RemoveInv /\ ContainsIsMembership
  BY DEF InsertInv, ContainsInv, RemoveInv, ContainsIsMembership
<1> QED
  BY <1>2, <1>3, <1>4 DEF IInv

\* The probe of the bisection lies inside the interval.
LEMMA MiddleBetween ==
    ASSUME low \in Nat, high \in Nat, low < high
    PROVE  Middle \in Nat /\ low <= Middle /\ Middle < high
BY DEF Middle

\* Storing v at p, everything before being smaller and the rest larger, keeps
\* the array sorted and adds exactly v.
LEMMA OpenSlotCorrect ==
    ASSUME TypeOK, StrictlySorted, InBounds, pc = "insert", arg \in Strings,
           \A i \in Idx : i < position => values[i] < arg,
           position < count => values[position] > arg,
           InsertNew
    PROVE  /\ values' \in [0..count -> Strings]
           /\ \A i, j \in 0..count : i < j => values'[i] < values'[j]
           /\ Elements' = Elements \cup {arg}
<1>0. position \in 0..count
  BY DEF TypeOK, InBounds
<1>1. count \in Nat /\ count' = count + 1 /\ values' = OpenSlot(position, arg)
  BY DEF TypeOK, InsertNew
<1>2. values' \in [0..count -> Strings]
  BY <1>0, <1>1 DEF TypeOK, OpenSlot
<1>3. \A i \in Idx : i >= position => values[i] > arg
  <2> SUFFICES ASSUME NEW i \in Idx, i >= position PROVE values[i] > arg
    OBVIOUS
  <2>1. position \in Idx /\ values[position] > arg
    BY <1>0, <1>1 DEF Idx
  <2>2. values[position] \in Int /\ values[i] \in Int /\ arg \in Int
    BY <2>1, StringsAssumption DEF TypeOK, Idx
  <2>3. i = position \/ values[position] < values[i]
    BY <1>0, <2>1 DEF StrictlySorted, Idx
  <2> QED
    BY <2>1, <2>2, <2>3
<1>4. ASSUME NEW i \in 0..count, NEW j \in 0..count, i < j
      PROVE values'[i] < values'[j]
  <2>1. \A k \in Idx : values[k] \in Int
    BY <1>1, StringsAssumption DEF TypeOK, Idx
  <2>2. CASE j < position
    BY <1>0, <1>1, <1>4, <2>2 DEF OpenSlot, StrictlySorted, Idx
  <2>3. CASE j = position
    BY <1>0, <1>1, <1>4, <2>3 DEF OpenSlot, Idx
  <2>4. CASE j > position /\ i < position
    <3>1. j - 1 \in Idx /\ i \in Idx /\ i < j - 1
      BY <1>0, <1>1, <1>4, <2>4 DEF Idx
    <3>2. values[i] < values[j - 1]
      BY <3>1, <1>1 DEF StrictlySorted, Idx
    <3> QED
      BY <1>0, <1>1, <1>4, <2>4, <3>1, <3>2 DEF OpenSlot
  <2>5. CASE j > position /\ i = position
    <3>1. j - 1 \in Idx /\ j - 1 >= position
      BY <1>0, <1>1, <1>4, <2>5 DEF Idx
    <3>2. values[j - 1] > arg /\ values[j - 1] \in Int /\ arg \in Int
      BY <3>1, <1>3, <2>1, StringsAssumption
    <3> QED
      BY <1>0, <1>1, <1>4, <2>5, <3>1, <3>2 DEF OpenSlot
  <2>6. CASE j > position /\ i > position
    <3>1. j - 1 \in Idx /\ i - 1 \in Idx /\ i - 1 < j - 1
      BY <1>0, <1>1, <1>4, <2>6 DEF Idx
    <3>2. values[i - 1] < values[j - 1]
      BY <3>1, <1>1 DEF StrictlySorted, Idx
    <3> QED
      BY <1>0, <1>1, <1>4, <2>6, <3>1, <3>2 DEF OpenSlot
  <2> QED
    BY <1>0, <1>1, <1>4, <2>2, <2>3, <2>4, <2>5, <2>6
<1>5. Elements' = Elements \cup {arg}
  <2>1. Elements' = {values'[i] : i \in 0..count}
    BY <1>1 DEF Elements
  <2>2. ASSUME NEW i \in 0..count PROVE values'[i] \in Elements \cup {arg}
    BY <1>0, <1>1, <2>2 DEF OpenSlot, Elements
  <2>3. arg = values'[position]
    BY <1>0, <1>1 DEF OpenSlot
  <2>4. ASSUME NEW i \in Idx PROVE \E j \in 0..count : values'[j] = values[i]
    <3>1. CASE i < position
      BY <1>0, <1>1, <2>4, <3>1 DEF OpenSlot, Idx
    <3>2. CASE i >= position
      <4>1. i + 1 \in 0..count /\ values'[i + 1] = values[i]
        BY <1>0, <1>1, <2>4, <3>2 DEF OpenSlot, Idx
      <4> QED
        BY <4>1
    <3> QED
      BY <1>0, <1>1, <2>4, <3>1, <3>2 DEF Idx
  <2> QED
    BY <1>0, <2>1, <2>2, <2>3, <2>4 DEF Elements, Idx
<1> QED
  BY <1>2, <1>4, <1>5

\* Shifting the tail over position p removes exactly the entry there.
LEMMA RemoveEntryCorrect ==
    ASSUME TypeOK, StrictlySorted, RemoveEntry
    PROVE  /\ values' \in [0..(count' - 1) -> Strings]
           /\ \A i, j \in 0..(count' - 1) : i < j => values'[i] < values'[j]
           /\ \A i \in 0..(count' - 1) : i < position => values'[i] = values[i]
           /\ Elements' = Elements \ {values[position]}
<1> DEFINE old(i) == IF i < position THEN i ELSE i + 1
<1>1. /\ count \in Nat /\ position \in Nat /\ position < count
      /\ count' = count - 1 /\ count' \in Nat
      /\ values \in [Idx -> Strings]
      /\ values' = [i \in 0..(count - 2) |->
                      IF i < position THEN values[i] ELSE values[i + 1]]
  BY DEF TypeOK, RemoveEntry, Idx
<1>2. \A i \in 0..(count' - 1) : old(i) \in Idx /\ values'[i] = values[old(i)]
  BY <1>1 DEF Idx
<1>3. \A i, j \in 0..(count' - 1) : i < j => old(i) < old(j)
  BY <1>1
<1>4. \A i, j \in 0..(count' - 1) : i < j => values'[i] < values'[j]
  BY <1>1, <1>2, <1>3 DEF StrictlySorted, Idx
<1>5. values' \in [0..(count' - 1) -> Strings]
  BY <1>1, <1>2
<1>6. \A i \in Idx : i # position => \E j \in 0..(count' - 1) : values'[j] = values[i]
  <2> SUFFICES ASSUME NEW i \in Idx, i # position
               PROVE  \E j \in 0..(count' - 1) : values'[j] = values[i]
    OBVIOUS
  <2>1. CASE i < position
    <3>1. i \in 0..(count' - 1) /\ old(i) = i
      BY <1>1, <2>1 DEF Idx
    <3> QED
      BY <1>2, <3>1
  <2>2. CASE i > position
    <3>1. i - 1 \in 0..(count' - 1) /\ old(i - 1) = i
      BY <1>1, <2>2 DEF Idx
    <3> QED
      BY <1>2, <3>1
  <2> QED
    BY <1>1, <2>1, <2>2 DEF Idx
<1>7. \A i \in 0..(count' - 1) : values'[i] # values[position]
  <2> SUFFICES ASSUME NEW i \in 0..(count' - 1) PROVE values'[i] # values[position]
    OBVIOUS
  <2>1. old(i) \in Idx /\ position \in Idx /\ old(i) # position
    BY <1>1 DEF Idx
  <2>2. values[old(i)] \in Int /\ values[position] \in Int
    BY <1>1, <2>1, StringsAssumption
  <2>3. values[old(i)] < values[position] \/ values[position] < values[old(i)]
    BY <1>1, <2>1 DEF StrictlySorted, Idx
  <2> QED
    BY <1>2, <2>2, <2>3
<1>8. Elements' = Elements \ {values[position]}
  <2>1. Elements' = {values'[i] : i \in 0..(count' - 1)}
    BY DEF Elements
  <2>2. Elements = {values[i] : i \in Idx}
    BY DEF Elements, Idx
  <2> HIDE DEF old
  <2> QED
    BY <1>2, <1>6, <1>7, <2>1, <2>2
<1> QED
  BY <1>1, <1>2, <1>4, <1>5, <1>8

-----------------------------------------------------------------------------
(* Steps that leave the array alone. *)

LEMMA ReturnResult == Return => result' \in BOOLEAN
BY Zenon DEF Return

LEMMA ElementsType == TypeOK => Elements \subseteq Strings
BY DEF TypeOK, Elements

LEMMA UnchangedArray ==
    ASSUME IInv, UNCHANGED <<values, count>>
    PROVE  StrictlySorted' /\ Elements' = Elements /\ Idx' = Idx
BY DEF IInv, StrictlySorted, Elements, Idx

\* A call enters its loop with the loop invariant established.
LEMMA CallStep == ASSUME IInv, Call PROVE IInv'
<1> USE DEF IInv, TypeOK, InBounds, InsertInv, ContainsInv, RemoveInv,
            ContainsIsMembership, Idx
<1>1. ASSUME NEW v \in Strings, InsertCall(v) PROVE IInv'
  <2>1. UNCHANGED <<values, count>> /\ before' = Elements
    BY <1>1 DEF InsertCall
  <2> QED
    BY <1>1, <2>1, UnchangedArray, ElementsType, StringsAssumption DEF InsertCall
<1>2. ASSUME NEW v \in Strings, ContainsCall(v) PROVE IInv'
  <2>1. UNCHANGED <<values, count>> /\ before' = Elements
    BY <1>2 DEF ContainsCall
  <2>2. TypeOK' /\ InBounds'
    BY <1>2, <2>1, ElementsType, StringsAssumption DEF ContainsCall
  <2>3. ContainsInv'
    BY <1>2, <2>1, StringsAssumption DEF ContainsCall
  <2> QED
    BY <1>2, <2>1, <2>2, <2>3, UnchangedArray DEF ContainsCall
<1>3. ASSUME NEW imports \in SUBSET Strings, RemoveCall(imports) PROVE IInv'
  <2>1. UNCHANGED <<values, count>> /\ before' = Elements
    BY <1>3 DEF RemoveCall
  <2>2. TypeOK' /\ InBounds'
    BY <1>3, <2>1, ElementsType DEF RemoveCall
  <2>3. RemoveInv'
    BY <1>3, <2>1, UnchangedArray DEF RemoveCall
  <2> QED
    BY <1>3, <2>1, <2>2, <2>3, UnchangedArray DEF RemoveCall
<1> QED
  BY <1>1, <1>2, <1>3 DEF Call

\* Returning from a call that did not touch the array any more.
LEMMA ReturnStep ==
    ASSUME IInv, Return, UNCHANGED <<values, count, capacity>> PROVE IInv'
<1>1. StrictlySorted'
  BY UnchangedArray
<1>2. (InsertInv /\ ContainsInv /\ RemoveInv /\ ContainsIsMembership)'
  BY DEF Return, InsertInv, ContainsInv, RemoveInv, ContainsIsMembership
<1>3. InBounds'
  BY DEF IInv, InBounds, Return
<1>4. TypeOK'
  BY ReturnResult DEF IInv, TypeOK, Return
<1> QED
  BY <1>1, <1>2, <1>3, <1>4 DEF IInv

LEMMA InsertStep ==
    ASSUME IInv, InsertAdvance \/ InsertPresent \/ InsertNew PROVE IInv'
<1>1. CASE InsertAdvance
  <2>1. UNCHANGED <<values, count>> /\ position' = position + 1
    BY <1>1 DEF InsertAdvance
  <2>2. InsertInv'
    BY <1>1, <2>1, UnchangedArray DEF InsertAdvance, IInv, TypeOK, InsertInv, Idx
  <2> QED
    BY <1>1, <2>1, <2>2, UnchangedArray
    DEF InsertAdvance, IInv, TypeOK, InBounds, ContainsInv, RemoveInv,
        ContainsIsMembership
<1>2. CASE InsertPresent
  BY <1>2, ReturnStep DEF InsertPresent
<1>3. CASE InsertNew
  <2>1. /\ values' \in [0..count -> Strings]
        /\ \A i, j \in 0..count : i < j => values'[i] < values'[j]
    BY <1>3, OpenSlotCorrect DEF IInv, InsertInv, InsertNew
  <2>2. count \in Nat /\ count' = count + 1 /\ 0..(count' - 1) = 0..count
    BY <1>3 DEF InsertNew, IInv, TypeOK
  <2>3. capacity' \in Nat /\ count' <= capacity'
    BY <1>3, <2>2, CapacityAssumption DEF InsertNew, IInv, TypeOK, InBounds, Grow
  <2>4. StrictlySorted'
    BY <2>1, <2>2 DEF StrictlySorted
  <2>5. (InsertInv /\ ContainsInv /\ RemoveInv /\ ContainsIsMembership)'
    BY <1>3 DEF InsertNew, Return, InsertInv, ContainsInv, RemoveInv, ContainsIsMembership
  <2>6. InBounds'
    BY <1>3, <2>3 DEF InsertNew, Return, InBounds
  <2>7. TypeOK'
    BY <1>3, <2>1, <2>2, <2>3, ReturnResult DEF InsertNew, Return, TypeOK
  <2> QED
    BY <2>4, <2>5, <2>6, <2>7 DEF IInv
<1> QED
  BY <1>1, <1>2, <1>3

\* An entry at or below the probe is no larger, one at or above no smaller.
LEMMA ProbeSplits ==
    ASSUME IInv, pc = "contains", low < high
    PROVE  /\ Middle \in Idx /\ values[Middle] \in Int /\ arg \in Int
           /\ values[Middle] < arg => \A i \in Idx : i <= Middle => values[i] < arg
           /\ values[Middle] > arg => \A i \in Idx : i >= Middle => values[i] > arg
<1>1. Middle \in Idx /\ count \in Nat
  BY MiddleBetween DEF IInv, TypeOK, InBounds, Idx
<1>2. \A i \in Idx : values[i] \in Int
  BY <1>1, StringsAssumption DEF IInv, TypeOK, Idx
<1>3. arg \in Int
  BY StringsAssumption DEF IInv, ContainsInv
<1>4. \A i \in Idx : i < Middle => values[i] < values[Middle]
  BY <1>1 DEF IInv, StrictlySorted, Idx
<1>5. \A i \in Idx : i > Middle => values[Middle] < values[i]
  BY <1>1 DEF IInv, StrictlySorted, Idx
<1>6. \A i \in Idx : i \in Int /\ Middle \in Int
  BY <1>1 DEF Idx
<1> HIDE DEF Idx, Middle
<1> QED
  BY <1>1, <1>2, <1>3, <1>4, <1>5, <1>6

LEMMA ContainsStep ==
    ASSUME IInv, SearchRight \/ SearchLeft \/ Found \/ NotFound \/ ContainsReturn
    PROVE  IInv'
<1>1. CASE SearchRight
  <2>1. /\ UNCHANGED <<values, count, capacity, pc, arg, drop, position, high, result, before>>
        /\ low' = Middle + 1 /\ low < high /\ pc = "contains" /\ values[Middle] < arg
    BY <1>1 DEF SearchRight
  <2>2. low' \in Nat /\ low' <= high /\ Middle \in Nat
    BY <2>1, MiddleBetween DEF IInv, TypeOK
  <2>3. \A i \in Idx : i < low' => values[i] < arg
    BY <2>1, <2>2, ProbeSplits DEF Idx
  <2> QED
    BY <2>1, <2>2, <2>3, UnchangedArray
    DEF IInv, TypeOK, InBounds, InsertInv, ContainsInv, RemoveInv, ContainsIsMembership
<1>2. CASE SearchLeft
  <2>1. /\ UNCHANGED <<values, count, capacity, pc, arg, drop, position, low, result, before>>
        /\ high' = Middle /\ low < high /\ pc = "contains" /\ values[Middle] > arg
    BY <1>2 DEF SearchLeft
  <2>2. high' \in Nat /\ low <= high' /\ high' <= count
    BY <2>1, MiddleBetween DEF IInv, TypeOK, InBounds
  <2>3. \A i \in Idx : i >= high' => values[i] > arg
    BY <2>1, ProbeSplits
  <2> QED
    BY <2>1, <2>2, <2>3, UnchangedArray
    DEF IInv, TypeOK, InBounds, InsertInv, ContainsInv, RemoveInv, ContainsIsMembership
<1>3. CASE Found
  <2>1. arg \in Elements
    BY <1>3, ProbeSplits DEF Found, Elements, Idx
  <2> QED
    BY <1>3, <2>1, UnchangedArray
    DEF Found, IInv, TypeOK, InBounds, InsertInv, ContainsInv, RemoveInv, ContainsIsMembership
<1>4. CASE NotFound
  <2>1. arg \notin Elements
    <3> SUFFICES ASSUME NEW i \in Idx PROVE values[i] # arg
      BY DEF Elements, Idx
    <3>1. values[i] \in Int /\ arg \in Int
      BY <1>4, StringsAssumption DEF NotFound, IInv, TypeOK, ContainsInv, Idx
    <3>2. i < low \/ i >= high
      BY <1>4 DEF NotFound, IInv, TypeOK, Idx
    <3>3. values[i] < arg \/ values[i] > arg
      BY <1>4, <3>2 DEF NotFound, IInv, ContainsInv
    <3> QED
      BY <3>1, <3>3
  <2> QED
    BY <1>4, <2>1, UnchangedArray
    DEF NotFound, IInv, TypeOK, InBounds, InsertInv, ContainsInv, RemoveInv, ContainsIsMembership
<1>5. CASE ContainsReturn
  BY <1>5, ReturnStep DEF ContainsReturn
<1> QED
  BY <1>1, <1>2, <1>3, <1>4, <1>5

LEMMA RemoveStep ==
    ASSUME IInv, RemoveEntry \/ RemoveKeeps \/ RemoveReturn PROVE IInv'
<1>1. CASE RemoveEntry
  <2>1. /\ UNCHANGED <<capacity, pc, arg, drop, position, low, high, result, before>>
        /\ count' = count - 1 /\ position < count /\ values[position] \in drop
        /\ pc = "remove" /\ count \in Nat /\ position \in Nat
    BY <1>1 DEF RemoveEntry, IInv, TypeOK
  <2>2. /\ values' \in [0..(count' - 1) -> Strings]
        /\ \A i, j \in 0..(count' - 1) : i < j => values'[i] < values'[j]
        /\ \A i \in 0..(count' - 1) : i < position => values'[i] = values[i]
        /\ Elements' = Elements \ {values[position]}
    BY <1>1, RemoveEntryCorrect DEF IInv
  <2>3. count' \in Nat /\ position <= count' /\ count' <= capacity /\ capacity \in Nat
    BY <2>1 DEF IInv, InBounds, TypeOK
  <2>4. TypeOK' /\ StrictlySorted' /\ InBounds'
    BY <2>1, <2>2, <2>3 DEF IInv, TypeOK, StrictlySorted, InBounds
  <2>5. RemoveInv'
    <3>1. \A i \in 0..(count' - 1) : i < position => values'[i] \notin drop
      BY <2>1, <2>2 DEF IInv, RemoveInv, Idx
    <3>2. Elements' \subseteq before /\ before \ drop \subseteq Elements'
      BY <2>1, <2>2 DEF IInv, RemoveInv
    <3> QED
      BY <2>1, <3>1, <3>2 DEF RemoveInv, Idx
  <2> QED
    BY <2>1, <2>4, <2>5 DEF IInv, InsertInv, ContainsInv, ContainsIsMembership
<1>2. CASE RemoveKeeps
  <2>1. UNCHANGED <<values, count, drop, before>> /\ position' = position + 1
        /\ values[position] \notin drop /\ position < count
    BY <1>2 DEF RemoveKeeps
  <2>2. RemoveInv'
    BY <1>2, <2>1, UnchangedArray DEF RemoveKeeps, IInv, TypeOK, RemoveInv, Idx
  <2> QED
    BY <1>2, <2>1, <2>2, UnchangedArray
    DEF RemoveKeeps, IInv, TypeOK, InBounds, InsertInv, ContainsInv,
        ContainsIsMembership
<1>3. CASE RemoveReturn
  BY <1>3, ReturnStep DEF RemoveReturn
<1> QED
  BY <1>1, <1>2, <1>3

LEMMA Stutter == ASSUME IInv, UNCHANGED vars PROVE IInv'
BY UnchangedArray DEF vars, IInv, TypeOK, InBounds, InsertInv, ContainsInv,
   RemoveInv, ContainsIsMembership

-----------------------------------------------------------------------------
THEOREM Invariance == Spec => []IInv
<1>1. IInv /\ [Next]_vars => IInv'
  BY CallStep, InsertStep, ContainsStep, RemoveStep, Stutter DEF Next, Loop
<1> QED
  BY InitIInv, <1>1, PTL DEF Spec

\* The array and every local of the three loops keep their types.
THEOREM TypeCorrect == Spec => []TypeOK
BY Invariance, PTL DEF IInv

\* The array is strictly increasing in every state.
THEOREM Sortedness == Spec => []StrictlySorted
BY Invariance, PTL DEF IInv

\* No loop leaves the array, and the array fits its allocation.
THEOREM MemorySafety == Spec => []InBounds
BY Invariance, PTL DEF IInv

\* The bisection decides membership.
THEOREM Membership == Spec => []ContainsIsMembership
BY Invariance, PTL DEF IInv

\* string_set_insert adds its argument and nothing else.
THEOREM Insertion == Spec => InsertAdds
<1>1. ASSUME IInv, [Next]_vars, pc = "insert", pc' = "idle"
      PROVE  Elements' = before \cup {arg}
  <2>1. CASE InsertPresent
    <3>1. arg \in Elements
      BY <1>1, <2>1 DEF InsertPresent, IInv, TypeOK, Elements
    <3> QED
      BY <1>1, <2>1, <3>1, UnchangedArray DEF InsertPresent, IInv, InsertInv
  <2>2. CASE InsertNew
    BY <1>1, <2>2, OpenSlotCorrect DEF IInv, InsertInv, InsertNew
  <2> QED
    BY <1>1, <2>1, <2>2 DEF Next, Call, Loop, InsertCall, ContainsCall, RemoveCall,
       InsertAdvance, SearchRight, SearchLeft, Found, NotFound, ContainsReturn,
       RemoveEntry, RemoveKeeps, RemoveReturn, vars
<1>2. IInv /\ [Next]_vars =>
         [(pc = "insert" /\ pc' = "idle") => Elements' = before \cup {arg}]_vars
  BY <1>1
<1> QED
  BY Invariance, <1>2, PTL DEF Spec, InsertAdds

\* remove_imported_symbols computes the set difference.
THEOREM Removal == Spec => RemoveIsDifference
<1>1. ASSUME IInv, [Next]_vars, pc = "remove", pc' = "idle"
      PROVE  Elements' = before \ drop
  <2>1. RemoveReturn
    BY <1>1 DEF Next, Call, Loop, InsertCall, ContainsCall, RemoveCall,
       InsertAdvance, InsertPresent, InsertNew, SearchRight, SearchLeft, Found,
       NotFound, ContainsReturn, RemoveEntry, RemoveKeeps, vars
  <2>2. Elements' = Elements
    BY <1>1, <2>1, UnchangedArray DEF RemoveReturn
  <2>3. \A i \in Idx : values[i] \notin drop
    BY <1>1, <2>1 DEF RemoveReturn, IInv, RemoveInv, TypeOK, Idx
  <2>4. Elements \cap drop = {}
    BY <2>3 DEF Elements, Idx
  <2> QED
    BY <1>1, <2>2, <2>4 DEF IInv, RemoveInv
<1>2. IInv /\ [Next]_vars =>
         [(pc = "remove" /\ pc' = "idle") => Elements' = before \ drop]_vars
  BY <1>1
<1> QED
  BY Invariance, <1>2, PTL DEF Spec, RemoveIsDifference
==============================================================================
