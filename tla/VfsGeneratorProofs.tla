-------------------------- MODULE VfsGeneratorProofs --------------------------
(***************************************************************************)
(* ci_collect_preferred_entries is memory-safe and implements              *)
(* EntrySelection, for every set of names, every way in which they fold    *)
(* and every order in which readdir returns them.  The program writes      *)
(* well-formed JSON with its roots in order, and a file that it leaves     *)
(* behind lists the visible files, for every tree of directories, every    *)
(* command line and every failure.                                         *)
(***************************************************************************)
EXTENDS VfsGenerator, FiniteSetTheorems, WellFoundedInduction, SequenceTheorems, TLAPS

\* The names in a part of an array, and that the part is sorted.
Slice(f, a, b) == {f[i] : i \in a..b}
Ascending(f, a, b) == \A i, j \in a..b : i < j => Before(f[i], f[j])

TypeOK ==
  /\ dir \in SUBSET Names /\ unread \subseteq dir \cup Dots
  /\ values \in Seq(Names) /\ count \in Nat /\ capacity \in Nat
  /\ count <= Len(values) /\ count <= capacity
  /\ read \in Nat \ {0} /\ write \in Nat \ {0}
  /\ frees \in [Names -> Nat]
  /\ pc \in {"open", "read", "validate", "collapse", "done"}
  /\ ok \in BOOLEAN

NothingFreed == \A n \in Names : frees[n] = 0

\* readdir has returned the entries of the array, each of them once.
ReadInv ==
  /\ count = Len(values) /\ NothingFreed /\ read = 1 /\ write = 1
  /\ \A i, j \in 1..count : values[i] = values[j] => i = j
  /\ Slice(values, 1, count) = dir \ unread

\* No run before "read" is ambiguous.
ValidateInv ==
  /\ unread = {} /\ count = Len(values) /\ NothingFreed
  /\ Ascending(values, 1, count) /\ Slice(values, 1, count) = dir
  /\ read <= count + 1
  /\ \A i \in 1..(read - 1), j \in 1..count :
       i # j /\ Fold[values[i]] = Fold[values[j]] => Fold[values[i]] \in dir

\* The array is the preferred entries of the runs that were read, a gap, and the
\* runs that were not; what is in neither was freed.
CollapseInv ==
  LET kept == Slice(values, 1, write - 1)
      rest == Slice(values, read, count)
  IN  /\ unread = {} /\ count = Len(values) /\ ~Ambiguous(dir)
      /\ write <= read /\ read <= count + 1
      /\ Ascending(values, 1, write - 1) /\ Ascending(values, read, count)
      /\ \A m \in kept, n \in rest : Order[Fold[m]] < Order[Fold[n]]
      /\ rest \subseteq dir
      /\ \A m \in dir, n \in rest : Fold[m] = Fold[n] => m \in rest
      /\ kept = Preferred(dir) \ rest
      /\ \A n \in Names : frees[n] = IF n \in dir /\ n \notin kept \cup rest THEN 1 ELSE 0

DoneInv ==
  /\ OwnedOnce
  /\ ok = TRUE => /\ ~Ambiguous(dir) /\ Ascending(values, 1, count)
                  /\ Slice(values, 1, count) = Preferred(dir)

CallInv ==
  /\ TypeOK
  /\ pc \in {"open", "read"} => ReadInv
  /\ pc = "validate" => ValidateInv
  /\ pc = "collapse" => CollapseInv
  /\ pc = "done" => DoneInv

-----------------------------------------------------------------------------
(* Names, runs and counting.                                                *)

\* strcmp and tolower.
LEMMA FoldFacts ==
  /\ \A n \in Names : Fold[n] \in Names /\ Fold[Fold[n]] = Fold[n] /\ Order[n] \in Nat
  /\ \A m, n \in Names : Order[m] = Order[n] => m = n
  /\ \A n \in Names : ~Before(n, n)
  /\ \A m, n \in Names : Before(m, n) => m # n /\ Order[Fold[m]] <= Order[Fold[n]]
  /\ \A m, n \in Names : Before(m, n) /\ Fold[m] # Fold[n] => Order[Fold[m]] < Order[Fold[n]]
  /\ \A m, n \in Names : Order[Fold[m]] < Order[Fold[n]] => Before(m, n) /\ Fold[m] # Fold[n]
<1>1. \A n \in Names : Fold[n] \in Names /\ Fold[Fold[n]] = Fold[n] /\ Order[n] \in Nat
  BY FoldAssumption
<1>2. \A m, n \in Names : Order[m] = Order[n] => m = n
  BY FoldAssumption
<1>3. \A m, n \in Names : Order[m] \in Nat /\ Order[Fold[m]] \in Nat
  BY <1>1
<1>4. \A n \in Names : ~Before(n, n)
  BY <1>3 DEF Before
<1>5. \A m, n \in Names : Before(m, n) => Order[Fold[m]] <= Order[Fold[n]]
  BY <1>3 DEF Before
<1>6. \A m, n \in Names : Before(m, n) /\ Fold[m] # Fold[n] => Order[Fold[m]] < Order[Fold[n]]
  BY DEF Before
<1>7. \A m, n \in Names : Order[Fold[m]] < Order[Fold[n]] => Before(m, n) /\ Fold[m] # Fold[n]
  BY <1>3 DEF Before
<1> QED BY <1>1, <1>2, <1>4, <1>5, <1>6, <1>7

\* How often a name is in a part of an array that has no name twice.
LEMMA CountOnce ==
  ASSUME NEW I, NEW f, NEW n, \A i, j \in I : f[i] = n /\ f[j] = n => i = j
  PROVE  Cardinality({i \in I : f[i] = n}) = IF \E i \in I : f[i] = n THEN 1 ELSE 0
<1>1. CASE \E i \in I : f[i] = n
  <2>1. PICK i \in I : f[i] = n
    BY <1>1
  <2>2. {j \in I : f[j] = n} = {i}
    BY <2>1
  <2> QED BY <1>1, <2>2, FS_Singleton
<1>2. CASE ~\E i \in I : f[i] = n
  <2>1. {j \in I : f[j] = n} = {}
    BY <1>2
  <2> QED BY <1>2, <2>1, FS_EmptySet
<1> QED BY <1>1, <1>2

\* A sorted part has no name twice.
LEMMA AscendingDistinct ==
  ASSUME NEW f, NEW a \in Nat, NEW b \in Nat, \A i \in a..b : f[i] \in Names, Ascending(f, a, b)
  PROVE  \A i, j \in a..b : f[i] = f[j] => i = j
<1> SUFFICES ASSUME NEW i \in a..b, NEW j \in a..b, i < j PROVE f[i] # f[j]
  OBVIOUS
<1> QED BY FoldFacts DEF Ascending

\* A nonempty set of naturals has a least element.
LEMMA LeastNatural ==
  ASSUME NEW S \in SUBSET Nat, S # {}
  PROVE  \E x \in S : \A y \in S : x <= y
<1>1. PICK x \in S : \A y \in S : ~(<<y, x>> \in OpToRel(<, Nat))
  BY NatLessThanWellFounded, WFMin
<1>2. ASSUME NEW y \in S PROVE x <= y
  <2>1. ~(y < x)
    BY <1>1 DEF OpToRel
  <2> QED BY <2>1
<1> QED BY <1>2

\* The run that starts at i: everything that folds like it is in it.
LEMMA Run ==
  ASSUME values \in Seq(Names), count = Len(values), NEW i \in 1..count,
         Ascending(values, i, count)
  PROVE  /\ GroupEnd(i) \in (i + 1)..(count + 1)
         /\ \A k \in i..(GroupEnd(i) - 1) : Fold[values[k]] = Fold[values[i]]
         /\ \A k \in GroupEnd(i)..count : Order[Fold[values[i]]] < Order[Fold[values[k]]]
<1>1. count \in Nat /\ i \in Nat /\ \A k \in 1..count : values[k] \in Names
  OBVIOUS
<1> DEFINE S == {e \in (i + 1)..(count + 1) :
                   e <= count => Fold[values[e]] # Fold[values[i]]}
<1>2. PICK e \in S : \A y \in S : e <= y
  <2>1. count + 1 \in S
    BY <1>1
  <2>2. S \in SUBSET Nat /\ S # {}
    BY <1>1, <2>1
  <2> HIDE DEF S
  <2> QED BY <2>2, LeastNatural
<1>3. ASSUME NEW k \in i..(e - 1) PROVE Fold[values[k]] = Fold[values[i]]
  <2>1. CASE k = i
    BY <2>1
  <2>2. CASE k # i
    <3>1. k \in (i + 1)..(count + 1) /\ k <= count /\ ~(e <= k)
      BY <1>1, <1>2, <2>2
    <3>2. k \notin S
      BY <1>2, <3>1
    <3> QED BY <3>1, <3>2
  <2> QED BY <2>1, <2>2
<1>4. \E x \in (i + 1)..(count + 1) :
        /\ \A k \in i..(x - 1) : Fold[values[k]] = Fold[values[i]]
        /\ x <= count => Fold[values[x]] # Fold[values[i]]
  BY <1>2, <1>3
<1>5. /\ GroupEnd(i) \in (i + 1)..(count + 1)
      /\ \A k \in i..(GroupEnd(i) - 1) : Fold[values[k]] = Fold[values[i]]
      /\ GroupEnd(i) <= count => Fold[values[GroupEnd(i)]] # Fold[values[i]]
  BY <1>4 DEF GroupEnd
<1>6. PICK g : g = GroupEnd(i)
  OBVIOUS
<1>7. ASSUME NEW k \in g..count PROVE Order[Fold[values[i]]] < Order[Fold[values[k]]]
  <2>1. g \in i..count /\ i < g /\ k \in i..count /\ g \in 1..count /\ k \in 1..count
    BY <1>1, <1>5, <1>6
  <2>2. Before(values[i], values[g]) /\ Fold[values[i]] # Fold[values[g]]
    BY <1>1, <1>5, <1>6, <2>1 DEF Ascending
  <2>3. Order[Fold[values[i]]] < Order[Fold[values[g]]]
    BY <1>1, <2>1, <2>2, FoldFacts
  <2>4. CASE k = g
    BY <2>3, <2>4
  <2>5. CASE k # g
    <3>1. Before(values[g], values[k])
      BY <1>1, <2>1, <2>5 DEF Ascending
    <3>2. Order[Fold[values[g]]] <= Order[Fold[values[k]]]
      BY <1>1, <2>1, <3>1, FoldFacts
    <3>3. /\ Order[Fold[values[g]]] \in Nat /\ Order[Fold[values[k]]] \in Nat
          /\ Order[Fold[values[i]]] \in Nat
      BY <1>1, <2>1, FoldFacts
    <3> QED BY <2>3, <3>2, <3>3
  <2> QED BY <2>4, <2>5
<1> QED BY <1>5, <1>6, <1>7

\* How often a name is in an array that has no name twice.
LEMMA CountIn ==
  ASSUME NEW f, NEW k, NEW n, \A i, j \in 1..k : f[i] = f[j] => i = j
  PROVE  Cardinality({i \in 1..k : f[i] = n}) = IF n \in Slice(f, 1, k) THEN 1 ELSE 0
<1>1. \A i, j \in 1..k : f[i] = n /\ f[j] = n => i = j
  OBVIOUS
<1>2. Cardinality({i \in 1..k : f[i] = n}) = IF \E i \in 1..k : f[i] = n THEN 1 ELSE 0
  BY <1>1, CountOnce
<1>3. (\E i \in 1..k : f[i] = n) <=> n \in Slice(f, 1, k)
  BY DEF Slice
<1> QED BY <1>2, <1>3

-----------------------------------------------------------------------------
(* Every step of the call preserves CallInv.                                *)

\* ci_free_entries, before a failure is returned.
LEMMA AllFreed ==
  ASSUME TypeOK, FreeEntries, Return(FALSE), UNCHANGED <<dir, unread, capacity, read, write>>,
         \A n \in Names : frees'[n] = IF n \in dir \ unread THEN 1 ELSE 0
  PROVE  CallInv'
<1>1. values' = <<>> /\ count' = 0 /\ pc' = "done" /\ ok' = FALSE
  BY DEF FreeEntries, Return
<1>2. frees' \in [Names -> Nat]
  <2>1. frees' = [n \in Names |-> frees'[n]]
    BY DEF FreeEntries
  <2>2. \A n \in Names : frees'[n] \in Nat
    OBVIOUS
  <2> QED BY <2>1, <2>2
<1>3. TypeOK'
  <2>1. values' \in Seq(Names) /\ Len(values') = 0
    BY <1>1
  <2>2. (count \in Nat /\ count <= Len(values) /\ count <= capacity /\ capacity \in Nat)'
    BY <1>1, <2>1 DEF TypeOK
  <2>3. (dir \in SUBSET Names /\ unread \subseteq dir \cup Dots)'
    BY DEF TypeOK
  <2>4. (read \in Nat \ {0} /\ write \in Nat \ {0})'
    BY DEF TypeOK
  <2>5. (pc \in {"open", "read", "validate", "collapse", "done"} /\ ok \in BOOLEAN)'
    BY <1>1
  <2> QED BY <1>2, <2>1, <2>2, <2>3, <2>4, <2>5 DEF TypeOK
<1>4. ASSUME NEW n \in Names
      PROVE  frees'[n] + Cardinality({i \in 1..count' : values'[i] = n})
               = IF n \in dir' \ unread' THEN 1 ELSE 0
  <2>1. {i \in 1..count' : values'[i] = n} = {}
    BY <1>1
  <2> QED BY <2>1, FS_EmptySet
<1>5. OwnedOnce'
  BY <1>4 DEF OwnedOnce
<1> QED BY <1>1, <1>3, <1>5 DEF CallInv, DoneInv

\* The call starts with an empty array.
LEMMA InitCall == Init => CallInv
<1> SUFFICES ASSUME Init PROVE CallInv
  OBVIOUS
<1>1. TypeOK
  <2>1. values \in Seq(Names) /\ Len(values) = 0
    BY DEF Init
  <2>2. frees \in [Names -> Nat]
    BY DEF Init
  <2>3. dir \in SUBSET Names /\ unread \subseteq dir \cup Dots
    BY DEF Init
  <2>4. /\ count \in Nat /\ count <= Len(values) /\ count <= capacity /\ capacity \in Nat
        /\ read \in Nat \ {0} /\ write \in Nat \ {0}
    BY <2>1 DEF Init
  <2>5. pc \in {"open", "read", "validate", "collapse", "done"} /\ ok \in BOOLEAN
    BY DEF Init
  <2> QED BY <2>1, <2>2, <2>3, <2>4, <2>5 DEF TypeOK
<1>2. Slice(values, 1, count) = {} /\ dir \ unread = {}
  BY DEF Init, Slice
<1>3. ReadInv
  BY <1>2 DEF Init, ReadInv, NothingFreed
<1> QED BY <1>1, <1>3 DEF CallInv, Init

\* opendir() fails: there is nothing to free.
LEMMA KeepsOpenFails ==
  ASSUME CallInv, OpenFails
  PROVE  CallInv'
<1>1. ReadInv /\ TypeOK
  BY DEF CallInv, OpenFails
<1>2. TypeOK'
  BY <1>1 DEF TypeOK, OpenFails, Return
<1>3. ASSUME NEW n \in Names
      PROVE  frees[n] + Cardinality({i \in 1..count : values[i] = n})
               = IF n \in dir \ unread THEN 1 ELSE 0
  <2>1. Cardinality({i \in 1..count : values[i] = n}) = IF n \in dir \ unread THEN 1 ELSE 0
    BY <1>1, CountIn DEF ReadInv
  <2> QED BY <1>1, <2>1 DEF ReadInv, NothingFreed
<1>4. dir' = dir /\ unread' = unread /\ frees' = frees /\ values' = values /\ count' = count
  BY DEF OpenFails
<1>5. OwnedOnce'
  BY <1>3, <1>4 DEF OwnedOnce
<1> QED BY <1>2, <1>5 DEF CallInv, DoneInv, OpenFails, Return

\* opendir() succeeds.
LEMMA KeepsOpen ==
  ASSUME CallInv, Open
  PROVE  CallInv'
<1>1. ReadInv /\ TypeOK
  BY DEF CallInv, Open
<1>2. TypeOK'
  BY <1>1 DEF TypeOK, Open
<1>3. ReadInv'
  BY <1>1 DEF ReadInv, NothingFreed, Slice, Open
<1> QED BY <1>2, <1>3 DEF CallInv, Open

\* "." and ".." are skipped: they are no names of the directory.
LEMMA KeepsReadDot ==
  ASSUME CallInv, ReadDot
  PROVE  CallInv'
<1>1. ReadInv /\ TypeOK
  BY DEF CallInv, ReadDot
<1>2. PICK n \in unread \cap Dots : unread' = unread \ {n}
  BY DEF ReadDot
<1>3. n \notin dir
  BY <1>1, EntriesAssumption DEF TypeOK
<1>4. TypeOK'
  BY <1>1, <1>2 DEF TypeOK, ReadDot
<1>5. dir' \ unread' = dir \ unread
  BY <1>2, <1>3 DEF ReadDot
<1>6. ReadInv'
  BY <1>1, <1>5 DEF ReadInv, NothingFreed, Slice, ReadDot
<1> QED BY <1>4, <1>6 DEF CallInv, ReadDot

\* append_entry: there is room, and readdir returns no name twice.
LEMMA KeepsAppendEntry ==
  ASSUME CallInv, AppendEntry
  PROVE  CallInv'
<1>1. ReadInv /\ TypeOK
  BY DEF CallInv, AppendEntry
<1>2. PICK n \in unread \cap Names : unread' = unread \ {n} /\ values' = Append(values, n)
  BY DEF AppendEntry
<1>3. n \in dir
  BY <1>1, EntriesAssumption DEF TypeOK
<1>4. count + 1 <= capacity' /\ capacity' \in Nat
  BY <1>1, EntriesAssumption DEF TypeOK, AppendEntry, Grown
<1>5. /\ values \in Seq(Names) /\ count = Len(values) /\ count \in Nat
      /\ values' \in Seq(Names) /\ Len(values') = count + 1 /\ count' = count + 1
      /\ values'[count + 1] = n /\ \A i \in 1..count : values'[i] = values[i]
  BY <1>1, <1>2 DEF TypeOK, ReadInv, AppendEntry
<1>6. TypeOK'
  BY <1>1, <1>2, <1>4, <1>5 DEF TypeOK, AppendEntry
<1>7. ASSUME NEW i \in 1..count PROVE values[i] # n
  <2>1. values[i] \in dir \ unread
    BY <1>1 DEF ReadInv, Slice
  <2> QED BY <2>1
<1>8. \A i, j \in 1..count' : values'[i] = values'[j] => i = j
  <2> SUFFICES ASSUME NEW i \in 1..count', NEW j \in 1..count', values'[i] = values'[j]
               PROVE  i = j
    OBVIOUS
  <2>1. CASE i \in 1..count /\ j \in 1..count
    BY <1>1, <1>5, <2>1 DEF ReadInv
  <2>2. CASE i = count + 1 /\ j \in 1..count
    BY <1>5, <1>7, <2>2
  <2>3. CASE i \in 1..count /\ j = count + 1
    BY <1>5, <1>7, <2>3
  <2> QED BY <1>5, <2>1, <2>2, <2>3
<1>9. Slice(values, 1, count)' = Slice(values, 1, count) \cup {n}
  BY <1>5 DEF Slice
<1>10. Slice(values, 1, count)' = (dir \ unread)'
  BY <1>1, <1>2, <1>3, <1>9 DEF ReadInv, AppendEntry
<1>11. ReadInv'
  BY <1>1, <1>5, <1>8, <1>10 DEF ReadInv, NothingFreed, AppendEntry
<1> QED BY <1>6, <1>11 DEF CallInv, AppendEntry

\* readdir() fails: every entry read is freed once.
LEMMA KeepsReadFails ==
  ASSUME CallInv, ReadFails
  PROVE  CallInv'
<1>1. ReadInv /\ TypeOK
  BY DEF CallInv, ReadFails
<1>2. ASSUME NEW n \in Names
      PROVE  /\ Cardinality({i \in 1..count : values[i] = n})
                  = IF n \in dir \ unread THEN 1 ELSE 0
             /\ frees'[n] = IF n \in dir \ unread THEN 1 ELSE 0
  <2>1. Cardinality({i \in 1..count : values[i] = n}) = IF n \in dir \ unread THEN 1 ELSE 0
    BY <1>1, CountIn DEF ReadInv
  <2>2. frees'[n] = frees[n] + Cardinality({i \in 1..count : values[i] = n})
    BY DEF ReadFails, FreeEntries
  <2>3. frees[n] = 0
    BY <1>1 DEF ReadInv, NothingFreed
  <2> QED BY <2>1, <2>2, <2>3
<1> QED BY <1>1, <1>2, AllFreed DEF ReadFails, CallInv

\* A directory with at most one entry has no two spellings of one name.
LEMMA KeepsReturnFew ==
  ASSUME CallInv, ReturnFew
  PROVE  CallInv'
<1>1. ReadInv /\ TypeOK
  BY DEF CallInv, ReturnFew
<1>2. TypeOK'
  BY <1>1 DEF TypeOK, ReturnFew, Return
<1>3. unread = {} /\ Slice(values, 1, count) = dir /\ count \in {0, 1}
  BY <1>1 DEF ReadInv, TypeOK, ReturnFew
<1>4. \A m, n \in dir : m = n
  BY <1>3 DEF Slice
<1>5. ~Ambiguous(dir)
  BY <1>4 DEF Ambiguous
<1>6. Preferred(dir) = dir
  BY <1>4 DEF Preferred
<1>7. Ascending(values, 1, count)
  BY <1>3 DEF Ascending
<1>8. ASSUME NEW n \in Names
      PROVE  frees[n] + Cardinality({i \in 1..count : values[i] = n})
               = IF n \in dir \ unread THEN 1 ELSE 0
  <2>1. Cardinality({i \in 1..count : values[i] = n}) = IF n \in dir \ unread THEN 1 ELSE 0
    BY <1>1, CountIn DEF ReadInv
  <2> QED BY <1>1, <2>1 DEF ReadInv, NothingFreed
<1>9. dir' = dir /\ unread' = unread /\ frees' = frees /\ values' = values /\ count' = count
  BY DEF ReturnFew
<1>10. OwnedOnce'
  BY <1>8, <1>9 DEF OwnedOnce
<1>11. (~Ambiguous(dir) /\ Ascending(values, 1, count)
          /\ Slice(values, 1, count) = Preferred(dir))'
  BY <1>3, <1>5, <1>6, <1>7, <1>9 DEF Ambiguous, Ascending, Slice, Preferred
<1> QED BY <1>2, <1>10, <1>11 DEF CallInv, DoneInv, ReturnFew, Return

\* qsort: the array holds the same names, in the order of compare_entries.
LEMMA KeepsSort ==
  ASSUME CallInv, Sort
  PROVE  CallInv'
<1>1. ReadInv /\ TypeOK
  BY DEF CallInv, Sort
<1>2. PICK v \in [1..count -> Range(values)] :
        /\ Range(v) = Range(values)
        /\ \A i, j \in 1..count : i < j => Before(v[i], v[j])
        /\ values' = v
  BY DEF Sort
<1>3. values \in Seq(Names) /\ count \in Nat /\ count = Len(values)
  BY <1>1 DEF ReadInv, TypeOK
<1>4. Range(values) = Slice(values, 1, count)
  BY <1>3 DEF Range, Slice
<1>5. Slice(values, 1, count) = dir
  BY <1>1 DEF ReadInv, Sort
<1>6. Range(values) \subseteq Names
  BY <1>1, <1>4, <1>5 DEF TypeOK
<1>7. v \in Seq(Names) /\ Len(v) = count
  BY <1>2, <1>3, <1>6
<1>8. TypeOK'
  BY <1>1, <1>2, <1>3, <1>7 DEF TypeOK, Sort
<1>9. Slice(v, 1, count) = dir
  BY <1>2, <1>4, <1>5 DEF Range, Slice
<1>10. Ascending(v, 1, count)
  BY <1>2 DEF Ascending
<1>11. ValidateInv'
  <2>1. values' = v /\ count' = count /\ dir' = dir /\ unread' = {} /\ read' = 1
        /\ frees' = frees
    BY <1>1, <1>2 DEF Sort, ReadInv
  <2>2. Slice(values, 1, count)' = dir' /\ Ascending(values, 1, count)'
    BY <1>9, <1>10, <2>1 DEF Slice, Ascending
  <2> QED BY <1>1, <1>3, <1>7, <2>1, <2>2 DEF ValidateInv, ReadInv, NothingFreed
<1> QED BY <1>8, <1>11 DEF CallInv, Sort

\* A run with its lower-case spelling, or of one entry, is not ambiguous.
LEMMA KeepsValidateGroup ==
  ASSUME CallInv, ValidateGroup
  PROVE  CallInv'
<1>1. ValidateInv /\ TypeOK
  BY DEF CallInv, ValidateGroup
<1>2. PICK g : g = GroupEnd(read)
  OBVIOUS
<1>3. /\ values \in Seq(Names) /\ count \in Nat /\ count = Len(values) /\ read \in 1..count
      /\ \A i \in 1..count : values[i] \in Names
  BY <1>1 DEF ValidateInv, TypeOK, ValidateGroup
<1>4. Ascending(values, read, count)
  BY <1>1, <1>3 DEF ValidateInv, Ascending
<1>5. /\ g \in (read + 1)..(count + 1)
      /\ \A k \in read..(g - 1) : Fold[values[k]] = Fold[values[read]]
      /\ \A k \in g..count : Order[Fold[values[read]]] < Order[Fold[values[k]]]
  BY <1>2, <1>3, <1>4, Run
<1>6. ASSUME NEW i \in 1..(g - 1), NEW j \in 1..count, i # j, Fold[values[i]] = Fold[values[j]]
      PROVE  Fold[values[i]] \in dir
  <2>1. CASE i < read
    BY <1>1, <1>3, <1>5, <1>6, <2>1 DEF ValidateInv
  <2>2. CASE i >= read /\ j < read
    <3>1. i \in 1..count /\ j \in 1..(read - 1)
      BY <1>3, <1>5, <2>2
    <3> QED BY <1>1, <1>6, <3>1 DEF ValidateInv
  <2>3. CASE i >= read /\ j >= g
    <3>1. i \in read..(g - 1) /\ j \in g..count /\ i \in 1..count
      BY <1>3, <1>5, <2>3
    <3>2. Fold[values[i]] = Fold[values[read]]
          /\ Order[Fold[values[read]]] < Order[Fold[values[j]]]
      BY <1>5, <3>1
    <3>3. Order[Fold[values[i]]] \in Nat
      BY <1>3, <3>1, FoldFacts
    <3> QED BY <1>6, <3>2, <3>3
  <2>4. CASE i >= read /\ j >= read /\ j < g
    <3>1. i \in read..(g - 1) /\ j \in read..(g - 1) /\ g - read > 1
      BY <1>3, <1>5, <1>6, <2>4
    <3>2. PICK k \in read..(g - 1) : Lower(k)
      BY <1>2, <3>1 DEF ValidateGroup, BadGroup
    <3>3. Fold[values[k]] = values[k] /\ Fold[values[i]] = Fold[values[k]]
      BY <1>5, <3>1, <3>2 DEF Lower
    <3>4. k \in 1..count
      BY <1>3, <1>5, <3>2
    <3>5. values[k] \in dir
      BY <1>1, <3>4 DEF ValidateInv, Slice
    <3> QED BY <3>3, <3>5
  <2> QED BY <1>3, <1>5, <2>1, <2>2, <2>3, <2>4
<1>7. /\ read' = g /\ values' = values /\ count' = count /\ dir' = dir /\ unread' = unread
      /\ frees' = frees
  BY <1>2 DEF ValidateGroup
<1>8. TypeOK'
  BY <1>1, <1>3, <1>5, <1>7 DEF TypeOK, ValidateGroup
<1>9. Ascending(values, 1, count)' /\ Slice(values, 1, count)' = dir'
  BY <1>1, <1>7 DEF ValidateInv, Ascending, Slice
<1>10. ValidateInv'
  BY <1>1, <1>3, <1>5, <1>6, <1>7, <1>9 DEF ValidateInv, NothingFreed
<1> QED BY <1>8, <1>10 DEF CallInv, ValidateGroup

\* An ambiguous run: every entry is freed once.
LEMMA KeepsRefuseGroup ==
  ASSUME CallInv, RefuseGroup
  PROVE  CallInv'
<1>1. ValidateInv /\ TypeOK
  BY DEF CallInv, RefuseGroup
<1>2. \A i \in 1..count : values[i] \in Names
  BY <1>1 DEF ValidateInv, TypeOK
<1>3. count \in Nat /\ Ascending(values, 1, count) /\ Slice(values, 1, count) = dir
  BY <1>1 DEF ValidateInv, TypeOK
<1>4. \A i, j \in 1..count : values[i] = values[j] => i = j
  BY <1>2, <1>3, AscendingDistinct
<1>5. ASSUME NEW n \in Names
      PROVE  frees'[n] = IF n \in dir \ unread THEN 1 ELSE 0
  <2>1. Cardinality({i \in 1..count : values[i] = n}) = IF n \in dir THEN 1 ELSE 0
    BY <1>3, <1>4, CountIn
  <2>2. frees'[n] = frees[n] + Cardinality({i \in 1..count : values[i] = n})
    BY DEF RefuseGroup, FreeEntries
  <2>3. frees[n] = 0 /\ unread = {}
    BY <1>1 DEF ValidateInv, NothingFreed
  <2> QED BY <2>1, <2>2, <2>3
<1> QED BY <1>1, <1>5, AllFreed DEF RefuseGroup

\* Validation has met every pair of names that fold alike.
LEMMA KeepsStartCollapse ==
  ASSUME CallInv, StartCollapse
  PROVE  CallInv'
<1>1. ValidateInv /\ TypeOK
  BY DEF CallInv, StartCollapse
<1>2. /\ values \in Seq(Names) /\ count \in Nat /\ count = Len(values) /\ read = count + 1
      /\ Slice(values, 1, count) = dir /\ dir \in SUBSET Names
  BY <1>1 DEF ValidateInv, TypeOK, StartCollapse
<1>3. ~Ambiguous(dir)
  <2> SUFFICES ASSUME NEW m \in dir, NEW n \in dir, m # n, Fold[m] = Fold[n]
               PROVE  Fold[n] \in dir
    BY DEF Ambiguous
  <2>1. PICK i \in 1..count : values[i] = m
    BY <1>2 DEF Slice
  <2>2. PICK j \in 1..count : values[j] = n
    BY <1>2 DEF Slice
  <2>3. i # j /\ i \in 1..(read - 1) /\ Fold[values[i]] = Fold[values[j]]
    BY <1>2, <2>1, <2>2
  <2> QED BY <1>1, <2>1, <2>2, <2>3 DEF ValidateInv
<1>4. /\ values' = values /\ count' = count /\ dir' = dir /\ unread' = {} /\ frees' = frees
      /\ read' = 1 /\ write' = 1 /\ pc' = "collapse"
  BY <1>1 DEF StartCollapse, ValidateInv
<1>5. TypeOK'
  BY <1>1, <1>4 DEF TypeOK, StartCollapse
<1>6. Slice(values, 1, write - 1)' = {} /\ Slice(values, read, count)' = dir
  BY <1>2, <1>4 DEF Slice
<1>7. Ascending(values, 1, write - 1)' /\ Ascending(values, read, count)'
  BY <1>1, <1>4 DEF Ascending, ValidateInv
<1>8. Preferred(dir)' \ dir = {} /\ ~Ambiguous(dir)'
  BY <1>3, <1>4 DEF Preferred, Ambiguous
<1>9. CollapseInv'
  BY <1>1, <1>2, <1>4, <1>6, <1>7, <1>8 DEF CollapseInv, ValidateInv, NothingFreed
<1> QED BY <1>4, <1>5, <1>9 DEF CallInv

\* The entry selected from a run is the one preferred entry of the run.
LEMMA SelectedIsPreferred ==
  ASSUME TypeOK, CollapseInv, read <= count
  PROVE  /\ Selected \in read..(GroupEnd(read) - 1)
         /\ \A k \in read..(GroupEnd(read) - 1) :
              values[k] \in Preferred(dir) <=> values[k] = values[Selected]
<1>1. PICK g : g = GroupEnd(read)
  OBVIOUS
<1>2. PICK s : s = Selected
  OBVIOUS
<1>3. /\ values \in Seq(Names) /\ count \in Nat /\ count = Len(values) /\ read \in 1..count
      /\ Ascending(values, read, count) /\ ~Ambiguous(dir)
      /\ \A i \in 1..count : values[i] \in Names
  BY DEF CollapseInv, TypeOK
<1>4. /\ g \in (read + 1)..(count + 1)
      /\ \A k \in read..(g - 1) : Fold[values[k]] = Fold[values[read]]
      /\ \A k \in g..count : Order[Fold[values[read]]] < Order[Fold[values[k]]]
  BY <1>1, <1>3, Run
<1>5. read..(g - 1) \subseteq 1..count /\ read..(g - 1) \subseteq read..count
      /\ read..(g - 1) \subseteq Nat /\ read \in read..(g - 1)
  BY <1>3, <1>4
<1>6. \A k \in read..count : values[k] \in dir
  BY DEF CollapseInv, Slice
<1> DEFINE lower == {k \in read..(g - 1) : Lower(k)}
<1>7. CASE lower = {}
  <2>1. s = read
    BY <1>1, <1>2, <1>7 DEF Selected
  <2> DEFINE L == Fold[values[read]]
  <2>2. L \notin dir
    <3> SUFFICES ASSUME L \in dir PROVE FALSE
      OBVIOUS
    <3>1. L \in Names /\ Fold[L] = L
      BY <1>3, FoldFacts
    <3>2. values[read] \in Slice(values, read, count)
      BY <1>3 DEF Slice
    <3>3. L \in Slice(values, read, count)
      BY <3>1, <3>2 DEF CollapseInv
    <3>4. PICK k \in read..count : values[k] = L
      BY <3>3 DEF Slice
    <3>5. CASE k \in g..count
      <4>1. Order[L] < Order[Fold[values[k]]]
        BY <1>4, <3>5
      <4>2. Fold[values[k]] = L /\ Order[L] \in Nat
        BY <3>1, <3>4, FoldFacts
      <4> QED BY <4>1, <4>2
    <3>6. CASE k \in read..(g - 1)
      <4>1. Lower(k)
        BY <3>1, <3>4 DEF Lower
      <4> QED BY <1>7, <3>6, <4>1
    <3> QED BY <1>3, <1>4, <3>4, <3>5, <3>6
  <2>3. ASSUME NEW k \in read..(g - 1)
        PROVE  values[k] \in Preferred(dir) /\ values[k] = values[s]
    <3>1. values[k] \in dir /\ values[read] \in dir /\ Fold[values[k]] = L
      BY <1>4, <1>5, <1>6
    <3>2. values[k] = values[read]
      BY <1>3, <2>2, <3>1 DEF Ambiguous
    <3> QED BY <2>1, <2>2, <3>1, <3>2 DEF Preferred
  <2> QED BY <1>1, <1>2, <1>5, <2>1, <2>3
<1>8. CASE lower # {}
  <2>1. lower \in SUBSET Nat
    BY <1>5
  <2>2. \E x \in lower : \A y \in lower : x <= y
    <3> HIDE DEF lower
    <3> QED BY <1>8, <2>1, LeastNatural
  <2>3. s = CHOOSE x \in lower : \A y \in lower : x <= y
    BY <1>1, <1>2, <1>8 DEF Selected
  <2>4. s \in lower
    <3> HIDE DEF lower
    <3> QED BY <2>2, <2>3
  <2>5. s \in read..(g - 1) /\ Fold[values[s]] = values[s] /\ values[s] \in dir
    BY <1>5, <1>6, <2>4 DEF Lower
  <2>6. ASSUME NEW k \in read..(g - 1)
        PROVE  values[k] \in Preferred(dir) <=> values[k] = values[s]
    <3>1. Fold[values[k]] = values[s] /\ values[k] \in dir
      BY <1>4, <1>5, <1>6, <2>5
    <3> QED BY <2>5, <3>1 DEF Preferred
  <2> QED BY <1>1, <1>2, <2>5, <2>6
<1> QED BY <1>7, <1>8

\* One iteration of the collapse: the run gives way to its preferred entry, whose
\* place the array has already given up, and its other entries are freed once.
LEMMA KeepsCollapseGroup ==
  ASSUME CallInv, CollapseGroup
  PROVE  CallInv'
<1>1. CollapseInv /\ TypeOK /\ read <= count
  BY DEF CallInv, CollapseGroup
<1>2. PICK g : g = GroupEnd(read)
  OBVIOUS
<1>3. PICK s : s = Selected
  OBVIOUS
<1>4. /\ values \in Seq(Names) /\ count \in Nat /\ count = Len(values) /\ read \in 1..count
      /\ write \in 1..read
      /\ Ascending(values, read, count) /\ Ascending(values, 1, write - 1)
      /\ \A i \in 1..count : values[i] \in Names
  BY <1>1 DEF CollapseInv, TypeOK
<1>5. /\ g \in (read + 1)..(count + 1)
      /\ \A k \in read..(g - 1) : Fold[values[k]] = Fold[values[read]]
      /\ \A k \in g..count : Order[Fold[values[read]]] < Order[Fold[values[k]]]
  BY <1>2, <1>4, Run
<1>6. /\ s \in read..(g - 1)
      /\ \A k \in read..(g - 1) : values[k] \in Preferred(dir) <=> values[k] = values[s]
  BY <1>1, <1>2, <1>3, SelectedIsPreferred
<1> DEFINE x == values[s]
           kept == Slice(values, 1, write - 1)
           rest == Slice(values, read, count)
           run == Slice(values, read, g - 1)
           after == Slice(values, g, count)
<1>7. rest = run \cup after /\ run \cap after = {} /\ x \in run /\ rest \subseteq Names
      /\ kept \subseteq Names /\ x \in Names
  <2>1. \A k \in read..count : k \in read..(g - 1) \/ k \in g..count
    BY <1>4, <1>5
  <2>2. read..(g - 1) \subseteq read..count /\ g..count \subseteq read..count
        /\ read..count \subseteq 1..count /\ 1..(write - 1) \subseteq 1..count
    BY <1>4, <1>5
  <2>3. rest = run \cup after
    BY <2>1, <2>2 DEF Slice
  <2>4. ASSUME NEW i \in read..(g - 1), NEW j \in g..count PROVE values[i] # values[j]
    <3>1. Fold[values[i]] = Fold[values[read]]
          /\ Order[Fold[values[read]]] < Order[Fold[values[j]]]
      BY <1>5
    <3>2. Order[Fold[values[j]]] \in Nat
      BY <1>4, <2>2, FoldFacts
    <3> QED BY <3>1, <3>2
  <2>5. run \cap after = {}
    BY <2>4 DEF Slice
  <2>6. rest \subseteq Names /\ kept \subseteq Names
    BY <1>4, <2>2 DEF Slice
  <2>7. x \in run
    BY <1>6 DEF Slice
  <2> QED BY <2>3, <2>5, <2>6, <2>7
<1>8. /\ \A m \in kept, n \in rest : Order[Fold[m]] < Order[Fold[n]]
      /\ rest \subseteq dir /\ dir \subseteq Names
      /\ \A m \in dir, n \in rest : Fold[m] = Fold[n] => m \in rest
      /\ kept = Preferred(dir) \ rest
      /\ \A n \in Names : frees[n] = IF n \in dir /\ n \notin kept \cup rest THEN 1 ELSE 0
  BY <1>1 DEF CollapseInv, TypeOK
<1>9. /\ \A n \in run : Fold[n] = Fold[x]
      /\ \A n \in after : Order[Fold[x]] < Order[Fold[n]] /\ Fold[n] # Fold[x]
  <2>1. \A n \in run : Fold[n] = Fold[values[read]]
    BY <1>5 DEF Slice
  <2>2. \A n \in after : Order[Fold[values[read]]] < Order[Fold[n]]
    BY <1>5 DEF Slice
  <2>3. Order[Fold[x]] \in Nat
    BY <1>7, FoldFacts
  <2> QED BY <1>7, <2>1, <2>2, <2>3
<1>10. Preferred(dir) \cap run = {x}
  <2>1. \A n \in run : n \in Preferred(dir) <=> n = x
    BY <1>6 DEF Slice
  <2> QED BY <1>7, <2>1
<1>11. /\ values' \in Seq(Names) /\ Len(values') = count /\ values'[write] = x
       /\ \A k \in 1..count : k # write => values'[k] = values[k]
       /\ count' = count /\ read' = g /\ write' = write + 1 /\ dir' = dir /\ unread' = unread
       /\ pc' = "collapse"
  <2>1. write \in 1..count /\ x \in Names
    BY <1>4, <1>7
  <2>2. values' = [values EXCEPT ![write] = x]
    BY <1>3 DEF CollapseGroup
  <2> HIDE DEF x
  <2>3. /\ values' \in Seq(Names) /\ Len(values') = count /\ values'[write] = x
        /\ \A k \in 1..count : k # write => values'[k] = values[k]
    BY <1>4, <2>1, <2>2
  <2> QED BY <1>2, <2>3 DEF CollapseGroup
<1>12. kept' = kept \cup {x} /\ Slice(values, read, count)' = after
  <2>1. /\ 1..(write' - 1) = 1..(write - 1) \cup {write}
        /\ \A k \in 1..(write - 1) : k \in 1..count /\ k # write
        /\ \A k \in g..count : k \in 1..count /\ k # write
    BY <1>4, <1>5, <1>11
  <2>2. kept' = {values'[k] : k \in 1..(write - 1) \cup {write}}
    BY <1>11, <2>1 DEF Slice
  <2>3. kept' = kept \cup {x}
    BY <1>11, <2>1, <2>2 DEF Slice
  <2>4. Slice(values, read, count)' = after
    BY <1>11, <2>1 DEF Slice
  <2> QED BY <2>3, <2>4
<1>13. Ascending(values, 1, write - 1)'
  <2> SUFFICES ASSUME NEW i \in 1..write, NEW j \in 1..write, i < j
               PROVE  Before(values'[i], values'[j])
    BY <1>4, <1>11 DEF Ascending
  <2>1. i \in 1..(write - 1) /\ values'[i] = values[i]
    BY <1>4, <1>11
  <2>2. CASE j = write
    <3>1. values[i] \in kept
      BY <2>1 DEF Slice
    <3>2. x \in rest
      BY <1>7
    <3>3. Order[Fold[values[i]]] < Order[Fold[x]]
      BY <1>8, <3>1, <3>2
    <3>4. Before(values[i], x)
      BY <1>7, <3>1, <3>3, FoldFacts
    <3> QED BY <1>11, <2>1, <2>2, <3>4
  <2>3. CASE j # write
    <3>1. j \in 1..(write - 1) /\ values'[j] = values[j]
      BY <1>4, <1>11, <2>3
    <3> QED BY <1>4, <2>1, <3>1 DEF Ascending
  <2> QED BY <2>2, <2>3
<1>14. Ascending(values, read, count)'
  <2>1. \A k \in g..count : k \in read..count /\ values'[k] = values[k]
    BY <1>4, <1>5, <1>11
  <2> QED BY <1>4, <1>11, <2>1 DEF Ascending
<1>15. Preferred(dir)' = Preferred(dir) /\ ~Ambiguous(dir)'
  BY <1>1, <1>11 DEF CollapseInv, Preferred, Ambiguous
<1> HIDE DEF x, kept, rest, run, after
<1>16. kept \cup {x} = Preferred(dir) \ after
  BY <1>7, <1>8, <1>10
<1>17. /\ \A m \in kept \cup {x}, n \in after : Order[Fold[m]] < Order[Fold[n]]
       /\ after \subseteq dir
       /\ \A m \in dir, n \in after : Fold[m] = Fold[n] => m \in after
  BY <1>7, <1>8, <1>9
<1>18. ASSUME NEW n \in Names
       PROVE  frees'[n] = IF n \in dir /\ n \notin kept \cup {x} \cup after THEN 1 ELSE 0
  <2> DEFINE I == (read..(g - 1)) \ {s}
  <2>1. frees'[n] = frees[n] + Cardinality({i \in I : values[i] = n})
    <3>1. frees'[n] = frees[n] + Cardinality({i \in read..(g - 1) : i # s /\ values[i] = n})
      BY <1>2, <1>3 DEF CollapseGroup
    <3>2. {i \in read..(g - 1) : i # s /\ values[i] = n} = {i \in I : values[i] = n}
      OBVIOUS
    <3> QED BY <3>1, <3>2
  <2>2. \A i, j \in read..(g - 1) : values[i] = values[j] => i = j
    <3>1. read..(g - 1) \subseteq read..count /\ read \in Nat
          /\ \A i \in read..count : values[i] \in Names
      BY <1>4, <1>5
    <3>2. \A i, j \in read..count : values[i] = values[j] => i = j
      BY <1>4, <3>1, AscendingDistinct
    <3> QED BY <3>1, <3>2
  <2>3. Cardinality({i \in I : values[i] = n}) = IF \E i \in I : values[i] = n THEN 1 ELSE 0
    <3>1. \A i, j \in I : values[i] = n /\ values[j] = n => i = j
      BY <2>2
    <3> HIDE DEF I
    <3> QED BY <3>1, CountOnce
  <2>4. (\E i \in I : values[i] = n) <=> n \in run /\ n # x
    BY <1>6, <2>2 DEF run, x, Slice
  <2>5. frees[n] = IF n \in dir /\ n \notin kept \cup rest THEN 1 ELSE 0
    BY <1>8
  <2>6. frees'[n] = (IF n \in dir /\ n \notin kept \cup rest THEN 1 ELSE 0)
                      + (IF n \in run /\ n # x THEN 1 ELSE 0)
    BY <2>1, <2>3, <2>4, <2>5
  <2>7. CASE n \in run /\ n # x
    <3>1. n \in dir /\ n \in rest /\ n \notin kept \cup {x} \cup after
      BY <1>7, <1>8, <2>7
    <3> QED BY <2>6, <2>7, <3>1
  <2>8. CASE ~(n \in run /\ n # x)
    <3>1. n \in kept \cup rest <=> n \in kept \cup {x} \cup after
      BY <1>7, <2>8
    <3> QED BY <2>6, <2>8, <3>1
  <2> QED BY <2>7, <2>8
<1>19. TypeOK'
  <2>1. frees' = [n \in Names |-> frees'[n]]
    BY DEF CollapseGroup
  <2>2. \A n \in Names : frees'[n] \in Nat
    BY <1>18
  <2>3. frees' \in [Names -> Nat]
    BY <2>1, <2>2
  <2>4. (read \in Nat \ {0} /\ write \in Nat \ {0} /\ count <= Len(values))'
    BY <1>4, <1>5, <1>11
  <2>5. capacity' = capacity /\ ok' = ok
    BY DEF CollapseGroup
  <2> QED BY <1>1, <1>11, <2>3, <2>4, <2>5 DEF TypeOK
<1>20. CollapseInv'
  <2>1. unread' = {} /\ (count = Len(values) /\ write <= read /\ read <= count + 1)'
    BY <1>1, <1>4, <1>5, <1>11 DEF CollapseInv
  <2>2. Slice(values, 1, write - 1)' = kept \cup {x}
    BY <1>12 DEF kept
  <2>3. \A n \in Names : frees'[n] = IF n \in dir' /\ n \notin (kept \cup {x}) \cup after
                                       THEN 1 ELSE 0
    BY <1>11, <1>18
  <2>4. Slice(values, read, count)' = after /\ dir' = dir
    BY <1>11, <1>12
  <2> QED BY <1>13, <1>14, <1>15, <1>16, <1>17, <2>1, <2>2, <2>3, <2>4 DEF CollapseInv
<1> QED BY <1>11, <1>19, <1>20 DEF CallInv

\* The collapse has read every run: what is kept is what is preferred.
LEMMA KeepsEndCollapse ==
  ASSUME CallInv, EndCollapse
  PROVE  CallInv'
<1>1. CollapseInv /\ TypeOK /\ read > count
  BY DEF CallInv, EndCollapse
<1>2. /\ values \in Seq(Names) /\ count \in Nat /\ count = Len(values) /\ read = count + 1
      /\ write \in 1..read /\ unread = {} /\ ~Ambiguous(dir)
      /\ Ascending(values, 1, write - 1) /\ dir \subseteq Names
  BY <1>1 DEF CollapseInv, TypeOK
<1>3. Slice(values, read, count) = {}
  BY <1>2 DEF Slice
<1> DEFINE kept == Slice(values, 1, write - 1)
<1>4. /\ kept = Preferred(dir)
      /\ \A n \in Names : frees[n] = IF n \in dir /\ n \notin kept THEN 1 ELSE 0
  BY <1>1, <1>3 DEF CollapseInv
<1>5. /\ count' = write - 1 /\ values' = values /\ dir' = dir /\ unread' = unread
      /\ frees' = frees /\ pc' = "done" /\ ok' = TRUE
  BY DEF EndCollapse, Return
<1>6. TypeOK'
  <2>1. (count \in Nat /\ count <= Len(values) /\ count <= capacity)'
    BY <1>1, <1>2, <1>5 DEF TypeOK, EndCollapse
  <2> QED BY <1>1, <1>5, <2>1 DEF TypeOK, EndCollapse
<1>7. ASSUME NEW n \in Names
      PROVE  frees[n] + Cardinality({i \in 1..(write - 1) : values[i] = n})
               = IF n \in dir \ unread THEN 1 ELSE 0
  <2>1. /\ \A i \in 1..(write - 1) : values[i] \in Names
        /\ write - 1 \in Nat
    BY <1>2
  <2>2. \A i, j \in 1..(write - 1) : values[i] = values[j] => i = j
    BY <1>2, <2>1, AscendingDistinct
  <2>3. Cardinality({i \in 1..(write - 1) : values[i] = n}) = IF n \in kept THEN 1 ELSE 0
    BY <2>2, CountIn
  <2>4. kept \subseteq dir
    BY <1>4 DEF Preferred
  <2> HIDE DEF kept
  <2> QED BY <1>2, <1>4, <2>3, <2>4
<1>8. OwnedOnce'
  BY <1>5, <1>7 DEF OwnedOnce
<1>9. (~Ambiguous(dir) /\ Ascending(values, 1, count)
         /\ Slice(values, 1, count) = Preferred(dir))'
  BY <1>2, <1>4, <1>5 DEF Ambiguous, Ascending, Slice, Preferred
<1> QED BY <1>5, <1>6, <1>8, <1>9 DEF CallInv, DoneInv

\* A step that leaves the call alone, as every step of the program does.
LEMMA KeepsStutter ==
  ASSUME CallInv, UNCHANGED vars
  PROVE  CallInv'
<1>1. /\ dir' = dir /\ unread' = unread /\ pc' = pc /\ values' = values /\ count' = count
      /\ capacity' = capacity /\ read' = read /\ write' = write /\ frees' = frees /\ ok' = ok
  BY DEF vars
<1>2. TypeOK' = TypeOK
  BY <1>1 DEF TypeOK
<1>3. ReadInv' = ReadInv
  BY <1>1 DEF ReadInv, NothingFreed, Slice
<1>4. ValidateInv' = ValidateInv
  BY <1>1 DEF ValidateInv, NothingFreed, Slice, Ascending
<1>5. CollapseInv' = CollapseInv
  BY <1>1 DEF CollapseInv, Slice, Ascending, Ambiguous, Preferred
<1>6. DoneInv' = DoneInv
  BY <1>1 DEF DoneInv, OwnedOnce, Slice, Ascending, Ambiguous, Preferred
<1> QED BY <1>1, <1>2, <1>3, <1>4, <1>5, <1>6 DEF CallInv

\* Every step of the call.
LEMMA KeepsNext ==
  ASSUME CallInv, [Next]_vars
  PROVE  CallInv'
<1>1. CASE OpenFails \/ Open \/ ReadDot \/ AppendEntry
  BY <1>1, KeepsOpenFails, KeepsOpen, KeepsReadDot, KeepsAppendEntry
<1>2. CASE ReadFails \/ ReturnFew \/ Sort
  BY <1>2, KeepsReadFails, KeepsReturnFew, KeepsSort
<1>3. CASE ValidateGroup \/ RefuseGroup
  BY <1>3, KeepsValidateGroup, KeepsRefuseGroup
<1>4. CASE StartCollapse \/ CollapseGroup \/ EndCollapse
  BY <1>4, KeepsStartCollapse, KeepsCollapseGroup, KeepsEndCollapse
<1>5. CASE Done \/ UNCHANGED vars
  BY <1>5, KeepsStutter DEF Done
<1> QED BY <1>1, <1>2, <1>3, <1>4, <1>5 DEF Next

\* CallInv is an invariant of the generator.
LEMMA CallInvariant == GeneratorSpec => []CallInv
<1>1. GeneratorInit => CallInv
  BY InitCall DEF GeneratorInit
<1>2. CallInv /\ [GeneratorNext]_<<level, vars, program>> => CallInv'
  <2> SUFFICES ASSUME CallInv, [GeneratorNext]_<<level, vars, program>> PROVE CallInv'
    OBVIOUS
  <2>1. [Next]_vars
    BY DEF GeneratorNext, CallStep, ProgramStep
  <2> QED BY <2>1, KeepsNext
<1> QED BY <1>1, <1>2, PTL DEF GeneratorSpec

-----------------------------------------------------------------------------

\* ci_collect_preferred_entries stays in its array, keeps the runs it has yet to
\* read intact, and frees or returns every string exactly once, on every path.
THEOREM MemorySafety == GeneratorSpec => []MemorySafe
<1>1. CallInv => MemorySafe
  <2> SUFFICES ASSUME CallInv PROVE MemorySafe
    OBVIOUS
  <2>1. InArray
    BY DEF CallInv, TypeOK, InArray
  <2>2. OwnedOnce
    BY DEF CallInv, DoneInv, OwnedOnce
  <2>3. UnreadIntact
    <3> SUFFICES ASSUME CollapseInv, TypeOK
                 PROVE  /\ \A i \in read..count : frees[values[i]] = 0
                        /\ \A i \in 1..(write - 1), j \in read..count :
                             Fold[values[i]] # Fold[values[j]]
      BY DEF CallInv, UnreadIntact
    <3>1. \A i \in 1..count : values[i] \in Names
      BY DEF TypeOK
    <3>2. read \in 1..(count + 1) /\ write \in 1..read /\ count \in Nat
      BY DEF TypeOK, CollapseInv
    <3>3. ASSUME NEW i \in read..count PROVE frees[values[i]] = 0
      <4>1. values[i] \in Slice(values, read, count) /\ values[i] \in Names
        BY <3>1, <3>2 DEF Slice
      <4> QED BY <4>1 DEF CollapseInv
    <3>4. ASSUME NEW i \in 1..(write - 1), NEW j \in read..count
          PROVE  Fold[values[i]] # Fold[values[j]]
      <4>1. values[i] \in Slice(values, 1, write - 1) /\ values[j] \in Slice(values, read, count)
            /\ values[j] \in Names
        BY <3>1, <3>2 DEF Slice
      <4>2. Order[Fold[values[i]]] < Order[Fold[values[j]]] /\ Order[Fold[values[j]]] \in Nat
        BY <4>1, FoldFacts DEF CollapseInv
      <4> QED BY <4>2
    <3> QED BY <3>3, <3>4
  <2> QED BY <2>1, <2>2, <2>3 DEF MemorySafe
<1> QED BY <1>1, CallInvariant, PTL

\* The first k entries of a sorted array of the preferred names are what
\* EntrySelection may select.
LEMMA ReturnsSelection ==
  ASSUME NEW v \in Seq(Names), NEW k \in 0..Len(v), NEW P,
         Ascending(v, 1, k), Slice(v, 1, k) = P
  PROVE  /\ SubSeq(v, 1, k) \in [1..Cardinality(P) -> P]
         /\ \A i, j \in DOMAIN SubSeq(v, 1, k) :
              i < j => Before(SubSeq(v, 1, k)[i], SubSeq(v, 1, k)[j])
<1>1. k \in Nat /\ \A i \in 1..k : v[i] \in Names
  OBVIOUS
<1>2. PICK r : r = SubSeq(v, 1, k)
  OBVIOUS
<1>3. DOMAIN r = 1..k /\ r = [i \in 1..k |-> v[i]]
  BY <1>1, <1>2
<1>4. r \in [1..k -> P]
  BY <1>3 DEF Slice
<1>5. \A i, j \in 1..k : i < j => Before(r[i], r[j])
  BY <1>3 DEF Ascending
<1>6. Cardinality(P) = k
  <2>1. \A i, j \in 1..k : r[i] = r[j] => i = j
    BY <1>1, <1>3, AscendingDistinct
  <2>2. \A n \in P : \E i \in 1..k : r[i] = n
    BY <1>3 DEF Slice
  <2>3. r \in Bijection(1..k, P)
    BY <1>4, <2>1, <2>2 DEF Bijection, Injection, IsInjective, Surjection
  <2>4. ExistsBijection(1..k, P)
    BY <2>3 DEF ExistsBijection
  <2> QED BY <1>1, <2>4, FS_CountingElements
<1> QED BY <1>2, <1>3, <1>4, <1>5, <1>6

\* For every order of readdir, the caller gets the preferred entries of the
\* directory in the one order of compare_entries, or a failure, and a failure
\* whenever the directory is ambiguous: the call implements EntrySelection.
THEOREM Selecting == GeneratorSpec => Selects
<1>1. GeneratorInit => Selection!Init
  BY DEF GeneratorInit, Init, Selection!Init, Result
<1>2. CallInv /\ CallInv' /\ [GeneratorNext]_<<level, vars, program>>
        => [Selection!Next]_<<dir, Result>>
  <2> SUFFICES ASSUME CallInv, CallInv', [GeneratorNext]_<<level, vars, program>>
               PROVE  [Selection!Next]_<<dir, Result>>
    OBVIOUS
  <2>1. [Next]_vars
    BY DEF GeneratorNext, CallStep, ProgramStep
  <2>2. CASE UNCHANGED vars \/ Done
    BY <2>2 DEF vars, Done, Result
  <2>3. CASE Open \/ ReadDot \/ AppendEntry \/ Sort \/ ValidateGroup \/ StartCollapse
               \/ CollapseGroup
    <3>1. pc # "done" /\ pc' # "done" /\ dir' = dir
      BY <2>3 DEF Open, ReadDot, AppendEntry, Sort, ValidateGroup, StartCollapse,
                  CollapseGroup
    <3> QED BY <3>1 DEF Result
  <2>4. CASE OpenFails \/ ReadFails \/ RefuseGroup
    <3>1. pc # "done" /\ pc' = "done" /\ ok' = FALSE /\ dir' = dir
      BY <2>4 DEF OpenFails, ReadFails, RefuseGroup, Return
    <3>2. Result = Pending /\ Result' = Failed
      BY <3>1 DEF Result
    <3> QED BY <3>1, <3>2 DEF Selection!Next, Selection!Refuse
  <2>5. CASE ReturnFew \/ EndCollapse
    <3>1. pc # "done" /\ pc' = "done" /\ ok' = TRUE /\ dir' = dir
      BY <2>5 DEF ReturnFew, EndCollapse, Return
    <3>2. /\ values' \in Seq(Names) /\ count' \in 0..Len(values') /\ ~Ambiguous(dir')
          /\ Ascending(values', 1, count') /\ Slice(values', 1, count') = Preferred(dir')
      BY <3>1 DEF CallInv, TypeOK, DoneInv
    <3>3. PICK r : r = SubSeq(values', 1, count')
      OBVIOUS
    <3>4. /\ r \in [1..Cardinality(Preferred(dir)) -> Preferred(dir)]
          /\ \A i, j \in DOMAIN r : i < j => Before(r[i], r[j])
      BY <3>1, <3>2, <3>3, ReturnsSelection
    <3>5. Result = Pending /\ Result' = r
      BY <3>1, <3>3 DEF Result
    <3>6. Cardinality(Preferred(dir)) = Selection!Cardinality(Selection!Preferred(dir))
      BY DEF Cardinality, Selection!Cardinality, Preferred, Selection!Preferred
    <3>7. Selection!Select
      BY <3>1, <3>2, <3>4, <3>5, <3>6 DEF Selection!Select, Selection!Ambiguous, Selection!Preferred,
         Selection!Before, Ambiguous, Preferred, Before
    <3> QED BY <3>7 DEF Selection!Next
  <2> QED BY <2>1, <2>2, <2>3, <2>4, <2>5 DEF Next
<1> QED BY <1>1, <1>2, CallInvariant, PTL DEF GeneratorSpec, Selects, Selection!Spec

-----------------------------------------------------------------------------
(* What a directory lists.                                                  *)

\* compare_entries is a strict total order.
LEMMA EntryOrder ==
  /\ \A m, n \in Names : m # n => Before(m, n) \/ Before(n, m)
  /\ \A m, n \in Names : ~(Before(m, n) /\ Before(n, m))
  /\ \A l, m, n \in Names : Before(l, m) /\ Before(m, n) => Before(l, n)
<1>1. /\ \A n \in Names : Fold[n] \in Names /\ Order[n] \in Nat /\ Order[Fold[n]] \in Nat
      /\ \A m, n \in Names : Order[m] = Order[n] => m = n
  BY FoldAssumption
<1>2. \A m, n \in Names : Order[Fold[m]] = Order[Fold[n]] => Fold[m] = Fold[n]
  BY <1>1
<1>3. \A m, n \in Names : m # n => Before(m, n) \/ Before(n, m)
  BY <1>1, <1>2 DEF Before
<1>4. ASSUME NEW m \in Names, NEW n \in Names PROVE ~(Before(m, n) /\ Before(n, m))
  <2>1. /\ Order[m] \in Nat /\ Order[n] \in Nat
        /\ Order[Fold[m]] \in Nat /\ Order[Fold[n]] \in Nat
    BY <1>1
  <2> QED BY <2>1 DEF Before
<1>5. ASSUME NEW l \in Names, NEW m \in Names, NEW n \in Names, Before(l, m), Before(m, n)
      PROVE  Before(l, n)
  <2>1. CASE Fold[l] = Fold[m] /\ Fold[m] = Fold[n]
    BY <2>1, <1>1, <1>5 DEF Before
  <2>2. CASE Fold[l] # Fold[m] \/ Fold[m] # Fold[n]
    <3>1. /\ Order[Fold[l]] \in Nat /\ Order[Fold[m]] \in Nat /\ Order[Fold[n]] \in Nat
          /\ Order[Fold[l]] <= Order[Fold[m]] /\ Order[Fold[m]] <= Order[Fold[n]]
          /\ Order[Fold[l]] < Order[Fold[m]] \/ Order[Fold[m]] < Order[Fold[n]]
      BY <2>2, <1>1, <1>5 DEF Before
    <3>2. Order[Fold[l]] < Order[Fold[n]]
      BY <3>1
    <3> QED BY <3>2 DEF Before
  <2> QED BY <2>1, <2>2
<1> QED BY <1>3, <1>4, <1>5

\* A set of names has a sorted enumeration.
LEMMA Enumeration ==
  ASSUME NEW S \in SUBSET Names
  PROVE  /\ IsFiniteSet(S) /\ Cardinality(S) \in Nat
         /\ \E s \in [1..Cardinality(S) -> S] :
              \A i, j \in 1..Cardinality(S) : i < j => Before(s[i], s[j])
<1>1. IsFiniteSet(S) /\ Cardinality(S) \in Nat
  BY EntriesAssumption, FS_Subset, FS_CardinalityType
<1> DEFINE c == Cardinality(S)
           upTo(n) == {m \in S : m = n \/ Before(m, n)}
           pos == [n \in S |-> Cardinality(upTo(n))]
<1>2. ASSUME NEW n \in S PROVE IsFiniteSet(upTo(n)) /\ pos[n] \in 1..c
  <2>1. upTo(n) \in SUBSET S /\ n \in upTo(n)
    OBVIOUS
  <2>2. /\ IsFiniteSet(upTo(n)) /\ Cardinality(upTo(n)) <= c
        /\ Cardinality(upTo(n)) \in Nat
    BY <1>1, <2>1, FS_Subset, FS_CardinalityType
  <2>3. Cardinality(upTo(n)) # 0
    BY <2>1, <2>2, FS_EmptySet
  <2> QED BY <1>1, <2>2, <2>3
<1>3. ASSUME NEW m \in S, NEW n \in S, Before(m, n) PROVE pos[m] < pos[n]
  <2>1. upTo(m) \subseteq upTo(n)
    BY <1>3, EntryOrder
  <2>2. n \notin upTo(m) /\ n \in upTo(n)
    BY <1>3, EntryOrder
  <2>3. /\ Cardinality(upTo(m)) <= Cardinality(upTo(n))
        /\ Cardinality(upTo(n)) = Cardinality(upTo(m)) => upTo(n) = upTo(m)
    BY <1>2, <2>1, FS_Subset
  <2>4. pos[m] \in 1..c /\ pos[n] \in 1..c /\ pos[m] = Cardinality(upTo(m)) /\ pos[n] = Cardinality(upTo(n))
    BY <1>2
  <2> QED BY <2>2, <2>3, <2>4, <1>1
<1> HIDE DEF upTo
<1>4. pos \in [S -> 1..c]
  BY <1>2
<1> HIDE DEF pos
<1>5. \A m, n \in S : pos[m] = pos[n] => m = n
  <2> SUFFICES ASSUME NEW m \in S, NEW n \in S, m # n PROVE pos[m] # pos[n]
    OBVIOUS
  <2>1. pos[m] \in 1..c /\ pos[n] \in 1..c
    BY <1>4
  <2>2. Before(m, n) \/ Before(n, m)
    BY EntryOrder
  <2> QED BY <2>1, <2>2, <1>1, <1>3
<1>6. pos \in Surjection(S, 1..c)
  <2>1. pos \in Injection(S, 1..c)
    BY <1>4, <1>5 DEF Injection, IsInjective
  <2>2. IsFiniteSet(1..c) /\ Cardinality(1..c) = c
    BY <1>1, FS_Interval
  <2> QED BY <1>1, <2>1, <2>2, FS_Injection DEF Bijection
<1>7. \A i \in 1..c : \E n \in S : pos[n] = i
  BY <1>6 DEF Surjection
<1> DEFINE s == [i \in 1..c |-> CHOOSE n \in S : pos[n] = i]
<1>8. \A i \in 1..c : s[i] \in S /\ pos[s[i]] = i
  BY <1>7
<1>9. s \in [1..c -> S]
  BY <1>8
<1> HIDE DEF s
<1>10. ASSUME NEW i \in 1..c, NEW j \in 1..c, i < j PROVE Before(s[i], s[j])
  <2>1. s[i] \in S /\ s[j] \in S /\ pos[s[i]] = i /\ pos[s[j]] = j
    BY <1>8
  <2>2. s[i] # s[j] /\ ~(pos[s[j]] < pos[s[i]])
    BY <2>1, <1>10, <1>1
  <2>3. Before(s[i], s[j]) \/ Before(s[j], s[i])
    BY <2>1, <2>2, EntryOrder
  <2> QED BY <2>1, <2>2, <2>3, <1>3
<1> QED BY <1>1, <1>9, <1>10

\* The entries of a directory are its preferred names, each of them once.
LEMMA Listed ==
  ASSUME NEW S \in SUBSET Names
  PROVE  LET s == Program!Entries(S)
         IN  /\ s \in Seq(Names) /\ Len(s) = Cardinality(Preferred(S)) /\ Len(s) \in Nat
             /\ \A i \in 1..Len(s) : s[i] \in Preferred(S)
             /\ \A i, j \in 1..Len(s) : s[i] = s[j] => i = j
             /\ \A n \in Preferred(S) : \E i \in 1..Len(s) : s[i] = n
<1> DEFINE P == Preferred(S)
           c == Cardinality(P)
           s == Program!Entries(S)
<1>1. P \in SUBSET Names
  BY DEF Preferred
<1>2. Program!Preferred(S) = P /\ \A m, n : Program!Before(m, n) <=> Before(m, n)
  BY DEF Preferred, Program!Preferred, Before, Program!Before
<1>3. \A T : Program!Cardinality(T) = Cardinality(T)
  BY DEF Program!Cardinality, Cardinality
<1>4. s = CHOOSE r \in [1..c -> P] : \A i, j \in 1..c : i < j => Before(r[i], r[j])
  <2> HIDE DEF P
  <2> QED BY <1>2, <1>3 DEF Program!Entries, Program!Ordered
<1> HIDE DEF P, s
<1>5. IsFiniteSet(P) /\ c \in Nat /\ s \in [1..c -> P] /\ \A i, j \in 1..c : i < j => Before(s[i], s[j])
  BY <1>1, <1>4, Enumeration
<1>6. \A i, j \in 1..c : s[i] = s[j] => i = j
  <2> SUFFICES ASSUME NEW i \in 1..c, NEW j \in 1..c, i < j PROVE s[i] # s[j]
    BY <1>5
  <2> QED BY <1>1, <1>5, EntryOrder
<1>7. s \in Surjection(1..c, P)
  <2>1. s \in Injection(1..c, P)
    BY <1>5, <1>6 DEF Injection, IsInjective
  <2>2. IsFiniteSet(1..c) /\ Cardinality(1..c) = c
    BY <1>5, FS_Interval
  <2> QED BY <1>5, <2>1, <2>2, FS_Injection DEF Bijection
<1>8. \A n \in P : \E i \in 1..c : s[i] = n
  BY <1>7 DEF Surjection
<1>9. s \in Seq(Names) /\ Len(s) = c
  BY <1>1, <1>5
<1> QED BY <1>5, <1>6, <1>8, <1>9 DEF P, s

\* A directory lists something unless it is empty.
LEMMA ListsNothing ==
  ASSUME NEW S \in SUBSET Names
  PROVE  Program!Entries(S) = <<>> <=> S = {}
<1> DEFINE s == Program!Entries(S)
<1>1. /\ s \in Seq(Names) /\ Len(s) \in Nat
      /\ \A i \in 1..Len(s) : s[i] \in Preferred(S)
      /\ \A n \in Preferred(S) : \E i \in 1..Len(s) : s[i] = n
  BY Listed
<1> HIDE DEF s
<1>2. S = {} <=> Preferred(S) = {}
  <2> SUFFICES ASSUME NEW n \in S PROVE Preferred(S) # {}
    BY DEF Preferred
  <2>1. CASE Fold[n] \in S
    <3>1. Fold[n] \in Preferred(S)
      BY <2>1, FoldAssumption DEF Preferred
    <3> QED BY <3>1
  <2>2. CASE Fold[n] \notin S
    BY <2>2 DEF Preferred
  <2> QED BY <2>1, <2>2
<1>3. Preferred(S) = {} <=> Len(s) = 0
  <2>1. ASSUME Len(s) # 0 PROVE Preferred(S) # {}
    <3>1. 1 \in 1..Len(s)
      BY <1>1, <2>1
    <3> QED BY <3>1, <1>1
  <2>2. ASSUME NEW n \in Preferred(S) PROVE Len(s) # 0
    BY <1>1
  <2> QED BY <2>1, <2>2
<1>4. Len(s) = 0 <=> s = <<>>
  BY <1>1, EmptySeq
<1> QED BY <1>2, <1>3, <1>4 DEF s

-----------------------------------------------------------------------------
(* The text and the calls of render_directory.                              *)

\* The texts of the tokens.
Opening == "{"
Close == "}"
List == "["
EndList == "]"
Sep == ","

Texts == {Opening, List, "file", Sep, EndList, Close}
PathNames == {Generic[a] : a \in Arguments} \cup Names
Places == Seq(PathNames)
TokenSet == [t : Texts, path : Places]
FrameSet == [path : Places, entries : Seq(Names), index : Nat \ {0}]

LastOf(s) == s[Len(s)]
Marks(o, t) == {i \in 1..Len(o) : o[i].t = t}

\* How many more objects are opened than closed.
Balance(o) == Cardinality(Marks(o, Opening)) - Cardinality(Marks(o, Close))

Follow(o) == \A i \in 1..(Len(o) - 1) : <<o[i].t, o[i + 1].t>> \in Program!Follows

IsRoot(token) == token.t = Opening /\ Len(token.path) = 1

\* The roots in the text are among the first m, and in their order.
RootTokens(o, r, m) ==
  \A i \in 1..Len(o) : IsRoot(o[i]) => \E k \in 1..m : o[i].path[1] = Generic[r[k]]

RootsSorted(o) ==
  \A i, j \in 1..Len(o) :
    i < j /\ IsRoot(o[i]) /\ IsRoot(o[j])
      => PathOrder[o[i].path[1]] <= PathOrder[o[j].path[1]]

\* A text with the first m roots in which d objects are open.
Text(o, d, r, m) ==
  /\ o \in Seq(TokenSet) /\ Follow(o) /\ Balance(o) = d
  /\ RootTokens(o, r, m) /\ RootsSorted(o)

Weight(t) == IF t = Opening THEN 1 ELSE IF t = Close THEN -1 ELSE 0

MayFollow(o, t) == o = <<>> \/ <<LastOf(o).t, t>> \in Program!Follows

\* The first token of root m.
RootOf(x, r, m) == x.t = Opening /\ Len(x.path) = 1 /\ x.path[1] = Generic[r[m]]

\* An opening brace and a closing brace are no other text.
LEMMA Different ==
  /\ Opening # Close /\ List \notin {Opening, Close} /\ EndList \notin {Opening, Close}
  /\ Sep \notin {Opening, Close} /\ "file" \notin {Opening, Close}
BY Zenon DEF Opening, Close, List, EndList, Sep

\* What may follow what.
LEMMA Following ==
  /\ <<Opening, List>> \in Program!Follows /\ <<Opening, Close>> \in Program!Follows
  /\ <<List, Opening>> \in Program!Follows /\ <<List, "file">> \in Program!Follows
  /\ <<"file", Sep>> \in Program!Follows /\ <<"file", EndList>> \in Program!Follows
  /\ <<Close, Sep>> \in Program!Follows /\ <<Close, EndList>> \in Program!Follows
  /\ <<Sep, Opening>> \in Program!Follows /\ <<Sep, "file">> \in Program!Follows
  /\ <<EndList, Close>> \in Program!Follows
BY Zenon DEF Opening, Close, List, EndList, Sep, Program!Follows

\* What each token adds to the open objects.
LEMMA Weights ==
  /\ Weight(Opening) = 1 /\ Weight(Close) = 0 - 1
  /\ \A t : t # Opening /\ t # Close => Weight(t) = 0
<1>1. Weight(Close) = -1 /\ -1 = 0 - 1
  BY Different DEF Weight
<1>2. Weight(Opening) = 1 /\ \A t : t # Opening /\ t # Close => Weight(t) = 0
  BY Zenon DEF Weight
<1> QED BY <1>1, <1>2

\* The tokens of one kind in a text that is one token longer.
LEMMA MarksOneMore ==
  ASSUME NEW o \in Seq(TokenSet), NEW x \in TokenSet, NEW t
  PROVE  /\ IsFiniteSet(Marks(o, t)) /\ Cardinality(Marks(o, t)) \in Nat
         /\ Cardinality(Marks(Append(o, x), t)) =
              Cardinality(Marks(o, t)) + IF x.t = t THEN 1 ELSE 0
<1> DEFINE p == Append(o, x)
<1>1. /\ Len(o) \in Nat /\ Len(p) = Len(o) + 1 /\ p[Len(o) + 1] = x
      /\ \A i \in 1..Len(o) : p[i] = o[i]
  BY AppendProperties, LenProperties
<1> HIDE DEF p
<1>2. IsFiniteSet(Marks(o, t)) /\ Cardinality(Marks(o, t)) \in Nat
  <2>1. Marks(o, t) \in SUBSET (1..Len(o)) /\ IsFiniteSet(1..Len(o))
    BY <1>1, FS_Interval DEF Marks
  <2> QED BY <2>1, FS_Subset, FS_CardinalityType
<1>3. Len(o) + 1 \notin Marks(o, t)
  BY <1>1 DEF Marks
<1>4. CASE x.t = t
  <2>1. Marks(p, t) = Marks(o, t) \cup {Len(o) + 1}
    BY <1>1, <1>4 DEF Marks
  <2> QED BY <1>2, <1>3, <1>4, <2>1, FS_AddElement DEF p
<1>5. CASE x.t # t
  <2>1. Marks(p, t) = Marks(o, t)
    BY <1>1, <1>5 DEF Marks
  <2> QED BY <1>2, <1>5, <2>1 DEF p
<1> QED BY <1>4, <1>5

\* A token that may follow the last one.
LEMMA OneToken ==
  ASSUME NEW o, NEW d \in Int, NEW r, NEW m, Text(o, d, r, m), NEW x \in TokenSet,
         MayFollow(o, x.t)
  PROVE  LET p == Append(o, x)
         IN  /\ p \in Seq(TokenSet) /\ Follow(p) /\ Balance(p) = d + Weight(x.t)
             /\ p # <<>> /\ LastOf(p) = x
             /\ ~IsRoot(x) => Text(p, d + Weight(x.t), r, m)
<1> DEFINE p == Append(o, x)
<1>0. o \in Seq(TokenSet)
  BY DEF Text
<1>1. /\ Len(o) \in Nat /\ p \in Seq(TokenSet) /\ Len(p) = Len(o) + 1 /\ p[Len(o) + 1] = x
      /\ p # <<>> /\ \A i \in 1..Len(o) : p[i] = o[i]
  BY <1>0, AppendProperties, LenProperties
<1>2. Balance(p) = d + Weight(x.t)
  <2>1. /\ Cardinality(Marks(o, Opening)) \in Nat /\ Cardinality(Marks(o, Close)) \in Nat
        /\ Cardinality(Marks(p, Opening)) = Cardinality(Marks(o, Opening)) + IF x.t = Opening THEN 1 ELSE 0
        /\ Cardinality(Marks(p, Close)) = Cardinality(Marks(o, Close)) + IF x.t = Close THEN 1 ELSE 0
    BY <1>0, MarksOneMore
  <2>2. Cardinality(Marks(o, Opening)) - Cardinality(Marks(o, Close)) = d
    BY DEF Text, Balance
  <2> HIDE DEF p
  <2> DEFINE a == Cardinality(Marks(o, Opening))
             b == Cardinality(Marks(o, Close))
  <2>3. a \in Nat /\ b \in Nat /\ a - b = d
    BY <2>1, <2>2
  <2>4. CASE x.t = Opening
    <3>1. Cardinality(Marks(p, Opening)) = a + 1 /\ Cardinality(Marks(p, Close)) = b + 0
      BY <2>1, <2>4, Different
    <3> HIDE DEF a, b
    <3>2. (a + 1) - (b + 0) = d + 1
      BY <2>3
    <3> QED BY <3>1, <3>2, <2>4, Weights, Zenon DEF Balance
  <2>5. CASE x.t = Close
    <3>1. Cardinality(Marks(p, Opening)) = a + 0 /\ Cardinality(Marks(p, Close)) = b + 1
      BY <2>1, <2>5, Different
    <3> HIDE DEF a, b
    <3>2. (a + 0) - (b + 1) = d + (0 - 1)
      BY <2>3
    <3> QED BY <3>1, <3>2, <2>5, Weights, Zenon DEF Balance
  <2>6. CASE x.t # Opening /\ x.t # Close
    <3>1. Cardinality(Marks(p, Opening)) = a + 0 /\ Cardinality(Marks(p, Close)) = b + 0
      BY <2>1, <2>6
    <3> HIDE DEF a, b
    <3>2. (a + 0) - (b + 0) = d + 0
      BY <2>3
    <3>3. Weight(x.t) = 0
      BY <2>6, Weights, Zenon
    <3> QED BY <3>1, <3>2, <3>3, Zenon DEF Balance
  <2> QED BY <2>4, <2>5, <2>6
<1> HIDE DEF p
<1>3. Follow(p)
  <2> SUFFICES ASSUME NEW i \in 1..(Len(p) - 1)
               PROVE  <<p[i].t, p[i + 1].t>> \in Program!Follows
    BY DEF Follow
  <2>1. CASE i \in 1..(Len(o) - 1)
    <3>1. i \in 1..Len(o) /\ i + 1 \in 1..Len(o)
      BY <2>1, <1>1
    <3> QED BY <2>1, <3>1, <1>1 DEF Text, Follow
  <2>2. CASE i \notin 1..(Len(o) - 1)
    <3>1. i = Len(o) /\ i \in 1..Len(o)
      BY <2>2, <1>1
    <3>2. o # <<>>
      BY <3>1, EmptySeq
    <3>3. <<LastOf(o).t, x.t>> \in Program!Follows
      BY <3>2 DEF MayFollow
    <3>4. p[i] = LastOf(o) /\ p[i + 1] = x
      BY <3>1, <1>1 DEF LastOf
    <3> QED BY <3>3, <3>4
  <2> QED BY <2>1, <2>2
<1>4. LastOf(p) = x
  BY <1>1 DEF LastOf
<1>5. ASSUME ~IsRoot(x) PROVE RootTokens(p, r, m) /\ RootsSorted(p)
  <2>1. \A i \in 1..Len(p) : IsRoot(p[i]) => i \in 1..Len(o) /\ p[i] = o[i]
    BY <1>1, <1>5
  <2>2. RootTokens(p, r, m)
    BY <2>1 DEF RootTokens, Text
  <2>3. RootsSorted(p)
    BY <2>1 DEF RootsSorted, Text
  <2> QED BY <2>2, <2>3
<1> QED BY <1>1, <1>2, <1>3, <1>4, <1>5 DEF Text, p

\* The first token of the next root.
LEMMA RootToken ==
  ASSUME NEW o, NEW r, NEW m \in Nat, NEW n \in Nat, n = m + 1, n <= Len(r), Text(o, 0, r, m),
         NEW x \in TokenSet, RootOf(x, r, n), MayFollow(o, x.t),
         r \in Seq(Arguments), Program!Sorted(r)
  PROVE  Text(Append(o, x), 1, r, n) /\ Append(o, x) # <<>> /\ LastOf(Append(o, x)) = x
<1> DEFINE p == Append(o, x)
<1>0. o \in Seq(TokenSet) /\ Len(r) \in Nat /\ DOMAIN r = 1..Len(r)
  BY LenProperties DEF Text
<1>1. /\ Len(o) \in Nat /\ Len(p) = Len(o) + 1 /\ p[Len(o) + 1] = x
      /\ \A i \in 1..Len(o) : p[i] = o[i]
  BY <1>0, AppendProperties, LenProperties
<1>2. /\ p \in Seq(TokenSet) /\ Follow(p) /\ Balance(p) = 0 + Weight(x.t)
      /\ p # <<>> /\ LastOf(p) = x
  BY OneToken
<1>3. 0 + Weight(x.t) = 1
  <2>1. Weight(x.t) = 1
    BY Weights, Zenon DEF RootOf
  <2> QED BY <2>1
<1> HIDE DEF p
<1>a. \A i \in 1..Len(p) :
        \/ i \in 1..Len(o) /\ p[i] = o[i]
        \/ i = Len(o) + 1 /\ p[i] = x
  <2>1. \A i \in 1..Len(p) : i \in 1..Len(o) \/ i = Len(o) + 1
    BY <1>1
  <2> QED BY <1>1, <2>1
<1>b. \A k \in 1..m : k \in 1..n /\ k < n /\ k \in 1..Len(r)
  BY <1>0
<1>c. n \in 1..n /\ n \in 1..Len(r)
  BY <1>0
<1>4. RootTokens(p, r, n)
  <2> SUFFICES ASSUME NEW i \in 1..Len(p), IsRoot(p[i])
               PROVE  \E k \in 1..n : p[i].path[1] = Generic[r[k]]
    BY DEF RootTokens
  <2>1. CASE i \in 1..Len(o) /\ p[i] = o[i]
    BY <2>1, <1>b, Zenon DEF Text, RootTokens
  <2>2. CASE p[i] = x
    BY <2>2, <1>c, Zenon DEF RootOf
  <2> QED BY <2>1, <2>2, <1>a
<1>5. RootsSorted(p)
  <2> SUFFICES ASSUME NEW i \in 1..Len(p), NEW j \in 1..Len(p), i < j,
                      IsRoot(p[i]), IsRoot(p[j])
               PROVE  PathOrder[p[i].path[1]] <= PathOrder[p[j].path[1]]
    BY DEF RootsSorted
  <2>1. i \in 1..Len(o) /\ p[i] = o[i]
    <3>1. i # Len(o) + 1
      BY <1>1
    <3> QED BY <3>1, <1>a
  <2>2. CASE j \in 1..Len(o) /\ p[j] = o[j]
    BY <2>1, <2>2, Zenon DEF Text, RootsSorted
  <2>3. CASE p[j] = x
    <3>1. PICK k \in 1..m : o[i].path[1] = Generic[r[k]]
      BY <2>1, Zenon DEF Text, RootTokens
    <3>2. k \in DOMAIN r /\ n \in DOMAIN r /\ k < n
      BY <1>0, <1>b, <1>c
    <3>3. PathOrder[Generic[r[k]]] <= PathOrder[Generic[r[n]]]
      BY <3>2, Zenon DEF Program!Sorted
    <3> QED BY <2>1, <2>3, <3>1, <3>3, Zenon DEF RootOf
  <2> QED BY <2>2, <2>3, <1>a
<1> QED BY <1>2, <1>3, <1>4, <1>5 DEF Text, p

\* What the text may end with in a call.
Ends(f) ==
  IF f.index = 1 THEN IF f.entries = <<>> THEN {Opening} ELSE {List}
  ELSE IF f.index <= Len(f.entries) THEN {Sep} ELSE {"file", Close}

\* Every call but the last is at an entry.
Calls(fs) ==
  /\ fs \in Seq(FrameSet)
  /\ \A i \in 1..Len(fs) :
       /\ Len(fs[i].path) = i /\ fs[i].index <= Len(fs[i].entries) + 1
       /\ i < Len(fs) => fs[i].index <= Len(fs[i].entries)

EndsIn(o, T) == o # <<>> /\ LastOf(o).t \in T

AtEntry(f) == f.index <= Len(f.entries)

\* Before root k, and in it.
BetweenRoots(o, r, k) ==
  /\ k \in Nat \ {0} /\ k <= Len(r) + 1 /\ Text(o, 0, r, k - 1)
  /\ k = 1 => o = <<>>
  /\ k > 1 => EndsIn(o, IF k <= Len(r) THEN {Sep} ELSE {Close})

InRoot(o, fs, r, k) ==
  /\ k \in Nat \ {0} /\ k <= Len(r) /\ Text(o, Len(fs), r, k)
  /\ Calls(fs) /\ fs # <<>> /\ EndsIn(o, Ends(LastOf(fs)))

\* A call is pushed.
LEMMA CallsPush ==
  ASSUME NEW fs, Calls(fs), NEW f \in FrameSet, fs = <<>> \/ AtEntry(LastOf(fs)),
         Len(f.path) = Len(fs) + 1, f.index <= Len(f.entries) + 1
  PROVE  /\ Calls(Append(fs, f)) /\ Append(fs, f) # <<>>
         /\ LastOf(Append(fs, f)) = f /\ Len(Append(fs, f)) = Len(fs) + 1
<1> DEFINE gs == Append(fs, f)
<1>0. fs \in Seq(FrameSet)
  BY DEF Calls
<1>1. /\ Len(fs) \in Nat /\ gs \in Seq(FrameSet) /\ Len(gs) = Len(fs) + 1
      /\ gs[Len(fs) + 1] = f /\ gs # <<>> /\ \A i \in 1..Len(fs) : gs[i] = fs[i]
  BY <1>0, AppendProperties, LenProperties
<1> HIDE DEF gs
<1>2. ASSUME NEW i \in 1..Len(gs)
      PROVE  /\ Len(gs[i].path) = i /\ gs[i].index <= Len(gs[i].entries) + 1
             /\ i < Len(gs) => gs[i].index <= Len(gs[i].entries)
  <2>1. CASE i = Len(fs) + 1
    <3>1. gs[i] = f /\ ~(i < Len(gs))
      BY <1>1, <2>1
    <3> QED BY <2>1, <3>1
  <2>2. CASE i \in 1..Len(fs)
    <3>1. gs[i] = fs[i]
      BY <1>1, <2>2, Zenon
    <3>2. /\ Len(fs[i].path) = i /\ fs[i].index <= Len(fs[i].entries) + 1
          /\ i < Len(fs) => fs[i].index <= Len(fs[i].entries)
      BY <2>2, Zenon DEF Calls
    <3>3. i < Len(fs) \/ i = Len(fs)
      BY <1>1, <2>2
    <3>4. CASE i = Len(fs)
      <4>1. fs # <<>>
        BY <2>2, <3>4, <1>1, EmptySeq
      <4>2. fs[i].index <= Len(fs[i].entries)
        BY <4>1, <3>4, Zenon DEF AtEntry, LastOf
      <4> QED BY <3>1, <3>2, <4>2
    <3> QED BY <3>1, <3>2, <3>3, <3>4
  <2> QED BY <1>1, <2>1, <2>2
<1>3. Calls(gs) /\ LastOf(gs) = f
  BY <1>1, <1>2 DEF Calls, LastOf
<1> QED BY <1>1, <1>3 DEF gs

\* A call is popped.
LEMMA CallsPop ==
  ASSUME NEW fs, Calls(fs), fs # <<>>
  PROVE  LET rest == Program!Front(fs)
         IN  /\ Calls(rest) /\ Len(rest) = Len(fs) - 1 /\ Len(fs) \in Nat \ {0}
             /\ rest = <<>> \/ AtEntry(LastOf(rest))
             /\ LastOf(fs) \in FrameSet /\ LastOf(fs).index <= Len(LastOf(fs).entries) + 1
             /\ Len(LastOf(fs).path) = Len(fs)
<1> DEFINE rest == Program!Front(fs)
<1>0. fs \in Seq(FrameSet) /\ Len(fs) \in Nat \ {0}
  BY EmptySeq, LenProperties DEF Calls
<1>1. /\ rest \in Seq(FrameSet) /\ Len(rest) = Len(fs) - 1
      /\ \A i \in 1..Len(fs) - 1 : rest[i] = fs[i]
  <2> DEFINE n == Len(fs) - 1
  <2>1. /\ n \in Nat /\ 1 \in Int /\ n - 1 + 1 = n /\ (1 <= n \/ n = 0)
        /\ \A i \in 1..n : 1 + i - 1 = i /\ i \in 1..Len(fs)
    <3>1. n \in Nat /\ Len(fs) = n + 1
      BY <1>0
    <3> HIDE DEF n
    <3>2. n - 1 + 1 = n /\ (1 <= n \/ n = 0)
      BY <3>1
    <3>3. \A i \in 1..n : 1 + i - 1 = i /\ i \in 1..Len(fs)
      BY <3>1
    <3> QED BY <3>1, <3>2, <3>3
  <2>2. \A i \in 1..n : fs[i] \in FrameSet
    BY <1>0, <2>1, ElementOfSeq
  <2>3. rest = SubSeq(fs, 1, n)
    BY DEF Program!Front
  <2> HIDE DEF rest, n
  <2>4. /\ rest \in Seq(FrameSet) /\ Len(rest) = IF 1 <= n THEN n - 1 + 1 ELSE 0
        /\ \A i \in 1..n - 1 + 1 : rest[i] = fs[1 + i - 1]
    BY <2>1, <2>2, <2>3, SubSeqProperties
  <2>5. Len(rest) = n
    BY <2>1, <2>4
  <2>6. \A i \in 1..n : rest[i] = fs[i]
    BY <2>1, <2>4
  <2> QED BY <2>4, <2>5, <2>6 DEF n
<1> HIDE DEF rest
<1>2. \A i \in 1..Len(rest) : i \in 1..Len(fs) /\ i < Len(fs) /\ rest[i] = fs[i]
  BY <1>0, <1>1
<1>3. \A i \in 1..Len(rest) :
        /\ Len(rest[i].path) = i /\ rest[i].index <= Len(rest[i].entries) + 1
        /\ rest[i].index <= Len(rest[i].entries)
  BY <1>2, Zenon DEF Calls
<1>4. Calls(rest)
  BY <1>1, <1>3, Zenon DEF Calls
<1>5. rest = <<>> \/ AtEntry(LastOf(rest))
  <2>1. CASE Len(rest) = 0
    BY <2>1, <1>1, EmptySeq
  <2>2. CASE Len(rest) # 0
    <3>1. Len(rest) \in 1..Len(rest)
      BY <2>2, <1>0, <1>1
    <3> QED BY <3>1, <1>3, Zenon DEF AtEntry, LastOf
  <2> QED BY <2>1, <2>2
<1>6. Len(fs) \in 1..Len(fs)
  BY <1>0
<1>7. LastOf(fs) \in FrameSet
  BY <1>0, <1>6, ElementOfSeq, Zenon DEF LastOf
<1>8. LastOf(fs).index <= Len(LastOf(fs).entries) + 1 /\ Len(LastOf(fs).path) = Len(fs)
  BY <1>6, Zenon DEF Calls, LastOf
<1> QED BY <1>0, <1>1, <1>4, <1>5, <1>7, <1>8 DEF rest

\* The loop of the last call goes on.
LEMMA CallsAdvance ==
  ASSUME NEW fs, Calls(fs), fs # <<>>, AtEntry(LastOf(fs))
  PROVE  LET gs == Program!Advanced(fs)
             f == LastOf(fs)
         IN  /\ Calls(gs) /\ gs # <<>> /\ Len(gs) = Len(fs)
             /\ LastOf(gs) = [path |-> f.path, entries |-> f.entries, index |-> f.index + 1]
<1> DEFINE rest == Program!Front(fs)
           f == LastOf(fs)
           g == [path |-> f.path, entries |-> f.entries, index |-> f.index + 1]
<1>1. /\ Calls(rest) /\ Len(rest) = Len(fs) - 1 /\ Len(fs) \in Nat \ {0}
      /\ rest = <<>> \/ AtEntry(LastOf(rest))
      /\ f \in FrameSet /\ f.index <= Len(f.entries) + 1 /\ Len(f.path) = Len(fs)
  BY CallsPop
<1>2. Program!Advanced(fs) = Append(rest, g)
  BY DEF Program!Advanced, LastOf
<1> HIDE DEF rest, f
<1>3. f.path \in Places /\ f.entries \in Seq(Names) /\ f.index \in Nat \ {0} /\ Len(f.entries) \in Nat
  BY <1>1, LenProperties DEF FrameSet
<1>4. g \in FrameSet /\ g.path = f.path /\ g.entries = f.entries /\ g.index = f.index + 1
  BY <1>3 DEF FrameSet
<1>5. f.index <= Len(f.entries)
  BY DEF AtEntry, f
<1> HIDE DEF g
<1>6. Len(g.path) = Len(rest) + 1 /\ g.index <= Len(g.entries) + 1
  BY <1>1, <1>3, <1>4, <1>5
<1>7. /\ Calls(Append(rest, g)) /\ Append(rest, g) # <<>>
      /\ LastOf(Append(rest, g)) = g /\ Len(Append(rest, g)) = Len(rest) + 1
  BY <1>1, <1>4, <1>6, CallsPush
<1>8. Len(rest) + 1 = Len(fs)
  BY <1>1
<1> QED BY <1>2, <1>7, <1>8 DEF g, f

-----------------------------------------------------------------------------
(* What the program writes.                                                 *)

\* A token that neither opens nor closes an object.
LEMMA PlainToken ==
  ASSUME NEW o, NEW d \in Int, NEW r, NEW m, Text(o, d, r, m),
         NEW x \in TokenSet, x.t # Opening, x.t # Close, MayFollow(o, x.t)
  PROVE  Text(o \o <<x>>, d, r, m) /\ EndsIn(o \o <<x>>, {x.t})
<1>1. Weight(x.t) = 0 /\ ~IsRoot(x)
  BY Weights, Zenon DEF IsRoot
<1>2. d + Weight(x.t) = d
  BY <1>1
<1>3. o \o <<x>> = Append(o, x)
  BY AppendIsConcat DEF Text
<1>5. LET p == Append(o, x)
      IN  p # <<>> /\ LastOf(p) = x /\ (~IsRoot(x) => Text(p, d + Weight(x.t), r, m))
  BY OneToken, Zenon
<1>6. LastOf(Append(o, x)).t \in {x.t}
  BY <1>5
<1> QED BY <1>1, <1>2, <1>3, <1>5, <1>6, Zenon DEF EndsIn

\* The tokens of the program.
LEMMA IsToken ==
  /\ \A t \in Texts, path \in Places :
       /\ Program!Token(t, path) \in TokenSet
       /\ Program!Token(t, path).t = t /\ Program!Token(t, path).path = path
  /\ Program!Comma \in TokenSet /\ Program!Comma.t = Sep
<1>1. <<>> \in Places /\ Sep \in Texts
  BY DEF Places, Texts
<1>2. Program!Comma = [t |-> Sep, path |-> <<>>]
  BY Zenon DEF Program!Comma, Sep
<1>3. Program!Comma \in TokenSet /\ Program!Comma.t = Sep
  BY <1>1, <1>2 DEF TokenSet
<1> QED BY <1>3 DEF Program!Token, TokenSet

\* The separator after an entry, and the loop that goes on.
LEMMA Separated ==
  ASSUME NEW o, NEW fs, NEW r, NEW k \in Nat \ {0}, k <= Len(r), Text(o, Len(fs), r, k),
         EndsIn(o, {"file", Close}), Calls(fs), fs # <<>>, AtEntry(LastOf(fs))
  PROVE  InRoot(o \o Program!Separator(LastOf(fs)), Program!Advanced(fs), r, k)
<1> DEFINE gs == Program!Advanced(fs)
           f == LastOf(fs)
           g == [path |-> f.path, entries |-> f.entries, index |-> f.index + 1]
           q == o \o Program!Separator(f)
<1>1. Calls(gs) /\ gs # <<>> /\ Len(gs) = Len(fs) /\ LastOf(gs) = g
  BY CallsAdvance
<1>2. f \in FrameSet /\ Len(fs) \in Nat \ {0}
  BY CallsPop
<1>3. f.index \in Nat \ {0} /\ Len(f.entries) \in Nat /\ f.index <= Len(f.entries)
  <2>1. f.index \in Nat \ {0} /\ f.entries \in Seq(Names)
    BY <1>2 DEF FrameSet
  <2> QED BY <2>1, LenProperties DEF AtEntry
<1>4. g.index = f.index + 1 /\ g.entries = f.entries
  OBVIOUS
<1> HIDE DEF gs, g
<1>5. g.index # 1
  BY <1>3, <1>4
<1>6. CASE f.index # Len(f.entries)
  <2>1. q = o \o <<Program!Comma>>
    BY <1>6, Zenon DEF Program!Separator
  <2> HIDE DEF f, q
  <2>2. g.index <= Len(g.entries)
    BY <1>3, <1>4, <1>6
  <2>3. Ends(g) = {Sep}
    BY <1>5, <2>2, Zenon DEF Ends
  <2>4. MayFollow(o, Sep)
    <3>1. LastOf(o).t = "file" \/ LastOf(o).t = Close
      BY DEF EndsIn
    <3> QED BY <3>1, Following, Zenon DEF MayFollow
  <2>5. Text(q, Len(fs), r, k) /\ EndsIn(q, {Sep})
    <3>1. Len(fs) \in Int
      BY <1>2
    <3>2. Sep # Opening /\ Sep # Close
      BY Different
    <3> QED BY <2>1, <2>4, <3>1, <3>2, IsToken, PlainToken
  <2> QED BY <1>1, <2>3, <2>5, Zenon DEF InRoot, gs, f, q
<1>7. CASE f.index = Len(f.entries)
  <2>1. q = o \o <<>>
    BY <1>7, Zenon DEF Program!Separator
  <2>2. q = o
    BY <2>1, ConcatEmptySeq DEF Text
  <2> HIDE DEF f, q
  <2>3. ~(g.index <= Len(g.entries))
    BY <1>3, <1>4, <1>7
  <2>4. Ends(g) = {"file", Close}
    BY <1>5, <2>3, Zenon DEF Ends
  <2> QED BY <1>1, <2>2, <2>4, Zenon DEF InRoot, gs, f, q
<1> QED BY <1>6, <1>7

\* What follows the brace of a directory that has just been opened.
LEMMA Opened ==
  ASSUME NEW o, NEW d \in Int, NEW r, NEW m, Text(o, d, r, m), EndsIn(o, {Opening}),
         NEW path \in Places, NEW D, NEW f, f.index = 1, f.entries = <<>> <=> D = {}
  PROVE  LET q == o \o IF D = {} THEN <<>> ELSE <<Program!Token(List, path)>>
         IN  Text(q, d, r, m) /\ EndsIn(q, Ends(f))
<1> DEFINE q == o \o IF D = {} THEN <<>> ELSE <<Program!Token(List, path)>>
<1>1. CASE D = {}
  <2>1. q = o \o <<>>
    BY <1>1, Zenon
  <2>2. q = o
    BY <2>1, ConcatEmptySeq DEF Text
  <2>3. Ends(f) = {Opening}
    BY <1>1, Zenon DEF Ends
  <2> HIDE DEF q
  <2>4. Text(q, d, r, m) /\ EndsIn(q, Ends(f))
    BY <2>2, <2>3, Zenon
  <2> QED BY <2>4 DEF q
<1>2. CASE D # {}
  <2>1. q = o \o <<Program!Token(List, path)>>
    BY <1>2, Zenon
  <2>2. Ends(f) = {List}
    BY <1>2, Zenon DEF Ends
  <2>3. MayFollow(o, List) /\ List # Opening /\ List # Close
    BY Following, Different DEF EndsIn, MayFollow
  <2>4. Program!Token(List, path) \in TokenSet /\ Program!Token(List, path).t = List
    BY IsToken DEF Texts
  <2> HIDE DEF q
  <2>5. Text(q, d, r, m) /\ EndsIn(q, {List})
    BY <2>1, <2>3, <2>4, PlainToken, Zenon
  <2>6. Text(q, d, r, m) /\ EndsIn(q, Ends(f))
    BY <2>2, <2>5, Zenon
  <2> QED BY <2>6 DEF q
<1> QED BY <1>1, <1>2

\* The call for the next root.
LEMMA RootOpened ==
  ASSUME NEW o, NEW r \in Seq(Arguments), Program!Sorted(r), NEW k, BetweenRoots(o, r, k),
         k <= Len(r), NEW D, NEW e \in Seq(Names), e = <<>> <=> D = {}
  PROVE  LET path == <<Generic[r[k]]>>
             f == [path |-> path, entries |-> e, index |-> 1]
             q == Append(o, Program!Token(Opening, path))
                    \o IF D = {} THEN <<>> ELSE <<Program!Token(List, path)>>
         IN  InRoot(q, Append(<<>>, f), r, k)
<1> DEFINE path == <<Generic[r[k]]>>
           f == [path |-> path, entries |-> e, index |-> 1]
           x == Program!Token(Opening, path)
           p == Append(o, x)
           q == p \o IF D = {} THEN <<>> ELSE <<Program!Token(List, path)>>
<1>1. k \in Nat \ {0} /\ Len(r) \in Nat /\ k \in 1..Len(r) /\ k - 1 \in Nat /\ k = k - 1 + 1
  BY LenProperties DEF BetweenRoots
<1>2. Generic[r[k]] \in PathNames
  BY <1>1, ElementOfSeq DEF PathNames
<1>3. path \in Places /\ Len(path) = 1 /\ path[1] = Generic[r[k]]
  BY <1>2 DEF Places
<1> HIDE DEF path
<1>4. x \in TokenSet /\ RootOf(x, r, k) /\ x.t = Opening
  BY <1>3, IsToken DEF RootOf, Texts
<1>5. MayFollow(o, x.t)
  <2>1. CASE k = 1
    BY <2>1 DEF BetweenRoots, MayFollow
  <2>2. CASE k # 1
    <3>1. k > 1
      BY <1>1, <2>2
    <3>2. EndsIn(o, {Sep})
      BY <3>1 DEF BetweenRoots
    <3> QED BY <3>2, <1>4, Following DEF EndsIn, MayFollow
  <2> QED BY <2>1, <2>2
<1>6. Text(o, 0, r, k - 1)
  BY DEF BetweenRoots
<1> HIDE DEF x
<1>7. Text(p, 1, r, k) /\ p # <<>> /\ LastOf(p) = x
  BY <1>1, <1>4, <1>5, <1>6, RootToken
<1>8. EndsIn(p, {Opening})
  BY <1>4, <1>7 DEF EndsIn
<1>9. f.index = 1 /\ f.entries = e /\ f.path = path /\ f \in FrameSet
  BY <1>3 DEF FrameSet
<1> HIDE DEF f, p
<1>10. Text(q, 1, r, k) /\ EndsIn(q, Ends(f))
  <2>1. 1 \in Int
    OBVIOUS
  <2> QED BY <2>1, <1>3, <1>7, <1>8, <1>9, Opened
<1> HIDE DEF q
<1>11. Calls(<<>>) /\ Len(<<>>) = 0
  BY DEF Calls
<1>12. Len(f.path) = Len(<<>>) + 1 /\ f.index <= Len(f.entries) + 1
  BY <1>3, <1>9, LenProperties
<1>13. /\ Calls(Append(<<>>, f)) /\ Append(<<>>, f) # <<>>
       /\ LastOf(Append(<<>>, f)) = f /\ Len(Append(<<>>, f)) = Len(<<>>) + 1
  BY <1>9, <1>11, <1>12, CallsPush
<1>14. Len(Append(<<>>, f)) = 1
  BY <1>11, <1>13
<1>15. InRoot(q, Append(<<>>, f), r, k)
  BY <1>1, <1>10, <1>13, <1>14, Zenon DEF InRoot
<1> QED BY <1>15 DEF q, p, f, x, path

\* The call for a directory below a root.
LEMMA DirectoryOpened ==
  ASSUME NEW o, NEW fs, NEW r, NEW k, InRoot(o, fs, r, k), AtEntry(LastOf(fs)),
         NEW n \in Names, NEW D, NEW e \in Seq(Names), e = <<>> <=> D = {}
  PROVE  LET path == Append(LastOf(fs).path, n)
             f == [path |-> path, entries |-> e, index |-> 1]
             q == Append(o, Program!Token(Opening, path))
                    \o IF D = {} THEN <<>> ELSE <<Program!Token(List, path)>>
         IN  InRoot(q, Append(fs, f), r, k)
<1> DEFINE top == LastOf(fs)
           path == Append(top.path, n)
           f == [path |-> path, entries |-> e, index |-> 1]
           x == Program!Token(Opening, path)
           p == Append(o, x)
           q == p \o IF D = {} THEN <<>> ELSE <<Program!Token(List, path)>>
<1>1. /\ k \in Nat \ {0} /\ k <= Len(r) /\ Text(o, Len(fs), r, k)
      /\ Calls(fs) /\ fs # <<>> /\ EndsIn(o, Ends(top))
  BY DEF InRoot
<1>2. Len(fs) \in Nat \ {0} /\ top \in FrameSet /\ Len(top.path) = Len(fs)
  BY <1>1, CallsPop
<1>3. top.path \in Places /\ top.index \in Nat \ {0} /\ top.index <= Len(top.entries)
  BY <1>2 DEF FrameSet, AtEntry
<1>4. n \in PathNames
  BY DEF PathNames
<1> HIDE DEF top
<1>5. path \in Places /\ Len(path) = Len(fs) + 1
  BY <1>2, <1>3, <1>4, AppendProperties DEF Places
<1> HIDE DEF path
<1>6. x \in TokenSet /\ x.t = Opening /\ x.path = path
  BY <1>5, IsToken DEF Texts
<1> HIDE DEF x
<1>7. ~IsRoot(x)
  <2>1. Len(path) # 1
    BY <1>2, <1>5
  <2> QED BY <2>1, <1>6, Zenon DEF IsRoot
<1>8. MayFollow(o, x.t)
  <2>1. Ends(top) = {List} \/ Ends(top) = {Sep}
    <3>1. CASE top.index = 1
      <4>1. top.entries # <<>>
        <5>1. Len(top.entries) # 0
          BY <1>3, <3>1
        <5>2. Len(<<>>) = 0
          OBVIOUS
        <5> QED BY <5>1, <5>2, Zenon
      <4> QED BY <3>1, <4>1, Zenon DEF Ends
    <3>2. CASE top.index # 1
      BY <3>2, <1>3, Zenon DEF Ends
    <3> QED BY <3>1, <3>2
  <2> QED BY <2>1, <1>1, <1>6, Following DEF EndsIn, MayFollow
<1>9. Text(p, Len(fs) + 1, r, k) /\ p # <<>> /\ LastOf(p) = x
  <2>1. Len(fs) \in Int
    BY <1>2
  <2>2. Weight(x.t) = 1
    BY <1>6, Weights, Zenon
  <2> QED BY <1>1, <1>6, <1>7, <1>8, <2>1, <2>2, OneToken, Zenon
<1>10. EndsIn(p, {Opening})
  BY <1>6, <1>9 DEF EndsIn
<1>11. f.index = 1 /\ f.entries = e /\ f.path = path /\ f \in FrameSet
  BY <1>5 DEF FrameSet
<1> HIDE DEF f, p
<1>12. Text(q, Len(fs) + 1, r, k) /\ EndsIn(q, Ends(f))
  <2>1. Len(fs) + 1 \in Int
    BY <1>2
  <2> QED BY <1>5, <1>9, <1>10, <1>11, <2>1, Opened
<1> HIDE DEF q
<1>13. Len(f.path) = Len(fs) + 1 /\ f.index <= Len(f.entries) + 1
  BY <1>5, <1>11, LenProperties
<1>14. /\ Calls(Append(fs, f)) /\ Append(fs, f) # <<>>
       /\ LastOf(Append(fs, f)) = f /\ Len(Append(fs, f)) = Len(fs) + 1
  BY <1>1, <1>11, <1>13, CallsPush DEF top
<1>15. InRoot(q, Append(fs, f), r, k)
  BY <1>1, <1>12, <1>14, Zenon DEF InRoot
<1> QED BY <1>15 DEF q, p, f, x, path, top

\* A file at the entry of the last call.
LEMMA FileListed ==
  ASSUME NEW o, NEW fs, NEW r, NEW k, InRoot(o, fs, r, k), AtEntry(LastOf(fs)),
         NEW path \in Places
  PROVE  InRoot(Append(o, Program!Token("file", path)) \o Program!Separator(LastOf(fs)),
                Program!Advanced(fs), r, k)
<1> DEFINE top == LastOf(fs)
           x == Program!Token("file", path)
           p == Append(o, x)
<1>1. /\ k \in Nat \ {0} /\ k <= Len(r) /\ Text(o, Len(fs), r, k)
      /\ Calls(fs) /\ fs # <<>> /\ EndsIn(o, Ends(top))
  BY DEF InRoot
<1>2. Len(fs) \in Nat \ {0} /\ top \in FrameSet
  BY <1>1, CallsPop
<1>3. top.index \in Nat \ {0} /\ top.index <= Len(top.entries)
  BY <1>2 DEF FrameSet, AtEntry
<1> HIDE DEF top
<1>4. x \in TokenSet /\ x.t = "file"
  BY IsToken DEF Texts
<1> HIDE DEF x
<1>5. MayFollow(o, x.t)
  <2>1. Ends(top) = {List} \/ Ends(top) = {Sep}
    <3>1. CASE top.index = 1
      <4>1. top.entries # <<>>
        <5>1. Len(top.entries) # 0
          BY <1>3, <3>1
        <5>2. Len(<<>>) = 0
          OBVIOUS
        <5> QED BY <5>1, <5>2, Zenon
      <4> QED BY <3>1, <4>1, Zenon DEF Ends
    <3>2. CASE top.index # 1
      BY <3>2, <1>3, Zenon DEF Ends
    <3> QED BY <3>1, <3>2
  <2> QED BY <2>1, <1>1, <1>4, Following DEF EndsIn, MayFollow
<1>6. p = o \o <<x>>
  BY <1>1, <1>4, AppendIsConcat DEF Text
<1> HIDE DEF p
<1>7. Text(p, Len(fs), r, k) /\ EndsIn(p, {"file"})
  <2>1. Len(fs) \in Int
    BY <1>2
  <2>2. x.t # Opening /\ x.t # Close
    BY <1>4, Different
  <2> QED BY <1>1, <1>4, <1>5, <1>6, <2>1, <2>2, PlainToken
<1>8. EndsIn(p, {"file", Close})
  BY <1>7 DEF EndsIn
<1>9. InRoot(p \o Program!Separator(LastOf(fs)), Program!Advanced(fs), r, k)
  BY <1>1, <1>7, <1>8, Separated DEF top
<1> QED BY <1>9 DEF p, x

\* The end of the directory of the last call.
LEMMA Closed ==
  ASSUME NEW o, NEW fs, NEW r, NEW k, InRoot(o, fs, r, k), ~AtEntry(LastOf(fs))
  PROVE  LET top == LastOf(fs)
             closing == (IF top.entries = <<>> THEN <<>> ELSE <<Program!Token(EndList, top.path)>>)
                        \o <<Program!Token(Close, top.path)>>
         IN  Text(o \o closing, Len(fs) - 1, r, k) /\ EndsIn(o \o closing, {Close})
<1> DEFINE top == LastOf(fs)
           x == Program!Token(EndList, top.path)
           y == Program!Token(Close, top.path)
           head == IF top.entries = <<>> THEN <<>> ELSE <<x>>
           p == o \o head
<1>1. /\ k \in Nat \ {0} /\ k <= Len(r) /\ Text(o, Len(fs), r, k)
      /\ Calls(fs) /\ fs # <<>> /\ EndsIn(o, Ends(top))
  BY DEF InRoot
<1>2. /\ Len(fs) \in Nat \ {0} /\ top \in FrameSet
      /\ top.index <= Len(top.entries) + 1
  BY <1>1, CallsPop
<1>3. /\ top.path \in Places /\ top.entries \in Seq(Names)
      /\ top.index \in Nat \ {0} /\ Len(top.entries) \in Nat
  BY <1>2, LenProperties DEF FrameSet
<1>4. ~(top.index <= Len(top.entries)) /\ top.index = Len(top.entries) + 1
  BY <1>2, <1>3 DEF AtEntry
<1> HIDE DEF top
<1>5. /\ x \in TokenSet /\ x.t = EndList /\ x # y
      /\ y \in TokenSet /\ y.t = Close
  BY <1>3, IsToken, Different DEF Texts
<1> HIDE DEF x, y
<1>6. Text(p, Len(fs), r, k) /\ MayFollow(p, Close) /\ p = o \o head /\ head \in Seq(TokenSet)
  <2>1. CASE top.entries = <<>>
    <3>1. top.index = 1
      <4>1. Len(<<>>) = 0
        OBVIOUS
      <4> QED BY <2>1, <1>4, <4>1
    <3>2. Ends(top) = {Opening}
      BY <2>1, <3>1, Zenon DEF Ends
    <3>3. head = <<>>
      BY <2>1, Zenon
    <3> HIDE DEF head
    <3>4. p = o /\ head \in Seq(TokenSet)
      BY <3>3, <1>1, ConcatEmptySeq DEF Text
    <3> HIDE DEF p
    <3> QED BY <3>2, <3>4, <1>1, Following DEF EndsIn, MayFollow, p
  <2>2. CASE top.entries # <<>>
    <3>1. top.index # 1
      <4>1. Len(top.entries) # 0
        BY <2>2, <1>3, EmptySeq
      <4> QED BY <1>3, <1>4, <4>1
    <3>2. Ends(top) = {"file", Close}
      BY <3>1, <1>4, Zenon DEF Ends
    <3>3. head = <<x>>
      BY <2>2, Zenon
    <3> HIDE DEF head
    <3>4. MayFollow(o, x.t)
      BY <3>2, <1>1, <1>5, Following DEF EndsIn, MayFollow
    <3>5. Text(o \o <<x>>, Len(fs), r, k) /\ EndsIn(o \o <<x>>, {x.t})
      <4>1. Len(fs) \in Int /\ x.t # Opening /\ x.t # Close
        BY <1>2, <1>5, Different
      <4> QED BY <4>1, <3>4, <1>1, <1>5, PlainToken
    <3>6. MayFollow(o \o <<x>>, Close)
      BY <3>5, <1>5, Following DEF EndsIn, MayFollow
    <3>7. head \in Seq(TokenSet)
      BY <3>3, <1>5
    <3> QED BY <3>3, <3>5, <3>6, <3>7
  <2> QED BY <2>1, <2>2
<1>7. o \in Seq(TokenSet) /\ p \in Seq(TokenSet)
  BY <1>1, <1>6 DEF Text
<1> HIDE DEF head
<1>8. o \o (head \o <<y>>) = p \o <<y>>
  <2>1. <<y>> \in Seq(TokenSet)
    BY <1>5
  <2> QED BY <2>1, <1>6, <1>7, ConcatAssociative
<1> HIDE DEF p
<1>9. p \o <<y>> = Append(p, y)
  BY <1>7, <1>5, AppendIsConcat
<1>10. Text(Append(p, y), Len(fs) - 1, r, k) /\ Append(p, y) # <<>> /\ LastOf(Append(p, y)) = y
  <2>1. Len(fs) \in Int /\ Weight(y.t) = 0 - 1
    BY <1>2, <1>5, Weights
  <2>2. Len(fs) + (0 - 1) = Len(fs) - 1
    BY <1>2
  <2>3. ~IsRoot(y)
    BY <1>5, Different DEF IsRoot
  <2>4. LET q == Append(p, y)
        IN  q # <<>> /\ LastOf(q) = y /\ (~IsRoot(y) => Text(q, Len(fs) + Weight(y.t), r, k))
    BY <2>1, <1>5, <1>6, OneToken, Zenon
  <2> QED BY <2>1, <2>2, <2>3, <2>4
<1>11. EndsIn(Append(p, y), {Close})
  BY <1>5, <1>10 DEF EndsIn
<1> QED BY <1>8, <1>9, <1>10, <1>11, Zenon DEF head, x, y, top

\* The walk: between two roots, or in one.
Walk(o, fs, r, k) ==
  /\ Program!Sorted(r) /\ r # <<>>
  /\ IF fs = <<>> THEN BetweenRoots(o, r, k) ELSE InRoot(o, fs, r, k)

DirectoriesOf(t) == \A d \in DOMAIN t : DOMAIN t[d] \in SUBSET Names

TextInv ==
  /\ argv \in Seq(Arguments) /\ roots \in Seq(Arguments)
  /\ overlay \in Seq(TokenSet) /\ Follow(overlay) /\ RootsSorted(overlay)
  /\ at = "parse" => overlay = <<>> /\ frames = <<>> /\ next = 1
  /\ at = "walk" => Walk(overlay, frames, roots, next)
  /\ DirectoriesOf(tree)
  /\ exit = 0 => at = "done" /\ EndsIn(overlay, {Close})

\* The text of a walk.
LEMMA WalkText ==
  ASSUME NEW o, NEW fs, NEW r, NEW k, Walk(o, fs, r, k)
  PROVE  o \in Seq(TokenSet) /\ Follow(o) /\ RootsSorted(o)
<1>1. CASE fs = <<>>
  BY <1>1 DEF Walk, BetweenRoots, Text
<1>2. CASE fs # <<>>
  BY <1>2 DEF Walk, InRoot, Text
<1> QED BY <1>1, <1>2

\* A walk before the first root.
LEMMA EmptyText ==
  /\ <<>> \in Seq(TokenSet) /\ Follow(<<>>) /\ RootsSorted(<<>>)
  /\ \A r \in Seq(Arguments) : Program!Sorted(r) /\ r # <<>> => Walk(<<>>, <<>>, r, 1)
<1>1. Len(<<>>) = 0 /\ 1..(Len(<<>>) - 1) = {} /\ 1..Len(<<>>) = {} /\ <<>> \in Seq(TokenSet)
  OBVIOUS
<1>2. Follow(<<>>) /\ RootsSorted(<<>>) /\ \A r, m : RootTokens(<<>>, r, m)
  BY <1>1, Zenon DEF Follow, RootsSorted, RootTokens
<1>3. \A t : Marks(<<>>, t) = {}
  BY <1>1, Zenon DEF Marks
<1>4. Balance(<<>>) = 0
  <2>1. Balance(<<>>) = Cardinality({}) - Cardinality({})
    BY <1>3, Zenon DEF Balance
  <2>2. Cardinality({}) = 0
    BY FS_EmptySet
  <2> QED BY <2>1, <2>2
<1>5. ASSUME NEW r \in Seq(Arguments), Program!Sorted(r), r # <<>> PROVE Walk(<<>>, <<>>, r, 1)
  <2>1. Len(r) \in Nat /\ 1 <= Len(r) + 1 /\ 1 - 1 = 0 /\ ~(1 > 1) /\ 1 \in Nat \ {0}
    BY <1>5, LenProperties
  <2>2. Text(<<>>, 0, r, 0)
    BY <1>1, <1>2, <1>4, Zenon DEF Text
  <2> QED BY <2>1, <2>2, <1>5, Zenon DEF Walk, BetweenRoots
<1> QED BY <1>1, <1>2, <1>5

\* The text is as it should be before the arguments are read.
LEMMA TextInit == Program!Init => TextInv
<1> SUFFICES ASSUME Program!Init PROVE TextInv
  OBVIOUS
<1>1. /\ argv \in UNION {[1..n -> Arguments] : n \in 0..MaxArgs}
      /\ roots = <<>> /\ at = "parse" /\ next = 1 /\ tree = <<>> /\ frames = <<>>
      /\ overlay = <<>> /\ exit = -1
  BY DEF Program!Init
<1>2. argv \in Seq(Arguments) /\ roots \in Seq(Arguments)
  <2>1. PICK n \in 0..MaxArgs : argv \in [1..n -> Arguments]
    BY <1>1
  <2>2. MaxArgs \in Nat
    BY VfsAssumption
  <2>3. n \in Nat
    BY <2>1, <2>2
  <2> QED BY <1>1, <2>1, <2>3
<1>3. DirectoriesOf(tree)
  <2>1. DOMAIN tree = {}
    BY <1>1
  <2> QED BY <2>1 DEF DirectoriesOf
<1>4. exit # 0
  BY <1>1
<1>5. overlay \in Seq(TokenSet) /\ Follow(overlay) /\ RootsSorted(overlay)
  BY <1>1, EmptyText
<1> QED BY <1>1, <1>2, <1>3, <1>4, <1>5 DEF TextInv

\* What a call finds in its directory, and what it writes of it.
LEMMA Entering ==
  ASSUME TextInv, at = "walk", NEW STATE path, Program!Enter(path)
  PROVE  /\ DirectoriesOf(tree')
         /\ \/ at' = "unwind" /\ overlay' = overlay
            \/ /\ at' = "walk"
               /\ \E D : \E e \in Seq(Names) :
                    /\ e = <<>> <=> D = {}
                    /\ frames' = Append(frames, [path |-> path, entries |-> e, index |-> 1])
                    /\ overlay' = Append(overlay, Program!Token(Opening, path))
                                   \o IF D = {} THEN <<>> ELSE <<Program!Token(List, path)>>
<1>1. PICK c \in Program!Contents(path) :
        /\ tree' = [p \in DOMAIN tree \cup {path} |-> IF p = path THEN c ELSE tree[p]]
        /\ \/ at' = "unwind" /\ overlay' = overlay
           \/ /\ at' = at
              /\ frames' = Append(frames, [path |-> path, entries |-> Program!Entries(DOMAIN c),
                                           index |-> 1])
              /\ overlay' = Append(overlay, Program!Token(Opening, path))
                             \o IF DOMAIN c = {} THEN <<>> ELSE <<Program!Token(List, path)>>
  BY Zenon DEF Program!Enter, Opening, List
<1>2. DOMAIN c \in SUBSET Names
  <2>1. CASE path \in DOMAIN tree
    <3>1. c = tree[path]
      BY <2>1, <1>1, Zenon DEF Program!Contents
    <3> QED BY <2>1, <3>1 DEF TextInv, DirectoriesOf
  <2>2. CASE path \notin DOMAIN tree
    <3>1. c \in UNION {[S -> Program!Kinds] : S \in SUBSET Names}
      BY <2>2, <1>1, Zenon DEF Program!Contents
    <3> QED BY <3>1
  <2> QED BY <2>1, <2>2
<1>3. DirectoriesOf(tree')
  <2> SUFFICES ASSUME NEW d \in DOMAIN tree' PROVE DOMAIN tree'[d] \in SUBSET Names
    BY DEF DirectoriesOf
  <2>1. CASE d = path
    <3>1. tree'[d] = c
      BY <2>1, <1>1, Zenon
    <3> QED BY <3>1, <1>2
  <2>2. CASE d # path
    <3>1. d \in DOMAIN tree /\ tree'[d] = tree[d]
      BY <2>2, <1>1
    <3> QED BY <3>1, Zenon DEF TextInv, DirectoriesOf
  <2> QED BY <2>1, <2>2
<1>4. Program!Entries(DOMAIN c) \in Seq(Names) /\ (Program!Entries(DOMAIN c) = <<>> <=> DOMAIN c = {})
  BY <1>2, Listed, ListsNothing
<1>5. CASE at' = "unwind" /\ overlay' = overlay
  BY <1>3, <1>5
<1>6. CASE ~(at' = "unwind" /\ overlay' = overlay)
  <2> DEFINE D == DOMAIN c
             e == Program!Entries(D)
  <2>1. /\ at' = "walk"
        /\ frames' = Append(frames, [path |-> path, entries |-> e, index |-> 1])
        /\ overlay' = Append(overlay, Program!Token(Opening, path))
                       \o IF D = {} THEN <<>> ELSE <<Program!Token(List, path)>>
    BY <1>1, <1>6, Zenon
  <2>2. e \in Seq(Names) /\ (e = <<>> <=> D = {})
    BY <1>4
  <2> HIDE DEF e, D
  <2> QED BY <1>3, <2>1, <2>2, Zenon
<1> QED BY <1>5, <1>6

\* A step that leaves the text and stops the walk.
LEMMA TextKept ==
  ASSUME TextInv, argv' = argv, roots' = roots, overlay' = overlay, tree' = tree,
         at' \in {"unwind", "done"}, exit' # 0
  PROVE  TextInv'
<1>1. at' # "parse" /\ at' # "walk"
  OBVIOUS
<1> QED BY <1>1 DEF TextInv

\* A step of the walk.
LEMMA TextWalked ==
  ASSUME TextInv, at = "walk", at' = "walk", argv' = argv, roots' = roots, exit' = exit,
         DirectoriesOf(tree'), Walk(overlay', frames', roots, next')
  PROVE  TextInv'
<1>1. overlay' \in Seq(TokenSet) /\ Follow(overlay') /\ RootsSorted(overlay')
  BY WalkText
<1>2. exit # 0
  BY DEF TextInv
<1> QED BY <1>1, <1>2 DEF TextInv

\* Reading the arguments.
LEMMA TextParse ==
  ASSUME TextInv, Program!ParseRoot \/ Program!ParseOutput \/ Program!SortRoots
  PROVE  TextInv'
<1>1. at = "parse" /\ exit # 0 /\ overlay = <<>> /\ frames = <<>> /\ next = 1
  BY DEF TextInv, Program!ParseRoot, Program!ParseOutput, Program!SortRoots
<1>2. argv \in Seq(Arguments) /\ roots \in Seq(Arguments) /\ Len(argv) \in Nat
  BY LenProperties DEF TextInv
<1>3. SubSeq(argv, 3, Len(argv)) \in Seq(Arguments)
  <2>1. \A i \in 3..Len(argv) : argv[i] \in Arguments
    BY <1>2, ElementOfSeq
  <2>2. 3 \in Int /\ Len(argv) \in Int
    BY <1>2
  <2> QED BY <2>1, <2>2, SubSeqProperties
<1>4. CASE Program!ParseRoot
  <2>1. /\ Len(argv) >= 2 /\ argv' = SubSeq(argv, 3, Len(argv)) /\ roots' = Append(roots, argv[2])
        /\ at' = at /\ next' = next /\ tree' = tree /\ frames' = frames
        /\ overlay' = overlay /\ exit' = exit
    BY <1>4, Zenon DEF Program!ParseRoot
  <2>2. argv' \in Seq(Arguments)
    BY <2>1, <1>3
  <2>3. argv[2] \in Arguments
    BY <2>1, <1>2, ElementOfSeq
  <2>4. roots' \in Seq(Arguments)
    BY <2>1, <2>3, <1>2, AppendProperties
  <2> QED BY <1>1, <2>1, <2>2, <2>4 DEF TextInv
<1>5. CASE Program!ParseOutput
  <2>1. /\ argv' = SubSeq(argv, 3, Len(argv)) /\ roots' = roots
        /\ at' = at /\ next' = next /\ tree' = tree /\ frames' = frames
        /\ overlay' = overlay /\ exit' = exit
    BY <1>5, Zenon DEF Program!ParseOutput
  <2>2. argv' \in Seq(Arguments)
    BY <2>1, <1>3
  <2> QED BY <1>1, <2>1, <2>2 DEF TextInv
<1>6. CASE Program!SortRoots
  <2>1. /\ argv' = argv /\ at' = "walk" /\ next' = next /\ tree' = tree /\ frames' = frames
        /\ overlay' = overlay /\ exit' = exit /\ roots # <<>>
        /\ roots' \in [DOMAIN roots -> Arguments] /\ Program!Sorted(roots')
    BY <1>6, Zenon DEF Program!SortRoots
  <2>2. roots' \in Seq(Arguments) /\ roots' # <<>>
    <3>1. DOMAIN roots = 1..Len(roots) /\ Len(roots) \in Nat /\ Len(roots) # 0
      BY <2>1, <1>2, LenProperties, EmptySeq
    <3>2. DOMAIN roots' = 1..Len(roots) /\ roots' \in Seq(Arguments)
      BY <2>1, <3>1
    <3>3. DOMAIN roots' # {}
      <4>1. 1 \in DOMAIN roots'
        BY <3>1, <3>2
      <4> QED BY <4>1
    <3>4. DOMAIN <<>> = {}
      OBVIOUS
    <3> QED BY <3>2, <3>3, <3>4, Zenon
  <2>3. Walk(overlay', frames', roots', next')
    BY <1>1, <2>1, <2>2, EmptyText, Zenon
  <2>4. at' # "parse" /\ exit' # 0
    BY <1>1, <2>1
  <2> QED BY <2>1, <2>2, <2>3, <2>4 DEF TextInv
<1> QED BY <1>4, <1>5, <1>6

\* Entering a directory.
LEMMA TextEnter ==
  ASSUME TextInv, Program!EnterRoot \/ Program!EnterDirectory
  PROVE  TextInv'
<1>1. at = "walk" /\ argv' = argv /\ roots' = roots /\ next' = next /\ exit' = exit
  BY Zenon DEF Program!EnterRoot, Program!EnterDirectory, Program!HasEntry, Program!InLoop
<1>2. Walk(overlay, frames, roots, next) /\ roots \in Seq(Arguments) /\ exit # 0
  BY <1>1 DEF TextInv
<1>3. ASSUME NEW STATE path, Program!Enter(path),
             \A D : \A e \in Seq(Names) : (e = <<>> <=> D = {}) =>
               InRoot(Append(overlay, Program!Token(Opening, path))
                        \o IF D = {} THEN <<>> ELSE <<Program!Token(List, path)>>,
                      Append(frames, [path |-> path, entries |-> e, index |-> 1]), roots, next)
      PROVE  TextInv'
  <2>1. DirectoriesOf(tree')
    BY <1>1, <1>3, Entering
  <2>2. CASE at' = "unwind" /\ overlay' = overlay
    <3>2. at' # "parse" /\ at' # "walk" /\ exit' # 0
      BY <1>1, <1>2, <2>2
    <3> QED BY <1>1, <2>1, <2>2, <3>2 DEF TextInv
  <2>3. CASE ~(at' = "unwind" /\ overlay' = overlay)
    <3>1. /\ at' = "walk"
          /\ \E D : \E e \in Seq(Names) :
               /\ e = <<>> <=> D = {}
               /\ frames' = Append(frames, [path |-> path, entries |-> e, index |-> 1])
               /\ overlay' = Append(overlay, Program!Token(Opening, path))
                              \o IF D = {} THEN <<>> ELSE <<Program!Token(List, path)>>
      BY <1>1, <1>3, <2>3, Entering
    <3>2. InRoot(overlay', frames', roots, next')
      BY <1>1, <1>3, <3>1, Zenon
    <3>3. frames' # <<>>
      BY <3>2, Zenon DEF InRoot
    <3>4. Walk(overlay', frames', roots, next')
      BY <1>2, <3>2, <3>3, Zenon DEF Walk
    <3> QED BY <1>1, <2>1, <3>1, <3>4, TextWalked
  <2> QED BY <2>2, <2>3
<1>4. CASE Program!EnterRoot
  <2>1. frames = <<>> /\ next <= Len(roots) /\ Program!Enter(<<Generic[roots[next]]>>)
    BY <1>4, Zenon DEF Program!EnterRoot
  <2>2. Program!Sorted(roots) /\ BetweenRoots(overlay, roots, next)
    BY <1>2, <2>1, Zenon DEF Walk
  <2>3. ASSUME NEW D, NEW e \in Seq(Names), e = <<>> <=> D = {}
        PROVE  InRoot(Append(overlay, Program!Token(Opening, <<Generic[roots[next]]>>))
                        \o IF D = {} THEN <<>> ELSE <<Program!Token(List, <<Generic[roots[next]]>>)>>,
                      Append(frames, [path |-> <<Generic[roots[next]]>>, entries |-> e, index |-> 1]),
                      roots, next)
    BY <1>2, <2>1, <2>2, <2>3, RootOpened, Zenon
  <2> QED BY <1>3, <2>1, <2>3, Zenon
<1>5. CASE Program!EnterDirectory
  <2>1. frames # <<>> /\ AtEntry(LastOf(frames)) /\ Program!Enter(Program!Entry)
    BY <1>5, Zenon DEF Program!EnterDirectory, Program!HasEntry, Program!InLoop, Program!Top,
                       AtEntry, LastOf
  <2>2. InRoot(overlay, frames, roots, next)
    BY <1>2, <2>1, Zenon DEF Walk
  <2>3. /\ Program!Entry = Append(LastOf(frames).path, LastOf(frames).entries[LastOf(frames).index])
        /\ LastOf(frames).entries[LastOf(frames).index] \in Names
    <3>1. LastOf(frames) \in FrameSet
      BY <2>1, <2>2, CallsPop DEF InRoot
    <3>2. /\ LastOf(frames).index \in Nat \ {0} /\ LastOf(frames).entries \in Seq(Names)
          /\ LastOf(frames).index \in 1..Len(LastOf(frames).entries)
      BY <3>1, <2>1 DEF FrameSet, AtEntry
    <3>3. LastOf(frames).entries[LastOf(frames).index] \in Names
      BY <3>2, ElementOfSeq
    <3> QED BY <3>3, Zenon DEF Program!Entry, Program!Top, LastOf
  <2>4. ASSUME NEW D, NEW e \in Seq(Names), e = <<>> <=> D = {}
        PROVE  InRoot(Append(overlay, Program!Token(Opening, Program!Entry))
                        \o IF D = {} THEN <<>> ELSE <<Program!Token(List, Program!Entry)>>,
                      Append(frames, [path |-> Program!Entry, entries |-> e, index |-> 1]),
                      roots, next)
    BY <2>1, <2>2, <2>3, <2>4, DirectoryOpened, Zenon
  <2> QED BY <1>3, <2>1, <2>4, Zenon
<1> QED BY <1>4, <1>5

\* Listing a file.
LEMMA TextFile ==
  ASSUME TextInv, Program!RenderFile
  PROVE  TextInv'
<1>1. /\ at = "walk" /\ frames # <<>> /\ AtEntry(LastOf(frames))
      /\ overlay' = Append(overlay, Program!Token("file", Program!Entry))
                     \o Program!Separator(LastOf(frames))
      /\ frames' = Program!Advanced(frames)
      /\ argv' = argv /\ roots' = roots /\ at' = at /\ next' = next /\ tree' = tree /\ exit' = exit
  BY Zenon DEF Program!RenderFile, Program!HasEntry, Program!InLoop, Program!Top, AtEntry, LastOf
<1>2. Walk(overlay, frames, roots, next) /\ DirectoriesOf(tree)
  BY <1>1 DEF TextInv
<1>3. InRoot(overlay, frames, roots, next)
  BY <1>1, <1>2, Zenon DEF Walk
<1>4. Program!Entry \in Places
  <2>1. LastOf(frames) \in FrameSet
    BY <1>1, <1>3, CallsPop DEF InRoot
  <2>2. /\ LastOf(frames).index \in Nat \ {0} /\ LastOf(frames).entries \in Seq(Names)
        /\ LastOf(frames).index \in 1..Len(LastOf(frames).entries)
        /\ LastOf(frames).path \in Seq(PathNames)
    BY <2>1, <1>1 DEF FrameSet, AtEntry, Places
  <2>3. LastOf(frames).entries[LastOf(frames).index] \in PathNames
    BY <2>2, ElementOfSeq DEF PathNames
  <2>4. Append(LastOf(frames).path, LastOf(frames).entries[LastOf(frames).index]) \in Seq(PathNames)
    BY <2>2, <2>3, AppendProperties
  <2> QED BY <2>4, Zenon DEF Program!Entry, Program!Top, LastOf, Places
<1>5. InRoot(overlay', frames', roots, next')
  BY <1>1, <1>3, <1>4, FileListed, Zenon
<1>6. frames' # <<>>
  BY <1>5, Zenon DEF InRoot
<1>7. Walk(overlay', frames', roots, next')
  BY <1>2, <1>5, <1>6, Zenon DEF Walk
<1>8. at' = "walk" /\ DirectoriesOf(tree')
  BY <1>1, <1>2
<1> QED BY <1>1, <1>7, <1>8, TextWalked

\* Closing a directory.
LEMMA TextClose ==
  ASSUME TextInv, Program!CloseDirectory
  PROVE  TextInv'
<1> DEFINE top == LastOf(frames)
           rest == Program!Front(frames)
           closing == (IF top.entries = <<>> THEN <<>> ELSE <<Program!Token(EndList, top.path)>>)
                      \o <<Program!Token(Close, top.path)>>
           o == overlay \o closing
<1>1. /\ at = "walk" /\ frames # <<>> /\ top.index > Len(top.entries)
      /\ argv' = argv /\ roots' = roots /\ at' = at /\ tree' = tree /\ exit' = exit
  BY Zenon DEF Program!CloseDirectory, Program!InLoop, Program!Top, LastOf
<1>2. /\ rest = <<>> =>
           /\ overlay' = o \o IF next # Len(roots) THEN <<Program!Comma>> ELSE <<>>
           /\ next' = next + 1 /\ frames' = <<>>
      /\ rest # <<>> =>
           /\ overlay' = o \o Program!Separator(LastOf(rest))
           /\ frames' = Program!Advanced(rest) /\ next' = next
  BY Zenon DEF Program!CloseDirectory, Program!InLoop, Program!Top, LastOf, EndList, Close
<1>3. Walk(overlay, frames, roots, next) /\ DirectoriesOf(tree) /\ roots \in Seq(Arguments)
  BY <1>1 DEF TextInv
<1>4. InRoot(overlay, frames, roots, next) /\ Program!Sorted(roots) /\ roots # <<>>
  BY <1>1, <1>3, Zenon DEF Walk
<1>5. /\ Calls(rest) /\ Len(rest) = Len(frames) - 1 /\ Len(frames) \in Nat \ {0}
      /\ rest = <<>> \/ AtEntry(LastOf(rest))
  BY <1>1, <1>4, CallsPop DEF InRoot
<1>6. top \in FrameSet
  BY <1>1, <1>4, CallsPop DEF InRoot
<1>7. ~AtEntry(top)
  <2>1. top.index \in Nat /\ Len(top.entries) \in Nat
    BY <1>6, LenProperties DEF FrameSet
  <2> HIDE DEF top
  <2> QED BY <1>1, <2>1 DEF AtEntry
<1>8. Text(o, Len(frames) - 1, roots, next) /\ EndsIn(o, {Close})
  BY <1>4, <1>7, Closed, Zenon
<1>9. next \in Nat \ {0} /\ next <= Len(roots) /\ Len(roots) \in Nat
  BY <1>3, <1>4, LenProperties DEF InRoot
<1> HIDE DEF top, rest, o, closing
<1>10. CASE rest = <<>>
  <2>1. Len(frames) - 1 = 0
    <3>1. Len(<<>>) = 0
      OBVIOUS
    <3> QED BY <1>5, <1>10, <3>1
  <2>2. Text(o, 0, roots, next)
    BY <1>8, <2>1
  <2>3. next + 1 \in Nat \ {0} /\ next + 1 <= Len(roots) + 1 /\ next + 1 - 1 = next /\ next + 1 # 1
    BY <1>9
  <2>4. /\ overlay' = o \o IF next # Len(roots) THEN <<Program!Comma>> ELSE <<>>
        /\ next' = next + 1 /\ frames' = <<>>
    BY <1>2, <1>10
  <2>5. Text(overlay', 0, roots, next) /\ EndsIn(overlay', IF next' <= Len(roots) THEN {Sep} ELSE {Close})
    <3>1. CASE next # Len(roots)
      <4>1. overlay' = o \o <<Program!Comma>> /\ next' <= Len(roots)
        BY <2>4, <3>1, <1>9
      <4>2. MayFollow(o, Sep)
        BY <1>8, Following DEF EndsIn, MayFollow
      <4>3. Sep # Opening /\ Sep # Close /\ 0 \in Int
        BY Different
      <4>4. Text(o \o <<Program!Comma>>, 0, roots, next) /\ EndsIn(o \o <<Program!Comma>>, {Sep})
        BY <2>2, <4>2, <4>3, IsToken, PlainToken
      <4> QED BY <4>1, <4>4
    <3>2. CASE next = Len(roots)
      <4>1. overlay' = o \o <<>> /\ ~(next' <= Len(roots))
        BY <2>4, <3>2, <1>9
      <4>2. overlay' = o
        BY <4>1, <2>2, ConcatEmptySeq DEF Text
      <4> QED BY <4>1, <4>2, <2>2, <1>8
    <3> QED BY <3>1, <3>2
  <2>6. BetweenRoots(overlay', roots, next')
    <3>0. next' = next + 1
      BY <2>4
    <3>1. /\ next' \in Nat \ {0} /\ next' <= Len(roots) + 1 /\ next' # 1
          /\ next' - 1 = next
      BY <1>9, <3>0
    <3>2. Text(overlay', 0, roots, next' - 1)
      BY <2>5, <3>1, Zenon
    <3> QED BY <2>5, <3>1, <3>2, Zenon DEF BetweenRoots
  <2>7. Walk(overlay', frames', roots, next')
    BY <1>4, <2>4, <2>6, Zenon DEF Walk
  <2>8. at' = "walk" /\ DirectoriesOf(tree')
    BY <1>1, <1>3
  <2> QED BY <1>1, <2>7, <2>8, TextWalked
<1>11. CASE rest # <<>>
  <2>1. overlay' = o \o Program!Separator(LastOf(rest)) /\ frames' = Program!Advanced(rest) /\ next' = next
    BY <1>2, <1>11
  <2>2. Text(o, Len(rest), roots, next) /\ EndsIn(o, {"file", Close})
    BY <1>5, <1>8 DEF EndsIn
  <2>3. InRoot(overlay', frames', roots, next')
    BY <1>5, <1>9, <1>11, <2>1, <2>2, Separated, Zenon
  <2>4. frames' # <<>>
    BY <2>3, Zenon DEF InRoot
  <2>5. Walk(overlay', frames', roots, next')
    BY <1>4, <2>3, <2>4, Zenon DEF Walk
  <2>6. at' = "walk" /\ DirectoriesOf(tree')
    BY <1>1, <1>3
  <2> QED BY <1>1, <2>5, <2>6, TextWalked
<1> QED BY <1>10, <1>11

\* The steps that end a walk or come after it.
LEMMA TextEnds ==
  ASSUME TextInv,
         \/ Program!ParseFails \/ Program!NoRoots \/ Program!RefuseEntry \/ Program!CollectFails
         \/ Program!OpenFails \/ Program!WriteFails \/ Program!Unwind
  PROVE  TextInv'
<1>1. CASE Program!ParseFails \/ Program!NoRoots \/ Program!OpenFails \/ Program!WriteFails
  <2>1. /\ argv' = argv /\ roots' = roots /\ overlay' = overlay /\ tree' = tree
        /\ at' = "done" /\ (exit' = 1 \/ exit' = 2)
    BY <1>1, Zenon DEF Program!ParseFails, Program!NoRoots, Program!OpenFails, Program!WriteFails,
                       Program!Exit
  <2> QED BY <2>1, TextKept
<1>2. CASE Program!RefuseEntry \/ Program!CollectFails \/ Program!Unwind
  <2>1. /\ argv' = argv /\ roots' = roots /\ overlay' = overlay /\ tree' = tree
        /\ at' = "unwind" /\ exit' = exit /\ (at = "walk" \/ at = "unwind")
    BY <1>2, Zenon DEF Program!RefuseEntry, Program!CollectFails, Program!Unwind, Program!HasEntry,
                       Program!InLoop
  <2>2. exit # 0
    BY <2>1 DEF TextInv
  <2> QED BY <2>1, <2>2, TextKept
<1> QED BY <1>1, <1>2

\* The text of a failed walk is discarded.
LEMMA TextDiscarded ==
  ASSUME TextInv, Program!WalkFails
  PROVE  TextInv'
<1>1. /\ argv' = argv /\ roots' = roots /\ overlay' = <<>> /\ tree' = tree
      /\ at' = "done" /\ exit' = 1
  BY Zenon DEF Program!WalkFails, Program!Exit
<1>2. overlay' \in Seq(TokenSet) /\ Follow(overlay') /\ RootsSorted(overlay')
  BY <1>1, EmptyText
<1> QED BY <1>1, <1>2 DEF TextInv

\* Writing the file.
LEMMA TextWritten ==
  ASSUME TextInv, Program!Write
  PROVE  TextInv'
<1>1. /\ at = "walk" /\ frames = <<>> /\ next > Len(roots)
      /\ argv' = argv /\ roots' = roots /\ overlay' = overlay /\ tree' = tree
      /\ at' = "done" /\ exit' = 0
  BY Zenon DEF Program!Write, Program!Walked, Program!Exit
<1>2. Walk(overlay, frames, roots, next) /\ roots \in Seq(Arguments)
  BY <1>1 DEF TextInv
<1>3. BetweenRoots(overlay, roots, next) /\ roots # <<>>
  BY <1>1, <1>2, Zenon DEF Walk
<1>4. Len(roots) \in Nat \ {0}
  BY <1>2, <1>3, LenProperties, EmptySeq
<1>5. next > 1 /\ ~(next <= Len(roots))
  BY <1>1, <1>3, <1>4 DEF BetweenRoots
<1>6. EndsIn(overlay, {Close})
  BY <1>3, <1>5, Zenon DEF BetweenRoots
<1>7. at' # "parse" /\ at' # "walk"
  BY <1>1
<1> QED BY <1>1, <1>6, <1>7 DEF TextInv

\* Every step keeps the text as it should be.
LEMMA TextStep == TextInv /\ [GeneratorNext]_<<level, vars, program>> => TextInv'
<1> SUFFICES ASSUME TextInv, [GeneratorNext]_<<level, vars, program>>
             PROVE  TextInv'
  OBVIOUS
<1>1. CASE UNCHANGED program
  <2>1. /\ argv' = argv /\ roots' = roots /\ at' = at /\ next' = next /\ tree' = tree
        /\ frames' = frames /\ overlay' = overlay /\ exit' = exit
    BY <1>1, Zenon DEF program
  <2> QED BY <2>1 DEF TextInv
<1>2. CASE Program!Next
  <2>1. CASE Program!Done
    <3>1. UNCHANGED program
      BY <2>1, Zenon DEF Program!Done, Program!vars, program
    <3> QED BY <1>1, <3>1
  <2>2. CASE ~Program!Done
    BY <1>2, <2>2, TextParse, TextEnter, TextFile, TextClose, TextEnds, TextDiscarded, TextWritten,
       Zenon DEF Program!Next
  <2> QED BY <2>1, <2>2
<1>3. UNCHANGED program \/ Program!Next
  BY Zenon DEF GeneratorNext, CallStep, ProgramStep
<1> QED BY <1>1, <1>2, <1>3

\* What the invariant says of the text.
LEMMA TextWellFormed == TextInv => WellFormed
<1> SUFFICES ASSUME TextInv PROVE Program!WellFormed
  BY Zenon DEF WellFormed
<1>1. \A i \in 1..(Len(overlay) - 1) : <<overlay[i].t, overlay[i + 1].t>> \in Program!Follows
  BY Zenon DEF TextInv, Follow
<1>2. DOMAIN overlay = 1..Len(overlay)
  BY DEF TextInv
<1>3. \A t : Program!Tokens(t) = Marks(overlay, t)
  BY <1>2, Zenon DEF Program!Tokens, Marks
<1>4. ASSUME at = "walk"
      PROVE  Cardinality(Program!Tokens(Opening)) - Cardinality(Program!Tokens(Close)) = Len(frames)
  <2>1. Walk(overlay, frames, roots, next)
    BY <1>4 DEF TextInv
  <2>2. Balance(overlay) = Len(frames)
    <3>1. CASE frames = <<>>
      <4>1. Len(<<>>) = 0
        OBVIOUS
      <4>2. Balance(overlay) = 0
        BY <2>1, <3>1, Zenon DEF Walk, BetweenRoots, Text
      <4> QED BY <3>1, <4>1, <4>2
    <3>2. CASE frames # <<>>
      BY <2>1, <3>2, Zenon DEF Walk, InRoot, Text
    <3> QED BY <3>1, <3>2
  <2> QED BY <1>3, <2>2, Zenon DEF Balance
<1>5. exit = 0 => overlay # <<>> /\ Program!Last(overlay).t = Close
  BY DEF TextInv, EndsIn, Program!Last, LastOf
<1>6. Program!RootsInOrder
  BY <1>2, Zenon DEF TextInv, RootsSorted, IsRoot, Program!RootsInOrder, Program!Tokens, Opening
<1>7. \A S : Program!Cardinality(S) = Cardinality(S)
  BY DEF Program!Cardinality, Cardinality
<1> QED BY <1>1, <1>4, <1>5, <1>6, <1>7, Zenon DEF Program!WellFormed, Opening, Close

\* Every text the program builds is well-formed JSON up to where it has got, for every
\* directory tree, every set of roots and every depth of the recursion; its roots are in
\* the order of their generic paths, and a text that is written is complete
\* (render_directory, generate_vfs_overlay and main of the generator).
THEOREM OverlayWellFormed == GeneratorSpec => []WellFormed
<1>1. GeneratorInit => TextInv
  BY TextInit, Zenon DEF GeneratorInit
<1> QED BY <1>1, TextStep, TextWellFormed, PTL DEF GeneratorSpec

-----------------------------------------------------------------------------
(* The files that the text lists.                                           *)

Listings(o, p) == {j \in 1..Len(o) : o[j] = Program!Token("file", p)}

\* A text that lists the same files as another one.
SameFiles(o, q) ==
  /\ q \in Seq(TokenSet)
  /\ \A p : Cardinality(Listings(q, p)) = Cardinality(Listings(o, p))
  /\ \A j \in 1..Len(q) : q[j].t = "file" => \E i \in 1..Len(o) : q[j] = o[i]

\* One token more.
LEMMA ListingsOneMore ==
  ASSUME NEW o \in Seq(TokenSet), NEW x \in TokenSet, NEW p
  PROVE  /\ IsFiniteSet(Listings(o, p)) /\ Cardinality(Listings(o, p)) \in Nat
         /\ x = Program!Token("file", p) =>
              Cardinality(Listings(Append(o, x), p)) = Cardinality(Listings(o, p)) + 1
         /\ x # Program!Token("file", p) =>
              Cardinality(Listings(Append(o, x), p)) = Cardinality(Listings(o, p))
<1> DEFINE q == Append(o, x)
           y == Program!Token("file", p)
<1>1. /\ Len(o) \in Nat /\ Len(q) = Len(o) + 1 /\ q[Len(o) + 1] = x
      /\ \A i \in 1..Len(o) : q[i] = o[i]
  BY AppendProperties, LenProperties
<1> HIDE DEF q, y
<1>2. IsFiniteSet(Listings(o, p)) /\ Cardinality(Listings(o, p)) \in Nat
  <2>1. Listings(o, p) \in SUBSET (1..Len(o)) /\ IsFiniteSet(1..Len(o))
    BY <1>1, FS_Interval DEF Listings
  <2> QED BY <2>1, FS_Subset, FS_CardinalityType
<1>3. Len(o) + 1 \notin Listings(o, p)
  BY <1>1 DEF Listings
<1>4. ASSUME x = y PROVE Cardinality(Listings(q, p)) = Cardinality(Listings(o, p)) + 1
  <2>1. Listings(q, p) = Listings(o, p) \cup {Len(o) + 1}
    BY <1>1, <1>4 DEF Listings, y
  <2> QED BY <1>2, <1>3, <2>1, FS_AddElement
<1>5. ASSUME x # y PROVE Cardinality(Listings(q, p)) = Cardinality(Listings(o, p))
  <2>1. Listings(q, p) = Listings(o, p)
    BY <1>1, <1>5 DEF Listings, y
  <2> QED BY <2>1
<1> QED BY <1>2, <1>4, <1>5 DEF q, y

\* A token that is no file.
LEMMA NoFile ==
  ASSUME NEW o \in Seq(TokenSet), NEW x \in TokenSet, x.t # "file"
  PROVE  SameFiles(o, Append(o, x)) /\ SameFiles(o, o \o <<x>>)
<1> DEFINE q == Append(o, x)
<1>1. /\ Len(o) \in Nat /\ q \in Seq(TokenSet) /\ Len(q) = Len(o) + 1 /\ q[Len(o) + 1] = x
      /\ \A i \in 1..Len(o) : q[i] = o[i]
  BY AppendProperties, LenProperties
<1>2. ASSUME NEW p PROVE Cardinality(Listings(q, p)) = Cardinality(Listings(o, p))
  <2>1. x # Program!Token("file", p)
    BY DEF Program!Token
  <2> QED BY <2>1, ListingsOneMore
<1>3. q = o \o <<x>>
  BY AppendIsConcat
<1> HIDE DEF q
<1>4. ASSUME NEW j \in 1..Len(q), q[j].t = "file" PROVE \E i \in 1..Len(o) : q[j] = o[i]
  <2>1. j # Len(o) + 1
    BY <1>1, <1>4
  <2>2. j \in 1..Len(o)
    BY <1>1, <2>1
  <2> QED BY <1>1, <2>2
<1>5. SameFiles(o, q)
  BY <1>1, <1>2, <1>4 DEF SameFiles
<1> QED BY <1>3, <1>5 DEF q

\* One text after another.
LEMMA SameFilesAgain ==
  ASSUME NEW o, NEW q, NEW s, SameFiles(o, q), SameFiles(q, s)
  PROVE  SameFiles(o, s)
BY Zenon DEF SameFiles

\* No token more.
LEMMA NothingMore ==
  ASSUME NEW o \in Seq(TokenSet)
  PROVE  o \o <<>> = o /\ SameFiles(o, o)
<1>1. o \o <<>> = o
  BY ConcatEmptySeq
<1>2. SameFiles(o, o)
  BY Zenon DEF SameFiles
<1> QED BY <1>1, <1>2

\* The tokens of a directory and the separators list no file.
LEMMA NoFiles ==
  ASSUME NEW o \in Seq(TokenSet), NEW x \in TokenSet, x.t # "file", NEW b
  PROVE  /\ SameFiles(o, o \o IF b THEN <<>> ELSE <<x>>)
         /\ SameFiles(o, o \o IF b THEN <<x>> ELSE <<>>)
<1>1. SameFiles(o, o \o <<x>>) /\ SameFiles(o, o \o <<>>)
  BY NoFile, NothingMore
<1>2. SameFiles(o, o \o IF b THEN <<>> ELSE <<x>>)
  <2>1. CASE b
    BY <1>1, <2>1, Zenon
  <2>2. CASE ~b
    BY <1>1, <2>2, Zenon
  <2> QED BY <2>1, <2>2
<1>3. SameFiles(o, o \o IF b THEN <<x>> ELSE <<>>)
  <2>1. CASE b
    BY <1>1, <2>1, Zenon
  <2>2. CASE ~b
    BY <1>1, <2>2, Zenon
  <2> QED BY <2>1, <2>2
<1> QED BY <1>2, <1>3

\* What the steps of the walk write around the files.
LEMMA OpeningText ==
  ASSUME NEW o \in Seq(TokenSet), NEW path \in Places, NEW b
  PROVE  SameFiles(o, Append(o, Program!Token(Opening, path))
                        \o IF b THEN <<>> ELSE <<Program!Token(List, path)>>)
<1> DEFINE x == Program!Token(Opening, path)
           y == Program!Token(List, path)
           p == Append(o, x)
<1>1. x \in TokenSet /\ y \in TokenSet /\ x.t # "file" /\ y.t # "file"
  <2>1. x \in TokenSet /\ y \in TokenSet /\ x.t = Opening /\ y.t = List
    BY IsToken DEF Texts
  <2>2. Opening # "file" /\ List # "file"
    BY Zenon DEF Opening, List
  <2> QED BY <2>1, <2>2
<1> HIDE DEF x, y
<1>2. SameFiles(o, p)
  BY <1>1, NoFile
<1> HIDE DEF p
<1>3. SameFiles(p, p \o IF b THEN <<>> ELSE <<y>>)
  <2>1. p \in Seq(TokenSet)
    BY <1>2 DEF SameFiles
  <2> QED BY <1>1, <2>1, NoFiles
<1> QED BY <1>2, <1>3, SameFilesAgain DEF p, x, y

\* The end of a directory lists no file.
LEMMA ClosingText ==
  ASSUME NEW o \in Seq(TokenSet), NEW path \in Places, NEW b
  PROVE  SameFiles(o, o \o ((IF b THEN <<>> ELSE <<Program!Token(EndList, path)>>)
                            \o <<Program!Token(Close, path)>>))
<1> DEFINE x == Program!Token(EndList, path)
           y == Program!Token(Close, path)
           head == IF b THEN <<>> ELSE <<x>>
           p == o \o head
<1>1. x \in TokenSet /\ y \in TokenSet /\ x.t # "file" /\ y.t # "file"
  <2>1. x \in TokenSet /\ y \in TokenSet /\ x.t = EndList /\ y.t = Close
    BY IsToken DEF Texts
  <2>2. EndList # "file" /\ Close # "file"
    BY Zenon DEF EndList, Close
  <2> QED BY <2>1, <2>2
<1> HIDE DEF x, y
<1>2. SameFiles(o, p)
  BY <1>1, NoFiles, Zenon
<1>3. head \in Seq(TokenSet) /\ <<y>> \in Seq(TokenSet)
  BY <1>1
<1>4. o \o (head \o <<y>>) = p \o <<y>>
  BY <1>3, ConcatAssociative
<1> HIDE DEF p, head
<1>5. SameFiles(p, p \o <<y>>)
  <2>1. p \in Seq(TokenSet)
    BY <1>2 DEF SameFiles
  <2> QED BY <1>1, <2>1, NoFile
<1>6. SameFiles(o, o \o (head \o <<y>>))
  BY <1>2, <1>4, <1>5, SameFilesAgain
<1> QED BY <1>6 DEF head, x, y

\* A separator lists no file.
LEMMA SeparatorText ==
  ASSUME NEW o \in Seq(TokenSet), NEW f, NEW b
  PROVE  /\ SameFiles(o, o \o Program!Separator(f))
         /\ SameFiles(o, o \o IF b THEN <<Program!Comma>> ELSE <<>>)
<1>1. Program!Comma \in TokenSet /\ Program!Comma.t # "file"
  <2>1. Sep # "file"
    BY Zenon DEF Sep
  <2> QED BY <2>1, IsToken
<1>2. \A c : SameFiles(o, o \o IF c THEN <<Program!Comma>> ELSE <<>>)
  BY <1>1, NoFiles
<1> QED BY <1>2, Zenon DEF Program!Separator

-----------------------------------------------------------------------------
(* The tree that was read.                                                  *)

\* p is q or below it.
Covers(p, q) == Len(p) >= Len(q) /\ \A i \in 1..Len(q) : p[i] = q[i]

\* p is a preferred entry, and what it is.
IsEntry(t, p, kind) ==
  \E d \in DOMAIN t : \E n \in Preferred(DOMAIN t[d]) : p = Append(d, n) /\ t[d][n] = kind

\* The name k of d is a preferred directory of the tree.
Step(t, d, k) ==
  \E e \in DOMAIN t :
    /\ Len(e) = k - 1 /\ Covers(d, e)
    /\ d[k] \in Preferred(DOMAIN t[e]) /\ t[e][d[k]] = "directory"

\* Every directory was reached from a root.
TreeInv(t, r) ==
  \A d \in DOMAIN t :
    /\ d \in Places /\ d # <<>> /\ DOMAIN t[d] \in SUBSET Names
    /\ \E j \in 1..Len(r) : d[1] = Generic[r[j]]
    /\ \A k \in 2..Len(d) : Step(t, d, k)

\* A path is determined by its names.
LEMMA SamePath ==
  ASSUME NEW p \in Places, NEW q \in Places, Covers(p, q), Len(p) = Len(q)
  PROVE  p = q
BY SeqEqual DEF Places, Covers

\* The path of an entry.
LEMMA EntryPath ==
  ASSUME NEW t, NEW r, TreeInv(t, r), NEW d \in DOMAIN t, NEW n \in Preferred(DOMAIN t[d])
  PROVE  /\ d \in Places /\ Len(d) \in Nat \ {0} /\ n \in Names /\ n \in PathNames
         /\ Append(d, n) \in Places /\ Len(Append(d, n)) = Len(d) + 1
         /\ Append(d, n)[Len(d) + 1] = n
         /\ \A i \in 1..Len(d) : Append(d, n)[i] = d[i]
         /\ Covers(Append(d, n), d)
<1>1. d \in Places /\ d # <<>> /\ DOMAIN t[d] \in SUBSET Names
  BY Zenon DEF TreeInv
<1>2. n \in Names /\ n \in PathNames
  BY <1>1 DEF Preferred, PathNames
<1>3. Len(d) \in Nat \ {0}
  BY <1>1, EmptySeq DEF Places
<1>4. /\ Append(d, n) \in Places /\ Len(Append(d, n)) = Len(d) + 1
      /\ Append(d, n)[Len(d) + 1] = n
      /\ \A i \in 1..Len(d) : Append(d, n)[i] = d[i]
  BY <1>1, <1>2, AppendProperties DEF Places
<1>5. Covers(Append(d, n), d)
  BY <1>3, <1>4 DEF Covers
<1> QED BY <1>1, <1>2, <1>3, <1>4, <1>5

\* What a directory of the tree says of the entries below it.
LEMMA Below ==
  ASSUME NEW t, NEW r, TreeInv(t, r), NEW d \in DOMAIN t, NEW n \in Preferred(DOMAIN t[d]),
         NEW p, p = Append(d, n), NEW e \in DOMAIN t, Len(e) < Len(p), Covers(p, e)
  PROVE  /\ p[Len(e) + 1] \in Preferred(DOMAIN t[e])
         /\ Len(e) + 1 < Len(p) => t[e][p[Len(e) + 1]] = "directory"
         /\ Len(e) + 1 = Len(p) => e = d /\ p[Len(e) + 1] = n
<1>1. /\ d \in Places /\ Len(d) \in Nat \ {0} /\ Len(p) = Len(d) + 1 /\ p[Len(d) + 1] = n
      /\ \A i \in 1..Len(d) : p[i] = d[i]
  BY EntryPath
<1>2. e \in Places /\ e # <<>>
  BY Zenon DEF TreeInv
<1>3. Len(e) \in Nat \ {0}
  BY <1>2, EmptySeq DEF Places
<1>4. Len(e) <= Len(d)
  BY <1>1, <1>3
<1>5. Covers(d, e)
  BY <1>1, <1>3, <1>4 DEF Covers
<1>6. CASE Len(e) = Len(d)
  <2>1. e = d
    BY <1>1, <1>2, <1>5, <1>6, SamePath
  <2>2. ~(Len(e) + 1 < Len(p)) /\ p[Len(e) + 1] = n
    BY <1>1, <1>6
  <2> QED BY <2>1, <2>2
<1>7. CASE Len(e) # Len(d)
  <2> DEFINE k == Len(e) + 1
  <2>1. k \in 2..Len(d) /\ k - 1 = Len(e) /\ k # Len(p)
    BY <1>1, <1>3, <1>4, <1>7
  <2>2. p[k] = d[k]
    <3>1. k \in 1..Len(d)
      BY <2>1
    <3> QED BY <3>1, <1>1
  <2> HIDE DEF k
  <2>3. Step(t, d, k)
    BY <2>1, Zenon DEF TreeInv
  <2>4. PICK b \in DOMAIN t : /\ Len(b) = k - 1 /\ Covers(d, b)
                              /\ d[k] \in Preferred(DOMAIN t[b]) /\ t[b][d[k]] = "directory"
    BY <2>3, Zenon DEF Step
  <2>5. b \in Places
    BY Zenon DEF TreeInv
  <2>6. b = e
    <3>1. Len(b) = Len(e)
      BY <2>1, <2>4
    <3>2. Covers(b, e)
      <4>1. \A i \in 1..Len(e) : b[i] = d[i] /\ e[i] = d[i]
        BY <2>4, <3>1, <1>5 DEF Covers
      <4>2. Len(b) >= Len(e)
        BY <3>1, <1>3
      <4> QED BY <4>1, <4>2 DEF Covers
    <3> QED BY <3>1, <3>2, <2>5, <1>2, SamePath
  <2> QED BY <2>1, <2>2, <2>4, <2>6 DEF k
<1> QED BY <1>6, <1>7

\* Nothing is below a file.
LEMMA NothingBelow ==
  ASSUME NEW t, NEW r, TreeInv(t, r), NEW d \in DOMAIN t, NEW n \in Preferred(DOMAIN t[d]),
         NEW e \in DOMAIN t, NEW m \in Preferred(DOMAIN t[e]), t[e][m] = "file",
         Covers(Append(d, n), Append(e, m))
  PROVE  Append(d, n) = Append(e, m)
<1> DEFINE p == Append(d, n)
           q == Append(e, m)
<1>1. p \in Places /\ Len(d) \in Nat \ {0} /\ Len(p) = Len(d) + 1
  BY EntryPath
<1>2. /\ q \in Places /\ Len(e) \in Nat \ {0} /\ Len(q) = Len(e) + 1 /\ q[Len(e) + 1] = m
      /\ \A i \in 1..Len(e) : q[i] = e[i]
  BY EntryPath
<1>3. Covers(p, q) /\ p = Append(d, n)
  OBVIOUS
<1> HIDE DEF p, q
<1>4. Len(e) < Len(p) /\ Covers(p, e) /\ p[Len(e) + 1] = m
  BY <1>1, <1>2, <1>3 DEF Covers
<1>5. ~(Len(e) + 1 < Len(p))
  <2>1. t[e][p[Len(e) + 1]] # "directory"
    BY <1>4
  <2> QED BY <1>3, <1>4, <2>1, Below
<1>6. Len(p) = Len(q)
  BY <1>1, <1>2, <1>4, <1>5
<1>7. p = q
  BY <1>1, <1>2, <1>3, <1>6, SamePath
<1> QED BY <1>7 DEF p, q

\* A directory that was read is no file.
LEMMA NoDirectory ==
  ASSUME NEW t, NEW r, TreeInv(t, r), NEW p \in DOMAIN t
  PROVE  ~IsEntry(t, p, "file")
<1> SUFFICES ASSUME IsEntry(t, p, "file") PROVE FALSE
  OBVIOUS
<1>1. PICK d \in DOMAIN t : \E n \in Preferred(DOMAIN t[d]) : p = Append(d, n) /\ t[d][n] = "file"
  BY Zenon DEF IsEntry
<1>2. PICK n \in Preferred(DOMAIN t[d]) : p = Append(d, n) /\ t[d][n] = "file"
  BY <1>1
<1> DEFINE q == Append(d, n)
<1>3. q = Append(d, n) /\ p = q
  BY <1>2
<1>4. Len(d) \in Nat \ {0} /\ Len(q) = Len(d) + 1 /\ q[Len(d) + 1] = n
  BY EntryPath
<1> HIDE DEF q
<1> DEFINE k == Len(d) + 1
<1>5. k \in 2..Len(p) /\ k - 1 = Len(d) /\ p[k] = n
  BY <1>3, <1>4
<1> HIDE DEF k
<1>6. PICK e \in DOMAIN t : /\ Len(e) = k - 1 /\ Covers(p, e)
                            /\ p[k] \in Preferred(DOMAIN t[e]) /\ t[e][p[k]] = "directory"
  BY <1>5, Zenon DEF TreeInv, Step
<1>7. Len(e) < Len(q) /\ Len(e) + 1 = Len(q) /\ Covers(q, e)
  BY <1>3, <1>4, <1>5, <1>6
<1>8. e = d
  BY <1>3, <1>7, Below
<1> QED BY <1>2, <1>5, <1>6, <1>8

-----------------------------------------------------------------------------
(* What the loops of the calls are past.                                    *)

\* The loop of f, call i, is at the entry that is p or leads to p, or past it.
At(f, i, p) == i < Len(p) /\ Covers(p, f.path) /\ p[i + 1] = f.entries[f.index]
Past(f, i, p) ==
  i < Len(p) /\ Covers(p, f.path) /\ \E j \in 1..(f.index - 1) : p[i + 1] = f.entries[j]

Passed(fs, p) == \E i \in 1..Len(fs) : Past(fs[i], i, p)

\* Each call lists a directory of the tree, at the entry of the call before it.
Lists(f, t, g) ==
  /\ f.path \in DOMAIN t /\ f.entries = Program!Entries(DOMAIN t[f.path])
  /\ f.path[1] = g

Nested(fs, t, r, k) ==
  /\ \A i \in 1..Len(fs) : Lists(fs[i], t, Generic[r[k]])
  /\ \A i, m \in 1..Len(fs) : i < m => At(fs[i], i, fs[m].path)

\* A stack is its front and its last call.
LEMMA FrontAndLast ==
  ASSUME NEW fs, Calls(fs), fs # <<>>
  PROVE  LET rest == Program!Front(fs)
         IN  /\ fs = Append(rest, LastOf(fs)) /\ rest \in Seq(FrameSet) /\ LastOf(fs) \in FrameSet
             /\ Len(rest) = Len(fs) - 1 /\ Len(fs) \in Nat \ {0} /\ Len(rest) \in Nat
             /\ \A i \in 1..Len(rest) : rest[i] = fs[i]
<1> DEFINE rest == Program!Front(fs)
           top == LastOf(fs)
           n == Len(fs) - 1
<1>1. fs \in Seq(FrameSet) /\ Calls(rest) /\ Len(rest) = n /\ Len(fs) \in Nat \ {0} /\ top \in FrameSet
  BY CallsPop DEF Calls
<1>2. n \in Nat /\ Len(fs) = n + 1
  BY <1>1
<1>3. rest \in Seq(FrameSet)
  BY <1>1 DEF Calls
<1>4. rest = SubSeq(fs, 1, n)
  BY DEF Program!Front
<1> HIDE DEF rest, n
<1>5. \A i \in 1..n : rest[i] = fs[i]
  <2>1. \A i \in 1..n : fs[i] \in FrameSet
    <3>1. \A i \in 1..n : i \in 1..Len(fs)
      BY <1>2
    <3> QED BY <1>1, <3>1, ElementOfSeq
  <2>2. \A i \in 1..n - 1 + 1 : rest[i] = fs[1 + i - 1]
    <3>1. 1 \in Int /\ n \in Int
      BY <1>2
    <3> QED BY <3>1, <2>1, <1>4, SubSeqProperties
  <2>3. n - 1 + 1 = n /\ \A i \in 1..n : 1 + i - 1 = i
    BY <1>2
  <2> QED BY <2>2, <2>3
<1> DEFINE gs == Append(rest, top)
<1>6. /\ gs \in Seq(FrameSet) /\ Len(gs) = n + 1 /\ gs[n + 1] = top
      /\ \A i \in 1..n : gs[i] = rest[i]
  BY <1>1, <1>3, AppendProperties
<1>7. top = fs[n + 1]
  BY <1>2 DEF LastOf
<1> HIDE DEF gs, top
<1>8. \A i \in 1..Len(fs) : fs[i] = gs[i]
  <2>1. \A i \in 1..Len(fs) : i \in 1..n \/ i = n + 1
    BY <1>2
  <2> QED BY <2>1, <1>5, <1>6, <1>7
<1>9. fs = gs
  BY <1>1, <1>2, <1>6, <1>8, SeqEqual
<1> QED BY <1>1, <1>2, <1>3, <1>5, <1>9 DEF gs, rest, n, top

\* A call more.
LEMMA PassedAppend ==
  ASSUME NEW fs \in Seq(FrameSet), NEW f \in FrameSet, NEW p
  PROVE  Passed(Append(fs, f), p) <=> Passed(fs, p) \/ Past(f, Len(fs) + 1, p)
<1> DEFINE gs == Append(fs, f)
<1>1. /\ Len(fs) \in Nat /\ Len(gs) = Len(fs) + 1 /\ gs[Len(fs) + 1] = f
      /\ \A i \in 1..Len(fs) : gs[i] = fs[i]
  BY AppendProperties, LenProperties
<1> HIDE DEF gs
<1>2. \A i \in 1..Len(gs) : i \in 1..Len(fs) \/ i = Len(fs) + 1
  BY <1>1
<1>3. /\ \A i \in 1..Len(fs) : i \in 1..Len(gs)
      /\ Len(fs) + 1 \in 1..Len(gs)
  BY <1>1
<1>4. ASSUME Passed(gs, p) PROVE Passed(fs, p) \/ Past(f, Len(fs) + 1, p)
  <2>1. PICK i \in 1..Len(gs) : Past(gs[i], i, p)
    BY <1>4 DEF Passed
  <2>2. CASE i \in 1..Len(fs)
    BY <2>1, <2>2, <1>1 DEF Passed
  <2>3. CASE i = Len(fs) + 1
    BY <2>1, <2>3, <1>1
  <2> QED BY <1>2, <2>2, <2>3
<1>5. ASSUME Passed(fs, p) PROVE Passed(gs, p)
  <2>1. PICK i \in 1..Len(fs) : Past(fs[i], i, p)
    BY <1>5 DEF Passed
  <2>2. i \in 1..Len(gs) /\ Past(gs[i], i, p)
    BY <2>1, <1>1, <1>3
  <2> QED BY <2>2 DEF Passed
<1>6. ASSUME Past(f, Len(fs) + 1, p) PROVE Passed(gs, p)
  <2>1. Past(gs[Len(fs) + 1], Len(fs) + 1, p)
    BY <1>1, <1>6
  <2> QED BY <2>1, <1>3, Zenon DEF Passed
<1> QED BY <1>4, <1>5, <1>6 DEF gs

\* The loop of the last call goes on: it is past the entry it was at.
LEMMA PassedAdvance ==
  ASSUME NEW fs, Calls(fs), fs # <<>>, NEW p
  PROVE  Passed(Program!Advanced(fs), p) <=> Passed(fs, p) \/ At(LastOf(fs), Len(fs), p)
<1> DEFINE rest == Program!Front(fs)
           f == LastOf(fs)
           g == [path |-> f.path, entries |-> f.entries, index |-> f.index + 1]
           L == Len(fs)
<1>1. /\ fs = Append(rest, f) /\ rest \in Seq(FrameSet) /\ f \in FrameSet
      /\ Len(rest) = L - 1 /\ L \in Nat \ {0}
  BY FrontAndLast
<1>2. Program!Advanced(fs) = Append(rest, g)
  BY DEF Program!Advanced, LastOf
<1> HIDE DEF rest, f
<1>3. f.path \in Places /\ f.entries \in Seq(Names) /\ f.index \in Nat \ {0}
  BY <1>1 DEF FrameSet
<1>4. g \in FrameSet /\ g.path = f.path /\ g.entries = f.entries /\ g.index = f.index + 1
  BY <1>3 DEF FrameSet
<1>5. Len(rest) + 1 = L
  BY <1>1
<1> HIDE DEF g, L
<1>6. Passed(fs, p) <=> Passed(rest, p) \/ Past(f, L, p)
  BY <1>1, <1>5, PassedAppend
<1>7. Passed(Append(rest, g), p) <=> Passed(rest, p) \/ Past(g, L, p)
  BY <1>1, <1>4, <1>5, PassedAppend
<1>8. Past(g, L, p) <=> Past(f, L, p) \/ At(f, L, p)
  <2>1. \A j : j \in 1..(g.index - 1) <=> j \in 1..(f.index - 1) \/ j = f.index
    BY <1>3, <1>4
  <2> QED BY <2>1, <1>4, Zenon DEF Past, At
<1> QED BY <1>2, <1>6, <1>7, <1>8 DEF f, L

\* What a call lists.
LEMMA ListsAll ==
  ASSUME NEW t, NEW r, TreeInv(t, r), NEW f, NEW g, Lists(f, t, g)
  PROVE  /\ f.path \in DOMAIN t /\ f.path \in Places
         /\ f.entries \in Seq(Names) /\ Len(f.entries) \in Nat
         /\ \A i \in 1..Len(f.entries) : f.entries[i] \in Preferred(DOMAIN t[f.path])
         /\ \A i, j \in 1..Len(f.entries) : f.entries[i] = f.entries[j] => i = j
         /\ \A n \in Preferred(DOMAIN t[f.path]) : \E i \in 1..Len(f.entries) : f.entries[i] = n
<1>1. f.path \in DOMAIN t /\ f.entries = Program!Entries(DOMAIN t[f.path])
  BY DEF Lists
<1>2. f.path \in Places /\ DOMAIN t[f.path] \in SUBSET Names
  BY <1>1, Zenon DEF TreeInv
<1> QED BY <1>1, <1>2, Listed

\* An entry is passed once.
LEMMA NotPassed ==
  ASSUME NEW t, NEW r, TreeInv(t, r), NEW fs, NEW k, Calls(fs), fs # <<>>, Nested(fs, t, r, k),
         AtEntry(LastOf(fs)), NEW p, At(LastOf(fs), Len(fs), p)
  PROVE  ~Passed(fs, p)
<1> SUFFICES ASSUME NEW i \in 1..Len(fs), Past(fs[i], i, p) PROVE FALSE
  BY Zenon DEF Passed
<1> DEFINE top == LastOf(fs)
           f == fs[i]
<1>1. fs \in Seq(FrameSet) /\ Len(fs) \in Nat \ {0} /\ top \in FrameSet /\ Len(top.path) = Len(fs)
  BY CallsPop DEF Calls
<1>2. PICK j \in 1..(f.index - 1) : p[i + 1] = f.entries[j]
  BY Zenon DEF Past
<1>3. f \in FrameSet
  BY <1>1, ElementOfSeq
<1>4. Lists(f, t, Generic[r[k]])
  BY Zenon DEF Nested
<1>5. f.index \in Nat \ {0} /\ f.index <= Len(f.entries)
  <2>1. f.index \in Nat \ {0}
    BY <1>3 DEF FrameSet
  <2>2. CASE i = Len(fs)
    BY <2>1, <2>2 DEF AtEntry, LastOf
  <2>3. CASE i # Len(fs)
    <3>1. i < Len(fs)
      BY <2>3, <1>1
    <3> QED BY <2>1, <3>1, Zenon DEF Calls
  <2> QED BY <2>2, <2>3
<1>6. p[i + 1] = f.entries[f.index]
  <2>1. CASE i = Len(fs)
    BY <2>1, Zenon DEF At, LastOf
  <2>2. CASE i # Len(fs)
    <3>1. i < Len(fs) /\ Len(fs) \in 1..Len(fs) /\ i + 1 \in 1..Len(top.path)
      BY <2>2, <1>1
    <3>2. At(f, i, top.path)
      BY <3>1, Zenon DEF Nested, LastOf
    <3>3. p[i + 1] = top.path[i + 1]
      BY <3>1, Zenon DEF At, Covers
    <3> QED BY <3>2, <3>3, Zenon DEF At
  <2> QED BY <2>1, <2>2
<1>7. \A a, b \in 1..Len(f.entries) : f.entries[a] = f.entries[b] => a = b
  BY <1>4, ListsAll
<1> HIDE DEF f, top
<1>8. j \in 1..Len(f.entries) /\ f.index \in 1..Len(f.entries) /\ j # f.index
  <2>1. f.entries \in Seq(Names)
    BY <1>4, ListsAll
  <2>2. Len(f.entries) \in Nat
    BY <2>1, LenProperties
  <2> QED BY <1>5, <2>2
<1> QED BY <1>2, <1>6, <1>7, <1>8, Zenon

\* A call is pushed on nested calls that lead to it.
LEMMA NestedAppend ==
  ASSUME NEW t, NEW r, NEW k, NEW fs \in Seq(FrameSet), Nested(fs, t, r, k),
         NEW f \in FrameSet, Lists(f, t, Generic[r[k]]),
         \A i \in 1..Len(fs) : At(fs[i], i, f.path)
  PROVE  Nested(Append(fs, f), t, r, k)
<1> DEFINE gs == Append(fs, f)
<1>1. /\ Len(fs) \in Nat /\ Len(gs) = Len(fs) + 1 /\ gs[Len(fs) + 1] = f
      /\ \A i \in 1..Len(fs) : gs[i] = fs[i]
  BY AppendProperties, LenProperties
<1> HIDE DEF gs
<1>2. \A i \in 1..Len(gs) : i \in 1..Len(fs) \/ i = Len(fs) + 1
  BY <1>1
<1>3. ASSUME NEW i \in 1..Len(gs) PROVE Lists(gs[i], t, Generic[r[k]])
  <2>1. CASE i \in 1..Len(fs)
    BY <2>1, <1>1, Zenon DEF Nested
  <2>2. CASE i = Len(fs) + 1
    BY <2>2, <1>1, Zenon
  <2> QED BY <1>2, <2>1, <2>2
<1>4. ASSUME NEW i \in 1..Len(gs), NEW m \in 1..Len(gs), i < m PROVE At(gs[i], i, gs[m].path)
  <2>1. i \in 1..Len(fs)
    BY <1>1, <1>4
  <2>2. CASE m \in 1..Len(fs)
    BY <2>1, <2>2, <1>1, <1>4, Zenon DEF Nested
  <2>3. CASE m = Len(fs) + 1
    BY <2>1, <2>3, <1>1, Zenon
  <2> QED BY <1>2, <2>2, <2>3
<1> QED BY <1>3, <1>4, Zenon DEF Nested, gs

\* A call is popped.
LEMMA NestedPop ==
  ASSUME NEW t, NEW r, NEW k, NEW fs, Calls(fs), fs # <<>>, Nested(fs, t, r, k)
  PROVE  LET rest == Program!Front(fs)
         IN  /\ Nested(rest, t, r, k) /\ Lists(LastOf(fs), t, Generic[r[k]])
             /\ \A i \in 1..Len(rest) : At(rest[i], i, LastOf(fs).path)
<1> DEFINE rest == Program!Front(fs)
           top == LastOf(fs)
<1>1. /\ Len(rest) = Len(fs) - 1 /\ Len(fs) \in Nat \ {0}
      /\ \A i \in 1..Len(rest) : rest[i] = fs[i]
  BY FrontAndLast
<1>2. top = fs[Len(fs)]
  BY DEF LastOf
<1> HIDE DEF rest, top
<1>3. /\ \A i \in 1..Len(rest) : i \in 1..Len(fs) /\ i < Len(fs)
      /\ Len(fs) \in 1..Len(fs)
  BY <1>1
<1>4. Nested(rest, t, r, k)
  <2>1. \A i \in 1..Len(rest) : Lists(rest[i], t, Generic[r[k]])
    BY <1>1, <1>3, Zenon DEF Nested
  <2>2. ASSUME NEW i \in 1..Len(rest), NEW m \in 1..Len(rest), i < m
        PROVE  At(rest[i], i, rest[m].path)
    <3>1. At(fs[i], i, fs[m].path)
      BY <1>3, <2>2, Zenon DEF Nested
    <3> QED BY <3>1, <1>1
  <2> QED BY <2>1, <2>2, Zenon DEF Nested
<1>5. Lists(top, t, Generic[r[k]])
  BY <1>2, <1>3, Zenon DEF Nested
<1>6. ASSUME NEW i \in 1..Len(rest) PROVE At(rest[i], i, top.path)
  <2>1. At(fs[i], i, fs[Len(fs)].path)
    BY <1>3, Zenon DEF Nested
  <2> QED BY <2>1, <1>1, <1>2
<1> QED BY <1>4, <1>5, <1>6 DEF rest, top

\* The loop of the last call goes on.
LEMMA NestedAdvance ==
  ASSUME NEW t, NEW r, NEW k, NEW fs, Calls(fs), fs # <<>>, Nested(fs, t, r, k)
  PROVE  Nested(Program!Advanced(fs), t, r, k)
<1> DEFINE rest == Program!Front(fs)
           f == LastOf(fs)
           g == [path |-> f.path, entries |-> f.entries, index |-> f.index + 1]
<1>1. rest \in Seq(FrameSet) /\ f \in FrameSet
  BY FrontAndLast
<1>2. Program!Advanced(fs) = Append(rest, g)
  BY DEF Program!Advanced, LastOf
<1>3. /\ Nested(rest, t, r, k) /\ Lists(f, t, Generic[r[k]])
      /\ \A i \in 1..Len(rest) : At(rest[i], i, f.path)
  BY NestedPop
<1> HIDE DEF rest, f
<1>4. f.path \in Places /\ f.entries \in Seq(Names) /\ f.index \in Nat \ {0}
  BY <1>1 DEF FrameSet
<1>5. g \in FrameSet /\ g.path = f.path /\ g.entries = f.entries
  BY <1>4 DEF FrameSet
<1> HIDE DEF g
<1>6. Lists(g, t, Generic[r[k]])
  BY <1>3, <1>5 DEF Lists
<1>7. \A i \in 1..Len(rest) : At(rest[i], i, g.path)
  BY <1>3, <1>5
<1>8. Nested(Append(rest, g), t, r, k)
  BY <1>1, <1>3, <1>5, <1>6, <1>7, NestedAppend
<1> QED BY <1>2, <1>8 DEF g

\* The entry at which the last call is, and what leads to it.
LEMMA TheEntry ==
  ASSUME NEW t, NEW r, TreeInv(t, r), NEW k, NEW fs, Calls(fs), fs # <<>>, Nested(fs, t, r, k),
         AtEntry(LastOf(fs))
  PROVE  LET f == LastOf(fs)
             n == f.entries[f.index]
             p == Append(f.path, n)
         IN  /\ f.path \in DOMAIN t /\ n \in Preferred(DOMAIN t[f.path])
             /\ p \in Places /\ Len(p) = Len(fs) + 1 /\ p[1] = Generic[r[k]]
             /\ \A i \in 1..Len(fs) : At(fs[i], i, p)
             /\ \A q \in Places : At(f, Len(fs), q) <=> Covers(q, p)
<1> DEFINE f == LastOf(fs)
           n == f.entries[f.index]
           p == Append(f.path, n)
           L == Len(fs)
<1>1. L \in Nat \ {0} /\ f \in FrameSet /\ Len(f.path) = L
  BY CallsPop
<1>2. /\ Lists(f, t, Generic[r[k]])
      /\ \A i \in 1..Len(fs) : i < L => At(fs[i], i, f.path)
  <2>1. L \in 1..Len(fs)
    BY <1>1
  <2> QED BY <2>1, Zenon DEF Nested, LastOf
<1>3. f.index \in 1..Len(f.entries)
  <2>1. f.index \in Nat \ {0} /\ f.index <= Len(f.entries)
    BY <1>1 DEF FrameSet, AtEntry
  <2>2. Len(f.entries) \in Nat
    BY <1>2, ListsAll
  <2> QED BY <2>1, <2>2
<1>4. f.path \in DOMAIN t /\ n \in Preferred(DOMAIN t[f.path])
  BY <1>2, <1>3, ListsAll
<1>5. /\ p \in Places /\ Len(p) = L + 1 /\ p[L + 1] = n /\ Covers(p, f.path)
      /\ \A i \in 1..L : p[i] = f.path[i]
  BY <1>1, <1>4, EntryPath
<1> HIDE DEF p
<1>6. p[1] = Generic[r[k]]
  <2>1. 1 \in 1..L
    BY <1>1
  <2> QED BY <2>1, <1>2, <1>5 DEF Lists
<1>7. ASSUME NEW i \in 1..Len(fs) PROVE At(fs[i], i, p)
  <2>1. CASE i = L
    <3>1. i < Len(p)
      BY <2>1, <1>1, <1>5
    <3>2. fs[i] = f /\ p[i + 1] = f.entries[f.index]
      BY <2>1, <1>5 DEF LastOf
    <3> QED BY <3>1, <3>2, <1>5, Zenon DEF At
  <2>2. CASE i # L
    <3>1. i < L /\ i + 1 \in 1..L /\ i < Len(p)
      BY <2>2, <1>1, <1>5
    <3>2. At(fs[i], i, f.path)
      BY <3>1, <1>2
    <3>3. p[i + 1] = fs[i].entries[fs[i].index]
      BY <3>1, <3>2, <1>5 DEF At
    <3>4. Len(fs[i].path) = i
      BY Zenon DEF Calls
    <3>5. Covers(p, fs[i].path)
      <4>1. Covers(f.path, fs[i].path)
        BY <3>2 DEF At
      <4>2. \A x \in 1..i : p[x] = fs[i].path[x]
        <5>1. \A x \in 1..i : x \in 1..L
          BY <3>1, <1>1
        <5> QED BY <4>1, <5>1, <3>4, <1>5 DEF Covers
      <4>3. Len(p) >= Len(fs[i].path)
        BY <3>1, <3>4, <1>5, <1>1
      <4> QED BY <3>4, <4>2, <4>3 DEF Covers
    <3> QED BY <3>1, <3>3, <3>5, Zenon DEF At
  <2> QED BY <2>1, <2>2
<1>8. ASSUME NEW q \in Places PROVE At(f, L, q) <=> Covers(q, p)
  <2>0. Len(q) \in Nat
    BY LenProperties DEF Places
  <2>1. ASSUME At(f, L, q) PROVE Covers(q, p)
    <3>1. L < Len(q) /\ Covers(q, f.path) /\ q[L + 1] = n
      BY <2>1 DEF At
    <3>2. \A i \in 1..L : q[i] = p[i]
      BY <3>1, <1>1, <1>5 DEF Covers
    <3>3. \A i \in 1..Len(p) : i \in 1..L \/ i = L + 1
      BY <1>1, <1>5
    <3>4. \A i \in 1..Len(p) : q[i] = p[i]
      BY <3>1, <3>2, <3>3, <1>5
    <3>5. Len(q) >= Len(p)
      BY <2>0, <3>1, <1>1, <1>5
    <3> QED BY <3>4, <3>5 DEF Covers
  <2>2. ASSUME Covers(q, p) PROVE At(f, L, q)
    <3>1. L < Len(q) /\ q[L + 1] = n
      BY <2>0, <2>2, <1>1, <1>5 DEF Covers
    <3>2. Covers(q, f.path)
      BY <2>0, <2>2, <1>1, <1>5 DEF Covers
    <3> QED BY <3>1, <3>2 DEF At
  <2> QED BY <2>1, <2>2
<1> QED BY <1>4, <1>5, <1>6, <1>7, <1>8 DEF p, f, n, L

\* A call that is at its end is past everything below its directory.
LEMMA PastEverything ==
  ASSUME NEW t, NEW r, TreeInv(t, r), NEW k, NEW fs, Calls(fs), fs # <<>>, Nested(fs, t, r, k),
         ~AtEntry(LastOf(fs)), NEW d \in DOMAIN t, NEW n \in Preferred(DOMAIN t[d])
  PROVE  Past(LastOf(fs), Len(fs), Append(d, n)) <=>
           Len(fs) < Len(Append(d, n)) /\ Covers(Append(d, n), LastOf(fs).path)
<1> DEFINE f == LastOf(fs)
           L == Len(fs)
           p == Append(d, n)
<1>1. L \in Nat \ {0} /\ f \in FrameSet /\ f.index <= Len(f.entries) + 1 /\ Len(f.path) = L
  BY CallsPop
<1>2. Lists(f, t, Generic[r[k]])
  BY NestedPop
<1>3. /\ f.path \in DOMAIN t /\ Len(f.entries) \in Nat
      /\ \A m \in Preferred(DOMAIN t[f.path]) : \E i \in 1..Len(f.entries) : f.entries[i] = m
  BY <1>2, ListsAll
<1>4. f.index - 1 = Len(f.entries)
  <2>1. f.index \in Nat \ {0}
    BY <1>1 DEF FrameSet
  <2> QED BY <2>1, <1>1, <1>3 DEF AtEntry
<1>5. p = Append(d, n)
  OBVIOUS
<1> HIDE DEF p, f, L
<1>6. ASSUME L < Len(p), Covers(p, f.path) PROVE Past(f, L, p)
  <2>1. p[L + 1] \in Preferred(DOMAIN t[f.path])
    <3>1. Len(f.path) < Len(p)
      BY <1>1, <1>6
    <3>2. p[Len(f.path) + 1] \in Preferred(DOMAIN t[f.path])
      BY <3>1, <1>3, <1>5, <1>6, Below
    <3> QED BY <3>2, <1>1
  <2>2. \E j \in 1..(f.index - 1) : p[L + 1] = f.entries[j]
    BY <2>1, <1>3, <1>4
  <2> QED BY <1>6, <2>2, Zenon DEF Past
<1>7. Past(f, L, p) => L < Len(p) /\ Covers(p, f.path)
  BY Zenon DEF Past
<1> QED BY <1>6, <1>7 DEF p, f, L

\* When a root is closed, everything below it is passed.
LEMMA RootPassed ==
  ASSUME NEW t, NEW r, TreeInv(t, r), NEW k, NEW fs, Calls(fs), Len(fs) = 1, Nested(fs, t, r, k),
         ~AtEntry(LastOf(fs)), NEW d \in DOMAIN t, NEW n \in Preferred(DOMAIN t[d])
  PROVE  Passed(fs, Append(d, n)) <=> Append(d, n)[1] = Generic[r[k]]
<1> DEFINE f == LastOf(fs)
           p == Append(d, n)
<1>0. fs # <<>>
  <2>1. Len(<<>>) = 0
    OBVIOUS
  <2> QED BY <2>1
<1>1. Len(f.path) = 1 /\ f.path[1] = Generic[r[k]]
  <2>1. Len(f.path) = Len(fs)
    BY <1>0, CallsPop
  <2>2. Lists(f, t, Generic[r[k]])
    BY <1>0, NestedPop
  <2> QED BY <2>1, <2>2 DEF Lists
<1>2. Len(p) \in Nat /\ 1 < Len(p)
  <2>1. Len(d) \in Nat \ {0} /\ Len(p) = Len(d) + 1
    BY EntryPath
  <2> HIDE DEF p
  <2> QED BY <2>1
<1>3. Past(f, Len(fs), p) <=> Len(fs) < Len(p) /\ Covers(p, f.path)
  BY <1>0, PastEverything
<1> HIDE DEF p, f
<1>4. Past(f, 1, p) <=> p[1] = Generic[r[k]]
  BY <1>1, <1>2, <1>3 DEF Covers
<1>5. Passed(fs, p) <=> Past(f, 1, p)
  <2>1. fs[1] = f /\ 1..Len(fs) = {1}
    BY DEF LastOf, f
  <2> QED BY <2>1, Zenon DEF Passed
<1> QED BY <1>4, <1>5 DEF p, f

\* When another directory is closed, its parent has passed what is below it, and itself.
LEMMA DirectoryPassed ==
  ASSUME NEW t, NEW r, TreeInv(t, r), NEW k, NEW fs, Calls(fs), fs # <<>>, Nested(fs, t, r, k),
         ~AtEntry(LastOf(fs)), Program!Front(fs) # <<>>,
         NEW d \in DOMAIN t, NEW n \in Preferred(DOMAIN t[d]), Append(d, n) # LastOf(fs).path
  PROVE  Passed(Program!Advanced(Program!Front(fs)), Append(d, n)) <=> Passed(fs, Append(d, n))
<1> DEFINE f == LastOf(fs)
           rest == Program!Front(fs)
           q == LastOf(rest)
           p == Append(d, n)
           L == Len(fs)
           m == Len(rest)
<1>1. /\ fs = Append(rest, f) /\ rest \in Seq(FrameSet) /\ f \in FrameSet
      /\ m = L - 1 /\ L \in Nat \ {0}
  BY FrontAndLast
<1>2. /\ Calls(rest) /\ AtEntry(q) /\ Len(f.path) = L
  BY CallsPop
<1>3. m \in Nat \ {0} /\ Len(q.path) = m /\ L = m + 1
  <2>1. m \in Nat \ {0} /\ Len(q.path) = m
    BY <1>2, CallsPop
  <2> QED BY <2>1, <1>1
<1>4. At(q, m, f.path) /\ Lists(f, t, Generic[r[k]])
  <2>1. \A i \in 1..m : At(rest[i], i, f.path)
    BY NestedPop
  <2>2. m \in 1..m
    BY <1>3
  <2>3. Lists(f, t, Generic[r[k]])
    BY NestedPop
  <2> QED BY <2>1, <2>2, <2>3, Zenon DEF LastOf
<1>5. p \in Places /\ Len(p) \in Nat /\ f.path \in Places
  <2>1. f.path \in Places
    BY <1>1 DEF FrameSet
  <2>2. p \in Places
    BY EntryPath
  <2> QED BY <2>1, <2>2, LenProperties DEF Places
<1>6. Past(f, L, p) <=> L < Len(p) /\ Covers(p, f.path)
  BY PastEverything
<1>7. Passed(Program!Advanced(rest), p) <=> Passed(rest, p) \/ At(q, m, p)
  BY <1>2, PassedAdvance
<1>8. p # f.path
  OBVIOUS
<1> HIDE DEF f, rest, q, p, L, m
<1>9. Passed(fs, p) <=> Passed(rest, p) \/ Past(f, L, p)
  <2>1. Len(rest) + 1 = L
    BY <1>3 DEF m
  <2> QED BY <2>1, <1>1, PassedAppend
<1>10. ASSUME Past(f, L, p) PROVE At(q, m, p)
  <2>1. L < Len(p) /\ Covers(p, f.path)
    BY <1>6, <1>10
  <2>2. m < Len(p) /\ m + 1 \in 1..L
    BY <2>1, <1>3, <1>5
  <2>3. p[m + 1] = q.entries[q.index]
    BY <2>1, <2>2, <1>2, <1>4 DEF At, Covers
  <2>4. Covers(p, q.path)
    <3>1. \A i \in 1..m : i \in 1..L
      BY <1>3
    <3>2. \A i \in 1..m : p[i] = q.path[i]
      BY <3>1, <2>1, <1>2, <1>3, <1>4 DEF At, Covers
    <3> QED BY <3>2, <2>2, <1>3, <1>5 DEF Covers
  <2> QED BY <2>2, <2>3, <2>4, Zenon DEF At
<1>11. ASSUME At(q, m, p) PROVE Past(f, L, p)
  <2>1. m < Len(p) /\ Covers(p, q.path) /\ p[m + 1] = q.entries[q.index]
    BY <1>11 DEF At
  <2>2. \A i \in 1..m : p[i] = f.path[i]
    BY <2>1, <1>3, <1>4 DEF At, Covers
  <2>3. p[L] = f.path[L]
    BY <2>1, <1>3, <1>4 DEF At
  <2>4. Covers(p, f.path)
    <3>1. \A i \in 1..Len(f.path) : i \in 1..m \/ i = L
      BY <1>2, <1>3
    <3>2. \A i \in 1..Len(f.path) : p[i] = f.path[i]
      BY <3>1, <2>2, <2>3
    <3>3. Len(p) >= Len(f.path)
      BY <2>1, <1>2, <1>3, <1>5
    <3> QED BY <3>2, <3>3 DEF Covers
  <2>5. Len(p) # L
    <3> SUFFICES ASSUME Len(p) = L PROVE FALSE
      OBVIOUS
    <3>1. Len(p) = Len(f.path)
      BY <1>2
    <3> QED BY <3>1, <2>4, <1>5, <1>8, SamePath
  <2>6. L < Len(p)
    BY <2>1, <2>5, <1>3, <1>5
  <2> QED BY <2>4, <2>6, <1>6
<1> QED BY <1>7, <1>9, <1>10, <1>11 DEF f, rest, q, p, L, m

-----------------------------------------------------------------------------
(* The files that the walk has listed.                                      *)

\* The roots before k from which p can be reached, and how often p is due.
Earlier(r, k, p) == {i \in 1..Len(r) : i < k /\ Generic[r[i]] = p[1]}
Due(fs, r, k, p) == Cardinality(Earlier(r, k, p)) + IF Passed(fs, p) THEN 1 ELSE 0

FilesOnly(o, t) == \A j \in 1..Len(o) : o[j].t = "file" => IsEntry(t, o[j].path, "file")

\* Every file is listed as often as it was passed, and every directory that was
\* passed was read.
Listing(o, fs, r, k, t) ==
  /\ FilesOnly(o, t)
  /\ \A p : IsEntry(t, p, "file") => Cardinality(Listings(o, p)) = Due(fs, r, k, p)
  /\ \A p : IsEntry(t, p, "directory") /\ (Earlier(r, k, p) # {} \/ Passed(fs, p)) => p \in DOMAIN t
  /\ \A i \in 1..Len(r) : i < k => <<Generic[r[i]]>> \in DOMAIN t

\* The text matters only for the files it lists.
LEMMA ListingSame ==
  ASSUME NEW o, NEW q, NEW fs, NEW r, NEW k, NEW t, Listing(o, fs, r, k, t), SameFiles(o, q)
  PROVE  Listing(q, fs, r, k, t)
<1>1. FilesOnly(q, t)
  <2> SUFFICES ASSUME NEW j \in 1..Len(q), q[j].t = "file" PROVE IsEntry(t, q[j].path, "file")
    BY Zenon DEF FilesOnly
  <2>1. PICK i \in 1..Len(o) : q[j] = o[i]
    BY Zenon DEF SameFiles
  <2>2. o[i].t = "file"
    BY <2>1
  <2>3. IsEntry(t, o[i].path, "file")
    BY <2>2, Zenon DEF Listing, FilesOnly
  <2> QED BY <2>1, <2>3
<1>2. ASSUME NEW p, IsEntry(t, p, "file") PROVE Cardinality(Listings(q, p)) = Due(fs, r, k, p)
  BY <1>2, Zenon DEF Listing, SameFiles
<1> QED BY <1>1, <1>2, Zenon DEF Listing

\* The walk has reached path, which is not passed unless it was read.
Reached(path, fs, r, k, t) ==
  /\ path \in Places /\ path # <<>> /\ \E j \in 1..Len(r) : path[1] = Generic[r[j]]
  /\ \A i \in 2..Len(path) : Step(t, path, i)
  /\ path \notin DOMAIN t =>
       \A n \in Names : /\ Earlier(r, k, Append(path, n)) = {}
                        /\ ~Passed(fs, Append(path, n))

\* The tree t with the content c of path.
ReadInto(u, t, path, c) ==
  /\ DOMAIN c \in SUBSET Names /\ (path \in DOMAIN t => c = t[path])
  /\ u = [p \in DOMAIN t \cup {path} |-> IF p = path THEN c ELSE t[p]]

\* A directory is read that was not passed, or was read before.
LEMMA Reading ==
  ASSUME NEW t, NEW r \in Seq(Arguments), TreeInv(t, r), NEW k, NEW fs, Nested(fs, t, r, k),
         NEW o, Listing(o, fs, r, k, t), NEW path, Reached(path, fs, r, k, t),
         NEW c, NEW u, ReadInto(u, t, path, c)
  PROVE  /\ TreeInv(u, r) /\ Nested(fs, u, r, k) /\ Listing(o, fs, r, k, u)
         /\ path \in DOMAIN u /\ u[path] = c
<1>a. /\ path \in Places /\ path # <<>> /\ \E j \in 1..Len(r) : path[1] = Generic[r[j]]
      /\ \A i \in 2..Len(path) : Step(t, path, i)
      /\ path \notin DOMAIN t =>
           \A n \in Names : /\ Earlier(r, k, Append(path, n)) = {}
                            /\ ~Passed(fs, Append(path, n))
  BY Zenon DEF Reached
<1>b. /\ DOMAIN c \in SUBSET Names /\ (path \in DOMAIN t => c = t[path])
      /\ u = [p \in DOMAIN t \cup {path} |-> IF p = path THEN c ELSE t[p]]
  BY Zenon DEF ReadInto
<1>1. /\ DOMAIN u = DOMAIN t \cup {path} /\ u[path] = c
      /\ \A d \in DOMAIN t : d \in DOMAIN u /\ u[d] = t[d]
      /\ \A d \in DOMAIN u : d \in DOMAIN t \/ (d = path /\ path \notin DOMAIN t)
  BY <1>b
<1>2. \A d, i : Step(t, d, i) => Step(u, d, i)
  BY <1>1, Zenon DEF Step
<1>3. ASSUME NEW p, NEW kind, IsEntry(t, p, kind) PROVE IsEntry(u, p, kind)
  <2>1. PICK d \in DOMAIN t : \E n \in Preferred(DOMAIN t[d]) : p = Append(d, n) /\ t[d][n] = kind
    BY <1>3, Zenon DEF IsEntry
  <2>2. PICK n \in Preferred(DOMAIN t[d]) : p = Append(d, n) /\ t[d][n] = kind
    BY <2>1
  <2>3. d \in DOMAIN u /\ u[d] = t[d]
    BY <1>1
  <2> QED BY <2>2, <2>3, Zenon DEF IsEntry
<1>4. TreeInv(u, r)
  <2> SUFFICES ASSUME NEW d \in DOMAIN u
               PROVE  /\ d \in Places /\ d # <<>> /\ DOMAIN u[d] \in SUBSET Names
                      /\ \E j \in 1..Len(r) : d[1] = Generic[r[j]]
                      /\ \A i \in 2..Len(d) : Step(u, d, i)
    BY Zenon DEF TreeInv
  <2>1. CASE d \in DOMAIN t
    <3>1. u[d] = t[d]
      BY <2>1, <1>1
    <3> QED BY <2>1, <3>1, <1>2, Zenon DEF TreeInv
  <2>2. CASE d = path
    BY <2>2, <1>1, <1>2, <1>a, <1>b, Zenon
  <2> QED BY <1>1, <2>1, <2>2
<1>5. Nested(fs, u, r, k)
  <2>1. ASSUME NEW i \in 1..Len(fs) PROVE Lists(fs[i], u, Generic[r[k]])
    <3>1. Lists(fs[i], t, Generic[r[k]])
      BY Zenon DEF Nested
    <3>2. fs[i].path \in DOMAIN u /\ u[fs[i].path] = t[fs[i].path]
      BY <3>1, <1>1, Zenon DEF Lists
    <3> QED BY <3>1, <3>2, Zenon DEF Lists
  <2> QED BY <2>1, Zenon DEF Nested
<1>6. ASSUME NEW p, NEW kind, IsEntry(u, p, kind), ~IsEntry(t, p, kind)
      PROVE  /\ path \notin DOMAIN t /\ Earlier(r, k, p) = {} /\ ~Passed(fs, p)
             /\ \A l : ~IsEntry(t, p, l)
  <2>1. PICK d \in DOMAIN u : \E n \in Preferred(DOMAIN u[d]) : p = Append(d, n) /\ u[d][n] = kind
    BY <1>6, Zenon DEF IsEntry
  <2>2. PICK n \in Preferred(DOMAIN u[d]) : p = Append(d, n) /\ u[d][n] = kind
    BY <2>1
  <2>3. d \notin DOMAIN t
    <3> SUFFICES ASSUME d \in DOMAIN t PROVE FALSE
      OBVIOUS
    <3>1. u[d] = t[d]
      BY <1>1
    <3> QED BY <2>2, <3>1, <1>6, Zenon DEF IsEntry
  <2>4. d = path /\ path \notin DOMAIN t
    BY <2>3, <1>1
  <2>5. n \in Names
    BY <2>4, <1>1, <1>b DEF Preferred
  <2>6. ASSUME NEW l, IsEntry(t, p, l) PROVE FALSE
    <3>1. PICK e \in DOMAIN t : \E m \in Preferred(DOMAIN t[e]) : p = Append(e, m)
      BY <2>6, Zenon DEF IsEntry
    <3>2. PICK m \in Preferred(DOMAIN t[e]) : p = Append(e, m)
      BY <3>1
    <3>3. e \in Places /\ m \in PathNames
      BY EntryPath
    <3>4. n \in PathNames
      BY <2>5 DEF PathNames
    <3>5. Append(path, n) = Append(e, m)
      BY <2>2, <2>4, <3>2, Zenon
    <3>6. path = e
      BY <3>3, <3>4, <3>5, <1>a, AppendInjective DEF Places
    <3> QED BY <2>4, <3>6
  <2> QED BY <2>2, <2>4, <2>5, <2>6, <1>a, Zenon
<1>7. FilesOnly(o, u)
  BY <1>3, Zenon DEF Listing, FilesOnly
<1>8. ASSUME NEW p, IsEntry(u, p, "file") PROVE Cardinality(Listings(o, p)) = Due(fs, r, k, p)
  <2>1. CASE IsEntry(t, p, "file")
    BY <2>1, Zenon DEF Listing
  <2>2. CASE ~IsEntry(t, p, "file")
    <3>1. Earlier(r, k, p) = {} /\ ~Passed(fs, p) /\ ~IsEntry(t, p, "file")
      BY <1>6, <1>8, <2>2, Zenon
    <3>2. Listings(o, p) = {}
      <4> SUFFICES ASSUME NEW j \in Listings(o, p) PROVE FALSE
        OBVIOUS
      <4>1. j \in 1..Len(o) /\ o[j].t = "file" /\ o[j].path = p
        BY DEF Listings, Program!Token
      <4>2. IsEntry(t, o[j].path, "file")
        BY <4>1, Zenon DEF Listing, FilesOnly
      <4> QED BY <4>1, <4>2, <3>1
    <3>3. Due(fs, r, k, p) = Cardinality({}) + 0
      BY <3>1, Zenon DEF Due
    <3>4. Cardinality({}) = 0
      BY FS_EmptySet
    <3> QED BY <3>2, <3>3, <3>4
  <2> QED BY <2>1, <2>2
<1>9. ASSUME NEW p, IsEntry(u, p, "directory"), Earlier(r, k, p) # {} \/ Passed(fs, p)
      PROVE  p \in DOMAIN u
  <2>1. IsEntry(t, p, "directory")
    BY <1>6, <1>9, Zenon
  <2>2. p \in DOMAIN t
    BY <2>1, <1>9, Zenon DEF Listing
  <2> QED BY <2>2, <1>1
<1>10. \A i \in 1..Len(r) : i < k => <<Generic[r[i]]>> \in DOMAIN u
  BY <1>1, Zenon DEF Listing
<1>11. Listing(o, fs, r, k, u)
  BY <1>7, <1>8, <1>9, <1>10, Zenon DEF Listing
<1> QED BY <1>1, <1>4, <1>5, <1>11

\* Only what the calls have passed of the tree matters.
LEMMA ListingPassed ==
  ASSUME NEW o, NEW fs, NEW gs, NEW r, NEW k, NEW t, Listing(o, fs, r, k, t),
         \A p : IsEntry(t, p, "file") => (Passed(gs, p) <=> Passed(fs, p)),
         \A p : IsEntry(t, p, "directory") /\ Passed(gs, p) => Passed(fs, p) \/ p \in DOMAIN t
  PROVE  Listing(o, gs, r, k, t)
<1>1. ASSUME NEW p, IsEntry(t, p, "file") PROVE Cardinality(Listings(o, p)) = Due(gs, r, k, p)
  <2>1. Cardinality(Listings(o, p)) = Due(fs, r, k, p)
    BY <1>1, Zenon DEF Listing
  <2>2. CASE Passed(fs, p)
    BY <1>1, <2>1, <2>2, Zenon DEF Due
  <2>3. CASE ~Passed(fs, p)
    BY <1>1, <2>1, <2>3, Zenon DEF Due
  <2> QED BY <2>2, <2>3
<1>2. ASSUME NEW p, IsEntry(t, p, "directory"), Earlier(r, k, p) # {} \/ Passed(gs, p)
      PROVE  p \in DOMAIN t
  BY <1>2, Zenon DEF Listing
<1> QED BY <1>1, <1>2, Zenon DEF Listing

\* A file is listed.
LEMMA ListingFile ==
  ASSUME NEW t, NEW r, TreeInv(t, r), NEW k, NEW fs, Calls(fs), fs # <<>>, Nested(fs, t, r, k),
         AtEntry(LastOf(fs)), NEW o \in Seq(TokenSet), Listing(o, fs, r, k, t),
         t[LastOf(fs).path][LastOf(fs).entries[LastOf(fs).index]] = "file"
  PROVE  LET p == Append(LastOf(fs).path, LastOf(fs).entries[LastOf(fs).index])
         IN  Listing(Append(o, Program!Token("file", p)), Program!Advanced(fs), r, k, t)
<1> DEFINE f == LastOf(fs)
           e == f.path
           m == f.entries[f.index]
           p0 == Append(e, m)
           x == Program!Token("file", p0)
           q == Append(o, x)
           gs == Program!Advanced(fs)
<1>1. /\ e \in DOMAIN t /\ m \in Preferred(DOMAIN t[e]) /\ p0 \in Places
      /\ \A p \in Places : At(f, Len(fs), p) <=> Covers(p, p0)
  BY TheEntry
<1>2. t[e][m] = "file"
  OBVIOUS
<1>3. x \in TokenSet /\ x.t = "file" /\ x.path = p0
  BY <1>1, IsToken DEF Texts
<1>4. /\ Len(o) \in Nat /\ Len(q) = Len(o) + 1 /\ q[Len(o) + 1] = x
      /\ \A i \in 1..Len(o) : q[i] = o[i]
  BY <1>3, AppendProperties, LenProperties
<1>5. \A p : Passed(gs, p) <=> Passed(fs, p) \/ At(f, Len(fs), p)
  BY PassedAdvance
<1>6. \A p : At(f, Len(fs), p) => ~Passed(fs, p)
  BY NotPassed
<1>7. IsEntry(t, p0, "file")
  BY <1>1, <1>2, Zenon DEF IsEntry
<1>8. ASSUME NEW p, NEW kind, IsEntry(t, p, kind)
      PROVE  /\ p \in Places
             /\ Covers(p, p0) => p = p0 /\ kind = "file"
  <2>1. PICK d \in DOMAIN t : \E n \in Preferred(DOMAIN t[d]) : p = Append(d, n) /\ t[d][n] = kind
    BY <1>8, Zenon DEF IsEntry
  <2>2. PICK n \in Preferred(DOMAIN t[d]) : p = Append(d, n) /\ t[d][n] = kind
    BY <2>1
  <2>3. d \in Places /\ n \in PathNames /\ Append(d, n) \in Places
    BY EntryPath
  <2>4. e \in Places /\ m \in PathNames
    BY <1>1, EntryPath
  <2> HIDE DEF e, m
  <2>5. ASSUME Covers(p, p0) PROVE Append(d, n) = Append(e, m)
    <3>1. Covers(Append(d, n), Append(e, m))
      BY <2>2, <2>5
    <3> QED BY <3>1, <1>1, <1>2, NothingBelow
  <2>6. Append(d, n) = Append(e, m) => d = e /\ n = m
    BY <2>3, <2>4, AppendInjective DEF Places
  <2> QED BY <2>2, <2>3, <2>5, <2>6, <1>2, Zenon
<1>9. Covers(p0, p0)
  <2>1. Len(p0) \in Nat
    BY <1>1, LenProperties DEF Places
  <2> HIDE DEF p0
  <2> QED BY <2>1 DEF Covers
<1> HIDE DEF f, e, m, p0, q, gs
<1>10. FilesOnly(q, t)
  <2> SUFFICES ASSUME NEW j \in 1..Len(q), q[j].t = "file" PROVE IsEntry(t, q[j].path, "file")
    BY Zenon DEF FilesOnly
  <2>1. j \in 1..Len(o) \/ j = Len(o) + 1
    BY <1>4
  <2>2. CASE j \in 1..Len(o)
    <3>1. q[j] = o[j]
      BY <1>4, <2>2
    <3> QED BY <2>2, <3>1, Zenon DEF Listing, FilesOnly
  <2>3. CASE j = Len(o) + 1
    BY <1>3, <1>4, <1>7, <2>3, Zenon
  <2> QED BY <2>1, <2>2, <2>3
<1>11. ASSUME NEW p, IsEntry(t, p, "file") PROVE Cardinality(Listings(q, p)) = Due(gs, r, k, p)
  <2>1. Cardinality(Listings(o, p)) = Due(fs, r, k, p)
    BY <1>11, Zenon DEF Listing
  <2>2. p \in Places
    BY <1>8, <1>11
  <2>3. CASE p = p0
    <3>1. At(f, Len(fs), p)
      BY <1>1, <1>9, <2>2, <2>3
    <3>2. ~Passed(fs, p) /\ Passed(gs, p)
      BY <3>1, <1>5, <1>6
    <3>3. Due(fs, r, k, p) = Cardinality(Earlier(r, k, p)) + 0
      BY <3>2, Zenon DEF Due
    <3>4. Due(gs, r, k, p) = Cardinality(Earlier(r, k, p)) + 1
      BY <3>2, Zenon DEF Due
    <3>5. Cardinality(Listings(q, p)) = Cardinality(Listings(o, p)) + 1
      BY <1>3, <2>3, ListingsOneMore DEF q, x
    <3>6. Cardinality(Earlier(r, k, p)) + 0 = Cardinality(Earlier(r, k, p))
      <4>1. Earlier(r, k, p) \in SUBSET (1..Len(r)) /\ IsFiniteSet(1..Len(r))
        BY FS_Interval DEF Earlier
      <4>2. Cardinality(Earlier(r, k, p)) \in Nat
        BY <4>1, FS_Subset, FS_CardinalityType
      <4> QED BY <4>2
    <3> QED BY <2>1, <3>3, <3>4, <3>5, <3>6
  <2>4. CASE p # p0
    <3>1. Passed(gs, p) <=> Passed(fs, p)
      BY <1>1, <1>5, <1>8, <1>11, <2>2, <2>4, Zenon
    <3>2. Due(gs, r, k, p) = Due(fs, r, k, p)
      <4>1. CASE Passed(fs, p)
        BY <3>1, <4>1, Zenon DEF Due
      <4>2. CASE ~Passed(fs, p)
        BY <3>1, <4>2, Zenon DEF Due
      <4> QED BY <4>1, <4>2
    <3>3. x # Program!Token("file", p)
      BY <2>4 DEF Program!Token, x
    <3>4. Cardinality(Listings(q, p)) = Cardinality(Listings(o, p))
      BY <1>3, <3>3, ListingsOneMore DEF q
    <3> QED BY <2>1, <3>2, <3>4
  <2> QED BY <2>3, <2>4
<1>12. ASSUME NEW p, IsEntry(t, p, "directory"), Earlier(r, k, p) # {} \/ Passed(gs, p)
       PROVE  p \in DOMAIN t
  <2>1. ~Covers(p, p0) /\ p \in Places
    BY <1>8, <1>12
  <2>2. Passed(gs, p) => Passed(fs, p)
    BY <2>1, <1>1, <1>5, Zenon
  <2> QED BY <2>2, <1>12, Zenon DEF Listing
<1>13. Listing(q, gs, r, k, t)
  BY <1>10, <1>11, <1>12, Zenon DEF Listing
<1> QED BY <1>13 DEF q, gs, x, p0, f, e, m

\* A directory below a root is closed.
LEMMA ListingDirectory ==
  ASSUME NEW t, NEW r, TreeInv(t, r), NEW k, NEW fs, Calls(fs), fs # <<>>, Nested(fs, t, r, k),
         ~AtEntry(LastOf(fs)), Program!Front(fs) # <<>>, NEW o, Listing(o, fs, r, k, t)
  PROVE  Listing(o, Program!Advanced(Program!Front(fs)), r, k, t)
<1> DEFINE gs == Program!Advanced(Program!Front(fs))
           f == LastOf(fs)
<1>1. f.path \in DOMAIN t
  BY NestedPop DEF Lists
<1>2. ASSUME NEW p, NEW kind, IsEntry(t, p, kind), p # f.path
      PROVE  Passed(gs, p) <=> Passed(fs, p)
  <2>1. PICK d \in DOMAIN t : \E n \in Preferred(DOMAIN t[d]) : p = Append(d, n)
    BY <1>2, Zenon DEF IsEntry
  <2>2. PICK n \in Preferred(DOMAIN t[d]) : p = Append(d, n)
    BY <2>1
  <2>3. Append(d, n) # LastOf(fs).path
    BY <1>2, <2>2
  <2>4. Passed(gs, Append(d, n)) <=> Passed(fs, Append(d, n))
    BY <2>3, DirectoryPassed
  <2> QED BY <2>2, <2>4
<1> HIDE DEF f, gs
<1>3. ASSUME NEW p, IsEntry(t, p, "file") PROVE Passed(gs, p) <=> Passed(fs, p)
  <2>1. p # f.path
    BY <1>1, <1>3, NoDirectory
  <2> QED BY <1>2, <1>3, <2>1
<1>4. ASSUME NEW p, IsEntry(t, p, "directory"), Passed(gs, p) PROVE Passed(fs, p) \/ p \in DOMAIN t
  <2>1. CASE p = f.path
    BY <2>1, <1>1
  <2>2. CASE p # f.path
    BY <2>2, <1>2, <1>4
  <2> QED BY <2>1, <2>2
<1>5. Listing(o, gs, r, k, t)
  BY <1>3, <1>4, ListingPassed
<1> QED BY <1>5 DEF gs

\* A stack with one call.
LEMMA OneCall ==
  ASSUME NEW s, Len(s) = 1
  PROVE  s # <<>>
<1>1. Len(<<>>) = 0
  OBVIOUS
<1> QED BY <1>1

\* A root is closed.
LEMMA ListingRoot ==
  ASSUME NEW t, NEW r \in Seq(Arguments), TreeInv(t, r), NEW k \in Nat \ {0}, k <= Len(r),
         NEW fs, Calls(fs), Len(fs) = 1, Nested(fs, t, r, k),
         ~AtEntry(LastOf(fs)), NEW o, Listing(o, fs, r, k, t)
  PROVE  Listing(o, <<>>, r, k + 1, t)
<1> DEFINE g == Generic[r[k]]
<1>0. Len(r) \in Nat /\ k \in 1..Len(r)
  BY LenProperties
<1>1. \A p : ~Passed(<<>>, p)
  <2>1. 1..Len(<<>>) = {}
    OBVIOUS
  <2> QED BY <2>1, Zenon DEF Passed
<1>2. \A i \in 1..Len(r) : i < k + 1 <=> i < k \/ i = k
  BY <1>0
<1>3. ASSUME NEW p
      PROVE  /\ p[1] = g => Earlier(r, k + 1, p) = Earlier(r, k, p) \cup {k}
             /\ p[1] # g => Earlier(r, k + 1, p) = Earlier(r, k, p)
  <2>1. \A i : i \in Earlier(r, k + 1, p) <=> i \in Earlier(r, k, p) \/ (i = k /\ g = p[1])
    BY <1>0, <1>2, Zenon DEF Earlier
  <2> HIDE DEF g
  <2> QED BY <2>1
<1>4. ASSUME NEW p
      PROVE  /\ IsFiniteSet(Earlier(r, k, p)) /\ Cardinality(Earlier(r, k, p)) \in Nat
             /\ k \notin Earlier(r, k, p)
  <2>1. Earlier(r, k, p) \in SUBSET (1..Len(r)) /\ IsFiniteSet(1..Len(r))
    BY <1>0, FS_Interval DEF Earlier
  <2>2. k \notin Earlier(r, k, p)
    BY DEF Earlier
  <2> QED BY <2>1, <2>2, FS_Subset, FS_CardinalityType
<1>5. ASSUME NEW p, NEW kind, IsEntry(t, p, kind) PROVE Passed(fs, p) <=> p[1] = g
  <2>1. PICK d \in DOMAIN t : \E n \in Preferred(DOMAIN t[d]) : p = Append(d, n)
    BY <1>5, Zenon DEF IsEntry
  <2>2. PICK n \in Preferred(DOMAIN t[d]) : p = Append(d, n)
    BY <2>1
  <2>3. fs # <<>>
    BY OneCall, Zenon
  <2>4. Passed(fs, Append(d, n)) <=> Append(d, n)[1] = g
    BY RootPassed
  <2> QED BY <2>2, <2>4, Zenon
<1>6. <<g>> \in DOMAIN t
  <2> DEFINE f == LastOf(fs)
  <2>1. fs # <<>>
    BY OneCall, Zenon
  <2>2. Len(f.path) = 1 /\ f \in FrameSet
    BY <2>1, CallsPop
  <2>3. f.path \in DOMAIN t /\ f.path[1] = g
    <3>1. Lists(f, t, g)
      BY <2>1, NestedPop
    <3> HIDE DEF f, g
    <3> QED BY <3>1, Zenon DEF Lists
  <2>4. f.path \in Places
    BY <2>2 DEF FrameSet
  <2>5. g \in PathNames
    BY <1>0, ElementOfSeq DEF PathNames
  <2> HIDE DEF g, f
  <2>6. <<g>> \in Places /\ Len(<<g>>) = 1 /\ <<g>>[1] = g
    BY <2>5 DEF Places
  <2>7. Covers(f.path, <<g>>)
    BY <2>2, <2>3, <2>6 DEF Covers
  <2>8. f.path = <<g>>
    BY <2>2, <2>4, <2>6, <2>7, SamePath
  <2> QED BY <2>3, <2>8
<1>7. ASSUME NEW p, IsEntry(t, p, "file") PROVE Cardinality(Listings(o, p)) = Due(<<>>, r, k + 1, p)
  <2>1. Cardinality(Listings(o, p)) = Due(fs, r, k, p)
    BY <1>7, Zenon DEF Listing
  <2>2. Due(<<>>, r, k + 1, p) = Cardinality(Earlier(r, k + 1, p)) + 0
    BY <1>1, Zenon DEF Due
  <2>3. CASE p[1] = g
    <3>1. Due(fs, r, k, p) = Cardinality(Earlier(r, k, p)) + 1
      BY <1>5, <1>7, <2>3, Zenon DEF Due
    <3>2. Cardinality(Earlier(r, k + 1, p)) = Cardinality(Earlier(r, k, p)) + 1
      BY <1>3, <1>4, <2>3, FS_AddElement
    <3> QED BY <1>4, <2>1, <2>2, <3>1, <3>2
  <2>4. CASE p[1] # g
    <3>1. Due(fs, r, k, p) = Cardinality(Earlier(r, k, p)) + 0
      BY <1>5, <1>7, <2>4, Zenon DEF Due
    <3> QED BY <1>3, <2>1, <2>2, <2>4, <3>1
  <2> QED BY <2>3, <2>4
<1>8. ASSUME NEW p, IsEntry(t, p, "directory"), Earlier(r, k + 1, p) # {} \/ Passed(<<>>, p)
      PROVE  p \in DOMAIN t
  <2>1. Earlier(r, k, p) # {} \/ p[1] = g
    BY <1>1, <1>3, <1>8, Zenon
  <2>2. Earlier(r, k, p) # {} \/ Passed(fs, p)
    BY <2>1, <1>5, <1>8, Zenon
  <2> QED BY <2>2, <1>8, Zenon DEF Listing
<1>9. ASSUME NEW i \in 1..Len(r), i < k + 1 PROVE <<Generic[r[i]]>> \in DOMAIN t
  BY <1>2, <1>6, <1>9, Zenon DEF Listing
<1> QED BY <1>7, <1>8, <1>9, Zenon DEF Listing

\* A call that has just been pushed is past nothing.
LEMMA ListingPushed ==
  ASSUME NEW t, NEW r, NEW k, NEW fs \in Seq(FrameSet), NEW o, Listing(o, fs, r, k, t),
         NEW f \in FrameSet, f.index = 1
  PROVE  Listing(o, Append(fs, f), r, k, t)
<1> DEFINE gs == Append(fs, f)
<1>1. \A p : ~Past(f, Len(fs) + 1, p)
  <2>1. 1..(f.index - 1) = {}
    OBVIOUS
  <2> QED BY <2>1, Zenon DEF Past
<1>2. \A p : Passed(gs, p) <=> Passed(fs, p)
  BY <1>1, PassedAppend
<1> HIDE DEF gs
<1>3. Listing(o, gs, r, k, t)
  BY <1>2, ListingPassed
<1> QED BY <1>3 DEF gs

\* Before the walk nothing was read, and nothing is listed.
LEMMA NothingRead ==
  ASSUME NEW t, DOMAIN t = {}, NEW r \in Seq(Arguments)
  PROVE  TreeInv(t, r) /\ Nested(<<>>, t, r, 1) /\ Listing(<<>>, <<>>, r, 1, t)
<1>1. Len(<<>>) = 0 /\ 1..Len(<<>>) = {}
  OBVIOUS
<1>2. TreeInv(t, r) /\ \A p, kind : ~IsEntry(t, p, kind)
  BY Zenon DEF TreeInv, IsEntry
<1>3. Nested(<<>>, t, r, 1) /\ FilesOnly(<<>>, t)
  BY <1>1, Zenon DEF Nested, FilesOnly
<1>4. \A i \in 1..Len(r) : ~(i < 1)
  <2>1. Len(r) \in Nat
    BY LenProperties
  <2> QED BY <2>1
<1>5. Listing(<<>>, <<>>, r, 1, t)
  BY <1>2, <1>3, <1>4, Zenon DEF Listing
<1> QED BY <1>2, <1>3, <1>5

\* The overlay lists the files of the tree, each as often as its root was given.
Complete(o, t, r) ==
  /\ TreeInv(t, r) /\ FilesOnly(o, t)
  /\ \A p : IsEntry(t, p, "file") =>
       Cardinality(Listings(o, p)) = Cardinality({i \in 1..Len(r) : Generic[r[i]] = p[1]})

OutputInv ==
  /\ at = "parse" => DOMAIN tree = {}
  /\ at = "walk" => /\ TreeInv(tree, roots) /\ Nested(frames, tree, roots, next)
                    /\ Listing(overlay, frames, roots, next, tree)
  /\ exit = 0 => file = "overlay"
  /\ file # "old" => at = "done" /\ Complete(overlay, tree, roots)

\* After the last root everything is listed.
LEMMA AllListed ==
  ASSUME NEW t, NEW r \in Seq(Arguments), NEW o, TreeInv(t, r), NEW k \in Nat, k = Len(r) + 1,
         Listing(o, <<>>, r, k, t)
  PROVE  Complete(o, t, r)
<1>1. \A i \in 1..Len(r) : i < k
  <2>1. Len(r) \in Nat
    BY LenProperties
  <2> QED BY <2>1
<1>2. \A p : Earlier(r, k, p) = {i \in 1..Len(r) : Generic[r[i]] = p[1]}
  BY <1>1 DEF Earlier
<1>3. \A p : ~Passed(<<>>, p)
  <2>1. 1..Len(<<>>) = {}
    OBVIOUS
  <2> QED BY <2>1, Zenon DEF Passed
<1>4. ASSUME NEW p, IsEntry(t, p, "file")
      PROVE  Cardinality(Listings(o, p)) = Cardinality({i \in 1..Len(r) : Generic[r[i]] = p[1]})
  <2> DEFINE S == {i \in 1..Len(r) : Generic[r[i]] = p[1]}
  <2>1. Cardinality(Listings(o, p)) = Due(<<>>, r, k, p)
    BY <1>4, Zenon DEF Listing
  <2>2. Due(<<>>, r, k, p) = Cardinality(S) + 0
    BY <1>2, <1>3, Zenon DEF Due
  <2>3. Cardinality(S) \in Nat
    <3>1. S \in SUBSET (1..Len(r))
      OBVIOUS
    <3>2. IsFiniteSet(1..Len(r))
      BY FS_Interval, LenProperties
    <3> HIDE DEF S
    <3> QED BY <3>1, <3>2, FS_Subset, FS_CardinalityType
  <2> HIDE DEF S
  <2>4. Cardinality(Listings(o, p)) = Cardinality(S)
    BY <2>1, <2>2, <2>3
  <2> QED BY <2>4 DEF S
<1>5. FilesOnly(o, t)
  BY Zenon DEF Listing
<1> QED BY <1>4, <1>5, Zenon DEF Complete

\* What a call reads, and what it does then.
LEMMA Reads ==
  ASSUME TextInv, at = "walk", NEW STATE path, Program!Enter(path)
  PROVE  \E c : /\ ReadInto(tree', tree, path, c)
                /\ \/ at' = "unwind"
                   \/ /\ at' = "walk"
                      /\ frames' = Append(frames, [path |-> path, entries |-> Program!Entries(DOMAIN c),
                                                   index |-> 1])
                      /\ overlay' = Append(overlay, Program!Token(Opening, path))
                                     \o IF DOMAIN c = {} THEN <<>>
                                        ELSE <<Program!Token(List, path)>>
<1>1. PICK c \in Program!Contents(path) :
        /\ tree' = [p \in DOMAIN tree \cup {path} |-> IF p = path THEN c ELSE tree[p]]
        /\ \/ at' = "unwind"
           \/ /\ at' = at
              /\ frames' = Append(frames, [path |-> path, entries |-> Program!Entries(DOMAIN c),
                                           index |-> 1])
              /\ overlay' = Append(overlay, Program!Token(Opening, path))
                             \o IF DOMAIN c = {} THEN <<>> ELSE <<Program!Token(List, path)>>
  BY Zenon DEF Program!Enter, Opening, List
<1>2. DOMAIN c \in SUBSET Names /\ (path \in DOMAIN tree => c = tree[path])
  <2>1. CASE path \in DOMAIN tree
    <3>1. c = tree[path]
      BY <2>1, <1>1, Zenon DEF Program!Contents
    <3> QED BY <2>1, <3>1 DEF TextInv, DirectoriesOf
  <2>2. CASE path \notin DOMAIN tree
    <3>1. c \in UNION {[S -> Program!Kinds] : S \in SUBSET Names}
      BY <2>2, <1>1, Zenon DEF Program!Contents
    <3> QED BY <2>2, <3>1
  <2> QED BY <2>1, <2>2
<1> QED BY <1>1, <1>2, Zenon DEF ReadInto

\* Entering a directory keeps the invariant.
LEMMA OutputEnters ==
  ASSUME TextInv, OutputInv, at = "walk", NEW STATE path, Program!Enter(path),
         Reached(path, frames, roots, next, tree), path[1] = Generic[roots[next]],
         \A i \in 1..Len(frames) : At(frames[i], i, path),
         roots' = roots, next' = next, file' = file, exit' = exit
  PROVE  OutputInv'
<1>1. PICK c : /\ ReadInto(tree', tree, path, c)
               /\ \/ at' = "unwind"
                  \/ /\ at' = "walk"
                     /\ frames' = Append(frames, [path |-> path, entries |-> Program!Entries(DOMAIN c),
                                                  index |-> 1])
                     /\ overlay' = Append(overlay, Program!Token(Opening, path))
                                    \o IF DOMAIN c = {} THEN <<>>
                                       ELSE <<Program!Token(List, path)>>
  BY Reads, Zenon
<1>2. /\ TreeInv(tree, roots) /\ Nested(frames, tree, roots, next)
      /\ Listing(overlay, frames, roots, next, tree) /\ file = "old" /\ exit # 0
  BY DEF OutputInv, TextInv
<1>3. /\ roots \in Seq(Arguments) /\ overlay \in Seq(TokenSet) /\ Walk(overlay, frames, roots, next)
  BY DEF TextInv
<1>4. frames \in Seq(FrameSet)
  <2>1. CASE frames = <<>>
    BY <2>1
  <2>2. CASE frames # <<>>
    BY <2>2, <1>3, Zenon DEF Walk, InRoot, Calls
  <2> QED BY <2>1, <2>2
<1>5. path \in Places /\ DOMAIN c \in SUBSET Names
  BY <1>1, Zenon DEF Reached, ReadInto
<1>6. /\ TreeInv(tree', roots) /\ Nested(frames, tree', roots, next)
      /\ Listing(overlay, frames, roots, next, tree')
      /\ path \in DOMAIN tree' /\ tree'[path] = c
  BY <1>1, <1>2, <1>3, Reading
<1>7. CASE at' = "unwind"
  BY <1>2, <1>7 DEF OutputInv
<1>8. CASE at' # "unwind"
  <2> DEFINE e == Program!Entries(DOMAIN c)
             f == [path |-> path, entries |-> e, index |-> 1]
  <2>1. /\ at' = "walk" /\ frames' = Append(frames, f)
        /\ overlay' = Append(overlay, Program!Token(Opening, path))
                       \o IF DOMAIN c = {} THEN <<>> ELSE <<Program!Token(List, path)>>
    BY <1>1, <1>8
  <2>2. e \in Seq(Names)
    BY <1>5, Listed
  <2>3. e = Program!Entries(DOMAIN tree'[path])
    BY <1>6
  <2> HIDE DEF e
  <2>4. f \in FrameSet /\ f.index = 1 /\ f.path = path /\ f.entries = e
    BY <1>5, <2>2 DEF FrameSet
  <2> HIDE DEF f
  <2>5. Lists(f, tree', Generic[roots[next]])
    BY <1>6, <2>3, <2>4 DEF Lists
  <2>6. Nested(frames', tree', roots, next)
    BY <1>4, <1>6, <2>1, <2>4, <2>5, NestedAppend
  <2>7. SameFiles(overlay, overlay')
    BY <1>3, <1>5, <2>1, OpeningText
  <2>8. Listing(overlay', frames, roots, next, tree')
    BY <1>6, <2>7, ListingSame
  <2>9. Listing(overlay', frames', roots, next, tree')
    BY <1>4, <2>1, <2>4, <2>8, ListingPushed
  <2> QED BY <1>2, <1>6, <2>1, <2>6, <2>9 DEF OutputInv
<1> QED BY <1>7, <1>8

\* The path of an entry is taken apart.
LEMMA ParentAndName ==
  ASSUME NEW d \in Places, NEW n \in PathNames
  PROVE  Program!Front(Append(d, n)) = d /\ Program!Last(Append(d, n)) = n
<1> DEFINE p == Append(d, n)
           L == Len(d)
           e == SubSeq(p, 1, L)
<1>1. /\ L \in Nat /\ p \in Seq(PathNames) /\ Len(p) = L + 1 /\ p[L + 1] = n
      /\ \A i \in 1..L : p[i] = d[i]
  BY AppendProperties, LenProperties DEF Places
<1>2. d \in Seq(PathNames)
  BY DEF Places
<1> HIDE DEF p, L
<1>3. Program!Front(p) = e /\ Program!Last(p) = n
  <2>1. Len(p) - 1 = L
    BY <1>1
  <2> QED BY <2>1, <1>1 DEF Program!Front, Program!Last
<1>4. \A i \in 1..L : p[i] \in PathNames
  <2>1. \A i \in 1..L : i \in 1..Len(p)
    BY <1>1
  <2> QED BY <2>1, <1>1, ElementOfSeq
<1>5. 1 \in Int /\ L \in Int
  BY <1>1
<1>6. /\ e \in Seq(PathNames) /\ Len(e) = IF 1 <= L THEN L - 1 + 1 ELSE 0
      /\ \A i \in 1..L - 1 + 1 : e[i] = p[1 + i - 1]
  BY <1>4, <1>5, SubSeqProperties
<1> HIDE DEF e
<1>7. Len(e) = L
  BY <1>1, <1>6
<1>8. \A i \in 1..L : e[i] = d[i]
  <2>1. L - 1 + 1 = L /\ \A i \in 1..L : 1 + i - 1 = i
    BY <1>1
  <2> QED BY <2>1, <1>1, <1>6
<1>9. e = d
  BY <1>2, <1>6, <1>7, <1>8, SeqEqual DEF L
<1> QED BY <1>3, <1>9 DEF p

\* The walk reaches the next root.
LEMMA RootReached ==
  ASSUME NEW t, NEW r \in Seq(Arguments), NEW k \in 1..Len(r), NEW o, Listing(o, <<>>, r, k, t)
  PROVE  LET path == <<Generic[r[k]]>>
         IN  Reached(path, <<>>, r, k, t) /\ path[1] = Generic[r[k]]
<1> DEFINE g == Generic[r[k]]
           path == <<g>>
<1>1. g \in PathNames
  BY ElementOfSeq DEF PathNames
<1>2. \E j \in 1..Len(r) : g = Generic[r[j]]
  OBVIOUS
<1>3. \A i \in 1..Len(r) : i < k => <<Generic[r[i]]>> \in DOMAIN t
  BY Zenon DEF Listing
<1>4. \A n : Earlier(r, k, Append(path, n)) = {i \in 1..Len(r) : i < k /\ Generic[r[i]] = Append(path, n)[1]}
  BY Zenon DEF Earlier
<1> HIDE DEF g
<1>5. path \in Places /\ Len(path) = 1 /\ path[1] = g /\ path # <<>> /\ 2..Len(path) = {}
  BY <1>1 DEF Places
<1>6. \A p : ~Passed(<<>>, p)
  <2>1. 1..Len(<<>>) = {}
    OBVIOUS
  <2> QED BY <2>1, Zenon DEF Passed
<1>7. ASSUME NEW n \in Names, path \notin DOMAIN t PROVE Earlier(r, k, Append(path, n)) = {}
  <2>1. Append(path, n)[1] = g
    <3>1. n \in PathNames
      BY DEF PathNames
    <3>2. 1 \in 1..Len(path)
      BY <1>5
    <3> QED BY <3>1, <3>2, <1>5, AppendProperties DEF Places
  <2> SUFFICES ASSUME NEW i \in 1..Len(r), i < k, Generic[r[i]] = g PROVE FALSE
    BY <2>1, <1>4
  <2>2. <<Generic[r[i]]>> \in DOMAIN t
    BY <1>3
  <2>3. path \in DOMAIN t
    BY <2>2
  <2> QED BY <2>3, <1>7
<1>8. Reached(path, <<>>, r, k, t)
  BY <1>2, <1>5, <1>6, <1>7, Zenon DEF Reached
<1> QED BY <1>5, <1>8 DEF g

\* The walk reaches a directory below a root.
LEMMA DirectoryReached ==
  ASSUME NEW t, NEW r \in Seq(Arguments), TreeInv(t, r), NEW k \in 1..Len(r),
         NEW fs, Calls(fs), fs # <<>>, Nested(fs, t, r, k), AtEntry(LastOf(fs)),
         NEW o, Listing(o, fs, r, k, t),
         t[LastOf(fs).path][LastOf(fs).entries[LastOf(fs).index]] = "directory"
  PROVE  LET path == Append(LastOf(fs).path, LastOf(fs).entries[LastOf(fs).index])
         IN  /\ Reached(path, fs, r, k, t) /\ path[1] = Generic[r[k]]
             /\ \A i \in 1..Len(fs) : At(fs[i], i, path)
<1> DEFINE f == LastOf(fs)
           d == f.path
           n == f.entries[f.index]
           p == Append(d, n)
           L == Len(fs)
<1>1. /\ d \in DOMAIN t /\ n \in Preferred(DOMAIN t[d])
      /\ p \in Places /\ Len(p) = L + 1 /\ p[1] = Generic[r[k]]
      /\ \A i \in 1..Len(fs) : At(fs[i], i, p)
      /\ \A q \in Places : At(f, L, q) <=> Covers(q, p)
  BY TheEntry
<1>2. L \in Nat \ {0} /\ Len(d) = L
  BY CallsPop
<1>3. /\ d \in Places /\ p[L + 1] = n /\ Covers(p, d)
      /\ \A i \in 1..L : p[i] = d[i]
  BY <1>1, <1>2, EntryPath
<1>4. t[d][n] = "directory"
  OBVIOUS
<1>5. \A q : At(f, L, q) => ~Passed(fs, q)
  BY NotPassed
<1>6. IsEntry(t, p, "directory")
  BY <1>1, <1>4, Zenon DEF IsEntry
<1> HIDE DEF p, n, d, f, L
<1>7. ASSUME NEW i \in 2..Len(p) PROVE Step(t, p, i)
  <2>1. CASE i = L + 1
    <3>1. Len(d) = i - 1
      BY <2>1, <1>2
    <3> QED BY <2>1, <3>1, <1>1, <1>3, <1>4, Zenon DEF Step
  <2>2. CASE i # L + 1
    <3>1. i \in 2..L /\ i \in 1..L
      BY <2>2, <1>1, <1>2
    <3>2. Step(t, d, i)
      BY <3>1, <1>1, <1>2, Zenon DEF TreeInv
    <3>3. PICK e \in DOMAIN t : /\ Len(e) = i - 1 /\ Covers(d, e)
                                /\ d[i] \in Preferred(DOMAIN t[e]) /\ t[e][d[i]] = "directory"
      BY <3>2, Zenon DEF Step
    <3>4. p[i] = d[i]
      BY <3>1, <1>3
    <3>5. Covers(p, e)
      <4>1. \A x \in 1..Len(e) : x \in 1..L
        BY <3>1, <3>3, <1>2
      <4>2. \A x \in 1..Len(e) : p[x] = e[x]
        BY <4>1, <3>3, <1>3 DEF Covers
      <4>3. Len(p) >= Len(e)
        BY <3>1, <3>3, <1>1, <1>2
      <4> QED BY <4>2, <4>3 DEF Covers
    <3> QED BY <3>3, <3>4, <3>5, Zenon DEF Step
  <2> QED BY <2>1, <2>2
<1>8. ASSUME NEW m \in Names, p \notin DOMAIN t
      PROVE  Earlier(r, k, Append(p, m)) = {} /\ ~Passed(fs, Append(p, m))
  <2> DEFINE q == Append(p, m)
  <2>1. m \in PathNames
    BY DEF PathNames
  <2>2. q \in Places /\ Len(q) = Len(p) + 1 /\ \A i \in 1..Len(p) : q[i] = p[i]
    BY <2>1, <1>1, AppendProperties DEF Places
  <2> HIDE DEF q
  <2>3. Covers(q, p) /\ q[1] = p[1]
    BY <2>2, <1>1, <1>2 DEF Covers
  <2>4. ~Passed(fs, q)
    BY <2>2, <2>3, <1>1, <1>5
  <2>5. Earlier(r, k, p) = {}
    BY <1>6, <1>8, Zenon DEF Listing
  <2>6. Earlier(r, k, q) = Earlier(r, k, p)
    BY <2>3 DEF Earlier
  <2> QED BY <2>4, <2>5, <2>6 DEF q
<1>9. p # <<>> /\ \E j \in 1..Len(r) : p[1] = Generic[r[j]]
  <2>1. Len(p) # 0
    BY <1>1, <1>2
  <2>2. Len(<<>>) = 0
    OBVIOUS
  <2> QED BY <2>1, <2>2, <1>1, Zenon
<1>10. Reached(p, fs, r, k, t)
  BY <1>1, <1>7, <1>8, <1>9, Zenon DEF Reached
<1> QED BY <1>1, <1>10 DEF p, n, d, f

-----------------------------------------------------------------------------
(* The steps of the program.                                                *)

\* What the invariants say during the walk.
LEMMA WalkFacts ==
  ASSUME TextInv, OutputInv, at = "walk"
  PROVE  /\ TreeInv(tree, roots) /\ Nested(frames, tree, roots, next)
         /\ Listing(overlay, frames, roots, next, tree) /\ file = "old" /\ exit # 0
         /\ roots \in Seq(Arguments) /\ overlay \in Seq(TokenSet)
         /\ frames # <<>> => Calls(frames) /\ next \in 1..Len(roots)
         /\ frames = <<>> => next \in 1..(Len(roots) + 1)
<1>1. /\ roots \in Seq(Arguments) /\ overlay \in Seq(TokenSet) /\ Walk(overlay, frames, roots, next)
      /\ exit # 0
  BY DEF TextInv
<1>2. Len(roots) \in Nat
  BY <1>1, LenProperties
<1>3. ASSUME frames # <<>> PROVE Calls(frames) /\ next \in 1..Len(roots)
  <2>1. Calls(frames) /\ next \in Nat \ {0} /\ next <= Len(roots)
    BY <1>1, <1>3, Zenon DEF Walk, InRoot
  <2> QED BY <2>1, <1>2
<1>4. ASSUME frames = <<>> PROVE next \in 1..(Len(roots) + 1)
  <2>1. next \in Nat \ {0} /\ next <= Len(roots) + 1
    BY <1>1, <1>4, Zenon DEF Walk, BetweenRoots
  <2> QED BY <2>1, <1>2
<1>5. /\ TreeInv(tree, roots) /\ Nested(frames, tree, roots, next)
      /\ Listing(overlay, frames, roots, next, tree) /\ file = "old"
  BY DEF OutputInv
<1> QED BY <1>1, <1>3, <1>4, <1>5

\* What the program reads of the entry of the last call.
LEMMA EntryKind ==
  ASSUME TextInv, OutputInv, at = "walk", frames # <<>>, AtEntry(LastOf(frames))
  PROVE  /\ Program!Entry = Append(LastOf(frames).path, LastOf(frames).entries[LastOf(frames).index])
         /\ Program!KindOf(Program!Entry)
              = tree[LastOf(frames).path][LastOf(frames).entries[LastOf(frames).index]]
         /\ Program!Entry \in Places
<1> DEFINE f == LastOf(frames)
           n == f.entries[f.index]
           p == Append(f.path, n)
<1>1. /\ TreeInv(tree, roots) /\ Nested(frames, tree, roots, next) /\ Calls(frames)
  BY WalkFacts
<1>2. f.path \in DOMAIN tree /\ n \in Preferred(DOMAIN tree[f.path]) /\ p \in Places
  BY <1>1, TheEntry
<1>3. f.path \in Places /\ n \in PathNames
  BY <1>1, <1>2, EntryPath
<1>4. Program!Entry = p
  BY Zenon DEF Program!Entry, Program!Top, LastOf
<1>5. Program!Front(p) = f.path /\ Program!Last(p) = n
  BY <1>3, ParentAndName
<1> HIDE DEF p, n, f
<1>6. Program!KindOf(p) = tree[f.path][n]
  BY <1>5, Zenon DEF Program!KindOf
<1> QED BY <1>2, <1>4, <1>6 DEF p, n, f

\* Nothing was read before the arguments are.
LEMMA OutputInit == Program!Init => OutputInv
<1> SUFFICES ASSUME Program!Init PROVE OutputInv
  OBVIOUS
<1>1. at = "parse" /\ tree = <<>> /\ exit = -1 /\ file = "old"
  BY DEF Program!Init
<1>2. DOMAIN tree = {} /\ exit # 0
  BY <1>1
<1> QED BY <1>1, <1>2 DEF OutputInv

\* Reading the arguments.
LEMMA OutputParse ==
  ASSUME TextInv, OutputInv, TextInv', Program!ParseRoot \/ Program!ParseOutput \/ Program!SortRoots
  PROVE  OutputInv'
<1>1. /\ at = "parse" /\ tree' = tree /\ next' = next /\ frames' = frames /\ overlay' = overlay
      /\ file' = file /\ exit' = exit /\ at' \in {"parse", "walk"}
  BY Zenon DEF Program!ParseRoot, Program!ParseOutput, Program!SortRoots
<1>2. DOMAIN tree' = {} /\ next' = 1 /\ frames' = <<>> /\ overlay' = <<>> /\ file' = "old" /\ exit' # 0
  BY <1>1 DEF TextInv, OutputInv
<1>3. roots' \in Seq(Arguments)
  BY DEF TextInv
<1>4. TreeInv(tree', roots') /\ Nested(<<>>, tree', roots', 1) /\ Listing(<<>>, <<>>, roots', 1, tree')
  BY <1>2, <1>3, NothingRead
<1>5. Nested(frames', tree', roots', next') /\ Listing(overlay', frames', roots', next', tree')
  BY <1>2, <1>4, Zenon
<1> QED BY <1>2, <1>4, <1>5, Zenon DEF OutputInv

\* Entering a directory.
LEMMA OutputEnter ==
  ASSUME TextInv, OutputInv, Program!EnterRoot \/ Program!EnterDirectory
  PROVE  OutputInv'
<1>1. at = "walk" /\ roots' = roots /\ next' = next /\ file' = file /\ exit' = exit
  BY Zenon DEF Program!EnterRoot, Program!EnterDirectory, Program!HasEntry, Program!InLoop
<1>2. /\ TreeInv(tree, roots) /\ Nested(frames, tree, roots, next)
      /\ Listing(overlay, frames, roots, next, tree) /\ roots \in Seq(Arguments)
      /\ frames # <<>> => Calls(frames) /\ next \in 1..Len(roots)
      /\ frames = <<>> => next \in 1..(Len(roots) + 1)
  BY <1>1, WalkFacts
<1>3. CASE Program!EnterRoot
  <2>1. frames = <<>> /\ next <= Len(roots) /\ Program!Enter(<<Generic[roots[next]]>>)
    BY <1>3, Zenon DEF Program!EnterRoot
  <2>2. next \in 1..Len(roots)
    <3>1. Len(roots) \in Nat
      BY <1>2, LenProperties
    <3> QED BY <3>1, <2>1, <1>2
  <2>3. Listing(overlay, <<>>, roots, next, tree)
    BY <1>2, <2>1, Zenon
  <2>4. /\ Reached(<<Generic[roots[next]]>>, <<>>, roots, next, tree)
        /\ <<Generic[roots[next]]>>[1] = Generic[roots[next]]
    BY <1>2, <2>2, <2>3, RootReached
  <2>5. Reached(<<Generic[roots[next]]>>, frames, roots, next, tree)
    BY <2>1, <2>4, Zenon
  <2>6. \A i \in 1..Len(frames) : At(frames[i], i, <<Generic[roots[next]]>>)
    <3>1. 1..Len(<<>>) = {}
      OBVIOUS
    <3> QED BY <2>1, <3>1, Zenon
  <2> QED BY <1>1, <2>1, <2>4, <2>5, <2>6, OutputEnters, Zenon
<1>4. CASE Program!EnterDirectory
  <2>1. /\ frames # <<>> /\ AtEntry(LastOf(frames)) /\ Program!Enter(Program!Entry)
        /\ Program!KindOf(Program!Entry) = "directory"
    BY <1>4, Zenon DEF Program!EnterDirectory, Program!HasEntry, Program!InLoop, Program!Top,
                       AtEntry, LastOf
  <2>2. /\ Program!Entry = Append(LastOf(frames).path, LastOf(frames).entries[LastOf(frames).index])
        /\ tree[LastOf(frames).path][LastOf(frames).entries[LastOf(frames).index]] = "directory"
    BY <1>1, <2>1, EntryKind
  <2>3. /\ Reached(Program!Entry, frames, roots, next, tree) /\ Program!Entry[1] = Generic[roots[next]]
        /\ \A i \in 1..Len(frames) : At(frames[i], i, Program!Entry)
    BY <1>2, <2>1, <2>2, DirectoryReached
  <2> QED BY <1>1, <2>1, <2>3, OutputEnters, Zenon
<1> QED BY <1>3, <1>4

\* Listing a file.
LEMMA OutputFile ==
  ASSUME TextInv, OutputInv, Program!RenderFile
  PROVE  OutputInv'
<1> DEFINE f == LastOf(frames)
           p == Append(f.path, f.entries[f.index])
           q == Append(overlay, Program!Token("file", p))
<1>1. /\ at = "walk" /\ frames # <<>> /\ AtEntry(f)
      /\ overlay' = Append(overlay, Program!Token("file", Program!Entry)) \o Program!Separator(f)
      /\ frames' = Program!Advanced(frames) /\ Program!KindOf(Program!Entry) = "file"
      /\ roots' = roots /\ at' = at /\ next' = next /\ tree' = tree /\ exit' = exit /\ file' = file
  BY Zenon DEF Program!RenderFile, Program!HasEntry, Program!InLoop, Program!Top, AtEntry, LastOf
<1>2. /\ TreeInv(tree, roots) /\ Nested(frames, tree, roots, next) /\ Calls(frames)
      /\ Listing(overlay, frames, roots, next, tree) /\ overlay \in Seq(TokenSet)
      /\ file = "old" /\ exit # 0
  BY <1>1, WalkFacts
<1>3. /\ Program!Entry = p /\ tree[f.path][f.entries[f.index]] = "file" /\ p \in Places
  BY <1>1, EntryKind
<1>4. Listing(q, Program!Advanced(frames), roots, next, tree)
  BY <1>1, <1>2, <1>3, ListingFile
<1>5. q \in Seq(TokenSet)
  BY <1>2, <1>3, IsToken, AppendProperties DEF Texts
<1>6. overlay' = q \o Program!Separator(f)
  BY <1>1, <1>3
<1> HIDE DEF q, p, f
<1>7. SameFiles(q, overlay')
  BY <1>5, <1>6, SeparatorText
<1>8. Listing(overlay', frames', roots, next, tree)
  BY <1>1, <1>4, <1>7, ListingSame
<1>9. Nested(frames', tree, roots, next)
  BY <1>1, <1>2, NestedAdvance
<1> QED BY <1>1, <1>2, <1>8, <1>9 DEF OutputInv

\* Closing a directory.
LEMMA OutputClose ==
  ASSUME TextInv, OutputInv, Program!CloseDirectory
  PROVE  OutputInv'
<1> DEFINE top == LastOf(frames)
           rest == Program!Front(frames)
           closing == (IF top.entries = <<>> THEN <<>> ELSE <<Program!Token(EndList, top.path)>>)
                      \o <<Program!Token(Close, top.path)>>
           o == overlay \o closing
<1>1. /\ at = "walk" /\ frames # <<>> /\ top.index > Len(top.entries)
      /\ roots' = roots /\ at' = at /\ tree' = tree /\ exit' = exit /\ file' = file
  BY Zenon DEF Program!CloseDirectory, Program!InLoop, Program!Top, LastOf
<1>2. /\ rest = <<>> =>
           /\ overlay' = o \o IF next # Len(roots) THEN <<Program!Comma>> ELSE <<>>
           /\ next' = next + 1 /\ frames' = <<>>
      /\ rest # <<>> =>
           /\ overlay' = o \o Program!Separator(LastOf(rest))
           /\ frames' = Program!Advanced(rest) /\ next' = next
  BY Zenon DEF Program!CloseDirectory, Program!InLoop, Program!Top, LastOf, EndList, Close
<1>3. /\ TreeInv(tree, roots) /\ Nested(frames, tree, roots, next) /\ Calls(frames)
      /\ Listing(overlay, frames, roots, next, tree) /\ overlay \in Seq(TokenSet)
      /\ roots \in Seq(Arguments) /\ next \in 1..Len(roots) /\ file = "old" /\ exit # 0
  BY <1>1, WalkFacts
<1>4. /\ top \in FrameSet /\ Calls(rest) /\ Len(rest) = Len(frames) - 1 /\ Len(frames) \in Nat \ {0}
  BY <1>1, <1>3, CallsPop
<1>5. ~AtEntry(top)
  <2>1. top.index \in Nat /\ Len(top.entries) \in Nat
    BY <1>4, LenProperties DEF FrameSet
  <2> HIDE DEF top
  <2> QED BY <1>1, <2>1 DEF AtEntry
<1>6. SameFiles(overlay, o)
  <2>1. top.path \in Places
    BY <1>4 DEF FrameSet
  <2> QED BY <2>1, <1>3, ClosingText, Zenon
<1> HIDE DEF o, closing
<1>7. SameFiles(overlay, overlay')
  <2>1. o \in Seq(TokenSet)
    BY <1>6 DEF SameFiles
  <2>2. \A b : SameFiles(o, o \o IF b THEN <<Program!Comma>> ELSE <<>>)
    BY <2>1, SeparatorText
  <2>3. SameFiles(o, o \o Program!Separator(LastOf(rest)))
    BY <2>1, SeparatorText
  <2>4. SameFiles(o, overlay')
    BY <1>2, <2>2, <2>3, Zenon
  <2> QED BY <1>6, <2>4, SameFilesAgain
<1>8. Listing(overlay', frames, roots, next, tree)
  BY <1>3, <1>7, ListingSame
<1>9. CASE rest = <<>>
  <2>1. Len(frames) = 1
    <3>1. Len(<<>>) = 0
      OBVIOUS
    <3> HIDE DEF rest
    <3> QED BY <3>1, <1>4, <1>9
  <2>2. next \in Nat \ {0} /\ next <= Len(roots)
    BY <1>3, LenProperties
  <2>3. Listing(overlay', <<>>, roots, next + 1, tree)
    BY <1>3, <1>5, <1>8, <2>1, <2>2, ListingRoot
  <2>4. frames' = <<>> /\ next' = next + 1
    BY <1>2, <1>9
  <2>5. Nested(<<>>, tree, roots, next + 1)
    <3>1. 1..Len(<<>>) = {}
      OBVIOUS
    <3> QED BY <3>1, Zenon DEF Nested
  <2> HIDE DEF top, rest
  <2> QED BY <1>1, <1>3, <2>3, <2>4, <2>5, Zenon DEF OutputInv
<1>10. CASE rest # <<>>
  <2>1. Listing(overlay', Program!Advanced(rest), roots, next, tree)
    BY <1>1, <1>3, <1>5, <1>8, <1>10, ListingDirectory
  <2>2. Nested(rest, tree, roots, next)
    BY <1>1, <1>3, NestedPop
  <2>3. Nested(Program!Advanced(rest), tree, roots, next)
    BY <1>3, <1>4, <1>10, <2>2, NestedAdvance
  <2>4. frames' = Program!Advanced(rest) /\ next' = next
    BY <1>2, <1>10
  <2> HIDE DEF top, rest
  <2> QED BY <1>1, <1>3, <2>1, <2>3, <2>4, Zenon DEF OutputInv
<1> QED BY <1>9, <1>10

\* The steps that end a walk, and writing the file after it.
LEMMA OutputEnds ==
  ASSUME TextInv, OutputInv,
         \/ Program!ParseFails \/ Program!NoRoots \/ Program!RefuseEntry \/ Program!CollectFails
         \/ Program!OpenFails \/ Program!Unwind \/ Program!WalkFails
  PROVE  OutputInv'
<1>1. /\ at # "done" /\ file' = file /\ (at' = "done" \/ at' = "unwind")
      /\ exit' = exit \/ exit' = 1 \/ exit' = 2
  BY Zenon DEF Program!ParseFails, Program!NoRoots, Program!OpenFails, Program!WalkFails,
               Program!RefuseEntry, Program!CollectFails, Program!Unwind, Program!HasEntry,
               Program!InLoop, Program!Walked, Program!Exit
<1>2. file = "old" /\ exit # 0
  BY <1>1 DEF OutputInv, TextInv
<1> QED BY <1>1, <1>2 DEF OutputInv

\* Writing the file, whole or in part.
LEMMA OutputWritten ==
  ASSUME TextInv, OutputInv, Program!Write \/ Program!WriteFails
  PROVE  OutputInv'
<1>1. /\ at = "walk" /\ frames = <<>> /\ next > Len(roots)
      /\ roots' = roots /\ overlay' = overlay /\ tree' = tree /\ at' = "done"
      /\ (file' = "overlay" /\ exit' = 0) \/ (file' = "partial" /\ exit' = 1)
  BY Zenon DEF Program!Write, Program!WriteFails, Program!Walked, Program!Exit
<1>2. /\ TreeInv(tree, roots) /\ Listing(overlay, frames, roots, next, tree)
      /\ roots \in Seq(Arguments) /\ next \in 1..(Len(roots) + 1)
  BY <1>1, WalkFacts
<1>3. next \in Nat /\ next = Len(roots) + 1
  <2>1. Len(roots) \in Nat
    BY <1>2, LenProperties
  <2> QED BY <1>1, <1>2, <2>1
<1>4. Listing(overlay, <<>>, roots, next, tree)
  BY <1>1, <1>2, Zenon
<1>5. Complete(overlay, tree, roots)
  BY <1>2, <1>3, <1>4, AllListed
<1> QED BY <1>1, <1>5 DEF OutputInv

\* Every step keeps the invariant.
LEMMA OutputStep ==
  TextInv /\ TextInv' /\ OutputInv /\ [GeneratorNext]_<<level, vars, program>> => OutputInv'
<1> SUFFICES ASSUME TextInv, TextInv', OutputInv, [GeneratorNext]_<<level, vars, program>>
             PROVE  OutputInv'
  OBVIOUS
<1>1. CASE UNCHANGED program
  <2>1. /\ roots' = roots /\ at' = at /\ next' = next /\ tree' = tree /\ file' = file
        /\ frames' = frames /\ overlay' = overlay /\ exit' = exit
    BY <1>1, Zenon DEF program
  <2> QED BY <2>1 DEF OutputInv
<1>2. CASE Program!Next
  <2>1. CASE Program!Done
    <3>1. UNCHANGED program
      BY <2>1, Zenon DEF Program!Done, Program!vars, program
    <3> QED BY <1>1, <3>1
  <2>2. CASE ~Program!Done
    BY <1>2, <2>2, OutputParse, OutputEnter, OutputFile, OutputClose, OutputEnds, OutputWritten,
       Zenon DEF Program!Next
  <2> QED BY <2>1, <2>2
<1>3. UNCHANGED program \/ Program!Next
  BY Zenon DEF GeneratorNext, CallStep, ProgramStep
<1> QED BY <1>1, <1>2, <1>3

\* The beginning of a path.
LEMMA Beginning ==
  ASSUME NEW p \in Places, NEW e \in Places, Covers(p, e)
  PROVE  SubSeq(p, 1, Len(e)) = e
<1> DEFINE L == Len(e)
           s == SubSeq(p, 1, L)
<1>1. p \in Seq(PathNames) /\ e \in Seq(PathNames) /\ L \in Nat /\ Len(p) \in Nat
  BY LenProperties DEF Places
<1>2. L <= Len(p) /\ \A i \in 1..L : p[i] = e[i]
  BY <1>1 DEF Covers
<1> HIDE DEF L
<1>3. \A i \in 1..L : p[i] \in PathNames
  <2>1. \A i \in 1..L : i \in 1..Len(p)
    BY <1>1, <1>2
  <2> QED BY <2>1, <1>1, ElementOfSeq
<1>4. 1 \in Int /\ L \in Int
  BY <1>1
<1>5. /\ s \in Seq(PathNames) /\ Len(s) = IF 1 <= L THEN L - 1 + 1 ELSE 0
      /\ \A i \in 1..L - 1 + 1 : s[i] = p[1 + i - 1]
  BY <1>3, <1>4, SubSeqProperties
<1> HIDE DEF s
<1>6. Len(s) = L
  BY <1>1, <1>5
<1>7. \A i \in 1..L : s[i] = e[i]
  <2>1. L - 1 + 1 = L /\ \A i \in 1..L : 1 + i - 1 = i
    BY <1>1
  <2> QED BY <2>1, <1>2, <1>5
<1>8. s = e
  BY <1>1, <1>5, <1>6, <1>7, SeqEqual DEF L
<1> QED BY <1>8 DEF s, L

\* The visible files are the files among the preferred entries.
LEMMA VisibleFiles ==
  ASSUME TreeInv(tree, roots), NEW p
  PROVE  p \in Program!Visible <=> IsEntry(tree, p, "file")
<1>1. \A S : Program!Preferred(S) = Preferred(S)
  BY DEF Preferred, Program!Preferred
<1> DEFINE All == {Append(d, n) : d \in DOMAIN tree, n \in Names}
           Way(q) == \A k \in 2..Len(q) :
                       /\ SubSeq(q, 1, k - 1) \in DOMAIN tree
                       /\ q[k] \in Program!Preferred(DOMAIN tree[SubSeq(q, 1, k - 1)])
           WayTo(q) == \A k \in 2..Len(q) :
                         /\ SubSeq(q, 1, k - 1) \in DOMAIN tree
                         /\ q[k] \in Preferred(DOMAIN tree[SubSeq(q, 1, k - 1)])
<1>v. Program!Visible = {q \in All : Way(q) /\ Program!KindOf(q) = "file"}
  BY DEF Program!Visible
<1>w. \A q : q \in Program!Visible <=> q \in All /\ WayTo(q) /\ Program!KindOf(q) = "file"
  <2>1. ASSUME NEW q PROVE Way(q) <=> WayTo(q)
    <3>1. ASSUME NEW k
          PROVE  q[k] \in Program!Preferred(DOMAIN tree[SubSeq(q, 1, k - 1)])
                   <=> q[k] \in Preferred(DOMAIN tree[SubSeq(q, 1, k - 1)])
      <4>1. Program!Preferred(DOMAIN tree[SubSeq(q, 1, k - 1)])
              = Preferred(DOMAIN tree[SubSeq(q, 1, k - 1)])
        BY <1>1
      <4> QED BY <4>1, Zenon
    <3> QED BY <3>1, Zenon
  <2> HIDE DEF All, Way, WayTo
  <2> QED BY <1>v, <2>1
<1> HIDE DEF Way, WayTo
<1>2. ASSUME p \in Program!Visible PROVE IsEntry(tree, p, "file")
  <2> HIDE DEF All
  <2>1. p \in All /\ WayTo(p) /\ Program!KindOf(p) = "file"
    BY <1>2, <1>w, Zenon
  <2>2. PICK d \in DOMAIN tree : \E n \in Names : p = Append(d, n)
    BY <2>1 DEF All
  <2>3. PICK n \in Names : p = Append(d, n)
    BY <2>2
  <2>4. d \in Places /\ d # <<>> /\ n \in PathNames
    BY Zenon DEF TreeInv, PathNames
  <2> DEFINE q == Append(d, n)
             L == Len(d)
  <2>5. /\ q \in Places /\ L \in Nat \ {0} /\ Len(q) = L + 1 /\ q[L + 1] = n
        /\ \A i \in 1..L : q[i] = d[i]
    BY <2>4, AppendProperties, EmptySeq DEF Places
  <2>6. Program!Front(q) = d /\ Program!Last(q) = n
    BY <2>4, ParentAndName
  <2>7. p = q
    BY <2>3
  <2> HIDE DEF q, L
  <2>8. tree[d][n] = "file"
    BY <2>1, <2>6, <2>7, Zenon DEF Program!KindOf
  <2>9. n \in Preferred(DOMAIN tree[d])
    <3>1. SubSeq(q, 1, L) = d
      <4>1. Covers(q, d)
        BY <2>5 DEF Covers, L
      <4> QED BY <4>1, <2>4, <2>5, Beginning DEF L
    <3> DEFINE k == L + 1
    <3>2. k \in 2..Len(q) /\ k - 1 = L /\ q[k] = n
      BY <2>5
    <3>3. WayTo(q)
      BY <2>1, <2>7, Zenon
    <3> HIDE DEF k
    <3>4. q[k] \in Preferred(DOMAIN tree[SubSeq(q, 1, k - 1)])
      BY <3>2, <3>3 DEF WayTo
    <3> QED BY <3>1, <3>2, <3>4, Zenon
  <2> QED BY <2>3, <2>8, <2>9, Zenon DEF IsEntry
<1>3. ASSUME IsEntry(tree, p, "file") PROVE p \in Program!Visible
  <2>1. PICK d \in DOMAIN tree :
          \E n \in Preferred(DOMAIN tree[d]) : p = Append(d, n) /\ tree[d][n] = "file"
    BY <1>3, Zenon DEF IsEntry
  <2>2. PICK n \in Preferred(DOMAIN tree[d]) : p = Append(d, n) /\ tree[d][n] = "file"
    BY <2>1
  <2> DEFINE q == Append(d, n)
             L == Len(d)
  <2>3. /\ d \in Places /\ L \in Nat \ {0} /\ n \in Names /\ n \in PathNames
        /\ q \in Places /\ Len(q) = L + 1 /\ q[L + 1] = n
        /\ \A i \in 1..L : q[i] = d[i]
        /\ Covers(q, d)
    BY EntryPath
  <2>4. Program!Front(q) = d /\ Program!Last(q) = n
    BY <2>3, ParentAndName
  <2>5. p = q
    BY <2>2
  <2>6. q \in All
    BY <2>3
  <2> HIDE DEF q, L, All
  <2>7. Program!KindOf(q) = "file"
    BY <2>2, <2>4, Zenon DEF Program!KindOf
  <2>8. ASSUME NEW k \in 2..Len(q)
        PROVE  /\ SubSeq(q, 1, k - 1) \in DOMAIN tree
               /\ q[k] \in Preferred(DOMAIN tree[SubSeq(q, 1, k - 1)])
    <3>1. CASE k = L + 1
      <4>1. k - 1 = L
        BY <3>1, <2>3
      <4>2. SubSeq(q, 1, L) = d
        BY <2>3, Beginning DEF L
      <4> QED BY <3>1, <4>1, <4>2, <2>3, Zenon
    <3>2. CASE k # L + 1
      <4>1. k \in 2..L /\ k \in 1..L
        BY <3>2, <2>3
      <4>2. PICK e \in DOMAIN tree : /\ Len(e) = k - 1 /\ Covers(d, e)
                                     /\ d[k] \in Preferred(DOMAIN tree[e])
        BY <4>1, Zenon DEF TreeInv, Step, L
      <4>3. e \in Places
        BY Zenon DEF TreeInv
      <4>4. Covers(q, e)
        <5>1. \A x \in 1..Len(e) : x \in 1..L
          BY <4>1, <4>2, <2>3
        <5>2. \A x \in 1..Len(e) : q[x] = e[x]
          BY <5>1, <4>2, <2>3 DEF Covers
        <5>3. Len(q) >= Len(e)
          BY <4>1, <4>2, <2>3
        <5> QED BY <5>2, <5>3 DEF Covers
      <4>5. SubSeq(q, 1, k - 1) = e
        BY <4>2, <4>3, <4>4, <2>3, Beginning
      <4>6. q[k] = d[k]
        BY <4>1, <2>3
      <4> QED BY <4>2, <4>5, <4>6, Zenon
    <3> QED BY <3>1, <3>2
  <2>9. q \in Program!Visible
    <3>1. WayTo(q)
      BY <2>8 DEF WayTo
    <3> QED BY <3>1, <1>w, <2>6, <2>7, Zenon
  <2> QED BY <2>5, <2>9
<1> QED BY <1>2, <1>3

\* What the invariants say of the output file.
LEMMA OutputComplete == TextInv /\ OutputInv => OutputIsComplete
<1> SUFFICES ASSUME TextInv, OutputInv PROVE Program!OutputIsComplete
  BY Zenon DEF OutputIsComplete
<1>1. exit = 0 => file = "overlay"
  BY DEF OutputInv
<1>2. overlay \in Seq(TokenSet) /\ roots \in Seq(Arguments)
  BY DEF TextInv
<1>3. DOMAIN overlay = 1..Len(overlay) /\ DOMAIN roots = 1..Len(roots) /\ Len(roots) \in Nat
  BY <1>2, LenProperties
<1>4. Program!Tokens("file") = {i \in 1..Len(overlay) : overlay[i].t = "file"}
  BY <1>3, Zenon DEF Program!Tokens
<1>5. \A S : Program!Cardinality(S) = Cardinality(S)
  BY DEF Program!Cardinality, Cardinality
<1>6. \A i \in 1..Len(overlay) : overlay[i].t = "file" =>
        overlay[i] = Program!Token("file", overlay[i].path)
  <2> SUFFICES ASSUME NEW i \in 1..Len(overlay), overlay[i].t = "file"
               PROVE  overlay[i] = Program!Token("file", overlay[i].path)
    OBVIOUS
  <2>1. overlay[i] \in TokenSet
    BY <1>2, ElementOfSeq
  <2> QED BY <2>1 DEF TokenSet, Program!Token
<1>7. ASSUME file # "old"
      PROVE  /\ {overlay[i].path : i \in Program!Tokens("file")} = Program!Visible
             /\ \A i \in Program!Tokens("file") :
                  Program!Cardinality({j \in Program!Tokens("file") : overlay[j] = overlay[i]})
                    = Program!Cardinality({k \in DOMAIN roots :
                                             Generic[roots[k]] = overlay[i].path[1]})
  <2>1. Complete(overlay, tree, roots)
    BY <1>7 DEF OutputInv
  <2>2. /\ TreeInv(tree, roots)
        /\ \A j \in 1..Len(overlay) :
             overlay[j].t = "file" => IsEntry(tree, overlay[j].path, "file")
        /\ \A p : IsEntry(tree, p, "file") =>
             Cardinality(Listings(overlay, p))
               = Cardinality({i \in 1..Len(roots) : Generic[roots[i]] = p[1]})
    BY <2>1, Zenon DEF Complete, FilesOnly
  <2>3. ASSUME NEW p, IsEntry(tree, p, "file")
        PROVE  \E i \in Program!Tokens("file") : overlay[i].path = p
    <3> DEFINE S == {i \in 1..Len(roots) : Generic[roots[i]] = p[1]}
    <3>1. PICK d \in DOMAIN tree : \E n \in Preferred(DOMAIN tree[d]) : p = Append(d, n)
      BY <2>3, Zenon DEF IsEntry
    <3>2. PICK n \in Preferred(DOMAIN tree[d]) : p = Append(d, n)
      BY <3>1
    <3>3. Len(d) \in Nat \ {0} /\ \A i \in 1..Len(d) : Append(d, n)[i] = d[i]
      BY <2>2, EntryPath
    <3>4. Append(d, n)[1] = d[1]
      BY <3>3
    <3>5. p[1] = d[1]
      BY <3>2, <3>4, Zenon
    <3>6. PICK j \in 1..Len(roots) : d[1] = Generic[roots[j]]
      BY <2>2, Zenon DEF TreeInv
    <3>7. j \in S
      BY <3>5, <3>6
    <3>8. IsFiniteSet(S)
      <4>1. S \in SUBSET (1..Len(roots))
        OBVIOUS
      <4>2. IsFiniteSet(1..Len(roots))
        BY <1>3, FS_Interval
      <4> HIDE DEF S
      <4> QED BY <4>1, <4>2, FS_Subset
    <3>9. Cardinality(Listings(overlay, p)) = Cardinality(S)
      BY <2>2, <2>3
    <3> HIDE DEF S
    <3>10. Cardinality(S) # 0
      BY <3>7, <3>8, FS_EmptySet
    <3>11. Listings(overlay, p) # {}
      <4>1. Cardinality({}) = 0
        BY FS_EmptySet
      <4> QED BY <3>9, <3>10, <4>1, Zenon
    <3>12. PICK i \in Listings(overlay, p) : TRUE
      BY <3>11
    <3>13. i \in 1..Len(overlay) /\ overlay[i].t = "file" /\ overlay[i].path = p
      BY DEF Listings, Program!Token
    <3> QED BY <3>13, <1>4
  <2>4. \A p : p \in Program!Visible <=> IsEntry(tree, p, "file")
    BY <2>2, VisibleFiles
  <2>5. {overlay[i].path : i \in Program!Tokens("file")} = Program!Visible
    <3>1. \A i \in Program!Tokens("file") : overlay[i].path \in Program!Visible
      BY <1>4, <2>2, <2>4
    <3>2. \A p \in Program!Visible : \E i \in Program!Tokens("file") : overlay[i].path = p
      BY <2>3, <2>4
    <3> QED BY <3>1, <3>2
  <2>6. ASSUME NEW i \in Program!Tokens("file")
        PROVE  Cardinality({j \in Program!Tokens("file") : overlay[j] = overlay[i]})
                 = Cardinality({k \in DOMAIN roots : Generic[roots[k]] = overlay[i].path[1]})
    <3> DEFINE p == overlay[i].path
    <3>1. i \in 1..Len(overlay) /\ overlay[i].t = "file"
      BY <1>4
    <3>2. overlay[i] = Program!Token("file", p)
      BY <1>6, <3>1
    <3>3. IsEntry(tree, p, "file")
      BY <2>2, <3>1
    <3>4. {j \in Program!Tokens("file") : overlay[j] = overlay[i]} = Listings(overlay, p)
      <4>1. \A j \in 1..Len(overlay) : overlay[j] = overlay[i] => overlay[j].t = "file"
        BY <3>1
      <4> HIDE DEF p
      <4> QED BY <4>1, <1>4, <3>2 DEF Listings
    <3>5. Cardinality(Listings(overlay, p))
            = Cardinality({k \in 1..Len(roots) : Generic[roots[k]] = p[1]})
      BY <2>2, <3>3
    <3> QED BY <1>3, <3>4, <3>5
  <2> QED BY <1>5, <2>5, <2>6, Zenon
<1> QED BY <1>1, <1>7, Zenon DEF Program!OutputIsComplete

\* The output file is not touched until the overlay lists the visible files, and
\* each as often as its root was given; and exit status 0 means that it was written
\* (ci_render_overlay returns before main opens the file).
THEOREM FileIsComplete == GeneratorSpec => []OutputIsComplete
<1>1. GeneratorInit => TextInv /\ OutputInv
  BY TextInit, OutputInit, Zenon DEF GeneratorInit
<1>2. (TextInv /\ OutputInv) /\ [GeneratorNext]_<<level, vars, program>> => (TextInv /\ OutputInv)'
  BY TextStep, OutputStep
<1>3. TextInv /\ OutputInv => OutputIsComplete
  BY OutputComplete
<1> QED BY <1>1, <1>2, <1>3, PTL DEF GeneratorSpec
=============================================================================
