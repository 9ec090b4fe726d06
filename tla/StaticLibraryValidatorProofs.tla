--------------------- MODULE StaticLibraryValidatorProofs ---------------------
(***************************************************************************)
(* The verdict of the static library validator is right for every library, *)
(* of any format and any number of members and symbols: the scan walks a   *)
(* sorted list of exactly the definitions that exclude others, always      *)
(* stands between two groups of equal symbols, and has listed the          *)
(* definitions before it that have a twin.                                 *)
(***************************************************************************)
EXTENDS StaticLibraryValidator, FiniteSetTheorems, WellFoundedInduction, TLAPS

\* What the scan should see: one entry for every exclusive definition.
Strong == {x \in Objects \X Symbols : Exclusive(library[x[1]][x[2]])}
Entry(x) == [object |-> x[1], symbol |-> x[2], type |-> "T"]
Definitions == {Entry(x) : x \in Strong}

Distinct(seq) == \A j, k \in DOMAIN seq : seq[j] = seq[k] => j = k

\* seq holds every exclusive definition once, in the order of the symbols.
Enumerates(seq) ==
  /\ seq \in Seq(Definitions)
  /\ Distinct(seq)
  /\ \A d \in Definitions : \E k \in DOMAIN seq : seq[k] = d
  /\ Sorted(seq)

\* No symbol has entries on both sides of index n.
Boundary(seq, n) ==
  \A j, k \in DOMAIN seq : j < n /\ n <= k => seq[j].symbol # seq[k].symbol

\* Entry k shares its symbol with another one.
HasTwin(seq, k) == \E m \in DOMAIN seq : m # k /\ seq[m].symbol = seq[k].symbol

\* block lists the entries before index n that have a twin, each once.
Lists(block, seq, n) ==
  /\ block \in Seq(Definitions)
  /\ Distinct(block)
  /\ \A k \in DOMAIN seq : 
       (k < n /\ HasTwin(seq, k)) <=> \E b \in DOMAIN block : block[b] = seq[k]
  /\ \A b \in DOMAIN block : \E k \in DOMAIN seq : k < n /\ block[b] = seq[k]

TypeOK ==
  /\ library \in [Objects -> [Symbols -> Linkages]]
  /\ format \in Formats
  /\ \A o \in Objects, s \in Symbols : library[o][s] \in Available(format)
  /\ pc \in {"start", "nm", "read", "scan", "filter", "print", "done"}
  /\ child \in {"none", "running", "ok", "bad"}

\* The output of a tool is only read when the tool is gone.
ToolsAreDone == pc \in {"start", "read", "scan", "print"} => child = "none"

Scanned ==
  /\ pc \in {"start", "nm", "read"} => i = 1 /\ dups = <<>>
  /\ pc \in {"scan", "filter", "print"} =>
       /\ Enumerates(entries)
       /\ i \in 1..(Len(entries) + 1)
       /\ Boundary(entries, i)
       /\ Lists(dups, entries, i)
  /\ pc \in {"filter", "print"} => i > Len(entries) /\ dups # <<>>

Verdict ==
  /\ stamp => Clashing = {}
  /\ exit = 1 => Clashing # {}

IInv == TypeOK /\ ToolsAreDone /\ Scanned /\ Verdict

-----------------------------------------------------------------------------
(* What is read is what is defined.                                         *)

\* llvm-nm prints a line for a symbol used in this way.
Printed(l) ==
  /\ l # "absent"
  /\ format = "macho" => l \notin WeakDefinitions \cup {"weak undefined"}

\* Of the linkages printed, should_keep_type keeps the exclusive ones.
LEMMA KeptLinkages ==
  ASSUME NEW l \in Linkages, format \in Formats
  PROVE  Printed(l) /\ ShouldKeep(Letter(l)) <=> Exclusive(l)
<1>1. CASE l = "strong"
  BY <1>1 DEF Letter, ShouldKeep, IsUpper, Exclusive, Printed, WeakDefinitions
<1>2. CASE l \in WeakDefinitions /\ format = "elf"
  BY <1>2 DEF Letter, ShouldKeep, IsUpper, Exclusive, WeakDefinitions
<1>3. CASE l \in WeakDefinitions /\ format = "macho"
  BY <1>3 DEF Exclusive, Printed, WeakDefinitions
<1>4. CASE l \in WeakDefinitions /\ format = "coff"
  BY <1>4 DEF Letter, ShouldKeep, IsUpper, Exclusive, Printed, WeakDefinitions
<1>5. CASE l \in {"ifunc", "unique", "undefined", "weak undefined", "common"}
  BY <1>5 DEF Letter, ShouldKeep, IsUpper, Exclusive, WeakDefinitions
<1>6. CASE l = "absent"
  BY <1>6 DEF Printed, Exclusive, WeakDefinitions
<1> QED BY <1>1, <1>2, <1>3, <1>4, <1>5, <1>6 DEF Linkages, Formats, WeakDefinitions

\* should_keep_type applied to the output of llvm-nm leaves exactly the
\* exclusive definitions, in every format and whatever letters it prints.
LEMMA KeptAreStrong ==
  ASSUME TypeOK
  PROVE  {l \in NmLines : ShouldKeep(l.type)} = Definitions
<1> DEFINE listed == {x \in Objects \X Symbols :
                   /\ library[x[1]][x[2]] # "absent"
                   /\ "--no-weak" \in NmArguments =>
                        library[x[1]][x[2]] \notin WeakDefinitions \cup {"weak undefined"}}
<1>1. ASSUME NEW x \in Objects \X Symbols
      PROVE  library[x[1]][x[2]] \in Linkages
  BY DEF TypeOK
<1>2. ASSUME NEW x \in Objects \X Symbols
      PROVE  (x \in listed /\ ShouldKeep(Letter(library[x[1]][x[2]]))) <=> x \in Strong
  <2>0. "--no-weak" \in NmArguments <=> format = "macho"
    BY DEF NmArguments
  <2>1. x \in listed <=> Printed(library[x[1]][x[2]])
    BY <2>0 DEF Printed
  <2>2. x \in Strong <=> Exclusive(library[x[1]][x[2]])
    BY DEF Strong
  <2>3. format \in Formats
    BY DEF TypeOK
  <2> HIDE DEF listed
  <2> QED BY <1>1, <2>1, <2>2, <2>3, KeptLinkages, Zenon
<1>3. ASSUME NEW x \in Strong
      PROVE  Letter(library[x[1]][x[2]]) = "T"
  BY DEF Strong, Letter, Exclusive, WeakDefinitions
<1>4. NmLines = {[object |-> x[1], symbol |-> x[2], type |-> Letter(library[x[1]][x[2]])] :
                   x \in listed}
  BY DEF NmLines
<1> HIDE DEF listed
<1>5. listed \subseteq Objects \X Symbols
  BY DEF listed
<1>6. Strong \subseteq Objects \X Symbols
  BY DEF Strong
<1>7. ASSUME NEW l \in NmLines, ShouldKeep(l.type)
      PROVE  l \in Definitions
  <2>1. PICK x \in listed : 
          l = [object |-> x[1], symbol |-> x[2], type |-> Letter(library[x[1]][x[2]])]
    BY <1>4
  <2>2. x \in Strong
    BY <1>7, <2>1, <1>2, <1>5
  <2> QED BY <2>1, <2>2, <1>3 DEF Definitions, Entry
<1>8. ASSUME NEW x \in Strong
      PROVE  Entry(x) \in NmLines /\ ShouldKeep(Entry(x).type)
  BY <1>2, <1>3, <1>4, <1>6 DEF Entry
<1> QED BY <1>7, <1>8 DEF Definitions

\* There are finitely many definitions.
LEMMA FiniteDefinitions == IsFiniteSet(Definitions)
<1>1. IsFiniteSet(Objects \X Symbols)
  BY FS_Product, ValidatorAssumption
<1>2. IsFiniteSet(Strong)
  BY <1>1, FS_Subset DEF Strong
<1> DEFINE F == [x \in Strong |-> Entry(x)]
<1>3. F \in Surjection(Strong, Definitions)
  BY DEF Surjection, Definitions
<1> QED BY <1>2, <1>3, FS_Surjection

\* An entry names its member and its symbol, and different entries are
\* different definitions.
LEMMA Fields ==
  ASSUME NEW d \in Definitions
  PROVE  /\ d.object \in Objects /\ d.symbol \in Symbols
         /\ <<d.object, d.symbol>> \in Strong
         /\ d = Entry(<<d.object, d.symbol>>)
<1>1. PICK x \in Strong : d = Entry(x)
  BY DEF Definitions
<1>2. x \in Objects \X Symbols
  BY DEF Strong
<1>3. x = <<x[1], x[2]>> /\ x[1] \in Objects /\ x[2] \in Symbols
  BY <1>2
<1>4. d.object = x[1] /\ d.symbol = x[2]
  BY <1>1 DEF Entry
<1> QED BY <1>1, <1>3, <1>4

\* A sorted list of the kept lines enumerates the exclusive definitions.
LEMMA Listing ==
  ASSUME NEW seq \in SetToSeqs(Definitions), Sorted(seq)
  PROVE  Enumerates(seq)
<1> DEFINE n == Cardinality(Definitions)
<1>1. n \in Nat
  BY FiniteDefinitions, FS_CardinalityType
<1>2. /\ seq \in [1..n -> Definitions]
      /\ \A j, k \in 1..n : j # k => seq[j] # seq[k]
  BY DEF SetToSeqs
<1>3. Cardinality(1..n) = n
  BY <1>1, FS_Interval
<1> HIDE DEF n
<1>4. seq \in Injection(1..n, Definitions)
  BY <1>2 DEF Injection, IsInjective
<1>5. seq \in Surjection(1..n, Definitions)
  BY <1>3, <1>4, FiniteDefinitions, FS_Injection DEF n
<1>6. seq \in Seq(Definitions) /\ DOMAIN seq = 1..n
  BY <1>1, <1>2
<1> QED BY <1>2, <1>5, <1>6 DEF Enumerates, Distinct, Surjection

-----------------------------------------------------------------------------
(* The scan.                                                                *)

\* A nonempty set of naturals has a least element.
LEMMA Least ==
  ASSUME NEW S \in SUBSET Nat, S # {}
  PROVE  \E x \in S : \A y \in S : x <= y
<1>1. PICK x \in S : \A y \in S : ~(<<y, x>> \in OpToRel(<, Nat))
  BY NatLessThanWellFounded, WFMin
<1>2. ASSUME NEW y \in S PROVE x <= y
  <2>1. ~(y < x)
    BY <1>1 DEF OpToRel
  <2> QED BY <2>1
<1> QED BY <1>2

\* What GroupEnd is the index of.
EndsGroup(j) ==
  /\ \A k \in i..(j - 1) : entries[k].symbol = entries[i].symbol
  /\ j <= Len(entries) => entries[j].symbol # entries[i].symbol

\* The group that starts at index i has an end.
LEMMA GroupEndExists ==
  ASSUME NEW E, entries \in Seq(E), i \in 1..Len(entries)
  PROVE  GroupEnd \in (i + 1)..(Len(entries) + 1) /\ EndsGroup(GroupEnd)
<1> DEFINE others == {j \in i..Len(entries) : entries[j].symbol # entries[i].symbol}
           S == others \cup {Len(entries) + 1}
<1>1. Len(entries) \in Nat /\ i \in Nat
  OBVIOUS
<1>2. PICK j \in S : \A k \in S : j <= k
  <2>1. S \in SUBSET Nat /\ S # {}
    BY <1>1
  <2> HIDE DEF S
  <2> QED BY <2>1, Least
<1>3. j \in (i + 1)..(Len(entries) + 1)
  BY <1>1
<1>4. EndsGroup(j)
  <2>1. ASSUME NEW k \in i..(j - 1) PROVE entries[k].symbol = entries[i].symbol
    BY <1>1, <1>2, <1>3
  <2> QED BY <1>1, <2>1 DEF EndsGroup
<1>5. GroupEnd = CHOOSE x \in (i + 1)..(Len(entries) + 1) : EndsGroup(x)
  BY DEF GroupEnd, EndsGroup
<1> QED BY <1>3, <1>4, <1>5

\* The index after a group is again a boundary: the entries are sorted, so
\* the symbol of the group does not come back.
LEMMA NextBoundary ==
  ASSUME Enumerates(entries), i \in 1..Len(entries), Boundary(entries, i),
         NEW g \in (i + 1)..(Len(entries) + 1), EndsGroup(g)
  PROVE  Boundary(entries, g)
<1> SUFFICES ASSUME NEW j \in DOMAIN entries, NEW k \in DOMAIN entries, j < g, g <= k
             PROVE  entries[j].symbol # entries[k].symbol
  BY DEF Boundary
<1>1. /\ DOMAIN entries = 1..Len(entries) /\ Len(entries) \in Nat
      /\ \A m \in 1..Len(entries) : entries[m] \in Definitions
      /\ Sorted(entries)
  BY DEF Enumerates
<1>2. \A m \in 1..Len(entries) : entries[m].symbol \in Symbols
  BY <1>1, Fields
<1>3. CASE j < i
  BY <1>1, <1>3 DEF Boundary
<1>4. CASE i <= j
  <2>1. entries[j].symbol = entries[i].symbol
    BY <1>1, <1>4 DEF EndsGroup
  <2>2. entries[g].symbol # entries[i].symbol /\ g \in 1..Len(entries)
    BY <1>1 DEF EndsGroup
  <2>3. /\ Order[entries[i].symbol] <= Order[entries[g].symbol]
        /\ g = k \/ Order[entries[g].symbol] <= Order[entries[k].symbol]
    BY <1>1, <2>2 DEF Sorted
  <2>4. /\ Order[entries[i].symbol] \in Nat /\ Order[entries[g].symbol] \in Nat
        /\ Order[entries[k].symbol] \in Nat
        /\ Order[entries[i].symbol] # Order[entries[g].symbol]
    BY <1>1, <1>2, <2>2, ValidatorAssumption
  <2>5. Order[entries[i].symbol] # Order[entries[k].symbol]
    BY <2>3, <2>4
  <2> QED BY <2>1, <2>5
<1> QED BY <1>1, <1>3, <1>4

\* Where the elements of a concatenation come from.
LEMMA Joined ==
  ASSUME NEW S, NEW s \in Seq(S), NEW t \in Seq(S)
  PROVE  /\ s \o t \in Seq(S)
         /\ Len(s \o t) = Len(s) + Len(t)
         /\ \A b \in 1..Len(s) : (s \o t)[b] = s[b]
         /\ \A n \in 1..Len(t) : (s \o t)[Len(s) + n] = t[n]
  OBVIOUS

\* What a part of a sequence holds.
LEMMA Sliced ==
  ASSUME NEW S, NEW s \in Seq(S), NEW a \in 1..Len(s), NEW b \in a..Len(s)
  PROVE  /\ SubSeq(s, a, b) \in Seq(S)
         /\ Len(SubSeq(s, a, b)) = (b - a) + 1
         /\ \A n \in 1..((b - a) + 1) : SubSeq(s, a, b)[n] = s[(a + n) - 1]
  OBVIOUS

\* One iteration of the scan keeps the block exact.
LEMMA NextBlock ==
  ASSUME Enumerates(entries), i \in 1..Len(entries), Boundary(entries, i),
         Lists(dups, entries, i),
         NEW g \in (i + 1)..(Len(entries) + 1), EndsGroup(g), Boundary(entries, g),
         NEW block,
         block = dups \o IF g - i >= 2 THEN SubSeq(entries, i, g - 1) ELSE <<>>
  PROVE  Lists(block, entries, g)
<1>1. /\ entries \in Seq(Definitions)
      /\ DOMAIN entries = 1..Len(entries) /\ Len(entries) \in Nat
      /\ \A m \in 1..Len(entries) : entries[m] \in Definitions
      /\ Distinct(entries)
  BY DEF Enumerates
<1>2. /\ dups \in Seq(Definitions) /\ Len(dups) \in Nat
      /\ DOMAIN dups = 1..Len(dups)
      /\ Distinct(dups)
  BY DEF Lists
<1>3. CASE g - i >= 2
  <2> DEFINE group == SubSeq(entries, i, g - 1)
  <2>1. /\ group \in Seq(Definitions)
        /\ Len(group) = g - i
        /\ \A n \in 1..(g - i) : group[n] = entries[i + n - 1]
    <3>1. /\ g \in Int /\ i \in Int /\ g - 1 \in i..Len(entries)
          /\ ((g - 1) - i) + 1 = g - i
      BY <1>1, <1>3
    <3>2. /\ group \in Seq(Definitions)
          /\ Len(group) = ((g - 1) - i) + 1
          /\ \A n \in 1..(((g - 1) - i) + 1) : group[n] = entries[(i + n) - 1]
      BY <1>1, <3>1, Sliced
    <3>3. \A n \in Int : (i + n) - 1 = i + n - 1
      BY <3>1
    <3> HIDE DEF group
    <3> QED BY <3>1, <3>2, <3>3
  <2>2. block = dups \o group
    BY <1>3
  <2> HIDE DEF group
  <2>3. /\ block \in Seq(Definitions)
        /\ Len(block) = Len(dups) + (g - i)
        /\ DOMAIN block = 1..(Len(dups) + (g - i))
        /\ \A b \in 1..Len(dups) : block[b] = dups[b]
        /\ \A n \in 1..(g - i) : block[Len(dups) + n] = entries[i + n - 1]
    <3>0. dups \in Seq(Definitions) /\ group \in Seq(Definitions)
      BY <1>2, <2>1
    <3>1. block \in Seq(Definitions) /\ Len(block) = Len(dups) + Len(group)
      BY <3>0, <2>2, Joined, Zenon
    <3>2. \A b \in 1..Len(dups) : block[b] = dups[b]
      BY <3>0, <2>2, Joined
    <3>3. \A n \in 1..Len(group) : block[Len(dups) + n] = group[n]
      BY <3>0, <2>2, Joined
    <3>4. DOMAIN block = 1..Len(block)
      BY <3>1
    <3> QED BY <2>1, <3>1, <3>2, <3>3, <3>4, Zenon
  <2>4. \A b \in 1..Len(dups) : \E k \in DOMAIN entries : k < i /\ block[b] = entries[k]
    BY <1>2, <2>3 DEF Lists
  <2>5. \A b \in DOMAIN block : b > Len(dups) =>
          /\ i + (b - Len(dups)) - 1 \in i..(g - 1)
          /\ block[b] = entries[i + (b - Len(dups)) - 1]
    <3> SUFFICES ASSUME NEW b \in DOMAIN block, b > Len(dups)
                 PROVE  /\ i + (b - Len(dups)) - 1 \in i..(g - 1)
                        /\ block[b] = entries[i + (b - Len(dups)) - 1]
      OBVIOUS
    <3> DEFINE n == b - Len(dups)
    <3>1. n \in 1..(g - i) /\ b = Len(dups) + n
      BY <1>1, <1>2, <2>3
    <3> HIDE DEF n
    <3>2. block[b] = entries[i + n - 1]
      BY <3>1, <2>3
    <3>3. i + n - 1 \in i..(g - 1)
      BY <3>1, <1>1
    <3> QED BY <3>2, <3>3 DEF n
  <2>6. Distinct(block)
    <3> SUFFICES ASSUME NEW b \in DOMAIN block, NEW c \in DOMAIN block, block[b] = block[c]
                 PROVE  b = c
      BY DEF Distinct
    <3>0. b \in Nat /\ c \in Nat /\ b >= 1 /\ c >= 1
      BY <2>3
    <3>1. CASE b <= Len(dups) /\ c <= Len(dups)
      BY <3>0, <3>1, <1>2, <2>3 DEF Distinct
    <3>2. CASE b <= Len(dups) /\ c > Len(dups)
      <4>1. PICK k \in DOMAIN entries : k < i /\ block[b] = entries[k]
        BY <3>0, <3>2, <1>2, <2>4
      <4> DEFINE m == i + (c - Len(dups)) - 1
      <4>2. m \in i..(g - 1) /\ block[c] = entries[m]
        BY <3>2, <2>5
      <4> HIDE DEF m
      <4>3. m \in DOMAIN entries
        BY <4>2, <1>1
      <4>4. k = m
        BY <4>1, <4>2, <4>3, <1>1 DEF Distinct
      <4> QED BY <4>1, <4>2, <4>4, <1>1
    <3>3. CASE b > Len(dups) /\ c <= Len(dups)
      <4>1. PICK k \in DOMAIN entries : k < i /\ block[c] = entries[k]
        BY <3>0, <3>3, <1>2, <2>4
      <4> DEFINE m == i + (b - Len(dups)) - 1
      <4>2. m \in i..(g - 1) /\ block[b] = entries[m]
        BY <3>3, <2>5
      <4> HIDE DEF m
      <4>3. m \in DOMAIN entries
        BY <4>2, <1>1
      <4>4. k = m
        BY <4>1, <4>2, <4>3, <1>1 DEF Distinct
      <4> QED BY <4>1, <4>2, <4>4, <1>1
    <3>4. CASE b > Len(dups) /\ c > Len(dups)
      <4> DEFINE m == i + (b - Len(dups)) - 1
                 n == i + (c - Len(dups)) - 1
      <4>1. m \in i..(g - 1) /\ block[b] = entries[m]
        BY <3>4, <2>5
      <4>2. n \in i..(g - 1) /\ block[c] = entries[n]
        BY <3>4, <2>5
      <4>3. m = n
        <5> HIDE DEF m, n
        <5>1. m \in DOMAIN entries /\ n \in DOMAIN entries
          BY <4>1, <4>2, <1>1
        <5> QED BY <5>1, <4>1, <4>2, <1>1 DEF Distinct
      <4> QED BY <4>3, <3>0, <1>1, <1>2
    <3> QED BY <3>0, <3>1, <3>2, <3>3, <3>4, <1>2
  <2>7. ASSUME NEW k \in DOMAIN entries, k < g, HasTwin(entries, k)
        PROVE  \E b \in DOMAIN block : block[b] = entries[k]
    <3>1. CASE k < i
      <4>1. PICK b \in DOMAIN dups : dups[b] = entries[k]
        BY <2>7, <3>1 DEF Lists
      <4>2. b \in DOMAIN block /\ block[b] = dups[b]
        BY <4>1, <1>1, <1>2, <2>3
      <4> QED BY <4>1, <4>2
    <3>2. CASE i <= k
      <4> DEFINE n == k - i + 1
      <4>1. k \in Int /\ i \in Int /\ g \in Int
        BY <1>1
      <4>2. n \in 1..(g - i) /\ i + n - 1 = k
        BY <2>7, <3>2, <4>1
      <4> HIDE DEF n
      <4>3. Len(dups) + n \in DOMAIN block
        BY <4>1, <4>2, <1>2, <2>3
      <4> QED BY <4>2, <4>3, <2>3
    <3> QED BY <3>1, <3>2, <1>1
  <2>8. ASSUME NEW b \in DOMAIN block
        PROVE  \E k \in DOMAIN entries : 
                 k < g /\ HasTwin(entries, k) /\ block[b] = entries[k]
    <3>1. CASE b <= Len(dups)
      <4>1. b \in DOMAIN dups /\ block[b] = dups[b]
        BY <3>1, <1>2, <2>3
      <4>2. PICK k \in DOMAIN entries : k < i /\ dups[b] = entries[k]
        BY <4>1 DEF Lists
      <4>3. HasTwin(entries, k)
        BY <4>1, <4>2 DEF Lists
      <4> QED BY <4>1, <4>2, <4>3, <1>1
    <3>2. CASE b > Len(dups)
      <4>1. PICK k \in i..(g - 1) : block[b] = entries[k]
        BY <3>2, <2>5
      <4>2. k \in DOMAIN entries /\ k < g /\ i + 1 \in i..(g - 1) /\ i \in i..(g - 1)
            /\ i \in DOMAIN entries /\ i + 1 \in DOMAIN entries
        BY <1>1, <1>3
      <4>3. entries[k].symbol = entries[i].symbol /\ entries[i + 1].symbol = entries[i].symbol
        BY <4>1, <4>2 DEF EndsGroup
      <4>4. HasTwin(entries, k)
        <5>1. CASE k = i
          BY <5>1, <4>2, <4>3 DEF HasTwin
        <5>2. CASE k # i
          BY <5>2, <4>2, <4>3 DEF HasTwin
        <5> QED BY <5>1, <5>2
      <4> QED BY <4>1, <4>2, <4>4
    <3> QED BY <3>1, <3>2, <1>2, <2>3
  <2> QED
    <3>1. ASSUME NEW k \in DOMAIN entries, NEW b \in DOMAIN block, block[b] = entries[k]
          PROVE  k < g /\ HasTwin(entries, k)
      <4>1. PICK m \in DOMAIN entries : 
              m < g /\ HasTwin(entries, m) /\ block[b] = entries[m]
        BY <2>8
      <4>2. m = k
        BY <3>1, <4>1, <1>1 DEF Distinct
      <4> QED BY <4>1, <4>2
    <3> QED BY <2>3, <2>6, <2>7, <2>8, <3>1 DEF Lists
<1>4. CASE ~(g - i >= 2)
  <2>1. g = i + 1
    BY <1>1, <1>4
  <2>2. block = dups
    BY <1>2, <1>4
  <2>3. ~HasTwin(entries, i)
    <3> SUFFICES ASSUME NEW m \in DOMAIN entries, m # i,
                        entries[m].symbol = entries[i].symbol
                 PROVE  FALSE
      BY DEF HasTwin
    <3>0. i \in DOMAIN entries /\ i \in Int /\ i <= i
      BY <1>1
    <3>1. CASE m < i
      BY <3>0, <3>1 DEF Boundary
    <3>2. CASE i < m
      BY <3>2, <1>1, <2>1 DEF Boundary
    <3> QED BY <3>1, <3>2, <1>1
  <2>4. \A k \in DOMAIN entries : k < g <=> k < i \/ k = i
    BY <1>1, <2>1
  <2>5. \A k \in DOMAIN entries : (k < g /\ HasTwin(entries, k)) <=> (k < i /\ HasTwin(entries, k))
    BY <2>3, <2>4
  <2> QED BY <2>2, <2>4, <2>5 DEF Lists
<1> QED BY <1>3, <1>4

-----------------------------------------------------------------------------
(* The verdict.                                                             *)

\* Where the scan ends, the block is the set of clashing definitions.
LEMMA BlockIsClashing ==
  ASSUME TypeOK, Enumerates(entries), Lists(dups, entries, i), i > Len(entries), i \in Nat
  PROVE  /\ {<<dups[k].object, dups[k].symbol>> : k \in DOMAIN dups} = Clashing
         /\ Len(dups) = Cardinality(Clashing)
<1>1. /\ DOMAIN entries = 1..Len(entries) /\ Len(entries) \in Nat
      /\ \A m \in DOMAIN entries : entries[m] \in Definitions
      /\ \A m \in DOMAIN entries : m < i
  BY DEF Enumerates
<1>2. /\ DOMAIN dups = 1..Len(dups) /\ Len(dups) \in Nat
      /\ \A k \in DOMAIN dups : dups[k] \in Definitions
  BY DEF Lists
<1> DEFINE Name(d) == <<d.object, d.symbol>>
<1>3. ASSUME NEW k \in DOMAIN dups
      PROVE  Name(dups[k]) \in Clashing
  <2>1. PICK m \in DOMAIN entries : dups[k] = entries[m]
    BY DEF Lists
  <2>2. HasTwin(entries, m)
    BY <2>1 DEF Lists
  <2>3. PICK n \in DOMAIN entries : n # m /\ entries[n].symbol = entries[m].symbol
    BY <2>2 DEF HasTwin
  <2>4. entries[n] # entries[m]
    BY <2>3 DEF Enumerates, Distinct
  <2>5. /\ <<entries[m].object, entries[m].symbol>> \in Strong
        /\ <<entries[n].object, entries[n].symbol>> \in Strong
        /\ entries[n].object # entries[m].object
    BY <1>1, <2>3, <2>4, Fields
  <2>6. /\ entries[n].object \in Objects \ {entries[m].object}
        /\ Exclusive(library[entries[n].object][entries[m].symbol])
        /\ Exclusive(library[entries[m].object][entries[m].symbol])
        /\ <<entries[m].object, entries[m].symbol>> \in Objects \X Symbols
    BY <2>3, <2>5 DEF Strong
  <2> QED BY <2>1, <2>6 DEF Clashing
<1>4. ASSUME NEW x \in Clashing
      PROVE  \E k \in DOMAIN dups : Name(dups[k]) = x
  <2>1. PICK o \in Objects \ {x[1]} : Exclusive(library[o][x[2]])
    BY DEF Clashing
  <2>2. x \in Strong /\ x \in Objects \X Symbols
    BY DEF Clashing, Strong
  <2>3. x = <<x[1], x[2]>> /\ x[2] \in Symbols
    BY <2>2
  <2>4. <<o, x[2]>> \in Strong
    BY <2>1, <2>3 DEF Strong
  <2>5. Entry(x) \in Definitions /\ Entry(<<o, x[2]>>) \in Definitions
    BY <2>2, <2>4 DEF Definitions
  <2>6. /\ Entry(x).object = x[1] /\ Entry(x).symbol = x[2]
        /\ Entry(<<o, x[2]>>).object = o /\ Entry(<<o, x[2]>>).symbol = x[2]
    BY DEF Entry
  <2>7. PICK m \in DOMAIN entries : entries[m] = Entry(x)
    BY <2>5 DEF Enumerates
  <2>8. PICK n \in DOMAIN entries : entries[n] = Entry(<<o, x[2]>>)
    BY <2>5 DEF Enumerates
  <2>9. HasTwin(entries, m)
    BY <2>1, <2>6, <2>7, <2>8 DEF HasTwin
  <2>10. PICK k \in DOMAIN dups : dups[k] = entries[m]
    BY <1>1, <2>9 DEF Lists
  <2> QED BY <2>3, <2>6, <2>7, <2>10
<1>5. {Name(dups[k]) : k \in DOMAIN dups} = Clashing
  BY <1>3, <1>4
<1>6. Len(dups) = Cardinality(Clashing)
  <2> DEFINE F == [k \in 1..Len(dups) |-> Name(dups[k])]
  <2>1. F \in [1..Len(dups) -> Clashing]
    BY <1>2, <1>3
  <2>2. \A x \in Clashing : \E k \in 1..Len(dups) : F[k] = x
    BY <1>2, <1>4
  <2>3. ASSUME NEW j \in 1..Len(dups), NEW k \in 1..Len(dups), F[j] = F[k]
        PROVE  j = k
    <3>1. Name(dups[j]) = Name(dups[k])
      BY <2>3
    <3>2. dups[j] = Entry(Name(dups[j])) /\ dups[k] = Entry(Name(dups[k]))
      BY <1>2, Fields
    <3>3. dups[j] = dups[k]
      BY <3>1, <3>2
    <3> QED BY <1>2, <3>3 DEF Lists, Distinct
  <2> HIDE DEF F
  <2>4. F \in Bijection(1..Len(dups), Clashing)
    BY <2>1, <2>2, <2>3 DEF Bijection, Injection, Surjection, IsInjective
  <2>5. ExistsBijection(1..Len(dups), Clashing)
    BY <2>4 DEF ExistsBijection
  <2>6. IsFiniteSet(1..Len(dups)) /\ Cardinality(1..Len(dups)) = Len(dups)
    <3> DEFINE n == Len(dups)
    <3>1. n \in Nat
      BY <1>2
    <3> HIDE DEF n
    <3>2. Cardinality(1..n) = n
      BY <3>1, FS_Interval
    <3>3. n \in Int /\ 1 \in Int
      BY <3>1
    <3>4. IsFiniteSet(1..n)
      BY <3>3, FS_Interval, Zenon
    <3> QED BY <3>2, <3>4 DEF n
  <2> QED BY <2>5, <2>6, FS_Bijection
<1> QED BY <1>5, <1>6

\* Before anything runs, nothing is listed and nothing is decided.
LEMMA InitIInv == Init => IInv
  BY ValidatorAssumption DEF Init, IInv, TypeOK, ToolsAreDone, Scanned, Verdict

\* Every step of the validator preserves the invariant.
LEMMA NextIInv == IInv /\ [Next]_vars => IInv'
<1> SUFFICES ASSUME IInv, [Next]_vars PROVE IInv'
  OBVIOUS
<1>0. library' = library /\ format' = format
  BY DEF Next, vars, input, Infrastructure, StartNm, Fork, ForkFails, ChildEnds,
         WaitFails, WaitSucceeds, ParseAndSort, ScanGroup, Found, Touch, TouchFails,
         PrintReport, Done
<1>1. Clashing' = Clashing /\ Definitions' = Definitions
  BY <1>0 DEF Clashing, Definitions, Strong, Entry, Exclusive
<1>2. Enumerates(entries)' <=> Enumerates(entries')
  BY <1>1 DEF Enumerates, Distinct, Sorted
<1>3. Lists(dups, entries, i)' <=> Lists(dups', entries', i')
  BY <1>1 DEF Lists, Distinct, HasTwin
<1>4. Boundary(entries, i)' <=> Boundary(entries', i')
  BY DEF Boundary
<1>5. TypeOK'
  <2>1. pc' \in {"start", "nm", "read", "scan", "filter", "print", "done"}
    BY DEF IInv, TypeOK, Next, vars, Infrastructure, StartNm, Fork, ForkFails, ChildEnds,
         WaitFails, WaitSucceeds, ParseAndSort, ScanGroup, Found, Touch, TouchFails,
         PrintReport, Done, Exit
  <2>2. child' \in {"none", "running", "ok", "bad"}
    BY DEF IInv, TypeOK, Next, vars, Infrastructure, StartNm, Fork, ForkFails, ChildEnds,
         WaitFails, WaitSucceeds, ParseAndSort, ScanGroup, Found, Touch, TouchFails,
         PrintReport, Done
  <2> QED BY <1>0, <2>1, <2>2 DEF IInv, TypeOK
<1>6. ToolsAreDone'
  BY DEF IInv, TypeOK, ToolsAreDone, Tools, Next, vars, Infrastructure, StartNm, Fork,
         ForkFails, ChildEnds, WaitFails, WaitSucceeds, ParseAndSort, ScanGroup, Found,
         Touch, TouchFails, PrintReport, Done, Exit
<1> DEFINE Reading == pc \in {"start", "nm", "read"}
\* The steps that neither read nor scan: the list and the block stay, and the
\* program stays on its side of the reading.
<1>7. ASSUME UNCHANGED <<entries, i, dups, stamp>>, exit' = exit \/ exit' = 2,
             \/ pc' = "done"
             \/ Reading /\ pc' \in {"start", "nm", "read"}
             \/ pc' = pc
             \/ pc \in {"filter", "print"} /\ pc' \in {"filter", "print"}
      PROVE  Scanned' /\ Verdict'
  <2>1. Verdict'
    BY <1>1, <1>7 DEF IInv, Verdict
  <2>2. Scanned'
    BY <1>2, <1>3, <1>4, <1>7 DEF IInv, Scanned
  <2> QED BY <2>1, <2>2
<1>8. CASE Infrastructure \/ ForkFails \/ WaitFails
  <2>1. UNCHANGED <<entries, i, dups, stamp>> /\ pc' = "done" /\ exit' = 2
    BY <1>8 DEF Infrastructure, ForkFails, WaitFails, Exit
  <2> QED BY <2>1, <1>5, <1>6, <1>7 DEF IInv
<1>9. CASE StartNm \/ Fork \/ ChildEnds \/ WaitSucceeds \/ Done \/ UNCHANGED vars
  <2>1. UNCHANGED <<entries, i, dups, stamp>> /\ exit' = exit
    BY <1>9 DEF StartNm, Fork, ChildEnds, WaitSucceeds, Done, vars
  <2>2. \/ Reading /\ pc' \in {"start", "nm", "read"}
        \/ pc' = pc
        \/ pc \in {"filter", "print"} /\ pc' \in {"filter", "print"}
    BY <1>9 DEF StartNm, Fork, ChildEnds, WaitSucceeds, Done, vars, Tools
  <2> QED BY <2>1, <2>2, <1>5, <1>6, <1>7 DEF IInv
<1>10. CASE ParseAndSort
  <2>1. pc = "read" /\ pc' = "scan" /\ UNCHANGED <<i, dups, stamp, exit>>
    BY <1>10 DEF ParseAndSort
  <2>2. child = "none"
    BY <2>1 DEF IInv, ToolsAreDone
  <2>3. entries' \in SetToSeqs(Definitions) /\ Sorted(entries')
    BY <1>10, <2>2, KeptAreStrong DEF IInv, ParseAndSort, FileHolds
  <2>4. Enumerates(entries')
    BY <2>3, Listing
  <2>5. i' = 1 /\ dups' = <<>>
    BY <2>1 DEF IInv, Scanned
  <2>6. Len(entries') \in Nat /\ DOMAIN entries' = 1..Len(entries')
    BY <2>4 DEF Enumerates
  <2>7. Boundary(entries', i')
    BY <2>5, <2>6 DEF Boundary
  <2>8. Lists(dups', entries', i')
    BY <2>5, <2>6 DEF Lists, Distinct
  <2>9. Scanned'
    BY <1>2, <1>3, <1>4, <2>1, <2>4, <2>5, <2>6, <2>7, <2>8 DEF Scanned
  <2>10. Verdict'
    BY <1>1, <2>1 DEF IInv, Verdict
  <2> QED BY <1>5, <1>6, <2>9, <2>10 DEF IInv
<1>11. CASE ScanGroup
  <2>1. pc = "scan" /\ i <= Len(entries) /\ UNCHANGED <<pc, entries, stamp, exit>>
    BY <1>11 DEF ScanGroup
  <2>2. /\ Enumerates(entries) /\ i \in 1..(Len(entries) + 1)
        /\ Boundary(entries, i) /\ Lists(dups, entries, i)
    BY <2>1 DEF IInv, Scanned
  <2>3. entries \in Seq(Definitions) /\ Len(entries) \in Nat /\ i \in 1..Len(entries)
    BY <2>1, <2>2 DEF Enumerates
  <2>4. GroupEnd \in (i + 1)..(Len(entries) + 1) /\ EndsGroup(GroupEnd)
    BY <2>3, GroupEndExists
  <2>5. Boundary(entries, GroupEnd)
    BY <2>2, <2>3, <2>4, NextBoundary
  <2>6. i' = GroupEnd
        /\ dups' = dups \o IF GroupEnd - i >= 2 THEN SubSeq(entries, i, GroupEnd - 1)
                                                ELSE <<>>
    BY <1>11 DEF ScanGroup
  <2>7. Lists(dups', entries, GroupEnd)
    BY <2>2, <2>3, <2>4, <2>5, <2>6, NextBlock
  <2>8. Boundary(entries', i') /\ Lists(dups', entries', i') /\ Enumerates(entries')
    BY <2>1, <2>2, <2>5, <2>6, <2>7
  <2>9. i' \in 1..(Len(entries') + 1)
    BY <2>1, <2>3, <2>4, <2>6
  <2>10. Scanned'
    BY <1>2, <1>3, <1>4, <2>1, <2>8, <2>9 DEF Scanned
  <2>11. Verdict'
    BY <1>1, <2>1 DEF IInv, Verdict
  <2> QED BY <1>5, <1>6, <2>10, <2>11 DEF IInv
<1>12. CASE Found
  <2>1. /\ pc = "scan" /\ pc' = "filter" /\ i > Len(entries) /\ dups # <<>>
        /\ UNCHANGED <<entries, i, dups, stamp, exit>>
    BY <1>12 DEF Found
  <2>2. Scanned'
    BY <1>2, <1>3, <1>4, <2>1 DEF IInv, Scanned
  <2>3. Verdict'
    BY <1>1, <2>1 DEF IInv, Verdict
  <2> QED BY <1>5, <1>6, <2>2, <2>3 DEF IInv
<1>13. CASE Touch \/ TouchFails
  <2>1. /\ pc = "scan" /\ i > Len(entries) /\ dups = <<>>
        /\ pc' = "done" /\ exit' \in {0, 2}
    BY <1>13 DEF Touch, TouchFails, Exit
  <2>2. /\ Enumerates(entries) /\ Lists(dups, entries, i) /\ i \in Nat
    BY <2>1 DEF IInv, Scanned, Enumerates
  <2>3. {<<dups[k].object, dups[k].symbol>> : k \in DOMAIN dups} = Clashing
    BY <2>1, <2>2, BlockIsClashing DEF IInv
  <2>4. Clashing = {}
    BY <2>1, <2>3
  <2>5. Verdict'
    BY <1>1, <2>1, <2>4 DEF Verdict
  <2>6. Scanned'
    BY <2>1 DEF Scanned
  <2> QED BY <1>5, <1>6, <2>5, <2>6 DEF IInv
<1>14. CASE PrintReport
  <2>1. pc = "print" /\ pc' = "done" /\ exit' = 1 /\ stamp' = stamp
    BY <1>14 DEF PrintReport, Exit
  <2>2. /\ Enumerates(entries) /\ Lists(dups, entries, i) /\ i \in Nat
        /\ i > Len(entries) /\ dups # <<>>
    BY <2>1 DEF IInv, Scanned, Enumerates
  <2>3. {<<dups[k].object, dups[k].symbol>> : k \in DOMAIN dups} = Clashing
    BY <2>2, BlockIsClashing DEF IInv
  <2>4. dups \in Seq(Definitions)
    BY <2>2 DEF Lists
  <2>5. 1 \in DOMAIN dups
    BY <2>2, <2>4
  <2>6. Clashing # {}
    BY <2>3, <2>5
  <2>7. Verdict'
    BY <1>1, <2>1, <2>6 DEF IInv, Verdict
  <2>8. Scanned'
    BY <2>1 DEF Scanned
  <2> QED BY <1>5, <1>6, <2>7, <2>8 DEF IInv
<1> QED
  BY <1>8, <1>9, <1>10, <1>11, <1>12, <1>13, <1>14 DEF Next

\* The scan stands where the invariant says, in every run of the validator.
THEOREM ScanInvariant == Spec => []IInv
  BY InitIInv, NextIInv, PTL DEF Spec

\* The stamp is touched for no library in which two members define a symbol
\* exclusively, however llvm-nm ended (static_library_validator.c, main).
THEOREM StampedAreValid == Spec => []StampMeansValid
<1>1. IInv => StampMeansValid
  BY DEF IInv, Verdict, StampMeansValid
<1> QED BY <1>1, ScanInvariant, PTL

\* What is reported is what clashes: the duplicate block holds every clashing
\* definition once, and exit status 1 means that there is one.
THEOREM ExactVerdicts == Spec => []VerdictIsExact
<1>1. ASSUME IInv PROVE VerdictIsExact
  <2>1. exit = 1 => Clashing # {}
    BY <1>1 DEF IInv, Verdict
  <2>2. ASSUME pc \in {"filter", "print"}
        PROVE  /\ {<<dups[k].object, dups[k].symbol>> : k \in DOMAIN dups} = Clashing
               /\ Len(dups) = Cardinality(Clashing)
    <3>1. /\ Enumerates(entries) /\ Lists(dups, entries, i) /\ i \in Nat
          /\ i > Len(entries)
      BY <1>1, <2>2 DEF IInv, Scanned, Enumerates
    <3> QED BY <1>1, <3>1, BlockIsClashing DEF IInv
  <2> QED BY <2>1, <2>2 DEF VerdictIsExact
<1> QED BY <1>1, ScanInvariant, PTL
=============================================================================
