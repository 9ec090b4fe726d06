----------------------- MODULE StaticLibraryValidator -----------------------
(***************************************************************************)
(* The static_library_validator tool: list the global symbols of a static  *)
(* library with llvm-nm, sort them, and fail when two members define the   *)
(* same symbol strongly; otherwise touch the stamp that Bazel waits for.   *)
(* The tools are child processes that write to temporary files.            *)
(***************************************************************************)
EXTENDS Integers, Sequences, FiniteSets, SequencesExt

CONSTANTS
  Objects,   \* members of the library
  Symbols,   \* names of global symbols
  Order,     \* the rank of a symbol under compare_symbol_entries
  Libraries  \* the libraries to validate

\* How a member may use a symbol.  "unique" is STB_GNU_UNIQUE, "ifunc" a strong
\* STT_GNU_IFUNC; weak definitions are link-once (COMDAT) ones in COFF.
WeakDefinitions == {"weak function", "weak object"}
Linkages == {"absent", "strong", "ifunc", "unique", "undefined", "weak undefined",
             "common"} \cup WeakDefinitions

ASSUME ValidatorAssumption ==
  /\ IsFiniteSet(Objects) /\ IsFiniteSet(Symbols)
  /\ Order \in [Symbols -> Nat]
  /\ \A s, t \in Symbols : Order[s] = Order[t] => s = t
  /\ Libraries \subseteq [Objects -> [Symbols -> Linkages]]

Formats == {"elf", "macho", "coff"}

\* Only ELF has ifuncs and unique symbols.
Available(f) == IF f = "elf" THEN Linkages ELSE Linkages \ {"ifunc", "unique"}

VARIABLES
  library,   \* how each member uses each symbol
  format,    \* the object format; DARWIN_TARGET is "1" exactly for Mach-O
  argc,      \* whether there are two arguments
  env,       \* the required environment variables that are set
  pc,
  child,     \* the running tool: "none", "running", "ok" or "bad"
  entries,   \* the symbol_list
  i,         \* the index of the duplicate scan
  dups,      \* dup_block, one entry per line
  stamp,     \* whether the stamp was touched
  report,    \* what was printed, demangled
  exit       \* the exit status, -1 while running

vars == <<library, format, argc, env, pc, child, entries, i, dups, stamp, report, exit>>
input == <<library, format, argc, env>>

Init ==
  /\ library \in Libraries
  /\ format \in Formats
  /\ \A o \in Objects, s \in Symbols : library[o][s] \in Available(format)
  /\ argc \in BOOLEAN
  /\ env \in SUBSET {"LLVM_NM", "LLVM_CXXFILT"}
  /\ pc = "start"
  /\ child = "none"
  /\ entries = <<>> /\ i = 1 /\ dups = <<>>
  /\ stamp = FALSE /\ report = <<>> /\ exit = -1

-----------------------------------------------------------------------------
(* llvm-nm.                                                                 *)

\* The optional argument of llvm-nm.
NmArguments == IF format = "macho" THEN {"--no-weak"} ELSE {}

\* The type letter of a global symbol.  Only ELF marks weak definitions; what is
\* neither an ordinary definition nor certain to be found is in lower case.
Letter(linkage) ==
  CASE linkage = "strong" -> "T"
    [] linkage = "weak function" -> IF format = "elf" THEN "W" ELSE "T"
    [] linkage = "weak object" -> IF format = "elf" THEN "V" ELSE "T"
    [] linkage = "ifunc" -> "i"
    [] linkage = "unique" -> "u"
    [] linkage = "undefined" -> "U"
    [] linkage = "weak undefined" -> IF format = "macho" THEN "U" ELSE "w"
    [] linkage = "common" -> "C"
    [] OTHER -> "?"

\* The lines of llvm-nm -A -g -P.
NmLines ==
  LET listed == {x \in Objects \X Symbols :
                   /\ library[x[1]][x[2]] # "absent"
                   /\ "--no-weak" \in NmArguments =>
                        library[x[1]][x[2]] \notin WeakDefinitions \cup {"weak undefined"}}
  IN  {[object |-> x[1], symbol |-> x[2], type |-> Letter(library[x[1]][x[2]])] :
         x \in listed}

\* Mutant: the type letters are compared without looking at their case first.
ShouldKeepAnyCase(type) == type \notin {"U", "V", "W", "C"}

\* isupper, on the letters llvm-nm prints.
IsUpper(type) == type \in {"A", "B", "C", "D", "I", "N", "R", "S", "T", "U", "V", "W"}

\* should_keep_type.
ShouldKeep(type) == IsUpper(type) /\ type \notin {"U", "V", "W", "C"}

-----------------------------------------------------------------------------
(* Leaving main, and running a tool.                                        *)

Exit(status) == pc' = "done" /\ exit' = status

\* Every early return and exit(2): usage, a missing variable, a temporary file
\* that cannot be created, read or written.
Infrastructure ==
  /\ pc \in {"start", "read", "filter", "print"}
  /\ child = "none"
  /\ Exit(2)
  /\ UNCHANGED <<input, child, entries, i, dups, stamp, report>>

Tools == {"nm", "filter"}

StartNm ==
  /\ pc = "start" /\ argc /\ "LLVM_NM" \in env
  /\ pc' = "nm"
  /\ UNCHANGED <<input, child, entries, i, dups, stamp, report, exit>>

Fork ==
  /\ pc \in Tools /\ child = "none"
  /\ pc = "filter" => "LLVM_CXXFILT" \in env
  /\ child' = "running"
  /\ UNCHANGED <<input, pc, entries, i, dups, stamp, report, exit>>

ForkFails ==
  /\ pc \in Tools /\ child = "none"
  /\ Exit(2)
  /\ UNCHANGED <<input, child, entries, i, dups, stamp, report>>

\* The tool, or the failing execv of the child.
ChildEnds ==
  /\ child = "running"
  /\ child' \in {"ok", "bad"}
  /\ UNCHANGED <<input, pc, entries, i, dups, stamp, report, exit>>

\* Mutant: an interrupted waitpid is taken for the end of the child.
WaitFailsSilently ==
  /\ pc \in Tools /\ child \in {"running", "bad"}
  /\ pc' = IF pc = "nm" THEN "read" ELSE "print"
  /\ UNCHANGED <<input, child, entries, i, dups, stamp, report, exit>>

\* waitpid is interrupted, or the tool failed or was killed.
WaitFails ==
  /\ pc \in Tools /\ child \in {"running", "bad"}
  /\ Exit(2)
  /\ UNCHANGED <<input, child, entries, i, dups, stamp, report>>

WaitSucceeds ==
  /\ pc \in Tools /\ child = "ok"
  /\ child' = "none"
  /\ pc' = IF pc = "nm" THEN "read" ELSE "print"
  /\ UNCHANGED <<input, entries, i, dups, stamp, report, exit>>

-----------------------------------------------------------------------------
(* The duplicate scan.                                                      *)

\* What the temporary file holds: nothing is certain while the tool runs.
FileHolds(lines) ==
  IF child = "none" THEN {lines} ELSE SUBSET lines

\* compare_symbol_entries.
Sorted(seq) ==
  \A j, k \in DOMAIN seq : j < k => Order[seq[j].symbol] <= Order[seq[k].symbol]

\* Read and parse the output of llvm-nm, and sort the entries; qsort leaves
\* entries with equal symbols in any order.
ParseAndSort ==
  /\ pc = "read"
  /\ \E lines \in FileHolds(NmLines) :
       LET kept == {l \in lines : ShouldKeep(l.type)}
       IN  \E seq \in SetToSeqs(kept) : Sorted(seq) /\ entries' = seq
  /\ pc' = "scan"
  /\ UNCHANGED <<input, child, i, dups, stamp, report, exit>>

GroupEnd ==
  CHOOSE j \in (i + 1)..(Len(entries) + 1) :
    /\ \A k \in i..(j - 1) : entries[k].symbol = entries[i].symbol
    /\ j <= Len(entries) => entries[j].symbol # entries[i].symbol

\* One iteration of the scan: a group of two or more is listed.
ScanGroup ==
  /\ pc = "scan" /\ i <= Len(entries)
  /\ dups' = dups \o IF GroupEnd - i >= 2 THEN SubSeq(entries, i, GroupEnd - 1) ELSE <<>>
  /\ i' = GroupEnd
  /\ UNCHANGED <<input, pc, child, entries, stamp, report, exit>>

Found ==
  /\ pc = "scan" /\ i > Len(entries)
  /\ dups # <<>>
  /\ pc' = "filter"
  /\ UNCHANGED <<input, child, entries, i, dups, stamp, report, exit>>

Touch ==
  /\ pc = "scan" /\ i > Len(entries)
  /\ dups = <<>>
  /\ stamp' = TRUE
  /\ Exit(0)
  /\ UNCHANGED <<input, child, entries, i, dups, report>>

\* fopen fails, or fclose after the stamp exists.
TouchFails ==
  /\ pc = "scan" /\ i > Len(entries)
  /\ dups = <<>>
  /\ stamp' \in BOOLEAN
  /\ Exit(2)
  /\ UNCHANGED <<input, child, entries, i, dups, report>>

\* The demangled block goes to stderr.  The flush of dup_file by rewind() is
\* not checked: llvm-cxxfilt may have seen only its beginning.
PrintReport ==
  /\ pc = "print"
  /\ \E n \in 0..Len(dups) : report' = SubSeq(dups, 1, n)
  /\ Exit(1)
  /\ UNCHANGED <<input, child, entries, i, dups, stamp>>

Done == pc = "done" /\ UNCHANGED vars

Next ==
  \/ Infrastructure \/ StartNm \/ Fork \/ ForkFails \/ ChildEnds \/ WaitFails
  \/ WaitSucceeds \/ ParseAndSort \/ ScanGroup \/ Found \/ Touch \/ TouchFails
  \/ PrintReport \/ Done

Spec == Init /\ [][Next]_vars

-----------------------------------------------------------------------------
(* Properties.                                                              *)

\* The linkages of which one symbol may have only one: strong definitions, and
\* on COFF link-once ones too, since llvm-nm prints them alike and no option
\* leaves them out.  Strong ifuncs are not among them: a linker refuses two of
\* them, but their letter is in lower case and the code passes over it.
Exclusive(linkage) ==
  linkage = "strong" \/ (format = "coff" /\ linkage \in WeakDefinitions)

\* The definitions that clash with one of another member.
Clashing ==
  {x \in Objects \X Symbols :
     /\ Exclusive(library[x[1]][x[2]])
     /\ \E o \in Objects \ {x[1]} : Exclusive(library[o][x[2]])}

\* A library is declared valid only if no symbol has exclusive definitions in
\* two members, whatever happened to llvm-nm on the way.
StampMeansValid == stamp => Clashing = {}

\* The block that is reported names every clashing definition exactly once, and
\* exit status 1 is kept for libraries that have one: weak definitions of ELF
\* and Mach-O, unique symbols, ifuncs, weak and other references, common symbols
\* and failing tools never cause it.
VerdictIsExact ==
  /\ exit = 1 => Clashing # {}
  /\ pc \in {"filter", "print"} =>
       /\ {<<dups[k].object, dups[k].symbol>> : k \in DOMAIN dups} = Clashing
       /\ Len(dups) = Cardinality(Clashing)
=============================================================================
