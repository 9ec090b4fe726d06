------------------------ MODULE DefFileGeneratorProofs ------------------------
(***************************************************************************)
(* What holds of any number of definition file generators in a directory,  *)
(* with any command lines and any reuse of process ids: llvm-nm reads the  *)
(* caller's own objects, success leaves no response file behind, and the   *)
(* exported symbols are exactly those that the inputs define.              *)
(***************************************************************************)
EXTENDS DefFileGenerator, WellFoundedInduction, TLAPS

Early == {"unborn", "main", "expand", "response", "env", "run"}
Labels == Early \cup {"parse", "cleanup", "write", "done"}

TypeOK ==
  /\ pc \in [Generators -> Labels]
  /\ pid \in [Generators -> Pids \cup {None}]
  /\ input \in [Generators -> Inputs]
  /\ todo \in [Generators -> Seq(Arguments)]
  /\ objects \in [Generators -> Seq(Arguments)]
  /\ ok \in [Generators -> BOOLEAN]
  /\ lost \in [Generators -> BOOLEAN]
  /\ status \in [Generators -> {0, 1, 2, 137}]
  /\ dir \in [Pids -> Seq(Arguments) \cup {None}]
  /\ nmRead \in [Generators -> Seq(Arguments) \cup {None}]
  /\ DOMAIN symbols = Generators
  /\ DOMAIN dataSymbols = Generators
  /\ DOMAIN imports = Generators
  /\ DOMAIN output = Generators
  /\ DOMAIN def = Generators

\* A process id belongs to one live generator at a time.
UniquePids ==
  \A g, h \in Generators : Live(g) /\ Live(h) /\ g # h => pid[g] # pid[h]

\* Where a generator stands decides what its response file holds.
Response(g) ==
  /\ Live(g) => pid[g] \in Pids
  /\ pc[g] = "response" => dir[pid[g]] = <<>>
  /\ pc[g] \in {"env", "run"} => dir[pid[g]] = objects[g]
  /\ pc[g] = "write" /\ objects[g] # <<>> => dir[pid[g]] = None
  /\ nmRead[g] # None => nmRead[g] = objects[g] /\ pc[g] \notin Early

Responses == TypeOK /\ UniquePids /\ \A g \in Generators : Response(g)

-----------------------------------------------------------------------------
(* The response file.                                                       *)

\* The arguments of a generator are arguments.
LEMMA ArgumentsOf ==
  ASSUME NEW i \in Inputs
  PROVE  i.args \in Seq(Arguments)
  BY InputsAssumption

\* Nothing runs yet.
LEMMA InitResponses == Init => Responses
<1> SUFFICES ASSUME Init PROVE Responses
  OBVIOUS
<1>1. TypeOK
  BY ArgumentsOf DEF Init, TypeOK, Labels, Early
<1>2. \A g \in Generators : ~Live(g)
  BY DEF Init, Live
<1>3. \A g \in Generators : Response(g)
  BY <1>2 DEF Response, Init
<1> QED BY <1>1, <1>2, <1>3 DEF Responses, UniquePids

\* A step of one generator keeps the types.
LEMMA StepTypes ==
  ASSUME TypeOK, NEW g \in Generators, Response(g), Step(g) \/ Killed(g)
  PROVE  TypeOK' /\ pid' = pid /\ Live(g) /\ pid[g] \in Pids
<1> USE DEF TypeOK, Labels, Early, Live, Goto, Exit, sets, Response
<1>1. CASE Usage(g)
  BY <1>1 DEF Usage
<1>2. CASE ParseAbi(g)
  BY <1>2 DEF ParseAbi
<1>3. CASE MergeDefinition(g)
  BY <1>3 DEF MergeDefinition
<1>4. CASE AddObject(g)
  BY <1>4 DEF AddObject
<1>5. CASE ExpandFails(g)
  BY <1>5 DEF ExpandFails
<1>6. CASE NoObjects(g)
  BY <1>6 DEF NoObjects
<1>7. CASE OpenResponse(g)
  BY <1>7 DEF OpenResponse
<1>8. CASE OpenResponseFails(g)
  BY <1>8 DEF OpenResponseFails
<1>9. CASE WriteResponse(g)
  BY <1>9 DEF WriteResponse
<1>10. CASE WriteResponseFails(g)
  BY <1>10 DEF WriteResponseFails
<1>11. CASE NoNm(g)
  BY <1>11 DEF NoNm
<1>12. CASE NoTmpfile(g)
  BY <1>12 DEF NoTmpfile
<1>13. CASE HaveNm(g)
  BY <1>13 DEF HaveNm
<1>14. CASE RunNm(g)
  BY <1>14 DEF RunNm
<1>15. CASE RunNmFails(g)
  BY <1>15 DEF RunNmFails
<1>16. CASE ParseLine(g)
  BY <1>16 DEF ParseLine
<1>17. CASE ParseFails(g)
  BY <1>17 DEF ParseFails
<1>18. CASE ParseEnds(g)
  BY <1>18 DEF ParseEnds
<1>19. CASE Cleanup(g)
  <2>1. CASE ok[g]
    BY <1>19, <2>1 DEF Cleanup
  <2>2. CASE ~ok[g]
    BY <1>19, <2>2 DEF Cleanup
  <2> QED BY <2>1, <2>2
<1>20. CASE CleanupFails(g)
  BY <1>20 DEF CleanupFails
<1>21. CASE WriteDef(g)
  BY <1>21 DEF WriteDef
<1>22. CASE WriteDefFails(g)
  BY <1>22 DEF WriteDefFails
<1>23. CASE WriteDefLoses(g)
  BY <1>23 DEF WriteDefLoses
<1>24. CASE Killed(g)
  BY <1>24 DEF Killed
<1> QED
  BY <1>1, <1>2, <1>3, <1>4, <1>5, <1>6, <1>7, <1>8, <1>9, <1>10, <1>11, <1>12,
     <1>13, <1>14, <1>15, <1>16, <1>17, <1>18, <1>19, <1>20, <1>21, <1>22, <1>23, <1>24 DEF Step

\* A step of one generator leaves the others, and their files, alone.
LEMMA OthersRest ==
  ASSUME TypeOK, NEW g \in Generators, Response(g), Step(g) \/ Killed(g)
  PROVE  /\ \A h \in Generators \ {g} :
              /\ pc'[h] = pc[h] /\ objects'[h] = objects[h] /\ nmRead'[h] = nmRead[h]
              /\ todo'[h] = todo[h] /\ symbols'[h] = symbols[h]
              /\ dataSymbols'[h] = dataSymbols[h] /\ imports'[h] = imports[h]
              /\ output'[h] = output[h] /\ ok'[h] = ok[h] /\ lost'[h] = lost[h]
              /\ status'[h] = status[h] /\ def'[h] = def[h]
         /\ \A p \in Pids \ {pid[g]} : dir'[p] = dir[p]
         /\ input' = input
<1> USE DEF TypeOK, Goto, Exit, sets
<1>1. CASE Usage(g)
  BY <1>1 DEF Usage
<1>2. CASE ParseAbi(g)
  BY <1>2 DEF ParseAbi
<1>3. CASE MergeDefinition(g)
  BY <1>3 DEF MergeDefinition
<1>4. CASE AddObject(g)
  BY <1>4 DEF AddObject
<1>5. CASE ExpandFails(g)
  BY <1>5 DEF ExpandFails
<1>6. CASE NoObjects(g)
  BY <1>6 DEF NoObjects
<1>7. CASE OpenResponse(g)
  BY <1>7 DEF OpenResponse
<1>8. CASE OpenResponseFails(g)
  BY <1>8 DEF OpenResponseFails
<1>9. CASE WriteResponse(g)
  BY <1>9 DEF WriteResponse
<1>10. CASE WriteResponseFails(g)
  BY <1>10 DEF WriteResponseFails
<1>11. CASE NoNm(g)
  BY <1>11 DEF NoNm
<1>12. CASE NoTmpfile(g)
  BY <1>12 DEF NoTmpfile
<1>13. CASE HaveNm(g)
  BY <1>13 DEF HaveNm
<1>14. CASE RunNm(g)
  BY <1>14 DEF RunNm
<1>15. CASE RunNmFails(g)
  BY <1>15 DEF RunNmFails
<1>16. CASE ParseLine(g)
  BY <1>16 DEF ParseLine
<1>17. CASE ParseFails(g)
  BY <1>17 DEF ParseFails
<1>18. CASE ParseEnds(g)
  BY <1>18 DEF ParseEnds
<1>19. CASE Cleanup(g)
  <2>1. CASE ok[g]
    BY <1>19, <2>1 DEF Cleanup
  <2>2. CASE ~ok[g]
    BY <1>19, <2>2 DEF Cleanup
  <2> QED BY <2>1, <2>2
<1>20. CASE CleanupFails(g)
  BY <1>20 DEF CleanupFails
<1>21. CASE WriteDef(g)
  BY <1>21 DEF WriteDef
<1>22. CASE WriteDefFails(g)
  BY <1>22 DEF WriteDefFails
<1>23. CASE WriteDefLoses(g)
  BY <1>23 DEF WriteDefLoses
<1>24. CASE Killed(g)
  BY <1>24 DEF Killed
<1> QED
  BY <1>1, <1>2, <1>3, <1>4, <1>5, <1>6, <1>7, <1>8, <1>9, <1>10, <1>11, <1>12,
     <1>13, <1>14, <1>15, <1>16, <1>17, <1>18, <1>19, <1>20, <1>21, <1>22, <1>23, <1>24 DEF Step

\* A step of a generator keeps its own response file as it should be.
LEMMA OwnResponse ==
  ASSUME TypeOK, NEW g \in Generators, Response(g), Step(g) \/ Killed(g)
  PROVE  Response(g)'
<1> USE DEF TypeOK, Labels, Early, Live, Goto, Exit, sets, Response
<1>1. CASE Usage(g)
  BY <1>1, NoneAssumption DEF Usage
<1>2. CASE ParseAbi(g)
  BY <1>2, NoneAssumption DEF ParseAbi
<1>3. CASE MergeDefinition(g)
  BY <1>3, NoneAssumption DEF MergeDefinition
<1>4. CASE AddObject(g)
  BY <1>4, NoneAssumption DEF AddObject
<1>5. CASE ExpandFails(g)
  BY <1>5, NoneAssumption DEF ExpandFails
<1>6. CASE NoObjects(g)
  BY <1>6, NoneAssumption DEF NoObjects
<1>7. CASE OpenResponse(g)
  BY <1>7, NoneAssumption DEF OpenResponse
<1>8. CASE OpenResponseFails(g)
  BY <1>8, NoneAssumption DEF OpenResponseFails
<1>9. CASE WriteResponse(g)
  BY <1>9, NoneAssumption DEF WriteResponse
<1>10. CASE WriteResponseFails(g)
  BY <1>10, NoneAssumption DEF WriteResponseFails
<1>11. CASE NoNm(g)
  BY <1>11, NoneAssumption DEF NoNm
<1>12. CASE NoTmpfile(g)
  BY <1>12, NoneAssumption DEF NoTmpfile
<1>13. CASE HaveNm(g)
  BY <1>13, NoneAssumption DEF HaveNm
<1>14. CASE RunNm(g)
  BY <1>14, NoneAssumption DEF RunNm
<1>15. CASE RunNmFails(g)
  BY <1>15, NoneAssumption DEF RunNmFails
<1>16. CASE ParseLine(g)
  BY <1>16, NoneAssumption DEF ParseLine
<1>17. CASE ParseFails(g)
  BY <1>17, NoneAssumption DEF ParseFails
<1>18. CASE ParseEnds(g)
  BY <1>18, NoneAssumption DEF ParseEnds
<1>19. CASE Cleanup(g)
  <2>1. CASE ok[g]
    BY <1>19, <2>1 DEF Cleanup
  <2>2. CASE ~ok[g]
    BY <1>19, <2>2 DEF Cleanup
  <2> QED BY <2>1, <2>2
<1>20. CASE CleanupFails(g)
  BY <1>20, NoneAssumption DEF CleanupFails
<1>21. CASE WriteDef(g)
  BY <1>21, NoneAssumption DEF WriteDef
<1>22. CASE WriteDefFails(g)
  BY <1>22, NoneAssumption DEF WriteDefFails
<1>23. CASE WriteDefLoses(g)
  BY <1>23, NoneAssumption DEF WriteDefLoses
<1>24. CASE Killed(g)
  BY <1>24, NoneAssumption DEF Killed
<1> QED
  BY <1>1, <1>2, <1>3, <1>4, <1>5, <1>6, <1>7, <1>8, <1>9, <1>10, <1>11, <1>12,
     <1>13, <1>14, <1>15, <1>16, <1>17, <1>18, <1>19, <1>20, <1>21, <1>22, <1>23, <1>24 DEF Step

\* Whatever a generator does, and whichever id the next one is given, every
\* response file stays as it should be.
LEMMA NextResponses == Responses /\ [Next]_vars => Responses'
<1> SUFFICES ASSUME Responses, [Next]_vars PROVE Responses'
  OBVIOUS
<1> USE DEF Responses
<1>1. ASSUME NEW g \in Generators, Step(g) \/ Killed(g)
      PROVE  Responses'
  <2>1. TypeOK' /\ pid' = pid /\ Live(g) /\ pid[g] \in Pids
    BY <1>1, StepTypes
  <2>2. Response(g)'
    BY <1>1, OwnResponse
  <2>3. \A h \in Generators \ {g} : pc'[h] = pc[h] /\ objects'[h] = objects[h]
                                    /\ nmRead'[h] = nmRead[h]
    BY <1>1, OthersRest
  <2>4. \A p \in Pids \ {pid[g]} : dir'[p] = dir[p]
    BY <1>1, OthersRest
  <2>5. ASSUME NEW h \in Generators \ {g}
        PROVE  Response(h)'
    <3>1. Live(h) => dir'[pid[h]] = dir[pid[h]]
      BY <2>1, <2>4 DEF UniquePids, Response
    <3> QED BY <2>1, <2>3, <3>1 DEF Response, Live
  <2>6. UniquePids'
    BY <2>1, <2>3 DEF UniquePids, Live
  <2> QED BY <2>1, <2>2, <2>5, <2>6
<1>2. ASSUME NEW g \in Generators, NEW p \in Pids, Start(g, p)
      PROVE  Responses'
  <2>1. TypeOK'
    BY <1>2 DEF Start, TypeOK, Goto, Labels, Early, sets
  <2>2. /\ pc[g] = "unborn" /\ pc'[g] = "main" /\ pid'[g] = p
        /\ \A h \in Generators \ {g} : pc'[h] = pc[h] /\ pid'[h] = pid[h]
        /\ UNCHANGED <<dir, objects, nmRead>>
    BY <1>2 DEF Start, TypeOK, Goto
  <2>3. Response(g)'
    BY <2>2 DEF Response, Live, Early
  <2>4. \A h \in Generators \ {g} : Response(h)'
    BY <2>2 DEF Response, Live
  <2>5. \A h \in Generators : Live(h) => pid[h] # p
    BY <1>2 DEF Start
  <2>6. UniquePids'
    BY <2>2, <2>5 DEF UniquePids, Live
  <2> QED BY <2>1, <2>3, <2>4, <2>6
<1>3. CASE UNCHANGED vars
  BY <1>3 DEF vars, TypeOK, UniquePids, Response, Live
<1>4. CASE Done
  BY <1>3, <1>4 DEF Done
<1> QED BY <1>1, <1>2, <1>3, <1>4 DEF Next

\* The response files are as they should be in every run.
THEOREM ResponsesInvariant == Spec => []Responses
  BY InitResponses, NextResponses, PTL DEF Spec

\* llvm-nm is given the objects of the generator that starts it, however many
\* generators share the directory and reuse process ids (def_file_generator.c,
\* discover_object_symbols).
THEOREM OwnObjects == Spec => []NmReadsOwnObjects
<1>1. Responses => NmReadsOwnObjects
  BY DEF Responses, Response, NmReadsOwnObjects
<1> QED BY <1>1, ResponsesInvariant, PTL

\* A generator that had objects and exits with status 0 has removed its
\* response file, and no other generator has made it again.
THEOREM NoResponseLeft == Spec => SuccessCleansUp
<1>1. ASSUME Responses, [Next]_vars, NEW g \in Generators,
             pc[g] # "done", pc'[g] = "done", status'[g] = 0, objects[g] # <<>>
      PROVE  dir'[pid[g]] = None
  <2> USE DEF Responses
  <2>1. ASSUME NEW h \in Generators, Step(h) \/ Killed(h)
        PROVE  dir'[pid[g]] = None
    <3>1. h = g
      <4>1. \A x \in Generators \ {h} : pc'[x] = pc[x]
        BY <1>1, <2>1, OthersRest
      <4> QED BY <1>1, <4>1
    <3>2. WriteDef(g) \/ WriteDefLoses(g)
      <4> USE DEF TypeOK, Goto, Exit
      <4>1. ASSUME Killed(g) PROVE FALSE
        BY <1>1, <4>1 DEF Killed
      <4>2. ASSUME Usage(g) \/ ExpandFails(g) \/ OpenResponseFails(g)
                   \/ WriteResponseFails(g) \/ NoNm(g) \/ NoTmpfile(g)
                   \/ CleanupFails(g) \/ WriteDefFails(g)
            PROVE  FALSE
        BY <1>1, <4>2 DEF Usage, ExpandFails, OpenResponseFails, WriteResponseFails,
           NoNm, NoTmpfile, CleanupFails, WriteDefFails
      <4>3. ASSUME Cleanup(g) PROVE FALSE
        <5>1. CASE ok[g]
          BY <1>1, <4>3, <5>1 DEF Cleanup
        <5>2. CASE ~ok[g]
          BY <1>1, <4>3, <5>2 DEF Cleanup
        <5> QED BY <5>1, <5>2
      <4>4. ASSUME MergeDefinition(g) \/ AddObject(g) \/ ParseLine(g) PROVE FALSE
        BY <1>1, <4>4 DEF MergeDefinition, AddObject, ParseLine
      <4>5. ASSUME ParseAbi(g) \/ NoObjects(g) \/ OpenResponse(g) \/ WriteResponse(g)
                   \/ HaveNm(g) \/ RunNm(g) \/ RunNmFails(g) \/ ParseFails(g)
                   \/ ParseEnds(g)
            PROVE  FALSE
        BY <1>1, <4>5 DEF ParseAbi, NoObjects, OpenResponse, WriteResponse, HaveNm,
           RunNm, RunNmFails, ParseFails, ParseEnds
      <4> QED BY <2>1, <3>1, <4>1, <4>2, <4>3, <4>4, <4>5 DEF Step
    <3>3. pc[g] = "write" /\ dir' = dir
      BY <3>2 DEF WriteDef, WriteDefLoses
    <3> QED BY <1>1, <3>3 DEF Response
  <2>2. ASSUME NEW h \in Generators, NEW p \in Pids, Start(h, p)
        PROVE  FALSE
    BY <1>1, <2>2 DEF Start, Goto, TypeOK
  <2>3. ASSUME UNCHANGED vars
        PROVE  FALSE
    BY <1>1, <2>3 DEF vars
  <2> QED BY <1>1, <2>1, <2>2, <2>3 DEF Next, Done
<1>2. Responses /\ [Next]_vars =>
        [\A g \in Generators :
           /\ pc[g] # "done" /\ pc'[g] = "done" /\ status'[g] = 0
           /\ objects[g] # <<>>
           => dir'[pid[g]] = None]_vars
  BY <1>1
<1> QED BY <1>2, ResponsesInvariant, PTL DEF Spec, SuccessCleansUp

-----------------------------------------------------------------------------
(* What is exported.                                                        *)

\* rest is what is left of the sequence all, and Taken is what is not.
Suffix(rest, all) ==
  /\ Len(rest) <= Len(all)
  /\ \A j \in 1..Len(rest) : rest[j] = all[Len(all) - Len(rest) + j]
Taken(rest, all) == {all[j] : j \in 1..(Len(all) - Len(rest))}

Elements(seq) == {seq[j] : j \in DOMAIN seq}
OfKind(set, kind) == {a \in set : a.kind = kind}
ListedFuncs(set) == UNION {a.funcs : a \in OfKind(set, "def")}
ListedData(set) == UNION {a.data : a \in OfKind(set, "def")}

\* Until llvm-nm has run, the sets hold what the definition files so far list.
Expanding(g) ==
  LET taken == Taken(todo[g], input[g].args)
  IN  /\ Suffix(todo[g], input[g].args)
      /\ Elements(objects[g]) = OfKind(taken, "obj")
      /\ imports[g] = {}
      /\ lost[g] = FALSE => /\ symbols[g] = ListedFuncs(taken)
                            /\ dataSymbols[g] = ListedData(taken)

\* While its output is parsed, what the lines so far define comes in addition.
Parsing(g) ==
  LET taken == Elements(input[g].args)
      parsed == {r.line : r \in Printed(objects[g]) \ output[g]}
  IN  /\ output[g] \subseteq Printed(objects[g])
      /\ Elements(objects[g]) = OfKind(taken, "obj")
      /\ imports[g] = UNION {ImportsOf(input[g].abi, l) : l \in parsed}
      /\ lost[g] = FALSE =>
           /\ symbols[g] = ListedFuncs(taken)
                           \cup UNION {FuncsOf(input[g].abi, l) : l \in parsed}
           /\ dataSymbols[g] = ListedData(taken)
                               \cup UNION {DataOf(input[g].abi, l) : l \in parsed}

Exported(g) ==
  /\ pc[g] \in Early => Expanding(g)
  /\ pc[g] \in {"response", "env", "run"} => todo[g] = <<>>
  /\ pc[g] = "parse" => Parsing(g)
  /\ pc[g] = "write" \/ (pc[g] = "cleanup" /\ ok[g] = TRUE) =>
       (lost[g] = FALSE => Exports(g) = Expected(g))
  /\ pc[g] = "done" /\ status[g] = 0 /\ lost[g] = FALSE => def[g] = Expected(g)

Exporting == Responses /\ \A g \in Generators : Exported(g)

\* A nonempty set of naturals has a least element.
LEMMA Least ==
  ASSUME NEW S \in SUBSET Nat, S # {}
  PROVE  \E x \in S : \A y \in S : x <= y
<1>1. PICK x \in S : \A y \in S : ~(<<y, x>> \in OpToRel(<, Nat))
  BY NatLessThanWellFounded, WFMin
<1>2. ASSUME NEW y \in S PROVE x <= y
  <2>1. ~(y < x)
    BY <1>1 DEF OpToRel
  <2> QED BY <2>1
<1> QED BY <1>2

\* A line of the output is a line of one of the objects.
LEMMA PrintedLines ==
  ASSUME NEW file \in Seq(Arguments), NEW r
  PROVE  r \in Printed(file) <=>
           \E o \in DOMAIN file : \E n \in DOMAIN file[o].lines :
             r = [object |-> o, number |-> n, line |-> file[o].lines[n]]
  BY DEF Printed

\* Lines are numbered.
LEMMA LineNumbers ==
  ASSUME NEW file \in Seq(Arguments), NEW r \in Printed(file)
  PROVE  r.object \in Nat /\ r.number \in Nat
<1>1. PICK o \in DOMAIN file : \E n \in DOMAIN file[o].lines :
             r = [object |-> o, number |-> n, line |-> file[o].lines[n]]
  BY PrintedLines
<1>2. PICK n \in DOMAIN file[o].lines :
             r = [object |-> o, number |-> n, line |-> file[o].lines[n]]
  BY <1>1
<1>3. o \in Nat /\ file[o] \in Arguments
  OBVIOUS
<1>4. Len(file[o].lines) \in Nat /\ DOMAIN file[o].lines = 1..Len(file[o].lines)
  BY <1>3, InputsAssumption
<1>5. n \in Nat
  BY <1>4
<1> QED BY <1>2, <1>3, <1>5

\* There is a first line in what is left of the output.
LEMMA FirstLineExists ==
  ASSUME NEW file \in Seq(Arguments), NEW lines \in SUBSET Printed(file), lines # {}
  PROVE  FirstLine(lines) \in lines
<1> DEFINE os == {l.object : l \in lines}
<1>1. \A l \in lines : l.object \in Nat /\ l.number \in Nat
  BY LineNumbers
<1>2. PICK o \in os : \A p \in os : o <= p
  <2>1. os \in SUBSET Nat /\ os # {}
    BY <1>1
  <2> HIDE DEF os
  <2> QED BY <2>1, Least
<1> DEFINE ns == {l.number : l \in {m \in lines : m.object = o}}
<1>3. PICK n \in ns : \A p \in ns : n <= p
  <2>1. ns \in SUBSET Nat /\ ns # {}
    BY <1>1, <1>2
  <2> HIDE DEF ns
  <2> QED BY <2>1, Least
<1>4. PICK l \in lines : l.object = o /\ l.number = n
  BY <1>3
<1>5. ASSUME NEW m \in lines
      PROVE  l.object < m.object \/ (l.object = m.object /\ l.number <= m.number)
  <2>1. l.object <= m.object
    BY <1>2, <1>4
  <2>2. CASE l.object = m.object
    BY <1>3, <1>4, <2>2
  <2>3. CASE l.object # m.object
    BY <1>1, <2>1, <2>3
  <2> QED BY <2>2, <2>3
<1> QED BY <1>5 DEF FirstLine

\* Taking the first argument.
LEMMA TakeOne ==
  ASSUME NEW S, NEW rest \in Seq(S), NEW all \in Seq(S), Suffix(rest, all), rest # <<>>
  PROVE  /\ Suffix(Tail(rest), all)
         /\ Taken(Tail(rest), all) = Taken(rest, all) \cup {Head(rest)}
<1> DEFINE k == Len(all) - Len(rest)
<1>1. /\ Len(rest) \in Nat /\ Len(all) \in Nat /\ Len(rest) >= 1
      /\ Len(rest) <= Len(all)
      /\ Len(Tail(rest)) = Len(rest) - 1
      /\ \A j \in 1..(Len(rest) - 1) : Tail(rest)[j] = rest[j + 1]
      /\ \A j \in 1..Len(rest) : rest[j] = all[Len(all) - Len(rest) + j]
  BY DEF Suffix
<1>2. ASSUME NEW j \in 1..(Len(rest) - 1)
      PROVE  Tail(rest)[j] = all[Len(all) - (Len(rest) - 1) + j]
  <2>1. j + 1 \in 1..Len(rest)
    BY <1>1
  <2>2. Tail(rest)[j] = all[Len(all) - Len(rest) + (j + 1)]
    BY <1>1, <2>1
  <2>3. Len(all) - Len(rest) + (j + 1) = Len(all) - (Len(rest) - 1) + j
    BY <1>1
  <2> QED BY <2>2, <2>3
<1>3. Suffix(Tail(rest), all)
  BY <1>1, <1>2 DEF Suffix
<1>4. Head(rest) = all[k + 1]
  BY <1>1
<1>5. Len(all) - (Len(rest) - 1) = k + 1 /\ k \in Nat
  BY <1>1
<1>6. 1..(k + 1) = (1..k) \cup {k + 1}
  BY <1>5
<1>7. Taken(Tail(rest), all) = {all[j] : j \in 1..(k + 1)}
  BY <1>1, <1>5 DEF Taken
<1> HIDE DEF k
<1>8. {all[j] : j \in 1..(k + 1)} = {all[j] : j \in 1..k} \cup {all[k + 1]}
  BY <1>6
<1> QED BY <1>3, <1>4, <1>7, <1>8 DEF Taken, k

\* Every argument has been taken when none is left.
LEMMA TakeAll ==
  ASSUME NEW S, NEW all \in Seq(S)
  PROVE  Taken(<<>>, all) = Elements(all)
<1>1. Len(all) \in Nat /\ DOMAIN all = 1..Len(all) /\ Len(all) - Len(<<>>) = Len(all)
  OBVIOUS
<1> QED BY <1>1 DEF Taken, Elements

\* What one more argument adds.
LEMMA ListedMore ==
  ASSUME NEW set, NEW a
  PROVE  /\ a.kind = "def" =>
              /\ ListedFuncs(set \cup {a}) = ListedFuncs(set) \cup a.funcs
              /\ ListedData(set \cup {a}) = ListedData(set) \cup a.data
              /\ OfKind(set \cup {a}, "obj") = OfKind(set, "obj")
         /\ a.kind = "obj" =>
              /\ ListedFuncs(set \cup {a}) = ListedFuncs(set)
              /\ ListedData(set \cup {a}) = ListedData(set)
              /\ OfKind(set \cup {a}, "obj") = OfKind(set, "obj") \cup {a}
<1>1. ASSUME a.kind = "def"
      PROVE  /\ OfKind(set \cup {a}, "def") = OfKind(set, "def") \cup {a}
             /\ OfKind(set \cup {a}, "obj") = OfKind(set, "obj")
  BY <1>1 DEF OfKind
<1>2. ASSUME a.kind = "obj"
      PROVE  /\ OfKind(set \cup {a}, "def") = OfKind(set, "def")
             /\ OfKind(set \cup {a}, "obj") = OfKind(set, "obj") \cup {a}
  BY <1>2 DEF OfKind
<1> QED BY <1>1, <1>2 DEF ListedFuncs, ListedData

\* The elements of an extended list.
LEMMA ElementsAppend ==
  ASSUME NEW S, NEW seq \in Seq(S), NEW a \in S
  PROVE  Elements(Append(seq, a)) = Elements(seq) \cup {a}
<1>1. /\ Len(seq) \in Nat /\ DOMAIN seq = 1..Len(seq)
      /\ DOMAIN Append(seq, a) = 1..(Len(seq) + 1)
      /\ \A j \in 1..Len(seq) : Append(seq, a)[j] = seq[j]
      /\ Append(seq, a)[Len(seq) + 1] = a
  OBVIOUS
<1>2. 1..(Len(seq) + 1) = 1..Len(seq) \cup {Len(seq) + 1}
  BY <1>1
<1>3. ASSUME NEW x PROVE x \in Elements(Append(seq, a)) <=> x \in Elements(seq) \cup {a}
  BY <1>1, <1>2 DEF Elements
<1> QED BY <1>3

\* The specification of the exports, in the terms of the invariant.
LEMMA ExpectedExports ==
  ASSUME NEW g \in Generators, objects[g] \in Seq(Arguments),
         Elements(objects[g]) = OfKind(Elements(input[g].args), "obj")
  PROVE  /\ Lines(g) = {r.line : r \in Printed(objects[g])}
         /\ Expected(g) =
              [data |-> (ListedData(Elements(input[g].args))
                         \cup UNION {DataOf(input[g].abi, l) : l \in Lines(g)})
                        \ Imported(g),
               funcs |-> (ListedFuncs(Elements(input[g].args))
                          \cup UNION {FuncsOf(input[g].abi, l) : l \in Lines(g)})
                         \ Imported(g)]
<1>1. ASSUME NEW kind PROVE Args(g, kind) = OfKind(Elements(input[g].args), kind)
  BY DEF Args, OfKind, Elements
<1>2. ASSUME NEW l
      PROVE  l \in Lines(g) <=> \E r \in Printed(objects[g]) : l = r.line
  <2>1. l \in Lines(g) <=> 
          \E o \in DOMAIN objects[g] : \E n \in DOMAIN objects[g][o].lines :
             l = objects[g][o].lines[n]
    <3>1. Args(g, "obj") = Elements(objects[g])
      BY <1>1
    <3>2. l \in Lines(g) <=> \E a \in Args(g, "obj") : \E n \in DOMAIN a.lines :
                              l = a.lines[n]
      BY DEF Lines
    <3> QED BY <3>1, <3>2 DEF Elements
  <2>2. ASSUME NEW o \in DOMAIN objects[g], NEW n \in DOMAIN objects[g][o].lines,
               l = objects[g][o].lines[n]
        PROVE  \E r \in Printed(objects[g]) : l = r.line
    <3> DEFINE r == [object |-> o, number |-> n, line |-> objects[g][o].lines[n]]
    <3>1. r \in Printed(objects[g])
      BY PrintedLines
    <3>2. r.line = l
      BY <2>2
    <3> QED BY <3>1, <3>2
  <2>3. ASSUME NEW r \in Printed(objects[g]), l = r.line
        PROVE  \E o \in DOMAIN objects[g] : \E n \in DOMAIN objects[g][o].lines :
                 l = objects[g][o].lines[n]
    BY <2>3, PrintedLines
  <2> QED BY <2>1, <2>2, <2>3
<1>3. Lines(g) = {r.line : r \in Printed(objects[g])}
  BY <1>2
<1>4. /\ UNION {a.data : a \in Args(g, "def")} = ListedData(Elements(input[g].args))
      /\ UNION {a.funcs : a \in Args(g, "def")} = ListedFuncs(Elements(input[g].args))
  BY <1>1 DEF ListedData, ListedFuncs
<1> QED BY <1>3, <1>4 DEF Expected

\* With all arguments taken and no object, the definition files are all there is.
LEMMA NothingToAsk ==
  ASSUME TypeOK, NEW g \in Generators, Expanding(g), todo[g] = <<>>, objects[g] = <<>>,
         lost[g] = FALSE
  PROVE  Exports(g) = Expected(g)
<1>1. input[g].args \in Seq(Arguments)
  BY ArgumentsOf DEF TypeOK
<1>2. Taken(todo[g], input[g].args) = Elements(input[g].args)
  BY <1>1, TakeAll
<1>3. /\ Elements(objects[g]) = OfKind(Elements(input[g].args), "obj")
      /\ symbols[g] = ListedFuncs(Elements(input[g].args))
      /\ dataSymbols[g] = ListedData(Elements(input[g].args))
  BY <1>2 DEF Expanding
<1>4. objects[g] \in Seq(Arguments)
  BY DEF TypeOK
<1>5. Printed(objects[g]) = {}
  BY DEF Printed
<1>6. Lines(g) = {}
  BY <1>3, <1>4, <1>5, ExpectedExports
<1>7. Imported(g) = {}
  BY <1>6 DEF Imported
<1>8. Expected(g) = [data |-> ListedData(Elements(input[g].args)),
                     funcs |-> ListedFuncs(Elements(input[g].args))]
  BY <1>3, <1>4, <1>6, <1>7, ExpectedExports
<1> QED BY <1>3, <1>8 DEF Exports

\* merge_definition_file adds what the file lists, unless lines are lost.
LEMMA MergeExpanding ==
  ASSUME TypeOK, NEW g \in Generators, Expanding(g), MergeDefinition(g)
  PROVE  Expanding(g)'
<1>1. PICK f \in SUBSET Head(todo[g]).funcs, d \in SUBSET Head(todo[g]).data :
          /\ symbols' = [symbols EXCEPT ![g] = @ \cup f]
          /\ dataSymbols' = [dataSymbols EXCEPT ![g] = @ \cup d]
          /\ lost' = [lost EXCEPT ![g] =
                @ \/ f # Head(todo[g]).funcs \/ d # Head(todo[g]).data]
  BY DEF MergeDefinition
<1>2. /\ todo[g] # <<>> /\ Head(todo[g]).kind = "def" /\ todo'[g] = Tail(todo[g])
      /\ UNCHANGED <<input, objects, imports>>
  BY DEF MergeDefinition, TypeOK
<1>3. input[g].args \in Seq(Arguments) /\ todo[g] \in Seq(Arguments)
  BY ArgumentsOf DEF TypeOK
<1> DEFINE taken == Taken(todo[g], input[g].args)
           after == taken \cup {Head(todo[g])}
<1>4. Suffix(Tail(todo[g]), input[g].args) /\ Taken(Tail(todo[g]), input[g].args) = after
  BY <1>2, <1>3, TakeOne DEF Expanding
<1>5. /\ ListedFuncs(after) = ListedFuncs(taken) \cup Head(todo[g]).funcs
      /\ ListedData(after) = ListedData(taken) \cup Head(todo[g]).data
      /\ OfKind(after, "obj") = OfKind(taken, "obj")
  BY <1>2, ListedMore
<1>6. lost'[g] = FALSE =>
        lost[g] = FALSE /\ f = Head(todo[g]).funcs /\ d = Head(todo[g]).data
  BY <1>1 DEF TypeOK
<1>7. symbols'[g] = symbols[g] \cup f /\ dataSymbols'[g] = dataSymbols[g] \cup d
  BY <1>1 DEF TypeOK
<1>8. lost'[g] = FALSE => /\ symbols'[g] = ListedFuncs(after)
                          /\ dataSymbols'[g] = ListedData(after)
  BY <1>5, <1>6, <1>7 DEF Expanding
<1> HIDE DEF after, taken
<1>9. Elements(objects'[g]) = OfKind(after, "obj") /\ imports'[g] = {}
  BY <1>2, <1>5 DEF Expanding, taken
<1> QED BY <1>2, <1>4, <1>8, <1>9 DEF Expanding

\* add_input keeps the list of objects complete.
LEMMA AddExpanding ==
  ASSUME TypeOK, NEW g \in Generators, Expanding(g), AddObject(g)
  PROVE  Expanding(g)'
<1>1. /\ todo[g] # <<>> /\ Head(todo[g]).kind = "obj" /\ todo'[g] = Tail(todo[g])
      /\ objects'[g] = Append(objects[g], Head(todo[g]))
      /\ UNCHANGED <<input, symbols, dataSymbols, imports, lost>>
  BY DEF AddObject, TypeOK, sets
<1>2. /\ input[g].args \in Seq(Arguments) /\ todo[g] \in Seq(Arguments)
      /\ objects[g] \in Seq(Arguments)
  BY ArgumentsOf DEF TypeOK
<1> DEFINE taken == Taken(todo[g], input[g].args)
           after == taken \cup {Head(todo[g])}
<1>3. Suffix(Tail(todo[g]), input[g].args) /\ Taken(Tail(todo[g]), input[g].args) = after
  BY <1>1, <1>2, TakeOne DEF Expanding
<1>4. /\ ListedFuncs(after) = ListedFuncs(taken)
      /\ ListedData(after) = ListedData(taken)
      /\ OfKind(after, "obj") = OfKind(taken, "obj") \cup {Head(todo[g])}
  BY <1>1, ListedMore
<1>5. Head(todo[g]) \in Arguments
  BY <1>1, <1>2
<1>6. Elements(objects'[g]) = Elements(objects[g]) \cup {Head(todo[g])}
  BY <1>1, <1>2, <1>5, ElementsAppend
<1> HIDE DEF after, taken
<1>7. /\ Elements(objects'[g]) = OfKind(after, "obj") /\ imports'[g] = {}
      /\ lost'[g] = FALSE => /\ symbols'[g] = ListedFuncs(after)
                             /\ dataSymbols'[g] = ListedData(after)
  BY <1>1, <1>4, <1>6 DEF Expanding, taken
<1> QED BY <1>1, <1>3, <1>7 DEF Expanding

\* When llvm-nm has run, its whole output is still to be parsed.
LEMMA RunParsing ==
  ASSUME TypeOK, NEW g \in Generators, Response(g), Expanding(g), todo[g] = <<>>, RunNm(g)
  PROVE  Parsing(g)'
<1>1. /\ output'[g] = Printed(objects[g])
      /\ UNCHANGED <<input, objects, symbols, dataSymbols, imports, lost>>
  BY DEF RunNm, TypeOK, sets, Response
<1>2. input[g].args \in Seq(Arguments)
  BY ArgumentsOf DEF TypeOK
<1>3. Taken(todo[g], input[g].args) = Elements(input[g].args)
  BY <1>2, TakeAll
<1>4. {r.line : r \in Printed(objects[g]) \ output'[g]} = {}
  BY <1>1
<1>5. /\ Elements(objects[g]) = OfKind(Elements(input[g].args), "obj")
      /\ imports[g] = {}
      /\ lost[g] = FALSE => /\ symbols[g] = ListedFuncs(Elements(input[g].args))
                            /\ dataSymbols[g] = ListedData(Elements(input[g].args))
  BY <1>3 DEF Expanding
<1> QED BY <1>1, <1>4, <1>5 DEF Parsing

\* One more line parsed adds what that line defines.
LEMMA LineParsing ==
  ASSUME TypeOK, NEW g \in Generators, Parsing(g), ParseLine(g)
  PROVE  Parsing(g)'
<1> DEFINE abi == input[g].abi
           r == FirstLine(output[g])
           parsed == {x.line : x \in Printed(objects[g]) \ output[g]}
           after == {x.line : x \in Printed(objects[g]) \ (output[g] \ {r})}
<1>1. /\ output[g] # {} /\ output'[g] = output[g] \ {r}
      /\ symbols'[g] = symbols[g] \cup FuncsOf(abi, r.line)
      /\ dataSymbols'[g] = dataSymbols[g] \cup DataOf(abi, r.line)
      /\ imports'[g] = imports[g] \cup ImportsOf(abi, r.line)
      /\ UNCHANGED <<input, objects, lost>>
  BY DEF ParseLine, TypeOK
<1>2. objects[g] \in Seq(Arguments) /\ output[g] \in SUBSET Printed(objects[g])
  BY DEF TypeOK, Parsing
<1>3. r \in output[g]
  BY <1>1, <1>2, FirstLineExists
<1> HIDE DEF r
<1>4. after = parsed \cup {r.line}
  <2>1. Printed(objects[g]) \ (output[g] \ {r}) = (Printed(objects[g]) \ output[g]) \cup {r}
    BY <1>2, <1>3
  <2> QED BY <2>1
<1>5. /\ output[g] \subseteq Printed(objects[g])
      /\ Elements(objects[g]) = OfKind(Elements(input[g].args), "obj")
      /\ imports[g] = UNION {ImportsOf(abi, l) : l \in parsed}
      /\ lost[g] = FALSE =>
           /\ symbols[g] = ListedFuncs(Elements(input[g].args))
                           \cup UNION {FuncsOf(abi, l) : l \in parsed}
           /\ dataSymbols[g] = ListedData(Elements(input[g].args))
                               \cup UNION {DataOf(abi, l) : l \in parsed}
  BY DEF Parsing
<1> HIDE DEF after, parsed
<1>6. UNION {ImportsOf(abi, l) : l \in after}
        = (UNION {ImportsOf(abi, l) : l \in parsed}) \cup ImportsOf(abi, r.line)
  BY <1>4
<1>7. UNION {FuncsOf(abi, l) : l \in after}
        = (UNION {FuncsOf(abi, l) : l \in parsed}) \cup FuncsOf(abi, r.line)
  BY <1>4
<1>8. UNION {DataOf(abi, l) : l \in after}
        = (UNION {DataOf(abi, l) : l \in parsed}) \cup DataOf(abi, r.line)
  BY <1>4
<1>9. imports'[g] = UNION {ImportsOf(abi, l) : l \in after}
  BY <1>1, <1>5, <1>6
<1>10. lost[g] = FALSE =>
         /\ symbols'[g] = ListedFuncs(Elements(input[g].args))
                          \cup UNION {FuncsOf(abi, l) : l \in after}
         /\ dataSymbols'[g] = ListedData(Elements(input[g].args))
                              \cup UNION {DataOf(abi, l) : l \in after}
  BY <1>1, <1>5, <1>7, <1>8
<1>11. after = {x.line : x \in Printed(objects'[g]) \ output'[g]}
  BY <1>1 DEF after
<1>12. output'[g] \subseteq Printed(objects'[g])
  BY <1>1, <1>5
<1>13. /\ Elements(objects'[g]) = OfKind(Elements(input'[g].args), "obj")
       /\ input'[g] = input[g] /\ lost'[g] = lost[g]
  BY <1>1, <1>5
<1> QED BY <1>9, <1>10, <1>11, <1>12, <1>13 DEF Parsing

\* When all is parsed, filtering the imports leaves the expected exports.
LEMMA EndParsing ==
  ASSUME TypeOK, NEW g \in Generators, Parsing(g), ParseEnds(g), lost[g] = FALSE
  PROVE  (Exports(g) = Expected(g))'
<1>1. /\ output[g] = {} /\ UNCHANGED <<input, objects>>
      /\ symbols'[g] = symbols[g] \ imports[g]
      /\ dataSymbols'[g] = dataSymbols[g] \ imports[g]
  BY DEF ParseEnds, TypeOK
<1>2. /\ objects[g] \in Seq(Arguments)
      /\ Elements(objects[g]) = OfKind(Elements(input[g].args), "obj")
  BY DEF TypeOK, Parsing
<1>3. {r.line : r \in Printed(objects[g]) \ output[g]} = Lines(g)
  BY <1>1, <1>2, ExpectedExports
<1>4. /\ imports[g] = UNION {ImportsOf(input[g].abi, l) : l \in Lines(g)}
      /\ symbols[g] = ListedFuncs(Elements(input[g].args))
                      \cup UNION {FuncsOf(input[g].abi, l) : l \in Lines(g)}
      /\ dataSymbols[g] = ListedData(Elements(input[g].args))
                          \cup UNION {DataOf(input[g].abi, l) : l \in Lines(g)}
  BY <1>3 DEF Parsing
<1>5. imports[g] = Imported(g)
  BY <1>4 DEF Imported
<1>6. Expected(g) = [data |-> dataSymbols[g] \ imports[g], funcs |-> symbols[g] \ imports[g]]
  BY <1>2, <1>4, <1>5, ExpectedExports
<1>7. Expected(g)' = Expected(g)
  BY <1>1 DEF Expected, Imported, Lines, Args
<1> QED BY <1>1, <1>6, <1>7 DEF Exports

\* What should be exported depends on the inputs only.
LEMMA ExpectedRests ==
  ASSUME input' = input, NEW g \in Generators
  PROVE  Expected(g)' = Expected(g)
  BY DEF Expected, Imported, Lines, Args

\* A step of a generator keeps its sets complete and its file exact.
LEMMA OwnExported ==
  ASSUME TypeOK, NEW g \in Generators, Response(g), Exported(g), Step(g) \/ Killed(g)
  PROVE  Exported(g)'
<1>1. CASE Usage(g)
  <2>1. pc'[g] = "done" /\ status'[g] # 0
    BY <1>1 DEF Usage, TypeOK, Goto, Exit
  <2> QED BY <2>1 DEF Exported, Early
<1>2. CASE ParseAbi(g)
  <2>1. /\ pc[g] = "main" /\ pc'[g] = "expand"
        /\ UNCHANGED <<input, todo, objects, symbols, dataSymbols, imports, lost>>
    BY <1>2 DEF ParseAbi, TypeOK, Goto, sets
  <2>2. Expanding(g)'
    BY <2>1 DEF Exported, Expanding, Early
  <2> QED BY <1>2, <2>1, <2>2 DEF Exported, Early, ParseAbi
<1>3. CASE MergeDefinition(g)
  <2>1. pc[g] = "expand" /\ pc' = pc
    BY <1>3 DEF MergeDefinition
  <2>2. Expanding(g)
    BY <2>1 DEF Exported, Early
  <2>3. Expanding(g)'
    BY <1>3, <2>2, MergeExpanding
  <2> QED BY <2>1, <2>3 DEF Exported, Early
<1>4. CASE AddObject(g)
  <2>1. pc[g] = "expand" /\ pc' = pc
    BY <1>4 DEF AddObject
  <2>2. Expanding(g)
    BY <2>1 DEF Exported, Early
  <2>3. Expanding(g)'
    BY <1>4, <2>2, AddExpanding
  <2> QED BY <2>1, <2>3 DEF Exported, Early
<1>5. CASE ExpandFails(g)
  <2>1. pc'[g] = "done" /\ status'[g] # 0
    BY <1>5 DEF ExpandFails, TypeOK, Goto, Exit
  <2> QED BY <2>1 DEF Exported, Early
<1>6. CASE NoObjects(g)
  <2>1. /\ pc[g] = "expand" /\ pc'[g] = "write" /\ todo[g] = <<>> /\ objects[g] = <<>>
        /\ UNCHANGED <<input, symbols, dataSymbols, lost>>
    BY <1>6 DEF NoObjects, TypeOK, Goto, sets
  <2>2. lost[g] = FALSE => Exports(g) = Expected(g)
    BY <2>1, NothingToAsk DEF Exported, Early
  <2>3. Expected(g)' = Expected(g) /\ Exports(g)' = Exports(g)
    BY <2>1, ExpectedRests DEF Exports
  <2> QED BY <2>1, <2>2, <2>3 DEF Exported, Early
<1>7. CASE OpenResponse(g)
  <2>1. /\ pc[g] = "expand" /\ pc'[g] = "response"
        /\ UNCHANGED <<input, todo, objects, symbols, dataSymbols, imports, lost>>
    BY <1>7 DEF OpenResponse, TypeOK, Goto, sets
  <2>2. Expanding(g)'
    BY <2>1 DEF Exported, Expanding, Early
  <2> QED BY <1>7, <2>1, <2>2 DEF Exported, Early, OpenResponse
<1>8. CASE OpenResponseFails(g)
  <2>1. pc'[g] = "done" /\ status'[g] # 0
    BY <1>8 DEF OpenResponseFails, TypeOK, Goto, Exit
  <2> QED BY <2>1 DEF Exported, Early
<1>9. CASE WriteResponse(g)
  <2>1. /\ pc[g] = "response" /\ pc'[g] = "env"
        /\ UNCHANGED <<input, todo, objects, symbols, dataSymbols, imports, lost>>
    BY <1>9 DEF WriteResponse, TypeOK, Goto, sets
  <2>2. Expanding(g)'
    BY <2>1 DEF Exported, Expanding, Early
  <2> QED BY <1>9, <2>1, <2>2 DEF Exported, Early, WriteResponse
<1>10. CASE WriteResponseFails(g)
  <2>1. pc'[g] = "done" /\ status'[g] # 0
    BY <1>10 DEF WriteResponseFails, TypeOK, Goto, Exit
  <2> QED BY <2>1 DEF Exported, Early
<1>11. CASE NoNm(g)
  <2>1. pc'[g] = "done" /\ status'[g] # 0
    BY <1>11 DEF NoNm, TypeOK, Goto, Exit
  <2> QED BY <2>1 DEF Exported, Early
<1>12. CASE NoTmpfile(g)
  <2>1. pc'[g] = "done" /\ status'[g] # 0
    BY <1>12 DEF NoTmpfile, TypeOK, Goto, Exit
  <2> QED BY <2>1 DEF Exported, Early
<1>13. CASE HaveNm(g)
  <2>1. /\ pc[g] = "env" /\ pc'[g] = "run"
        /\ UNCHANGED <<input, todo, objects, symbols, dataSymbols, imports, lost>>
    BY <1>13 DEF HaveNm, TypeOK, Goto, sets
  <2>2. Expanding(g)'
    BY <2>1 DEF Exported, Expanding, Early
  <2> QED BY <1>13, <2>1, <2>2 DEF Exported, Early, HaveNm
<1>14. CASE RunNm(g)
  <2>1. pc[g] = "run" /\ pc'[g] = "parse"
    BY <1>14 DEF RunNm, TypeOK, Goto
  <2>2. Parsing(g)'
    BY <1>14, <2>1, RunParsing DEF Exported, Early
  <2> QED BY <2>1, <2>2 DEF Exported, Early
<1>15. CASE RunNmFails(g)
  <2>1. pc'[g] = "cleanup" /\ ok'[g] = FALSE
    BY <1>15 DEF RunNmFails, TypeOK, Goto
  <2> QED BY <2>1 DEF Exported, Early
<1>16. CASE ParseLine(g)
  <2>1. pc[g] = "parse" /\ pc' = pc
    BY <1>16 DEF ParseLine
  <2>2. Parsing(g)'
    BY <1>16, <2>1, LineParsing DEF Exported
  <2> QED BY <2>1, <2>2 DEF Exported, Early
<1>17. CASE ParseFails(g)
  <2>1. pc'[g] = "cleanup" /\ ok'[g] = FALSE
    BY <1>17 DEF ParseFails, TypeOK, Goto
  <2> QED BY <2>1 DEF Exported, Early
<1>18. CASE ParseEnds(g)
  <2>1. pc[g] = "parse" /\ pc'[g] = "cleanup" /\ lost' = lost
    BY <1>18 DEF ParseEnds, TypeOK, Goto
  <2>2. lost[g] = FALSE => (Exports(g) = Expected(g))'
    BY <1>18, <2>1, EndParsing DEF Exported
  <2> QED BY <2>1, <2>2 DEF Exported, Early
<1>19. CASE Cleanup(g)
  <2>1. pc[g] = "cleanup" /\ UNCHANGED <<input, symbols, dataSymbols, lost>>
    BY <1>19 DEF Cleanup, sets
  <2>2. Expected(g)' = Expected(g) /\ Exports(g)' = Exports(g)
    BY <2>1, ExpectedRests DEF Exports
  <2>3. CASE ok[g]
    <3>1. pc'[g] = "write" /\ ok[g] = TRUE
      BY <1>19, <2>3 DEF Cleanup, TypeOK, Goto
    <3> QED BY <2>1, <2>2, <3>1 DEF Exported, Early
  <2>4. CASE ~ok[g]
    <3>1. pc'[g] = "done" /\ status'[g] # 0
      BY <1>19, <2>4 DEF Cleanup, TypeOK, Goto, Exit
    <3> QED BY <3>1 DEF Exported, Early
  <2> QED BY <2>3, <2>4
<1>20. CASE CleanupFails(g)
  <2>1. pc'[g] = "done" /\ status'[g] # 0
    BY <1>20 DEF CleanupFails, TypeOK, Goto, Exit
  <2> QED BY <2>1 DEF Exported, Early
<1>21. CASE WriteDef(g)
  <2>1. /\ pc[g] = "write" /\ pc'[g] = "done" /\ def'[g] = Exports(g)
        /\ UNCHANGED <<input, lost>>
    BY <1>21 DEF WriteDef, TypeOK, Goto, Exit
  <2>2. Expected(g)' = Expected(g)
    BY <2>1, ExpectedRests
  <2> QED BY <2>1, <2>2 DEF Exported, Early
<1>22. CASE WriteDefFails(g)
  <2>1. pc'[g] = "done" /\ status'[g] # 0
    BY <1>22 DEF WriteDefFails, TypeOK, Goto, Exit
  <2> QED BY <2>1 DEF Exported, Early
<1>23. CASE WriteDefLoses(g)
  <2>1. pc'[g] = "done" /\ lost'[g] = TRUE
    BY <1>23 DEF WriteDefLoses, TypeOK, Goto, Exit
  <2> QED BY <2>1 DEF Exported, Early
<1>24. CASE Killed(g)
  <2>1. pc'[g] = "done" /\ status'[g] # 0
    BY <1>24 DEF Killed, TypeOK, Goto, Exit
  <2> QED BY <2>1 DEF Exported, Early
<1> QED
  BY <1>1, <1>2, <1>3, <1>4, <1>5, <1>6, <1>7, <1>8, <1>9, <1>10, <1>11, <1>12,
     <1>13, <1>14, <1>15, <1>16, <1>17, <1>18, <1>19, <1>20, <1>21, <1>22, <1>23, <1>24 DEF Step

\* The exports of a generator are its own affair.
LEMMA RestExported ==
  ASSUME NEW g \in Generators, Exported(g), input' = input,
         pc'[g] = pc[g] \/ (pc[g] \in Early /\ pc'[g] \in {"main", "expand"}),
         objects'[g] = objects[g], todo'[g] = todo[g],
         symbols'[g] = symbols[g], dataSymbols'[g] = dataSymbols[g],
         imports'[g] = imports[g], output'[g] = output[g], ok'[g] = ok[g],
         lost'[g] = lost[g], status'[g] = status[g], def'[g] = def[g]
  PROVE  Exported(g)'
<1>1. Expected(g)' = Expected(g)
  BY ExpectedRests
<1>2. Exports(g)' = Exports(g)
  BY DEF Exports
<1>3. Expanding(g)' <=> Expanding(g)
  BY DEF Expanding
<1>4. Parsing(g)' <=> Parsing(g)
  BY DEF Parsing
<1> QED BY <1>1, <1>2, <1>3, <1>4 DEF Exported, Early

\* Nothing is taken from the command line yet.
LEMMA InitExporting == Init => Exporting
<1> SUFFICES ASSUME Init, NEW g \in Generators PROVE Exported(g)
  BY InitResponses DEF Exporting
<1> DEFINE args == input[g].args
<1>1. /\ pc[g] = "unborn" /\ todo[g] = args /\ objects[g] = <<>>
      /\ symbols[g] = {} /\ dataSymbols[g] = {} /\ imports[g] = {}
      /\ input[g] \in Inputs
  BY DEF Init
<1>2. args \in Seq(Arguments)
  BY <1>1, ArgumentsOf
<1> HIDE DEF args
<1>3. Suffix(args, args)
  BY <1>2 DEF Suffix
<1>4. Taken(args, args) = {}
  BY <1>2 DEF Taken
<1>5. Elements(objects[g]) = {}
  BY <1>1 DEF Elements
<1>6. OfKind({}, "obj") = {} /\ ListedFuncs({}) = {} /\ ListedData({}) = {}
  BY DEF OfKind, ListedFuncs, ListedData
<1>7. Expanding(g)
  BY <1>1, <1>3, <1>4, <1>5, <1>6 DEF Expanding, args
<1> QED BY <1>1, <1>7 DEF Exported

\* Every step keeps every generator's exports exact.
LEMMA NextExporting == Exporting /\ [Next]_vars => Exporting'
<1> SUFFICES ASSUME Exporting, [Next]_vars PROVE Exporting'
  OBVIOUS
<1>0. Responses' /\ TypeOK /\ \A g \in Generators : Response(g) /\ Exported(g)
  BY NextResponses DEF Exporting, Responses
<1>1. ASSUME NEW g \in Generators, Step(g) \/ Killed(g)
      PROVE  \A h \in Generators : Exported(h)'
  <2>1. Exported(g)'
    BY <1>0, <1>1, OwnExported
  <2>2. ASSUME NEW h \in Generators \ {g} PROVE Exported(h)'
    <3>1. /\ pc'[h] = pc[h] /\ objects'[h] = objects[h] /\ todo'[h] = todo[h]
          /\ symbols'[h] = symbols[h] /\ dataSymbols'[h] = dataSymbols[h]
          /\ imports'[h] = imports[h] /\ output'[h] = output[h] /\ ok'[h] = ok[h]
          /\ lost'[h] = lost[h] /\ status'[h] = status[h] /\ def'[h] = def[h]
          /\ input' = input
      BY <1>0, <1>1, OthersRest
    <3> QED BY <1>0, <3>1, RestExported
  <2> QED BY <2>1, <2>2
<1>2. ASSUME NEW g \in Generators, NEW p \in Pids, Start(g, p)
      PROVE  \A h \in Generators : Exported(h)'
  <2> TAKE h \in Generators
  <2>1. /\ pc'[h] = pc[h] \/ (pc[h] \in Early /\ pc'[h] \in {"main", "expand"})
        /\ UNCHANGED <<input, objects, todo, symbols, dataSymbols, imports, output, ok,
                       lost, status, def>>
    BY <1>0, <1>2 DEF Start, Goto, TypeOK, Early, sets
  <2> QED BY <1>0, <2>1, RestExported
<1>3. ASSUME UNCHANGED vars
      PROVE  \A h \in Generators : Exported(h)'
  <2> TAKE h \in Generators
  <2> QED BY <1>0, <1>3, RestExported DEF vars
<1> QED BY <1>0, <1>1, <1>2, <1>3 DEF Next, Done, Exporting

\* The sets of a generator hold what its inputs define so far, in every run.
THEOREM ExportingInvariant == Spec => []Exporting
  BY InitExporting, NextExporting, PTL DEF Spec

\* A generator that exits with status 0, and lost nothing to an I/O error that
\* the code does not check, has exported exactly what its inputs define
\* (def_file_generator.c, main).
THEOREM ExactExports == Spec => []ExportsExact
<1>1. ASSUME Exporting PROVE ExportsExact
  <2> SUFFICES ASSUME NEW g \in Generators, pc[g] = "done", status[g] = 0, ~lost[g]
               PROVE  def[g] = Expected(g)
    BY DEF ExportsExact
  <2>1. lost[g] = FALSE
    BY <1>1 DEF Exporting, Responses, TypeOK
  <2> QED BY <1>1, <2>1 DEF Exporting, Exported
<1> QED BY <1>1, ExportingInvariant, PTL
=============================================================================
