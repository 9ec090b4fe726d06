--------------------------- MODULE DefFileGenerator ---------------------------
(***************************************************************************)
(* tools/def_file_generator: computes the export list of a Windows DLL     *)
(* from object files (by running llvm-nm on them) and definition files.    *)
(*                                                                         *)
(* Several generators may run in one working directory.  Each hands        *)
(* llvm-nm its objects in a response file named after its process id, and  *)
(* process ids come back once their owner has ended, possibly without      *)
(* having removed its file.  The two string sets a generator fills are     *)
(* plain sets here; SortedStringSet shows that the arrays behind them      *)
(* implement insertion, membership and removal.                            *)
(***************************************************************************)
EXTENDS Naturals, Sequences

CONSTANTS
    Generators,  \* the processes that will be started
    Pids,        \* process ids
    Inputs,      \* command lines and environments
    None         \* no file, no value

(***************************************************************************)
(* A symbol is a name and the form that the filters look at:               *)
(*   stdcall     _f@4, normalised to f for the MSVC ABI                    *)
(*   imp         __imp_f, the import pointer of f                          *)
(*   vftable     ??_7..., the only read-only data MSVC exports             *)
(*   msvcHidden  managed code, ARM64EC thunks, deleting destructors,       *)
(*               names with a dot inside                                   *)
(*   gnuHidden   names, prefixes and suffixes lld never auto-exports       *)
(* A line of llvm-nm's output is a symbol with its type letter; the type   *)
(* "bad" stands for a line without separator or type.  An argument is a    *)
(* definition file, an object file, or an entry of a parameter file that   *)
(* decode_shell_argument rejects.                                          *)
(***************************************************************************)
Forms == {"plain", "stdcall", "imp", "vftable", "msvcHidden", "gnuHidden"}

Plain(name) == [name |-> name, form |-> "plain"]

Arguments == UNION {{i.args[j] : j \in DOMAIN i.args} : i \in Inputs}

ASSUME InputsAssumption ==
    /\ \A i \in Inputs : i.args \in Seq(Arguments)
    /\ \A a \in Arguments : Len(a.lines) \in Nat /\ DOMAIN a.lines = 1..Len(a.lines)
ASSUME NoneAssumption == None \notin Pids /\ None \notin Seq(Arguments)

VARIABLES
    pc,       \* what each generator does next
    pid,      \* its process id
    input,    \* its arguments and environment
    todo,     \* arguments not yet expanded
    objects,  \* struct string_list objects
    symbols, dataSymbols, imports,  \* the three string sets
    output,   \* lines of llvm-nm not yet parsed, each with its place
    ok,       \* success
    status,   \* exit status
    def,      \* the .def file written
    dir,      \* response file of each process id, None if there is none
    nmRead,   \* history: the objects llvm-nm was given
    lost      \* history: an I/O error the code does not check for happened

vars == <<pc, pid, input, todo, objects, symbols, dataSymbols, imports, output,
          ok, status, def, dir, nmRead, lost>>
sets == <<symbols, dataSymbols, imports>>

Live(g) == pc[g] \notin {"unborn", "done"}

Init ==
    /\ pc = [g \in Generators |-> "unborn"]
    /\ pid = [g \in Generators |-> None]
    /\ input \in [Generators -> Inputs]
    /\ todo = [g \in Generators |-> input[g].args]
    /\ objects = [g \in Generators |-> <<>>]
    /\ symbols = [g \in Generators |-> {}]
    /\ dataSymbols = [g \in Generators |-> {}]
    /\ imports = [g \in Generators |-> {}]
    /\ output = [g \in Generators |-> {}]
    /\ ok = [g \in Generators |-> TRUE]
    /\ status = [g \in Generators |-> 0]
    /\ def = [g \in Generators |-> None]
    /\ dir = [p \in Pids |-> None]
    /\ nmRead = [g \in Generators |-> None]
    /\ lost = [g \in Generators |-> FALSE]

Goto(g, label) == pc' = [pc EXCEPT ![g] = label]
Exit(g, s) == Goto(g, "done") /\ status' = [status EXCEPT ![g] = s]

-----------------------------------------------------------------------------
(* Mutations: plausible bugs that the properties below are checked to catch. *)

\* The response file is opened for appending.
OpenResponseAppends(g) ==
    /\ pc[g] = "expand" /\ todo[g] = <<>> /\ objects[g] # <<>>
    /\ dir' = [dir EXCEPT ![pid[g]] = IF @ = None THEN <<>> ELSE @]
    /\ Goto(g, "response")
    /\ UNCHANGED <<pid, input, todo, objects, sets, output, ok, status, def, nmRead, lost>>

\* Only the first of the two lists is searched for imported symbols.
ParseEndsFunctionsOnly(g) ==
    /\ pc[g] = "parse" /\ output[g] = {}
    /\ symbols' = [symbols EXCEPT ![g] = @ \ imports[g]]
    /\ Goto(g, "cleanup")
    /\ UNCHANGED <<pid, input, todo, objects, dataSymbols, imports, output, ok,
                   status, def, dir, nmRead, lost>>

\* The response file is removed only after a failure.
CleanupOnFailure(g) ==
    /\ pc[g] = "cleanup"
    /\ dir' = IF ok[g] THEN dir ELSE [dir EXCEPT ![pid[g]] = None]
    /\ IF ok[g] THEN Goto(g, "write") /\ UNCHANGED status ELSE Exit(g, 1)
    /\ UNCHANGED <<pid, input, todo, objects, sets, output, ok, def, nmRead, lost>>

\* Everything is tried again when the response file cannot be removed.
CleanupFailsReruns(g) ==
    /\ pc[g] = "cleanup"
    /\ Goto(g, "run")
    /\ UNCHANGED <<pid, input, todo, objects, sets, output, ok, status, def, dir,
                   nmRead, lost>>

-----------------------------------------------------------------------------
(* main: start, arguments *)

\* The operating system gives out an id no live process has.
Start(g, p) ==
    /\ pc[g] = "unborn"
    /\ \A h \in Generators : Live(h) => pid[h] # p
    /\ pid' = [pid EXCEPT ![g] = p]
    /\ Goto(g, "main")
    /\ UNCHANGED <<input, todo, objects, sets, output, ok, status, def, dir,
                   nmRead, lost>>

\* argc < 4, or an ABI that is neither msvc nor gnu.
Usage(g) ==
    /\ pc[g] = "main"
    /\ input[g].args = <<>> \/ input[g].abi \notin {"msvc", "gnu"}
    /\ Exit(g, 1)
    /\ UNCHANGED <<pid, input, todo, objects, sets, output, ok, def, dir, nmRead, lost>>

ParseAbi(g) ==
    /\ pc[g] = "main"
    /\ input[g].args # <<>> /\ input[g].abi \in {"msvc", "gnu"}
    /\ Goto(g, "expand")
    /\ UNCHANGED <<pid, input, todo, objects, sets, output, ok, status, def, dir,
                   nmRead, lost>>

\* merge_definition_file.  read_line takes a read error for the end of the
\* file: the entries after it are lost and nobody notices.
MergeDefinition(g) ==
    /\ pc[g] = "expand" /\ todo[g] # <<>> /\ Head(todo[g]).kind = "def"
    /\ \E f \in SUBSET Head(todo[g]).funcs, d \in SUBSET Head(todo[g]).data :
          /\ symbols' = [symbols EXCEPT ![g] = @ \cup f]
          /\ dataSymbols' = [dataSymbols EXCEPT ![g] = @ \cup d]
          /\ lost' = [lost EXCEPT ![g] =
                @ \/ f # Head(todo[g]).funcs \/ d # Head(todo[g]).data]
    /\ todo' = [todo EXCEPT ![g] = Tail(@)]
    /\ UNCHANGED <<pc, pid, input, objects, imports, output, ok, status, def, dir, nmRead>>

\* add_input: anything that is not a .def file is an object.
AddObject(g) ==
    /\ pc[g] = "expand" /\ todo[g] # <<>> /\ Head(todo[g]).kind = "obj"
    /\ objects' = [objects EXCEPT ![g] = Append(@, Head(todo[g]))]
    /\ todo' = [todo EXCEPT ![g] = Tail(@)]
    /\ UNCHANGED <<pc, pid, input, sets, output, ok, status, def, dir, nmRead, lost>>

\* expand_inputs gives up: a definition or parameter file cannot be opened or
\* closed, or decode_shell_argument rejects an entry.
ExpandFails(g) ==
    /\ pc[g] = "expand" /\ todo[g] # <<>>
    /\ Exit(g, 1)
    /\ UNCHANGED <<pid, input, todo, objects, sets, output, ok, def, dir, nmRead, lost>>

-----------------------------------------------------------------------------
(* discover_object_symbols *)

\* objects->count == 0: there is nothing to ask llvm-nm.
NoObjects(g) ==
    /\ pc[g] = "expand" /\ todo[g] = <<>> /\ objects[g] = <<>>
    /\ Goto(g, "write")
    /\ UNCHANGED <<pid, input, todo, objects, sets, output, ok, status, def, dir,
                   nmRead, lost>>

\* open_file(response_path, "wb")
OpenResponse(g) ==
    /\ pc[g] = "expand" /\ todo[g] = <<>> /\ objects[g] # <<>>
    /\ dir' = [dir EXCEPT ![pid[g]] = <<>>]
    /\ Goto(g, "response")
    /\ UNCHANGED <<pid, input, todo, objects, sets, output, ok, status, def, nmRead, lost>>

OpenResponseFails(g) ==
    /\ pc[g] = "expand" /\ todo[g] = <<>> /\ objects[g] # <<>>
    /\ Exit(g, 1)
    /\ UNCHANGED <<pid, input, todo, objects, sets, output, ok, def, dir, nmRead, lost>>

\* One line per object, then fclose.
WriteResponse(g) ==
    /\ pc[g] = "response"
    /\ dir' = [dir EXCEPT ![pid[g]] = @ \o objects[g]]
    /\ Goto(g, "env")
    /\ UNCHANGED <<pid, input, todo, objects, sets, output, ok, status, def, nmRead, lost>>

\* A name with a quote, or fprintf or fclose fails: the file is removed.
WriteResponseFails(g) ==
    /\ pc[g] = "response"
    /\ dir' = [dir EXCEPT ![pid[g]] = None]
    /\ Exit(g, 1)
    /\ UNCHANGED <<pid, input, todo, objects, sets, output, ok, def, nmRead, lost>>

\* required_env("LLVM_NM") calls exit(2); the response file stays behind.
NoNm(g) ==
    /\ pc[g] = "env" /\ ~input[g].nm
    /\ Exit(g, 2)
    /\ UNCHANGED <<pid, input, todo, objects, sets, output, ok, def, dir, nmRead, lost>>

\* tmpfile() fails
NoTmpfile(g) ==
    /\ pc[g] = "env" /\ input[g].nm
    /\ dir' = [dir EXCEPT ![pid[g]] = None]
    /\ Exit(g, 1)
    /\ UNCHANGED <<pid, input, todo, objects, sets, output, ok, def, nmRead, lost>>

HaveNm(g) ==
    /\ pc[g] = "env" /\ input[g].nm
    /\ Goto(g, "run")
    /\ UNCHANGED <<pid, input, todo, objects, sets, output, ok, status, def, dir,
                   nmRead, lost>>

\* What llvm-nm prints: the lines of one object after those of the other.
Printed(file) ==
    UNION {{[object |-> o, number |-> n, line |-> file[o].lines[n]] :
              n \in DOMAIN file[o].lines} : o \in DOMAIN file}

\* run: llvm-nm prints the symbols of the objects the response file names.
RunNm(g) ==
    /\ pc[g] = "run"
    /\ nmRead' = [nmRead EXCEPT ![g] = dir[pid[g]]]
    /\ output' = [output EXCEPT ![g] = Printed(dir[pid[g]])]
    /\ Goto(g, "parse")
    /\ UNCHANGED <<pid, input, todo, objects, sets, ok, status, def, dir, lost>>

\* run: fork or waitpid fails, llvm-nm fails or is killed.
RunNmFails(g) ==
    /\ pc[g] = "run"
    /\ ok' = [ok EXCEPT ![g] = FALSE]
    /\ Goto(g, "cleanup")
    /\ UNCHANGED <<pid, input, todo, objects, sets, output, status, def, dir, nmRead, lost>>

-----------------------------------------------------------------------------
(* parse_nm_output *)

Upper(type) == type \in {"B", "C", "D", "G", "I", "N", "R", "S", "T", "U", "V", "W"}

\* normalize_stdcall
Normalize(s) == IF s.form = "stdcall" THEN Plain(s.name) ELSE s

\* add_nm_symbol
MsvcSkips(s, type) ==
    \/ ~Upper(type) \/ type \in {"U", "V", "W", "C"}
    \/ type = "R" /\ s.form # "vftable"
    \/ s.form = "msvcHidden"

\* add_gnu_nm_symbol; __imp_ is one of gnu_excluded_prefixes.
GnuSkips(s, type) ==
    \/ ~Upper(type) \/ type \in {"U", "V", "W", "I", "N"}
    \/ s.form \in {"gnuHidden", "imp"}

\* The symbols a line adds to each of the two sets.
FuncsOf(abi, line) ==
    IF abi = "gnu"
      THEN IF ~GnuSkips(line.sym, line.type) /\ line.type = "T" THEN {line.sym} ELSE {}
      ELSE IF ~MsvcSkips(Normalize(line.sym), line.type)
                /\ line.type \notin {"B", "D", "G", "S"}
             THEN {Normalize(line.sym)} ELSE {}

DataOf(abi, line) ==
    IF abi = "gnu"
      THEN IF ~GnuSkips(line.sym, line.type) /\ line.type # "T" THEN {line.sym} ELSE {}
      ELSE IF ~MsvcSkips(Normalize(line.sym), line.type)
                /\ line.type \in {"B", "D", "G", "S"}
             THEN {Normalize(line.sym)} ELSE {}

\* import_pointers: the symbol whose __imp_ pointer the line defines.
ImportsOf(abi, line) ==
    IF /\ abi = "gnu" /\ Upper(line.type) /\ line.type # "U"
       /\ line.sym.form = "imp"
      THEN {Plain(line.sym.name)} ELSE {}

\* read_line
FirstLine(lines) ==
    CHOOSE l \in lines : \A m \in lines :
        \/ l.object < m.object
        \/ l.object = m.object /\ l.number <= m.number

ParseLine(g) ==
    /\ pc[g] = "parse" /\ output[g] # {} /\ FirstLine(output[g]).line.type # "bad"
    /\ LET abi == input[g].abi  line == FirstLine(output[g]).line IN
          /\ symbols' = [symbols EXCEPT ![g] = @ \cup FuncsOf(abi, line)]
          /\ dataSymbols' = [dataSymbols EXCEPT ![g] = @ \cup DataOf(abi, line)]
          /\ imports' = [imports EXCEPT ![g] = @ \cup ImportsOf(abi, line)]
    /\ output' = [output EXCEPT ![g] = @ \ {FirstLine(@)}]
    /\ UNCHANGED <<pc, pid, input, todo, objects, ok, status, def, dir, nmRead, lost>>

\* A malformed line, or a read error: what was parsed so far is not written.
ParseFails(g) ==
    /\ pc[g] = "parse"
    /\ ok' = [ok EXCEPT ![g] = FALSE]
    /\ Goto(g, "cleanup")
    /\ UNCHANGED <<pid, input, todo, objects, sets, output, status, def, dir, nmRead, lost>>

\* The output is exhausted: remove_imported_symbols.
ParseEnds(g) ==
    /\ pc[g] = "parse" /\ output[g] = {}
    /\ symbols' = [symbols EXCEPT ![g] = @ \ imports[g]]
    /\ dataSymbols' = [dataSymbols EXCEPT ![g] = @ \ imports[g]]
    /\ Goto(g, "cleanup")
    /\ UNCHANGED <<pid, input, todo, objects, imports, output, ok, status, def,
                   dir, nmRead, lost>>

-----------------------------------------------------------------------------
(* The end of discover_object_symbols, write_def_file *)

Cleanup(g) ==
    /\ pc[g] = "cleanup"
    /\ dir' = [dir EXCEPT ![pid[g]] = None]
    /\ IF ok[g] THEN Goto(g, "write") /\ UNCHANGED status ELSE Exit(g, 1)
    /\ UNCHANGED <<pid, input, todo, objects, sets, output, ok, def, nmRead, lost>>

\* remove_file fails, which is a failure of the generator too.
CleanupFails(g) ==
    /\ pc[g] = "cleanup"
    /\ Exit(g, 1)
    /\ UNCHANGED <<pid, input, todo, objects, sets, output, ok, def, dir, nmRead, lost>>

Exports(g) == [data |-> dataSymbols[g], funcs |-> symbols[g]]

WriteDef(g) ==
    /\ pc[g] = "write"
    /\ def' = [def EXCEPT ![g] = Exports(g)]
    /\ Exit(g, 0)
    /\ UNCHANGED <<pid, input, todo, objects, sets, output, ok, dir, nmRead, lost>>

\* The file cannot be opened, or fclose reports the error; what is left is no
\* definition file.
WriteDefFails(g) ==
    /\ pc[g] = "write"
    /\ Exit(g, 1)
    /\ UNCHANGED <<pid, input, todo, objects, sets, output, ok, def, dir, nmRead, lost>>

\* An fprintf fails; its result is not looked at and fclose succeeds.
WriteDefLoses(g) ==
    /\ pc[g] = "write"
    /\ lost' = [lost EXCEPT ![g] = TRUE]
    /\ Exit(g, 0)
    /\ UNCHANGED <<pid, input, todo, objects, sets, output, ok, def, dir, nmRead>>

-----------------------------------------------------------------------------
\* The build cancels the action.
Killed(g) ==
    /\ Live(g)
    /\ Exit(g, 137)
    /\ UNCHANGED <<pid, input, todo, objects, sets, output, ok, def, dir, nmRead, lost>>

Step(g) ==
    \/ Usage(g) \/ ParseAbi(g) \/ MergeDefinition(g) \/ AddObject(g)
    \/ ExpandFails(g) \/ NoObjects(g) \/ OpenResponse(g) \/ OpenResponseFails(g)
    \/ WriteResponse(g) \/ WriteResponseFails(g) \/ NoNm(g) \/ NoTmpfile(g)
    \/ HaveNm(g) \/ RunNm(g) \/ RunNmFails(g) \/ ParseLine(g) \/ ParseFails(g)
    \/ ParseEnds(g) \/ Cleanup(g) \/ CleanupFails(g) \/ WriteDef(g)
    \/ WriteDefFails(g) \/ WriteDefLoses(g)

Done == (\A g \in Generators : pc[g] = "done") /\ UNCHANGED vars

Next == \/ \E g \in Generators : Step(g) \/ Killed(g)
        \/ \E g \in Generators, p \in Pids : Start(g, p)
        \/ Done

\* The operating system keeps running a process until it ends.
Spec == Init /\ [][Next]_vars /\ \A g \in Generators : WF_vars(Step(g))

-----------------------------------------------------------------------------
(* Properties. *)

\* What the definition files and objects of a command line export: everything
\* listed or defined, except what one of the objects imports.
Args(g, kind) == {input[g].args[i] : i \in {j \in DOMAIN input[g].args :
                                               input[g].args[j].kind = kind}}
Lines(g) == UNION {{o.lines[i] : i \in DOMAIN o.lines} : o \in Args(g, "obj")}
Imported(g) == UNION {ImportsOf(input[g].abi, l) : l \in Lines(g)}
Expected(g) ==
    [data  |-> ((UNION {a.data : a \in Args(g, "def")})
                \cup UNION {DataOf(input[g].abi, l) : l \in Lines(g)}) \ Imported(g),
     funcs |-> ((UNION {a.funcs : a \in Args(g, "def")})
                \cup UNION {FuncsOf(input[g].abi, l) : l \in Lines(g)}) \ Imported(g)]

\* A generator that succeeds has exported exactly what its inputs define,
\* whatever their order on the command line and in llvm-nm's output; unless an
\* I/O error was lost that the code does not check for.
ExportsExact ==
    \A g \in Generators :
        pc[g] = "done" /\ status[g] = 0 /\ ~lost[g] => def[g] = Expected(g)

\* llvm-nm is given exactly the generator's own objects, although the response
\* file's name may have been used by another generator before.
NmReadsOwnObjects ==
    \A g \in Generators : nmRead[g] # None => nmRead[g] = objects[g]

\* A generator that ran llvm-nm and reports success leaves no response file.
SuccessCleansUp ==
    [][\A g \in Generators :
          /\ pc[g] # "done" /\ pc'[g] = "done" /\ status'[g] = 0
          /\ objects[g] # <<>>
          => dir'[pid[g]] = None]_vars

\* Every generator that was started ends.
GeneratorsEnd == \A g \in Generators : Live(g) ~> pc[g] = "done"
==============================================================================
