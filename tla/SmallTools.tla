----------------------------- MODULE SmallTools -----------------------------
(***************************************************************************)
(* The text handling of the toolchain's C programs, and how they start     *)
(* other programs on Windows, one program per behaviour: each runs in a    *)
(* build action of its own and shares nothing with the others, so that the *)
(* variables the programs have in common are one set of variables here,    *)
(* and those of the other programs rest.                                   *)
(***************************************************************************)
EXTENDS Integers, Sequences

CONSTANTS InitialCapacity, Chars, MaxArgument, MaxText,
          PathChars, MaxParams, JsonBytes, MaxJson

ASSUME BoundsAssumption ==
  /\ InitialCapacity \in Nat \ {0, 1}
  /\ {MaxArgument, MaxText, MaxParams, MaxJson} \subseteq Nat
  /\ JsonBytes \subseteq 1..255

VARIABLES
  tool,   \* the program that runs
  pc, text, pos, lost, line, capacity, status,
  origin, args, word, input, output, quote, started, separated, arguments,
  map, missing,
  env, windows, stamp, verdict,
  value, index, size, result,
  program, wanted, streams, saved, child, inherited, stuck, returned

reader == <<text, pos, lost, line, capacity>>
parameters == <<origin, args, word, input, output, quote, started, separated, arguments>>
modules == <<map, missing>>
header == <<env, windows, stamp, verdict>>
json == <<value, index, size, result>>
windowsRun == <<program, wanted, streams, saved, child, inherited, stuck, returned>>
vars == <<tool, pc, reader, status, parameters, modules, header, json, windowsRun>>

Parameters == INSTANCE ParameterFile
ModuleMap == INSTANCE ModuleMapGenerator
Parser == INSTANCE HeaderParser
Json == INSTANCE JsonString
Run == INSTANCE RedirectedRun

NoReader == text = <<>> /\ pos = 1 /\ lost = FALSE /\ line = <<>> /\ capacity = 0

NoParameters ==
  /\ origin = "none" /\ args = <<>> /\ word = <<>> /\ input = 1 /\ output = <<>>
  /\ quote = "" /\ started = FALSE /\ separated = FALSE /\ arguments = <<>>

NoModules == map = <<>> /\ missing = <<>>
NoHeader == env = {} /\ windows = FALSE /\ stamp = "absent" /\ verdict = "none"
NoJson == value = <<>> /\ index = 1 /\ size = 0 /\ result = <<>>

NoRun ==
  /\ program = "none" /\ wanted = {} /\ streams = Run!Own /\ saved = {} /\ child = "none"
  /\ inherited = Run!Own /\ stuck = FALSE /\ returned = "none"

Init ==
  \/ /\ tool = "def_file_generator" /\ Parameters!Init
     /\ status = 0 /\ NoModules /\ NoHeader /\ NoJson /\ NoRun
  \/ /\ tool = "module_map_generator" /\ ModuleMap!Init
     /\ NoParameters /\ NoHeader /\ NoJson /\ NoRun
  \/ /\ tool = "header_parser" /\ Parser!Init
     /\ NoReader /\ NoParameters /\ NoModules /\ NoJson /\ NoRun
  \/ /\ tool = "case_insensitive_vfs" /\ Json!Init
     /\ status = 0 /\ NoReader /\ NoParameters /\ NoModules /\ NoHeader /\ NoRun
  \/ /\ tool = "any, on Windows" /\ Run!Init
     /\ status = 0 /\ NoReader /\ NoParameters /\ NoModules /\ NoHeader /\ NoJson

ParametersStep ==
  /\ tool = "def_file_generator" /\ Parameters!Next
  /\ UNCHANGED <<tool, status, modules, header, json, windowsRun>>

ModuleMapStep ==
  /\ tool = "module_map_generator" /\ ModuleMap!Next
  /\ UNCHANGED <<tool, parameters, header, json, windowsRun>>

ParserStep ==
  /\ tool = "header_parser" /\ Parser!Next
  /\ UNCHANGED <<tool, reader, parameters, modules, json, windowsRun>>

JsonStep ==
  /\ tool = "case_insensitive_vfs" /\ Json!Next
  /\ UNCHANGED <<tool, reader, status, parameters, modules, header, windowsRun>>

RunStep ==
  /\ tool = "any, on Windows" /\ Run!Next
  /\ UNCHANGED <<tool, reader, status, parameters, modules, header, json>>

Ended == pc \in {"done", "refused", "failed", "exited", "crashed", "returned"}

Done == Ended /\ UNCHANGED vars

Next == ParametersStep \/ ModuleMapStep \/ ParserStep \/ JsonStep \/ RunStep \/ Done

\* A program that can go on does; nothing has to fail.
Progress ==
  \/ ParametersStep /\ Parameters!Step
  \/ ModuleMapStep /\ ModuleMap!Step
  \/ ParserStep
  \/ JsonStep
  \/ RunStep

Spec == Init /\ [][Next]_vars /\ WF_vars(Progress)

-----------------------------------------------------------------------------
(* Properties.                                                              *)

\* def_file_generator gets exactly the arguments that Bazel wrote.
ParametersExact == tool = "def_file_generator" => Parameters!ParametersExact

\* A line of its parameter file is accepted exactly when it is one shell word.
LineIsOneWord == tool = "def_file_generator" => Parameters!LineIsOneWord

\* Neither reader writes outside its line buffer, the terminator included, and
\* decoding in place never overtakes itself.
LinesInBounds ==
  /\ tool = "def_file_generator" => Parameters!LineInBounds
  /\ tool = "module_map_generator" => ModuleMap!LineInBounds

\* ci_json_string stays inside what it counted, and a parser reads it back.
JsonExact == tool = "case_insensitive_vfs" => Json!JsonExact

\* The exit status can be trusted: 0 of module_map_generator means a complete map
\* of the headers, 0 of header_parser that clang++ accepted the header.
StatusIsTruthful ==
  /\ tool = "module_map_generator" => ModuleMap!MapIsExact
  /\ tool = "header_parser" => Parser!ParsedIsAccepted

\* A program that starts another one on Windows gets its own streams back.
StreamsComeBack == tool = "any, on Windows" => Run!StreamsComeBack

\* Every program ends, at the end of a file as in the middle of it: each loop
\* consumes a character or a line.
ToolsEnd == <>Ended
=============================================================================
