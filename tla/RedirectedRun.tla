---------------------------- MODULE RedirectedRun ----------------------------
(***************************************************************************)
(* How static_library_validator, def_file_generator and link_wrapper start *)
(* a program on Windows, where there is no fork: they redirect their own   *)
(* standard streams to a file, spawn the program, which inherits them, and *)
(* put the streams back.                                                   *)
(***************************************************************************)
EXTENDS Naturals

Validator == "static_library_validator"
Generator == "def_file_generator"
Wrapper == "link_wrapper"

VARIABLES
  pc,
  program,
  wanted,      \* the streams of the new program that are not the caller's
  streams,     \* where the caller's standard input and output lead
  saved,       \* streams of which a duplicate is open
  child,       \* "none", "failed", "running", or its exit status: "zero", "nonzero"
  inherited,   \* the streams of the new program
  stuck,       \* a stream could not be put back
  returned     \* "none", "ok" or "failed"

vars == <<pc, program, wanted, streams, saved, child, inherited, stuck, returned>>

Own == [in |-> "own", out |-> "own"]

\* The streams with a set of them led to the file.
Redirected(set) == [s \in {"in", "out"} |-> IF s \in set THEN "file" ELSE "own"]

Init ==
  /\ pc = "save"
  /\ \/ program = Validator /\ wanted \in {{"out"}, {"in", "out"}}   \* llvm-nm, llvm-cxxfilt
     \/ program \in {Generator, Wrapper} /\ wanted = {"out"}
  /\ streams = Own /\ saved = {} /\ child = "none" /\ inherited = Own
  /\ stuck = FALSE /\ returned = "none"

Return(result) == pc' = "returned" /\ returned' = result

-----------------------------------------------------------------------------

Save ==
  /\ pc = "save"
  /\ saved' = IF program = Validator THEN {"in", "out"} ELSE {"out"}
  /\ pc' = "redirect"
  /\ UNCHANGED <<program, wanted, streams, child, inherited, stuck, returned>>

\* _dup fails; the other duplicate is closed.
SaveFails ==
  /\ pc = "save"
  /\ Return("failed")
  /\ UNCHANGED <<program, wanted, streams, saved, child, inherited, stuck>>

Redirect ==
  /\ pc = "redirect"
  /\ streams' = Redirected(wanted)
  /\ pc' = IF program = Wrapper THEN "spawn" ELSE "convert"
  /\ UNCHANGED <<program, wanted, saved, child, inherited, stuck, returned>>

\* _dup2 fails, for the output perhaps after the input was redirected, which is
\* then put back, unless that fails too.
RedirectFails ==
  /\ pc = "redirect"
  /\ \E stay \in SUBSET (wanted \ {"out"}) : streams' = Redirected(stay) /\ stuck' = (stay # {})
  /\ saved' = {}
  /\ Return("failed")
  /\ UNCHANGED <<program, wanted, child, inherited>>

\* Mutant: the input is not put back.
RestoredOutput(stay) ==
  [s \in {"in", "out"} |-> IF s \in (saved \cap {"out"}) \ stay THEN "own" ELSE streams[s]]

\* The streams that _dup2 did not fail for are the caller's again.
Restored(stay) ==
  [s \in {"in", "out"} |-> IF s \in saved \ stay THEN "own" ELSE streams[s]]

PutBack(stay) ==
  /\ streams' = Restored(stay) /\ stuck' = (stay # {})
  /\ saved' = {}

Convert ==
  /\ pc = "convert"
  /\ pc' = "spawn"
  /\ UNCHANGED <<program, wanted, streams, saved, child, inherited, stuck, returned>>

\* An argument is not UTF-8: def_file_generator puts its output back.
ConvertFails ==
  /\ pc = "convert" /\ program = Generator
  /\ \E stay \in SUBSET saved : PutBack(stay)
  /\ Return("failed")
  /\ UNCHANGED <<program, wanted, child, inherited>>

\* static_library_validator leaves everything as it is.
ConvertFailsRedirected ==
  /\ pc = "convert" /\ program = Validator
  /\ Return("failed")
  /\ UNCHANGED <<program, wanted, streams, saved, child, inherited, stuck>>

\* link_wrapper waits inside _spawnv, before it puts its output back.
Spawn ==
  /\ pc = "spawn"
  /\ child' = "running" /\ inherited' = streams
  /\ pc' = IF program = Wrapper THEN "wait" ELSE "restore"
  /\ UNCHANGED <<program, wanted, streams, saved, stuck, returned>>

SpawnFails ==
  /\ pc = "spawn"
  /\ child' = "failed"
  /\ pc' = "restore"
  /\ UNCHANGED <<program, wanted, streams, saved, inherited, stuck, returned>>

\* Whether the streams could be put back is of no account.
Restore ==
  /\ pc = "restore" /\ program # Wrapper
  /\ \E stay \in SUBSET saved : PutBack(stay)
  /\ IF child = "failed" THEN Return("failed") ELSE pc' = "wait" /\ UNCHANGED returned
  /\ UNCHANGED <<program, wanted, child, inherited>>

\* In link_wrapper it is.
RestoreAndReturn ==
  /\ pc = "restore" /\ program = Wrapper
  /\ \E stay \in SUBSET saved :
       /\ PutBack(stay)
       /\ Return(IF stay = {} /\ child = "zero" THEN "ok" ELSE "failed")
  /\ UNCHANGED <<program, wanted, child, inherited>>

ChildEnds ==
  /\ child = "running"
  /\ child' \in {"zero", "nonzero"}
  /\ UNCHANGED <<pc, program, wanted, streams, saved, inherited, stuck, returned>>

Wait ==
  /\ pc = "wait" /\ child \in {"zero", "nonzero"}
  /\ \/ program = Wrapper /\ pc' = "restore" /\ UNCHANGED returned
     \/ program # Wrapper /\ Return(IF child = "zero" THEN "ok" ELSE "failed")
  /\ UNCHANGED <<program, wanted, streams, saved, child, inherited, stuck>>

\* _cwait fails.
WaitFails ==
  /\ pc = "wait" /\ program # Wrapper
  /\ Return("failed")
  /\ UNCHANGED <<program, wanted, streams, saved, child, inherited, stuck>>

Next ==
  \/ Save \/ SaveFails \/ Redirect \/ RedirectFails
  \/ Convert \/ ConvertFails \/ ConvertFailsRedirected
  \/ Spawn \/ SpawnFails \/ Restore \/ RestoreAndReturn \/ ChildEnds \/ Wait \/ WaitFails

-----------------------------------------------------------------------------

\* Success means that the program ended with status 0, that exactly the wanted
\* streams of it were redirected and that no duplicate is left open.  The
\* caller's own streams stay redirected only when putting them back failed,
\* which link_wrapper reports, or in a validator that failed before it started
\* anything, and which then exits.
StreamsComeBack ==
  /\ returned = "ok" =>
       child = "zero" /\ inherited = Redirected(wanted) /\ saved = {}
  /\ pc = "returned" /\ streams # Own =>
       \/ stuck /\ (program = Wrapper => returned = "failed")
       \/ program = Validator /\ child = "none" /\ returned = "failed"
=============================================================================
