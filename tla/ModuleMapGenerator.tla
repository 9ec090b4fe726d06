------------------------- MODULE ModuleMapGenerator -------------------------
(***************************************************************************)
(* module_map_generator: one submodule with the header's size for every    *)
(* path of a parameter file.  All lines are read into one buffer, which    *)
(* the first character of the file allocates.  A header is its path; what  *)
(* stat says of it is chosen when it is asked.                             *)
(***************************************************************************)
EXTENDS Naturals, Sequences, SequencesExt

CONSTANTS
  InitialCapacity,   \* 256
  PathChars,         \* the characters of paths
  MaxParams          \* characters of the parameter file

VARIABLES
  pc,
  text,       \* the parameter file
  pos,        \* the next character fgetc returns
  lost,       \* a failed read or write that the code does not look at
  line,       \* line[0 .. len - 1]
  capacity,   \* 0 while line is NULL
  status,     \* the exit status
  map,        \* the module map
  missing     \* the paths stat failed for

vars == <<pc, text, pos, lost, line, capacity, status, map, missing>>

Newline == "\n"
Header == "module crosstool {"
Footer == "}"

Init ==
  /\ pc = "start"
  /\ text \in BoundedSeq(PathChars \cup {Newline}, MaxParams)
  /\ pos = 1 /\ lost = FALSE /\ line = <<>> /\ capacity = 0
  /\ status = 0 /\ map = <<>> /\ missing = <<>>

Exit(code) == pc' = "exited" /\ status' = code

AtEnd == pos > Len(text)

-----------------------------------------------------------------------------

\* Usage (2), or a file that cannot be opened (1).
StartFails ==
  /\ pc = "start"
  /\ \E code \in {1, 2} : Exit(code)
  /\ UNCHANGED <<text, pos, lost, line, capacity, map, missing>>

\* The result of fputs and fprintf is ignored: what they write may get lost.
Write(piece) ==
  \/ map' = Append(map, piece) /\ lost' = lost
  \/ map' = map /\ lost' = TRUE

Start ==
  /\ pc = "start"
  /\ Write(Header)
  /\ pc' = "read"
  /\ UNCHANGED <<text, pos, line, capacity, status, missing>>

Full == Len(line) + 1 >= capacity

ReadCharacter ==
  /\ pc = "read" /\ ~AtEnd /\ text[pos] # Newline
  /\ capacity' = IF ~Full THEN capacity
                 ELSE IF capacity = 0 THEN InitialCapacity ELSE 2 * capacity
  /\ line' = Append(line, text[pos])
  /\ pos' = pos + 1
  /\ UNCHANGED <<pc, text, lost, status, map, missing>>

OutOfMemory ==
  /\ pc = "read" /\ ~AtEnd /\ text[pos] # Newline /\ Full
  /\ Exit(1)
  /\ UNCHANGED <<text, pos, lost, line, capacity, map, missing>>

\* fgetc fails, and goes on failing: the file seems to end here.
ReadFails ==
  /\ pc = "read" /\ ~AtEnd
  /\ text' = SubSeq(text, 1, pos - 1)
  /\ lost' = TRUE
  /\ UNCHANGED <<pc, pos, line, capacity, status, map, missing>>

\* The inner loop stopped at a newline, or at the end of an unended line.
LineRead ==
  /\ pc = "read"
  /\ IF AtEnd THEN line # <<>> ELSE text[pos] = Newline

\* line[len] = '\0' through a null pointer.
Crash ==
  /\ LineRead /\ capacity = 0
  /\ pc' = "crashed"
  /\ UNCHANGED <<text, pos, lost, line, capacity, status, map, missing>>

\* The newline is consumed; the end of the file stays where it is.
NextLine ==
  /\ line' = <<>>
  /\ pos' = IF AtEnd THEN pos ELSE pos + 1

\* Mutant: a blank line is skipped before its newline is consumed.
BlankLineStays ==
  /\ LineRead /\ capacity # 0 /\ line = <<>>
  /\ UNCHANGED vars

BlankLine ==
  /\ LineRead /\ capacity # 0 /\ line = <<>>
  /\ NextLine
  /\ UNCHANGED <<pc, text, lost, capacity, status, map, missing>>

\* file_size succeeds.
Declare ==
  /\ LineRead /\ capacity # 0 /\ line # <<>>
  /\ Write(line)
  /\ pc' = IF AtEnd THEN "footer" ELSE "read"
  /\ NextLine
  /\ UNCHANGED <<text, capacity, status, missing>>

\* Mutant: the loop is left at the end of the file before the failure is noted.
MissingUnnoted ==
  /\ LineRead /\ capacity # 0 /\ line # <<>>
  /\ missing' = Append(missing, line)
  /\ status' = IF AtEnd THEN status ELSE 1
  /\ NextLine
  /\ UNCHANGED <<pc, text, lost, capacity, map>>

\* file_size fails: "continue", even at the end of the file, where fgetc then
\* returns EOF once more.
Missing ==
  /\ LineRead /\ capacity # 0 /\ line # <<>>
  /\ missing' = Append(missing, line)
  /\ status' = 1
  /\ NextLine
  /\ UNCHANGED <<pc, text, lost, capacity, map>>

LastLine ==
  /\ pc = "read" /\ AtEnd /\ line = <<>>
  /\ pc' = "footer"
  /\ UNCHANGED <<text, pos, lost, line, capacity, status, map, missing>>

WriteFooter ==
  /\ pc = "footer"
  /\ Write(Footer)
  /\ pc' = "close"
  /\ UNCHANGED <<text, pos, line, capacity, status, missing>>

\* fclose(output) succeeds, or the last buffer cannot be written.
Close ==
  /\ pc = "close"
  /\ \E code \in {status, 1} : Exit(code)
  /\ UNCHANGED <<text, pos, lost, line, capacity, map, missing>>

\* The steps of the program itself.
Step ==
  \/ StartFails \/ Start \/ ReadCharacter \/ Crash \/ BlankLine \/ Declare \/ Missing
  \/ LastLine \/ WriteFooter \/ Close

Next == Step \/ OutOfMemory \/ ReadFails

-----------------------------------------------------------------------------
(* Properties.                                                              *)

\* The lines of the parameter file that are not blank, by their first and last
\* character.
Lines ==
  {l \in (DOMAIN text) \X (DOMAIN text) :
     /\ l[1] <= l[2] /\ \A k \in l[1]..l[2] : text[k] # Newline
     /\ l[1] = 1 \/ text[l[1] - 1] = Newline
     /\ l[2] = Len(text) \/ text[l[2] + 1] = Newline}

\* The first n headers of the map are those of the lines in S, in their order.
Lists(n, S) ==
  \E at \in [1..n -> S] :
    /\ \A i, j \in 1..n : i < j => at[i][2] < at[j][1]
    /\ \A l \in S : \E k \in 1..n : at[k] = l
    /\ \A k \in 1..n : map[k + 1] = SubSeq(text, at[k][1], at[k][2])

\* Unless a read or write failed unnoticed, status 0 means that the map declares
\* every path of the parameter file, in order, and is closed.
MapIsExact ==
  pc = "exited" /\ status = 0 /\ ~lost =>
    /\ Len(map) >= 2 /\ map[1] = Header /\ map[Len(map)] = Footer
    /\ Lists(Len(map) - 2, Lines)

\* The line with its terminator stays inside the buffer; only a file that begins
\* with a blank line, which Bazel does not write, crashes the generator.
LineInBounds ==
  /\ line # <<>> => Len(line) < capacity
  /\ pc = "crashed" => text # <<>> /\ Head(text) = Newline
=============================================================================
