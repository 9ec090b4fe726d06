-------------------------- MODULE SmallToolsProofs --------------------------
(***************************************************************************)
(* The small tools, for texts, strings and capacities of any size and for  *)
(* every failure: buffers are never overrun, the decoder of parameter      *)
(* files accepts a line exactly if it is one shell word and gets from      *)
(* Bazel's quoting the arguments it was made of; module maps are complete, *)
(* JSON strings can be read back, a header that passes was parsed, and the *)
(* streams of a program that starts another one come back.                 *)
(***************************************************************************)
EXTENDS SmallTools, WellFoundedInduction, TLAPS

-----------------------------------------------------------------------------
(* Redirected streams.                                                      *)

\* What a program duplicates before it redirects.
Duplicates == IF program = Run!Validator THEN {"in", "out"} ELSE {"out"}

\* While the caller is redirected, all it redirected can be put back.
Borrowed == streams = Run!Redirected(wanted) /\ saved = Duplicates /\ stuck = FALSE

RunTypes ==
  /\ program \in {Run!Validator, Run!Generator, Run!Wrapper}
  /\ wanted \in {{"out"}, {"in", "out"}} /\ wanted \subseteq Duplicates
  /\ pc \in {"save", "redirect", "convert", "spawn", "restore", "wait", "returned"}
  /\ child \in {"none", "failed", "running", "zero", "nonzero"}

RunInv ==
  /\ RunTypes
  /\ pc # "returned" => returned = "none"
  /\ pc \in {"save", "redirect", "convert", "spawn"} => child = "none"
  /\ pc \in {"save", "redirect"} => streams = Run!Own /\ stuck = FALSE
  /\ pc = "redirect" => saved = Duplicates
  /\ pc \in {"convert", "spawn", "restore"} => Borrowed
  /\ pc = "convert" => program # Run!Wrapper
  /\ pc \in {"restore", "wait"} => child # "none"
  /\ pc \in {"restore", "wait"} /\ child # "failed" => inherited = Run!Redirected(wanted)
  /\ pc = "wait" => \/ program = Run!Wrapper /\ Borrowed
                    \/ program # Run!Wrapper /\ saved = {} /\ (streams # Run!Own => stuck)
  /\ pc = "returned" => Run!StreamsComeBack

\* Nothing is redirected when no stream is.
LEMMA OwnStreams == Run!Redirected({}) = Run!Own
BY DEF Run!Redirected, Run!Own

\* When every duplicate goes back, everything is as it was.
LEMMA AllBack ==
  ASSUME RunTypes, Borrowed, NEW stay \in SUBSET saved, stay = {}
  PROVE  Run!Restored(stay) = Run!Own
<1>1. streams = [s \in {"in", "out"} |-> IF s \in wanted THEN "file" ELSE "own"]
  BY DEF Borrowed, Run!Redirected
<1>2. wanted \subseteq saved
  BY DEF Borrowed, RunTypes
<1>3. Run!Restored(stay) = [s \in {"in", "out"} |-> "own"]
  BY <1>1, <1>2 DEF Run!Restored
<1> QED BY <1>3 DEF Run!Own

\* Before anything is redirected.
LEMMA InitRun == Run!Init => RunInv
BY DEF Run!Init, RunInv, RunTypes, Duplicates, Run!Validator, Run!Generator, Run!Wrapper

\* Up to the redirection.
LEMMA RunBegins ==
  ASSUME RunInv, Run!Save \/ Run!SaveFails \/ Run!Redirect \/ Run!RedirectFails
  PROVE  RunInv'
<1> USE DEF RunInv, RunTypes, Duplicates, Run!Return
<1>1. CASE Run!Save
  BY <1>1 DEF Run!Save, Borrowed
<1>2. CASE Run!SaveFails
  BY <1>2 DEF Run!SaveFails, Run!StreamsComeBack
<1>3. CASE Run!Redirect
  <2>1. Borrowed'
    BY <1>3 DEF Run!Redirect, Borrowed, Run!Redirected
  <2>2. pc' \in {"convert", "spawn"} /\ (pc' = "convert" => program # Run!Wrapper)
    BY <1>3 DEF Run!Redirect
  <2>3. RunTypes'
    BY <1>3, <2>2 DEF Run!Redirect
  <2> QED BY <1>3, <2>1, <2>2, <2>3 DEF Run!Redirect
<1>4. CASE Run!RedirectFails
  <2>1. PICK stay \in SUBSET (wanted \ {"out"}) :
          streams' = Run!Redirected(stay) /\ stuck' = (stay # {})
    BY <1>4 DEF Run!RedirectFails
  <2>2. streams' # Run!Own => stuck'
    BY <2>1, OwnStreams
  <2>3. returned' = "failed" /\ pc' = "returned"
    BY <1>4 DEF Run!RedirectFails
  <2>4. Run!StreamsComeBack'
    BY <2>2, <2>3 DEF Run!StreamsComeBack
  <2> QED BY <1>4, <2>3, <2>4 DEF Run!RedirectFails
<1> QED BY <1>1, <1>2, <1>3, <1>4

\* The streams are put back, as far as _dup2 succeeds.
LEMMA Returned ==
  ASSUME RunTypes, Borrowed, NEW stay \in SUBSET saved, Run!PutBack(stay)
  PROVE  saved' = {} /\ (streams' # Run!Own => stuck' = TRUE) /\ (stay # {} => stuck' = TRUE)
         /\ (stay = {} => streams' = Run!Own)
BY AllBack DEF Run!PutBack

\* From the redirection to the start of the program.
LEMMA RunStarts ==
  ASSUME RunInv, \/ Run!Convert \/ Run!ConvertFails \/ Run!ConvertFailsRedirected
                 \/ Run!Spawn \/ Run!SpawnFails
  PROVE  RunInv'
<1> USE DEF RunInv, RunTypes, Duplicates, Run!Return
<1>1. CASE Run!Convert
  BY <1>1 DEF Run!Convert, Borrowed, Run!Redirected
<1>2. CASE Run!ConvertFails
  <2>1. PICK stay \in SUBSET saved : Run!PutBack(stay)
    BY <1>2 DEF Run!ConvertFails
  <2>2. program = Run!Generator /\ program' = program /\ pc' = "returned"
        /\ returned' = "failed" /\ Borrowed
    BY <1>2 DEF Run!ConvertFails
  <2>3. streams' # Run!Own => stuck' = TRUE
    BY <2>1, <2>2, Returned
  <2>4. Run!StreamsComeBack'
    BY <2>2, <2>3 DEF Run!StreamsComeBack
  <2> QED BY <1>2, <2>2, <2>4 DEF Run!ConvertFails
<1>3. CASE Run!ConvertFailsRedirected
  BY <1>3 DEF Run!ConvertFailsRedirected, Run!StreamsComeBack
<1>4. CASE Run!Spawn
  <2>1. Borrowed' /\ inherited' = Run!Redirected(wanted)'
    BY <1>4 DEF Run!Spawn, Borrowed, Run!Redirected
  <2>2. pc' = IF program = Run!Wrapper THEN "wait" ELSE "restore"
    BY <1>4 DEF Run!Spawn
  <2> QED BY <1>4, <2>1, <2>2 DEF Run!Spawn
<1>5. CASE Run!SpawnFails
  BY <1>5 DEF Run!SpawnFails, Borrowed, Run!Redirected
<1> QED BY <1>1, <1>2, <1>3, <1>4, <1>5

\* The streams go back and the program is waited for, in one order or the other.
LEMMA RunEnds ==
  ASSUME RunInv, \/ Run!Restore \/ Run!RestoreAndReturn \/ Run!ChildEnds
                 \/ Run!Wait \/ Run!WaitFails
  PROVE  RunInv'
<1> USE DEF RunInv, RunTypes, Duplicates, Run!Return
<1>1. CASE Run!Restore
  <2>1. PICK stay \in SUBSET saved : Run!PutBack(stay)
    BY <1>1 DEF Run!Restore
  <2>2. /\ Borrowed /\ program # Run!Wrapper /\ program' = program /\ child' = child
        /\ inherited' = inherited /\ wanted' = wanted
    BY <1>1 DEF Run!Restore
  <2>3. saved' = {} /\ (streams' # Run!Own => stuck' = TRUE)
    BY <2>1, <2>2, Returned
  <2>4. CASE child = "failed"
    <3>1. pc' = "returned" /\ returned' = "failed"
      BY <1>1, <2>4 DEF Run!Restore
    <3>2. Run!StreamsComeBack'
      BY <2>2, <2>3, <3>1 DEF Run!StreamsComeBack
    <3> QED BY <2>2, <3>1, <3>2
  <2>5. CASE child # "failed"
    <3>1. pc' = "wait" /\ returned' = "none"
      BY <1>1, <2>5 DEF Run!Restore
    <3>2. inherited' = Run!Redirected(wanted)'
      BY <1>1, <2>2, <2>5 DEF Run!Restore, Run!Redirected
    <3>3. child # "none"
      BY <1>1 DEF Run!Restore
    <3> QED BY <2>2, <2>3, <3>1, <3>2, <3>3
  <2> QED BY <2>4, <2>5
<1>2. CASE Run!RestoreAndReturn
  <2>1. PICK stay \in SUBSET saved :
          Run!PutBack(stay)
          /\ returned' = IF stay = {} /\ child = "zero" THEN "ok" ELSE "failed"
    BY <1>2 DEF Run!RestoreAndReturn
  <2>2. /\ Borrowed /\ program' = program /\ child' = child /\ pc' = "returned"
        /\ inherited' = inherited /\ wanted' = wanted
    BY <1>2 DEF Run!RestoreAndReturn
  <2>3. saved' = {} /\ (streams' # Run!Own => stuck' = TRUE)
        /\ (stay = {} => streams' = Run!Own)
    BY <2>1, <2>2, Returned
  <2>4. child = "zero" => inherited' = Run!Redirected(wanted)'
    BY <1>2, <2>2 DEF Run!RestoreAndReturn, Run!Redirected
  <2>5. Run!StreamsComeBack'
    BY <2>1, <2>2, <2>3, <2>4 DEF Run!StreamsComeBack
  <2> QED BY <2>2, <2>5
<1>3. CASE Run!ChildEnds
  <2>1. /\ child = "running" /\ child' \in {"zero", "nonzero"}
        /\ pc' = pc /\ program' = program /\ wanted' = wanted /\ streams' = streams
        /\ saved' = saved /\ inherited' = inherited /\ stuck' = stuck /\ returned' = returned
    BY <1>3 DEF Run!ChildEnds
  <2>2. Run!Redirected(wanted)' = Run!Redirected(wanted)
    BY <2>1 DEF Run!Redirected
  <2>3. Borrowed' = Borrowed
    BY <2>1, <2>2 DEF Borrowed
  <2>4. Run!StreamsComeBack => Run!StreamsComeBack'
    BY <2>1, <2>2 DEF Run!StreamsComeBack
  <2> QED BY <2>1, <2>2, <2>3, <2>4
<1>4. CASE Run!Wait
  <2>1. /\ program' = program /\ wanted' = wanted /\ streams' = streams
        /\ saved' = saved /\ inherited' = inherited /\ stuck' = stuck /\ child' = child
        /\ pc = "wait" /\ child \in {"zero", "nonzero"}
    BY <1>4 DEF Run!Wait
  <2>2. Run!Redirected(wanted)' = Run!Redirected(wanted)
    BY <2>1 DEF Run!Redirected
  <2>3. Borrowed' = Borrowed
    BY <2>1, <2>2 DEF Borrowed
  <2>4. CASE program = Run!Wrapper
    <3>1. pc' = "restore" /\ returned' = returned
      BY <1>4, <2>4 DEF Run!Wait
    <3> QED BY <2>1, <2>2, <2>3, <2>4, <3>1
  <2>5. CASE program # Run!Wrapper
    <3>1. pc' = "returned" /\ returned' = IF child = "zero" THEN "ok" ELSE "failed"
      BY <1>4, <2>5 DEF Run!Wait
    <3>2. saved = {} /\ (streams # Run!Own => stuck) /\ inherited = Run!Redirected(wanted)
      BY <2>1, <2>5
    <3>3. Run!StreamsComeBack'
      BY <2>1, <2>2, <2>5, <3>1, <3>2 DEF Run!StreamsComeBack
    <3> QED BY <2>1, <3>1, <3>3
  <2> QED BY <2>4, <2>5
<1>5. CASE Run!WaitFails
  <2>1. (streams # Run!Own => stuck) /\ program # Run!Wrapper
    BY <1>5 DEF Run!WaitFails
  <2>2. Run!StreamsComeBack'
    BY <1>5, <2>1 DEF Run!WaitFails, Run!StreamsComeBack
  <2> QED BY <1>5, <2>2 DEF Run!WaitFails
<1> QED BY <1>1, <1>2, <1>3, <1>4, <1>5

\* Every step of a redirected run.
LEMMA NextRun == RunInv /\ Run!Next => RunInv'
BY RunBegins, RunStarts, RunEnds DEF Run!Next

-----------------------------------------------------------------------------
(* Line buffers.                                                            *)

\* A nonempty set of natural numbers has a least element.
LEMMA Least ==
  ASSUME NEW S, S \subseteq Nat, S # {}
  PROVE  \E m \in S : \A n \in S : m <= n
<1>1. PICK x \in S : \A y \in S : ~(<<y, x>> \in OpToRel(<, Nat))
  BY NatLessThanWellFounded, WFMin
<1>2. ASSUME NEW y \in S PROVE x <= y
  <2>1. ~(y < x)
    BY <1>1 DEF OpToRel
  <2> QED BY <2>1
<1> QED BY <1>2

\* Something with the shape of a sequence, whatever its elements.
ASequence(s) == \E S : s \in Seq(S)

\* An element more.
LEMMA Longer ==
  ASSUME NEW s, NEW e, ASequence(s)
  PROVE  /\ ASequence(Append(s, e)) /\ Len(Append(s, e)) = Len(s) + 1 /\ Len(s) \in Nat
         /\ Append(s, e) # <<>>
<1>1. PICK S : s \in Seq(S)
  BY DEF ASequence
<1> DEFINE T == S \cup {e}
<1>2. s \in Seq(T) /\ e \in T
  BY <1>1
<1> HIDE DEF T
<1>3. Append(s, e) \in Seq(T) /\ Len(Append(s, e)) = Len(s) + 1 /\ Len(s) \in Nat
      /\ Append(s, e) # <<>>
  BY <1>2
<1> QED BY <1>3 DEF ASequence

\* An empty sequence.
LEMMA Shortest == ASequence(<<>>) /\ Len(<<>>) = 0
<1>1. <<>> \in Seq({}) /\ Len(<<>>) = 0
  OBVIOUS
<1> QED BY <1>1 DEF ASequence

\* What the decoder writes: nothing, or one character.
LEMMA Unchanged ==
  ASSUME NEW s, ASequence(s)
  PROVE  s \o <<>> = s
<1>1. PICK S : s \in Seq(S)
  BY DEF ASequence
<1> QED BY <1>1

\* One character joined to the end.
LEMMA Joined ==
  ASSUME NEW s, NEW c, ASequence(s)
  PROVE  ASequence(s \o <<c>>) /\ Len(s \o <<c>>) = Len(s) + 1
<1>1. PICK S : s \in Seq(S)
  BY DEF ASequence
<1> DEFINE T == S \cup {c}
<1>2. s \in Seq(T) /\ <<c>> \in Seq(T) /\ Len(<<c>>) = 1
  BY <1>1
<1> HIDE DEF T
<1>3. PICK t : t = <<c>>
  OBVIOUS
<1>4. s \o t \in Seq(T) /\ Len(s \o t) = Len(s) + Len(t)
  BY <1>2, <1>3
<1> QED BY <1>2, <1>3, <1>4 DEF ASequence

\* What read_line and the decoder keep.  Outside the reading of a line its
\* terminator has found room too.
ParametersInv ==
  /\ ASequence(line) /\ capacity \in Nat
  /\ ASequence(output) /\ input \in Nat
  /\ pc \in {"read", "decode", "add", "done", "failed", "refused"}
  /\ line # <<>> \/ pc \in {"decode", "add"} => Len(line) < capacity
  /\ pc \in {"decode", "add"} => Len(output) < input

\* No line is read yet.
LEMMA InitParameters == Parameters!Init => ParametersInv
<1> SUFFICES ASSUME Parameters!Init PROVE ParametersInv
  OBVIOUS
<1>1. line = <<>> /\ output = <<>> /\ input = 1 /\ capacity = 0 /\ pc = "read"
  BY DEF Parameters!Init
<1>2. ASequence(line) /\ ASequence(output)
  BY <1>1, Shortest
<1> QED BY <1>1, <1>2 DEF ParametersInv

\* There is room for one more character, or for the terminator.
LEMMA Room ==
  ASSUME ParametersInv, line # <<>> => Len(line) < capacity
  PROVE  Parameters!Grown \in Nat /\ Len(line) + 1 < Parameters!Grown
<1>1. Len(line) \in Nat /\ (Len(line) = 0 \/ line # <<>>)
  BY Longer, Shortest DEF ParametersInv
<1>2. capacity \in Nat /\ InitialCapacity \in Nat /\ InitialCapacity >= 2
  BY BoundsAssumption DEF ParametersInv
<1>3. Len(line) = 0 \/ Len(line) < capacity
  BY <1>1
<1>4. CASE Len(line) + 1 < capacity
  BY <1>1, <1>2, <1>4 DEF Parameters!Grown
<1>5. CASE ~(Len(line) + 1 < capacity) /\ capacity = 0
  <2>1. Len(line) = 0
    BY <1>1, <1>3, <1>5
  <2>2. Parameters!Grown = InitialCapacity
    BY <1>5 DEF Parameters!Grown
  <2> QED BY <1>2, <2>1, <2>2
<1>6. CASE ~(Len(line) + 1 < capacity) /\ capacity # 0
  <2>1. Parameters!Grown = 2 * capacity
    BY <1>6 DEF Parameters!Grown
  <2> QED BY <1>1, <1>2, <1>3, <1>6, <2>1
<1> QED BY <1>4, <1>5, <1>6

\* Reading a line.
LEMMA ReadsLine ==
  ASSUME ParametersInv,
         \/ Parameters!ReadCharacter \/ Parameters!ReadNewline \/ Parameters!ReadUnended
         \/ Parameters!EndOfFile \/ Parameters!CloseFails \/ Parameters!ReadFails
  PROVE  ParametersInv'
<1>1. Len(line) \in Nat
  BY Longer DEF ParametersInv
<1>2. CASE Parameters!ReadCharacter
  <2>1. pc = "read" /\ pc' = pc /\ line' = Append(line, text[pos]) /\ output' = output
        /\ input' = input /\ capacity' = Parameters!Grown
    BY <1>2 DEF Parameters!ReadCharacter, Parameters!decoder
  <2>2. ASequence(line') /\ Len(line') = Len(line) + 1
    BY <2>1, Longer DEF ParametersInv
  <2>3. capacity' \in Nat /\ Len(line') < capacity'
    BY <2>1, <2>2, Room DEF ParametersInv
  <2> QED BY <2>1, <2>2, <2>3 DEF ParametersInv
<1>3. CASE Parameters!ReadNewline
  <2>1. pc' = "decode" /\ line' = line /\ output' = <<>> /\ input' = 1
        /\ capacity' = Parameters!Grown
    BY <1>3 DEF Parameters!ReadNewline, Parameters!Decode
  <2>2. capacity' \in Nat /\ Len(line) + 1 < capacity'
    BY <1>3, <2>1, Room DEF ParametersInv, Parameters!ReadNewline
  <2>3. Len(line') < capacity'
    BY <1>1, <2>1, <2>2
  <2>4. ASequence(output') /\ Len(output') < input' /\ input' \in Nat
    BY <2>1, Shortest
  <2>5. ASequence(line')
    BY <2>1 DEF ParametersInv
  <2> QED BY <2>1, <2>2, <2>3, <2>4, <2>5 DEF ParametersInv
<1>4. CASE Parameters!ReadUnended
  <2>1. pc' = "decode" /\ line' = line /\ output' = <<>> /\ input' = 1
        /\ capacity' = capacity /\ line # <<>>
    BY <1>4 DEF Parameters!ReadUnended, Parameters!Decode, Parameters!reader
  <2>2. ASequence(output') /\ Len(output') < input' /\ input' \in Nat
    BY <2>1, Shortest
  <2> QED BY <2>1, <2>2 DEF ParametersInv
<1>5. CASE Parameters!EndOfFile \/ Parameters!CloseFails \/ Parameters!ReadFails
  <2>1. line' = line /\ output' = output /\ input' = input /\ capacity' = capacity
        /\ (pc' = pc \/ pc' \in {"done", "failed"})
    BY <1>5 DEF Parameters!EndOfFile, Parameters!CloseFails, Parameters!ReadFails,
                Parameters!reader, Parameters!decoder
  <2> QED BY <2>1 DEF ParametersInv
<1> QED BY <1>2, <1>3, <1>4, <1>5

\* The decoder writes no more characters than it moves past.
LEMMA Decodes ==
  ASSUME ParametersInv,
         \/ Parameters!QuotedCharacter \/ Parameters!CloseQuote \/ Parameters!BlankOutside
         \/ Parameters!SecondWord \/ Parameters!OpenQuote \/ Parameters!PlainCharacter
         \/ Parameters!Escaped \/ Parameters!TrailingEscape
  PROVE  ParametersInv'
<1> USE DEF Parameters!Emit, Parameters!reader
<1>1. Len(output) \in Nat /\ input \in Nat
  BY Longer DEF ParametersInv
<1>2. CASE Parameters!SecondWord \/ Parameters!TrailingEscape
  <2>1. pc' = "refused" /\ line' = line /\ output' = output /\ input' = input
        /\ capacity' = capacity
    BY <1>2 DEF Parameters!SecondWord, Parameters!TrailingEscape, Parameters!Refuse,
                Parameters!decoder
  <2> QED BY <2>1 DEF ParametersInv
<1>3. CASE Parameters!CloseQuote \/ Parameters!BlankOutside \/ Parameters!OpenQuote
  <2>1. pc = "decode" /\ pc' = pc /\ line' = line /\ capacity' = capacity
        /\ output' = output \o <<>> /\ input' = input + 1
    BY <1>3 DEF Parameters!CloseQuote, Parameters!BlankOutside, Parameters!OpenQuote,
                Parameters!Deciding
  <2>2. output' = output
    BY <2>1, Unchanged DEF ParametersInv
  <2>3. Len(output) < input
    BY <2>1 DEF ParametersInv
  <2> QED BY <1>1, <2>1, <2>2, <2>3 DEF ParametersInv
<1>4. CASE Parameters!QuotedCharacter \/ Parameters!PlainCharacter \/ Parameters!Escaped
  <2>1. PICK c : output' = output \o <<c>>
    BY <1>4 DEF Parameters!QuotedCharacter, Parameters!PlainCharacter, Parameters!Escaped
  <2>2. pc = "decode" /\ pc' = pc /\ line' = line /\ capacity' = capacity
        /\ input' \in {input + 1, input + 2}
    BY <1>4 DEF Parameters!QuotedCharacter, Parameters!PlainCharacter, Parameters!Escaped,
                Parameters!Deciding, Parameters!AtEscape
  <2>3. ASequence(output') /\ Len(output') = Len(output) + 1
    BY <2>1, Joined DEF ParametersInv
  <2>4. Len(output) < input
    BY <2>2 DEF ParametersInv
  <2>5. Len(output') < input' /\ input' \in Nat
    BY <1>1, <2>2, <2>3, <2>4
  <2> QED BY <2>2, <2>3, <2>5 DEF ParametersInv
<1> QED BY <1>2, <1>3, <1>4

\* The end of a word, and the next line.
LEMMA EndsLine ==
  ASSUME ParametersInv,
         \/ Parameters!RefuseEnd \/ Parameters!AcceptEnd \/ Parameters!AddInput
         \/ Parameters!AddInputFails
  PROVE  ParametersInv'
<1>1. CASE Parameters!AddInput
  <2>1. pc' = "read" /\ line' = <<>> /\ capacity' = 0 /\ output' = output /\ input' = input
    BY <1>1 DEF Parameters!AddInput, Parameters!decoder
  <2> QED BY <2>1, Shortest DEF ParametersInv
<1>2. CASE Parameters!RefuseEnd \/ Parameters!AcceptEnd \/ Parameters!AddInputFails
  <2>1. line' = line /\ capacity' = capacity /\ output' = output /\ input' = input
        /\ ((pc = "decode" /\ pc' = "add") \/ pc' \in {"refused", "failed"})
    BY <1>2 DEF Parameters!RefuseEnd, Parameters!AcceptEnd, Parameters!AddInputFails,
                Parameters!Refuse, Parameters!reader, Parameters!decoder
  <2> QED BY <2>1 DEF ParametersInv
<1> QED BY <1>1, <1>2

\* Every step of the reader of parameter files.
LEMMA NextParameters == ParametersInv /\ Parameters!Next => ParametersInv'
BY ReadsLine, Decodes, EndsLine DEF Parameters!Next, Parameters!Step

-----------------------------------------------------------------------------
(* Shell words.                                                             *)

Quotes == {Parameters!Single, Parameters!Double}
Outside == ""

\* The characters that mean something to the shell are distinct.
LEMMA Tokens ==
  /\ Outside \notin Quotes
  /\ Parameters!Single # Parameters!Double
  /\ Parameters!Escape \notin Quotes
  /\ Parameters!Spaces \cap Quotes = {} /\ Parameters!Escape \notin Parameters!Spaces
BY Zenon DEF Outside, Quotes, Parameters!Spaces, Parameters!Single, Parameters!Double,
             Parameters!Escape, Parameters!Blank, Parameters!Newline

\* A nonempty set of numbers up to n has a greatest element.
LEMMA Greatest ==
  ASSUME NEW n \in Nat, NEW S, S \subseteq 1..n, S # {}
  PROVE  \E m \in S : \A k \in S : k <= m
<1> DEFINE T == {d \in 0..n : n - d \in S}
<1>1. T \subseteq Nat /\ T # {}
  <2>1. PICK k \in S : TRUE
    OBVIOUS
  <2>2. n - k \in 0..n /\ n - (n - k) = k /\ n - k \in Nat
    BY <2>1
  <2>3. n - k \in T
    BY <2>1, <2>2
  <2>4. T \subseteq Nat
    OBVIOUS
  <2> QED BY <2>3, <2>4
<1>2. PICK d \in T : \A e \in T : d <= e
  <2> HIDE DEF T
  <2> QED BY <1>1, Least
<1>3. ASSUME NEW k \in S PROVE k <= n - d
  <2>1. n - k \in T
    <3>1. n - k \in 0..n /\ n - (n - k) = k
      OBVIOUS
    <3> QED BY <3>1
  <2>2. d <= n - k /\ d \in 0..n /\ k \in 1..n
    BY <1>2, <2>1
  <2> QED BY <2>2
<1> QED BY <1>2, <1>3

\* A trimmed line neither begins nor ends with a blank.
Trimmed(w) ==
  w # <<>> => w[1] \notin Parameters!Spaces /\ w[Len(w)] \notin Parameters!Spaces

LEMMA TrimTrims ==
  ASSUME NEW s, ASequence(s)
  PROVE  ASequence(Parameters!Trim(s)) /\ Trimmed(Parameters!Trim(s))
<1>1. PICK S : s \in Seq(S)
  BY DEF ASequence
<1> DEFINE inner == {i \in DOMAIN s : s[i] \notin Parameters!Spaces}
<1>2. DOMAIN s = 1..Len(s) /\ Len(s) \in Nat
  BY <1>1
<1>3. CASE inner = {}
  <2>1. Parameters!Trim(s) = <<>>
    BY <1>3 DEF Parameters!Trim
  <2>2. <<>> \in Seq(S)
    OBVIOUS
  <2> QED BY <2>1, <2>2 DEF ASequence, Trimmed
<1>4. CASE inner # {}
  <2> DEFINE a == CHOOSE i \in inner : \A j \in inner : i <= j
             b == CHOOSE i \in inner : \A j \in inner : j <= i
  <2>1. Parameters!Trim(s) = SubSeq(s, a, b)
    BY <1>4 DEF Parameters!Trim
  <2>2. inner \subseteq 1..Len(s)
    BY <1>2
  <2>3. \A i \in inner : s[i] \notin Parameters!Spaces
    OBVIOUS
  <2> HIDE DEF inner
  <2>4. \E i \in inner : \A j \in inner : i <= j
    <3>1. inner \subseteq Nat
      BY <2>2
    <3> QED BY <1>4, <3>1, Least
  <2>5. \E i \in inner : \A j \in inner : j <= i
    BY <1>2, <1>4, <2>2, Greatest
  <2>6. a \in inner /\ \A j \in inner : a <= j
    BY <2>4
  <2>7. b \in inner
    BY <2>5
  <2> HIDE DEF a, b
  <2>8. a \in 1..Len(s) /\ b \in 1..Len(s) /\ a <= b
    BY <2>2, <2>6, <2>7
  <2>9. PICK w : w = SubSeq(s, a, b)
    OBVIOUS
  <2>10. \A k \in 1..(b - a + 1) : w[k] = s[a + k - 1]
    BY <1>1, <1>2, <2>8, <2>9
  <2>11. w \in Seq(S) /\ Len(w) = b - a + 1
    BY <1>1, <1>2, <2>8, <2>9
  <2>12. w[1] = s[a] /\ w[Len(w)] = s[b]
    <3>1. a + 1 - 1 = a /\ a + (b - a + 1) - 1 = b /\ 1 \in 1..(b - a + 1)
          /\ (b - a + 1) \in 1..(b - a + 1)
      BY <1>2, <2>8
    <3> QED BY <2>10, <2>11, <3>1
  <2> QED BY <2>1, <2>3, <2>6, <2>7, <2>9, <2>11, <2>12 DEF ASequence, Trimmed
<1> QED BY <1>3, <1>4

\* Sequences one after the other.
Concatenates(a, b, c) ==
  /\ Len(c) = Len(a) + Len(b)
  /\ \A i \in 1..Len(a) : c[i] = a[i]
  /\ \A i \in 1..Len(b) : c[Len(a) + i] = b[i]

LEMMA Concatenated ==
  ASSUME NEW S, NEW a \in Seq(S), NEW b \in Seq(S)
  PROVE  a \o b \in Seq(S) /\ Concatenates(a, b, a \o b)
  BY DEF Concatenates

Regroups(a, b, c) == (a \o b) \o c = a \o (b \o c)

LEMMA Regrouped ==
  ASSUME NEW S, NEW a \in Seq(S), NEW b \in Seq(S), NEW c \in Seq(S)
  PROVE  Regroups(a, b, c)
  BY DEF Regroups

\* Nothing, and then one character, in front.
LEMMA PrefixNothing ==
  ASSUME NEW S, NEW V, V \subseteq Seq(S)
  PROVE  Parameters!Prefix(<<>>, V) = V
<1>1. \A t \in V : <<>> \o t = t
  OBVIOUS
<1> QED BY <1>1 DEF Parameters!Prefix

LEMMA PrefixTwice ==
  ASSUME NEW S, NEW V, V \subseteq Seq(S), NEW p \in Seq(S), NEW q \in Seq(S)
  PROVE  Parameters!Prefix(p, Parameters!Prefix(q, V)) = Parameters!Prefix(p \o q, V)
<1>1. ASSUME NEW t \in V PROVE p \o (q \o t) = (p \o q) \o t
  <2>1. t \in Seq(S)
    OBVIOUS
  <2>2. Regroups(p, q, t)
    BY <2>1, Regrouped
  <2> QED BY <2>2, Zenon DEF Regroups
<1>2. {p \o u : u \in {q \o t : t \in V}} = {p \o (q \o t) : t \in V}
  BY Zenon
<1>3. {p \o (q \o t) : t \in V} = {(p \o q) \o t : t \in V}
  BY <1>1, Zenon
<1> QED BY <1>2, <1>3, Zenon DEF Parameters!Prefix

\* One character, and then some.
LEMMA OneInFront ==
  ASSUME NEW S, NEW V, V \subseteq Seq(S), NEW c \in S
  PROVE  Parameters!Prefix(<<c>>, V) \subseteq Seq(S)
<1>1. PICK p : p = <<c>>
  OBVIOUS
<1>2. p \in Seq(S)
  BY <1>1
<1>3. Parameters!Prefix(p, V) \subseteq Seq(S)
  <2>1. ASSUME NEW t \in V PROVE p \o t \in Seq(S)
    BY <1>2
  <2> QED BY <2>1, Zenon DEF Parameters!Prefix
<1> QED BY <1>1, <1>3

\* A function that says what the last positions up to j may stand for, inside the
\* quotes q, as Inside does.
InsideLast(s, q, j, d, f) ==
  /\ f = [i \in (j - d)..j |-> f[i]]
  /\ \A i \in (j - d)..j : f[i] = Parameters!InsideAt(s, q, j, i, f)

\* What is inside depends on what is behind only.
LEMMA InsideBehind ==
  ASSUME NEW s, NEW q, NEW j \in Nat, NEW i \in Nat, i <= j, NEW f, NEW g,
         \A k \in (i + 1)..j : f[k] = g[k]
  PROVE  Parameters!InsideAt(s, q, j, i, f) = Parameters!InsideAt(s, q, j, i, g)
<1>1. i # j => f[i + 1] = g[i + 1]
  OBVIOUS
<1>2. i + 1 < j => f[i + 2] = g[i + 2]
  OBVIOUS
<1> QED BY <1>1, <1>2, Zenon DEF Parameters!InsideAt

\* What is inside is made of the characters of s.
LEMMA InsideTyped ==
  ASSUME NEW S, NEW s \in Seq(S), NEW q, NEW j \in 1..Len(s), NEW i \in 1..j, NEW f,
         \A k \in (i + 1)..j : f[k] \subseteq Seq(S)
  PROVE  Parameters!InsideAt(s, q, j, i, f) \subseteq Seq(S)
<1>1. i \in Nat /\ j \in Nat /\ Len(s) \in Nat
  OBVIOUS
<1>2. {<<>>} \subseteq Seq(S) /\ {} \subseteq Seq(S)
  OBVIOUS
<1>3. i # j => Parameters!Prefix(<<s[i]>>, f[i + 1]) \subseteq Seq(S)
  <2> SUFFICES ASSUME i # j PROVE Parameters!Prefix(<<s[i]>>, f[i + 1]) \subseteq Seq(S)
    OBVIOUS
  <2>1. s[i] \in S /\ i + 1 \in (i + 1)..j
    BY <1>1
  <2> QED BY <2>1, OneInFront
<1>4. i + 1 < j => Parameters!Prefix(<<s[i + 1]>>, f[i + 2]) \subseteq Seq(S)
  <2> SUFFICES ASSUME i + 1 < j
               PROVE  Parameters!Prefix(<<s[i + 1]>>, f[i + 2]) \subseteq Seq(S)
    OBVIOUS
  <2>1. s[i + 1] \in S /\ i + 2 \in (i + 1)..j
    BY <1>1
  <2> QED BY <2>1, OneInFront
<1> QED BY <1>2, <1>3, <1>4, Zenon DEF Parameters!InsideAt

\* One position more.
LEMMA InsideOneMore ==
  ASSUME NEW s, NEW q, NEW j \in Nat \ {0},
         NEW d \in Nat, d < j - 1, NEW f, InsideLast(s, q, j, d, f)
  PROVE  \E g : InsideLast(s, q, j, d + 1, g)
<1> DEFINE first == j - (d + 1)
           g == [i \in first..j |->
                   IF i = first THEN Parameters!InsideAt(s, q, j, i, f) ELSE f[i]]
<1>1. first \in 1..j /\ first + 1 = j - d /\ j \in Nat /\ first \in Nat
  OBVIOUS
<1>2. \A i \in (j - d)..j : f[i] = Parameters!InsideAt(s, q, j, i, f)
  BY DEF InsideLast
<1> HIDE DEF first
<1>3. g[first] = Parameters!InsideAt(s, q, j, first, f)
      /\ \A k \in (first + 1)..j : g[k] = f[k]
  BY <1>1
<1>4. g = [i \in first..j |-> g[i]]
  OBVIOUS
<1> HIDE DEF g
<1>5. ASSUME NEW i \in first..j
      PROVE  g[i] = Parameters!InsideAt(s, q, j, i, g)
  <2>1. (\A k \in (i + 1)..j : f[k] = g[k]) /\ i \in Nat /\ i <= j
    BY <1>1, <1>3
  <2>2. Parameters!InsideAt(s, q, j, i, f) = Parameters!InsideAt(s, q, j, i, g)
    BY <1>1, <2>1, InsideBehind
  <2>3. CASE i = first
    BY <1>3, <2>2, <2>3
  <2>4. CASE i # first
    <3>1. i \in (first + 1)..j /\ i \in (j - d)..j
      BY <1>1, <2>4
    <3> QED BY <1>2, <1>3, <2>2, <3>1
  <2> QED BY <2>3, <2>4
<1>6. InsideLast(s, q, j, d + 1, g)
  BY <1>4, <1>5 DEF InsideLast, first
<1> QED BY <1>6

\* Inside says, at every position, what InsideAt makes of the positions behind.
LEMMA InsideIs ==
  ASSUME NEW S, NEW s \in Seq(S), NEW q, NEW j \in 1..Len(s)
  PROVE  \A i \in 1..j :
           /\ Parameters!Inside(s, q, j)[i]
                = Parameters!InsideAt(s, q, j, i, Parameters!Inside(s, q, j))
           /\ Parameters!Inside(s, q, j)[i] \subseteq Seq(S)
<1> DEFINE D == {d \in 0..(j - 1) : ~\E f : InsideLast(s, q, j, d, f)}
<1>1. j \in Nat /\ j >= 1 /\ D \subseteq Nat
  OBVIOUS
<1>2. D = {}
  <2> SUFFICES ASSUME D # {} PROVE FALSE
    OBVIOUS
  <2>1. PICK d \in D : \A e \in D : d <= e
    <3> HIDE DEF D
    <3> QED BY <1>1, Least
  <2>2. d \in 0..(j - 1) /\ ~\E f : InsideLast(s, q, j, d, f)
    OBVIOUS
  <2>3. CASE d = 0
    <3> DEFINE f == [i \in j..j |-> {<<>>}]
    <3>1. f = [i \in j..j |-> f[i]] /\ \A i \in j..j : f[i] = {<<>>} /\ i = j
      BY <1>1
    <3> HIDE DEF f
    <3>2. \A i \in j..j : Parameters!InsideAt(s, q, j, i, f) = {<<>>}
      BY <3>1, Zenon DEF Parameters!InsideAt
    <3>3. j - 0 = j
      BY <1>1
    <3>4. InsideLast(s, q, j, 0, f)
      BY <3>1, <3>2, <3>3 DEF InsideLast
    <3> QED BY <2>2, <2>3, <3>4
  <2>4. CASE d # 0
    <3>1. d - 1 \in 0..(j - 1) /\ d - 1 \in Nat /\ d - 1 < j - 1 /\ ~(d <= d - 1)
          /\ d - 1 + 1 = d
      BY <1>1, <2>2, <2>4
    <3>2. d - 1 \notin D
      BY <2>1, <3>1
    <3>3. PICK f : InsideLast(s, q, j, d - 1, f)
      BY <3>1, <3>2
    <3>4. \E g : InsideLast(s, q, j, (d - 1) + 1, g)
      BY <3>1, <3>3, InsideOneMore
    <3> QED BY <2>2, <3>1, <3>4
  <2> QED BY <2>3, <2>4
<1> DEFINE B == CHOOSE f : f = [i \in 1..j |-> Parameters!InsideAt(s, q, j, i, f)]
<1>3. PICK f : InsideLast(s, q, j, j - 1, f)
  <2>1. j - 1 \in 0..(j - 1)
    BY <1>1
  <2> QED BY <1>2, <2>1
<1>4. f = [i \in 1..j |-> f[i]]
      /\ \A i \in 1..j : f[i] = Parameters!InsideAt(s, q, j, i, f)
  <2>1. j - (j - 1) = 1
    BY <1>1
  <2> QED BY <1>3, <2>1 DEF InsideLast
<1>5. f = [i \in 1..j |-> Parameters!InsideAt(s, q, j, i, f)]
  BY <1>4
<1>6. B = [i \in 1..j |-> Parameters!InsideAt(s, q, j, i, B)]
  BY <1>5
<1>7. Parameters!Inside(s, q, j) = B
  BY DEF Parameters!Inside
<1> HIDE DEF B
<1>8. \A i \in 1..j : B[i] = Parameters!InsideAt(s, q, j, i, B)
  BY <1>6
<1>9. \A i \in 1..j : B[i] \subseteq Seq(S)
  <2> DEFINE E == {d \in 0..(j - 1) : ~(B[j - d] \subseteq Seq(S))}
  <2>1. E = {}
    <3> SUFFICES ASSUME E # {} PROVE FALSE
      OBVIOUS
    <3>1. E \subseteq Nat
      OBVIOUS
    <3>2. PICK d \in E : \A e \in E : d <= e
      <4> HIDE DEF E
      <4> QED BY <3>1, Least
    <3>3. d \in 0..(j - 1) /\ ~(B[j - d] \subseteq Seq(S)) /\ j - d \in 1..j
      BY <1>1
    <3>4. ASSUME NEW k \in (j - d + 1)..j PROVE B[k] \subseteq Seq(S)
      <4>1. j - k \in 0..(j - 1) /\ j - (j - k) = k /\ ~(d <= j - k)
        BY <1>1, <3>3
      <4> QED BY <3>2, <4>1
    <3>5. B[j - d] \subseteq Seq(S)
      BY <1>8, <3>3, <3>4, InsideTyped
    <3> QED BY <3>3, <3>5
  <2>2. ASSUME NEW i \in 1..j PROVE B[i] \subseteq Seq(S)
    <3>1. j - i \in 0..(j - 1) /\ j - (j - i) = i
      BY <1>1
    <3> QED BY <2>1, <3>1
  <2> QED BY <2>2
<1> QED BY <1>7, <1>8, <1>9

\* What the text from i on may stand for when a quote q is open, if rest says it
\* for the text behind the closing quote.
Closing(s, q, i, rest) ==
  UNION {UNION {Parameters!Prefix(b, rest[j + 1]) : b \in Parameters!Inside(s, q, j)[i]} :
           j \in {k \in i..Len(s) : s[k] = q}}

\* Its elements.
Closes(s, q, i, rest, t) ==
  \E j \in i..Len(s) :
    /\ s[j] = q
    /\ \E b \in Parameters!Inside(s, q, j)[i] : \E u \in rest[j + 1] : t = b \o u

LEMMA ClosingHas ==
  ASSUME NEW s, NEW q, NEW i, NEW rest, NEW t
  PROVE  t \in Closing(s, q, i, rest) <=> Closes(s, q, i, rest, t)
<1> DEFINE J == {k \in i..Len(s) : s[k] = q}
           P(j, b) == Parameters!Prefix(b, rest[j + 1])
           I(j) == Parameters!Inside(s, q, j)[i]
<1>1. \A j : j \in J <=> j \in i..Len(s) /\ s[j] = q
  OBVIOUS
<1>2. \A j, b : t \in P(j, b) <=> \E u \in rest[j + 1] : t = b \o u
  BY Zenon DEF Parameters!Prefix
<1>3. Closing(s, q, i, rest) = UNION {UNION {P(j, b) : b \in I(j)} : j \in J}
  BY DEF Closing
<1> DEFINE Q(j) == UNION {P(j, b) : b \in I(j)}
<1> HIDE DEF J, P
<1>4. \A j : t \in Q(j) <=> \E b \in I(j) : t \in P(j, b)
  OBVIOUS
<1> HIDE DEF Q
<1>5. t \in UNION {Q(j) : j \in J} <=> \E j \in J : t \in Q(j)
  OBVIOUS
<1>6. Closing(s, q, i, rest) = UNION {Q(j) : j \in J}
  BY <1>3 DEF Q
<1> QED BY <1>1, <1>2, <1>4, <1>5, <1>6 DEF Closes

LEMMA WordAtIs ==
  ASSUME NEW s, NEW i, NEW rest
  PROVE  Parameters!WordAt(s, i, rest) =
           IF i > Len(s) THEN {<<>>}
           ELSE IF s[i] \in Quotes THEN Closing(s, s[i], i + 1, rest)
           ELSE IF s[i] = Parameters!Escape
                THEN IF i < Len(s) THEN Parameters!Prefix(<<s[i + 1]>>, rest[i + 2]) ELSE {}
           ELSE IF s[i] \in Parameters!Spaces THEN {}
           ELSE Parameters!Prefix(<<s[i]>>, rest[i + 1])
BY Zenon DEF Parameters!WordAt, Closing, Quotes

\* What is behind the closing quote is all that counts of rest.
LEMMA ClosingBehind ==
  ASSUME NEW s, NEW q, NEW i \in Nat, Len(s) \in Nat, NEW f, NEW g,
         \A k \in (i + 1)..(Len(s) + 1) : f[k] = g[k]
  PROVE  Closing(s, q, i, f) = Closing(s, q, i, g)
<1> DEFINE J == i..Len(s)
<1>1. \A j \in J : f[j + 1] = g[j + 1]
  OBVIOUS
<1>2. ASSUME NEW t PROVE t \in Closing(s, q, i, f) <=> t \in Closing(s, q, i, g)
  <2>1. Closes(s, q, i, f, t) <=> Closes(s, q, i, g, t)
    BY <1>1 DEF Closes
  <2> QED BY <2>1, ClosingHas
<1> QED BY <1>2, Zenon

LEMMA WordBehind ==
  ASSUME NEW s, Len(s) \in Nat, NEW i \in Nat, NEW f, NEW g,
         \A k \in (i + 1)..(Len(s) + 1) : f[k] = g[k]
  PROVE  Parameters!WordAt(s, i, f) = Parameters!WordAt(s, i, g)
<1>1. i > Len(s) \/ f[i + 1] = g[i + 1]
  OBVIOUS
<1>2. i < Len(s) => f[i + 2] = g[i + 2]
  OBVIOUS
<1>3. Closing(s, s[i], i + 1, f) = Closing(s, s[i], i + 1, g)
  <2>1. i + 1 \in Nat /\ \A k \in (i + 1 + 1)..(Len(s) + 1) : f[k] = g[k]
    OBVIOUS
  <2> QED BY <2>1, ClosingBehind
<1> QED BY <1>1, <1>2, <1>3, WordAtIs, Zenon

\* What the text stands for is made of its characters.
LEMMA ClosingTyped ==
  ASSUME NEW S, NEW s \in Seq(S), NEW q, NEW i \in Nat \ {0}, NEW f,
         \A k \in (i + 1)..(Len(s) + 1) : f[k] \subseteq Seq(S)
  PROVE  Closing(s, q, i, f) \subseteq Seq(S)
<1> SUFFICES ASSUME NEW t \in Closing(s, q, i, f) PROVE t \in Seq(S)
  OBVIOUS
<1>1. PICK j \in i..Len(s) : \E b \in Parameters!Inside(s, q, j)[i] :
                               \E u \in f[j + 1] : t = b \o u
  BY ClosingHas DEF Closes
<1>2. PICK b \in Parameters!Inside(s, q, j)[i] : \E u \in f[j + 1] : t = b \o u
  BY <1>1
<1>3. PICK u \in f[j + 1] : t = b \o u
  BY <1>2
<1>4. j \in 1..Len(s) /\ i \in 1..j /\ j + 1 \in (i + 1)..(Len(s) + 1)
  OBVIOUS
<1>5. b \in Seq(S)
  BY <1>4, InsideIs
<1>6. u \in Seq(S)
  BY <1>4
<1> QED BY <1>3, <1>5, <1>6

LEMMA WordTyped ==
  ASSUME NEW S, NEW s \in Seq(S), NEW i \in Nat \ {0}, NEW f,
         \A k \in (i + 1)..(Len(s) + 1) : f[k] \subseteq Seq(S)
  PROVE  Parameters!WordAt(s, i, f) \subseteq Seq(S)
<1>1. {<<>>} \subseteq Seq(S) /\ {} \subseteq Seq(S) /\ Len(s) \in Nat
  OBVIOUS
<1>2. Closing(s, s[i], i + 1, f) \subseteq Seq(S)
  <2>1. i + 1 \in Nat \ {0} /\ \A k \in (i + 1 + 1)..(Len(s) + 1) : f[k] \subseteq Seq(S)
    OBVIOUS
  <2> QED BY <2>1, ClosingTyped
<1>3. i > Len(s) \/ Parameters!Prefix(<<s[i]>>, f[i + 1]) \subseteq Seq(S)
  <2> SUFFICES ASSUME i <= Len(s)
               PROVE  Parameters!Prefix(<<s[i]>>, f[i + 1]) \subseteq Seq(S)
    BY <1>1
  <2>1. s[i] \in S /\ i + 1 \in (i + 1)..(Len(s) + 1)
    BY <1>1
  <2> QED BY <2>1, OneInFront
<1>4. i < Len(s) => Parameters!Prefix(<<s[i + 1]>>, f[i + 2]) \subseteq Seq(S)
  <2> SUFFICES ASSUME i < Len(s)
               PROVE  Parameters!Prefix(<<s[i + 1]>>, f[i + 2]) \subseteq Seq(S)
    OBVIOUS
  <2>1. s[i + 1] \in S /\ i + 2 \in (i + 1)..(Len(s) + 1)
    BY <1>1
  <2> QED BY <2>1, OneInFront
<1> QED BY <1>1, <1>2, <1>3, <1>4, WordAtIs, Zenon

\* A function that says what the last positions of s stand for, as Words does.
WordsLast(s, d, f) ==
  /\ f = [i \in (Len(s) + 1 - d)..(Len(s) + 1) |-> f[i]]
  /\ \A i \in (Len(s) + 1 - d)..(Len(s) + 1) : f[i] = Parameters!WordAt(s, i, f)

LEMMA WordsOneMore ==
  ASSUME NEW s, Len(s) \in Nat, NEW d \in Nat, d < Len(s), NEW f, WordsLast(s, d, f)
  PROVE  \E g : WordsLast(s, d + 1, g)
<1> DEFINE n == Len(s) + 1
           first == n - (d + 1)
           g == [i \in first..n |->
                   IF i = first THEN Parameters!WordAt(s, i, f) ELSE f[i]]
<1>1. first \in 1..n /\ first + 1 = n - d /\ n \in Nat /\ first \in Nat
  OBVIOUS
<1>2. \A i \in (n - d)..n : f[i] = Parameters!WordAt(s, i, f)
  BY DEF WordsLast
<1> HIDE DEF first
<1>3. g[first] = Parameters!WordAt(s, first, f) /\ \A k \in (first + 1)..n : g[k] = f[k]
  BY <1>1
<1>4. g = [i \in first..n |-> g[i]]
  OBVIOUS
<1> HIDE DEF g
<1>5. ASSUME NEW i \in first..n PROVE g[i] = Parameters!WordAt(s, i, g)
  <2>1. (\A k \in (i + 1)..n : f[k] = g[k]) /\ i \in Nat
    BY <1>1, <1>3
  <2>2. Parameters!WordAt(s, i, f) = Parameters!WordAt(s, i, g)
    BY <2>1, WordBehind
  <2>3. CASE i = first
    BY <1>3, <2>2, <2>3
  <2>4. CASE i # first
    <3>1. i \in (first + 1)..n /\ i \in (n - d)..n
      BY <1>1, <2>4
    <3> QED BY <1>2, <1>3, <2>2, <3>1
  <2> QED BY <2>3, <2>4
<1>6. WordsLast(s, d + 1, g)
  BY <1>4, <1>5 DEF WordsLast, first
<1> QED BY <1>6

\* Words says, at every position, what WordAt makes of the positions behind.
LEMMA WordsIs ==
  ASSUME NEW S, NEW s \in Seq(S)
  PROVE  \A i \in 1..(Len(s) + 1) :
           /\ Parameters!Words(s)[i] = Parameters!WordAt(s, i, Parameters!Words(s))
           /\ Parameters!Words(s)[i] \subseteq Seq(S)
<1> DEFINE n == Len(s) + 1
           D == {d \in 0..Len(s) : ~\E f : WordsLast(s, d, f)}
<1>1. Len(s) \in Nat /\ n \in Nat /\ n >= 1 /\ D \subseteq Nat
  OBVIOUS
<1>2. D = {}
  <2> SUFFICES ASSUME D # {} PROVE FALSE
    OBVIOUS
  <2>1. PICK d \in D : \A e \in D : d <= e
    <3> HIDE DEF D
    <3> QED BY <1>1, Least
  <2>2. d \in 0..Len(s) /\ ~\E f : WordsLast(s, d, f)
    OBVIOUS
  <2>3. CASE d = 0
    <3> DEFINE f == [i \in n..n |-> {<<>>}]
    <3>1. f = [i \in n..n |-> f[i]] /\ \A i \in n..n : f[i] = {<<>>} /\ i > Len(s)
      BY <1>1
    <3> HIDE DEF f
    <3>2. ASSUME NEW i \in n..n PROVE Parameters!WordAt(s, i, f) = {<<>>}
      BY <3>1, WordAtIs
    <3>3. n - 0 = n
      BY <1>1
    <3>4. \A i \in (n - 0)..n : f[i] = Parameters!WordAt(s, i, f)
      BY <3>1, <3>2, <3>3
    <3>5. f = [i \in (n - 0)..n |-> f[i]]
      BY <3>1, <3>3, Zenon
    <3>6. WordsLast(s, 0, f)
      BY <3>4, <3>5 DEF WordsLast
    <3> QED BY <2>2, <2>3, <3>6
  <2>4. CASE d # 0
    <3>1. d - 1 \in 0..Len(s) /\ d - 1 \in Nat /\ d - 1 < Len(s) /\ ~(d <= d - 1)
          /\ d - 1 + 1 = d
      BY <1>1, <2>2, <2>4
    <3>2. d - 1 \notin D
      BY <2>1, <3>1
    <3>3. PICK f : WordsLast(s, d - 1, f)
      BY <3>1, <3>2
    <3>4. \E g : WordsLast(s, (d - 1) + 1, g)
      BY <1>1, <3>1, <3>3, WordsOneMore
    <3> QED BY <2>2, <3>1, <3>4
  <2> QED BY <2>3, <2>4
<1> DEFINE W == CHOOSE f : f = [i \in 1..n |-> Parameters!WordAt(s, i, f)]
<1>3. PICK f : WordsLast(s, Len(s), f)
  <2>1. Len(s) \in 0..Len(s)
    BY <1>1
  <2> QED BY <1>2, <2>1
<1>4. f = [i \in 1..n |-> f[i]] /\ \A i \in 1..n : f[i] = Parameters!WordAt(s, i, f)
  <2>1. n - Len(s) = 1
    BY <1>1
  <2> QED BY <1>3, <2>1 DEF WordsLast
<1>5. f = [i \in 1..n |-> Parameters!WordAt(s, i, f)]
  BY <1>4
<1>6. W = [i \in 1..n |-> Parameters!WordAt(s, i, W)]
  BY <1>5
<1>7. Parameters!Words(s) = W
  BY DEF Parameters!Words
<1> HIDE DEF W
<1>8. \A i \in 1..n : W[i] = Parameters!WordAt(s, i, W)
  BY <1>6
<1>9. \A i \in 1..n : W[i] \subseteq Seq(S)
  <2> DEFINE E == {d \in 0..Len(s) : ~(W[n - d] \subseteq Seq(S))}
  <2>1. E = {}
    <3> SUFFICES ASSUME E # {} PROVE FALSE
      OBVIOUS
    <3>1. E \subseteq Nat
      OBVIOUS
    <3>2. PICK d \in E : \A e \in E : d <= e
      <4> HIDE DEF E
      <4> QED BY <3>1, Least
    <3>3. d \in 0..Len(s) /\ ~(W[n - d] \subseteq Seq(S)) /\ n - d \in 1..n
          /\ n - d \in Nat \ {0}
      BY <1>1
    <3>4. ASSUME NEW k \in (n - d + 1)..n PROVE W[k] \subseteq Seq(S)
      <4>1. n - k \in 0..Len(s) /\ n - (n - k) = k /\ ~(d <= n - k)
        BY <1>1, <3>3
      <4> QED BY <3>2, <4>1
    <3> DEFINE i == n - d
    <3>5. i \in Nat \ {0} /\ i \in 1..n /\ \A k \in (i + 1)..n : W[k] \subseteq Seq(S)
      BY <3>3, <3>4
    <3> HIDE DEF i
    <3>6. Parameters!WordAt(s, i, W) \subseteq Seq(S)
      BY <3>5, WordTyped
    <3>7. W[i] \subseteq Seq(S)
      BY <1>8, <3>5, <3>6
    <3> QED BY <3>3, <3>7 DEF i
  <2>2. ASSUME NEW i \in 1..n PROVE W[i] \subseteq Seq(S)
    <3>1. n - i \in 0..Len(s) /\ n - (n - i) = i
      BY <1>1
    <3> QED BY <2>1, <3>1
  <2> QED BY <2>2
<1> QED BY <1>7, <1>8, <1>9

\* Inside quotes, the text before position k stands for the character c.
LEMMA ClosingMoves ==
  ASSUME NEW S, NEW s \in Seq(S), NEW q, NEW i \in 1..Len(s), NEW k \in (i + 1)..(i + 2),
         NEW c \in S,
         \A j \in i..Len(s) : s[j] = q =>
           IF j < k THEN Parameters!Inside(s, q, j)[i] = {}
           ELSE Parameters!Inside(s, q, j)[i]
                  = Parameters!Prefix(<<c>>, Parameters!Inside(s, q, j)[k])
  PROVE  Closing(s, q, i, Parameters!Words(s))
           = Parameters!Prefix(<<c>>, Closing(s, q, k, Parameters!Words(s)))
<1> DEFINE W == Parameters!Words(s)
           In(j) == Parameters!Inside(s, q, j)
<1>1. PICK p : p = <<c>>
  OBVIOUS
<1>2. p \in Seq(S) /\ Len(s) \in Nat /\ i \in Nat \ {0} /\ k \in Nat \ {0} /\ i < k
  BY <1>1
<1>3. \A j \in k..Len(s) : In(j)[k] \subseteq Seq(S) /\ W[j + 1] \subseteq Seq(S)
  <2>1. ASSUME NEW j \in k..Len(s) PROVE In(j)[k] \subseteq Seq(S)
    <3>1. j \in 1..Len(s) /\ k \in 1..j
      BY <1>2
    <3> QED BY <3>1, InsideIs
  <2>2. ASSUME NEW j \in k..Len(s) PROVE W[j + 1] \subseteq Seq(S)
    <3>1. j + 1 \in 1..(Len(s) + 1)
      BY <1>2
    <3> QED BY <3>1, WordsIs
  <2> QED BY <2>1, <2>2
<1>4. \A j \in i..Len(s) : s[j] = q =>
        IF j < k THEN In(j)[i] = {} ELSE In(j)[i] = Parameters!Prefix(p, In(j)[k])
  BY <1>1
<1> HIDE DEF W, In
<1>5. \A V, b : b \in Parameters!Prefix(p, V) <=> \E t \in V : b = p \o t
  BY Zenon DEF Parameters!Prefix
<1>6. \A t : Closes(s, q, i, W, t) <=>
        \E j \in i..Len(s) : s[j] = q /\ \E b \in In(j)[i] : \E u \in W[j + 1] : t = b \o u
  BY Zenon DEF Closes, In
<1>7. \A t : Closes(s, q, k, W, t) <=>
        \E j \in k..Len(s) : s[j] = q /\ \E b \in In(j)[k] : \E u \in W[j + 1] : t = b \o u
  BY Zenon DEF Closes, In
<1>8. ASSUME NEW t, Closes(s, q, i, W, t)
      PROVE  \E v : Closes(s, q, k, W, v) /\ t = p \o v
  <2>1. PICK j \in i..Len(s) :
          s[j] = q /\ \E b \in In(j)[i] : \E u \in W[j + 1] : t = b \o u
    BY <1>6, <1>8
  <2>2. PICK b \in In(j)[i] : \E u \in W[j + 1] : t = b \o u
    BY <2>1
  <2>3. PICK u \in W[j + 1] : t = b \o u
    BY <2>2
  <2>4. j \in k..Len(s) /\ In(j)[i] = Parameters!Prefix(p, In(j)[k])
    <3>1. j \in Nat /\ In(j)[i] # {}
      BY <1>2, <2>2
    <3>2. ~(j < k)
      BY <1>4, <2>1, <3>1
    <3> QED BY <1>2, <1>4, <2>1, <3>1, <3>2
  <2>5. PICK d \in In(j)[k] : b = p \o d
    <3>1. b \in Parameters!Prefix(p, In(j)[k])
      BY <2>2, <2>4
    <3> QED BY <1>5, <3>1, Zenon
  <2>6. d \in Seq(S) /\ u \in Seq(S)
    <3>1. In(j)[k] \subseteq Seq(S) /\ W[j + 1] \subseteq Seq(S)
      BY <1>3, <2>4, Zenon
    <3> QED BY <2>3, <2>5, <3>1, Zenon
  <2>7. t = p \o (d \o u)
    <3>1. t = (p \o d) \o u
      BY <2>3, <2>5, Zenon
    <3>2. Regroups(p, d, u)
      BY <1>2, <2>6, Regrouped
    <3> QED BY <3>1, <3>2, Zenon DEF Regroups
  <2>8. Closes(s, q, k, W, d \o u)
    BY <1>7, <2>1, <2>3, <2>4, <2>5
  <2> QED BY <2>7, <2>8
<1>9. ASSUME NEW v, Closes(s, q, k, W, v)
      PROVE  Closes(s, q, i, W, p \o v)
  <2>1. PICK j \in k..Len(s) :
          s[j] = q /\ \E b \in In(j)[k] : \E u \in W[j + 1] : v = b \o u
    BY <1>7, <1>9
  <2>2. PICK d \in In(j)[k] : \E u \in W[j + 1] : v = d \o u
    BY <2>1
  <2>3. PICK u \in W[j + 1] : v = d \o u
    BY <2>2
  <2>4. j \in i..Len(s) /\ In(j)[i] = Parameters!Prefix(p, In(j)[k])
    BY <1>2, <1>4, <2>1
  <2>5. d \in Seq(S) /\ u \in Seq(S)
    BY <1>3, <2>2, <2>3
  <2>6. p \o v = (p \o d) \o u
    <3>1. Regroups(p, d, u)
      BY <1>2, <2>5, Regrouped
    <3> QED BY <2>3, <3>1, Zenon DEF Regroups
  <2>7. p \o d \in In(j)[i]
    BY <1>5, <2>2, <2>4
  <2> QED BY <1>6, <2>1, <2>3, <2>4, <2>6, <2>7
<1>10. ASSUME NEW t
       PROVE  t \in Closing(s, q, i, W) <=> t \in Parameters!Prefix(p, Closing(s, q, k, W))
  <2>1. t \in Closing(s, q, i, W) <=> Closes(s, q, i, W, t)
    BY ClosingHas
  <2>2. t \in Parameters!Prefix(p, Closing(s, q, k, W)) <=>
          \E v : v \in Closing(s, q, k, W) /\ t = p \o v
    BY <1>5
  <2>3. \A v : v \in Closing(s, q, k, W) <=> Closes(s, q, k, W, v)
    BY ClosingHas
  <2> QED BY <1>8, <1>9, <2>1, <2>2, <2>3
<1> QED BY <1>1, <1>10 DEF W

\* What the decoder does inside quotes.
LEMMA ClosingSteps ==
  ASSUME NEW S, NEW s \in Seq(S), NEW q \in Quotes, NEW i \in 1..Len(s)
  PROVE  /\ s[i] = q =>
              Closing(s, q, i, Parameters!Words(s)) = Parameters!Words(s)[i + 1]
         /\ s[i] # q /\ ~(q = Parameters!Double /\ s[i] = Parameters!Escape) =>
              Closing(s, q, i, Parameters!Words(s))
                = Parameters!Prefix(<<s[i]>>, Closing(s, q, i + 1, Parameters!Words(s)))
         /\ q = Parameters!Double /\ s[i] = Parameters!Escape /\ i < Len(s) =>
              Closing(s, q, i, Parameters!Words(s))
                = Parameters!Prefix(<<s[i + 1]>>, Closing(s, q, i + 2, Parameters!Words(s)))
<1> DEFINE W == Parameters!Words(s)
           In(j) == Parameters!Inside(s, q, j)
<1>1. Len(s) \in Nat /\ i \in Nat /\ s[i] \in S
  OBVIOUS
<1>2. \A j \in i..Len(s) : In(j)[i] = Parameters!InsideAt(s, q, j, i, In(j))
  <2>1. \A j \in i..Len(s) : j \in 1..Len(s) /\ i \in 1..j
    BY <1>1
  <2> QED BY <2>1, InsideIs
<1>3. W[i + 1] \subseteq Seq(S)
  <2>1. i + 1 \in 1..(Len(s) + 1)
    BY <1>1
  <2> QED BY <2>1, WordsIs
<1> HIDE DEF W, In
<1>4. ASSUME s[i] = q PROVE Closing(s, q, i, W) = W[i + 1]
  <2>1. \A j \in i..Len(s) : In(j)[i] = IF i = j THEN {<<>>} ELSE {}
    BY <1>2, <1>4, Zenon DEF Parameters!InsideAt
  <2>2. i \in i..Len(s) /\ In(i)[i] = {<<>>}
    BY <1>1, <2>1
  <2>3. ASSUME NEW t PROVE Closes(s, q, i, W, t) <=> t \in W[i + 1]
    <3>1. Closes(s, q, i, W, t) <=>
            \E j \in i..Len(s) : s[j] = q /\ \E b \in In(j)[i] : \E u \in W[j + 1] : t = b \o u
      BY Zenon DEF Closes, In
    <3>2. Closes(s, q, i, W, t) <=> \E u \in W[i + 1] : t = <<>> \o u
      BY <1>4, <2>1, <2>2, <3>1
    <3>3. \A u \in W[i + 1] : <<>> \o u = u
      BY <1>3
    <3> QED BY <3>2, <3>3
  <2> QED BY <2>3, ClosingHas
<1>5. ASSUME s[i] # q, ~(q = Parameters!Double /\ s[i] = Parameters!Escape)
      PROVE  Closing(s, q, i, W) = Parameters!Prefix(<<s[i]>>, Closing(s, q, i + 1, W))
  <2>1. \A j \in i..Len(s) : s[j] = q =>
          ~(j < i + 1) /\ In(j)[i] = Parameters!Prefix(<<s[i]>>, In(j)[i + 1])
    <3>1. ASSUME NEW j \in i..Len(s), s[j] = q
          PROVE  i # j /\ ~(j < i + 1)
      BY <1>1, <1>5, <3>1
    <3>2. ASSUME NEW j \in i..Len(s), s[j] = q
          PROVE  In(j)[i] = Parameters!Prefix(<<s[i]>>, In(j)[i + 1])
      BY <1>2, <1>5, <3>1, <3>2, Zenon DEF Parameters!InsideAt
    <3> QED BY <3>1, <3>2
  <2>2. i + 1 \in (i + 1)..(i + 2)
    BY <1>1
  <2> QED BY <1>1, <2>1, <2>2, ClosingMoves DEF W, In
<1>6. ASSUME q = Parameters!Double, s[i] = Parameters!Escape, i < Len(s)
      PROVE  Closing(s, q, i, W) = Parameters!Prefix(<<s[i + 1]>>, Closing(s, q, i + 2, W))
  <2>1. q # Parameters!Escape
    BY Tokens
  <2>2. \A j \in i..Len(s) : s[j] = q =>
          IF j < i + 2 THEN In(j)[i] = {}
          ELSE In(j)[i] = Parameters!Prefix(<<s[i + 1]>>, In(j)[i + 2])
    <3>1. ASSUME NEW j \in i..Len(s), s[j] = q
          PROVE  i # j /\ (j < i + 2 <=> ~(i + 1 < j))
      BY <1>1, <1>6, <2>1, <3>1
    <3>2. ASSUME NEW j \in i..Len(s), s[j] = q
          PROVE  In(j)[i] = IF i + 1 < j THEN Parameters!Prefix(<<s[i + 1]>>, In(j)[i + 2])
                            ELSE {}
      BY <1>2, <1>6, <2>1, <3>1, <3>2, Zenon DEF Parameters!InsideAt
    <3> QED BY <3>1, <3>2, Zenon
  <2>3. i + 2 \in (i + 1)..(i + 2) /\ s[i + 1] \in S
    BY <1>1, <1>6
  <2> QED BY <2>2, <2>3, ClosingMoves DEF W, In
<1> QED BY <1>4, <1>5, <1>6 DEF W

\* A quote that is not closed.
LEMMA ClosingNever ==
  ASSUME NEW s, NEW q, NEW i \in Nat, NEW f, Len(s) \in Nat,
         i > Len(s) \/ (i = Len(s) /\ s[i] # q)
  PROVE  Closing(s, q, i, f) = {}
<1>1. \A j \in i..Len(s) : s[j] # q
  OBVIOUS
<1>2. \A t : ~Closes(s, q, i, f, t)
  BY <1>1 DEF Closes
<1> QED BY <1>2, ClosingHas

\* What the rest of the word may stand for, from where the decoder has arrived.
Remaining(w, i, q, sep) ==
  IF q # Outside THEN Closing(w, q, i, Parameters!Words(w))
  ELSE IF sep = TRUE THEN {}
  ELSE Parameters!Words(w)[i]

LEMMA RemainingTyped ==
  ASSUME NEW S, NEW w \in Seq(S), NEW i \in 1..(Len(w) + 1), NEW q, NEW sep
  PROVE  Remaining(w, i, q, sep) \subseteq Seq(S)
<1>1. Parameters!Words(w)[i] \subseteq Seq(S)
  BY WordsIs
<1>2. Closing(w, q, i, Parameters!Words(w)) \subseteq Seq(S)
  <2>1. \A k \in (i + 1)..(Len(w) + 1) : k \in 1..(Len(w) + 1)
    OBVIOUS
  <2>2. \A k \in (i + 1)..(Len(w) + 1) : Parameters!Words(w)[k] \subseteq Seq(S)
    BY <2>1, WordsIs
  <2>3. i \in Nat \ {0}
    OBVIOUS
  <2> QED BY <2>2, <2>3, ClosingTyped
<1>3. {} \subseteq Seq(S)
  OBVIOUS
<1> QED BY <1>1, <1>2, <1>3, Zenon DEF Remaining

\* The word w, decoded up to position i: what it stands for is the output, and
\* then what the rest stands for.
Half(w, i, o, q, st, sep) ==
  /\ \E S : w \in Seq(S) /\ o \in Seq(S)
  /\ Trimmed(w)
  /\ i \in 1..(Len(w) + 1)
  /\ q \in {Outside} \cup Quotes /\ sep \in BOOLEAN
  /\ i = 1 => Len(o) = 0 /\ q = Outside /\ sep = FALSE /\ st = FALSE
  /\ i > 1 => st = TRUE
  /\ sep = TRUE => q = Outside /\ i <= Len(w)
  /\ Len(w) # 0 => Parameters!Values(w) = Parameters!Prefix(o, Remaining(w, i, q, sep))

\* Before the first character.
LEMMA HalfBegins ==
  ASSUME NEW w, ASequence(w), Trimmed(w)
  PROVE  Half(w, 1, <<>>, Outside, FALSE, FALSE)
<1>1. PICK S : w \in Seq(S)
  BY DEF ASequence
<1>2. Len(w) \in Nat /\ <<>> \in Seq(S) /\ 1 \in 1..(Len(w) + 1)
  BY <1>1
<1>3. Remaining(w, 1, Outside, FALSE) = Parameters!Words(w)[1]
  BY DEF Remaining
<1>4. Parameters!Words(w)[1] \subseteq Seq(S)
  BY <1>1, <1>2, WordsIs
<1>5. Len(w) # 0 => Parameters!Values(w) = Parameters!Words(w)[1]
  <2>1. Len(w) # 0 => w # <<>>
    OBVIOUS
  <2> QED BY <2>1, Zenon DEF Parameters!Values
<1>6. Parameters!Prefix(<<>>, Parameters!Words(w)[1]) = Parameters!Words(w)[1]
  BY <1>4, PrefixNothing
<1>7. Len(w) # 0 =>
        Parameters!Values(w) = Parameters!Prefix(<<>>, Remaining(w, 1, Outside, FALSE))
  BY <1>3, <1>5, <1>6, Zenon
<1>8. FALSE \in BOOLEAN /\ Len(<<>>) = 0 /\ ~(1 > 1) /\ Outside \in {Outside} \cup Quotes
  OBVIOUS
<1> QED BY <1>1, <1>2, <1>7, <1>8, Zenon DEF Half

\* What the decoder writes in a step.
Written(w, e) == e = <<>> \/ \E j \in 1..Len(w) : e = <<w[j]>>

\* The decoder writes e for the text from position i to position k.
LEMMA HalfMoves ==
  ASSUME NEW w, NEW i, NEW o, NEW q, NEW st, NEW sep, Half(w, i, o, q, st, sep),
         i <= Len(w),
         NEW k \in (i + 1)..(Len(w) + 1), NEW e, NEW r, NEW after \in BOOLEAN,
         Written(w, e),
         r \in {Outside} \cup Quotes, after = TRUE => r = Outside /\ k <= Len(w),
         Remaining(w, i, q, sep) = Parameters!Prefix(e, Remaining(w, k, r, after))
  PROVE  Half(w, k, o \o e, r, TRUE, after)
<1>1. PICK S : w \in Seq(S) /\ o \in Seq(S)
  BY DEF Half
<1>2. Len(w) \in Nat /\ i \in 1..(Len(w) + 1)
  BY <1>1 DEF Half
<1>3. e \in Seq(S)
  <2>1. \A j \in 1..Len(w) : w[j] \in S
    BY <1>1, <1>2
  <2>2. <<>> \in Seq(S) /\ \A c \in S : <<c>> \in Seq(S)
    OBVIOUS
  <2> QED BY <2>1, <2>2, Zenon DEF Written
<1>4. k \in 1..(Len(w) + 1) /\ k # 1 /\ k > 1
  BY <1>2
<1>5. Remaining(w, k, r, after) \subseteq Seq(S)
  BY <1>1, <1>4, RemainingTyped
<1>6. Parameters!Prefix(o, Parameters!Prefix(e, Remaining(w, k, r, after)))
        = Parameters!Prefix(o \o e, Remaining(w, k, r, after))
  <2> DEFINE V == Remaining(w, k, r, after)
  <2>1. V \subseteq Seq(S)
    BY <1>5
  <2> HIDE DEF V
  <2>2. Parameters!Prefix(o, Parameters!Prefix(e, V)) = Parameters!Prefix(o \o e, V)
    BY <1>1, <1>3, <2>1, PrefixTwice
  <2> QED BY <2>2 DEF V
<1>7. o \o e \in Seq(S)
  BY <1>1, <1>3
<1>8. Len(w) # 0 => Parameters!Values(w) = Parameters!Prefix(o, Remaining(w, i, q, sep))
  BY Zenon DEF Half
<1>9. Len(w) # 0 => Parameters!Values(w) = Parameters!Prefix(o \o e, Remaining(w, k, r, after))
  BY <1>6, <1>8, Zenon
<1>10. Trimmed(w)
  BY DEF Half
<1> QED BY <1>1, <1>4, <1>7, <1>9, <1>10 DEF Half

\* What the rest stands for, one case of the decoder after the other.
Unfolds(w, i, q, sep) ==
  /\ q # Outside /\ w[i] = q =>
       Remaining(w, i, q, sep) = Parameters!Prefix(<<>>, Remaining(w, i + 1, Outside, FALSE))
  /\ q # Outside /\ w[i] # q /\ ~(q = Parameters!Double /\ w[i] = Parameters!Escape) =>
       Remaining(w, i, q, sep) = Parameters!Prefix(<<w[i]>>, Remaining(w, i + 1, q, sep))
  /\ q # Parameters!Single /\ w[i] = Parameters!Escape /\ i < Len(w)
     /\ (q = Outside => sep = FALSE) =>
       Remaining(w, i, q, sep)
         = Parameters!Prefix(<<w[i + 1]>>, Remaining(w, i + 2, q, sep))
  /\ q # Parameters!Single /\ w[i] = Parameters!Escape /\ i = Len(w) =>
       Remaining(w, i, q, sep) = {}
  /\ q = Outside /\ w[i] \in Parameters!Spaces =>
       Remaining(w, i, q, sep) = Parameters!Prefix(<<>>, Remaining(w, i + 1, Outside, TRUE))
  /\ q = Outside /\ w[i] \in Quotes /\ sep = FALSE =>
       Remaining(w, i, q, sep) = Parameters!Prefix(<<>>, Remaining(w, i + 1, w[i], sep))
  /\ q = Outside /\ w[i] \notin Parameters!Unsafe /\ sep = FALSE =>
       Remaining(w, i, q, sep) = Parameters!Prefix(<<w[i]>>, Remaining(w, i + 1, q, sep))

LEMMA RemainingSteps ==
  ASSUME NEW S, NEW w \in Seq(S), NEW i \in 1..Len(w), NEW q \in {Outside} \cup Quotes, NEW sep
  PROVE  Unfolds(w, i, q, sep)
<1> DEFINE W == Parameters!Words(w)
<1>1. Len(w) \in Nat /\ i \in Nat /\ i \in 1..(Len(w) + 1) /\ i + 1 \in 1..(Len(w) + 1)
      /\ ~(i > Len(w))
  OBVIOUS
<1>2. W[i] = IF w[i] \in Quotes THEN Closing(w, w[i], i + 1, W)
             ELSE IF w[i] = Parameters!Escape
                  THEN IF i < Len(w) THEN Parameters!Prefix(<<w[i + 1]>>, W[i + 2]) ELSE {}
             ELSE IF w[i] \in Parameters!Spaces THEN {}
             ELSE Parameters!Prefix(<<w[i]>>, W[i + 1])
  <2>1. W[i] = Parameters!WordAt(w, i, W)
    BY <1>1, WordsIs
  <2> QED BY <1>1, <2>1, WordAtIs, Zenon
<1>3. \A r, after : Parameters!Prefix(<<>>, Remaining(w, i + 1, r, after))
                      = Remaining(w, i + 1, r, after)
  BY <1>1, RemainingTyped, PrefixNothing
<1>4. W[i + 1] = Remaining(w, i + 1, Outside, FALSE)
  BY DEF Remaining
<1>5. \A r \in Quotes : r # Outside
  BY Tokens DEF Quotes
<1>6. Parameters!Escape \notin Quotes /\ \A c \in Parameters!Spaces : c \notin Quotes
      /\ c # Parameters!Escape
  BY Tokens
<1>7. \A c : c \notin Parameters!Unsafe =>
               c \notin Quotes /\ c # Parameters!Escape /\ c \notin Parameters!Spaces
  BY Zenon DEF Parameters!Unsafe, Quotes
<1>8. ASSUME q # Outside
      PROVE  /\ q \in Quotes
             /\ w[i] = q => Closing(w, q, i, W) = W[i + 1]
             /\ w[i] # q /\ ~(q = Parameters!Double /\ w[i] = Parameters!Escape) =>
                  Closing(w, q, i, W) = Parameters!Prefix(<<w[i]>>, Closing(w, q, i + 1, W))
             /\ q = Parameters!Double /\ w[i] = Parameters!Escape /\ i < Len(w) =>
                  Closing(w, q, i, W) = Parameters!Prefix(<<w[i + 1]>>, Closing(w, q, i + 2, W))
  <2>1. q \in Quotes
    BY <1>8
  <2> QED BY <2>1, ClosingSteps, Zenon
<1> HIDE DEF W
<1>9. /\ \A j, r, after : r # Outside => Remaining(w, j, r, after) = Closing(w, r, j, W)
      /\ \A j : Remaining(w, j, Outside, TRUE) = {}
      /\ \A j, after : W[j] = {} => Remaining(w, j, Outside, after) = {}
      /\ \A j : Remaining(w, j, Outside, FALSE) = W[j]
  BY Zenon DEF Remaining, W
<1>10. ASSUME q # Outside, w[i] = q
       PROVE  Remaining(w, i, q, sep) = Parameters!Prefix(<<>>, Remaining(w, i + 1, Outside, FALSE))
  <2>1. Closing(w, q, i, W) = W[i + 1]
    BY <1>8, <1>10, Zenon
  <2> QED BY <1>3, <1>4, <1>9, <1>10, <2>1, Zenon
<1>11. ASSUME q # Outside, w[i] # q, ~(q = Parameters!Double /\ w[i] = Parameters!Escape)
       PROVE  Remaining(w, i, q, sep) = Parameters!Prefix(<<w[i]>>, Remaining(w, i + 1, q, sep))
  <2>1. Closing(w, q, i, W) = Parameters!Prefix(<<w[i]>>, Closing(w, q, i + 1, W))
    BY <1>8, <1>11, Zenon
  <2> QED BY <1>9, <1>11, <2>1, Zenon
<1>12. ASSUME q # Parameters!Single, w[i] = Parameters!Escape, i < Len(w),
              q = Outside => sep = FALSE
       PROVE  Remaining(w, i, q, sep)
                = Parameters!Prefix(<<w[i + 1]>>, Remaining(w, i + 2, q, sep))
  <2>1. CASE q = Outside
    <3>1. W[i] = Parameters!Prefix(<<w[i + 1]>>, W[i + 2])
      BY <1>2, <1>6, <1>12, Zenon
    <3> QED BY <1>9, <1>12, <2>1, <3>1, Zenon
  <2>2. CASE q # Outside
    <3>1. q = Parameters!Double
      BY <1>8, <1>12, <2>2 DEF Quotes
    <3>2. Closing(w, q, i, W) = Parameters!Prefix(<<w[i + 1]>>, Closing(w, q, i + 2, W))
      BY <1>8, <1>12, <2>2, <3>1, Zenon
    <3> QED BY <1>9, <2>2, <3>2, Zenon
  <2> QED BY <2>1, <2>2
<1>13. ASSUME q # Parameters!Single, w[i] = Parameters!Escape, i = Len(w)
       PROVE  Remaining(w, i, q, sep) = {}
  <2>1. CASE q = Outside
    <3>1. ~(i < Len(w))
      BY <1>1, <1>13
    <3>2. W[i] = {}
      BY <1>2, <1>6, <1>13, <3>1, Zenon
    <3> QED BY <1>9, <2>1, <3>2, Zenon
  <2>2. CASE q # Outside
    <3>1. w[i] # q
      BY <1>6, <1>8, <1>13, <2>2
    <3>2. Closing(w, q, i, W) = {}
      BY <1>1, <1>13, <3>1, ClosingNever
    <3> QED BY <1>9, <2>2, <3>2, Zenon
  <2> QED BY <2>1, <2>2
<1>14. ASSUME q = Outside, w[i] \in Parameters!Spaces
       PROVE  Remaining(w, i, q, sep) = Parameters!Prefix(<<>>, Remaining(w, i + 1, Outside, TRUE))
  <2>1. W[i] = {}
    BY <1>2, <1>6, <1>14, Zenon
  <2>2. Remaining(w, i, q, sep) = {} /\ Remaining(w, i + 1, Outside, TRUE) = {}
    BY <1>9, <1>14, <2>1, Zenon
  <2> QED BY <1>3, <2>2, Zenon
<1>15. ASSUME q = Outside, w[i] \in Quotes, sep = FALSE
       PROVE  Remaining(w, i, q, sep) = Parameters!Prefix(<<>>, Remaining(w, i + 1, w[i], sep))
  <2>1. W[i] = Closing(w, w[i], i + 1, W) /\ w[i] # Outside
    BY <1>2, <1>5, <1>15, Zenon
  <2> QED BY <1>3, <1>9, <1>15, <2>1, Zenon
<1>16. ASSUME q = Outside, w[i] \notin Parameters!Unsafe, sep = FALSE
       PROVE  Remaining(w, i, q, sep) = Parameters!Prefix(<<w[i]>>, Remaining(w, i + 1, q, sep))
  <2>1. W[i] = Parameters!Prefix(<<w[i]>>, W[i + 1])
    BY <1>2, <1>7, <1>16, Zenon
  <2> QED BY <1>9, <1>16, <2>1, Zenon
<1> QED BY <1>10, <1>11, <1>12, <1>13, <1>14, <1>15, <1>16 DEF Unfolds

\* What the decoder has found out about the line.
WordInv ==
  /\ pc = "decode" => Half(word, input, output, quote, started, separated)
  /\ pc = "add" => Parameters!Values(word) = {output}
  /\ pc = "refused" => Parameters!Values(word) = {}

LEMMA InitWord == Parameters!Init => WordInv
BY DEF Parameters!Init, WordInv

\* Reading a line, and what follows the decoder.
LEMMA WordReads ==
  ASSUME ParametersInv, WordInv,
         \/ Parameters!ReadCharacter \/ Parameters!ReadNewline \/ Parameters!ReadUnended
         \/ Parameters!EndOfFile \/ Parameters!CloseFails \/ Parameters!ReadFails
         \/ Parameters!AddInput \/ Parameters!AddInputFails
  PROVE  WordInv'
<1>1. CASE Parameters!ReadNewline \/ Parameters!ReadUnended
  <2>1. /\ pc' = "decode" /\ word' = Parameters!Trim(line) /\ input' = 1 /\ output' = <<>>
        /\ quote' = Outside /\ started' = FALSE /\ separated' = FALSE
    BY <1>1, Zenon DEF Parameters!ReadNewline, Parameters!ReadUnended, Parameters!Decode,
                       Outside
  <2>2. ASequence(word') /\ Trimmed(word')
    BY <2>1, TrimTrims DEF ParametersInv
  <2>3. Half(word', 1, <<>>, Outside, FALSE, FALSE)
    BY <2>2, HalfBegins
  <2> QED BY <2>1, <2>3 DEF WordInv
<1>2. CASE \/ Parameters!ReadCharacter \/ Parameters!EndOfFile \/ Parameters!CloseFails
           \/ Parameters!ReadFails \/ Parameters!AddInput \/ Parameters!AddInputFails
  <2>1. pc' \in {"read", "done", "failed"}
    BY <1>2 DEF Parameters!ReadCharacter, Parameters!EndOfFile, Parameters!CloseFails,
                Parameters!ReadFails, Parameters!AddInput, Parameters!AddInputFails
  <2> QED BY <2>1 DEF WordInv
<1> QED BY <1>1, <1>2

\* What the invariant says while there is a character to look at.
LEMMA WordDecodes ==
  ASSUME WordInv, Parameters!Deciding
  PROVE  /\ Half(word, input, output, quote, started, separated)
         /\ \E S : word \in Seq(S) /\ output \in Seq(S)
         /\ input \in 1..Len(word) /\ Len(word) \in Nat /\ Trimmed(word)
         /\ quote \in {Outside} \cup Quotes /\ separated \in BOOLEAN
         /\ input = 1 => quote = Outside
         /\ input # 1 => started = TRUE
         /\ separated = TRUE => quote = Outside
         /\ Parameters!Values(word)
              = Parameters!Prefix(output, Remaining(word, input, quote, separated))
<1>1. Half(word, input, output, quote, started, separated) /\ input <= Len(word)
  BY DEF WordInv, Parameters!Deciding
<1>2. PICK S : word \in Seq(S) /\ output \in Seq(S)
  BY <1>1 DEF Half
<1>3. Len(word) \in Nat /\ input \in 1..(Len(word) + 1)
  BY <1>1, <1>2 DEF Half
<1>4. input \in 1..Len(word) /\ Len(word) # 0
  BY <1>1, <1>3
<1> QED BY <1>1, <1>2, <1>3, <1>4 DEF Half

\* The decoder writes e, moves on to k and knows r and after then.
Goes(e, k, r, after) ==
  /\ Written(word, e) /\ k \in (input + 1)..(Len(word) + 1)
  /\ r \in {Outside} \cup Quotes /\ after \in BOOLEAN
  /\ after = TRUE => r = Outside /\ k <= Len(word)
  /\ Remaining(word, input, quote, separated)
       = Parameters!Prefix(e, Remaining(word, k, r, after))
  /\ output' = output \o e /\ input' = k /\ quote' = r /\ separated' = after
  /\ started' = TRUE /\ pc' = pc /\ word' = word

\* The steps of the decoder that go on.
LEMMA WordGoesOn ==
  ASSUME WordInv,
         \/ Parameters!QuotedCharacter \/ Parameters!CloseQuote \/ Parameters!BlankOutside
         \/ Parameters!OpenQuote \/ Parameters!PlainCharacter \/ Parameters!Escaped
  PROVE  WordInv'
<1>1. Parameters!Deciding
  BY DEF Parameters!QuotedCharacter, Parameters!CloseQuote, Parameters!BlankOutside,
         Parameters!OpenQuote, Parameters!PlainCharacter, Parameters!Escaped,
         Parameters!AtEscape
<1>2. /\ Half(word, input, output, quote, started, separated)
      /\ input \in 1..Len(word) /\ Len(word) \in Nat /\ Trimmed(word)
      /\ quote \in {Outside} \cup Quotes /\ separated \in BOOLEAN
      /\ input = 1 => quote = Outside
      /\ input # 1 => started = TRUE
      /\ separated = TRUE => quote = Outside
  BY <1>1, WordDecodes, Zenon
<1>3. PICK S : word \in Seq(S) /\ output \in Seq(S)
  BY <1>1, WordDecodes, Zenon
<1>4. Unfolds(word, input, quote, separated)
  BY <1>2, <1>3, RemainingSteps
<1>5. input + 1 \in (input + 1)..(Len(word) + 1) /\ input \in Nat
      /\ (input < Len(word) => input + 2 \in (input + 1)..(Len(word) + 1))
  BY <1>2
<1>6. Written(word, <<>>) /\ Written(word, <<word[input]>>)
      /\ (input < Len(word) => Written(word, <<word[input + 1]>>))
  <2>1. input < Len(word) => input + 1 \in 1..Len(word)
    BY <1>2
  <2> QED BY <1>2, <2>1, Zenon DEF Written
<1>7. ASSUME Parameters!QuotedCharacter PROVE \E e, k, r, after : Goes(e, k, r, after)
  <2>1. /\ quote # Outside /\ word[input] # quote
        /\ ~(quote = Parameters!Double /\ word[input] = Parameters!Escape)
        /\ output' = output \o <<word[input]>> /\ input' = input + 1
        /\ quote' = quote /\ separated' = separated /\ started' = started
        /\ pc' = pc /\ word' = word
    BY <1>7, Zenon DEF Parameters!QuotedCharacter, Parameters!Emit, Outside
  <2>2. Remaining(word, input, quote, separated)
          = Parameters!Prefix(<<word[input]>>, Remaining(word, input + 1, quote, separated))
    BY <1>2, <2>1, <1>4, Zenon DEF Unfolds
  <2>3. started' = TRUE /\ separated # TRUE
    BY <1>2, <2>1
  <2>4. Goes(<<word[input]>>, input + 1, quote, separated)
    BY <1>2, <1>5, <1>6, <2>1, <2>2, <2>3 DEF Goes
  <2> QED BY <2>4
<1>8. ASSUME Parameters!CloseQuote PROVE \E e, k, r, after : Goes(e, k, r, after)
  <2>1. /\ quote # Outside /\ word[input] = quote
        /\ output' = output \o <<>> /\ input' = input + 1
        /\ quote' = Outside /\ separated' = separated /\ started' = started
        /\ pc' = pc /\ word' = word
    BY <1>8, Zenon DEF Parameters!CloseQuote, Parameters!Emit, Outside
  <2>2. Remaining(word, input, quote, separated)
          = Parameters!Prefix(<<>>, Remaining(word, input + 1, Outside, FALSE))
    BY <1>2, <2>1, <1>4, Zenon DEF Unfolds
  <2>3. started' = TRUE /\ separated = FALSE
    BY <1>2, <2>1
  <2>4. Goes(<<>>, input + 1, Outside, FALSE)
    BY <1>5, <1>6, <2>1, <2>2, <2>3 DEF Goes
  <2> QED BY <2>4
<1>9. ASSUME Parameters!BlankOutside PROVE \E e, k, r, after : Goes(e, k, r, after)
  <2>1. /\ quote = Outside /\ word[input] \in Parameters!Spaces
        /\ output' = output \o <<>> /\ input' = input + 1
        /\ quote' = Outside /\ separated' = started /\ started' = started
        /\ pc' = pc /\ word' = word
    BY <1>9, Zenon DEF Parameters!BlankOutside, Parameters!Emit, Outside
  <2>2. Remaining(word, input, quote, separated)
          = Parameters!Prefix(<<>>, Remaining(word, input + 1, Outside, TRUE))
    BY <1>2, <2>1, <1>4, Zenon DEF Unfolds
  <2>3. input # 1 /\ input # Len(word)
    <3>1. Len(word) # 0
      BY <1>2
    <3>2. Len(<<>>) = 0
      OBVIOUS
    <3>3. word # <<>>
      BY <3>1, <3>2, Zenon
    <3> QED BY <1>2, <2>1, <3>3, Zenon DEF Trimmed
  <2>4. started' = TRUE /\ separated' = TRUE
    BY <1>2, <2>1, <2>3, Zenon
  <2>5. input + 1 <= Len(word)
    BY <1>2, <2>3
  <2>6. Goes(<<>>, input + 1, Outside, TRUE)
    BY <1>5, <1>6, <2>1, <2>2, <2>4, <2>5 DEF Goes
  <2> QED BY <2>6
<1>10. ASSUME Parameters!OpenQuote PROVE \E e, k, r, after : Goes(e, k, r, after)
  <2>1. /\ quote = Outside /\ word[input] \in Quotes /\ ~separated
        /\ output' = output \o <<>> /\ input' = input + 1
        /\ quote' = word[input] /\ separated' = separated /\ started' = TRUE
        /\ pc' = pc /\ word' = word
    BY <1>10, Zenon DEF Parameters!OpenQuote, Parameters!Emit, Outside, Quotes
  <2>2. separated = FALSE
    BY <1>2, <2>1, Zenon
  <2>3. Remaining(word, input, quote, separated)
          = Parameters!Prefix(<<>>, Remaining(word, input + 1, word[input], separated))
    BY <1>2, <2>1, <2>2, <1>4, Zenon DEF Unfolds
  <2>4. word[input] \in {Outside} \cup Quotes
    BY <2>1
  <2>5. Goes(<<>>, input + 1, word[input], separated)
    BY <1>2, <1>5, <1>6, <2>1, <2>2, <2>3, <2>4 DEF Goes
  <2> QED BY <2>5
<1>11. ASSUME Parameters!PlainCharacter PROVE \E e, k, r, after : Goes(e, k, r, after)
  <2>1. /\ quote = Outside /\ word[input] \notin Parameters!Unsafe /\ ~separated
        /\ output' = output \o <<word[input]>> /\ input' = input + 1
        /\ quote' = quote /\ separated' = separated /\ started' = TRUE
        /\ pc' = pc /\ word' = word
    BY <1>11, Zenon DEF Parameters!PlainCharacter, Parameters!Emit, Outside
  <2>2. separated = FALSE
    BY <1>2, <2>1, Zenon
  <2>3. Remaining(word, input, quote, separated)
          = Parameters!Prefix(<<word[input]>>, Remaining(word, input + 1, quote, separated))
    BY <1>2, <2>1, <2>2, <1>4, Zenon DEF Unfolds
  <2>4. Goes(<<word[input]>>, input + 1, quote, separated)
    BY <1>2, <1>5, <1>6, <2>1, <2>2, <2>3 DEF Goes
  <2> QED BY <2>4
<1>12. ASSUME Parameters!Escaped PROVE \E e, k, r, after : Goes(e, k, r, after)
  <2>1. /\ quote # Parameters!Single /\ word[input] = Parameters!Escape /\ input < Len(word)
        /\ (quote = Outside => ~separated)
        /\ output' = output \o <<word[input + 1]>> /\ input' = input + 2
        /\ quote' = quote /\ separated' = separated /\ started' = TRUE
        /\ pc' = pc /\ word' = word
    BY <1>12, Zenon DEF Parameters!Escaped, Parameters!AtEscape, Parameters!Emit, Outside
  <2>2. separated = FALSE
    BY <1>2, <2>1, Zenon
  <2>3. Remaining(word, input, quote, separated)
          = Parameters!Prefix(<<word[input + 1]>>, Remaining(word, input + 2, quote, separated))
    BY <1>2, <2>1, <2>2, <1>4, Zenon DEF Unfolds
  <2>4. Goes(<<word[input + 1]>>, input + 2, quote, separated)
    BY <1>2, <1>5, <1>6, <2>1, <2>2, <2>3 DEF Goes
  <2> QED BY <2>4
<1>13. PICK e, k, r, after : Goes(e, k, r, after)
  BY <1>7, <1>8, <1>9, <1>10, <1>11, <1>12
<1>14. input <= Len(word)
  BY <1>2
<1>15. Half(word, k, output \o e, r, TRUE, after)
  BY <1>2, <1>13, <1>14, HalfMoves DEF Goes
<1>16. pc = "decode" /\ pc' = pc
  BY <1>1, <1>13 DEF Goes, Parameters!Deciding
<1> QED BY <1>13, <1>15, <1>16, Zenon DEF Goes, WordInv

\* The steps of the decoder that end it.
LEMMA WordEnds ==
  ASSUME WordInv,
         \/ Parameters!SecondWord \/ Parameters!TrailingEscape \/ Parameters!RefuseEnd
         \/ Parameters!AcceptEnd
  PROVE  WordInv'
<1>1. word' = word /\ output' = output
  BY Zenon DEF Parameters!SecondWord, Parameters!TrailingEscape, Parameters!RefuseEnd,
               Parameters!AcceptEnd, Parameters!Refuse, Parameters!decoder
<1>2. CASE Parameters!SecondWord \/ Parameters!TrailingEscape
  <2>1. Parameters!Deciding /\ pc' = "refused"
    BY <1>2 DEF Parameters!SecondWord, Parameters!TrailingEscape, Parameters!AtEscape,
                Parameters!Refuse
  <2>2. /\ input \in 1..Len(word) /\ quote \in {Outside} \cup Quotes
        /\ Parameters!Values(word)
             = Parameters!Prefix(output, Remaining(word, input, quote, separated))
    BY <2>1, WordDecodes, Zenon
  <2>3. PICK S : word \in Seq(S) /\ output \in Seq(S)
    BY <2>1, WordDecodes, Zenon
  <2>4. Remaining(word, input, quote, separated) = {}
    <3>1. CASE Parameters!SecondWord
      BY <3>1, Zenon DEF Parameters!SecondWord, Remaining, Outside
    <3>2. CASE Parameters!TrailingEscape
      <4>1. quote # Parameters!Single /\ word[input] = Parameters!Escape
            /\ input = Len(word)
        BY <3>2, Zenon DEF Parameters!TrailingEscape, Parameters!AtEscape
      <4>2. Unfolds(word, input, quote, separated)
        BY <2>2, <2>3, RemainingSteps
      <4> QED BY <2>2, <4>1, <4>2, Zenon DEF Unfolds
    <3> QED BY <1>2, <3>1, <3>2
  <2>5. Parameters!Values(word) = {}
    BY <2>2, <2>4 DEF Parameters!Prefix
  <2> QED BY <1>1, <2>1, <2>5 DEF WordInv
<1>3. CASE Parameters!RefuseEnd \/ Parameters!AcceptEnd
  <2>1. pc = "decode" /\ input > Len(word)
    BY <1>3 DEF Parameters!RefuseEnd, Parameters!AcceptEnd
  <2>2. Half(word, input, output, quote, started, separated)
    BY <2>1 DEF WordInv
  <2>3. PICK S : word \in Seq(S) /\ output \in Seq(S)
    BY <2>2 DEF Half
  <2>4. Len(word) \in Nat /\ input \in 1..(Len(word) + 1)
    BY <2>2, <2>3 DEF Half
  <2>5. input = Len(word) + 1
    BY <2>1, <2>4
  <2>6. separated = FALSE
    BY <2>1, <2>2, <2>4 DEF Half
  <2>7. Len(word) # 0 => Parameters!Values(word)
                   = Parameters!Prefix(output, Remaining(word, input, quote, separated))
    BY <2>2, Zenon DEF Half
  <2>8. Len(word) = 0 <=> input = 1
    BY <2>4, <2>5
  <2>9. (input = 1 => quote = Outside /\ started = FALSE) /\ (input # 1 => started = TRUE)
    <3>1. input # 1 => input > 1
      BY <2>4
    <3> QED BY <2>2, <3>1, Zenon DEF Half
  <2>10. CASE Parameters!RefuseEnd
    <3>1. (quote # Outside \/ ~started) /\ pc' = "refused"
      BY <2>10, Zenon DEF Parameters!RefuseEnd, Parameters!Refuse, Outside
    <3>2. CASE input = 1
      <4>1. word = <<>>
        BY <2>3, <2>8, <3>2
      <4>2. Parameters!Values(word) = {}
        BY <4>1, Zenon DEF Parameters!Values
      <4> QED BY <1>1, <3>1, <4>2 DEF WordInv
    <3>3. CASE input # 1
      <4>1. quote # Outside
        BY <2>9, <3>1, <3>3, Zenon
      <4>2. Closing(word, quote, input, Parameters!Words(word)) = {}
        <5>1. input \in Nat /\ input > Len(word)
          BY <2>4, <2>5
        <5> QED BY <2>4, <5>1, ClosingNever
      <4>3. Remaining(word, input, quote, separated) = {}
        BY <4>1, <4>2, Zenon DEF Remaining
      <4>4. Parameters!Values(word) = {}
        BY <2>7, <2>8, <3>3, <4>3 DEF Parameters!Prefix
      <4> QED BY <1>1, <3>1, <4>4 DEF WordInv
    <3> QED BY <3>2, <3>3
  <2>11. CASE Parameters!AcceptEnd
    <3>1. quote = Outside /\ started /\ pc' = "add"
      BY <2>11, Zenon DEF Parameters!AcceptEnd, Outside
    <3>2. input # 1
      BY <2>9, <3>1, Zenon
    <3>3. Remaining(word, input, quote, separated) = Parameters!Words(word)[input]
      BY <2>6, <3>1, Zenon DEF Remaining
    <3>4. Parameters!Words(word)[input] = {<<>>}
      <4>1. Parameters!Words(word)[input]
              = Parameters!WordAt(word, input, Parameters!Words(word))
        BY <2>3, <2>4, WordsIs
      <4> QED BY <2>1, <4>1, Zenon DEF Parameters!WordAt
    <3>5. Parameters!Values(word) = Parameters!Prefix(output, {<<>>})
      BY <2>7, <2>8, <3>2, <3>3, <3>4
    <3>6. output \o <<>> = output
      BY <2>3
    <3>7. Parameters!Values(word) = {output}
      BY <3>5, <3>6, Zenon DEF Parameters!Prefix
    <3> QED BY <1>1, <3>1, <3>7 DEF WordInv
  <2> QED BY <1>3, <2>10, <2>11
<1> QED BY <1>2, <1>3

\* Every step of the reader of parameter files.
LEMMA NextWord == ParametersInv /\ WordInv /\ Parameters!Next => WordInv'
BY WordReads, WordGoesOn, WordEnds DEF Parameters!Next, Parameters!Step

-----------------------------------------------------------------------------
(* What Bazel writes.                                                       *)

\* The first d sequences of ss are laid out in r one after the other, the k-th
\* from position at[k] on.
LaidOut(ss, d, r, at) ==
  /\ at \in [1..(d + 1) -> 1..(Len(r) + 1)]
  /\ at[1] = 1 /\ at[d + 1] = Len(r) + 1
  /\ \A k \in 1..d :
       /\ at[k + 1] = at[k] + Len(ss[k])
       /\ \A j \in 1..Len(ss[k]) : r[at[k] + j - 1] = ss[k][j]

\* One sequence more.
LEMMA LaysOutOneMore ==
  ASSUME NEW T, NEW ss \in Seq(Seq(T)), NEW d \in Nat, d < Len(ss), NEW r \in Seq(T),
         NEW at, LaidOut(ss, d, r, at)
  PROVE  \E to : LaidOut(ss, d + 1, r \o ss[d + 1], to)
<1> DEFINE one == ss[d + 1]
           all == r \o one
           to == [k \in 1..(d + 2) |-> IF k = d + 2 THEN Len(all) + 1 ELSE at[k]]
<1>1. Len(ss) \in Nat /\ d + 1 \in 1..Len(ss) /\ Len(r) \in Nat
  OBVIOUS
<1>2. one \in Seq(T) /\ Len(one) \in Nat
  BY <1>1
<1>3. \A k \in 1..Len(ss) : ss[k] \in Seq(T) /\ Len(ss[k]) \in Nat
  OBVIOUS
<1> HIDE DEF one
<1>4. all \in Seq(T) /\ Concatenates(r, one, all)
  BY <1>2, Concatenated
<1> HIDE DEF all
<1>5. Len(all) = Len(r) + Len(one)
  BY <1>4 DEF Concatenates
<1>6. /\ at \in [1..(d + 1) -> 1..(Len(r) + 1)] /\ at[1] = 1 /\ at[d + 1] = Len(r) + 1
      /\ \A k \in 1..d : at[k + 1] = at[k] + Len(ss[k])
      /\ \A k \in 1..d : \A j \in 1..Len(ss[k]) : r[at[k] + j - 1] = ss[k][j]
  BY DEF LaidOut
<1>7. /\ to[d + 2] = Len(all) + 1 /\ \A k \in 1..(d + 1) : to[k] = at[k]
      /\ to \in [1..(d + 1 + 1) -> 1..(Len(all) + 1)]
  BY <1>1, <1>2, <1>5, <1>6
<1> HIDE DEF to
<1>8. ASSUME NEW k \in 1..(d + 1)
      PROVE  /\ to[k + 1] = to[k] + Len(ss[k])
             /\ \A j \in 1..Len(ss[k]) : all[to[k] + j - 1] = ss[k][j]
  <2>1. CASE k = d + 1
    <3>1. to[k] = Len(r) + 1 /\ to[k + 1] = Len(all) + 1 /\ ss[k] = one
      BY <1>1, <1>6, <1>7, <2>1 DEF one
    <3>2. ASSUME NEW j \in 1..Len(one) PROVE all[to[k] + j - 1] = one[j]
      <4>1. all[Len(r) + j] = one[j]
        BY <1>4 DEF Concatenates
      <4>2. Len(r) + 1 + j - 1 = Len(r) + j
        BY <1>1, <1>2
      <4> QED BY <3>1, <4>1, <4>2
    <3> QED BY <1>1, <1>2, <1>5, <3>1, <3>2
  <2>2. CASE k # d + 1
    <3>1. k \in 1..d /\ k + 1 \in 1..(d + 1) /\ k \in 1..Len(ss)
      BY <1>1, <2>2
    <3>2. to[k] = at[k] /\ to[k + 1] = at[k + 1] /\ at[k + 1] = at[k] + Len(ss[k])
          /\ at[k] \in 1..(Len(r) + 1) /\ at[k + 1] \in 1..(Len(r) + 1)
      BY <1>6, <1>7, <3>1
    <3>3. ASSUME NEW j \in 1..Len(ss[k]) PROVE all[to[k] + j - 1] = ss[k][j]
      <4>1. at[k] + j - 1 \in 1..Len(r)
        <5>1. PICK l \in Nat : l = Len(ss[k])
          BY <1>3, <3>1
        <5>2. PICK a, b : a = at[k] /\ b = at[k + 1]
          OBVIOUS
        <5>3. b = a + l /\ a \in 1..(Len(r) + 1) /\ b \in 1..(Len(r) + 1) /\ j \in 1..l
          BY <3>2, <5>1, <5>2
        <5>4. a + j - 1 \in 1..Len(r)
          BY <1>1, <5>3
        <5> QED BY <5>2, <5>4
      <4>2. all[at[k] + j - 1] = r[at[k] + j - 1]
        BY <1>4, <4>1 DEF Concatenates
      <4> QED BY <1>6, <3>1, <3>2, <4>2
    <3> QED BY <3>2, <3>3
  <2> QED BY <2>1, <2>2
<1>9. to[1] = 1 /\ to[d + 1 + 1] = Len(all) + 1
  BY <1>6, <1>7
<1>10. LaidOut(ss, d + 1, all, to)
  BY <1>7, <1>8, <1>9 DEF LaidOut
<1> QED BY <1>10 DEF all, one

\* What FlattenSeq computes, for the first sequences.
Flat(ss, n, f) ==
  f = [i \in 1..n |-> IF i = 1 THEN ss[i] ELSE f[i - 1] \o ss[i]]

LEMMA FlatExists ==
  ASSUME NEW ss, NEW n \in Nat
  PROVE  \E f : Flat(ss, n, f)
<1> DEFINE D == {d \in 0..n : ~\E f : Flat(ss, d, f)}
<1> SUFFICES ASSUME D # {} PROVE FALSE
  OBVIOUS
<1>1. PICK d \in D : \A e \in D : d <= e
  <2>1. D \subseteq Nat
    OBVIOUS
  <2> HIDE DEF D
  <2> QED BY <2>1, Least
<1>2. d \in 0..n /\ ~\E f : Flat(ss, d, f)
  OBVIOUS
<1>3. CASE d = 0
  <2> DEFINE g == [i \in 1..0 |-> IF i = 1 THEN ss[i] ELSE ss[i]]
  <2>1. g = [i \in 1..0 |-> IF i = 1 THEN ss[i] ELSE g[i - 1] \o ss[i]]
    OBVIOUS
  <2>2. Flat(ss, 0, g)
    BY <2>1 DEF Flat
  <2> QED BY <1>2, <1>3, <2>2
<1>4. CASE d # 0
  <2>1. d - 1 \in 0..n /\ ~(d <= d - 1)
    BY <1>2, <1>4
  <2>2. PICK f : Flat(ss, d - 1, f)
    BY <1>1, <2>1
  <2> DEFINE last == IF d = 1 THEN ss[d] ELSE f[d - 1] \o ss[d]
             g == [i \in 1..d |-> IF i = d THEN last ELSE f[i]]
  <2>3. \A i \in 1..(d - 1) : f[i] = IF i = 1 THEN ss[i] ELSE f[i - 1] \o ss[i]
    BY <2>2, Zenon DEF Flat
  <2> HIDE DEF last
  <2>4. DOMAIN g = 1..d /\ g = [i \in 1..d |-> g[i]]
    OBVIOUS
  <2>5. g[d] = last /\ \A i \in 1..(d - 1) : g[i] = f[i]
    BY <1>2, <1>4
  <2> HIDE DEF g
  <2>6. ASSUME NEW i \in 1..d
        PROVE  g[i] = IF i = 1 THEN ss[i] ELSE g[i - 1] \o ss[i]
    <3>1. i # 1 => i - 1 \in 1..(d - 1)
      BY <1>2
    <3>2. i = d \/ i \in 1..(d - 1)
      BY <1>2
    <3>3. i # 1 => g[i - 1] = f[i - 1]
      BY <2>5, <3>1
    <3> QED BY <2>3, <2>5, <3>2, <3>3, Zenon DEF last
  <2>7. Flat(ss, d, g)
    BY <2>4, <2>6, Zenon DEF Flat
  <2> QED BY <1>2, <2>7
<1> QED BY <1>3, <1>4

\* FlattenSeq lays out its sequences one after the other.
LEMMA Flattens ==
  ASSUME NEW T, NEW ss \in Seq(Seq(T))
  PROVE  /\ Parameters!FlattenSeq(ss) \in Seq(T)
         /\ \E at : LaidOut(ss, Len(ss), Parameters!FlattenSeq(ss), at)
<1> DEFINE n == Len(ss)
           r == Parameters!FlattenSeq(ss)
<1>1. n \in Nat /\ \A k \in 1..n : ss[k] \in Seq(T)
  OBVIOUS
<1>2. CASE n = 0
  <2>1. r = <<>>
    <3>1. r = ss
      BY <1>2 DEF Parameters!FlattenSeq
    <3> QED BY <1>2, <3>1
  <2> HIDE DEF r
  <2> DEFINE at == [k \in 1..1 |-> 1]
  <2>2. Len(r) = 0 /\ r \in Seq(T)
    BY <2>1
  <2>3. LaidOut(ss, 0, r, at)
    BY <2>2 DEF LaidOut
  <2> QED BY <1>2, <2>2, <2>3 DEF r
<1>3. CASE n # 0
  <2> DEFINE f == CHOOSE g : g = [i \in 1..n |-> IF i = 1 THEN ss[i] ELSE g[i - 1] \o ss[i]]
  <2>1. r = f[n]
    BY <1>3, Zenon DEF Parameters!FlattenSeq
  <2>2. f = [i \in 1..n |-> IF i = 1 THEN ss[i] ELSE f[i - 1] \o ss[i]]
    BY <1>1, FlatExists, Zenon DEF Flat
  <2> HIDE DEF f, r
  <2>3. \A i \in 1..n : f[i] = IF i = 1 THEN ss[i] ELSE f[i - 1] \o ss[i]
    BY <2>2, Zenon
  <2> HIDE DEF n
  <2> DEFINE D == {d \in 1..n : ~(f[d] \in Seq(T) /\ \E at : LaidOut(ss, d, f[d], at))}
  <2>4. D = {}
    <3> SUFFICES ASSUME D # {} PROVE FALSE
      OBVIOUS
    <3>1. PICK d \in D : \A e \in D : d <= e
      <4>1. D \subseteq Nat
        BY <1>1
      <4> HIDE DEF D
      <4> QED BY <4>1, Least
    <3>2. d \in 1..n /\ ~(f[d] \in Seq(T) /\ \E at : LaidOut(ss, d, f[d], at))
      OBVIOUS
    <3>3. CASE d = 1
      <4>1. f[1] = ss[1] /\ ss[1] \in Seq(T)
        BY <1>1, <2>3, <3>2, <3>3
      <4>2. PICK one : one = ss[1]
        OBVIOUS
      <4> DEFINE at == [k \in 1..2 |-> IF k = 1 THEN 1 ELSE Len(one) + 1]
      <4>3. one \in Seq(T) /\ Len(one) \in Nat
        BY <4>1, <4>2
      <4>4. LaidOut(ss, 1, one, at)
        BY <4>2, <4>3 DEF LaidOut
      <4> QED BY <3>2, <3>3, <4>1, <4>2, <4>4
    <3>4. CASE d # 1
      <4>1. d - 1 \in 1..n /\ ~(d <= d - 1) /\ d - 1 \in Nat /\ d - 1 < n /\ d - 1 + 1 = d
        BY <1>1, <3>2, <3>4
      <4>2. f[d - 1] \in Seq(T) /\ \E at : LaidOut(ss, d - 1, f[d - 1], at)
        BY <3>1, <4>1
      <4>3. f[d] = f[d - 1] \o ss[d] /\ ss[d] \in Seq(T)
        BY <1>1, <2>3, <3>2, <3>4, Zenon
      <4>4. \E at : LaidOut(ss, (d - 1) + 1, f[d - 1] \o ss[(d - 1) + 1], at)
        BY <4>1, <4>2, LaysOutOneMore DEF n
      <4>5. f[d] \in Seq(T)
        BY <4>2, <4>3
      <4> QED BY <3>2, <4>1, <4>3, <4>4, <4>5
    <3> QED BY <3>3, <3>4
  <2>5. n \in 1..n
    BY <1>1, <1>3 DEF n
  <2> QED BY <2>1, <2>4, <2>5 DEF n, r
<1> QED BY <1>2, <1>3

\* The characters of parameter files that Bazel writes.
Letters == Chars \cup {Parameters!Single, Parameters!Escape, Parameters!Newline}

\* The argument that needs no quotes.
Plain(arg) == Len(arg) # 0 /\ \A k \in 1..Len(arg) : arg[k] \notin Parameters!Unsafe

\* The argument between quotes: the text for its k-th character begins at at[k].
Encloses(arg, q, at) ==
  /\ at \in [1..(Len(arg) + 1) -> 2..Len(q)]
  /\ at[1] = 2 /\ at[Len(arg) + 1] = Len(q)
  /\ q[1] = Parameters!Single /\ q[Len(q)] = Parameters!Single
  /\ \A k \in 1..Len(arg) :
       /\ arg[k] # Parameters!Single => at[k + 1] = at[k] + 1 /\ q[at[k]] = arg[k]
       /\ arg[k] = Parameters!Single =>
            /\ at[k + 1] = at[k] + 4
            /\ q[at[k]] = Parameters!Single /\ q[at[k] + 1] = Parameters!Escape
            /\ q[at[k] + 2] = Parameters!Single /\ q[at[k] + 3] = Parameters!Single

\* The body of a text between two characters.
LEMMA Between ==
  ASSUME NEW T, NEW c \in T, NEW b \in Seq(T)
  PROVE  /\ (<<c>> \o b) \o <<c>> \in Seq(T)
         /\ Len((<<c>> \o b) \o <<c>>) = Len(b) + 2
         /\ ((<<c>> \o b) \o <<c>>)[1] = c
         /\ ((<<c>> \o b) \o <<c>>)[Len(b) + 2] = c
         /\ \A j \in 1..Len(b) : ((<<c>> \o b) \o <<c>>)[j + 1] = b[j]
<1>1. PICK o : o = <<c>>
  OBVIOUS
<1>2. o \in Seq(T) /\ Len(o) = 1 /\ o[1] = c /\ Len(b) \in Nat
  BY <1>1
<1>3. PICK p : p = o \o b
  OBVIOUS
<1>4. p \in Seq(T) /\ Concatenates(o, b, p)
  BY <1>2, <1>3, Concatenated
<1>5. Len(p) = Len(b) + 1 /\ p[1] = c /\ \A j \in 1..Len(b) : p[1 + j] = b[j]
  BY <1>2, <1>4 DEF Concatenates
<1>6. PICK r : r = p \o o
  OBVIOUS
<1>7. r \in Seq(T) /\ Concatenates(p, o, r)
  BY <1>2, <1>4, <1>6, Concatenated
<1>8. Len(r) = Len(b) + 2 /\ r[1] = c /\ r[Len(b) + 2] = c
  <2>1. Len(r) = Len(p) + 1 /\ r[1] = p[1] /\ r[Len(p) + 1] = o[1]
    BY <1>2, <1>5, <1>7 DEF Concatenates
  <2> QED BY <1>2, <1>5, <2>1
<1>9. ASSUME NEW j \in 1..Len(b) PROVE r[j + 1] = b[j]
  <2>1. r[j + 1] = p[j + 1]
    BY <1>2, <1>5, <1>7 DEF Concatenates
  <2> QED BY <1>2, <1>5, <2>1
<1>10. r = (<<c>> \o b) \o <<c>>
  BY <1>1, <1>3, <1>6
<1> QED BY <1>7, <1>8, <1>9, <1>10

\* What Bazel writes for an argument.
LEMMA QuotedIs ==
  ASSUME NEW arg \in Seq(Chars)
  PROVE  /\ Parameters!Quoted(arg) \in Seq(Letters)
         /\ \/ Plain(arg) /\ Parameters!Quoted(arg) = arg
            \/ \E at : Encloses(arg, Parameters!Quoted(arg), at)
<1> DEFINE n == Len(arg)
           Bare == arg # <<>> /\ Parameters!ToSet(arg) \cap Parameters!Unsafe = {}
<1>1. n \in Nat /\ DOMAIN arg = 1..n /\ \A k \in 1..n : arg[k] \in Chars
  OBVIOUS
<1>2. CASE Bare
  <2>1. Parameters!Quoted(arg) = arg
    BY <1>2, Zenon DEF Parameters!Quoted
  <2>2. \A k \in 1..n : arg[k] \notin Parameters!Unsafe
    BY <1>1, <1>2 DEF Parameters!ToSet
  <2>3. n # 0
    BY <1>2
  <2>4. arg \in Seq(Letters)
    BY DEF Letters
  <2> QED BY <2>1, <2>2, <2>3, <2>4 DEF Plain
<1>3. CASE ~Bare
  <2>1. PICK sg, es : sg = Parameters!Single /\ es = Parameters!Escape
    OBVIOUS
  <2>2. sg \in Letters /\ es \in Letters /\ \A k \in 1..n : arg[k] \in Letters
    BY <1>1, <2>1 DEF Letters
  <2> DEFINE pieces == [i \in DOMAIN arg |-> IF arg[i] = sg THEN <<sg, es, sg, sg>>
                                             ELSE <<arg[i]>>]
             body == Parameters!FlattenSeq(pieces)
             q == (<<sg>> \o body) \o <<sg>>
  <2>3. Parameters!Quoted(arg) = q
    BY <1>3, <2>1, Zenon DEF Parameters!Quoted
  <2>4. \A k \in 1..n :
          /\ arg[k] = sg => pieces[k] = <<sg, es, sg, sg>>
          /\ arg[k] # sg => pieces[k] = <<arg[k]>>
    BY <1>1
  <2>5. pieces \in Seq(Seq(Letters)) /\ Len(pieces) = n
    <3>1. \A k \in 1..n : pieces[k] \in Seq(Letters)
      BY <2>2, <2>4
    <3>2. DOMAIN pieces = 1..n /\ pieces = [k \in 1..n |-> pieces[k]]
      BY <1>1
    <3> HIDE DEF pieces
    <3> QED BY <1>1, <3>1, <3>2
  <2> HIDE DEF pieces
  <2>6. body \in Seq(Letters) /\ \E to : LaidOut(pieces, n, body, to)
    BY <2>5, Flattens
  <2>7. PICK to : LaidOut(pieces, n, body, to)
    BY <2>6
  <2> HIDE DEF body
  <2>8. /\ q \in Seq(Letters) /\ Len(q) = Len(body) + 2 /\ q[1] = sg /\ q[Len(body) + 2] = sg
        /\ \A j \in 1..Len(body) : q[j + 1] = body[j]
    BY <2>2, <2>6, Between
  <2> HIDE DEF q
  <2> DEFINE at == [k \in 1..(n + 1) |-> to[k] + 1]
  <2>9. Len(body) \in Nat /\ to \in [1..(n + 1) -> 1..(Len(body) + 1)] /\ to[1] = 1
        /\ to[n + 1] = Len(body) + 1
    BY <2>6, <2>7 DEF LaidOut
  <2>10. /\ at \in [1..(n + 1) -> 2..Len(q)] /\ at[1] = 2 /\ at[n + 1] = Len(q)
         /\ \A k \in 1..(n + 1) : at[k] = to[k] + 1
    BY <1>1, <2>8, <2>9
  <2> HIDE DEF at
  <2>11. ASSUME NEW k \in 1..n, NEW p \in Seq(Letters), p = pieces[k]
         PROVE  /\ at[k + 1] = at[k] + Len(p)
                /\ \A j \in 1..Len(p) : q[at[k] + (j - 1)] = p[j]
    <3>1. PICK a, b : a = to[k] /\ b = to[k + 1]
      OBVIOUS
    <3>2. k \in 1..(n + 1) /\ k + 1 \in 1..(n + 1)
      BY <1>1
    <3>3. at[k] = a + 1 /\ at[k + 1] = b + 1
      BY <2>10, <3>1, <3>2
    <3>4. a \in 1..(Len(body) + 1) /\ b \in 1..(Len(body) + 1)
      BY <2>9, <3>1, <3>2
    <3>5. b = a + Len(p) /\ \A j \in 1..Len(p) : body[a + j - 1] = p[j]
      BY <2>7, <2>11, <3>1 DEF LaidOut
    <3>6. ASSUME NEW j \in 1..Len(p) PROVE q[at[k] + (j - 1)] = p[j]
      <4>1. a + j - 1 \in 1..Len(body) /\ at[k] + (j - 1) = (a + j - 1) + 1
        BY <2>9, <3>3, <3>4, <3>5
      <4> QED BY <2>8, <3>5, <4>1
    <3> QED BY <2>9, <3>3, <3>4, <3>5, <3>6
  <2>12. ASSUME NEW k \in 1..n, arg[k] # sg
         PROVE  at[k + 1] = at[k] + 1 /\ q[at[k]] = arg[k]
    <3>1. PICK c : c = arg[k]
      OBVIOUS
    <3>2. PICK p : p = <<c>>
      OBVIOUS
    <3>3. Len(p) = 1 /\ p[1] = c /\ p \in Seq(Letters)
      BY <2>2, <3>1, <3>2
    <3>4. p = pieces[k]
      BY <2>4, <2>12, <3>1, <3>2
    <3>5. at[k + 1] = at[k] + Len(p) /\ \A j \in 1..Len(p) : q[at[k] + (j - 1)] = p[j]
      BY <2>11, <3>3, <3>4, Zenon
    <3>6. at[k] \in Nat
      BY <1>1, <2>9, <2>10
    <3> QED BY <3>1, <3>3, <3>5, <3>6
  <2>13. ASSUME NEW k \in 1..n, arg[k] = sg
         PROVE  /\ at[k + 1] = at[k] + 4 /\ q[at[k]] = sg /\ q[at[k] + 1] = es
                /\ q[at[k] + 2] = sg /\ q[at[k] + 3] = sg
    <3>1. PICK p : p = <<sg, es, sg, sg>>
      OBVIOUS
    <3>2. Len(p) = 4 /\ p[1] = sg /\ p[2] = es /\ p[3] = sg /\ p[4] = sg
          /\ p \in Seq(Letters)
      BY <2>2, <3>1
    <3>3. p = pieces[k]
      BY <2>4, <2>13, <3>1
    <3>4. at[k + 1] = at[k] + Len(p) /\ \A j \in 1..Len(p) : q[at[k] + (j - 1)] = p[j]
      BY <2>11, <3>2, <3>3, Zenon
    <3>5. /\ q[at[k] + (1 - 1)] = sg /\ q[at[k] + (2 - 1)] = es
          /\ q[at[k] + (3 - 1)] = sg /\ q[at[k] + (4 - 1)] = sg
      BY <3>2, <3>4
    <3>6. at[k] \in Nat
      BY <1>1, <2>9, <2>10
    <3> QED BY <3>2, <3>4, <3>5, <3>6
  <2>14. Encloses(arg, q, at)
    BY <2>1, <2>8, <2>9, <2>10, <2>12, <2>13 DEF Encloses
  <2> QED BY <2>3, <2>8, <2>14
<1> QED BY <1>2, <1>3

\* A blank between the quotes is a blank of the argument.
LEMMA BlankIsOwn ==
  ASSUME NEW arg \in Seq(Chars), NEW q \in Seq(Letters), NEW at, Encloses(arg, q, at),
         NEW p \in 1..Len(q), q[p] \in Parameters!Spaces
  PROVE  \E k \in 1..Len(arg) : at[k] = p /\ arg[k] = q[p]
<1> DEFINE n == Len(arg)
           D == {k \in 1..n : at[k] <= p}
<1>1. n \in Nat /\ Len(q) \in Nat
  OBVIOUS
<1>2. /\ at \in [1..(n + 1) -> 2..Len(q)] /\ at[1] = 2 /\ at[n + 1] = Len(q)
      /\ q[1] = Parameters!Single /\ q[Len(q)] = Parameters!Single
  BY DEF Encloses
<1>3. Parameters!Single \notin Parameters!Spaces /\ Parameters!Escape \notin Parameters!Spaces
  BY Tokens DEF Quotes
<1>4. p # 1 /\ p # Len(q)
  BY <1>2, <1>3
<1>5. 1 \in D
  <2>1. n # 0
    BY <1>1, <1>2, <1>4
  <2> QED BY <1>1, <1>2, <1>4, <2>1
<1>6. PICK m \in D : \A k \in D : k <= m
  <2>1. D \subseteq 1..n /\ D # {}
    BY <1>5
  <2> HIDE DEF D
  <2> QED BY <1>1, <2>1, Greatest
<1>7. m \in 1..n /\ at[m] <= p /\ at[m] \in Nat /\ at[m + 1] \in Nat
  BY <1>1, <1>2
<1>8. p < at[m + 1]
  <2>1. CASE m = n
    BY <1>1, <1>2, <1>4, <2>1
  <2>2. CASE m # n
    <3>1. m + 1 \in 1..n /\ ~(m + 1 <= m)
      BY <1>1, <1>7, <2>2
    <3>2. m + 1 \notin D
      BY <1>6, <3>1
    <3> QED BY <1>1, <1>7, <3>1, <3>2
  <2> QED BY <2>1, <2>2
<1>9. CASE arg[m] # Parameters!Single
  <2>1. at[m + 1] = at[m] + 1 /\ q[at[m]] = arg[m]
    BY <1>7, <1>9 DEF Encloses
  <2>2. at[m] = p
    BY <1>7, <1>8, <2>1
  <2> QED BY <1>7, <2>1, <2>2
<1>10. CASE arg[m] = Parameters!Single
  <2>1. /\ at[m + 1] = at[m] + 4
        /\ q[at[m]] = Parameters!Single /\ q[at[m] + 1] = Parameters!Escape
        /\ q[at[m] + 2] = Parameters!Single /\ q[at[m] + 3] = Parameters!Single
    BY <1>7, <1>10 DEF Encloses
  <2>2. p \in {at[m], at[m] + 1, at[m] + 2, at[m] + 3}
    <3>1. PICK x : x = at[m]
      OBVIOUS
    <3>2. x \in Nat /\ x <= p /\ p < x + 4
      BY <1>7, <1>8, <2>1, <3>1
    <3>3. p \in {x, x + 1, x + 2, x + 3}
      BY <1>1, <3>2
    <3> QED BY <3>1, <3>3
  <2> QED BY <1>3, <2>1, <2>2
<1> QED BY <1>9, <1>10

\* Up to position i, where the decoder is inside the quote q, the word w stands for
\* the first k - 1 characters of the argument.
Walked(arg, w, k, i, q) ==
  Parameters!Values(w)
    = Parameters!Prefix(SubSeq(arg, 1, k - 1), Remaining(w, i, q, FALSE))

\* Before the first character.
LEMMA WalkBegins ==
  ASSUME NEW S, NEW arg \in Seq(S), NEW w \in Seq(S), Len(w) # 0
  PROVE  Walked(arg, w, 1, 1, Outside)
<1>1. Parameters!Values(w) = Parameters!Words(w)[1]
  <2>1. Len(<<>>) = 0
    OBVIOUS
  <2>2. w # <<>>
    BY <2>1, Zenon
  <2> QED BY <2>2, Zenon DEF Parameters!Values
<1>2. Remaining(w, 1, Outside, FALSE) = Parameters!Words(w)[1]
  BY Zenon DEF Remaining
<1>3. Parameters!Words(w)[1] \subseteq Seq(S)
  <2>1. 1 \in 1..(Len(w) + 1)
    OBVIOUS
  <2> QED BY <2>1, WordsIs
<1>4. SubSeq(arg, 1, 1 - 1) = <<>>
  OBVIOUS
<1>5. Parameters!Prefix(<<>>, Parameters!Words(w)[1]) = Parameters!Words(w)[1]
  BY <1>3, PrefixNothing
<1> QED BY <1>1, <1>2, <1>4, <1>5, Zenon DEF Walked

\* Nothing is written for what is between i and j.
LEMMA WalkMoves ==
  ASSUME NEW S, NEW arg, NEW w \in Seq(S), NEW k, NEW i, NEW j \in 1..(Len(w) + 1),
         NEW q, NEW r, Walked(arg, w, k, i, q),
         Remaining(w, i, q, FALSE) = Parameters!Prefix(<<>>, Remaining(w, j, r, FALSE))
  PROVE  Walked(arg, w, k, j, r)
<1>1. Remaining(w, j, r, FALSE) \subseteq Seq(S)
  BY RemainingTyped
<1>2. Parameters!Prefix(<<>>, Remaining(w, j, r, FALSE)) = Remaining(w, j, r, FALSE)
  BY <1>1, PrefixNothing
<1> QED BY <1>2, Zenon DEF Walked

\* One character is.
LEMMA WalkWrites ==
  ASSUME NEW S, NEW arg \in Seq(S), NEW w \in Seq(S), NEW k \in 1..Len(arg), NEW i,
         NEW j \in 1..(Len(w) + 1), NEW q, NEW r, Walked(arg, w, k, i, q),
         Remaining(w, i, q, FALSE) = Parameters!Prefix(<<arg[k]>>, Remaining(w, j, r, FALSE))
  PROVE  Walked(arg, w, k + 1, j, r)
<1> DEFINE V == Remaining(w, j, r, FALSE)
           a == SubSeq(arg, 1, k - 1)
           o == <<arg[k]>>
<1>1. V \subseteq Seq(S)
  BY RemainingTyped
<1>2. a \in Seq(S) /\ Len(a) = k - 1 /\ \A m \in 1..(k - 1) : a[m] = arg[m]
  <2>1. k - 1 \in 0..Len(arg) /\ \A m \in 1..(k - 1) : arg[m] \in S
    OBVIOUS
  <2> QED BY <2>1
<1>3. o \in Seq(S) /\ Len(o) = 1 /\ o[1] = arg[k]
  OBVIOUS
<1> HIDE DEF a, o, V
<1>4. a \o o = SubSeq(arg, 1, k)
  <2>1. PICK b : b = SubSeq(arg, 1, k)
    OBVIOUS
  <2>2. b \in Seq(S) /\ Len(b) = k /\ \A m \in 1..k : b[m] = arg[m]
    <3>1. \A m \in 1..k : arg[m] \in S
      OBVIOUS
    <3> QED BY <2>1, <3>1
  <2>3. PICK c : c = a \o o
    OBVIOUS
  <2>4. c \in Seq(S) /\ Concatenates(a, o, c)
    BY <1>2, <1>3, <2>3, Concatenated
  <2>5. Len(c) = k /\ c[k] = arg[k] /\ \A m \in 1..(k - 1) : c[m] = arg[m]
    <3>1. k - 1 + 1 = k
      OBVIOUS
    <3> QED BY <1>2, <1>3, <2>4, <3>1 DEF Concatenates
  <2>6. ASSUME NEW m \in 1..k PROVE c[m] = b[m]
    <3>1. m = k \/ m \in 1..(k - 1)
      OBVIOUS
    <3> QED BY <2>2, <2>5, <3>1
  <2>7. c = b
    BY <2>2, <2>4, <2>5, <2>6
  <2> QED BY <2>1, <2>3, <2>7
<1>5. Parameters!Values(w) = Parameters!Prefix(a, Parameters!Prefix(o, V))
  BY Zenon DEF Walked, a, o, V
<1>6. Parameters!Values(w) = Parameters!Prefix(a \o o, V)
  <2>1. Parameters!Prefix(a, Parameters!Prefix(o, V)) = Parameters!Prefix(a \o o, V)
    BY <1>1, <1>2, <1>3, PrefixTwice
  <2> QED BY <1>5, <2>1, Zenon
<1>7. (k + 1) - 1 = k
  OBVIOUS
<1>8. SubSeq(arg, 1, (k + 1) - 1) = a \o o
  BY <1>4, <1>7, Zenon
<1> QED BY <1>6, <1>8, Zenon DEF Walked, V

\* The text for one character of a quoted argument.
LEMMA WalkSteps ==
  ASSUME NEW arg \in Seq(Chars), NEW q \in Seq(Letters), NEW at, Encloses(arg, q, at),
         NEW w \in Seq(Letters), Len(w) <= Len(q), \A p \in 1..Len(w) : w[p] = q[p],
         NEW k \in 1..Len(arg), at[k + 1] <= Len(w) + 1,
         Walked(arg, w, k, at[k], Parameters!Single)
  PROVE  Walked(arg, w, k + 1, at[k + 1], Parameters!Single)
<1> DEFINE n == Len(arg)
<1>1. n \in Nat /\ Len(w) \in Nat /\ Len(q) \in Nat /\ arg \in Seq(Letters)
  BY DEF Letters
<1>2. PICK i : i = at[k]
  OBVIOUS
<1>3. PICK j : j = at[k + 1]
  OBVIOUS
<1>4. i \in 2..Len(q) /\ j \in 2..Len(q) /\ j <= Len(w) + 1
  <2>1. k \in 1..(n + 1) /\ k + 1 \in 1..(n + 1)
    BY <1>1
  <2> QED BY <1>2, <1>3, <2>1 DEF Encloses
<1>5. PICK sg : sg = Parameters!Single
  OBVIOUS
<1>6. sg \in Quotes /\ sg # Outside /\ sg # Parameters!Double /\ sg # Parameters!Escape
  BY <1>5, Tokens DEF Quotes
<1>7. CASE arg[k] # sg
  <2>1. j = i + 1 /\ q[i] = arg[k]
    BY <1>2, <1>3, <1>5, <1>7 DEF Encloses
  <2>2. i \in 1..Len(w) /\ w[i] = arg[k] /\ w[i] # sg
    BY <1>1, <1>4, <1>7, <2>1
  <2>3. Unfolds(w, i, sg, FALSE)
    BY <1>6, <2>2, RemainingSteps
  <2>4. Remaining(w, i, sg, FALSE)
          = Parameters!Prefix(<<w[i]>>, Remaining(w, i + 1, sg, FALSE))
    BY <1>6, <2>2, <2>3, Zenon DEF Unfolds
  <2>5. i + 1 \in 1..(Len(w) + 1)
    BY <1>1, <2>2
  <2>6. Walked(arg, w, k, i, sg)
    BY <1>2, <1>5, Zenon
  <2>7. Walked(arg, w, k + 1, i + 1, sg)
    <3>1. Remaining(w, i, sg, FALSE)
            = Parameters!Prefix(<<arg[k]>>, Remaining(w, i + 1, sg, FALSE))
      BY <2>2, <2>4, Zenon
    <3> QED BY <1>1, <2>5, <2>6, <3>1, WalkWrites
  <2> QED BY <1>3, <1>5, <2>1, <2>7, Zenon
<1>8. CASE arg[k] = sg
  <2>1. /\ j = i + 4 /\ q[i] = sg /\ q[i + 1] = Parameters!Escape
        /\ q[i + 2] = sg /\ q[i + 3] = sg
    BY <1>2, <1>3, <1>5, <1>8 DEF Encloses
  <2>2. /\ i \in 1..Len(w) /\ i + 1 \in 1..Len(w) /\ i + 2 \in 1..Len(w) /\ i + 3 \in 1..Len(w)
        /\ i + 1 + 2 = i + 3 /\ i + 1 + 1 = i + 2 /\ i + 3 + 1 = i + 4 /\ i + 1 < Len(w)
        /\ i + 4 \in 1..(Len(w) + 1)
    <3>1. PICK m \in Nat : m = Len(w)
      BY <1>1
    <3>2. i \in Nat /\ i >= 2 /\ i + 4 <= m + 1
      BY <1>4, <2>1, <3>1
    <3>3. i + 3 <= m
      BY <3>2
    <3>4. /\ i \in 1..m /\ i + 1 \in 1..m /\ i + 2 \in 1..m /\ i + 3 \in 1..m
          /\ i + 1 < m /\ i + 4 \in 1..(m + 1)
      BY <3>2, <3>3
    <3> QED BY <3>1, <3>2, <3>4
  <2>3. w[i] = sg /\ w[i + 1] = Parameters!Escape /\ w[i + 2] = sg /\ w[i + 3] = sg
    BY <2>1, <2>2
  <2>4. Walked(arg, w, k, i, sg)
    BY <1>2, <1>5, Zenon
  <2>5. Walked(arg, w, k, i + 1, Outside)
    <3>1. Unfolds(w, i, sg, FALSE)
      BY <1>6, <2>2, RemainingSteps
    <3>2. Remaining(w, i, sg, FALSE)
            = Parameters!Prefix(<<>>, Remaining(w, i + 1, Outside, FALSE))
      BY <1>6, <2>3, <3>1, Zenon DEF Unfolds
    <3>3. i + 1 \in 1..(Len(w) + 1)
      BY <1>1, <2>2
    <3> QED BY <2>4, <3>2, <3>3, WalkMoves
  <2>6. Walked(arg, w, k + 1, i + 3, Outside)
    <3>1. Unfolds(w, i + 1, Outside, FALSE)
      BY <2>2, RemainingSteps
    <3>2. Outside # sg
      BY <1>6
    <3>3. Remaining(w, i + 1, Outside, FALSE)
            = Parameters!Prefix(<<w[i + 1 + 1]>>, Remaining(w, i + 1 + 2, Outside, FALSE))
      BY <1>5, <2>2, <2>3, <3>1, <3>2, Zenon DEF Unfolds
    <3>4. Remaining(w, i + 1, Outside, FALSE)
            = Parameters!Prefix(<<arg[k]>>, Remaining(w, i + 3, Outside, FALSE))
      BY <1>8, <2>2, <2>3, <3>3, Zenon
    <3>5. i + 3 \in 1..(Len(w) + 1)
      BY <1>1, <2>2
    <3> QED BY <1>1, <2>5, <3>4, <3>5, WalkWrites
  <2>7. Walked(arg, w, k + 1, i + 4, sg)
    <3>1. Unfolds(w, i + 3, Outside, FALSE)
      BY <2>2, RemainingSteps
    <3>2. Remaining(w, i + 3, Outside, FALSE)
            = Parameters!Prefix(<<>>, Remaining(w, i + 3 + 1, w[i + 3], FALSE))
      BY <1>6, <2>3, <3>1, Zenon DEF Unfolds
    <3>3. Remaining(w, i + 3, Outside, FALSE)
            = Parameters!Prefix(<<>>, Remaining(w, i + 4, sg, FALSE))
      BY <2>2, <2>3, <3>2, Zenon
    <3> QED BY <2>2, <2>6, <3>3, WalkMoves
  <2> QED BY <1>3, <1>5, <2>1, <2>7, Zenon
<1> QED BY <1>7, <1>8

\* The text for all characters that are in the word.
LEMMA Walks ==
  ASSUME NEW arg \in Seq(Chars), NEW q \in Seq(Letters), NEW at, Encloses(arg, q, at),
         NEW w \in Seq(Letters), Len(w) \in 1..Len(q), \A p \in 1..Len(w) : w[p] = q[p],
         NEW k \in 1..(Len(arg) + 1), at[k] <= Len(w) + 1
  PROVE  Walked(arg, w, k, at[k], Parameters!Single)
<1> DEFINE n == Len(arg)
           D == {m \in 1..(n + 1) : /\ at[m] <= Len(w) + 1
                                    /\ ~Walked(arg, w, m, at[m], Parameters!Single)}
<1> SUFFICES ASSUME D # {} PROVE FALSE
  OBVIOUS
<1>1. n \in Nat /\ Len(w) \in Nat /\ Len(q) \in Nat /\ arg \in Seq(Letters)
  BY DEF Letters
<1>2. PICK m \in D : \A d \in D : m <= d
  <2>1. D \subseteq Nat
    BY <1>1
  <2> HIDE DEF D
  <2> QED BY <2>1, Least
<1>3. /\ m \in 1..(n + 1) /\ at[m] <= Len(w) + 1
      /\ ~Walked(arg, w, m, at[m], Parameters!Single)
  OBVIOUS
<1>4. CASE m = 1
  <2>1. at[1] = 2 /\ q[1] = Parameters!Single
    BY DEF Encloses
  <2>2. 1 \in 1..Len(w) /\ w[1] = Parameters!Single /\ 2 \in 1..(Len(w) + 1) /\ 1 + 1 = 2
    BY <1>1, <2>1
  <2>3. Walked(arg, w, 1, 1, Outside)
    BY <1>1, <2>2, WalkBegins
  <2>4. Unfolds(w, 1, Outside, FALSE)
    BY <2>2, RemainingSteps
  <2>5. w[1] \in Quotes
    BY <2>2 DEF Quotes
  <2>6. Remaining(w, 1, Outside, FALSE)
          = Parameters!Prefix(<<>>, Remaining(w, 1 + 1, w[1], FALSE))
    BY <2>4, <2>5, Zenon DEF Unfolds
  <2>7. Remaining(w, 1, Outside, FALSE)
          = Parameters!Prefix(<<>>, Remaining(w, 2, Parameters!Single, FALSE))
    BY <2>2, <2>6, Zenon
  <2>8. Walked(arg, w, 1, 2, Parameters!Single)
    BY <2>2, <2>3, <2>7, WalkMoves
  <2> QED BY <1>3, <1>4, <2>1, <2>8
<1>5. CASE m # 1
  <2>1. m - 1 \in 1..n /\ m - 1 \in 1..(n + 1) /\ ~(m <= m - 1) /\ (m - 1) + 1 = m
    BY <1>1, <1>3, <1>5
  <2>2. at[m - 1] < at[m] /\ at[m - 1] \in Nat /\ at[m] \in Nat
    <3>1. /\ at \in [1..(n + 1) -> 2..Len(q)]
          /\ at[(m - 1) + 1] = at[m - 1] + 1 \/ at[(m - 1) + 1] = at[m - 1] + 4
      BY <2>1 DEF Encloses
    <3>2. at[m] = at[m - 1] + 1 \/ at[m] = at[m - 1] + 4
      BY <2>1, <3>1, Zenon
    <3>3. at[m - 1] \in 2..Len(q) /\ at[m] \in 2..Len(q)
      BY <1>3, <2>1, <3>1
    <3> QED BY <1>1, <3>2, <3>3
  <2>3. at[m - 1] <= Len(w) + 1
    BY <1>1, <1>3, <2>2
  <2>4. Walked(arg, w, m - 1, at[m - 1], Parameters!Single)
    BY <1>2, <2>1, <2>3
  <2>5. Len(w) <= Len(q) /\ at[(m - 1) + 1] <= Len(w) + 1
    BY <1>1, <1>3, <2>1
  <2>6. Walked(arg, w, (m - 1) + 1, at[(m - 1) + 1], Parameters!Single)
    BY <2>1, <2>4, <2>5, WalkSteps
  <2> QED BY <1>3, <2>1, <2>6, Zenon
<1> QED BY <1>4, <1>5

\* Nothing but the empty text, or nothing at all, behind the argument.
LEMMA PrefixLast ==
  ASSUME NEW S, NEW a \in Seq(S)
  PROVE  Parameters!Prefix(a, {<<>>}) = {a} /\ Parameters!Prefix(a, {}) = {}
<1>1. a \o <<>> = a
  OBVIOUS
<1>2. Parameters!Prefix(a, {<<>>}) = {a \o <<>>}
  BY Zenon DEF Parameters!Prefix
<1>3. Parameters!Prefix(a, {}) = {}
  BY Zenon DEF Parameters!Prefix
<1> QED BY <1>1, <1>2, <1>3, Zenon

\* Behind the last character.
LEMMA WordsEnd ==
  ASSUME NEW S, NEW w \in Seq(S)
  PROVE  Remaining(w, Len(w) + 1, Outside, FALSE) = {<<>>}
<1>1. Len(w) + 1 \in 1..(Len(w) + 1) /\ Len(w) + 1 > Len(w)
  OBVIOUS
<1>2. Parameters!Words(w)[Len(w) + 1]
        = Parameters!WordAt(w, Len(w) + 1, Parameters!Words(w))
  BY <1>1, WordsIs
<1>3. Parameters!WordAt(w, Len(w) + 1, Parameters!Words(w)) = {<<>>}
  BY <1>1, WordAtIs, Zenon
<1> QED BY <1>2, <1>3, Zenon DEF Remaining

\* The whole text of an argument stands for that argument alone.
LEMMA WholeIsArgument ==
  ASSUME NEW arg \in Seq(Chars)
  PROVE  Parameters!Values(Parameters!Quoted(arg)) = {arg}
<1> DEFINE q == Parameters!Quoted(arg)
           n == Len(arg)
<1>1. n \in Nat /\ arg \in Seq(Letters) /\ q \in Seq(Letters) /\ Len(q) \in Nat
  <2>1. q \in Seq(Letters)
    BY QuotedIs
  <2> HIDE DEF q
  <2> QED BY <2>1 DEF Letters
<1>2. SubSeq(arg, 1, (n + 1) - 1) = arg
  <2>1. PICK b : b = SubSeq(arg, 1, (n + 1) - 1)
    OBVIOUS
  <2>2. (n + 1) - 1 = n
    BY <1>1
  <2>3. b \in Seq(Chars) /\ Len(b) = n /\ \A k \in 1..n : b[k] = arg[k]
    BY <1>1, <2>1, <2>2
  <2>4. b = arg
    BY <2>3
  <2> QED BY <2>1, <2>4
<1>3. CASE Plain(arg) /\ q = arg
  <2>1. n # 0 /\ \A k \in 1..n : arg[k] \notin Parameters!Unsafe
    BY <1>3 DEF Plain
  <2> DEFINE D == {m \in 1..(n + 1) : ~Walked(arg, arg, m, m, Outside)}
  <2>2. D = {}
    <3> SUFFICES ASSUME D # {} PROVE FALSE
      OBVIOUS
    <3>1. PICK m \in D : \A d \in D : m <= d
      <4>1. D \subseteq Nat
        BY <1>1
      <4> HIDE DEF D
      <4> QED BY <4>1, Least
    <3>2. m \in 1..(n + 1) /\ ~Walked(arg, arg, m, m, Outside)
      OBVIOUS
    <3>3. CASE m = 1
      BY <1>1, <2>1, <3>2, <3>3, WalkBegins
    <3>4. CASE m # 1
      <4>1. m - 1 \in 1..n /\ m - 1 \in 1..(n + 1) /\ ~(m <= m - 1) /\ (m - 1) + 1 = m
        BY <1>1, <3>2, <3>4
      <4>2. Walked(arg, arg, m - 1, m - 1, Outside)
        BY <3>1, <4>1
      <4>3. Unfolds(arg, m - 1, Outside, FALSE)
        BY <1>1, <4>1, RemainingSteps
      <4>4. Remaining(arg, m - 1, Outside, FALSE)
              = Parameters!Prefix(<<arg[m - 1]>>, Remaining(arg, (m - 1) + 1, Outside, FALSE))
        BY <2>1, <4>1, <4>3, Zenon DEF Unfolds
      <4>5. (m - 1) + 1 \in 1..(n + 1)
        BY <3>2, <4>1
      <4>6. Walked(arg, arg, (m - 1) + 1, (m - 1) + 1, Outside)
        BY <1>1, <4>1, <4>2, <4>4, <4>5, WalkWrites
      <4> QED BY <3>2, <4>1, <4>6, Zenon
    <3> QED BY <3>3, <3>4
  <2>3. Walked(arg, arg, n + 1, n + 1, Outside)
    <3>1. n + 1 \in 1..(n + 1)
      BY <1>1
    <3> QED BY <2>2, <3>1
  <2>4. Remaining(arg, n + 1, Outside, FALSE) = {<<>>}
    BY WordsEnd
  <2>5. Parameters!Values(arg) = Parameters!Prefix(arg, {<<>>})
    BY <1>2, <2>3, <2>4, Zenon DEF Walked
  <2> QED BY <1>3, <2>5, PrefixLast, Zenon
<1>4. ASSUME NEW at, Encloses(arg, q, at) PROVE Parameters!Values(q) = {arg}
  <2> HIDE DEF q
  <2>1. /\ at[n + 1] = Len(q) /\ q[Len(q)] = Parameters!Single
        /\ n + 1 \in 1..(n + 1) /\ Len(q) \in 1..Len(q)
    BY <1>1, <1>4 DEF Encloses
  <2>2. \A p \in 1..Len(q) : q[p] = q[p]
    OBVIOUS
  <2>3. at[n + 1] <= Len(q) + 1
    BY <1>1, <2>1
  <2>4. Walked(arg, q, n + 1, at[n + 1], Parameters!Single)
    BY <1>1, <1>4, <2>1, <2>2, <2>3, Walks
  <2>5. Unfolds(q, Len(q), Parameters!Single, FALSE)
    <3>1. Parameters!Single \in {Outside} \cup Quotes
      BY DEF Quotes
    <3> QED BY <1>1, <2>1, <3>1, RemainingSteps
  <2>6. Parameters!Single # Outside
    BY Tokens DEF Quotes
  <2>7. Remaining(q, Len(q), Parameters!Single, FALSE)
          = Parameters!Prefix(<<>>, Remaining(q, Len(q) + 1, Outside, FALSE))
    BY <2>1, <2>5, <2>6, Zenon DEF Unfolds
  <2>8. Walked(arg, q, n + 1, Len(q) + 1, Outside)
    <3>1. Len(q) + 1 \in 1..(Len(q) + 1)
      BY <1>1
    <3>2. Walked(arg, q, n + 1, Len(q), Parameters!Single)
      BY <2>1, <2>4, Zenon
    <3> QED BY <1>1, <2>7, <3>1, <3>2, WalkMoves
  <2>9. Parameters!Values(q) = Parameters!Prefix(arg, {<<>>})
    <3>1. Remaining(q, Len(q) + 1, Outside, FALSE) = {<<>>}
      BY <1>1, WordsEnd
    <3> QED BY <1>2, <2>8, <3>1, Zenon DEF Walked
  <2> QED BY <2>9, PrefixLast, Zenon
<1> QED BY <1>3, <1>4, QuotedIs

\* What trim keeps of a line that begins with no blank.
LEMMA TrimKeeps ==
  ASSUME NEW S, NEW s \in Seq(S), Len(s) # 0, s[1] \notin Parameters!Spaces
  PROVE  \E m \in 1..Len(s) :
           /\ Parameters!Trim(s) = SubSeq(s, 1, m) /\ s[m] \notin Parameters!Spaces
           /\ \A x \in (m + 1)..Len(s) : s[x] \in Parameters!Spaces
<1> DEFINE inner == {i \in DOMAIN s : s[i] \notin Parameters!Spaces}
           a == CHOOSE i \in inner : \A j \in inner : i <= j
           b == CHOOSE i \in inner : \A j \in inner : j <= i
<1>1. DOMAIN s = 1..Len(s) /\ Len(s) \in Nat
  OBVIOUS
<1>2. 1 \in inner /\ inner \subseteq 1..Len(s)
  BY <1>1
<1>3. Parameters!Trim(s) = SubSeq(s, a, b)
  <2>1. inner # {}
    BY <1>2
  <2> QED BY <2>1 DEF Parameters!Trim
<1>4. \A i \in 1..Len(s) : i \in inner <=> s[i] \notin Parameters!Spaces
  BY <1>1
<1> HIDE DEF inner
<1>5. a \in inner /\ \A j \in inner : a <= j
  <2>1. \E i \in inner : \A j \in inner : i <= j
    <3>1. inner \subseteq Nat /\ inner # {}
      BY <1>1, <1>2
    <3> QED BY <3>1, Least
  <2> QED BY <2>1
<1>6. b \in inner /\ \A j \in inner : j <= b
  <2>1. \E i \in inner : \A j \in inner : j <= i
    <3>1. inner # {}
      BY <1>2
    <3> QED BY <1>1, <1>2, <3>1, Greatest
  <2> QED BY <2>1
<1> HIDE DEF a, b
<1>7. a = 1
  <2>1. a <= 1 /\ a \in 1..Len(s)
    BY <1>2, <1>5
  <2> QED BY <1>1, <2>1
<1>8. b \in 1..Len(s) /\ s[b] \notin Parameters!Spaces
  BY <1>2, <1>4, <1>6
<1>9. ASSUME NEW x \in (b + 1)..Len(s) PROVE s[x] \in Parameters!Spaces
  <2>1. x \in 1..Len(s) /\ ~(x <= b)
    BY <1>1, <1>8
  <2> QED BY <1>4, <1>6, <2>1
<1> QED BY <1>3, <1>7, <1>8, <1>9

\* The beginning of a sequence.
LEMMA Beginning ==
  ASSUME NEW S, NEW s \in Seq(S), NEW m \in 0..Len(s)
  PROVE  /\ SubSeq(s, 1, m) \in Seq(S) /\ Len(SubSeq(s, 1, m)) = m
         /\ \A p \in 1..m : SubSeq(s, 1, m)[p] = s[p]
<1>1. \A p \in 1..m : s[p] \in S
  OBVIOUS
<1> QED BY <1>1

\* All of it.
LEMMA AllOfIt ==
  ASSUME NEW S, NEW s \in Seq(S)
  PROVE  SubSeq(s, 1, Len(s)) = s
  OBVIOUS

\* Nothing is trimmed of a line that is the text for an argument.
LEMMA WholeIsTrimmed ==
  ASSUME NEW arg \in Seq(Chars)
  PROVE  Parameters!Trim(Parameters!Quoted(arg)) = Parameters!Quoted(arg)
<1> DEFINE q == Parameters!Quoted(arg)
<1>1. q \in Seq(Letters) /\ Len(q) \in Nat
  <2>1. q \in Seq(Letters)
    BY QuotedIs
  <2> HIDE DEF q
  <2> QED BY <2>1
<1>2. Len(q) # 0 /\ q[1] \notin Parameters!Spaces /\ q[Len(q)] \notin Parameters!Spaces
  <2>1. CASE Plain(arg) /\ q = arg
    BY <2>1 DEF Plain, Parameters!Unsafe
  <2>2. ASSUME NEW at, Encloses(arg, q, at)
        PROVE  Len(q) # 0 /\ q[1] \notin Parameters!Spaces /\ q[Len(q)] \notin Parameters!Spaces
    <3> HIDE DEF q
    <3>1. /\ at[1] = 2 /\ at \in [1..(Len(arg) + 1) -> 2..Len(q)]
          /\ q[1] = Parameters!Single /\ q[Len(q)] = Parameters!Single
      BY <2>2 DEF Encloses
    <3>2. 2 \in 2..Len(q)
      BY <3>1
    <3>3. Parameters!Single \notin Parameters!Spaces
      BY Tokens DEF Quotes
    <3> QED BY <1>1, <3>1, <3>2, <3>3
  <2> QED BY <2>1, <2>2, QuotedIs
<1> HIDE DEF q
<1>3. PICK m \in 1..Len(q) :
        /\ Parameters!Trim(q) = SubSeq(q, 1, m)
        /\ \A x \in (m + 1)..Len(q) : q[x] \in Parameters!Spaces
  BY <1>1, <1>2, TrimKeeps
<1>4. m = Len(q)
  <2>1. ~(Len(q) \in (m + 1)..Len(q))
    BY <1>2, <1>3
  <2> QED BY <1>1, <2>1
<1>5. SubSeq(q, 1, Len(q)) = q
  BY <1>1, AllOfIt
<1> QED BY <1>3, <1>4, <1>5 DEF q

\* The line that ends at a newline of an argument stands for nothing.
LEMMA CutIsNothing ==
  ASSUME NEW arg \in Seq(Chars), NEW l \in Seq(Letters),
         Len(l) < Len(Parameters!Quoted(arg)),
         \A p \in 1..Len(l) : l[p] = Parameters!Quoted(arg)[p],
         Parameters!Quoted(arg)[Len(l) + 1] = Parameters!Newline
  PROVE  /\ Parameters!Values(Parameters!Trim(l)) = {}
         /\ Parameters!Newline \in Parameters!ToSet(arg)
<1> DEFINE q == Parameters!Quoted(arg)
           n == Len(arg)
<1>1. /\ q \in Seq(Letters)
      /\ \/ Plain(arg) /\ q = arg
         \/ \E at : Encloses(arg, q, at)
  BY QuotedIs
<1>2. Len(l) < Len(q) /\ (\A p \in 1..Len(l) : l[p] = q[p])
      /\ q[Len(l) + 1] = Parameters!Newline
  OBVIOUS
<1> HIDE DEF q
<1>3. /\ Len(q) \in Nat /\ Len(l) \in Nat /\ n \in Nat /\ Len(l) + 1 \in 1..Len(q)
      /\ arg \in Seq(Letters) /\ DOMAIN arg = 1..n
  BY <1>1, <1>2 DEF Letters
<1>4. Parameters!Newline \in Parameters!Spaces
  BY DEF Parameters!Spaces
<1>5. PICK at : Encloses(arg, q, at)
  <2>1. ~(Plain(arg) /\ q = arg)
    BY <1>2, <1>3, <1>4 DEF Plain, Parameters!Unsafe
  <2> QED BY <1>1, <2>1
<1>6. PICK k \in 1..n : at[k] = Len(l) + 1 /\ arg[k] = Parameters!Newline
  <2>1. q[Len(l) + 1] \in Parameters!Spaces
    BY <1>2, <1>4
  <2>2. PICK p \in 1..Len(q) : p = Len(l) + 1
    BY <1>3
  <2>3. q[p] \in Parameters!Spaces
    BY <2>1, <2>2
  <2>4. \E k \in 1..n : at[k] = p /\ arg[k] = q[p]
    BY <1>1, <1>5, <2>3, BlankIsOwn
  <2> QED BY <1>2, <2>2, <2>4
<1>7. Parameters!Newline \in Parameters!ToSet(arg)
  BY <1>3, <1>6 DEF Parameters!ToSet
<1>8. Len(l) # 0 /\ l[1] \notin Parameters!Spaces
  <2>1. q[1] = Parameters!Single /\ at \in [1..(n + 1) -> 2..Len(q)]
    BY <1>5 DEF Encloses
  <2>2. k \in 1..(n + 1)
    BY <1>3
  <2>3. at[k] >= 2
    BY <1>3, <2>1, <2>2
  <2>4. Len(l) # 0 /\ 1 \in 1..Len(l)
    BY <1>3, <1>6, <2>3
  <2>5. Parameters!Single \notin Parameters!Spaces
    BY Tokens DEF Quotes
  <2> QED BY <1>2, <2>1, <2>4, <2>5
<1>9. PICK m \in 1..Len(l) :
        /\ Parameters!Trim(l) = SubSeq(l, 1, m)
        /\ \A x \in (m + 1)..Len(l) : l[x] \in Parameters!Spaces
  BY <1>8, TrimKeeps
<1>10. PICK w : w = Parameters!Trim(l)
  OBVIOUS
<1>11. /\ w \in Seq(Letters) /\ Len(w) = m /\ Len(w) \in 1..Len(q)
       /\ \A p \in 1..Len(w) : w[p] = q[p]
  <2>1. m \in 0..Len(l)
    BY <1>3
  <2>2. w \in Seq(Letters) /\ Len(w) = m /\ \A p \in 1..m : w[p] = l[p]
    BY <1>9, <1>10, <2>1, Beginning
  <2> QED BY <1>2, <1>3, <2>2
<1>12. q[m + 1] \in Parameters!Spaces /\ m + 1 \in 1..Len(q)
  <2>1. CASE m = Len(l)
    BY <1>2, <1>3, <1>4, <2>1
  <2>2. CASE m # Len(l)
    <3>1. m + 1 \in (m + 1)..Len(l) /\ m + 1 \in 1..Len(l)
      BY <1>3, <2>2
    <3> QED BY <1>2, <1>3, <1>9, <3>1
  <2> QED BY <2>1, <2>2
<1>13. PICK j \in 1..n : at[j] = m + 1
  BY <1>1, <1>5, <1>12, BlankIsOwn
<1>14. Walked(arg, w, j, at[j], Parameters!Single)
  <2>1. j \in 1..(n + 1) /\ at[j] <= Len(w) + 1
    BY <1>3, <1>11, <1>13
  <2> QED BY <1>1, <1>5, <1>11, <2>1, Walks
<1>15. Remaining(w, at[j], Parameters!Single, FALSE) = {}
  <2>1. Closing(w, Parameters!Single, m + 1, Parameters!Words(w)) = {}
    <3>1. m + 1 \in Nat /\ m + 1 > Len(w) /\ Len(w) \in Nat
      BY <1>3, <1>11
    <3> QED BY <3>1, ClosingNever
  <2>2. Parameters!Single # Outside
    BY Tokens DEF Quotes
  <2> QED BY <1>13, <2>1, <2>2, Zenon DEF Remaining
<1>16. Parameters!Values(w) = {}
  <2>1. SubSeq(arg, 1, j - 1) \in Seq(Letters)
    <3>1. j - 1 \in 0..n
      BY <1>3
    <3> QED BY <1>3, <3>1, Beginning
  <2>2. Parameters!Prefix(SubSeq(arg, 1, j - 1), {}) = {}
    BY <2>1, PrefixLast
  <2> QED BY <1>14, <1>15, <2>2, Zenon DEF Walked
<1> QED BY <1>7, <1>10, <1>16

\* The text of a parameter file: the line of the k-th argument begins at from[k].
Listed(list, t, from) ==
  /\ from \in [1..(Len(list) + 1) -> 1..(Len(t) + 1)]
  /\ from[1] = 1 /\ from[Len(list) + 1] = Len(t) + 1
  /\ \A k \in 1..Len(list) :
       /\ from[k + 1] = from[k] + Len(Parameters!Quoted(list[k])) + 1
       /\ t[from[k] + Len(Parameters!Quoted(list[k]))] = Parameters!Newline
       /\ \A j \in 1..Len(Parameters!Quoted(list[k])) :
            t[from[k] + j - 1] = Parameters!Quoted(list[k])[j]

LEMMA LinesAre ==
  ASSUME NEW list \in Seq(Seq(Chars))
  PROVE  /\ Parameters!Lines(list) \in Seq(Letters)
         /\ \E from : Listed(list, Parameters!Lines(list), from)
<1> DEFINE n == Len(list)
           Q(k) == Parameters!Quoted(list[k])
           pieces == [i \in DOMAIN list |-> Append(Q(i), Parameters!Newline)]
           t == Parameters!FlattenSeq(pieces)
<1>1. n \in Nat /\ DOMAIN list = 1..n /\ \A k \in 1..n : list[k] \in Seq(Chars)
  OBVIOUS
<1>2. \A k \in 1..n : Q(k) \in Seq(Letters)
  BY <1>1, QuotedIs
<1> HIDE DEF Q
<1>3. Parameters!Newline \in Letters
  BY DEF Letters
<1>4. ASSUME NEW k \in 1..n
      PROVE  /\ pieces[k] \in Seq(Letters) /\ Len(pieces[k]) = Len(Q(k)) + 1
             /\ Len(Q(k)) \in Nat /\ pieces[k][Len(Q(k)) + 1] = Parameters!Newline
             /\ \A j \in 1..Len(Q(k)) : pieces[k][j] = Q(k)[j]
  <2>1. PICK q \in Seq(Letters) : q = Q(k)
    BY <1>2
  <2>2. PICK p : p = Append(q, Parameters!Newline)
    OBVIOUS
  <2>3. p \in Seq(Letters) /\ Len(p) = Len(q) + 1 /\ p[Len(q) + 1] = Parameters!Newline
        /\ Len(q) \in Nat /\ \A j \in 1..Len(q) : p[j] = q[j]
    BY <1>3, <2>2
  <2>4. pieces[k] = p
    BY <1>1, <2>1, <2>2
  <2> QED BY <2>1, <2>3, <2>4
<1>5. pieces \in Seq(Seq(Letters)) /\ Len(pieces) = n
  <2>1. DOMAIN pieces = 1..n /\ pieces = [k \in 1..n |-> pieces[k]]
    BY <1>1
  <2> HIDE DEF pieces
  <2> QED BY <1>1, <1>4, <2>1
<1>6. Parameters!Lines(list) = t
  BY Zenon DEF Parameters!Lines, Q
<1> HIDE DEF pieces
<1>7. t \in Seq(Letters) /\ \E from : LaidOut(pieces, n, t, from)
  BY <1>5, Flattens
<1>8. PICK from : LaidOut(pieces, n, t, from)
  BY <1>7
<1> HIDE DEF t
<1>9. /\ from \in [1..(n + 1) -> 1..(Len(t) + 1)] /\ from[1] = 1 /\ from[n + 1] = Len(t) + 1
      /\ \A k \in 1..n : /\ from[k + 1] = from[k] + Len(pieces[k])
                         /\ \A j \in 1..Len(pieces[k]) : t[from[k] + j - 1] = pieces[k][j]
  BY <1>8 DEF LaidOut
<1>10. ASSUME NEW k \in 1..n
       PROVE  /\ from[k + 1] = from[k] + Len(Q(k)) + 1
              /\ t[from[k] + Len(Q(k))] = Parameters!Newline
              /\ \A j \in 1..Len(Q(k)) : t[from[k] + j - 1] = Q(k)[j]
  <2>1. PICK a \in Nat : a = from[k]
    <3>1. k \in 1..(n + 1) /\ Len(t) \in Nat
      BY <1>1, <1>7
    <3>2. from[k] \in 1..(Len(t) + 1)
      BY <1>9, <3>1
    <3>3. from[k] \in Nat
      BY <3>1, <3>2
    <3> QED BY <3>3
  <2>2. PICK m \in Nat : m = Len(Q(k))
    BY <1>4
  <2>3. Len(pieces[k]) = m + 1 /\ pieces[k][m + 1] = Parameters!Newline
        /\ \A j \in 1..m : pieces[k][j] = Q(k)[j]
    BY <1>4, <2>2
  <2>4. from[k + 1] = a + (m + 1) /\ \A j \in 1..(m + 1) : t[a + j - 1] = pieces[k][j]
    BY <1>9, <2>1, <2>3
  <2>5. a + (m + 1) = a + m + 1 /\ a + (m + 1) - 1 = a + m /\ m + 1 \in 1..(m + 1)
        /\ \A j \in 1..m : j \in 1..(m + 1)
    OBVIOUS
  <2>6. t[a + m] = Parameters!Newline
    BY <2>3, <2>4, <2>5
  <2>7. \A j \in 1..m : t[a + j - 1] = Q(k)[j]
    BY <2>3, <2>4, <2>5
  <2> QED BY <2>1, <2>2, <2>4, <2>5, <2>6, <2>7
<1>11. Listed(list, t, from)
  BY <1>9, <1>10, Zenon DEF Listed, Q
<1> QED BY <1>6, <1>7, <1>11 DEF t

\* The reader is at position p of the text, in the line of the k-th argument, of
\* which it has l.
LineOf(list, k, l, p, from) ==
  /\ l \in Seq(Letters) /\ p = from[k] + Len(l)
  /\ k = Len(list) + 1 => Len(l) = 0
  /\ k <= Len(list) =>
       /\ Len(l) <= Len(Parameters!Quoted(list[k]))
       /\ \A j \in 1..Len(l) : l[j] = Parameters!Quoted(list[k])[j]

\* What it is about to read.
Ahead(list, t, k, l, p, from) ==
  /\ p \in Nat
  /\ p > Len(t) => k = Len(list) + 1 /\ Len(l) = 0
  /\ p <= Len(t) =>
       /\ k \in 1..Len(list)
       /\ \/ /\ Len(l) < Len(Parameters!Quoted(list[k]))
             /\ t[p] = Parameters!Quoted(list[k])[Len(l) + 1]
          \/ /\ Len(l) = Len(Parameters!Quoted(list[k]))
             /\ t[p] = Parameters!Newline /\ p + 1 = from[k + 1]

LEMMA WhatIsAhead ==
  ASSUME NEW list \in Seq(Seq(Chars)), NEW t \in Seq(Letters), NEW from, Listed(list, t, from),
         NEW k \in 1..(Len(list) + 1), NEW l, NEW p, LineOf(list, k, l, p, from)
  PROVE  Ahead(list, t, k, l, p, from)
<1> DEFINE n == Len(list)
<1>1. n \in Nat /\ Len(t) \in Nat /\ Len(l) \in Nat
  BY DEF LineOf
<1>2. /\ from \in [1..(n + 1) -> 1..(Len(t) + 1)] /\ from[n + 1] = Len(t) + 1
      /\ p = from[k] + Len(l)
  BY DEF Listed, LineOf
<1>3. from[k] \in 1..(Len(t) + 1) /\ p \in Nat
  BY <1>1, <1>2
<1>4. CASE k = n + 1
  <2>1. Len(l) = 0
    BY <1>4 DEF LineOf
  <2>2. p = Len(t) + 1
    BY <1>1, <1>2, <1>4, <2>1
  <2> QED BY <1>1, <1>3, <1>4, <2>1, <2>2 DEF Ahead
<1>5. CASE k # n + 1
  <2>1. k \in 1..n /\ k + 1 \in 1..(n + 1) /\ k <= n
    BY <1>1, <1>5
  <2>2. PICK q : q = Parameters!Quoted(list[k])
    OBVIOUS
  <2>3. q \in Seq(Letters) /\ Len(q) \in Nat
    <3>1. list[k] \in Seq(Chars)
      BY <2>1
    <3>2. q \in Seq(Letters)
      BY <2>2, <3>1, QuotedIs
    <3> QED BY <3>2
  <2>4. /\ from[k + 1] = from[k] + Len(q) + 1 /\ t[from[k] + Len(q)] = Parameters!Newline
        /\ \A j \in 1..Len(q) : t[from[k] + j - 1] = q[j]
    BY <2>1, <2>2 DEF Listed
  <2>5. Len(l) <= Len(q)
    BY <2>1, <2>2 DEF LineOf
  <2>6. PICK a, b, m, c : a = from[k] /\ b = from[k + 1] /\ m = Len(q) /\ c = Len(l)
    OBVIOUS
  <2>7. /\ a \in Nat /\ b = a + m + 1 /\ b <= Len(t) + 1 /\ m \in Nat /\ c \in Nat /\ c <= m
        /\ p = a + c
    <3>1. from[k + 1] \in 1..(Len(t) + 1)
      BY <1>2, <2>1
    <3> QED BY <1>1, <1>2, <1>3, <2>3, <2>4, <2>5, <2>6, <3>1
  <2>8. p <= Len(t)
    BY <1>1, <2>7
  <2>9. CASE c = m
    <3>1. t[p] = Parameters!Newline /\ p + 1 = from[k + 1]
      BY <2>4, <2>6, <2>7, <2>9
    <3>2. Len(l) = Len(q)
      BY <2>6, <2>9
    <3> QED BY <1>1, <1>3, <2>1, <2>2, <2>8, <3>1, <3>2 DEF Ahead
  <2>10. CASE c # m
    <3>1. c < m /\ c + 1 \in 1..m /\ a + (c + 1) - 1 = p
      BY <2>7, <2>10
    <3>2. t[p] = q[c + 1]
      BY <2>4, <2>6, <3>1
    <3> QED BY <1>1, <1>3, <2>1, <2>2, <2>6, <2>8, <3>1, <3>2 DEF Ahead
  <2> QED BY <2>9, <2>10
<1> QED BY <1>4, <1>5

\* One more character of the line.
LEMMA LineGoesOn ==
  ASSUME NEW list \in Seq(Seq(Chars)), NEW t \in Seq(Letters), NEW from, Listed(list, t, from),
         NEW k \in 1..(Len(list) + 1), NEW l, NEW p, LineOf(list, k, l, p, from),
         p <= Len(t), t[p] # Parameters!Newline
  PROVE  LineOf(list, k, Append(l, t[p]), p + 1, from)
<1>1. Ahead(list, t, k, l, p, from)
  BY WhatIsAhead
<1>2. PICK q : q = Parameters!Quoted(list[k])
  OBVIOUS
<1>3. p \in Nat /\ k \in 1..Len(list) /\ Len(l) < Len(q) /\ t[p] = q[Len(l) + 1]
  BY <1>1, <1>2 DEF Ahead
<1>4. /\ l \in Seq(Letters) /\ p = from[k] + Len(l)
      /\ \A j \in 1..Len(l) : l[j] = q[j]
  BY <1>2, <1>3 DEF LineOf
<1>5. from[k] \in Nat
  <2>1. from \in [1..(Len(list) + 1) -> 1..(Len(t) + 1)]
    BY DEF Listed
  <2> QED BY <2>1
<1>6. p \in 1..Len(t) /\ t[p] \in Letters
  <2>1. from[k] >= 1
    <3>1. from \in [1..(Len(list) + 1) -> 1..(Len(t) + 1)]
      BY DEF Listed
    <3> QED BY <3>1
  <2>2. p >= 1
    BY <1>4, <1>5, <2>1
  <2>3. p \in 1..Len(t)
    BY <1>3, <2>2
  <2> QED BY <2>3
<1>7. Len(q) \in Nat
  <2>1. list[k] \in Seq(Chars)
    BY <1>3
  <2>2. q \in Seq(Letters)
    BY <1>2, <2>1, QuotedIs
  <2> QED BY <2>2
<1>8. PICK m : m = Append(l, t[p])
  OBVIOUS
<1>9. m \in Seq(Letters) /\ Len(m) = Len(l) + 1 /\ m[Len(l) + 1] = t[p]
      /\ \A j \in 1..Len(l) : m[j] = l[j]
  BY <1>4, <1>6, <1>8
<1>10. Len(m) <= Len(q) /\ p + 1 = from[k] + Len(m)
  <2>1. PICK a, b, c : a = from[k] /\ b = Len(l) /\ c = Len(q)
    OBVIOUS
  <2>2. a \in Nat /\ b \in Nat /\ c \in Nat /\ b < c /\ p = a + b
    BY <1>3, <1>4, <1>5, <1>7, <2>1
  <2>3. b + 1 <= c /\ p + 1 = a + (b + 1)
    BY <2>2
  <2> QED BY <1>9, <2>1, <2>3
<1>11. ASSUME NEW j \in 1..Len(m) PROVE m[j] = q[j]
  <2>1. j = Len(l) + 1 \/ j \in 1..Len(l)
    BY <1>4, <1>9
  <2> QED BY <1>3, <1>4, <1>9, <2>1
<1>12. k # Len(list) + 1
  BY <1>3
<1>13. LineOf(list, k, m, p + 1, from)
  BY <1>2, <1>9, <1>10, <1>11, <1>12 DEF LineOf
<1> QED BY <1>8, <1>13

\* The line of the k-th argument stands for that argument, and the reader is behind
\* it, or for nothing, which happens only if a newline is in an argument.
Understood(list, k, w, p, from) ==
  /\ k \in 1..Len(list)
  /\ \/ Parameters!Values(w) = {list[k]} /\ p = from[k + 1]
     \/ /\ Parameters!Values(w) = {}
        /\ \E i \in 1..Len(list) : Parameters!Newline \in Parameters!ToSet(list[i])

\* The line ends.
LEMMA LineEnds ==
  ASSUME NEW list \in Seq(Seq(Chars)), NEW t \in Seq(Letters), NEW from, Listed(list, t, from),
         NEW k \in 1..(Len(list) + 1), NEW l, NEW p, LineOf(list, k, l, p, from),
         p <= Len(t), t[p] = Parameters!Newline
  PROVE  Understood(list, k, Parameters!Trim(l), p + 1, from)
<1>1. Ahead(list, t, k, l, p, from)
  BY WhatIsAhead
<1>2. PICK q : q = Parameters!Quoted(list[k])
  OBVIOUS
<1>3. /\ k \in 1..Len(list)
      /\ \/ Len(l) < Len(q) /\ t[p] = q[Len(l) + 1]
         \/ Len(l) = Len(q) /\ p + 1 = from[k + 1]
  BY <1>1, <1>2 DEF Ahead
<1>4. list[k] \in Seq(Chars)
  BY <1>3
<1>5. l \in Seq(Letters) /\ \A j \in 1..Len(l) : l[j] = q[j]
  BY <1>2, <1>3 DEF LineOf
<1>6. CASE Len(l) = Len(q) /\ p + 1 = from[k + 1]
  <2>1. q \in Seq(Letters)
    BY <1>2, <1>4, QuotedIs
  <2>2. l = q
    BY <1>5, <1>6, <2>1
  <2>3. Parameters!Trim(l) = q
    BY <1>2, <1>4, <2>2, WholeIsTrimmed
  <2>4. Parameters!Values(q) = {list[k]}
    BY <1>2, <1>4, WholeIsArgument
  <2> QED BY <1>3, <1>6, <2>3, <2>4, Zenon DEF Understood
<1>7. CASE Len(l) < Len(q) /\ t[p] = q[Len(l) + 1]
  <2>1. /\ Parameters!Values(Parameters!Trim(l)) = {}
        /\ Parameters!Newline \in Parameters!ToSet(list[k])
    BY <1>2, <1>4, <1>5, <1>7, CutIsNothing
  <2> QED BY <1>3, <2>1, Zenon DEF Understood
<1> QED BY <1>3, <1>6, <1>7

\* The next argument.
LEMMA LineBegins ==
  ASSUME NEW list \in Seq(Seq(Chars)), NEW from, NEW t \in Seq(Letters), Listed(list, t, from),
         NEW k \in 1..Len(list)
  PROVE  LineOf(list, k + 1, <<>>, from[k + 1], from)
<1>1. from[k + 1] \in Nat
  <2>1. from \in [1..(Len(list) + 1) -> 1..(Len(t) + 1)]
    BY DEF Listed
  <2>2. k + 1 \in 1..(Len(list) + 1) /\ Len(t) \in Nat
    OBVIOUS
  <2>3. from[k + 1] \in 1..(Len(t) + 1)
    BY <2>1, <2>2
  <2> QED BY <2>2, <2>3
<1>2. PICK l : l = <<>>
  OBVIOUS
<1>3. l \in Seq(Letters) /\ Len(l) = 0
  BY <1>2
<1>4. k + 1 <= Len(list) => Len(Parameters!Quoted(list[k + 1])) \in Nat
  <2> SUFFICES ASSUME k + 1 <= Len(list) PROVE Len(Parameters!Quoted(list[k + 1])) \in Nat
    OBVIOUS
  <2>1. list[k + 1] \in Seq(Chars)
    OBVIOUS
  <2>2. Parameters!Quoted(list[k + 1]) \in Seq(Letters)
    BY <2>1, QuotedIs
  <2> QED BY <2>2
<1>5. LineOf(list, k + 1, l, from[k + 1], from)
  BY <1>1, <1>3, <1>4 DEF LineOf
<1> QED BY <1>2, <1>5

\* The arguments read so far are the first ones of the list.
Expected(list, got) ==
  /\ got \in Seq(Seq(Chars)) /\ Len(got) <= Len(list)
  /\ \A i \in 1..Len(got) : got[i] = list[i]

\* Where the reader is in the file that Bazel wrote.
ReaderIs(from) ==
  /\ Listed(args, text, from)
  /\ pc = "read" => LineOf(args, Len(arguments) + 1, line, pos, from)
  /\ pc \in {"decode", "add", "refused"} =>
       Understood(args, Len(arguments) + 1, word, pos, from)

\* A parameter file that Bazel wrote, of which nothing was lost.
ArgumentsInv ==
  origin = "bazel" /\ ~lost =>
    /\ args \in Seq(Seq(Chars)) /\ text \in Seq(Letters)
    /\ Expected(args, arguments)
    /\ \E from : ReaderIs(from)
    /\ pc = "done" => Len(arguments) = Len(args)

\* Lists holds lists of arguments.
LEMMA ListsTyped == Parameters!Lists \subseteq Seq(Seq(Chars))
<1>1. \A m : Parameters!BoundedSeq(Chars, m) \subseteq Seq(Chars)
  <2>1. ASSUME NEW m, NEW s \in Parameters!BoundedSeq(Chars, m) PROVE s \in Seq(Chars)
    <3>1. s \in UNION {[1..k -> Chars] : k \in 0..m}
      BY Zenon DEF Parameters!BoundedSeq, Parameters!SeqOf
    <3>2. PICK k \in 0..m : s \in [1..k -> Chars]
      BY <3>1
    <3> QED BY <3>2
  <2> QED BY <2>1
<1>2. <<>> \in Seq(Seq(Chars))
  OBVIOUS
<1>3. ASSUME NEW m, NEW a \in Parameters!BoundedSeq(Chars, m) PROVE <<a>> \in Seq(Seq(Chars))
  BY <1>1
<1>4. ASSUME NEW m, NEW a \in Parameters!BoundedSeq(Chars, m),
             NEW o, NEW b \in Parameters!BoundedSeq(Chars, o)
      PROVE  <<a, b>> \in Seq(Seq(Chars))
  BY <1>1
<1>5. ASSUME NEW list \in Parameters!Lists PROVE list \in Seq(Seq(Chars))
  <2>1. \/ list = <<>>
        \/ \E a \in Parameters!BoundedSeq(Chars, MaxArgument) :
             \/ list = <<a>>
             \/ \E b \in Parameters!BoundedSeq(Chars, MaxArgument - Len(a)) : list = <<a, b>>
    BY Zenon DEF Parameters!Lists
  <2> QED BY <1>2, <1>3, <1>4, <2>1, Zenon
<1> QED BY <1>5

\* Nothing is read yet.
LEMMA InitArguments == Parameters!Init => ArgumentsInv
<1> SUFFICES ASSUME Parameters!Init, origin = "bazel", ~lost
             PROVE  /\ args \in Seq(Seq(Chars)) /\ text \in Seq(Letters)
                    /\ Expected(args, arguments)
                    /\ \E from : ReaderIs(from)
                    /\ pc = "done" => Len(arguments) = Len(args)
  BY DEF ArgumentsInv
<1>1. pc = "read" /\ args \in Parameters!Lists /\ text = Parameters!Lines(args) /\ pos = 1
  BY DEF Parameters!Init
<1>2. Len(line) = 0 /\ line \in Seq(Letters) /\ arguments \in Seq(Seq(Chars))
      /\ Len(arguments) = 0
  <2>1. line = <<>> /\ arguments = <<>>
    BY Zenon DEF Parameters!Init
  <2> QED BY <2>1
<1>3. args \in Seq(Seq(Chars))
  BY <1>1, ListsTyped
<1>4. text \in Seq(Letters) /\ \E from : Listed(args, text, from)
  BY <1>1, <1>3, LinesAre
<1>5. PICK from : Listed(args, text, from)
  BY <1>4
<1>6. Len(args) \in Nat
  BY <1>3
<1>7. from[1] = 1
  BY <1>5 DEF Listed
<1>8. 1 <= Len(args) => Len(Parameters!Quoted(args[1])) \in Nat
  <2> SUFFICES ASSUME 1 <= Len(args) PROVE Len(Parameters!Quoted(args[1])) \in Nat
    OBVIOUS
  <2>1. args[1] \in Seq(Chars)
    BY <1>3
  <2>2. Parameters!Quoted(args[1]) \in Seq(Letters)
    BY <2>1, QuotedIs
  <2> QED BY <2>2
<1>9. LineOf(args, 1, line, pos, from)
  BY <1>1, <1>2, <1>7, <1>8 DEF LineOf
<1>10. Len(arguments) + 1 = 1
  BY <1>2
<1>11. ReaderIs(from)
  BY <1>1, <1>5, <1>9, <1>10 DEF ReaderIs
<1>12. Expected(args, arguments)
  BY <1>2, <1>6 DEF Expected
<1> QED BY <1>1, <1>3, <1>4, <1>11, <1>12

\* What a step may presume.
Presumed(from) ==
  /\ args \in Seq(Seq(Chars)) /\ text \in Seq(Letters)
  /\ Expected(args, arguments) /\ ReaderIs(from)
  /\ Len(arguments) + 1 \in 1..(Len(args) + 1)
  /\ pc = "done" => Len(arguments) = Len(args)

LEMMA Presumes ==
  ASSUME ArgumentsInv, origin = "bazel", ~lost
  PROVE  \E from : Presumed(from)
<1>1. /\ args \in Seq(Seq(Chars)) /\ text \in Seq(Letters)
      /\ Expected(args, arguments)
      /\ \E from : ReaderIs(from)
      /\ pc = "done" => Len(arguments) = Len(args)
  BY DEF ArgumentsInv
<1>2. Len(arguments) + 1 \in 1..(Len(args) + 1)
  <2>1. arguments \in Seq(Seq(Chars)) /\ Len(arguments) <= Len(args)
    BY <1>1 DEF Expected
  <2> QED BY <1>1, <2>1
<1> QED BY <1>1, <1>2 DEF Presumed

\* The steps that read.
LEMMA ArgumentsRead ==
  ASSUME ArgumentsInv,
         \/ Parameters!ReadCharacter \/ Parameters!ReadNewline \/ Parameters!ReadUnended
         \/ Parameters!EndOfFile \/ Parameters!CloseFails \/ Parameters!ReadFails
  PROVE  ArgumentsInv'
<1>1. CASE Parameters!ReadFails
  <2>1. lost' = TRUE
    BY <1>1 DEF Parameters!ReadFails
  <2> QED BY <2>1 DEF ArgumentsInv
<1>2. CASE ~Parameters!ReadFails
  <2>1. /\ pc = "read" /\ args' = args /\ text' = text /\ arguments' = arguments
        /\ origin' = origin /\ lost' = lost
    BY <1>2 DEF Parameters!ReadCharacter, Parameters!ReadNewline, Parameters!ReadUnended,
                Parameters!EndOfFile, Parameters!CloseFails, Parameters!Decode,
                Parameters!reader
  <2> SUFFICES ASSUME origin = "bazel", ~lost
               PROVE  /\ \E from : ReaderIs(from)'
                      /\ pc' = "done" => Len(arguments) = Len(args)
    <3>1. ASSUME origin = "bazel" /\ ~lost
          PROVE  /\ args \in Seq(Seq(Chars)) /\ text \in Seq(Letters)
                 /\ Expected(args, arguments)
      BY <3>1 DEF ArgumentsInv
    <3>2. Expected(args, arguments)' = Expected(args, arguments)
      BY <2>1 DEF Expected
    <3> QED BY <2>1, <3>1, <3>2, Zenon DEF ArgumentsInv
  <2>2. PICK from : Presumed(from)
    BY Presumes
  <2> DEFINE k == Len(arguments) + 1
  <2>3. /\ args \in Seq(Seq(Chars)) /\ text \in Seq(Letters) /\ k \in 1..(Len(args) + 1)
        /\ Listed(args, text, from) /\ LineOf(args, k, line, pos, from)
    BY <2>1, <2>2 DEF Presumed, ReaderIs
  <2>4. Listed(args, text, from)' /\ Len(arguments)' + 1 = k
    BY <2>1, <2>3 DEF Listed
  <2> HIDE DEF k
  <2>5. Ahead(args, text, k, line, pos, from)
    BY <2>3, WhatIsAhead
  <2>6. CASE Parameters!ReadCharacter
    <3>1. /\ pc' = "read" /\ line' = Append(line, text[pos]) /\ pos' = pos + 1
          /\ pos <= Len(text) /\ text[pos] # Parameters!Newline
      BY <2>6 DEF Parameters!ReadCharacter
    <3>2. LineOf(args, k, Append(line, text[pos]), pos + 1, from)
      BY <2>3, <3>1, LineGoesOn
    <3>3. LineOf(args, Len(arguments) + 1, line, pos, from)'
      BY <2>1, <3>1, <3>2 DEF k
    <3>4. ReaderIs(from)'
      BY <2>4, <3>1, <3>3 DEF ReaderIs
    <3> QED BY <3>1, <3>4
  <2>7. CASE Parameters!ReadNewline
    <3>1. /\ pc' = "decode" /\ word' = Parameters!Trim(line) /\ pos' = pos + 1
          /\ pos <= Len(text) /\ text[pos] = Parameters!Newline
      BY <2>7 DEF Parameters!ReadNewline, Parameters!Decode
    <3>2. Understood(args, k, Parameters!Trim(line), pos + 1, from)
      BY <2>3, <3>1, LineEnds
    <3>3. Understood(args, Len(arguments) + 1, word, pos, from)'
      BY <2>1, <3>1, <3>2 DEF k
    <3>4. ReaderIs(from)'
      BY <2>4, <3>1, <3>3 DEF ReaderIs
    <3> QED BY <3>1, <3>4
  <2>8. CASE Parameters!ReadUnended
    <3>1. pos > Len(text) /\ line # <<>>
      BY <2>8 DEF Parameters!ReadUnended
    <3>2. Len(line) = 0 /\ line \in Seq(Letters)
      BY <2>3, <2>5, <3>1 DEF Ahead, LineOf
    <3>3. line = <<>>
      BY <3>2
    <3> QED BY <3>1, <3>3
  <2>9. CASE Parameters!EndOfFile \/ Parameters!CloseFails
    <3>1. pc' \in {"done", "failed"} /\ pos > Len(text)
      BY <2>9 DEF Parameters!EndOfFile, Parameters!CloseFails
    <3>2. ReaderIs(from)'
      BY <2>4, <3>1 DEF ReaderIs
    <3>3. k = Len(args) + 1
      BY <2>5, <3>1 DEF Ahead
    <3>4. Len(arguments) = Len(args)
      <4>1. arguments \in Seq(Seq(Chars))
        BY <2>2 DEF Presumed, Expected
      <4> QED BY <2>3, <3>3, <4>1 DEF k
    <3> QED BY <3>2, <3>4
  <2> QED BY <1>2, <2>6, <2>7, <2>8, <2>9
<1> QED BY <1>1, <1>2

\* The steps that decode.
LEMMA ArgumentsDecoded ==
  ASSUME ArgumentsInv,
         \/ Parameters!QuotedCharacter \/ Parameters!CloseQuote \/ Parameters!BlankOutside
         \/ Parameters!SecondWord \/ Parameters!OpenQuote \/ Parameters!PlainCharacter
         \/ Parameters!Escaped \/ Parameters!TrailingEscape \/ Parameters!RefuseEnd
         \/ Parameters!AcceptEnd \/ Parameters!AddInputFails
  PROVE  ArgumentsInv'
<1>1. /\ args' = args /\ text' = text /\ arguments' = arguments /\ origin' = origin
      /\ lost' = lost /\ pos' = pos /\ word' = word
      /\ pc \in {"decode", "add"} /\ pc' \in {"decode", "add", "refused", "failed"}
  <2>1. CASE \/ Parameters!QuotedCharacter \/ Parameters!CloseQuote \/ Parameters!BlankOutside
             \/ Parameters!OpenQuote \/ Parameters!PlainCharacter \/ Parameters!Escaped
    BY <2>1 DEF Parameters!QuotedCharacter, Parameters!CloseQuote, Parameters!BlankOutside,
                Parameters!OpenQuote, Parameters!PlainCharacter, Parameters!Escaped,
                Parameters!AtEscape, Parameters!Deciding, Parameters!reader
  <2>2. CASE \/ Parameters!SecondWord \/ Parameters!TrailingEscape \/ Parameters!RefuseEnd
             \/ Parameters!AcceptEnd \/ Parameters!AddInputFails
    BY <2>2 DEF Parameters!SecondWord, Parameters!TrailingEscape, Parameters!RefuseEnd,
                Parameters!AcceptEnd, Parameters!AddInputFails, Parameters!Refuse,
                Parameters!AtEscape, Parameters!Deciding, Parameters!reader,
                Parameters!decoder
  <2> QED BY <2>1, <2>2
<1> SUFFICES ASSUME origin = "bazel", ~lost PROVE \E from : ReaderIs(from)'
  <2>1. ASSUME origin = "bazel" /\ ~lost
        PROVE  args \in Seq(Seq(Chars)) /\ text \in Seq(Letters) /\ Expected(args, arguments)
    BY <2>1 DEF ArgumentsInv
  <2>2. Expected(args, arguments)' = Expected(args, arguments)
    BY <1>1 DEF Expected
  <2> QED BY <1>1, <2>1, <2>2, Zenon DEF ArgumentsInv
<1>2. PICK from : Presumed(from)
  BY Presumes
<1>3. Listed(args, text, from) /\ Understood(args, Len(arguments) + 1, word, pos, from)
  BY <1>1, <1>2 DEF Presumed, ReaderIs
<1>4. Listed(args, text, from)' /\ Understood(args, Len(arguments) + 1, word, pos, from)'
  BY <1>1, <1>3 DEF Listed, Understood
<1>5. ReaderIs(from)'
  BY <1>1, <1>4 DEF ReaderIs
<1> QED BY <1>5

\* The argument is added.
LEMMA ArgumentsAdded ==
  ASSUME ArgumentsInv, WordInv, Parameters!AddInput
  PROVE  ArgumentsInv'
<1>1. /\ pc = "add" /\ pc' = "read" /\ arguments' = Append(arguments, output)
      /\ args' = args /\ text' = text /\ origin' = origin /\ lost' = lost /\ pos' = pos
  BY DEF Parameters!AddInput
<1>2. line' = <<>>
  BY Zenon DEF Parameters!AddInput
<1> SUFFICES ASSUME origin = "bazel", ~lost
             PROVE  /\ args \in Seq(Seq(Chars)) /\ text \in Seq(Letters)
                    /\ Expected(args, arguments)' /\ \E from : ReaderIs(from)'
  BY <1>1, Zenon DEF ArgumentsInv
<1>3. PICK from : Presumed(from)
  BY Presumes
<1> DEFINE k == Len(arguments) + 1
<1>4. /\ args \in Seq(Seq(Chars)) /\ text \in Seq(Letters)
      /\ Listed(args, text, from) /\ Understood(args, k, word, pos, from)
      /\ arguments \in Seq(Seq(Chars)) /\ \A i \in 1..Len(arguments) : arguments[i] = args[i]
  BY <1>1, <1>3 DEF Presumed, ReaderIs, Expected
<1>5. Parameters!Values(word) = {output}
  BY <1>1 DEF WordInv
<1>6. k \in 1..Len(args) /\ output = args[k] /\ pos = from[k + 1]
  BY <1>4, <1>5 DEF Understood
<1>7. /\ output \in Seq(Chars) /\ Len(arguments') = k /\ arguments' \in Seq(Seq(Chars))
      /\ arguments'[k] = output /\ \A i \in 1..(k - 1) : arguments'[i] = arguments[i]
  <2>1. output \in Seq(Chars)
    BY <1>4, <1>6
  <2> QED BY <1>1, <1>4, <2>1
<1>8. Expected(args, arguments)'
  <2>1. ASSUME NEW i \in 1..k PROVE arguments'[i] = args[i]
    <3>1. i = k \/ i \in 1..Len(arguments)
      BY <1>4, <1>6
    <3>2. Len(arguments) = k - 1
      BY <1>4
    <3> QED BY <1>4, <1>6, <1>7, <3>1, <3>2
  <2>2. k <= Len(args)
    BY <1>6
  <2> QED BY <1>1, <1>7, <2>1, <2>2 DEF Expected
<1> HIDE DEF k
<1>9. LineOf(args, k + 1, <<>>, from[k + 1], from)
  BY <1>4, <1>6, LineBegins
<1>10. LineOf(args, Len(arguments) + 1, line, pos, from)'
  BY <1>1, <1>2, <1>6, <1>7, <1>9, Zenon
<1>11. Listed(args, text, from)'
  BY <1>1, <1>4 DEF Listed
<1>12. ReaderIs(from)'
  BY <1>1, <1>10, <1>11 DEF ReaderIs
<1> QED BY <1>4, <1>8, <1>12

\* Every step of the reader of parameter files.
LEMMA NextArguments == ArgumentsInv /\ WordInv /\ Parameters!Next => ArgumentsInv'
BY ArgumentsRead, ArgumentsDecoded, ArgumentsAdded DEF Parameters!Next, Parameters!Step

\* The generator gets exactly the arguments.
LEMMA ArgumentsAreExact == ArgumentsInv /\ WordInv => Parameters!ParametersExact
<1> SUFFICES ASSUME ArgumentsInv, WordInv, origin = "bazel", ~lost
             PROVE  /\ pc = "done" => arguments = args
                    /\ pc = "refused" =>
                         \E i \in DOMAIN args : Parameters!Newline \in Parameters!ToSet(args[i])
                    /\ \A i \in DOMAIN arguments : arguments[i] = args[i]
  BY Zenon DEF Parameters!ParametersExact
<1>1. PICK from : Presumed(from)
  BY Presumes
<1>2. /\ args \in Seq(Seq(Chars)) /\ arguments \in Seq(Seq(Chars))
      /\ \A i \in 1..Len(arguments) : arguments[i] = args[i]
      /\ pc = "done" => Len(arguments) = Len(args)
  BY <1>1 DEF Presumed, Expected
<1>3. DOMAIN args = 1..Len(args) /\ DOMAIN arguments = 1..Len(arguments)
  BY <1>2
<1>4. pc = "done" => arguments = args
  BY <1>2
<1>5. ASSUME pc = "refused"
      PROVE  \E i \in DOMAIN args : Parameters!Newline \in Parameters!ToSet(args[i])
  <2>1. Understood(args, Len(arguments) + 1, word, pos, from)
    BY <1>1, <1>5 DEF Presumed, ReaderIs
  <2>2. Parameters!Values(word) = {}
    BY <1>5 DEF WordInv
  <2>3. \E i \in 1..Len(args) : Parameters!Newline \in Parameters!ToSet(args[i])
    BY <2>1, <2>2 DEF Understood
  <2> QED BY <1>3, <2>3, Zenon
<1> QED BY <1>2, <1>3, <1>4, <1>5, Zenon

-----------------------------------------------------------------------------
(* The lines of module_map_generator.                                       *)

\* What module_map_generator keeps in its one buffer, which the first character
\* of the file allocates.
ModuleMapInv ==
  /\ text \in Seq(PathChars \cup {ModuleMap!Newline}) /\ pos \in Nat \ {0}
  /\ ASequence(line) /\ capacity \in Nat
  /\ line # <<>> => Len(line) < capacity
  /\ pc \in {"start", "read", "footer", "close", "exited", "crashed"}
  /\ pc = "start" => pos = 1
  /\ pc = "read" /\ capacity = 0 => pos = 1
  /\ pc = "start" => capacity = 0
  /\ pc = "crashed" => text # <<>> /\ Head(text) = ModuleMap!Newline

\* Nothing is read yet.
LEMMA InitModuleMap == ModuleMap!Init => ModuleMapInv
<1> SUFFICES ASSUME ModuleMap!Init PROVE ModuleMapInv
  OBVIOUS
<1> DEFINE T == PathChars \cup {ModuleMap!Newline}
<1>1. text \in UNION {[1..n -> T] : n \in 0..MaxParams}
  BY DEF ModuleMap!Init, ModuleMap!BoundedSeq, ModuleMap!SeqOf
<1>2. PICK n \in 0..MaxParams : text \in [1..n -> T]
  BY <1>1
<1> HIDE DEF T
<1>3. text \in Seq(T)
  BY <1>2, BoundsAssumption
<1> QED BY <1>3, Shortest DEF ModuleMap!Init, ModuleMapInv, T

\* Reading a line: there is room for the character and the terminator.
LEMMA ReadsPath ==
  ASSUME ModuleMapInv, ModuleMap!ReadCharacter
  PROVE  ModuleMapInv'
<1>1. /\ pc = "read" /\ pc' = "read" /\ line' = Append(line, text[pos]) /\ pos' = pos + 1
      /\ text' = text
      /\ capacity' = IF ~ModuleMap!Full THEN capacity
                     ELSE IF capacity = 0 THEN InitialCapacity ELSE 2 * capacity
  BY DEF ModuleMap!ReadCharacter
<1>2. ASequence(line') /\ Len(line') = Len(line) + 1 /\ Len(line) \in Nat /\ line' # <<>>
  BY <1>1, Longer DEF ModuleMapInv
<1>3. Len(line) = 0 \/ Len(line) < capacity
  BY Shortest DEF ModuleMapInv
<1>4. capacity \in Nat /\ InitialCapacity \in Nat /\ InitialCapacity >= 2
  BY BoundsAssumption DEF ModuleMapInv
<1>5. capacity' \in Nat /\ Len(line) + 1 < capacity' /\ capacity' # 0
  <2>1. CASE ~ModuleMap!Full
    BY <1>1, <1>2, <1>4, <2>1 DEF ModuleMap!Full
  <2>2. CASE ModuleMap!Full /\ capacity = 0
    <3>1. capacity' = InitialCapacity /\ Len(line) = 0
      BY <1>1, <1>2, <1>3, <2>2
    <3> QED BY <1>4, <3>1
  <2>3. CASE ModuleMap!Full /\ capacity # 0
    <3>1. capacity' = 2 * capacity
      BY <1>1, <2>3
    <3> QED BY <1>2, <1>3, <1>4, <2>3, <3>1
  <2> QED BY <2>1, <2>2, <2>3
<1>6. pos' \in Nat \ {0}
  BY <1>1 DEF ModuleMapInv
<1> QED BY <1>1, <1>2, <1>5, <1>6 DEF ModuleMapInv

\* A line has been read: only a blank one at the beginning finds no buffer.
LEMMA TakesPath ==
  ASSUME ModuleMapInv,
         \/ ModuleMap!Crash \/ ModuleMap!BlankLine \/ ModuleMap!Declare \/ ModuleMap!Missing
  PROVE  ModuleMapInv'
<1>1. CASE ModuleMap!Crash
  <2>1. /\ pc = "read" /\ capacity = 0 /\ pc' = "crashed" /\ text' = text /\ pos' = pos
        /\ line' = line /\ capacity' = capacity
        /\ IF ModuleMap!AtEnd THEN line # <<>> ELSE text[pos] = ModuleMap!Newline
    BY <1>1 DEF ModuleMap!Crash, ModuleMap!LineRead
  <2>2. pos = 1 /\ line = <<>>
    <3>1. pos = 1
      BY <2>1 DEF ModuleMapInv
    <3>2. ~(Len(line) < 0) /\ Len(line) \in Nat
      <4>1. Len(line) \in Nat
        BY Longer DEF ModuleMapInv
      <4> QED BY <4>1
    <3> QED BY <2>1, <3>1, <3>2 DEF ModuleMapInv
  <2>3. text \in Seq(PathChars \cup {ModuleMap!Newline})
    BY DEF ModuleMapInv
  <2>4. 1 <= Len(text) /\ text[1] = ModuleMap!Newline
    <3>1. ~ModuleMap!AtEnd
      BY <2>1, <2>2
    <3> QED BY <2>1, <2>2, <2>3, <3>1 DEF ModuleMap!AtEnd
  <2>5. text # <<>> /\ Head(text) = ModuleMap!Newline
    BY <2>3, <2>4
  <2> QED BY <2>1, <2>5 DEF ModuleMapInv
<1>2. CASE ModuleMap!BlankLine \/ ModuleMap!Declare \/ ModuleMap!Missing
  <2>1. /\ capacity # 0 /\ capacity' = capacity /\ text' = text /\ line' = <<>>
        /\ pos' = IF ModuleMap!AtEnd THEN pos ELSE pos + 1
        /\ pc = "read" /\ pc' \in {"read", "footer"}
    BY <1>2 DEF ModuleMap!BlankLine, ModuleMap!Declare, ModuleMap!Missing, ModuleMap!NextLine,
                ModuleMap!LineRead
  <2>2. pos' \in Nat \ {0}
    BY <2>1 DEF ModuleMapInv
  <2> QED BY <2>1, <2>2, Shortest DEF ModuleMapInv
<1> QED BY <1>1, <1>2

\* The steps around the lines, and failures.
LEMMA OtherwiseMaps ==
  ASSUME ModuleMapInv,
         \/ ModuleMap!StartFails \/ ModuleMap!Start \/ ModuleMap!OutOfMemory
         \/ ModuleMap!ReadFails \/ ModuleMap!LastLine \/ ModuleMap!WriteFooter
         \/ ModuleMap!Close
  PROVE  ModuleMapInv'
<1>1. CASE ModuleMap!ReadFails
  <2>1. /\ pc' = "read" /\ pc = "read" /\ text' = SubSeq(text, 1, pos - 1) /\ pos' = pos
        /\ line' = line /\ capacity' = capacity /\ pos <= Len(text)
    BY <1>1 DEF ModuleMap!ReadFails, ModuleMap!AtEnd, ModuleMapInv
  <2> DEFINE T == PathChars \cup {ModuleMap!Newline}
  <2>2. text \in Seq(T) /\ pos \in Nat \ {0}
    BY DEF ModuleMapInv
  <2> HIDE DEF T
  <2>3. text' \in Seq(T)
    BY <2>1, <2>2
  <2> QED BY <2>1, <2>3 DEF ModuleMapInv, T
<1>2. CASE \/ ModuleMap!StartFails \/ ModuleMap!OutOfMemory \/ ModuleMap!LastLine
           \/ ModuleMap!WriteFooter \/ ModuleMap!Close
  <2>1. /\ text' = text /\ pos' = pos /\ line' = line /\ capacity' = capacity
        /\ pc' \in {"exited", "footer", "close"}
    BY <1>2 DEF ModuleMap!StartFails, ModuleMap!OutOfMemory, ModuleMap!LastLine,
                ModuleMap!WriteFooter, ModuleMap!Close, ModuleMap!Exit
  <2> QED BY <2>1 DEF ModuleMapInv
<1>3. CASE ModuleMap!Start
  <2>1. /\ text' = text /\ pos' = pos /\ line' = line /\ capacity' = capacity
        /\ pc = "start" /\ pc' = "read"
    BY <1>3 DEF ModuleMap!Start
  <2> QED BY <2>1 DEF ModuleMapInv
<1> QED BY <1>1, <1>2, <1>3

\* Every step of module_map_generator.
LEMMA NextModuleMap == ModuleMapInv /\ ModuleMap!Next => ModuleMapInv'
BY ReadsPath, TakesPath, OtherwiseMaps DEF ModuleMap!Next, ModuleMap!Step

-----------------------------------------------------------------------------
(* The module map.                                                          *)

\* The elements of a longer sequence.
LEMMA Elements ==
  ASSUME NEW s, NEW e, ASequence(s)
  PROVE  /\ \A k \in 1..Len(s) : Append(s, e)[k] = s[k]
         /\ Append(s, e)[Len(s) + 1] = e
<1>1. PICK S : s \in Seq(S)
  BY DEF ASequence
<1> DEFINE T == S \cup {e}
<1>2. s \in Seq(T) /\ e \in T
  BY <1>1
<1> HIDE DEF T
<1> QED BY <1>2

\* ModuleMap!Lists, of a map and a text that are given.
Declares(m, t, n, S) ==
  \E at \in [1..n -> S] :
    /\ \A i, j \in 1..n : i < j => at[i][2] < at[j][1]
    /\ \A l \in S : \E k \in 1..n : at[k] = l
    /\ \A k \in 1..n : m[k + 1] = SubSeq(t, at[k][1], at[k][2])

\* The map is open and declares the lines in S.
Declared(m, t, S) ==
  /\ ASequence(m) /\ Len(m) >= 1 /\ m[1] = ModuleMap!Header
  /\ Declares(m, t, Len(m) - 1, S)

\* The map is closed and declares the lines in S.
Closed(m, t, S) ==
  /\ Len(m) >= 2 /\ m[1] = ModuleMap!Header /\ m[Len(m)] = ModuleMap!Footer
  /\ Declares(m, t, Len(m) - 2, S)

\* The lines that end before character n.
LinesBefore(n) == {l \in ModuleMap!Lines : l[2] < n}

\* The characters of line are those of the file from b on, which begins a line.
Reading(b) ==
  /\ 1 <= b /\ pos <= Len(text) + 1
  /\ line = SubSeq(text, b, pos - 1)
  /\ \A k \in b..(pos - 1) : text[k] # ModuleMap!Newline
  /\ b = 1 \/ text[b - 1] = ModuleMap!Newline

\* As long as nothing failed, the map declares what precedes the line being read.
MapInv ==
  /\ pc = "start" => map = <<>> /\ line = <<>>
  /\ status = 0 /\ ~lost =>
       /\ pc = "read" => Reading(pos - Len(line))
                         /\ Declared(map, text, LinesBefore(pos - Len(line)))
       /\ pc = "footer" => Declared(map, text, ModuleMap!Lines)
       /\ pc \in {"close", "exited"} => Closed(map, text, ModuleMap!Lines)

\* One header more, of a line behind all that are declared.
LEMMA DeclaresOneMore ==
  ASSUME NEW m, NEW t, NEW S, NEW b, NEW e, Declared(m, t, S),
         \A l \in S : l[2] < b
  PROVE  Declared(Append(m, SubSeq(t, b, e)), t, S \cup {<<b, e>>})
<1> DEFINE n == Len(m) - 1
           new == <<b, e>>
           p == Append(m, SubSeq(t, b, e))
<1>1. ASequence(m) /\ Len(m) >= 1 /\ m[1] = ModuleMap!Header
  BY DEF Declared
<1>2. PICK at \in [1..n -> S] :
        /\ \A i, j \in 1..n : i < j => at[i][2] < at[j][1]
        /\ \A l \in S : \E k \in 1..n : at[k] = l
        /\ \A k \in 1..n : m[k + 1] = SubSeq(t, at[k][1], at[k][2])
  BY DEF Declared, Declares
<1>3. ASequence(p) /\ Len(p) = Len(m) + 1 /\ Len(m) \in Nat
  BY <1>1, Longer
<1>4. (\A k \in 1..Len(m) : p[k] = m[k]) /\ p[Len(m) + 1] = SubSeq(t, b, e)
  BY <1>1, Elements
<1>5. new[1] = b /\ new[2] = e
  OBVIOUS
<1>6. n \in Nat /\ Len(m) = n + 1 /\ Len(p) - 1 = n + 1
  BY <1>1, <1>3
<1> HIDE DEF n, new, p
<1> DEFINE longer == [k \in 1..(n + 1) |-> IF k = n + 1 THEN new ELSE at[k]]
<1>7. longer \in [1..(n + 1) -> S \cup {new}]
  BY <1>2, <1>6
<1>8. longer[n + 1] = new /\ \A k \in 1..n : longer[k] = at[k]
  BY <1>6
<1> HIDE DEF longer
<1>9. ASSUME NEW i \in 1..(n + 1), NEW j \in 1..(n + 1), i < j
      PROVE  longer[i][2] < longer[j][1]
  <2>1. i \in 1..n /\ longer[i] = at[i] /\ at[i] \in S
    BY <1>2, <1>6, <1>8, <1>9
  <2>2. CASE j = n + 1
    BY <1>5, <1>8, <2>1, <2>2
  <2>3. CASE j # n + 1
    <3>1. j \in 1..n /\ longer[j] = at[j]
      BY <1>6, <1>8, <2>3
    <3> QED BY <1>2, <1>9, <2>1, <3>1
  <2> QED BY <2>2, <2>3
<1>10. ASSUME NEW l \in S \cup {new} PROVE \E k \in 1..(n + 1) : longer[k] = l
  <2>1. CASE l \in S
    <3>1. PICK k \in 1..n : at[k] = l
      BY <1>2, <2>1
    <3> QED BY <1>6, <1>8, <3>1
  <2>2. CASE l = new
    <3>1. n + 1 \in 1..(n + 1)
      BY <1>6
    <3> QED BY <1>8, <2>2, <3>1
  <2> QED BY <2>1, <2>2
<1>11. ASSUME NEW k \in 1..(n + 1)
       PROVE  p[k + 1] = SubSeq(t, longer[k][1], longer[k][2])
  <2>1. CASE k = n + 1
    BY <1>4, <1>5, <1>6, <1>8, <2>1
  <2>2. CASE k # n + 1
    <3>1. k \in 1..n /\ longer[k] = at[k] /\ k + 1 \in 1..Len(m)
      BY <1>6, <1>8, <2>2
    <3>2. p[k + 1] = m[k + 1]
      BY <1>4, <3>1
    <3> QED BY <1>2, <3>1, <3>2
  <2> QED BY <2>1, <2>2
<1>12. Declares(p, t, n + 1, S \cup {new})
  BY <1>7, <1>9, <1>10, <1>11 DEF Declares
<1>13. p[1] = ModuleMap!Header
  BY <1>1, <1>3, <1>4
<1>14. Declared(p, t, S \cup {new})
  BY <1>1, <1>3, <1>6, <1>12, <1>13 DEF Declared
<1> QED BY <1>14 DEF p, new

\* The footer closes the map.
LEMMA FooterCloses ==
  ASSUME NEW m, NEW t, NEW S, Declared(m, t, S)
  PROVE  Closed(Append(m, ModuleMap!Footer), t, S)
<1> DEFINE n == Len(m) - 1
           p == Append(m, ModuleMap!Footer)
<1>1. ASequence(m) /\ Len(m) >= 1 /\ m[1] = ModuleMap!Header /\ Declares(m, t, n, S)
  BY DEF Declared
<1>2. Len(p) = Len(m) + 1 /\ Len(m) \in Nat
  BY <1>1, Longer
<1>3. (\A k \in 1..Len(m) : p[k] = m[k]) /\ p[Len(m) + 1] = ModuleMap!Footer
  BY <1>1, Elements
<1> HIDE DEF n, p
<1>4. n \in Nat /\ Len(m) = n + 1 /\ Len(p) - 2 = n
  BY <1>1, <1>2 DEF n
<1>5. \A k \in 1..n : p[k + 1] = m[k + 1]
  BY <1>3, <1>4
<1>6. Declares(p, t, n, S)
  BY <1>1, <1>5 DEF Declares
<1>7. p[1] = ModuleMap!Header /\ p[Len(p)] = ModuleMap!Footer /\ Len(p) >= 2
  BY <1>1, <1>2, <1>3
<1> QED BY <1>4, <1>6, <1>7 DEF Closed, p

\* Without a line, the map is its header.
LEMMA DeclaresNone ==
  ASSUME NEW m, NEW t, m = <<ModuleMap!Header>>
  PROVE  Declared(m, t, {})
<1> DEFINE h == ModuleMap!Header
<1> HIDE DEF h
<1>1. m = <<h>>
  BY DEF h
<1>2. m \in Seq({h}) /\ Len(m) = 1 /\ m[1] = h
  BY <1>1
<1> DEFINE at == [k \in 1..0 |-> 0]
<1>3. at \in [1..0 -> {}] /\ 1..0 = {} /\ Len(m) - 1 = 0
  BY <1>2
<1>4. Declares(m, t, 0, {})
  BY <1>3 DEF Declares
<1>5. ASequence(m)
  BY <1>2 DEF ASequence
<1> QED BY <1>2, <1>3, <1>4, <1>5 DEF Declared, h

\* What ends a line that began at b: it is the one line that is new.
LEMMA OneLineMore ==
  ASSUME ModuleMapInv, NEW b \in Nat, NEW n \in Nat, Reading(b), b < pos,
         IF ModuleMap!AtEnd THEN n = pos
                            ELSE text[pos] = ModuleMap!Newline /\ n = pos + 1
  PROVE  /\ LinesBefore(n) = LinesBefore(b) \cup {<<b, pos - 1>>}
         /\ \A l \in LinesBefore(b) : l[2] < b
<1>1. /\ pos \in Nat /\ 1 <= b /\ pos <= Len(text) + 1
      /\ \A k \in b..(pos - 1) : text[k] # ModuleMap!Newline
      /\ b = 1 \/ text[b - 1] = ModuleMap!Newline
  BY DEF ModuleMapInv, Reading
<1>2. Len(text) \in Nat /\ DOMAIN text = 1..Len(text)
  BY DEF ModuleMapInv
<1> DEFINE new == <<b, pos - 1>>
<1>3. new[1] = b /\ new[2] = pos - 1 /\ new \in (DOMAIN text) \X (DOMAIN text)
  BY <1>1, <1>2
<1> HIDE DEF new
<1>4. pos - 1 = Len(text) \/ text[pos] = ModuleMap!Newline
  BY <1>1, <1>2 DEF ModuleMap!AtEnd
<1>5. new \in ModuleMap!Lines
  <2>1. new[1] <= new[2] /\ \A k \in new[1]..new[2] : text[k] # ModuleMap!Newline
    BY <1>1, <1>3
  <2>2. new[2] = Len(text) \/ text[new[2] + 1] = ModuleMap!Newline
    BY <1>1, <1>3, <1>4
  <2> QED BY <1>1, <1>3, <2>1, <2>2 DEF ModuleMap!Lines
<1>6. ASSUME NEW l \in ModuleMap!Lines, l[2] < n, ~(l[2] < b) PROVE l = new
  <2>1. /\ l \in (DOMAIN text) \X (DOMAIN text)
        /\ l[1] <= l[2] /\ \A k \in l[1]..l[2] : text[k] # ModuleMap!Newline
        /\ l[1] = 1 \/ text[l[1] - 1] = ModuleMap!Newline
        /\ l[2] = Len(text) \/ text[l[2] + 1] = ModuleMap!Newline
    BY DEF ModuleMap!Lines
  <2>2. l = <<l[1], l[2]>> /\ l[1] \in 1..Len(text) /\ l[2] \in 1..Len(text)
    BY <1>2, <2>1
  <2>3. l[2] <= pos - 1
    <3>1. CASE ModuleMap!AtEnd
      BY <1>1, <1>2, <1>6, <2>2, <3>1
    <3>2. CASE ~ModuleMap!AtEnd
      <4>1. text[pos] = ModuleMap!Newline /\ l[2] <= pos
        BY <1>1, <1>6, <2>2, <3>2
      <4>2. l[2] # pos
        <5>1. l[2] \in l[1]..l[2]
          BY <2>1, <2>2
        <5> QED BY <2>1, <4>1, <5>1
      <4> QED BY <1>1, <2>2, <4>1, <4>2
    <3> QED BY <3>1, <3>2
  <2>4. l[2] = pos - 1
    <3> SUFFICES ASSUME l[2] # pos - 1 PROVE FALSE
      OBVIOUS
    <3>1. l[2] + 1 \in b..(pos - 1) /\ l[2] # Len(text)
      BY <1>1, <1>2, <1>6, <2>2, <2>3
    <3> QED BY <1>1, <2>1, <3>1
  <2>5. ~(l[1] < b)
    <3> SUFFICES ASSUME l[1] < b PROVE FALSE
      OBVIOUS
    <3>1. b # 1 /\ b - 1 \in l[1]..l[2]
      BY <1>1, <1>6, <2>2
    <3> QED BY <1>1, <2>1, <3>1
  <2>6. ~(l[1] > b)
    <3> SUFFICES ASSUME l[1] > b PROVE FALSE
      OBVIOUS
    <3>1. l[1] # 1 /\ l[1] - 1 \in b..(pos - 1)
      BY <1>1, <2>1, <2>2, <2>4
    <3> QED BY <1>1, <2>1, <3>1
  <2>7. l[1] = b
    BY <2>2, <2>5, <2>6
  <2> QED BY <2>2, <2>4, <2>7 DEF new
<1>7. new[2] < n /\ b < n
  BY <1>1, <1>3
<1>8. \A l \in ModuleMap!Lines : l[2] \in Nat
  BY <1>2 DEF ModuleMap!Lines
<1>9. \A l \in ModuleMap!Lines : l[2] < b => l[2] < n
  BY <1>7, <1>8
<1>10. LinesBefore(n) = LinesBefore(b) \cup {new}
  BY <1>5, <1>6, <1>7, <1>9 DEF LinesBefore
<1> QED BY <1>10 DEF new, LinesBefore

\* No line contains the newline that ends a blank one, and at the end of the
\* file all are over.
LEMMA NoLineMore ==
  ASSUME ModuleMapInv, pos <= Len(text) + 1
  PROVE  /\ pos <= Len(text) /\ text[pos] = ModuleMap!Newline =>
              LinesBefore(pos + 1) = LinesBefore(pos)
         /\ ModuleMap!AtEnd => LinesBefore(pos) = ModuleMap!Lines
         /\ LinesBefore(1) = {}
<1>1. pos \in Nat /\ Len(text) \in Nat /\ DOMAIN text = 1..Len(text)
  BY DEF ModuleMapInv
<1>2. \A l \in ModuleMap!Lines : /\ l[1] \in 1..Len(text) /\ l[2] \in 1..Len(text)
                                 /\ text[l[2]] # ModuleMap!Newline
  <2> SUFFICES ASSUME NEW l \in ModuleMap!Lines
               PROVE  /\ l[1] \in 1..Len(text) /\ l[2] \in 1..Len(text)
                      /\ text[l[2]] # ModuleMap!Newline
    OBVIOUS
  <2>1. /\ l \in (DOMAIN text) \X (DOMAIN text) /\ l[1] <= l[2]
        /\ \A k \in l[1]..l[2] : text[k] # ModuleMap!Newline
    BY DEF ModuleMap!Lines
  <2>2. l[1] \in 1..Len(text) /\ l[2] \in 1..Len(text)
    BY <1>1, <2>1
  <2>3. l[2] \in l[1]..l[2]
    BY <2>1, <2>2
  <2> QED BY <2>1, <2>2, <2>3
<1>3. ASSUME pos <= Len(text), text[pos] = ModuleMap!Newline
      PROVE  LinesBefore(pos + 1) = LinesBefore(pos)
  <2>1. \A l \in ModuleMap!Lines : l[2] < pos + 1 <=> l[2] < pos
    BY <1>1, <1>2, <1>3
  <2> QED BY <2>1 DEF LinesBefore
<1>4. ASSUME ModuleMap!AtEnd PROVE LinesBefore(pos) = ModuleMap!Lines
  <2>1. \A l \in ModuleMap!Lines : l[2] < pos
    BY <1>1, <1>2, <1>4 DEF ModuleMap!AtEnd
  <2> QED BY <2>1 DEF LinesBefore
<1>5. LinesBefore(1) = {}
  <2>1. \A l \in ModuleMap!Lines : ~(l[2] < 1)
    BY <1>1, <1>2
  <2> QED BY <2>1 DEF LinesBefore
<1> QED BY <1>3, <1>4, <1>5

\* Nothing is written yet.
LEMMA InitMap == ModuleMap!Init => MapInv
<1> SUFFICES ASSUME ModuleMap!Init PROVE MapInv
  OBVIOUS
<1>1. pc = "start" /\ map = <<>> /\ line = <<>>
  BY DEF ModuleMap!Init
<1> QED BY <1>1 DEF MapInv

\* Failures leave their mark, and are all that the invariant excludes.
LEMMA Fails ==
  ASSUME ModuleMapInv, MapInv,
         \/ ModuleMap!StartFails \/ ModuleMap!OutOfMemory \/ ModuleMap!ReadFails
         \/ ModuleMap!Missing \/ ModuleMap!Crash
  PROVE  MapInv'
<1>1. CASE ModuleMap!StartFails \/ ModuleMap!OutOfMemory
  <2>1. status' # 0 /\ pc' = "exited"
    BY <1>1 DEF ModuleMap!StartFails, ModuleMap!OutOfMemory, ModuleMap!Exit
  <2> QED BY <2>1 DEF MapInv
<1>2. CASE ModuleMap!ReadFails
  <2>1. lost' = TRUE /\ pc' = "read"
    BY <1>2 DEF ModuleMap!ReadFails
  <2> QED BY <2>1 DEF MapInv
<1>3. CASE ModuleMap!Missing
  <2>1. status' = 1 /\ pc' = "read"
    BY <1>3 DEF ModuleMap!Missing, ModuleMap!LineRead
  <2> QED BY <2>1 DEF MapInv
<1>4. CASE ModuleMap!Crash
  <2>1. pc' = "crashed"
    BY <1>4 DEF ModuleMap!Crash
  <2> QED BY <2>1 DEF MapInv
<1> QED BY <1>1, <1>2, <1>3, <1>4

\* The header is written, and the first line begins.
LEMMA MapStarts ==
  ASSUME ModuleMapInv, MapInv, ModuleMap!Start
  PROVE  MapInv'
<1>1. /\ pc = "start" /\ pc' = "read" /\ text' = text /\ pos' = pos /\ line' = line
      /\ pos = 1 /\ line' = <<>> /\ map = <<>>
  BY DEF ModuleMap!Start, ModuleMapInv, MapInv
<1>2. CASE lost'
  BY <1>1, <1>2 DEF MapInv
<1>3. CASE ~lost'
  <2>1. map' = Append(map, ModuleMap!Header)
    BY <1>3 DEF ModuleMap!Start, ModuleMap!Write
  <2> DEFINE h == ModuleMap!Header
  <2> HIDE DEF h
  <2>2. map' = <<h>>
    <3>1. map' = Append(<<>>, h)
      BY <1>1, <2>1 DEF h
    <3> QED BY <3>1
  <2>3. Declared(map', text, {})
    BY <2>2, DeclaresNone DEF h
  <2>4. text \in Seq(PathChars \cup {ModuleMap!Newline})
    BY DEF ModuleMapInv
  <2>5. Len(text) \in Nat /\ Len(<<>>) = 0
    BY <2>4
  <2>6. pos <= Len(text) + 1 /\ pos' - Len(line') = 1
    BY <1>1, <2>5
  <2>7. LinesBefore(1) = {} /\ LinesBefore(1)' = LinesBefore(1)
    <3>1. ModuleMap!Lines' = ModuleMap!Lines
      BY <1>1 DEF ModuleMap!Lines
    <3> QED BY <3>1, <2>6, NoLineMore DEF LinesBefore
  <2>8. Reading(1)'
    <3>1. SubSeq(text, 1, 0) = <<>> /\ 1..0 = {}
      BY <2>4
    <3> QED BY <1>1, <2>6, <3>1 DEF Reading
  <2>9. Reading(pos - Len(line))'
    BY <2>6, <2>8 DEF Reading
  <2>10. Declared(map, text, LinesBefore(pos - Len(line)))'
    <3>1. LinesBefore(pos - Len(line))' = {}
      BY <2>6, <2>7 DEF LinesBefore
    <3> QED BY <1>1, <2>3, <3>1
  <2> QED BY <1>1, <2>9, <2>10 DEF MapInv
<1> QED BY <1>2, <1>3

\* The line grows with the characters read.
LEMMA MapReads ==
  ASSUME ModuleMapInv, MapInv, ModuleMap!ReadCharacter
  PROVE  MapInv'
<1> DEFINE b == pos - Len(line)
<1>1. /\ pc = "read" /\ pc' = "read" /\ text' = text /\ pos' = pos + 1 /\ map' = map
      /\ line' = Append(line, text[pos]) /\ text[pos] # ModuleMap!Newline
      /\ ~(pos > Len(text)) /\ lost' = lost /\ status' = status
  BY DEF ModuleMap!ReadCharacter, ModuleMap!AtEnd
<1> DEFINE T == PathChars \cup {ModuleMap!Newline}
<1>2. text \in Seq(T) /\ pos \in Nat \ {0} /\ ASequence(line)
  BY DEF ModuleMapInv
<1>3. Len(line) \in Nat /\ Len(line') = Len(line) + 1
  BY <1>1, <1>2, Longer
<1> HIDE DEF T
<1>4. Len(text) \in Nat /\ pos <= Len(text)
  BY <1>1, <1>2
<1>5. pos' - Len(line') = b /\ b \in Int
  BY <1>1, <1>2, <1>3
<1> HIDE DEF b
<1>6. ModuleMap!Lines' = ModuleMap!Lines
  BY <1>1 DEF ModuleMap!Lines
<1>7. ASSUME status' = 0, ~lost'
      PROVE  Reading(pos - Len(line))' /\ Declared(map, text, LinesBefore(pos - Len(line)))'
  <2>1. Reading(b) /\ Declared(map, text, LinesBefore(b))
    BY <1>1, <1>7 DEF MapInv, b
  <2>2. b <= pos
    BY <1>2, <1>3 DEF b
  <2>3. line' = SubSeq(text, b, pos)
    <3>1. 1 <= b /\ line = SubSeq(text, b, pos - 1)
      BY <2>1 DEF Reading
    <3>2. SubSeq(text, b, pos) = Append(SubSeq(text, b, pos - 1), text[pos])
      <4> DEFINE u == SubSeq(text, b, pos - 1)
                 w == SubSeq(text, b, pos)
      <4>1. u \in Seq(T) /\ Len(u) = pos - b /\ \A k \in 1..(pos - b) : u[k] = text[b + k - 1]
        BY <1>2, <1>4, <1>5, <2>2, <3>1
      <4>2. w \in Seq(T) /\ Len(w) = pos - b + 1
            /\ \A k \in 1..(pos - b + 1) : w[k] = text[b + k - 1]
        BY <1>2, <1>4, <1>5, <2>2, <3>1
      <4>3. text[pos] \in T
        BY <1>2, <1>4
      <4> HIDE DEF u, w
      <4>4. Append(u, text[pos]) \in Seq(T) /\ Len(Append(u, text[pos])) = pos - b + 1
        BY <1>2, <1>5, <4>1, <4>3
      <4>5. ASSUME NEW k \in 1..(pos - b + 1) PROVE Append(u, text[pos])[k] = w[k]
        <5>1. ASequence(u) /\ pos - b \in Nat
          BY <1>2, <1>5, <2>2, <4>1 DEF ASequence
        <5>2. /\ \A i \in 1..(pos - b) : Append(u, text[pos])[i] = u[i]
              /\ Append(u, text[pos])[pos - b + 1] = text[pos]
          BY <4>1, <5>1, Elements
        <5>3. CASE k = pos - b + 1
          <6>1. b + k - 1 = pos
            BY <1>2, <1>5, <5>3
          <6> QED BY <4>2, <5>2, <5>3, <6>1
        <5>4. CASE k # pos - b + 1
          <6>1. k \in 1..(pos - b)
            BY <5>1, <5>4
          <6> QED BY <4>1, <4>2, <5>2, <6>1
        <5> QED BY <5>3, <5>4
      <4>6. Append(u, text[pos]) = w
        BY <4>2, <4>4, <4>5
      <4> QED BY <4>6 DEF u, w
    <3> QED BY <1>1, <3>1, <3>2
  <2>4. Reading(b)'
    <3>1. /\ 1 <= b
          /\ b = 1 \/ text[b - 1] = ModuleMap!Newline
          /\ \A k \in b..(pos - 1) : text[k] # ModuleMap!Newline
      BY <2>1 DEF Reading
    <3>2. \A k \in b..pos : text[k] # ModuleMap!Newline
      BY <1>1, <1>2, <1>5, <3>1
    <3>3. b' = b /\ pos' - 1 = pos
      BY <1>1, <1>2, <1>5 DEF b
    <3> QED BY <1>1, <1>2, <1>4, <2>3, <3>1, <3>2, <3>3 DEF Reading
  <2>5. b' = b
    BY <1>5 DEF b
  <2>6. LinesBefore(b)' = LinesBefore(b)
    BY <1>6, <2>5 DEF LinesBefore
  <2>7. Declared(map, text, LinesBefore(b))'
    BY <1>1, <2>1, <2>6
  <2> QED BY <2>4, <2>7 DEF b
<1> QED BY <1>1, <1>7 DEF MapInv

\* A blank line is passed over.
LEMMA MapPasses ==
  ASSUME ModuleMapInv, MapInv, ModuleMap!BlankLine
  PROVE  MapInv'
<1>1. /\ pc = "read" /\ pc' = "read" /\ text' = text /\ map' = map
      /\ line = <<>> /\ line' = <<>> /\ ~ModuleMap!AtEnd /\ text[pos] = ModuleMap!Newline
      /\ pos' = pos + 1 /\ lost' = lost /\ status' = status
  BY DEF ModuleMap!BlankLine, ModuleMap!LineRead, ModuleMap!NextLine
<1>2. text \in Seq(PathChars \cup {ModuleMap!Newline}) /\ pos \in Nat \ {0}
  BY DEF ModuleMapInv
<1>3. Len(text) \in Nat /\ Len(<<>>) = 0 /\ pos <= Len(text)
  BY <1>1, <1>2 DEF ModuleMap!AtEnd
<1>4. pos - Len(line) = pos /\ pos' - Len(line') = pos + 1
  BY <1>1, <1>2, <1>3
<1>5. ModuleMap!Lines' = ModuleMap!Lines
  BY <1>1 DEF ModuleMap!Lines
<1>6. ASSUME status' = 0, ~lost'
      PROVE  Reading(pos - Len(line))' /\ Declared(map, text, LinesBefore(pos - Len(line)))'
  <2>1. Declared(map, text, LinesBefore(pos))
    BY <1>1, <1>4, <1>6 DEF MapInv
  <2>2. LinesBefore(pos + 1) = LinesBefore(pos)
    BY <1>1, <1>2, <1>3, NoLineMore
  <2>3. LinesBefore(pos - Len(line))' = LinesBefore(pos + 1)
    BY <1>4, <1>5 DEF LinesBefore
  <2>4. Reading(pos - Len(line))'
    <3>1. SubSeq(text, pos + 1, pos) = <<>> /\ (pos + 1)..pos = {} /\ pos + 1 - 1 = pos
      BY <1>2
    <3>2. 1 <= pos + 1 /\ pos + 1 <= Len(text) + 1
      BY <1>2, <1>3
    <3>3. pos' - Len(line') = pos + 1
      BY <1>4
    <3> QED BY <1>1, <1>2, <3>1, <3>2, <3>3 DEF Reading
  <2> QED BY <1>1, <2>1, <2>2, <2>3, <2>4
<1> QED BY <1>1, <1>6 DEF MapInv

\* A header is declared, and the next line begins, or the file is at its end.
LEMMA MapDeclares ==
  ASSUME ModuleMapInv, MapInv, ModuleMap!Declare
  PROVE  MapInv'
<1> DEFINE b == pos - Len(line)
           n == IF ModuleMap!AtEnd THEN pos ELSE pos + 1
<1>1. /\ pc = "read" /\ text' = text /\ line # <<>> /\ line' = <<>>
      /\ ModuleMap!AtEnd \/ text[pos] = ModuleMap!Newline
      /\ pc' = IF ModuleMap!AtEnd THEN "footer" ELSE "read"
      /\ pos' = n /\ status' = status
  BY DEF ModuleMap!Declare, ModuleMap!LineRead, ModuleMap!NextLine
<1>2. CASE lost' \/ status' # 0
  BY <1>1, <1>2 DEF MapInv
<1>3. CASE ~lost' /\ status' = 0
  <2>1. map' = Append(map, line) /\ ~lost
    BY <1>3 DEF ModuleMap!Declare, ModuleMap!Write
  <2>2. Reading(b) /\ Declared(map, text, LinesBefore(b))
    BY <1>1, <1>3, <2>1 DEF MapInv
  <2>3. text \in Seq(PathChars \cup {ModuleMap!Newline}) /\ pos \in Nat \ {0}
        /\ ASequence(line)
    BY DEF ModuleMapInv
  <2>4. Len(text) \in Nat /\ Len(<<>>) = 0
    BY <2>3
  <2>5. Len(line) \in Nat \ {0}
    <3>1. PICK S : line \in Seq(S)
      BY <2>3 DEF ASequence
    <3> QED BY <1>1, <3>1
  <2>6. /\ 1 <= b /\ pos <= Len(text) + 1 /\ line = SubSeq(text, b, pos - 1)
    BY <2>2 DEF Reading
  <2>7. b \in Nat /\ b < pos
    BY <2>3, <2>5, <2>6
  <2> HIDE DEF b
  <2>8. n \in Nat /\ n <= Len(text) + 1
        /\ IF ModuleMap!AtEnd THEN n = pos
                              ELSE text[pos] = ModuleMap!Newline /\ n = pos + 1
    BY <1>1, <2>3, <2>4, <2>6 DEF ModuleMap!AtEnd
  <2>9. /\ LinesBefore(n) = LinesBefore(b) \cup {<<b, pos - 1>>}
        /\ \A l \in LinesBefore(b) : l[2] < b
    <3> HIDE DEF n
    <3> QED BY <2>2, <2>7, <2>8, OneLineMore
  <2>10. Declared(map', text, LinesBefore(n))
    <3> HIDE DEF n
    <3>1. Declared(Append(map, SubSeq(text, b, pos - 1)), text,
                   LinesBefore(b) \cup {<<b, pos - 1>>})
      BY <2>2, <2>9, DeclaresOneMore
    <3> QED BY <2>1, <2>6, <2>9, <3>1
  <2>11. ModuleMap!Lines' = ModuleMap!Lines
    BY <1>1 DEF ModuleMap!Lines
  <2>12. CASE ModuleMap!AtEnd
    <3>1. LinesBefore(n) = ModuleMap!Lines
      BY <2>6, <2>12, NoLineMore
    <3>2. pc' = "footer" /\ Declared(map, text, ModuleMap!Lines)'
      BY <1>1, <2>10, <2>11, <2>12, <3>1
    <3> QED BY <3>2 DEF MapInv
  <2>13. CASE ~ModuleMap!AtEnd
    <3>1. /\ n = pos + 1 /\ pos' = pos + 1 /\ pos' - Len(line') = pos + 1
          /\ pc' = "read" /\ text[pos] = ModuleMap!Newline
      BY <1>1, <2>3, <2>4, <2>13
    <3>2. LinesBefore(pos - Len(line))' = LinesBefore(n)
      BY <2>11, <3>1 DEF LinesBefore
    <3>3. Reading(pos - Len(line))'
      <4>1. SubSeq(text, pos + 1, pos) = <<>> /\ (pos + 1)..pos = {} /\ pos + 1 - 1 = pos
        BY <2>3
      <4>2. 1 <= pos + 1 /\ pos + 1 <= Len(text) + 1
        BY <2>3, <2>8, <3>1
      <4> QED BY <1>1, <3>1, <4>1, <4>2 DEF Reading
    <3>4. Declared(map, text, LinesBefore(pos - Len(line)))'
      BY <1>1, <2>10, <3>2
    <3> QED BY <3>1, <3>3, <3>4 DEF MapInv
  <2> QED BY <2>12, <2>13
<1> QED BY <1>2, <1>3

\* At the end of the file every line is declared; the footer follows.
LEMMA MapEnds ==
  ASSUME ModuleMapInv, MapInv,
         ModuleMap!LastLine \/ ModuleMap!WriteFooter \/ ModuleMap!Close
  PROVE  MapInv'
<1>1. text' = text
  BY DEF ModuleMap!LastLine, ModuleMap!WriteFooter, ModuleMap!Close
<1>2. ModuleMap!Lines' = ModuleMap!Lines
  BY <1>1 DEF ModuleMap!Lines
<1>3. CASE ModuleMap!LastLine
  <2>1. /\ pc = "read" /\ pc' = "footer" /\ ModuleMap!AtEnd /\ line = <<>>
        /\ map' = map /\ lost' = lost /\ status' = status
    BY <1>3 DEF ModuleMap!LastLine
  <2>2. pos \in Nat /\ Len(<<>>) = 0
    BY DEF ModuleMapInv
  <2>3. pos - Len(line) = pos
    BY <2>1, <2>2
  <2>4. ASSUME status' = 0, ~lost' PROVE Declared(map, text, ModuleMap!Lines)'
    <3>1. Reading(pos) /\ Declared(map, text, LinesBefore(pos))
      BY <2>1, <2>3, <2>4 DEF MapInv
    <3>2. LinesBefore(pos) = ModuleMap!Lines
      <4>1. pos <= Len(text) + 1
        BY <3>1 DEF Reading
      <4> QED BY <2>1, <4>1, NoLineMore
    <3> QED BY <1>1, <1>2, <2>1, <3>1, <3>2
  <2> QED BY <2>1, <2>4 DEF MapInv
<1>4. CASE ModuleMap!WriteFooter
  <2>1. pc = "footer" /\ pc' = "close" /\ status' = status
    BY <1>4 DEF ModuleMap!WriteFooter
  <2>2. ASSUME status' = 0, ~lost' PROVE Closed(map, text, ModuleMap!Lines)'
    <3>1. map' = Append(map, ModuleMap!Footer) /\ ~lost
      BY <1>4, <2>2 DEF ModuleMap!WriteFooter, ModuleMap!Write
    <3>2. Declared(map, text, ModuleMap!Lines)
      BY <2>1, <2>2, <3>1 DEF MapInv
    <3>3. Closed(map', text, ModuleMap!Lines)
      BY <3>1, <3>2, FooterCloses
    <3> QED BY <1>1, <1>2, <3>3
  <2> QED BY <2>1, <2>2 DEF MapInv
<1>5. CASE ModuleMap!Close
  <2>1. /\ pc = "close" /\ pc' = "exited" /\ status' \in {status, 1}
        /\ map' = map /\ lost' = lost
    BY <1>5 DEF ModuleMap!Close, ModuleMap!Exit
  <2>2. ASSUME status' = 0, ~lost' PROVE Closed(map, text, ModuleMap!Lines)'
    <3>1. status = 0 /\ ~lost
      BY <2>1, <2>2
    <3>2. Closed(map, text, ModuleMap!Lines)
      BY <2>1, <3>1 DEF MapInv
    <3> QED BY <1>1, <1>2, <2>1, <3>2
  <2> QED BY <2>1, <2>2 DEF MapInv
<1> QED BY <1>3, <1>4, <1>5

\* Every step of module_map_generator.
LEMMA NextMap == ModuleMapInv /\ MapInv /\ ModuleMap!Next => MapInv'
BY Fails, MapStarts, MapReads, MapPasses, MapDeclares, MapEnds DEF ModuleMap!Next, ModuleMap!Step

-----------------------------------------------------------------------------
(* The status of header_parser.                                             *)

\* Until clang++ has run, the status is still 0 and says nothing; the output is
\* made before.
ParserInv ==
  /\ pc \in {"start", "clang", "exited"}
  /\ pc # "exited" => verdict = "none"
  /\ pc = "clang" => stamp # "absent"
  /\ Parser!ParsedIsAccepted

\* Nothing has run yet.
LEMMA InitParser == Parser!Init => ParserInv
BY DEF Parser!Init, ParserInv, Parser!ParsedIsAccepted

\* Every step of header_parser.
LEMMA NextParser == ParserInv /\ Parser!Next => ParserInv'
<1> SUFFICES ASSUME ParserInv, Parser!Next PROVE ParserInv'
  OBVIOUS
<1>1. CASE \/ Parser!NoOutput \/ Parser!TouchFails \/ Parser!NoClang \/ Parser!ExecFails
  <2>1. pc # "exited" /\ pc' = "exited" /\ status' = 2 /\ verdict' = verdict
    BY <1>1 DEF Parser!NoOutput, Parser!TouchFails, Parser!NoClang, Parser!ExecFails, Parser!Exit
  <2> QED BY <2>1 DEF ParserInv, Parser!ParsedIsAccepted
<1>2. CASE Parser!Touch
  BY <1>2 DEF Parser!Touch, ParserInv, Parser!ParsedIsAccepted
<1>3. CASE Parser!Clang
  <2>1. pc = "clang" /\ pc' = "exited" /\ stamp' = stamp /\ stamp # "absent"
    BY <1>3 DEF Parser!Clang, Parser!Exit, ParserInv
  <2>2. \/ verdict' = "accepted" /\ status' = 0
        \/ verdict' \in {"rejected", "killed"} /\ status' # 0
    BY <1>3 DEF Parser!Clang, Parser!Exit, Parser!StatusOf
  <2> QED BY <2>1, <2>2 DEF ParserInv, Parser!ParsedIsAccepted
<1> QED BY <1>1, <1>2, <1>3 DEF Parser!Next

-----------------------------------------------------------------------------
(* JSON strings.                                                            *)

\* The digits of two hexadecimal numbers differ.
LEMMA Digits == \A d \in 0..15 : Json!Digit(Json!Hex[d + 1]) = d
<1>1. \A d \in 0..15 : Json!Hex[d + 1] = IF d < 10 THEN d + 48 ELSE d + 87
  BY DEF Json!Hex
<1>2. SUFFICES ASSUME NEW d \in 0..15 PROVE Json!Digit(Json!Hex[d + 1]) = d
  OBVIOUS
<1> DEFINE e == Json!Digit(Json!Hex[d + 1])
<1>3. e \in 0..15 /\ Json!Hex[e + 1] = Json!Hex[d + 1]
  BY DEF Json!Digit
<1> HIDE DEF e
<1>4. e = d
  BY <1>1, <1>3
<1> QED BY <1>4 DEF e

\* What the second loop can write for byte b.
Encodes(w, b) ==
  \/ w = <<b>> /\ b >= 32 /\ b # 34 /\ b # 92
  \/ w = <<92, b>> /\ b \in {34, 92}
  \/ \E s \in Json!Short : w = <<92, s[2]>> /\ s[1] = b
  \/ /\ w = <<92, 117, Json!Hex[1], Json!Hex[1], Json!Hex[(b \div 16) + 1], Json!Hex[(b % 16) + 1]>>
     /\ b < 32

\* What is written for a byte stands for it.
LEMMA WrittenEncodes ==
  ASSUME NEW b \in 1..255
  PROVE  Encodes(Json!Written(b), b)
<1> USE DEF Json!Quote, Json!Backslash, Json!LetterU
<1>1. CASE b \in {34, 92}
  <2>1. \A s \in Json!Short : s[1] # b
    BY <1>1 DEF Json!Short
  <2>2. Json!Escape(b) = {b}
    <3>1. {s \in Json!Short : s[1] = b} = {}
      BY <2>1
    <3>2. {e[2] : e \in {s \in Json!Short : s[1] = b}} = {}
      BY <3>1
    <3>3. {34, 92} \cap {b} = {b}
      BY <1>1
    <3> QED BY <3>2, <3>3 DEF Json!Escape
  <2>3. Json!Written(b) = <<92, b>>
    BY <2>2 DEF Json!Written
  <2> QED BY <1>1, <2>3 DEF Encodes
<1>2. CASE b \notin {34, 92} /\ \E s \in Json!Short : s[1] = b
  <2>1. PICK s \in Json!Short : s[1] = b
    BY <1>2
  <2>2. \A r \in Json!Short : r[1] = b => r[2] = s[2]
    BY <2>1 DEF Json!Short
  <2>3. Json!Escape(b) = {s[2]}
    BY <1>2, <2>1, <2>2 DEF Json!Escape
  <2>4. Json!Written(b) = <<92, s[2]>>
    BY <2>3 DEF Json!Written
  <2> QED BY <2>1, <2>4 DEF Encodes
<1>3. CASE b \notin {34, 92} /\ ~\E s \in Json!Short : s[1] = b
  <2>1. Json!Escape(b) = {}
    BY <1>3 DEF Json!Escape
  <2>2. Json!Written(b) =
          IF b < 32 THEN <<92, 117, Json!Hex[1], Json!Hex[1], Json!Hex[(b \div 16) + 1],
                           Json!Hex[(b % 16) + 1]>>
                    ELSE <<b>>
    BY <2>1 DEF Json!Written
  <2> QED BY <1>3, <2>2 DEF Encodes
<1> QED BY <1>1, <1>2, <1>3

\* It is a sequence of bytes, not longer than the first loop counted.
LEMMA WrittenFits ==
  ASSUME NEW b \in 1..255
  PROVE  /\ Json!Written(b) \in Seq(0..255)
         /\ 1 <= Len(Json!Written(b)) /\ Len(Json!Written(b)) <= Json!Counted(b)
         /\ Json!Counted(b) \in Nat
<1> DEFINE w == Json!Written(b)
<1>1. Encodes(w, b)
  BY WrittenEncodes
<1> HIDE DEF w
<1> USE DEF Json!Counted, Json!Quote, Json!Backslash
<1>2. CASE w = <<b>>
  <2>1. w \in Seq(0..255) /\ Len(w) = 1
    BY <1>2
  <2>2. Json!Counted(b) \in Nat /\ 1 <= Json!Counted(b)
    OBVIOUS
  <2> QED BY <2>1, <2>2 DEF w
<1>3. CASE w = <<92, b>> /\ b \in {34, 92}
  <2>1. w \in Seq(0..255) /\ Len(w) = 2
    BY <1>3
  <2>2. Json!Counted(b) = 2
    BY <1>3
  <2> QED BY <2>1, <2>2 DEF w
<1>4. CASE \E s \in Json!Short : w = <<92, s[2]>> /\ s[1] = b
  <2>1. PICK s \in Json!Short : w = <<92, s[2]>> /\ s[1] = b
    BY <1>4
  <2>2. s[2] \in 0..255 /\ b < 32
    BY <2>1 DEF Json!Short
  <2>3. w \in Seq(0..255) /\ Len(w) = 2
    BY <2>1, <2>2
  <2>4. Json!Counted(b) = 6
    BY <2>2
  <2> QED BY <2>3, <2>4 DEF w
<1>5. CASE /\ w = <<92, 117, Json!Hex[1], Json!Hex[1], Json!Hex[(b \div 16) + 1],
                    Json!Hex[(b % 16) + 1]>>
           /\ b < 32
  <2>1. (b \div 16) + 1 \in 1..16 /\ (b % 16) + 1 \in 1..16
    BY <1>5
  <2>2. \A d \in 1..16 : Json!Hex[d] \in 0..255
    BY DEF Json!Hex
  <2> DEFINE g == Json!Hex[1]
             h == Json!Hex[(b \div 16) + 1]
             l == Json!Hex[(b % 16) + 1]
  <2>3. g \in 0..255 /\ h \in 0..255 /\ l \in 0..255 /\ w = <<92, 117, g, g, h, l>>
    BY <1>5, <2>1, <2>2
  <2> HIDE DEF g, h, l
  <2>4. w \in Seq(0..255) /\ Len(w) = 6
    BY <2>3
  <2>5. Json!Counted(b) = 6
    BY <1>5
  <2> QED BY <2>4, <2>5 DEF w
<1> QED BY <1>1, <1>2, <1>3, <1>4, <1>5 DEF Encodes, w

\* What a parser does with a backslash depends on the next character.
Escapes(t, i, f) ==
  /\ i + 5 <= Len(t) /\ t[i + 1] = 117 =>
       Json!ReadsAt(t, i, f) =
         <<Json!Number(t[i + 2], t[i + 3], t[i + 4], t[i + 5])>> \o f[i + 6]
  /\ t[i + 1] \in {34, 92} =>
       Json!ReadsAt(t, i, f) = <<t[i + 1]>> \o f[i + 2]
  /\ t[i + 1] \notin {117, 34, 92} /\ (\E s \in Json!Short : s[2] = t[i + 1]) =>
       Json!ReadsAt(t, i, f) = <<(CHOOSE s \in Json!Short : s[2] = t[i + 1])[1]>> \o f[i + 2]

\* That is how a string is read.
LEMMA ReadsEscape ==
  ASSUME NEW t, NEW f, NEW i \in Nat, Len(t) \in Nat, i < Len(t), t[i] = 92
  PROVE  Escapes(t, i, f)
<1>1. ~(i > Len(t)) /\ ~(t[i] < 32) /\ t[i] # Json!Quote /\ t[i] = Json!Backslash
  BY DEF Json!Quote, Json!Backslash
<1>2. ASSUME i + 5 <= Len(t), t[i + 1] = 117
      PROVE  Json!ReadsAt(t, i, f) =
               <<Json!Number(t[i + 2], t[i + 3], t[i + 4], t[i + 5])>> \o f[i + 6]
  <2>1. t[i + 1] = Json!LetterU
    BY <1>2 DEF Json!LetterU
  <2> QED BY <1>1, <1>2, <2>1, Zenon DEF Json!ReadsAt
<1>3. ASSUME t[i + 1] \in {34, 92}
      PROVE  Json!ReadsAt(t, i, f) = <<t[i + 1]>> \o f[i + 2]
  <2>1. t[i + 1] # Json!LetterU /\ t[i + 1] \in {Json!Quote, Json!Backslash}
    BY <1>3 DEF Json!Quote, Json!Backslash, Json!LetterU
  <2> QED BY <1>1, <2>1, Zenon DEF Json!ReadsAt
<1>4. ASSUME t[i + 1] \notin {117, 34, 92}, \E s \in Json!Short : s[2] = t[i + 1]
      PROVE  Json!ReadsAt(t, i, f) =
                <<(CHOOSE s \in Json!Short : s[2] = t[i + 1])[1]>> \o f[i + 2]
  <2>1. t[i + 1] \notin {Json!LetterU, Json!Quote, Json!Backslash}
    BY <1>4 DEF Json!Quote, Json!Backslash, Json!LetterU
  <2> QED BY <1>1, <1>4, <2>1, SMT DEF Json!ReadsAt
<1> QED BY <1>2, <1>3, <1>4 DEF Escapes

\* The two hexadecimal digits of a byte.
LEMMA Nibbles ==
  ASSUME NEW b \in 1..255
  PROVE  b \div 16 \in 0..15 /\ b % 16 \in 0..15 /\ b = 16 * (b \div 16) + (b % 16)
<1>1. b % 16 \in 0..15
  OBVIOUS
<1>2. b = 16 * (b \div 16) + (b % 16)
  OBVIOUS
<1>3. b \div 16 \in Int
  OBVIOUS
<1> QED BY <1>1, <1>2, <1>3

\* A parser that finds it reads the byte and goes on behind it.
LEMMA ReadsOne ==
  ASSUME NEW b \in 1..255, NEW w, Encodes(w, b), NEW t, NEW f, NEW i \in Nat,
         Len(t) \in Nat, i + Len(w) <= Len(t),
         \A j \in 1..Len(w) : t[i + j - 1] = w[j]
  PROVE  Json!ReadsAt(t, i, f) = <<b>> \o f[i + Len(w)]
<1>1. CASE w = <<b>> /\ b >= 32 /\ b # 34 /\ b # 92
  <2>1. Len(w) = 1 /\ w[1] = b
    BY <1>1
  <2>2. t[i] = b /\ ~(i > Len(t))
    <3>1. t[i + 1 - 1] = w[1]
      BY <2>1
    <3> QED BY <2>1, <3>1
  <2> QED BY <1>1, <2>1, <2>2 DEF Json!ReadsAt, Json!Quote, Json!Backslash
<1>2. CASE w = <<92, b>> /\ b \in {34, 92}
  <2>1. Len(w) = 2 /\ w[1] = 92 /\ w[2] = b
    BY <1>2
  <2>2. t[i] = 92 /\ t[i + 1] = b /\ ~(i > Len(t)) /\ i < Len(t)
    <3>1. t[i + 1 - 1] = w[1] /\ t[i + 2 - 1] = w[2]
      BY <2>1
    <3> QED BY <2>1, <3>1
  <2>3. Json!ReadsAt(t, i, f) = <<t[i + 1]>> \o f[i + 2]
    <3>1. t[i] = 92 /\ i < Len(t) /\ t[i + 1] \in {34, 92}
      BY <1>2, <2>2
    <3>2. Escapes(t, i, f)
      BY <3>1, ReadsEscape
    <3> QED BY <3>1, <3>2 DEF Escapes
  <2> QED BY <2>1, <2>2, <2>3
<1>3. CASE \E s \in Json!Short : w = <<92, s[2]>> /\ s[1] = b
  <2>1. PICK e \in Json!Short : w = <<92, e[2]>> /\ e[1] = b
    BY <1>3
  <2>2. Len(w) = 2 /\ w[1] = 92 /\ w[2] = e[2]
    BY <2>1
  <2>3. t[i] = 92 /\ t[i + 1] = e[2] /\ ~(i > Len(t)) /\ i < Len(t)
    <3>1. t[i + 1 - 1] = w[1] /\ t[i + 2 - 1] = w[2]
      BY <2>2
    <3> QED BY <2>2, <3>1
  <2>4. e[2] \notin {34, 92, 117} /\ \A s \in Json!Short : s[2] = e[2] => s[1] = b
    BY <2>1 DEF Json!Short
  <2>5. (CHOOSE s \in Json!Short : s[2] = t[i + 1])[1] = b
    BY <2>1, <2>3, <2>4
  <2>6. \E s \in Json!Short : s[2] = t[i + 1]
    BY <2>1, <2>3
  <2>7. t[i + 1] \notin {34, 92, 117}
    BY <2>3, <2>4
  <2>8. t[i] = 92 /\ t[i + 1] # 117 /\ t[i + 1] \notin {34, 92} /\ i < Len(t)
    BY <2>3, <2>7
  <2>9. Json!ReadsAt(t, i, f) =
          <<(CHOOSE s \in Json!Short : s[2] = t[i + 1])[1]>> \o f[i + 2]
    <3>1. Escapes(t, i, f)
      BY <2>8, ReadsEscape
    <3> QED BY <2>6, <2>8, <3>1 DEF Escapes
  <2> QED BY <2>2, <2>5, <2>9
<1>4. CASE /\ w = <<92, 117, Json!Hex[1], Json!Hex[1], Json!Hex[(b \div 16) + 1],
                    Json!Hex[(b % 16) + 1]>>
           /\ b < 32
  <2> DEFINE g == Json!Hex[1]
             h == Json!Hex[(b \div 16) + 1]
             l == Json!Hex[(b % 16) + 1]
             high == b \div 16
             low == b % 16
  <2>1. high \in 0..15 /\ low \in 0..15 /\ b = 16 * high + low
    BY Nibbles
  <2>2. g = Json!Hex[0 + 1] /\ h = Json!Hex[high + 1] /\ l = Json!Hex[low + 1]
    OBVIOUS
  <2>3. w = <<92, 117, g, g, h, l>>
    BY <1>4
  <2> HIDE DEF g, h, l, high, low
  <2>4. Json!Digit(g) = 0 /\ Json!Digit(h) = high /\ Json!Digit(l) = low
    <3>1. 0 \in 0..15
      OBVIOUS
    <3> QED BY <2>1, <2>2, <3>1, Digits
  <2>5. Len(w) = 6 /\ w[1] = 92 /\ w[2] = 117 /\ w[3] = g /\ w[4] = g /\ w[5] = h /\ w[6] = l
    BY <2>3
  <2>6. /\ t[i] = 92 /\ t[i + 1] = 117 /\ t[i + 2] = g /\ t[i + 3] = g /\ t[i + 4] = h
        /\ t[i + 5] = l
    <3>1. /\ t[i + 1 - 1] = w[1] /\ t[i + 2 - 1] = w[2] /\ t[i + 3 - 1] = w[3]
          /\ t[i + 4 - 1] = w[4] /\ t[i + 5 - 1] = w[5] /\ t[i + 6 - 1] = w[6]
      BY <2>5
    <3> QED BY <2>5, <3>1
  <2>7. ~(i > Len(t)) /\ i + 5 <= Len(t)
    BY <2>5
  <2>8. Json!ReadsAt(t, i, f) =
          <<Json!Number(t[i + 2], t[i + 3], t[i + 4], t[i + 5])>> \o f[i + 6]
    <3>1. t[i] = 92 /\ i < Len(t) /\ t[i + 1] = 117
      BY <2>6, <2>7
    <3>2. Escapes(t, i, f)
      BY <3>1, ReadsEscape
    <3> QED BY <2>7, <3>1, <3>2 DEF Escapes
  <2>9. Json!Number(g, g, h, l) = b
    BY <2>1, <2>4 DEF Json!Number
  <2> QED BY <2>5, <2>6, <2>8, <2>9
<1> QED BY <1>1, <1>2, <1>3, <1>4 DEF Encodes

\* What is read from a position depends on what is read from those behind only.
LEMMA ReadsBehind ==
  ASSUME NEW t, Len(t) \in Nat, NEW i \in Nat, NEW f, NEW g,
         \A j \in (i + 1)..(Len(t) + 1) : f[j] = g[j]
  PROVE  Json!ReadsAt(t, i, f) = Json!ReadsAt(t, i, g)
<1>1. i <= Len(t) => f[i + 1] = g[i + 1]
  OBVIOUS
<1>2. i + 5 <= Len(t) => f[i + 6] = g[i + 6]
  OBVIOUS
<1>3. i < Len(t) => f[i + 2] = g[i + 2]
  OBVIOUS
<1>4. i > Len(t) \/ i <= Len(t)
  OBVIOUS
<1> QED BY <1>1, <1>2, <1>3, <1>4, Zenon DEF Json!ReadsAt

\* A function on the last positions of t that reads as Reads does.
ReadsLast(t, d, f) ==
  /\ f = [i \in (Len(t) + 1 - d)..(Len(t) + 1) |-> f[i]]
  /\ \A i \in (Len(t) + 1 - d)..(Len(t) + 1) : f[i] = Json!ReadsAt(t, i, f)

\* One position more.
LEMMA ReadsOneMore ==
  ASSUME NEW t, Len(t) \in Nat, NEW d \in Nat, d < Len(t), NEW f, ReadsLast(t, d, f)
  PROVE  \E g : ReadsLast(t, d + 1, g)
<1> DEFINE n == Len(t) + 1
           first == n - (d + 1)
           g == [i \in first..n |-> IF i = first THEN Json!ReadsAt(t, i, f) ELSE f[i]]
<1>1. n \in Nat /\ first \in Nat /\ first <= n /\ first + 1 = n - d
  OBVIOUS
<1>2. \A i \in (n - d)..n : f[i] = Json!ReadsAt(t, i, f)
  BY DEF ReadsLast
<1> HIDE DEF first
<1>3. g[first] = Json!ReadsAt(t, first, f) /\ \A j \in (first + 1)..n : g[j] = f[j]
  BY <1>1
<1>4. g = [i \in first..n |-> g[i]]
  OBVIOUS
<1> HIDE DEF g
<1>5. ASSUME NEW i \in first..n PROVE g[i] = Json!ReadsAt(t, i, g)
  <2>1. \A j \in (i + 1)..n : f[j] = g[j]
    BY <1>1, <1>3
  <2>2. i \in Nat
    BY <1>1
  <2>3. Json!ReadsAt(t, i, f) = Json!ReadsAt(t, i, g)
    BY <2>1, <2>2, ReadsBehind
  <2>4. CASE i = first
    BY <1>3, <2>3, <2>4
  <2>5. CASE i # first
    <3>1. i \in (first + 1)..n /\ i \in (n - d)..n
      BY <1>1, <2>5
    <3> QED BY <1>2, <1>3, <2>3, <3>1
  <2> QED BY <2>4, <2>5
<1>6. ReadsLast(t, d + 1, g)
  BY <1>4, <1>5 DEF ReadsLast, first
<1> QED BY <1>6

\* The recursion that reads a text is well defined.
LEMMA ReadsExists ==
  ASSUME NEW t, Len(t) \in Nat
  PROVE  \A d \in 0..Len(t) : \E f : ReadsLast(t, d, f)
<1> DEFINE S == {d \in 0..Len(t) : ~\E f : ReadsLast(t, d, f)}
<1>1. SUFFICES ASSUME S # {} PROVE FALSE
  OBVIOUS
<1>2. PICK d \in S : \A e \in S : d <= e
  <2>1. S \subseteq Nat
    OBVIOUS
  <2> HIDE DEF S
  <2> QED BY <1>1, <2>1, Least
<1>3. d \in 0..Len(t) /\ ~\E f : ReadsLast(t, d, f)
  OBVIOUS
<1>4. CASE d = 0
  <2> DEFINE n == Len(t) + 1
             f == [i \in n..n |-> <<0>>]
  <2>1. f = [i \in n..n |-> f[i]] /\ \A i \in n..n : f[i] = <<0>> /\ i > Len(t)
    OBVIOUS
  <2> HIDE DEF f
  <2>2. \A i \in n..n : Json!ReadsAt(t, i, f) = <<0>>
    BY <2>1 DEF Json!ReadsAt
  <2>3. ReadsLast(t, 0, f)
    BY <2>1, <2>2 DEF ReadsLast
  <2> QED BY <1>3, <1>4, <2>3
<1>5. CASE d # 0
  <2>1. d - 1 \in 0..Len(t) /\ d - 1 \in Nat /\ d - 1 < Len(t) /\ ~(d <= d - 1) /\ d - 1 + 1 = d
    BY <1>3, <1>5
  <2>2. d - 1 \notin S
    BY <1>2, <2>1
  <2>3. PICK f : ReadsLast(t, d - 1, f)
    BY <2>1, <2>2
  <2>4. \E g : ReadsLast(t, (d - 1) + 1, g)
    BY <2>1, <2>3, ReadsOneMore
  <2> QED BY <1>3, <2>1, <2>4
<1> QED BY <1>4, <1>5

\* What Reads makes of a string that begins with a quote.
LEMMA ReadsFrom ==
  ASSUME NEW t, Len(t) \in Nat, Len(t) >= 2, t[1] = 34
  PROVE  \E f : /\ \A i \in 2..(Len(t) + 1) : f[i] = Json!ReadsAt(t, i, f)
                /\ Json!Reads(t) = f[2]
<1> DEFINE From == CHOOSE f : f = [i \in 2..(Len(t) + 1) |-> Json!ReadsAt(t, i, f)]
<1>1. From = [i \in 2..(Len(t) + 1) |-> Json!ReadsAt(t, i, From)]
  <2>1. Len(t) - 1 \in 0..Len(t) /\ Len(t) + 1 - (Len(t) - 1) = 2
    OBVIOUS
  <2>2. PICK f : ReadsLast(t, Len(t) - 1, f)
    BY <2>1, ReadsExists
  <2>3. f = [i \in 2..(Len(t) + 1) |-> f[i]]
        /\ \A i \in 2..(Len(t) + 1) : f[i] = Json!ReadsAt(t, i, f)
    BY <2>1, <2>2 DEF ReadsLast
  <2>4. f = [i \in 2..(Len(t) + 1) |-> Json!ReadsAt(t, i, f)]
    BY <2>3
  <2> QED BY <2>4
<1>2. Json!Reads(t) = From[2]
  BY DEF Json!Reads, Json!Quote
<1> HIDE DEF From
<1>3. \A i \in 2..(Len(t) + 1) : From[i] = Json!ReadsAt(t, i, From)
  BY <1>1
<1> QED BY <1>2, <1>3

\* r is the opening quote and what is written for the first n - 1 bytes of v; byte
\* k is written from at[k] on.
Filled(v, r, at, n) ==
  /\ r \in Seq(0..255) /\ Len(r) >= 1 /\ r[1] = 34
  /\ at \in [1..n -> Nat] /\ at[1] = 2 /\ at[n] = Len(r) + 1
  /\ \A k \in 1..n : 2 <= at[k] /\ at[k] <= Len(r) + 1
  /\ \A k \in 1..(n - 1) :
       /\ at[k + 1] = at[k] + Len(Json!Written(v[k]))
       /\ \A j \in 1..Len(Json!Written(v[k])) : r[at[k] + j - 1] = Json!Written(v[k])[j]

\* The second loop writes one byte more.
LEMMA FilledOneMore ==
  ASSUME NEW v, NEW r, NEW at, NEW n \in Nat \ {0}, Filled(v, r, at, n), v[n] \in 1..255
  PROVE  \E more : Filled(v, r \o Json!Written(v[n]), more, n + 1)
<1> DEFINE w == Json!Written(v[n])
           s == r \o w
           more == [k \in 1..(n + 1) |-> IF k = n + 1 THEN Len(s) + 1 ELSE at[k]]
<1>1. w \in Seq(0..255) /\ Len(w) >= 1 /\ Len(w) \in Nat
  <2>1. w \in Seq(0..255) /\ 1 <= Len(w)
    BY WrittenFits
  <2> HIDE DEF w
  <2> QED BY <2>1
<1>2. /\ r \in Seq(0..255) /\ Len(r) >= 1 /\ Len(r) \in Nat /\ r[1] = 34
      /\ at \in [1..n -> Nat] /\ at[1] = 2 /\ at[n] = Len(r) + 1
      /\ \A k \in 1..n : at[k] \in Nat /\ 2 <= at[k] /\ at[k] <= Len(r) + 1
  BY DEF Filled
<1> HIDE DEF w
<1>3. /\ s \in Seq(0..255) /\ Len(s) = Len(r) + Len(w)
      /\ \A i \in 1..Len(r) : s[i] = r[i]
      /\ \A j \in 1..Len(w) : s[Len(r) + j] = w[j]
  BY <1>1, <1>2
<1> HIDE DEF s
<1>4. /\ more \in [1..(n + 1) -> Nat] /\ more[n + 1] = Len(s) + 1
      /\ \A k \in 1..n : more[k] = at[k]
  BY <1>1, <1>2, <1>3
<1> HIDE DEF more
<1>5. \A k \in 1..(n + 1) : 2 <= more[k] /\ more[k] <= Len(s) + 1
  <2> TAKE k \in 1..(n + 1)
  <2>1. CASE k = n + 1
    BY <1>1, <1>2, <1>3, <1>4, <2>1
  <2>2. CASE k # n + 1
    <3>1. k \in 1..n /\ more[k] = at[k]
      BY <1>4, <2>2
    <3> QED BY <1>1, <1>2, <1>3, <3>1
  <2> QED BY <2>1, <2>2
<1>6. ASSUME NEW k \in 1..n
      PROVE  /\ more[k + 1] = more[k] + Len(Json!Written(v[k]))
             /\ \A j \in 1..Len(Json!Written(v[k])) :
                  s[more[k] + j - 1] = Json!Written(v[k])[j]
  <2>1. CASE k = n
    <3>1. more[k] = Len(r) + 1 /\ more[k + 1] = Len(r) + Len(w) + 1
      BY <1>2, <1>3, <1>4, <2>1
    <3>2. \A j \in 1..Len(w) : more[k] + j - 1 = Len(r) + j
      BY <1>1, <1>2, <3>1
    <3> QED BY <1>1, <1>2, <1>3, <2>1, <3>1, <3>2 DEF w
  <2>2. CASE k # n
    <3>1. k \in 1..(n - 1) /\ k + 1 \in 1..n
      BY <2>2
    <3> DEFINE u == Json!Written(v[k])
    <3>2. /\ at[k + 1] = at[k] + Len(u)
          /\ \A j \in 1..Len(u) : r[at[k] + j - 1] = u[j]
      BY <3>1 DEF Filled
    <3>3. more[k] = at[k] /\ more[k + 1] = at[k + 1] /\ at[k] \in Nat /\ at[k + 1] \in Nat
          /\ 2 <= at[k] /\ at[k + 1] <= Len(r) + 1
      BY <1>2, <1>4, <3>1
    <3> HIDE DEF u
    <3>4. ASSUME NEW j \in 1..Len(u) PROVE s[more[k] + j - 1] = u[j]
      <4>1. at[k] + j - 1 \in 1..Len(r)
        BY <1>2, <3>2, <3>3
      <4> QED BY <1>3, <3>2, <3>3, <4>1
    <3> QED BY <3>2, <3>3, <3>4 DEF u
  <2> QED BY <2>1, <2>2
<1>7. s[1] = 34 /\ more[1] = 2 /\ Len(s) >= 1
  BY <1>1, <1>2, <1>3, <1>4
<1>8. n + 1 - 1 = n
  OBVIOUS
<1>9. Filled(v, s, more, n + 1)
  BY <1>3, <1>4, <1>5, <1>6, <1>7, <1>8 DEF Filled
<1> QED BY <1>9 DEF s, w

\* An element of a sequence stands before the rest of it.
LEMMA RestOfString ==
  ASSUME NEW S, NEW v \in Seq(S), NEW m, m = Len(v), NEW k \in 1..m
  PROVE  <<v[k]>> \o SubSeq(v, k + 1, m) = SubSeq(v, k, m)
<1> DEFINE a == SubSeq(v, k + 1, m)
           b == SubSeq(v, k, m)
           one == <<v[k]>>
<1>1. m \in Nat /\ v[k] \in S
  OBVIOUS
<1>2. one \in Seq(S) /\ Len(one) = 1 /\ one[1] = v[k]
  BY <1>1
<1>3. a \in Seq(S) /\ Len(a) = m - k /\ \A i \in 1..(m - k) : a[i] = v[k + i]
  <2>1. \A i \in (k + 1)..m : v[i] \in S
    BY <1>1
  <2>2. /\ Len(a) = m - (k + 1) + 1
        /\ \A i \in 1..(m - (k + 1) + 1) : a[i] = v[(k + 1) + i - 1]
    BY <1>1, <2>1
  <2>3. a \in Seq(S)
    BY <1>1, <2>1
  <2> QED BY <1>1, <2>2, <2>3
<1>4. b \in Seq(S) /\ Len(b) = m - k + 1 /\ \A i \in 1..(m - k + 1) : b[i] = v[k + i - 1]
  <2>1. \A i \in k..m : v[i] \in S
    BY <1>1
  <2> QED BY <1>1, <2>1
<1> HIDE DEF a, b, one
<1> DEFINE c == one \o a
<1>5. /\ c \in Seq(S) /\ Len(c) = 1 + (m - k) /\ c[1] = one[1]
      /\ \A i \in 1..(m - k) : c[1 + i] = a[i]
  <2>1. /\ c \in Seq(S) /\ Len(c) = Len(one) + Len(a)
        /\ \A i \in 1..Len(one) : c[i] = one[i]
        /\ \A i \in 1..Len(a) : c[Len(one) + i] = a[i]
    <3>1. one \in Seq(S) /\ a \in Seq(S)
      BY <1>2, <1>3
    <3>2. c \in Seq(S) /\ Concatenates(one, a, c)
      BY <3>1, Concatenated
    <3> QED BY <3>2, Zenon DEF Concatenates
  <2> HIDE DEF c
  <2> QED BY <1>2, <1>3, <2>1
<1> HIDE DEF c
<1>6. ASSUME NEW i \in 1..(m - k + 1) PROVE c[i] = b[i]
  <2>1. CASE i = 1
    <3>1. b[1] = v[k + 1 - 1] /\ k + 1 - 1 = k
      BY <1>1, <1>4, <2>1
    <3> QED BY <1>2, <1>5, <2>1, <3>1
  <2>2. CASE i # 1
    <3>1. i - 1 \in 1..(m - k) /\ 1 + (i - 1) = i /\ k + (i - 1) = k + i - 1
      BY <1>1, <2>2
    <3>2. c[i] = a[i - 1] /\ a[i - 1] = v[k + (i - 1)]
      BY <1>3, <1>5, <3>1
    <3> QED BY <1>4, <3>1, <3>2
  <2> QED BY <2>1, <2>2
<1>7. c = b
  BY <1>1, <1>4, <1>5, <1>6
<1> QED BY <1>7 DEF a, b, c, one

\* A parser reads back the string of which the text was made.
LEMMA RoundTrip ==
  ASSUME NEW v \in Seq(1..255), NEW r, NEW at, Filled(v, r, at, Len(v) + 1)
  PROVE  Json!Reads(Append(r, 34)) = v
<1> DEFINE m == Len(v)
           t == Append(r, 34)
           n == Len(t)
<1>1. /\ r \in Seq(0..255) /\ Len(r) >= 1 /\ Len(r) \in Nat /\ r[1] = 34
      /\ at[1] = 2 /\ at[m + 1] = Len(r) + 1
      /\ \A k \in 1..(m + 1) : at[k] \in Nat /\ 2 <= at[k] /\ at[k] <= Len(r) + 1
  <2> HIDE DEF m
  <2>1. /\ r \in Seq(0..255) /\ Len(r) >= 1 /\ r[1] = 34
        /\ at \in [1..(m + 1) -> Nat] /\ at[1] = 2 /\ at[m + 1] = Len(r) + 1
        /\ \A k \in 1..(m + 1) : 2 <= at[k] /\ at[k] <= Len(r) + 1
    BY DEF Filled, m
  <2> QED BY <2>1
<1>2. m \in Nat /\ \A k \in 1..m : v[k] \in 1..255
  <2> DEFINE B == 1..255
  <2>1. v \in Seq(B)
    OBVIOUS
  <2> HIDE DEF B
  <2>2. m \in Nat /\ \A k \in 1..m : v[k] \in B
    BY <2>1
  <2> QED BY <2>2 DEF B
<1>3. \A k \in 1..m :
        /\ at[k + 1] = at[k] + Len(Json!Written(v[k]))
        /\ \A j \in 1..Len(Json!Written(v[k])) : r[at[k] + j - 1] = Json!Written(v[k])[j]
  <2>1. m + 1 - 1 = m
    BY <1>2
  <2> HIDE DEF m
  <2> QED BY <2>1 DEF Filled, m
<1>4. t \in Seq(0..255) /\ n = Len(r) + 1 /\ t[n] = 34 /\ \A i \in 1..Len(r) : t[i] = r[i]
  BY <1>1
<1> HIDE DEF m, t
<1>5. n \in Nat /\ n >= 2 /\ t[1] = 34
  BY <1>1, <1>4
<1>6. PICK f : /\ \A i \in 2..(n + 1) : f[i] = Json!ReadsAt(t, i, f)
               /\ Json!Reads(t) = f[2]
  BY <1>5, ReadsFrom
<1> DEFINE Read(k) == f[at[k]] = SubSeq(v, k, m)
           Wrong == {d \in 0..m : ~Read(m + 1 - d)}
<1>7. Read(m + 1)
  <2>1. f[n] = Json!ReadsAt(t, n, f) /\ at[m + 1] = n
    BY <1>1, <1>4, <1>5, <1>6
  <2>2. Json!ReadsAt(t, n, f) = <<>>
    BY <1>4, <1>5 DEF Json!ReadsAt, Json!Quote
  <2>3. SubSeq(v, m + 1, m) = <<>>
    BY <1>2
  <2> QED BY <2>1, <2>2, <2>3
<1>8. ASSUME NEW k \in 1..m, Read(k + 1) PROVE Read(k)
  <2> DEFINE w == Json!Written(v[k])
  <2>1. Encodes(w, v[k]) /\ Len(w) \in Nat /\ 1 <= Len(w)
    <3>1. v[k] \in 1..255
      BY <1>2
    <3>2. Encodes(w, v[k]) /\ w \in Seq(0..255) /\ 1 <= Len(w)
      BY <3>1, WrittenEncodes, WrittenFits
    <3> HIDE DEF w
    <3> QED BY <3>2
  <2>2. /\ at[k + 1] = at[k] + Len(w)
        /\ \A j \in 1..Len(w) : r[at[k] + j - 1] = w[j]
    BY <1>3
  <2> HIDE DEF w
  <2>3. at[k] \in Nat /\ 2 <= at[k] /\ at[k] + Len(w) <= n
    BY <1>1, <1>2, <1>4, <2>2
  <2>4. ASSUME NEW j \in 1..Len(w) PROVE t[at[k] + j - 1] = w[j]
    <3>1. at[k] + j - 1 \in 1..Len(r)
      BY <1>1, <1>4, <2>1, <2>3
    <3> QED BY <1>4, <2>2, <3>1
  <2>5. Json!ReadsAt(t, at[k], f) = <<v[k]>> \o f[at[k] + Len(w)]
    <3> DEFINE i == at[k]
               b == v[k]
    <3>1. /\ i \in Nat /\ i + Len(w) <= Len(t) /\ Len(t) \in Nat /\ b \in 1..255
          /\ Encodes(w, b) /\ \A j \in 1..Len(w) : t[i + j - 1] = w[j]
      BY <1>2, <1>5, <2>1, <2>3, <2>4
    <3> HIDE DEF i, b
    <3>2. Json!ReadsAt(t, i, f) = <<b>> \o f[i + Len(w)]
      BY <3>1, ReadsOne
    <3> QED BY <3>2 DEF i, b
  <2>6. f[at[k]] = <<v[k]>> \o f[at[k + 1]]
    <3>1. at[k] \in 2..(n + 1)
      BY <1>5, <2>1, <2>3
    <3> QED BY <1>6, <2>2, <2>5, <3>1
  <2>7. <<v[k]>> \o SubSeq(v, k + 1, m) = SubSeq(v, k, m)
    <3> DEFINE B == 1..255
    <3>1. v \in Seq(B)
      OBVIOUS
    <3> HIDE DEF B
    <3> QED BY <3>1, RestOfString DEF m
  <2> QED BY <1>8, <2>6, <2>7
<1> HIDE DEF Read
<1>9. Wrong = {}
  <2> SUFFICES ASSUME Wrong # {} PROVE FALSE
    OBVIOUS
  <2>1. PICK d \in Wrong : \A e \in Wrong : d <= e
    <3>1. Wrong \subseteq Nat
      OBVIOUS
    <3> HIDE DEF Wrong
    <3> QED BY <3>1, Least
  <2>2. d \in 0..m /\ ~Read(m + 1 - d)
    OBVIOUS
  <2>3. d # 0
    <3>1. m + 1 - 0 = m + 1
      BY <1>2
    <3> QED BY <1>7, <2>2, <3>1
  <2>4. d - 1 \in 0..m /\ ~(d <= d - 1) /\ m + 1 - (d - 1) = (m + 1 - d) + 1 /\ m + 1 - d \in 1..m
    BY <1>2, <2>2, <2>3
  <2>5. Read((m + 1 - d) + 1)
    BY <2>1, <2>4
  <2> QED BY <1>8, <2>2, <2>4, <2>5
<1>10. Read(1)
  <2>1. m \in 0..m /\ m + 1 - m = 1
    BY <1>2
  <2> QED BY <1>9, <2>1
<1>11. f[2] = SubSeq(v, 1, m)
  BY <1>1, <1>10 DEF Read
<1>12. SubSeq(v, 1, m) = v
  BY DEF m
<1> QED BY <1>6, <1>11, <1>12 DEF t

\* What is counted up to each byte.
Sized(v, c, n) ==
  /\ c \in [1..n -> Nat] /\ c[1] = 3
  /\ \A k \in 1..(n - 1) : c[k + 1] = c[k] + Json!Counted(v[k])
  /\ \A k \in 1..n : c[k] <= c[n]

\* The first loop counts enough for what the second one writes; two bytes are
\* left for the closing quote and the terminator.
JsonInv ==
  /\ value \in Seq(1..255) /\ index \in 1..(Len(value) + 1)
  /\ pc \in {"size", "fill", "done"}
  /\ pc = "size" => \E c : Sized(value, c, index) /\ size = c[index]
  /\ pc = "fill" =>
       /\ \E c : /\ Sized(value, c, Len(value) + 1) /\ size = c[Len(value) + 1]
                 /\ Len(result) + 2 <= c[index]
       /\ \E at : Filled(value, result, at, index)
  /\ pc = "done" =>
       /\ size \in Nat /\ Len(result) + 1 <= size
       /\ \E r, at : Filled(value, r, at, Len(value) + 1) /\ result = Append(r, 34)

\* One byte more is counted.
LEMMA SizedOneMore ==
  ASSUME NEW v, NEW c, NEW n \in Nat \ {0}, Sized(v, c, n), v[n] \in 1..255
  PROVE  \E more : Sized(v, more, n + 1) /\ more[n + 1] = c[n] + Json!Counted(v[n])
<1> DEFINE add == Json!Counted(v[n])
           more == [k \in 1..(n + 1) |-> IF k = n + 1 THEN c[n] + add ELSE c[k]]
<1>1. add \in Nat
  BY WrittenFits
<1> HIDE DEF add
<1>2. /\ c \in [1..n -> Nat] /\ c[1] = 3
      /\ \A k \in 1..(n - 1) : c[k + 1] = c[k] + Json!Counted(v[k])
      /\ \A k \in 1..n : c[k] \in Nat /\ c[k] <= c[n]
  BY DEF Sized
<1>3. /\ more \in [1..(n + 1) -> Nat] /\ more[n + 1] = c[n] + add
      /\ \A k \in 1..n : more[k] = c[k]
  BY <1>1, <1>2
<1> HIDE DEF more
<1>4. ASSUME NEW k \in 1..n PROVE more[k + 1] = more[k] + Json!Counted(v[k])
  <2>1. CASE k = n
    BY <1>3, <2>1 DEF add
  <2>2. CASE k # n
    <3>1. k \in 1..(n - 1) /\ k + 1 \in 1..n
      BY <2>2
    <3> QED BY <1>2, <1>3, <3>1
  <2> QED BY <2>1, <2>2
<1>5. ASSUME NEW k \in 1..(n + 1) PROVE more[k] <= more[n + 1]
  <2>1. CASE k = n + 1
    BY <1>1, <1>2, <1>3, <2>1
  <2>2. CASE k # n + 1
    <3>1. k \in 1..n /\ c[k] <= c[n] /\ c[k] \in Nat /\ c[n] \in Nat
      BY <1>2, <2>2
    <3> QED BY <1>1, <1>3, <3>1
  <2> QED BY <2>1, <2>2
<1>6. more[1] = 3 /\ n + 1 - 1 = n
  BY <1>2, <1>3
<1>7. Sized(v, more, n + 1)
  BY <1>3, <1>4, <1>5, <1>6 DEF Sized
<1> QED BY <1>3, <1>7 DEF add

\* Only the quotes and the terminator are counted yet.
LEMMA InitJson == Json!Init => JsonInv
<1> SUFFICES ASSUME Json!Init PROVE JsonInv
  OBVIOUS
<1>1. value \in UNION {[1..n -> JsonBytes] : n \in 0..MaxJson}
  BY DEF Json!Init, Json!BoundedSeq, Json!SeqOf
<1>2. PICK n \in 0..MaxJson : value \in [1..n -> JsonBytes]
  BY <1>1
<1> DEFINE B == 1..255
<1>3. JsonBytes \subseteq B /\ n \in Nat
  BY BoundsAssumption
<1> HIDE DEF B
<1>4. value \in Seq(B) /\ Len(value) \in Nat
  BY <1>2, <1>3
<1>5. pc = "size" /\ index = 1 /\ size = 3
  BY DEF Json!Init
<1> DEFINE c == [k \in 1..1 |-> 3]
<1>6. Sized(value, c, 1) /\ c[1] = 3
  BY DEF Sized
<1> HIDE DEF c
<1> QED BY <1>4, <1>5, <1>6 DEF JsonInv, B

\* The first loop, and its end.
LEMMA JsonCounts ==
  ASSUME JsonInv, Json!CountByte \/ Json!Allocate
  PROVE  JsonInv'
<1>1. value \in Seq(1..255) /\ index \in 1..(Len(value) + 1)
  BY DEF JsonInv
<1>2. Len(value) \in Nat /\ \A k \in 1..Len(value) : value[k] \in 1..255
  <2> DEFINE B == 1..255
  <2>1. value \in Seq(B)
    BY <1>1
  <2> HIDE DEF B
  <2>2. Len(value) \in Nat /\ \A k \in 1..Len(value) : value[k] \in B
    BY <2>1
  <2> QED BY <2>2 DEF B
<1>3. pc = "size" /\ value' = value
  BY DEF Json!CountByte, Json!Allocate
<1>4. PICK c : Sized(value, c, index) /\ size = c[index]
  BY <1>3 DEF JsonInv
<1>5. CASE Json!CountByte
  <2>1. /\ pc' = pc /\ index' = index + 1 /\ size' = size + Json!Counted(value[index])
        /\ index <= Len(value)
    BY <1>5 DEF Json!CountByte
  <2>2. index \in Nat \ {0} /\ value[index] \in 1..255 /\ index + 1 \in 1..(Len(value) + 1)
    BY <1>1, <1>2, <2>1
  <2>3. PICK more : Sized(value, more, index + 1)
                    /\ more[index + 1] = c[index] + Json!Counted(value[index])
    BY <1>4, <2>2, SizedOneMore
  <2> QED BY <1>1, <1>3, <1>4, <2>1, <2>2, <2>3 DEF JsonInv
<1>6. CASE Json!Allocate
  <2>1. /\ pc' = "fill" /\ index' = 1 /\ size' = size /\ result' = <<Json!Quote>>
        /\ index > Len(value)
    BY <1>6 DEF Json!Allocate
  <2>2. index = Len(value) + 1 /\ 1 \in 1..(Len(value) + 1)
    BY <1>1, <1>2, <2>1
  <2>3. result' \in Seq(0..255) /\ Len(result') = 1 /\ result'[1] = 34
    BY <2>1 DEF Json!Quote
  <2>4. Len(result') + 2 <= c[1]
    BY <1>4, <2>3 DEF Sized
  <2> DEFINE at == [k \in 1..1 |-> 2]
  <2>5. at \in [1..1 -> Nat] /\ at[1] = 2
    OBVIOUS
  <2> HIDE DEF at
  <2>6. Filled(value, result', at, 1)
    BY <2>3, <2>5 DEF Filled
  <2>7. \E d : /\ Sized(value, d, Len(value) + 1) /\ size = d[Len(value) + 1]
               /\ Len(result') + 2 <= d[1]
    BY <1>4, <2>2, <2>4
  <2> QED BY <1>1, <1>3, <2>1, <2>2, <2>6, <2>7 DEF JsonInv
<1> QED BY <1>5, <1>6

\* The second loop, and the closing quote.
LEMMA JsonFills ==
  ASSUME JsonInv, Json!FillByte \/ Json!Close
  PROVE  JsonInv'
<1>1. value \in Seq(1..255) /\ index \in 1..(Len(value) + 1)
  BY DEF JsonInv
<1>2. Len(value) \in Nat /\ \A k \in 1..Len(value) : value[k] \in 1..255
  <2> DEFINE B == 1..255
  <2>1. value \in Seq(B)
    BY <1>1
  <2> HIDE DEF B
  <2>2. Len(value) \in Nat /\ \A k \in 1..Len(value) : value[k] \in B
    BY <2>1
  <2> QED BY <2>2 DEF B
<1>3. pc = "fill" /\ value' = value /\ size' = size
  BY DEF Json!FillByte, Json!Close
<1> DEFINE m == Len(value)
<1>4. PICK c : Sized(value, c, m + 1) /\ size = c[m + 1] /\ Len(result) + 2 <= c[index]
  BY <1>3 DEF JsonInv
<1>5. PICK at : Filled(value, result, at, index)
  BY <1>3 DEF JsonInv
<1>6. result \in Seq(0..255) /\ Len(result) \in Nat
  <2>1. result \in Seq(0..255)
    BY <1>5 DEF Filled
  <2> QED BY <2>1
<1>7. CASE Json!FillByte
  <2> DEFINE w == Json!Written(value[index])
             add == Json!Counted(value[index])
  <2>1. /\ pc' = pc /\ index' = index + 1 /\ result' = result \o w /\ index <= m
    BY <1>7 DEF Json!FillByte
  <2>2. index \in Nat \ {0} /\ value[index] \in 1..255 /\ index + 1 \in 1..(m + 1)
        /\ index \in 1..m
    BY <1>1, <1>2, <2>1
  <2>3. PICK more : Filled(value, result \o w, more, index + 1)
    BY <1>5, <2>2, FilledOneMore
  <2>4. w \in Seq(0..255) /\ Len(w) <= add /\ add \in Nat
    BY <2>2, WrittenFits
  <2> HIDE DEF m
  <2>5. c[index + 1] = c[index] + add /\ c[index] \in Nat
    <3>1. m \in Nat /\ m + 1 - 1 = m /\ index \in 1..(m + 1)
      BY <1>2, <2>2 DEF m
    <3>2. c \in [1..(m + 1) -> Nat]
      BY <1>4 DEF Sized
    <3>3. \A k \in 1..m : c[k + 1] = c[k] + Json!Counted(value[k])
      BY <1>4, <3>1 DEF Sized
    <3> QED BY <2>2, <3>1, <3>2, <3>3
  <2> HIDE DEF w, add
  <2>6. Len(result') + 2 <= c[index + 1]
    <3>1. Len(result \o w) = Len(result) + Len(w) /\ Len(w) \in Nat
      BY <1>6, <2>4
    <3> QED BY <1>4, <1>6, <2>1, <2>4, <2>5, <3>1
  <2> QED BY <1>1, <1>3, <1>4, <2>1, <2>2, <2>3, <2>6 DEF JsonInv, m
<1>8. CASE Json!Close
  <2>1. pc' = "done" /\ index' = index /\ result' = Append(result, 34) /\ index > m
    BY <1>8 DEF Json!Close, Json!Quote
  <2>2. index = m + 1
    BY <1>1, <1>2, <2>1
  <2>3. size \in Nat /\ Len(result') + 1 <= size
    <3>1. Len(result') = Len(result) + 1
      BY <1>6, <2>1
    <3>2. size \in Nat
      BY <1>1, <1>4, <2>2 DEF Sized
    <3> QED BY <1>4, <1>6, <2>2, <3>1, <3>2
  <2>4. Filled(value, result, at, m + 1)
    BY <1>5, <2>2
  <2> QED BY <1>1, <1>3, <2>1, <2>3, <2>4 DEF JsonInv
<1> QED BY <1>7, <1>8

\* Every step of ci_json_string.
LEMMA NextJson == JsonInv /\ Json!Next => JsonInv'
BY JsonCounts, JsonFills DEF Json!Next

\* What the invariant says of the result.
LEMMA JsonIsExact == JsonInv => Json!JsonExact
<1> SUFFICES ASSUME JsonInv PROVE Json!JsonExact
  OBVIOUS
<1>1. Len(value) \in Nat /\ index \in 1..(Len(value) + 1)
  <2>1. value \in Seq(1..255) /\ index \in 1..(Len(value) + 1)
    BY DEF JsonInv
  <2> QED BY <2>1
<1>2. ASSUME pc = "fill" PROVE Len(result) < size
  <2>1. PICK c : /\ Sized(value, c, Len(value) + 1) /\ size = c[Len(value) + 1]
                 /\ Len(result) + 2 <= c[index]
    BY <1>2 DEF JsonInv
  <2>2. c[index] <= c[Len(value) + 1] /\ c[index] \in Nat /\ c[Len(value) + 1] \in Nat
    BY <1>1, <2>1 DEF Sized
  <2>3. PICK at : Filled(value, result, at, index)
    BY <1>2 DEF JsonInv
  <2>4. result \in Seq(0..255)
    BY <2>3 DEF Filled
  <2>5. Len(result) \in Nat
    BY <2>4
  <2> QED BY <2>1, <2>2, <2>5
<1>3. ASSUME pc = "done" PROVE Len(result) < size /\ Json!Reads(result) = value
  <2>1. PICK r, at : Filled(value, r, at, Len(value) + 1) /\ result = Append(r, 34)
    BY <1>3 DEF JsonInv
  <2>2. value \in Seq(1..255) /\ size \in Nat /\ Len(result) + 1 <= size
    BY <1>3 DEF JsonInv
  <2>3. Json!Reads(result) = value
    BY <2>1, <2>2, RoundTrip
  <2>4. ASequence(r)
    BY <2>1 DEF Filled, ASequence
  <2>5. Len(result) \in Nat
    <3>1. Len(Append(r, 34)) = Len(r) + 1 /\ Len(r) \in Nat
      BY <2>4, Longer
    <3> QED BY <2>1, <3>1
  <2> QED BY <2>2, <2>3, <2>5
<1> QED BY <1>2, <1>3 DEF Json!JsonExact

-----------------------------------------------------------------------------
(* All programs.                                                            *)

IInv ==
  /\ tool = "def_file_generator" => ParametersInv /\ WordInv /\ ArgumentsInv
  /\ tool = "module_map_generator" => ModuleMapInv /\ MapInv
  /\ tool = "header_parser" => ParserInv
  /\ tool = "case_insensitive_vfs" => JsonInv
  /\ tool = "any, on Windows" => RunInv

\* A step that changes nothing.
LEMMA Rests == IInv /\ UNCHANGED vars => IInv'
<1> SUFFICES ASSUME IInv, UNCHANGED vars PROVE IInv'
  OBVIOUS
<1>1. /\ tool' = tool /\ pc' = pc /\ text' = text /\ pos' = pos /\ line' = line
      /\ capacity' = capacity /\ output' = output /\ input' = input
  BY DEF vars, reader, parameters
<1>2. /\ program' = program /\ wanted' = wanted /\ streams' = streams /\ saved' = saved
      /\ child' = child /\ inherited' = inherited /\ stuck' = stuck /\ returned' = returned
  BY DEF vars, windowsRun
<1>3. ParametersInv' = ParametersInv
  BY <1>1 DEF ParametersInv
<1>4. ModuleMapInv' = ModuleMapInv
  BY <1>1 DEF ModuleMapInv
<1>5. Run!Redirected(wanted)' = Run!Redirected(wanted) /\ Duplicates' = Duplicates
  BY <1>2 DEF Run!Redirected, Duplicates
<1>6. Borrowed' = Borrowed /\ Run!StreamsComeBack' = Run!StreamsComeBack
  BY <1>1, <1>2, <1>5 DEF Borrowed, Run!StreamsComeBack
<1>7. RunInv' = RunInv
  BY <1>1, <1>2, <1>5, <1>6 DEF RunInv, RunTypes
<1>8. MapInv' = MapInv
  <2>1. ModuleMap!Lines' = ModuleMap!Lines
    BY <1>1 DEF ModuleMap!Lines
  <2>2. Reading(pos - Len(line))' = Reading(pos - Len(line))
    BY <1>1 DEF Reading
  <2>3. LinesBefore(pos - Len(line))' = LinesBefore(pos - Len(line))
    BY <1>1, <2>1 DEF LinesBefore
  <2>4. map' = map /\ status' = status /\ lost' = lost
    BY DEF vars, reader, modules
  <2> QED BY <1>1, <2>1, <2>2, <2>3, <2>4 DEF MapInv
<1>9. ParserInv' = ParserInv
  <2>1. stamp' = stamp /\ verdict' = verdict /\ status' = status
    BY DEF vars, header
  <2> QED BY <1>1, <2>1 DEF ParserInv, Parser!ParsedIsAccepted
<1>10. WordInv' = WordInv
  <2>1. word' = word /\ quote' = quote /\ started' = started /\ separated' = separated
    BY DEF vars, parameters
  <2> QED BY <1>1, <2>1, Zenon DEF WordInv
<1>11. JsonInv' = JsonInv
  <2>1. value' = value /\ index' = index /\ size' = size /\ result' = result
    BY DEF vars, json
  <2> QED BY <1>1, <2>1, Zenon DEF JsonInv
<1>12. ArgumentsInv' = ArgumentsInv
  <2>1. /\ origin' = origin /\ lost' = lost /\ args' = args /\ word' = word
        /\ arguments' = arguments
    BY DEF vars, reader, parameters
  <2>2. \A from : ReaderIs(from)' = ReaderIs(from)
    BY <1>1, <2>1, Zenon DEF ReaderIs
  <2> QED BY <1>1, <2>1, <2>2, Zenon DEF ArgumentsInv
<1> QED BY <1>1, <1>3, <1>4, <1>7, <1>8, <1>9, <1>10, <1>11, <1>12 DEF IInv

\* IInv is an invariant of the programs.
LEMMA Invariant == Spec => []IInv
<1>1. Init => IInv
  BY InitParameters, InitWord, InitArguments, InitModuleMap, InitMap, InitParser, InitJson, InitRun DEF Init, IInv
<1>2. IInv /\ [Next]_vars => IInv'
  <2> SUFFICES ASSUME IInv, [Next]_vars PROVE IInv'
    OBVIOUS
  <2>1. CASE ParametersStep
    <3>1. tool = "def_file_generator" /\ tool' = tool /\ Parameters!Next
      BY <2>1 DEF ParametersStep
    <3> QED BY <3>1, NextParameters, NextWord, NextArguments DEF IInv
  <2>2. CASE ModuleMapStep
    <3>1. tool = "module_map_generator" /\ tool' = tool /\ ModuleMap!Next
      BY <2>2 DEF ModuleMapStep
    <3> QED BY <3>1, NextModuleMap, NextMap DEF IInv
  <2>3. CASE RunStep
    <3>1. tool = "any, on Windows" /\ tool' = tool /\ Run!Next
      BY <2>3 DEF RunStep
    <3> QED BY <3>1, NextRun DEF IInv
  <2>4. CASE ParserStep
    <3>1. tool = "header_parser" /\ tool' = tool /\ Parser!Next
      BY <2>4 DEF ParserStep
    <3> QED BY <3>1, NextParser DEF IInv
  <2>5. CASE JsonStep
    <3>1. tool = "case_insensitive_vfs" /\ tool' = tool /\ Json!Next
      BY <2>5 DEF JsonStep
    <3> QED BY <3>1, NextJson DEF IInv
  <2>6. CASE Done \/ UNCHANGED vars
    BY <2>6, Rests DEF Done
  <2> QED BY <2>1, <2>2, <2>3, <2>4, <2>5, <2>6 DEF Next
<1> QED BY <1>1, <1>2, PTL DEF Spec

\* Neither reader writes outside its line buffer, the decoder never overtakes
\* itself, and only a file that begins with a blank line crashes
\* module_map_generator: for every text and every initial capacity above one.
THEOREM InBuffer == Spec => []LinesInBounds
<1>1. IInv => LinesInBounds
  <2>1. ParametersInv => Parameters!LineInBounds
    BY DEF ParametersInv, Parameters!LineInBounds
  <2>2. ModuleMapInv => ModuleMap!LineInBounds
    BY DEF ModuleMapInv, ModuleMap!LineInBounds
  <2> QED BY <2>1, <2>2 DEF IInv, LinesInBounds
<1> QED BY <1>1, Invariant, PTL

\* A program that starts another one on Windows reports success only when that
\* one had the streams it was meant to have and ended with 0, and gets its own
\* streams back, with the exceptions StreamsComeBack names.
THEOREM ComeBack == Spec => []StreamsComeBack
<1>1. IInv => StreamsComeBack
  <2>1. RunInv => Run!StreamsComeBack
    <3> SUFFICES ASSUME RunInv PROVE Run!StreamsComeBack
      OBVIOUS
    <3>1. CASE pc = "returned"
      BY <3>1 DEF RunInv
    <3>2. CASE pc # "returned"
      BY <3>2 DEF RunInv, Run!StreamsComeBack
    <3> QED BY <3>1, <3>2
  <2> QED BY <2>1 DEF IInv, StreamsComeBack
<1> QED BY <1>1, Invariant, PTL

\* Status 0 of module_map_generator means that the map declares exactly the
\* headers of the file, in order, and that of header_parser that clang++ accepted
\* the header and left an output: for every text and every environment.
THEOREM Truthful == Spec => []StatusIsTruthful
<1>1. IInv => StatusIsTruthful
  <2>1. MapInv => ModuleMap!MapIsExact
    <3> SUFFICES ASSUME MapInv, pc = "exited", status = 0, ~lost
                 PROVE  ModuleMap!MapIsExact
      BY DEF ModuleMap!MapIsExact
    <3>1. Closed(map, text, ModuleMap!Lines)
      BY DEF MapInv
    <3>2. ModuleMap!Lists(Len(map) - 2, ModuleMap!Lines)
      BY <3>1 DEF Closed, Declares, ModuleMap!Lists
    <3> QED BY <3>1, <3>2 DEF Closed, ModuleMap!MapIsExact
  <2>2. ParserInv => Parser!ParsedIsAccepted
    BY DEF ParserInv
  <2> QED BY <2>1, <2>2 DEF IInv, StatusIsTruthful
<1> QED BY <1>1, Invariant, PTL

\* A JSON parser reads back every string from what ci_json_string made of it,
\* which never exceeds what it allocated: for strings of any length.
THEOREM StringsExact == Spec => []JsonExact
<1>1. IInv => JsonExact
  BY JsonIsExact DEF IInv, JsonExact
<1> QED BY <1>1, Invariant, PTL

\* A line of a parameter file is accepted exactly when it is one shell word, and
\* what is handed on is the value of that word: for every text of any length.
THEOREM LinesAreWords == Spec => []LineIsOneWord
<1>1. IInv => LineIsOneWord
  BY DEF IInv, WordInv, LineIsOneWord, Parameters!LineIsOneWord
<1> QED BY <1>1, Invariant, PTL

\* def_file_generator gets exactly the arguments that Bazel wrote, and refuses them
\* only for a newline in one of them: for arguments of any length, as long as no
\* read error shortens the file.
THEOREM ArgumentsExact == Spec => []ParametersExact
<1>1. IInv => ParametersExact
  BY ArgumentsAreExact DEF IInv, ParametersExact
<1> QED BY <1>1, Invariant, PTL
=============================================================================
