---------------------------- MODULE ParameterFile ----------------------------
(***************************************************************************)
(* How def_file_generator reads an @parameter file (expand_inputs): lines  *)
(* into a growing buffer, trimmed, then decoded in place, one shell word   *)
(* per line.  The file is what Bazel writes for a list of arguments, or    *)
(* any text.  Ordinary characters are alike; so are the blanks of isspace. *)
(***************************************************************************)
EXTENDS Naturals, Sequences, SequencesExt

CONSTANTS
  InitialCapacity,   \* 256
  Chars,             \* the characters of arguments and texts
  MaxArgument,       \* characters of all arguments together
  MaxText            \* characters of an arbitrary text

VARIABLES
  pc,
  origin,      \* who wrote the file: "bazel" or "other"
  args,        \* the arguments it was written from
  text,        \* the file
  pos,         \* the next character fgetc returns
  lost,        \* a read error was taken for the end of the file
  line,        \* line[0 .. length - 1]
  capacity,
  word,        \* the trimmed line
  input,       \* the character of word the decoder reads next
  output,      \* what it wrote over the beginning of word
  quote,       \* the open quote, "" outside quotes
  started, separated,
  arguments    \* filenames handed to add_input

reader == <<text, pos, lost, line, capacity>>
decoder == <<word, input, output, quote, started, separated>>
vars == <<pc, origin, args, reader, decoder, arguments>>

Newline == "\n"
Blank == " "
Single == "'"
Double == "\""
Escape == "\\"

Spaces == {Blank, Newline}

-----------------------------------------------------------------------------
(* External: Bazel's shell quoting, one argument per line.                  *)

Unsafe == Spaces \cup {Single, Double, Escape}

Quoted(arg) ==
  IF arg # <<>> /\ ToSet(arg) \cap Unsafe = {} THEN arg
  ELSE <<Single>>
       \o FlattenSeq([i \in DOMAIN arg |->
            IF arg[i] = Single THEN <<Single, Escape, Single, Single>> ELSE <<arg[i]>>])
       \o <<Single>>

Lines(list) == FlattenSeq([i \in DOMAIN list |-> Append(Quoted(list[i]), Newline)])

\* Up to two arguments.
Lists ==
  {<<>>} \cup UNION {{<<a>>} \cup {<<a, b>> : b \in BoundedSeq(Chars, MaxArgument - Len(a))} :
                      a \in BoundedSeq(Chars, MaxArgument)}

Init ==
  /\ pc = "read"
  /\ \/ origin = "bazel" /\ args \in Lists /\ text = Lines(args)
     \/ origin = "other" /\ args = <<>> /\ text \in BoundedSeq(Chars, MaxText)
  /\ pos = 1 /\ lost = FALSE /\ line = <<>> /\ capacity = 0
  /\ word = <<>> /\ input = 1 /\ output = <<>> /\ quote = ""
  /\ started = FALSE /\ separated = FALSE
  /\ arguments = <<>>

-----------------------------------------------------------------------------
(* read_line and trim                                                       *)

\* Mutant: no room is kept for the terminator.
GrownLate ==
  IF Len(line) < capacity THEN capacity
  ELSE IF capacity = 0 THEN InitialCapacity ELSE 2 * capacity

\* The capacity once a character has been read, a newline included.
Grown ==
  IF Len(line) + 1 < capacity THEN capacity
  ELSE IF capacity = 0 THEN InitialCapacity ELSE 2 * capacity

ReadCharacter ==
  /\ pc = "read" /\ pos <= Len(text) /\ text[pos] # Newline
  /\ capacity' = Grown
  /\ line' = Append(line, text[pos])
  /\ pos' = pos + 1
  /\ UNCHANGED <<pc, origin, args, text, lost, decoder, arguments>>

Trim(s) ==
  LET inner == {i \in DOMAIN s : s[i] \notin Spaces}
  IN  IF inner = {} THEN <<>>
      ELSE SubSeq(s, CHOOSE i \in inner : \A j \in inner : i <= j,
                     CHOOSE i \in inner : \A j \in inner : j <= i)

\* The locals of decode_shell_argument.
Decode ==
  /\ pc' = "decode"
  /\ word' = Trim(line)
  /\ input' = 1 /\ output' = <<>> /\ quote' = ""
  /\ started' = FALSE /\ separated' = FALSE

ReadNewline ==
  /\ pc = "read" /\ pos <= Len(text) /\ text[pos] = Newline
  /\ capacity' = Grown
  /\ pos' = pos + 1
  /\ Decode
  /\ UNCHANGED <<origin, args, text, lost, line, arguments>>

\* The last line has no newline.
ReadUnended ==
  /\ pc = "read" /\ pos > Len(text) /\ line # <<>>
  /\ Decode
  /\ UNCHANGED <<origin, args, reader, arguments>>

\* read_line returns NULL.
EndOfFile ==
  /\ pc = "read" /\ pos > Len(text) /\ line = <<>>
  /\ pc' = "done"
  /\ UNCHANGED <<origin, args, reader, decoder, arguments>>

\* fclose of the parameter file fails.
CloseFails ==
  /\ pc = "read" /\ pos > Len(text) /\ line = <<>>
  /\ pc' = "failed"
  /\ UNCHANGED <<origin, args, reader, decoder, arguments>>

\* fgetc fails, and goes on failing: for read_line the file ends here.
ReadFails ==
  /\ pc = "read" /\ pos <= Len(text)
  /\ text' = SubSeq(text, 1, pos - 1)
  /\ lost' = TRUE
  /\ UNCHANGED <<pc, origin, args, pos, line, capacity, decoder, arguments>>

-----------------------------------------------------------------------------
(* decode_shell_argument                                                    *)

Deciding == pc = "decode" /\ input <= Len(word)

\* Write characters and move past those that were read.
Emit(characters, read) ==
  /\ output' = output \o characters
  /\ input' = input + read

Refuse ==
  /\ pc' = "refused"
  /\ UNCHANGED <<origin, args, reader, decoder, arguments>>

\* Everything inside single quotes, and inside double quotes all but escapes.
QuotedCharacter ==
  /\ Deciding /\ quote # ""
  /\ word[input] # quote
  /\ ~(quote = Double /\ word[input] = Escape)
  /\ Emit(<<word[input]>>, 1)
  /\ UNCHANGED <<pc, origin, args, reader, word, quote, started, separated, arguments>>

CloseQuote ==
  /\ Deciding /\ quote # ""
  /\ word[input] = quote
  /\ quote' = "" /\ Emit(<<>>, 1)
  /\ UNCHANGED <<pc, origin, args, reader, word, started, separated, arguments>>

\* Mutant: it is forgotten that a word came before the blank.
BlankForgets ==
  /\ Deciding /\ quote = "" /\ word[input] \in Spaces
  /\ separated' = FALSE /\ Emit(<<>>, 1)
  /\ UNCHANGED <<pc, origin, args, reader, word, quote, started, arguments>>

BlankOutside ==
  /\ Deciding /\ quote = "" /\ word[input] \in Spaces
  /\ separated' = started /\ Emit(<<>>, 1)
  /\ UNCHANGED <<pc, origin, args, reader, word, quote, started, arguments>>

SecondWord ==
  /\ Deciding /\ quote = "" /\ word[input] \notin Spaces
  /\ separated
  /\ Refuse

OpenQuote ==
  /\ Deciding /\ quote = "" /\ word[input] \in {Single, Double}
  /\ ~separated
  /\ started' = TRUE
  /\ quote' = word[input] /\ Emit(<<>>, 1)
  /\ UNCHANGED <<pc, origin, args, reader, word, separated, arguments>>

PlainCharacter ==
  /\ Deciding /\ quote = "" /\ word[input] \notin Unsafe
  /\ ~separated
  /\ started' = TRUE
  /\ Emit(<<word[input]>>, 1)
  /\ UNCHANGED <<pc, origin, args, reader, word, quote, separated, arguments>>

\* Mutant: escapes count inside single quotes too.
AtEscapeAnywhere ==
  /\ Deciding /\ word[input] = Escape
  /\ quote = "" => ~separated

\* A backslash outside quotes or inside double quotes.
AtEscape ==
  /\ Deciding /\ quote # Single /\ word[input] = Escape
  /\ quote = "" => ~separated

Escaped ==
  /\ AtEscape /\ input < Len(word)
  /\ started' = TRUE
  /\ Emit(<<word[input + 1]>>, 2)
  /\ UNCHANGED <<pc, origin, args, reader, word, quote, separated, arguments>>

TrailingEscape == AtEscape /\ input = Len(word) /\ Refuse

\* An open quote, or nothing at all on the line.
RefuseEnd ==
  /\ pc = "decode" /\ input > Len(word)
  /\ quote # "" \/ ~started
  /\ Refuse

AcceptEnd ==
  /\ pc = "decode" /\ input > Len(word)
  /\ quote = "" /\ started
  /\ pc' = "add"
  /\ UNCHANGED <<origin, args, reader, decoder, arguments>>

\* add_input, and the next line.
AddInput ==
  /\ pc = "add"
  /\ arguments' = Append(arguments, output)
  /\ pc' = "read" /\ line' = <<>> /\ capacity' = 0
  /\ UNCHANGED <<origin, args, text, pos, lost, decoder>>

\* add_input merges a definition file that cannot be read.
AddInputFails ==
  /\ pc = "add"
  /\ pc' = "failed"
  /\ UNCHANGED <<origin, args, reader, decoder, arguments>>

\* The steps of the program itself.
Step ==
  \/ ReadCharacter \/ ReadNewline \/ ReadUnended \/ EndOfFile \/ CloseFails
  \/ QuotedCharacter \/ CloseQuote \/ BlankOutside \/ SecondWord \/ OpenQuote
  \/ PlainCharacter \/ Escaped \/ TrailingEscape \/ RefuseEnd \/ AcceptEnd
  \/ AddInput \/ AddInputFails

Next == Step \/ ReadFails

-----------------------------------------------------------------------------
(* Properties.                                                              *)

\* The generator gets exactly the arguments Bazel was given, quotes, blanks and
\* backslashes included; only an argument with a newline in it is refused, for
\* that one is two lines, the first with an open quote.
ParametersExact ==
  origin = "bazel" /\ ~lost =>
    /\ pc = "done" => arguments = args
    /\ pc = "refused" => \E i \in DOMAIN args : Newline \in ToSet(args[i])
    /\ \A i \in DOMAIN arguments : arguments[i] = args[i]

Prefix(p, tails) == {p \o t : t \in tails}

\* What the text inside quotes may stand for from position i up to the closing
\* quote at j, if rest says it for the positions behind.
InsideAt(s, q, j, i, rest) ==
  IF i = j THEN {<<>>}
  ELSE IF s[i] = q THEN {}
  ELSE IF q = Double /\ s[i] = Escape
       THEN IF i + 1 < j THEN Prefix(<<s[i + 1]>>, rest[i + 2]) ELSE {}
  ELSE Prefix(<<s[i]>>, rest[i + 1])

Inside(s, q, j) == LET B[i \in 1..j] == InsideAt(s, q, j, i, B) IN B

\* The grammar of a shell word: what s may stand for from position i on, if rest
\* says it for the positions behind.
WordAt(s, i, rest) ==
  LET n == Len(s)
  IN  IF i > n THEN {<<>>}
      ELSE IF s[i] \in {Single, Double}
           THEN UNION {UNION {Prefix(b, rest[j + 1]) : b \in Inside(s, s[i], j)[i + 1]} :
                         j \in {k \in (i + 1)..n : s[k] = s[i]}}
      ELSE IF s[i] = Escape
           THEN IF i < n THEN Prefix(<<s[i + 1]>>, rest[i + 2]) ELSE {}
      ELSE IF s[i] \in Spaces THEN {}
      ELSE Prefix(<<s[i]>>, rest[i + 1])

Words(s) == LET W[i \in 1..(Len(s) + 1)] == WordAt(s, i, W) IN W

Values(s) == IF s = <<>> THEN {} ELSE Words(s)[1]

\* Whatever the text, a line is accepted exactly when it is one shell word, and
\* what is handed on is the value of that word.
LineIsOneWord ==
  /\ pc = "add" => Values(word) = {output}
  /\ pc = "refused" => Values(word) = {}

\* The line with its terminator stays inside its buffer, and the decoder never
\* writes over a character it has yet to read.
LineInBounds ==
  /\ line # <<>> \/ pc \in {"decode", "add"} => Len(line) < capacity
  /\ pc \in {"decode", "add"} => Len(output) < input
=============================================================================
