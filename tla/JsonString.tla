----------------------------- MODULE JsonString -----------------------------
(***************************************************************************)
(* ci_json_string, which writes every name and path of the overlay: one    *)
(* loop computes the size of the result, a second one fills it.  Strings   *)
(* are sequences of bytes.                                                 *)
(***************************************************************************)
EXTENDS Naturals, Sequences, SequencesExt

CONSTANTS
  JsonBytes,    \* the bytes of the strings to be written
  MaxJson       \* their length

VARIABLES
  pc,
  value,        \* the argument
  index,        \* the byte of the loop's next turn
  size,         \* bytes counted, then allocated
  result        \* result[0 .. offset - 1]

vars == <<pc, value, index, size, result>>

Quote == 34
Backslash == 92
Hex == <<48, 49, 50, 51, 52, 53, 54, 55, 56, 57, 97, 98, 99, 100, 101, 102>>
LetterU == 117

\* \b, \t, \n, \f, \r and the letters that stand for them.
Short == {<<8, 98>>, <<9, 116>>, <<10, 110>>, <<12, 102>>, <<13, 114>>}

Init ==
  /\ pc = "size"
  /\ value \in BoundedSeq(JsonBytes, MaxJson)
  /\ index = 1 /\ size = 3 /\ result = <<>>

-----------------------------------------------------------------------------

\* Mutant: every control character is taken for one with a letter.
CountedShort(byte) == IF byte < 32 \/ byte \in {Quote, Backslash} THEN 2 ELSE 1

\* What the first loop adds for a byte.
Counted(byte) ==
  IF byte < 32 THEN 6 ELSE IF byte \in {Quote, Backslash} THEN 2 ELSE 1

CountByte ==
  /\ pc = "size" /\ index <= Len(value)
  /\ size' = size + Counted(value[index])
  /\ index' = index + 1
  /\ UNCHANGED <<pc, value, result>>

Allocate ==
  /\ pc = "size" /\ index > Len(value)
  /\ result' = <<Quote>>
  /\ index' = 1
  /\ pc' = "fill"
  /\ UNCHANGED <<value, size>>

Escape(byte) == {e[2] : e \in {s \in Short : s[1] = byte}} \cup ({Quote, Backslash} \cap {byte})

\* What the second loop writes for a byte.
Written(byte) ==
  IF Escape(byte) # {} THEN <<Backslash, CHOOSE e \in Escape(byte) : TRUE>>
  ELSE IF byte < 32
       THEN <<Backslash, LetterU, Hex[1], Hex[1], Hex[(byte \div 16) + 1], Hex[(byte % 16) + 1]>>
       ELSE <<byte>>

FillByte ==
  /\ pc = "fill" /\ index <= Len(value)
  /\ result' = result \o Written(value[index])
  /\ index' = index + 1
  /\ UNCHANGED <<pc, value, size>>

Close ==
  /\ pc = "fill" /\ index > Len(value)
  /\ result' = Append(result, Quote)
  /\ pc' = "done"
  /\ UNCHANGED <<value, index, size>>

Next == CountByte \/ Allocate \/ FillByte \/ Close

-----------------------------------------------------------------------------
(* Properties.                                                              *)

Digit(byte) == CHOOSE d \in 0..15 : Hex[d + 1] = byte

Number(a, b, c, d) == 4096 * Digit(a) + 256 * Digit(b) + 16 * Digit(c) + Digit(d)

\* What a JSON parser reads from position i to the closing quote, if rest says it
\* for the positions behind; <<0>> is in it if the text is not a string.
ReadsAt(text, i, rest) ==
  LET n == Len(text)
  IN  IF i > n \/ text[i] < 32 THEN <<0>>
      ELSE IF text[i] = Quote THEN IF i = n THEN <<>> ELSE <<0>>
      ELSE IF text[i] # Backslash THEN <<text[i]>> \o rest[i + 1]
      ELSE IF i + 5 <= n /\ text[i + 1] = LetterU
           THEN <<Number(text[i + 2], text[i + 3], text[i + 4], text[i + 5])>> \o rest[i + 6]
      ELSE IF i < n /\ text[i + 1] \in {Quote, Backslash}
           THEN <<text[i + 1]>> \o rest[i + 2]
      ELSE IF i < n /\ \E s \in Short : s[2] = text[i + 1]
           THEN <<(CHOOSE s \in Short : s[2] = text[i + 1])[1]>> \o rest[i + 2]
      ELSE <<0>>

Reads(text) ==
  LET From[i \in 2..(Len(text) + 1)] == ReadsAt(text, i, From)
  IN  IF Len(text) < 2 \/ text[1] # Quote THEN <<0>> ELSE From[2]

\* The second loop never writes behind the size the first one counted, the
\* terminating NUL included, and a parser reads back what was written.
JsonExact ==
  /\ pc \in {"fill", "done"} => Len(result) < size
  /\ pc = "done" => Reads(result) = value
=============================================================================
