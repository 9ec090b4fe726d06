---------------------------- MODULE MCSmallTools ----------------------------
(* Lists of two arguments with four characters together and every text of   *)
(* five characters, over an ordinary character and all special ones; paths  *)
(* over two characters, long enough to double a buffer of two twice;        *)
(* strings of four bytes with a byte of every kind: ordinary, quote,        *)
(* backslash, letters that follow a backslash, control characters with a    *)
(* letter of their own and without, and a byte above 127.                   *)
EXTENDS SmallTools

ShellChars == {"a", " ", "\n", "'", "\"", "\\"}
HeaderChars == {"h", "k"}
Bytes == {97, 34, 92, 117, 10, 31, 128}
=============================================================================
