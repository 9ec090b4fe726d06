--------------------------- MODULE MCVfsGenerator ---------------------------
(* A call: three spellings of one name, two of another; every subset of them *)
(* is a directory, read in every order, into an array that starts with one   *)
(* slot so that it grows three times.  The program: command lines of up to   *)
(* three flags over two spellings of one root path; trees of two levels with *)
(* three entries.                                                            *)
EXTENDS VfsGenerator, TLC

Spellings == {"FOO", "Foo", "foo", "BAR", "bar"}
Lowered == "FOO" :> "foo" @@ "Foo" :> "foo" @@ "foo" :> "foo" @@
           "BAR" :> "bar" @@ "bar" :> "bar"
ByteOrder == "BAR" :> 1 @@ "FOO" :> 2 @@ "Foo" :> 3 @@ "bar" :> 4 @@ "foo" :> 5
DotEntries == {".", ".."}

Words == {"-root", "-output", "sdk\\um", "sdk/um"}
Slashes == "-root" :> "-root" @@ "-output" :> "-output" @@
           "sdk\\um" :> "sdk/um" @@ "sdk/um" :> "sdk/um"
Ranks == "-output" :> 1 @@ "-root" :> 2 @@ "sdk/um" :> 3
=============================================================================
