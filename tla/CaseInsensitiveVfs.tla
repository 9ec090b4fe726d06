------------------------- MODULE CaseInsensitiveVfs -------------------------
(***************************************************************************)
(* The case_insensitive_vfs tool: main() parses its arguments, generates   *)
(* an overlay that lists every root directory recursively, and only then   *)
(* writes it.  The recursion of render_directory is the stack "frames";    *)
(* the text is the sequence "overlay" of its JSON tokens.  What a          *)
(* directory lists is what module EntrySelection promises.                 *)
(*                                                                         *)
(* The directory tree is found out while it is walked and then stays as it *)
(* is: a directory is given any content the first time it is read.         *)
(***************************************************************************)
EXTENDS CaseFolding, Sequences, FiniteSets, SequencesExt

CONSTANTS
  Arguments,   \* command-line words, "-root" and "-output" among them
  Generic,     \* ci_generic_path of each argument
  PathOrder,   \* the rank of a generic path under strcmp
  MaxArgs,     \* bound on the length of the command line
  MaxDepth,    \* bound on the depth of the tree
  MaxNodes     \* bound on the entries of all directories

\* What ci_path_info finds: symbolic links to files count as files.
Kinds == {"directory", "directory link", "file", "other", "unreadable"}

VARIABLES
  argv,      \* the arguments that are left
  roots,     \* the values of -root, sorted before the walk
  output,    \* whether -output was given
  pc,
  next,      \* the next root to render
  tree,      \* the content of every directory that was read
  frames,    \* active calls of render_directory, the outermost first
  overlay,   \* the tokens of the text_buffer
  file,      \* the output file: "old", "partial" or "overlay"
  exit       \* the exit status, -1 while running

vars == <<argv, roots, output, pc, next, tree, frames, overlay, file, exit>>

-----------------------------------------------------------------------------
(* main: the command line.                                                  *)

Init ==
  /\ argv \in UNION {[1..n -> Arguments] : n \in 0..MaxArgs}
  /\ roots = <<>> /\ output = FALSE
  /\ pc = "parse"
  /\ next = 1 /\ tree = <<>> /\ frames = <<>> /\ overlay = <<>>
  /\ file = "old"
  /\ exit = -1

Exit(status) == pc' = "done" /\ exit' = status

ParseRoot ==
  /\ pc = "parse" /\ Len(argv) >= 2 /\ argv[1] = "-root"
  /\ roots' = Append(roots, argv[2])
  /\ argv' = SubSeq(argv, 3, Len(argv))
  /\ UNCHANGED <<output, pc, next, tree, frames, overlay, file, exit>>

ParseOutput ==
  /\ pc = "parse" /\ Len(argv) >= 2 /\ argv[1] = "-output"
  /\ output' = TRUE
  /\ argv' = SubSeq(argv, 3, Len(argv))
  /\ UNCHANGED <<roots, pc, next, tree, frames, overlay, file, exit>>

\* A flag without a value, an unknown argument, or no -output.
ParseFails ==
  /\ pc = "parse"
  /\ \/ Len(argv) = 1
     \/ Len(argv) > 1 /\ argv[1] \notin {"-root", "-output"}
     \/ argv = <<>> /\ ~output
  /\ Exit(2)
  /\ UNCHANGED <<argv, roots, output, next, tree, frames, overlay, file>>

NoRoots ==
  /\ pc = "parse" /\ argv = <<>> /\ output
  /\ roots = <<>>
  /\ Exit(1)
  /\ UNCHANGED <<argv, roots, output, next, tree, frames, overlay, file>>

\* compare_roots.
Sorted(r) ==
  \A i, j \in DOMAIN r : i < j => PathOrder[Generic[r[i]]] <= PathOrder[Generic[r[j]]]

\* qsort of the roots; roots with equal generic paths may change places.
SortRoots ==
  /\ pc = "parse" /\ argv = <<>> /\ output
  /\ roots # <<>>
  /\ \E r \in {r \in [DOMAIN roots -> Arguments] : Sorted(r)} :
       /\ \A a \in Arguments : Cardinality({i \in DOMAIN r : r[i] = a})
                               = Cardinality({i \in DOMAIN roots : roots[i] = a})
       /\ roots' = r
  /\ pc' = "walk"
  /\ UNCHANGED <<argv, output, next, tree, frames, overlay, file, exit>>

-----------------------------------------------------------------------------
(* render_directory.  Paths are sequences of names below a generic root     *)
(* path: on Windows every spelling of a root names the same directory.      *)

\* A token and the generic path it is about.
Token(t, path) == [t |-> t, path |-> path]
Comma == [t |-> ",", path |-> <<>>]

\* The contents a directory can have: those it had before, or any.
Contents(path) ==
  IF path \in DOMAIN tree THEN {tree[path]}
  ELSE LET used == FoldFunction(LAMBDA c, sum : sum + Cardinality(DOMAIN c), 0, tree)
       IN  {c \in UNION {[S -> Kinds] : S \in SUBSET Names} :
              /\ used + Cardinality(DOMAIN c) <= MaxNodes
              /\ Len(path) >= MaxDepth => \A n \in DOMAIN c : c[n] # "directory"}

\* The names in the order of compare_entries.
Ordered(S) ==
  CHOOSE s \in [1..Cardinality(S) -> S] :
    \A i, j \in 1..Cardinality(S) : i < j => Before(s[i], s[j])

\* Mutant: every entry is listed, whatever it folds to.
EntriesAll(S) == Ordered(S)

\* ci_collect_preferred_entries, when it succeeds.
Entries(S) == Ordered(Preferred(S))

\* The call for a directory: collect its entries and open it.
Enter(path) ==
  \E c \in Contents(path) :
    /\ tree' = [p \in DOMAIN tree \cup {path} |-> IF p = path THEN c ELSE tree[p]]
    /\ IF Ambiguous(DOMAIN c)
       THEN /\ pc' = "unwind"
            /\ UNCHANGED <<frames, overlay>>
       ELSE /\ frames' = Append(frames, [path |-> path, entries |-> Entries(DOMAIN c),
                                         index |-> 1])
            /\ overlay' = Append(overlay, Token("{", path))
                          \o IF DOMAIN c = {} THEN <<>> ELSE <<Token("[", path)>>
            /\ pc' = pc

Top == frames[Len(frames)]
Entry == Append(Top.path, Top.entries[Top.index])
KindOf(path) == tree[Front(path)][Last(path)]

\* Mutant: the separator is written after the last entry too.
SeparatorAlways(f) == <<Comma>>

\* The separator after the entry at index.
Separator(f) == IF f.index # Len(f.entries) THEN <<Comma>> ELSE <<>>

\* The loop goes on with the next entry of the last frame of fs.
Advanced(fs) ==
  LET f == fs[Len(fs)]
  IN  Append(Front(fs), [path |-> f.path, entries |-> f.entries, index |-> f.index + 1])

EnterRoot ==
  /\ pc = "walk" /\ frames = <<>> /\ next <= Len(roots)
  /\ Enter(<<Generic[roots[next]]>>)
  /\ UNCHANGED <<argv, roots, output, next, file, exit>>

InLoop == pc = "walk" /\ frames # <<>>
HasEntry == InLoop /\ Top.index <= Len(Top.entries)

EnterDirectory ==
  /\ HasEntry
  /\ KindOf(Entry) = "directory"
  /\ Enter(Entry)
  /\ UNCHANGED <<argv, roots, output, next, file, exit>>

RenderFile ==
  /\ HasEntry
  /\ KindOf(Entry) = "file"
  /\ overlay' = Append(overlay, Token("file", Entry)) \o Separator(Top)
  /\ frames' = Advanced(frames)
  /\ UNCHANGED <<argv, roots, output, pc, next, tree, file, exit>>

\* stat fails, or the entry is a directory link or no regular file.
RefuseEntry ==
  /\ HasEntry
  /\ KindOf(Entry) \in {"directory link", "other", "unreadable"}
  /\ pc' = "unwind"
  /\ UNCHANGED <<argv, roots, output, next, tree, frames, overlay, file, exit>>

\* opendir or readdir fails for the directory about to be entered.
CollectFails ==
  /\ pc = "walk"
  /\ IF frames = <<>> THEN next <= Len(roots)
     ELSE HasEntry /\ KindOf(Entry) = "directory"
  /\ pc' = "unwind"
  /\ UNCHANGED <<argv, roots, output, next, tree, frames, overlay, file, exit>>

\* Every entry is rendered: close the directory and return to the caller, the
\* loop of the parent directory or the loop over the roots.
CloseDirectory ==
  /\ InLoop /\ Top.index > Len(Top.entries)
  /\ LET rest == Front(frames)
         closing == (IF Top.entries = <<>> THEN <<>> ELSE <<Token("]", Top.path)>>)
                    \o <<Token("}", Top.path)>>
     IN  IF rest = <<>>
         THEN /\ overlay' = overlay \o closing
                            \o IF next # Len(roots) THEN <<Comma>> ELSE <<>>
              /\ next' = next + 1
              /\ frames' = <<>>
         ELSE /\ overlay' = overlay \o closing \o Separator(rest[Len(rest)])
              /\ frames' = Advanced(rest)
              /\ next' = next
  /\ UNCHANGED <<argv, roots, output, pc, tree, file, exit>>

\* A failed call frees its entries and fails its caller.
Unwind ==
  /\ pc = "unwind" /\ frames # <<>>
  /\ frames' = Front(frames)
  /\ UNCHANGED <<argv, roots, output, pc, next, tree, overlay, file, exit>>

WalkFails ==
  /\ pc = "unwind" /\ frames = <<>>
  /\ overlay' = <<>>
  /\ Exit(1)
  /\ UNCHANGED <<argv, roots, output, next, tree, frames, file>>

-----------------------------------------------------------------------------
(* main: the output file.                                                   *)

Walked == pc = "walk" /\ frames = <<>> /\ next > Len(roots)

OpenFails ==
  /\ Walked
  /\ Exit(1)
  /\ UNCHANGED <<argv, roots, output, next, tree, frames, overlay, file>>

\* fwrite is short, or fclose fails.
WriteFails ==
  /\ Walked
  /\ file' = "partial"
  /\ Exit(1)
  /\ UNCHANGED <<argv, roots, output, next, tree, frames, overlay>>

Write ==
  /\ Walked
  /\ file' = "overlay"
  /\ Exit(0)
  /\ UNCHANGED <<argv, roots, output, next, tree, frames, overlay>>

Done == pc = "done" /\ UNCHANGED vars

Next ==
  \/ ParseRoot \/ ParseOutput \/ ParseFails \/ NoRoots \/ SortRoots
  \/ EnterRoot \/ EnterDirectory \/ RenderFile \/ RefuseEntry \/ CollectFails
  \/ CloseDirectory \/ Unwind \/ WalkFails
  \/ OpenFails \/ WriteFails \/ Write \/ Done

Spec == Init /\ [][Next]_vars

-----------------------------------------------------------------------------
(* Properties.                                                              *)

\* What may follow what in JSON.
Follows ==
  {<<"{", "[">>, <<"{", "}">>, <<"[", "{">>, <<"[", "file">>, <<"file", ",">>,
   <<"file", "]">>, <<"}", ",">>, <<"}", "]">>, <<",", "{">>, <<",", "file">>, <<"]", "}">>}

\* The tokens of one kind.
Tokens(t) == {i \in DOMAIN overlay : overlay[i].t = t}

\* The overlay does not depend on the order of the -root flags: its roots are
\* sorted by their generic paths.
RootsInOrder ==
  \A i, j \in Tokens("{") :
    i < j /\ Len(overlay[i].path) = 1 /\ Len(overlay[j].path) = 1
      => PathOrder[overlay[i].path[1]] <= PathOrder[overlay[j].path[1]]

\* The text is well-formed JSON at every moment of the recursion, with as many
\* open directories as there are calls and its roots in order, and complete when
\* it is written.
WellFormed ==
  /\ \A i \in 1..(Len(overlay) - 1) : <<overlay[i].t, overlay[i + 1].t>> \in Follows
  /\ pc = "walk" => Cardinality(Tokens("{")) - Cardinality(Tokens("}")) = Len(frames)
  /\ exit = 0 => overlay # <<>> /\ Last(overlay).t = "}"
  /\ RootsInOrder

\* The files a case-insensitive view of the roots has to show: every step from
\* the root to the file is a preferred entry of its directory.
Visible ==
  {p \in {Append(d, n) : d \in DOMAIN tree, n \in Names} :
     /\ \A k \in 2..Len(p) :
          LET d == SubSeq(p, 1, k - 1)
          IN  d \in DOMAIN tree /\ p[k] \in Preferred(DOMAIN tree[d])
     /\ KindOf(p) = "file"}

\* The output file is not touched until the text lists exactly the visible files,
\* each as often as its root was given, so that no two entries of a directory
\* fold to the same name and a failed walk leaves the previous overlay in place;
\* and exit status 0 means that this text is the output.
OutputIsComplete ==
  /\ exit = 0 => file = "overlay"
  /\ file # "old" =>
       /\ {overlay[i].path : i \in Tokens("file")} = Visible
       /\ \A i \in Tokens("file") :
            Cardinality({j \in Tokens("file") : overlay[j] = overlay[i]})
              = Cardinality({k \in DOMAIN roots : Generic[roots[k]] = overlay[i].path[1]})
=============================================================================
