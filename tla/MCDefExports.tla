----------------------------- MODULE MCDefExports -----------------------------
(* One generator and many command lines: which symbols are exported. *)
EXTENDS DefFileGenerator, TLC

Line(name, form, type) == [sym |-> [name |-> name, form |-> form], type |-> type]
Obj(id, lines) == [kind |-> "obj", id |-> id, funcs |-> {}, data |-> {}, lines |-> lines]
Def(id, funcs, data) ==
    [kind |-> "def", id |-> id, funcs |-> funcs, data |-> data, lines |-> <<>>]

\* Definitions and uses of f in several forms and types, in one object or in
\* two, and definition files that also list it.
MCArguments == {
    Obj("a", <<Line("f", "plain", "T"), Line("g", "plain", "D")>>),
    Obj("b", <<Line("f", "imp", "R"), Line("f", "stdcall", "T")>>),
    Obj("c", <<Line("f", "plain", "U"), Line("g", "imp", "U"), Line("v", "vftable", "R")>>),
    Obj("d", <<Line("v", "plain", "R"), Line("g", "imp", "D"),
               Line("h", "msvcHidden", "T"), Line("h", "gnuHidden", "T")>>),
    Obj("e", <<Line("g", "plain", "C"), Line("f", "plain", "t"), Line("h", "plain", "I")>>),
    Obj("x", <<Line("f", "plain", "T"), Line("f", "plain", "bad")>>),
    Def("p", {Plain("f"), Plain("k")}, {Plain("g")}),
    [Obj("q", <<>>) EXCEPT !.kind = "bad"]}

MCInputs ==
    [args : {<<>>} \cup {<<a>> : a \in MCArguments} \cup {<<a, b>> : a, b \in MCArguments}
            \cup {<<a, b, c>> : a, b, c \in MCArguments},
     abi : {"msvc", "gnu"}, nm : {TRUE}]
    \cup [args : {<<a>> : a \in MCArguments}, abi : {"msvc", "other"}, nm : {FALSE}]
==============================================================================
