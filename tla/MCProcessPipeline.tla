-------------------------- MODULE MCProcessPipeline --------------------------
\* Hosts, paths and arguments for ProcessPipeline.  Names have length 2 except
\* two, MAX_DNAME_LEN is 4, and a path of five names fits the buffer
\* if none of them is longer.
EXTENDS ProcessPipeline

MCHosts ==
    {[known |-> FALSE, student |-> "none", form |-> "other", number |-> 0],
     [known |-> TRUE, student |-> "s1", form |-> "other", number |-> 0],
     [known |-> TRUE, student |-> "s1", form |-> "aN", number |-> 2]}

\* The last two are captured in part, the one as a program of an assignment, the
\* other as a compiler.
MCBinaries ==
    {<<"usr", "bin", "gcc">>, <<"usr", "bin", "python">>, <<"usr", "bin", "ls">>,
     <<"home", "coder", "project", "assignment-1">>,
     <<"workspace", "os-1-s1", "assignment-2", "tab">>,
     <<"x", "workspace", "os-1-s1", "assignment-1", "x", "x">>,
     <<"long", "usr", "bin", "gcc">>}

\* The fifth is too deep and the sixth has no room, and what is captured of them looks
\* like the path of an assignment; of the last two it no longer does.
MCDirs ==
    {<<>>,
     <<"home", "coder", "project", "assignment-1">>,
     <<"home", "coder", "project", "assignments", "assignment-1">>,
     <<"x", "home", "coder", "project", "assignment-1">>,
     <<"x", "home", "coder", "project", "assignment-2", "x">>,
     <<"x", "workspace", "os-1-s1", "assignment-2", "edge">>,
     <<"workspace", "os-1-s1", "assignment-2", "edge", "x">>,
     <<"usr", "long", "x">>}

Argument(kind, abs, names, len) ==
    [kind |-> kind, abs |-> abs, names |-> names, len |-> len]

\* x.c, x.py and what may be cut to them: x.c++ and x.pyc.
XC == Argument("c", FALSE, <<"x">>, 2)
XPy == Argument("py", FALSE, <<"x">>, 2)
XCpp == Argument("c", FALSE, <<"x++">>, 4)
XPyc == Argument("other", FALSE, <<>>, 3)

MCArgs ==
    {Argument("option", FALSE, <<>>, 1), Argument("module", FALSE, <<>>, 1),
     Argument("other", FALSE, <<>>, 1), XC, XPy, XCpp, XPyc,
     Argument("c", FALSE, <<"tab">>, 1),
     Argument("c", FALSE, <<"..", "assignment-2", "x">>, 2),
     Argument("c", TRUE, <<"home", "coder", "project", "assignment-1", "x">>, 2)}

MCCutArg ==
    [a \in MCArgs |-> [k \in 1..(a.len - 1) |->
        CASE a = XCpp /\ k = 2 -> XC
          [] a = XPyc /\ k = 2 -> XPy
          [] OTHER -> Argument("other", FALSE, <<>>, k)]]

MCNameLen ==
    [name \in {"usr", "bin", "lib", "llvm", "gcc", "g++", "clang", "python", "ls",
               "home", "coder", "project", "assignments", "assignment-1",
               "assignment-2", "workspace", "os-1-s1", "x", "x++", "..", "tab",
               "edge", "long"} |->
        CASE name = "edge" -> 4 [] name = "long" -> 5 [] OTHER -> 2]
=============================================================================
