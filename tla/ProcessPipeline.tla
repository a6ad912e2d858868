--------------------------- MODULE ProcessPipeline ---------------------------
(***************************************************************************)
(* How procmon decides whether a process is a student's work and on which  *)
(* assignment: the paths and arguments bpf.c captures of it, the pipeline  *)
(* that labels, filters and attributes it, and what the sender makes of    *)
(* the event.                                                              *)
(*                                                                         *)
(* A path is the sequence of its names.  bpf.c walks it from the leaf and  *)
(* stops early where it is too deep, where a name is too long and where    *)
(* the buffer is full, so that what is captured may be only the end of it, *)
(* which looks like an absolute path all the same.  Of the arguments it    *)
(* copies the first bytes, which may end within an argument.  The pipeline *)
(* does not look at error_flags.  An argument is known by what the parsers *)
(* ask of it; empty ones are left out, as they are by the pipeline.        *)
(***************************************************************************)
EXTENDS Integers, Sequences, FiniteSets

CONSTANTS
    Hosts,          \* host names: known, student, suffix (form, number)
    Binaries,       \* executables, as sequences of names
    Dirs,           \* working directories, as sequences of names
    Args,           \* arguments: kind, abs, names, len (in bytes)
    CutArg,         \* [argument -> [k -> what its first k bytes look like]]
    MaxArgs,        \* bound on the number of arguments
    NameLen,        \* [name -> its length]
    MaxLevel,       \* MAX_DENTRY_LEVEL
    MaxName,        \* MAX_DNAME_LEN
    BufSize,        \* MAX_PATH_LEN
    ArgSize         \* ARGSIZE, in bytes

Names == DOMAIN NameLen
Texts == [kind : {"option", "module", "c", "py", "other"}, abs : BOOLEAN,
          names : Seq(Names), len : Nat \ {0}]

\* A dentry is never named "..": only an argument's path is.
ASSUME PipelineAssumption ==
    /\ MaxArgs \in Nat /\ MaxLevel \in Nat \ {0} /\ MaxName \in Nat
    /\ BufSize \in Nat \ {0} /\ ArgSize \in Nat
    /\ NameLen \in [Names -> Nat \ {0}]
    /\ Hosts \subseteq [known : BOOLEAN, student : STRING, form : STRING, number : 0..2]
    /\ \A h \in Hosts : h.known => h.student # "none"
    /\ Binaries \cup Dirs \subseteq Seq(Names \ {".."})
    /\ Args \subseteq Texts
    /\ \A a \in Args : \A k \in 1..(a.len - 1) : CutArg[a][k] \in Texts

VARIABLES
    process,    \* the process as it is: host, binary, cwd, args
    struct,     \* ProcessStruct: what bpf.c captured of it
    outcome     \* what became of it: out, and the event

vars == <<process, struct, outcome>>

Range(f) == {f[x] : x \in DOMAIN f}
-----------------------------------------------------------------------------
(***************************************************************************)
(* bpf.c                                                                   *)
(***************************************************************************)

\* What bpf_probe_read_str leaves of a name of MaxName characters: one less.
Kept(name) == IF NameLen[name] = MaxName THEN "cut" ELSE name
KeptLen(name) == IF NameLen[name] = MaxName THEN MaxName - 1 ELSE NameLen[name]

\* Faulty variant: the walk ends without a flag.
StopSilently(w, flag) == [w EXCEPT !.on = FALSE]

Stop(w, flag) == [w EXCEPT !.flags = @ \cup {flag}, !.on = FALSE]

\* get_dentry_path's loop after i turns: names still to go, the path so far,
\* the position in the buffer, the flags, and whether it goes on.
Walk(path) ==
    LET walk[i \in 0..MaxLevel] ==
          IF i = 0
          THEN [left |-> Len(path), got |-> <<>>, pos |-> BufSize - 1,
                flags |-> {}, on |-> TRUE]
          ELSE LET w == walk[i - 1]
                   name == path[w.left]
               IN  IF ~w.on \/ w.left = 0
                   THEN [w EXCEPT !.on = FALSE]
                   ELSE IF NameLen[name] > MaxName
                   THEN Stop(w, "DNAME_TOO_LONG")
                   ELSE IF w.pos - KeptLen(name) - 1 < 0
                   THEN [w EXCEPT !.on = FALSE]
                   ELSE [left |-> w.left - 1,
                         got |-> <<Kept(name)>> \o w.got,
                         pos |-> w.pos - KeptLen(name) - 1,
                         flags |-> IF i = MaxLevel /\ w.left > 1
                                   THEN w.flags \cup {"DENTRY_TOO_DEEP"}
                                   ELSE w.flags,
                         on |-> TRUE]
    IN  walk[MaxLevel]

\* args_handler's copy after i arguments, each of which ends in a NUL: what there is
\* of them, the bytes left, and whether some were left out.
CopyArgs(args) ==
    LET copy[i \in 0..Len(args)] ==
          IF i = 0 THEN [got |-> <<>>, room |-> ArgSize, long |-> FALSE]
          ELSE LET b == copy[i - 1]
                   a == args[i]
               IN  [got |-> IF b.room = 0 THEN b.got
                            ELSE IF a.len <= b.room THEN Append(b.got, a)
                            ELSE Append(b.got, CutArg[a][b.room]),
                    room |-> IF a.len < b.room THEN b.room - a.len - 1 ELSE 0,
                    long |-> b.long \/ a.len >= b.room]
    IN  copy[Len(args)]

Capture(p) ==
    LET binary == Walk(p.binary)
        cwd == Walk(p.cwd)
        args == CopyArgs(p.args)
    IN  [host |-> p.host, binary |-> binary.got, cwd |-> cwd.got, args |-> args.got,
         flags |-> binary.flags \cup cwd.flags \cup
                   IF args.long THEN {"ARGS_TOO_LONG"} ELSE {}]
-----------------------------------------------------------------------------
(***************************************************************************)
(* The parsers.                                                            *)
(***************************************************************************)

\* StudentParser: the suffix of an assignment's workspace is N or aN.
AssignmentOfHost(h) == IF h.form \in {"N", "aN"} THEN h.number ELSE 0

\* ProcessClassifier.PROCESS_PATTERNS, whose version numbers are left out.
Patterns ==
    [gcc |-> <<"usr", "bin", "gcc">>,
     clang |-> <<"usr", "lib", "llvm", "bin", "clang">>,
     gpp |-> <<"usr", "bin", "g++">>,
     python |-> <<"usr", "bin", "python">>]

Classify(binary) ==
    IF binary \in Range(Patterns)
    THEN CHOOSE type \in DOMAIN Patterns : Patterns[type] = binary
    ELSE "unknown"

Compilers == {"gcc", "clang", "gpp"}
RequiresTargetFile == Compilers \cup {"python"}

\* FileParser
NoSource == [kind |-> "none", abs |-> FALSE, names |-> <<>>, len |-> 0]

FindPythonFile(args) ==
    LET scripts == {i \in DOMAIN args : args[i].kind = "py"}
    IN  IF scripts = {} \/ \E i \in DOMAIN args : args[i].kind = "module"
        THEN NoSource
        ELSE args[CHOOSE i \in scripts : \A j \in scripts : i <= j]

\* One pass over the arguments: skip_next, and what has been found.
FindCFile(args) ==
    LET pass[i \in 0..Len(args)] ==
          IF i = 0 THEN [skip |-> FALSE, found |-> NoSource]
          ELSE LET b == pass[i - 1]
               IN  IF b.found # NoSource THEN b
                   ELSE IF b.skip THEN [b EXCEPT !.skip = FALSE]
                   ELSE IF args[i].kind = "option" THEN [b EXCEPT !.skip = TRUE]
                   ELSE IF args[i].kind = "c" THEN [b EXCEPT !.found = args[i]]
                   ELSE b
    IN  pass[Len(args)].found

FindSource(type, args) ==
    IF type = "python" THEN FindPythonFile(args) ELSE FindCFile(args)

\* os.path.normpath of an absolute path.
Normalize(path) ==
    LET norm[i \in 0..Len(path)] ==
          IF i = 0 THEN <<>>
          ELSE IF path[i] # ".." THEN Append(norm[i - 1], path[i])
          ELSE SubSeq(norm[i - 1], 1, Len(norm[i - 1]) - 1)
    IN  norm[Len(path)]

Join(cwd, source) == IF source.abs THEN source.names ELSE cwd \o source.names

\* The number of an immutable assignment directory, else 0.
AssignmentOfDir ==
    [name \in Names |-> CASE name = "assignment-1" -> 1
                                   [] name = "assignment-2" -> 2
                                   [] OTHER -> 0]
Dir(name) == IF name \in Names THEN AssignmentOfDir[name] ELSE 0

\* WORKSPACE_PATH_REGEX
IsWorkspace(name) == name = "os-1-s1"

\* Faulty variant: without the directory of a course's assignments.
HomeworkOfProject(path) ==
    LET At(i) == IF Len(path) >= i THEN Dir(path[i]) ELSE 0
    IN  IF Len(path) < 3 \/ SubSeq(path, 1, 3) # <<"home", "coder", "project">>
        THEN 0 ELSE At(4)

HomeworkOf(path) ==
    LET At(i) == IF Len(path) >= i THEN Dir(path[i]) ELSE 0
    IN  IF Len(path) >= 2 /\ path[1] = "workspace" /\ IsWorkspace(path[2]) THEN At(3)
        ELSE IF Len(path) < 3 \/ SubSeq(path, 1, 3) # <<"home", "coder", "project">> THEN 0
        ELSE IF At(4) # 0 THEN At(4)
        ELSE IF Len(path) >= 4 /\ path[4] = "assignments" THEN At(5) ELSE 0

\* PathParser.parse: it raises (-1) for a path with a tab or a line break.
Raised == -1
ParsePath(path) ==
    IF "tab" \in Range(path) THEN Raised ELSE HomeworkOf(Normalize(path))
-----------------------------------------------------------------------------
(***************************************************************************)
(* Pipeline and EventSender.                                               *)
(***************************************************************************)

Label(type, hw, source) == [type |-> type, hw |-> hw, source |-> source]
NoType == "none"

\* _label_process
LabelProcess(s) ==
    LET system == Classify(s.binary)
        binaryHw == ParsePath(s.binary)
        source == FindSource(system, s.args)
    IN  IF binaryHw = Raised THEN Label(NoType, Raised, NoSource)
        ELSE IF binaryHw # 0 /\ system = "unknown"
        THEN Label("user_binary", binaryHw, NoSource)
        ELSE IF system \notin RequiresTargetFile THEN Label(NoType, 0, NoSource)
        ELSE IF source = NoSource THEN Label(system, 0, NoSource)
        ELSE Label(system, ParsePath(Join(s.cwd, source)), source)

\* target is what the sender sends as target_path: source_file, which
\* _get_absolute_source_file has made of the source, else binary_path.
NoEvent == [type |-> NoType, student |-> "none", assignment |-> 0, target |-> <<>>]

\* Faulty variant: a filter that does not return.
DropAsEvent(why) == [out |-> "event", event |-> NoEvent]

Drop(why) == [out |-> why, event |-> NoEvent]

\* Faulty variant: the container's own assignment is only the default.
AttributeByPath(own, hw) == IF hw # 0 THEN hw ELSE own

\* The assignment of the container overrides that of the path.
Attribute(own, hw) == IF own # 0 THEN own ELSE hw

\* pipeline: the filters in their order, then the attribution.
Pipeline(s) ==
    LET label == LabelProcess(s)
        own == AssignmentOfHost(s.host)
    IN  IF ~s.host.known THEN Drop("not a student")
        ELSE IF label.hw = Raised THEN Drop("error")
        ELSE IF label.type = NoType THEN Drop("nontarget")
        ELSE IF label.type \in RequiresTargetFile /\ label.source = NoSource
        THEN Drop("filtered")
        ELSE IF label.hw = 0 /\ own = 0 THEN Drop("filtered")
        ELSE [out |-> "event",
              event |-> [type |-> label.type, student |-> s.host.student,
                         assignment |-> Attribute(own, label.hw),
                         target |-> IF label.source = NoSource THEN s.binary
                                    ELSE Join(s.cwd, label.source)]]

\* _validate_event and _serialize_event
Serialize(e) ==
    IF e.student = "none" \/ e.assignment = 0 THEN "invalid"
    ELSE IF e.type \in {"user_binary", "python"} THEN "run"
    ELSE IF e.type \in Compilers THEN "build"
    ELSE "unknown"
-----------------------------------------------------------------------------
Nothing == [host |-> "none"]
Pending == [out |-> "none", event |-> NoEvent]

Init ==
    /\ process = Nothing
    /\ struct = Nothing
    /\ outcome = Pending

\* A process runs and exits; its record comes out of the queue.
Exit ==
    /\ process = Nothing
    /\ \E h \in Hosts, b \in Binaries, d \in Dirs :
       \E n \in 0..MaxArgs : \E args \in [1..n -> Args] :
          /\ process' = [host |-> h, binary |-> b, cwd |-> d, args |-> args]
          /\ struct' = Capture(process')
    /\ UNCHANGED outcome

Handle ==
    /\ struct # Nothing
    /\ outcome' = Pipeline(struct)
    /\ struct' = Nothing
    /\ UNCHANGED process

\* The main loop has sent the event, if there is one.
Done ==
    /\ outcome.out # "none"
    /\ process' = Nothing
    /\ outcome' = Pending
    /\ UNCHANGED struct

Next == Exit \/ Handle \/ Done

Spec == Init /\ [][Next]_vars
-----------------------------------------------------------------------------
Handled == outcome.out # "none"
Sent == outcome.out = "event"
Captured == Capture(process)

\* The values each variable ranges over.
TypeOK ==
    /\ process # Nothing => process.host \in Hosts /\ process.args \in Seq(Args)
    /\ struct # Nothing => struct = Captured
    /\ outcome.out \in {"none", "not a student", "error", "nontarget",
                        "filtered", "event"}
    /\ outcome.event.assignment \in 0..2
    /\ Sent <=> outcome.event # NoEvent

\* captured is the end of path, names of MaxName characters cut.
EndOf(captured, path) ==
    LET gone == Len(path) - Len(captured)
    IN  /\ gone >= 0
        /\ \A i \in DOMAIN captured :
              \/ captured[i] = path[gone + i]
              \/ captured[i] = "cut" /\ NameLen[path[gone + i]] = MaxName

\* What a path takes of the buffer: its names and their separators.
Length(path) ==
    LET sum[i \in 0..Len(path)] ==
          IF i = 0 THEN 0 ELSE sum[i - 1] + KeptLen(path[i]) + 1
    IN  sum[Len(path)]

\* What is captured of a path is its end, but for names of MaxName characters,
\* which lose one unnoticed; and all of it when no flag is raised and there is
\* room for it.  (Lack of room raises no flag.)
PathsAreCaptured ==
    /\ EndOf(struct.binary, process.binary) /\ EndOf(struct.cwd, process.cwd)
    /\ /\ struct.flags \subseteq {"ARGS_TOO_LONG"}
       /\ Length(process.cwd) < BufSize
       => Len(struct.cwd) = Len(process.cwd)

\* What is captured of the arguments is the first of them, the last of these perhaps
\* in part; if anything is missing, that is flagged.
ArgsAreCaptured ==
    LET n == Len(struct.args)
    IN  /\ n <= Len(process.args)
        /\ \A i \in 1..n :
              LET a == process.args[i]
              IN  \/ struct.args[i] = a
                  \/ i = n /\ \E k \in 1..(a.len - 1) : struct.args[i] = CutArg[a][k]
        /\ struct.args # process.args => "ARGS_TOO_LONG" \in struct.flags

\* What bpf.c captures of a process is a part of what there is, and the flags say so,
\* but for lack of room.
CaptureIsFaithful == struct # Nothing => PathsAreCaptured /\ ArgsAreCaptured

\* The value of an option: an odd number of options stand right before it.
IsValue(args, i) ==
    \E k \in 0..(i - 1) :
        /\ k % 2 = 1
        /\ \A j \in (i - k)..(i - 1) : args[j].kind = "option"
        /\ i - k > 1 => args[i - k - 1].kind # "option"

Source(args, i, kind) ==
    /\ args[i].kind = kind
    /\ kind = "c" => ~IsValue(args, i)

IsFirst(args, kind, i) ==
    /\ Source(args, i, kind)
    /\ \A j \in 1..(i - 1) : ~Source(args, j, kind)

\* The path, as it really is, of the file the event is about: the program's own, or
\* that of the first of the captured arguments that is a source and not the value of
\* an option, though options follow one another.
Targets ==
    LET args == Captured.args
        kind == IF outcome.event.type = "python" THEN "py" ELSE "c"
    IN  IF outcome.event.type = "user_binary" THEN {process.binary}
        ELSE {Join(process.cwd, args[i]) :
                 i \in {k \in DOMAIN args : IsFirst(args, kind, k)}}

\* An event goes to the student of the container.  What it says of the file is, if
\* not the path, the end of the path of the file its process worked on, however
\* little was captured; and the assignment is the container's or, in a container of
\* several, one on that real path.  The program's type goes by the end of its path
\* that was captured; and if the source itself was cut, to another source, the file
\* is what that would be.
EventsAreRight ==
    Sent =>
        LET event == outcome.event
            own == AssignmentOfHost(process.host)
        IN  /\ process.host.known /\ event.student = process.host.student
            /\ \E path \in Targets :
                  /\ EndOf(event.target, path)
                  /\ IF own # 0 THEN event.assignment = own
                     ELSE \E i \in DOMAIN Normalize(path) :
                             Dir(Normalize(path)[i]) = event.assignment

\* The source a compiler or interpreter was given.
Sources ==
    LET kind == IF Classify(process.binary) = "python" THEN "py" ELSE "c"
    IN  IF kind = "py" /\ \E i \in DOMAIN process.args : process.args[i].kind = "module"
        THEN {}
        ELSE {i \in DOMAIN process.args : Source(process.args, i, kind)}

\* The places of assignment directories.
Roots == {<<"workspace", "os-1-s1">>, <<"home", "coder", "project">>,
          <<"home", "coder", "project", "assignments">>}
InHomework(path) ==
    \E r \in Roots : /\ Len(path) > Len(r) /\ SubSeq(path, 1, Len(r)) = r
                     /\ Dir(path[Len(r) + 1]) # 0

\* Where a student's work ought to be found: by the container's assignment or
\* the path of the program or of its first source.
IsWork ==
    LET type == Classify(process.binary)
        first == CHOOSE i \in Sources : \A j \in Sources : i <= j
    IN  IF type = "unknown" THEN InHomework(process.binary)
        ELSE /\ Sources # {}
             /\ \/ AssignmentOfHost(process.host) # 0
                \/ InHomework(Normalize(Join(process.cwd, process.args[first])))

Whole ==
    /\ Captured.binary = process.binary /\ Captured.cwd = process.cwd
    /\ Captured.args = process.args
    /\ "tab" \notin Range(process.binary) \cup Range(process.cwd)
    /\ \A i \in Sources : "tab" \notin Range(process.args[i].names)

\* Of a process that is captured whole, and whose paths have no tab or line
\* break, an event is made if and only if it is a student's work.
WorkIsReported ==
    Handled /\ Whole => (Sent <=> process.host.known /\ IsWork)

\* The sender accepts every event of the pipeline, those of compilers as builds and
\* the rest as runs.
EventsAreSendable ==
    Sent => /\ Serialize(outcome.event) \in {"run", "build"}
            /\ Serialize(outcome.event) = "build" <=> Classify(Captured.binary) \in Compilers

\* Both: outcomes are in order, and none makes the sender raise.
PipelineInv == TypeOK /\ EventsAreSendable
=============================================================================
