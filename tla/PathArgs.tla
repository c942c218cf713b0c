------------------------------ MODULE PathArgs ------------------------------
(***************************************************************************)
(* The path-mapping front end of cmd/soong_zip/soong_zip.go: flag.Parse    *)
(* calling the -C, -P, -f, -l, -D and -s setters in command-line order,    *)
(* then main's loop over fArgs, which globs each -D directory with         *)
(* recursiveGlobFiles and turns every source into a pathMapping with       *)
(* fillPathPairs.  A path is a record [abs, c]: whether it starts with "/" *)
(* and its components, which may include "." and "..";  Clean, Rel and    *)
(* Join are Go's path/filepath operations over that form.                  *)
(***************************************************************************)
EXTENDS Naturals, Sequences, SequencesExt

CONSTANTS
    Argv,       \* the command lines to try: sequences of [flag, v]
    FS,         \* the file tree below the working directory: relative
                \* component sequences to "file", "dir" or "unreadable"
    Lists,      \* list file name -> its lines after strings.Split on "\n"
    CompOrder,  \* the path components in byte order
    Blank       \* a line that is empty after strings.TrimSpace

Dot == [abs |-> FALSE, c |-> <<>>]      \* "." (and Clean(""))
Unset == [unset |-> TRUE]               \* a string flag still at ""
NoGlob == [noGlob |-> TRUE]             \* fileArg.globDir == ""

-----------------------------------------------------------------------------
(* path/filepath                                                           *)

\* Clean: drop "." components, cancel "x/..", drop ".." at the root of an
\* absolute path, keep leading ".." of a relative one.
RECURSIVE CleanComps(_, _, _)
CleanComps(stack, rest, abs) ==
    IF rest = <<>> THEN stack
    ELSE LET h == Head(rest) IN
         CASE h = "." -> CleanComps(stack, Tail(rest), abs)
           [] h = ".." /\ stack # <<>> /\ Last(stack) # ".." ->
                CleanComps(SubSeq(stack, 1, Len(stack) - 1), Tail(rest), abs)
           [] h = ".." /\ abs -> CleanComps(stack, Tail(rest), abs)
           [] OTHER -> CleanComps(Append(stack, h), Tail(rest), abs)

Clean(p) == [abs |-> p.abs, c |-> CleanComps(<<>>, p.c, p.abs)]

\* Length of the common leading components of two component sequences.
CommonLen(s, t) ==
    LET k == {i \in 0..Min({Len(s), Len(t)}) :
                \A j \in 1..i : s[j] = t[j]}
    IN Max(k)

\* Rel fails when exactly one path is absolute, or when the first base
\* component past the common part is "..".
RelFails(basepath, targpath) ==
    LET base == Clean(basepath) targ == Clean(targpath)
        k == CommonLen(base.c, targ.c)
    IN \/ base.abs # targ.abs
       \/ k < Len(base.c) /\ base.c[k + 1] = ".."

\* Mutant: the common leading components are not stripped.
Rel_allUp(basepath, targpath) ==
    [abs |-> FALSE,
     c |-> [i \in 1..Len(Clean(basepath).c) |-> ".."] \o Clean(targpath).c]

\* Rel: one ".." per remaining base component, then the rest of targ.
Rel(basepath, targpath) ==
    LET base == Clean(basepath) targ == Clean(targpath)
        k == CommonLen(base.c, targ.c)
    IN [abs |-> FALSE,
        c |-> [i \in 1..(Len(base.c) - k) |-> ".."]
                \o SubSeq(targ.c, k + 1, Len(targ.c))]

Join(p, q) == Clean([abs |-> p.abs, c |-> p.c \o q.c])

-----------------------------------------------------------------------------
(* recursiveGlobFiles                                                      *)

Rank(x) == CHOOSE i \in DOMAIN CompOrder : CompOrder[i] = x

Children(c) ==
    SetToSortSeq({d \in DOMAIN FS : Len(d) = Len(c) + 1 /\ IsPrefix(c, d)},
                 LAMBDA x, y : Rank(Last(x)) < Rank(Last(y)))

\* Mutant: the callback's `!info.IsDir()` test dropped; directories are
\* collected as sources too.
RECURSIVE WalkFiles_withDirs(_)
WalkFiles_withDirs(c) ==
    CASE FS[c] = "dir" -> LET kids == Children(c) IN
                <<c>> \o FlattenSeq([i \in DOMAIN kids |-> WalkFiles_withDirs(kids[i])])
      [] OTHER -> <<c>>

\* filepath.Walk visits a directory's names in sorted order, depth first;
\* the callback keeps every path that is not a directory.  A directory
\* whose names cannot be read is passed to the callback with its info and
\* the error; the callback sees IsDir() and returns nil, so Walk skips it.
RECURSIVE WalkFiles(_)
WalkFiles(c) ==
    CASE FS[c] = "file" -> <<c>>
      [] FS[c] = "unreadable" -> <<>>
      [] OTHER -> LET kids == Children(c)
                  IN FlattenSeq([i \in DOMAIN kids |-> WalkFiles(kids[i])])

\* Lstat of the root fails (no such path): Walk calls the callback with
\* info == nil and info.IsDir() dereferences it.
GlobMissing(p) == p.abs \/ p.c \notin DOMAIN FS

recursiveGlobFiles(p) ==
    LET files == WalkFiles(p.c)
    IN [i \in DOMAIN files |-> [abs |-> FALSE, c |-> files[i]]]


-----------------------------------------------------------------------------
(* State                                                                   *)

VARIABLES
    argv,          \* os.Args after the program name
    outGiven,      \* -o is among them (*out != "")
    pos,           \* next argument flag.Parse hands to a setter
    rootPrefix,    \* *rootPrefix (-P)
    relativeRoot,  \* *relativeRoot (-C)
    fArgs,         \* the fileArgs the -f, -l and -D setters appended
    nonDeflated,   \* nonDeflatedFiles, the -s strings as given
    k,             \* main's index into fArgs
    pathMappings,  \* main's pathMappings; arg is the fileArg index
    phase          \* "parse", "fill", "write" (handed to w.write),
                   \* "usage" (exit 2), "fatal" (log.Fatal, exit 1),
                   \* "panic" (runtime panic, exit 2)

vars == <<argv, outGiven, pos, rootPrefix, relativeRoot, fArgs, nonDeflated, k,
          pathMappings, phase>>

Init ==
    /\ argv \in Argv
    /\ outGiven \in BOOLEAN
    /\ pos = 1
    /\ rootPrefix = Dot
    /\ relativeRoot = Unset
    /\ fArgs = <<>>
    /\ nonDeflated = {}
    /\ k = 1
    /\ pathMappings = <<>>
    /\ phase = "parse"

Arg == argv[pos]

Parsing(f) == phase = "parse" /\ pos <= Len(argv) /\ Arg.flag = f

\* A setter returned an error: flag.Parse prints it and exits 2.
SetterFails ==
    /\ phase' = "usage"
    /\ UNCHANGED <<argv, outGiven, pos, rootPrefix, relativeRoot, fArgs, nonDeflated,
                   k, pathMappings>>

\* Mutant: the value's argument skipped once more.
Parsed_skipValue == pos' = pos + 2 /\ UNCHANGED <<argv, outGiven, k, pathMappings, phase>>

\* A setter succeeded; flag.Parse goes on with the next argument.
Parsed == pos' = pos + 1 /\ UNCHANGED <<argv, outGiven, k, pathMappings, phase>>

NewFileArg(srcs, glob) ==
    [prefix |-> Clean(rootPrefix), root |-> Clean(relativeRoot),
     srcs |-> srcs, glob |-> glob]

\* flag.String "C" and "P": the value is stored as given.
SetRelativeRoot ==
    /\ Parsing("C")
    /\ relativeRoot' = Arg.v
    /\ Parsed /\ UNCHANGED <<rootPrefix, fArgs, nonDeflated>>

SetRootPrefix ==
    /\ Parsing("P")
    /\ rootPrefix' = Arg.v
    /\ Parsed /\ UNCHANGED <<relativeRoot, fArgs, nonDeflated>>

\* file.Set, listFiles.Set and dir.Set first return "must pass -C before
\* ..." while *relativeRoot is still "".
NoRootYet == relativeRoot = Unset /\ SetterFails

file_Set ==
    /\ Parsing("f")
    /\ \/ NoRootYet
       \/ /\ relativeRoot # Unset
          /\ fArgs' = Append(fArgs, NewFileArg(<<Arg.v>>, NoGlob))
          /\ Parsed /\ UNCHANGED <<rootPrefix, relativeRoot, nonDeflated>>

\* ioutil.ReadFile fails for a list file that does not exist.
listFiles_Set ==
    /\ Parsing("l")
    /\ \/ NoRootYet
       \/ relativeRoot # Unset /\ Arg.v \notin DOMAIN Lists /\ SetterFails
       \/ /\ relativeRoot # Unset /\ Arg.v \in DOMAIN Lists
          /\ fArgs' = Append(fArgs, NewFileArg(Lists[Arg.v], NoGlob))
          /\ Parsed /\ UNCHANGED <<rootPrefix, relativeRoot, nonDeflated>>

dir_Set ==
    /\ Parsing("D")
    /\ \/ NoRootYet
       \/ /\ relativeRoot # Unset
          /\ fArgs' = Append(fArgs, NewFileArg(<<>>, Clean(Arg.v)))
          /\ Parsed /\ UNCHANGED <<rootPrefix, relativeRoot, nonDeflated>>

\* uniqueSet.Set: "File %q was specified twice as a file to not deflate".
uniqueSet_Set ==
    /\ Parsing("s")
    /\ \/ /\ Arg.v \notin nonDeflated
          /\ nonDeflated' = nonDeflated \cup {Arg.v}
          /\ Parsed /\ UNCHANGED <<rootPrefix, relativeRoot, fArgs>>
       \/ Arg.v \in nonDeflated /\ SetterFails

\* flag.Parse returns; without -o main calls usage() (exit 2), otherwise
\* it goes on to its fArgs loop.
ParseDone ==
    /\ phase = "parse" /\ pos > Len(argv)
    /\ phase' = IF outGiven THEN "fill" ELSE "usage"
    /\ UNCHANGED <<argv, outGiven, pos, rootPrefix, relativeRoot, fArgs, nonDeflated,
                   k, pathMappings>>

-----------------------------------------------------------------------------
(* main's loop over fArgs                                                  *)

\* fillPathPairs for one source: TrimSpace (a Blank line is skipped),
\* Clean, Rel to the -C root, Join to the -P prefix, and Store when the
\* resulting string is one of the -s arguments.
fillPathPairs(prefix, rel, src, arg) ==
    LET dest == Join(prefix, Rel(rel, Clean(src)))
    IN [dest |-> dest, src |-> Clean(src), arg |-> arg,
        zipMethod |-> IF dest \in nonDeflated THEN "store" ELSE "deflate"]

\* Mutant: the fileArg reads -C and -P when main's loop reaches it, not
\* when flag.Parse did.
FA_latest == [fArgs[k] EXCEPT !.prefix = Clean(rootPrefix), !.root = Clean(relativeRoot)]

FA == fArgs[k]

\* srcs := fa.sourceFiles, then the glob of fa.globDir appended.
Srcs == FA.srcs \o (IF FA.glob = NoGlob THEN <<>>
                    ELSE recursiveGlobFiles(FA.glob))

NonBlank == SelectSeq(Srcs, LAMBDA s : s # Blank)

Filling == phase = "fill" /\ k <= Len(fArgs)

GlobPanics(fa) == fa.glob # NoGlob /\ GlobMissing(fa.glob)

\* recursiveGlobFiles on a directory that does not exist: nil dereference.
GlobPanic ==
    /\ Filling /\ GlobPanics(FA)
    /\ phase' = "panic"
    /\ UNCHANGED <<argv, outGiven, pos, rootPrefix, relativeRoot, fArgs, nonDeflated,
                   k, pathMappings>>

\* fillPathPairs returns Rel's error for some source: log.Fatal.
FillRelFails ==
    /\ Filling /\ ~GlobPanics(FA)
    /\ \E i \in DOMAIN NonBlank : RelFails(FA.root, NonBlank[i])
    /\ phase' = "fatal"
    /\ UNCHANGED <<argv, outGiven, pos, rootPrefix, relativeRoot, fArgs, nonDeflated,
                   k, pathMappings>>

\* One iteration of the loop: every source of fArgs[k] is appended.
FillArg ==
    /\ Filling /\ ~GlobPanics(FA)
    /\ \A i \in DOMAIN NonBlank : ~RelFails(FA.root, NonBlank[i])
    /\ pathMappings' = pathMappings \o
          [i \in DOMAIN NonBlank |->
              fillPathPairs(FA.prefix, FA.root, NonBlank[i], k)]
    /\ k' = k + 1
    /\ UNCHANGED <<argv, outGiven, pos, rootPrefix, relativeRoot, fArgs, nonDeflated,
                   phase>>

\* The loop is over: w.write(*out, pathMappings, *manifest).
FillDone ==
    /\ phase = "fill" /\ k > Len(fArgs)
    /\ phase' = "write"
    /\ UNCHANGED <<argv, outGiven, pos, rootPrefix, relativeRoot, fArgs, nonDeflated,
                   k, pathMappings>>

\* The front end is over: handed to write, or the process has exited.
Exited == phase \in {"write", "usage", "fatal", "panic"} /\ UNCHANGED vars

Next ==
    \/ SetRelativeRoot \/ SetRootPrefix \/ file_Set \/ listFiles_Set
    \/ dir_Set \/ uniqueSet_Set \/ ParseDone
    \/ GlobPanic \/ FillRelFails \/ FillArg \/ FillDone \/ Exited

Spec == Init /\ [][Next]_vars

-----------------------------------------------------------------------------
(* Reference: what the fileArgs ask for.  Each fileArg contributes its     *)
(* non-blank sources, cleaned, in the order given, then every file of the  *)
(* tree at or below its -D directory in component-wise byte order.         *)

CompSeqLess(x, y) ==
    LET j == CommonLen(x, y) IN
    IF j = Len(x) THEN j < Len(y)
    ELSE j < Len(y) /\ Rank(x[j + 1]) < Rank(y[j + 1])

FilesUnder(g) ==
    IF g = NoGlob THEN <<>>
    ELSE LET fs == SetToSortSeq({d \in DOMAIN FS : FS[d] = "file" /\ IsPrefix(g.c, d)},
                                CompSeqLess)
         IN [i \in DOMAIN fs |-> [abs |-> FALSE, c |-> fs[i]]]

Requested(fa) ==
    LET given == SelectSeq(fa.srcs, LAMBDA s : s # Blank)
    IN [i \in DOMAIN given |-> Clean(given[i])] \o FilesUnder(fa.glob)

ReferenceSources == FlattenSeq([j \in DOMAIN fArgs |-> Requested(fArgs[j])])

-----------------------------------------------------------------------------
(* Properties                                                              *)

PathOf(S) == [abs : BOOLEAN, c : Seq(S)]

TypeOK ==
    /\ pos \in 1..(Len(argv) + 1) /\ k \in 1..(Len(fArgs) + 1)
    /\ rootPrefix \in PathOf(Range(CompOrder) \cup {".", ".."})
    /\ relativeRoot \in PathOf(Range(CompOrder) \cup {".", ".."}) \cup {Unset}
    /\ phase \in {"parse", "fill", "write", "usage", "fatal", "panic"}
    /\ \A i \in DOMAIN pathMappings :
          /\ pathMappings[i].zipMethod \in {"store", "deflate"}
          /\ pathMappings[i].arg \in DOMAIN fArgs

\* When main hands its mappings to write, they are, in order, exactly the
\* sources the command line asked for: every -f and every non-blank -l line
\* once, and every file below a -D directory, which recursiveGlobFiles
\* collects with filepath.Walk and a callback that ignores Walk's error.
MappingsFollowRequests ==
    phase = "write" =>
        [i \in DOMAIN pathMappings |-> pathMappings[i].src] = ReferenceSources

\* The position in argv of the a-th -f, -l or -D argument, the one whose
\* setter appended fArgs[a].
FileArgPos(a) ==
    CHOOSE j \in 1..Len(argv) :
        /\ argv[j].flag \in {"f", "l", "D"}
        /\ Cardinality({i \in 1..j : argv[i].flag \in {"f", "l", "D"}}) = a

\* The value of the last flag f before position j of argv, or dflt.
FlagInForce(f, j, dflt) ==
    LET i == SelectLastInSeq(SubSeq(argv, 1, j - 1), LAMBDA x : x.flag = f)
    IN IF i = 0 THEN dflt ELSE argv[i].v

\* Each -f, -l and -D takes the -C and -P in force where it stands on the
\* command line (file.Set copies *relativeRoot and *rootPrefix while
\* flag.Parse is still running), not the ones in force when main's loop
\* later calls fillPathPairs: every name is its source relative to the
\* last -C before its argument, joined to the last -P before it.
DestFollowsFlagsInForce ==
    \A i \in DOMAIN pathMappings :
        LET m == pathMappings[i]  j == FileArgPos(m.arg) IN
        m.dest = Join(FlagInForce("P", j, Dot), Rel(FlagInForce("C", j, Unset), m.src))

====
