------------------------------ MODULE ZipPaths ------------------------------
(***************************************************************************)
(* The producer side of soong_zip before the pipeline: the path mappings  *)
(* main() builds, the manifest mapping and jarSort applied by write(), and *)
(* the producer loop that calls addFile or addManifest for each mapping,   *)
(* with writeDirectory's bookkeeping of createdDirs and createdFiles and   *)
(* the entries each call pushes into writeOps (cmd/soong_zip/soong_zip.go). *)
(*                                                                         *)
(* A path is a sequence of cleaned path components; <<>> stands for "." .  *)
(* The source of a mapping is its position in the list, and what Lstat     *)
(* reports for it is its kind.                                             *)
(***************************************************************************)
EXTENDS Integers, Sequences, SequencesExt, FiniteSets

CONSTANTS
    Mappings,        \* candidate lists of path mappings given on the command line
    JarChoices,      \* possible values of -jar
    DirChoices,      \* possible values of -d
    ManifestChoices  \* possible values of "-m was given" (only with -jar)

\* What Lstat reports: a regular file, a directory, a symlink, or anything
\* else (a device, a socket, a pipe).
Kinds == {"file", "dir", "symlink", "other"}

\* manifestDest, "META-INF/MANIFEST.MF"
ManifestDest == <<"META-INF", "MANIFEST.MF">>

Parent(p) == SubSeq(p, 1, Len(p) - 1)   \* filepath.Dir on a cleaned path

\* The path as the string zip and filepath see it: components joined by "/".
RECURSIVE JoinPath(_)
JoinPath(p) ==
    IF Len(p) <= 1 THEN (IF p = <<>> THEN "." ELSE p[1])
    ELSE JoinPath(Parent(p)) \o "/" \o p[Len(p)]

-----------------------------------------------------------------------------
(* jarSort: sort.SliceStable with jar.EntryNamesLess (package jar).         *)

\* A zip name as a component sequence; a trailing "" component stands for
\* the trailing "/" of a directory entry's name.
ZipName(p, isDir) == IF isDir THEN p \o <<"">> ELSE p

\* jar's jarOrder: "META-INF/", "META-INF/MANIFEST.MF", "META-INF/*", "*".
\* A cleaned mapping destination never ends in "/", so only directory
\* entries take index 0.
JarIndex(p) ==
    CASE p = ZipName(<<"META-INF">>, TRUE)  -> 0
      [] p = ManifestDest                   -> 1
      [] Len(p) >= 2 /\ p[1] = "META-INF"  -> 2
      [] OTHER                              -> 3

\* The bytes of each component name the models use ("" is the empty
\* component after a directory entry's trailing "/").
CompBytes(c) ==
    CASE c = ""            -> <<>>
      [] c = ".."          -> <<46, 46>>
      [] c = "LICENSE"     -> <<76, 73, 67, 69, 78, 83, 69>>
      [] c = "MANIFEST.MF" -> <<77, 65, 78, 73, 70, 69, 83, 84, 46, 77, 70>>
      [] c = "META-INF"    -> <<77, 69, 84, 65, 45, 73, 78, 70>>
      [] c = "a"           -> <<97>>
      [] c = "a.txt"       -> <<97, 46, 116, 120, 116>>
      [] c = "b"           -> <<98>>
      [] c = "c"           -> <<99>>
      [] c = "p"           -> <<112>>
      [] c = "x"           -> <<120>>
      [] c = "y"           -> <<121>>

\* The bytes of the zip name: components joined by "/" (47).
RECURSIVE NameBytes(_)
NameBytes(p) ==
    IF Len(p) <= 1 THEN (IF p = <<>> THEN <<>> ELSE CompBytes(p[1]))
    ELSE NameBytes(Parent(p)) \o <<47>> \o CompBytes(p[Len(p)])

\* Go's < on strings: byte-wise, a proper prefix first.
RECURSIVE BytesLess(_, _)
BytesLess(s, t) ==
    IF s = <<>> THEN t # <<>>
    ELSE IF t = <<>> THEN FALSE
    ELSE IF s[1] = t[1] THEN BytesLess(Tail(s), Tail(t))
    ELSE s[1] < t[1]

PathLess(p, q) == BytesLess(NameBytes(p), NameBytes(q))

EntryNamesLess(p, q) ==
    IF JarIndex(p) = JarIndex(q) THEN PathLess(p, q)
    ELSE JarIndex(p) < JarIndex(q)

\* The elements of S in the order of the strict total order lt (a set of
\* pairs): each one goes to the place its count of smaller elements gives it.
SortedBy(S, lt) ==
    LET place(x) == Cardinality({y \in S : <<y, x>> \in lt}) + 1
    IN [n \in 1..Cardinality(S) |-> CHOOSE x \in S : place(x) = n]

\* A stable sort: ties keep their original positions.
jarSort(ms) ==
    LET before(k, l) == \/ EntryNamesLess(ms[k].dest, ms[l].dest)
                        \/ /\ ~EntryNamesLess(ms[l].dest, ms[k].dest)
                           /\ k < l
        order == SortedBy(DOMAIN ms, {kl \in (DOMAIN ms) \X (DOMAIN ms) : before(kl[1], kl[2])})
    IN [n \in DOMAIN ms |-> ms[order[n]]]

-----------------------------------------------------------------------------

VARIABLES
    opts,          \* the flags: jar, directories (-d, forced by -jar), manifest
    pathMappings,  \* the list the producer iterates, after write()'s edits
    next,          \* index of the next mapping the producer handles
    createdDirs,   \* z.createdDirs: directory path -> source (mapping index)
    createdFiles,  \* z.createdFiles: file path -> source (mapping index)
    pushed,        \* the entries pushed into writeOps, in order
    status         \* "running", "done", or "error" once addFile failed

vars == <<opts, pathMappings, next, createdDirs, createdFiles, pushed, status>>

\* write(): append the manifest mapping, then jarSort under -jar.
WriteMappings(ms, o) ==
    LET withManifest == IF o.manifest
                          THEN Append(ms, [dest |-> ManifestDest, kind |-> "file"])
                          ELSE ms
    IN IF o.jar THEN jarSort(withManifest) ELSE withManifest

Init ==
    /\ \E jar \in JarChoices, d \in DirChoices, m \in ManifestChoices :
          opts = [jar |-> jar, directories |-> d \/ jar, manifest |-> m /\ jar]
    /\ \E ms \in Mappings : pathMappings = WriteMappings(ms, opts)
    /\ next = 1
    /\ createdDirs = <<>>
    /\ createdFiles = <<>>
    /\ pushed = <<>>
    /\ status = "running"

-----------------------------------------------------------------------------
(* writeDirectory: walk up from dir until "." or an already created       *)
(* directory, failing on a path that is a created file; record the new    *)
(* directories and, with -d, push one entry per new directory, parents    *)
(* first.                                                                  *)

\* Mutant: the walk does not look for a created file on the way up.
RECURSIVE DirWalk_noFileCheck(_, _)
DirWalk_noFileCheck(d, acc) ==
    IF d = <<>> \/ d \in DOMAIN createdDirs
      THEN [added |-> acc, conflict |-> FALSE, at |-> d]
    ELSE DirWalk_noFileCheck(Parent(d), <<d>> \o acc)

\* Mutant: `zipDirs = append(zipDirs, dir)`, children before parents.
RECURSIVE DirWalk_childFirst(_, _)
DirWalk_childFirst(d, acc) ==
    IF d = <<>> \/ d \in DOMAIN createdDirs
      THEN [added |-> acc, conflict |-> FALSE, at |-> d]
    ELSE IF d \in DOMAIN createdFiles
      THEN [added |-> acc, conflict |-> TRUE, at |-> d]
    ELSE DirWalk_childFirst(Parent(d), acc \o <<d>>)

RECURSIVE DirWalk(_, _)
DirWalk(d, acc) ==
    IF d = <<>> \/ d \in DOMAIN createdDirs
      THEN [added |-> acc, conflict |-> FALSE, at |-> d]
    ELSE IF d \in DOMAIN createdFiles
      THEN [added |-> acc, conflict |-> TRUE, at |-> d]
    ELSE DirWalk(Parent(d), <<d>> \o acc)

\* The directory entry for cleanDir; the jar extra field is added when the
\* loop variable `dir` (where the walk stopped) equals "META-INF/".
DirEntry(cleanDir, dir) ==
    [name |-> cleanDir, kind |-> "dir",
     extra |-> opts.jar /\ JoinPath(dir) = "META-INF/"]

writeDirectory(dir, src) ==
    LET w == DirWalk(dir, <<>>) IN
    [dirs    |-> createdDirs @@ [p \in ToSet(w.added) |-> src],
     err     |-> w.conflict,
     entries |-> IF opts.directories /\ ~w.conflict
                   THEN [k \in DOMAIN w.added |-> DirEntry(w.added[k], w.at)]
                   ELSE <<>>]

-----------------------------------------------------------------------------
(* The producer loop: addManifest for the manifest under -jar, addFile for *)
(* everything else; the first error ends the loop.                         *)

Current == pathMappings[next]

RoutedToAddFile ==
    /\ status = "running" /\ next <= Len(pathMappings)
    /\ ~(opts.jar /\ Current.dest = ManifestDest)

\* addFile on a directory: with -d, writeDirectory(dest); otherwise nothing.
AddDirectory ==
    LET wd == writeDirectory(Current.dest, next) IN
    /\ RoutedToAddFile /\ Current.kind = "dir"
    /\ IF opts.directories
         THEN /\ createdDirs' = wd.dirs
              /\ pushed' = pushed \o wd.entries
              /\ status' = IF wd.err THEN "error" ELSE status
         ELSE UNCHANGED <<createdDirs, pushed, status>>
    /\ next' = next + 1
    /\ UNCHANGED <<opts, pathMappings, createdFiles>>

\* addFile on anything else: writeDirectory(filepath.Dir(dest)) fails.
AddFileParentConflict ==
    LET wd == writeDirectory(Parent(Current.dest), next) IN
    /\ RoutedToAddFile /\ Current.kind # "dir" /\ wd.err
    /\ createdDirs' = wd.dirs
    /\ status' = "error"
    /\ UNCHANGED <<opts, pathMappings, next, createdFiles, pushed>>

\* The parent directories are written, then dest turns out to be a created
\* directory or a created file.
AddFileDestConflict ==
    LET wd == writeDirectory(Parent(Current.dest), next) IN
    /\ RoutedToAddFile /\ Current.kind # "dir" /\ ~wd.err
    /\ Current.dest \in DOMAIN wd.dirs \cup DOMAIN createdFiles
    /\ createdDirs' = wd.dirs
    /\ pushed' = pushed \o wd.entries
    /\ status' = "error"
    /\ UNCHANGED <<opts, pathMappings, next, createdFiles>>

\* Mutant: the createdFiles check for a second file at dest is missing.
AddFileOk_noDupCheck ==
    LET wd == writeDirectory(Parent(Current.dest), next) IN
    /\ RoutedToAddFile /\ Current.kind # "dir" /\ ~wd.err
    /\ Current.dest \notin DOMAIN wd.dirs
    /\ createdDirs' = wd.dirs
    /\ createdFiles' = createdFiles @@ (Current.dest :> next)
    /\ IF Current.kind = "other"
         THEN /\ pushed' = pushed \o wd.entries
              /\ status' = "error"
              /\ UNCHANGED next
         ELSE /\ pushed' = pushed \o wd.entries \o
                           <<[name |-> Current.dest, kind |-> Current.kind,
                              extra |-> FALSE]>>
              /\ next' = next + 1
              /\ UNCHANGED status
    /\ UNCHANGED <<opts, pathMappings>>

\* Mutant: the `!s.Mode().IsRegular()` check is missing; a device or a
\* socket is written like a file.
AddFileOk_otherAsFile ==
    LET wd == writeDirectory(Parent(Current.dest), next) IN
    /\ RoutedToAddFile /\ Current.kind # "dir" /\ ~wd.err
    /\ Current.dest \notin DOMAIN wd.dirs \cup DOMAIN createdFiles
    /\ createdDirs' = wd.dirs
    /\ createdFiles' = createdFiles @@ (Current.dest :> next)
    /\ pushed' = pushed \o wd.entries \o
                 <<[name |-> Current.dest, kind |-> Current.kind, extra |-> FALSE]>>
    /\ next' = next + 1
    /\ UNCHANGED <<opts, pathMappings, status>>

\* dest is recorded in createdFiles; a symlink is pushed by writeSymlink, a
\* regular file by writeFileContents, anything else is an error.
AddFileOk ==
    LET wd == writeDirectory(Parent(Current.dest), next) IN
    /\ RoutedToAddFile /\ Current.kind # "dir" /\ ~wd.err
    /\ Current.dest \notin DOMAIN wd.dirs \cup DOMAIN createdFiles
    /\ createdDirs' = wd.dirs
    /\ createdFiles' = createdFiles @@ (Current.dest :> next)
    /\ IF Current.kind = "other"
         THEN /\ pushed' = pushed \o wd.entries
              /\ status' = "error"
              /\ UNCHANGED next
         ELSE /\ pushed' = pushed \o wd.entries \o
                           <<[name |-> Current.dest, kind |-> Current.kind,
                              extra |-> FALSE]>>
              /\ next' = next + 1
              /\ UNCHANGED status
    /\ UNCHANGED <<opts, pathMappings>>

\* addManifest: read the given file (a directory cannot be read), fail on a
\* destination already created, push a STORE entry. It neither calls
\* writeDirectory nor records dest in createdFiles.
AddManifest ==
    /\ status = "running" /\ next <= Len(pathMappings)
    /\ opts.jar /\ Current.dest = ManifestDest
    /\ IF \/ Current.kind = "dir"
          \/ Current.dest \in DOMAIN createdDirs \cup DOMAIN createdFiles
         THEN /\ status' = "error"
              /\ UNCHANGED <<pushed, next>>
         ELSE /\ pushed' = Append(pushed, [name |-> Current.dest,
                                           kind |-> "file", extra |-> FALSE])
              /\ next' = next + 1
              /\ UNCHANGED status
    /\ UNCHANGED <<opts, pathMappings, createdDirs, createdFiles>>

\* The loop is over; close(z.writeOps).
ProducerDone ==
    /\ status = "running" /\ next > Len(pathMappings)
    /\ status' = "done"
    /\ UNCHANGED <<opts, pathMappings, next, createdDirs, createdFiles, pushed>>

\* The producer has returned.
Finished == status # "running" /\ UNCHANGED vars

Next ==
    \/ AddDirectory \/ AddFileParentConflict \/ AddFileDestConflict
    \/ AddFileOk \/ AddManifest \/ ProducerDone \/ Finished

Spec == Init /\ [][Next]_vars

-----------------------------------------------------------------------------
(* Properties                                                              *)

Paths == {m.dest : m \in UNION {ToSet(ms) : ms \in Mappings}}
        \cup {ManifestDest}
AllPrefixes == UNION {{SubSeq(p, 1, n) : n \in 0..Len(p)} : p \in Paths}

TypeOK ==
    /\ opts \in [jar: BOOLEAN, directories: BOOLEAN, manifest: BOOLEAN]
    /\ next \in 1..Len(pathMappings) + 1
    /\ DOMAIN createdDirs \subseteq AllPrefixes \ {<<>>}
    /\ DOMAIN createdFiles \subseteq Paths
    /\ \A k \in DOMAIN pushed :
          pushed[k] \in [name: Paths \cup AllPrefixes,
                         kind: {"dir", "file", "symlink"}, extra: BOOLEAN]
    /\ status \in {"running", "done", "error"}

Ancestors(p) == {SubSeq(p, 1, n) : n \in 1..Len(p) - 1}

\* Reference: the mapping list has a conflict when two non-directories share
\* a destination, a non-directory's destination is a directory some other
\* mapping needs (its parent chain, or a directory source under -d), or a
\* source is neither a file, a directory nor a symlink.
Conflict(ms, o) ==
    LET fileLike == {k \in DOMAIN ms : ms[k].kind # "dir"}
        neededDirs ==
            UNION {Ancestors(ms[k].dest) : k \in fileLike}
            \cup UNION {Ancestors(ms[k].dest) \cup {ms[k].dest} :
                          k \in {k \in DOMAIN ms : ms[k].kind = "dir" /\ o.directories}}
    IN \/ \E k, l \in fileLike : k # l /\ ms[k].dest = ms[l].dest
       \/ \E k \in fileLike : ms[k].dest \in neededDirs
       \/ \E k \in fileLike : ms[k].kind = "other"

\* addFile/writeDirectory report an error exactly when the mappings
\* conflict, whatever order jarSort gives them and wherever the walk up the
\* parent chain stops early at an already created directory.
ConflictIsReported ==
    status # "running" => (status = "error" <=> Conflict(pathMappings, opts))

\* No archive path is written twice, as two files or as a file and a
\* directory.
EntryNamesUnique ==
    \A k, l \in DOMAIN pushed : k < l => pushed[k].name # pushed[l].name

\* With directory entries on, every entry's parent directories were written
\* before it.
ParentsPrecedeChildren ==
    opts.directories =>
        \A k \in DOMAIN pushed : \A a \in Ancestors(pushed[k].name) :
            \E l \in 1..k - 1 : pushed[l].name = a /\ pushed[l].kind = "dir"

\* Under -jar the entries reach the archive in jar order: the directory
\* entries writeDirectory emits lazily keep the order jarSort gave the files.
JarEntryOrder ==
    opts.jar =>
        \A k, l \in DOMAIN pushed :
            k < l => ~EntryNamesLess(ZipName(pushed[l].name, pushed[l].kind = "dir"),
                                     ZipName(pushed[k].name, pushed[k].kind = "dir"))

\* Under -jar the META-INF/ directory entry carries the 0xCAFE extra field.
MetaInfHasExtraField ==
    \A k \in DOMAIN pushed :
        (opts.jar /\ pushed[k].kind = "dir" /\ pushed[k].name = <<"META-INF">>)
            => pushed[k].extra

====
