----------------------------- MODULE ZipFrontEnd -----------------------------
(***************************************************************************)
(* main() end to end up to the pipeline: PathArgs turns the command line   *)
(* into pathMappings, main calls w.write, and write()'s producer hands     *)
(* each mapping to addFile (ZipPaths).  The two components meet at the     *)
(* call: main's mapping list becomes write()'s, each mapping's kind being  *)
(* what Lstat reports for its source in the file tree.                     *)
(***************************************************************************)
EXTENDS PathArgs

CONSTANTS
    JarChoices,  \* possible values of -jar
    DirChoices,  \* possible values of -d
    ManifestChoices  \* possible values of "-m was given" (only with -jar)

VARIABLES
    opts,           \* ZipPaths' flags, fixed by the call to write
    writeMappings,  \* write()'s pathMappings after its edits
    next, createdDirs, createdFiles, pushed,
    status          \* "idle" until main calls write, then ZipPaths' status

zVars == <<opts, writeMappings, next, createdDirs, createdFiles, pushed, status>>

ZP == INSTANCE ZipPaths
        WITH Mappings <- {}, pathMappings <- writeMappings

\* addFile's os.Lstat(src): a regular file, or a directory (readable or not).
Lstat(src) == IF FS[src.c] = "file" THEN "file" ELSE "dir"

\* main's pathMappings as write() receives them.
Converted ==
    [i \in DOMAIN pathMappings |->
        [dest |-> pathMappings[i].dest.c, kind |-> Lstat(pathMappings[i].src)]]

FrontEndInit ==
    /\ Init
    /\ opts = [jar |-> FALSE, directories |-> FALSE, manifest |-> FALSE]
    /\ writeMappings = <<>>
    /\ next = 1
    /\ createdDirs = <<>> /\ createdFiles = <<>> /\ pushed = <<>>
    /\ status = "idle"

\* Parsing the flags and main's fArgs loop.
MainStep == Next /\ UNCHANGED zVars

\* `if *emulateJar { *directories = true }`, the zipWriter, and
\* w.write(*out, pathMappings, *manifest): the manifest mapping appended
\* and jarSort. (-m without -jar fails before the producer starts; that
\* path is ZipPipeline's.)
CallWrite ==
    /\ phase = "write" /\ status = "idle"
    /\ \E jar \in JarChoices, d \in DirChoices, m \in ManifestChoices :
          opts' = [jar |-> jar, directories |-> d \/ jar, manifest |-> m /\ jar]
    /\ writeMappings' = ZP!WriteMappings(Converted, opts')
    /\ status' = "running"
    /\ UNCHANGED <<next, createdDirs, createdFiles, pushed>>
    /\ UNCHANGED vars

\* The producer goroutine's addFile loop.
WriteStep == status # "idle" /\ ZP!Next /\ UNCHANGED vars

FrontEndNext == MainStep \/ CallWrite \/ WriteStep

FrontEndSpec == FrontEndInit /\ [][FrontEndNext]_<<vars, zVars>>

-----------------------------------------------------------------------------
(* Properties                                                              *)

UnderRoot(m) ==
    LET root == fArgs[m.arg].root
    IN m.src.abs = root.abs /\ IsPrefix(root.c, m.src.c)

\* An archive entry whose name climbs out of the archive root ("../x", or
\* the directory entry "../" writeDirectory adds for it) comes only from a
\* source outside its -C directory: fillPathPairs' Rel and Join never
\* produce a leading ".." for a source below -C.
ClimbingNamesOnlyFromOutsideSources ==
    \A j \in DOMAIN pushed :
        LET n == pushed[j].name IN
        n # <<>> /\ n[1] = ".." =>
            \E i \in DOMAIN pathMappings :
                ~UnderRoot(pathMappings[i]) /\ IsPrefix(n, pathMappings[i].dest.c)

\* A command line whose flags reach the same archive path twice (-f x and
\* -D . both naming x), or a file where another needs a directory, makes
\* addFile fail; any other command line is written without error.
CommandLineConflictIsReported ==
    status \in {"done", "error"} =>
        (status = "error" <=> ZP!Conflict(writeMappings, opts))

\* Each entry the producer writes for a command line comes after the
\* directory entries of all its parents (writeDirectory's walk up from the
\* file, stopping at the first directory already created, emits the new
\* ones parents first), whichever flags named the files.
ArchiveParentsPrecedeChildren == ZP!ParentsPrecedeChildren

====
