# TLA+ models of soong_zip

This directory holds TLA+ specifications of `cmd/soong_zip/soong_zip.go`
(`src/cmd/soong_zip/soong_zip.go`). That file is the tool that builds zip and
jar archives from lists of files. The TLC configurations here check the
specifications, and `PROJECT.json` maps each definition to the source lines
it models.

## The system

soong_zip runs as one process with three kinds of goroutines. They are
connected by channels.

* **main** parses the flags: the `-C`, `-P`, `-f`, `-l`, `-D` and `-s`
  setters run in command-line order, and each of `-f`, `-l` and `-D`
  appends a `fileArg` that captures the `-C` and `-P` in force at that
  moment. main then loops over the `fileArg`s. It globs each `-D`
  directory with `recursiveGlobFiles` (`filepath.Walk`) and turns every
  source into a `pathMapping` with `fillPathPairs` (`Clean`, `Rel` to
  `-C`, `Join` to `-P`, STORE if the name was given to `-s`). It then
  calls `zipWriter.write`. It exits with status 1
  when `write` returns an error.
* **write()** does the following, in order:
  1. Creates the output file.
  2. Makes the unbuffered `z.errors` channel and the `writeOps` FIFO
     (capacity 1000).
  3. Creates the CPU rate limiter (`-j` slots) and the memory rate limiter
     (capacity 0, meaning unbounded).
  4. Appends the manifest mapping (`-m`, allowed only with `-jar`).
  5. Under `-jar`, sorts the mappings with `jarSort`
     (`sort.SliceStable` + `jar.EntryNamesLess`).
  6. Starts the producer, then runs the **writer loop**.

  The writer loop is a `select` whose enabled case depends on its state:
  * S0: receive the next slot from `writeOps`.
  * S1: receive the entry from the slot.
  * S2: receive the next future reader.
  * S3: copy that reader into the entry.
  * `z.errors` is selectable in every state.

  After the loop, a last `select` either takes an error or closes the zip.
  Four defers run when `write` returns, last-registered first: stop the
  limiters, `close(z.errors)`, `os.Remove(out)` if the local `err` is set,
  and `f.Close()`.
* **The producer goroutine** walks the mappings. Under `-jar`, a
  destination of `META-INF/MANIFEST.MF` goes to `addManifest`; every other
  mapping goes to `addFile`. The first error is sent on `z.errors`, and the
  deferred `close(z.writeOps)` ends the stream.
  * `addFile` handles the path side. It uses `writeDirectory` (which walks
    up the parent chain against `createdDirs` and `createdFiles` and pushes
    directory entries when `-d` is set) and `writeSymlink`.
  * Regular files go to `writeFileContents`. It pushes a one-shot slot into
    `writeOps`, requests a CPU slot and memory, and then takes one of two
    paths:
    * Small files, or files stored without compression: start
      `compressWholeFile`.
    * DEFLATE files of at least `minParallelFileSize`: start `crcFile`.
      Then, for each block of `parallelBlockSize`, it enqueues a result
      channel into `futureReaders`, requests another CPU slot, reads the
      32 KB dictionary window (which may fail), and starts
      `compressPartialFile`.
* **Workers:**
  * `compressWholeFile` computes the CRC, deflates, and falls back to STORE
    when the deflated output is not smaller. It fills the single reader,
    frees the CPU slot and publishes the entry.
  * `crcFile` publishes the entry after the CRC and frees its slot in a
    defer.
  * `compressPartialFile` compresses one block. Only the last block closes
    the DEFLATE stream. The other blocks end with a sync flush, so that
    their concatenation is one stream. It frees its CPU slot only on
    success.

  Any worker that fails sends on `z.errors`.

### Inventory

| Component | State | Operations | Modelled in |
|---|---|---|---|
| Writer loop and teardown | `writeOps`, current slot/readers/reader, `z.errors`, output file, exit status | S0–S3 cases, error case, final select, the four defers, `main`'s exit | `ZipPipeline` |
| Producer (pipeline side) | position in mappings, block loop counter, `futureReaders` | push slot, CPU/memory `Request`, enqueue block, dictionary read, dispatch, close readers, `close(writeOps)`, send error | `ZipPipeline`; the block loop arithmetic in `SplitArithmetic` |
| Workers | per-goroutine state, per-block result channel | `compressWholeFile`, `crcFile`, `compressPartialFile` (+ `compressBlock`) | `ZipPipeline` |
| Rate limiters | slots in use, outstanding bytes | `Request`, `Finish` | `ZipPipeline`, from the spec (not under `src/`) |
| Path bookkeeping | `createdDirs`, `createdFiles`, pushed entries | `addFile`, `addManifest`, `writeDirectory`, `writeSymlink` | `ZipPaths` |
| jarSort / `jar.EntryNamesLess` | — | stable sort in jar order | `ZipPaths` (comparator from the spec) |
| Flag parsing, `fillPathPairs`, globbing | `-C`, `-P`, `fArgs`, `nonDeflatedFiles`, `pathMappings` | the flag setters, main's `-o` check, the `fArgs` loop, `recursiveGlobFiles`, `fillPathPairs` | `PathArgs`; with `write()`'s path bookkeeping in `ZipFrontEnd` |
| Manifest text, `addExtraField` bytes, profiling, zip/flate encoders | — | byte formatting, I/O | not modelled (only *whether* the extra field is added) |

The hazards of this code, each at the line where it bites, are listed in
`PROJECT.json` ("hazards"):
* interleavings of the writer, the producer and the workers;
* a second error sender racing `close(z.errors)`;
* CPU slots leaked on error paths;
* the last-block flag and the `futureReaders` capacity at block boundaries;
* draining `writeOps` after it is closed;
* termination, including at `-j 1`, where `crcFile` and the per-block
  requests share one CPU slot;
* a dictionary read failing after blocks were dispatched, which leaves
  `futureReaders` unclosed;
* the dictionary window bound at the real block and window sizes;
* the stale `dir` variable in the jar extra-field check;
* the manifest's routing past `writeDirectory` and `createdFiles`;
* jarSort comparing a directory mapping's name without the `/` its entry
  gets;
* `recursiveGlobFiles` ignoring `Walk`'s error: an unreadable subdirectory
  is skipped, and a missing `-D` path dereferences a nil `info`;
* the order of the mappings (command-line order, then `Walk` order);
* `-C`/`-P` captured per argument, so the order of the flags matters;
* sources outside `-C`, which `Rel` names with leading `..`;
* two flags naming one source or one archive path, which only `addFile`'s
  checks reject;
* a missing `-D` path, which makes `recursiveGlobFiles` panic.

## Modules

### `ZipPipeline.tla`: the concurrent write pipeline

**Entries and abstraction.** `Entries` is the sequence the producer hands to
the pipeline after `addFile` has resolved each mapping: kind (dir, symlink,
file), method, size in block units, and whether deflate shrinks it. Bytes
are abstracted away:
* a block result is its payload kind and its last flag;
* a header is its method and whether it has readers.

**State**, one variable per piece of state in the code:

| Variable | Code |
|---|---|
| `prod` | producer program counter, entry, block counter |
| `writeOps` | the channel contents |
| `opsClosed` | whether `writeOps` is closed |
| `slot` | each entry's `compressChan` |
| `readers` | each entry's `futureReaders`: enqueued count, closed |
| `result` | each block's result channel |
| `alloc` | `allocatedSize` |
| `work` | each worker goroutine |
| `cpu`, `mem` | the two limiters |
| `parallelJobs` | `*parallelJobs` (`-j`), the CPU limiter's capacity, chosen in `Init` from `CpuLimits` |
| `wr` | the writer's select state, current entry, readers taken, whether `err` is set, whether an error was returned |
| `archive` | what the zip writer has received, as a sequence of header, data and end events |
| `errClosed` | whether `z.errors` is closed |
| `outExists` | whether the output file exists |
| `exitCode` | the process exit status |
| `faults` | number of injected I/O or compression errors |

**Actions**, one per step of the code:

| Goroutine | Actions |
|---|---|
| Producer | `AddFileFails`, `PushResolved` (writeDirectory/writeSymlink slots), `PushSlot`, `RequestCpu`, `RequestMemory`, `EnqueueBlock`, `DispatchBlock` (with the dictionary-read error), `CloseReaders`, `ProducerDone` |
| Workers | `compressWholeFile(i)`, `crcFile(i)`, `compressPartialFile(i, j)`, each with a success and an error disjunct |
| Writer | `WriteStart`, `WriterNextOp` (S0), `WriterOpenEntry` (S1, header write may fail), `WriterNextReader` (S2), `WriterCopy` (S3, copy may fail), `WriterReceiveError`, `WriterFinish` (final select's default branch) |
| Teardown | `CloseErrors`, `RemoveOutput`, `MainExit` |
| Any blocked sender | `SendOnClosedPanics`: a goroutine blocked sending on `z.errors` after it is closed panics (exit 2) |

**Error channel and faults.** A failing goroutine becomes a blocked sender
("err"). The writer's error case completes that send. A `crcFile` that
failed gives its CPU slot back only then, because its deferred `Finish`
runs after the send. Errors are injected
nondeterministically, up to `MaxFaults`, at every point where the code
checks an `err`.

**Reference layout.** `EntryLayout` and `ArchiveLayout` give the archive the
entries must produce. They are derived from the code's rules: the STORE
fallback, the split threshold, block count, and last block closed.

### `SplitArithmetic.tla`: the block loop at the real constants

The split path of `writeFileContents` (lines 582–624), with
`parallelBlockSize` = 1 MiB, `minParallelFileSize` = 6 MiB and
`windowSize` = 32 KiB as in the code:
* the split decision (`SplitPath`);
* the `futureReaders` capacity (`ReaderCapacity`);
* the `for start` loop, one iteration per step (`Iterate`, `LoopEnds`).
  Each iteration records the block's section, its `last` flag and its
  dictionary window.

`ReferenceBlocks(s)` is the closed-form partition that the loop is checked
against.

### `ZipPaths.tla`: mappings, jarSort and the producer's path bookkeeping

A path is a sequence of components (`<<>>` is "."), and a mapping is a
destination with the kind `Lstat` reports.

**State and initial state.**
* `Init` picks the flags (`-jar` forces `-d`, `-m` only with `-jar`) and a
  mapping list.
* `Init` then applies `write()`'s edits (`WriteMappings`): it appends the
  manifest and jar-sorts.
* The state holds `createdDirs`, `createdFiles`, the entries pushed into
  `writeOps`, and the producer's position and status.

**Helpers.**
* `DirWalk`/`writeDirectory` translate the walk of `writeDirectory`. The
  walk stops at "." or at a created directory, fails on a created file,
  and puts parents first.
* `DirEntry` keeps the code's test of the loop variable `dir` for the jar
  extra field.
* `jarSort` is a stable sort.
* `EntryNamesLess`/`JarIndex`/`PathLess` model `jar.EntryNamesLess` from
  the spec, because package `jar` is not under `src/`. The order is
  `META-INF/`, then the manifest, then `META-INF/*`, then the rest, and
  Go's string order within each group. `PathLess` compares the bytes of
  the joined name (`NameBytes`, `BytesLess`; `CompBytes` spells each
  component the models use), so `a.txt` < `a/` < `a/b`, as in Go.

**Actions**, one per outcome of `addFile`, plus the manifest, the end of the
loop and termination:
* `AddDirectory`
* `AddFileParentConflict`
* `AddFileDestConflict`
* `AddFileOk` (a symlink, a regular file, or a non-regular file that is
  recorded and then rejected)
* `AddManifest`
* `ProducerDone`
* `Finished`

**Reference definition.** `Conflict(ms, o)` defines the conflicting mapping
lists directly, with no walk order. `ConflictIsReported` checks the code
against it.

### `PathArgs.tla`: flag parsing and the path-mapping front end

A path is a record `[abs, c]`: whether it starts with `/`, and its
components, which may include `.` and `..`. Go's `filepath.Clean`, `Rel`
and `Join` are operators over this form:
* `Clean` drops `.`, cancels `x/..`, drops `..` at the root, and keeps a
  relative path's leading `..`.
* `Rel` fails when exactly one path is absolute, or when the first base
  component past the common part is `..`. Otherwise it gives one `..` per
  remaining base component, then the rest of the target.

The whitespace `strings.TrimSpace` removes is abstracted: a list line is a
path or `Blank`.

**Constants.**
* `Argv`: the command lines to try, each a sequence of `[flag, v]`.
* `FS`: the tree below the working directory. It maps each path to
  `"file"`, `"dir"` or `"unreadable"`.
* `Lists`: the lines of each list file.
* `CompOrder`: the byte order of the component names.

**State.** The variables follow the code:
* `argv`, and whether `-o` is among the arguments (`outGiven`);
* flag.Parse's position `pos`;
* `*rootPrefix` and `*relativeRoot` (`Unset` is `""`);
* `fArgs` and `nonDeflatedFiles`;
* main's loop index `k` and `pathMappings`;
* `phase`: `parse`, `fill`, or `write` (handed to `write`); or an exit:
  `usage` (exit 2), `fatal` (`log.Fatal`, exit 1), or `panic`.

Each mapping carries the index of its `fileArg` (`arg`) as a history
field.

**Actions.**
* One per setter, each with its error return:
  * `SetRelativeRoot` and `SetRootPrefix` store the value.
  * `file_Set`, `listFiles_Set` and `dir_Set` fail with "must pass -C
    before". `listFiles_Set` also fails when `ReadFile` fails.
  * `uniqueSet_Set` fails on a duplicate.
* `ParseDone` is main's `-o` check.
* The loop over `fArgs`:
  * `GlobPanic`: `Walk` on a missing path calls the callback with
    `info == nil`.
  * `FillRelFails`: `log.Fatal` on a `Rel` error.
  * `FillArg`: every source of one `fileArg` goes through
    `fillPathPairs`.
  * `FillDone`.

**The walk.** `recursiveGlobFiles`/`WalkFiles` follow `filepath.Walk`: names
are visited in sorted order, depth first, and only non-directories are
kept. A directory whose names cannot be read is skipped, because the
callback ignores `err`.

**Reference definition.** `ReferenceSources` states the requested sources
without the walk:
* each `fileArg`'s non-blank sources, cleaned, in the order given;
* then every file at or below its `-D` path, as a sorted set.

### `ZipFrontEnd.tla`: from the command line to `addFile`

`ZipFrontEnd` composes the two front-end components. It `EXTENDS PathArgs`
and takes `ZipPaths` as a named instance, `ZP`, whose `pathMappings` is
renamed `writeMappings`; its `Mappings` is empty, since the mapping list
now comes from `PathArgs`.
* `Converted` is main's `pathMappings` as `write()` receives them: each
  destination, and the kind `Lstat` reports for the source in `FS`.
* `MainStep` is a `PathArgs` step; the `ZipPaths` variables stay
  unchanged, and `status` is `"idle"`.
* `CallWrite` is main's `if *emulateJar { *directories = true }` and its
  call `w.write(*out, pathMappings, *manifest)`. It picks `-jar`, `-d` and
  `-m`, and applies `write()`'s edits: the manifest mapping is appended,
  then the list is jar-sorted.
* `WriteStep` is a `ZipPaths` step of the producer's `addFile` loop; the
  `PathArgs` variables stay unchanged.

Its three properties are about the command line as a whole:
* `ClimbingNamesOnlyFromOutsideSources`: an archive name starting with
  `..` (a file `../x`, or the directory entry `../` that `-d` adds for it)
  is a prefix of the name of a source outside its `-C` directory.
* `CommandLineConflictIsReported`: `write()` fails exactly when the
  command line names one archive path twice, or a file where a directory
  is needed (for example `-C . -f x -D .`). `main` never deduplicates, so
  `addFile`'s checks are the only guard.
* `ArchiveParentsPrecedeChildren`: `ZipPaths`' `ParentsPrecedeChildren`
  over the archive a command line produces. Every entry comes after the
  directory entries of its parents, whichever flags named the files.

### MC modules

`MCZipPipeline.tla` defines `MCEntries`, seven entries covering every path
of `writeFileContents`:
* a directory;
* a 5-unit DEFLATE file: split into three blocks, the last one short;
* a small file that deflates;
* a stored file;
* a symlink;
* a 4-unit file: split, with the size a multiple of the block size;
* a small file that falls back to STORE.

`MCSplitArithmetic.tla` tries every size k·1 MiB + d for k in 5..8 and
d in {−1, 0, 1, 32 KiB − 1, 32 KiB}, with both methods. This covers just
under, at and over the split threshold, exact block multiples, and a
window's length past a boundary.

`MCZipPaths.tla` enumerates every list of up to three mappings
(`BoundedSeq`) over three sets of destinations:
* **TreeDests:** three levels under `a` plus a sibling tree `b`, so a walk
  can stop early and a file can sit where a directory is needed.
* **JarDests:** a META-INF tree plus names that sort before and after it.
* **AliasDests:** the manifest destination, and a path below it.
* **JarDirDests:** `a`, `a.txt` and `a/b`, where `a` < `a.txt` as
  destinations but `a.txt/` < `a/` as entry names.

`paths_tree` starts from the union of the TreeDests and JarDests lists
(`MCTreeAndJarMappings`).

`MCPathArgs.tla` enumerates every command line of up to three arguments
(`BoundedSeq`) drawn from 14 arguments:
* `-C a` and `-C .`;
* `-P p`;
* `-f x`, `-f a/./x`, `-f /x` and `-f a` (a directory);
* `-l L` and `-l M`, where `M` does not exist;
* `-D a`, `-D .` and `-D c`, where `c` does not exist;
* `-s x` and `-s p/x`.

Each command line is tried with and without `-o`. The tree holds:
* `a/b/y` and `a/x`;
* `x`;
* `b/y` under a directory `b`, which is readable in `MCFS` and unreadable
  in `MCFSUnreadable`.

`MCZipFrontEnd.tla` extends both `ZipFrontEnd` and `MCPathArgs`. It runs
the same command lines over the readable tree, with `-jar` and `-d` each on
and off. `-m` is off in this run. With `-m`, `ArchiveParentsPrecedeChildren`
fails for every command line, because of the `addManifest` bug that
`paths_manifest_parent` shows.

## Runs

| Run | cfg | Expect | What it shows |
|---|---|---|---|
| pipeline_safety | `MCZipPipeline.cfg` | pass | See below; ~31k states. |
| split_arithmetic | `MCSplitArithmetic.cfg` | pass | `TypeOK`; `FutureReadersNeverFull`: the buffer holds every reader, as the comment at line 590 claims; `LoopMatchesReference`: the loop dispatches exactly the reference partition, only the final block closing the stream, each dictionary the window just before its block. 162 states. |
| pipeline_liveness | `MCZipPipeline_liveness.cfg` | pass | `Termination` under `FairSpec`, at `-j 1` and `-j 2`, with up to two faults and both values of "-m without -jar". At `-j 1`, `crcFile` holds the only CPU slot while the producer requests one per block. The process always exits, including when a sender panics. ~39k states. |
| pipeline_double_fault | `MCZipPipeline_double_fault.cfg` | violation | `ErrorRunCleansUp` fails: one fault in the writer plus one in the producer or a worker. The writer returns, `close(z.errors)` runs, the pending send panics, and the process exits with status 2 with the partial output left behind. |
| pipeline_manifest_nojar | `MCZipPipeline_manifest_nojar.cfg` | violation | `ErrorRunCleansUp` fails: `-m` without `-jar` returns an error but leaves the created output file, because the returned error is not assigned to `err`. |
| paths_tree | `MCZipPaths.cfg` | pass | See below; ~38k states. |
| paths_jar_dir_order | `MCZipPaths_jar_dir_order.cfg` | violation | `JarEntryOrder` fails: with `-jar`, directory mappings `a` and `a.txt` are sorted by destination, without the trailing `/`, so `a/` is written before `a.txt/`, although `jar.EntryNamesLess` puts `a.txt/` first. |
| paths_meta_inf_extra | `MCZipPaths_meta_inf_extra.cfg` | violation | `MetaInfHasExtraField` fails: the test at line 822 reads the loop variable `dir`, so the CAFE extra field is never added. |
| paths_manifest_parent | `MCZipPaths_manifest_parent.cfg` | violation | `ParentsPrecedeChildren` fails: `addManifest` does not call `writeDirectory`, so no `META-INF/` entry comes before the manifest. |
| args_mapping | `MCZipFrontEnd.cfg` | pass | See below; ~20k states. |
| args_unreadable_dir | `MCPathArgs_unreadable.cfg` | violation | `MappingsFollowRequests` fails when `b/` is unreadable, for example for `-C . -D .`. `Walk` hands the callback the read error, the callback ignores it, and `b/y` is left out while the run goes on to write the archive. |
| paths_manifest_alias | `MCZipPaths_manifest_alias.cfg` | violation | `EntryNamesUnique` fails: two mappings to `META-INF/MANIFEST.MF` both go to `addManifest`, which never records `createdFiles`. |

**pipeline_safety** checks, with at most one fault:
* `TypeOK`.
* `DeterministicLayout`: in every interleaving, the archive is a prefix of
  the reference layout.
* `CpuSlotsAccounted`: the CPU limiter's count equals the slots actually
  held.
* `MemoryReservationsAccounted`: the memory limiter holds exactly the
  entries whose header has not been written.
* `SuccessfulExitIsComplete`: exit 0 implies a complete archive and no
  error raised.
* `ErrorRunCleansUp`: a failing run exits 1 and removes the output.

**paths_tree** covers every mapping list over `TreeDests` and all four
kinds, and every list over `JarDests` (files and directories), with `-jar`,
`-d` and `-m` on or off. With `-m`, the manifest is jar-sorted in among the
other names. It checks:
* `TypeOK`;
* `ConflictIsReported`: an error happens exactly on conflicting lists;
* `EntryNamesUnique`.

`ParentsPrecedeChildren` is checked in **args_mapping**, which runs without
`-m`. With `-m` it fails, as **paths_manifest_parent** shows.

`JarEntryOrder` (under `-jar`, every entry reaches `writeOps` in jar
order) is not checked here. It fails on the code, which is what
**paths_jar_dir_order** shows.

**args_mapping** covers every command line over the readable tree, run
through `write()`'s producer with and without `-jar` and `-d`. It checks:
* `TypeOK`;
* `MappingsFollowRequests`: when main calls `write`, the mapping sources
  are exactly `ReferenceSources`, in order;
* `DestFollowsFlagsInForce`: each name is the source relative to the last
  `-C` before its `-f`/`-l`/`-D` argument, joined to the last `-P` before
  it. These are read off `argv`, not off the stored `fileArg`. So the
  property checks that `file.Set` captures the flags while `flag.Parse`
  runs, before later flags change them;
* `ClimbingNamesOnlyFromOutsideSources`, `CommandLineConflictIsReported`
  and `ArchiveParentsPrecedeChildren` (see `ZipFrontEnd`).

Along the way the run reaches command lines that fail in `addFile`,
archive names starting with `..`, directory entries, `-jar` reorderings,
and walks that stop at a directory created earlier.

Each property of a passing run has a mutant in `PROJECT.json`: a plausible
bug in the code it is about, which TLC shows the property catches. The
mutants cover:
* an unlimited CPU limiter;
* `crcFile` without its deferred `Finish`;
* an off-by-one in `last`;
* `memoryRateLimiter.Finish` only for entries without readers;
* ending the loop on close without draining `writeOps`;
* a shadowed `err` in the copy case;
* an error path that never reports;
* a missing regular-file check;
* a missing `createdFiles` check;
* children-first directory order;
* a futureReaders buffer without the +1;
* the dictionary read without its `start >= windowSize` guard;
* `Walk`'s callback without its `!info.IsDir()` test;
* a `fileArg` that reads `-C` and `-P` when main's loop reaches it;
* flag.Parse skipping an extra argument;
* a `Rel` that does not strip the common leading components;
* the missing `createdFiles` check again, this time reached from command
  lines.

## Bounds and why they are enough

**ZipPipeline.**
* Sizes are scaled: `BlockSize = 2`, `MinParallelFileSize = 4`,
  `WindowSize = 1`. This keeps the code's order window < block ≤ threshold.
* The 5-unit file gives a first block with no dictionary, a middle block
  that reads one, and a short last block.
* The 4-unit file reaches the boundary where `start + B = fileSize`.
* `QueueCap = 3` (`2` in the liveness run) makes the `writeOps` channel
  fill up, so producer back-pressure happens.
* `CpuLimits = {3}` (`{1, 2}` in the liveness run) lets the producer block on the limiter while blocks
  of two entries are in flight.
* `MaxFaults = 1` for safety is enough to put a fault at each step. Two
  faults are the smallest number that exposes the double-sender panic; the
  liveness run uses them to check that even then the process exits.

The liveness run includes `-j 1`. It is the tightest CPU budget, where
`crcFile` and the per-block requests compete for one slot.

**SplitArithmetic** runs at the code's real sizes. 40 initial sizes put
every boundary case in reach.

**ZipPaths.** Three mappings suffice for any pairwise conflict plus a third
mapping that makes the walk stop early at an existing directory.

**PathArgs.** Three arguments are enough for a `-C`, a `-P` and a source,
or for two sources of different kinds. The tree has the case where `Walk`'s
depth-first order must interleave a nested directory (`a/b/y`) before a
sibling file (`a/x`). The 13 arguments reach every error return:
* a missing `-C`;
* a missing list file;
* a duplicate `-s`;
* a missing `-D` path;
* an absolute source against a relative `-C`;
* a missing `-o`.

They also reach a `-s` name that matches only after the `-P` join
(`p/x`). With `-f a` and `-D .`, three arguments also reach a directory
source, a file named twice, and a file outside `-C` (`-C a -f x`).

**ZipFrontEnd.** The same command lines, with `-jar` and `-d` each on and
off. Each failing `addFile` outcome and a `-jar` reordering are reached.

## Fairness

`FairSpec` puts weak fairness on the producer, on each worker goroutine,
and on the writer together with the panic step. The Go runtime schedules
every runnable goroutine eventually, and every step modelled here is
either a local computation or a channel operation that stays enabled until
taken. Nothing is strongly fair: no action in the model is enabled only
intermittently.

## Not modelled

* **The flags `-j`, `-L`, `-cpuprofile` and `-trace`.** These are plain
  stores: `-j` is a constant of `ZipPipeline`, and the others have no
  effect on the mappings or the archive's structure.
* **The string form of paths.** Paths are component records. An empty
  component (`a//b`) and whitespace padding are not modelled. A `-s`
  string is compared with the destination as a record, which agrees with
  Go's string comparison for every name the runs use.
* **The panic on a missing `-D` path.** `PathArgs` models it (`GlobPanic`)
  and the runs reach it, but no property treats it as wrong. The process
  stops before creating the output, with a non-zero status, as a fatal
  error must. Only the message differs: a stack trace instead of the
  `Lstat` error. It is listed as a hazard.
* **Rejecting names outside the archive root.** The spec's own formula,
  `normalize(prefix ⊕ relative_path(root, src))`, produces names like
  `../x` for sources outside `-C`. So no property says they are wrong.
  `ClimbingNamesOnlyFromOutsideSources` checks that only such sources
  produce them.
* **`-m` and absolute sources in `ZipFrontEnd`.** `CallWrite` models `-m`,
  but the composed run keeps it off (see `MCZipFrontEnd`). `paths_tree`
  covers the manifest. `-m` without `-jar` fails in `write()` before the
  producer starts; that path is `ZipPipeline`'s (`pipeline_manifest_nojar`). `Lstat` looks an absolute
  source up in the same tree as a relative one.
* **An abstract specification of `write()`.** What `write()` promises its
  caller can be put as an abstract spec: whole entries in producer order,
  success only when complete, removal on failure. Under any refinement
  mapping that spec says no more than `DeterministicLayout`,
  `SuccessfulExitIsComplete` and `ErrorRunCleansUp` together, so the
  project checks those three directly.
* **Manifest text synthesis, the byte layout of `addExtraField`, and
  profiling/tracing.** These have no control flow a property distinguishes.
* **The rate limiters' `Stop`.** It runs in teardown only.
* **Bounded memory limiter and `-j 0`.** `write()` always creates the
  memory limiter with 0, which means unbounded, so a bounded limit is not
  a state the program can be in. What the CPU limiter does with a
  parallelism of 0 or less is defined in its own file, which is not under
  `src/`, and the spec does not say. The smallest parallelism the runs
  check is 1.
* **The zip and flate encoders.** These are external libraries; the model
  has only their steps and their failures.

## Plan for later work

1. Composing `ZipPaths` with `ZipPipeline`, so that the entries the path
   bookkeeping pushes (directories interleaved with files, a failure in
   the middle) feed the pipeline directly.
2. `CpuSlotsAccounted` under faults: the count would have to include the
   slots that error paths leak, so that a new leak still shows.
