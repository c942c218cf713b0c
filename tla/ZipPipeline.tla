---------------------------- MODULE ZipPipeline ----------------------------
(***************************************************************************)
(* The streaming write pipeline of soong_zip (cmd/soong_zip/soong_zip.go): *)
(* the producer goroutine started by zipWriter.write, which pushes one     *)
(* write-operation slot per entry into the writeOps FIFO and dispatches    *)
(* compression (writeFileContents); the workers compressWholeFile, crcFile *)
(* and compressPartialFile; the CPU and memory rate limiters; the          *)
(* serializing writer loop of zipWriter.write with its four channel states *)
(* and the shared errors channel; and the teardown of write() and main()   *)
(* (deferred close of the errors channel, removal of the output, exit).    *)
(*                                                                         *)
(* Entries are what the producer hands to the pipeline after addFile has   *)
(* resolved them: "dir" entries and "symlink" entries are pushed already   *)
(* resolved (writeDirectory, writeSymlink); "file" entries go through      *)
(* writeFileContents. Byte contents are abstracted: a file is its size,    *)
(* a block result is its payload kind and its last-block flag.             *)
(***************************************************************************)
EXTENDS Integers, Sequences, SequencesExt, FiniteSets

CONSTANTS
    Entries,             \* the entries in producer order (records, see EntryRec)
    BlockSize,           \* parallelBlockSize
    MinParallelFileSize, \* minParallelFileSize
    WindowSize,          \* windowSize
    QueueCap,            \* capacity of the writeOps channel (1000 in the code)
    CpuLimits,           \* possible values of *parallelJobs (-j)
    MemLimit,            \* the memory rate limiter's capacity, 0 = unbounded
    MaxFaults,           \* bound on injected I/O or compression errors
    ManifestFlagChoices  \* possible values of "-m given without -jar"

EntryRec == [kind: {"dir", "symlink", "file"}, method: {"store", "deflate"},
             size: Nat, shrinks: BOOLEAN]

ASSUME /\ Entries \in Seq(EntryRec)
       /\ \A i \in DOMAIN Entries : Entries[i].size = 0 => ~Entries[i].shrinks
       /\ BlockSize \in Nat \ {0} /\ WindowSize \in Nat \ {0}
       /\ MinParallelFileSize \in Nat /\ QueueCap \in Nat \ {0}
       /\ CpuLimits \subseteq Nat \ {0} /\ CpuLimits # {} /\ MemLimit \in Nat /\ MaxFaults \in Nat
       /\ ManifestFlagChoices \subseteq BOOLEAN /\ ManifestFlagChoices # {}

N == Len(Entries)
EntryIds == 1..N

\* writeFileContents takes the split path for large DEFLATE files.
Split(i) ==
    /\ Entries[i].kind = "file"
    /\ Entries[i].method = "deflate"
    /\ Entries[i].size >= MinParallelFileSize

\* Number of iterations of the loop `for start := 0; start < fileSize;
\* start += parallelBlockSize`.
NBlocks(i) == (Entries[i].size + BlockSize - 1) \div BlockSize

MaxBlocks == Max({1} \cup {NBlocks(i) : i \in EntryIds})

BlockIds == 1..MaxBlocks

\* Worker goroutines: <<i, 0>> is compressWholeFile or crcFile of entry i,
\* <<i, j>> is compressPartialFile of block j of entry i.
Workers == EntryIds \X (0..MaxBlocks)

Pending == [pending |-> TRUE]   \* an unfilled one-shot channel
StillRunning == -1    \* exitCode before the process has exited

Header == [method: {"store", "deflate"}, readers: BOOLEAN]
Result == [payload: {"raw", "deflate"}, last: BOOLEAN]

Event == [t: {"hdr"}, e: EntryIds, method: {"store", "deflate"}]
    \cup [t: {"data"}, e: EntryIds, b: BlockIds, payload: {"raw", "deflate"},
          last: BOOLEAN]
    \cup [t: {"end"}, e: EntryIds]

VARIABLES
    prod,       \* producer goroutine: pc, entry index i, block loop counter blk
    writeOps,   \* the buffered writeOps channel: sequence of slot (entry) ids
    opsClosed,  \* close(z.writeOps) has run
    slot,       \* compressChan of each entry: Pending or the published header
    readers,    \* ze.futureReaders of each entry: enqueued count, closed flag
    result,     \* per-block resultChan: Pending or the block's Result
    alloc,      \* ze.allocatedSize of each entry
    work,       \* worker goroutine states
    cpu,        \* CPU rate limiter: slots in use
    mem,        \* memory rate limiter: outstanding bytes
    wr,         \* writer loop: state, current entry, readers taken
    archive,    \* what the writer has put into the zip, as a sequence of Events
    errClosed,  \* close(z.errors) has run
    outExists,  \* the output file exists on disk
    exitCode,   \* StillRunning or the process exit status
    faults,     \* number of injected errors so far
    manifestWithoutJar, \* the command line gave -m without -jar (fixed)
    parallelJobs        \* *parallelJobs, the CPU rate limiter's capacity (fixed)

vars == <<prod, writeOps, opsClosed, slot, readers, result, alloc, work, cpu,
          mem, wr, archive, errClosed, outExists, exitCode, faults,
          manifestWithoutJar, parallelJobs>>

flags == <<manifestWithoutJar, parallelJobs>>

ProdPcs == {"idle", "add", "cpu", "mem", "blk", "blkcpu", "senderr", "done"}
WriterStates == {"start", "S0", "S1", "S2", "S3", "last", "ret", "errsClosed",
                 "removed", "exited"}

Init ==
    /\ prod = [pc |-> "idle", i |-> 1, blk |-> 0]
    /\ writeOps = <<>>
    /\ opsClosed = FALSE
    /\ slot = [i \in EntryIds |-> Pending]
    /\ readers = [i \in EntryIds |-> [enq |-> 0, closed |-> FALSE]]
    /\ result = [i \in EntryIds |-> [j \in BlockIds |-> Pending]]
    /\ alloc = [i \in EntryIds |-> 0]
    /\ work = [w \in Workers |-> "none"]
    /\ cpu = 0
    /\ mem = 0
    /\ wr = [st |-> "start", cur |-> 0, blk |-> 0, err |-> FALSE, ret |-> FALSE]
    /\ archive = <<>>
    /\ errClosed = FALSE
    /\ outExists = TRUE      \* os.Create(out) succeeded
    /\ exitCode = StillRunning
    /\ faults = 0
    /\ manifestWithoutJar \in ManifestFlagChoices
    /\ parallelJobs \in CpuLimits

Running == exitCode = StillRunning
CanFault == faults < MaxFaults

-----------------------------------------------------------------------------
(* Rate limiters (their code is in another package of the repository).    *)

\* CPURateLimiter.Request: blocks until fewer than parallelJobs slots are in use.
CPURateLimiterAdmits == cpu < parallelJobs

\* MemoryRateLimiter.Request(n): admits at once when unbounded, otherwise
\* blocks until the outstanding total plus n fits under the limit.
MemoryRateLimiterAdmits(n) == MemLimit = 0 \/ mem + n <= MemLimit

-----------------------------------------------------------------------------
(* The producer goroutine of write(): for each entry, addFile/addManifest  *)
(* and then writeFileContents; close(z.writeOps) when done or on error.    *)

NextEntry == prod' = [pc |-> "add", i |-> prod.i + 1, blk |-> 0]

\* Number of reader slots buffered in ze.futureReaders, not yet received.
Buffered(i) ==
    readers[i].enq - (IF wr.cur = i THEN wr.blk
                      ELSE IF wr.cur > i THEN readers[i].enq ELSE 0)

\* make(chan chan io.Reader, (fileSize/parallelBlockSize)+1)
ReaderCap(i) == Entries[i].size \div BlockSize + 1

\* Lstat, Open or Readlink fail, or the destination conflicts: the producer
\* posts the error and returns.
AddFileFails ==
    /\ Running /\ UNCHANGED flags
    /\ prod.pc = "add" /\ prod.i <= N /\ CanFault
    /\ prod' = [prod EXCEPT !.pc = "senderr"]
    /\ faults' = faults + 1
    /\ UNCHANGED <<writeOps, opsClosed, slot, readers, result, alloc, work,
                   cpu, mem, wr, archive, errClosed, outExists, exitCode>>

\* writeDirectory and writeSymlink push a slot that is already resolved: a
\* directory has no readers, a symlink one reader holding the link target.
PushResolved ==
    LET i == prod.i IN
    /\ Running /\ UNCHANGED flags
    /\ prod.pc = "add" /\ i <= N /\ Entries[i].kind \in {"dir", "symlink"}
    /\ Len(writeOps) < QueueCap
    /\ writeOps' = Append(writeOps, i)
    /\ slot' = [slot EXCEPT ![i] = [method |-> "store",
                                   readers |-> Entries[i].kind = "symlink"]]
    /\ IF Entries[i].kind = "symlink"
         THEN /\ readers' = [readers EXCEPT ![i] = [enq |-> 1, closed |-> TRUE]]
              /\ result' = [result EXCEPT ![i][1] = [payload |-> "raw",
                                                     last |-> TRUE]]
         ELSE UNCHANGED <<readers, result>>
    /\ NextEntry
    /\ UNCHANGED <<opsClosed, alloc, work, cpu, mem, wr, archive, errClosed,
                   outExists, exitCode, faults>>

\* writeFileContents: z.writeOps <- compressChan.
PushSlot ==
    /\ Running /\ UNCHANGED flags
    /\ prod.pc = "add" /\ prod.i <= N /\ Entries[prod.i].kind = "file"
    /\ Len(writeOps) < QueueCap
    /\ writeOps' = Append(writeOps, prod.i)
    /\ prod' = [prod EXCEPT !.pc = "cpu"]
    /\ UNCHANGED <<opsClosed, slot, readers, result, alloc, work, cpu, mem,
                   wr, archive, errClosed, outExists, exitCode, faults>>

\* z.cpuRateLimiter.Request()
\* Mutant: the limiter admits without checking its capacity.
RequestCpu_unlimited ==
    /\ Running /\ UNCHANGED flags
    /\ prod.pc = "cpu"
    /\ cpu' = cpu + 1
    /\ prod' = [prod EXCEPT !.pc = "mem"]
    /\ UNCHANGED <<writeOps, opsClosed, slot, readers, result, alloc, work,
                   mem, wr, archive, errClosed, outExists, exitCode, faults>>

RequestCpu ==
    /\ Running /\ UNCHANGED flags
    /\ prod.pc = "cpu" /\ CPURateLimiterAdmits
    /\ cpu' = cpu + 1
    /\ prod' = [prod EXCEPT !.pc = "mem"]
    /\ UNCHANGED <<writeOps, opsClosed, slot, readers, result, alloc, work,
                   mem, wr, archive, errClosed, outExists, exitCode, faults>>

\* z.memoryRateLimiter.Request(ze.allocatedSize), then either start crcFile
\* and enter the block loop, or start compressWholeFile and return.
RequestMemory ==
    LET i == prod.i IN
    /\ Running /\ UNCHANGED flags
    /\ prod.pc = "mem" /\ MemoryRateLimiterAdmits(Entries[i].size)
    /\ mem' = mem + Entries[i].size
    /\ alloc' = [alloc EXCEPT ![i] = Entries[i].size]
    /\ work' = [work EXCEPT ![<<i, 0>>] = "run"]
    /\ IF Split(i) THEN prod' = [prod EXCEPT !.pc = "blk", !.blk = 0]
                   ELSE NextEntry
    /\ UNCHANGED <<writeOps, opsClosed, slot, readers, result, cpu, wr,
                   archive, errClosed, outExists, exitCode, faults>>

\* ze.futureReaders <- resultChan, for the block starting at blk * BlockSize.
EnqueueBlock ==
    LET i == prod.i IN
    /\ Running /\ UNCHANGED flags
    /\ prod.pc = "blk" /\ prod.blk * BlockSize < Entries[i].size
    /\ Buffered(i) < ReaderCap(i)
    /\ readers' = [readers EXCEPT ![i].enq = @ + 1]
    /\ prod' = [prod EXCEPT !.pc = "blkcpu"]
    /\ UNCHANGED <<writeOps, opsClosed, slot, result, alloc, work, cpu, mem,
                   wr, archive, errClosed, outExists, exitCode, faults>>

\* z.cpuRateLimiter.Request(), read the preceding window as the dictionary
\* (which may fail) and start compressPartialFile.
DispatchBlock ==
    LET i == prod.i
        start == prod.blk * BlockSize
    IN
    /\ Running /\ UNCHANGED flags
    /\ prod.pc = "blkcpu" /\ CPURateLimiterAdmits
    /\ cpu' = cpu + 1
    /\ \/ /\ start >= WindowSize /\ CanFault
          /\ prod' = [prod EXCEPT !.pc = "senderr"]
          /\ faults' = faults + 1
          /\ UNCHANGED work
       \/ /\ work' = [work EXCEPT ![<<i, prod.blk + 1>>] = "run"]
          /\ prod' = [prod EXCEPT !.pc = "blk", !.blk = @ + 1]
          /\ UNCHANGED faults
    /\ UNCHANGED <<writeOps, opsClosed, slot, readers, result, alloc, mem, wr,
                   archive, errClosed, outExists, exitCode>>

\* close(ze.futureReaders) once the loop is over.
CloseReaders ==
    LET i == prod.i IN
    /\ Running /\ UNCHANGED flags
    /\ prod.pc = "blk" /\ prod.blk * BlockSize >= Entries[i].size
    /\ readers' = [readers EXCEPT ![i].closed = TRUE]
    /\ NextEntry
    /\ UNCHANGED <<writeOps, opsClosed, slot, result, alloc, work, cpu, mem,
                   wr, archive, errClosed, outExists, exitCode, faults>>

\* The range loop is over: the deferred close(z.writeOps).
ProducerDone ==
    /\ Running /\ UNCHANGED flags
    /\ prod.pc = "add" /\ prod.i > N
    /\ prod' = [prod EXCEPT !.pc = "done"]
    /\ opsClosed' = TRUE
    /\ UNCHANGED <<writeOps, slot, readers, result, alloc, work, cpu, mem, wr,
                   archive, errClosed, outExists, exitCode, faults>>

-----------------------------------------------------------------------------
(* Worker goroutines. A worker that fails posts to z.errors and blocks in  *)
(* that send (state "err") until the writer receives it.                   *)

\* compressWholeFile: CRC, then deflate with the STORE fallback, or read the
\* raw bytes; fill the single future reader, release the CPU slot, publish.
\* None of its error paths releases the CPU slot.
compressWholeFile(i) ==
    LET e == Entries[i]
        method == IF e.method = "deflate" /\ e.shrinks THEN "deflate" ELSE "store"
        payload == IF method = "deflate" THEN "deflate" ELSE "raw"
    IN
    /\ Running /\ UNCHANGED flags
    /\ work[<<i, 0>>] = "run" /\ ~Split(i)
    /\ \/ /\ CanFault
          /\ work' = [work EXCEPT ![<<i, 0>>] = "err"]
          /\ faults' = faults + 1
          /\ UNCHANGED <<slot, readers, result, cpu>>
       \/ /\ readers' = [readers EXCEPT ![i] = [enq |-> 1, closed |-> TRUE]]
          /\ result' = [result EXCEPT ![i][1] = [payload |-> payload,
                                                 last |-> TRUE]]
          /\ cpu' = cpu - 1
          /\ slot' = [slot EXCEPT ![i] = [method |-> method, readers |-> TRUE]]
          /\ work' = [work EXCEPT ![<<i, 0>>] = "done"]
          /\ UNCHANGED faults
    /\ UNCHANGED <<prod, writeOps, opsClosed, alloc, mem, wr, archive,
                   errClosed, outExists, exitCode>>

\* crcFile: CRC of the whole file, then publish the entry; the CPU slot is
\* released by a defer, on the error path too, but there only once the
\* blocking z.errors send has completed (WriterReceiveError).
\* Mutant: the deferred cpuRateLimiter.Finish() is missing.
crcFile_noFinish(i) ==
    /\ Running /\ UNCHANGED flags
    /\ work[<<i, 0>>] = "run" /\ Split(i)
    /\ \/ /\ CanFault
          /\ work' = [work EXCEPT ![<<i, 0>>] = "err"]
          /\ faults' = faults + 1
          /\ UNCHANGED slot
       \/ /\ slot' = [slot EXCEPT ![i] = [method |-> "deflate", readers |-> TRUE]]
          /\ work' = [work EXCEPT ![<<i, 0>>] = "done"]
          /\ UNCHANGED faults
    /\ UNCHANGED <<prod, writeOps, opsClosed, readers, result, alloc, mem, wr,
                   archive, errClosed, outExists, exitCode, cpu>>

crcFile(i) ==
    /\ Running /\ UNCHANGED flags
    /\ work[<<i, 0>>] = "run" /\ Split(i)
    /\ \/ /\ CanFault
          /\ work' = [work EXCEPT ![<<i, 0>>] = "err"]
          /\ faults' = faults + 1
          /\ UNCHANGED <<slot, cpu>>
       \/ /\ slot' = [slot EXCEPT ![i] = [method |-> "deflate", readers |-> TRUE]]
          /\ work' = [work EXCEPT ![<<i, 0>>] = "done"]
          /\ cpu' = cpu - 1
          /\ UNCHANGED faults
    /\ UNCHANGED <<prod, writeOps, opsClosed, readers, result, alloc, mem, wr,
                   archive, errClosed, outExists, exitCode>>

\* compressPartialFile: compressBlock with last = !(start+B < fileSize);
\* on success release the CPU slot and fill resultChan; on error return
\* without releasing it.
\* Mutant: last computed as !(start+B <= fileSize), an off-by-one.
compressPartialFile_lastOffByOne(i, j) ==
    LET last == ~((j - 1) * BlockSize + BlockSize <= Entries[i].size) IN
    /\ Running /\ UNCHANGED flags
    /\ j >= 1 /\ work[<<i, j>>] = "run"
    /\ \/ /\ CanFault
          /\ work' = [work EXCEPT ![<<i, j>>] = "err"]
          /\ faults' = faults + 1
          /\ UNCHANGED <<result, cpu>>
       \/ /\ cpu' = cpu - 1
          /\ result' = [result EXCEPT ![i][j] = [payload |-> "deflate",
                                                 last |-> last]]
          /\ work' = [work EXCEPT ![<<i, j>>] = "done"]
          /\ UNCHANGED faults
    /\ UNCHANGED <<prod, writeOps, opsClosed, slot, readers, alloc, mem, wr,
                   archive, errClosed, outExists, exitCode>>

\* Mutant: the error path returns without posting to z.errors.
compressPartialFile_errorDropped(i, j) ==
    LET last == ~((j - 1) * BlockSize + BlockSize < Entries[i].size) IN
    /\ Running /\ UNCHANGED flags
    /\ j >= 1 /\ work[<<i, j>>] = "run"
    /\ \/ /\ CanFault
          /\ work' = [work EXCEPT ![<<i, j>>] = "done"]
          /\ faults' = faults + 1
          /\ UNCHANGED <<result, cpu>>
       \/ /\ cpu' = cpu - 1
          /\ result' = [result EXCEPT ![i][j] = [payload |-> "deflate",
                                                 last |-> last]]
          /\ work' = [work EXCEPT ![<<i, j>>] = "done"]
          /\ UNCHANGED faults
    /\ UNCHANGED <<prod, writeOps, opsClosed, slot, readers, alloc, mem, wr,
                   archive, errClosed, outExists, exitCode>>

compressPartialFile(i, j) ==
    LET last == ~((j - 1) * BlockSize + BlockSize < Entries[i].size) IN
    /\ Running /\ UNCHANGED flags
    /\ j >= 1 /\ work[<<i, j>>] = "run"
    /\ \/ /\ CanFault
          /\ work' = [work EXCEPT ![<<i, j>>] = "err"]
          /\ faults' = faults + 1
          /\ UNCHANGED <<result, cpu>>
       \/ /\ cpu' = cpu - 1
          /\ result' = [result EXCEPT ![i][j] = [payload |-> "deflate",
                                                 last |-> last]]
          /\ work' = [work EXCEPT ![<<i, j>>] = "done"]
          /\ UNCHANGED faults
    /\ UNCHANGED <<prod, writeOps, opsClosed, slot, readers, alloc, mem, wr,
                   archive, errClosed, outExists, exitCode>>

\* Goroutines blocked in `z.errors <- err`.
ErrorSenders ==
    {w \in Workers : work[w] = "err"} \cup
    (IF prod.pc = "senderr" THEN {"producer"} ELSE {})

-----------------------------------------------------------------------------
(* The writer loop of write(): which channel it selects on depends on     *)
(* currentReader, currentReaders and currentWriteOpChan; z.errors is      *)
(* always selected.                                                        *)

WriterReturns(errSet) ==
    wr' = [wr EXCEPT !.st = "ret", !.err = errSet, !.ret = TRUE]

\* os.Create, the manifest check, then `go func()` starts the producer.
WriteStart ==
    /\ Running /\ UNCHANGED flags
    /\ wr.st = "start"
    /\ IF manifestWithoutJar
         \* `return errors.New(...)` leaves the local err nil
         THEN /\ WriterReturns(FALSE) /\ UNCHANGED prod
         ELSE /\ wr' = [wr EXCEPT !.st = "S0"]
              /\ prod' = [prod EXCEPT !.pc = "add"]
    /\ UNCHANGED <<writeOps, opsClosed, slot, readers, result, alloc, work,
                   cpu, mem, archive, errClosed, outExists, exitCode, faults>>

\* case writeOp, ok := <-writeOpsChan
\* Mutant: the loop ends as soon as the channel is closed, without draining
\* the slots still buffered in it.
WriterNextOp_doneOnClose ==
    /\ Running /\ UNCHANGED flags
    /\ wr.st = "S0"
    /\ \/ /\ writeOps # <<>> /\ ~opsClosed
          /\ wr' = [wr EXCEPT !.st = "S1", !.cur = Head(writeOps), !.blk = 0]
          /\ writeOps' = Tail(writeOps)
       \/ /\ opsClosed
          /\ wr' = [wr EXCEPT !.st = "last"]
          /\ UNCHANGED writeOps
    /\ UNCHANGED <<prod, opsClosed, slot, readers, result, alloc, work, cpu,
                   mem, archive, errClosed, outExists, exitCode, faults>>

WriterNextOp ==
    /\ Running /\ UNCHANGED flags
    /\ wr.st = "S0"
    /\ \/ /\ writeOps # <<>>
          /\ wr' = [wr EXCEPT !.st = "S1", !.cur = Head(writeOps), !.blk = 0]
          /\ writeOps' = Tail(writeOps)
       \/ /\ writeOps = <<>> /\ opsClosed
          /\ wr' = [wr EXCEPT !.st = "last"]
          /\ UNCHANGED writeOps
    /\ UNCHANGED <<prod, opsClosed, slot, readers, result, alloc, work, cpu,
                   mem, archive, errClosed, outExists, exitCode, faults>>

\* case op := <-writeOpChan: create the header (which may fail), close the
\* entry at once if it has no readers, release the memory reservation.
\* Mutant: memoryRateLimiter.Finish moved inside `if op.futureReaders == nil`.
WriterOpenEntry_finishOnlyWithoutReaders ==
    LET i == wr.cur IN
    /\ Running /\ UNCHANGED flags
    /\ wr.st = "S1" /\ slot[i] # Pending
    /\ \/ /\ CanFault
          /\ WriterReturns(TRUE)
          /\ faults' = faults + 1
          /\ UNCHANGED <<archive, mem>>
       \/ /\ archive' = archive \o
                <<[t |-> "hdr", e |-> i, method |-> slot[i].method]>> \o
                (IF slot[i].readers THEN <<>> ELSE <<[t |-> "end", e |-> i]>>)
          /\ wr' = [wr EXCEPT !.st = IF slot[i].readers THEN "S2" ELSE "S0"]
          /\ mem' = IF slot[i].readers THEN mem ELSE mem - alloc[i]
          /\ UNCHANGED faults
    /\ UNCHANGED <<prod, writeOps, opsClosed, slot, readers, result, alloc,
                   work, cpu, errClosed, outExists, exitCode>>

WriterOpenEntry ==
    LET i == wr.cur IN
    /\ Running /\ UNCHANGED flags
    /\ wr.st = "S1" /\ slot[i] # Pending
    /\ \/ /\ CanFault
          /\ WriterReturns(TRUE)
          /\ faults' = faults + 1
          /\ UNCHANGED <<archive, mem>>
       \/ /\ archive' = archive \o
                <<[t |-> "hdr", e |-> i, method |-> slot[i].method]>> \o
                (IF slot[i].readers THEN <<>> ELSE <<[t |-> "end", e |-> i]>>)
          /\ wr' = [wr EXCEPT !.st = IF slot[i].readers THEN "S2" ELSE "S0"]
          /\ mem' = mem - alloc[i]
          /\ UNCHANGED faults
    /\ UNCHANGED <<prod, writeOps, opsClosed, slot, readers, result, alloc,
                   work, cpu, errClosed, outExists, exitCode>>

\* case futureReader, ok := <-readersChan: the next block slot, or the end
\* of the entry once the channel is closed and drained.
WriterNextReader ==
    LET i == wr.cur IN
    /\ Running /\ UNCHANGED flags
    /\ wr.st = "S2"
    /\ \/ /\ wr.blk < readers[i].enq
          /\ wr' = [wr EXCEPT !.st = "S3", !.blk = @ + 1]
          /\ UNCHANGED archive
       \/ /\ wr.blk = readers[i].enq /\ readers[i].closed
          /\ wr' = [wr EXCEPT !.st = "S0"]
          /\ archive' = Append(archive, [t |-> "end", e |-> i])
    /\ UNCHANGED <<prod, writeOps, opsClosed, slot, readers, result, alloc,
                   work, cpu, mem, errClosed, outExists, exitCode, faults>>

\* case reader := <-currentReader: io.Copy into the entry, which may fail.
\* Mutant: `_, err := io.Copy(...)` shadows write()'s err, so the deferred
\* os.Remove does not see the error.
WriterCopy_shadowedErr ==
    LET i == wr.cur
        r == result[wr.cur][wr.blk]
    IN
    /\ Running /\ UNCHANGED flags
    /\ wr.st = "S3" /\ r # Pending
    /\ \/ /\ CanFault
          /\ WriterReturns(FALSE)
          /\ faults' = faults + 1
          /\ UNCHANGED archive
       \/ /\ archive' = Append(archive, [t |-> "data", e |-> i, b |-> wr.blk,
                                         payload |-> r.payload, last |-> r.last])
          /\ wr' = [wr EXCEPT !.st = "S2"]
          /\ UNCHANGED faults
    /\ UNCHANGED <<prod, writeOps, opsClosed, slot, readers, result, alloc,
                   work, cpu, mem, errClosed, outExists, exitCode>>

WriterCopy ==
    LET i == wr.cur
        r == result[wr.cur][wr.blk]
    IN
    /\ Running /\ UNCHANGED flags
    /\ wr.st = "S3" /\ r # Pending
    /\ \/ /\ CanFault
          /\ WriterReturns(TRUE)
          /\ faults' = faults + 1
          /\ UNCHANGED archive
       \/ /\ archive' = Append(archive, [t |-> "data", e |-> i, b |-> wr.blk,
                                         payload |-> r.payload, last |-> r.last])
          /\ wr' = [wr EXCEPT !.st = "S2"]
          /\ UNCHANGED faults
    /\ UNCHANGED <<prod, writeOps, opsClosed, slot, readers, result, alloc,
                   work, cpu, mem, errClosed, outExists, exitCode>>

\* case err = <-z.errors: in the loop, or in the final select after it.
\* The sender's send completes; a producer then returns and its deferred
\* close(z.writeOps) runs, a crcFile returns and its deferred Finish runs.
WriterReceiveError ==
    /\ Running /\ UNCHANGED flags
    /\ wr.st \in {"S0", "S1", "S2", "S3", "last"}
    /\ \E s \in ErrorSenders :
         IF s = "producer"
           THEN /\ prod' = [prod EXCEPT !.pc = "done"]
                /\ opsClosed' = TRUE
                /\ UNCHANGED <<work, cpu>>
           ELSE /\ work' = [work EXCEPT ![s] = "done"]
                /\ cpu' = IF s[2] = 0 /\ Split(s[1]) THEN cpu - 1 ELSE cpu
                /\ UNCHANGED <<prod, opsClosed>>
    /\ WriterReturns(TRUE)
    /\ UNCHANGED <<writeOps, slot, readers, result, alloc, mem, archive,
                   errClosed, outExists, exitCode, faults>>

\* The final select takes its default branch: zipw.Close(); return nil.
WriterFinish ==
    /\ Running /\ UNCHANGED flags
    /\ wr.st = "last" /\ ErrorSenders = {}
    /\ wr' = [wr EXCEPT !.st = "ret", !.ret = FALSE]
    /\ UNCHANGED <<prod, writeOps, opsClosed, slot, readers, result, alloc,
                   work, cpu, mem, archive, errClosed, outExists, exitCode,
                   faults>>

-----------------------------------------------------------------------------
(* Teardown: write()'s defers run (limiters stopped, close(z.errors), the *)
(* output removed when the local err is set), then main exits 1 on a      *)
(* returned error and 0 otherwise.                                         *)

CloseErrors ==
    /\ Running /\ UNCHANGED flags
    /\ wr.st = "ret"
    /\ errClosed' = TRUE
    /\ wr' = [wr EXCEPT !.st = "errsClosed"]
    /\ UNCHANGED <<prod, writeOps, opsClosed, slot, readers, result, alloc,
                   work, cpu, mem, archive, outExists, exitCode, faults>>

RemoveOutput ==
    /\ Running /\ UNCHANGED flags
    /\ wr.st = "errsClosed"
    /\ outExists' = (outExists /\ ~wr.err)
    /\ wr' = [wr EXCEPT !.st = "removed"]
    /\ UNCHANGED <<prod, writeOps, opsClosed, slot, readers, result, alloc,
                   work, cpu, mem, archive, errClosed, exitCode, faults>>

MainExit ==
    /\ Running /\ UNCHANGED flags
    /\ wr.st = "removed"
    /\ exitCode' = IF wr.ret THEN 1 ELSE 0
    /\ wr' = [wr EXCEPT !.st = "exited"]
    /\ UNCHANGED <<prod, writeOps, opsClosed, slot, readers, result, alloc,
                   work, cpu, mem, archive, errClosed, outExists, faults>>

\* A goroutine sending on the closed errors channel panics, which ends the
\* process with status 2 whatever the writer was doing.
SendOnClosedPanics ==
    /\ Running /\ UNCHANGED flags
    /\ errClosed /\ ErrorSenders # {}
    /\ exitCode' = 2
    /\ UNCHANGED <<prod, writeOps, opsClosed, slot, readers, result, alloc,
                   work, cpu, mem, wr, archive, errClosed, outExists, faults>>

-----------------------------------------------------------------------------

ProducerStep ==
    \/ AddFileFails \/ PushResolved \/ PushSlot \/ RequestCpu
    \/ RequestMemory \/ EnqueueBlock \/ DispatchBlock \/ CloseReaders
    \/ ProducerDone

WorkerStep ==
    \E i \in EntryIds :
        \/ compressWholeFile(i)
        \/ crcFile(i)
        \/ \E j \in BlockIds : compressPartialFile(i, j)

WriterStep ==
    \/ WriteStart \/ WriterNextOp \/ WriterOpenEntry \/ WriterNextReader
    \/ WriterCopy \/ WriterReceiveError \/ WriterFinish
    \/ CloseErrors \/ RemoveOutput \/ MainExit

\* After the process has exited nothing moves.
Terminated == ~Running /\ UNCHANGED vars

Next ==
    \/ ProducerStep \/ WorkerStep \/ WriterStep \/ SendOnClosedPanics
    \/ Terminated

\* Every goroutine the Go scheduler runs keeps running while it can.
Fairness ==
    /\ WF_vars(ProducerStep)
    /\ \A i \in EntryIds : WF_vars(compressWholeFile(i) \/ crcFile(i))
    /\ \A i \in EntryIds, j \in BlockIds :
           WF_vars(compressPartialFile(i, j))
    /\ WF_vars(WriterStep \/ SendOnClosedPanics)

Spec == Init /\ [][Next]_vars
FairSpec == Spec /\ Fairness

-----------------------------------------------------------------------------
(* The archive the entries must produce: entries in producer order; each  *)
(* a header, its blocks in range order, and the end of the entry.          *)

\* The method the header must carry: STORE for directories, symlinks and
\* stored files, DEFLATE for split files, and for small files the fallback
\* rule (DEFLATE only when the deflated bytes are smaller).
EntryMethod(i) ==
    IF /\ Entries[i].kind = "file" /\ Entries[i].method = "deflate"
       /\ (Split(i) \/ Entries[i].shrinks)
    THEN "deflate" ELSE "store"

BlockCount(i) ==
    CASE Entries[i].kind = "dir" -> 0
      [] Split(i)                -> NBlocks(i)
      [] OTHER                   -> 1

\* Only the final block of a DEFLATE stream is closed; the others end on a
\* sync flush, so that their concatenation is one stream.
EntryLayout(i) ==
    <<[t |-> "hdr", e |-> i, method |-> EntryMethod(i)]>>
    \o [j \in 1..BlockCount(i) |->
          [t |-> "data", e |-> i, b |-> j,
           payload |-> IF EntryMethod(i) = "deflate" THEN "deflate" ELSE "raw",
           last |-> j = BlockCount(i)]]
    \o <<[t |-> "end", e |-> i]>>

ArchiveLayout == FlattenSeq([i \in EntryIds |-> EntryLayout(i)])

-----------------------------------------------------------------------------
(* Properties                                                              *)

TypeOK ==
    /\ prod \in [pc: ProdPcs, i: 1..N+1, blk: 0..MaxBlocks]
    /\ writeOps \in Seq(EntryIds) /\ Len(writeOps) <= QueueCap
    /\ opsClosed \in BOOLEAN
    /\ slot \in [EntryIds -> Header \cup {Pending}]
    /\ readers \in [EntryIds -> [enq: 0..MaxBlocks, closed: BOOLEAN]]
    /\ result \in [EntryIds -> [BlockIds -> Result \cup {Pending}]]
    /\ alloc \in [EntryIds -> Nat]
    /\ work \in [Workers -> {"none", "run", "err", "done"}]
    /\ parallelJobs \in CpuLimits /\ cpu \in 0..parallelJobs /\ mem \in Nat
    /\ wr \in [st: WriterStates, cur: 0..N, blk: 0..MaxBlocks,
               err: BOOLEAN, ret: BOOLEAN]
    /\ archive \in Seq(Event)
    /\ errClosed \in BOOLEAN /\ outExists \in BOOLEAN
    /\ exitCode \in {StillRunning, 0, 1, 2}
    /\ faults \in 0..MaxFaults
    /\ manifestWithoutJar \in BOOLEAN

\* Entry-order preservation and deterministic output: whatever order the
\* workers finish in, what the writer has put into the zip is always a
\* prefix of the entries in producer order, each with the method the
\* fallback rule gives and its blocks in range order, only the last closed.
DeterministicLayout == IsPrefix(archive, ArchiveLayout)

\* While nothing has failed, the CPU slots in use are exactly those held:
\* one by the producer between Request and dispatch, one by each running
\* compressWholeFile, crcFile or compressPartialFile.
CpuSlotsAccounted ==
    faults = 0 =>
        cpu = (IF prod.pc = "mem" THEN 1 ELSE 0)
              + Quantify(Workers, LAMBDA w : work[w] = "run")

\* The memory limiter holds exactly the allocatedSize of the entries whose
\* header the writer has not yet consumed.
MemoryReservationsAccounted ==
    LET opened == {archive[k].e : k \in {k \in DOMAIN archive :
                                           archive[k].t = "hdr"}}
    IN mem = SumFunctionOnSet(alloc, EntryIds \ opened)

\* Exit status 0 means every entry was written completely and no error was
\* raised anywhere: an error can never be lost by the writer.
SuccessfulExitIsComplete ==
    exitCode = 0 => archive = ArchiveLayout /\ faults = 0

\* A run that does not succeed exits with status 1 and leaves no partial
\* archive behind (the deferred os.Remove of write()).
ErrorRunCleansUp ==
    exitCode \in {1, 2} => exitCode = 1 /\ ~outExists

\* The process always terminates: the writer never waits forever on a slot,
\* a block or the writeOps channel.
Termination == <>(exitCode # StillRunning)

====
