--------------------------- MODULE SplitArithmetic ---------------------------
(***************************************************************************)
(* The arithmetic of writeFileContents' split path at the code's own       *)
(* constants (cmd/soong_zip/soong_zip.go): the choice of the split path,   *)
(* the capacity of ze.futureReaders, and the block loop, one iteration per *)
(* step, with each block's section, last flag and dictionary window.       *)
(* The loop is checked against a closed-form partition of the file.        *)
(***************************************************************************)
EXTENDS Integers, Sequences

CONSTANTS
    Sizes,       \* the uncompressed sizes to try
    Methods      \* header methods to try: "deflate", "store"

\* const parallelBlockSize, minParallelFileSize, windowSize
parallelBlockSize == 1 * 1024 * 1024
minParallelFileSize == parallelBlockSize * 6
windowSize == 32 * 1024

NoDict == -1    \* dict is nil: no dictionary read

\* header.Method == zip.Deflate && fileSize >= minParallelFileSize
SplitPath(method, fileSize) ==
    method = "deflate" /\ fileSize >= minParallelFileSize

\* Mutant: the buffer sized by fileSize/parallelBlockSize alone.
ReaderCapacity_noSlack(fileSize) == fileSize \div parallelBlockSize

\* make(chan chan io.Reader, (fileSize/parallelBlockSize)+1)
ReaderCapacity(fileSize) == fileSize \div parallelBlockSize + 1

VARIABLES
    method,    \* header.Method
    fileSize,  \* int64(header.UncompressedSize64)
    start,     \* the loop variable
    blocks,    \* what each iteration dispatched, in order
    pc         \* "loop" while in the block loop, "done" after it

vars == <<method, fileSize, start, blocks, pc>>

Init ==
    /\ method \in Methods
    /\ fileSize \in Sizes
    /\ start = 0
    /\ blocks = <<>>
    /\ pc = IF SplitPath(method, fileSize) THEN "loop" ELSE "done"

\* Mutant: last = !(start+parallelBlockSize <= fileSize), an off-by-one.
Iterate_lastOffByOne ==
    LET sectionLen == IF start + parallelBlockSize <= fileSize
                        THEN parallelBlockSize ELSE fileSize - start
        last == ~(start + parallelBlockSize <= fileSize)
        dict == IF start >= windowSize THEN start - windowSize ELSE NoDict
    IN
    /\ pc = "loop" /\ start < fileSize
    /\ blocks' = Append(blocks, [off |-> start, len |-> sectionLen,
                                 last |-> last, dict |-> dict])
    /\ start' = start + parallelBlockSize
    /\ UNCHANGED <<method, fileSize, pc>>

\* Mutant: the `if start >= windowSize` guard dropped; the first block
\* reads a window before the start of the file.
Iterate_dictAlways ==
    LET sectionLen == IF start + parallelBlockSize <= fileSize
                        THEN parallelBlockSize ELSE fileSize - start
        last == ~(start + parallelBlockSize < fileSize)
    IN
    /\ pc = "loop" /\ start < fileSize
    /\ blocks' = Append(blocks, [off |-> start, len |-> sectionLen,
                                 last |-> last, dict |-> start - windowSize])
    /\ start' = start + parallelBlockSize
    /\ UNCHANGED <<method, fileSize, pc>>

\* One iteration: io.NewSectionReader(r, start, parallelBlockSize) (short at
\* EOF), ze.futureReaders <- resultChan, the last flag, the dictionary of
\* the windowSize bytes before start once start >= windowSize, then
\* compressPartialFile; start += parallelBlockSize.
Iterate ==
    LET sectionLen == IF start + parallelBlockSize <= fileSize
                        THEN parallelBlockSize ELSE fileSize - start
        last == ~(start + parallelBlockSize < fileSize)
        dict == IF start >= windowSize THEN start - windowSize ELSE NoDict
    IN
    /\ pc = "loop" /\ start < fileSize
    /\ blocks' = Append(blocks, [off |-> start, len |-> sectionLen,
                                 last |-> last, dict |-> dict])
    /\ start' = start + parallelBlockSize
    /\ UNCHANGED <<method, fileSize, pc>>

\* The loop condition fails: close(ze.futureReaders).
LoopEnds ==
    /\ pc = "loop" /\ start >= fileSize
    /\ pc' = "done"
    /\ UNCHANGED <<method, fileSize, start, blocks>>

Done == pc = "done" /\ UNCHANGED vars

Next == Iterate \/ LoopEnds \/ Done

Spec == Init /\ [][Next]_vars

-----------------------------------------------------------------------------
(* Reference: a file of size s split into ceil(s / B) consecutive blocks of *)
(* B bytes, the final one holding the rest, only it closing the stream,    *)
(* each later block primed with the windowSize bytes just before it.       *)

BlockTotal(s) == (s + parallelBlockSize - 1) \div parallelBlockSize

ReferenceBlocks(s) ==
    [k \in 1..BlockTotal(s) |->
        LET off == (k - 1) * parallelBlockSize IN
        [off  |-> off,
         len  |-> IF k < BlockTotal(s) THEN parallelBlockSize ELSE s - off,
         last |-> k = BlockTotal(s),
         dict |-> IF off >= windowSize THEN off - windowSize ELSE NoDict]]

-----------------------------------------------------------------------------
(* Properties                                                              *)

TypeOK ==
    /\ method \in Methods /\ fileSize \in Sizes
    /\ start \in Nat /\ pc \in {"loop", "done"}
    /\ blocks \in Seq([off: Nat, len: Nat, last: BOOLEAN, dict: Nat \cup {NoDict}])

\* The comment at the make of ze.futureReaders: the buffer holds every
\* reader, so the producer's `ze.futureReaders <- resultChan` never blocks
\* even when the writer has taken none of them yet.
FutureReadersNeverFull ==
    Len(blocks) <= ReaderCapacity(fileSize)

\* When the loop is over, the blocks it dispatched are exactly the
\* reference partition: no gap, no overlap, no empty block, exactly the
\* final one closed, dictionaries stitched to the preceding window; and a
\* file off the split path dispatches no block.
LoopMatchesReference ==
    pc = "done" =>
        blocks = IF SplitPath(method, fileSize)
                   THEN ReferenceBlocks(fileSize) ELSE <<>>

====
