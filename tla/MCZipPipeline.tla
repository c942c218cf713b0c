--------------------------- MODULE MCZipPipeline ---------------------------
(* Instances of ZipPipeline for TLC. Sizes are in units of a scaled-down   *)
(* block: BlockSize 2 and MinParallelFileSize 4 keep the code's ratio of    *)
(* window < block <= threshold while letting a 5-unit file split into      *)
(* three blocks, the last one short.                                       *)
EXTENDS ZipPipeline

Dir == [kind |-> "dir", method |-> "store", size |-> 0, shrinks |-> FALSE]
Symlink == [kind |-> "symlink", method |-> "store", size |-> 0, shrinks |-> FALSE]
File(m, n, sh) == [kind |-> "file", method |-> m, size |-> n, shrinks |-> sh]

\* A directory; a large file split into three blocks, the last one short;
\* a small file that deflates; a stored file; a symlink; a large file whose
\* size is a multiple of the block size; a small file that falls back to
\* STORE.
MCEntries ==
    << Dir, File("deflate", 5, TRUE), File("deflate", 1, TRUE),
       File("store", 1, FALSE), Symlink, File("deflate", 4, TRUE),
       File("deflate", 1, FALSE) >>
====
