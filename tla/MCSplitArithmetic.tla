------------------------- MODULE MCSplitArithmetic -------------------------
(* Sizes around every boundary of the split path at the real constants:   *)
(* just under, at and over minParallelFileSize and the following block     *)
(* multiples, and a window's length past a block boundary.                 *)
EXTENDS SplitArithmetic

MCSizes ==
    {k * parallelBlockSize + d : k \in 5..8,
                                 d \in {-1, 0, 1, windowSize - 1, windowSize}}
====
