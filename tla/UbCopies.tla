------------------------------- MODULE UbCopies -------------------------------
(***************************************************************************)
(* Copies of lines between GM and the unified buffer: copy_gm_to_ub.hpp,   *)
(* copy_ub_to_gm.hpp and their _tla twins in epilogue/tile and gemm/tile,  *)
(* for RowMajor, and AscendC::DataCopyPad under them.  An address is       *)
(* <<memory, offset>>; a layout of lines [rows, cols, ld].  A function     *)
(* from offsets behind the destination to offsets behind the source says   *)
(* what goes where.                                                        *)
(***************************************************************************)
EXTENDS Pipes

CONSTANT E              \* elements in a block of 32 bytes of UB

Address(memory, offset) == <<memory, offset>>
Shift(a, n) == Address(a[1], a[2] + n)

WholeBlocks(len) == ((len + E - 1) \div E) * E

\* DataCopyPad: lines of `len`, in UB filled up to a block of E and `gap` blocks apart.
Line(len, gap) == WholeBlocks(len) + gap * E
PadToUb(count, len, srcGap, dstGap) ==
    [d \in {i * Line(len, dstGap) + j : i \in 0 .. count - 1, j \in 0 .. WholeBlocks(len) - 1} |->
       LET j == d % Line(len, dstGap)
       IN  IF j < len THEN (d \div Line(len, dstGap)) * (len + srcGap) + j ELSE Nowhere]
PadToGm(count, len, srcGap, dstGap) ==
    [d \in {i * (len + dstGap) + j : i \in 0 .. count - 1, j \in 0 .. len - 1} |->
       (d \div (len + dstGap)) * Line(len, srcGap) + (d % (len + dstGap))]

RowMajor(rows, cols, ld) == [rows |-> rows, cols |-> cols, ld |-> ld]

\* `w` units make an element.
CopyGm2UbOf(w, dst, src, ub, gm) ==
    Move("MTE2", dst, src,
             PadToUb(gm.rows, gm.cols * w, (gm.ld - gm.cols) * w, (ub.ld - ub.cols) \div (E \div w)))
CopyGm2Ub(dst, src, ub, gm) == CopyGm2UbOf(1, dst, src, ub, gm)

CopyUb2Gm(dst, src, gm, ub) ==
    Move("MTE3", dst, src, PadToGm(gm.rows, gm.cols, (ub.ld - ub.cols) \div E, gm.ld - gm.cols))
=============================================================================
