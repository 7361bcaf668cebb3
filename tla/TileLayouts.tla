----------------------------- MODULE TileLayouts -----------------------------
(***************************************************************************)
(* Where an element of a matrix tile lies (layout/matrix.hpp), and what    *)
(* the instructions that move tiles write where.                           *)
(*                                                                         *)
(* L1 and L0 hold matrices in fractals of C0_NUM_PER_FRACTAL lines of one  *)
(* C0 block of 32 bytes, that is e = ELE_NUM_PER_C0 elements: as many as   *)
(* lines for half, twice as many for int8.  A layout gives, for rows and   *)
(* for columns, the extent inside a fractal and the number of fractals     *)
(* (shape), and the distances in memory (stride); coordinate i of the code *)
(* is index i here.  The upper-case letter of a name tells that the        *)
(* fractals follow one another by rows (Z) or by columns (N), the first    *)
(* letter the same of the elements inside a fractal.                       *)
(*                                                                         *)
(* An instruction is the set of <<destination, source>> element offsets it *)
(* transfers.                                                              *)
(***************************************************************************)
EXTENDS Integers, Sequences

CONSTANT C0_NUM_PER_FRACTAL     \* lines of a fractal

ASSUME FractalAssumption == C0_NUM_PER_FRACTAL \in Nat \ {0}

Fractal(e) == C0_NUM_PER_FRACTAL * e            \* ELE_NUM_PER_FRACTAL

CeilDiv(a, b) == (a + b - 1) \div b
RoundUp(a, b) == CeilDiv(a, b) * b

(***************************************************************************)
(* Layouts.                                                                *)
(***************************************************************************)
Coord(a, b, c, d) == [i \in 0..3 |-> <<a, b, c, d>>[i + 1]]

\* zZ::MakeLayout and zN::MakeLayout.
zZ(rows, cols, e) ==
    LET rowsRound == RoundUp(rows, C0_NUM_PER_FRACTAL)
        colsRound == RoundUp(cols, e)
    IN  [org |-> <<rows, cols>>,
         shape |-> Coord(C0_NUM_PER_FRACTAL, rowsRound \div C0_NUM_PER_FRACTAL, e, colsRound \div e),
         stride |-> Coord(e, colsRound * C0_NUM_PER_FRACTAL, 1, Fractal(e))]

zN(rows, cols, e) ==
    LET rowsRound == RoundUp(rows, C0_NUM_PER_FRACTAL)
        colsRound == RoundUp(cols, e)
    IN  [org |-> <<rows, cols>>,
         shape |-> Coord(C0_NUM_PER_FRACTAL, rowsRound \div C0_NUM_PER_FRACTAL, e, colsRound \div e),
         stride |-> Coord(e, Fractal(e), 1, rowsRound * e)]

\* The layout of the transposed matrix in the same memory.  The structs of the
\* column layouts repeat those of the row layouts with rows and columns exchanged.
Transposed(L) ==
    [org |-> <<L.org[2], L.org[1]>>,
     shape |-> [i \in 0..3 |-> L.shape[(i + 2) % 4]],
     stride |-> [i \in 0..3 |-> L.stride[(i + 2) % 4]]]

nZ(rows, cols, e) == Transposed(zN(cols, rows, e))
nN(rows, cols, e) == Transposed(zZ(cols, rows, e))

LayoutOf(tag, rows, cols, e) ==
    CASE tag = "zZ" -> zZ(rows, cols, e)
      [] tag = "zN" -> zN(rows, cols, e)
      [] tag = "nZ" -> nZ(rows, cols, e)
      [] tag = "nN" -> nN(rows, cols, e)

\* A tile of a layout: GetTileLayout keeps the strides.
TileLayout(L, rows, cols) ==
    [org |-> <<rows, cols>>,
     shape |-> [L.shape EXCEPT ![1] = CeilDiv(rows, L.shape[0]), ![3] = CeilDiv(cols, L.shape[2])],
     stride |-> L.stride]

\* The first element of the fractal of (r, c), and (r, c) itself.
FractalOf(L, r, c) == (r \div L.shape[0]) * L.stride[1] + (c \div L.shape[2]) * L.stride[3]

Place(L, r, c) ==
    FractalOf(L, r, c) + (r % L.shape[0]) * L.stride[0] + (c % L.shape[2]) * L.stride[2]

\* GetOffset of zZ and nN finds the fractal only.
GetOffset(tag, L, r, c) == IF tag \in {"zZ", "nN"} THEN FractalOf(L, r, c) ELSE Place(L, r, c)

\* Elements a layout spans: whole fractals.
Capacity(L) == L.shape[0] * L.shape[1] * L.shape[2] * L.shape[3]

(***************************************************************************)
(* Instructions, hardware modelled from their use in gemm/tile.            *)
(***************************************************************************)
Zero == -1      \* source of an element that the instruction fills with zero

At(dst, src, instr) ==
    {<<dst + p[1], IF p[2] = Zero THEN Zero ELSE src + p[2]>> : p \in instr}

\* DataCopy with Nd2NzParams: ndNum matrices of nValue lines of dValue elements,
\* each line cut in C0 blocks, the last one filled up.
Nd2Nz(e, q) ==
    {<<p[1] * q.dstNzMatrixStride + p[2] * q.dstNzNStride * e
         + (p[3] \div e) * q.dstNzC0Stride * e + (p[3] % e),
       IF p[3] < q.dValue THEN p[1] * q.srcNdMatrixStride + p[2] * q.srcDValue + p[3] ELSE Zero>>
       : p \in (0 .. q.ndNum - 1) \X (0 .. q.nValue - 1) \X (0 .. RoundUp(q.dValue, e) - 1)}

\* DataCopy with DataCopyParams: blocks of blockLen C0 blocks, gaps in C0 blocks.
Blocks(e, blockCount, blockLen, srcGap, dstGap) ==
    {<<b[1] * (blockLen + dstGap) * e + b[2], b[1] * (blockLen + srcGap) * e + b[2]>>
       : b \in (0 .. blockCount - 1) \X (0 .. blockLen * e - 1)}

\* DataCopy of a number of elements.
Contiguous(n) == {<<i, i>> : i \in 0 .. n - 1}

\* LoadData with LoadData2DParams: fractals; ifTranspose transposes each, which
\* takes square fractals.
LoadFractals(e, repeatTimes, srcStride, dstGap, ifTranspose) ==
    {<<f[1] * (1 + dstGap) * Fractal(e) + f[2] * e + f[3],
       f[1] * srcStride * Fractal(e) + (IF ifTranspose THEN f[3] * e + f[2] ELSE f[2] * e + f[3])>>
       : f \in (0 .. repeatTimes - 1) \X (0 .. C0_NUM_PER_FRACTAL - 1) \X (0 .. e - 1)}

\* LoadDataWithTranspose of int8: squares of two fractals each.  Square f starts at
\* f * srcStride squares; its fractals are dstFracGap apart, and the first ones of
\* two squares dstGap.
LoadSquares(e, repeatTimes, srcStride, dstGap, dstFracGap) ==
    {<<f[1] * (1 + dstGap) * Fractal(e) + (f[2] \div C0_NUM_PER_FRACTAL) * (1 + dstFracGap) * Fractal(e)
         + (f[2] % C0_NUM_PER_FRACTAL) * e + f[3],
       f[1] * srcStride * e * e + f[3] * e + f[2]>>
       : f \in (0 .. repeatTimes - 1) \X (0 .. e - 1) \X (0 .. e - 1)}

=============================================================================
