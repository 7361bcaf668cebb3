----------------------------- MODULE TileCopies -----------------------------
(***************************************************************************)
(* One operand tile on its way from GM to L1 and, part by part, from L1 to *)
(* L0A or L0B: the copies of gemm/tile/atlasa2 (copy_gm_to_l1.hpp,         *)
(* copy_l1_to_l0a.hpp, copy_l1_to_l0b.hpp) with the layouts that           *)
(* block_mmad_pingpong.hpp and block_mmad_gemm.hpp make for them.          *)
(*                                                                         *)
(* A path [side, gm, l1, copy, e, block] names the specialisations an      *)
(* operand takes: matrix A or B, its layouts in GM and in L1, the struct   *)
(* that copies from GM, the elements in a C0 block, the BlockMmad.  The    *)
(* memories map an offset to the GM offset its element was read from; L0   *)
(* keeps what the part before left there.                                  *)
(***************************************************************************)
EXTENDS TileLayouts

CONSTANTS
    STRIDE_LIMIT,       \* a line distance that Nd2NzParams cannot hold
    L1Outer,            \* L1Outer[e]: L1TileShape::M or N for that element size
    L1K, L0K,           \* L1K[e], L0K[e]: L1TileShape::K, L0TileShape::K
    Paths,              \* the paths to follow
    LineStrides,        \* distances of lines in GM, beside those of a dense tile
    LongGemmStrides     \* whether the copies to zZ and nN meet a line distance
                        \* beyond the limit with more than one fractal of lines

ASSUME TileAssumption ==
    \A p \in Paths : /\ L1Outer[p.e] % p.e = 0
                     /\ L1K[p.e] % p.e = 0
                     /\ L0K[p.e] % p.e = 0

VARIABLES
    path,       \* the path of this operand
    tile,       \* outer: rows of A or columns of B; k; ld: the distance of lines in GM
    l1, l0,     \* the memories
    part,       \* 0 while the tile is loaded to L1, then the part of k being copied
    todo        \* the instructions still to execute

vars == <<path, tile, l1, l0, part, todo>>

Stale == -2

\* A loop whose body, for i = 0, 1, ..., is one instruction.
Loop(n, body(_)) == [i \in 1 .. n |-> body(i - 1)]

(***************************************************************************)
(* The copies from GM to L1, written for lines that are rows: src is       *)
(* [rows, cols, ld].  The structs for columns are the same code on the     *)
(* transposed layouts.                                                     *)
(***************************************************************************)
Lines(dst, src, e, ndNum, nValue) ==
    Nd2Nz(e, [ndNum |-> ndNum, nValue |-> nValue, dValue |-> src.cols,
              srcNdMatrixStride |-> C0_NUM_PER_FRACTAL * src.ld, srcDValue |-> src.ld,
              dstNzC0Stride |-> dst.stride[3] \div e,
              dstNzNStride |-> dst.stride[0] \div e,
              dstNzMatrixStride |-> dst.stride[1]])

\* CopyGmToL1 of RowMajor to zN: in one instruction, or line by line.
LinesToZN(dst, src, e) ==
    LET line(i) == At(i * e, i * src.ld, Lines(dst, src, e, 1, 1))
    IN  IF src.ld < STRIDE_LIMIT THEN <<Lines(dst, src, e, 1, src.rows)>>
                                 ELSE Loop(src.rows, line)

\* Mutation of DenseOrLines: the distance of the lines is not looked at.
DenseByColumns(dst, src, e) ==
    IF src.ld < STRIDE_LIMIT /\ src.cols = e
      THEN <<Contiguous(src.rows * src.cols)>>
      ELSE LinesToZN(dst, src, e)

\* A tile of one C0 block per line, dense in GM, lies in L1 as it does in GM.
DenseOrLines(dst, src, e) ==
    IF src.ld < STRIDE_LIMIT /\ src.cols = e /\ src.ld = e
      THEN <<Contiguous(src.rows * src.cols)>>
      ELSE LinesToZN(dst, src, e)

\* CopyGmToL1IntervalDataCopy: a line is cut in C0 blocks.
Intervals(dst, src, e) ==
    LET line(i) == At(i * dst.shape[2], i * src.ld,
                      Blocks(e, CeilDiv(src.cols, dst.shape[2]), dst.shape[2] \div e,
                             0, (dst.stride[3] - dst.shape[2]) \div e))
    IN  Loop(src.rows, line)

\* CopyGmToL1DynamicOptimized: few (16, the lines of a fractal) lines, or many.
FewOrManyLines(dst, src, e) ==
    IF src.rows <= C0_NUM_PER_FRACTAL THEN Intervals(dst, src, e) ELSE DenseOrLines(dst, src, e)

\* CopyGmToL1GMMPTD.
OneOrManyLines(dst, src, e) ==
    IF src.rows = 1 THEN Intervals(dst, src, e) ELSE DenseOrLines(dst, src, e)

\* CopyGmToL1 of RowMajor to zZ: the full fractals of lines and the rest of the
\* lines; fractal by fractal; or line by line.
LineOffsetInZZ(dst, e, i) == i * (i \div C0_NUM_PER_FRACTAL) * dst.stride[1] + (i % C0_NUM_PER_FRACTAL) * e

LinesToZZ(dst, src, e) ==
    LET ndNum == src.rows \div C0_NUM_PER_FRACTAL
        remains == src.rows % C0_NUM_PER_FRACTAL
        ndAt(i, n) == At(i * dst.stride[1], i * C0_NUM_PER_FRACTAL * src.ld, Lines(dst, src, e, 1, n))
        nd(i) == ndAt(i, C0_NUM_PER_FRACTAL)
        line(i) == At(LineOffsetInZZ(dst, e, i), i * src.ld, Lines(dst, src, e, 1, 1))
        tail == IF remains = 0 THEN <<>> ELSE <<ndAt(ndNum, remains)>>
    IN  CASE C0_NUM_PER_FRACTAL * src.ld < STRIDE_LIMIT ->
               (IF ndNum = 0 THEN <<>> ELSE <<Lines(dst, src, e, ndNum, C0_NUM_PER_FRACTAL)>>) \o tail
          [] C0_NUM_PER_FRACTAL * src.ld >= STRIDE_LIMIT /\ src.ld < STRIDE_LIMIT -> Loop(ndNum, nd) \o tail
          [] src.ld >= STRIDE_LIMIT -> Loop(src.rows, line)

\* CopyGmToL1 of a zN tile that keeps its layout: src is the tile's layout.
FractalsToZN(dst, src, e) ==
    LET blockCount == CeilDiv(src.org[2], e)
        blockLen == src.org[1]
        column(i) == At(i * dst.stride[3], i * src.stride[3], Blocks(e, 1, blockLen, 0, 0))
    IN  IF src.stride[3] \div e < STRIDE_LIMIT
          THEN <<Blocks(e, blockCount, blockLen, src.stride[3] \div e - blockLen,
                        dst.stride[3] \div e - blockLen)>>
          ELSE Loop(blockCount, column)

(***************************************************************************)
(* The copies from L1 to L0.                                               *)
(***************************************************************************)
FractalRows(n, dst, src, load) ==
    LET row(i) == At(i * dst.stride[1], i * src.stride[1], load) IN Loop(n, row)

\* A to zZ in L0A, from zN, from nN, and from nZ of half and of int8.
ZNToL0A(dst, src, e) ==
    FractalRows(dst.shape[1], dst, src,
                LoadFractals(e, dst.shape[3], src.stride[3] \div Fractal(e),
                             dst.stride[3] \div Fractal(e) - 1, FALSE))

NNToL0A(dst, src, e) ==
    FractalRows(CeilDiv(src.org[1], e), dst, src,
                LoadFractals(e, CeilDiv(dst.org[2], C0_NUM_PER_FRACTAL), CeilDiv(src.org[1], e), 0, TRUE))

NZToL0A(dst, src, e) ==
    FractalRows(CeilDiv(dst.org[1], e), dst, src,
                LoadFractals(e, CeilDiv(dst.org[2], C0_NUM_PER_FRACTAL), src.stride[3] \div Fractal(e),
                             dst.stride[3] \div Fractal(e) - 1, TRUE))

NZSquaresToL0A(dst, src, e) ==
    LET squares == LoadSquares(e, CeilDiv(dst.org[2], e), 1, 0, CeilDiv(dst.org[2], e) - 1)
        row(i) == At(i * dst.stride[1] * 2, i * src.stride[1], squares)
    IN  Loop(CeilDiv(dst.org[1], e), row)

\* B to nZ in L0B, from zZ, from zN of half and of int8, and from nZ.
ZZToL0B(dst, src, e) ==
    FractalRows(CeilDiv(dst.org[1], C0_NUM_PER_FRACTAL), dst, src,
                LoadFractals(e, CeilDiv(src.org[2], e), 1, 0, TRUE))

ZNToL0B(dst, src, e) ==
    FractalRows(CeilDiv(dst.org[1], C0_NUM_PER_FRACTAL), dst, src,
                LoadFractals(e, CeilDiv(dst.org[2], e), src.stride[3] \div Fractal(e),
                             dst.stride[3] \div Fractal(e) - 1, TRUE))

ZNSquaresToL0B(dst, src, e) ==
    LET squares == LoadSquares(e, CeilDiv(dst.org[2], e), src.stride[3] \div (2 * Fractal(e)), 1, 0)
        row(i) == At(i * dst.stride[1], i * src.stride[1] * 2, squares)
    IN  Loop(CeilDiv(dst.org[1], e), row)

NZToL0B(dst, src, e) ==
    FractalRows(dst.shape[1], dst, src,
                LoadFractals(e, dst.shape[3], src.stride[3] \div Fractal(e),
                             dst.stride[3] \div Fractal(e) - 1, FALSE))

\* The nZ copy that CopyL1ToL0B of A1 takes: at once, when the tile has all columns.
NZAtOnceToL0B(dst, src, e) ==
    IF src.shape[3] = dst.shape[3]
      THEN <<LoadFractals(e, dst.shape[1] * dst.shape[3], 1, 0, FALSE)>>
      ELSE NZToL0B(dst, src, e)

(***************************************************************************)
(* The operand: its tile in GM, its layouts, the copies its path selects.  *)
(***************************************************************************)
ByRows(p) == p.gm \in {"RowMajor", "PaddingRowMajor", "zN"}     \* lines are rows

\* Mutation of OuterAligned: always to the lines of a fractal.
AlignedToFractal(p) == C0_NUM_PER_FRACTAL

\* L1AlignHelper: what the outer dimension of a tile is rounded to.
OuterAligned(p) == IF (p.side = "A") = ByRows(p) THEN C0_NUM_PER_FRACTAL ELSE p.e

Oriented(p, L) == IF ByRows(p) THEN L ELSE Transposed(L)

\* The layout of `outer` rows (columns) and k columns (rows) of A (of B).
Operand(p, tag, outer, k) ==
    IF p.side = "A" THEN LayoutOf(tag, outer, k, p.e) ELSE LayoutOf(tag, k, outer, p.e)

InL1(p) == Operand(p, p.l1, L1Outer[p.e], L1K[p.e])

\* Lines of the tile, elements of a line, and the place of an element in GM.
LineCount(p, outer, k) == IF (p.side = "A") = ByRows(p) THEN outer ELSE k
LineLength(p, outer, k) == IF (p.side = "A") = ByRows(p) THEN k ELSE outer

GmTile(p, t) ==
    TileLayout(zN(t.ld, LineLength(p, L1Outer[p.e], L1K[p.e]), p.e),
               LineCount(p, t.outer, t.k), LineLength(p, t.outer, t.k))

GmPlace(p, t, o, k) ==
    LET line == LineCount(p, o, k)
        pos == LineLength(p, o, k)
    IN  IF p.gm \in {"zN", "nZ"} THEN Place(GmTile(p, t), line, pos) ELSE line * t.ld + pos

CopyGmToL1(p, t) ==
    LET dst == Oriented(p, InL1(p))
        src == [rows |-> LineCount(p, t.outer, t.k), cols |-> LineLength(p, t.outer, t.k), ld |-> t.ld]
    IN  CASE p.gm \in {"zN", "nZ"} -> FractalsToZN(dst, GmTile(p, t), p.e)
          [] p.copy = "IntervalDataCopy" -> Intervals(dst, src, p.e)
          [] p.copy = "DynamicOptimized" -> FewOrManyLines(dst, src, p.e)
          [] p.copy = "GMMPTD" -> OneOrManyLines(dst, src, p.e)
          [] p.copy = "Default" /\ p.gm \in {"PaddingRowMajor", "PaddingColumnMajor"} ->
               <<Lines(dst, src, p.e, 1, src.rows)>>
          [] p.copy = "Default" /\ p.gm \in {"RowMajor", "ColumnMajor"} ->
               IF p.l1 \in {"zZ", "nN"} THEN LinesToZZ(dst, src, p.e) ELSE LinesToZN(dst, src, p.e)

\* Parts of k.
PartLoop == CeilDiv(tile.k, L0K[path.e])
PartStart(i) == (i - 1) * L0K[path.e]
PartActual(i) == IF i < PartLoop THEN L0K[path.e] ELSE tile.k - PartStart(i)

\* The gemm BlockMmad takes the whole outer dimension of its L1 tile.
InL0(i) ==
    Operand(path, IF path.side = "A" THEN "zZ" ELSE "nZ",
            IF path.block = "gemm" THEN L1Outer[path.e] ELSE RoundUp(tile.outer, OuterAligned(path)),
            PartActual(i))

L1Tile(i) ==
    IF path.side = "A" THEN GetOffset(path.l1, InL1(path), 0, PartStart(i))
                       ELSE GetOffset(path.l1, InL1(path), PartStart(i), 0)

CopyL1ToL0(i) ==
    LET dst == InL0(i)
        src == InL1(path)
        e == path.e
        square == e = C0_NUM_PER_FRACTAL
        copy == CASE path.side = "A" /\ path.l1 = "zN" -> ZNToL0A(dst, src, e)
                  [] path.side = "A" /\ path.l1 = "nN" -> NNToL0A(dst, src, e)
                  [] path.side = "A" /\ path.l1 = "nZ" ->
                       IF square THEN NZToL0A(dst, src, e) ELSE NZSquaresToL0A(dst, src, e)
                  [] path.side = "B" /\ path.l1 = "zZ" -> ZZToL0B(dst, src, e)
                  [] path.side = "B" /\ path.l1 = "zN" ->
                       IF square THEN ZNToL0B(dst, src, e) ELSE ZNSquaresToL0B(dst, src, e)
                  [] path.side = "B" /\ path.l1 = "nZ" ->
                       IF path.block = "gemm" THEN NZToL0B(dst, src, e) ELSE NZAtOnceToL0B(dst, src, e)
    IN  [j \in DOMAIN copy |-> At(0, L1Tile(i), copy[j])]

(***************************************************************************)
(* Behaviour.                                                              *)
(***************************************************************************)
Written(mem, instr, from(_)) ==
    [o \in DOMAIN mem |->
        IF \E w \in instr : w[1] = o THEN from((CHOOSE w \in instr : w[1] = o)[2]) ELSE mem[o]]

Memory(L) == [o \in 0 .. Capacity(L) - 1 |-> Stale]

LineDistances(p, outer, k) ==
    LET dense == LineLength(p, outer, k)
    IN  CASE p.gm \in {"PaddingRowMajor", "PaddingColumnMajor"} ->
               {LineLength(p, L1Outer[p.e], L1K[p.e])}
          [] p.gm \in {"zN", "nZ"} -> {n \in LineStrides : n >= LineCount(p, outer, k)}
          [] OTHER -> {n \in LineStrides \union {dense} :
                         /\ n >= dense
                         /\ n >= STRIDE_LIMIT /\ p.l1 \in {"zZ", "nN"} /\ ~LongGemmStrides
                            => LineCount(p, outer, k) <= C0_NUM_PER_FRACTAL}

Init ==
    /\ path \in Paths
    /\ \E outer \in 1 .. L1Outer[path.e], k \in 1 .. L1K[path.e] :
         \E ld \in LineDistances(path, outer, k) : tile = [outer |-> outer, k |-> k, ld |-> ld]
    /\ l1 = Memory(InL1(path))
    /\ l0 = Memory(Operand(path, "zZ", L1Outer[path.e], L0K[path.e]))
    /\ part = 0
    /\ todo = CopyGmToL1(path, tile)

\* An instruction of the copy to L1.
LoadL1 ==
    /\ part = 0
    /\ todo # <<>>
    /\ l1' = Written(l1, Head(todo), LAMBDA s : s)
    /\ todo' = Tail(todo)
    /\ UNCHANGED <<path, tile, l0, part>>

\* The k loop reaches the next part.
NextPart ==
    /\ todo = <<>>
    /\ part < PartLoop
    /\ part' = part + 1
    /\ todo' = CopyL1ToL0(part + 1)
    /\ UNCHANGED <<path, tile, l1, l0>>

\* An instruction of the copy to L0; what lies behind the L1 tile is stale.
LoadL0 ==
    /\ part > 0
    /\ todo # <<>>
    /\ l0' = Written(l0, Head(todo), LAMBDA s : IF s \in DOMAIN l1 THEN l1[s] ELSE Stale)
    /\ todo' = Tail(todo)
    /\ UNCHANGED <<path, tile, l1, part>>

Terminated == todo = <<>> /\ part = PartLoop /\ UNCHANGED vars

Next == LoadL1 \/ NextPart \/ LoadL0 \/ Terminated

Spec == Init /\ [][Next]_vars

(***************************************************************************)
(* Properties.                                                             *)
(***************************************************************************)
PlaceOf(p, L, o, k) == IF p.side = "A" THEN Place(L, o, k) ELSE Place(L, k, o)

\* Every element of the tile lies where the layout the multiplication is told says,
\* in L1 once the copies from GM are done and in L0 once a part is copied, whichever
\* of the copies and fallbacks took it there, and whatever the part before left.
InPlace ==
    /\ part = 1 /\ todo = CopyL1ToL0(1) =>
         \A o \in 0 .. tile.outer - 1, k \in 0 .. tile.k - 1 :
            l1[PlaceOf(path, InL1(path), o, k)] = GmPlace(path, tile, o, k)
    /\ part > 0 /\ todo = <<>> =>
         \A o \in 0 .. tile.outer - 1, k \in 0 .. PartActual(part) - 1 :
            l0[PlaceOf(path, InL0(part), o, k)] = GmPlace(path, tile, o, PartStart(part) + k)

\* No instruction writes beyond the tile that its destination layout spans: the
\* neighbouring slot of the ring is in use.
WithinBuffers ==
    todo # <<>> =>
      LET size == Capacity(IF part = 0 THEN InL1(path) ELSE InL0(part))
      IN  \A w \in Head(todo) : w[1] \in 0 .. size - 1

=============================================================================
