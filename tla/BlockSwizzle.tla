---------------------------- MODULE BlockSwizzle ----------------------------
(***************************************************************************)
(* The block schedulers of gemm/block/block_swizzle.hpp that say which     *)
(* block of C a task is, and which slice of k: GemmIdentityBlockSwizzle,   *)
(* SplitkGemmIdentityBlockSwizzle, and three that know how many cores      *)
(* there are: L1FullLoad gives every core a run of neighbouring blocks,    *)
(* SingleCoreSplitk too, with all of their k, and TailSplitk splits k of   *)
(* the blocks that do not fill a wave.  Of these three p is the problem:   *)
(* cores, shape and tile [m, n, k], offset and direction of the swizzle.   *)
(***************************************************************************)
EXTENDS Integers

CeilDiv(a, b) == (a + b - 1) \div b

\* Mutation of Snake: the last band taken to be as high as the others.
SnakeFullBands(i, rows, columns, offset) ==
    LET band == i \div (offset * columns)
        inBand == i % (offset * columns)
        column == inBand \div offset
    IN  [row |-> band * offset + (inBand % offset),
         column |-> IF band % 2 = 1 THEN columns - column - 1 ELSE column]

\* Position i on the way through rows and columns in bands of offset rows,
\* one band to the right, the next to the left; the last may be lower.
Snake(i, rows, columns, offset) ==
    LET band == i \div (offset * columns)
        inBand == i % (offset * columns)
        height == IF band = CeilDiv(rows, offset) - 1 THEN rows - offset * band ELSE offset
        column == inBand \div height
    IN  [row |-> band * offset + (inBand % height),
         column |-> IF band % 2 = 1 THEN columns - column - 1 ELSE column]

\* direction 0 is Zn, direction 1 is Nz.
GetBlockCoord(taskIdx, mLoops, nLoops, offset, direction) ==
    LET innerIdx == taskIdx % (mLoops * nLoops) IN
    IF direction = 0
    THEN LET s == Snake(innerIdx, mLoops, nLoops, offset) IN [m |-> s.row, n |-> s.column]
    ELSE LET s == Snake(innerIdx, nLoops, mLoops, offset) IN [m |-> s.column, n |-> s.row]

\* The length of block idx of loops blocks of length tile along an axis.
ActualLength(idx, loops, total, tile) ==
    IF idx = loops - 1 THEN total - idx * tile ELSE tile
-----------------------------------------------------------------------------
(* Slices of k. *)

GetSplitkSliceIdx(taskIdx, mLoops, nLoops, splitkFactor) ==
    (taskIdx % (mLoops * nLoops * splitkFactor)) \div (mLoops * nLoops)

\* Mutation of GetKIdxBySplitkSliceIdx: the remainder forgotten.
GetKIdxNoRemainder(slice, kLoops, splitkFactor) == slice * (kLoops \div splitkFactor)

\* The first k tile of a slice.
GetKIdxBySplitkSliceIdx(slice, kLoops, splitkFactor) ==
    IF slice < kLoops % splitkFactor
    THEN (kLoops \div splitkFactor + 1) * slice
    ELSE slice * (kLoops \div splitkFactor) + (kLoops % splitkFactor)

\* The k tiles of a slice.
SplitkSliceTiles(slice, kLoops, splitkFactor) ==
    IF slice < kLoops % splitkFactor THEN kLoops \div splitkFactor + 1 ELSE kLoops \div splitkFactor

\* The length of a slice in k, whose first tile is kIdx.
SplitkActualLength(slice, kIdx, kLoops, splitkFactor, k, tile) ==
    IF slice = splitkFactor - 1 THEN k - kIdx * tile
    ELSE SplitkSliceTiles(slice, kLoops, splitkFactor) * tile
-----------------------------------------------------------------------------
(* The schedulers that know the cores. *)

Loops(p) == [m |-> CeilDiv(p.shape.m, p.tile.m), n |-> CeilDiv(p.shape.n, p.tile.n),
             k |-> CeilDiv(p.shape.k, p.tile.k)]

MNLoops(p) == Loops(p).m * Loops(p).n

\* The part of C and k of block at, whose first k tile is k, of kLen elements.
Block(p, at, k, kLen) ==
    [m |-> at.m * p.tile.m, mLen |-> ActualLength(at.m, Loops(p).m, p.shape.m, p.tile.m),
     n |-> at.n * p.tile.n, nLen |-> ActualLength(at.n, Loops(p).n, p.shape.n, p.tile.n),
     k |-> k * p.tile.k, kLen |-> kLen]
-----------------------------------------------------------------------------
\* Mutation of L1FullLoadInnerIdx: the cores with a block more forgotten.
L1FullLoadNoTail(p, taskIdx) ==
    (taskIdx % p.cores) * (MNLoops(p) \div p.cores) + taskIdx \div p.cores

\* The first cores, as many as there are blocks over, have one block more.
L1FullLoadInnerIdx(p, taskIdx) ==
    LET core == taskIdx % p.cores
        over == MNLoops(p) % p.cores
    IN  core * (MNLoops(p) \div p.cores) + taskIdx \div p.cores
          + (IF core < over THEN core ELSE over)

L1FullLoadBlock(p, taskIdx) ==
    Block(p, GetBlockCoord(L1FullLoadInnerIdx(p, taskIdx), Loops(p).m, Loops(p).n, p.offset, p.direction),
          0, p.shape.k)
-----------------------------------------------------------------------------
\* The first block of a core and the number of its blocks.
GetMNLoopRange(p, core) ==
    LET perCore == CeilDiv(MNLoops(p), p.cores)
        full == MNLoops(p) - p.cores * (perCore - 1)
    IN  [start |-> IF core < full THEN core * perCore
                   ELSE full * perCore + (core - full) * (perCore - 1),
         len |-> IF core < full THEN perCore ELSE perCore - 1]

GetSingleCoreLoops(p, core) == Loops(p).k * GetMNLoopRange(p, core).len

\* Mutation of MergedSnake: the band before the last keeps its height.
MergedSnakeLastOnly(i, rows, columns, offset, mergesHalf) ==
    LET bands == CeilDiv(rows, offset)
        rest == rows - (bands - 1) * offset
        merges == /\ bands >= 2
                  /\ i \div (offset * columns) >= bands - 1
                  /\ IF mergesHalf THEN rest <= offset \div 2 ELSE rest < offset \div 2
        band == IF merges THEN bands - 2 ELSE i \div (offset * columns)
        height == IF merges THEN offset + rest
                  ELSE IF band = bands - 1 THEN rest ELSE offset
        inBand == i - band * offset * columns
        column == IF band % 2 = 1 THEN columns - (inBand \div height) - 1 ELSE inBand \div height
        row == IF column % 2 = 1 THEN height - (inBand % height) - 1 ELSE inBand % height
    IN  [row |-> band * offset + row, column |-> column]

\* Snake, but every other column is walked upwards and a low last band is one with
\* the band before it.
MergedSnake(i, rows, columns, offset, mergesHalf) ==
    LET bands == CeilDiv(rows, offset)
        rest == rows - (bands - 1) * offset
        merges == /\ bands >= 2
                  /\ i \div (offset * columns) >= bands - 2
                  /\ IF mergesHalf THEN rest <= offset \div 2 ELSE rest < offset \div 2
        band == IF merges THEN bands - 2 ELSE i \div (offset * columns)
        height == IF merges THEN offset + rest
                  ELSE IF band = bands - 1 THEN rest ELSE offset
        inBand == i - band * offset * columns
        column == IF band % 2 = 1 THEN columns - (inBand \div height) - 1 ELSE inBand \div height
        row == IF column % 2 = 1 THEN height - (inBand % height) - 1 ELSE inBand % height
    IN  [row |-> band * offset + row, column |-> column]

\* A low band is merged up to half of a band in Zn, below half of one in Nz.
SingleCoreSplitkBlock(p, core, loopIdx) ==
    LET range == GetMNLoopRange(p, core)
        innerIdx == range.start + (loopIdx % range.len)
        kIdx == loopIdx \div range.len
        zn == MergedSnake(innerIdx, Loops(p).m, Loops(p).n, p.offset, TRUE)
        nz == MergedSnake(innerIdx, Loops(p).n, Loops(p).m, p.offset, FALSE)
        at == IF p.direction = 0 THEN [m |-> zn.row, n |-> zn.column]
                                 ELSE [m |-> nz.column, n |-> nz.row]
    IN  Block(p, at, kIdx, ActualLength(kIdx, Loops(p).k, p.shape.k, p.tile.k))

\* Whether the block is added to what C holds.
IsAtomicAdd(p, core, loopIdx) == loopIdx \div GetMNLoopRange(p, core).len # 0
-----------------------------------------------------------------------------
TailBlockNum(p) == MNLoops(p) % p.cores
NormalBlockNum(p) == MNLoops(p) - TailBlockNum(p)

GetSplitkFactor(p) ==
    LET factor == IF TailBlockNum(p) > 0 THEN p.cores \div TailBlockNum(p) ELSE 1
    IN  IF Loops(p).k < factor THEN Loops(p).k ELSE factor

TailSplitkCoreLoops(p) == NormalBlockNum(p) + TailBlockNum(p) * GetSplitkFactor(p)

\* Mutation of SwapLastWaves: the normal block left where the tail block was.
SwapLastWavesOnce(p, core, loopIdx) ==
    LET normal == NormalBlockNum(p)
        tailCores == TailSplitkCoreLoops(p) - normal
    IN  IF loopIdx = normal - p.cores + core /\ core < tailCores /\ normal > 0
        THEN normal + core
        ELSE loopIdx

\* The kernel: a core with a slice of a tail block takes it before its last block.
SwapLastWaves(p, core, loopIdx) ==
    LET normal == NormalBlockNum(p)
        tailCores == TailSplitkCoreLoops(p) - normal
    IN  IF loopIdx = normal - p.cores + core /\ core < tailCores /\ normal > 0
        THEN normal + core
        ELSE IF loopIdx >= normal /\ normal > 0 THEN normal - p.cores + core ELSE loopIdx

TailSplitkBlock(p, taskIdx) ==
    LET factor == GetSplitkFactor(p)
        normal == NormalBlockNum(p)
        slice == (taskIdx - normal) % factor
        sliceLen == Loops(p).k \div factor
        isTail == taskIdx >= normal
        base == IF isTail THEN normal + (taskIdx - normal) \div factor ELSE taskIdx
        kIdx == IF isTail THEN GetKIdxBySplitkSliceIdx(slice, Loops(p).k, factor) ELSE 0
        longer == IF slice < Loops(p).k % factor THEN 1 ELSE 0
        kActual == IF ~isTail THEN p.shape.k
                   ELSE IF kIdx + sliceLen >= Loops(p).k THEN p.shape.k - kIdx * p.tile.k
                   ELSE (sliceLen + longer) * p.tile.k
    IN  Block(p, GetBlockCoord(base, Loops(p).m, Loops(p).n, p.offset, p.direction), kIdx, kActual)
=============================================================================
