----------------------------- MODULE CubeKernels -----------------------------
(***************************************************************************)
(* Where in GM the kernels over many products find what they multiply and  *)
(* put what they compute: the loops over groups, batches and blocks of     *)
(* gemm/kernel/{grouped_matmul, grouped_matmul_slice_m,                    *)
(* grouped_matmul_slice_k, grouped_matmul_slice_m_gelu, batched_matmul,    *)
(* basic_matmul_preload, gemm, group_gemm}.hpp, with the block scheduler   *)
(* GemmIdentityBlockSwizzle.  The cores share nothing but C, so they are   *)
(* followed one after the other, and after them an AIV where AIVs have a   *)
(* part in it.                                                             *)
(*                                                                         *)
(* An element of C is what it is the product of: the addresses where a row *)
(* of A and a column of B begin, the distances of their elements, and how  *)
(* many.  A case is a problem: kernel, cores, tile, swizzle (offset and    *)
(* direction), transA, and groups, a sequence of [m, n, k].                *)
(***************************************************************************)
EXTENDS BlockSwizzle, Sequences

CONSTANTS
    Cases,
    UINT_RANGE,     \* numbers a uint32_t has
    UbBufferSize,   \* elements of the buffer of MemFill
    Align,          \* alignment of lines in the workspaces of WA and WB
    L1TileShapes,   \* the tiles of the GELU kernel: a sequence of [m, n]
    SizeUnit        \* elements of the unit it measures operands in

VARIABLES
    case,       \* the problem
    core,       \* the core that is followed, or the number of cores: the AIV
    group,      \* its group
    loopIdx,    \* its next block
    cursor,     \* what it carries from group to group: startCoreIdx, sumBlockNum, offsets a, b, c
    call,       \* its last call of BlockMmad: whether the first, operands, those named as next
    written,    \* C: <<address, product>>
    clash       \* addresses written twice

vars == <<case, core, group, loopIdx, cursor, call, written, clash>>
-----------------------------------------------------------------------------
(* Layouts: the distance of neighbouring rows, and of columns. *)

RowMajor(columns) == [row |-> columns, column |-> 1]
ColumnMajor(rows) == [row |-> 1, column |-> rows]

RoundUp(a, b) == CeilDiv(a, b) * b

Count == Len(case.groups)
Shape == case.groups[group]

\* Whether A and B are copied to workspaces with padded lines.
Padded == case.kernel \in {"Gemm", "GroupGemm"}

LayoutA(s) ==
    IF Padded THEN RowMajor(RoundUp(s.k, Align))
    ELSE IF case.transA THEN ColumnMajor(s.m) ELSE RowMajor(s.k)

LayoutB(s) == RowMajor(IF Padded THEN RoundUp(s.n, Align) ELSE s.n)

Zero == <<>>

\* What row i and column j of operands with these layouts multiply to.
Dot(a, la, b, lb, i, j, k) == <<a + i * la.row, la.column, b + j * lb.column, lb.row, k>>
-----------------------------------------------------------------------------
(* The groups. *)

\* The lengths up to and with group g: what the host puts in groupList.
GroupList(g) ==
    LET length == [h \in 1 .. Count |-> IF case.kernel = "SliceK" THEN case.groups[h].k ELSE case.groups[h].m]
        upTo[h \in 0 .. Count] == IF h = 0 THEN 0 ELSE upTo[h - 1] + length[h]
    IN  upTo[g]

\* Mutation of CurrentLength: the list taken to hold lengths.
CurrentLengthSegmented(g) == GroupList(g)

CurrentLength(g) == IF g = 1 THEN GroupList(g) ELSE GroupList(g) - GroupList(g - 1)

SliceM(g) == [case.groups[g] EXCEPT !.m = CurrentLength(g)]
SliceK(g) == [case.groups[g] EXCEPT !.k = CurrentLength(g)]

CoreLoops(s, tile) == CeilDiv(s.m, tile.m) * CeilDiv(s.n, tile.n)

\* Mutation of StartLoopIdx: not the way round, as far back as ahead.
StartLoopIdxDistance(start) == IF core < start THEN start - core ELSE core - start

\* The first block of this core in a group that begins at core start.
StartLoopIdx(start) == IF core < start THEN core + case.cores - start ELSE core - start

\* The offsets and the first core of the group after one of shape s.
Advanced(s, loops) ==
    [cursor EXCEPT !.a = @ + s.m * s.k, !.b = @ + s.k * s.n, !.c = @ + s.m * s.n,
                   !.startCoreIdx = (@ + loops) % case.cores]

\* Mutation of PaddedAdvanced: the offsets of A and B without the padding.
PaddedAdvancedBare(s, loops) == Advanced(s, loops)

\* The same with padded lines of A and B: GetWorkspaceLen.
PaddedAdvanced(s, loops) ==
    [Advanced(s, loops) EXCEPT !.a = cursor.a + s.m * LayoutA(s).row, !.b = cursor.b + s.k * LayoutB(s).row]
-----------------------------------------------------------------------------
(* The blocks. *)

\* Operands and result of block at: where they begin, and the actual shape.
Operands(s, tile, at) ==
    [a |-> cursor.a + at.m * tile.m * LayoutA(s).row,
     b |-> cursor.b + at.n * tile.n * LayoutB(s).column,
     c |-> cursor.c + at.m * tile.m * s.n + at.n * tile.n,
     m |-> ActualLength(at.m, CeilDiv(s.m, tile.m), s.m, tile.m),
     n |-> ActualLength(at.n, CeilDiv(s.n, tile.n), s.n, tile.n),
     k |-> s.k]

Swizzled(s, tile, i) ==
    Operands(s, tile, GetBlockCoord(i, CeilDiv(s.m, tile.m), CeilDiv(s.n, tile.n), case.offset, case.direction))

\* Without a scheduler: row by row.
InRows(s, tile, i) ==
    Operands(s, tile, [m |-> i \div CeilDiv(s.n, tile.n), n |-> i % CeilDiv(s.n, tile.n)])

NoBlock == [a |-> -1]
NoCall == [first |-> TRUE, operands |-> NoBlock, next |-> NoBlock]

Store(cells) ==
    /\ written' = written \union cells
    /\ clash' = clash \union ({x[1] : x \in cells} \intersect {x[1] : x \in written})

\* BlockMmad on one block, told whether it is the first and which is the next.
Compute(s, o, first, next) ==
    /\ Store({<<o.c + i * s.n + j, Dot(o.a, LayoutA(s), o.b, LayoutB(s), i, j, o.k)>> :
                 i \in 0 .. o.m - 1, j \in 0 .. o.n - 1})
    /\ call' = [first |-> first, operands |-> o, next |-> next]
    /\ UNCHANGED <<case, core, group, cursor>>

\* On to the next group, with moved, and to its block at.
NextGroup(moved, at) ==
    /\ group <= Count
    /\ group' = group + 1
    /\ cursor' = moved
    /\ loopIdx' = at
    /\ UNCHANGED <<case, core, call, written, clash>>

OnCore(kernels) == case.kernel \in kernels /\ core < case.cores
-----------------------------------------------------------------------------
(* The kernels: the next block of this group, or the end of its loop. *)

\* The loop of the grouped kernels over a group of shape s.
GroupLoop(s) ==
    \/ /\ loopIdx < CoreLoops(s, case.tile)
       /\ Compute(s, Swizzled(s, case.tile, loopIdx), TRUE, NoBlock)
       /\ loopIdx' = loopIdx + case.cores
    \/ /\ loopIdx >= CoreLoops(s, case.tile)
       /\ \E moved \in {Advanced(s, CoreLoops(s, case.tile))} : NextGroup(moved, StartLoopIdx(moved.startCoreIdx))

\* A list of shapes and layouts.
GroupedMatmul == OnCore({"Grouped"}) /\ group <= Count /\ GroupLoop(Shape)

\* Groups of rows of A and C, each with a B of its own.
GroupedMatmulSliceM == OnCore({"SliceM"}) /\ group <= Count /\ GroupLoop(SliceM(group))

\* Groups of k, each with a C of its own; one without k is the AIVs'.
GroupedMatmulSliceK ==
    /\ OnCore({"SliceK"}) /\ group <= Count
    /\ LET s == SliceK(group) IN
         IF s.k = 0
         THEN NextGroup(Advanced(s, 0), loopIdx)
         ELSE GroupLoop(s)

\* Mutation of MemFill: the tail is forgotten.
MemFillNoTail(dst, elementCount) ==
    {dst + i * UbBufferSize + e : i \in 0 .. (elementCount \div UbBufferSize) - 1, e \in 0 .. UbBufferSize - 1}

\* The addresses from dst that are zeroed, a buffer at a time and the tail.
MemFill(dst, elementCount) ==
    LET count == elementCount % UINT_RANGE
        batches == count \div UbBufferSize
    IN  {dst + i * UbBufferSize + e : i \in 0 .. batches - 1, e \in 0 .. UbBufferSize - 1}
          \union {dst + batches * UbBufferSize + e : e \in 0 .. (count % UbBufferSize) - 1}

\* Every AIV zeroes all the Cs of groups without k; one stands for all.
GroupedMatmulSliceKAiv ==
    /\ case.kernel = "SliceK" /\ core = case.cores /\ group <= Count
    /\ LET s == SliceK(group) IN
         /\ Store(IF s.k = 0 THEN {<<address, Zero>> : address \in MemFill(cursor.c, s.m * s.n)} ELSE {})
         /\ cursor' = [cursor EXCEPT !.c = @ + s.m * s.n]
    /\ group' = group + 1
    /\ UNCHANGED <<case, core, loopIdx, call>>

\* Batches of one shape, the blocks of all in one sequence.
BatchedMatmul ==
    /\ OnCore({"Batched"}) /\ group = 1
    /\ LET s == Shape
           loops == CoreLoops(s, case.tile)
           o == Swizzled(s, case.tile, loopIdx)
           batchIdx == loopIdx \div loops
       IN  \/ /\ loopIdx < Count * loops
              /\ Compute(s, [o EXCEPT !.a = @ + batchIdx * (s.m * s.k), !.b = @ + batchIdx * (s.k * s.n),
                                      !.c = @ + batchIdx * (s.m * s.n)], TRUE, NoBlock)
              /\ loopIdx' = loopIdx + case.cores
           \/ /\ loopIdx >= Count * loops
              /\ group' = Count + 1
              /\ UNCHANGED <<case, core, loopIdx, cursor, call, written, clash>>

\* Mutation of IsFirstBlock: the core's first block in the first group.
IsFirstBlockOfCore(start) == loopIdx = core

IsFirstBlock(start) == loopIdx = start

\* Mutation of HasNextBlock: one turn less than there is.
HasNextBlockTurnEarly(loops) == loopIdx + 2 * case.cores < loops

HasNextBlock(loops) == loopIdx + case.cores < loops

\* The loop of the kernels whose BlockMmad loads the next block ahead, from
\* block start on, in order of rows or of the scheduler.
PreloadLoop(s, inOrder, start, moved) ==
    LET loops == CoreLoops(s, case.tile)
        Nth(i) == IF inOrder THEN InRows(s, case.tile, i) ELSE Swizzled(s, case.tile, i)
    IN  \/ /\ loopIdx < loops
           /\ Compute(s, Nth(loopIdx), IsFirstBlock(start),
                      IF HasNextBlock(loops) THEN Nth(loopIdx + case.cores) ELSE NoBlock)
           /\ loopIdx' = loopIdx + case.cores
        \/ /\ loopIdx >= loops
           /\ NextGroup(moved, StartLoopIdx(moved.startCoreIdx))

BasicMatmulPreload ==
    OnCore({"Preload"}) /\ group <= Count /\ PreloadLoop(Shape, FALSE, core, cursor)

KernelGemm ==
    OnCore({"Gemm"}) /\ group <= Count /\ PreloadLoop(Shape, TRUE, core, cursor)

KernelGroupGemm ==
    /\ OnCore({"GroupGemm"}) /\ group <= Count
    /\ \E moved \in {PaddedAdvanced(Shape, CoreLoops(Shape, case.tile))} :
         PreloadLoop(Shape, TRUE, StartLoopIdx(cursor.startCoreIdx), moved)

\* CalcGmToL1BuffSize and the search over it: the first of the tiles for
\* which the least is copied to L1.
GetL1TileShape(s) ==
    LET Size(t) == ((s.m * s.k) \div SizeUnit) * CeilDiv(s.n, t.n) + ((s.k * s.n) \div SizeUnit) * CeilDiv(s.m, t.m)
        Best(i) == /\ \A j \in 1 .. i - 1 : Size(L1TileShapes[i]) < Size(L1TileShapes[j])
                   /\ \A j \in i .. Len(L1TileShapes) : Size(L1TileShapes[i]) <= Size(L1TileShapes[j])
    IN  L1TileShapes[CHOOSE i \in 1 .. Len(L1TileShapes) : Best(i)]

\* The blocks of a group are taken from another one on in each group.
GeluBlockIdx(loops) == (loopIdx - cursor.sumBlockNum + group - 1) % loops

\* Blocks are numbered through all groups; each group has a tile of its own.
GroupedMatmulSliceMGelu ==
    /\ OnCore({"Gelu"}) /\ group <= Count
    /\ LET s == SliceM(group)
           tile == GetL1TileShape(s)
           loops == CoreLoops(s, tile)
       IN  \/ /\ loopIdx < cursor.sumBlockNum + loops
              /\ Compute(s, Swizzled(s, tile, GeluBlockIdx(loops)), TRUE, NoBlock)
              /\ loopIdx' = loopIdx + case.cores
           \/ /\ loopIdx >= cursor.sumBlockNum + loops
              /\ NextGroup([Advanced(s, loops) EXCEPT !.sumBlockNum = @ + loops], loopIdx)
-----------------------------------------------------------------------------
AtStart == [startCoreIdx |-> 0, sumBlockNum |-> 0, a |-> 0, b |-> 0, c |-> 0]

Init ==
    /\ case \in Cases
    /\ core = 0
    /\ group = 1
    /\ loopIdx = 0
    /\ cursor = AtStart
    /\ call = NoCall
    /\ written = {}
    /\ clash = {}

CoreDone == group > Count

AllDone == CoreDone /\ core = IF case.kernel = "SliceK" THEN case.cores ELSE case.cores - 1

NextCore ==
    /\ CoreDone /\ ~AllDone
    /\ core' = core + 1
    /\ group' = 1
    /\ loopIdx' = core + 1
    /\ cursor' = AtStart
    /\ call' = NoCall
    /\ UNCHANGED <<case, written, clash>>

Terminated == AllDone /\ UNCHANGED vars

Next ==
    \/ GroupedMatmul \/ GroupedMatmulSliceM \/ GroupedMatmulSliceK \/ GroupedMatmulSliceKAiv \/ BatchedMatmul
    \/ BasicMatmulPreload \/ KernelGemm \/ KernelGroupGemm \/ GroupedMatmulSliceMGelu
    \/ NextCore
    \/ Terminated

Spec == Init /\ [][Next]_vars
-----------------------------------------------------------------------------
(* Properties. *)

\* Where the host has put the operands of each group and wants its C: one
\* after the other.
Host ==
    LET at[g \in 1 .. Count] ==
          IF g = 1 THEN [a |-> 0, b |-> 0, c |-> 0]
          ELSE LET s == case.groups[g - 1] IN
               [a |-> at[g - 1].a + s.m * (IF Padded THEN LayoutA(s).row ELSE s.k),
                b |-> at[g - 1].b + s.k * LayoutB(s).row,
                c |-> at[g - 1].c + s.m * s.n]
    IN  at

Product(g) ==
    LET s == case.groups[g] IN
    {<<Host[g].c + i * s.n + j,
       IF s.k = 0 THEN Zero ELSE Dot(Host[g].a, LayoutA(s), Host[g].b, LayoutB(s), i, j, s.k)>> :
       i \in 0 .. s.m - 1, j \in 0 .. s.n - 1}

\* Every element of every C is written exactly once, at its place, with the
\* product of its row and its column of the operands of its group, wherever
\* the groups before it begin and end and however many blocks they have.
ProductsInPlace ==
    /\ clash = {}
    /\ \E all \in {UNION {Product(g) : g \in 1 .. Count}} :
         written \subseteq all /\ (AllDone => written = all)

\* A BlockMmad that loads the next block ahead is called with it: a call that
\* is not the first of its sequence has the operands the one before named as
\* next, and the first one follows none that named any.
PreloadedIsNext ==
    [][IF call'.first THEN call.next = NoBlock ELSE call.next = call'.operands]_call
=============================================================================
