--------------------------- MODULE BlockSchedulers ---------------------------
(***************************************************************************)
(* Schedulers as one core holds them, and what the cores make of them: the *)
(* loops over groups and blocks of the kernels that use the schedulers     *)
(* below and those of BlockSwizzle.  The cores share nothing but the       *)
(* output, so they are followed one after the other.                       *)
(*                                                                         *)
(* BlockSchedulerAswt of gemm/block/block_scheduler_aswt.hpp and           *)
(* GemmGroupedAswtTailSplitSwizzle of block_swizzle_grouped_aswt.hpp: s is *)
(* the data members.  Tiles of C are taken in windows of rows that slide   *)
(* over the columns and back.  Of grouped problems (gmm) every one starts  *)
(* at the core after the last of the one before, and the tiles of the last *)
(* wave may be split over the cores that are left.  The second one leaves  *)
(* out groups that are empty, and its split knows where the last group     *)
(* starts.                                                                 *)
(*                                                                         *)
(* A case is a problem for one scheduler: cores, tile, groups (a sequence  *)
(* of shapes [m, n]; one for a scheduler without groups) and what else     *)
(* that scheduler is told.  An element is <<group, m, n, k>>.              *)
(***************************************************************************)
EXTENDS BlockSwizzle, Sequences

CONSTANTS
    WINDOW_LEN,     \* rows of tiles in a window
    UINT_RANGE,     \* 2^32 in the code, a smaller power of two here
    BLOCK_CUBE,                 \* parts in n are multiples of it
    INNER_AXIS_MIN_SPLIT_VAL,   \* and of this where the axis is the inner one
    BASE_M_ALIGN                \* a rebalanced tile height is a multiple of it

Minimum(a, b) == IF a <= b THEN a ELSE b

\* The coordinate of tile idx of mTiles x nTiles.
SlidingWindow(idx, mTiles, nTiles) ==
    LET mainWindow == Minimum(WINDOW_LEN, mTiles)
        mainRow == mTiles \div mainWindow - 1
        tailWindow == mTiles - mainRow * mainWindow
        row == Minimum((idx \div nTiles) \div mainWindow, mainRow)
        window == IF row < mainRow THEN mainWindow ELSE tailWindow
        inRow == (idx - row * mainWindow * nTiles) % UINT_RANGE
        column == (inRow \div window) % nTiles
    IN  [m |-> row * mainWindow + (inRow % window),
         n |-> IF row % 2 # 0 THEN nTiles - 1 - column ELSE column]

\* The cores [start, end] of the last wave of a problem of tiles tiles, and the
\* rounds of this core: one less outside of them.
Rolled(s, tiles) ==
    LET start == IF s.end = s.cores - 1 THEN 0 ELSE s.end + 1
        end == (tiles + start - 1) % s.cores
        outside == IF start > end THEN end < s.core /\ s.core < start
                                  ELSE s.core > end \/ s.core < start
    IN  [start |-> start, end |-> end,
         round |-> CeilDiv(tiles, s.cores) - (IF outside THEN 1 ELSE 0)]

\* The factors of a split in at most remain parts, the larger one lowered first.
SplitFactors(mMost, nMost, remain) ==
    LET lowered[p \in (1 .. mMost) \X (1 .. nMost)] ==
            IF p[1] * p[2] <= remain THEN p
            ELSE IF p[1] >= p[2] THEN lowered[<<p[1] - 1, p[2]>>] ELSE lowered[<<p[1], p[2] - 1>>]
    IN  lowered[<<mMost, nMost>>]
-----------------------------------------------------------------------------
TileNum(s) == [m |-> CeilDiv(s.shape.m, s.tile.m), n |-> CeilDiv(s.shape.n, s.tile.n)]

\* The height of the last row of tiles, the width of the last column.
TailL1(s) == [m |-> s.shape.m - (TileNum(s).m - 1) * s.tile.m,
              n |-> s.shape.n - (TileNum(s).n - 1) * s.tile.n]

\* An empty problem has no rounds; all else is left as it was.
UpdateGroupParams(s, shape) ==
    LET t == TileNum([s EXCEPT !.shape = shape])
        rolled == Rolled(s, t.m * t.n)
    IN  IF shape.m <= 0 \/ shape.n <= 0
        THEN [s EXCEPT !.round = 0]
        ELSE [s EXCEPT !.shape = shape, !.round = rolled.round,
                       !.start = rolled.start, !.end = rolled.end]

\* The constructor; without groups it has the only problem at once.
BlockSchedulerAswt(core, cores, tile, gmm, shape) ==
    LET s == [core |-> core, cores |-> cores, tile |-> tile, gmm |-> gmm,
              shape |-> [m |-> 0, n |-> 0], round |-> 0, start |-> 0, end |-> cores - 1,
              mSplit |-> 1, nSplit |-> 1]
    IN  IF gmm THEN s ELSE UpdateGroupParams(s, shape)

\* Mutation of AswtUpdateTailTile: the split's cores get no round for their parts.
AswtTailNoRound(s) ==
    LET remain == s.cores \div (s.end + 1)
        factors == SplitFactors(Minimum(TailL1(s).m, remain), Minimum(TailL1(s).n, remain), remain)
        mSplit == CeilDiv(TailL1(s).m, CeilDiv(TailL1(s).m, factors[1]))
        nSplit == CeilDiv(TailL1(s).n, CeilDiv(TailL1(s).n, factors[2]))
    IN  IF remain <= 1 THEN s
        ELSE [s EXCEPT !.mSplit = mSplit, !.nSplit = nSplit,
                       !.end = mSplit * nSplit * (s.end + 1) - 1]

\* Every tile of the last wave is split, in parts for the cores 0 to the new end.
AswtUpdateTailTile(s) ==
    LET remain == s.cores \div (s.end + 1)
        factors == SplitFactors(Minimum(TailL1(s).m, remain), Minimum(TailL1(s).n, remain), remain)
        mSplit == CeilDiv(TailL1(s).m, CeilDiv(TailL1(s).m, factors[1]))
        nSplit == CeilDiv(TailL1(s).n, CeilDiv(TailL1(s).n, factors[2]))
        newEnd == mSplit * nSplit * (s.end + 1) - 1
    IN  IF remain <= 1 THEN s
        ELSE [s EXCEPT !.mSplit = mSplit, !.nSplit = nSplit, !.end = newEnd,
                       !.round = @ + (IF s.end < s.core /\ s.core <= newEnd THEN 1 ELSE 0)]

\* Unsigned: a core before the first of its problem wraps.
UpdateMNTileIdx(s, roundIdx, isLastGroupRound) ==
    LET newBlockIdx == IF isLastGroupRound THEN s.core \div (s.mSplit * s.nSplit) ELSE s.core
        shift == IF ~s.gmm THEN 0 ELSE IF s.core < s.start THEN s.cores - s.start ELSE -s.start
    IN  SlidingWindow((newBlockIdx + roundIdx * s.cores + shift) % UINT_RANGE,
                      TileNum(s).m, TileNum(s).n)

\* The part of C, in elements: a tile, or in the last round this core's part of it.
UpdateBlockShape(s, at, roundIdx, isLastGroupRound) ==
    LET blockM == IF at.m # TileNum(s).m - 1 THEN s.tile.m ELSE TailL1(s).m
        blockN == IF at.n # TileNum(s).n - 1 THEN s.tile.n ELSE TailL1(s).n
        splits == isLastGroupRound /\ roundIdx = s.round - 1
        splitM == IF splits THEN CeilDiv(blockM, s.mSplit) ELSE blockM
        splitN == IF splits THEN CeilDiv(blockN, s.nSplit) ELSE blockN
        splitIdx == IF splits THEN s.core % (s.mSplit * s.nSplit) ELSE 0
        mOffset == (splitIdx % s.mSplit) * splitM
        nOffset == (splitIdx \div s.mSplit) * splitN
        empty == mOffset >= blockM \/ nOffset >= blockN
    IN  [m |-> at.m * s.tile.m + mOffset, n |-> at.n * s.tile.n + nOffset,
         mLen |-> IF empty THEN 0 ELSE Minimum(blockM - mOffset, splitM),
         nLen |-> IF empty THEN 0 ELSE Minimum(blockN - nOffset, splitN)]
-----------------------------------------------------------------------------
(* GemmGroupedAswtTailSplitSwizzle. *)

RoundUp(a, b) == CeilDiv(a, b) * b

\* Integer division in C++ rounds towards zero.
TruncDiv(a, b) == IF a >= 0 THEN a \div b ELSE -((-a) \div b)

\* The height of the tiles of a group, evened out over its rows of tiles.
BaseM(m, tileM, balance) ==
    IF balance THEN Minimum(RoundUp(CeilDiv(m, CeilDiv(m, tileM)), BASE_M_ALIGN), tileM) ELSE tileM

\* transA, transB: the layouts of A and B, which say what axis is the inner one.
GroupedAswt(core, cores, tile, transA, transB) ==
    [core |-> core, cores |-> cores, tile |-> tile, transA |-> transA, transB |-> transB,
     shape |-> [m |-> 0, n |-> 0], round |-> 0, start |-> 0, end |-> cores - 1,
     mTail |-> 1, nTail |-> 1, tailBase |-> 0]

UpdateNextProblem(s, shape, baseM) ==
    LET next == [s EXCEPT !.shape = shape, !.tile.m = baseM,
                          !.mTail = 1, !.nTail = 1, !.tailBase = 0]
        rolled == Rolled(s, TileNum(next).m * TileNum(next).n)
    IN  [next EXCEPT !.round = rolled.round, !.start = rolled.start, !.end = rolled.end]

\* The cores that have a tile of this group in the last wave.
GetTailTileCnt(s) == Minimum(s.end + 1, TileNum(s).m * TileNum(s).n)

\* UpdateTailTile with the factors given: cores beyond the new end keep whole tiles.
SplitTail(s, mTail, nTail) ==
    LET tail == GetTailTileCnt(s)
        newEnd == s.end + tail * (mTail * nTail - 1)
        round == s.round + (IF s.end < s.core /\ s.core <= newEnd THEN 1 ELSE 0)
    IN  IF s.core > newEnd
        THEN [s EXCEPT !.end = newEnd, !.round = round]
        ELSE [s EXCEPT !.end = newEnd, !.round = round, !.mTail = mTail, !.nTail = nTail,
                       !.tailBase = IF mTail * nTail > 1 THEN s.end + 1 - tail ELSE 0]

GroupedUpdateTailTile(s) ==
    LET remain == (s.cores - s.end - 1) \div GetTailTileCnt(s) + 1
        mMin == IF s.transA THEN INNER_AXIS_MIN_SPLIT_VAL ELSE BLOCK_CUBE
        nMin == IF s.transB THEN BLOCK_CUBE ELSE INNER_AXIS_MIN_SPLIT_VAL
        factors == SplitFactors(Minimum(CeilDiv(TailL1(s).m, mMin), remain),
                                Minimum(CeilDiv(TailL1(s).n, nMin), remain), remain)
    IN  IF remain <= 1 THEN s ELSE SplitTail(s, factors[1], factors[2])

\* Mutation of GetTileIdx: the first core of the group not counted in parts.
GetTileIdxUnsplitStart(s, roundIdx) ==
    LET parts == s.mTail * s.nTail
        inParts(c) == TruncDiv(s.tailBase + TruncDiv(c - s.tailBase, parts) * parts, parts)
        core == IF roundIdx = s.round - 1 /\ parts > 1 THEN inParts(s.core) ELSE s.core
        shift == IF s.core < s.start THEN s.cores - s.start ELSE -s.start
    IN  SlidingWindow(core + roundIdx * s.cores + shift, TileNum(s).m, TileNum(s).n)

\* In the last wave of a split the cores of one tile count as one, and so does the
\* first core of the group when the wave is the group's only one.
GetTileIdx(s, roundIdx) ==
    LET parts == s.mTail * s.nTail
        inParts(c) == TruncDiv(s.tailBase + TruncDiv(c - s.tailBase, parts) * parts, parts)
        core == IF roundIdx = s.round - 1 /\ parts > 1 THEN inParts(s.core) ELSE s.core
        onlyWave == parts > 1 /\ s.end + 1 >= parts * TileNum(s).m * TileNum(s).n
        shift == IF s.core < s.start THEN s.cores - s.start
                 ELSE IF onlyWave THEN -inParts(s.start) ELSE -s.start
    IN  SlidingWindow(core + roundIdx * s.cores + shift, TileNum(s).m, TileNum(s).n)

\* The part of C, in elements, and what parts are rounded up to.
GetBlockShape(s, at, roundIdx) ==
    LET blockM == IF at.m # TileNum(s).m - 1 THEN s.tile.m ELSE TailL1(s).m
        blockN == IF at.n # TileNum(s).n - 1 THEN s.tile.n ELSE TailL1(s).n
        parts == s.mTail * s.nTail
        whole == parts = 1 \/ roundIdx < s.round - 1
        partM == CeilDiv(blockM, s.mTail)
        partN == RoundUp(CeilDiv(blockN, s.nTail), BLOCK_CUBE)
        splitM == IF s.transA THEN RoundUp(partM, INNER_AXIS_MIN_SPLIT_VAL) ELSE partM
        splitN == IF s.transB THEN partN ELSE RoundUp(partN, INNER_AXIS_MIN_SPLIT_VAL)
        mOffset == ((s.core % parts) % s.mTail) * splitM
        nOffset == ((s.core % parts) \div s.mTail) * splitN
        m == at.m * s.tile.m
        n == at.n * s.tile.n
    IN  IF whole THEN [m |-> m, n |-> n, mLen |-> blockM, nLen |-> blockN]
        ELSE IF mOffset >= blockM \/ nOffset >= blockN
        THEN [m |-> m, n |-> n, mLen |-> 0, nLen |-> 0]
        ELSE [m |-> m + mOffset, n |-> n + nOffset,
              mLen |-> Minimum(blockM - mOffset, splitM), nLen |-> Minimum(blockN - nOffset, splitN)]
-----------------------------------------------------------------------------
(* The loops of the kernels. *)

CONSTANT Cases

\* What is assumed of it; MC_CoreDivision asserts it of its instance.
CasesAssumption == \A c \in Cases : c.cores > 0 /\ Len(c.groups) > 0

VARIABLES
    case,       \* the problem
    core,       \* the core that is followed
    group,      \* its group, 0 before the first
    loopIdx,    \* its blocks taken in this group
    scheduler,  \* its scheduler
    assigned,   \* the elements computed so far
    clash       \* those among them computed twice, or overwritten

vars == <<case, core, group, loopIdx, scheduler, assigned, clash>>

GroupElements(g) ==
    {g} \X (0 .. case.groups[g].m - 1) \X (0 .. case.groups[g].n - 1) \X (0 .. case.k - 1)

Elements(b) ==
    {group} \X (b.m .. b.m + b.mLen - 1) \X (b.n .. b.n + b.nLen - 1) \X (b.k .. b.k + b.kLen - 1)

\* The problem of a scheduler without groups.
Problem(c) == [cores |-> c.cores, tile |-> c.tile, offset |-> c.offset, direction |-> c.direction,
               shape |-> [m |-> c.groups[1].m, n |-> c.groups[1].n, k |-> c.k]]

New(c, i) ==
    CASE c.scheduler = "Aswt" -> BlockSchedulerAswt(i, c.cores, c.tile, c.gmm, c.groups[1])
      [] c.scheduler = "GroupedAswt" -> GroupedAswt(i, c.cores, c.tile, c.transA, c.transB)
      [] OTHER -> Problem(c)

\* The tasks first, first + cores, ... below loops.
TaskLoops(first, loops) == IF first < loops THEN CeilDiv(loops - first, case.cores) ELSE 0

CoreLoops ==
    CASE group = 0 -> 0
      [] group > 0 /\ case.scheduler \in {"Aswt", "GroupedAswt"} -> scheduler.round
      [] group > 0 /\ case.scheduler = "L1FullLoad" -> TaskLoops(core, MNLoops(scheduler))
      [] group > 0 /\ case.scheduler = "SingleCoreSplitk" -> GetSingleCoreLoops(scheduler, core)
      [] group > 0 /\ case.scheduler = "TailSplitk" -> TaskLoops(core, TailSplitkCoreLoops(scheduler))

Init ==
    /\ case \in Cases
    /\ core = 0
    /\ group = 0
    /\ loopIdx = 0
    /\ scheduler = New(case, 0)
    /\ assigned = {}
    /\ clash = {}
-----------------------------------------------------------------------------
\* The last wave is split when half of the cores or more have no part in it.
NeedTailSplit(s, g) == g = Len(case.groups) /\ s.end + 1 <= case.cores \div 2

GroupDone == loopIdx = CoreLoops

GroupAhead == GroupDone /\ group < Len(case.groups)

NextGroup(s) ==
    /\ group' = group + 1
    /\ loopIdx' = 0
    /\ scheduler' = s
    /\ UNCHANGED <<case, core, assigned, clash>>

\* A grouped kernel, or one problem that the constructor was given.
AswtNextGroup ==
    /\ case.scheduler = "Aswt"
    /\ GroupAhead
    /\ \E s \in {IF case.gmm THEN UpdateGroupParams(scheduler, case.groups[group + 1]) ELSE scheduler} :
         NextGroup(IF NeedTailSplit(s, group + 1) THEN AswtUpdateTailTile(s) ELSE s)

\* An empty group is not given to the scheduler.
GroupedAswtNextGroup ==
    /\ case.scheduler = "GroupedAswt"
    /\ GroupAhead
    /\ IF case.groups[group + 1].m = 0
       THEN NextGroup([scheduler EXCEPT !.round = 0])
       ELSE \E s \in {UpdateNextProblem(scheduler, case.groups[group + 1],
                                        BaseM(case.groups[group + 1].m, case.tile.m, case.balance))} :
              NextGroup(IF NeedTailSplit(s, group + 1) THEN GroupedUpdateTailTile(s) ELSE s)

StartTasks ==
    /\ case.scheduler \in {"L1FullLoad", "SingleCoreSplitk", "TailSplitk"}
    /\ GroupAhead
    /\ NextGroup(scheduler)

\* The elements of lost were computed before, and this store destroys them.
Take(elements, lost) ==
    /\ loopIdx < CoreLoops
    /\ assigned' = assigned \union elements
    /\ clash' = clash \union (assigned \intersect (elements \union lost))
    /\ loopIdx' = loopIdx + 1
    /\ UNCHANGED <<case, core, group, scheduler>>

\* All of k.
Whole(b) == [m |-> b.m, mLen |-> b.mLen, n |-> b.n, nLen |-> b.nLen, k |-> 0, kLen |-> case.k]

AswtTake ==
    /\ case.scheduler = "Aswt"
    /\ \E last \in {group = Len(case.groups) /\ loopIdx = scheduler.round - 1 /\ core <= scheduler.end} :
         Take(Elements(Whole(UpdateBlockShape(scheduler, UpdateMNTileIdx(scheduler, loopIdx, last),
                                              loopIdx, last))), {})

GroupedAswtTake ==
    /\ case.scheduler = "GroupedAswt"
    /\ Take(Elements(Whole(GetBlockShape(scheduler, GetTileIdx(scheduler, loopIdx), loopIdx))), {})

L1FullLoadTake ==
    /\ case.scheduler = "L1FullLoad"
    /\ Take(Elements(L1FullLoadBlock(scheduler, core + loopIdx * case.cores)), {})

\* The first store of a block replaces what C holds there, the others are added.
SingleCoreSplitkTake ==
    /\ case.scheduler = "SingleCoreSplitk"
    /\ loopIdx < CoreLoops
    /\ \E b \in {SingleCoreSplitkBlock(scheduler, core, loopIdx)} :
         Take(Elements(b), IF IsAtomicAdd(scheduler, core, loopIdx) THEN {} ELSE Elements(Whole(b)))

TailSplitkTake ==
    /\ case.scheduler = "TailSplitk"
    /\ Take(Elements(TailSplitkBlock(scheduler, SwapLastWaves(scheduler, core, core + loopIdx * case.cores))),
            {})

CoreDone == group = Len(case.groups) /\ GroupDone

NextCore ==
    /\ CoreDone
    /\ core < case.cores - 1
    /\ core' = core + 1
    /\ group' = 0
    /\ loopIdx' = 0
    /\ scheduler' = New(case, core + 1)
    /\ UNCHANGED <<case, assigned, clash>>

AllDone == CoreDone /\ core = case.cores - 1

Terminated == AllDone /\ UNCHANGED vars

Next ==
    \/ AswtNextGroup \/ GroupedAswtNextGroup \/ StartTasks
    \/ AswtTake \/ GroupedAswtTake \/ L1FullLoadTake \/ SingleCoreSplitkTake \/ TailSplitkTake
    \/ NextCore
    \/ Terminated

Spec == Init /\ [][Next]_vars
-----------------------------------------------------------------------------
(* Properties. *)

\* Between them the cores compute every element of every group, over all of k,
\* exactly once and none outside of it: no tile is lost or taken by two cores where
\* groups roll over the cores, where the last wave is split, or where the last band
\* or slice is of another size, and no store overwrites a sum.
EachElementOnce ==
    /\ clash = {}
    /\ AllDone => assigned = UNION {GroupElements(g) : g \in 1 .. Len(case.groups)}
    /\ \A e \in assigned : e \in GroupElements(e[1])
=============================================================================
