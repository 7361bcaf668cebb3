----------------------- MODULE BlockMmadPreloadAsync -----------------------
(***************************************************************************)
(* gemm/block/block_mmad_preload_async_with_callback.hpp: the block-level  *)
(* multiplication that loads k tiles to L1 PRELOAD_STAGES tiles ahead of   *)
(* the multiplication, across the blocks it is called for, with ring       *)
(* buffers in L1, L0A, L0B and L0C.  ENABLE_UNIT_FLAG is off.              *)
(* The static assertions make L1 and L0 tiles equal on the m and n axes,   *)
(* so mPartLoop = nPartLoop = 1 and only the k parts are left.             *)
(*                                                                         *)
(* A block may have no k tile: a group of size 0 of the grouped kernels.   *)
(***************************************************************************)
EXTENDS MmadInstructions

CONSTANTS
    Blocks,         \* calls of operator() the kernel makes
    KTiles,         \* KTiles[b]: kTileCount of block b
    LastKParts,     \* kPartLoop of the last tile of k
    KParts,         \* kPartLoop of every other tile
    PreloadStages,  \* PRELOAD_STAGES, less than L1_STAGES
    L1Stages, L0AStages, L0BStages, L0CStages,
    ShuffleK,       \* ENABLE_SHUFFLE_K
    CoreIdx         \* AscendC::GetBlockIdx()

VARIABLES
    pc,             \* "ctor", "loop" or "done"
    block,          \* calls of operator() begun
    kLoopIdx,       \* of the current call; KTiles[block] when it has returned
    l1ListId, l0AListId, l0BListId, l0CListId,
    params,         \* l1TileMmadParamsList
    paramsId,       \* l1TileMmadParamsId
    preloadCount,
    called          \* the last block whose callbacks have been called

scalarVars == <<pc, block, kLoopIdx, l1ListId, l0AListId, l0BListId, l0CListId,
                params, paramsId, preloadCount>>
vars == <<scalarVars, called, pipeVars>>

-----------------------------------------------------------------------------
stages == [l1 |-> L1Stages, l0A |-> L0AStages]

Buffers ==
    {L1A(i) : i \in 0..(L1Stages - 1)} \union {L1B(i) : i \in 0..(L1Stages - 1)}
    \union {L0A(i) : i \in 0..(L0AStages - 1)} \union {L0B(i) : i \in 0..(L0BStages - 1)}
    \union {L0C(i) : i \in 0..(L0CStages - 1)} \union {GmC(b) : b \in 1..Blocks}

Events ==
    {MTE1_MTE2(i) : i \in 0..(2 * L1Stages - 1)} \union {MTE2_MTE1(i) : i \in 0..(2 * L1Stages - 1)}
    \union {M_MTE1(i) : i \in 0..(L0AStages + L0BStages - 1)} \union {MTE1_M(0)}
    \union {M_FIX(i) : i \in 0..(L0CStages - 1)} \union {FIX_M(i) : i \in 0..(L0CStages - 1)}

\* InitL1, InitL0A, InitL0B, InitL0C: the events of the free buffers.
InitialEvents ==
    FlattenSeq([i \in 1..L1Stages |-> <<MTE1_MTE2(L1AEvent(i - 1)), MTE1_MTE2(L1BEvent(i - 1, stages))>>])
    \o [i \in 1..L0AStages |-> M_MTE1(L0AEvent(i - 1))]
    \o [i \in 1..L0BStages |-> M_MTE1(L0BEvent(i - 1, stages))]
    \o [i \in 1..L0CStages |-> FIX_M(i - 1)]

\* The callbacks run on the scalar unit, before and after the store is issued.
Callbacks(b) == <<[pipe |-> "S", op |-> "callback", block |-> b]>>

\* One turn of the k part loop of L1TileMmad: each takes one slot of L0A and of L0B.
PartMmad(p, part) ==
    LET at == [l1 |-> p.l1ListId, l0A |-> (l0AListId + part) % L0AStages,
               l0B |-> (l0BListId + part) % L0BStages, l0C |-> l0CListId] IN
    MmadPart(at, stages, part, p.kParts, p.isKLoopFirst /\ part = 0)

\* Mutation of L1TileMmad: the callbacks of the latest call, not those of the tile's block.
L1TileMmadLatestCallbacks(p) ==
    (IF p.isKLoopFirst THEN <<WaitFlag(FIX_M(l0CListId))>> ELSE <<>>)
    \o FlattenSeq([i \in 1..p.kParts |-> PartMmad(p, i - 1)])
    \o (IF p.isKLoopLast THEN Callbacks(block) \o StoreBlock(l0CListId, p.block) ELSE <<>>)

L1TileMmad(p) ==
    (IF p.isKLoopFirst THEN <<WaitFlag(FIX_M(l0CListId))>> ELSE <<>>)
    \o FlattenSeq([i \in 1..p.kParts |-> PartMmad(p, i - 1)])
    \o (IF p.isKLoopLast THEN Callbacks(p.block) \o StoreBlock(l0CListId, p.block) ELSE <<>>)

\* The ring positions L1TileMmad leaves behind.
AdvanceL0(p) ==
    /\ l0AListId' = (l0AListId + p.kParts) % L0AStages
    /\ l0BListId' = (l0BListId + p.kParts) % L0BStages
    /\ l0CListId' = IF p.isKLoopLast THEN Wrap(l0CListId, L0CStages) ELSE l0CListId
-----------------------------------------------------------------------------
NoParams == [l1ListId |-> 0, kParts |-> 1, isKLoopFirst |-> FALSE, isKLoopLast |-> FALSE, block |-> 0]

\* Mutation of TileParams: kTileCount - 2 where the code has kTileCount - 1.
TileParamsLastIsEarly(kTileIdx, old) ==
    [l1ListId |-> l1ListId,
     kParts |-> IF kTileIdx < KTiles[block] - 1 THEN KParts ELSE LastKParts,
     isKLoopFirst |-> kLoopIdx = 0,
     isKLoopLast |-> kLoopIdx = KTiles[block] - 2,
     block |-> IF kLoopIdx = KTiles[block] - 2 THEN block ELSE old.block]

\* Mutation of TileParams: kTileIdx where the code has kLoopIdx.
TileParamsLastByTile(kTileIdx, old) ==
    [l1ListId |-> l1ListId,
     kParts |-> IF kTileIdx < KTiles[block] - 1 THEN KParts ELSE LastKParts,
     isKLoopFirst |-> kLoopIdx = 0,
     isKLoopLast |-> kTileIdx = KTiles[block] - 1,
     block |-> IF kTileIdx = KTiles[block] - 1 THEN block ELSE old.block]

\* "Store the current load status": what the block is (its C, its callbacks)
\* is stored with its last tile only.
TileParams(kTileIdx, old) ==
    [l1ListId |-> l1ListId,
     kParts |-> IF kTileIdx < KTiles[block] - 1 THEN KParts ELSE LastKParts,
     isKLoopFirst |-> kLoopIdx = 0,
     isKLoopLast |-> kLoopIdx = KTiles[block] - 1,
     block |-> IF kLoopIdx = KTiles[block] - 1 THEN block ELSE old.block]

Init ==
    /\ pc = "ctor"
    /\ block = 0 /\ kLoopIdx = 0
    /\ l1ListId = 0 /\ l0AListId = 0 /\ l0BListId = 0 /\ l0CListId = 0
    /\ params = [i \in 0..(PreloadStages - 1) |-> NoParams]
    /\ paramsId = 0 /\ preloadCount = 0
    /\ called = 0
    /\ todo = <<>>
    /\ PipesInit(Buffers, Events)

\* The constructor sets the events of all free buffers.
Construct ==
    /\ pc = "ctor"
    /\ todo' = [i \in DOMAIN InitialEvents |-> SetFlag(InitialEvents[i])]
    /\ pc' = "loop"
    /\ UNCHANGED <<block, kLoopIdx, l1ListId, l0AListId, l0BListId, l0CListId, params, paramsId,
                   preloadCount, called, queue, busy, event, mem>>

Returned == IF block = 0 THEN TRUE ELSE kLoopIdx = KTiles[block]

\* The kernel calls operator() for its next block.
Call ==
    /\ pc = "loop" /\ todo = <<>>
    /\ Returned /\ block < Blocks
    /\ block' = block + 1
    /\ kLoopIdx' = 0
    /\ UNCHANGED <<pc, l1ListId, l0AListId, l0BListId, l0CListId, params, paramsId, preloadCount,
                   called, pipeVars>>

\* One turn of the k loop of operator().
KLoop ==
    /\ pc = "loop" /\ todo = <<>>
    /\ ~Returned
    /\ LET start == IF ShuffleK THEN CoreIdx % KTiles[block] ELSE 0
           kTileIdx == (start + kLoopIdx) % KTiles[block]
           slot == (paramsId + preloadCount) % PreloadStages
           full == preloadCount = PreloadStages
       IN /\ todo' = LoadTile(<<block, kTileIdx>>, l1ListId, stages)
                     \o (IF full THEN L1TileMmad(params[paramsId]) ELSE <<>>)
          /\ IF full THEN AdvanceL0(params[paramsId])
                     ELSE UNCHANGED <<l0AListId, l0BListId, l0CListId>>
          /\ params' = [params EXCEPT ![slot] = TileParams(kTileIdx, @)]
          /\ preloadCount' = IF full THEN preloadCount ELSE preloadCount + 1
          /\ paramsId' = IF full THEN Wrap(paramsId, PreloadStages) ELSE paramsId
    /\ l1ListId' = Wrap(l1ListId, L1Stages)
    /\ kLoopIdx' = kLoopIdx + 1
    /\ UNCHANGED <<pc, block, called, queue, busy, event, mem>>

\* Mutation of SynchronizeBlock: the parameters' ring position stays behind.
SynchronizeBlockSameParams ==
    /\ pc = "loop" /\ todo = <<>>
    /\ Returned /\ block = Blocks
    /\ preloadCount > 0
    /\ todo' = L1TileMmad(params[paramsId])
    /\ AdvanceL0(params[paramsId])
    /\ preloadCount' = preloadCount - 1
    /\ UNCHANGED <<pc, block, kLoopIdx, l1ListId, params, paramsId, called, queue, busy, event, mem>>

\* One turn of the loop of SynchronizeBlock, which the kernel or the destructor calls.
SynchronizeBlock ==
    /\ pc = "loop" /\ todo = <<>>
    /\ Returned /\ block = Blocks
    /\ preloadCount > 0
    /\ todo' = L1TileMmad(params[paramsId])
    /\ AdvanceL0(params[paramsId])
    /\ paramsId' = Wrap(paramsId, PreloadStages)
    /\ preloadCount' = preloadCount - 1
    /\ UNCHANGED <<pc, block, kLoopIdx, l1ListId, params, called, queue, busy, event, mem>>

\* Mutation of Destroy: the last wait, for L0C, is missing.
DestroyOneWaitShort ==
    /\ pc = "loop" /\ todo = <<>>
    /\ Returned /\ block = Blocks /\ preloadCount = 0
    /\ todo' = [i \in 1..(Len(InitialEvents) - 1) |-> WaitFlag(InitialEvents[i])]
    /\ pc' = "done"
    /\ UNCHANGED <<block, kLoopIdx, l1ListId, l0AListId, l0BListId, l0CListId, params, paramsId,
                   preloadCount, called, queue, busy, event, mem>>

\* The rest of the destructor: it takes back the events of all buffers.
Destroy ==
    /\ pc = "loop" /\ todo = <<>>
    /\ Returned /\ block = Blocks /\ preloadCount = 0
    /\ todo' = [i \in DOMAIN InitialEvents |-> WaitFlag(InitialEvents[i])]
    /\ pc' = "done"
    /\ UNCHANGED <<block, kLoopIdx, l1ListId, l0AListId, l0BListId, l0CListId, params, paramsId,
                   preloadCount, called, queue, busy, event, mem>>

\* callbackBeforeFixpipe and callbackAfterFixpipe of a block.
Callback ==
    /\ todo # <<>> /\ Head(todo).pipe = "S"
    /\ called' = Head(todo).block
    /\ todo' = Tail(todo)
    /\ UNCHANGED <<scalarVars, queue, busy, event, mem>>

ScalarNext == Construct \/ Call \/ KLoop \/ SynchronizeBlock \/ Destroy \/ Callback
              \/ (Issue /\ UNCHANGED <<scalarVars, called>>)
PipeNext(p) == Execute(p) /\ UNCHANGED <<scalarVars, called>>

Destroyed == pc = "done" /\ Drained
Terminated == Destroyed /\ UNCHANGED vars

Next == ScalarNext \/ (\E p \in Pipe : PipeNext(p)) \/ Terminated

\* The scalar unit and every pipe go on while they can.
Fairness == WF_vars(ScalarNext) /\ \A p \in Pipe : WF_vars(PipeNext(p))

Spec == Init /\ [][Next]_vars /\ Fairness
-----------------------------------------------------------------------------
AllParts(b) ==
    {<<b, k, part>> : k \in 0..(KTiles[b] - 2), part \in 0..(KParts - 1)}
    \union {<<b, k, part>> : k \in 0..(KTiles[b] - 1) \ 0..(KTiles[b] - 2), part \in 0..(LastKParts - 1)}

\* Blocks whose callbacks have been called or are about to be, by the issued code.
Called == {called} \union {todo[i].block : i \in {i \in DOMAIN todo : todo[i].pipe = "S"}}

(* The kernel does not wait long for its callbacks: when operator() has    *)
(* returned, a block is still held back only if fewer than PRELOAD_STAGES  *)
(* k tiles were loaded after its last one.                                 *)
HeldBack ==
    Returned => \A b \in 1..block :
        KTiles[b] > 0 /\ (\A c \in Called : c < b)
            => FoldFunctionOnSet(+, 0, KTiles, (b + 1)..block) < PreloadStages

Skipped(from, to) == {b \in (from + 1)..to : KTiles[b] > 0}

(* The callbacks come in block order, none left out but those of blocks    *)
(* without a k tile: the order in which the AIVs of the kernel wait.       *)
CallbackOrder ==
    [][called' # called => called' > called /\ Skipped(called, called') = {called'}]_vars

(* How the destructor should leave things: each block in GM is the sum of  *)
(* all its k parts, each exactly once and none of another block: every     *)
(* tile was multiplied from the L1 slot and with the parameters it was     *)
(* loaded with, with initC on the first part only.  No callback is left    *)
(* out, and every event is back to zero: the next BlockMmad on this core   *)
(* starts its events afresh.                                               *)
CleanExit ==
    /\ Destroyed
    /\ \A e \in Events : event[e] = 0
    /\ Skipped(called, Blocks) = {}
    /\ \A b \in 1..Blocks : mem[GmC(b)] = AllParts(b)
=============================================================================
