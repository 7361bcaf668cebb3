--------------------------- MODULE BlockMmadPreload ---------------------------
(***************************************************************************)
(* gemm/block/block_mmad_preload.hpp, as the loop of the AIC of            *)
(* gemm/kernel/optimized_matmul.hpp calls it, and its twin                 *)
(* gemm/block/block_mmad_streamk.hpp, as gemm/kernel/streamk_matmul.hpp    *)
(* does.  With the last k tile of a block it loads the first one of the    *)
(* core's next block, which the next call counts on finding in L1.  The    *)
(* two halves of a cross block of the stream-K kernel are two calls, and   *)
(* the second loads its own first tile.  With ENABLE_SHUFFLE_K every core  *)
(* begins at a k tile of its own.                                          *)
(*                                                                         *)
(* ENABLE_UNIT_FLAG is off.  L1 and L0 tiles are equal on the m and n      *)
(* axes, so only the k parts are left.                                     *)
(***************************************************************************)
EXTENDS MmadInstructions

CONSTANTS
    Blocks,         \* calls of operator() the kernel makes
    Cross,          \* those for the first half of a cross block
    KTiles,         \* KTiles[b]: kTileCount of block b, at least 1
    LastKParts,     \* LastKParts[b]: kPartLoop of its last tile of k
    KParts,         \* kPartLoop of every other tile
    ShuffleK,       \* ENABLE_SHUFFLE_K
    CoreIdx         \* AscendC::GetBlockIdx()

VARIABLES
    pc,             \* "ctor", "idle" between calls, "loop" inside one, "done"
    block,          \* calls of operator() begun
    kLoopIdx,
    l1ListId

scalarVars == <<pc, block, kLoopIdx, l1ListId>>
vars == <<scalarVars, pipeVars>>
-----------------------------------------------------------------------------
Stages == 2
stages == [l1 |-> Stages, l0A |-> Stages]

Buffers ==
    UNION {{L1A(i), L1B(i), L0A(i), L0B(i)} : i \in 0..(Stages - 1)}
    \union {L0C(0)} \union {GmC(b) : b \in 1..Blocks}

Events ==
    UNION {{MTE1_MTE2(i), MTE2_MTE1(i), M_MTE1(i)} : i \in 0..(2 * Stages - 1)}
    \union {MTE1_M(0), M_FIX(0), FIX_M(0)}

\* What the constructor sets and the destructor waits for.
InitialEvents ==
    FlattenSeq([i \in 1..Stages |->
        << MTE1_MTE2(L1AEvent(i - 1)), MTE1_MTE2(L1BEvent(i - 1, stages)),
           M_MTE1(L0AEvent(i - 1)), M_MTE1(L0BEvent(i - 1, stages)) >>])
    \o <<FIX_M(0)>>

\* shuffleKIdx of turn k of the loop of block b.
ShuffleKIdx(b, k) == ((IF ShuffleK THEN CoreIdx ELSE 0) + k) % KTiles[b]

kPartLoop == IF ShuffleKIdx(block, kLoopIdx) < KTiles[block] - 1 THEN KParts ELSE LastKParts[block]

\* The loop over the parts: L0 begins at slot 0 for every k tile.
PartMmad(part) ==
    LET at == [l1 |-> l1ListId, l0A |-> part % Stages, l0B |-> part % Stages, l0C |-> 0]
    IN  MmadPart(at, stages, part, kPartLoop, kLoopIdx = 0 /\ part = 0)

isFirstBlock == block = 1 \/ block - 1 \in Cross

\* Mutation of hasNextBlock: the first half of a cross block preloads, too.
hasNextBlockAlways == block < Blocks

hasNextBlock == block < Blocks /\ block \notin Cross

\* The next tile of the block, or the first of the next block.
Preload ==
    IF kLoopIdx < KTiles[block] - 1 THEN LoadTile(<<block, ShuffleKIdx(block, kLoopIdx + 1)>>, Wrap(l1ListId, Stages), stages)
    ELSE IF hasNextBlock THEN LoadTile(<<block + 1, ShuffleKIdx(block + 1, 0)>>, Wrap(l1ListId, Stages), stages)
    ELSE <<>>
-----------------------------------------------------------------------------
Init ==
    /\ pc = "ctor"
    /\ block = 0 /\ kLoopIdx = 0 /\ l1ListId = 0
    /\ todo = <<>>
    /\ PipesInit(Buffers, Events)

Construct ==
    /\ pc = "ctor"
    /\ todo' = [i \in DOMAIN InitialEvents |-> SetFlag(InitialEvents[i])]
    /\ pc' = "idle"
    /\ UNCHANGED <<block, kLoopIdx, l1ListId, queue, busy, event, mem>>

\* Mutation of Call: no wait until the last block has left L0C.
CallNoWait ==
    /\ pc = "idle" /\ todo = <<>>
    /\ block < Blocks
    /\ block' = block + 1
    /\ kLoopIdx' = 0
    /\ pc' = "loop"
    /\ UNCHANGED <<l1ListId, pipeVars>>

\* operator() up to its loop.
Call ==
    /\ pc = "idle" /\ todo = <<>>
    /\ block < Blocks
    /\ todo' = <<WaitFlag(FIX_M(0))>>
    /\ block' = block + 1
    /\ kLoopIdx' = 0
    /\ pc' = "loop"
    /\ UNCHANGED <<l1ListId, queue, busy, event, mem>>

\* One turn of the k loop.
KLoop ==
    /\ pc = "loop" /\ todo = <<>>
    /\ kLoopIdx < KTiles[block]
    /\ todo' = (IF kLoopIdx = 0 /\ isFirstBlock THEN LoadTile(<<block, ShuffleKIdx(block, 0)>>, l1ListId, stages) ELSE <<>>)
               \o Preload
               \o FlattenSeq([i \in 1..kPartLoop |-> PartMmad(i - 1)])
    /\ l1ListId' = Wrap(l1ListId, Stages)
    /\ kLoopIdx' = kLoopIdx + 1
    /\ UNCHANGED <<pc, block, queue, busy, event, mem>>

\* "copy block out".
CopyOut ==
    /\ pc = "loop" /\ todo = <<>>
    /\ kLoopIdx = KTiles[block]
    /\ todo' = StoreBlock(0, block)
    /\ pc' = "idle"
    /\ UNCHANGED <<block, kLoopIdx, l1ListId, queue, busy, event, mem>>

Destroy ==
    /\ pc = "idle" /\ todo = <<>>
    /\ block = Blocks
    /\ todo' = [i \in DOMAIN InitialEvents |-> WaitFlag(InitialEvents[i])]
    /\ pc' = "done"
    /\ UNCHANGED <<block, kLoopIdx, l1ListId, queue, busy, event, mem>>

ScalarNext == Construct \/ Call \/ KLoop \/ CopyOut \/ Destroy \/ (Issue /\ UNCHANGED scalarVars)
PipeNext(p) == Execute(p) /\ UNCHANGED scalarVars

Destroyed == pc = "done" /\ Drained
Terminated == Destroyed /\ UNCHANGED vars

Next == ScalarNext \/ (\E p \in Pipe : PipeNext(p)) \/ Terminated

\* The scalar unit and every pipe go on while they can.
Fairness == WF_vars(ScalarNext) /\ \A p \in Pipe : WF_vars(PipeNext(p))

Spec == Init /\ [][Next]_vars /\ Fairness
-----------------------------------------------------------------------------
\* The parts of a block.
AllParts(b) ==
    {<<b, k, part>> : k \in 0..(KTiles[b] - 2), part \in 0..(KParts - 1)}
    \union {<<b, KTiles[b] - 1, part>> : part \in 0..(LastKParts[b] - 1)}

(* How the destructor should leave things: each block in GM is the sum of  *)
(* all its k parts, each once, whichever call loaded a tile, and every     *)
(* event is back to zero.                                                  *)
CleanExit ==
    /\ Destroyed
    /\ \A e \in Events : event[e] = 0
    /\ \A b \in 1..Blocks : mem[GmC(b)] = AllParts(b)
=============================================================================
