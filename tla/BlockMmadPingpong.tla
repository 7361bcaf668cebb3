------------------------- MODULE BlockMmadPingpong -------------------------
(***************************************************************************)
(* gemm/block/block_mmad_pingpong.hpp: the block-level multiplication of   *)
(* most kernels.  Inside one call it loads the next k tile to the other L1 *)
(* slot while it multiplies the current one; L0C has a single buffer.      *)
(* ENABLE_UNIT_FLAG is off.  The static assertions make L1 and L0 tiles    *)
(* equal on the m and n axes, so only the k parts are left.                *)
(***************************************************************************)
EXTENDS MmadInstructions

CONSTANTS
    Blocks,         \* calls of operator() the kernel makes
    KTiles,         \* KTiles[b]: kTileCount of block b, at least 1
    LastKParts,     \* kPartLoop of the last tile of k
    KParts,         \* kPartLoop of every other tile
    Stages,         \* STAGES, at least 2
    FetchTile(_, _, _)      \* how a k tile comes to a slot of L1: LoadTile, but for the class with a prologue

VARIABLES
    pc,             \* "ctor", "idle" between calls, "loop" inside one, "done"
    block,          \* calls of operator() begun
    kLoopIdx,
    l1ListId, l0AListId, l0BListId

scalarVars == <<pc, block, kLoopIdx, l1ListId, l0AListId, l0BListId>>
vars == <<scalarVars, pipeVars>>
-----------------------------------------------------------------------------
stages == [l1 |-> Stages, l0A |-> Stages]

Buffers ==
    UNION {{L1A(i), L1B(i), L0A(i), L0B(i)} : i \in 0..(Stages - 1)}
    \union {L0C(0)} \union {GmC(b) : b \in 1..Blocks}

Events ==
    UNION {{MTE1_MTE2(i), MTE2_MTE1(i), M_MTE1(i)} : i \in 0..(2 * Stages - 1)}
    \union {MTE1_M(0), M_FIX(0), FIX_M(0)}

\* "The event id that needs to be set before the loop".
InitialEvents ==
    FlattenSeq([i \in 1..Stages |->
        << MTE1_MTE2(L1AEvent(i - 1)), MTE1_MTE2(L1BEvent(i - 1, stages)),
           M_MTE1(L0AEvent(i - 1)), M_MTE1(L0BEvent(i - 1, stages)) >>])
    \o <<FIX_M(0)>>

\* kPartLoop of the current tile.
PartLoop == IF kLoopIdx < KTiles[block] - 1 THEN KParts ELSE LastKParts

\* Mutation of PartMmad: the accumulator is reset on every k tile.
PartMmadInitEveryTile(part) ==
    LET at == [l1 |-> l1ListId, l0A |-> (l0AListId + part) % Stages,
               l0B |-> (l0BListId + part) % Stages, l0C |-> 0] IN
    MmadPart(at, stages, part, PartLoop, part = 0)

\* One turn of the k part loop: each takes one slot of L0A and of L0B.
PartMmad(part) ==
    LET at == [l1 |-> l1ListId, l0A |-> (l0AListId + part) % Stages,
               l0B |-> (l0BListId + part) % Stages, l0C |-> 0] IN
    MmadPart(at, stages, part, PartLoop, kLoopIdx = 0 /\ part = 0)
-----------------------------------------------------------------------------
Init ==
    /\ pc = "ctor"
    /\ block = 0 /\ kLoopIdx = 0
    /\ l1ListId = 0 /\ l0AListId = 0 /\ l0BListId = 0
    /\ todo = <<>>
    /\ PipesInit(Buffers, Events)

Construct ==
    /\ pc = "ctor"
    /\ todo' = [i \in DOMAIN InitialEvents |-> SetFlag(InitialEvents[i])]
    /\ pc' = "idle"
    /\ UNCHANGED <<block, kLoopIdx, l1ListId, l0AListId, l0BListId, queue, busy, event, mem>>

\* Mutation of Call: no wait until the last block has left L0C.
CallNoWaitForL0C ==
    /\ pc = "idle" /\ todo = <<>>
    /\ block < Blocks
    /\ block' = block + 1
    /\ kLoopIdx' = 0
    /\ todo' = FetchTile(<<block', 0>>, l1ListId, stages)
    /\ pc' = "loop"
    /\ UNCHANGED <<l1ListId, l0AListId, l0BListId, queue, busy, event, mem>>

\* operator() up to its loop: the load of the first tile, the wait for L0C.
Call ==
    /\ pc = "idle" /\ todo = <<>>
    /\ block < Blocks
    /\ block' = block + 1
    /\ kLoopIdx' = 0
    /\ todo' = FetchTile(<<block', 0>>, l1ListId, stages) \o <<WaitFlag(FIX_M(0))>>
    /\ pc' = "loop"
    /\ UNCHANGED <<l1ListId, l0AListId, l0BListId, queue, busy, event, mem>>

\* Mutation of KLoop: kTileCount where the code has kTileCount - 1, one load too many.
KLoopLoadsPastTheEnd ==
    /\ pc = "loop" /\ todo = <<>>
    /\ kLoopIdx < KTiles[block]
    /\ LET next == Wrap(l1ListId, Stages)
           preload == kLoopIdx < KTiles[block]
       IN /\ todo' = (IF preload THEN FetchTile(<<block, kLoopIdx + 1>>, next, stages) ELSE <<>>)
                     \o FlattenSeq([i \in 1..PartLoop |-> PartMmad(i - 1)])
          /\ l1ListId' = next
    /\ l0AListId' = (l0AListId + PartLoop) % Stages
    /\ l0BListId' = (l0BListId + PartLoop) % Stages
    /\ kLoopIdx' = kLoopIdx + 1
    /\ UNCHANGED <<pc, block, queue, busy, event, mem>>

\* One turn of the k loop: preload the next tile, multiply the current one.
KLoop ==
    /\ pc = "loop" /\ todo = <<>>
    /\ kLoopIdx < KTiles[block]
    /\ LET next == Wrap(l1ListId, Stages)
           preload == kLoopIdx < KTiles[block] - 1
       IN /\ todo' = (IF preload THEN FetchTile(<<block, kLoopIdx + 1>>, next, stages) ELSE <<>>)
                     \o FlattenSeq([i \in 1..PartLoop |-> PartMmad(i - 1)])
          /\ l1ListId' = next
    /\ l0AListId' = (l0AListId + PartLoop) % Stages
    /\ l0BListId' = (l0BListId + PartLoop) % Stages
    /\ kLoopIdx' = kLoopIdx + 1
    /\ UNCHANGED <<pc, block, queue, busy, event, mem>>

\* "copy block out".
CopyOut ==
    /\ pc = "loop" /\ todo = <<>>
    /\ kLoopIdx = KTiles[block]
    /\ todo' = StoreBlock(0, block)
    /\ pc' = "idle"
    /\ UNCHANGED <<block, kLoopIdx, l1ListId, l0AListId, l0BListId, queue, busy, event, mem>>

\* Mutation of Destroy: the wait for FIX_M after the loop is missing.
DestroyOneWaitShort ==
    /\ pc = "idle" /\ todo = <<>>
    /\ block = Blocks
    /\ todo' = [i \in 1..(Len(InitialEvents) - 1) |-> WaitFlag(InitialEvents[i])]
    /\ pc' = "done"
    /\ UNCHANGED <<block, kLoopIdx, l1ListId, l0AListId, l0BListId, queue, busy, event, mem>>

Destroy ==
    /\ pc = "idle" /\ todo = <<>>
    /\ block = Blocks
    /\ todo' = [i \in DOMAIN InitialEvents |-> WaitFlag(InitialEvents[i])]
    /\ pc' = "done"
    /\ UNCHANGED <<block, kLoopIdx, l1ListId, l0AListId, l0BListId, queue, busy, event, mem>>

ScalarNext == Construct \/ Call \/ KLoop \/ CopyOut \/ Destroy \/ (Issue /\ UNCHANGED scalarVars)
PipeNext(p) == Execute(p) /\ UNCHANGED scalarVars

Destroyed == pc = "done" /\ Drained
Terminated == Destroyed /\ UNCHANGED vars

Next == ScalarNext \/ (\E p \in Pipe : PipeNext(p)) \/ Terminated

\* The scalar unit and every pipe go on while they can.
Fairness == WF_vars(ScalarNext) /\ \A p \in Pipe : WF_vars(PipeNext(p))

Spec == Init /\ [][Next]_vars /\ Fairness
-----------------------------------------------------------------------------
AllParts(b) ==
    {<<b, k, part>> : k \in 0..(KTiles[b] - 2), part \in 0..(KParts - 1)}
    \union {<<b, KTiles[b] - 1, part>> : part \in 0..(LastKParts - 1)}

(* How the destructor should leave things: each block in GM is the sum of  *)
(* all its k parts, each once, although the L0 and L1 positions run on     *)
(* from one call to the next, and every event is back to zero for the next *)
(* BlockMmad.                                                              *)
CleanExit ==
    /\ Destroyed
    /\ \A e \in Events : event[e] = 0
    /\ \A b \in 1..Blocks : mem[GmC(b)] = AllParts(b)
=============================================================================
