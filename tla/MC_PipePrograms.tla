--------------------------- MODULE MC_PipePrograms ---------------------------
(***************************************************************************)
(* The programs of the pipes for TLC: five BlockMmad classes, one of them  *)
(* with the AIVs that convert its operand, the four of the flash attention *)
(* kernel on its AIC, its epilogues on one of its AIVs, the two classes of *)
(* the convolutions, and, on one AIV each, the casts of the FP8 kernel,    *)
(* the epilogue of the grouped kernels with dequantisation and the scaling *)
(* of trmm.  Init chooses the program; the questions are the same for all  *)
(* of them.                                                                *)
(***************************************************************************)
EXTENDS MmadInstructions

CONSTANTS
    Programs,       \* those that Init chooses from
    TrmmCases       \* the problems of trmm

VARIABLES
    program,
    pc, block,                  \* all BlockMmad but flash attention's, convolutions; pc: sliceKPrologue, trmm
    kLoopIdx, l1ListId,         \* pingpong, prologue, preload, preloadAsync, conv2d's cin1LoopIdx; conv3d's l1ListId
    l0AListId, l0BListId,                                   \* pingpong, prologue, preloadAsync
    flagPrologueBFinish, taken, waited, stored, storing,    \* prologue
    l0CListId, params, paramsId, preloadCount, called,      \* preloadAsync; params: trmm, conv3d, their problem
    needLoadNext, mnLoopIdx, member,                        \* singleCoreSplitk; member: conv2d, conv3d's iterParams
    calls,              \* singleCoreSplitk, both epilogues, faiMmad, sliceKPrologue; trmm: its loopIdx
    aic,                                                    \* faiEpilogue, sliceKPrologue, trmm
    ubListId                                                \* dequantEpilogue, sliceKPrologue

callVars == <<pc, block>>
kVars == <<kLoopIdx, l1ListId>>
l0Vars == <<l0AListId, l0BListId>>
prologueVars == <<flagPrologueBFinish, taken, waited, stored, storing>>
asyncVars == <<l0CListId, params, paramsId, preloadCount, called>>
splitkVars == <<needLoadNext, mnLoopIdx, member>>
mmadVars == <<callVars, kVars, l0Vars, asyncVars, splitkVars>>
vars == <<program, mmadVars, prologueVars, calls, aic, ubListId, pipeVars>>
-----------------------------------------------------------------------------
\* Blocks of one, two and three k tiles, the last tile of a block short.
PingpongKTiles == <<2, 1, 3>>
Pingpong == INSTANCE BlockMmadPingpong
    WITH Blocks <- 3, KTiles <- PingpongKTiles, LastKParts <- 1, KParts <- 2, Stages <- 2, FetchTile <- LoadTile

\* Two blocks on one AIC and two AIVs: the ring turns between them, and the
\* second AIV has no line of one tile.
PrologueKTiles == <<2, 1>>
PrologueAIV == {0, 1}
PrologueIdle == {<<1, <<1, 1>>>>}
Prologue == INSTANCE BlockMmadPrologue
    WITH AIV <- PrologueAIV, Blocks <- 2, KTiles <- PrologueKTiles, LastKParts <- 1, KParts <- 1, Stages <- 2,
         Idle <- PrologueIdle

\* Blocks of different k, one without any, and a short last tile; rings of
\* different lengths.
PreloadAsyncKTiles == <<2, 0, 1, 2>>
PreloadAsync == INSTANCE BlockMmadPreloadAsync
    WITH Blocks <- 4, KTiles <- PreloadAsyncKTiles, LastKParts <- 1, KParts <- 2,
         PreloadStages <- 2, L1Stages <- 3, L0AStages <- 2, L0BStages <- 3, L0CStages <- 2,
         ShuffleK <- TRUE, CoreIdx <- 1

\* What core 1 of four has to do for ten blocks of three k tiles: a block, the
\* short tail of one with the head of the next, and a block.
PreloadKTiles == <<3, 1, 1, 3>>
PreloadLastKParts == <<1, 1, 2, 1>>
Preload == INSTANCE BlockMmadPreload
    WITH Blocks <- 4, Cross <- {2}, KTiles <- PreloadKTiles, LastKParts <- PreloadLastKParts, KParts <- 2,
         ShuffleK <- TRUE, CoreIdx <- 1

\* Two by two blocks in two slices of k, as the kernel walks through them: the
\* next block shares A, shares B, or neither.  Blocks are two L0 tiles wide,
\* their k one or two parts long.
SingleCoreSplitk == INSTANCE SingleCoreSplitkMmad
    WITH P <- [cores |-> 1, shape |-> [m |-> 3, n |-> 5, k |-> 6], tile |-> [m |-> 2, n |-> 4, k |-> 4],
               offset |-> 2, direction |-> 0],
         Core <- 0, L0Tile <- [m |-> 2, n |-> 2, k |-> 2],
         L1AStages <- 2, L1BStages <- 1, L0ABStages <- 2, L0CStages <- 2

\* Stacks of four tiles of two columns: a task without a mask, one full stack
\* and one of a tile and a half; a task with a mask, a short stack and a masked
\* one that begins inside a tile and ends in the next; a masked stack only.
FaiMmadTasks ==
    << [qSeqlen |-> 1, kvSeqlen |-> 11, qSBlockIdx |-> 0, mask |-> FALSE],
       [qSeqlen |-> 2, kvSeqlen |-> 5, qSBlockIdx |-> 0, mask |-> TRUE],
       [qSeqlen |-> 2, kvSeqlen |-> 2, qSBlockIdx |-> 0, mask |-> TRUE] >>
FaiMmad == INSTANCE FaiBlockMmad
    WITH Tile <- 2, BlockStackNum <- 4, PreLaunch <- 2, Tasks <- FaiMmadTasks

\* Stacks of two tiles of two columns: a task without a mask, two stacks in
\* five and three row tiles; a task with a mask, two stacks of which the second
\* is masked, in four row tiles; a task in which this AIV has no rows.
FaiEpilogueTasks ==
    << [qSeqlen |-> 2, kvSeqlen |-> 6, qSBlockIdx |-> 0, mask |-> FALSE, rows |-> 9],
       [qSeqlen |-> 2, kvSeqlen |-> 4, qSBlockIdx |-> 0, mask |-> TRUE, rows |-> 13],
       [qSeqlen |-> 1, kvSeqlen |-> 1, qSBlockIdx |-> 0, mask |-> TRUE, rows |-> 0] >>
FaiEpilogue == INSTANCE FaiEpilogues
    WITH Tile <- 2, BlockStackNum <- 2, PreLaunch <- 2, MaxUbElems <- 8, Tasks <- FaiEpilogueTasks
\* Three blocks of two groups on the second AIV, the middle one without k: three,
\* two and one tiles, so that the ring of two slots turns inside a block.
DequantBlocks ==
    << [group |-> 1, m |-> 0, n |-> 0, k |-> 8, rows |-> 2, columns |-> 3],
       [group |-> 2, m |-> 0, n |-> 0, k |-> 0, rows |-> 2, columns |-> 2],
       [group |-> 3, m |-> 0, n |-> 1, k |-> 8, rows |-> 2, columns |-> 1] >>
DequantEpilogue == INSTANCE PerTokenDequantEpilogue
    WITH Blocks <- DequantBlocks, UBStages <- 2, SubBlockIdx <- 1

\* Two blocks in two slices of k, the last a short one: the first of A in two
\* turns of the cast and C in two, the second without a line of A for this AIV.
SliceKBlocks == <<[m |-> 7, n |-> 2], [m |-> 1, n |-> 2]>>
SliceKPrologue == INSTANCE SliceKPrologue
    WITH Blocks <- SliceKBlocks, K <- 3, SplitkLength <- 2, ComputeLength <- 4, Alignment <- 2, SubBlockIdx <- 1,
         bufferIndex <- ubListId

\* Six by four elements in a block of four rows and one of two, on the first two
\* of four cores: either AIV of the core, every side, triangle and transposition.
\* Lines fill their blocks of two in UB, and no AIV has more than one block: the
\* kernel does not return otherwise, nor does it scale all of the lines.
TrmmCase(m, n, blockNum) ==
    [m : {m}, n : {n}, side : 0..1, uplo : 0..1, trans : 0..1, tile : {[m |-> 4, n |-> 4]}, offset : {3},
     direction : {0}, blockNum : {blockNum}, core : 0..1, subBlockIdx : 0..1]
TrmmShort == TrmmCase(6, 4, 4)
TrmmSecondRound == {c \in TrmmCase(10, 4, 2) : c.side = 0 /\ c.core = 0}
TrmmOddLines == {c \in TrmmCase(6, 3, 4) : c.side = 0 /\ c.core = 0}
Trmm == INSTANCE TrmmScaling
    WITH E <- 2, Cases <- TrmmCases, case <- params, loopIdx <- calls

\* Two tiles of the filter, the first for two of the input and the last short;
\* blocks of two and of one part of the columns.
Conv2dCouts == <<2, 1>>
Conv2d == INSTANCE BlockConv2d
    WITH Cin1 <- 5, FmapCin1 <- 2, FilterCin1 <- 4, Cin1L0Tile <- 1, Couts <- Conv2dCouts, NL0 <- 1,
         L1AStages <- 2, L1BStages <- 2, L0AStages <- 2, L0BStages <- 2, cin1LoopIdx <- kLoopIdx

\* Without loading ahead, as tiles of A lie in the padding: three tiles of L0 in
\* two of L1, B in L1 for as long as it serves.  Loading A ahead with B whole in
\* k, in two blocks, and with B loaded on the spot, in two batches.  Loading both
\* ahead, A twice as often.
Conv3dCase(k, kAL1, kBL1) ==
    [k |-> k, kAL1 |-> kAL1, kBL1 |-> kBL1, kL0 |-> 1, hw |-> 1, mAL1 |-> 1, mL0 |-> 1,
     cout |-> 1, nBL1 |-> 1, nL0 |-> 1, n |-> 1, d |-> 1, blocks |-> 1, stages |-> [a |-> 2, b |-> 1],
     padded |-> FALSE, fullPad |-> {}]
Conv3dCases ==
    {[Conv3dCase(3, 1, 3) EXCEPT !.hw = 3, !.mAL1 = 2, !.cout = 2, !.d = 2,
                                 !.padded = TRUE, !.fullPad = {<<0, 0>>, <<1, 2>>}],
     [Conv3dCase(4, 2, 4) EXCEPT !.blocks = 2],
     [Conv3dCase(4, 1, 2) EXCEPT !.n = 2],
     [Conv3dCase(4, 1, 2) EXCEPT !.cout = 2, !.nBL1 = 2, !.stages = [a |-> 2, b |-> 2]]}
Conv3d == INSTANCE BlockConv3d
    WITH Cases <- Conv3dCases, case <- params, iterParams <- member
-----------------------------------------------------------------------------
Unused(x) == x = "unused"
CallUnused == Unused(pc) /\ Unused(block)
KUnused == Unused(kLoopIdx) /\ Unused(l1ListId)
L0Unused == Unused(l0AListId) /\ Unused(l0BListId)
PrologueUnused ==
    Unused(flagPrologueBFinish) /\ Unused(taken) /\ Unused(waited) /\ Unused(stored) /\ Unused(storing)
AsyncRingsUnused == Unused(l0CListId) /\ Unused(paramsId) /\ Unused(preloadCount) /\ Unused(called)
AsyncUnused == AsyncRingsUnused /\ Unused(params)
SplitkUnused == Unused(needLoadNext) /\ Unused(mnLoopIdx) /\ Unused(member)

OthersUnused == Unused(calls) /\ Unused(aic) /\ Unused(ubListId)
MmadUnused == CallUnused /\ KUnused /\ L0Unused /\ AsyncUnused /\ SplitkUnused

Init == program \in Programs /\
    \/ program = "pingpong" /\ Pingpong!Init /\ PrologueUnused /\ AsyncUnused /\ SplitkUnused /\ OthersUnused
    \/ program = "prologue" /\ Prologue!Init /\ AsyncUnused /\ SplitkUnused /\ OthersUnused
    \/ program = "preloadAsync" /\ PreloadAsync!Init /\ PrologueUnused /\ SplitkUnused /\ OthersUnused
    \/ /\ program = "preload" /\ Preload!Init
       /\ L0Unused /\ PrologueUnused /\ AsyncUnused /\ SplitkUnused /\ OthersUnused
    \/ /\ program = "singleCoreSplitk" /\ SingleCoreSplitk!Init
       /\ KUnused /\ L0Unused /\ PrologueUnused /\ AsyncUnused /\ Unused(aic) /\ Unused(ubListId)
    \/ program = "faiMmad" /\ FaiMmad!Init /\ MmadUnused /\ PrologueUnused /\ Unused(aic) /\ Unused(ubListId)
    \/ program = "faiEpilogue" /\ FaiEpilogue!Init /\ MmadUnused /\ PrologueUnused /\ Unused(ubListId)
    \/ /\ program = "dequantEpilogue" /\ DequantEpilogue!Init
       /\ Unused(block) /\ KUnused /\ L0Unused /\ PrologueUnused /\ AsyncUnused /\ SplitkUnused /\ Unused(aic)
    \/ /\ program = "sliceKPrologue" /\ SliceKPrologue!Init
       /\ Unused(block) /\ KUnused /\ L0Unused /\ PrologueUnused /\ AsyncUnused /\ SplitkUnused
    \/ /\ program = "trmm" /\ Trmm!Init
       /\ Unused(block) /\ KUnused /\ L0Unused /\ PrologueUnused /\ AsyncRingsUnused /\ SplitkUnused
       /\ Unused(ubListId)
    \/ /\ program = "conv2d" /\ Conv2d!Init
       /\ Unused(l1ListId) /\ L0Unused /\ PrologueUnused /\ AsyncUnused
       /\ Unused(needLoadNext) /\ Unused(mnLoopIdx) /\ OthersUnused
    \/ /\ program = "conv3d" /\ Conv3d!Init
       /\ Unused(kLoopIdx) /\ L0Unused /\ PrologueUnused /\ AsyncRingsUnused
       /\ Unused(needLoadNext) /\ Unused(mnLoopIdx) /\ OthersUnused

ScalarNext ==
    \/ program = "pingpong" /\ Pingpong!ScalarNext
       /\ UNCHANGED <<program, prologueVars, asyncVars, splitkVars, calls, aic, ubListId>>
    \/ program = "prologue" /\ Prologue!ScalarNext /\ UNCHANGED <<program, asyncVars, splitkVars, calls, aic, ubListId>>
    \/ /\ program = "preloadAsync" /\ PreloadAsync!ScalarNext
       /\ UNCHANGED <<program, prologueVars, splitkVars, calls, aic, ubListId>>
    \/ /\ program = "preload" /\ Preload!ScalarNext
       /\ UNCHANGED <<program, l0Vars, prologueVars, asyncVars, splitkVars, calls, aic, ubListId>>
    \/ /\ program = "singleCoreSplitk" /\ SingleCoreSplitk!ScalarNext
       /\ UNCHANGED <<program, kVars, l0Vars, prologueVars, asyncVars, aic, ubListId>>
    \/ /\ program = "faiMmad" /\ FaiMmad!ScalarNext
       /\ UNCHANGED <<program, mmadVars, prologueVars, aic, ubListId>>
    \/ /\ program = "faiEpilogue" /\ FaiEpilogue!ScalarNext
       /\ UNCHANGED <<program, mmadVars, prologueVars, ubListId>>
    \/ /\ program = "dequantEpilogue" /\ DequantEpilogue!ScalarNext
       /\ UNCHANGED <<program, block, kVars, l0Vars, prologueVars, asyncVars, splitkVars, aic>>
    \/ /\ program = "sliceKPrologue" /\ SliceKPrologue!ScalarNext
       /\ UNCHANGED <<program, block, kVars, l0Vars, prologueVars, asyncVars, splitkVars>>
    \/ /\ program = "trmm" /\ Trmm!ScalarNext
       /\ UNCHANGED <<program, block, kVars, l0Vars, prologueVars, l0CListId, paramsId, preloadCount, called,
                      splitkVars, ubListId>>
    \/ /\ program = "conv2d" /\ Conv2d!ScalarNext
       /\ UNCHANGED <<program, l1ListId, l0Vars, prologueVars, asyncVars, needLoadNext, mnLoopIdx, calls, aic, ubListId>>
    \/ /\ program = "conv3d" /\ Conv3d!ScalarNext
       /\ UNCHANGED <<program, kLoopIdx, l0Vars, prologueVars, l0CListId, paramsId, preloadCount, called,
                      needLoadNext, mnLoopIdx, calls, aic, ubListId>>

\* The AIC as the environment of one AIV.
AicNext ==
    /\ \/ program = "faiEpilogue" /\ (FaiEpilogue!AicMultiplyQK \/ FaiEpilogue!AicMultiplyPV)
       \/ program = "sliceKPrologue" /\ (SliceKPrologue!AicTake \/ SliceKPrologue!AicFinish)
       \/ program = "trmm" /\ Trmm!AicNext
    /\ UNCHANGED <<program, mmadVars, prologueVars, ubListId>>

\* The AIVs of the prologue.
AivNext(v) ==
    /\ program = "prologue"
    /\ Prologue!AivNext(v)
    /\ UNCHANGED <<program, asyncVars, splitkVars, calls, aic, ubListId>>

PipeNext(p) == Execute(p) /\ UNCHANGED <<program, mmadVars, prologueVars, calls, aic, ubListId>>

Returned ==
    CASE program = "pingpong" -> Pingpong!Destroyed
      [] program = "prologue" -> Prologue!Destroyed
      [] program = "preloadAsync" -> PreloadAsync!Destroyed
      [] program = "preload" -> Preload!Destroyed
      [] program = "singleCoreSplitk" -> SingleCoreSplitk!Destroyed
      [] program = "faiMmad" -> FaiMmad!AtExit
      [] program = "faiEpilogue" -> FaiEpilogue!AtExit
      [] program = "dequantEpilogue" -> DequantEpilogue!Destroyed
      [] program = "sliceKPrologue" -> SliceKPrologue!Destroyed
      [] program = "trmm" -> Trmm!Returned
      [] program = "conv2d" -> Conv2d!Destroyed
      [] program = "conv3d" -> Conv3d!Destroyed
Terminated == Returned /\ UNCHANGED vars

Next ==
    \/ ScalarNext \/ AicNext \/ Terminated
    \/ \E p \in Pipe : PipeNext(p)
    \/ \E v \in PrologueAIV : AivNext(v)

\* The Fairness of each program: the scalar unit, every pipe and the AIC or the
\* AIVs beside them go on while they can.
Fairness ==
    /\ WF_vars(ScalarNext) /\ WF_vars(AicNext)
    /\ \A p \in Pipe : WF_vars(PipeNext(p))
    /\ \A v \in PrologueAIV : WF_vars(AivNext(v))

Spec == Init /\ [][Next]_vars /\ Fairness

AllPrograms ==
    {"pingpong", "prologue", "preloadAsync", "preload", "singleCoreSplitk", "faiMmad", "faiEpilogue",
     "dequantEpilogue", "sliceKPrologue", "trmm", "conv2d", "conv3d"}
TrmmOnly == {"trmm"}
-----------------------------------------------------------------------------
(* The events keep the pipes apart: no buffer of L1, L0 or UB is written   *)
(* by one pipe while another works on it, however far the scalar unit and  *)
(* the pipes have run ahead of each other; nor is a slot of the workspace  *)
(* that the AIC loads from written by an AIV, or the C read that it adds   *)
(* to.  This is so although the ping-pong class has two slots only, the    *)
(* four classes of flash attention and the two casts of the FP8 kernel     *)
(* divide the same memory differently, and the rescaling epilogue frees    *)
(* its output before it is stored, which only the way of MTE3's flag       *)
(* through the AIC makes safe.                                             *)
NoBufferRace ==
    /\ RaceFree
    /\ program = "prologue" => Prologue!WorkspaceRaceFree
    /\ program = "sliceKPrologue" => SliceKPrologue!WorkspaceRaceFree

(* The kernel does not wait long for its callbacks: when operator() of the *)
(* preloading class has returned, a block is still held back only if fewer *)
(* than PRELOAD_STAGES k tiles were loaded after its last one.             *)
HeldBack == program = "preloadAsync" => PreloadAsync!HeldBack

(* Its callbacks come in block order, none left out but those of blocks    *)
(* without a k tile: the order in which the AIVs of the kernel wait.       *)
CallbackOrder == PreloadAsync!CallbackOrder

(* The pipes never wait for each other in a circle: every program returns, *)
(* with each result made of all its operands and no others, and with the   *)
(* events as the next program on the core expects them.                    *)
CleanExit ==
    <>CASE program = "pingpong" -> Pingpong!CleanExit
        [] program = "prologue" -> Prologue!CleanExit
        [] program = "preloadAsync" -> PreloadAsync!CleanExit
        [] program = "preload" -> Preload!CleanExit
        [] program = "singleCoreSplitk" -> SingleCoreSplitk!CleanExit
        [] program = "faiMmad" -> FaiMmad!CleanExit
        [] program = "faiEpilogue" -> FaiEpilogue!CleanExit
        [] program = "dequantEpilogue" -> DequantEpilogue!CleanExit
        [] program = "sliceKPrologue" -> SliceKPrologue!CleanExit
        [] program = "trmm" -> Trmm!CleanExit
        [] program = "conv2d" -> Conv2d!CleanExit
        [] program = "conv3d" -> Conv3d!CleanExit
=============================================================================
