----------------------- MODULE GroupedPerTokenDequant -----------------------
(***************************************************************************)
(* The grouped kernels with dequantisation, on one AI core:                *)
(* gemm/kernel/grouped_matmul_slice_k_per_token_dequant.hpp and its twin   *)
(* grouped_matmul_slice_m_per_token_dequant.hpp, with the asynchronous     *)
(* BlockMmad (gemm/block/block_mmad_preload_async.hpp) and the epilogue    *)
(* epilogue/block/block_epilogue_per_token_dequant.hpp.                    *)
(*                                                                         *)
(* The blocks of the groups are dealt out to the cores in turn; the next   *)
(* group starts with the core after the last one.  AIC and AIVs work out   *)
(* separately which blocks are theirs.  A group may be empty: no block     *)
(* when the groups are slices of m, blocks without a k tile when they are  *)
(* slices of k.  For such a block BlockMmad stores nothing and never calls *)
(* the callback that sets the flag, and the epilogue writes zeros without  *)
(* calling the callback that waits for it.                                 *)
(*                                                                         *)
(* Cores share nothing, so one core is enough; coreIdx is any of them.     *)
(***************************************************************************)
EXTENDS Integers, Sequences, FiniteSets, CrossCoreFlags

CONSTANTS
    Problems,       \* [coreNum, groups]; a group is [coreLoops, kTiles]
    PreloadStages,  \* PRELOAD_STAGES
    ReverseDepth    \* REVERSE_DEPTH

ASSUME ProblemsAssumption ==
    \A p \in Problems : p.coreNum \in Nat \ {0} /\ p.groups \in Seq([coreLoops : Nat, kTiles : Nat])
ASSUME PreloadAssumption == PreloadStages \in Nat \ {0}
ASSUME DepthAssumption == ReverseDepth \in Nat \ {0}

VARIABLES
    problem, coreIdx,
    aicPc,          \* "loop", "drain" or "done"
    aicAt,          \* groupIdx, loopIdx and startCoreIdx of the AIC
    held,           \* l1TileMmadParamsList: the k tiles loaded and not multiplied
    due,            \* the k tiles it has still to multiply in the present call
    aicCount,       \* flagAicFinishStore.count on the AIC
    fixQueue,       \* blocks whose store and set are queued on PIPE_FIX
    stored,         \* blocks in the workspace
    finishStore,    \* the hardware counters of flagAicFinishStore.id
    aivPc,          \* aivPc[v]: "loop", "epilogue" or "done"
    aivAt,          \* aivAt[v]: groupIdx, loopIdx and startCoreIdx of AIV v
    aivCount,       \* aivCount[v]: flagAicFinishStore.count on AIV v
    output,         \* output[v]: what AIV v has written for which block
    reverseQueued,  \* reverseQueued[v]: reverse sets in PIPE_MTE3 of AIV v
    reverse         \* the hardware counters of flagAicFinishStore.reverseId

shape == <<problem, coreIdx>>
aicVars == <<aicPc, aicAt, held, due, aicCount>>
fixVars == <<fixQueue, stored>>
aivVars == <<aivPc, aivAt, aivCount, output>>
vars == <<shape, aicVars, fixVars, finishStore, aivVars, reverseQueued, reverse>>
-----------------------------------------------------------------------------
(* The two loops, which AIC and AIVs have in common. *)

coreNum == problem.coreNum
groups == problem.groups

\* Mutation of StartLoopIdx: not the way round.
StartLoopIdxNoWrap(startCoreIdx) == coreIdx - startCoreIdx

\* The first block of a group for this core, when the group starts at startCoreIdx.
StartLoopIdx(startCoreIdx) ==
    (IF coreIdx < startCoreIdx THEN coreIdx + coreNum ELSE coreIdx) - startCoreIdx

AtGroup(g, startCoreIdx) ==
    [groupIdx |-> g, loopIdx |-> StartLoopIdx(startCoreIdx), startCoreIdx |-> startCoreIdx]

GroupsLeft(at) == at.groupIdx <= Len(groups)
AtBlock(at) == GroupsLeft(at) /\ at.loopIdx < groups[at.groupIdx].coreLoops
AtEndOfGroup(at) == GroupsLeft(at) /\ ~AtBlock(at)

BlockOf(at) == <<at.groupIdx, at.loopIdx>>
KTiles(block) == groups[block[1]].kTiles

NextBlock(at) == [at EXCEPT !.loopIdx = @ + coreNum]

\* Mutation of NextGroup: the groups before the last one are forgotten.
NextGroupFromLastOnly(at) ==
    AtGroup(at.groupIdx + 1, groups[at.groupIdx].coreLoops % coreNum)

NextGroup(at) ==
    AtGroup(at.groupIdx + 1, (at.startCoreIdx + groups[at.groupIdx].coreLoops) % coreNum)
-----------------------------------------------------------------------------
Init ==
    /\ problem \in Problems
    /\ coreIdx \in 0..(coreNum - 1)
    /\ aicPc = "loop" /\ aicAt = AtGroup(1, 0)
    /\ held = <<>> /\ due = <<>> /\ aicCount = 0
    /\ fixQueue = <<>> /\ stored = {}
    /\ finishStore = Cleared
    /\ aivPc = [v \in AIV |-> "loop"]
    /\ aivAt = [v \in AIV |-> AtGroup(1, 0)]
    /\ aivCount = [v \in AIV |-> 0]
    /\ output = [v \in AIV |-> {}]
    /\ reverseQueued = [v \in AIV |-> 0]
    /\ reverse = Cleared
-----------------------------------------------------------------------------
(* The AIC. *)

\* The scalar unit is neither in a call of BlockMmad nor waiting for an answer.
Free == due = <<>> /\ aicCount < ReverseDepth

\* The k tiles of a block.
TilesOf(block) == [i \in 1..KTiles(block) |-> [block |-> block, last |-> i = KTiles(block)]]

\* Mutation of AicCall: a callback for a block without k, which is what the
\* other branch of the kernel (BlockMmad not ASYNC) does.
AicCallSetsForEmpty ==
    /\ aicPc = "loop" /\ Free
    /\ AtBlock(aicAt)
    /\ LET block == BlockOf(aicAt)
           tiles == held \o TilesOf(block)
           n == IF Len(tiles) > PreloadStages THEN Len(tiles) - PreloadStages ELSE 0
       IN  /\ due' = SubSeq(tiles, 1, n)
                     \o IF KTiles(block) = 0 THEN <<[block |-> block, last |-> TRUE]>> ELSE <<>>
           /\ held' = SubSeq(tiles, n + 1, Len(tiles))
    /\ aicAt' = NextBlock(aicAt)
    /\ UNCHANGED <<shape, aicPc, aicCount, fixVars, finishStore, aivVars, reverseQueued, reverse>>

\* blockMmad(...): the k tiles of the block are loaded; for each beyond
\* PRELOAD_STAGES the oldest is multiplied.
AicCall ==
    /\ aicPc = "loop" /\ Free
    /\ AtBlock(aicAt)
    /\ LET tiles == held \o TilesOf(BlockOf(aicAt))
           n == IF Len(tiles) > PreloadStages THEN Len(tiles) - PreloadStages ELSE 0
       IN  /\ due' = SubSeq(tiles, 1, n)
           /\ held' = SubSeq(tiles, n + 1, Len(tiles))
    /\ aicAt' = NextBlock(aicAt)
    /\ UNCHANGED <<shape, aicPc, aicCount, fixVars, finishStore, aivVars, reverseQueued, reverse>>

\* Mutation of AicNextGroup: a flag object for each group on the AIC.
AicNextGroupNewFlag ==
    /\ aicPc = "loop" /\ Free
    /\ AtEndOfGroup(aicAt)
    /\ aicAt' = NextGroup(aicAt)
    /\ aicCount' = 0
    /\ UNCHANGED <<shape, aicPc, held, due, fixVars, finishStore, aivVars, reverseQueued, reverse>>

AicNextGroup ==
    /\ aicPc = "loop" /\ Free
    /\ AtEndOfGroup(aicAt)
    /\ aicAt' = NextGroup(aicAt)
    /\ UNCHANGED <<shape, aicPc, held, due, aicCount, fixVars, finishStore, aivVars, reverseQueued, reverse>>

\* A k tile that is not the last of its block.
AicMultiply ==
    /\ due # <<>> /\ aicCount < ReverseDepth
    /\ ~Head(due).last
    /\ due' = Tail(due)
    /\ UNCHANGED <<shape, aicPc, aicAt, held, aicCount, fixVars, finishStore, aivVars, reverseQueued, reverse>>

\* The last one completes its block: the store and its callback, AicFinishSync:
\* CrossCoreSetFlagWithReverse up to the test of the count.
AicStore ==
    /\ due # <<>> /\ aicCount < ReverseDepth
    /\ Head(due).last
    /\ fixQueue' = Append(fixQueue, Head(due).block)
    /\ due' = Tail(due)
    /\ aicCount' = aicCount + 1
    /\ UNCHANGED <<shape, aicPc, aicAt, held, stored, finishStore, aivVars, reverseQueued, reverse>>

\* The wait for the answer of both AIVs.
AicWaitReverse ==
    /\ aicCount = ReverseDepth
    /\ RaisedForAic(reverse)
    /\ reverse' = WaitedByAic(reverse)
    /\ aicCount' = 0
    /\ UNCHANGED <<shape, aicPc, aicAt, held, due, fixVars, finishStore, aivVars, reverseQueued>>

\* Mutation of AicSynchronizeBlock: one tile is multiplied, not all that are held.
AicSynchronizeBlockOnce ==
    /\ aicPc = "loop" /\ Free
    /\ ~GroupsLeft(aicAt)
    /\ due' = IF held = <<>> THEN <<>> ELSE <<Head(held)>>
    /\ held' = <<>>
    /\ aicPc' = "drain"
    /\ UNCHANGED <<shape, aicAt, aicCount, fixVars, finishStore, aivVars, reverseQueued, reverse>>

AicSynchronizeBlock ==
    /\ aicPc = "loop" /\ Free
    /\ ~GroupsLeft(aicAt)
    /\ due' = held
    /\ held' = <<>>
    /\ aicPc' = "drain"
    /\ UNCHANGED <<shape, aicAt, aicCount, fixVars, finishStore, aivVars, reverseQueued, reverse>>

\* PipeBarrier<PIPE_ALL>.
AicFinish ==
    /\ aicPc = "drain" /\ Free
    /\ fixQueue = <<>>
    /\ aicPc' = "done"
    /\ UNCHANGED <<shape, aicAt, held, due, aicCount, fixVars, finishStore, aivVars, reverseQueued, reverse>>

\* PIPE_FIX executes in order: store, set, store, set, ...
FixStore ==
    /\ fixQueue # <<>> /\ Head(fixQueue) \notin stored
    /\ stored' = stored \cup {Head(fixQueue)}
    /\ UNCHANGED <<shape, aicVars, fixQueue, finishStore, aivVars, reverseQueued, reverse>>

FixSetFlag ==
    /\ fixQueue # <<>> /\ Head(fixQueue) \in stored
    /\ fixQueue' = Tail(fixQueue)
    /\ finishStore' = SetByAic(finishStore)
    /\ UNCHANGED <<shape, aicVars, stored, aivVars, reverseQueued, reverse>>
-----------------------------------------------------------------------------
(* The AIVs. *)

Writes(v, what) ==
    /\ output' = [output EXCEPT ![v] = @ \cup {<<BlockOf(aivAt[v]), what>>}]
    /\ aivAt' = [aivAt EXCEPT ![v] = NextBlock(@)]

\* The epilogue of a block without k.
AivZero(v) ==
    /\ aivPc[v] = "loop" /\ AtBlock(aivAt[v])
    /\ KTiles(BlockOf(aivAt[v])) = 0
    /\ Writes(v, "zero")
    /\ UNCHANGED <<shape, aicVars, fixVars, finishStore, aivPc, aivCount, reverseQueued, reverse>>

\* The epilogue of any other block begins with its callback, AivWaitSync:
\* CrossCoreWaitFlagWithReverse.  The reverse set goes to PIPE_MTE3.
AivWait(v) ==
    /\ aivPc[v] = "loop" /\ AtBlock(aivAt[v])
    /\ KTiles(BlockOf(aivAt[v])) > 0
    /\ RaisedForAiv(finishStore, v)
    /\ finishStore' = WaitedByAiv(finishStore, v)
    /\ LET answer == aivCount[v] + 1 >= ReverseDepth IN
        /\ aivCount' = [aivCount EXCEPT ![v] = IF answer THEN 0 ELSE @ + 1]
        /\ reverseQueued' = [reverseQueued EXCEPT ![v] = IF answer THEN @ + 1 ELSE @]
    /\ aivPc' = [aivPc EXCEPT ![v] = "epilogue"]
    /\ UNCHANGED <<shape, aicVars, fixVars, aivAt, output, reverse>>

\* The rest of it reads the block from the workspace.
AivEpilogue(v) ==
    /\ aivPc[v] = "epilogue"
    /\ Writes(v, IF BlockOf(aivAt[v]) \in stored THEN "product" ELSE "stale")
    /\ aivPc' = [aivPc EXCEPT ![v] = "loop"]
    /\ UNCHANGED <<shape, aicVars, fixVars, finishStore, aivCount, reverseQueued, reverse>>

AivNextGroup(v) ==
    /\ aivPc[v] = "loop" /\ AtEndOfGroup(aivAt[v])
    /\ aivAt' = [aivAt EXCEPT ![v] = NextGroup(@)]
    /\ UNCHANGED <<shape, aicVars, fixVars, finishStore, aivPc, aivCount, output, reverseQueued, reverse>>

Mte3SetReverse(v) ==
    /\ reverseQueued[v] > 0
    /\ reverseQueued' = [reverseQueued EXCEPT ![v] = @ - 1]
    /\ reverse' = SetByAiv(reverse, v)
    /\ UNCHANGED <<shape, aicVars, fixVars, finishStore, aivVars>>

\* PipeBarrier<PIPE_ALL>.
AivFinish(v) ==
    /\ aivPc[v] = "loop" /\ ~GroupsLeft(aivAt[v])
    /\ reverseQueued[v] = 0
    /\ aivPc' = [aivPc EXCEPT ![v] = "done"]
    /\ UNCHANGED <<shape, aicVars, fixVars, finishStore, aivAt, aivCount, output, reverseQueued, reverse>>
-----------------------------------------------------------------------------
AicNext == AicCall \/ AicNextGroup \/ AicMultiply \/ AicStore \/ AicWaitReverse \/ AicSynchronizeBlock \/ AicFinish
FixNext == FixStore \/ FixSetFlag
AivNext(v) == AivZero(v) \/ AivWait(v) \/ AivEpilogue(v) \/ AivNextGroup(v) \/ AivFinish(v)

AllDone == aicPc = "done" /\ \A v \in AIV : aivPc[v] = "done"

\* The kernel has returned on this core.
Terminated == AllDone /\ UNCHANGED vars

Next ==
    \/ AicNext
    \/ FixNext
    \/ \E v \in AIV : AivNext(v) \/ Mte3SetReverse(v)
    \/ Terminated

\* Each scalar unit and each pipe runs on its own and never stops for good
\* while it has an instruction it can execute.
Fairness ==
    /\ WF_vars(AicNext)
    /\ WF_vars(FixNext)
    /\ \A v \in AIV : WF_vars(AivNext(v)) /\ WF_vars(Mte3SetReverse(v))

Spec == Init /\ [][Next]_vars /\ Fairness
-----------------------------------------------------------------------------
(* cross_core_sync.hpp, line 18: a flag set more than 15 times without a   *)
(* wait freezes the system.  Rounds of the reverse direction do not begin  *)
(* or end with a group.                                                    *)
FlagNeverOverflows ==
    \A v \in AIV : finishStore[v] <= ReverseDepth /\ reverse[v] <= 1

\* How many blocks the groups before g have.
BlocksIn(g) == {g} \X (0..(groups[g].coreLoops - 1))
BlocksBefore(g) == Cardinality(UNION {BlocksIn(h) : h \in 1..(g - 1)})

\* The blocks of this core, when all blocks of all groups are dealt out in turn.
Dealt ==
    UNION {{b \in BlocksIn(g) : (BlocksBefore(g) + b[2]) % coreNum = coreIdx} : g \in 1..Len(groups)}

(* Each AIV has written every block of its core once: the product, or      *)
(* zeros when the group is empty, and never what it read before the block  *)
(* was stored, although AIC and AIVs decide separately which blocks have   *)
(* no flag and BlockMmad holds blocks back over a group's end.  The blocks are those that fall to the   *)
(* core when all blocks are dealt out in turn over the ends of the groups: *)
(* every block has exactly one core, and no core has two more than another. *)
DealtInTurn ==
    AllDone => \A v \in AIV :
        output[v] = {<<b, IF KTiles(b) = 0 THEN "zero" ELSE "product">> : b \in Dealt}

(* Every core returns, wherever the empty groups are, and leaves both      *)
(* flags cleared: no AIV waits for a block BlockMmad still holds back after *)
(* the last group.                                                         *)
Returns == <>(AllDone /\ finishStore = Cleared /\ reverse = Cleared)
=============================================================================
