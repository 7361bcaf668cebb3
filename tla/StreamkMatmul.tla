---------------------------- MODULE StreamkMatmul ----------------------------
(***************************************************************************)
(* The stream-K kernel: gemm/kernel/streamk_matmul.hpp with the scheduler  *)
(* StreamkGemmIdentityBlockSwizzle (gemm/block/block_swizzle.hpp).         *)
(*                                                                         *)
(* The blocks of C that fill whole rounds of the cores are computed as     *)
(* usual.  The k tiles of the blocks left over are dealt out evenly to all *)
(* cores: a core computes a slice of one such block, or the tail of one    *)
(* and the head of the next (a cross block), and stores them in its two    *)
(* slots of the workspace.  When every core has stored its slices, which   *)
(* it does one turn before its last normal block, the AIVs of the chip add *)
(* them up.                                                                *)
(*                                                                         *)
(* A block is known by its task index; what it is worth is the range of k  *)
(* it is the sum of.  Cores and AIVs are numbered from 0 as in the code.   *)
(***************************************************************************)
EXTENDS Integers, FiniteSets

CONSTANTS
    Shapes,         \* [blocks, k, cores]: the problems considered
    TileK,          \* L1TileShape::K
    SubBlocks,      \* AIVs of each core
    Rows,           \* rows of a block of C
    ComputeLength   \* COMPUTE_LENGTH, in rows of a block

\* What is assumed of them; MC_CoreDivision asserts it of its instance.
Assumptions ==
    /\ \A s \in Shapes :
          {s.blocks, s.k, s.cores} \subseteq Nat \ {0} /\ ComputeLength >= SubBlocks * s.cores
    /\ TileK \in Nat \ {0} /\ Rows \in Nat \ {0} /\ ComputeLength \in Nat
    /\ SubBlocks = 2

CeilDiv(a, b) == (a + b - 1) \div b
Lower(a, b) == IF a < b THEN a ELSE b

VARIABLES
    shape,      \* the problem
    loopIdx,    \* loopIdx[c]: the loop variable of core c
    task,       \* task[c]: streamkBlockDec, by its task index
    aicPc,      \* aicPc[c]: "start" before its loop, "turn" or "set" within
    slot,       \* slot[c][i]: the part stored in slot i of core c's workspace
    result,     \* result[b][r]: what row r of block b of C is the sum of: where from, which part
    aivPc,      \* "wait", "arrive", "barrier", "reduce" or "done"
    finish      \* finish[a]: the counter of flagAicFinish of AIV a

aicVars == <<aicPc, loopIdx, task, slot>>
vars == <<shape, aicVars, result, aivPc, finish>>
-----------------------------------------------------------------------------
(* The scheduler, for the problem at hand. *)

blockDim == shape.cores
kLoops == CeilDiv(shape.k, TileK)
streamkBlocks == shape.blocks % blockDim
normalBlocks == shape.blocks - streamkBlocks
kTileNumPerCore == (streamkBlocks * kLoops) \div blockDim
kTileRemain == (streamkBlocks * kLoops) % blockDim

GetCoreLoops == (shape.blocks \div blockDim) * blockDim + Lower(streamkBlocks * kLoops, blockDim)
streamkCores == GetCoreLoops - normalBlocks

\* The part of block b from k index `from` up to but not including `to`.
Part(b, from, to) == [block |-> b, from |-> from, to |-> to]
Nothing == Part(-1, 0, 0)

\* GetStreamkBlockDec: what is computed for task t, a part of one block, or
\* of two when it is a cross block.
GetStreamkBlockDec(t) ==
    LET i == t - normalBlocks
        curKTileNum == IF i < kTileRemain THEN kTileNumPerCore + 1 ELSE kTileNumPerCore
        kTileIdx == IF i < kTileRemain THEN i * curKTileNum ELSE i * kTileNumPerCore + kTileRemain
        b == normalBlocks + kTileIdx \div kLoops
        first == kTileIdx % kLoops
    IN  IF t < normalBlocks
        THEN [first |-> Part(t, 0, shape.k), isStreamkBlock |-> FALSE, second |-> Nothing]
        ELSE [first |-> Part(b, first * TileK, Lower((first + curKTileNum) * TileK, shape.k)),
              isStreamkBlock |-> TRUE,
              second |-> IF first + curKTileNum > kLoops
                         THEN Part(normalBlocks + (kTileIdx + curKTileNum) \div kLoops,
                                   0, ((kTileIdx + curKTileNum) % kLoops) * TileK)
                         ELSE Nothing]

\* The tiles before the j-th stream-K block, and those of the cores that have
\* one more than the others.
Before(j) == j * kLoops
LongCores == kTileRemain * (kTileNumPerCore + 1)

\* GetCoreIdx: the core that computes the first k tile of stream-K block j.
GetCoreIdx(j) ==
    IF Before(j) > LongCores
    THEN kTileRemain + (Before(j) - LongCores) \div kTileNumPerCore
    ELSE Before(j) \div (kTileNumPerCore + 1)

\* IsCross: that core has the end of the block before as well.
IsCross(j) ==
    IF Before(j) > LongCores
    THEN (Before(j) - LongCores) % kTileNumPerCore # 0
    ELSE Before(j) % (kTileNumPerCore + 1) # 0
-----------------------------------------------------------------------------
Core == 0..(blockDim - 1)
AIV == 0..(blockDim * SubBlocks - 1)
Block == 0..(shape.blocks - 1)
Row == 0..(Rows - 1)

\* The turn at which core c has its stream-K slices instead of its last
\* normal block, which it computes afterwards.
SwapTurn(c, i) == i = normalBlocks - blockDim + c /\ c < streamkCores /\ normalBlocks > 0

\* The task of core c at turn i of its loop.
ActualLoopIdx(c, i) ==
    IF SwapTurn(c, i) THEN normalBlocks + c
    ELSE IF i >= normalBlocks /\ normalBlocks > 0 THEN normalBlocks - blockDim + c
    ELSE i

Init ==
    /\ shape \in Shapes
    /\ loopIdx = [c \in Core |-> c]
    /\ task = [c \in Core |-> ActualLoopIdx(c, c)]
    /\ aicPc = [c \in Core |-> IF c < streamkCores THEN "turn" ELSE "start"]
    /\ slot = [c \in Core |-> [i \in 0..1 |-> Nothing]]
    /\ result = [b \in Block |-> [r \in Row |-> {}]]
    /\ aivPc = [a \in AIV |-> "wait"]
    /\ finish = [a \in AIV |-> 0]

\* Mutation of SetDue: a core that has no stream-K slices sets the flag again.
SetDueLastBlock(c, i) == i = normalBlocks - blockDim + c \/ normalBlocks = 0

\* Mutation of SetDue: the case of fewer blocks than cores is forgotten.
SetDueSwapTurn(c, i) == SwapTurn(c, i)

\* Mutation of SetDue: one turn early.
SetDueTurnEarly(c, i) == SwapTurn(c, i + blockDim) \/ normalBlocks = 0

\* Whether turn i of core c is the one that ends with a set.
SetDue(c, i) == SwapTurn(c, i) \/ normalBlocks = 0

\* CrossCoreSetFlag<0x2, PIPE_FIX>: to both AIVs of the core.
SetFinish(c) ==
    finish' = [a \in AIV |-> IF a \div SubBlocks = c THEN finish[a] + 1 ELSE finish[a]]

\* A core without stream-K slices sets the flag before its loop.
AicSetEarly(c) ==
    /\ aicPc[c] = "start"
    /\ SetFinish(c)
    /\ aicPc' = [aicPc EXCEPT ![c] = "turn"]
    /\ UNCHANGED <<shape, loopIdx, task, slot, result, aivPc>>

\* One turn of the loop, up to the end of its stores.  PIPE_FIX stores and
\* sets in order, so what the scalar unit has issued ahead is of no matter.
AicBlock(c) ==
    /\ aicPc[c] = "turn" /\ loopIdx[c] < GetCoreLoops
    /\ LET dec == GetStreamkBlockDec(task[c]) IN
        IF dec.isStreamkBlock
        THEN /\ slot' = [slot EXCEPT ![c] = [i \in 0..1 |->
                            IF i = 0 THEN dec.first
                            ELSE IF dec.second # Nothing THEN dec.second ELSE @[1]]]
             /\ UNCHANGED result
        ELSE /\ result' = [result EXCEPT ![dec.first.block] = [r \in Row |-> @[r] \cup {<<<<c, 2>>, dec.first>>}]]
             /\ UNCHANGED slot
    /\ loopIdx' = [loopIdx EXCEPT ![c] = @ + blockDim]
    /\ task' = [task EXCEPT ![c] = ActualLoopIdx(c, loopIdx[c] + blockDim)]
    /\ aicPc' = [aicPc EXCEPT ![c] = IF SetDue(c, loopIdx[c]) THEN "set" ELSE "turn"]
    /\ UNCHANGED <<shape, aivPc, finish>>

\* The set at the end of the turn with the stream-K slices.
AicSet(c) ==
    /\ aicPc[c] = "set"
    /\ SetFinish(c)
    /\ aicPc' = [aicPc EXCEPT ![c] = "turn"]
    /\ UNCHANGED <<shape, loopIdx, task, slot, result, aivPc>>
-----------------------------------------------------------------------------
(* The AIVs. *)

AivWait(a) ==
    /\ aivPc[a] = "wait" /\ finish[a] > 0
    /\ finish' = [finish EXCEPT ![a] = @ - 1]
    /\ aivPc' = [aivPc EXCEPT ![a] = "arrive"]
    /\ UNCHANGED <<shape, aicVars, result>>

\* CrossCoreBarrier<0x0>: the set ...
AivArrive(a) ==
    /\ aivPc[a] = "arrive"
    /\ aivPc' = [aivPc EXCEPT ![a] = "barrier"]
    /\ UNCHANGED <<shape, aicVars, result, finish>>

\* Mutation of AivBarrier: the AIVs of a core wait for each other only.
AivBarrierOfCore(a) ==
    /\ aivPc[a] = "barrier"
    /\ \A o \in AIV : o \div SubBlocks = a \div SubBlocks => aivPc[o] \notin {"wait", "arrive"}
    /\ aivPc' = [aivPc EXCEPT ![a] = "reduce"]
    /\ UNCHANGED <<shape, aicVars, result, finish>>

\* ... and the wait, until every AIV of the chip has set.
AivBarrier(a) ==
    /\ aivPc[a] = "barrier"
    /\ \A o \in AIV : aivPc[o] \notin {"wait", "arrive"}
    /\ aivPc' = [aivPc EXCEPT ![a] = "reduce"]
    /\ UNCHANGED <<shape, aicVars, result, finish>>

(* How StreamkReduceAdd divides stream-K block j. *)

\* Mutation of LaborCoreNum: with endCoreIdx already moved past the tail.
LaborCoreNumWithTail(j) ==
    (GetCoreIdx(j + 1) + (IF IsCross(j + 1) THEN 1 ELSE 0) - GetCoreIdx(j)) * SubBlocks

\* The AIVs that add up rows of block j.
LaborCoreNum(j) == (GetCoreIdx(j + 1) - GetCoreIdx(j)) * SubBlocks

\* Whether AIV a adds up rows of block j.
Labors(a, j) == GetCoreIdx(j) <= a \div SubBlocks /\ a \div SubBlocks < GetCoreIdx(j + 1)

\* Mutation of TilePerCore: the buffer is not considered.
TilePerCoreUncapped(j) == CeilDiv(Rows, LaborCoreNum(j))

\* The rows of a step: an even share, or fewer, for the buffer to hold them.
TilePerCore(j) == Lower(CeilDiv(Rows, LaborCoreNum(j)), ComputeLength \div LaborCoreNum(j))

\* Mutation of RowsOf: one step only.
RowsOfOneStep(a, j) ==
    {r \in Row : r \div TilePerCore(j) = a - GetCoreIdx(j) * SubBlocks}

\* The rows AIV a adds up, in steps of TilePerCore(j).
RowsOf(a, j) ==
    {r \in Row : (r \div TilePerCore(j)) % LaborCoreNum(j) = a - GetCoreIdx(j) * SubBlocks}

\* The slots it reads: of the core with the end of the block before the
\* second, of the others the first.
SlotsOf(j) ==
    LET start == GetCoreIdx(j)
        end == GetCoreIdx(j + 1) + IF IsCross(j + 1) THEN 1 ELSE 0
    IN  {<<c, IF c = start /\ IsCross(j) THEN 1 ELSE 0>> : c \in start..(end - 1)}

\* ReduceAdd: AIV a adds up its rows of the blocks it labors on.
AivReduce(a) ==
    /\ aivPc[a] = "reduce"
    /\ aivPc' = [aivPc EXCEPT ![a] = "done"]
    /\ result' = [b \in Block |->
           LET j == b - normalBlocks
               mine == IF j >= 0 /\ Labors(a, j) THEN RowsOf(a, j) ELSE {}
               sum == {<<s, slot[s[1]][s[2]]>> : s \in SlotsOf(j)}
           IN [r \in Row |-> IF r \in mine THEN result[b][r] \cup sum ELSE result[b][r]]]
    /\ UNCHANGED <<shape, aicVars, finish>>
-----------------------------------------------------------------------------
AicDone(c) == aicPc[c] = "turn" /\ loopIdx[c] >= GetCoreLoops
AllDone == (\A c \in Core : AicDone(c)) /\ \A a \in AIV : aivPc[a] = "done"

\* The kernel has returned on every core.
Terminated == AllDone /\ UNCHANGED vars

AicNext(c) == AicSetEarly(c) \/ AicBlock(c) \/ AicSet(c)
AivNext(a) == AivWait(a) \/ AivArrive(a) \/ AivBarrier(a) \/ AivReduce(a)

Next ==
    \/ \E c \in Core : AicNext(c)
    \/ \E a \in AIV : AivNext(a)
    \/ Terminated

\* Every core runs until it has returned.  Each takes finitely many steps, so
\* fairness to all together is fairness to each.
Fairness == WF_vars(Next)

Spec == Init /\ [][Next]_vars /\ Fairness
-----------------------------------------------------------------------------
\* The different values the rows of block b have.
RowValues(b) == {result[b][r] : r \in Row}

\* The summands, of block b only, have each k index exactly once.
Whole(summands, b) ==
    /\ \A x \in summands : x[2].block = b /\ x[2].from < x[2].to
    /\ \A i \in 0..(shape.k - 1) :
          Cardinality({x \in summands : x[2].from <= i /\ i < x[2].to}) = 1

(* Whatever has been written to C is the product of a whole row and a      *)
(* whole column: the slices the AIVs add up are those of that block, all   *)
(* stored before they are read, without a gap and without an overlap, for  *)
(* every way the k tiles fall to the cores.  When the kernel returns every *)
(* row of every block has been written.                                    *)
ResultWhole ==
    /\ \A b \in Block : \A summands \in RowValues(b) : summands # {} => Whole(summands, b)
    /\ AllDone => \A b \in Block, r \in Row : result[b][r] # {}

(* How ReduceAdd divides the stream-K blocks: two blocks never start in    *)
(* the same core's slices, so each has cores that labor on it (their       *)
(* number is a divisor), and each row is one AIV's.  This depends on the   *)
(* problem only; it is evaluated once for each, when the kernel returns.   *)
EachRowHasOneLabor ==
    AllDone =>
        \A j \in 0..(streamkBlocks - 1) :
            /\ LaborCoreNum(j) > 0
            /\ \A r \in Row : Cardinality({a \in AIV : Labors(a, j) /\ r \in RowsOf(a, j)}) = 1

(* The slices of the rows of one step fit in the COMPUTE_LENGTH elements   *)
(* of the unified buffer: a block can have one slice more than cores that  *)
(* labor on it, which the two AIVs of each core make up for.               *)
SlicesFitBuffer ==
    AllDone =>
        \A j \in 0..(streamkBlocks - 1) :
            TilePerCore(j) * Cardinality(SlotsOf(j)) <= ComputeLength

(* Every core sets the flag exactly once: the AIVs return and leave it     *)
(* cleared.                                                                *)
CleanExit == AllDone /\ \A a \in AIV : finish[a] = 0
=============================================================================
