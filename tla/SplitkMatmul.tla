---------------------------- MODULE SplitkMatmul ----------------------------
(***************************************************************************)
(* The split-K kernel: gemm/kernel/splitk_matmul.hpp, with the scheduler   *)
(* SplitkGemmIdentityBlockSwizzle.                                         *)
(*                                                                         *)
(* A task is a block of C for one slice of k.  The AICs store the tasks in *)
(* the workspace, one matrix for each slice.  When all have stored, the    *)
(* AIVs of the chip add the matrices up: they divide the elements into     *)
(* tiles and take them in turn through the pipeline MTE2 (the rows of all  *)
(* slices into a buffer), V (their sum), MTE3 (to C).                      *)
(*                                                                         *)
(* Elements of C are numbered row by row.  What a task is worth is the set *)
(* of the k it is the sum over.  Cores and AIVs are numbered from 0.       *)
(***************************************************************************)
EXTENDS BlockSwizzle, FiniteSets, Sequences

CONSTANTS
    Problems,       \* the problems and instances considered, see Assumptions
    SubBlockNum,    \* AIVs of each core
    VectorBlock,    \* ELE_PER_VECTOR_BLOCK
    Align,          \* ELE_NUM_ALIGN
    Blk,            \* elements of the accumulator in BYTE_PER_BLK
    ComputeLength,  \* COMPUTE_LENGTH
    StrideLimit     \* from this many elements the rows are copied one by one

\* What is assumed of them; MC_CoreDivision asserts it of its instance.
Assumptions ==
    /\ {SubBlockNum, VectorBlock, Align, Blk} \subseteq Nat \ {0} /\ ComputeLength \in Nat
    /\ \A p \in Problems :
          /\ {p.m, p.n, p.k, p.tileM, p.tileN, p.tileK, p.offset, p.coreNum, p.splitkFactor, p.stages}
                \subseteq Nat \ {0}
          /\ p.direction \in {0, 1}
          /\ p.splitkFactor <= CeilDiv(p.k, p.tileK)
          /\ ComputeLength \div p.splitkFactor >= VectorBlock
    /\ VectorBlock % Align = 0 /\ Align % Blk = 0

VARIABLES
    problem,
    aicPc, loopIdx,     \* of each core; "loop" or "done"
    workspace,          \* workspace[slice][e]: the k that element e has been summed over
    finish,             \* finish[a]: the counter of flagAicFinish of AIV a
    aivPc,              \* "wait", "arrive", "barrier", "reduce" or "done"
    at,                 \* at[a][pipe]: tiles AIV a has loaded, added, copied out
    event,              \* event[a][kind][i]: the counter of an event of AIV a
    buffer,             \* buffer[a][i]: accumulatorBuffer[i], what begins at which offset
    dst                 \* <<a, tile, sum>>: what AIV a has written to C

aicVars == <<aicPc, loopIdx, workspace>>
reduceVars == <<at, event, buffer, dst>>
vars == <<problem, aicVars, finish, aivPc, reduceVars>>
-----------------------------------------------------------------------------
(* Tasks. *)

mLoops == CeilDiv(problem.m, problem.tileM)
nLoops == CeilDiv(problem.n, problem.tileN)
kLoops == CeilDiv(problem.k, problem.tileK)
coreLoops == mLoops * nLoops * problem.splitkFactor
elementCount == problem.m * problem.n

Core == 0..(problem.coreNum - 1)
Slice == 0..(problem.splitkFactor - 1)
Element == 0..(elementCount - 1)

SliceOf(task) == GetSplitkSliceIdx(task, mLoops, nLoops, problem.splitkFactor)
CoordOf(task) == GetBlockCoord(task, mLoops, nLoops, problem.offset, problem.direction)

\* The k a task sums over.
KOf(task) ==
    LET slice == SliceOf(task)
        kIdx == GetKIdxBySplitkSliceIdx(slice, kLoops, problem.splitkFactor)
        kActual == SplitkActualLength(slice, kIdx, kLoops, problem.splitkFactor, problem.k, problem.tileK)
    IN  kIdx * problem.tileK .. kIdx * problem.tileK + kActual - 1

\* Whether element e of C is in the block of a task.
Covers(task, e) ==
    LET c == CoordOf(task)
        row == e \div problem.n - c.m * problem.tileM
        column == (e % problem.n) - c.n * problem.tileN
    IN  /\ 0 <= row /\ row < ActualLength(c.m, mLoops, problem.m, problem.tileM)
        /\ 0 <= column /\ column < ActualLength(c.n, nLoops, problem.n, problem.tileN)
-----------------------------------------------------------------------------
(* How the reduction divides the elements. *)

aivNum == problem.coreNum * SubBlockNum
AIV == 0..(aivNum - 1)
RoundUp(x, a) == CeilDiv(x, a) * a
Lower(x, y) == IF x < y THEN x ELSE y

\* Mutation of taskPerAiv: whatever the buffer can hold.
taskPerAivUncapped ==
    IF elementCount < aivNum THEN VectorBlock ELSE RoundUp(elementCount \div aivNum, VectorBlock)

taskPerAivMax == ((ComputeLength \div problem.splitkFactor) \div VectorBlock) * VectorBlock
taskPerAiv ==
    LET even == RoundUp(elementCount \div aivNum, VectorBlock)
    IN  Lower(IF even = 0 THEN VectorBlock ELSE even, taskPerAivMax)
loops == CeilDiv(elementCount, taskPerAiv)

TileLen(tile) == IF tile = loops - 1 THEN elementCount - tile * taskPerAiv ELSE taskPerAiv
Elements(tile) == tile * taskPerAiv .. tile * taskPerAiv + TileLen(tile) - 1

\* Tile number i of AIV a, and the buffer it goes through.
TileOf(a, i) == a + i * aivNum
BufferOf(i) == i % problem.stages
Has(a, i) == TileOf(a, i) < loops

\* Where the copy puts the row of a slice.  One strided copy of all rows pads
\* each to whole BYTE_PER_BLK and leaves a gap of the length the code gives.
RowStart(slice, len) ==
    IF elementCount < StrideLimit
    THEN slice * (RoundUp(len, Blk) + ((RoundUp(len, Align) - len) \div Blk) * Blk)
    ELSE slice * RoundUp(len, Align)

\* Mutation of AddOffset: the rows one after the other.
AddOffsetPacked(slice, len) == len * slice

\* Where the addition expects it.
AddOffset(slice, len) == RoundUp(len, Align) * slice
-----------------------------------------------------------------------------
Init ==
    /\ problem \in Problems
    /\ aicPc = [c \in Core |-> "loop"]
    /\ loopIdx = [c \in Core |-> c]
    /\ workspace = [s \in Slice |-> [e \in Element |-> {}]]
    /\ finish = [a \in AIV |-> 0]
    /\ aivPc = [a \in AIV |-> "wait"]
    /\ at = [a \in AIV |-> [MTE2 |-> 0, V |-> 0, MTE3 |-> 0]]
    /\ event = [a \in AIV |-> [kind \in {"MTE3_MTE2", "MTE2_V", "V_MTE3"} |-> [i \in 0..(problem.stages - 1) |-> 0]]]
    /\ buffer = [a \in AIV |-> [i \in 0..(problem.stages - 1) |-> [x \in {} |-> {}]]]
    /\ dst = {}
-----------------------------------------------------------------------------
(* AIC c. *)

AicBlock(c) ==
    /\ aicPc[c] = "loop" /\ loopIdx[c] < coreLoops
    /\ workspace' = [workspace EXCEPT ![SliceOf(loopIdx[c])] =
                       [e \in Element |-> IF Covers(loopIdx[c], e) THEN KOf(loopIdx[c]) ELSE @[e]]]
    /\ loopIdx' = [loopIdx EXCEPT ![c] = @ + problem.coreNum]
    /\ UNCHANGED <<problem, aicPc, finish, aivPc, reduceVars>>

AivsOf(c) == {a \in AIV : a \div SubBlockNum = c}

\* Mutation of AicSetFlag: only by a core that had a block.
AicSetFlagIfUsed(c) ==
    /\ aicPc[c] = "loop" /\ loopIdx[c] >= coreLoops
    /\ finish' = [a \in AIV |-> IF a \in AivsOf(c) /\ loopIdx[c] # c THEN finish[a] + 1 ELSE finish[a]]
    /\ aicPc' = [aicPc EXCEPT ![c] = "done"]
    /\ UNCHANGED <<problem, loopIdx, workspace, aivPc, reduceVars>>

\* The flag, set on PIPE_FIX after the last store, for both AIVs of the core.
AicSetFlag(c) ==
    /\ aicPc[c] = "loop" /\ loopIdx[c] >= coreLoops
    /\ finish' = [a \in AIV |-> IF a \in AivsOf(c) THEN finish[a] + 1 ELSE finish[a]]
    /\ aicPc' = [aicPc EXCEPT ![c] = "done"]
    /\ UNCHANGED <<problem, loopIdx, workspace, aivPc, reduceVars>>
-----------------------------------------------------------------------------
(* AIV a. *)

AivWait(a) ==
    /\ aivPc[a] = "wait" /\ finish[a] > 0
    /\ finish' = [finish EXCEPT ![a] = @ - 1]
    /\ aivPc' = [aivPc EXCEPT ![a] = "arrive"]
    /\ UNCHANGED <<problem, aicVars, reduceVars>>

\* CrossCoreBarrier<0x0, PIPE_MTE3>: the set ...
AivArrive(a) ==
    /\ aivPc[a] = "arrive"
    /\ aivPc' = [aivPc EXCEPT ![a] = "barrier"]
    /\ UNCHANGED <<problem, aicVars, finish, reduceVars>>

\* Mutation of AivBarrier: none.
AivNoBarrier(a) ==
    /\ aivPc[a] = "barrier"
    /\ aivPc' = [aivPc EXCEPT ![a] = "reduce"]
    /\ event' = [event EXCEPT ![a]["MTE3_MTE2"] = [i \in DOMAIN @ |-> 1]]
    /\ UNCHANGED <<problem, aicVars, finish, at, buffer, dst>>

\* ... and the wait, until every AIV of the chip has set.  SplitkReduceAdd
\* begins with a set for each buffer.
AivBarrier(a) ==
    /\ aivPc[a] = "barrier"
    /\ \A o \in AIV : aivPc[o] \notin {"wait", "arrive"}
    /\ aivPc' = [aivPc EXCEPT ![a] = "reduce"]
    /\ event' = [event EXCEPT ![a]["MTE3_MTE2"] = [i \in DOMAIN @ |-> 1]]
    /\ UNCHANGED <<problem, aicVars, finish, at, buffer, dst>>

\* Pipe p of AIV a waits for one event of its next buffer and sets another.
Step(a, p, waits, sets) ==
    LET i == at[a][p] b == BufferOf(i) IN
    /\ aivPc[a] = "reduce" /\ Has(a, i)
    /\ event[a][waits][b] > 0
    /\ event' = [event EXCEPT ![a][waits][b] = @ - 1, ![a][sets][b] = @ + 1]
    /\ at' = [at EXCEPT ![a][p] = @ + 1]

\* What the workspace holds for the elements of a tile and a slice.
Read(tile, slice) == {workspace[slice][e] : e \in Elements(tile)}

\* Mutation of Load: the buffer taken without waiting for the copy out of it.
LoadNoWait(a) ==
    LET i == at[a].MTE2 tile == TileOf(a, i) len == TileLen(tile) b == BufferOf(i) IN
    /\ aivPc[a] = "reduce" /\ Has(a, i)
    /\ event' = [event EXCEPT ![a]["MTE2_V"][b] = @ + 1]
    /\ at' = [at EXCEPT ![a]["MTE2"] = @ + 1]
    /\ buffer' = [buffer EXCEPT ![a][b] =
                    [x \in {RowStart(s, len) : s \in Slice} |->
                        LET s == CHOOSE s \in Slice : RowStart(s, len) = x
                        IN  {[tile |-> tile, slice |-> s, values |-> Read(tile, s)]}]]
    /\ UNCHANGED <<problem, aicVars, finish, aivPc, dst>>

\* MTE2: the rows of all slices.
Load(a) ==
    LET i == at[a].MTE2 tile == TileOf(a, i) len == TileLen(tile) IN
    /\ Step(a, "MTE2", "MTE3_MTE2", "MTE2_V")
    /\ buffer' = [buffer EXCEPT ![a][BufferOf(i)] =
                    [x \in {RowStart(s, len) : s \in Slice} |->
                        LET s == CHOOSE s \in Slice : RowStart(s, len) = x
                        IN  {[tile |-> tile, slice |-> s, values |-> Read(tile, s)]}]]
    /\ UNCHANGED <<problem, aicVars, finish, aivPc, dst>>

\* What begins at offset x of a buffer.
Begins(contents, x) == IF x \in DOMAIN contents THEN contents[x] ELSE {}

\* V: the rows after the first added to it, and the cast in place.
Add(a) ==
    LET i == at[a].V b == BufferOf(i) len == TileLen(TileOf(a, i))
        rows == UNION {Begins(buffer[a][b], AddOffset(s, len)) : s \in Slice}
    IN  /\ Step(a, "V", "MTE2_V", "V_MTE3")
        /\ buffer' = [buffer EXCEPT ![a][b] = [x \in {0} |-> rows]]
        /\ UNCHANGED <<problem, aicVars, finish, aivPc, dst>>

\* MTE3: the sum to C.
CopyOut(a) ==
    LET i == at[a].MTE3 IN
    /\ Step(a, "MTE3", "V_MTE3", "MTE3_MTE2")
    /\ dst' = dst \cup {<<a, TileOf(a, i), buffer[a][BufferOf(i)][0]>>}
    /\ UNCHANGED <<problem, aicVars, finish, aivPc, buffer>>

\* Mutation of AivFinish: the waits forgotten.
AivFinishNoWaits(a) ==
    /\ aivPc[a] = "reduce" /\ \A p \in DOMAIN at[a] : ~Has(a, at[a][p])
    /\ aivPc' = [aivPc EXCEPT ![a] = "done"]
    /\ UNCHANGED <<problem, aicVars, finish, reduceVars>>

\* The waits for the last copy out of each buffer, and PipeBarrier<PIPE_ALL>.
AivFinish(a) ==
    /\ aivPc[a] = "reduce" /\ ~Has(a, at[a].MTE2)
    /\ \A b \in DOMAIN event[a]["MTE3_MTE2"] : event[a]["MTE3_MTE2"][b] > 0
    /\ event' = [event EXCEPT ![a]["MTE3_MTE2"] = [b \in DOMAIN @ |-> @[b] - 1]]
    /\ aivPc' = [aivPc EXCEPT ![a] = "done"]
    /\ UNCHANGED <<problem, aicVars, finish, at, buffer, dst>>
-----------------------------------------------------------------------------
AllDone == (\A c \in Core : aicPc[c] = "done") /\ \A a \in AIV : aivPc[a] = "done"

\* The kernel has returned on every core.
Terminated == AllDone /\ UNCHANGED vars

AicNext(c) == AicBlock(c) \/ AicSetFlag(c)
AivNext(a) == AivWait(a) \/ AivArrive(a) \/ AivBarrier(a) \/ Load(a) \/ Add(a) \/ CopyOut(a) \/ AivFinish(a)

Next ==
    \/ \E c \in Core : AicNext(c)
    \/ \E a \in AIV : AivNext(a)
    \/ Terminated

\* Cores and pipes run while they can.  Each takes finitely many steps, so
\* fairness to all together is fairness to each.
Fairness == WF_vars(Next)

Spec == Init /\ [][Next]_vars /\ Fairness
-----------------------------------------------------------------------------
\* A sum is whole when it has a row of every slice, for the tile, each row is of
\* one value, and the values have each k once.
Whole(tile, sum) ==
    /\ Cardinality(sum) = problem.splitkFactor
    /\ \A row \in sum : row.tile = tile /\ Cardinality(row.values) = 1
    /\ \A k \in 0..(problem.k - 1) : Cardinality({row \in sum : k \in UNION row.values}) = 1

(* Every element of C is written by one AIV, and what is written is the    *)
(* sum over each k once: the scheduler covers every block in every slice,  *)
(* the slices divide k, the tiles divide C, the rows are where the         *)
(* addition expects them, no AIV reads the workspace before all cores have *)
(* stored and no buffer is loaded before it is copied out.                 *)
ResultWhole ==
    AllDone =>
        /\ \A e \in Element : Cardinality({d \in dst : e \in Elements(d[2])}) = 1
        /\ \A d \in dst : Whole(d[2], d[3])

(* The rows of all slices fit the buffer.                                  *)
RowsFitBuffer ==
    \A a \in AIV : \A b \in 0..(problem.stages - 1) :
        \A x \in DOMAIN buffer[a][b] : x + RoundUp(taskPerAiv, Align) <= ComputeLength

Cleared ==
    \A a \in AIV :
        finish[a] = 0 /\ \A kind \in DOMAIN event[a] : \A b \in DOMAIN event[a][kind] : event[a][kind][b] = 0

(* Every core returns, whether it had blocks or tiles or none, and leaves  *)
(* the flag and all events cleared.                                        *)
CleanExit == AllDone /\ Cleared
=============================================================================
