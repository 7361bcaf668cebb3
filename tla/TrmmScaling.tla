----------------------------- MODULE TrmmScaling -----------------------------
(***************************************************************************)
(* gemm/kernel/trmm.hpp, C = alpha * op(T) * B: the AICs store blocks of C *)
(* and one AIV of core `core` takes those of its core again to multiply    *)
(* them by alpha, alpha being other than 1.  Of T only a triangle counts,  *)
(* so the k of a block is clipped; both sides clip it on their own.        *)
(*                                                                         *)
(* A call of BlockMmad is one step of an AIC; the flag with a reverse      *)
(* direction is counted here and its answers, due every REVERSE_DEPTH      *)
(* blocks, are those of MatmulEpilogue.  An element of C is the range of k *)
(* it is the sum over and what it was multiplied by since.                 *)
(***************************************************************************)
EXTENDS UbCopies, BlockSwizzle

CONSTANT Cases      \* [m, n, side, uplo, trans, tile, offset, direction, blockNum, core, subBlockIdx]

VARIABLES
    case,
    pc,             \* "ctor", "loop", "done"
    loopIdx,        \* of the AIV
    aic             \* aic[c]: loopIdx of AIC c

scalarVars == <<case, pc, loopIdx>>
vars == <<scalarVars, aic, pipeVars>>

SubBlockNum == 2    \* AscendC::GetSubBlockNum()
Least(a, b) == IF a < b THEN a ELSE b
-----------------------------------------------------------------------------
(* Blocks of C. *)
AIC == 0..(case.blockNum - 1)
K == IF case.side = 0 THEN case.m ELSE case.n       \* CanImplement

mLoops == CeilDiv(case.m, case.tile.m)
nLoops == CeilDiv(case.n, case.tile.n)
coreLoops == mLoops * nLoops

\* blockCoord and actualBlockShape: where block b begins, and its size.
BlockAt(b) ==
    LET at == GetBlockCoord(b, mLoops, nLoops, case.offset, case.direction)
    IN  [m |-> at.m * case.tile.m, rows |-> ActualLength(at.m, mLoops, case.m, case.tile.m),
         n |-> at.n * case.tile.n, columns |-> ActualLength(at.n, nLoops, case.n, case.tile.n)]

effectiveUplo == (case.uplo + case.trans) % 2

\* Mutation of KRange: a transposed T taken for the triangle it is stored as.
KRangeAsStored(block) ==
    LET lower == case.uplo = 0 IN
    CASE case.side = 0 /\ lower -> <<0, Least(block.m + block.rows, K)>>
      [] case.side = 0 /\ ~lower -> <<Least(block.m, K), K>>
      [] case.side = 1 /\ lower -> <<Least(block.n, K), K>>
      [] case.side = 1 /\ ~lower -> <<0, Least(block.n + block.columns, K)>>

\* kStart and kEnd.
KRange(block) ==
    LET lower == effectiveUplo = 0 IN
    CASE case.side = 0 /\ lower -> <<0, Least(block.m + block.rows, K)>>
      [] case.side = 0 /\ ~lower -> <<Least(block.m, K), K>>
      [] case.side = 1 /\ lower -> <<Least(block.n, K), K>>
      [] case.side = 1 /\ ~lower -> <<0, Least(block.n + block.columns, K)>>

Skipped(block) == KRange(block)[1] >= KRange(block)[2]

\* The rows of a block that an AIV scales, from `first` on.
RowsOf(block, subBlockIdx) ==
    LET subBlockM == CeilDiv(block.rows, SubBlockNum)
        first == subBlockIdx * subBlockM
    IN  [first |-> first, count |-> IF first >= block.rows THEN 0 ELSE Least(block.rows - first, subBlockM)]

ElementOf(row, column) == row * case.n + column
RowsIn(block) == block.m..(block.m + block.rows - 1)
ColumnsIn(block) == block.n..(block.n + block.columns - 1)
-----------------------------------------------------------------------------
(* The AIV. *)
Finish == <<"FIX", "S", 0>>             \* flagAicFinishStore
InitialEvents == << V_MTE2(0), MTE3_V(0) >>
Events == {V_MTE2(0), MTE3_V(0), MTE2_V(0), V_MTE3(0), Finish}

Ub == Address("ub", 0)
Muls(n) == [Move("V", Ub, Ub, [d \in 0..(n - 1) |-> d]) EXCEPT !.op = "muls"]

Scale(block) ==
    LET mine == RowsOf(block, case.subBlockIdx)
        gm == RowMajor(mine.count, block.columns, case.n)
        ub == RowMajor(mine.count, block.columns, block.columns)
        tensorBlockC == Address("gmC", ElementOf(block.m + mine.first, block.n))
    IN  << WaitFlag(MTE3_V(0)), WaitFlag(V_MTE2(0)),
           CopyGm2Ub(Ub, tensorBlockC, ub, gm), SetFlag(MTE2_V(0)), WaitFlag(MTE2_V(0)),
           Muls(mine.count * block.columns), SetFlag(V_MTE2(0)), SetFlag(V_MTE3(0)), WaitFlag(V_MTE3(0)),
           CopyUb2Gm(tensorBlockC, Ub, gm, ub), SetFlag(MTE3_V(0)) >>

Turn(block) ==
    IF Skipped(block) THEN <<>>
    ELSE << WaitFlag(Finish) >> \o (IF RowsOf(block, case.subBlockIdx).count = 0 THEN <<>> ELSE Scale(block))

aicoreNum == case.blockNum \div SubBlockNum

Memories ==
    [memory \in {"ub", "gmC"} |->
       [o \in 0..((IF memory = "ub" THEN CeilDiv(case.tile.m, SubBlockNum) * WholeBlocks(case.tile.n)
                   ELSE case.m * case.n) - 1) |-> <<>>]]

Init ==
    /\ case \in Cases
    /\ pc = "ctor"
    /\ loopIdx = case.core
    /\ aic = [c \in AIC |-> c]
    /\ todo = <<>>
    /\ PipesHolding(Memories, Events)

Construct ==
    /\ pc = "ctor"
    /\ todo' = [i \in DOMAIN InitialEvents |-> SetFlag(InitialEvents[i])]
    /\ pc' = "loop"
    /\ UNCHANGED <<case, loopIdx, aic, queue, busy, event, mem>>

Loop ==
    /\ pc = "loop" /\ todo = <<>> /\ loopIdx < coreLoops
    /\ \E block \in {BlockAt(loopIdx)} : todo' = Turn(block)
    /\ loopIdx' = loopIdx + aicoreNum
    /\ UNCHANGED <<case, pc, aic, queue, busy, event, mem>>

Leave ==
    /\ pc = "loop" /\ todo = <<>> /\ loopIdx >= coreLoops
    /\ todo' = [i \in DOMAIN InitialEvents |-> WaitFlag(InitialEvents[i])]
    /\ pc' = "done"
    /\ UNCHANGED <<case, loopIdx, aic, queue, busy, event, mem>>

\* CrossCoreWaitFlagWithReverse.
ScalarWait ==
    /\ todo # <<>> /\ Head(todo).pipe = "S"
    /\ event[Finish] > 0
    /\ event' = [event EXCEPT ![Finish] = @ - 1]
    /\ todo' = Tail(todo)
    /\ UNCHANGED <<scalarVars, aic, queue, busy, mem>>

ScalarNext == Construct \/ Loop \/ Leave \/ ScalarWait \/ (Issue /\ UNCHANGED <<scalarVars, aic>>)
PipeNext(p) == Execute(p) /\ UNCHANGED <<scalarVars, aic>>
-----------------------------------------------------------------------------
\* AIC c stores its next block; that of this core tells the AIV.
AicBlock(c) ==
    /\ aic[c] < coreLoops
    /\ aic' = [aic EXCEPT ![c] = @ + case.blockNum]
    /\ \E block \in {BlockAt(aic[c])} :
         IF Skipped(block) THEN UNCHANGED <<mem, event>>
         ELSE /\ \E elements \in {{ElementOf(row, column) : row \in RowsIn(block), column \in ColumnsIn(block)}},
                    range \in {KRange(block)} :
                   mem' = [mem EXCEPT !["gmC"] = [o \in DOMAIN @ |-> IF o \in elements THEN range ELSE @[o]]]
              /\ event' = IF c = case.core THEN [event EXCEPT ![Finish] = @ + 1] ELSE event
    /\ UNCHANGED <<scalarVars, todo, queue, busy>>

AicNext == \E c \in AIC : AicBlock(c)

Returned == pc = "done" /\ Drained /\ \A c \in AIC : aic[c] >= coreLoops
Terminated == Returned /\ UNCHANGED vars

Next == ScalarNext \/ (\E p \in Pipe : PipeNext(p)) \/ AicNext \/ Terminated

\* The scalar unit, every pipe and the AICs go on while they can.
Fairness == WF_vars(ScalarNext) /\ WF_vars(AicNext) /\ \A p \in Pipe : WF_vars(PipeNext(p))

Spec == Init /\ [][Next]_vars /\ Fairness
-----------------------------------------------------------------------------
\* The k at which op(T) has something in the row, or the column, of an element.
NonZero(row, column) ==
    LET line == IF case.side = 0 THEN row ELSE column
        upTo == (case.side = 0) = (effectiveUplo = 0)
    IN  {k \in 0..(K - 1) : IF upTo THEN k <= line ELSE k >= line}

\* The rows of a block that AIV s of its core takes.
RowsOfAiv(block, s) == {block.m + RowsOf(block, s).first + i : i \in 0..(RowsOf(block, s).count - 1)}

(* How the kernel should leave things: every element of C the sum over all *)
(* k at which the triangle has something, those of this AIV's rows of its  *)
(* core's blocks multiplied by alpha just once, the others not by it; and  *)
(* the events and the flag back to zero.                                   *)
CleanExit ==
    /\ Returned
    /\ \A e \in Events : event[e] = 0
    /\ \A b \in 0..(coreLoops - 1) : \E block \in {BlockAt(b)}, range \in {KRange(BlockAt(b))} :
          LET mine == IF b % case.blockNum = case.core THEN RowsOfAiv(block, case.subBlockIdx) ELSE {} IN
          \A row \in RowsIn(block) :
             /\ \E s \in 0..(SubBlockNum - 1) : {t \in 0..(SubBlockNum - 1) : row \in RowsOfAiv(block, t)} = {s}
             /\ \A column \in ColumnsIn(block) :
                   /\ NonZero(row, column) \subseteq range[1]..(range[2] - 1)
                   /\ mem["gmC"][ElementOf(row, column)] = IF row \in mine THEN Append(range, "alpha") ELSE range
=============================================================================
