------------------------- MODULE FlashAttentionTurns -------------------------
(***************************************************************************)
(* The two loops over the stacks of keys and values that the AIC and the   *)
(* AIVs of the flash attention kernel run for a task                       *)
(* (examples/23_flash_attention_infer/fai_kernel.cpp): which multiplication *)
(* or epilogue is called in which turn, for which blocks and which slot.   *)
(***************************************************************************)
EXTENDS Integers, SequencesExt

CONSTANTS
    Tile,           \* pagedBlockSize, and the query tile: 128 in the code
    BlockStackNum,  \* blocks in a stack: 4 in the code
    PreLaunch       \* preLaunch: 2 in the code

\* Two blocks at least: the columns of a masked stack may start inside a block.
ASSUME SizesAssumption == {Tile, PreLaunch} \subseteq Nat \ {0} /\ BlockStackNum \in Nat \ {0, 1}
-----------------------------------------------------------------------------
(* The turns of a task.  AIC and AIVs work them out separately, from the   *)
(* same expressions.                                                       *)

Ceil(a, b) == (a + b - 1) \div b
Least(a, b) == IF a < b THEN a ELSE b

QSBlockNum(t) == Ceil(t.qSeqlen, Tile)
QSBlockSize(t) ==
    IF t.qSBlockIdx = QSBlockNum(t) - 1 THEN t.qSeqlen - t.qSBlockIdx * Tile ELSE Tile

\* With a mask the columns end at the diagonal; those of the last queries'
\* block are masked and make up a stack of their own.
NoSkipKvS(t) ==
    IF t.mask THEN Least(t.kvSeqlen, (t.qSBlockIdx + 1) * Tile + t.kvSeqlen - t.qSeqlen) ELSE t.kvSeqlen
NoMaskKvS(t) == IF t.mask THEN NoSkipKvS(t) - QSBlockSize(t) ELSE t.kvSeqlen
NoMaskTailS(t) == IF t.mask THEN NoMaskKvS(t) % Tile ELSE 0

LoopNumNoMask(t) == Ceil(NoMaskKvS(t), Tile)
LoopNumTotal(t) == Ceil(NoSkipKvS(t), Tile)
TotalStackSeqNum(t) == Ceil(NoMaskKvS(t), BlockStackNum * Tile) + IF t.mask THEN 1 ELSE 0

MaskedStartIdx(t) ==
    IF t.mask THEN LoopNumNoMask(t) - IF NoMaskTailS(t) # 0 THEN 1 ELSE 0
    ELSE Ceil(LoopNumNoMask(t), BlockStackNum) * BlockStackNum
NoMaskTailInteStackNum(t) ==
    LET rest == (NoMaskKvS(t) \div Tile) % BlockStackNum
    IN  IF rest # 0 \/ NoMaskTailS(t) # 0 THEN rest ELSE BlockStackNum

\* Mutation of PreLaunchStackNum: the masked stack counts as a full one.
PreLaunchStackNumUnmasked(t) == PreLaunch * BlockStackNum

PreLaunchStackNum(t) ==
    IF t.mask THEN (PreLaunch - 1) * BlockStackNum + NoMaskTailInteStackNum(t)
    ELSE PreLaunch * BlockStackNum

\* Mutation of Slot: a ring without the slot for the stack in hand.
SlotShortRing(count) == count % PreLaunch

Slot(count) == count % (PreLaunch + 1)

\* A call of BlockMmad for the stack that starts at block nIdx of nLoop, and
\* of the epilogue behind it.  A masked call is one of the Tail classes,
\* which start tail columns into their first block; width is the
\* stackSeqTile of the softmax.
Op(unit, i, count, nIdx, nLoop, seqlen) ==
    [unit |-> unit, task |-> i, count |-> count, slot |-> Slot(count),
     nIdx |-> nIdx, nLoop |-> nLoop, seqlen |-> seqlen, masked |-> FALSE, tail |-> 0,
     width |-> 0, first |-> count = 0, last |-> FALSE]

UnmaskedOp(unit, i, t, count, nIdx) == Op(unit, i, count, nIdx, LoopNumNoMask(t), NoMaskKvS(t))
MaskedOp(unit, i, t, count, nIdx) ==
    [Op(unit, i, count, nIdx, LoopNumTotal(t), NoSkipKvS(t)) EXCEPT !.masked = TRUE, !.tail = NoMaskTailS(t)]

\* The columns of a call: getBlockShape over its blocks.
Columns(op) ==
    [task |-> op.task, from |-> op.nIdx * Tile + op.tail,
     to |-> Least(op.seqlen, (op.nIdx + BlockStackNum) * Tile)]

-----------------------------------------------------------------------------
(* The loops.  A turn is known by its loop and the values of kvSIdx and    *)
(* stackSeqCount in it; "over" is the end of the second loop.              *)

SecondLoop(t, kvSIdx, count) ==
    [loop |-> IF kvSIdx < LoopNumTotal(t) + PreLaunchStackNum(t) THEN "masked" ELSE "over",
     kvSIdx |-> kvSIdx, count |-> count]

FirstLoop(t, kvSIdx, count) ==
    IF kvSIdx < LoopNumNoMask(t) THEN [loop |-> "noMask", kvSIdx |-> kvSIdx, count |-> count]
    ELSE SecondLoop(t, MaskedStartIdx(t), count)

FirstTurn(t) == FirstLoop(t, 0, 0)

\* The blocks a turn of the second loop steps over.
Step(t, count) ==
    IF t.mask /\ count - PreLaunch = TotalStackSeqNum(t) - 2 THEN NoMaskTailInteStackNum(t) ELSE BlockStackNum

NextTurn(t, turn) ==
    IF turn.loop = "noMask" THEN FirstLoop(t, turn.kvSIdx + BlockStackNum, turn.count + 1)
    ELSE SecondLoop(t, turn.kvSIdx + Step(t, turn.count), turn.count + 1)

\* The first half of a turn: Q times the stack at kvSIdx.  The second loop has
\* one for the masked stack only.
QKDue(t, turn) ==
    turn.loop = "noMask" \/ (turn.kvSIdx < LoopNumTotal(t) /\ turn.count <= TotalStackSeqNum(t) - 1)

NoMaskWidth(t, kvSIdx) ==
    IF kvSIdx + BlockStackNum > LoopNumNoMask(t) - 1 THEN NoMaskKvS(t) - kvSIdx * Tile ELSE Tile * BlockStackNum

QKOp(i, t, turn) ==
    IF turn.loop = "noMask"
    THEN [UnmaskedOp("QK", i, t, turn.count, turn.kvSIdx) EXCEPT !.width = NoMaskWidth(t, turn.kvSIdx)]
    ELSE [MaskedOp("QK", i, t, turn.count, turn.kvSIdx) EXCEPT !.width = QSBlockSize(t)]

\* The second half: P times the stack of PreLaunch turns before.
Delayed(t, turn) ==
    turn.kvSIdx - IF turn.loop = "noMask" THEN PreLaunch * BlockStackNum ELSE PreLaunchStackNum(t)

PVDue(t, turn) == Delayed(t, turn) >= 0

PVOp(i, t, turn) ==
    LET count == turn.count - PreLaunch
        last == turn.loop = "masked" /\ count = TotalStackSeqNum(t) - 1
    IN  [IF last /\ t.mask THEN MaskedOp("PV", i, t, count, Delayed(t, turn))
         ELSE UnmaskedOp("PV", i, t, count, Delayed(t, turn)) EXCEPT !.last = last]

QOp(i) == Op("Q", i, 0, 0, 0, 0)
-----------------------------------------------------------------------------
\* All that the AIC calls for its tasks, in order; the AIVs skip the loads of Q.
Program(list) ==
    LET Only(due, op) == IF due THEN <<op>> ELSE <<>>
        Task(i) ==
            LET t == list[i]
                from[turn \in [loop : {"noMask", "masked", "over"}, kvSIdx : Nat, count : Nat]] ==
                    IF turn.loop = "over" THEN <<>>
                    ELSE Only(QKDue(t, turn), QKOp(i, t, turn)) \o Only(PVDue(t, turn), PVOp(i, t, turn))
                         \o from[NextTurn(t, turn)]
            IN  <<QOp(i)>> \o from[FirstTurn(t)]
    IN  FlattenSeq([i \in 1..Len(list) |-> Task(i)])
=============================================================================
