---------------------------- MODULE FaiEpilogues ----------------------------
(***************************************************************************)
(* The two epilogues of the flash attention kernel on one AIV,             *)
(* epilogue/block/block_epilogue_online_softmax_no_mask.hpp and            *)
(* block_epilogue_rescale_o_no_split_row.hpp, in the order in which the    *)
(* kernel calls them (FlashAttentionTurns).  They divide UB between them   *)
(* and share the events the kernel sets before its loop and takes back     *)
(* after it.                                                               *)
(*                                                                         *)
(* The AIC is the environment: it announces S and OTmp in the order of its *)
(* turns and multiplies P when this AIV has announced it; that its two     *)
(* AIVs must have done so only delays it.  The maxima, sums and factors of *)
(* the rows are V's alone and left out; FlashAttention is about them.      *)
(***************************************************************************)
EXTENDS FlashAttentionTurns, Pipes

CONSTANTS
    MaxUbElems,     \* MAX_UB_S_ELEM_NUM: elements of S in a slot of UB
    Tasks           \* the tasks of the core, with the rows of this AIV

VARIABLES
    calls,          \* epilogues to come
    aic             \* the AIC's turns to come

vars == <<calls, aic, pipeVars>>
-----------------------------------------------------------------------------
\* UB, and GM by what is computed there.
Ls(i) == <<"ls", i>>
Lp(i) == <<"lp", i>>
Mask == <<"mask", 0>>
Mask32 == {Lp(0), Lp(1)}    \* MASK32_UB_TENSOR_OFFSET is LP_UB_TENSOR_OFFSET
Lo == <<"lo", 0>>
Go == <<"go", 0>>
Tv == <<"tv", 0>>
GmP(op, row) == <<"gmP", op.task, op.count, row>>
GmO(op) == <<"gmO", op.task>>

STile(op, row) == <<"S", op.task, op.count, row>>
MaskTile(op, row) == <<"mask", op.task, row>>
OTmpTile(op) == <<"OTmp", op.task, op.count>>

\* Flags between the cores: a wait for one blocks the scalar unit, this AIV's
\* softmaxReady is set by MTE3.
QkReady == <<"AIC", "S", "qkReady">>
PvReady == <<"AIC", "S", "pvReady">>
SoftmaxReady == <<"MTE3", "AIC", "softmaxReady">>
CoreFlags == {QkReady, PvReady, SoftmaxReady}

\* The events set before the loop over the tasks and waited for after it,
\* without those that no epilogue uses.
InitialEvents == [i \in 1..4 |-> V_MTE2(i - 1)] \o <<MTE3_V(0), MTE3_V(1)>>
Events ==
    ToSet(InitialEvents) \union {MTE2_V(i) : i \in 0..2} \union {V_MTE3(0), V_MTE3(1)} \union CoreFlags

Rows(op) == Tasks[op.task].rows
RowNumTile(op) == MaxUbElems \div op.width
RowLoopNum(op) == Ceil(Rows(op), RowNumTile(op))

V(from, to) == [Gather("V", from, Tv) EXCEPT !.writes = to]
-----------------------------------------------------------------------------
\* MTE2: rows of S, or of the mask, to UB.
LoadS(op, row) ==
    << WaitFlag(V_MTE2(row % 2)), Load(STile(op, row), Ls(row % 2)), SetFlag(MTE2_V(row % 2)) >>
LoadMask(op, row) ==
    << WaitFlag(V_MTE2(2)), Load(MaskTile(op, row), Mask), SetFlag(MTE2_V(2)) >>

\* SubCoreCompute, CalcExp to CopyPUbToGm.  With a mask its caller has waited
\* for both slots of lp.
SubCoreCompute(op, row) ==
    LET f == row % 2
    IN  << V({Ls(f)}, {Ls(f)}) >>
        \o OnlyIf(~op.masked, WaitFlag(MTE3_V(f)))
        \o << V({Ls(f)}, {Lp(f)}), SetFlag(V_MTE3(f)), V({Ls(f)}, {Tv}), SetFlag(V_MTE2(f)),
              WaitFlag(V_MTE3(f)), Gather("MTE3", {Lp(f)}, GmP(op, row)) >>
        \o (IF op.masked THEN <<SetFlag(MTE3_V(0)), SetFlag(MTE3_V(1))>> ELSE <<SetFlag(MTE3_V(f))>>)

\* Row loop n loads row tile n and computes row tile n - 1.
Softmax(op) ==
    LET loops == RowLoopNum(op)
        RowLoop(n) ==
            (IF n < loops THEN LoadS(op, n) ELSE <<>>) \o
            (IF n > 0 THEN << WaitFlag(MTE2_V((n - 1) % 2)), V({Ls((n - 1) % 2)}, {Ls((n - 1) % 2)}) >>
                           \o SubCoreCompute(op, n - 1) ELSE <<>>)
    IN  << WaitFlag(QkReady) >> \o FlattenSeq([n \in 1..(loops + 1) |-> RowLoop(n - 1)])

\* Mutation of ComputeMasked: the mask waits only for the slot of its own row tile.
ComputeMaskedOneSlot(op, row, loops) ==
    LET f == row % 2
    IN  << WaitFlag(MTE3_V(f)), WaitFlag(MTE2_V(2)), V({Mask}, Mask32),
           WaitFlag(MTE2_V(f)), V({Ls(f)} \union Mask32, {Ls(f)}), SetFlag(V_MTE2(2)) >>
        \o (IF row + 1 < loops THEN LoadMask(op, row + 1) ELSE <<>>)
        \o << WaitFlag(MTE3_V(1 - f)) >>
        \o SubCoreCompute(op, row)

\* The mask is cast to mask32, over both slots of lp, and applied to S; the
\* next rows' mask is loaded behind it.
ComputeMasked(op, row, loops) ==
    LET f == row % 2
    IN  << WaitFlag(MTE3_V(0)), WaitFlag(MTE3_V(1)), WaitFlag(MTE2_V(2)), V({Mask}, Mask32),
           WaitFlag(MTE2_V(f)), V({Ls(f)} \union Mask32, {Ls(f)}), SetFlag(V_MTE2(2)) >>
        \o (IF row + 1 < loops THEN LoadMask(op, row + 1) ELSE <<>>)
        \o SubCoreCompute(op, row)

\* The first rows of the mask are loaded before S is waited for; without rows
\* the flag is taken all the same.
MaskedSoftmax(op) ==
    LET loops == RowLoopNum(op)
        RowLoop(n) ==
            (IF n = 0 THEN LoadMask(op, 0) \o <<WaitFlag(QkReady)>> ELSE <<>>) \o
            (IF n < loops THEN LoadS(op, n) ELSE <<>>) \o
            (IF n > 0 THEN ComputeMasked(op, n - 1, loops) ELSE <<>>)
    IN  IF Rows(op) = 0 THEN << WaitFlag(QkReady) >>
        ELSE FlattenSeq([n \in 1..(loops + 1) |-> RowLoop(n - 1)])

\* Mutation of RescaleO: the first stack of the core is taken for the first of every task.
RescaleOFirstOfCore(op) ==
    LET to == IF op.first /\ op.task = 1 THEN Go ELSE Lo
    IN  << WaitFlag(PvReady) >> \o
        IF Rows(op) = 0 THEN <<>>
        ELSE << WaitFlag(V_MTE2(3)), Load(OTmpTile(op), to), SetFlag(MTE2_V(0)), WaitFlag(MTE2_V(0)) >>
             \o OnlyIf(to = Lo, V({Go, Lo}, {Go}))
             \o << SetFlag(V_MTE2(3)) >>
             \o (IF op.last THEN << V({Go}, {Go}), SetFlag(V_MTE3(0)), WaitFlag(V_MTE3(0)),
                                    Gather("MTE3", {Go}, GmO(op)) >> ELSE <<>>)

\* go is free for the next task's first OTmp when V_MTE2(3) is set, before the
\* division and the store of this one.
RescaleO(op) ==
    LET to == IF op.first THEN Go ELSE Lo
    IN  << WaitFlag(PvReady) >> \o
        IF Rows(op) = 0 THEN <<>>
        ELSE << WaitFlag(V_MTE2(3)), Load(OTmpTile(op), to), SetFlag(MTE2_V(0)), WaitFlag(MTE2_V(0)) >>
             \o OnlyIf(to = Lo, V({Go, Lo}, {Go}))
             \o << SetFlag(V_MTE2(3)) >>
             \o (IF op.last THEN << V({Go}, {Go}), SetFlag(V_MTE3(0)), WaitFlag(V_MTE3(0)),
                                    Gather("MTE3", {Go}, GmO(op)) >> ELSE <<>>)

\* What the AIV issues for a turn.
Instructions(op) ==
    IF op.unit = "PV" THEN RescaleO(op)
    ELSE (IF op.masked THEN MaskedSoftmax(op) ELSE Softmax(op)) \o <<SetFlag(SoftmaxReady)>>
-----------------------------------------------------------------------------
OpList == SelectSeq(Program(Tasks), LAMBDA op : op.unit # "Q")
Stores == {op \in ToSet(OpList) : Rows(op) > 0}
Buffers ==
    {Ls(0), Ls(1), Lp(0), Lp(1), Mask, Lo, Go, Tv} \union {GmO(op) : op \in Stores}
    \union UNION {{GmP(op, row) : row \in 0..(RowLoopNum(op) - 1)} : op \in {o \in Stores : o.unit = "QK"}}

Init ==
    /\ calls = OpList
    /\ aic = OpList
    /\ todo = [i \in DOMAIN InitialEvents |-> SetFlag(InitialEvents[i])]
    /\ PipesInit(Buffers, Events)

Call ==
    /\ todo = <<>> /\ calls # <<>>
    /\ todo' = Instructions(Head(calls))
    /\ calls' = Tail(calls)
    /\ UNCHANGED <<aic, queue, busy, event, mem>>

\* CrossCoreWaitFlag.
ScalarWait ==
    /\ todo # <<>> /\ Head(todo).pipe = "S"
    /\ event[Head(todo).event] > 0
    /\ event' = [event EXCEPT ![Head(todo).event] = @ - 1]
    /\ todo' = Tail(todo)
    /\ UNCHANGED <<calls, aic, queue, busy, mem>>

ScalarNext == Call \/ ScalarWait \/ (Issue /\ UNCHANGED <<calls, aic>>)
PipeNext(p) == Execute(p) /\ UNCHANGED <<calls, aic>>

\* The AIC multiplies; P V needs P.
AicMultiplyQK ==
    /\ aic # <<>> /\ Head(aic).unit = "QK"
    /\ event' = [event EXCEPT ![QkReady] = @ + 1]
    /\ aic' = Tail(aic)
    /\ UNCHANGED <<calls, todo, queue, busy, mem>>

AicMultiplyPV ==
    /\ aic # <<>> /\ Head(aic).unit = "PV"
    /\ event[SoftmaxReady] > 0
    /\ event' = [event EXCEPT ![SoftmaxReady] = @ - 1, ![PvReady] = @ + 1]
    /\ aic' = Tail(aic)
    /\ UNCHANGED <<calls, todo, queue, busy, mem>>

AtExit == calls = <<>> /\ aic = <<>> /\ Drained
Terminated == AtExit /\ UNCHANGED vars

Next == ScalarNext \/ (\E p \in Pipe : PipeNext(p)) \/ AicMultiplyQK \/ AicMultiplyPV \/ Terminated

\* The scalar unit, every pipe and the AIC go on while they can.
Fairness ==
    /\ WF_vars(ScalarNext) /\ WF_vars(AicMultiplyQK \/ AicMultiplyPV)
    /\ \A p \in Pipe : WF_vars(PipeNext(p))

Spec == Init /\ [][Next]_vars /\ Fairness
-----------------------------------------------------------------------------
(* How the kernel should leave things: every row tile of P is made of its  *)
(* own S and, in the masked stack, its own mask, the O of a task of all    *)
(* its OTmp and no other's; and the events the kernel waits for after its  *)
(* loop are just those set.                                                *)
CleanExit ==
    /\ AtExit
    /\ \A e \in Events : event[e] = IF e \in ToSet(InitialEvents) THEN 1 ELSE 0
    /\ \A op \in Stores :
          IF op.unit = "QK"
          THEN \A row \in 0..(RowLoopNum(op) - 1) :
                  mem[GmP(op, row)] = {STile(op, row)} \union (IF op.masked THEN {MaskTile(op, row)} ELSE {})
          ELSE mem[GmO(op)] = {OTmpTile(o) : o \in {o \in Stores : o.unit = "PV" /\ o.task = op.task}}
=============================================================================
