--------------------------- MODULE SliceKPrologue ---------------------------
(***************************************************************************)
(* One AIV of gemm/kernel/fp8_matmul.hpp: PrologueImpl of                  *)
(* gemm/block/block_mmad_pingpong_slice_k_with_prologue.hpp and the casts  *)
(* of gemm/tile/atlasa2/cast_fp8_to_fp16.hpp that it calls.  The AIV casts *)
(* the operands of a slice of k into one of two buffers in GM while the    *)
(* AIC multiplies the slice before, and the block, once all its slices are *)
(* added up, from the one buffer of C to the output.                       *)
(*                                                                         *)
(* The AIC is the environment: it takes a slice when this AIV has          *)
(* announced it; that both have only delays it.  The casts of operands and *)
(* of C lay their own buffers over the same UB, with events of their own.  *)
(* What keeps them apart is outside this repository: releasing an          *)
(* AscendC::TPipe, which each construction of Arch::Resource does, lets    *)
(* the pipes run empty.  Lines longer than half of COMPUTE_LENGTH, which   *)
(* are cast in pieces, are left out.                                       *)
(***************************************************************************)
EXTENDS Pipes, SequencesExt

CONSTANTS
    Blocks,                 \* the blocks of the core, [m, n]
    K,                      \* problemShape.k()
    SplitkLength,           \* splitkLength
    ComputeLength,          \* COMPUTE_LENGTH
    Alignment,              \* elements a line in UB is rounded up to
    SubBlockIdx             \* AscendC::GetSubBlockIdx(), of two

VARIABLES
    pc,             \* "turns", "done" once the destructor has begun
    calls,          \* turns of the loop over the slices of all blocks begun
    bufferIndex,    \* of the casts of operands
    aic             \* the AIC: slices taken, and whether it is at work on the last

scalarVars == <<pc, calls, bufferIndex>>
vars == <<scalarVars, aic, pipeVars>>
-----------------------------------------------------------------------------
\* UB in cells of COMPUTE_LENGTH bytes, as the casts of operands divide it
\* (for COMPUTE_LENGTH 16 K it is full), and as the cast of C does.
Cells(first, count) == {<<"ub", c>> : c \in first..(first + count - 1)}
InputBuffer(i) == Cells(i, 1)
OutputBuffer(i) == Cells(2 + 2 * i, 2)
DequantWorkspace(i) == Cells(6 + 2 * i, 2)
ValueVectors == Cells(10, 1)
UbIn(i) == Cells(4 * i, 4)
UbOut(i) == Cells(8 + 2 * i, 2)

\* GM: chunk j of an operand in buffer i, the sum of the slices, chunk j of a block of C.
W(matrix, i, j) == <<"W", matrix, i, j>>
WC == <<"WC", 0>>
GmDst(b, j) == <<"gmC", b, j>>
ValueMask == <<"value_vector1, value_vector2">>

\* flag0[i]: buffer i is free; flag1[i]: it is full; flag4: C is whole.
Flag0(i) == <<"AIC", "S", i>>
Flag1(i) == <<"MTE3", "AIC", i>>
Flag4 == <<"AIC", "S", 4>>
WaitPipes == [pipe |-> "S", op |-> "barrier"]

InitialEvents == [i \in 1..4 |-> V_MTE2(i - 1)] \o [i \in 1..4 |-> MTE3_V(i - 1)]
Events ==
    UNION {{V_MTE2(i), MTE2_V(i), MTE3_V(i), V_MTE3(i)} : i \in 0..3}
    \union {Flag0(0), Flag0(1), Flag1(0), Flag1(1), Flag4}
-----------------------------------------------------------------------------
\* Turn t is slice ldk of a block of the core; the double buffer is at t % 2.
KLoop == (K + SplitkLength - 1) \div SplitkLength
Turns == Len(Blocks) * KLoop
BlockOf(t) == t \div KLoop + 1
Ldk(t) == t % KLoop
KActual(t) == IF K < (Ldk(t) + 1) * SplitkLength THEN K % SplitkLength ELSE SplitkLength
hasNext(t) == t < Turns - 1

\* The turns a cast makes for this AIV's share of the lines.
CeilDiv(a, b) == (a + b - 1) \div b
TilesPerAiv(tilesNum) == tilesNum \div 2 + (IF SubBlockIdx < tilesNum % 2 THEN 1 ELSE 0)
TotalLoops(tilesNum, tileLen) ==
    CeilDiv(TilesPerAiv(tilesNum), ComputeLength \div (CeilDiv(tileLen, Alignment) * Alignment))

\* What is cast for turn t: its lines of A, then those of B, both RowMajor.
Chunks(t) ==
    LET b == Blocks[BlockOf(t)]
        of(matrix, loops) == [j \in 1..loops |-> <<matrix, BlockOf(t), Ldk(t), j - 1>>]
    IN  of("A", TotalLoops(b.m, KActual(t))) \o of("B", TotalLoops(KActual(t), b.n))
To(chunk, i) == W(chunk[1], i, chunk[4])
CChunks(b) == TotalLoops(Blocks[b].m, Blocks[b].n)

\* A vector instruction, and one on cells of UB by another pipe.
OnCells(pipe, from, to) == [Gather(pipe, from, WC) EXCEPT !.writes = to]

\* GM to UB, the conversion and UB to GM, on buffer and event i.
Cast(load, compute, store, i) ==
    << WaitFlag(V_MTE2(i)), load, SetFlag(MTE2_V(i)), WaitFlag(MTE2_V(i)), WaitFlag(MTE3_V(i)), compute,
       SetFlag(V_MTE3(i)), WaitFlag(V_MTE3(i)), SetFlag(V_MTE2(i)), store, SetFlag(MTE3_V(i)) >>

InitLocalMaskVec == [LoadAll(ValueMask, ValueVectors) EXCEPT !.pipe = "V"]

\* prologueA and prologueB are constructed and called: turn t to buffer i, from bufferIndex on.
Prologue(t, i, from) ==
    << InitLocalMaskVec, InitLocalMaskVec >> \o
    FlattenSeq([n \in DOMAIN Chunks(t) |->
        LET chunk == Chunks(t)[n]
            u == (from + n - 1) % 2
        IN  Cast(LoadAll(chunk, InputBuffer(u)),
                 OnCells("V", InputBuffer(u) \union ValueVectors, OutputBuffer(u) \union DequantWorkspace(u)),
                 Gather("MTE3", OutputBuffer(u), To(chunk, i)), u)])

\* Mutation of EpCastFp32ToFp16: the pipes are not waited for.
EpCastFp32ToFp16NoResource(b) ==
    FlattenSeq([n \in 1..CChunks(b) |->
        LET u == (n - 1) % 2 IN
        Cast(OnCells("MTE2", {WC}, UbIn(u)), OnCells("V", UbIn(u), UbOut(u)),
             Gather("MTE3", UbOut(u), GmDst(b, n - 1)), 2 + u)])

\* The cast of C, on a resource of its own and with events 2 and 3.
EpCastFp32ToFp16(b) ==
    << WaitPipes >> \o
    FlattenSeq([n \in 1..CChunks(b) |->
        LET u == (n - 1) % 2 IN
        Cast(OnCells("MTE2", {WC}, UbIn(u)), OnCells("V", UbIn(u), UbOut(u)),
             Gather("MTE3", UbOut(u), GmDst(b, n - 1)), 2 + u)])

\* One turn: slice t is announced and slice t + 1, of this block or the next,
\* cast; the first of the core is cast before, and C behind its last slice.
Instructions(t) ==
    LET i == t % 2
        first == IF t = 0 THEN Len(Chunks(t)) ELSE 0
    IN  OnlyIf(Ldk(t) = 0, WaitPipes)
        \o (IF t = 0 THEN << WaitFlag(Flag0(i)) >> \o Prologue(t, i, bufferIndex) ELSE <<>>)
        \o << SetFlag(Flag1(i)) >>
        \o (IF hasNext(t) THEN << WaitFlag(Flag0(1 - i)) >> \o Prologue(t + 1, 1 - i, bufferIndex + first) ELSE <<>>)
        \o (IF Ldk(t) = KLoop - 1 THEN << WaitFlag(Flag4) >> \o EpCastFp32ToFp16(BlockOf(t)) ELSE <<>>)

\* Turns of the casts of operands that a turn makes.
Casts(t) == (IF t = 0 THEN Len(Chunks(t)) ELSE 0) + (IF hasNext(t) THEN Len(Chunks(t + 1)) ELSE 0)
-----------------------------------------------------------------------------
AllChunks == UNION {ToSet(Chunks(t)) : t \in 0..(Turns - 1)}
Buffers ==
    Cells(0, 12) \union {WC} \union {To(chunk, i) : chunk \in AllChunks, i \in 0..1}
    \union UNION {{GmDst(b, j) : j \in 0..(CChunks(b) - 1)} : b \in DOMAIN Blocks}

\* The constructors of both sides; that of the AIC frees both buffers.
Init ==
    /\ pc = "turns" /\ calls = 0 /\ bufferIndex = 0
    /\ aic = [taken |-> 0, busy |-> FALSE]
    /\ todo = [i \in DOMAIN InitialEvents |-> SetFlag(InitialEvents[i])]
    /\ queue = [p \in Pipe |-> <<>>] /\ busy = {}
    /\ event = [e \in Events |-> IF e \in {Flag0(0), Flag0(1)} THEN 1 ELSE 0]
    /\ mem = [b \in Buffers |-> {}]

Call ==
    /\ pc = "turns" /\ todo = <<>> /\ calls < Turns
    /\ todo' = Instructions(calls)
    /\ calls' = calls + 1
    /\ bufferIndex' = (bufferIndex + Casts(calls)) % 2
    /\ UNCHANGED <<pc, aic, queue, busy, event, mem>>

Destroy ==
    /\ pc = "turns" /\ todo = <<>> /\ calls = Turns
    /\ pc' = "done"
    /\ todo' = [i \in DOMAIN InitialEvents |-> WaitFlag(InitialEvents[i])] \o << WaitFlag(Flag0(0)), WaitFlag(Flag0(1)) >>
    /\ UNCHANGED <<calls, bufferIndex, aic, queue, busy, event, mem>>

\* CrossCoreWaitFlag.
ScalarWait ==
    /\ todo # <<>> /\ Head(todo).pipe = "S" /\ Head(todo).op = "wait"
    /\ event[Head(todo).event] > 0
    /\ event' = [event EXCEPT ![Head(todo).event] = @ - 1]
    /\ todo' = Tail(todo)
    /\ UNCHANGED <<scalarVars, aic, queue, busy, mem>>

\* The resource is constructed.
ScalarBarrier ==
    /\ todo # <<>> /\ Head(todo) = WaitPipes
    /\ \A p \in Pipe : queue[p] = <<>>
    /\ todo' = Tail(todo)
    /\ UNCHANGED <<scalarVars, aic, queue, busy, event, mem>>

ScalarNext == Call \/ Destroy \/ ScalarWait \/ ScalarBarrier \/ (Issue /\ UNCHANGED <<scalarVars, aic>>)
PipeNext(p) == Execute(p) /\ UNCHANGED <<scalarVars, aic>>
-----------------------------------------------------------------------------
\* The slice the AIC is at work on, and its buffers in GM.
Turn == aic.taken - 1
Operands == {To(chunk, Turn % 2) : chunk \in ToSet(Chunks(Turn))}
AicAtWork == [reads |-> Operands, writes |-> {WC}]

AicTake ==
    /\ ~aic.busy /\ aic.taken < Turns
    /\ event[Flag1(aic.taken % 2)] > 0
    /\ event' = [event EXCEPT ![Flag1(aic.taken % 2)] = @ - 1]
    /\ aic' = [taken |-> aic.taken + 1, busy |-> TRUE]
    /\ UNCHANGED <<scalarVars, todo, queue, busy, mem>>

\* The product is stored to WC for the first slice and added to it for the
\* others; then the flags are set.
AicFinish ==
    /\ aic.busy
    /\ LET whole == \A chunk \in ToSet(Chunks(Turn)) : mem[To(chunk, Turn % 2)] = {chunk, ValueMask}
           before == IF Ldk(Turn) = 0 THEN {} ELSE mem[WC]
       IN  mem' = [mem EXCEPT ![WC] = IF whole THEN before \union {<<BlockOf(Turn), Ldk(Turn)>>} ELSE Garbage]
    /\ event' = [event EXCEPT ![Flag0(Turn % 2)] = @ + 1, ![Flag4] = @ + (IF Ldk(Turn) = KLoop - 1 THEN 1 ELSE 0)]
    /\ aic' = [aic EXCEPT !.busy = FALSE]
    /\ UNCHANGED <<scalarVars, todo, queue, busy>>

Destroyed == pc = "done" /\ Drained /\ aic.taken = Turns /\ ~aic.busy
Terminated == Destroyed /\ UNCHANGED vars

Next == ScalarNext \/ (\E p \in Pipe : PipeNext(p)) \/ AicTake \/ AicFinish \/ Terminated

\* The scalar unit, every pipe and the AIC go on while they can.
Fairness == WF_vars(ScalarNext) /\ WF_vars(AicTake \/ AicFinish) /\ \A p \in Pipe : WF_vars(PipeNext(p))

Spec == Init /\ [][Next]_vars /\ Fairness
-----------------------------------------------------------------------------
(* No pipe touches what the AIC is at work on: a buffer of operands that   *)
(* is announced is not cast to, and C is not cast while a slice is added.  *)
WorkspaceRaceFree ==
    aic.busy => \A p \in busy : ~Conflict(Head(queue[p]), AicAtWork)

(* How the destructors should leave things: each block of C cast from the  *)
(* sum of just its slices, each of these multiplied from just its own      *)
(* operands, and every flag and event back to zero.                        *)
CleanExit ==
    /\ Destroyed
    /\ \A e \in Events : event[e] = 0
    /\ \A b \in DOMAIN Blocks : \A j \in 0..(CChunks(b) - 1) :
          mem[GmDst(b, j)] = {<<b, ldk>> : ldk \in 0..(KLoop - 1)}
=============================================================================
