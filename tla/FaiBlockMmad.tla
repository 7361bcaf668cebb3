---------------------------- MODULE FaiBlockMmad ----------------------------
(***************************************************************************)
(* The four BlockMmad classes of the flash attention kernel,               *)
(* gemm/block/block_mmad_fai_{qk,pv}_{normal,head_tail}.hpp, in the order  *)
(* in which the kernel calls them (FlashAttentionTurns).  They share L1,   *)
(* L0 and the events the kernel sets before its loop and takes back after  *)
(* it.  A tile of K or V is preloaded while the one before is multiplied,  *)
(* over the end of a call as well: the next call of the same class counts  *)
(* on finding it.  A Tail class loads its first tile itself.               *)
(*                                                                         *)
(* ENABLE_UNIT_FLAG is off, as in the kernel, and the embedding is at most *)
(* 128, one tile (kLoop = 1).  The wait for softmaxReady only delays the   *)
(* scalar unit, which may stop anywhere here; FlashAttention is about it.  *)
(***************************************************************************)
EXTENDS FlashAttentionTurns, Pipes

CONSTANT Tasks          \* the tasks of the core

VARIABLE calls          \* calls of loadQGM and of the BlockMmad classes to come

vars == <<calls, pipeVars>>
-----------------------------------------------------------------------------
L1Q == <<"l1Q", 0>>
L1P(i) == <<"l1P", i>>  \* L1P(1) is all of P but the first tile
L1K(i) == <<"l1K", i>>
L1V(i) == <<"l1V", i>>
Gm(unit, task, count, tile) == <<unit, task, count, tile>>

\* The events set before the loop over the tasks and waited for after it.
InitialEvents ==
    [i \in 1..8 |-> M_MTE1(i - 1)] \o <<FIX_M(0), FIX_M(1)>> \o [i \in 1..8 |-> MTE1_MTE2(i - 1)]
Events ==
    ToSet(InitialEvents) \union {MTE2_MTE1(i) : i \in 0..5} \union {MTE1_M(i) : i \in 0..1}
    \union {M_FIX(i) : i \in 0..1}

\* Tiles of a call: the numbers n with nIdx <= n < nLoop in one stack.
TileCount(op) == Least(op.nLoop - op.nIdx, BlockStackNum)
IsEnd(op, n) == n = op.nIdx + TileCount(op) - 1

\* Mutation of Block: maskTailS is not reset after the first tile.
BlockTailEverywhere(op, n) ==
    [task |-> op.task, from |-> n * Tile + op.tail,
     to |-> IF n = op.nLoop - 1 THEN op.seqlen ELSE (n + 1) * Tile]

\* getBlockShape and getKVOffset: the columns of tile n of K or V.
Block(op, n) ==
    [task |-> op.task, from |-> n * Tile + (IF n = op.nIdx THEN op.tail ELSE 0),
     to |-> IF n = op.nLoop - 1 THEN op.seqlen ELSE (n + 1) * Tile]

\* P of the call and its tile i.
P(op) == <<op.task, op.count>>
PTile(op, i) == Append(P(op), i)

\* The slot of tile n, l1KvPingPongFlag: nkblockIdx is n + 1.
PingPong(n) == (n + 1) % 2
-----------------------------------------------------------------------------
LoadQ(op) ==
    << Load(<<op.task>>, L1Q), SetFlag(MTE2_MTE1(3)), WaitFlag(MTE2_MTE1(3)) >>

\* GM to L1, one tile of K or V.  The events of V follow those of K.
LoadKV(op, n, buffer, id) ==
    << WaitFlag(MTE1_MTE2(id)), Load(Block(op, n), buffer), SetFlag(MTE2_MTE1(id)) >>

\* Mutation of Preload: the last tile of a call is not followed by the first of the next.
PreloadWithinCall(op, n, buffer, id) ==
    IF ~IsEnd(op, n) THEN LoadKV(op, n + 1, buffer, id) ELSE <<>>

Preload(op, n, buffer, id) ==
    IF n + 1 # op.nLoop THEN LoadKV(op, n + 1, buffer, id) ELSE <<>>

\* The first tile of a task, or of a call with preloadFlag.
FirstLoad(op, n, buffer, id) ==
    IF (IF op.masked THEN n = op.nIdx ELSE n = 0) THEN LoadKV(op, n, buffer, id) ELSE <<>>

\* computeQK: Q is copied to L0A once for the stack; two tiles of K fill the
\* two halves of L0C, which leave for S together.
ComputeQK(op, n) ==
    LET f == PingPong(n)
        i == n - op.nIdx
        first == (i % 2) = 0
        end == (i % 2) = 1 \/ n = op.nLoop - 1
        s == Gm("QK", op.task, op.count, n - (i % 2))
    IN  FirstLoad(op, n, L1K(f), f) \o Preload(op, n, L1K(1 - f), 1 - f)
        \o (IF i = 0 THEN <<WaitFlag(M_MTE1(0)), WaitFlag(M_MTE1(1)), Copy(L1Q, 0, L0A(0))>> ELSE <<>>)
        \o << WaitFlag(MTE2_MTE1(f)), WaitFlag(M_MTE1(f + 2)), Gather("MTE1", {L1K(f)}, L0B(f)),
              SetFlag(MTE1_MTE2(f)), SetFlag(MTE1_M(f)), WaitFlag(MTE1_M(f)) >>
        \o (IF first THEN <<WaitFlag(FIX_M(0)), WaitFlag(FIX_M(1))>> ELSE <<>>)
        \o << Product(L0A(0), L0B(f), L0C(i % 2), TRUE) >>
        \o (IF IsEnd(op, n) THEN <<SetFlag(M_MTE1(0)), SetFlag(M_MTE1(1))>> ELSE <<>>)
        \o << SetFlag(M_MTE1(f + 2)) >>
        \o (IF end THEN << SetFlag(M_FIX(f)), WaitFlag(M_FIX(f)), Gather("FIX", {L0C(j) : j \in 0..(i % 2)}, s),
                           SetFlag(FIX_M(0)), SetFlag(FIX_M(1)) >> ELSE <<>>)

\* computeQK of the Tail class: a slot of L0A and a half of L0C for each tile.
ComputeQKTail(op, n) ==
    LET f == PingPong(n)
    IN  FirstLoad(op, n, L1K(f), f) \o Preload(op, n, L1K(1 - f), 1 - f)
        \o << WaitFlag(M_MTE1(f)), Copy(L1Q, 0, L0A(f)),
              WaitFlag(MTE2_MTE1(f)), WaitFlag(M_MTE1(f + 2)), Gather("MTE1", {L1K(f)}, L0B(f)),
              SetFlag(MTE1_MTE2(f)), SetFlag(MTE1_M(f)), WaitFlag(MTE1_M(f)),
              WaitFlag(FIX_M(f)), Product(L0A(f), L0B(f), L0C(f), TRUE),
              SetFlag(M_MTE1(f)), SetFlag(M_MTE1(f + 2)),
              SetFlag(M_FIX(f)), WaitFlag(M_FIX(f)),
              Store(L0C(f), Gm("QK", op.task, op.count, n)), SetFlag(FIX_M(f)) >>

\* The end of computePV in both classes: the sum over the stack goes to OTmp.
StoreO(op, n) ==
    IF IsEnd(op, n)
    THEN << SetFlag(M_FIX(0)), WaitFlag(M_FIX(0)), Store(L0C(0), Gm("PV", op.task, op.count, 0)),
            SetFlag(FIX_M(0)), SetFlag(FIX_M(1)) >>
    ELSE <<>>

WaitForL0C(first) == IF first THEN <<WaitFlag(FIX_M(0)), WaitFlag(FIX_M(1))>> ELSE <<>>

\* computePV: P is loaded once for the stack, when the stack before has left L1.
ComputePV(op, n) ==
    LET f == PingPong(n)
        i == n - op.nIdx
    IN  FirstLoad(op, n, L1V(f), f + 2)
        \o << WaitFlag(MTE2_MTE1(f + 2)), WaitFlag(M_MTE1(f + 2)), Gather("MTE1", {L1V(f)}, L0B(f)),
              SetFlag(MTE1_MTE2(f + 2)) >>
        \o (IF i = 0 THEN << WaitFlag(MTE1_MTE2(4)), WaitFlag(MTE1_MTE2(5)), LoadAll(P(op), {L1P(0), L1P(1)}),
                             SetFlag(MTE2_MTE1(4)), WaitFlag(MTE2_MTE1(4)) >> ELSE <<>>)
        \o Preload(op, n, L1V(1 - f), 3 - f)
        \o << WaitFlag(M_MTE1(f)), Copy(L1P(Least(i, 1)), i, L0A(f)), SetFlag(MTE1_M(f)), WaitFlag(MTE1_M(f)) >>
        \o WaitForL0C(i = 0)
        \o << Product(L0A(f), L0B(f), L0C(0), i = 0), SetFlag(M_MTE1(f)), SetFlag(M_MTE1(f + 2)) >>
        \o (IF IsEnd(op, n) THEN <<SetFlag(MTE1_MTE2(4)), SetFlag(MTE1_MTE2(5))>> ELSE <<>>)
        \o StoreO(op, n)

\* Mutation of ComputePVTail: L0 is taken as double-buffered, like in the normal class.
ComputePVTailPingPongL0(op, n) ==
    LET f == PingPong(n)
        i == n - op.nIdx
    IN  FirstLoad(op, n, L1V(f), f + 2)
        \o << WaitFlag(MTE2_MTE1(f + 2)), WaitFlag(M_MTE1(f + 2)), Gather("MTE1", {L1V(f)}, L0B(0)),
              SetFlag(MTE1_MTE2(f + 2)),
              WaitFlag(MTE1_MTE2(f + 4)), Load(PTile(op, i), L1P(f)), SetFlag(MTE2_MTE1(5)) >>
        \o Preload(op, n, L1V(1 - f), 3 - f)
        \o << WaitFlag(MTE2_MTE1(5)), WaitFlag(M_MTE1(f)), Gather("MTE1", {L1P(f)}, L0A(0)),
              SetFlag(MTE1_MTE2(f + 4)), SetFlag(MTE1_M(f)), WaitFlag(MTE1_M(f)) >>
        \o WaitForL0C(i = 0)
        \o << Product(L0A(0), L0B(0), L0C(0), i = 0), SetFlag(M_MTE1(f)), SetFlag(M_MTE1(f + 2)) >>
        \o StoreO(op, n)

\* computePV of the Tail class: P is loaded tile by tile to the slot of V's
\* tile, and L0A and L0B have a single buffer.
ComputePVTail(op, n) ==
    LET f == PingPong(n)
        i == n - op.nIdx
    IN  FirstLoad(op, n, L1V(f), f + 2)
        \o << WaitFlag(MTE2_MTE1(f + 2)), WaitFlag(M_MTE1(2)), WaitFlag(M_MTE1(3)), Gather("MTE1", {L1V(f)}, L0B(0)),
              SetFlag(MTE1_MTE2(f + 2)),
              WaitFlag(MTE1_MTE2(f + 4)), Load(PTile(op, i), L1P(f)), SetFlag(MTE2_MTE1(5)) >>
        \o Preload(op, n, L1V(1 - f), 3 - f)
        \o << WaitFlag(MTE2_MTE1(5)), WaitFlag(M_MTE1(0)), WaitFlag(M_MTE1(1)), Gather("MTE1", {L1P(f)}, L0A(0)),
              SetFlag(MTE1_MTE2(f + 4)), SetFlag(MTE1_M(f)), WaitFlag(MTE1_M(f)) >>
        \o WaitForL0C(i = 0)
        \o << Product(L0A(0), L0B(0), L0C(0), i = 0) >>
        \o [e \in 1..4 |-> SetFlag(M_MTE1(e - 1))]
        \o StoreO(op, n)
-----------------------------------------------------------------------------
Compute(op, n) ==
    CASE op.unit = "QK" /\ ~op.masked -> ComputeQK(op, n)
      [] op.unit = "QK" /\ op.masked -> ComputeQKTail(op, n)
      [] op.unit = "PV" /\ ~op.masked -> ComputePV(op, n)
      [] op.unit = "PV" /\ op.masked -> ComputePVTail(op, n)

\* What a call issues.
Instructions(op) ==
    IF op.unit = "Q" THEN LoadQ(op)
    ELSE FlattenSeq([i \in 1..TileCount(op) |-> Compute(op, op.nIdx + i - 1)])

BuffersOf(op) ==
    LET instructions == Instructions(op)
    IN  UNION {LET x == instructions[i] IN
               IF x.op \in {"set", "wait"} THEN {} ELSE x.reads \union x.writes : i \in DOMAIN instructions}
Buffers == UNION {BuffersOf(op) : op \in ToSet(Program(Tasks))}

Init ==
    /\ calls = Program(Tasks)
    /\ todo = [i \in DOMAIN InitialEvents |-> SetFlag(InitialEvents[i])]
    /\ PipesInit(Buffers, Events)

Call ==
    /\ todo = <<>> /\ calls # <<>>
    /\ todo' = Instructions(Head(calls))
    /\ calls' = Tail(calls)
    /\ UNCHANGED <<queue, busy, event, mem>>

ScalarNext == Call \/ (Issue /\ UNCHANGED calls)
PipeNext(p) == Execute(p) /\ UNCHANGED calls

\* The kernel takes the initial events back after its loop and returns.
AtExit == calls = <<>> /\ Drained
Terminated == AtExit /\ UNCHANGED vars

Next == ScalarNext \/ (\E p \in Pipe : PipeNext(p)) \/ Terminated

\* The scalar unit and every pipe go on while they can.
Fairness == WF_vars(ScalarNext) /\ \A p \in Pipe : WF_vars(PipeNext(p))

Spec == Init /\ [][Next]_vars /\ Fairness
-----------------------------------------------------------------------------
\* What a call is for: its columns, cut at the ends of the tiles.
Products(op) ==
    LET Piece(n) == [task |-> op.task, from |-> IF n = op.nIdx THEN Columns(op).from ELSE n * Tile,
                     to |-> Least((n + 1) * Tile, Columns(op).to)]
    IN  {<<IF op.unit = "QK" THEN <<op.task, 0>> ELSE PTile(op, n - op.nIdx), Piece(n)>> :
            n \in op.nIdx..((Columns(op).to - 1) \div Tile)}

Stored(op) == UNION {mem[b] : b \in {Gm(op.unit, op.task, op.count, n) : n \in 0..op.nLoop} \cap DOMAIN mem}

(* How the kernel should leave things: every S is the product of the Q of  *)
(* its task with just the keys of its columns, every OTmp the sum of each  *)
(* tile of its P with the values of the same columns, whichever call a     *)
(* tile was preloaded by; and the events the kernel waits for after its    *)
(* loop are just those set.                                                *)
CleanExit ==
    /\ AtExit
    /\ \A e \in Events : event[e] = IF e \in ToSet(InitialEvents) THEN 1 ELSE 0
    /\ \A op \in ToSet(Program(Tasks)) : op.unit # "Q" => Stored(op) = Products(op)
=============================================================================
