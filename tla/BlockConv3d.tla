----------------------------- MODULE BlockConv3d -----------------------------
(***************************************************************************)
(* conv/block/block_conv3d_pingpong_bias.hpp: the BlockConv of the 3D      *)
(* convolution with bias.  Inside a block it walks through tiles of the    *)
(* output and, for each, through the kernel positions and input channels,  *)
(* its k.  Tiles of input (A) and filter (B) that are whole in k stay in   *)
(* L1 from one tile of the output to the next; others are loaded again,    *)
(* between barriers or, where the class finds that it can, one ahead.      *)
(* ENABLE_UNIT_FLAG is off.  Where the tiles lie in GM is in Convolutions. *)
(*                                                                         *)
(* A case is a problem: k (alignCinKhKwKd), kAL1, kBL1, kL0, all in one    *)
(* unit; hw and mAL1, mL0; cout and nBL1, nL0; n and d of the blocks, of   *)
(* which there are `blocks`; stages, [a, b]; padded: whether the padding   *)
(* is such that a tile of A may lie in it, and fullPad: <<dOutIter,        *)
(* kAL1Iter>> of those that do.                                            *)
(***************************************************************************)
EXTENDS MmadInstructions

CONSTANT Cases

VARIABLES
    case,           \* the problem
    pc,             \* "ctor", "idle" between calls of operator(), "tile" or "k" inside one, "done"
    block,          \* the block of the call, from 1
    iterParams,     \* [batchIter, dOutIter, mAL1Iter, nBL1Iter, mAL0Iter, nBL0Iter, kIter,
                    \*  loadAL1Flag, loadBL1Flag, aL1IsFullPad]
    l1ListId        \* [a, b]

scalarVars == <<case, pc, block, iterParams, l1ListId>>
vars == <<scalarVars, pipeVars>>
-----------------------------------------------------------------------------
CeilDivBy(x, y) == (x + y - 1) \div y

\* The length of tile i of x in tiles of t.
TileLength(x, t, i) == IF (i + 1) * t <= x THEN t ELSE x - i * t

\* InitKLoopParams.
Ddr2l0LoopK == CeilDivBy(case.k, case.kL0)
MultiKAL1 == CeilDivBy(case.kAL1, case.kL0)
MultiKBL1 == CeilDivBy(case.kBL1, case.kL0)
KAL1FullLoad == case.k = case.kAL1
KBL1FullLoad == case.k = case.kBL1

\* preloadAL1DbFlag: loading ahead overwrites what is said of the tile before.
PreloadAL1 == case.stages.a = 2 /\ ~KAL1FullLoad /\ ~case.padded /\ case.k % case.kAL1 = 0
PreloadABL1 == PreloadAL1 /\ case.stages.b = 2 /\ ~KBL1FullLoad

\* InitOutLoopParams: tiles of L1, and tiles of L0 in one of L1.
Ddr2l1LoopM == CeilDivBy(case.hw, case.mAL1)
Ddr2l1LoopN == CeilDivBy(case.cout, case.nBL1)
L12l0LoopM(i) == CeilDivBy(TileLength(case.hw, case.mAL1, i), case.mL0)
L12l0LoopN(i) == CeilDivBy(TileLength(case.cout, case.nBL1, i), case.nL0)

FullPad(dOutIter, kAL1Iter) == <<dOutIter, kAL1Iter>> \in case.fullPad

BiasL1 == <<"l1Bias">>
BT == <<"bt">>
Output(i) == GmC(<<block, i.batchIter, i.dOutIter, i.mAL1Iter, i.mAL0Iter, i.nBL1Iter, i.nBL0Iter>>)
Outputs ==
    {GmC(<<b, n, d, mL1, mL0, nL1, nL0>>) :
        b \in 1..case.blocks, n \in 0..(case.n - 1), d \in 0..(case.d - 1),
        mL1 \in 0..(Ddr2l1LoopM - 1), mL0 \in 0..(L12l0LoopM(0) - 1),
        nL1 \in 0..(Ddr2l1LoopN - 1), nL0 \in 0..(L12l0LoopN(0) - 1)}

L1BId(i) == i + case.stages.a
L0AId(i) == i
L0BId(i) == i + 2
L1BiasId == case.stages.a + case.stages.b
L0BiasId == 4

Buffers ==
    {L1A(i) : i \in 0..(case.stages.a - 1)} \union {L1B(i) : i \in 0..(case.stages.b - 1)}
    \union {L0A(i) : i \in 0..1} \union {L0B(i) : i \in 0..1} \union {L0C(0), BiasL1, BT} \union Outputs

\* What the constructor sets and the destructor waits for.
InitialEvents ==
    [i \in 1..5 |-> M_MTE1(i - 1)] \o <<FIX_M(0)>> \o [i \in 1..(L1BiasId + 1) |-> MTE1_MTE2(i - 1)]

Events ==
    ToSet(InitialEvents) \union {MTE2_MTE1(i) : i \in 0..L1BiasId} \union {MTE1_M(i) : i \in 0..L0BiasId}
    \union {M_FIX(0)}
-----------------------------------------------------------------------------
\* AscendC::PipeBarrier<PIPE_ALL>.
PipeBarrier == [pipe |-> "S", op |-> "barrier"]

\* A flag set and waited for at once: one pipe after all the other has done.
SetWait(e) == << SetFlag(e), WaitFlag(e) >>

\* LoadAL1Process, LoadBL1Process.  A tile in padding is not loaded.
FmapTile(kAL1Iter) ==
    <<"fmap", block, iterParams.batchIter, iterParams.dOutIter, iterParams.mAL1Iter, kAL1Iter * case.kAL1>>
FilterTile(kBL1Iter) == <<"filter", block, iterParams.nBL1Iter, kBL1Iter * case.kBL1>>
LoadAL1Process(kAL1Iter, slot) ==
    OnlyIf(~FullPad(iterParams.dOutIter, kAL1Iter), Load(FmapTile(kAL1Iter), L1A(slot)))
LoadBL1Process(kBL1Iter, slot) == << Load(FilterTile(kBL1Iter), L1B(slot)) >>

\* The bias of a tile of the output, from GM to the bias table.
LoadBias(i) ==
    << WaitFlag(MTE1_MTE2(L1BiasId)), Load(<<"bias", block, i.nBL1Iter, i.nBL0Iter>>, BiasL1) >>
    \o SetWait(MTE2_MTE1(L1BiasId))
    \o << WaitFlag(M_MTE1(L0BiasId)), Gather("MTE1", {BiasL1}, BT) >>
    \o SetWait(MTE1_M(L0BiasId))
    \o << SetFlag(MTE1_MTE2(L1BiasId)) >>

\* The first product of a tile of the output starts from the bias.
ProductBias(a, b, c) == [Product(a, b, c, TRUE) EXCEPT !.reads = @ \union {BT}]

\* One turn of k.  `fullPad` is what aL1IsFullPad says by then.
ReduceKL0AL0BPingPong(k, slots, fullPad) ==
    LET l0 == k % 2
        aPart == <<iterParams.mAL0Iter, (k % MultiKAL1) * case.kL0>>
        bPart == <<(k % MultiKBL1) * case.kL0, iterParams.nBL0Iter>>
    IN  << WaitFlag(M_MTE1(L0AId(l0))), WaitFlag(M_MTE1(L0BId(l0))),
           IF fullPad THEN Gather("MTE1", {}, L0A(l0)) ELSE Copy(L1A(slots.a), aPart, L0A(l0)),
           Copy(L1B(slots.b), bPart, L0B(l0)),
           SetFlag(MTE1_M(L0AId(l0))), SetFlag(MTE1_M(L0BId(l0))),
           WaitFlag(MTE1_M(L0AId(l0))), WaitFlag(MTE1_M(L0BId(l0))),
           IF k = 0 THEN ProductBias(L0A(l0), L0B(l0), L0C(0)) ELSE Product(L0A(l0), L0B(l0), L0C(0), FALSE),
           SetFlag(M_MTE1(L0AId(l0))), SetFlag(M_MTE1(L0BId(l0))) >>

\* Tiles that ReduceK loads on the spot.
NeedsAL1(k) == iterParams.loadAL1Flag \/ (~KAL1FullLoad /\ k % MultiKAL1 = 0)
NeedsBL1(k) == iterParams.loadBL1Flag \/ (~KBL1FullLoad /\ k % MultiKBL1 = 0)

\* `instructions` between two flags that keep MTE1 and MTE2 apart.
OnTheSpot(id, instructions) == SetWait(MTE1_MTE2(id)) \o instructions \o SetWait(MTE2_MTE1(id))
LoadAL1OnTheSpot(k) == OnTheSpot(l1ListId.a, LoadAL1Process(k \div MultiKAL1, l1ListId.a))
LoadBL1OnTheSpot(k) == OnTheSpot(L1BId(l1ListId.b), LoadBL1Process(k \div MultiKBL1, l1ListId.b))

\* The other slot of a ring of two.
Other(slot) == Wrap(slot, 2)

\* Turns at which a tile that was loaded ahead is taken up, `multi` turns long:
\* the last one, or one after which there is another to load.
TakesUpLast(k, multi) == k = Ddr2l0LoopK - multi
TakesUp(k, multi) == k < Ddr2l0LoopK - multi /\ k % multi = 0

\* What becomes of the ring: `slot` is given up, the other one taken up.
TakeUp(k, multi, id, other, loadNext) ==
    IF TakesUpLast(k, multi) THEN << SetFlag(MTE1_MTE2(id)), WaitFlag(MTE2_MTE1(other)) >>
    ELSE IF TakesUp(k, multi)
         THEN SetWait(MTE1_MTE2(id)) \o loadNext \o << SetFlag(MTE2_MTE1(id)), WaitFlag(MTE2_MTE1(other)) >>
    ELSE <<>>
TakeUpAL1(k) ==
    TakeUp(k, MultiKAL1, l1ListId.a, Other(l1ListId.a), LoadAL1Process((k \div MultiKAL1) + 1, l1ListId.a))
TakeUpBL1(k) ==
    TakeUp(k, MultiKBL1, L1BId(l1ListId.b), L1BId(Other(l1ListId.b)),
           LoadBL1Process((k \div MultiKBL1) + 1, l1ListId.b))
AfterTakeUp(k, multi, slot) == IF TakesUpLast(k, multi) \/ TakesUp(k, multi) THEN Other(slot) ELSE slot

\* The first tile of A, and B's; then the second.
LoadAhead(load, id) == << WaitFlag(MTE1_MTE2(id)) >> \o load \o << SetFlag(MTE2_MTE1(id)) >>
FirstTiles ==
    LoadAhead(LoadAL1Process(0, l1ListId.a), l1ListId.a) \o << WaitFlag(MTE2_MTE1(l1ListId.a)) >>
    \o IF PreloadABL1
       THEN LoadAhead(LoadBL1Process(0, l1ListId.b), L1BId(l1ListId.b)) \o << WaitFlag(MTE2_MTE1(L1BId(l1ListId.b))) >>
       ELSE IF NeedsBL1(0) THEN LoadBL1OnTheSpot(0) ELSE <<>>
SecondAL1 == LoadAhead(LoadAL1Process(1, Other(l1ListId.a)), Other(l1ListId.a))
SecondBL1 == LoadAhead(LoadBL1Process(1, Other(l1ListId.b)), L1BId(Other(l1ListId.b)))
-----------------------------------------------------------------------------
FirstIterate(batchIter) ==
    [batchIter |-> batchIter, dOutIter |-> 0, mAL1Iter |-> 0, nBL1Iter |-> 0, mAL0Iter |-> 0, nBL0Iter |-> 0,
     kIter |-> 0, loadAL1Flag |-> TRUE, loadBL1Flag |-> TRUE, aL1IsFullPad |-> iterParams.aL1IsFullPad]

\* IterateNFirst: columns first, then lines, then depths.
IterateNFirst(i) ==
    LET plus(x, carry) == IF carry THEN x + 1 ELSE x
        reset(x, carry) == IF carry THEN 0 ELSE x
        endN0 == i.nBL0Iter + 1 = L12l0LoopN(i.nBL1Iter)
        endM0 == endN0 /\ i.mAL0Iter + 1 = L12l0LoopM(i.mAL1Iter)
        endN1 == endM0 /\ i.nBL1Iter + 1 = Ddr2l1LoopN
        endM1 == endN1 /\ i.mAL1Iter + 1 = Ddr2l1LoopM
    IN  [i EXCEPT !.nBL0Iter = reset(@ + 1, endN0),
                  !.mAL0Iter = reset(plus(@, endN0), endM0),
                  !.nBL1Iter = reset(plus(@, endM0), endN1),
                  !.mAL1Iter = reset(plus(@, endN1), endM1),
                  !.dOutIter = plus(@, endM1),
                  !.loadBL1Flag = @ \/ endM0, !.loadAL1Flag = @ \/ endN1, !.kIter = 0]

Init ==
    /\ case \in Cases
    /\ pc = "ctor"
    /\ block = 0
    /\ iterParams = [batchIter |-> 0, dOutIter |-> 0, mAL1Iter |-> 0, nBL1Iter |-> 0, mAL0Iter |-> 0, nBL0Iter |-> 0,
                     kIter |-> 0, loadAL1Flag |-> TRUE, loadBL1Flag |-> TRUE, aL1IsFullPad |-> FALSE]
    /\ l1ListId = [a |-> 0, b |-> 0]
    /\ todo = <<>>
    /\ PipesInit(Buffers, Events)

Construct ==
    /\ pc = "ctor"
    /\ todo' = [i \in DOMAIN InitialEvents |-> SetFlag(InitialEvents[i])]
    /\ pc' = "idle"
    /\ UNCHANGED <<case, block, iterParams, l1ListId, queue, busy, event, mem>>

\* operator() up to its loops.
Call ==
    /\ pc = "idle" /\ todo = <<>>
    /\ block < case.blocks
    /\ block' = block + 1
    /\ iterParams' = FirstIterate(0)
    /\ pc' = "tile"
    /\ UNCHANGED <<case, l1ListId, todo, queue, busy, event, mem>>

\* A tile of the output up to its loop over k: with preloading, its first turn
\* as well.
Tile ==
    /\ pc = "tile" /\ todo = <<>>
    /\ LET product(fullPad) == ReduceKL0AL0BPingPong(0, l1ListId, fullPad)
           first == FullPad(iterParams.dOutIter, 0)
           second == FullPad(iterParams.dOutIter, 1)
           begin == LoadBias(iterParams) \o << WaitFlag(FIX_M(0)) >>
       IN  IF PreloadAL1
           THEN /\ todo' = begin \o FirstTiles
                           \o (IF PreloadABL1 THEN SecondAL1 \o SecondBL1 \o product(second)
                                              ELSE product(first) \o SecondAL1)
                /\ iterParams' = [iterParams EXCEPT !.kIter = 1, !.aL1IsFullPad = second,
                                      !.loadAL1Flag = IF PreloadABL1 THEN @ ELSE FALSE,
                                      !.loadBL1Flag = IF PreloadABL1 THEN @ ELSE FALSE]
           ELSE todo' = begin /\ UNCHANGED iterParams
    /\ pc' = "k"
    /\ UNCHANGED <<case, block, l1ListId, queue, busy, event, mem>>

\* One turn of the loop of ReduceK.
ReduceK ==
    /\ ~PreloadAL1
    /\ pc = "k" /\ todo = <<>>
    /\ LET k == iterParams.kIter
           fullPad == IF NeedsAL1(k) THEN FullPad(iterParams.dOutIter, k \div MultiKAL1) ELSE iterParams.aL1IsFullPad
       IN  /\ k < Ddr2l0LoopK
           /\ todo' = (IF NeedsAL1(k) THEN <<PipeBarrier>> \o LoadAL1OnTheSpot(k) ELSE <<>>)
                      \o (IF NeedsBL1(k) THEN <<PipeBarrier>> \o LoadBL1OnTheSpot(k) ELSE <<>>)
                      \o ReduceKL0AL0BPingPong(k, l1ListId, fullPad)
           /\ iterParams' = [iterParams EXCEPT !.kIter = k + 1, !.aL1IsFullPad = fullPad,
                                               !.loadAL1Flag = FALSE, !.loadBL1Flag = FALSE]
    /\ UNCHANGED <<case, pc, block, l1ListId, queue, busy, event, mem>>

\* One turn of the loops of ReduceKPreloadDbFmap and ReduceKPreloadDbAll.
ReduceKPreload ==
    /\ PreloadAL1
    /\ pc = "k" /\ todo = <<>>
    /\ LET k == iterParams.kIter
           fullPad == IF TakesUp(k, MultiKAL1) THEN FullPad(iterParams.dOutIter, (k \div MultiKAL1) + 1)
                                               ELSE iterParams.aL1IsFullPad
       IN  /\ k < Ddr2l0LoopK
           /\ l1ListId' = [a |-> AfterTakeUp(k, MultiKAL1, l1ListId.a),
                           b |-> IF PreloadABL1 THEN AfterTakeUp(k, MultiKBL1, l1ListId.b) ELSE l1ListId.b]
           /\ todo' = TakeUpAL1(k)
                      \o (IF PreloadABL1 THEN TakeUpBL1(k)
                          ELSE IF NeedsBL1(k) THEN <<PipeBarrier>> \o LoadBL1OnTheSpot(k) ELSE <<>>)
                      \o ReduceKL0AL0BPingPong(k, l1ListId', fullPad)
           /\ iterParams' = [iterParams EXCEPT !.kIter = k + 1, !.aL1IsFullPad = fullPad]
    /\ UNCHANGED <<case, pc, block, queue, busy, event, mem>>

\* The end of a tile of the output, and of the block if it was the last.
TileDone ==
    /\ pc = "k" /\ todo = <<>>
    /\ iterParams.kIter = Ddr2l0LoopK
    /\ todo' = OnlyIf(PreloadAL1, SetFlag(MTE1_MTE2(l1ListId.a)))
               \o OnlyIf(PreloadABL1, SetFlag(MTE1_MTE2(L1BId(l1ListId.b))))
               \o << SetFlag(M_MTE1(L0BiasId)) >>
               \o SetWait(M_FIX(0)) \o << Store(L0C(0), Output(iterParams)), SetFlag(FIX_M(0)) >>
    /\ LET next == IterateNFirst(iterParams)
           lastBatch == iterParams.batchIter = case.n - 1
       IN  IF next.dOutIter < case.d THEN iterParams' = next /\ pc' = "tile"
           ELSE /\ iterParams' = FirstIterate(IF lastBatch THEN 0 ELSE iterParams.batchIter + 1)
                /\ pc' = IF lastBatch THEN "idle" ELSE "tile"
    /\ UNCHANGED <<case, block, l1ListId, queue, busy, event, mem>>

\* The barrier: no pipe goes on before all have done.
Barrier ==
    /\ todo # <<>> /\ Head(todo) = PipeBarrier
    /\ \A p \in Pipe : queue[p] = <<>>
    /\ todo' = Tail(todo)
    /\ UNCHANGED <<scalarVars, queue, busy, event, mem>>

Destroy ==
    /\ pc = "idle" /\ todo = <<>>
    /\ block = case.blocks
    /\ todo' = [i \in DOMAIN InitialEvents |-> WaitFlag(InitialEvents[i])]
    /\ pc' = "done"
    /\ UNCHANGED <<case, block, iterParams, l1ListId, queue, busy, event, mem>>

ScalarNext ==
    \/ Construct \/ Call \/ Tile \/ ReduceK \/ ReduceKPreload \/ TileDone \/ Destroy
    \/ Barrier \/ (Issue /\ UNCHANGED scalarVars)
PipeNext(p) == Execute(p) /\ UNCHANGED scalarVars

Destroyed == pc = "done" /\ Drained
Terminated == Destroyed /\ UNCHANGED vars

Next == ScalarNext \/ (\E p \in Pipe : PipeNext(p)) \/ Terminated

\* The scalar unit and every pipe go on while they can.
Fairness == WF_vars(ScalarNext) /\ \A p \in Pipe : WF_vars(PipeNext(p))

Spec == Init /\ [][Next]_vars /\ Fairness
-----------------------------------------------------------------------------
\* Where k from `at` on lies in tiles of `size`.
In(at, size) == <<at - (at % size), at % size>>

\* What an output is the sum of: its bias, and the products of k that do not
\* lie in the padding.
Sum(b, n, d, mL1, mL0, nL1, nL0) ==
    {<<"bias", b, nL1, nL0>>}
    \union {<< <<"fmap", b, n, d, mL1, In(at, case.kAL1)[1], <<mL0, In(at, case.kAL1)[2]>> >>,
               <<"filter", b, nL1, In(at, case.kBL1)[1], <<In(at, case.kBL1)[2], nL0>> >> >> :
            at \in {x \in 0..(case.k - 1) : x % case.kL0 = 0 /\ ~FullPad(d, x \div case.kAL1)}}

(* How the destructor should leave things: each tile of the output is the  *)
(* sum of its bias and of the products over all of k outside the padding,  *)
(* each once, whichever tiles stayed in L1 or were loaded ahead, although  *)
(* what is said of the tile loaded last is taken to be true of the one     *)
(* that is multiplied; and every event is back to zero.                    *)
CleanExit ==
    /\ Destroyed
    /\ \A e \in Events : event[e] = 0
    /\ \A b \in 1..case.blocks, n \in 0..(case.n - 1), d \in 0..(case.d - 1) :
       \A mL1 \in 0..(Ddr2l1LoopM - 1), nL1 \in 0..(Ddr2l1LoopN - 1) :
       \A mL0 \in 0..(L12l0LoopM(mL1) - 1), nL0 \in 0..(L12l0LoopN(nL1) - 1) :
          mem[GmC(<<b, n, d, mL1, mL0, nL1, nL0>>)] = Sum(b, n, d, mL1, mL0, nL1, nL0)
=============================================================================
