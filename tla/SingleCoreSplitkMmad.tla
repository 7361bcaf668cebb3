------------------------- MODULE SingleCoreSplitkMmad -------------------------
(***************************************************************************)
(* The AIC of gemm/kernel/single_core_slicek_matmul.hpp with its BlockMmad *)
(* of gemm/block/block_mmad_single_core_splitk.hpp.  A core walks through  *)
(* its blocks of C once for every slice of k and adds the later slices to  *)
(* what C holds.  A and B have rings of L1 of different lengths, and the   *)
(* tile that two neighbouring blocks share stays in L1: it is neither      *)
(* waited for nor given back in between.  Only the first slice stores, so  *)
(* C need not be cleared.  ENABLE_UNIT_FLAG is off; the padding of A and B *)
(* before and of C after this on the AIVs is left out.                     *)
(***************************************************************************)
EXTENDS BlockSwizzle, MmadInstructions

CONSTANTS
    P,              \* the problem, as BlockSwizzle has it, with the L1 tile
    Core,           \* this core, which has a block
    L0Tile,         \* L0TileShape [m, n, k]
    L1AStages, L1BStages, L0ABStages, L0CStages

VARIABLES
    pc,             \* "ctor", "idle" between calls of operator(), "mn" inside one, "done"
    calls,          \* the blocks the kernel has still to call operator() for
    block,          \* the block of the call
    needLoadNext,   \* the matrices of whose next tile the call takes care
    mnLoopIdx,      \* L0 tiles of the call begun
    member          \* of BlockMmad: list positions and what is preloaded

scalarVars == <<pc, calls, block, needLoadNext, mnLoopIdx, member>>
vars == <<scalarVars, pipeVars>>
-----------------------------------------------------------------------------
\* What the scheduler says of loopIdx, and all of it in the order of the loop.
BlockAt(i) == SingleCoreSplitkBlock(P, Core, i) @@ [atomicAdd |-> IsAtomicAdd(P, Core, i)]
Schedule == [i \in 1..GetSingleCoreLoops(P, Core) |-> BlockAt(i - 1)]

\* Positions of L1 parts along the three axes of a block.
MParts(b) == 0..(CeilDiv(b.mLen, L0Tile.m) - 1)
NParts(b) == 0..(CeilDiv(b.nLen, L0Tile.n) - 1)
KPartNum(b) == CeilDiv(b.kLen, L0Tile.k)

TileOfA(b) == <<"A", b.m, b.k>>
TileOfB(b) == <<"B", b.n, b.k>>
C(b, i, j) == GmC(<<b.m, b.n, i, j>>)

L1BId(i) == i + L1AStages
L0BId(i) == i + L0ABStages

Buffers ==
    {L1A(i) : i \in 0..(L1AStages - 1)} \union {L1B(i) : i \in 0..(L1BStages - 1)}
    \union {L0A(i) : i \in 0..(L0ABStages - 1)} \union {L0B(i) : i \in 0..(L0ABStages - 1)}
    \union {L0C(i) : i \in 0..(L0CStages - 1)}
    \union UNION {{C(b, i, j) : i \in MParts(b), j \in NParts(b)} : b \in ToSet(Schedule)}

\* What the constructor sets and the destructor waits for.
InitialEvents ==
    [i \in 1..(L1AStages + L1BStages) |-> MTE1_MTE2(i - 1)]
    \o FlattenSeq([i \in 1..L0ABStages |-> <<M_MTE1(i - 1), M_MTE1(L0BId(i - 1))>>])
    \o [i \in 1..L0CStages |-> FIX_M(i - 1)]

Events ==
    ToSet(InitialEvents) \union {MTE2_MTE1(i) : i \in 0..(L1AStages + L1BStages - 1)}
    \union UNION {{MTE1_M(i), M_FIX(i)} : i \in 0..(L0CStages - 1)}
-----------------------------------------------------------------------------
LoadA(b, i) == << WaitFlag(MTE1_MTE2(i)), Load(TileOfA(b), L1A(i)), SetFlag(MTE2_MTE1(i)) >>
LoadB(b, i) ==
    << WaitFlag(MTE1_MTE2(L1BId(i))), Load(TileOfB(b), L1B(i)), SetFlag(MTE2_MTE1(L1BId(i))) >>

\* A k part of the L0 tile at <<i, j>>.  `takes` and `gives` say of which matrix
\* the L1 tile is waited for and given back in this L0 tile.
KPart(i, j, part, takes, gives) ==
    LET l0 == part % L0ABStages
        last == part = KPartNum(block) - 1
    IN  << WaitFlag(M_MTE1(l0)) >>
        \o OnlyIf("A" \in takes /\ part = 0, WaitFlag(MTE2_MTE1(member.l1A)))
        \o << Copy(L1A(member.l1A), <<i, part>>, L0A(l0)) >>
        \o OnlyIf("A" \in gives /\ last, SetFlag(MTE1_MTE2(member.l1A)))
        \o << WaitFlag(M_MTE1(L0BId(l0))) >>
        \o OnlyIf("B" \in takes /\ part = 0, WaitFlag(MTE2_MTE1(L1BId(member.l1B))))
        \o << Copy(L1B(member.l1B), <<part, j>>, L0B(l0)) >>
        \o OnlyIf("B" \in gives /\ last, SetFlag(MTE1_MTE2(L1BId(member.l1B))))
        \o << SetFlag(MTE1_M(member.l0C)), WaitFlag(MTE1_M(member.l0C)),
              Product(L0A(l0), L0B(l0), L0C(member.l0C), part = 0),
              SetFlag(M_MTE1(L0BId(l0))), SetFlag(M_MTE1(l0)) >>

\* Mutation of L0TileMmad: L0C is not waited for.
L0TileMmadNoWait(i, j, takes, gives) ==
    FlattenSeq([k \in 1..KPartNum(block) |-> KPart(i, j, k - 1, takes, gives)])
    \o << SetFlag(M_FIX(member.l0C)), WaitFlag(M_FIX(member.l0C)),
          IF block.atomicAdd THEN AtomicAdd(L0C(member.l0C), C(block, i, j))
                                               ELSE Store(L0C(member.l0C), C(block, i, j)),
          SetFlag(FIX_M(member.l0C)) >>

\* One L0 tile: its k parts, then its way out.
L0TileMmad(i, j, takes, gives) ==
    << WaitFlag(FIX_M(member.l0C)) >>
    \o FlattenSeq([k \in 1..KPartNum(block) |-> KPart(i, j, k - 1, takes, gives)])
    \o << SetFlag(M_FIX(member.l0C)), WaitFlag(M_FIX(member.l0C)),
          IF block.atomicAdd THEN AtomicAdd(L0C(member.l0C), C(block, i, j))
                                               ELSE Store(L0C(member.l0C), C(block, i, j)),
          SetFlag(FIX_M(member.l0C)) >>

\* The matrices whose tile of the next block is another one.
Changes(b, next) ==
    {x \in {"A", "B"} : b.k # next.k \/ (x = "A" /\ b.m # next.m) \/ (x = "B" /\ b.n # next.n)}

\* Mutation of Gives: a tile the next block shares is given back as well.
GivesEveryTile == {"A", "B"}

\* setFlagA, setFlagB: a tile the next block shares is kept.
Gives == IF needLoadNext = {} THEN {"A", "B"} ELSE needLoadNext

\* waitFlagA, waitFlagB: one that was shared is there.
Takes == IF member.preLoaded = {} THEN {"A", "B"} ELSE member.preLoaded

MNLoopNum == CeilDiv(block.mLen, L0Tile.m) * CeilDiv(block.nLen, L0Tile.n)

\* The loads for the next block: before the L0 tiles, or after them where the
\* ring has one stage.
LoadNext(rest, need, afterCompute) ==
    (IF "A" \in need /\ (L1AStages = 1) = afterCompute
     THEN LoadA(Head(rest), Wrap(member.l1A, L1AStages)) ELSE <<>>)
    \o (IF "B" \in need /\ (L1BStages = 1) = afterCompute
        THEN LoadB(Head(rest), Wrap(member.l1B, L1BStages)) ELSE <<>>)
-----------------------------------------------------------------------------
Init ==
    /\ pc = "ctor"
    /\ calls = Schedule
    /\ mnLoopIdx = 0
    /\ block = BlockAt(0)
    /\ needLoadNext = {}
    /\ member = [l1A |-> 0, l1B |-> 0, l0C |-> 0, preLoaded |-> {}]
    /\ todo = <<>>
    /\ PipesInit(Buffers, Events)

Construct ==
    /\ pc = "ctor"
    /\ todo' = [i \in DOMAIN InitialEvents |-> SetFlag(InitialEvents[i])]
    /\ pc' = "idle"
    /\ UNCHANGED <<calls, block, needLoadNext, mnLoopIdx, member, queue, busy, event, mem>>

\* The kernel takes the next block; BlockMmad::operator() up to its loops over
\* the L0 tiles.
Call ==
    /\ pc = "idle" /\ todo = <<>>
    /\ calls # <<>>
    /\ block' = Head(calls)
    /\ calls' = Tail(calls)
    /\ needLoadNext' = IF calls' = <<>> THEN {} ELSE Changes(block', Head(calls'))
    /\ todo' = (IF member.preLoaded = {} THEN LoadA(block', member.l1A) \o LoadB(block', member.l1B) ELSE <<>>)
               \o LoadNext(calls', needLoadNext', FALSE)
    /\ mnLoopIdx' = 0
    /\ pc' = "mn"
    /\ UNCHANGED <<member, queue, busy, event, mem>>

\* One turn of the two loops over the L0 tiles.
MNLoop ==
    /\ pc = "mn" /\ todo = <<>>
    /\ mnLoopIdx < MNLoopNum
    /\ LET nLoops == CeilDiv(block.nLen, L0Tile.n)
       IN  todo' = L0TileMmad(mnLoopIdx \div nLoops, mnLoopIdx % nLoops,
                              IF mnLoopIdx = 0 THEN Takes ELSE {},
                              IF mnLoopIdx = MNLoopNum - 1 THEN Gives ELSE {})
    /\ mnLoopIdx' = mnLoopIdx + 1
    /\ member' = [member EXCEPT !.l0C = Wrap(@, L0CStages)]
    /\ UNCHANGED <<pc, calls, block, needLoadNext, queue, busy, event, mem>>

\* The end of operator().
Return ==
    /\ pc = "mn" /\ todo = <<>>
    /\ mnLoopIdx = MNLoopNum
    /\ todo' = LoadNext(calls, needLoadNext, TRUE)
    /\ member' = [member EXCEPT !.preLoaded = needLoadNext,
                                !.l1A = IF "A" \in needLoadNext THEN Wrap(@, L1AStages) ELSE @,
                                !.l1B = IF "B" \in needLoadNext THEN Wrap(@, L1BStages) ELSE @]
    /\ pc' = "idle"
    /\ UNCHANGED <<calls, block, needLoadNext, mnLoopIdx, queue, busy, event, mem>>

Destroy ==
    /\ pc = "idle" /\ todo = <<>>
    /\ calls = <<>>
    /\ todo' = [i \in DOMAIN InitialEvents |-> WaitFlag(InitialEvents[i])]
    /\ pc' = "done"
    /\ UNCHANGED <<calls, block, needLoadNext, mnLoopIdx, member, queue, busy, event, mem>>

ScalarNext == Construct \/ Call \/ MNLoop \/ Return \/ Destroy \/ (Issue /\ UNCHANGED scalarVars)
PipeNext(p) == Execute(p) /\ UNCHANGED scalarVars

Destroyed == pc = "done" /\ Drained
Terminated == Destroyed /\ UNCHANGED vars

Next == ScalarNext \/ (\E p \in Pipe : PipeNext(p)) \/ Terminated

\* The scalar unit and every pipe go on while they can.
Fairness == WF_vars(ScalarNext) /\ \A p \in Pipe : WF_vars(PipeNext(p))

Spec == Init /\ [][Next]_vars /\ Fairness
-----------------------------------------------------------------------------
\* The products of one slice of k for the L0 tile at <<i, j>>.
Slice(b, i, j) ==
    {<<Append(TileOfA(b), <<i, part>>), Append(TileOfB(b), <<part, j>>)>> : part \in 0..(KPartNum(b) - 1)}

(* How the destructor should leave things: each L0 tile of this core's     *)
(* part of C is the sum of the products of all its slices of k, each once  *)
(* and none of another tile, although tiles stay in L1 over several calls; *)
(* and every event is back to zero.                                        *)
CleanExit ==
    /\ Destroyed
    /\ \A e \in Events : event[e] = 0
    /\ \A b \in ToSet(Schedule) : \A i \in MParts(b), j \in NParts(b) :
          mem[C(b, i, j)] = UNION {Slice(x, i, j) : x \in {x \in ToSet(Schedule) : x.m = b.m /\ x.n = b.n}}
=============================================================================
