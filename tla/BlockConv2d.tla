----------------------------- MODULE BlockConv2d -----------------------------
(***************************************************************************)
(* conv/block/block_conv2d_pingpong.hpp: the BlockConv2d of the 2D         *)
(* convolution.  Its k is the input channels, in groups of C0; a tile of   *)
(* the filter in L1 serves K_FMAP_PER_FILTER tiles of the input, so the    *)
(* two rings of L1 turn at different paces, and every part of the input in *)
(* L0A meets all columns of the filter, one after the other in L0B.        *)
(* ENABLE_UNIT_FLAG is off.  Where the tiles lie in GM is in Convolutions. *)
(***************************************************************************)
EXTENDS MmadInstructions

CONSTANTS
    Cin1,                   \* actualShape.cin1: groups of input channels
    FmapCin1, FilterCin1,   \* FmapL1TileShape::Cin1, FilterL1TileShape::Cin1, a multiple
    Cin1L0Tile,             \* cin1L0Tile: groups that fit L0
    Couts,                  \* of each block, coutRound
    NL0,                    \* C0_NUM_PER_FRACTAL-aligned L0TileShape::N
    L1AStages, L1BStages, L0AStages, L0BStages

VARIABLES
    pc,             \* "ctor", "idle" between calls of operator(), "loop" inside one, "done"
    block,          \* the block of the call, from 1
    cin1LoopIdx,
    member          \* of BlockConv2d: the four list positions

scalarVars == <<pc, block, cin1LoopIdx, member>>
vars == <<scalarVars, pipeVars>>
-----------------------------------------------------------------------------
K_FMAP_PER_FILTER == FilterCin1 \div FmapCin1

CeilDivBy(x, y) == (x + y - 1) \div y
Cin1TileCnt == CeilDivBy(Cin1, FmapCin1)

\* Groups in the part of 0..(Cin1 - 1) of a tile.
ActualCin1(tileIdx, tileCin1) ==
    IF (tileIdx + 1) * tileCin1 < Cin1 THEN tileCin1 ELSE Cin1 - tileIdx * tileCin1

NPartLoop(b) == IF NL0 < Couts[b] THEN CeilDivBy(Couts[b], NL0) ELSE 1
KPartLoop(tileIdx) == CeilDivBy(ActualCin1(tileIdx, FmapCin1), Cin1L0Tile)

\* A tile is named by its block and its first group.
FmapTile(b, i) == <<"fmap", b, i * FmapCin1>>
FilterTile(b, i) == <<"filter", b, i * FilterCin1>>

L1BId(i) == i + L1AStages
L0BId(i) == i + L0AStages

Buffers ==
    {L1A(i) : i \in 0..(L1AStages - 1)} \union {L1B(i) : i \in 0..(L1BStages - 1)}
    \union {L0A(i) : i \in 0..(L0AStages - 1)} \union {L0B(i) : i \in 0..(L0BStages - 1)}
    \union UNION {UNION {{L0C(j), GmC(<<b, j>>)} : j \in 0..(NPartLoop(b) - 1)} : b \in DOMAIN Couts}

\* What the constructor sets and the destructor waits for.
InitialEvents ==
    [i \in 1..(L1AStages + L1BStages) |-> MTE1_MTE2(i - 1)]
    \o [i \in 1..(L0AStages + L0BStages) |-> M_MTE1(i - 1)]
    \o <<FIX_M(0)>>

Events ==
    ToSet(InitialEvents) \union {MTE2_MTE1(i) : i \in 0..(L1AStages + L1BStages - 1)}
    \union {MTE1_M(0), M_FIX(0)}
-----------------------------------------------------------------------------
LoadFmap(b, i, slot) ==
    << WaitFlag(MTE1_MTE2(slot)), Load(FmapTile(b, i), L1A(slot)), SetFlag(MTE2_MTE1(slot)) >>
LoadFilter(b, i, slot) ==
    << WaitFlag(MTE1_MTE2(L1BId(slot))), Load(FilterTile(b, i), L1B(slot)), SetFlag(MTE2_MTE1(L1BId(slot))) >>

FirstOfFilter == cin1LoopIdx % K_FMAP_PER_FILTER = 0

\* The tile of the filter in L1 has no more to multiply.
LastOfFilter ==
    \/ cin1LoopIdx % K_FMAP_PER_FILTER = K_FMAP_PER_FILTER - 1
    \/ cin1LoopIdx = Cin1TileCnt - 1

\* The slots after n turns.
Turned(id, size, n) == (id + n) % size

\* One turn of the n part loop; the channels are those of the tile of the filter.
NPart(k, n, turns) ==
    LET a == Turned(member.l0A, L0AStages, k)
        b == Turned(member.l0B, L0BStages, turns)
        channel == (cin1LoopIdx % K_FMAP_PER_FILTER) * FmapCin1 + k * Cin1L0Tile
    IN  << WaitFlag(M_MTE1(L0BId(b))) >>
        \o OnlyIf(FirstOfFilter /\ k = 0 /\ n = 0, WaitFlag(MTE2_MTE1(L1BId(member.l1B))))
        \o << Copy(L1B(member.l1B), <<channel, n>>, L0B(b)) >>
        \o OnlyIf(LastOfFilter /\ k = KPartLoop(cin1LoopIdx) - 1 /\ n = NPartLoop(block) - 1,
                  SetFlag(MTE1_MTE2(L1BId(member.l1B))))
        \o << SetFlag(MTE1_M(0)), WaitFlag(MTE1_M(0)),
              Product(L0A(a), L0B(b), L0C(n), cin1LoopIdx = 0 /\ k = 0),
              SetFlag(M_MTE1(L0BId(b))) >>

\* One turn of the k part loop.
KPart(k) ==
    LET a == Turned(member.l0A, L0AStages, k)
        loops == NPartLoop(block)
    IN  << WaitFlag(M_MTE1(a)) >>
        \o OnlyIf(k = 0, WaitFlag(MTE2_MTE1(member.l1A)))
        \o << Copy(L1A(member.l1A), k * Cin1L0Tile, L0A(a)) >>
        \o OnlyIf(k = KPartLoop(cin1LoopIdx) - 1, SetFlag(MTE1_MTE2(member.l1A)))
        \o FlattenSeq([n \in 1..loops |-> NPart(k, n - 1, k * loops + n - 1)])
        \o << SetFlag(M_MTE1(a)) >>
-----------------------------------------------------------------------------
Init ==
    /\ pc = "ctor"
    /\ block = 0 /\ cin1LoopIdx = 0
    /\ member = [l1A |-> 0, l1B |-> 0, l0A |-> 0, l0B |-> 0]
    /\ todo = <<>>
    /\ PipesInit(Buffers, Events)

Construct ==
    /\ pc = "ctor"
    /\ todo' = [i \in DOMAIN InitialEvents |-> SetFlag(InitialEvents[i])]
    /\ pc' = "idle"
    /\ UNCHANGED <<block, cin1LoopIdx, member, queue, busy, event, mem>>

\* operator() up to its main loop.
Call ==
    /\ pc = "idle" /\ todo = <<>>
    /\ block < Len(Couts)
    /\ block' = block + 1
    /\ cin1LoopIdx' = 0
    /\ todo' = LoadFmap(block', 0, member.l1A) \o LoadFilter(block', 0, member.l1B) \o << WaitFlag(FIX_M(0)) >>
    /\ pc' = "loop"
    /\ UNCHANGED <<member, queue, busy, event, mem>>

\* One turn of the main loop: the next tiles, then the parts of this one.
Cin1Loop ==
    /\ pc = "loop" /\ todo = <<>>
    /\ cin1LoopIdx < Cin1TileCnt
    /\ cin1LoopIdx' = cin1LoopIdx + 1
    /\ LET last == cin1LoopIdx % K_FMAP_PER_FILTER = K_FMAP_PER_FILTER - 1
           nextA == Wrap(member.l1A, L1AStages)
           nextB == Wrap(member.l1B, L1BStages)
           parts == KPartLoop(cin1LoopIdx)
       IN  /\ todo' = (IF cin1LoopIdx < Cin1TileCnt - 1
                       THEN LoadFmap(block, cin1LoopIdx', nextA)
                            \o (IF last THEN LoadFilter(block, cin1LoopIdx' \div K_FMAP_PER_FILTER, nextB) ELSE <<>>)
                       ELSE <<>>)
                      \o FlattenSeq([k \in 1..parts |-> KPart(k - 1)])
           /\ member' = [l1A |-> nextA, l1B |-> IF last THEN nextB ELSE member.l1B,
                         l0A |-> Turned(member.l0A, L0AStages, parts),
                         l0B |-> Turned(member.l0B, L0BStages, parts * NPartLoop(block))]
    /\ UNCHANGED <<pc, block, queue, busy, event, mem>>

\* "copy block out": all columns of L0C.
CopyOut ==
    /\ pc = "loop" /\ todo = <<>>
    /\ cin1LoopIdx = Cin1TileCnt
    /\ todo' = << SetFlag(M_FIX(0)), WaitFlag(M_FIX(0)) >>
               \o [j \in 1..NPartLoop(block) |-> Store(L0C(j - 1), GmC(<<block, j - 1>>))]
               \o << SetFlag(FIX_M(0)) >>
    /\ pc' = "idle"
    /\ UNCHANGED <<block, cin1LoopIdx, member, queue, busy, event, mem>>

Destroy ==
    /\ pc = "idle" /\ todo = <<>>
    /\ block = Len(Couts)
    /\ todo' = [i \in DOMAIN InitialEvents |-> WaitFlag(InitialEvents[i])]
    /\ pc' = "done"
    /\ UNCHANGED <<block, cin1LoopIdx, member, queue, busy, event, mem>>

ScalarNext == Construct \/ Call \/ Cin1Loop \/ CopyOut \/ Destroy \/ (Issue /\ UNCHANGED scalarVars)
PipeNext(p) == Execute(p) /\ UNCHANGED scalarVars

Destroyed == pc = "done" /\ Drained
Terminated == Destroyed /\ UNCHANGED vars

Next == ScalarNext \/ (\E p \in Pipe : PipeNext(p)) \/ Terminated

\* The scalar unit and every pipe go on while they can.
Fairness == WF_vars(ScalarNext) /\ \A p \in Pipe : WF_vars(PipeNext(p))

Spec == Init /\ [][Next]_vars /\ Fairness
-----------------------------------------------------------------------------
\* The groups a product begins at: a part never crosses a tile of the input.
Starts == {c \in 0..(Cin1 - 1) : (c % FmapCin1) % Cin1L0Tile = 0}

\* The two factors of the product from group c on.
FmapPart(b, c) == <<"fmap", b, c - (c % FmapCin1), c % FmapCin1>>
FilterPart(b, c, j) == <<"filter", b, c - (c % FilterCin1), <<c % FilterCin1, j>> >>

(* How the destructor should leave things: every column of every block is  *)
(* the sum, over all channels, of the input times the filter at the same   *)
(* channel, each once, although the filter's ring turns only with every    *)
(* K_FMAP_PER_FILTER-th tile of the input and a block may end inside one   *)
(* of its tiles; and every event is back to zero.                          *)
CleanExit ==
    /\ Destroyed
    /\ \A e \in Events : event[e] = 0
    /\ \A b \in DOMAIN Couts : \A j \in 0..(NPartLoop(b) - 1) :
          mem[GmC(<<b, j>>)] = {<< FmapPart(b, c), FilterPart(b, c, j) >> : c \in Starts}
=============================================================================
