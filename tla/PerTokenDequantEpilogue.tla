----------------------- MODULE PerTokenDequantEpilogue -----------------------
(***************************************************************************)
(* epilogue/block/block_epilogue_per_token_dequant.hpp for scales of half  *)
(* width, on one AIV of the grouped kernels with dequantisation: the loop  *)
(* over the tiles of each block, with C, the scale of its columns and the  *)
(* scale of its rows loaded to a ring of UB, multiplied and stored to D,   *)
(* and the zeros that it stores for a block without k.                     *)
(*                                                                         *)
(* The callback, the wait until C is there, is left out: it only delays,   *)
(* and GroupedPerTokenDequant is about it.  A buffer of V alone is written *)
(* and read in order; the two multiplications and the broadcast between    *)
(* its barriers are one instruction.                                       *)
(***************************************************************************)
EXTENDS Pipes, SequencesExt

CONSTANTS
    Blocks,         \* the calls of this core: [group, m, n, k, rows, columns], a block and its tiles
    UBStages,       \* UB_STAGES
    SubBlockIdx     \* AscendC::GetSubBlockIdx(), of two

VARIABLES
    calls,          \* the calls to come
    ubListId,
    pc              \* "calls", "done" once the destructor has begun

scalarVars == <<calls, ubListId, pc>>
vars == <<scalarVars, pipeVars>>
-----------------------------------------------------------------------------
\* The ring, and what V keeps in float.
C(i) == <<"c", i>>
Scale(i) == <<"scale", i>>
PerTokenScale(i) == <<"perTokenScale", i>>
D(i) == <<"d", i>>
CFp32 == <<"cFp32", 0>>
ScaleFp32 == <<"scaleFp32", 0>>
PerTokenScaleFp32 == <<"perTokenScaleFp32", 0>>
Mul == <<"mul", 0>>

\* GM: a tile of a block, the scale of its columns, that of its rows.
GmTile(b, loopIdx) == <<"C", b.group, b.m, b.n, loopIdx>>
GmScale(b, loopIdx) == <<"scale", b.group, b.n, loopIdx % b.columns>>
GmPerTokenScale(b, loopIdx) == <<"perTokenScale", b.group, b.m, loopIdx \div b.columns>>
GmD(b, loopIdx) == <<"gmD", GmTile(b, loopIdx)>>
Zero == <<"zero">>

\* The tiles of a block that fall to this AIV.
Tiles(b) == SelectSeq([i \in 1..(b.rows * b.columns) |-> i - 1], LAMBDA i : i % 2 = SubBlockIdx)

Ring == 0..(UBStages - 1)
Buffers ==
    UNION {{C(i), Scale(i), PerTokenScale(i), D(i)} : i \in Ring}
    \union {CFp32, ScaleFp32, PerTokenScaleFp32, Mul}
    \union UNION {{GmD(b, i) : i \in ToSet(Tiles(b))} : b \in ToSet(Blocks)}

\* The event ids of C, scale and per-token scale take turns.
CId(i) == 3 * i
ScaleId(i) == 3 * i + 1
PerTokenScaleId(i) == 3 * i + 2

\* What the constructor sets and the destructor waits for.
InitialEvents ==
    FlattenSeq([i \in 1..UBStages |->
        << V_MTE2(CId(i - 1)), V_MTE2(ScaleId(i - 1)), V_MTE2(PerTokenScaleId(i - 1)), MTE3_V(i - 1) >>])
Events ==
    ToSet(InitialEvents) \union {MTE2_V(id) : id \in 0..(3 * UBStages - 1)} \union {V_MTE3(i) : i \in Ring}
-----------------------------------------------------------------------------
Vector(from, to) == Gather("V", from, to)

LoadTo(tile, buffer, id) == << WaitFlag(V_MTE2(id)), Load(tile, buffer), SetFlag(MTE2_V(id)) >>
Cast(from, to, id) == << WaitFlag(MTE2_V(id)), Vector({from}, to), SetFlag(V_MTE2(id)) >>

\* V fills D by an instruction, MTE3 stores it.
StoreD(fill, slot, to) ==
    << WaitFlag(MTE3_V(slot)), fill, SetFlag(V_MTE3(slot)),
       WaitFlag(V_MTE3(slot)), Gather("MTE3", {D(slot)}, to), SetFlag(MTE3_V(slot)) >>

Duplicate(slot) == [LoadAll(Zero, {D(slot)}) EXCEPT !.pipe = "V"]

\* Mutation of Tile: the scales share the event of C.
TileOneEvent(b, loopIdx, slot) ==
    << WaitFlag(V_MTE2(CId(slot))), Load(GmTile(b, loopIdx), C(slot)), SetFlag(MTE2_V(CId(slot))),
       Load(GmScale(b, loopIdx), Scale(slot)), Load(GmPerTokenScale(b, loopIdx), PerTokenScale(slot)) >>
    \o Cast(C(slot), CFp32, CId(slot))
    \o << Vector({Scale(slot)}, ScaleFp32), Vector({PerTokenScale(slot)}, PerTokenScaleFp32),
          Vector({CFp32, ScaleFp32, PerTokenScaleFp32}, Mul) >>
    \o StoreD(Vector({Mul}, D(slot)), slot, GmD(b, loopIdx))

\* One turn of the loop over the tiles.
Tile(b, loopIdx, slot) ==
    LoadTo(GmTile(b, loopIdx), C(slot), CId(slot))
    \o LoadTo(GmScale(b, loopIdx), Scale(slot), ScaleId(slot))
    \o LoadTo(GmPerTokenScale(b, loopIdx), PerTokenScale(slot), PerTokenScaleId(slot))
    \o Cast(C(slot), CFp32, CId(slot))
    \o Cast(Scale(slot), ScaleFp32, ScaleId(slot))
    \o Cast(PerTokenScale(slot), PerTokenScaleFp32, PerTokenScaleId(slot))
    \o << Vector({CFp32, ScaleFp32, PerTokenScaleFp32}, Mul) >>
    \o StoreD(Vector({Mul}, D(slot)), slot, GmD(b, loopIdx))

ZeroTile(b, loopIdx, slot) == StoreD(Duplicate(slot), slot, GmD(b, loopIdx))
-----------------------------------------------------------------------------
\* The constructor.
Init ==
    /\ calls = Blocks
    /\ ubListId = 0
    /\ pc = "calls"
    /\ todo = [i \in DOMAIN InitialEvents |-> SetFlag(InitialEvents[i])]
    /\ PipesInit(Buffers, Events)

\* operator() for the next block.
Call ==
    /\ pc = "calls" /\ todo = <<>>
    /\ calls # <<>>
    /\ LET b == Head(calls)
           slot(i) == (ubListId + i - 1) % UBStages
       IN  /\ todo' = FlattenSeq([i \in DOMAIN Tiles(b) |->
                        IF b.k = 0 THEN ZeroTile(b, Tiles(b)[i], slot(i)) ELSE Tile(b, Tiles(b)[i], slot(i))])
           /\ ubListId' = (ubListId + Len(Tiles(b))) % UBStages
    /\ calls' = Tail(calls)
    /\ UNCHANGED <<pc, queue, busy, event, mem>>

Destroy ==
    /\ pc = "calls" /\ todo = <<>>
    /\ calls = <<>>
    /\ todo' = [i \in DOMAIN InitialEvents |-> WaitFlag(InitialEvents[i])]
    /\ pc' = "done"
    /\ UNCHANGED <<calls, ubListId, queue, busy, event, mem>>

ScalarNext == Call \/ Destroy \/ (Issue /\ UNCHANGED scalarVars)
PipeNext(p) == Execute(p) /\ UNCHANGED scalarVars

Destroyed == pc = "done" /\ Drained
Terminated == Destroyed /\ UNCHANGED vars

Next == ScalarNext \/ (\E p \in Pipe : PipeNext(p)) \/ Terminated

\* The scalar unit and every pipe go on while they can.
Fairness == WF_vars(ScalarNext) /\ \A p \in Pipe : WF_vars(PipeNext(p))

Spec == Init /\ [][Next]_vars /\ Fairness
-----------------------------------------------------------------------------
(* How the destructor should leave things: every tile of D that falls to   *)
(* this AIV is made of its own C and the scales of its own columns and     *)
(* rows, or zero for a block without k; and every event is back to zero.   *)
CleanExit ==
    /\ Destroyed
    /\ \A e \in Events : event[e] = 0
    /\ \A b \in ToSet(Blocks) : \A i \in ToSet(Tiles(b)) :
          mem[GmD(b, i)] = IF b.k = 0 THEN {Zero}
                           ELSE {GmTile(b, i), GmScale(b, i), GmPerTokenScale(b, i)}
=============================================================================
