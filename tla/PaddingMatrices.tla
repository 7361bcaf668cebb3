---------------------------- MODULE PaddingMatrices ----------------------------
(***************************************************************************)
(* The AIVs of the kernels that rearrange their operands before the        *)
(* multiplication, and copy the result out after it:                       *)
(* gemm/kernel/padding_matmul.hpp, and single_core_slicek_matmul.hpp where *)
(* it calls the same classes.  Each AIV goes through its share of the      *)
(* lines or tiles of A, then of B, in two buffers of UB, and announces     *)
(* that to the AICs.  The classes divide UB differently and nothing but    *)
(* their events keeps one away from what the one before still stores.      *)
(*                                                                         *)
(* A matrix is a number of lines; columns of a ColumnMajor one are its     *)
(* lines, as GetPaddingComputeLayout has it.  Addresses count halves; an   *)
(* accumulator takes two.  The AIVs share nothing but GM, of which each    *)
(* writes its own part, so they run one after the other.  The wait for     *)
(* the AIC before the result is copied out only delays and is left out, as *)
(* is VnchwND2NZ for float.  All loops are bounded by the matrices: that   *)
(* an AIV returns is that it is never stuck before.                        *)
(***************************************************************************)
EXTENDS UbCopies, TileLayouts

CONSTANTS
    Cases,          \* [ub, aivs, calls]: halves in UB, AIVs, what each calls, in order
    BLK_NUM_PER_VECTOR_FRACTAL,
    STRIDE_LIMIT,
    ManyRows        \* <<1024, 4096, 8192>>, from which lines on there are many

VARIABLES
    case,
    aiv,            \* aivId
    calls,          \* the calls this AIV has still to return from
    pc,             \* "calls" between them, "loop" inside one
    loopIdx,
    bufferIndex,
    swapped         \* slots whose inputBuffer and outputBuffer are exchanged

scalarVars == <<case, aiv, calls, pc, loopIdx, bufferIndex, swapped>>
vars == <<scalarVars, pipeVars>>
-----------------------------------------------------------------------------
(***************************************************************************)
(* A call [class, from, to, rows, cols, ld, ...]: the class, the           *)
(* matrices, lines and their length, the distance of lines in `from`; the  *)
(* rest says how lines lie in `to`.  "barrier" stands for what tells the   *)
(* AICs.                                                                   *)
(***************************************************************************)
Least(a, b) == IF a < b THEN a ELSE b
RoundDown(a, b) == (a \div b) * b

\* PaddingRowMajor::GetOffset for the compute layout.
PaddingOffset(c, row, col) ==
    (row \div c.blockRows) * c.blockRows * RoundUp(c.cols, c.blockCols)
    + (col \div c.blockCols) * c.blockRows * c.blockCols
    + (row % c.blockRows) * c.blockCols + (col % c.blockCols)

LayoutNZ(c) == zN(c.rows, c.cols, E)

\* Where an element of the result has to be, and what has to be there.
Destination(c, row, col) ==
    CASE c.class \in {"nd", "removeND"} -> row * c.ldTo + col
      [] c.class = "blockND" -> PaddingOffset(c, row, col)
      [] c.class = "nz" -> Place(LayoutNZ(c), row, col)
Width(c) == IF c.class = "removeND" /\ c.cast THEN 2 ELSE 1     \* halves of an element of `from`
Source(c, row, col) == (row * c.ld + col) * Width(c)

\* Each class fills UB with its two slots of one buffer or of two.
ComputeLength(c) ==
    CASE c.class \in {"nd", "blockND"} -> case.ub \div 2
      [] c.class = "nz" -> case.ub \div 4
      [] c.class = "removeND" -> RoundDown(case.ub \div (2 * (IF c.cast THEN Width(c) + 1 ELSE Width(c))), 2 * E)

DestinationSize(c) ==
    CASE c.class \in {"nd", "removeND"} -> c.rows * c.ldTo
      [] c.class = "blockND" -> RoundUp(c.rows, c.blockRows) * RoundUp(c.cols, c.blockCols)
      [] c.class = "nz" -> Capacity(LayoutNZ(c))

\* The memories: UB and the results.
Results == {case.calls[i] : i \in {j \in DOMAIN case.calls : case.calls[j].class # "barrier"}}
Clear(n) == [o \in 0 .. n - 1 |-> <<>>]
Memories ==
    [m \in {"ub"} \union {c.to : c \in Results} |->
       IF m = "ub" THEN Clear(case.ub) ELSE Clear(DestinationSize(CHOOSE c \in Results : c.to = m))]

Slot == {0, 1}
Arrived(a) == <<"MTE3", "AIC", a>>
Events ==
    UNION {{MTE3_MTE2(i), MTE2_MTE3(i), MTE2_V(i), V_MTE2(i), V_MTE3(i), MTE3_V(i)} : i \in Slot}
    \union {Arrived(a) : a \in 0 .. case.aivs - 1}
-----------------------------------------------------------------------------
(***************************************************************************)
(* PaddingMatrixND, PaddingMatrixBlockND, RemovePaddingNDAndCast: each     *)
(* line is a tile, a tile more than a buffer holds, or less.               *)
(***************************************************************************)
\* Mutation of MIdx: the first AIVs' extra tiles are forgotten.
MIdxEven(c, a) == a * (c.rows \div case.aivs)

TilesPerAiv(c, a) == c.rows \div case.aivs + (IF a < c.rows % case.aivs THEN 1 ELSE 0)
MIdx(c, a) == a * TilesPerAiv(c, a) + (IF a >= c.rows % case.aivs THEN c.rows % case.aivs ELSE 0)

RoundTileLen(c) == RoundUp(c.cols, E)
LoopsPerTile(c) == CeilDiv(c.cols, ComputeLength(c))
TilesPerLoop(c) == ComputeLength(c) \div RoundTileLen(c)
InParts(c) == RoundTileLen(c) > ComputeLength(c)

LineLoops(c, a) ==
    IF InParts(c) THEN TilesPerAiv(c, a) * LoopsPerTile(c)
                  ELSE CeilDiv(TilesPerAiv(c, a), TilesPerLoop(c))

\* What turn i of the loop is about: part of a line, or some lines.
Chunk(c, a, i) ==
    IF InParts(c)
      THEN LET col == (i % LoopsPerTile(c)) * ComputeLength(c)
           IN  [row |-> MIdx(c, a) + i \div LoopsPerTile(c), col |-> col,
                rows |-> 1, cols |-> Least(ComputeLength(c), c.cols - col)]
      ELSE LET tileIdx == i * TilesPerLoop(c)
           IN  [row |-> MIdx(c, a) + tileIdx, col |-> 0,
                rows |-> Least(TilesPerLoop(c), TilesPerAiv(c, a) - tileIdx), cols |-> c.cols]

InUb(c, t) == IF InParts(c) THEN RowMajor(1, t.cols, t.cols) ELSE RowMajor(t.rows, t.cols, RoundTileLen(c))
InGm(c, t) == RowMajor(t.rows, t.cols, c.ld)
From(c, t) == Address(c.from, Source(c, t.row, t.col))
To(c, t) == Address(c.to, Destination(c, t.row, t.col))

LineBuffer(c, slot) == Address("ub", slot * ComputeLength(c) * Width(c))

LoadAndStore(slot, load, stores) ==
    << WaitFlag(MTE3_MTE2(slot)), load, SetFlag(MTE2_MTE3(slot)), WaitFlag(MTE2_MTE3(slot)) >>
    \o stores \o << SetFlag(MTE3_MTE2(slot)) >>

NDTurn(c, t, slot) ==
    LET buffer == LineBuffer(c, slot)
    IN  LoadAndStore(slot, CopyGm2Ub(buffer, From(c, t), InUb(c, t), InGm(c, t)),
                     << CopyUb2Gm(To(c, t), buffer, RowMajor(t.rows, t.cols, c.ldTo), InUb(c, t)) >>)

\* A line is stored in blocks, whole ones.
BlockNDTurn(c, t, slot) ==
    LET buffer == LineBuffer(c, slot)
        blocks == RowMajor(CeilDiv(t.cols, c.blockCols), c.blockCols, c.blockRows * c.blockCols)
        store(i) == CopyUb2Gm(Address(c.to, Destination(c, t.row + i, t.col)),
                              Shift(buffer, i * RoundTileLen(c)), blocks, InUb(c, t))
    IN  LoadAndStore(slot, CopyGm2Ub(buffer, From(c, t), InUb(c, t), InGm(c, t)),
                     [i \in 1 .. t.rows |-> store(i - 1)])

CastBuffer(c, slot) == Address("ub", 2 * ComputeLength(c) * Width(c) + slot * ComputeLength(c))
CastNum(c, t) == IF InParts(c) THEN t.cols ELSE t.rows * RoundTileLen(c)
Cast(c, t, slot) ==
    Move("V", CastBuffer(c, slot), LineBuffer(c, slot), [d \in 0 .. CastNum(c, t) - 1 |-> d * Width(c)])

RemoveNDTurn(c, t, slot) ==
    LET buffer == LineBuffer(c, slot)
        load == CopyGm2UbOf(Width(c), buffer, From(c, t), InUb(c, t), InGm(c, t))
        store(ub) == CopyUb2Gm(To(c, t), ub, RowMajor(t.rows, t.cols, c.ldTo), InUb(c, t))
    IN  IF c.cast
          THEN << WaitFlag(MTE3_MTE2(slot)), load, SetFlag(MTE2_V(slot)),
                  WaitFlag(MTE2_V(slot)), Cast(c, t, slot), SetFlag(V_MTE3(slot)),
                  WaitFlag(V_MTE3(slot)), store(CastBuffer(c, slot)), SetFlag(MTE3_MTE2(slot)) >>
          ELSE LoadAndStore(slot, load, << store(buffer) >>)
-----------------------------------------------------------------------------
(***************************************************************************)
(* PaddingMatrixNZ: fractals, tile by tile, or, for many short lines,      *)
(* through two transpositions.                                             *)
(***************************************************************************)
InputBuffer(c, slot, exchanged) ==
    Address("ub", (2 * slot + (IF slot \in exchanged THEN 1 ELSE 0)) * ComputeLength(c))
OutputBuffer(c, slot, exchanged) == InputBuffer(c, slot, Slot \ exchanged)

\* CopyUb2Gm of zN layouts; a block of DataCopy is a line of whole blocks.
FractalsToGm(to, from, dst, src) ==
    LET blockLen == dst.shape[0] * dst.shape[1]
        gap(L) == (L.stride[3] - blockLen * dst.shape[2]) \div E
        column(i) == Move("MTE3", Shift(to, i * dst.stride[3]), Shift(from, i * src.stride[3]),
                              PadToGm(1, RoundUp(dst.org[1], C0_NUM_PER_FRACTAL) * E, 0, 0))
    IN  IF dst.stride[3] \div E < STRIDE_LIMIT
          THEN << Move("MTE3", to, from, PadToGm(dst.shape[3], blockLen * E, gap(src), gap(dst) * E)) >>
          ELSE [i \in 1 .. CeilDiv(dst.org[2], E) |-> column(i - 1)]

\* Mutation of TileCols: all columns in one tile.
TileColsAll(c) == RoundUp(c.cols, E)

\* A tile has the lines of a fractal.
TileCols(c) == RoundUp(c.cols \div CeilDiv(c.cols, ComputeLength(c) \div C0_NUM_PER_FRACTAL), E)
RowTiles(c) == CeilDiv(c.rows, C0_NUM_PER_FRACTAL)
ColTiles(c) == CeilDiv(c.cols, TileCols(c))

CommonTile(c, i) ==
    LET row == (i \div ColTiles(c)) * C0_NUM_PER_FRACTAL
        col == (i % ColTiles(c)) * TileCols(c)
    IN  [row |-> row, col |-> col,
         rows |-> Least(C0_NUM_PER_FRACTAL, c.rows - row), cols |-> Least(TileCols(c), c.cols - col)]

\* Copy: each repeat moves a block of every line, beyond the last line too.
CopyUb2Ub(to, from, dst, src) ==
    LET n == BLK_NUM_PER_VECTOR_FRACTAL
        places == [d \in {q * dst.stride[3] + k : q \in 0 .. CeilDiv(src.cols, E) - 1, k \in 0 .. n * E - 1} |->
                     LET k == d % dst.stride[3]
                     IN  (d \div dst.stride[3]) * E + (k \div E) * src.ld + (k % E)]
    IN  [i \in 1 .. CeilDiv(src.rows, n) |->
           Move("V", Shift(to, (i - 1) * n * dst.stride[0]), Shift(from, (i - 1) * n * src.ld), places)]

\* MTE2 loads, V rearranges, MTE3 stores.
ThroughV(slot, load, vector, stores) ==
    << WaitFlag(V_MTE2(slot)), load, SetFlag(MTE2_V(slot)), WaitFlag(MTE2_V(slot)), WaitFlag(MTE3_V(slot)) >>
    \o vector
    \o << SetFlag(V_MTE2(slot)), SetFlag(V_MTE3(slot)), WaitFlag(V_MTE3(slot)) >>
    \o stores \o << SetFlag(MTE3_V(slot)) >>

CommonND2NZ(c, t, slot) ==
    LET input == InputBuffer(c, slot, {})
        output == OutputBuffer(c, slot, {})
        ubIn == RowMajor(t.rows, RoundUp(t.cols, E), RoundUp(t.cols, E))
        ubOut == zN(t.rows, t.cols, E)
        continuous == TileCols(c) >= c.cols /\ c.cols % E = 0 /\ c.cols = c.ld
        all == t.rows * t.cols
        load == IF continuous THEN CopyGm2Ub(input, From(c, t), RowMajor(1, all, all), RowMajor(1, all, c.ld))
                              ELSE CopyGm2Ub(input, From(c, t), ubIn, InGm(c, t))
    IN  ThroughV(slot, load, CopyUb2Ub(output, input, ubOut, ubIn),
                 FractalsToGm(To(c, t), output, TileLayout(LayoutNZ(c), t.rows, t.cols), ubOut))

VnchwMaxInnerAxisLen(c) == ComputeLength(c) \div (E * E)

UsesVnchw(c) ==
    LET max == VnchwMaxInnerAxisLen(c) IN
    /\ c.cols % E # 0
    /\ c.rows > ManyRows[1]
    /\ \/ c.cols < max
       \/ c.cols < max * 2 /\ c.cols % 2 = 0
       \/ c.cols < max * 4 /\ c.cols % 4 = 0
    /\ c.cols = c.ld

\* The third condition of the code, more than 2048 lines, changes nothing.
TransMatrixCols(c) ==
    LET whole == c.rows > ManyRows[3] /\ c.cols < VnchwMaxInnerAxisLen(c)
        halved == c.rows > ManyRows[2] /\ c.cols < VnchwMaxInnerAxisLen(c) * 2
        parts == CASE whole \/ c.cols % 2 = 1 -> 1
                   [] ~whole /\ (c.cols % 4 = 2 \/ (c.cols % 4 = 0 /\ halved)) -> 2
                   [] ~whole /\ c.cols % 4 = 0 /\ ~halved -> 4
    IN  (c.cols * E) \div parts
InnerAxisPerCols(c) == TransMatrixCols(c) \div c.cols
TileRows(c) == InnerAxisPerCols(c) * E

\* TransDataTo5HD transposes squares of E by E: the tile as E lines first, then,
\* from there, each block of columns.
TransposeTile(c, to, from) ==
    Move("V", to, from,
             [d \in 0 .. TransMatrixCols(c) * E - 1 |-> (d % E) * TransMatrixCols(c) + (d \div E)])

TransposeColumns(c, to, from, i) ==
    LET places == [d \in 0 .. TileRows(c) * E - 1 |->
                     LET line == d \div E
                         r == line % InnerAxisPerCols(c)
                     IN  (i * E + (d % E) + r * c.cols) * E + (line \div InnerAxisPerCols(c))]
    IN  Move("V", Shift(to, i * TileRows(c) * E), from, places)

VnchwTile(c, i) ==
    [row |-> i * TileRows(c), col |-> 0, rows |-> Least(TileRows(c), c.rows - i * TileRows(c)), cols |-> c.cols]

\* The result ends up where the input was.
VnchwND2NZ(c, t, slot) ==
    LET input == InputBuffer(c, slot, swapped)
        output == OutputBuffer(c, slot, swapped)
        all == t.rows * t.cols
        columns == [i \in 1 .. CeilDiv(c.cols, E) |-> TransposeColumns(c, input, output, i - 1)]
    IN  ThroughV(slot,
                 CopyGm2Ub(input, From(c, t), RowMajor(1, RoundUp(all, E), RoundUp(all, E)),
                           RowMajor(1, all, c.ld)),
                 << TransposeTile(c, output, input) >> \o columns,
                 FractalsToGm(To(c, t), input, TileLayout(LayoutNZ(c), t.rows, c.cols),
                              TileLayout(zN(TileRows(c), c.cols, E), t.rows, c.cols)))

Tiles(c) == IF UsesVnchw(c) THEN CeilDiv(c.rows, TileRows(c)) ELSE RowTiles(c) * ColTiles(c)
-----------------------------------------------------------------------------
Lines(c) == c.class \in {"nd", "blockND", "removeND"}

InitialEvents(c) ==
    IF Lines(c) THEN << MTE3_MTE2(0), MTE3_MTE2(1) >> ELSE << V_MTE2(0), V_MTE2(1), MTE3_V(0), MTE3_V(1) >>

\* What is in UB when the kernel starts, and in the workspace, is nothing of use.
Init ==
    /\ case \in Cases
    /\ aiv = 0
    /\ calls = case.calls
    /\ pc = "calls"
    /\ loopIdx = 0 /\ bufferIndex = 0 /\ swapped = {}
    /\ todo = <<>>
    /\ PipesHolding(Memories, Events)

Call == Head(calls)

\* The constructor of a class and operator() up to its loop.
Enter ==
    /\ pc = "calls" /\ todo = <<>>
    /\ calls # <<>> /\ Call.class # "barrier"
    /\ todo' = [i \in DOMAIN InitialEvents(Call) |-> SetFlag(InitialEvents(Call)[i])]
    /\ loopIdx' = IF Lines(Call) THEN 0 ELSE aiv
    /\ bufferIndex' = 0
    /\ swapped' = {}
    /\ pc' = "loop"
    /\ UNCHANGED <<case, aiv, calls, queue, busy, event, mem>>

Loops == IF Lines(Call) THEN LineLoops(Call, aiv) ELSE Tiles(Call)

\* Mutation of Exchanged: input and output keep their buffers.
Kept(c, slot) == swapped

\* The transpositions leave input and output of a slot exchanged.
Exchanged(c, slot) ==
    IF c.class = "nz" /\ UsesVnchw(c) THEN (swapped \ {slot}) \union ({slot} \ swapped) ELSE swapped

Turn ==
    /\ pc = "loop" /\ todo = <<>>
    /\ loopIdx < Loops
    /\ todo' = CASE Call.class = "nd" -> NDTurn(Call, Chunk(Call, aiv, loopIdx), bufferIndex)
                 [] Call.class = "blockND" -> BlockNDTurn(Call, Chunk(Call, aiv, loopIdx), bufferIndex)
                 [] Call.class = "removeND" -> RemoveNDTurn(Call, Chunk(Call, aiv, loopIdx), bufferIndex)
                 [] Call.class = "nz" /\ ~UsesVnchw(Call) ->
                      CommonND2NZ(Call, CommonTile(Call, loopIdx), bufferIndex)
                 [] Call.class = "nz" /\ UsesVnchw(Call) ->
                      VnchwND2NZ(Call, VnchwTile(Call, loopIdx), bufferIndex)
    /\ loopIdx' = loopIdx + (IF Lines(Call) THEN 1 ELSE case.aivs)
    /\ bufferIndex' = 1 - bufferIndex
    /\ swapped' = Exchanged(Call, bufferIndex)
    /\ UNCHANGED <<case, aiv, calls, pc, queue, busy, event, mem>>

\* Behind the loop.
Leave ==
    /\ pc = "loop" /\ todo = <<>>
    /\ loopIdx >= Loops
    /\ todo' = [i \in DOMAIN InitialEvents(Call) |-> WaitFlag(InitialEvents(Call)[i])]
    /\ calls' = Tail(calls)
    /\ pc' = "calls"
    /\ UNCHANGED <<case, aiv, loopIdx, bufferIndex, swapped, queue, busy, event, mem>>

\* Mutation of Announce: the flag is set by the pipe that loads.
AnnounceLoaded ==
    /\ pc = "calls" /\ todo = <<>>
    /\ calls # <<>> /\ Call.class = "barrier"
    /\ todo' = << [SetFlag(Arrived(aiv)) EXCEPT !.pipe = "MTE2"] >>
    /\ calls' = Tail(calls)
    /\ UNCHANGED <<case, aiv, pc, loopIdx, bufferIndex, swapped, queue, busy, event, mem>>

\* CrossCoreBarrier, then the flag for the AIC, both on PIPE_MTE3.
Announce ==
    /\ pc = "calls" /\ todo = <<>>
    /\ calls # <<>> /\ Call.class = "barrier"
    /\ todo' = << SetFlag(Arrived(aiv)) >>
    /\ calls' = Tail(calls)
    /\ UNCHANGED <<case, aiv, pc, loopIdx, bufferIndex, swapped, queue, busy, event, mem>>

\* Behind PipeBarrier<PIPE_ALL>: the next AIV.
NextAiv ==
    /\ pc = "calls" /\ calls = <<>> /\ Drained
    /\ aiv < case.aivs - 1
    /\ aiv' = aiv + 1
    /\ calls' = case.calls
    /\ mem' = [mem EXCEPT !["ub"] = Clear(case.ub)]
    /\ UNCHANGED <<case, pc, loopIdx, bufferIndex, swapped, todo, queue, busy, event>>

ScalarNext == Enter \/ Turn \/ Leave \/ Announce \/ NextAiv \/ (Issue /\ UNCHANGED scalarVars)
PipeNext(p) == Execute(p) /\ UNCHANGED scalarVars

Returned == calls = <<>> /\ aiv = case.aivs - 1 /\ Drained
Terminated == Returned /\ UNCHANGED vars

Next == ScalarNext \/ (\E p \in Pipe : PipeNext(p)) \/ Terminated

Spec == Init /\ [][Next]_vars
-----------------------------------------------------------------------------
Whole(c) ==
    \A row \in 0 .. c.rows - 1, col \in 0 .. c.cols - 1 :
       mem[c.to][Destination(c, row, col)] = Address(c.from, Source(c, row, col))

(* The AICs begin when all AIVs have set the flag and passed their barrier: *)
(* then every element of the operands is where the layout after padding     *)
(* has it, whichever AIV had to put it there.                               *)
PaddedBeforeUse ==
    (\A a \in 0 .. case.aivs - 1 : event[Arrived(a)] > 0) =>
      \A i \in DOMAIN case.calls :
         (\E j \in DOMAIN case.calls : j > i /\ case.calls[j].class = "barrier") => Whole(case.calls[i])

(* What is loaded, rearranged and stored stays within UB, for any length of *)
(* lines: the static assertions compare its size to COMPUTE_LENGTH only.    *)
WithinUB ==
    \A p \in busy : Head(queue[p]).reads \union Head(queue[p]).writes \subseteq 0 .. case.ub - 1

(* How the kernel should leave things: every element of each result in its  *)
(* place, and all events but the flags for the AIC taken back.              *)
CleanExit ==
    /\ Returned
    /\ \A e \in Events \ {Arrived(a) : a \in 0 .. case.aivs - 1} : event[e] = 0
    /\ \A i \in DOMAIN case.calls : case.calls[i].class # "barrier" => Whole(case.calls[i])
=============================================================================
