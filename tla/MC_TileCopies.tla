---------------------------- MODULE MC_TileCopies ----------------------------
(***************************************************************************)
(* Two programs that rearrange matrices, for TLC: an operand tile on its   *)
(* way from GM to L0 (TileCopies), with fractals of two lines, a C0 block  *)
(* having two elements of half and four of int8; and the AIVs that pad     *)
(* whole matrices before the AICs begin (PaddingMatrices), with fractals   *)
(* of eight lines of eight elements.  Init chooses the program.            *)
(***************************************************************************)
EXTENDS TileCopies, TLC

VARIABLES
    program,
    case, aiv, calls, pc, loopIdx, bufferIndex, swapped,    \* padding
    issue, queue, busy, event, mem                          \* its pipes

copiesVars == vars
paddingVars == <<case, aiv, calls, pc, loopIdx, bufferIndex, swapped, issue, queue, busy, event, mem>>

Half == 2
Int8 == 4

MC_L1Outer == (Half :> 6) @@ (Int8 :> 8)
MC_L1K == (Half :> 6) @@ (Int8 :> 12)
MC_L0K == (Half :> 4) @@ (Int8 :> 4)

Path(side, gm, tag, copy, e, block) ==
    [side |-> side, gm |-> gm, l1 |-> tag, copy |-> copy, e |-> e, block |-> block]

\* TileCopy: the layouts of L1ATypeSelector and L1BTypeSelector.
PingpongPaths ==
    {Path(side, g[1], g[2], "Default", e, "pingpong") :
       side \in {"A", "B"}, e \in {Half, Int8},
       g \in {<<"RowMajor", "zN">>, <<"ColumnMajor", "nZ">>}}
    \union
    {Path(side, g[1], g[2], "Default", Half, "pingpong") :
       side \in {"A", "B"},
       g \in {<<"PaddingRowMajor", "zN">>, <<"PaddingColumnMajor", "nZ">>, <<"zN", "zN">>, <<"nZ", "nZ">>}}

\* The copies that replace CopyGmToL1 in the other TileCopy structs.
OptimizedPaths ==
    {Path("A", g[1], g[2], g[3], Half, "pingpong") :
       g \in {<<"RowMajor", "zN", "DynamicOptimized">>, <<"ColumnMajor", "nZ", "DynamicOptimized">>,
              <<"RowMajor", "zN", "GMMPTD">>, <<"RowMajor", "zN", "IntervalDataCopy">>,
              <<"ColumnMajor", "nZ", "IntervalDataCopy">>,
              <<"PaddingRowMajor", "zN", "IntervalDataCopy">>,
              <<"PaddingColumnMajor", "nZ", "IntervalDataCopy">>}}

\* TileCopyGemm: the layouts of L1AndL0TypeSelectorGemm.
GemmPaths ==
    {Path(g[1], g[2], g[3], "Default", Half, "gemm") :
       g \in {<<"A", "RowMajor", "zN">>, <<"A", "ColumnMajor", "nN">>,
              <<"B", "RowMajor", "zZ">>, <<"B", "ColumnMajor", "nZ">>}}
    \union
    {Path(g[1], g[2], g[3], "Default", Int8, "gemm") :
       g \in {<<"A", "RowMajor", "zN">>, <<"A", "ColumnMajor", "nZ">>,
              <<"B", "RowMajor", "zN">>, <<"B", "ColumnMajor", "nZ">>}}

MC_Paths == PingpongPaths \union OptimizedPaths \union GemmPaths
-----------------------------------------------------------------------------
Matrix(class, from, to, rows, cols, ld) ==
    [class |-> class, from |-> from, to |-> to, rows |-> rows, cols |-> cols, ld |-> ld]
Nz(from, to, rows, cols, ld) == Matrix("nz", from, to, rows, cols, ld)
Nd(from, to, rows, cols, ld, ldTo) == Matrix("nd", from, to, rows, cols, ld) @@ [ldTo |-> ldTo]
BlockNd(from, to, rows, cols, ld, blockRows, blockCols) ==
    Matrix("blockND", from, to, rows, cols, ld) @@ [blockRows |-> blockRows, blockCols |-> blockCols]
RemoveNd(from, to, rows, cols, ld, ldTo, cast) ==
    Matrix("removeND", from, to, rows, cols, ld) @@ [ldTo |-> ldTo, cast |-> cast]
Barrier == [class |-> "barrier"]

Kernel(ub, aivs, list) == [ub |-> ub, aivs |-> aivs, calls |-> list]

\* Short lines and lines longer than a buffer; fewer and more lines than AIVs;
\* fractals in several columns of tiles, dense and not; quarters, halves and whole
\* blocks of lines transposed at once, three tiles to two slots; a class after
\* one that divides UB otherwise.
MC_Cases ==
    { Kernel(32, 2, <<Nd("A", "WA", 5, 3, 3, 8), Nd("B", "WB", 3, 19, 20, 24), Barrier>>),
      Kernel(64, 2, <<BlockNd("A", "WA", 23, 6, 6, 4, 8), BlockNd("B", "WB", 5, 40, 40, 2, 16), Barrier>>),
      Kernel(256, 2, <<Nz("A", "WA", 19, 19, 19), Nz("B", "WB", 11, 8, 8), Barrier>>),
      Kernel(512, 2, <<Nz("A", "WA", 72, 4, 4), Nd("B", "WB", 4, 9, 9, 16), Barrier>>),
      Kernel(2048, 2, <<Nd("A", "WA", 3, 5, 5, 8), Nz("B", "WB", 17, 3, 3), Barrier>>),
      Kernel(2048, 1, <<Nz("A", "WA", 130, 2, 2), Nz("B", "WB", 20, 6, 6), Barrier,
                        RemoveNd("WC", "C", 5, 3, 3, 4, TRUE)>>),
      Kernel(96, 2, <<RemoveNd("WC", "C", 5, 19, 24, 20, TRUE), RemoveNd("WD", "D", 5, 3, 3, 4, FALSE)>>),
      Kernel(96, 2, <<RemoveNd("WC", "C", 9, 3, 8, 4, TRUE), RemoveNd("WD", "D", 3, 50, 56, 50, FALSE)>>) }

MC_ManyRows == <<16, 48, 96>>

Padding == INSTANCE PaddingMatrices
    WITH Cases <- MC_Cases, E <- 8, C0_NUM_PER_FRACTAL <- 8, BLK_NUM_PER_VECTOR_FRACTAL <- 4,
         STRIDE_LIMIT <- 32, ManyRows <- MC_ManyRows, QueueDepth <- 5, todo <- issue
-----------------------------------------------------------------------------
Unused(x) == x = "unused"

MC_Init ==
    \/ /\ program = "copies" /\ Init
       /\ Unused(case) /\ Unused(aiv) /\ Unused(calls) /\ Unused(pc) /\ Unused(loopIdx) /\ Unused(bufferIndex)
       /\ Unused(swapped) /\ Unused(issue) /\ Unused(queue) /\ Unused(busy) /\ Unused(event) /\ Unused(mem)
    \/ /\ program = "padding" /\ Padding!Init
       /\ Unused(path) /\ Unused(tile) /\ Unused(l1) /\ Unused(l0) /\ part = 0 /\ todo = <<>>

MC_Next ==
    \/ program = "copies" /\ Next /\ UNCHANGED <<program, paddingVars>>
    \/ program = "padding" /\ Padding!Next /\ UNCHANGED <<program, copiesVars>>

MC_Spec == MC_Init /\ [][MC_Next]_<<program, copiesVars, paddingVars>>
-----------------------------------------------------------------------------
(* The events keep MTE2, V and MTE3 apart in UB, inside a class and from   *)
(* one class to the next, which lays its buffers elsewhere.                *)
NoUbRace == program = "padding" => Padding!RaceFree

(* The AICs do not begin before every element of the operands is where the *)
(* layout after padding has it, whichever AIV had to put it there.         *)
PaddedBeforeUse == program = "padding" => Padding!PaddedBeforeUse

(* What is loaded, rearranged and stored stays within UB, whatever the     *)
(* length of the lines and the tail of the last tile.                      *)
WithinUB == program = "padding" => Padding!WithinUB

(* When the last AIV returns every element of each result, the one copied  *)
(* out without its padding included, is in its place, and all events are   *)
(* taken back but the flags for the AIC.                                   *)
PaddedAtExit == program = "padding" /\ Padding!Returned => Padding!CleanExit
=============================================================================
