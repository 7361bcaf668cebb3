--------------------------- MODULE MC_CoreDivision ---------------------------
(***************************************************************************)
(* How one product is divided over the cores, for TLC: the two kernels     *)
(* whose cores share a block of C and add up what they have, the block     *)
(* schedulers, the kernels over many products and the convolutions.  Init  *)
(* chooses the program; CONSTANT Schedules are the schedulers' problems.   *)
(* The stream-K kernel is this module's own, and stays where it begins     *)
(* when another program is chosen.                                         *)
(***************************************************************************)
EXTENDS StreamkMatmul, Sequences

CONSTANTS
    Programs,       \* those that Init chooses from
    Schedules       \* the problems of the schedulers

VARIABLES
    program,
    problem, index,                                     \* all but streamk: the problem and loopIdx
    splitkAic, splitkAiv, splitkFinish,                 \* splitk: aicPc, aivPc, finish
    workspace, at, event, buffer, dst,
    core, group, scheduler, call, assigned, clash       \* schedulers, products, convolutions

streamkVars == vars
splitkVars == <<splitkAic, splitkAiv, splitkFinish, workspace, at, event, buffer, dst>>
schedulerVars == <<core, group, scheduler, assigned, clash>>
allVars == <<program, streamkVars, problem, index, splitkVars, schedulerVars, call>>
-----------------------------------------------------------------------------
\* Problems with fewer blocks than cores and more, with whole rounds and blocks
\* left over or none, with k ragged or not, and with fewer tiles than cores.
StreamkShapes ==
    [blocks : 1..5, k : {1, 3, 4, 5}, cores : {2}]
        \cup [blocks : {2, 4, 5}, k : {5}, cores : {3}] \cup [blocks : {2}, k : {7}, cores : {3}]

\* Each is small in a way of its own.
SplitkProblem(size, tile, swizzle, factor, cores, stages) ==
    [m |-> size[1], n |-> size[2], k |-> size[3],
     tileM |-> tile[1], tileN |-> tile[2], tileK |-> tile[3],
     offset |-> swizzle[1], direction |-> swizzle[2],
     splitkFactor |-> factor, coreNum |-> cores, stages |-> stages]

SplitkProblems == {
    \* three tiles for each AIV through one buffer, and through two
    SplitkProblem(<<5, 9, 5>>, <<2, 4, 2>>, <<2, 0>>, 2, 1, 1),
    SplitkProblem(<<5, 9, 5>>, <<2, 4, 2>>, <<2, 0>>, 2, 1, 2),
    \* three slices of 2, 1 and 1 k tiles, the last short; AIVs without a tile
    SplitkProblem(<<3, 5, 7>>, <<2, 2, 2>>, <<2, 1>>, 3, 2, 1),
    \* fewer blocks than cores, k not split
    SplitkProblem(<<2, 4, 3>>, <<2, 4, 2>>, <<3, 0>>, 1, 2, 2),
    \* fewer elements than AIVs
    SplitkProblem(<<1, 3, 2>>, <<2, 2, 1>>, <<3, 1>>, 2, 2, 1),
    \* a last band of one row; rows copied one by one
    SplitkProblem(<<8, 6, 2>>, <<2, 3, 1>>, <<3, 0>>, 2, 2, 1)}

Splitk == INSTANCE SplitkMatmul
    WITH Problems <- SplitkProblems, SubBlockNum <- 2, VectorBlock <- 8, Align <- 4, Blk <- 2, ComputeLength <- 24,
         StrideLimit <- 46, loopIdx <- index, aicPc <- splitkAic, aivPc <- splitkAiv, finish <- splitkFinish
-----------------------------------------------------------------------------
(* Windows of two rows of tiles and few cores: up to five waves, full and  *)
(* low last ones.                                                          *)
Shape(m, n) == [m |-> m, n |-> n]

Aswt(cores, gmm, groups) ==
    [scheduler |-> "Aswt", cores |-> cores, gmm |-> gmm, tile |-> Shape(2, 3), groups |-> groups, k |-> 1]

AswtCases ==
    {Aswt(cores, FALSE, <<Shape(m, n)>>) : cores \in 2 .. 6, m \in {1, 2, 4, 5, 8, 10}, n \in {1, 3, 5, 7}}

Tiles(c, g) == CeilDiv(c.groups[g].m, c.tile.m) * CeilDiv(c.groups[g].n, c.tile.n)

\* The core after the last one of the groups that come before the last group.
LastStart(c) == (IF Len(c.groups) = 2 THEN Tiles(c, 1) ELSE Tiles(c, 1) + Tiles(c, 2)) % c.cores

LastEnd(c) == (LastStart(c) + Tiles(c, Len(c.groups)) - 1) % c.cores

SplitsTail(c) == LastEnd(c) + 1 <= c.cores \div 2

GroupedAswtCases ==
    {Aswt(cores, TRUE, <<Shape(m1, n), Shape(m2, n)>>) :
       cores \in 3 .. 5, m1 \in 0 .. 5, m2 \in 0 .. 8, n \in {2, 4}}
    \union
    {Aswt(cores, TRUE, <<Shape(m1, 4), Shape(0, 4), Shape(m2, 4)>>) :
       cores \in 4 .. 5, m1 \in 1 .. 5, m2 \in 1 .. 8}

\* The last group is shorter than the tail wave it is taken to have.
ShortLast(c) == SplitsTail(c) /\ Tiles(c, Len(c.groups)) < LastEnd(c) + 1

EmptyLast(c) == SplitsTail(c) /\ c.groups[Len(c.groups)].m = 0

\* GemmGroupedAswtTailSplitSwizzle is given both.
RollCases ==
    {[scheduler |-> "GroupedAswt", cores |-> cores, tile |-> Shape(4, 4), transA |-> t[1], transB |-> t[2],
      balance |-> t[3], groups |-> <<Shape(m1, n), Shape(m2, n), Shape(m3, n)>>, k |-> 1] :
       cores \in {4, 5}, m1 \in {3, 9}, m2 \in {0, 5, 6}, m3 \in {0, 1, 4, 7, 13}, n \in {3, 7},
       t \in {<<FALSE, TRUE, FALSE>>, <<TRUE, TRUE, FALSE>>, <<FALSE, FALSE, TRUE>>}}

TaskCases(name, cores, shapes, ks, offsets, tile) ==
    {[scheduler |-> name, cores |-> c, tile |-> tile, offset |-> o, direction |-> d,
      groups |-> <<s>>, k |-> k] :
       c \in cores, o \in offsets, d \in {0, 1}, s \in shapes, k \in ks}

Square(ms) == {Shape(m, n) : m \in ms, n \in ms}

L1FullLoadCases ==
    TaskCases("L1FullLoad", {2, 3, 5}, Square({1, 3, 4, 6}), {1}, 1 .. 3, [m |-> 1, n |-> 2, k |-> 1])

SingleCoreSplitkCases ==
    TaskCases("SingleCoreSplitk", {2, 3, 7}, Square({1, 2, 5, 6, 7}), {1, 3}, 1 .. 4,
              [m |-> 1, n |-> 1, k |-> 2])

TailSplitkCases ==
    TaskCases("TailSplitk", 2 .. 6, Square({1, 2, 3}), {1, 3, 5, 6}, {1, 2}, [m |-> 1, n |-> 1, k |-> 1])
    \union
    TaskCases("TailSplitk", {4, 7}, Square({1, 3, 5}), {5, 7}, {2}, [m |-> 2, n |-> 2, k |-> 2])

AllSchedules ==
    AswtCases
    \union {c \in GroupedAswtCases : ~ShortLast(c) /\ ~EmptyLast(c)}
    \union RollCases \union L1FullLoadCases \union SingleCoreSplitkCases \union TailSplitkCases

\* The cases left out: EachElementOnce fails in both.
ShortLastCases == {c \in GroupedAswtCases : ShortLast(c) /\ c.groups[Len(c.groups)].m > 0}

EmptyLastCases == {c \in GroupedAswtCases : EmptyLast(c)}
Schedulers == INSTANCE BlockSchedulers
    WITH WINDOW_LEN <- 2, UINT_RANGE <- 65536, BLOCK_CUBE <- 1, INNER_AXIS_MIN_SPLIT_VAL <- 2, BASE_M_ALIGN <- 2,
         Cases <- Schedules, case <- problem, loopIdx <- index

-----------------------------------------------------------------------------
(* Groups without rows or without k, smaller than a tile, of one block and *)
(* of several, and fewer blocks than cores.                                *)
Product(m, n, k) == [m |-> m, n |-> n, k |-> k]

\* The offset exceeds the blocks of a column, or makes a low last band.
Products(kernel, cores, trans, groups) ==
    [kernel : {kernel}, cores : cores, transA : trans, tile : {Shape(2, 2)}, offset : {2}, direction : {0, 1},
     groups : groups]

Grouped(ms, ns, ks) ==
    {<<Product(m1, n1, k1), Product(m2, n2, k2), Product(3, 2, 2)>> :
       m1 \in ms, m2 \in ms, n1 \in ns, n2 \in ns, k1 \in ks, k2 \in ks}

\* Groups that differ in m only, or in k only.
ByRows(ms) == {<<Product(m1, 3, 2), Product(m2, 3, 2), Product(m3, 3, 2)>> : m1 \in ms, m2 \in ms, m3 \in ms}
ByK(ks) == {<<Product(5, 3, k1), Product(5, 3, k2), Product(5, 3, k3)>> : k1 \in ks, k2 \in ks, k3 \in ks}

Single == {<<Product(m, n, 3)>> : m \in {1, 4, 7}, n \in {1, 2, 5}}

AllProducts ==
    Products("Grouped", {2, 4}, BOOLEAN, Grouped({1, 5}, {2, 5}, {1, 3}))
    \union Products("SliceM", {2, 3, 5}, {FALSE}, ByRows({0, 2, 5}))
    \union Products("SliceK", {2, 3}, {TRUE}, ByK({0, 1, 3}))
    \union Products("Gelu", {2, 3}, {FALSE}, ByRows({0, 1, 7}))
    \union Products("Batched", {2, 3}, BOOLEAN, {<<s[1], s[1], s[1]>> : s \in Single})
    \union Products("Preload", {2, 3}, {FALSE}, Single)
    \union Products("Gemm", {2, 3}, {FALSE}, Single)
    \union Products("GroupGemm", {2, 4}, {FALSE}, Grouped({1, 5}, {2, 5}, {1, 3}))

Kernels == INSTANCE CubeKernels
    WITH Cases <- AllProducts, UINT_RANGE <- 65536, UbBufferSize <- 4, Align <- 4,
         L1TileShapes <- <<Shape(2, 3), Shape(3, 2), Shape(4, 1)>>, SizeUnit <- 4,
         case <- problem, loopIdx <- index, cursor <- scheduler, written <- assigned

-----------------------------------------------------------------------------
(* Images smaller and larger than a tile, with padding that a block lies   *)
(* in by a part and padding after the last output; strides and dilations   *)
(* that step over inputs; channels and depths that leave a part.           *)
Plane(h, w) == [h |-> h, w |-> w]
Volume(d, h, w) == [d |-> d, h |-> h, w |-> w]
Around(top, bottom, left, right) == [top |-> top, bottom |-> bottom, left |-> left, right |-> right]
FourLoops(n, d, c1, hw) == [n |-> n, d |-> d, c1 |-> c1, hw |-> hw]

Conv2d(hi, kernel, pads, stride, dilation) ==
    [kind : {"2d"}, cores : {2}, batch : {2}, cin1 : {2}, hi : hi, wi : {4}, cout : {3, 5}, kernel : {kernel},
     pad : pads, stride : {stride}, dilation : {dilation},
     tile : {[ho |-> 2, wo |-> 3, cout |-> 2], [ho |-> 1, wo |-> 2, cout |-> 4]}, offset : {2}, direction : {1}]

Conv3d(cin1, size, kernel, pads, stride, dilation, parts) ==
    [kind : {"3d"}, cores : {2}, batch : {2}, cin1 : {cin1}, di : {size.d}, hi : {size.h}, wi : {size.w},
     cout1 : {3}, kernel : {kernel}, pad : pads, stride : {stride}, dilation : {dilation},
     loops : {FourLoops(2, 2, 2, 2)}, offset : {2}, direction : {0}, mAL1 : {4}, mL0 : {2, 4},
     fmapL1 : {[kd |-> p[1], c1 |-> p[2]] : p \in parts},
     filterL1 : {[kd |-> 1, c1 |-> 1, n |-> 1], [kd |-> 2, c1 |-> 2, n |-> 2]}]

ConvolutionCases ==
    Conv2d({2, 5}, Plane(3, 2), {Around(2, 1, 1, 0), Around(0, 2, 0, 1)}, Plane(1, 1), Plane(1, 1))
    \union Conv2d({5}, Plane(2, 2), {Around(2, 2, 1, 1), Around(1, 0, 0, 1)}, Plane(2, 3), Plane(2, 1))
    \union Conv2d({3}, Plane(1, 1), {Around(0, 0, 0, 0)}, Plane(2, 1), Plane(1, 1))
    \union Conv3d(2, Volume(3, 4, 2), Volume(3, 2, 2), {Volume(1, 1, 0), Volume(2, 0, 1)}, Volume(1, 1, 1),
                  Volume(1, 1, 1), {<<1, 1>>, <<1, 2>>, <<2, 2>>, <<3, 2>>})
    \union Conv3d(1, Volume(4, 5, 3), Volume(3, 3, 1), {Volume(1, 2, 0), Volume(3, 1, 1)}, Volume(2, 1, 1),
                  Volume(2, 1, 1), {<<1, 1>>, <<2, 1>>})
    \union Conv3d(1, Volume(3, 3, 3), Volume(1, 1, 1), {Volume(1, 2, 0), Volume(0, 1, 1)}, Volume(1, 2, 1),
                  Volume(1, 1, 1), {<<1, 1>>})

Convs == INSTANCE Convolutions
    WITH Cases <- ConvolutionCases, C0 <- 2, UINT_RANGE <- 65536, case <- problem, loopIdx <- index,
         written <- assigned

ASSUME Assumptions
ASSUME Splitk!Assumptions
ASSUME Schedulers!CasesAssumption
-----------------------------------------------------------------------------
Unused(x) == x = "unused"
IdleShape == [blocks |-> 1, k |-> 1, cores |-> 2]
StreamkIdle == shape = IdleShape /\ Init
SplitkUnused ==
    /\ Unused(splitkAic) /\ Unused(splitkAiv) /\ Unused(splitkFinish)
    /\ Unused(workspace) /\ Unused(at) /\ Unused(event) /\ Unused(buffer) /\ Unused(dst)
SchedulersUnused == Unused(core) /\ Unused(group) /\ Unused(scheduler) /\ Unused(assigned) /\ Unused(clash)

MC_Init == program \in Programs /\
    \/ program = "streamk" /\ Init /\ Unused(problem) /\ Unused(index) /\ SplitkUnused /\ SchedulersUnused
          /\ Unused(call)
    \/ program = "splitk" /\ Splitk!Init /\ StreamkIdle /\ SchedulersUnused /\ Unused(call)
    \/ program = "schedulers" /\ Schedulers!Init /\ StreamkIdle /\ SplitkUnused /\ Unused(call)
    \/ program = "products" /\ Kernels!Init /\ StreamkIdle /\ SplitkUnused
    \/ program = "convolutions" /\ Convs!Init /\ StreamkIdle /\ SplitkUnused
          /\ Unused(group) /\ Unused(scheduler) /\ Unused(call)

KernelNext ==
    \/ program = "streamk" /\ Next /\ UNCHANGED <<program, problem, index, splitkVars, schedulerVars, call>>
    \/ program = "splitk" /\ Splitk!Next /\ UNCHANGED <<program, streamkVars, schedulerVars, call>>

SchedulerNext ==
    /\ program = "schedulers" /\ Schedulers!Next
    /\ UNCHANGED <<program, streamkVars, splitkVars, call>>

ProductsNext ==
    /\ program = "products" /\ Kernels!Next
    /\ UNCHANGED <<program, streamkVars, splitkVars>>

ConvolutionsNext ==
    /\ program = "convolutions" /\ Convs!Next
    /\ UNCHANGED <<program, streamkVars, splitkVars, group, scheduler, call>>

MC_Next == KernelNext \/ SchedulerNext \/ ProductsNext \/ ConvolutionsNext

\* The Fairness of the two kernels.
MC_Fairness == WF_allVars(KernelNext)

MC_Spec == MC_Init /\ [][MC_Next]_allVars /\ MC_Fairness

AllPrograms == {"streamk", "splitk", "schedulers", "products", "convolutions"}
SchedulersOnly == {"schedulers"}
-----------------------------------------------------------------------------
(* What split-K has written to C in the end is the sum over each k once,   *)
(* of whole slices stored before they were read; and the rows of all       *)
(* slices that one step of its reduction brings in fit the unified buffer. *)
SplitkWhole == program = "splitk" => Splitk!ResultWhole /\ Splitk!RowsFitBuffer

(* Whatever the scheduler, the cores compute every element of every group  *)
(* over all of k exactly once, and none outside of it.                     *)
EachElementOnce == program = "schedulers" => Schedulers!EachElementOnce

(* The kernels over many products write each element of each C once, with  *)
(* the product of its row and column, at its place.                        *)
ProductsInPlace == program = "products" => Kernels!ProductsInPlace

(* The convolutions write every output once, at its place, with its bias   *)
(* and the product of each input under it and the filter there: a block    *)
(* brings all of the input it needs and tells load3d of the padding left   *)
(* out.                                                                    *)
ConvolutionsInPlace == program = "convolutions" => Convs!ConvolutionsInPlace

(* What a block brings of the input fits the room in L1 that the           *)
(* constructor of BlockConv sets aside for a tile.                         *)
InputFitsL1 == program = "convolutions" => Convs!InputFitsL1

(* A call of a BlockMmad that loads the next block ahead is for the block  *)
(* the call before it named.                                               *)
PreloadedIsNext ==
    [][program = "products" =>
          IF call'.first THEN call.next = Kernels!NoBlock ELSE call.next = call'.operands]_call

(* Every core of stream-K and of split-K returns, whether it had slices or *)
(* tiles or none, and leaves the flags and all events cleared.  Of the     *)
(* other programs, whose model has no flags, it says nothing.              *)
Returns ==
    <>CASE program = "streamk" -> CleanExit
        [] program = "splitk" -> Splitk!CleanExit
        [] program \in {"schedulers", "products", "convolutions"} -> TRUE
=============================================================================
