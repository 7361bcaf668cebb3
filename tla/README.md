# CATLASS: specifications of the execution model

CATLASS is a header-only template library of matrix-multiplication kernels for
Ascend NPUs.  A kernel is launched on every AI core of the chip; an AI core
holds one AIC (the cube core, with the pipes MTE2, MTE1, M and FIX behind its
scalar unit) and the AIVs (vector cores, two per AIC on the A2 chips).  Nothing
in the library allocates a thread or takes a lock: all of its concurrency is
explicit.  The scalar unit of a core issues instructions to pipes that run on
their own; *events* (`SetFlag`/`WaitFlag`) order the pipes of one core;
*cross-core flags* order an AIC and its AIVs, and all AIVs of the chip.  A
forgotten, superfluous or misplaced flag is a wrong result that depends on
timing, or a chip that hangs, and a test on one machine, with one shape, seldom
shows it.  That is what these specifications are about: arithmetic on matrix
elements is abstracted to *which* part of *which* tile of *which* block is where.

## 1. Inventory

| Component (source) | State it keeps | Operations | Talks to | What makes it correct |
|---|---|---|---|---|
| Cross-core flags (`arch/cross_core_sync.hpp`) | a hardware counter per flag id and core; `count` of a flag with a reverse direction | set, wait, set/wait with reverse, barrier | AIC and AIVs of a core; all AIVs of the chip | no counter reaches its limit of 15, no wait is passed before what it waits for, nothing is left set |
| Fused kernels, flag protocol (`gemm/kernel/matmul_epilogue.hpp` and its relatives) | the block loop of each core | AIC: mmad, store, set; AIV: wait, epilogue | cross-core flags, BlockMmad, BlockEpilogue | an epilogue reads a block that is completely stored; every core returns |
| Fused kernels, workspace ring (`gemm/kernel/quant_matmul_multistage_workspace.hpp` and its grouped twin) | `stageId`, `stageUsed`, two flags per stage, the workspace | as above, and the waits that give a slot back, the drain loop | as above, through callbacks that run late | a slot is never overwritten before both AIVs have read it; flags are taken back exactly |
| BlockMmad, preloading (`gemm/block/block_mmad_preload_async_with_callback.hpp`) | ring positions, the parameters of the tiles loaded and not yet multiplied, events | construct, `operator()`, `SynchronizeBlock`, destroy | four pipes, the kernel's callbacks | no two pipes in one buffer, each block the sum of its own parts, callbacks in order, events back at zero |
| BlockMmad, ping-pong (`gemm/block/block_mmad_pingpong.hpp`) | ring positions, events | construct, `operator()`, destroy | four pipes | the same |
| BlockMmad, preloading the next block (`gemm/block/block_mmad_preload.hpp`, `block_mmad_streamk.hpp`) | ring positions, whether the first tile is already in L1, events | construct, `operator()`, destroy | four pipes, the caller's next block | the same, across calls |
| BlockMmad, single-core split-K (`gemm/block/block_mmad_single_core_splitk.hpp`) | lists of tiles of A and B kept in L1, events | `operator()` with the next block and slice | four pipes, the scheduler's snake of blocks | the same; shared tiles released once |
| Stream-K (`gemm/kernel/streamk_matmul.hpp`, `StreamkGemmIdentityBlockSwizzle` in `gemm/block/block_swizzle.hpp`) | the loop of each core, the workspace of slices, one flag, the barrier of all AIVs | AIC: normal block, stream-K slices, set; AIV: wait, barrier, reduction | all cores of the chip, through the workspace | every element of C is the sum of every k index once; one set per core |
| Grouped kernels with dequantisation (`gemm/kernel/grouped_matmul_slice_{k,m}_per_token_dequant.hpp`, `gemm/block/block_mmad_preload_async.hpp`, `epilogue/block/block_epilogue_per_token_dequant.hpp`) | `groupIdx`, `loopIdx`, `startCoreIdx` on the AIC and again on each AIV; the k tiles held back; the flag with reverse direction | AIC: block, end of group, `SynchronizeBlock`; callbacks; AIV: epilogue or zeros, end of group | cross-core flags, BlockMmad, the epilogue | both sides give each block to the same core; an empty group leaves set and wait in step |
| Split-K (`gemm/kernel/splitk_matmul.hpp`, `SplitkGemmIdentityBlockSwizzle` in `gemm/block/block_swizzle.hpp`) | the loop of each core, one matrix per slice in the workspace, one flag, the barrier; buffers and events of the reduction | AIC: block, set; AIV: wait, barrier; MTE2 load, V add, MTE3 copy out | all cores of the chip, through the workspace | slices divide k, blocks and tiles cover C, every element is the sum of each k once |
| Flash attention (`examples/23_flash_attention_infer/fai_kernel.cpp`) | the loops over tasks and stacks of keys on the AIC and again on each AIV; three workspaces of `preLaunch + 1` slots; three flags | AIC: load Q, QK, PV; AIV: softmax, rescaling | cross-core flags, four BlockMmad classes, two epilogues | every output is the attention over exactly its columns, each in order; no slot is overwritten before it is read, although nothing announces that; both sides count the same stacks |
| BlockMmad of flash attention (`gemm/block/block_mmad_fai_{qk,pv}_{normal,head_tail}.hpp`) | tile counters, events shared by the four classes, a tile loaded for a later call | `loadQGM`, `operator()` of each class | four pipes | no two pipes in one buffer, every product of the operands of its own columns, events as they were found |
| Epilogues of flash attention (`epilogue/block/block_epilogue_online_softmax_no_mask.hpp`, `block_epilogue_rescale_o_no_split_row.hpp`) | rows in the unified buffer, two slots of each, events shared by both | load, compute, copy out, row tile by row tile | MTE2, V, MTE3; the flags to and from the AIC | the same |
| Dequantising epilogue (`epilogue/block/block_epilogue_per_token_dequant.hpp`) | row tiles, two slots each of product, scales and output in the unified buffer, events | load, cast, multiply, copy out | MTE2, V, MTE3 | the same |
| BlockMmad with a prologue (`gemm/block/block_mmad_pingpong_with_prologue.hpp`; `gemm/kernel/w8a16_matmul.hpp`, `w4a8_matmul.hpp`) | a ring of tiles of B in the workspace, two flags for each slot | AIV: convert a tile into the ring; AIC: load it, give it back | cross-core flags, the ping-pong class | no tile is overwritten before it is loaded, nor loaded before both AIVs have stored it |
| FP8 kernel (`gemm/kernel/fp8_matmul.hpp`, `gemm/block/block_mmad_pingpong_slice_k_with_prologue.hpp`, `gemm/tile/atlasa2/cast_fp8_to_fp16.hpp`) | two buffers of a slice of k in the workspace, one of C; two divisions of UB | cast the operands of a slice ahead of the AIC, cast C when its slices are added up | MTE2, V, MTE3; flags to and from the AIC | the same, and C is cast after its last slice |
| TRMM kernel (`gemm/kernel/trmm.hpp`) | the block loops of AIC and AIV, two buffers in UB | AIC: multiply over the triangle, store, set; AIV: wait, load, multiply by alpha, store | cross-core flags; MTE2, V, MTE3 | each block is scaled once, whole, over its own range of k; every core returns |
| Kernels over many products (`gemm/kernel/{grouped_matmul, grouped_matmul_slice_m, grouped_matmul_slice_k, grouped_matmul_slice_m_gelu, batched_matmul, basic_matmul_preload, gemm, group_gemm}.hpp`) | group, block, offsets of the group in A, B and C, the core a group begins at | block, end of group, zeros for a group without k | the scheduler, BlockMmad with the next block | every element of every C is written once, in its place, from its group's operands; a block loaded ahead is the next one |
| Padding (`gemm/kernel/padding_matmul.hpp`) | buffers in the unified buffer, exchanged by the transposing class; events | pad A, pad B, announce; copy the result out | MTE2, V, MTE3; all AIVs and AICs | no race, nothing beyond the buffer, every element written before the AICs begin |
| Layouts and copies (`layout/matrix.hpp`, `gemm/tile/atlasa2/copy_gm_to_l1.hpp`, `copy_l1_to_l0{a,b}.hpp`) | none; where an element lies | GM to L1, L1 to L0A and L0B, each with the fallbacks for long distances and single lines | BlockMmad, the helpers that choose layouts | every element is where the layout of the next step looks for it; nothing is written outside of a tile |
| Convolution (`conv/kernel/basic_conv2d.hpp`, `conv3d_bias.hpp`, `conv/block/block_swizzle.hpp`, `block_conv2d_pingpong.hpp`, `block_conv3d_pingpong_bias.hpp`) | loops over blocks of outputs and, inside one, over tiles of the output, kernel positions and channels; ring positions, events | block; tile of input, of filter, of bias; product; store | four pipes; the scheduler | every output is written once and is the convolution there, padding, strides and dilations included; the input brought in fits L1; no two pipes in one buffer; events back at zero |
| Block schedulers (`gemm/block/block_scheduler_aswt.hpp`, `block_swizzle_grouped_aswt.hpp`, `block_swizzle.hpp`) | round, start and end core, tail split of a core's scheduler | next group, tail split, block of a round | the block loops of their kernels | between them the cores compute each element of each group once |
| Tuner, running operators (`tools/tuner/src/catlass_tuner.cpp`, `op_launcher.cpp`, `m_t_var.h`) | `kernelsQueue_`, `durations_`, the counters of RunOp | warm-up, cache clear, launch, synchronise, update metrics | the device stream, the profiler | a duration is reported for the operator it belongs to |
| Tuner, profiling (`tools/tuner/src/profiler.cpp`) | `running_`, `finish_`, `profileDataQueue_`, `durations_`, two threads | reader: poll, hand over; parser: wait, flush, pair starts and ends; start, stop, restart | the driver's channel, the main thread | no record is lost or mixed up; threads are joined, nobody waits for ever |

Not modelled (the rows of PROJECT.json give each reason in a line):

| Component | Why not, or not yet |
|---|---|
| Other split-K kernels (padding, multi-core, tail) | the slices, set, barrier and reduction of the split-K kernel behind the padding that `PaddingMatrices` has, or on layouts of `tla/` |
| Other grouped and fused kernels | the rotation, the flag or the ring of the ones modelled |
| Block schedulers with parameters of the host, batched, `ColumnBlockSwizzle`, `block_scheduler_iterateK.hpp` | the orders of those modelled, or not started |
| Other BlockMmad classes (`tla/` tensors, mutexes, small, fixpipe) | planned where their control differs; `Pipes` and `MmadInstructions` are made to be reused |
| Other epilogues | one step in the kernel models |
| `tla/` tensors and the copies on them, copies out of L0C, the Ascend 950 | the index arithmetic of the A2 chips in another notation, or not started |
| GEMV, MLA, the other attention examples, the convolution of the Ascend 950 | the same mechanisms in more variants |
| Device adapter, kernel launch, operator library, Python generator | straight-line host code and code generation |
| Tuner command line, operator configs, metrics table | sequential parsing and formatting |

Behaviours that are hard here, in one list (each is at its line under "hazards"
in PROJECT.json): the scalar unit runs ahead of its pipes; pipes run ahead of
each other; sets and waits are several calls apart and must still name the same
stage; a loop may end anywhere in a ring or a round; the division of work is
computed on one core and inverted on another, or computed twice and trusted to
agree; a slot is reused because it must have been read by now; and, in the tuner, three threads
and a device that may abort a kernel, outlive a timeout or not open its channel
again.

## 2. Modules

| Module | Models | Built from |
|---|---|---|
| `CrossCoreFlags` | the mode-2 hardware flag between an AIC and its AIVs (external) | |
| `TileHandoff` | abstract: tiles produced in order, taken by every AIV, bounded ahead | |
| `MatmulEpilogue` | `matmul_epilogue.hpp` with the flag with reverse direction | `CrossCoreFlags`; refines `TileHandoff` |
| `MultiStageWorkspace` | `quant_matmul_multistage_workspace.hpp` | `CrossCoreFlags`; refines `TileHandoff` |
| `Pipes` | queues, events and buffers of the pipes of an AIC or an AIV (external) | |
| `UbCopies` | copies of lines between GM and the unified buffer, place by place | `Pipes` |
| `MmadInstructions` | the instruction sequences the BlockMmad classes share (`LoadTileA`, `LoadTile` and the like) | `Pipes` |
| `BlockMmadPreloadAsync`, `BlockMmadPingpong`, `BlockMmadPreload`, `SingleCoreSplitkMmad` | four BlockMmad classes, the last two with the loop of the kernel that tells them the next block | `MmadInstructions` |
| `BlockMmadPrologue` | the ping-pong class with the AIVs that convert its B, and the ring between them | `BlockMmadPingpong` (its `FetchTile` replaced), `CrossCoreFlags` |
| `SliceKPrologue` | one AIV of the FP8 kernel | `Pipes` |
| `TrmmScaling` | the trmm kernel with one AIV | `UbCopies`, `BlockSwizzle` |
| `PerTokenDequantEpilogue` | the dequantising epilogue of the grouped kernels in the unified buffer | `Pipes` |
| `PaddingMatrices` | the AIVs that pad operands and copy padded results out | `UbCopies`, `TileLayouts` |
| `StreamkMatmul` | scheduler, both sides of the kernel, reduction | |
| `GroupedPerTokenDequant` | the two grouped kernels, with what their BlockMmad and their epilogue do to the flag | `CrossCoreFlags` |
| `FlashAttentionTurns` | the loops over stacks of the flash attention kernel, which both sides compute, turn by turn: pure operators | |
| `FlashAttention` | both sides of that kernel on one core: flags, workspaces, what an output has seen | `FlashAttentionTurns`, `CrossCoreFlags` |
| `FaiBlockMmad`, `FaiEpilogues` | the pipes of its AIC and of one of its AIVs | `FlashAttentionTurns`, `Pipes` |
| `TileLayouts` | layouts as places of elements; the external copy instructions | |
| `TileCopies` | an operand tile on its way from GM to L0 | `TileLayouts` |
| `BlockSchedulers` | the two Aswt schedulers, and the block loops of the kernels that use these or those of `BlockSwizzle`, core after core | `BlockSwizzle` |
| `BlockSwizzle` | the order of `GemmIdentityBlockSwizzle` and the schedulers of split-K, L1FullLoad, single-core and tail split-K: pure operators | |
| `Convolutions` | the convolutions of a kernel, block by block and core by core: where the tiles of input and filter come from and which outputs the products go to | |
| `BlockConv2d`, `BlockConv3d` | the two classes that compute a block of a convolution, on the pipes | `MmadInstructions` |
| `CubeKernels` | the loops over groups, batches and blocks of eight kernels, and the addresses they compute | `BlockSwizzle` |
| `SplitkMatmul` | both sides of the split-K kernel, the pipeline of the reduction | `BlockSwizzle` |
| `TunerProfiling` | the tuner's three threads, the stream and the channel | |
| `MatmulEpilogueProofs`, `MultiStageWorkspaceProofs`, `GroupedPerTokenDequantProofs`, `FlashAttentionProofs`, `StreamkMatmulProofs`, `BlockSwizzleProofs`, `SplitkMatmulProofs` (on those of `BlockSwizzleProofs`), `TunerProfilingProofs` | the theorems | the modules they are named after |

`MC_*` modules give the constants their values for TLC, where a cfg cannot.  `MC_PipePrograms` puts
twelve programs of the pipes side by side (five BlockMmad classes, among them the one
with a prologue, `FaiBlockMmad`, `FaiEpilogues`, `PerTokenDequantEpilogue`,
`SliceKPrologue`, `TrmmScaling`, `BlockConv2d`, `BlockConv3d`): Init chooses the program, the pipes and the
questions are the same for all.  `MC_TileCopies` does the same with `TileCopies`
and `PaddingMatrices`, and `MC_CoreDivision` with `StreamkMatmul`, `SplitkMatmul`,
`BlockSchedulers`, `CubeKernels` and `Convolutions`, the modules about how products are divided over the
cores.  The two modules extend `TileCopies` and `StreamkMatmul`, so that what the runs check of
these is what is defined (and proved) there.  Variables a program does not have are `"unused"`; those of
`StreamkMatmul` stay where it begins (`StreamkIdle`) instead.  The assumptions of the modules extended or instantiated are ASSUMEs.  Operators whose comment
begins with *Mutation of* are plausible mistakes in one definition; no
specification uses them, each is used to see that a property would notice.

### The kernels: how state and actions correspond

*One core is enough* for `MatmulEpilogue` and `MultiStageWorkspace`: a block is
its ordinal in the loop of the core, every core has its own workspace region (or
its own ring), and cores share nothing.  What a core's scalar unit has issued
and what its pipes have done are separate counters (`issued` and `setsIssued`
against `stored` and `raised`; `waited` against `loaded` and `released`).

- `MatmulEpilogue`: `CrossCoreSetFlagWithReverse` is two actions, because the
  scalar unit blocks in its middle (`AicSetFlag`, `AicWaitReverse`);
  `CrossCoreWaitFlagWithReverse` is one (`AivWaitFlag`), its reverse set is
  queued on `PIPE_MTE3` and takes effect at any later moment (`Mte3SetReverse`).
  `PipeBarrier<PIPE_ALL>` is the guard of `AicFinish`.
- `MultiStageWorkspace`: a turn of the AIC's loop is `AicLoop`; it captures the
  stage and whether to wait in `stageOf` and `mustWait`, which is what the
  callbacks close over.  `AicFixpipe` is the later moment at which BlockMmad
  calls them.  `Preload` is how many blocks BlockMmad may hold back: 0 is the
  synchronous class, a positive number any asynchronous one.  A store has a
  beginning and an end; between them the slot is torn.  `AicDrain` is a turn of
  the loop that takes the sets left.
- `Pipes`: a set at the head of a pipe's queue takes effect at once; a later
  moment would only delay who waits for it.
- `BlockMmad*`: `todo` is what the scalar unit has still to issue.  An action of
  the class (`Construct`, `Call`, `KLoop`, ...) runs when `todo` is empty and
  appends the instructions of that stretch of code in program order; they are
  issued one at a time and stall at a full queue.  A buffer holds the names of
  the parts of tiles it contains, so a wrong operand or a part added twice is
  visible in `GmC`.
- `StreamkMatmul`: `task` is `streamkBlockDec` by its task index (it is the
  *next* task that the code computes at the end of a turn), `slot` the two
  regions of a core in the workspace, `result` what each row of C is the sum of,
  as a set of named parts.  The set of the flag is a step of its own, after the
  stores on the same pipe.  The scheduler's operators carry the names of its
  functions.
- `GroupedPerTokenDequant`: one core, `coreIdx`, which Init takes from all cores
  of the chip; cores share nothing.  `aicAt` and `aivAt` are the two separate
  computations of the rotation.  `held` is the list of k tiles loaded and not
  multiplied; `AicCall` is a call of BlockMmad, which takes the oldest tiles from the
  list to multiply them (`due`): `AicMultiply` is a tile in the middle of a block,
  `AicStore` the last one of a block with its store and its callback, where the call
  stalls when the flag wants an answer (`AicWaitReverse`).  The pipes within that class are those of
  `BlockMmadPreloadAsync`.  `output` records for which block an AIV wrote what:
  zeros, the product, or the stale contents of the workspace.
- `SplitkMatmul`: elements of C by their number, `workspace[slice][e]` the set of
  k summed.  A turn of the reduction is three steps on three pipes, which run
  ahead of each other as far as events allow; the scalar unit between them only
  hands them on, in order, and is left out.  A buffer is a function from the
  offset at which a row begins to that row, so that `RowStart` (where the copy
  puts a row) and `AddOffset` (where the addition looks for it) have to meet.

- `FlashAttention`: a core's scalar unit issues the calls of its loops
  (`AicScalar`, `AivScalar`), the pipes execute them behind it; a BlockMmad call
  is load, multiply, store, an epilogue load, compute, store.  A slot holds which
  columns of which task an S, a P or an OTmp is made of, and a factor `dm` which
  stack it was computed for, so an output is the sequence of stacks it has seen.
  `at[u]` is where the scalar unit of `u` stands: the task, the values of `kvSIdx` and
  `stackSeqCount` in its turn, and the half of the turn it comes to; `Issued` goes on from
  there as the two `for` loops do, and `EmptyTurn` is a turn that is too early for a
  second half.  The expressions of the loops, which the two sides of the code repeat, are
  in `FlashAttentionTurns` once.
- `FaiBlockMmad`, `FaiEpilogues`: the same loops, as the list of their calls (`Program`), inside one core.  `Call` takes
  the next call and appends its instructions for the pipes, as in the other
  BlockMmad modules; `MaskedSoftmax` has the delay of one row tile between the
  copy of the mask and its use.  In `FaiEpilogues` the AIC is two actions of the
  environment, which multiply when the flags let them.
- `BlockMmadPreload`: `Call` is one `operator()` with the block, the next one and
  what the kernel passes as `isFirstBlock` and `hasNextBlock`, its loop over k tiles
  unrolled; the last tile's turn loads for the next call.
- `SingleCoreSplitkMmad`: the loop of `SingleCoreSlicekMatmul` over slices and over
  the snake of blocks; the class decides from block, next block and slice which
  tiles are neither loaded nor given back.
- `PerTokenDequantEpilogue`: a row tile is loaded, cast, multiplied by both scales
  and stored through rings of their own lengths.
- `BlockMmadPrologue`: the AIC is `BlockMmadPingpong` with another `FetchTile`; an AIV
  (`AivNext`) waits until the slot has been given back, converts, stores and sets.
  A slot has a part for each AIV's lines; an AIV without a line of a tile sets all
  the same.
- `SliceKPrologue`: a turn of the AIV's loop casts the operands of the next slice, and, a
  slice later, the block of C that is complete; the AIC (`aic`) takes slices
  when they are announced.
- `TrmmScaling`: the AICs are counters of blocks stored; the AIV's loads, `Muls` and
  stores are instructions with addresses, and an element of C is the range of k it
  is the sum over and what it has been multiplied by.  Both sides clip k on their own.
- `CubeKernels`: an action is a turn of a kernel's loop on the core that is followed;
  an element of C is named by the addresses and distances of the row and the column
  it is the product of, so that a wrong offset, stride or length shows.  The cores
  share C only, so one core after another loses nothing.
- `Convolutions`: an action is a block of a kernel's loop on one core.  A tile of input in
  L1 is a function from its places to the places of the input (or to padding) as the
  parameters of the copy and of `load3d` say, an output the set of pairs of input and filter
  places that were multiplied for it; the reference is the definition of the convolution.
- `BlockConv2d`: the loop over input channels (`Cin1Loop`) with the tile loaded ahead, the filter
  held for several tiles of the input (`K_FMAP_PER_FILTER`), unrolled over its parts.
- `BlockConv3d`: `Tile` is a tile of the output up to its loop over k, `ReduceK` and
  `ReduceKPreload` a turn of the loop without and with loading ahead, `TileDone` the store and the
  step of `IterateNFirst`.  A tile that lies in the padding altogether (`fullPad`) is not loaded but
  zeroed in L0A, by what `aL1IsFullPad` says when the product is issued.
- `PaddingMatrices`: UB and the results are memories of addresses here, because
  the classes divide UB differently and lie over each other; an instruction is a
  function from destination to source addresses.  The AIVs write parts of GM that
  do not overlap and read what nobody writes, so one AIV runs after the other.
- `TileCopies`: a path fixes the specialisations an operand takes; `LoadL1` is the
  copy from GM, `NextPart` and `LoadL0` a turn of the k part loop.  An
  instruction is the set of pairs of places it moves between, as its parameters
  say; memories map a place to the place in GM its element came from.
- `BlockSchedulers`: `AswtNextGroup`, `AswtTake` and the like are one turn of the
  kernels' loops over groups and over blocks, of one core; the cores share only
  the output, so one core after another loses no behaviour.

### The tuner

The three threads have a program counter each (`pc`, `reader`, `parser`).  The
steps are as large as the mutex and the stream permit: the parser holds the
mutex from the test of `wait_for`'s predicate until it blocks, so
`ReaderCallback` is excluded while it is `"holding"`; `finish_ = true` and
`notify` take no mutex and may fall between the two.  The early return of
`Synchronize` when `finish_` is set is left out: between two calls of `Run` lies an
`Init`, which clears `finish_` before anything of it can fail, so only the
destructor, after the last call, returns there, and it has nothing left to do.  `running_` and `read` are
tested once per poll.  A kernel is a record of who launched it and as what; a
duration is that record, `Zero`, or `Mixed` when computed from two kernels.  The
channel and the stream are external: kernels start and end in order, a kernel
may abort with or without a record of its end, and the open channel gets a
record for each start and each end.

## 3. What is checked

A run's properties are those of its cfg; states are distinct states.

| Run | Instance | States | Shows |
|---|---|---|---|
| `matmul_epilogue` | 2 AIVs, 7 blocks, depth 3 | 846 | the inductive invariant, flag within its limit, flags cleared, implements `TileHandoff`: epilogue behind its store, everybody returns |
| `multistage` | 2 AIVs, 7 blocks, 3 stages, 1 held back | 10,448 | the inductive invariant, slots not overwritten while in use, the right block read whole, drain exact, implements `TileHandoff` and so returns |
| `pipe_programs` | queues of 5; asynchronous preloading: 4 blocks of 2, 0, 1, 2 k tiles, preload 2, rings 3, 2, 3, 2; ping-pong: 3 blocks of 2, 1, 3 k tiles, 2 stages; with a prologue: 2 blocks of 2 and 1 k tiles, 2 AIVs; preloading of the next block, single-core split-K and the dequantising epilogue on a few blocks each; flash attention: 3 tasks with and without a mask on the AIC, and 3 on an AIV, one of them without rows, in row tiles of 4; the FP8 casts: 2 blocks in 2 slices; trmm: 32 problems of 6 by 4 elements; a block of a 2D convolution in 5 channels, and another; four problems of the 3D class | 310,560 | no two pipes in one buffer of L1, L0 or UB, or in a slot of the workspace; callbacks in order and not late; returns, every result of its own operands and of nothing else, events as found |
| `trmm_second_round` | as above, trmm with more blocks than half of the cores | | a violation: 9 in section 6 |
| `core_division` | stream-K: 24 problems, 7 rows; split-K: 6 problems of up to 48 elements and 3 slices, 1 or 2 cores, 1 or 2 buffers; 3,138 problems of five schedulers on 2 to 7 cores; 1,290 lists of products for eight kernels on 2 to 5 cores; 108 convolutions | 155,028 | stream-K and split-K: all of C the sum of every k once, one AIV per row, slices fit the buffer, returns with the flags cleared; schedulers: every element of every group computed once; products: each element written once and in its place, and what was loaded ahead is what is computed next; convolutions: every output written once and what the convolution is there, the input within its room in L1 |
| `aswt_empty_last` | grouped problems whose last group is empty | | a violation: 6 in section 6 |
| `grouped_dequant` | 261 cases of 2 or 3 groups on 2 or 3 cores; preload 2, depth 2 | 108,681 | the flag within its limit, blocks dealt out in turn, each written once from what it is for; returns with the flags cleared |
| `flash_attention` | 18 lists of two tasks, 2 AIVs; blocks of 2 columns, stacks of 4 blocks, 3 slots | 158,206 | every output the attention over just its columns, flags within the ring; returns with the flags cleared |
| `tile_copies` | 31 paths, every tile up to 6 or 8 by 6 or 12, distances below and above the limit; the padding of 8 kernels with 1 or 2 AIVs | 51,211 | every element in its place in L1 and L0, nothing written outside of a tile; no race in UB, operands padded before the AICs begin, nothing beyond UB, results whole at exit |
| `tile_copies_long_stride` | the paths to zZ and nN beyond the limit, with several fractals of lines | | a violation: 4 in section 6 |
| `tuner_profiling` | 2 configs of 1 operator, warm-up; 1 abort, 1 failed initialisation, 1 timeout, 1 failed restart | 405,218 | durations attributed to their operators, and none lost, as long as no kernel outlived a timeout and every restart succeeded; last flush alone with the queue, threads joined, the tuner ends |
| `tuner_restart` | 2 configs of 1 operator, 1 abort, 1 failed restart | | a violation: 3 in section 6 |

**Why the bounds are enough.**  In the kernels everything is periodic in the
depth of the ring or of the round.  Seven blocks are two full rounds of depth 3
and one more, so a round is open at the end; in the workspace ring every slot is
reused and the loop ends in the middle of the ring, with a block held back.
(Both are also proved for all values, section 5.)  The BlockMmad instances have
rings of different lengths, so that the positions do not move in step, a short
last tile, a block without k (asynchronous class), and queues short enough to
stall the scalar unit and long enough for it to be a tile ahead.  The stream-K
problems are fewer blocks than cores and more, with and without a remainder,
fewer k tiles than cores, a ragged k, and blocks crossing cores at their head,
their tail or both; two cores and three.  The groups of `grouped_dequant` have
fewer blocks than cores, as many, and more; any of them may be empty, the first,
the last or several, so the list of tiles held back spans an empty group and the
end of the last one.  The split-K problems are each small in a way of their own:
several tiles through one buffer and two, slices of unequal length with a short
last tile, fewer blocks than cores, fewer elements than AIVs, a lower last band,
and both ways of copying (`StrideLimit` stands for the 32-bit limit).  In flash attention a list
of two tasks is enough for the end of one to run into the start of the next,
which is where slots, Q in L1 and the output change hands; the lengths end
inside a block, at its end, inside a stack and at its end (1, 8, 9 and 25 columns; the theorem is for all others), with the mask
beginning inside a block or at its start, in the first stack or a later one.
`Tile` is 2 instead of 128, so a block can be half full; the AIC's scalar unit
is `InFlight` = 2 calls ahead of its pipes.  `FaiBlockMmad` and `FaiEpilogues`
follow three tasks at the size of single tiles and rows; a task of one row tile
would not reuse a slot, five do so twice (`MaxUbElems` = 8).  In `TileCopies` a
fractal has two lines and a C0 block two elements of half or four of int8,
which keeps the ratio the copies depend on; `STRIDE_LIMIT` = 13 lies between
the two distances of lines.  In `PaddingMatrices` blocks and fractals are of 8
(the transposition wants squares), `ManyRows` and `STRIDE_LIMIT` are scaled with
them, and the length of a buffer follows from `ub` by the divisions of the code;
a `ub` of 2048 is the smallest that gives the transposing class a buffer of whole
blocks, as its 48 KB are.  The schedulers' windows are of `WINDOW_LEN` = 2 rows
of tiles instead of 4; `UINT_RANGE` = 65536 gives the same wrapped indices as
2^32, being a multiple of every window it is reduced by or, where it is not,
larger than what is reduced; `BLOCK_CUBE`, `INNER_AXIS_MIN_SPLIT_VAL` and
`BASE_M_ALIGN` are 1, 2 and 2 instead of 16, 128 and 16.  Cores are 2 to 7, so
that waves are full, one tile over and one tile short, and cores divide by the
tail and do not.  The lists of products have a tile of 2 by 2 and groups of up to
7 rows or columns, so a group is empty, less than a tile, one tile, or several
with a short last one, and a group begins at every core; `UbBufferSize` = 4 zeros are
written at a time, in several turns and a tail; lines are padded to 4.  trmm's
problems are the two blocks of the first half of four cores, for every side,
triangle and transposition and for either AIV: with more blocks the kernel does
not return (9 in section 6), and with lines that do not fill their 32 bytes of UB
it does not scale them whole (11); a block of UB is 2 elements.  The AIVs of
`BlockMmadPrologue` take three tiles through a ring of two slots, so that one slot is
used again, and one of them has no line of one tile.  The convolutions have
whole blocks of output channels (`tile.cout` divisible by `C0`), a padding of at most the
extent of the kernel less one, and loops over outputs whose last core has some (see 17 in
section 6); tiles of k that divide the whole or that it divides.  The 2D class goes through 5 channels in
tiles of 2 for the input and 4 for the filter, so both have a short last tile, and blocks of two and of one column part.  The four
3D problems are: tiles in the padding and so no loading ahead; A loaded ahead with B whole in L1,
over two blocks; A ahead with B loaded on the spot; both ahead, A twice as often.
`kL0` divides both tiles' k, and the tile of B divides k (18 and 19 in section 6).
The FP8 blocks are cast in one turn and in two, one of them
without lines for the AIV that is followed.  In the tuner `RUN_TIMES` is 1 instead
of 5 and `WARM_UP_TIMES` 1 instead of 10: what matters is that warm-ups, cache
clears and measurements alternate and that a session spans operators; one fault
of each kind is enough for every place it may strike.  The bounds are
`MaxAborts`, `MaxTimeouts`, `MaxRestartFailures`, `MaxInitFailures` and
`WarmUpRounds`; the last stands for the timeout of the warm-up.

The type invariant of the two fused kernels is the first conjunct of their
`IInv`.  In the other modules the comments of VARIABLES say what each ranges over.

Deadlock is checked in every run: a state without a successor is one the program
hangs in, because the returned program stutters explicitly (`Terminated`).

**Fairness.**  Weak fairness of each scalar unit, each pipe and each AIV: they
are hardware that runs on its own while it has an instruction it can execute.
In `pipe_programs` also of the AIC beside an AIV and of the AIVs beside the AIC:
they go on when the flags let them.  `TileCopies`, `BlockSchedulers`, `CubeKernels` and `Convolutions` are sequential and have no liveness property; that their loops
end, and those of `PaddingMatrices`, which count towards a bound, is in the check
for deadlock.  In `StreamkMatmul`, `SplitkMatmul` and `FlashAttention` every unit takes a bounded number of
steps, so weak fairness of the whole (`KernelNext` of `MC_CoreDivision`, `Next` of
`FlashAttention`) is the same thing and cheaper to check.  In the tuner: weak
fairness of each thread; of the device (a kernel that does not abort ends); of
`ParserTimeout`, because the code uses the timed `wait_for`, with a mutation
showing that `Ends` fails without it; and strong fairness of `ReaderCallback`,
because the parser releases the mutex infinitely often.  Faults have no
fairness.

**Abstract specification.**  `TileHandoff` says what a fused kernel needs from
its flags: produced in order, taken by every AIV in order, never before it was
produced, at most `Capacity` ahead.  `ImplementsHandoff` maps the store of the
fixpipe to *produce*, and to *take* the wait (`MatmulEpilogue`, capacity
`REVERSE_DEPTH`) or the release of the slot (`MultiStageWorkspace`, capacity
`WORKSPACE_STAGES`).

## 4. What is left out of the modules

- Values of matrix elements; the time an instruction takes.
- The unit flag of BlockMmad (`ENABLE_UNIT_FLAG`): its effect is within the
  hardware's multiplication and store.
- Several parts of m and n per tile (the static assertions of the two classes
  make them one); `STAGES = 1`.
- Blocks without k in the ping-pong class, which its kernels do not produce.
- `PRELOAD_STAGES >= L1_STAGES`, which
  `docs/en/2_Design/01_kernel_design/03_dispatch_policies.md`, line 58, excludes.
- The choice of `splitkFactor` on the host (`GetSplitkFactor`): a parameter, at
  most the number of k tiles, as line 235 of `splitk_matmul.hpp` makes it.
  Overflow in 32 bits, which takes more than a thousand million elements.
- Of the dequantising epilogue the specialisation with scales of float; the grouped
  kernels with a synchronous BlockMmad, which examples do not build (a mutation
  of the module shows the flag out of step there); `ENABLE_SHUFFLE_K`, which
  changes the order of the k tiles only.
- Prologues: the conversion is one store (w8a16, w4a8); a prologue for A, which no
  kernel has; lines of FP8 operands longer than half of `COMPUTE_LENGTH`.  That the
  two casts of the FP8 kernel, which lie over each other in UB, stay apart rests on
  `AscendC::TPipe` letting the pipes run empty when it is released, which each
  construction of `Arch::Resource` does: this is outside the repository and taken as given.
- trmm: the BlockMmad of the AIC is one step; an alpha of 1, for which the AIVs have
  nothing to do.
- `CubeKernels`: flags between AIC and AIVs, the padding and the epilogues of
  `gemm.hpp`, `group_gemm.hpp` and the GELU kernel; what the AIVs do with a block they
  are not called for.  `grouped_matmul_slice_k.hpp` computes the offsets of its
  groups for a ColumnMajor A and a RowMajor B, as its example has them; nothing
  in the code asks for it, and the problems have these.
- Scalar code between instructions; in stream-K the coordinates of a block (a
  block is its index).
- Convolution: the classes on `tla/` tensors and the Ascend 950, the unit flag, the choice of tiles; in `BlockConv3d`
  padding that covers a tile in part (in `Convolutions` it is there, place by place).
- Padding: the transposition of float (`VnchwND2NZ` by another instruction), the
  fallback of a single core (`useSingleCore`), the wait of the AIVs for the AICs
  before a result is copied out, which only delays, tla tensors.
- Flash attention: embeddings of more than one tile (`kLoop` > 1) and their own
  class; several heads in `loadQGM` (its copy of several matrices); the
  arithmetic of softmax, of which only what has been seen is kept.  AIC and AIV
  work out the loops from the same expressions in two places, the module has them once.
- Copies: those of several matrices at once (`ndNum` > 1), `RowMajor` kept as it is
  in L1, vectors and GEMV, float by `Load3D`, int4, tla tensors, copies out of
  L0C, chips other than A2.
- Schedulers: the dynamic variants (the same formulas with an offset of the
  host), batches, `ColumnBlockSwizzle`, `block_scheduler_iterateK.hpp`, the flags and
  the reduction of the tail split-K kernel.
- In the tuner: binary records split between two reads, errors of the driver
  functions, set-up of device memory.  Aborts of the kernel that clears the
  cache are in the model, in no run: what the tuner then measures is not
  specified anywhere.

## 5. What is proved

TLAPS proves the following for every value of the constants.  For the kernels with
flags these are *every* number of AIVs, blocks, stages, held-back
blocks and every reverse depth, from the assumptions `AIVAssumption`,
`LoopsAssumption`, `DepthAssumption`, `StagesAssumption`, `PreloadAssumption`
(the sets are not empty, the numbers natural, depth and stages positive).

`MatmulEpilogueProofs`.  The properties are not inductive: that the flag stays
within its bound depends on how many answers are on their way.  `IInv` adds
*rounds*: the sets of the AIC less its count, and the waits of an AIV less its
count, are multiples that both sides advance; an AIV is in the round of the AIC
and owes no answer, or has completed it and exactly one answer of it is in
`PIPE_MTE3` or in the reverse counter.  From it: `FlagBound`, `EpilogueOrder`,
`CleanExit`, and `HandoffSafety`, that each step is a step of `TileHandoff` or
none.

`MultiStageWorkspaceProofs`.  `IInv` has five parts.  `RingInv`: the stage of a
block is that of the AIC's position counted back, and blocks less than `Stages`
apart have different stages.  `AicInv`: who waits, and how the counters follow
each other.  `SlotInv`: a slot not reclaimed holds its block.  `AivInv(v)`: an
AIV goes through the ring as the AIC did, and the AIC has reclaimed no more than
it released.  `FlagInv(v)`: each flag is one exactly when one of its sets has
not been waited for.  `Reclaimed`, the number of waits the AIC has passed, is
`issued - Stages` within the loop and `enqueued - stageUsed` in the drain, and
the proof that these agree is the proof of the drain loop.  There is one lemma
per action, and `ReclaimStep` for the two actions that take a slot back.  From
it: `ReadsItsBlock`, `SlotHeld`, `BinaryFlags`, `CleanExit`, `HandoffSafety`.

`GroupedPerTokenDequantProofs`, for any list of problems, AIVs, number of tiles held back
and reverse depth.  `FlagInv` is the *round* of `MatmulEpilogueProofs` for a
loop that may end anywhere and stall in the middle of a call: the sets of the AIC since
the last answer it took are those queued behind a store, raised, waited for, or
answered as a whole round.  `RoundBound` draws from it that one answer at most
is under way and that nothing else is then.  It is preserved by every action
whatever groups the blocks belong to (`RoundInvariance`), so `FlagBound`,
that no counter passes the depth, needs nothing about empty groups.

Which blocks AIC and AIVs go through does need the groups.  `AtInv` says of a loop
that it starts a group at the core after the last block before it, and stands at a block
of its core: `NextBlockAt` and `NextGroupAt`, from the uniqueness of the remainder
(`ModApart`), show that a turn passes exactly one block that falls to the core and the
end of a group passes none, so a loop at its end has passed `Dealt` (`AllPassed`).
`InOrder` orders what the AIC has under way: the blocks queued on `PIPE_FIX` come
before those of the tiles, these follow each other with the last tile of a block as the
border, and what is *announced* (passed, not empty, and neither queued nor among the
tiles) comes before all of them.  `AivInv` ties an AIV to it: the flag counts the
blocks announced that it has not waited for.  A raised flag then means that some block
it has not come to is announced, hence, both being beginnings of one order, that the
one it is at is (`RaisedForBlock`), and so is stored.  From it (`DealtInvariance`):
`WrittenInTurn`, each AIV writes each of its blocks once, zeros when the
group is empty and the product otherwise, for any groups, cores and tiles held back.

`FlashAttentionProofs`, for every list of tasks, every size of tile and stack, every
`PreLaunch` and any number of AIVs.  Assumed are `SizesAssumption` (a stack has two blocks
at least: with one, masked columns that start inside a block would end in the next, outside
of their stack; the code has 4), `TasksAssumption` (no more queries than keys, and
the block of queries exists, as the division of the tasks has it), `UnitsAssumption`,
`AIVAssumption` and `InFlightAssumption`.  The question is why a kernel whose flags all go one way never
writes a slot that is still to be read.  Three layers answer it.

*Arithmetic.*  The two loops and the tail of the mask are one numbering of the turns:
`TurnsFollow`, turn `c + 1` follows turn `c` up to the last; `DueAt`, the halves due in turn `c` are the
first of stack `c` and the second of stack `c - PreLaunch`, although the second loop steps
by `noMaskTailInteStackNum` once and its bound and its start are corrected by it.
`ColumnsInOrder`: the stacks cut the columns the mask leaves, without gap or overlap;
`QKFacts`, `PVFacts`: both halves of a stack, and the width the AIV takes it to have, are
for the same columns.

*Order.*  So all instructions have one order, `Before`, and the units differ in how
far they are in it.  `QueuesInOrder`: a queue holds the last of what was given to
it.  What a unit has passed and what a pipe has done are prefixes of the order
(`HalvesInOrder`, `DonePrefix`).  `FlagsCount`: a flag counts the stacks announced and not waited for; since
prefixes are comparable, a raised flag is one for the stack at hand
(`QKIsReady`, `PIsReady`, `PVIsReady`), which is `Waited`.  Announced and not waited for
lies within the window between the two halves of a stack, `PreLaunch + 1` turns:
hence `FlagsBounded`.

*Buffers.*  `PipesFollow` and one part for each buffer: `Q_InL1`, `P_InL1`,
`Accumulator`, `Workspace`, and `S_InUb`, `P_InUb`, `OTmp_InUb`, `KeptInUb` of an AIV.  Each says what the buffer holds for as
long as a reader is still to come, which is all that can be said, since what is
overwritten later is no matter.  Stacks in one slot are `PreLaunch + 1` turns apart
(`SlotsApart`), and who writes has waited for something its reader issued or stored
behind the read: the chain of waits is `StepsFollow`, `SecondStepsFollow`, and the slots of
S, P, OTmp and `dm` take a lemma each (`SSlotsApart`, `PSlotsApart`, `OTmpSlotsApart`,
`DmSlotsApart`).  For Q in L1 it is `QWhenOver` and for the output in UB `OutputKept`: the load of
the next one cannot be reached before the last multiplication, or the store, of the one before.
`IInv` is the conjunction of all: the properties speak of the ends of a chain that goes through
both sides, and each buffer on it is right only because the ones before it are.  There is one lemma
per action (`AicLoadKeeps` and so on), one per buffer it writes below it, and
`BuffersStay` and its like for those it does not.  From it (`Invariance`):
`OutputIsWhole`, every output is of all the columns of its task, each once and in
order, and is there in the end; `FlagsBounded`; and `FlagsLeftCleared`, when the kernel is
done no flag is set.

`StreamkMatmulProofs`, for every set of problems, tile, number of AIVs and buffer
that satisfy `Assumptions` (positive, and a buffer for a row of each slice).  What
needs an argument is that the core of a block's first tile is found by dividing tile
numbers, first among the cores that have one tile more (`StartCore`), and that a
stream-K block has more tiles than any core, since there are fewer blocks than cores:
so two blocks never start in the same core (`BlocksStartApart`), each has
cores that labor on it (`Labor`), and it lies in at most one slot more than it
has such cores (`SlotsBound`).  A core has two AIVs, which make up for
that slot: `SlicesFit`, the slices of the rows of one step fit the unified buffer;
`OneLabor`, every row of a stream-K block is one AIV's.

What it writes is proved with an invariant over both sides, `IInv`.  The tiles of the cores
abut (`TilesOfCore`, `TileOwner`, `PartsOfCore`), and the slots the AIVs read for a block, which they
find from the start cores of this and the next block alone, are exactly those of the cores
that have tiles of it (`SlotsAreOfBlock`); so the slots of a block add up its k, each index
once (`SumWhole`), if they are all stored.  They are when an AIV reads them: the turns behind a core are
stored (`LoopInv`, `StoredInv`), each core with tiles has one turn for its slices, which the swap in
`ActualLoopIdx` puts before its last normal block (`TaskOfTurn`, `SlicesHaveTurn`), it sets the flag after
that turn (`FlagInv`), and all AIVs have taken theirs when one is past the barrier (`BarrierInv`,
`SlotsStored`).  `ResultInv` and `ReduceInv`: a row of C is not written or is whole, and the rows of an
AIV that is done are whole.  It follows `ResultWholeHolds`, that C is whole in the end, and `FlagCleared`.

`BlockSwizzleProofs` has two parts.  Of the order in bands and the split-K scheduler, for every grid, tile, offset, direction and split, from
nothing but that they are positive.  `SlicesAbut` and `TileInOneSlice`: the start
and the length of a slice, which the scheduler computes in two functions, fit
together, and no slice is empty exactly when the factor is at most the number of k tiles.  `SnakeInside`, `SnakeInjective`, `SnakeOnto`: the order in bands is a
bijection from the tasks to the blocks.  The argument is a characterisation,
`SnakeParts`: position `i` is row `x` of column `c` of band `b` exactly when
`i = b * offset * columns + Height(b) * c + x` with each part within its bounds,
and by the uniqueness of quotient and remainder (`DivMod`) no two parts give the
same position; `Height` is less than `offset` in the last band only.
`EveryBlockOnce` puts these together for the scheduler of `SplitkMatmul`: each
block of C is one task in each slice, so no part of the workspace is left out
and none is stored twice.

Of the schedulers that know their core, for any numbers of blocks, cores and k tiles.
`L1FullLoadInjective`: the tasks of a core are neighbours and the run of a core
begins where that of the core before ends (`RunsAbut`, `InnerIdxOrder`), so no block
comes twice.  `RangesAbut`: the same for the ranges of the single-core split-K
scheduler, up to the last block.  Its order of blocks merges a low last band with the
one before; `MergedSnakeInside`, `MergedSnakeInjective` and `MergedSnakeOnto` are the
bijection again, from a characterisation (`MergedSnakeIn`, `MergedSnakeParts`) whose last
band is `LastBand` and whose bands have `RowsOfBand` rows.  With the ranges of k, which
are slices (`RangeIsSlice`), `SingleCoreEveryBlockOnce` follows: every k tile of every block of C is
multiplied in exactly one iteration of one core.  `SwapPermutes`: the exchange of the last two
waves, which every core decides by itself, maps the tasks one to one to the
tasks; it rests on `TailFitsWave`, that the whole blocks fill their waves and the
slices of the others never more than one.

`SplitkMatmulProofs`, for every problem that satisfies `Assumptions`: any shape, tile, numbers of slices,
cores, AIVs and stages, a vector block that is a multiple of the alignment (what `RowStart` needs), and buffers
of at least one aligned unit.  `ResultWhole` says nothing of a run that has not
ended, so the invariant `IInv` has to carry the sums from the one side to the other.
`StoreInv`: each core has stored its tasks before `loopIdx`.  By `OneTask` and
`SliceOfTile` every element of every slice is stored by one task (`TasksCover`) and the
tiles of a slice add its k up (`KInOneSlice`), so once all AIVs are past the barrier (`FlagInv`,
`BarrierInv`) the workspace is whole (`WorkspaceWhole`).  `PipeInv`: the three pipes of an AIV stand at positions
`z <= y <= x <= z + stages`, and for each buffer of that window exactly the event is set for which the pipe that
takes it next waits; this is what keeps a load from overtaking a store of
its buffer.  `BufferInv` and `DstInv`: what is loaded, added and copied out at those
positions is the sum over the slices of the same rows (`SumWhole`).  That the rows of the AIVs
share C out, though each computes its first row, its number of rows and its
place in C by formulas of its own, is `RowsLie`, `TileSize` and `ElementInOneTile`.  From `IInv`:
`ResultWholeHolds`; `RowsFitBufferHolds`; and `ClearedAtExit`, no flag is left set.

`TunerProfilingProofs`, for any operators, numbers of executions and of faults.
`ThreadInv` is the order of stopping: a reader that has seen `running_` reset does so
after the channel was closed, and polls once more; what that poll leaves is empty for
good (`ReaderInv`), so the join of the reader means that nothing comes any more;
`finish_` is set after that join only, and the parser leaves its loop only when it is set
(`ParserInv`).  From it: `FinalFlushQuiet`, the last flush needs no mutex, and
`JoinedBeforeReplaced`, no `std::thread` is assigned while it is joinable.

Which durations are reported takes the whole way of a kernel, from its launch to the
table, through three threads.  `Kernels` are, in this order, those whose durations are collected,
those the parser has paired, those whose end is with the parser, the reader or in the channel, and
those still in the stream; `Awaited` are the rows of `kernelsQueue_` and the one being made.
`CountInv`: there are as many kernels as the rows have entries, or one less when the last was lost with an
abort.  `MatchInv`: the kernels belong to the rows in their order, and an operator that succeeded has its
row in full, up to its last execution.  `OrderInv`: the rows are those of the operators
run and not yet reported.  So a row for which `UpdateMetrics` has enough
durations takes its own, and the row of an abort, which comes short, is the last of its session
and gets what is left.  These and `Reported`, which is the property, are `CoreInv`.
`FlowInv` is what makes `Kernels` change only at its end: `StreamInv`, what is in the
stream in which state of the main thread; `PairInv`, the i-th end that comes is the end of the
i-th start that comes, although the parser keeps the two in separate lists; `SessionInv`, nothing
of a session is on the way when its parser has been joined, where `ThreadInv` is needed.  All
together (`RunInv`) they are inductive, and give `AttributionHolds` and `EveryOperatorReportedHolds`.

They assume `AbortKinds \subseteq {"op"}`, since when a warm-up aborts the code is wrong
(2 in section 6), and have the premise of the properties, `Undisturbed`: no time-out
and no failed restart, after which it is wrong as well (1 and 20).  `Span`, `KernelsOf`
and the loops are recursive functions on numbers; what they return is proved by the least number for which it
fails (`LeastElement`, `SetInduction`, `RecursionExists`, from the well-foundedness of the order of the numbers as the library states it), so
without the theorems that take an operator.

**Only model-checked**: liveness (`Returns`, `CleanExit`, `Ends`, the fairness part of the
refinement), which the prover cannot do; the programs of the pipes and the FP8 and
trmm kernels (`NoBufferRace`, `HeldBack`, `CallbackOrder`), the pipes of the flash attention kernel inside its cores, the copies and the padding, the loops of `BlockSchedulers` and `CubeKernels`
and of `Convolutions` (`EachElementOnce`, `ProductsInPlace`, `PreloadedIsNext`, `ConvolutionsInPlace`, `InputFitsL1`; the order of their blocks is
proved), the Aswt schedulers, and that the tuner comes to its end (`Ends`).

## 6. Where code and comments disagree

Four of these have runs that expect the violation (3, 4, 6 and 9); the others come out
of a passing run's model with the constants given here, or are read off the code
where it says so.

1. A kernel that outlives the one-second limit of `op_launcher.cpp:26` ends
   after profiling was restarted.  Its end record meets empty lists in the new
   session, whose parser pairs starts and ends by index (`profiler.cpp:340`):
   every later duration is computed from two kernels.  `catlass_tuner.cpp:196`
   wants the duration of the last execution.  `Attribution` has the condition
   `timeouts = 0`, a part of `Undisturbed`, for this; without it TLC finds the counterexample in
   `tuner_profiling`.  With two time-outs and an abort (`Pool <- <<1, 1, 2>>`) an operator
   may also be left out of the table, `EveryOperatorReported`.
2. `UpdateMetrics(true)` returns early when nothing was collected
   (`catlass_tuner.cpp:187`) and leaves the failed operator in `kernelsQueue_`;
   the durations of the next operators are then matched with it.  The loop below
   the return is there to empty the queue.  `Attribution` fails with
   `AbortKinds = {"warm"}` in place of `{"op"}`.
3. `tuner_restart`: after a failed restart the message of
   `catlass_tuner.cpp:130` says that operators are no longer executed; the
   `break` of line 131 leaves the inner loop only.
4. `tile_copies_long_stride`: the line-by-line way of the copies to zZ and nN
   (`copy_gm_to_l1.hpp:546`, 652, 1005) multiplies the line by the number of its
   fractal: from the second fractal of lines on, elements land elsewhere.
   `TileCopyGemm` takes this copy for B, when n is 65536 or more.
   `tile_copies` leaves these out (`LongGemmStrides`).
5. `BlockSchedulerAswt::UpdateTailTile` (`block_scheduler_aswt.hpp:112`) takes
   the last wave to begin at core 0; when the last group starts at another core
   and is short, tile indices wrap and cores compute parts of tiles that others
   compute too.  `EachElementOnce` fails with `Schedules <- ShortLastCases`.
6. `aswt_empty_last`: for an empty group `UpdateGroupParams` (`block_scheduler_aswt.hpp:82`) leaves
   the state of the group before, and the grouped kernel calls `UpdateTailTile`
   all the same when that group is the last: parts of C no group has are
   computed.
7. `PaddingMatrixBlockND` stores a line in whole blocks of `blockCols`
   (`copy_ub_to_gm.hpp:38`), the buffer holds it rounded up to a C0 block.  When lines
   fill the buffer to its end, the store of the last one reads behind the buffer,
   in the second slot behind UB, which the assertion "Excedding the UB space!" of
   the class is there to exclude; 192 columns of half with `blockCols` 256 are an
   example.  What is read lands in the padding of GM.  `NoUbRace` fails with
   `BlockNd("A", "WA", 23, 8, 8, 4, 16)` in 64 halves, where the store of the first
   slot reads the second.
8. `splitk_matmul.hpp:76` compares with 4294977295, one digit from the 2^32 - 1 it
   is there for: element counts just above a quarter of that are truncated.

9. `trmm_second_round`: the AIV of `trmm.hpp` (line 230) goes through the blocks in steps of
   `GetBlockNum() / GetSubBlockNum()`, its AIC (line 164) in steps of `GetBlockNum()`,
   which counts AI cores already.  With an alpha other than 1 and more blocks than half
   of the cores an AIV takes blocks of other cores and waits for a flag that is
   never set.
10. `trmm.hpp:274`-297: the load into a buffer of UB waits for `V_MTE2`, which says that
   the multiplication has read it; `MTE3_V`, which says that the copy out has, is waited for by
   V.  From the second block of a core on, the load may overwrite what is still copied
   out.  `NoBufferRace` fails with `TrmmCases <- TrmmSecondRound`.
11. `trmm.hpp:289`-291: `Muls` covers rows times columns of contiguous elements, while
   lines in UB are padded to 32 bytes: when they do not fill these, the end of the
   block is not scaled.  `CleanExit` fails with `TrmmCases <- TrmmOddLines`.
12. `cast_fp8_to_fp16.hpp`, read off the code: for lines longer than half of
   `COMPUTE_LENGTH` the branch of the last piece leaves `loadLen` at its length for the
   lines that follow, and `storeLen` is read unassigned.  The example, with 16 K and
   tiles of 256, does not get there.
13. `grouped_matmul_slice_k.hpp:270`, read off the code: the count of `memFill0` is a
   `uint32_t`, the argument a product of 64 bits, so a group without k of 2^32 elements
   or more is zeroed in part.  `MemFill` has the conversion (`UINT_RANGE`), the problems
   of the run do not reach it.
14. `basic_conv2d.hpp:152`, read off the code: for a block of outputs whose input lies in the
   padding altogether the end of the input is less than its start in unsigned arithmetic, and
   the padding is passed in eight bits.
15. `conv_coord.hpp:1125`, read off the code: `MakeConv2dParams` passes elements 2 and 3 of the strides, which has
   two, as the dilations.
16. `conv/tile/atlasa2/copy_l0c_to_gm.hpp:73`, read off the code: the unit flag given to the copy is not
   used.
17. `conv/block/block_swizzle.hpp:117`, read off the code: when the cores but the last cover a dimension already,
   the length of the last one's part underflows.
18. `block_conv3d_pingpong_bias.hpp:444`, read off the code: loading both operands ahead asks for a k that the tile of A
   divides, not for one that the tile of B divides.  With a k of 3, tiles of 1 and of 2, B's second tile is taken
   up a turn early (line 652); with a tile of B longer than k it is never taken up.
   `CleanExit` fails with `Conv3dCase(3, 1, 2)` and two stages of each.
19. Lines 423 and 435 of that file count the turns of a tile by rounding up, so a tile is used for part of a turn
   too many when `kL0` does not divide its k; lines 809-812 take the length of a tile of filter from the layout when
   it is longer than all channels; at line 742 a dilation in depth greater than the input makes a number of
   planes underflow.  All read off the code; the examples' tiles do not get there.

20. The operators that run after a failed restart (3) are entered in `kernelsQueue_` although nothing
   is measured.  When a later restart succeeds, at the next fatal error, the durations of the new session are
   given to them.  `Attribution` has the other part of `Undisturbed`, `restartFailures = 0`, for
   this; without it TLC finds the counterexample with `Pool <- <<1, 2, 2, 2>>`, two aborts and no
   warm-up.

`core_division` leaves out the cases of 5 and 6 for `BlockSchedulerAswt`
(`GemmGroupedAswtTailSplitSwizzle` is given both and passes), `pipe_programs` those of 9 to 11.

## 7. Plan

Done, in this order: flags and hand-off, the two fused kernels and their proofs,
the pipes and two BlockMmad classes, stream-K, the tuner, the grouped kernels
with dequantisation, the split-K kernel, the order of blocks and its proofs,
flash attention with its BlockMmad classes and epilogues, the layouts and copies
of the A2 chips, the schedulers that know the cores and their proofs, the
BlockMmad classes that preload and keep tiles, the dequantising epilogue, padding,
the prologues, trmm, the kernels over many products, the convolutions, the proofs about stream-K, about the grouped kernels with dequantisation, about flash attention, about the split-K kernel, about the tuner's threads and about
what it reports.

The modules cover the mechanisms of the library rather than its lines: most of those are
variants of the modelled classes for other chips, data types and tensor notations
(`tla/`, Ascend 950, Atlas 350), examples, and host code, which add instances and
no control.  What is worth adding, most important first:

1. BlockMmad with mutexes (`block_mmad_pingpong_mutex_tla.hpp`), on `Pipes`.
2. An abstract BlockMmad (blocks in, callbacks in order, held back at most so
   long) that `BlockMmadPreloadAsync` implements and that `MultiStageWorkspace`
   and `GroupedPerTokenDequant` use, in place of `Preload` and of `held`;
   `GroupedPerTokenDequant` shown to implement `TileHandoff` with the blocks of
   empty groups skipped.
3. `GetSplitkFactor` on the host against `Assumptions` of `SplitkMatmul`, in 32 bits.
4. The copies of several matrices and of vectors, in `TileCopies`; MLA, whose
   loops are those of `FlashAttentionTurns` without a mask; stream-K with the
   coordinates of its blocks.

Theorems to prove, in this order: of
`CubeKernels`, that the rotation deals each
block to one core; of `BlockMmadPingpong`, `NoBufferRace`, for which the
invariant ties each event's count to the positions of its set and its wait in
two queues.
