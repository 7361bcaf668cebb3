---------------------------- MODULE Convolutions ----------------------------
(***************************************************************************)
(* The convolutions of conv/: conv/kernel/basic_conv2d.hpp and             *)
(* conv/kernel/conv3d_bias.hpp with their block schedulers, and where in   *)
(* GM their BlockConvs find what they multiply and put what they compute.  *)
(* A block of output positions and channels is a product over all          *)
(* positions of the kernel and input channels: the block brings the part   *)
(* of the input it needs to L1 without the padding around it, and load3d,  *)
(* told of the padding, spreads it out.  How BlockConv overlaps its pipes  *)
(* is in BlockConv2d and BlockConv3d.                                      *)
(*                                                                         *)
(* Channels go in groups of C0; addresses of input and filter are in such  *)
(* groups.  An output is what it is the sum of: its bias, and pairs of a   *)
(* filter address and an input address; what padding contributes is zero   *)
(* and left out.  The cores share nothing but the output, so they are      *)
(* followed one after the other.                                           *)
(***************************************************************************)
EXTENDS BlockSwizzle, FiniteSets

CONSTANTS
    Cases,
    C0,             \* output channels of a group of the 2D convolution
    UINT_RANGE      \* numbers a uint32_t has

VARIABLES
    case,       \* the problem
    core,       \* the core that is followed
    loopIdx,    \* its next block
    written,    \* the output: <<address, bias, pairs>>
    clash       \* addresses written twice

vars == <<case, core, loopIdx, written, clash>>

NoBias == <<>>
Zero == -1              \* the address of padding
Junk == {<<>>}          \* what a channel beyond the last one is the sum of
-----------------------------------------------------------------------------
(* Both. *)

\* Conv2dParams and Conv3dParams: the outputs along an axis.
OutputLength(size, pads, kernel, dilation, stride) == (size + pads - dilation * (kernel - 1) - 1) \div stride + 1

\* load3d, external: the input behind output o of position k of the kernel, in
\* an image of `length` with `low` before it, or Zero where there is none.
Load3d(o, k, stride, dilation, low, length) ==
    LET i == o * stride + k * dilation - low IN IF i \in 0 .. length - 1 THEN i ELSE Zero

\* layout: offsets in groups of C0, of images and filters of shape s.
NC1HWC0(n, c1, h, w, s) == ((n * s.c1 + c1) * s.h + h) * s.w + w
CI1KHKWCOCI0(cin1, kh, kw, cout, s) == ((cin1 * s.h + kh) * s.w + kw) * s.cout + cout
NDC1HWC0(n, d, c1, hw, s) == ((n * s.d + d) * s.c1 + c1) * s.hw + hw
KDC1KHKWN1N0C0(kdc1khkw, n1, cout1) == kdc1khkw * cout1 + n1

Store(cells) ==
    /\ written' = written \union cells
    /\ clash' = clash \union ({x[1] : x \in cells} \intersect {x[1] : x \in written})

Channels == 0 .. case.cin1 - 1
KernelH == 0 .. case.kernel.h - 1
KernelW == 0 .. case.kernel.w - 1
-----------------------------------------------------------------------------
(* conv/kernel/basic_conv2d.hpp. *)

Ho == OutputLength(case.hi, case.pad.top + case.pad.bottom, case.kernel.h, case.dilation.h, case.stride.h)
Wo == OutputLength(case.wi, case.pad.left + case.pad.right, case.kernel.w, case.dilation.w, case.stride.w)
Cout1 == CeilDiv(case.cout, C0)

LayoutFmap == [c1 |-> case.cin1, h |-> case.hi, w |-> case.wi]
LayoutFilter == [h |-> case.kernel.h, w |-> case.kernel.w, cout |-> case.cout]
LayoutOutput == [c1 |-> Cout1, h |-> Ho, w |-> Wo]

\* Conv2dIdentityBlockSwizzle.
Loops2d == [ho |-> CeilDiv(Ho, case.tile.ho), wo |-> CeilDiv(Wo, case.tile.wo), cout |-> CeilDiv(case.cout, case.tile.cout)]

CoreLoops2d == Loops2d.ho * Loops2d.wo * Loops2d.cout

BlockCoord2d(taskIdx) ==
    LET at == GetBlockCoord(taskIdx, Loops2d.ho * Loops2d.wo, Loops2d.cout, case.offset, case.direction)
    IN  [batch |-> taskIdx \div CoreLoops2d, h |-> at.m \div Loops2d.wo, w |-> at.m % Loops2d.wo, cout |-> at.n]

ActualBlockShape2d(at) ==
    [h |-> ActualLength(at.h, Loops2d.ho, Ho, case.tile.ho),
     w |-> ActualLength(at.w, Loops2d.wo, Wo, case.tile.wo),
     cout |-> ActualLength(at.cout, Loops2d.cout, case.cout, case.tile.cout)]

\* Mutation of InputUnder: the last position of the kernel is one behind its end.
InputUnderBehind(start, actual, stride, pad, kernel, dilation, size) ==
    LET first == start * stride - pad
        last == first + (actual - 1) * stride + kernel * dilation
        cut == last > size - 1
        from == IF first < 0 THEN 0 ELSE first
    IN  [from |-> from, length |-> (IF cut THEN size - 1 ELSE last) - from + 1,
         low |-> IF first < 0 THEN -first ELSE 0, high |-> IF cut THEN last - (size - 1) ELSE 0]

\* Along one axis: the input under `actual` outputs from `start` on, and the
\* padding before and after it, two uint8_t.  The last position is compared with
\* the size as an unsigned number.
InputUnder(start, actual, stride, pad, kernel, dilation, size) ==
    LET first == start * stride - pad
        last == first + (actual - 1) * stride + (kernel - 1) * dilation
        cut == last % UINT_RANGE > size - 1
        from == IF first < 0 THEN 0 ELSE first
    IN  [from |-> from, length |-> ((IF cut THEN size - 1 ELSE last) - from + 1) % UINT_RANGE,
         low |-> IF first < 0 THEN (-first) % 256 ELSE 0,
         high |-> IF cut THEN (last - (size - 1)) % 256 ELSE 0]

Block2d(i) ==
    LET at == BlockCoord2d(i)
        actual == ActualBlockShape2d(at)
    IN  [at |-> at, hoStart |-> at.h * case.tile.ho, woStart |-> at.w * case.tile.wo, cout |-> actual.cout,
         h |-> InputUnder(at.h * case.tile.ho, actual.h, case.stride.h, case.pad.top, case.kernel.h,
                          case.dilation.h, case.hi),
         w |-> InputUnder(at.w * case.tile.wo, actual.w, case.stride.w, case.pad.left, case.kernel.w,
                          case.dilation.w, case.wi)]

\* BlockConv2d: the outputs along an axis, computed anew from the input.
OutputsOf(in, kernel, dilation, stride) == OutputLength(in.length, in.low + in.high, kernel, dilation, stride)

\* The pairs for output <<oh, ow>> of block b with the filter of channel co.
Pairs2d(b, oh, ow, co) ==
    LET row(kh) == Load3d(oh, kh, case.stride.h, case.dilation.h, b.h.low, b.h.length)
        column(kw) == Load3d(ow, kw, case.stride.w, case.dilation.w, b.w.low, b.w.length)
        block == NC1HWC0(b.at.batch, 0, b.h.from, b.w.from, LayoutFmap)
    IN  {<<CI1KHKWCOCI0(c, kh, kw, co, LayoutFilter), block + NC1HWC0(0, c, row(kh), column(kw), LayoutFmap)>> :
           c \in Channels, kh \in {x \in KernelH : row(x) # Zero}, kw \in {x \in KernelW : column(x) # Zero}}

\* A call of BlockConv2d: row by row to GM, and channels up to a whole group.
Outputs2d(b) ==
    LET first == b.at.cout * case.tile.cout
        hoActual == OutputsOf(b.h, case.kernel.h, case.dilation.h, case.stride.h)
        woActual == OutputsOf(b.w, case.kernel.w, case.dilation.w, case.stride.w)
        block == NC1HWC0(b.at.batch, first \div C0, b.hoStart, b.woStart, LayoutOutput)
        address(j, oh, ow) == (block + NC1HWC0(0, j \div C0, oh, ow, LayoutOutput)) * C0 + (j % C0)
    IN  {<<address(j, oh, ow), NoBias, IF j < b.cout THEN Pairs2d(b, oh, ow, first + j) ELSE Junk>> :
           j \in 0 .. CeilDiv(b.cout, C0) * C0 - 1, oh \in 0 .. hoActual - 1, ow \in 0 .. woActual - 1}

BasicConv2d ==
    /\ case.kind = "2d" /\ core < case.cores
    /\ loopIdx < case.batch * CoreLoops2d
    /\ Store(Outputs2d(Block2d(loopIdx)))
    /\ loopIdx' = loopIdx + case.cores
    /\ UNCHANGED <<case, core>>
-----------------------------------------------------------------------------
(* conv/kernel/conv3d_bias.hpp. *)

Out3d ==
    LET length(x, size) == OutputLength(size, 2 * case.pad[x], case.kernel[x], case.dilation[x], case.stride[x]) IN
    [d |-> length("d", case.di), h |-> length("h", case.hi), w |-> length("w", case.wi)]

\* The output as the scheduler sees it, and the loops of Conv3dIdentityBlockSwizzle.
OutShape == [n |-> case.batch, d |-> Out3d.d, c1 |-> case.cout1, hw |-> Out3d.h * Out3d.w]
Loops3d == [x \in {"n", "d", "c1", "hw"} |-> IF OutShape[x] < case.loops[x] THEN OutShape[x] ELSE case.loops[x]]
CoreTileShape == [x \in {"n", "d", "c1", "hw"} |-> CeilDiv(OutShape[x], Loops3d[x])]
CoreLoops3d == Loops3d.hw * Loops3d.n * Loops3d.d * Loops3d.c1

BlockCoord3d(taskIdx) ==
    LET at == GetBlockCoord(taskIdx, Loops3d.hw, Loops3d.n * Loops3d.d * Loops3d.c1, case.offset, case.direction)
    IN  [n |-> at.n \div (Loops3d.d * Loops3d.c1), d |-> (at.n \div Loops3d.c1) % Loops3d.d, c1 |-> at.n % Loops3d.c1,
         hw |-> at.m]

LayoutOut3d == [d |-> OutShape.d, c1 |-> OutShape.c1, hw |-> OutShape.hw]

DimStartIdx(at) == [x \in {"n", "d", "c1", "hw"} |-> at[x] * CoreTileShape[x]]

ActualBlockShape3d(at) ==
    [x \in {"n", "d", "c1", "hw"} |-> ActualLength(at[x], Loops3d[x], OutShape[x], CoreTileShape[x])]

\* The kernel's Max, of the start of a block and the padding before it.
PastPadding(a, b) == IF a > b THEN a - b ELSE 0

InputPlane == case.hi * case.wi
LayoutFmap3d == [d |-> case.di, c1 |-> case.cin1, hw |-> InputPlane]

\* A block: its first output, its shape, and where its input begins in GM.
Block3d(i) ==
    LET at == BlockCoord3d(i)
        start == DimStartIdx(at)
        d == PastPadding(start.d * case.stride.d, case.pad.d)
        h == PastPadding((start.hw \div Out3d.w) * case.stride.h, case.pad.h)
    IN  [start |-> start, actual |-> ActualBlockShape3d(at), diStartPos |-> start.d * case.stride.d,
         fmap |-> NDC1HWC0(start.n, d, 0, h * case.wi, LayoutFmap3d)]

\* LoadAL1Process, along h: the rows of the input under the outputs of tile
\* mAL1Iter, counted from the block's part of GM, and the padding around them.
FullPad == [full |-> TRUE]
RowsToL1(b, mAL1Iter) ==
    LET currentM == b.start.hw + mAL1Iter * case.mAL1
        currentML1 == ActualLength(mAL1Iter, CeilDiv(b.actual.hw, case.mAL1), b.actual.hw, case.mAL1)
        hoStartIdx == currentM \div Out3d.w
        orgHiLoadL1 == (CeilDiv(currentM + currentML1, Out3d.w) - hoStartIdx - 1) * case.stride.h
                         + (case.kernel.h - 1) * case.dilation.h + 1
        first == hoStartIdx * case.stride.h
        end == first + orgHiLoadL1
        hiWithPad == case.hi + case.pad.h
        coreStart == PastPadding((b.start.hw \div Out3d.w) * case.stride.h, case.pad.h)
        bottom == IF end > hiWithPad THEN end - hiWithPad ELSE 0
    IN  CASE end <= case.pad.h \/ first >= hiWithPad -> FullPad
          [] first < case.pad.h ->
                [full |-> FALSE, from |-> 0, top |-> case.pad.h - first, bottom |-> bottom,
                 length |-> IF end >= hiWithPad THEN case.hi ELSE orgHiLoadL1 + first - case.pad.h]
          [] OTHER ->
                [full |-> FALSE, from |-> first - case.pad.h - coreStart, top |-> 0, bottom |-> bottom,
                 length |-> IF end > hiWithPad THEN hiWithPad - first ELSE orgHiLoadL1]

\* Positions of the kernel's depth and of the channels together, one after the
\* other, and how many of them a tile of the input holds.
KdCin1 == case.kernel.d * case.cin1
TileKdCin1 == case.fmapL1.kd * case.fmapL1.c1

\* Mutation of PlanesToL1: a tile that begins before the input starts with it.
PlanesToL1NoHead(b, dOutIter, kAL1Iter) ==
    LET current == kAL1Iter * TileKdCin1
        org == IF current + TileKdCin1 > KdCin1 THEN KdCin1 - current ELSE TileKdCin1
        first == b.diStartPos + dOutIter * case.stride.d + ((current \div case.cin1) % case.kernel.d) * case.dilation.d
    IN  [full |-> FALSE, head |-> 0, from |-> PastPadding(first, case.pad.d), channel |-> 0, load |-> org]

\* LoadAL1Process, along the depth: planes of padding before those of the
\* input, how many channels of input, and where they come from.
PlanesToL1(b, dOutIter, kAL1Iter) ==
    LET current == kAL1Iter * TileKdCin1
        org == IF current + TileKdCin1 > KdCin1 THEN KdCin1 - current ELSE TileKdCin1
        first == b.diStartPos + dOutIter * case.stride.d + ((current \div case.cin1) % case.kernel.d) * case.dilation.d
        end == first + 1 + IF org <= case.cin1 THEN 0 ELSE (org \div case.cin1 - 1) * case.dilation.d
        diWithPad == case.di + case.pad.d
        skipped == CeilDiv(case.pad.d - first, case.dilation.d)
        ahead == skipped * case.dilation.d - case.pad.d + first
        upTo(planes) == CeilDiv(planes, case.dilation.d) * case.cin1
    IN  CASE end <= case.pad.d \/ first >= diWithPad -> FullPad
          [] first < case.pad.d ->
                [full |-> FALSE, head |-> skipped * case.cin1, channel |-> current % case.cin1, from |-> ahead,
                 load |-> IF end > diWithPad THEN upTo(case.di - ahead) ELSE org - skipped * case.cin1]
          [] OTHER ->
                [full |-> FALSE, head |-> 0, channel |-> current % case.cin1,
                 from |-> IF b.diStartPos <= case.pad.d THEN first - case.pad.d ELSE first - b.diStartPos,
                 load |-> IF end > diWithPad THEN upTo(diWithPad - first) ELSE org]

\* CopyGmToL1 of NDC1HWC0: the plane that channel q of a tile comes from, relative
\* to the block's part of GM, or Zero.
PlaneOf(p, q) ==
    LET r == q - p.head IN
    IF p.full \/ r \notin 0 .. p.load - 1 THEN Zero
    ELSE p.from * case.cin1 + p.channel
           + IF p.load <= case.cin1 THEN r ELSE (r \div case.cin1) * case.dilation.d * case.cin1 + (r % case.cin1)

\* ReduceKL0AL0BPingPong: the row of load3d that output r of a tile is.
MStartPt(b, mAL1Iter) ==
    IF case.mL0 % Out3d.w = 0 THEN b.start.hw % Out3d.w
    ELSE (b.start.hw + mAL1Iter * case.mAL1) % Out3d.w

\* LoadBL1Process and CopyGmToL1 of KDC1KHKWN1N0C0: where position k and channel
\* group c of the block's filter come from.
FilterAt(b, k, c) ==
    LET nBL1Iter == c \div case.filterL1.n
        loops == CeilDiv(b.actual.c1, case.filterL1.n)
        kBL1 == case.filterL1.kd * case.filterL1.c1 * case.kernel.h * case.kernel.w
        currentNBL1 == IF case.filterL1.n >= case.cout1 THEN case.filterL1.n
                       ELSE ActualLength(nBL1Iter, loops, b.actual.c1, case.filterL1.n)
        distance == IF currentNBL1 >= case.cout1 THEN currentNBL1 ELSE case.cout1
    IN  KDC1KHKWN1N0C0(0, b.start.c1, case.cout1)
          + KDC1KHKWN1N0C0((k \div kBL1) * kBL1, nBL1Iter * case.filterL1.n, case.cout1)
          + (k % kBL1) * distance + (c % case.filterL1.n)

\* The pairs for output r of plane d in batch n of block b with channel group c.
Pairs3d(b, n, d, c, r) ==
    LET rows == RowsToL1(b, r \div case.mAL1)
        m == MStartPt(b, r \div case.mAL1) + (r % case.mAL1)
        row(kh) == Load3d(m \div Out3d.w, kh, case.stride.h, case.dilation.h, rows.top, rows.length)
        column(kw) == Load3d(m % Out3d.w, kw, case.stride.w, case.dilation.w, case.pad.w, case.wi)
        plane == [x \in 0 .. KdCin1 - 1 |-> PlaneOf(PlanesToL1(b, d, x \div TileKdCin1), x % TileKdCin1)]
        batch == b.fmap + NDC1HWC0(n, 0, 0, 0, LayoutFmap3d)
    IN  IF rows.full THEN {}
        ELSE {<<FilterAt(b, (x * case.kernel.h + kh) * case.kernel.w + kw, c),
                batch + plane[x] * InputPlane + (rows.from + row(kh)) * case.wi + column(kw)>> :
                x \in {y \in 0 .. KdCin1 - 1 : plane[y] # Zero},
                kh \in {y \in KernelH : row(y) # Zero}, kw \in {y \in KernelW : column(y) # Zero}}

\* A call of BlockConv.
Outputs3d(b) ==
    LET block == NDC1HWC0(b.start.n, b.start.d, b.start.c1, b.start.hw, LayoutOut3d)
        address(n, d, c, r) == block + NDC1HWC0(n, d, c, r, LayoutOut3d)
    IN  {<<address(n, d, c, r), b.start.c1 + c, Pairs3d(b, n, d, c, r)>> :
           n \in 0 .. b.actual.n - 1, d \in 0 .. b.actual.d - 1, c \in 0 .. b.actual.c1 - 1, r \in 0 .. b.actual.hw - 1}

ConvBias ==
    /\ case.kind = "3d" /\ core < case.cores
    /\ loopIdx < CoreLoops3d
    /\ Store(Outputs3d(Block3d(loopIdx)))
    /\ loopIdx' = loopIdx + case.cores
    /\ UNCHANGED <<case, core>>
-----------------------------------------------------------------------------
Init ==
    /\ case \in Cases
    /\ core = 0
    /\ loopIdx = 0
    /\ written = {}
    /\ clash = {}

CoreLoops == IF case.kind = "2d" THEN case.batch * CoreLoops2d ELSE CoreLoops3d

CoreDone == loopIdx >= CoreLoops

AllDone == CoreDone /\ core = case.cores - 1

NextCore ==
    /\ CoreDone /\ ~AllDone
    /\ core' = core + 1
    /\ loopIdx' = core + 1
    /\ UNCHANGED <<case, written, clash>>

Terminated == AllDone /\ UNCHANGED vars

Next == BasicConv2d \/ ConvBias \/ NextCore \/ Terminated

Spec == Init /\ [][Next]_vars
-----------------------------------------------------------------------------
(* Properties. *)

\* The position behind an output of a tap, or none.
Behind(o, k, stride, dilation, pad, size) == {i \in 0 .. size - 1 : i = o * stride + k * dilation - pad}

\* The definition of a convolution.
Convolution2d ==
    {<<NC1HWC0(n, co \div C0, oh, ow, LayoutOutput) * C0 + (co % C0), NoBias,
       UNION {{<<CI1KHKWCOCI0(c, kh, kw, co, LayoutFilter), NC1HWC0(n, c, i, j, LayoutFmap)>> :
                 i \in Behind(oh, kh, case.stride.h, case.dilation.h, case.pad.top, case.hi),
                 j \in Behind(ow, kw, case.stride.w, case.dilation.w, case.pad.left, case.wi)} :
              c \in Channels, kh \in KernelH, kw \in KernelW}>> :
       n \in 0 .. case.batch - 1, co \in 0 .. case.cout - 1, oh \in 0 .. Ho - 1, ow \in 0 .. Wo - 1}

Convolution3d ==
    {<<NDC1HWC0(n, od, co, oh * Out3d.w + ow, LayoutOut3d), co,
       UNION {{<<KDC1KHKWN1N0C0(((kd * case.cin1 + c) * case.kernel.h + kh) * case.kernel.w + kw, co, case.cout1),
                 NDC1HWC0(n, i, c, j * case.wi + l, LayoutFmap3d)>> :
                 i \in Behind(od, kd, case.stride.d, case.dilation.d, case.pad.d, case.di),
                 j \in Behind(oh, kh, case.stride.h, case.dilation.h, case.pad.h, case.hi),
                 l \in Behind(ow, kw, case.stride.w, case.dilation.w, case.pad.w, case.wi)} :
              kd \in 0 .. case.kernel.d - 1, c \in Channels, kh \in KernelH, kw \in KernelW}>> :
       n \in 0 .. case.batch - 1, od \in 0 .. Out3d.d - 1, co \in 0 .. case.cout1 - 1, oh \in 0 .. Out3d.h - 1,
       ow \in 0 .. Out3d.w - 1}

\* Every output is written once, at its place, and is the convolution there: a
\* block brings all of the input it needs and gives load3d the padding that was
\* left out, wherever it lies in the output and the padding around the input.
ConvolutionsInPlace ==
    /\ clash = {}
    /\ \E all \in {IF case.kind = "2d" THEN Convolution2d ELSE Convolution3d} :
         \E results \in {{x \in written : x[3] # Junk}} : results \subseteq all /\ (AllDone => results = all)

\* The input of the next block fits the room the constructor of BlockConv sets
\* aside in L1 for a tile, from the tile's shape alone.
InputFitsL1 ==
    loopIdx < CoreLoops =>
      IF case.kind = "2d"
      THEN \E b \in {Block2d(loopIdx)} :
             /\ b.h.length <= (case.tile.ho - 1) * case.stride.h + (case.kernel.h - 1) * case.dilation.h + 1
             /\ b.w.length <= (case.tile.wo - 1) * case.stride.w + (case.kernel.w - 1) * case.dilation.w + 1
      ELSE \E b \in {Block3d(loopIdx)} :
             \A mAL1Iter \in 0 .. CeilDiv(b.actual.hw, case.mAL1) - 1 :
               LET rows == RowsToL1(b, mAL1Iter)
                   hoAL1Max == case.mAL1 \div Out3d.w + 2
               IN  rows.full \/ (/\ rows.length <= case.hi
                                 /\ rows.length <= (hoAL1Max - 1) * case.stride.h
                                                     + (case.kernel.h - 1) * case.dilation.h + 1)
=============================================================================
