------------------------- MODULE StreamkMatmulProofs -------------------------
(***************************************************************************)
(* The stream-K kernel for every problem and any number of cores: how      *)
(* StreamkReduceAdd divides the stream-K blocks over the AIVs; the slots a *)
(* block is read from are those of the cores with tiles of it, and hold it *)
(* whole; what is written to C is whole and the flag is left cleared.      *)
(***************************************************************************)
EXTENDS StreamkMatmul, FiniteSetTheorems, TLAPS

\* Division with remainder.
LEMMA DivMod ==
    ASSUME NEW a \in Nat, NEW d \in Nat \ {0}
    PROVE  /\ a \div d \in Nat /\ a % d \in 0..(d - 1)
           /\ a = d * (a \div d) + (a % d)
  OBVIOUS

(* The quantities the scheduler derives from the problem.                  *)
LEMMA Quantities ==
    ASSUME Assumptions, shape \in Shapes
    PROVE  /\ blockDim \in Nat \ {0} /\ kLoops \in Nat \ {0}
           /\ streamkBlocks \in 0..(blockDim - 1)
           /\ kTileNumPerCore \in Nat /\ kTileRemain \in 0..(blockDim - 1)
           /\ streamkBlocks * kLoops = blockDim * kTileNumPerCore + kTileRemain
           /\ kTileNumPerCore < kLoops
<1>1. /\ shape.blocks \in Nat \ {0} /\ shape.k \in Nat \ {0} /\ shape.cores \in Nat \ {0}
      /\ TileK \in Nat \ {0}
  BY DEF Assumptions
<1>2. blockDim \in Nat \ {0}
  BY <1>1 DEF blockDim
<1>3. kLoops \in Nat \ {0}
  <2> DEFINE a == shape.k + TileK - 1
  <2>1. a \in Nat /\ a >= TileK
    BY <1>1
  <2>2. a \div TileK \in Nat /\ a % TileK \in 0..(TileK - 1) /\ a = TileK * (a \div TileK) + (a % TileK)
    BY <1>1, <2>1, DivMod
  <2>3. a \div TileK # 0
    BY <1>1, <2>1, <2>2
  <2> QED
    BY <2>2, <2>3 DEF kLoops, CeilDiv
<1>4. streamkBlocks \in 0..(blockDim - 1)
  BY <1>1, <1>2, DivMod DEF streamkBlocks
<1> DEFINE tiles == streamkBlocks * kLoops
<1>5. tiles \in Nat
  BY <1>3, <1>4
<1>6. /\ kTileNumPerCore \in Nat /\ kTileRemain \in 0..(blockDim - 1)
      /\ tiles = blockDim * kTileNumPerCore + kTileRemain
  BY <1>2, <1>5, DivMod DEF kTileNumPerCore, kTileRemain
<1>7. kTileNumPerCore < kLoops
  <2> SUFFICES ASSUME kLoops <= kTileNumPerCore PROVE FALSE
    BY <1>3, <1>6
  <2>1. blockDim * kLoops <= blockDim * kTileNumPerCore
    BY <1>2, <1>3, <1>6
  <2>2. tiles < blockDim * kLoops
    BY <1>2, <1>3, <1>4
  <2> QED
    BY <1>2, <1>3, <1>5, <1>6, <2>1, <2>2
<1> QED
  BY <1>2, <1>3, <1>4, <1>6, <1>7
-----------------------------------------------------------------------------
(* The cores a block starts in. *)

\* The first tile of core c.
StartOf(c) == IF c <= kTileRemain THEN c * (kTileNumPerCore + 1) ELSE c * kTileNumPerCore + kTileRemain

\* The core of tile P: what GetCoreIdx and IsCross compute for the first tile
\* of a block.
CoreOfTile(P) ==
    IF P > LongCores THEN kTileRemain + (P - LongCores) \div kTileNumPerCore ELSE P \div (kTileNumPerCore + 1)

(* The core of a tile is one of the cores, or the one past the last for    *)
(* the tile past the last.  Where every core has tiles, it is among them;  *)
(* where some have none, each of the others has one.                       *)
LEMMA TileInCore ==
    ASSUME Assumptions, shape \in Shapes, NEW P \in 0..(streamkBlocks * kLoops)
    PROVE  /\ CoreOfTile(P) \in 0..blockDim
           /\ kTileNumPerCore > 0 => StartOf(CoreOfTile(P)) <= P /\ P < StartOf(CoreOfTile(P) + 1)
           /\ kTileNumPerCore = 0 => CoreOfTile(P) = P
<1> DEFINE bd == blockDim
           L == kLoops
           q == kTileNumPerCore
           r == kTileRemain
<1>1. /\ bd \in Nat \ {0} /\ L \in Nat \ {0} /\ streamkBlocks \in 0..(bd - 1)
      /\ q \in Nat /\ r \in 0..(bd - 1) /\ streamkBlocks * L = bd * q + r
  BY Quantities
<1>2. P \in Nat /\ P <= bd * q + r
  BY <1>1
<1>3. LongCores = r * (q + 1) /\ LongCores \in Nat
  BY <1>1 DEF LongCores
<1>4. CoreOfTile(P) = IF P > LongCores THEN r + (P - LongCores) \div q ELSE P \div (q + 1)
  BY DEF CoreOfTile
<1> HIDE DEF bd, L, q, r
<1>5. CASE P > LongCores
  <2>1. q # 0
    BY <1>1, <1>2, <1>3, <1>5
  <2> DEFINE x == (P - LongCores) \div q
  <2>2. P - LongCores \in Nat
    BY <1>2, <1>3, <1>5
  <2>3. /\ x \in Nat /\ (P - LongCores) % q \in 0..(q - 1)
        /\ P - LongCores = q * x + ((P - LongCores) % q)
    BY <1>1, <2>1, <2>2, DivMod
  <2> HIDE DEF x
  <2>4. q * x <= P - LongCores /\ P - LongCores < q * x + q
    BY <1>1, <1>2, <1>3, <2>3
  <2>5. CoreOfTile(P) = r + x
    BY <1>4, <1>5 DEF x
  <2>6. x <= bd - r
    <3> SUFFICES ASSUME x >= bd - r + 1 PROVE FALSE
      BY <1>1, <2>3
    <3>1. q * x >= q * (bd - r + 1)
      BY <1>1, <2>3
    <3>2. q * (bd - r + 1) = bd * q - r * q + q
      BY <1>1
    <3>3. r * (q + 1) = r * q + r
      BY <1>1
    <3>4. {bd * q, r * q, q * x} \subseteq Nat
      BY <1>1, <2>3
    <3>5. q * x >= bd * q - r * q + q
      BY <3>1, <3>2
    <3>6. q * x <= bd * q - r * q
      BY <1>1, <1>2, <1>3, <2>4, <3>3, <3>4
    <3> QED
      BY <1>1, <2>1, <3>4, <3>5, <3>6
  <2>7. (r + x) * q + r = LongCores + q * x /\ (r + x + 1) * q + r = LongCores + q * x + q
    BY <1>1, <1>3, <2>3
  <2>8. StartOf(r + x) = (r + x) * q + r
    BY <1>1, <2>3 DEF StartOf, q, r
  <2>9. StartOf(r + x + 1) = (r + x + 1) * q + r
    BY <1>1, <2>3 DEF StartOf, q, r
  <2>10. StartOf(r + x) <= P /\ P < StartOf(r + x + 1)
    BY <1>1, <1>2, <1>3, <2>3, <2>4, <2>7, <2>8, <2>9
  <2> QED
    BY <1>1, <2>1, <2>3, <2>5, <2>6, <2>10 DEF bd, q, r
<1>6. CASE ~(P > LongCores)
  <2> DEFINE x == P \div (q + 1)
  <2>1. /\ x \in Nat /\ P % (q + 1) \in 0..q
        /\ P = (q + 1) * x + (P % (q + 1))
    <3>1. q + 1 \in Nat \ {0} /\ (q + 1) - 1 = q
      BY <1>1
    <3> QED
      BY <1>2, <3>1, DivMod
  <2> HIDE DEF x
  <2>2. CoreOfTile(P) = x
    BY <1>4, <1>6 DEF x
  <2>3. (q + 1) * x <= P /\ P < (q + 1) * x + (q + 1)
    BY <1>1, <1>2, <2>1
  <2>4. x <= r
    <3> SUFFICES ASSUME x >= r + 1 PROVE FALSE
      BY <1>1, <2>1
    <3>1. (q + 1) * x >= (q + 1) * (r + 1)
      BY <1>1, <2>1
    <3>2. (q + 1) * (r + 1) = LongCores + (q + 1)
      BY <1>1, <1>3
    <3>3. (q + 1) * x <= LongCores
      BY <1>1, <1>2, <1>3, <1>6, <2>1, <2>3
    <3>4. (q + 1) * x \in Nat
      BY <1>1, <2>1
    <3> QED
      BY <1>1, <1>3, <3>1, <3>2, <3>3, <3>4
  <2>5. StartOf(x) = x * (q + 1)
    BY <2>4 DEF StartOf, q, r
  <2>6. q > 0 => P < StartOf(x + 1)
    <3>1. CASE x < r
      <4>1. StartOf(x + 1) = (x + 1) * (q + 1)
        BY <1>1, <2>1, <3>1 DEF StartOf, q, r
      <4>2. (x + 1) * (q + 1) = (q + 1) * x + (q + 1)
        BY <1>1, <2>1
      <4> QED
        BY <2>3, <4>1, <4>2
    <3>2. CASE x = r
      <4>1. StartOf(x + 1) = (r + 1) * q + r
        BY <1>1, <2>1, <3>2 DEF StartOf, q, r
      <4>2. (r + 1) * q + r = r * (q + 1) + q
        BY <1>1
      <4> QED
        BY <1>1, <1>2, <1>3, <1>6, <4>1, <4>2
    <3> QED
      BY <1>1, <2>1, <2>4, <3>1, <3>2
  <2>7. q = 0 => x = P
    BY <1>2, <2>1
  <2>8. StartOf(x) <= P
    BY <1>1, <2>1, <2>3, <2>5
  <2> QED
    BY <1>1, <2>1, <2>2, <2>4, <2>6, <2>7, <2>8 DEF bd, q, r
<1> QED
  BY <1>5, <1>6

(* The core of the first tile of a block.                                  *)
LEMMA StartCore ==
    ASSUME Assumptions, shape \in Shapes, NEW j \in 0..streamkBlocks
    PROVE  /\ Before(j) \in 0..(streamkBlocks * kLoops) /\ GetCoreIdx(j) = CoreOfTile(Before(j))
           /\ GetCoreIdx(j) \in 0..blockDim
           /\ kTileNumPerCore > 0 => StartOf(GetCoreIdx(j)) <= Before(j) /\ Before(j) < StartOf(GetCoreIdx(j) + 1)
           /\ kTileNumPerCore = 0 => GetCoreIdx(j) = Before(j)
<1>1. streamkBlocks \in Nat /\ kLoops \in Nat \ {0} /\ j \in Nat /\ j <= streamkBlocks
  BY Quantities
<1>2. j * kLoops <= streamkBlocks * kLoops /\ j * kLoops \in Nat /\ streamkBlocks * kLoops \in Nat
  BY <1>1
<1>3. Before(j) \in 0..(streamkBlocks * kLoops)
  BY <1>2 DEF Before
<1>4. GetCoreIdx(j) = CoreOfTile(Before(j))
  BY DEF GetCoreIdx, CoreOfTile
<1> QED
  BY <1>3, <1>4, TileInCore

(* Two blocks never start in the same core: a block has more tiles than a  *)
(* core.                                                                   *)
LEMMA BlocksStartApart ==
    ASSUME Assumptions, shape \in Shapes, NEW j \in 0..(streamkBlocks - 1)
    PROVE  GetCoreIdx(j) < GetCoreIdx(j + 1)
<1> DEFINE q == kTileNumPerCore
           r == kTileRemain
           c == GetCoreIdx(j)
           d == GetCoreIdx(j + 1)
<1>1. /\ streamkBlocks \in Nat /\ kLoops \in Nat \ {0} /\ q \in Nat /\ r \in Nat /\ q + 1 <= kLoops
      /\ blockDim \in Nat
  BY Quantities
<1>2. j \in Nat /\ j \in 0..streamkBlocks /\ j + 1 \in 0..streamkBlocks
  BY <1>1
<1>3. Before(j) \in Nat /\ Before(j + 1) = Before(j) + kLoops
  BY <1>1, <1>2 DEF Before
<1>4. c \in Nat /\ d \in Nat
  BY <1>1, <1>2, StartCore
<1>5. CASE q = 0
  BY <1>1, <1>2, <1>3, <1>5, StartCore
<1>6. CASE q > 0
  <2>1. StartOf(c) <= Before(j) /\ Before(j + 1) < StartOf(d + 1)
    BY <1>2, <1>6, StartCore
  <2> HIDE DEF c, d, q, r
  <2>2. {c * q, d * q} \subseteq Nat
    BY <1>1, <1>4
  <2>3. StartOf(c) = IF c <= r THEN c * q + c ELSE c * q + r
    BY <1>1, <1>4 DEF StartOf, q, r
  <2>4. StartOf(d + 1) = IF d + 1 <= r THEN d * q + q + d + 1 ELSE d * q + q + r
    BY <1>1, <1>4 DEF StartOf, q, r
  <2>5. SUFFICES ASSUME d <= c PROVE FALSE
    BY <1>4 DEF c, d
  <2>6. d * q <= c * q
    BY <1>1, <1>4, <2>5
  <2>7. StartOf(d + 1) <= StartOf(c) + q + 1
    BY <1>1, <1>4, <2>2, <2>3, <2>4, <2>5, <2>6
  <2>8. StartOf(c) \in Nat /\ StartOf(d + 1) \in Nat
    BY <1>1, <1>4, <2>2, <2>3, <2>4
  <2> QED
    BY <1>1, <1>3, <2>1, <2>7, <2>8
<1> QED
  BY <1>1, <1>5, <1>6
-----------------------------------------------------------------------------
(* A block has cores that labor on it, at most all of them, and the buffer *)
(* holds a row at least of each of their AIVs' steps.                      *)
LEMMA Labor ==
    ASSUME Assumptions, shape \in Shapes, NEW j \in 0..(streamkBlocks - 1)
    PROVE  /\ GetCoreIdx(j) \in Nat /\ GetCoreIdx(j + 1) \in 0..blockDim
           /\ GetCoreIdx(j) < GetCoreIdx(j + 1)
           /\ LaborCoreNum(j) = 2 * (GetCoreIdx(j + 1) - GetCoreIdx(j)) /\ LaborCoreNum(j) \in Nat \ {0}
           /\ TilePerCore(j) \in Nat \ {0} /\ TilePerCore(j) * LaborCoreNum(j) <= ComputeLength
<1> DEFINE n == LaborCoreNum(j)
           cap == ComputeLength \div n
           share == CeilDiv(Rows, n)
<1>1. blockDim \in Nat \ {0} /\ j + 1 \in 0..streamkBlocks /\ j \in 0..streamkBlocks
  BY Quantities
<1>2. GetCoreIdx(j) \in 0..blockDim /\ GetCoreIdx(j + 1) \in 0..blockDim /\ GetCoreIdx(j) < GetCoreIdx(j + 1)
  BY <1>1, StartCore, BlocksStartApart
<1>3. SubBlocks = 2 /\ Rows \in Nat \ {0} /\ ComputeLength >= 2 * blockDim
  BY DEF Assumptions, blockDim
<1>4. n = 2 * (GetCoreIdx(j + 1) - GetCoreIdx(j)) /\ n \in Nat \ {0} /\ n <= 2 * blockDim
  BY <1>1, <1>2, <1>3 DEF LaborCoreNum
<1> HIDE DEF n
<1>5. ComputeLength \in Nat
  BY DEF Assumptions
<1>6. cap \in Nat \ {0} /\ cap * n <= ComputeLength
  <2>1. /\ cap \in Nat /\ ComputeLength % n \in 0..(n - 1)
        /\ ComputeLength = n * cap + (ComputeLength % n)
    BY <1>4, <1>5, DivMod
  <2> HIDE DEF cap
  <2>2. cap # 0
    BY <1>1, <1>3, <1>4, <1>5, <2>1
  <2>3. n * cap \in Nat /\ n * cap = cap * n
    BY <1>4, <2>1
  <2> QED
    BY <1>4, <1>5, <2>1, <2>2, <2>3
<1>7. share \in Nat \ {0}
  <2> DEFINE a == Rows + n - 1
  <2>1. a \in Nat /\ a >= n
    BY <1>3, <1>4
  <2>2. /\ a \div n \in Nat /\ a % n \in 0..(n - 1)
        /\ a = n * (a \div n) + (a % n)
    BY <1>4, <2>1, DivMod
  <2>3. a \div n # 0
    BY <1>4, <2>1, <2>2
  <2> QED
    BY <2>2, <2>3 DEF CeilDiv
<1> HIDE DEF cap, share
<1>8. TilePerCore(j) = Lower(share, cap)
  BY DEF TilePerCore, n, cap, share
<1>9. TilePerCore(j) \in Nat \ {0} /\ TilePerCore(j) <= cap
  BY <1>6, <1>7, <1>8 DEF Lower
<1>10. TilePerCore(j) * n <= cap * n
  BY <1>4, <1>6, <1>9
<1>11. TilePerCore(j) * n \in Nat /\ cap * n \in Nat
  BY <1>4, <1>6, <1>9
<1> QED
  BY <1>2, <1>4, <1>5, <1>6, <1>9, <1>10, <1>11 DEF n

(* A block is in as many slots as cores labor on it, or one more.          *)
LEMMA SlotsBound ==
    ASSUME Assumptions, shape \in Shapes, NEW j \in 0..(streamkBlocks - 1)
    PROVE  Cardinality(SlotsOf(j)) \in Nat /\ Cardinality(SlotsOf(j)) <= LaborCoreNum(j)
<1> DEFINE start == GetCoreIdx(j)
           end == GetCoreIdx(j + 1) + IF IsCross(j + 1) THEN 1 ELSE 0
           cores == start..(end - 1)
           slotOf(c) == <<c, IF c = start /\ IsCross(j) THEN 1 ELSE 0>>
           f == [c \in cores |-> slotOf(c)]
<1>1. /\ start \in Nat /\ GetCoreIdx(j + 1) \in Nat /\ start < GetCoreIdx(j + 1)
      /\ LaborCoreNum(j) = 2 * (GetCoreIdx(j + 1) - start)
  BY Labor
<1>2. end \in Nat /\ end - start \in Nat /\ end - 1 >= start /\ end - start <= LaborCoreNum(j)
  BY <1>1
<1>3. SlotsOf(j) = {slotOf(c) : c \in cores}
  BY DEF SlotsOf
<1> HIDE DEF start, end, slotOf
<1>4. IsFiniteSet(cores) /\ Cardinality(cores) = end - start
  BY <1>1, <1>2, FS_Interval DEF start
<1>5. f \in Surjection(cores, SlotsOf(j))
  BY <1>3 DEF Surjection
<1>6. IsFiniteSet(SlotsOf(j)) /\ Cardinality(SlotsOf(j)) <= Cardinality(cores)
  BY <1>4, <1>5, FS_Surjection
<1> QED
  BY <1>1, <1>2, <1>4, <1>6, FS_CardinalityType

(* A row of a block is that of exactly one AIV of those that labor on it.  *)
LEMMA LaborOfRow ==
    ASSUME Assumptions, shape \in Shapes, NEW j \in 0..(streamkBlocks - 1), NEW row \in Row
    PROVE  /\ Cardinality({a \in AIV : Labors(a, j) /\ row \in RowsOf(a, j)}) = 1
           /\ \E a \in AIV : Labors(a, j) /\ row \in RowsOf(a, j)
<1> DEFINE start == GetCoreIdx(j)
           end == GetCoreIdx(j + 1)
           n == LaborCoreNum(j)
           t == TilePerCore(j)
<1>1. /\ start \in Nat /\ end \in 0..blockDim /\ start < end
      /\ n = 2 * (end - start) /\ n \in Nat \ {0} /\ t \in Nat \ {0}
  BY Labor
<1>2. SubBlocks = 2 /\ Rows \in Nat \ {0} /\ blockDim \in Nat
  BY Quantities DEF Assumptions
<1> HIDE DEF start, end, n, t
<1> DEFINE turn == (row \div t) % n
           laborer == start * 2 + turn
<1>3. row \in Nat
  BY <1>2 DEF Row
<1>4. row \div t \in Nat
  BY <1>1, <1>3, DivMod
<1>5. turn \in 0..(n - 1)
  BY <1>1, <1>4, DivMod
<1> HIDE DEF turn
<1>6. laborer \in AIV /\ Labors(laborer, j)
  <2>1. laborer \in 0..(blockDim * 2 - 1)
    BY <1>1, <1>2, <1>5
  <2>2. start <= laborer \div 2 /\ laborer \div 2 < end
    BY <1>1, <1>5
  <2> QED
    BY <1>2, <2>1, <2>2 DEF AIV, Labors, start, end
<1>7. ASSUME NEW a \in AIV PROVE row \in RowsOf(a, j) <=> a = laborer
  <2>1. row \in RowsOf(a, j) <=> turn = a - start * 2
    BY <1>2 DEF RowsOf, turn, t, n, start
  <2>2. a \in Int /\ turn \in Int /\ start \in Int
    BY <1>1, <1>2, <1>5 DEF AIV
  <2> QED
    BY <2>1, <2>2
<1> HIDE DEF laborer
<1>8. {a \in AIV : Labors(a, j) /\ row \in RowsOf(a, j)} = {laborer}
  BY <1>6, <1>7
<1> QED
  BY <1>6, <1>8, FS_Singleton
-----------------------------------------------------------------------------
(* The problem is chosen once.                                             *)
LEMMA ShapeInvariance == Spec => [](shape \in Shapes)
<1>1. Init => shape \in Shapes
  BY DEF Init
<1>2. shape \in Shapes /\ [Next]_vars => (shape \in Shapes)'
  BY DEF Next, AicNext, AivNext, AicSetEarly, AicBlock, AicSet, AivWait, AivArrive, AivBarrier, AivReduce,
         Terminated, vars
<1> QED
  BY <1>1, <1>2, PTL DEF Spec

(* The slices of the rows of one step fit in the unified buffer, for every *)
(* problem: the two AIVs of each core make up for the slice a block can    *)
(* have more than cores that labor on it.                                  *)
THEOREM SlicesFit == ASSUME Assumptions PROVE Spec => []SlicesFitBuffer
<1>1. shape \in Shapes => SlicesFitBuffer
  <2> SUFFICES ASSUME shape \in Shapes, NEW j \in 0..(streamkBlocks - 1)
               PROVE  TilePerCore(j) * Cardinality(SlotsOf(j)) <= ComputeLength
    BY DEF SlicesFitBuffer
  <2> DEFINE t == TilePerCore(j)
             slots == Cardinality(SlotsOf(j))
             n == LaborCoreNum(j)
  <2>1. t \in Nat /\ n \in Nat /\ t * n <= ComputeLength
    BY Labor
  <2>2. slots \in Nat /\ slots <= n
    BY SlotsBound
  <2>3. ComputeLength \in Nat
    BY DEF Assumptions
  <2> HIDE DEF t, slots, n
  <2>4. t * slots <= t * n /\ t * slots \in Nat /\ t * n \in Nat
    BY <2>1, <2>2
  <2> QED
    BY <2>1, <2>3, <2>4 DEF t, slots, n
<1> QED
  BY <1>1, ShapeInvariance, PTL

(* Every row of a stream-K block is added up by exactly one AIV of those   *)
(* that labor on the block, and there are such, for every problem.         *)
THEOREM OneLabor == ASSUME Assumptions PROVE Spec => []EachRowHasOneLabor
<1>1. shape \in Shapes => EachRowHasOneLabor
  <2> SUFFICES ASSUME shape \in Shapes, NEW j \in 0..(streamkBlocks - 1)
               PROVE  /\ LaborCoreNum(j) > 0
                      /\ \A row \in Row : Cardinality({a \in AIV : Labors(a, j) /\ row \in RowsOf(a, j)}) = 1
    BY DEF EachRowHasOneLabor
  <2> QED
    BY Labor, LaborOfRow
<1> QED
  BY <1>1, ShapeInvariance, PTL

-----------------------------------------------------------------------------
(* The tiles of the cores, one after the other.                            *)

\* The tiles of the stream-K blocks.
Tiles == streamkBlocks * kLoops

(* Each core begins where the one before ends, with one tile more than     *)
(* kTileNumPerCore or not, at most as many as a block has.                 *)
LEMMA TilesOfCore ==
    ASSUME Assumptions, shape \in Shapes, NEW c \in Nat
    PROVE  /\ StartOf(c) \in Nat
           /\ StartOf(c + 1) = StartOf(c) + (IF c < kTileRemain THEN kTileNumPerCore + 1 ELSE kTileNumPerCore)
           /\ StartOf(c) <= StartOf(c + 1) /\ StartOf(c + 1) <= StartOf(c) + kLoops
           /\ StartOf(blockDim) = Tiles
<1> DEFINE q == kTileNumPerCore
           r == kTileRemain
<1>1. /\ blockDim \in Nat \ {0} /\ kLoops \in Nat \ {0} /\ q \in Nat /\ r \in 0..(blockDim - 1)
      /\ Tiles = blockDim * q + r /\ q < kLoops
  BY Quantities DEF Tiles
<1>2. StartOf(c) = IF c <= r THEN c * (q + 1) ELSE c * q + r
  BY DEF StartOf
<1>3. StartOf(c + 1) = IF c + 1 <= r THEN (c + 1) * (q + 1) ELSE (c + 1) * q + r
  BY DEF StartOf
<1>4. StartOf(blockDim) = IF blockDim <= r THEN blockDim * (q + 1) ELSE blockDim * q + r
  BY DEF StartOf
<1> HIDE DEF q, r
<1>5. c * (q + 1) = c * q + c /\ (c + 1) * (q + 1) = c * q + q + c + 1 /\ (c + 1) * q = c * q + q /\ c * q \in Nat
  BY <1>1
<1>6. StartOf(c) \in Nat /\ StartOf(c + 1) = StartOf(c) + (IF c < r THEN q + 1 ELSE q)
  <2>1. CASE c < r
    BY <1>1, <1>2, <1>3, <1>5, <2>1
  <2>2. CASE c = r
    BY <1>1, <1>2, <1>3, <1>5, <2>2
  <2>3. CASE c > r
    BY <1>1, <1>2, <1>3, <1>5, <2>3
  <2> QED
    BY <1>1, <2>1, <2>2, <2>3
<1>7. StartOf(c) <= StartOf(c + 1) /\ StartOf(c + 1) <= StartOf(c) + kLoops
  BY <1>1, <1>6
<1> QED
  BY <1>1, <1>4, <1>6, <1>7 DEF q, r

(* A later core has later tiles.                                           *)
LEMMA StartsInOrder ==
    ASSUME Assumptions, shape \in Shapes, NEW c \in Nat, NEW d \in Nat, c <= d
    PROVE  StartOf(c) <= StartOf(d)
<1> DEFINE q == kTileNumPerCore
           r == kTileRemain
<1>1. q \in Nat /\ r \in Nat
  BY Quantities
<1>2. StartOf(c) = IF c <= r THEN c * (q + 1) ELSE c * q + r
  BY DEF StartOf
<1>3. StartOf(d) = IF d <= r THEN d * (q + 1) ELSE d * q + r
  BY DEF StartOf
<1> HIDE DEF q, r
<1>4. c * (q + 1) = c * q + c /\ d * (q + 1) = d * q + d /\ c * q \in Nat /\ d * q \in Nat /\ c * q <= d * q
  BY <1>1
<1> QED
  BY <1>1, <1>2, <1>3, <1>4

(* The loop of the cores: the normal blocks in whole rounds, then one turn *)
(* for each core that has tiles.                                           *)
LEMMA Loops ==
    ASSUME Assumptions, shape \in Shapes
    PROVE  /\ normalBlocks \in Nat /\ normalBlocks % blockDim = 0 /\ normalBlocks + streamkBlocks = shape.blocks
           /\ normalBlocks > 0 => normalBlocks >= blockDim
           /\ streamkCores \in 0..blockDim /\ GetCoreLoops = normalBlocks + streamkCores
           /\ streamkCores = (IF Tiles < blockDim THEN Tiles ELSE blockDim)
           /\ streamkCores = IF kTileNumPerCore = 0 THEN kTileRemain ELSE blockDim
<1> DEFINE q == kTileNumPerCore
           r == kTileRemain
           bd == blockDim
           round == shape.blocks \div bd
<1>1. /\ bd \in Nat \ {0} /\ streamkBlocks \in Nat /\ kLoops \in Nat \ {0} /\ q \in Nat /\ r \in 0..(bd - 1)
      /\ Tiles = bd * q + r /\ Tiles \in Nat
  BY Quantities DEF Tiles
<1>2. shape.blocks \in Nat
  BY DEF Assumptions
<1>3. round \in Nat /\ shape.blocks = bd * round + streamkBlocks
  BY <1>1, <1>2, DivMod DEF streamkBlocks
<1>4. GetCoreLoops = round * bd + Lower(Tiles, bd) /\ normalBlocks = shape.blocks - streamkBlocks
  BY DEF GetCoreLoops, normalBlocks, Tiles
<1>5. streamkCores = GetCoreLoops - normalBlocks
  BY DEF streamkCores
<1> HIDE DEF q, r, bd, round
<1>6. round * bd = bd * round /\ bd * round \in Nat
  BY <1>1, <1>3
<1>7. normalBlocks = bd * round /\ normalBlocks \in Nat
  BY <1>1, <1>2, <1>3, <1>4, <1>6
<1>8. normalBlocks % bd = 0
  <2>1. \A a \in Nat \ {0}, b \in Nat : (a * b) % a = 0
    OBVIOUS
  <2> QED
    BY <1>1, <1>3, <1>7, <2>1
<1>9. normalBlocks > 0 => normalBlocks >= bd
  <2> SUFFICES ASSUME normalBlocks > 0 PROVE normalBlocks >= bd
    OBVIOUS
  <2>1. round # 0
    BY <1>1, <1>7
  <2>2. bd * round >= bd * 1
    BY <1>1, <1>3, <2>1
  <2> QED
    BY <1>1, <1>7, <2>2
<1>10. streamkCores = Lower(Tiles, bd)
  BY <1>1, <1>4, <1>5, <1>6, <1>7 DEF Lower
<1>11. q = 0 => Tiles = r
  BY <1>1
<1>12. q # 0 => Tiles >= bd
  <2> SUFFICES ASSUME q # 0 PROVE Tiles >= bd
    OBVIOUS
  <2>1. bd * q >= bd * 1
    BY <1>1
  <2>2. bd * q \in Nat
    BY <1>1
  <2> QED
    BY <1>1, <2>1, <2>2
<1> QED
  BY <1>1, <1>2, <1>3, <1>4, <1>7, <1>8, <1>9, <1>10, <1>11, <1>12 DEF Lower, q, r, bd

\* Quotient and remainder are the only such pair.
LEMMA DivUnique ==
    ASSUME NEW d \in Nat \ {0}, NEW x \in Nat, NEW y \in 0..(d - 1), NEW a, a = d * x + y
    PROVE  a \div d = x /\ a % d = y
<1> DEFINE u == a \div d
           v == a % d
<1>1. a \in Nat /\ d * x \in Nat
  OBVIOUS
<1>2. u \in Nat /\ v \in 0..(d - 1) /\ a = d * u + v
  BY <1>1, DivMod
<1> HIDE DEF u, v
<1>3. d * u \in Nat
  BY <1>2
<1>4. ~(u < x)
  <2> SUFFICES ASSUME u + 1 <= x PROVE FALSE
    BY <1>2
  <2>1. d * (u + 1) <= d * x /\ d * (u + 1) = d * u + d
    BY <1>2
  <2> QED
    BY <1>1, <1>2, <1>3, <2>1
<1>5. ~(x < u)
  <2> SUFFICES ASSUME x + 1 <= u PROVE FALSE
    BY <1>2
  <2>1. d * (x + 1) <= d * u /\ d * (x + 1) = d * x + d
    BY <1>2
  <2> QED
    BY <1>1, <1>2, <1>3, <2>1
<1>6. u = x
  BY <1>2, <1>4, <1>5
<1> QED
  BY <1>1, <1>2, <1>6 DEF u, v

(* Exactly the cores that have tiles have a turn for them.                 *)
LEMMA CoreHasTiles ==
    ASSUME Assumptions, shape \in Shapes, NEW c \in 0..(streamkCores - 1)
    PROVE  StartOf(c) < StartOf(c + 1) /\ StartOf(c + 1) <= Tiles
<1>1. /\ streamkCores \in 0..blockDim /\ blockDim \in Nat
      /\ streamkCores = IF kTileNumPerCore = 0 THEN kTileRemain ELSE blockDim
      /\ kTileNumPerCore \in Nat /\ kTileRemain \in Nat
  BY Loops, Quantities
<1>2. c \in Nat /\ c + 1 \in Nat /\ c + 1 <= blockDim
  BY <1>1
<1>3. /\ StartOf(c) \in Nat /\ StartOf(blockDim) = Tiles
      /\ StartOf(c + 1) = StartOf(c) + (IF c < kTileRemain THEN kTileNumPerCore + 1 ELSE kTileNumPerCore)
  BY <1>2, TilesOfCore
<1>4. StartOf(c + 1) <= StartOf(blockDim)
  BY <1>1, <1>2, StartsInOrder
<1> QED
  BY <1>1, <1>3, <1>4

(* Every tile is that of a core with a turn.                               *)
LEMMA TileOwner ==
    ASSUME Assumptions, shape \in Shapes, NEW T \in 0..(Tiles - 1)
    PROVE  /\ CoreOfTile(T) \in 0..(streamkCores - 1)
           /\ StartOf(CoreOfTile(T)) <= T /\ T < StartOf(CoreOfTile(T) + 1)
<1> DEFINE c == CoreOfTile(T)
<1>1. /\ streamkCores \in 0..blockDim /\ blockDim \in Nat \ {0} /\ kTileNumPerCore \in Nat /\ kTileRemain \in Nat
      /\ streamkCores = (IF Tiles < blockDim THEN Tiles ELSE blockDim)
      /\ streamkCores = IF kTileNumPerCore = 0 THEN kTileRemain ELSE blockDim
  BY Loops, Quantities
<1>2. Tiles \in Nat /\ StartOf(blockDim) = Tiles
  BY <1>1, Quantities, TilesOfCore DEF Tiles
<1>3. T \in 0..(streamkBlocks * kLoops)
  BY <1>2 DEF Tiles
<1>4. /\ c \in 0..blockDim /\ T \in Nat
      /\ kTileNumPerCore > 0 => StartOf(c) <= T /\ T < StartOf(c + 1)
      /\ kTileNumPerCore = 0 => c = T
  BY <1>3, <1>2, TileInCore
<1> HIDE DEF c
<1>5. CASE kTileNumPerCore = 0
  <2>1. Tiles <= blockDim => Tiles = streamkCores
    BY <1>1, <1>2
  <2>2. kTileRemain < blockDim
    BY Quantities
  <2>3. T < kTileRemain
    BY <1>1, <1>2, <1>4, <1>5, <2>1, <2>2
  <2>4. StartOf(T) = T * (0 + 1) /\ StartOf(T + 1) = (T + 1) * (0 + 1)
    BY <1>1, <1>4, <1>5, <2>3 DEF StartOf
  <2>5. StartOf(T) = T /\ StartOf(T + 1) = T + 1
    BY <1>4, <2>4
  <2> QED
    BY <1>1, <1>4, <1>5, <2>3, <2>5 DEF c
<1>6. CASE kTileNumPerCore > 0
  <2>1. c # blockDim
    BY <1>2, <1>4, <1>6
  <2> QED
    BY <1>1, <1>4, <1>6, <2>1 DEF c
<1> QED
  BY <1>1, <1>5, <1>6

(* What a core computes for its tiles: those of the block they begin in,   *)
(* and those of the block after it, if it reaches there.                   *)
LEMMA PartsOfCore ==
    ASSUME Assumptions, shape \in Shapes, NEW c \in 0..(streamkCores - 1), NEW j \in Nat,
           Before(j) <= StartOf(c), StartOf(c) < Before(j + 1)
    PROVE  LET dec == GetStreamkBlockDec(normalBlocks + c) IN
           /\ dec.isStreamkBlock
           /\ dec.first = Part(normalBlocks + j, (StartOf(c) - Before(j)) * TileK,
                               Lower((StartOf(c + 1) - Before(j)) * TileK, shape.k))
           /\ dec.second = IF StartOf(c + 1) > Before(j + 1)
                           THEN Part(normalBlocks + (j + 1), 0, (StartOf(c + 1) - Before(j + 1)) * TileK)
                           ELSE Nothing
<1> DEFINE L == kLoops
           q == kTileNumPerCore
           r == kTileRemain
           S == StartOf(c)
           E == StartOf(c + 1)
           first == S - Before(j)
           cur == IF c < r THEN q + 1 ELSE q
           idx == IF c < r THEN c * cur ELSE c * q + r
           t == normalBlocks + c
           dec == GetStreamkBlockDec(t)
<1>1. /\ L \in Nat \ {0} /\ q \in Nat /\ r \in Nat /\ normalBlocks \in Nat /\ streamkCores \in Nat
  BY Quantities, Loops
<1>2. c \in Nat
  BY <1>1
<1>3. S \in Nat /\ E \in Nat /\ E = S + cur /\ E <= S + L
  BY <1>1, <1>2, TilesOfCore
<1>4. Before(j) = j * L /\ Before(j + 1) = (j + 1) * L
  BY DEF Before
<1>5. Before(j) \in Nat /\ Before(j + 1) = Before(j) + L
  BY <1>1, <1>4
<1>6. idx = S
  <2>1. CASE c < r
    BY <1>1, <1>2, <2>1 DEF StartOf
  <2>2. CASE c = r
    <3>1. S = c * (q + 1)
      BY <2>2 DEF StartOf
    <3>2. c * (q + 1) = c * q + c
      BY <1>1, <1>2
    <3> QED
      BY <3>1, <3>2, <2>2
  <2>3. CASE c > r
    BY <1>1, <1>2, <2>3 DEF StartOf
  <2> QED
    BY <1>1, <1>2, <2>1, <2>2, <2>3
<1>7. t - normalBlocks = c /\ ~(t < normalBlocks)
  BY <1>1, <1>2
<1>8. dec = [first |-> Part(normalBlocks + idx \div L, (idx % L) * TileK,
                            Lower(((idx % L) + cur) * TileK, shape.k)),
             isStreamkBlock |-> TRUE,
             second |-> IF (idx % L) + cur > L
                        THEN Part(normalBlocks + (idx + cur) \div L, 0, ((idx + cur) % L) * TileK)
                        ELSE Nothing]
  BY <1>7 DEF GetStreamkBlockDec
<1> HIDE DEF S, E, cur, idx, L, q, r, t, dec
<1>c. cur \in Nat
  BY <1>1 DEF cur
<1>9. S \div L = j /\ S % L = first /\ first \in Nat
  <2>1. first \in 0..(L - 1) /\ S = L * j + first
    BY <1>1, <1>3, <1>4, <1>5 DEF S
  <2> QED
    BY <1>1, <2>1, DivUnique
<1>10. first + cur = E - Before(j) /\ idx + cur = E
  BY <1>3, <1>5, <1>6, <1>9, <1>c
<1>11. first + cur > L <=> E > Before(j + 1)
  BY <1>1, <1>3, <1>5, <1>10
<1>12. E > Before(j + 1) => E \div L = j + 1 /\ E % L = E - Before(j + 1)
  <2> SUFFICES ASSUME E > Before(j + 1) PROVE E \div L = j + 1 /\ E % L = E - Before(j + 1)
    OBVIOUS
  <2>1. E - Before(j + 1) \in 0..(L - 1) /\ E = L * (j + 1) + (E - Before(j + 1))
    BY <1>1, <1>3, <1>4, <1>5 DEF S
  <2>2. \A x \in Nat, y \in 0..(L - 1) : E = L * x + y => E \div L = x /\ E % L = y
    BY <1>1, DivUnique
  <2>3. j + 1 \in Nat
    OBVIOUS
  <2> QED
    BY <2>1, <2>2, <2>3
<1>13. dec.first = Part(normalBlocks + j, first * TileK, Lower((E - Before(j)) * TileK, shape.k))
  BY <1>6, <1>8, <1>9, <1>10
<1>14. dec.second = IF E > Before(j + 1) THEN Part(normalBlocks + (j + 1), 0, (E - Before(j + 1)) * TileK) ELSE Nothing
  BY <1>6, <1>8, <1>9, <1>10, <1>11, <1>12
<1>15. dec.isStreamkBlock
  BY <1>8
<1> QED
  BY <1>13, <1>14, <1>15 DEF S, E, t, dec

-----------------------------------------------------------------------------
(* The slots a block is read from.                                         *)

\* The cores with tiles of block j, and the slot they have them in.
CoresOf(j) == {c \in 0..(streamkCores - 1) : StartOf(c) < Before(j + 1) /\ Before(j) < StartOf(c + 1)}
SlotOf(j, c) == <<c, IF StartOf(c) < Before(j) THEN 1 ELSE 0>>

(* IsCross: the core of a block's first tile begins before it.             *)
LEMMA Cross ==
    ASSUME Assumptions, shape \in Shapes, NEW j \in 0..streamkBlocks
    PROVE  /\ StartOf(GetCoreIdx(j)) <= Before(j)
           /\ IsCross(j) <=> StartOf(GetCoreIdx(j)) < Before(j)
<1> DEFINE q == kTileNumPerCore
           r == kTileRemain
           P == Before(j)
<1>1. q \in Nat /\ r \in Nat
  BY Quantities
<1>2. P \in Nat /\ (q = 0 => P <= r)
  <2>1. P \in 0..(streamkBlocks * kLoops) /\ streamkBlocks * kLoops = blockDim * q + r /\ blockDim \in Nat
    BY Quantities, StartCore
  <2> QED
    BY <1>1, <2>1
<1>3. LongCores = r * (q + 1) /\ LongCores \in Nat /\ r * (q + 1) = r * q + r
  BY <1>1 DEF LongCores
<1>4. GetCoreIdx(j) = IF P > LongCores THEN r + (P - LongCores) \div q ELSE P \div (q + 1)
  BY DEF GetCoreIdx
<1>5. IsCross(j) = IF P > LongCores THEN (P - LongCores) % q # 0 ELSE P % (q + 1) # 0
  BY DEF IsCross
<1>6. \A x : StartOf(x) = IF x <= r THEN x * (q + 1) ELSE x * q + r
  BY DEF StartOf
<1> HIDE DEF q, r, P
<1>7. CASE P > LongCores
  <2>1. q # 0
    BY <1>1, <1>2, <1>3, <1>7
  <2>2. PICK x \in Nat, y \in Nat : x = (P - LongCores) \div q /\ y = (P - LongCores) % q /\ P - LongCores = q * x + y
    <3>1. P - LongCores \in Nat
      BY <1>2, <1>3, <1>7
    <3>2. /\ (P - LongCores) \div q \in Nat /\ (P - LongCores) % q \in 0..(q - 1)
          /\ P - LongCores = q * ((P - LongCores) \div q) + ((P - LongCores) % q)
      BY <1>1, <2>1, <3>1, DivMod
    <3>3. (P - LongCores) % q \in Nat
      BY <1>1, <3>2
    <3> QED
      BY <3>2, <3>3
  <2>3. StartOf(r + x) = (r + x) * q + r
    <3>1. CASE x = 0
      BY <1>1, <1>3, <1>6, <3>1
    <3>2. CASE x > 0
      BY <1>1, <1>6, <3>2
    <3> QED
      BY <3>1, <3>2
  <2>4. (r + x) * q + r = LongCores + q * x /\ q * x \in Nat
    BY <1>1, <1>3
  <2>5. GetCoreIdx(j) = r + x /\ (IsCross(j) <=> y # 0)
    BY <1>4, <1>5, <1>7, <2>2
  <2>6. P = LongCores + q * x + y /\ StartOf(r + x) = LongCores + q * x
    BY <1>2, <1>3, <2>2, <2>3, <2>4
  <2>7. StartOf(GetCoreIdx(j)) <= P /\ (IsCross(j) <=> StartOf(GetCoreIdx(j)) < P)
    BY <1>3, <2>2, <2>4, <2>5, <2>6
  <2> QED
    BY <2>7 DEF P
<1>8. CASE ~(P > LongCores)
  <2>1. PICK x \in Nat, y \in Nat : x = P \div (q + 1) /\ y = P % (q + 1) /\ P = (q + 1) * x + y
    <3>1. q + 1 \in Nat \ {0} /\ (q + 1) - 1 = q
      BY <1>1
    <3>2. P \div (q + 1) \in Nat /\ P % (q + 1) \in 0..q /\ P = (q + 1) * (P \div (q + 1)) + (P % (q + 1))
      BY <1>2, <3>1, DivMod
    <3>3. P % (q + 1) \in Nat
      BY <1>1, <3>2
    <3> QED
      BY <3>2, <3>3
  <2>2. x <= r
    <3> SUFFICES ASSUME x >= r + 1 PROVE FALSE
      BY <1>1
    <3>1. (q + 1) * x >= (q + 1) * (r + 1) /\ (q + 1) * (r + 1) = r * q + r + q + 1 /\ (q + 1) * x \in Nat
      BY <1>1
    <3> QED
      BY <1>1, <1>2, <1>3, <1>8, <2>1, <3>1
  <2>3. StartOf(x) = (q + 1) * x /\ (q + 1) * x \in Nat
    BY <1>1, <1>6, <2>2
  <2>4. GetCoreIdx(j) = x /\ (IsCross(j) <=> y # 0)
    BY <1>4, <1>5, <1>8, <2>1
  <2> DEFINE z == StartOf(GetCoreIdx(j))
  <2>5. z \in Nat /\ P = z + y
    BY <2>1, <2>3, <2>4
  <2> HIDE DEF z
  <2>6. z <= P /\ (y # 0 <=> z < P)
    BY <1>2, <2>5
  <2> QED
    BY <2>4, <2>6 DEF P, z
<1> QED
  BY <1>7, <1>8

(* SlotsOf names exactly the slots with tiles of the block.                *)
LEMMA SlotsAreOfBlock ==
    ASSUME Assumptions, shape \in Shapes, NEW j \in 0..(streamkBlocks - 1)
    PROVE  SlotsOf(j) = {SlotOf(j, c) : c \in CoresOf(j)}
<1> DEFINE s == GetCoreIdx(j)
           e == GetCoreIdx(j + 1)
           end == e + IF IsCross(j + 1) THEN 1 ELSE 0
           q == kTileNumPerCore
<1>1. /\ streamkBlocks \in Nat /\ kLoops \in Nat \ {0} /\ q \in Nat /\ blockDim \in Nat /\ streamkCores \in Nat
      /\ kTileRemain \in Nat /\ streamkCores = IF q = 0 THEN kTileRemain ELSE blockDim
      /\ streamkCores = (IF Tiles < blockDim THEN Tiles ELSE blockDim) /\ kTileRemain < blockDim
  BY Quantities, Loops
<1>2. j \in 0..streamkBlocks /\ j + 1 \in 0..streamkBlocks /\ j \in Nat
  BY <1>1
<1>3. /\ Before(j) \in Nat /\ Before(j + 1) = Before(j) + kLoops /\ Before(j + 1) \in 0..Tiles /\ Tiles \in Nat
  <2>1. Before(j) \in 0..(streamkBlocks * kLoops) /\ Before(j + 1) \in 0..(streamkBlocks * kLoops)
    BY <1>2, StartCore
  <2>2. Before(j + 1) = Before(j) + kLoops
    BY <1>1, <1>2 DEF Before
  <2>3. streamkBlocks * kLoops \in Nat
    BY <1>1
  <2> QED
    BY <2>1, <2>2, <2>3 DEF Tiles
<1>4. s \in 0..(streamkCores - 1) /\ StartOf(s) <= Before(j) /\ Before(j) < StartOf(s + 1)
  <2>1. Before(j) \in 0..(Tiles - 1)
    BY <1>1, <1>3
  <2> QED
    BY <1>2, <2>1, TileOwner, StartCore
<1>5. IsCross(j) <=> StartOf(s) < Before(j)
  BY <1>2, Cross
<1>6. /\ e \in 0..blockDim /\ StartOf(e) <= Before(j + 1) /\ (IsCross(j + 1) <=> StartOf(e) < Before(j + 1))
      /\ q > 0 => Before(j + 1) < StartOf(e + 1)
      /\ q = 0 => e = Before(j + 1)
  BY <1>2, Cross, StartCore
<1>7. q = 0 => Tiles = streamkCores
  BY <1>1, <1>3
<1>8. StartOf(blockDim) = Tiles
  BY <1>1, TilesOfCore
<1>9. q = 0 => ~IsCross(j + 1)
  <2> SUFFICES ASSUME q = 0 PROVE StartOf(e) = e
    BY <1>3, <1>6
  <2>1. e <= kTileRemain
    BY <1>1, <1>3, <1>6, <1>7
  <2>2. StartOf(e) = e * (0 + 1)
    BY <2>1 DEF StartOf
  <2> QED
    BY <1>6, <2>2
<1> HIDE DEF s, e, q
<1>10. ASSUME NEW c \in Nat PROVE c \in s..(end - 1) <=> c \in CoresOf(j)
  <2>0. StartOf(c) \in Nat /\ StartOf(c + 1) \in Nat /\ StartOf(s) \in Nat /\ StartOf(s + 1) \in Nat
        /\ StartOf(e) \in Nat /\ StartOf(e + 1) \in Nat /\ s \in Nat /\ e \in Nat
    BY <1>1, <1>4, <1>6, TilesOfCore
  <2>1. ASSUME s <= c PROVE Before(j) < StartOf(c + 1)
    <3>1. StartOf(s + 1) <= StartOf(c + 1)
      BY <1>1, <1>4, <2>0, <2>1, StartsInOrder
    <3> QED
      BY <1>3, <1>4, <2>0, <3>1
  <2>2. ASSUME c < s PROVE ~(Before(j) < StartOf(c + 1))
    <3>1. StartOf(c + 1) <= StartOf(s)
      BY <2>0, <2>2, StartsInOrder
    <3> QED
      BY <1>3, <1>4, <2>0, <3>1
  <2>3. CASE IsCross(j + 1)
    <3>1. q > 0 /\ end = e + 1 /\ StartOf(e) < Before(j + 1)
      BY <1>1, <1>6, <1>9, <2>3
    <3>2. ASSUME c <= e PROVE StartOf(c) < Before(j + 1) /\ c < streamkCores
      <4>1. StartOf(c) <= StartOf(e)
        BY <2>0, <3>2, StartsInOrder
      <4>2. e # blockDim
        BY <1>3, <1>8, <2>0, <3>1
      <4> QED
        BY <1>1, <1>3, <1>6, <2>0, <3>1, <3>2, <4>1, <4>2
    <3>3. ASSUME c > e PROVE ~(StartOf(c) < Before(j + 1))
      <4>1. StartOf(e + 1) <= StartOf(c)
        BY <2>0, <3>3, StartsInOrder
      <4> QED
        BY <1>3, <1>6, <2>0, <3>1, <4>1
    <3> QED
      BY <1>1, <2>0, <2>1, <2>2, <3>1, <3>2, <3>3 DEF CoresOf
  <2>4. CASE ~IsCross(j + 1)
    <3>1. end = e /\ StartOf(e) = Before(j + 1)
      BY <1>3, <1>6, <2>0, <2>4
    <3>2. ASSUME c < e PROVE StartOf(c) < Before(j + 1) /\ c < streamkCores
      <4>1. StartOf(c + 1) <= StartOf(e)
        BY <2>0, <3>2, StartsInOrder
      <4>2. c < streamkCores
        BY <1>1, <1>3, <1>6, <1>7, <2>0, <3>2
      <4>3. StartOf(c) < StartOf(c + 1)
        BY <1>1, <4>2, CoreHasTiles
      <4> QED
        BY <2>0, <3>1, <4>1, <4>2, <4>3
    <3>3. ASSUME c >= e PROVE ~(StartOf(c) < Before(j + 1))
      <4>1. StartOf(e) <= StartOf(c)
        BY <2>0, <3>3, StartsInOrder
      <4> QED
        BY <1>3, <2>0, <3>1, <4>1
    <3> QED
      BY <1>1, <2>0, <2>1, <2>2, <3>1, <3>2, <3>3 DEF CoresOf
  <2> QED
    BY <2>3, <2>4
<1>11. ASSUME NEW c \in CoresOf(j) PROVE (c = s /\ IsCross(j)) <=> StartOf(c) < Before(j)
  <2>1. c \in Nat /\ s \in Nat /\ Before(j) < StartOf(c + 1)
    BY <1>1, <1>4 DEF CoresOf
  <2>2. {StartOf(c), StartOf(c + 1), StartOf(s), StartOf(s + 1)} \subseteq Nat
    BY <2>1, TilesOfCore
  <2>3. c > s => StartOf(s + 1) <= StartOf(c)
    BY <2>1, StartsInOrder
  <2>4. c < s => StartOf(c + 1) <= StartOf(s)
    BY <2>1, StartsInOrder
  <2> QED
    BY <1>3, <1>4, <1>5, <2>1, <2>2, <2>3, <2>4
<1>12. s..(end - 1) \subseteq Nat /\ CoresOf(j) \subseteq Nat
  BY <1>1, <1>4, <1>6 DEF CoresOf
<1>13. s..(end - 1) = CoresOf(j)
  BY <1>10, <1>12
<1>14. SlotsOf(j) = {<<c, IF c = s /\ IsCross(j) THEN 1 ELSE 0>> : c \in s..(end - 1)}
  BY DEF SlotsOf, s, e
<1>15. \A c \in CoresOf(j) : <<c, IF c = s /\ IsCross(j) THEN 1 ELSE 0>> = SlotOf(j, c)
  BY <1>11 DEF SlotOf
<1> HIDE DEF end
<1> QED
  BY <1>13, <1>14, <1>15

-----------------------------------------------------------------------------
(* What the slots of a block hold when all are stored.                     *)
PartOf(s) ==
    LET dec == GetStreamkBlockDec(normalBlocks + s[1])
    IN  IF s[2] = 0 THEN dec.first ELSE dec.second

\* What the AIVs write to the rows of stream-K block j.
SumOf(j) == {<<s, PartOf(s)>> : s \in SlotsOf(j)}

(* The part in a slot of a block: of that block, from the first of its     *)
(* tiles that the core has to the last.                                    *)
LEMMA PartInSlot ==
    ASSUME Assumptions, shape \in Shapes, NEW j \in 0..(streamkBlocks - 1), NEW c \in CoresOf(j)
    PROVE  LET p == PartOf(SlotOf(j, c)) IN
           /\ p.block = normalBlocks + j
           /\ p.from = IF StartOf(c) < Before(j) THEN 0 ELSE (StartOf(c) - Before(j)) * TileK
           /\ p.to = Lower((StartOf(c + 1) - Before(j)) * TileK, shape.k)
<1> DEFINE L == kLoops
           S == StartOf(c)
           E == StartOf(c + 1)
           dec == GetStreamkBlockDec(normalBlocks + c)
<1>1. /\ L \in Nat \ {0} /\ streamkBlocks \in Nat /\ streamkCores \in Nat /\ normalBlocks \in Nat
  BY Quantities, Loops
<1>a. TileK \in Nat \ {0} /\ shape.k \in Nat
  BY DEF Assumptions
<1>2. j \in Nat /\ c \in 0..(streamkCores - 1) /\ c \in Nat /\ S < Before(j + 1) /\ Before(j) < E
  BY <1>1, <1>a DEF CoresOf
<1>3. /\ S \in Nat /\ E \in Nat /\ S <= E /\ E <= S + L
      /\ Before(j) \in Nat /\ Before(j + 1) = Before(j) + L
  BY <1>1, <1>a, <1>2, TilesOfCore DEF Before
<1>4. SlotOf(j, c)[1] = c /\ SlotOf(j, c)[2] = IF S < Before(j) THEN 1 ELSE 0
  BY DEF SlotOf
<1>5. PartOf(SlotOf(j, c)) = IF S < Before(j) THEN dec.second ELSE dec.first
  BY <1>4 DEF PartOf
<1> HIDE DEF L, S, E, dec
<1>6. CASE Before(j) <= S
  <2>1. dec.first = Part(normalBlocks + j, (S - Before(j)) * TileK, Lower((E - Before(j)) * TileK, shape.k))
    BY <1>2, <1>6, PartsOfCore DEF dec, S, E
  <2>2. PartOf(SlotOf(j, c)) = dec.first
    BY <1>3, <1>5, <1>6
  <2> QED
    BY <1>3, <1>6, <2>1, <2>2 DEF Part, S, E
<1>7. CASE S < Before(j)
  <2>1. j > 0 /\ j - 1 \in Nat
    <3>1. j = 0 => Before(j) = 0
      BY <1>1, <1>a DEF Before, L
    <3> QED
      BY <1>2, <1>3, <1>7, <3>1
  <2>2. Before(j - 1) \in Nat /\ Before(j) = Before(j - 1) + L
    BY <1>1, <1>a, <1>2, <2>1 DEF Before, L
  <2>3. PICK i \in Nat : i = j - 1 /\ j = i + 1
    BY <1>2, <2>1
  <2>4. Before(i) <= S /\ S < Before(i + 1) /\ E > Before(i + 1)
    BY <1>1, <1>a, <1>2, <1>3, <1>7, <2>2, <2>3
  <2>5. dec.second = Part(normalBlocks + (i + 1), 0, (E - Before(i + 1)) * TileK)
    BY <1>2, <2>4, PartsOfCore DEF dec, S, E
  <2>6. PartOf(SlotOf(j, c)) = dec.second
    BY <1>5, <1>7
  <2>7. dec.second = Part(normalBlocks + j, 0, (E - Before(j)) * TileK)
    BY <2>3, <2>5
  <2>8. (E - Before(j)) * TileK <= shape.k /\ (E - Before(j)) * TileK \in Nat
    <3>1. E - Before(j) \in Nat /\ E - Before(j) <= L - 1
      BY <1>1, <1>a, <1>2, <1>3, <1>7
    <3>2. (L - 1) * TileK < shape.k
      <4>1. shape.k + TileK - 1 \in Nat
        BY <1>1, <1>a
      <4>2. L * TileK <= shape.k + TileK - 1
        <5>1. /\ (shape.k + TileK - 1) % TileK \in 0..(TileK - 1) /\ L = (shape.k + TileK - 1) \div TileK
              /\ shape.k + TileK - 1 = TileK * ((shape.k + TileK - 1) \div TileK) + ((shape.k + TileK - 1) % TileK)
          BY <1>1, <1>a, <4>1, DivMod DEF L, kLoops, CeilDiv
        <5>2. L * TileK = TileK * L /\ L * TileK \in Nat
          BY <1>1, <1>a
        <5> QED
          BY <1>1, <1>a, <5>1, <5>2
      <4>3. (L - 1) * TileK = L * TileK - TileK /\ L * TileK \in Nat
        BY <1>1, <1>a
      <4> QED
        BY <1>1, <1>a, <4>2, <4>3
    <3>3. (E - Before(j)) * TileK <= (L - 1) * TileK /\ (L - 1) * TileK \in Nat /\ (E - Before(j)) * TileK \in Nat
      BY <1>1, <1>a, <3>1
    <3> QED
      BY <1>1, <1>a, <3>2, <3>3
  <2> QED
    BY <1>1, <1>3, <1>7, <1>a, <2>6, <2>7, <2>8 DEF Part, Lower, S, E
<1> QED
  BY <1>3, <1>6, <1>7

(* An index of k is in the part of the core that has its tile.             *)
LEMMA IndexInPart ==
    ASSUME Assumptions, shape \in Shapes, NEW j \in 0..(streamkBlocks - 1), NEW c \in CoresOf(j),
           NEW i \in 0..(shape.k - 1)
    PROVE  /\ PartOf(SlotOf(j, c)).from < PartOf(SlotOf(j, c)).to
           /\ (PartOf(SlotOf(j, c)).from <= i /\ i < PartOf(SlotOf(j, c)).to)
                 <=> (StartOf(c) <= Before(j) + i \div TileK /\ Before(j) + i \div TileK < StartOf(c + 1))
<1> DEFINE S == StartOf(c)
           E == StartOf(c + 1)
           p == PartOf(SlotOf(j, c))
           B == Before(j)
           T == i \div TileK
<1>1. /\ kLoops \in Nat \ {0} /\ streamkBlocks \in Nat /\ streamkCores \in Nat
  BY Quantities, Loops
<1>a. TileK \in Nat \ {0} /\ shape.k \in Nat \ {0} /\ i \in Nat /\ i < shape.k
  BY DEF Assumptions
<1>2. /\ c \in Nat /\ c \in 0..(streamkCores - 1) /\ j \in Nat
      /\ S < Before(j + 1) /\ B < E /\ S < E
  BY <1>1, <1>a, CoreHasTiles DEF CoresOf
<1>3. S \in Nat /\ E \in Nat /\ B \in Nat /\ Before(j + 1) = B + kLoops
  BY <1>1, <1>a, <1>2, TilesOfCore DEF Before
<1>4. p.from = (IF S < B THEN 0 ELSE (S - B) * TileK) /\ p.to = Lower((E - B) * TileK, shape.k)
  BY PartInSlot
<1>5. T \in Nat /\ \E y \in 0..(TileK - 1) : i = TileK * T + y
  BY <1>1, <1>a, DivMod
<1> HIDE DEF S, E, p, B, T
<1>6. PICK y \in 0..(TileK - 1) : i = TileK * T + y
  BY <1>5
<1>7. TileK * T \in Nat
  BY <1>1, <1>a, <1>5
<1>8. ASSUME NEW a \in Nat PROVE a * TileK <= i <=> a <= T
  <2>1. CASE a <= T
    <3>1. TileK * a <= TileK * T /\ TileK * a \in Nat /\ a * TileK = TileK * a
      BY <1>1, <1>a, <1>5, <2>1
    <3> QED
      BY <1>1, <1>a, <1>6, <1>7, <2>1, <3>1
  <2>2. CASE a > T
    <3>1. TileK * (T + 1) <= TileK * a /\ TileK * a \in Nat /\ a * TileK = TileK * a /\ TileK * (T + 1) = TileK * T + TileK
      BY <1>1, <1>a, <1>5, <2>2
    <3> QED
      BY <1>1, <1>a, <1>5, <1>6, <1>7, <2>2, <3>1
  <2> QED
    BY <1>5, <2>1, <2>2
<1>9. p.from <= i <=> S <= B + T
  <2>1. CASE S < B
    BY <1>1, <1>a, <1>3, <1>4, <1>5, <2>1
  <2>2. CASE B <= S
    <3>1. (S - B) * TileK <= i <=> S - B <= T
      BY <1>3, <1>8, <2>2
    <3> QED
      BY <1>3, <1>4, <1>5, <2>2, <3>1
  <2> QED
    BY <1>3, <2>1, <2>2
<1>10. i < p.to <=> B + T < E
  <2>1. E - B \in Nat /\ (E - B) * TileK \in Nat
    BY <1>1, <1>a, <1>2, <1>3
  <2>2. (E - B) * TileK <= i <=> E - B <= T
    BY <1>8, <2>1
  <2>3. i < p.to <=> i < (E - B) * TileK
    BY <1>1, <1>a, <1>4, <2>1 DEF Lower
  <2> QED
    BY <1>1, <1>a, <1>3, <1>5, <2>1, <2>2, <2>3
<1>11. p.from < p.to
  <2>1. E - B \in Nat \ {0} /\ (E - B) * TileK >= 1 * TileK /\ (E - B) * TileK \in Nat
    BY <1>1, <1>a, <1>2, <1>3
  <2>2. CASE S < B
    BY <1>1, <1>a, <1>4, <2>1, <2>2 DEF Lower
  <2>3. CASE B <= S
    <3>1. S - B \in Nat /\ S - B <= kLoops - 1 /\ S - B + 1 <= E - B
      BY <1>1, <1>a, <1>2, <1>3, <2>3
    <3>2. (S - B + 1) * TileK <= (E - B) * TileK /\ (S - B + 1) * TileK = (S - B) * TileK + TileK /\ (S - B) * TileK \in Nat
      BY <1>1, <1>a, <2>1, <3>1
    <3>3. (S - B) * TileK < shape.k
      <4>1. shape.k - 1 \in Nat /\ (kLoops - 1) * TileK <= shape.k - 1
        <5>1. shape.k + TileK - 1 \in Nat
          BY <1>1, <1>a
        <5>2. /\ (shape.k + TileK - 1) % TileK \in 0..(TileK - 1)
              /\ shape.k + TileK - 1 = TileK * kLoops + ((shape.k + TileK - 1) % TileK)
          BY <1>1, <1>a, <5>1, DivMod DEF kLoops, CeilDiv
        <5>3. (kLoops - 1) * TileK = TileK * kLoops - TileK /\ TileK * kLoops \in Nat
          BY <1>1, <1>a
        <5> QED
          BY <1>1, <1>a, <5>2, <5>3
      <4>2. (S - B) * TileK <= (kLoops - 1) * TileK /\ (kLoops - 1) * TileK \in Nat
        BY <1>1, <1>a, <3>1
      <4> QED
        BY <1>1, <1>a, <3>2, <4>1, <4>2
    <3> QED
      BY <1>1, <1>a, <1>3, <1>4, <2>1, <2>3, <3>2, <3>3 DEF Lower
  <2> QED
    BY <1>3, <2>2, <2>3
<1> QED
  BY <1>9, <1>10, <1>11 DEF S, E, p, B, T

(* The slots of a block hold it whole: each index of k is in one of them.  *)
LEMMA SumWhole ==
    ASSUME Assumptions, shape \in Shapes, NEW j \in 0..(streamkBlocks - 1)
    PROVE  Whole(SumOf(j), normalBlocks + j) /\ SumOf(j) # {}
<1> DEFINE At(c) == <<SlotOf(j, c), PartOf(SlotOf(j, c))>>
<1>1. SumOf(j) = {At(c) : c \in CoresOf(j)}
  <2>1. SlotsOf(j) = {SlotOf(j, c) : c \in CoresOf(j)}
    BY SlotsAreOfBlock
  <2> QED
    BY <2>1 DEF SumOf
<1>2. /\ kLoops \in Nat \ {0} /\ streamkBlocks \in Nat /\ streamkCores \in Nat /\ blockDim \in Nat
  BY Quantities, Loops
<1>3. TileK \in Nat \ {0} /\ shape.k \in Nat \ {0}
  BY DEF Assumptions
<1>4. j \in Nat /\ Before(j) \in Nat /\ Before(j + 1) = Before(j) + kLoops /\ Before(j + 1) <= Tiles /\ Tiles \in Nat
  <2>1. j \in Nat /\ j + 1 \in 0..streamkBlocks
    BY <1>2
  <2>2. Before(j + 1) \in 0..(streamkBlocks * kLoops) /\ streamkBlocks * kLoops \in Nat
    BY <1>2, <2>1, StartCore
  <2>3. Before(j) \in Nat /\ Before(j + 1) = Before(j) + kLoops
    BY <1>2, <2>1 DEF Before
  <2> QED
    BY <2>1, <2>2, <2>3 DEF Tiles
<1>5. \A x \in SumOf(j) : x[2].block = normalBlocks + j /\ x[2].from < x[2].to
  <2> SUFFICES ASSUME NEW c \in CoresOf(j)
               PROVE  At(c)[2].block = normalBlocks + j /\ At(c)[2].from < At(c)[2].to
    BY <1>1
  <2>1. At(c)[2] = PartOf(SlotOf(j, c))
    OBVIOUS
  <2>2. PartOf(SlotOf(j, c)).block = normalBlocks + j
    BY PartInSlot
  <2>3. 0 \in 0..(shape.k - 1)
    BY <1>3
  <2>4. PartOf(SlotOf(j, c)).from < PartOf(SlotOf(j, c)).to
    BY <2>3, IndexInPart
  <2> QED
    BY <2>1, <2>2, <2>4
<1>6. ASSUME NEW i \in 0..(shape.k - 1)
      PROVE  \E x : {y \in SumOf(j) : y[2].from <= i /\ i < y[2].to} = {x}
  <2> DEFINE T == Before(j) + i \div TileK
             c == CoreOfTile(T)
  <2>1. i \div TileK \in Nat /\ i \div TileK < kLoops
    <3>1. i \in Nat /\ i < shape.k /\ shape.k + TileK - 1 \in Nat
      BY <1>3
    <3>2. /\ i \div TileK \in Nat /\ i % TileK \in 0..(TileK - 1) /\ i = TileK * (i \div TileK) + (i % TileK)
      BY <1>3, <3>1, DivMod
    <3>3. /\ (shape.k + TileK - 1) % TileK \in 0..(TileK - 1)
          /\ shape.k + TileK - 1 = TileK * kLoops + ((shape.k + TileK - 1) % TileK)
      BY <1>3, <3>1, DivMod DEF kLoops, CeilDiv
    <3> DEFINE u == i \div TileK
               m == (shape.k + TileK - 1) % TileK
    <3> HIDE DEF u, m
    <3>4. TileK * u \in Nat /\ TileK * u <= i
      BY <1>3, <3>1, <3>2 DEF u
    <3>5. shape.k <= TileK * kLoops
      <4>1. TileK * kLoops \in Nat
        BY <1>2, <1>3
      <4> QED
        BY <1>3, <3>3, <4>1
    <3>6. u >= kLoops => TileK * kLoops <= TileK * u
      BY <1>2, <1>3, <3>2 DEF u
    <3>7. TileK * kLoops \in Nat
      BY <1>2, <1>3
    <3>8. ~(u >= kLoops)
      BY <1>3, <3>1, <3>4, <3>5, <3>6, <3>7
    <3> QED
      BY <1>2, <3>2, <3>8 DEF u
  <2>2. T \in 0..(Tiles - 1) /\ T \in Nat /\ Before(j) <= T /\ T < Before(j + 1)
    BY <1>2, <1>4, <2>1
  <2>3. c \in 0..(streamkCores - 1) /\ StartOf(c) <= T /\ T < StartOf(c + 1)
    BY <2>2, TileOwner
  <2> HIDE DEF T, c
  <2>4. c \in Nat /\ StartOf(c) \in Nat /\ StartOf(c + 1) \in Nat
    <3>1. c \in Nat
      BY <1>2, <2>3
    <3> QED
      BY <3>1, TilesOfCore
  <2>5. c \in CoresOf(j)
    BY <1>2, <1>4, <2>2, <2>3, <2>4 DEF CoresOf
  <2>6. ASSUME NEW d \in CoresOf(j), StartOf(d) <= T, T < StartOf(d + 1) PROVE d = c
    <3>1. d \in Nat
      BY <1>2 DEF CoresOf
    <3>2. StartOf(d) \in Nat /\ StartOf(d + 1) \in Nat
      BY <3>1, TilesOfCore
    <3>3. d < c => StartOf(d + 1) <= StartOf(c)
      BY <2>4, <3>1, StartsInOrder
    <3>4. c < d => StartOf(c + 1) <= StartOf(d)
      BY <2>4, <3>1, StartsInOrder
    <3> QED
      BY <2>2, <2>3, <2>4, <2>6, <3>1, <3>2, <3>3, <3>4
  <2>7. ASSUME NEW d \in CoresOf(j)
        PROVE  (At(d)[2].from <= i /\ i < At(d)[2].to) <=> d = c
    <3>1. At(d)[2] = PartOf(SlotOf(j, d))
      OBVIOUS
    <3>2. (PartOf(SlotOf(j, d)).from <= i /\ i < PartOf(SlotOf(j, d)).to) <=> (StartOf(d) <= T /\ T < StartOf(d + 1))
      BY IndexInPart DEF T
    <3> QED
      BY <2>3, <2>6, <3>1, <3>2
  <2> HIDE DEF At
  <2>8. {y \in SumOf(j) : y[2].from <= i /\ i < y[2].to} = {At(c)}
    BY <1>1, <2>5, <2>7
  <2> QED
    BY <2>8
<1>7. \A i \in 0..(shape.k - 1) : Cardinality({x \in SumOf(j) : x[2].from <= i /\ i < x[2].to}) = 1
  BY <1>6, FS_Singleton
<1>8. SumOf(j) # {}
  <2>1. 0 \in 0..(shape.k - 1)
    BY <1>3
  <2> QED
    BY <1>6, <2>1
<1> QED
  BY <1>5, <1>7, <1>8 DEF Whole

(* A block that one core computes is whole.                                *)
LEMMA BlockWhole ==
    ASSUME Assumptions, shape \in Shapes, NEW b, NEW from
    PROVE  Whole({<<from, Part(b, 0, shape.k)>>}, b)
<1>1. shape.k \in Nat \ {0}
  BY DEF Assumptions
<1> DEFINE x == <<from, Part(b, 0, shape.k)>>
<1>2. x[2].block = b /\ x[2].from = 0 /\ x[2].to = shape.k
  BY DEF Part
<1> HIDE DEF x
<1>3. \A i \in 0..(shape.k - 1) : {y \in {x} : y[2].from <= i /\ i < y[2].to} = {x}
  BY <1>1, <1>2
<1>4. \A i \in 0..(shape.k - 1) : Cardinality({y \in {x} : y[2].from <= i /\ i < y[2].to}) = 1
  BY <1>3, FS_Singleton
<1> QED
  BY <1>1, <1>2, <1>4 DEF Whole, x

-----------------------------------------------------------------------------
(* The inductive invariant.                                                *)

\* The turn of core c for its stream-K slices.
SliceTurn(c) == IF normalBlocks > 0 THEN normalBlocks - blockDim + c ELSE c

\* The turns core c has behind it.
TurnsDone(c) == {i \in 0..(loopIdx[c] - 1) : i % blockDim = c /\ i < GetCoreLoops}

\* Core c has set the flag.
Announced(c) == IF c < streamkCores THEN aicPc[c] = "turn" /\ SliceTurn(c) < loopIdx[c] ELSE aicPc[c] # "start"

\* What is written to the rows of block b.
Value(b) ==
    IF b < normalBlocks THEN {<<<<b % blockDim, 2>>, Part(b, 0, shape.k)>>} ELSE SumOf(b - normalBlocks)

\* Task t has been computed and is where it belongs.
Stored(t) ==
    IF t < normalBlocks THEN \A r \in Row : result[t][r] = Value(t)
    ELSE LET dec == GetStreamkBlockDec(t) IN
         /\ slot[t - normalBlocks][0] = dec.first
         /\ dec.second # Nothing => slot[t - normalBlocks][1] = dec.second

Parts == [block : Int, from : Int, to : Int]

TypeInv ==
    /\ shape \in Shapes
    /\ loopIdx \in [Core -> Nat]
    /\ task \in [Core -> Nat]
    /\ aicPc \in [Core -> {"start", "turn", "set"}]
    /\ slot \in [Core -> [0..1 -> Parts]]
    /\ aivPc \in [AIV -> {"wait", "arrive", "barrier", "reduce", "done"}]
    /\ finish \in [AIV -> Nat]

\* A core goes through its turns, and sets the flag after that of its slices
\* or, if it has none, before the first.
LoopInv ==
    \A c \in Core :
        /\ loopIdx[c] % blockDim = c
        /\ \A i \in Nat : loopIdx[c] = i => task[c] = ActualLoopIdx(c, i)
        /\ aicPc[c] = "start" => c >= streamkCores
        /\ aicPc[c] = "set" => c < streamkCores /\ SliceTurn(c) < loopIdx[c]

\* The turns behind a core have been stored.
StoredInv ==
    \A c \in Core : \A i \in TurnsDone(c) :
        \A t \in 0..(GetCoreLoops - 1) : t = ActualLoopIdx(c, i) => Stored(t)

\* The flag is set when its core has announced its slices and the AIV has not
\* waited yet.
FlagInv ==
    \A a \in AIV :
        /\ finish[a] = IF Announced(a \div SubBlocks) /\ aivPc[a] = "wait" THEN 1 ELSE 0
        /\ aivPc[a] # "wait" => Announced(a \div SubBlocks)

\* Nobody is past the barrier while another has not arrived.
BarrierInv ==
    \A a, o \in AIV : aivPc[a] \in {"reduce", "done"} => aivPc[o] \notin {"wait", "arrive"}

\* A row has not been written or is whole.
ResultInv ==
    /\ result = [b \in Block |-> [r \in Row |-> result[b][r]]]
    /\ \A b \in Block, r \in Row : result[b][r] \in {{}, Value(b)}

\* An AIV that is done has written its rows.
ReduceInv ==
    \A a \in AIV : aivPc[a] = "done" =>
        \A j \in 0..(streamkBlocks - 1), b \in Block :
            b = normalBlocks + j /\ Labors(a, j) => \A r \in RowsOf(a, j) : result[b][r] = Value(b)

IInv == TypeInv /\ LoopInv /\ StoredInv /\ FlagInv /\ BarrierInv /\ ResultInv /\ ReduceInv

-----------------------------------------------------------------------------
(* What a step leaves as it was.                                           *)

\* The problem and all that depends on nothing else.
LEMMA SameShape ==
    ASSUME shape' = shape
    PROVE  /\ blockDim' = blockDim /\ kLoops' = kLoops /\ streamkBlocks' = streamkBlocks
           /\ normalBlocks' = normalBlocks /\ kTileNumPerCore' = kTileNumPerCore /\ kTileRemain' = kTileRemain
           /\ GetCoreLoops' = GetCoreLoops /\ streamkCores' = streamkCores /\ LongCores' = LongCores
           /\ Core' = Core /\ AIV' = AIV /\ Block' = Block
<1>1. blockDim' = blockDim /\ kLoops' = kLoops
  BY DEF blockDim, kLoops
<1>2. streamkBlocks' = streamkBlocks
  BY <1>1 DEF streamkBlocks
<1>3. normalBlocks' = normalBlocks /\ kTileNumPerCore' = kTileNumPerCore /\ kTileRemain' = kTileRemain
  BY <1>1, <1>2 DEF normalBlocks, kTileNumPerCore, kTileRemain
<1>4. GetCoreLoops' = GetCoreLoops
  BY <1>1, <1>2 DEF GetCoreLoops
<1> QED
  BY <1>1, <1>2, <1>3, <1>4 DEF streamkCores, LongCores, Core, AIV, Block

\* With the shape, the tasks of the turns stay.
LEMMA SameTasks ==
    ASSUME shape' = shape
    PROVE  /\ \A c, i : ActualLoopIdx(c, i)' = ActualLoopIdx(c, i)
           /\ \A c : SliceTurn(c)' = SliceTurn(c)
           /\ \A t : GetStreamkBlockDec(t)' = GetStreamkBlockDec(t)
<1>1. /\ blockDim' = blockDim /\ kLoops' = kLoops /\ normalBlocks' = normalBlocks
      /\ kTileNumPerCore' = kTileNumPerCore /\ kTileRemain' = kTileRemain /\ streamkCores' = streamkCores
  BY SameShape
<1>2. \A c, i : ActualLoopIdx(c, i)' = ActualLoopIdx(c, i)
  BY <1>1 DEF ActualLoopIdx, SwapTurn
<1>3. \A c : SliceTurn(c)' = SliceTurn(c)
  BY <1>1 DEF SliceTurn
<1>4. \A t : GetStreamkBlockDec(t)' = GetStreamkBlockDec(t)
  BY <1>1 DEF GetStreamkBlockDec
<1> QED
  BY <1>2, <1>3, <1>4

\* With the shape, the slots and the sums of the blocks stay.
LEMMA SameSums ==
    ASSUME shape' = shape
    PROVE  /\ \A a, j : (Labors(a, j)' <=> Labors(a, j)) /\ RowsOf(a, j)' = RowsOf(a, j)
           /\ \A j : SlotsOf(j)' = SlotsOf(j)
           /\ \A b : Value(b)' = Value(b)
<1>1. /\ blockDim' = blockDim /\ kLoops' = kLoops /\ normalBlocks' = normalBlocks /\ LongCores' = LongCores
      /\ kTileNumPerCore' = kTileNumPerCore /\ kTileRemain' = kTileRemain /\ streamkCores' = streamkCores
  BY SameShape
<1>2. \A j : Before(j)' = Before(j)
  BY <1>1 DEF Before
<1>3. \A j : GetCoreIdx(j)' = GetCoreIdx(j)
  BY <1>1, <1>2 DEF GetCoreIdx
<1>4. \A j : IsCross(j)' <=> IsCross(j)
  BY <1>1, <1>2 DEF IsCross
<1>5. \A j : SlotsOf(j)' = SlotsOf(j)
  BY <1>3, <1>4 DEF SlotsOf
<1>6. \A j : LaborCoreNum(j)' = LaborCoreNum(j)
  BY <1>3 DEF LaborCoreNum
<1>7. \A j : TilePerCore(j)' = TilePerCore(j)
  BY <1>6 DEF TilePerCore
<1>8. \A a, j : RowsOf(a, j)' = RowsOf(a, j)
  BY <1>3, <1>6, <1>7 DEF RowsOf
<1>9. \A a, j : Labors(a, j)' <=> Labors(a, j)
  BY <1>3 DEF Labors
<1>10. \A t : GetStreamkBlockDec(t)' = GetStreamkBlockDec(t)
  BY SameTasks
<1>11. \A s : PartOf(s)' = PartOf(s)
  BY <1>1, <1>10 DEF PartOf
<1>12. \A j : SumOf(j)' = SumOf(j)
  BY <1>5, <1>11 DEF SumOf
<1>13. \A b : Value(b)' = Value(b)
  BY <1>1, <1>12 DEF Value
<1> QED
  BY <1>5, <1>8, <1>9, <1>13
-----------------------------------------------------------------------------
(* The turns of a core.                                                    *)

\* Turns of a core are a whole round apart.
LEMMA Rounds ==
    ASSUME NEW d \in Nat \ {0}, NEW c \in 0..(d - 1)
    PROVE  /\ c % d = c
           /\ \A i \in Nat : i % d = c => (i + d) % d = c /\ i >= c
           /\ \A n \in Nat : n % d = 0 => (n + c) % d = c /\ (n >= d => (n - d + c) % d = c)
<1>1. ASSUME NEW x \in Nat PROVE (d * x + c) % d = c
  BY DivUnique
<1>2. ASSUME NEW i \in Nat, i % d = c PROVE \E x \in Nat : i = d * x + c
  BY <1>2, DivMod
<1>3. ASSUME NEW n \in Nat, n % d = 0 PROVE \E x \in Nat : n = d * x
  <2>1. n \div d \in Nat /\ n = d * (n \div d) + 0
    BY <1>3, DivMod
  <2> QED
    BY <2>1
<1>4. c % d = c
  <2>1. d * 0 + c = c
    OBVIOUS
  <2> QED
    BY <1>1, <2>1
<1>5. ASSUME NEW i \in Nat, i % d = c PROVE (i + d) % d = c /\ i >= c
  <2>1. PICK x \in Nat : i = d * x + c
    BY <1>2, <1>5
  <2>2. d * (x + 1) = d * x + d /\ d * x \in Nat /\ x + 1 \in Nat
    OBVIOUS
  <2>3. i + d = d * (x + 1) + c
    BY <2>1, <2>2
  <2> QED
    BY <1>1, <2>1, <2>2, <2>3
<1>6. ASSUME NEW n \in Nat, n % d = 0 PROVE (n + c) % d = c /\ (n >= d => (n - d + c) % d = c)
  <2>1. PICK x \in Nat : n = d * x
    BY <1>3, <1>6
  <2>2. CASE x = 0
    <3>1. n = 0
      BY <2>1, <2>2
    <3> QED
      BY <1>4, <3>1
  <2>3. CASE x > 0
    <3>1. x - 1 \in Nat /\ d * (x - 1) = d * x - d /\ d * x \in Nat
      BY <2>3
    <3>2. n - d + c = d * (x - 1) + c
      BY <2>1, <3>1
    <3> QED
      BY <1>1, <2>1, <3>1, <3>2
  <2> QED
    BY <2>2, <2>3
<1> QED
  BY <1>4, <1>5, <1>6

\* Two turns of a core are at least a round apart.
LEMMA RoundApart ==
    ASSUME NEW d \in Nat \ {0}, NEW c \in 0..(d - 1), NEW i \in Nat, NEW k \in Nat, i % d = c, k % d = c, i < k
    PROVE  i + d <= k
<1>1. PICK x \in Nat : i = d * x + c
  <2>1. i \div d \in Nat /\ i = d * (i \div d) + c
    BY DivMod
  <2> QED
    BY <2>1
<1>2. PICK y \in Nat : k = d * y + c
  <2>1. k \div d \in Nat /\ k = d * (k \div d) + c
    BY DivMod
  <2> QED
    BY <2>1
<1>3. x < y
  <2> SUFFICES ASSUME y <= x PROVE FALSE
    OBVIOUS
  <2>1. d * y <= d * x /\ d * x \in Nat /\ d * y \in Nat
    OBVIOUS
  <2> QED
    BY <1>1, <1>2, <2>1
<1>4. d * (x + 1) <= d * y /\ d * (x + 1) = d * x + d /\ d * x \in Nat /\ d * y \in Nat
  BY <1>3
<1> QED
  BY <1>1, <1>2, <1>4

\* The turns of core c in the last round of the normal blocks, and after it.
LEMMA LastRound ==
    ASSUME Assumptions, shape \in Shapes, NEW c \in Core
    PROVE  /\ (normalBlocks + c) % blockDim = c
           /\ normalBlocks >= blockDim => (normalBlocks - blockDim + c) % blockDim = c
<1>1. blockDim \in Nat \ {0} /\ normalBlocks \in Nat /\ normalBlocks % blockDim = 0
  BY Quantities, Loops
<1>2. c \in 0..(blockDim - 1)
  BY DEF Core
<1>3. \A n \in Nat : n % blockDim = 0 =>
          (n + c) % blockDim = c /\ (n >= blockDim => (n - blockDim + c) % blockDim = c)
  BY <1>1, <1>2, Rounds
<1> QED
  BY <1>1, <1>3

(* A turn of a core is a normal block or, in one turn of each core that    *)
(* has tiles, its stream-K slices.                                         *)
LEMMA TaskOfTurn ==
    ASSUME Assumptions, shape \in Shapes, NEW c \in Core, NEW i \in Nat, i % blockDim = c, i < GetCoreLoops
    PROVE  LET t == ActualLoopIdx(c, i) IN
           /\ t \in Nat
           /\ t < normalBlocks => t \in Block /\ t % blockDim = c
           /\ t >= normalBlocks => t = normalBlocks + c /\ c < streamkCores /\ i = SliceTurn(c)
           /\ c < streamkCores => (SetDue(c, i) <=> i = SliceTurn(c))
           /\ c >= streamkCores => ~SetDue(c, i)
<1> DEFINE d == blockDim
           n == normalBlocks
<1>1. /\ d \in Nat \ {0} /\ n \in Nat /\ n % d = 0 /\ (n > 0 => n >= d) /\ n + streamkBlocks = shape.blocks
      /\ streamkBlocks \in Nat /\ streamkCores \in 0..d /\ GetCoreLoops = n + streamkCores
  BY Quantities, Loops
<1>2. c \in Nat /\ c < d /\ c \in 0..(d - 1) /\ Core = 0..(d - 1)
  BY <1>1 DEF Core
<1>3. shape.blocks \in Nat /\ Block = 0..(shape.blocks - 1)
  BY DEF Assumptions, Block
<1>r. /\ c % d = c
      /\ \A x \in Nat : x % d = c => (x + d) % d = c /\ x >= c
  BY <1>1, <1>2, Rounds
<1>4. i >= c /\ (n + c) % d = c /\ (n >= d => (n - d + c) % d = c)
  <2>1. i >= c
    BY <1>r
  <2> QED
    BY <2>1, LastRound
<1>5. n = 0 => i = c
  <2> SUFFICES ASSUME n = 0, i # c PROVE FALSE
    OBVIOUS
  <2>1. c < i
    BY <1>2, <1>4
  <2>2. c + d <= i
    BY <1>1, <1>2, <1>r, <2>1, RoundApart
  <2> QED
    BY <1>1, <1>2, <2>2
<1>6. SwapTurn(c, i) <=> i = n - d + c /\ c < streamkCores /\ n > 0
  BY DEF SwapTurn
<1>7. ActualLoopIdx(c, i) = IF SwapTurn(c, i) THEN n + c ELSE IF i >= n /\ n > 0 THEN n - d + c ELSE i
  BY DEF ActualLoopIdx
<1>8. SliceTurn(c) = IF n > 0 THEN n - d + c ELSE c
  BY DEF SliceTurn
<1>9. SetDue(c, i) <=> SwapTurn(c, i) \/ n = 0
  BY DEF SetDue
<1> HIDE DEF d, n
<1>10. CASE n = 0
  <2>1. ActualLoopIdx(c, i) = c /\ i = c /\ SetDue(c, i) /\ SliceTurn(c) = c /\ c < streamkCores
    BY <1>1, <1>2, <1>5, <1>6, <1>7, <1>8, <1>9, <1>10
  <2> QED
    BY <1>1, <1>2, <1>10, <2>1 DEF n
<1>11. CASE n > 0 /\ SwapTurn(c, i)
  <2>1. ActualLoopIdx(c, i) = n + c /\ SetDue(c, i) /\ SliceTurn(c) = i /\ c < streamkCores
    BY <1>6, <1>7, <1>8, <1>9, <1>11
  <2> QED
    BY <1>1, <1>2, <1>11, <2>1 DEF n
<1>12. CASE n > 0 /\ ~SwapTurn(c, i)
  <2>1. ~SetDue(c, i) /\ (c < streamkCores => i # SliceTurn(c))
    BY <1>1, <1>6, <1>8, <1>9, <1>12
  <2>2. CASE i >= n
    <3>1. ActualLoopIdx(c, i) = n - d + c /\ n - d + c \in Nat /\ n - d + c < n
      BY <1>1, <1>2, <1>7, <1>12, <2>2
    <3>2. n - d + c \in Block
      BY <1>1, <1>3, <3>1
    <3> QED
      BY <1>1, <1>4, <1>12, <2>1, <3>1, <3>2 DEF n, d
  <2>3. CASE i < n
    <3>1. ActualLoopIdx(c, i) = i /\ i \in Block
      BY <1>1, <1>3, <1>7, <1>12, <2>3
    <3> QED
      BY <1>1, <2>1, <2>3, <3>1 DEF n, d
  <2> QED
    BY <1>1, <2>2, <2>3
<1> QED
  BY <1>1, <1>10, <1>11, <1>12

(* The turn of a core for its slices is one of its turns, and gives them.  *)
LEMMA SlicesHaveTurn ==
    ASSUME Assumptions, shape \in Shapes, NEW c \in Core, c < streamkCores
    PROVE  /\ SliceTurn(c) \in Nat /\ SliceTurn(c) % blockDim = c /\ SliceTurn(c) < GetCoreLoops
           /\ ActualLoopIdx(c, SliceTurn(c)) = normalBlocks + c
<1> DEFINE d == blockDim
           n == normalBlocks
<1>1. /\ d \in Nat \ {0} /\ n \in Nat /\ n % d = 0 /\ (n > 0 => n >= d)
      /\ streamkCores \in 0..d /\ GetCoreLoops = n + streamkCores
  BY Quantities, Loops
<1>2. c \in Nat /\ c < d /\ c \in 0..(d - 1)
  BY <1>1 DEF Core
<1>3. c % d = c /\ (n >= d => (n - d + c) % d = c)
  <2>1. c % d = c
    BY <1>1, <1>2, Rounds
  <2> QED
    BY <2>1, LastRound
<1>4. SliceTurn(c) = IF n > 0 THEN n - d + c ELSE c
  BY DEF SliceTurn
<1>5. ActualLoopIdx(c, SliceTurn(c)) =
        IF SliceTurn(c) = n - d + c /\ n > 0 THEN n + c ELSE IF SliceTurn(c) >= n /\ n > 0 THEN n - d + c ELSE SliceTurn(c)
  BY DEF ActualLoopIdx, SwapTurn
<1> HIDE DEF d, n
<1>6. SliceTurn(c) \in Nat /\ SliceTurn(c) % d = c /\ SliceTurn(c) < GetCoreLoops
  BY <1>1, <1>2, <1>3, <1>4
<1>7. ActualLoopIdx(c, SliceTurn(c)) = n + c
  BY <1>1, <1>2, <1>4, <1>5
<1> QED
  BY <1>6, <1>7 DEF d, n

(* Every normal block has a turn.                                          *)
LEMMA BlockHasTurn ==
    ASSUME Assumptions, shape \in Shapes, NEW b \in Nat, b < normalBlocks
    PROVE  /\ b % blockDim \in Core
           /\ \E i \in Nat : i % blockDim = b % blockDim /\ i < GetCoreLoops /\ ActualLoopIdx(b % blockDim, i) = b
<1> DEFINE d == blockDim
           n == normalBlocks
           c == b % d
<1>1. /\ d \in Nat \ {0} /\ n \in Nat /\ n % d = 0 /\ (n > 0 => n >= d)
      /\ streamkCores \in 0..d /\ GetCoreLoops = n + streamkCores
  BY Quantities, Loops
<1>2. c \in 0..(d - 1) /\ c \in Nat /\ c \in Core
  <2>1. c \in 0..(d - 1)
    BY <1>1, DivMod
  <2> QED
    BY <1>1, <2>1 DEF Core
<1>3. (n + c) % d = c
  BY <1>2, LastRound
<1>4. \A i : ActualLoopIdx(c, i) =
        IF i = n - d + c /\ c < streamkCores /\ n > 0 THEN n + c ELSE IF i >= n /\ n > 0 THEN n - d + c ELSE i
  BY DEF ActualLoopIdx, SwapTurn
<1> HIDE DEF d, n, c
<1>5. CASE b = n - d + c /\ c < streamkCores
  <2>1. ActualLoopIdx(c, n + c) = b
    BY <1>1, <1>2, <1>4, <1>5
  <2>2. n + c \in Nat /\ n + c < GetCoreLoops
    BY <1>1, <1>2, <1>5
  <2> QED
    BY <1>2, <1>3, <2>1, <2>2 DEF d, c
<1>6. CASE ~(b = n - d + c /\ c < streamkCores)
  <2>1. ActualLoopIdx(c, b) = b
    BY <1>1, <1>2, <1>4, <1>6 DEF n
  <2>2. b < GetCoreLoops
    BY <1>1 DEF n
  <2> QED
    BY <1>2, <2>1, <2>2 DEF d, c
<1> QED
  BY <1>5, <1>6

-----------------------------------------------------------------------------
(* Small facts about cores and AIVs.                                       *)
LEMMA CoreOfAiv ==
    ASSUME Assumptions, shape \in Shapes
    PROVE  /\ Core = 0..(blockDim - 1) /\ blockDim \in Nat \ {0}
           /\ \A a \in AIV : a \div SubBlocks \in Core
           /\ \A c \in Core : \E a \in AIV : a \div SubBlocks = c
<1>1. SubBlocks = 2 /\ blockDim \in Nat \ {0} /\ Core = 0..(blockDim - 1) /\ AIV = 0..(blockDim * SubBlocks - 1)
  BY Quantities DEF Assumptions, Core, AIV
<1>2. ASSUME NEW a \in AIV PROVE a \div SubBlocks \in Core
  <2>1. a \in 0..(blockDim * 2 - 1)
    BY <1>1
  <2>2. a \div 2 \in 0..(blockDim - 1)
    BY <1>1, <2>1
  <2> QED
    BY <1>1, <2>2
<1>3. ASSUME NEW c \in Core PROVE \E a \in AIV : a \div SubBlocks = c
  <2>1. 2 * c \in 0..(blockDim * 2 - 1) /\ (2 * c) \div 2 = c
    BY <1>1
  <2> QED
    BY <1>1, <2>1
<1> QED
  BY <1>1, <1>2, <1>3

\* The loop goes on with a task, whatever the turn.
LEMMA TaskType ==
    ASSUME Assumptions, shape \in Shapes, NEW c \in Core, NEW i \in Nat
    PROVE  ActualLoopIdx(c, i) \in Nat
<1>1. /\ blockDim \in Nat \ {0} /\ normalBlocks \in Nat /\ (normalBlocks > 0 => normalBlocks >= blockDim)
      /\ c \in Nat
  BY Quantities, Loops DEF Core
<1> QED
  BY <1>1 DEF ActualLoopIdx, SwapTurn

\* What a core computes in a turn is a block or two parts.
LEMMA DecType ==
    ASSUME Assumptions, shape \in Shapes
    PROVE  /\ Nothing \in Parts
           /\ \A t \in Nat : t < normalBlocks => /\ GetStreamkBlockDec(t).first = Part(t, 0, shape.k)
                                                /\ ~GetStreamkBlockDec(t).isStreamkBlock
           /\ \A c \in 0..(streamkCores - 1) :
                 /\ GetStreamkBlockDec(normalBlocks + c).isStreamkBlock
                 /\ GetStreamkBlockDec(normalBlocks + c).first \in Parts
                 /\ GetStreamkBlockDec(normalBlocks + c).second \in Parts
<1>1. Nothing \in Parts
  BY DEF Nothing, Parts, Part
<1>2. \A t \in Nat : t < normalBlocks => /\ GetStreamkBlockDec(t).first = Part(t, 0, shape.k)
                                        /\ ~GetStreamkBlockDec(t).isStreamkBlock
  BY DEF GetStreamkBlockDec
<1>3. ASSUME NEW c \in 0..(streamkCores - 1)
      PROVE  /\ GetStreamkBlockDec(normalBlocks + c).isStreamkBlock
             /\ GetStreamkBlockDec(normalBlocks + c).first \in Parts
             /\ GetStreamkBlockDec(normalBlocks + c).second \in Parts
  <2>1. kLoops \in Nat \ {0} /\ streamkCores \in Nat /\ normalBlocks \in Nat
    BY Quantities, Loops
  <2>2. TileK \in Nat /\ shape.k \in Nat
    BY DEF Assumptions
  <2>3. StartOf(c) \in Nat /\ StartOf(c + 1) \in Nat
    BY <2>1, TilesOfCore
  <2>4. PICK j \in Nat : Before(j) <= StartOf(c) /\ StartOf(c) < Before(j + 1) /\ Before(j) \in Nat /\ Before(j + 1) \in Nat
    <3> DEFINE x == StartOf(c) \div kLoops
    <3>1. /\ x \in Nat /\ StartOf(c) % kLoops \in 0..(kLoops - 1)
          /\ StartOf(c) = kLoops * x + (StartOf(c) % kLoops)
      BY <2>1, <2>3, DivMod
    <3> HIDE DEF x
    <3>2. Before(x) = kLoops * x /\ Before(x + 1) = kLoops * x + kLoops /\ kLoops * x \in Nat
      BY <2>1, <3>1 DEF Before
    <3> QED
      BY <2>1, <2>3, <3>1, <3>2
  <2>5. /\ GetStreamkBlockDec(normalBlocks + c).isStreamkBlock
        /\ GetStreamkBlockDec(normalBlocks + c).first = Part(normalBlocks + j, (StartOf(c) - Before(j)) * TileK,
                               Lower((StartOf(c + 1) - Before(j)) * TileK, shape.k))
        /\ GetStreamkBlockDec(normalBlocks + c).second = IF StartOf(c + 1) > Before(j + 1)
                           THEN Part(normalBlocks + (j + 1), 0, (StartOf(c + 1) - Before(j + 1)) * TileK)
                           ELSE Nothing
    BY <2>4, PartsOfCore
  <2>6. /\ normalBlocks + j \in Int /\ normalBlocks + (j + 1) \in Int
        /\ (StartOf(c) - Before(j)) * TileK \in Int /\ (StartOf(c + 1) - Before(j + 1)) * TileK \in Int
        /\ Lower((StartOf(c + 1) - Before(j)) * TileK, shape.k) \in Int
    BY <2>1, <2>2, <2>3, <2>4 DEF Lower
  <2>7. \A b, f, t \in Int : Part(b, f, t) \in Parts
    BY DEF Part, Parts
  <2>8. GetStreamkBlockDec(normalBlocks + c).first \in Parts
    BY <2>5, <2>6, <2>7
  <2>9. GetStreamkBlockDec(normalBlocks + c).second \in Parts
    BY <1>1, <2>5, <2>6, <2>7
  <2> QED
    BY <2>5, <2>8, <2>9
<1> QED
  BY <1>1, <1>2, <1>3
-----------------------------------------------------------------------------
(* The invariant holds initially.                                          *)
LEMMA InitHolds ==
    ASSUME Assumptions, Init
    PROVE  IInv
<1>1. shape \in Shapes
  BY DEF Init
<1>2. /\ blockDim \in Nat \ {0} /\ Core = 0..(blockDim - 1)
      /\ \A c \in Core : c \in Nat /\ c % blockDim = c /\ \A i \in Nat : i % blockDim = c => i >= c
  <2>1. blockDim \in Nat \ {0} /\ Core = 0..(blockDim - 1)
    BY <1>1, CoreOfAiv
  <2>2. ASSUME NEW c \in Core
        PROVE  c \in Nat /\ c % blockDim = c /\ \A i \in Nat : i % blockDim = c => i >= c
    BY <2>1, Rounds
  <2> QED
    BY <2>1, <2>2
<1>3. /\ loopIdx = [c \in Core |-> c] /\ task = [c \in Core |-> ActualLoopIdx(c, c)]
      /\ aicPc = [c \in Core |-> IF c < streamkCores THEN "turn" ELSE "start"]
      /\ slot = [c \in Core |-> [i \in 0..1 |-> Nothing]]
      /\ result = [b \in Block |-> [r \in Row |-> {}]]
      /\ aivPc = [a \in AIV |-> "wait"] /\ finish = [a \in AIV |-> 0]
  BY DEF Init
<1>4. \A c \in Core : loopIdx[c] = c /\ task[c] = ActualLoopIdx(c, c) /\ ActualLoopIdx(c, c) \in Nat
  BY <1>1, <1>2, <1>3, TaskType
<1>5. TypeInv
  <2>1. loopIdx \in [Core -> Nat]
    BY <1>2, <1>3
  <2>2. task \in [Core -> Nat]
    BY <1>3, <1>4
  <2>3. slot \in [Core -> [0..1 -> Parts]]
    BY <1>1, <1>3, DecType
  <2> QED
    BY <1>1, <1>3, <2>1, <2>2, <2>3 DEF TypeInv
<1>6. streamkCores \in Nat
  BY <1>1, Loops
<1>7. LoopInv
  <2> SUFFICES ASSUME NEW c \in Core
               PROVE  /\ loopIdx[c] % blockDim = c
                      /\ \A i \in Nat : loopIdx[c] = i => task[c] = ActualLoopIdx(c, i)
                      /\ aicPc[c] = "start" => c >= streamkCores
                      /\ aicPc[c] = "set" => c < streamkCores /\ SliceTurn(c) < loopIdx[c]
    BY DEF LoopInv
  <2>1. loopIdx[c] % blockDim = c /\ \A i \in Nat : loopIdx[c] = i => task[c] = ActualLoopIdx(c, i)
    BY <1>2, <1>4
  <2>2. aicPc[c] # "set" /\ (aicPc[c] = "start" => c >= streamkCores)
    BY <1>2, <1>3, <1>6
  <2> QED
    BY <2>1, <2>2
<1>8. \A c \in Core : TurnsDone(c) = {}
  <2> SUFFICES ASSUME NEW c \in Core, NEW i \in TurnsDone(c) PROVE FALSE
    OBVIOUS
  <2>1. i \in 0..(c - 1) /\ i % blockDim = c
    BY <1>4 DEF TurnsDone
  <2> QED
    BY <1>2, <2>1
<1>9. StoredInv
  BY <1>8 DEF StoredInv
<1>10. \A c \in Core : ~Announced(c)
  <2> SUFFICES ASSUME NEW c \in Core, Announced(c) PROVE FALSE
    OBVIOUS
  <2>1. c < streamkCores /\ SliceTurn(c) < c
    BY <1>2, <1>3, <1>4, <1>6 DEF Announced
  <2>2. SliceTurn(c) \in Nat /\ SliceTurn(c) % blockDim = c
    BY <1>1, <2>1, SlicesHaveTurn
  <2> QED
    BY <1>2, <2>1, <2>2
<1>11. FlagInv
  <2>1. \A a \in AIV : ~Announced(a \div SubBlocks)
    BY <1>1, <1>10, CoreOfAiv
  <2> QED
    BY <1>3, <2>1 DEF FlagInv
<1>12. BarrierInv /\ ResultInv /\ ReduceInv
  BY <1>3 DEF BarrierInv, ResultInv, ReduceInv
<1> QED
  BY <1>5, <1>7, <1>9, <1>11, <1>12 DEF IInv

-----------------------------------------------------------------------------
(* What each step leaves of the invariant.                                 *)

\* A task is where it belongs as long as nobody writes there.
LEMMA StoredStays ==
    ASSUME shape' = shape, NEW t, Stored(t),
           t < normalBlocks => \A r \in Row : result'[t][r] = result[t][r],
           ~(t < normalBlocks) => slot'[t - normalBlocks] = slot[t - normalBlocks]
    PROVE  Stored(t)'
<1>1. normalBlocks' = normalBlocks /\ Value(t)' = Value(t) /\ GetStreamkBlockDec(t)' = GetStreamkBlockDec(t)
  BY SameShape, SameTasks, SameSums
<1>2. Row' = Row /\ Nothing' = Nothing
  BY DEF Row, Nothing, Part
<1>3. CASE t < normalBlocks
  BY <1>1, <1>2, <1>3 DEF Stored
<1>4. CASE ~(t < normalBlocks)
  BY <1>1, <1>2, <1>4 DEF Stored
<1> QED
  BY <1>3, <1>4

\* A step that stores nothing and takes no turn.
LEMMA StoresStay ==
    ASSUME shape' = shape, loopIdx' = loopIdx, slot' = slot, result' = result, StoredInv, ResultInv
    PROVE  StoredInv' /\ ResultInv'
<1>1. Core' = Core /\ Block' = Block /\ GetCoreLoops' = GetCoreLoops /\ blockDim' = blockDim /\ Row' = Row
  BY SameShape DEF Row
<1>2. \A c, i : ActualLoopIdx(c, i)' = ActualLoopIdx(c, i)
  BY SameTasks
<1>3. \A b : Value(b)' = Value(b)
  BY SameSums
<1>4. \A c : TurnsDone(c)' = TurnsDone(c)
  BY <1>1 DEF TurnsDone
<1>5. \A t : Stored(t) => Stored(t)'
  BY StoredStays
<1>6. StoredInv'
  BY <1>1, <1>2, <1>4, <1>5 DEF StoredInv
<1>7. ResultInv'
  BY <1>1, <1>3 DEF ResultInv
<1> QED
  BY <1>6, <1>7

\* A step after which no other AIV is done and no row has changed.
LEMMA ReducedStay ==
    ASSUME shape' = shape, result' = result, ReduceInv, \A a \in AIV : aivPc'[a] = "done" => aivPc[a] = "done"
    PROVE  ReduceInv'
<1>1. AIV' = AIV /\ Block' = Block /\ streamkBlocks' = streamkBlocks /\ normalBlocks' = normalBlocks
  BY SameShape
<1>2. /\ \A a, j : (Labors(a, j)' <=> Labors(a, j)) /\ RowsOf(a, j)' = RowsOf(a, j)
      /\ \A b : Value(b)' = Value(b)
  BY SameSums
<1> QED
  BY <1>1, <1>2 DEF ReduceInv

\* A core that is where it was.
LEMMA AnnouncedStays ==
    ASSUME shape' = shape, NEW c, aicPc'[c] = aicPc[c], loopIdx'[c] = loopIdx[c]
    PROVE  Announced(c)' <=> Announced(c)
<1>1. streamkCores' = streamkCores /\ SliceTurn(c)' = SliceTurn(c)
  BY SameShape, SameTasks
<1> QED
  BY <1>1 DEF Announced

\* Nobody sets the flag or waits for it.
LEMMA FlagStays ==
    ASSUME Assumptions, shape \in Shapes, shape' = shape, FlagInv, finish' = finish,
           \A c \in Core : Announced(c)' <=> Announced(c),
           \A a \in AIV : aivPc'[a] = "wait" <=> aivPc[a] = "wait"
    PROVE  FlagInv'
<1>1. AIV' = AIV
  BY SameShape
<1>2. \A a \in AIV : Announced(a \div SubBlocks)' <=> Announced(a \div SubBlocks)
  BY CoreOfAiv
<1> QED
  BY <1>1, <1>2 DEF FlagInv

\* A core sets the flag, once.
LEMMA FlagSet ==
    ASSUME Assumptions, shape \in Shapes, shape' = shape, FlagInv, NEW c \in Core, SetFinish(c),
           \A d \in Core \ {c} : Announced(d)' <=> Announced(d),
           ~Announced(c), Announced(c)', aivPc' = aivPc, DOMAIN finish = AIV
    PROVE  FlagInv'
<1>1. AIV' = AIV
  BY SameShape
<1>2. \A a \in AIV : a \div SubBlocks \in Core
  BY CoreOfAiv
<1>3. finish' = [a \in AIV |-> IF a \div SubBlocks = c THEN finish[a] + 1 ELSE finish[a]]
  BY DEF SetFinish
<1>4. ASSUME NEW a \in AIV
      PROVE  /\ finish'[a] = IF Announced(a \div SubBlocks)' /\ aivPc'[a] = "wait" THEN 1 ELSE 0
             /\ aivPc'[a] # "wait" => Announced(a \div SubBlocks)'
  <2>1. CASE a \div SubBlocks = c
    <3>1. finish[a] = 0 /\ aivPc[a] = "wait"
      BY <2>1 DEF FlagInv
    <3> QED
      BY <1>3, <2>1, <3>1
  <2>2. CASE a \div SubBlocks # c
    <3>1. Announced(a \div SubBlocks)' <=> Announced(a \div SubBlocks)
      BY <1>2, <2>2
    <3> QED
      BY <1>3, <2>2, <3>1 DEF FlagInv
  <2> QED
    BY <2>1, <2>2
<1> QED
  BY <1>1, <1>4 DEF FlagInv

\* A step of an AIV.
LEMMA AivLoopStays ==
    ASSUME shape' = shape, aicVars' = aicVars, LoopInv
    PROVE  LoopInv' /\ \A c \in Core : Announced(c)' <=> Announced(c)
<1>1. aicPc' = aicPc /\ loopIdx' = loopIdx /\ task' = task /\ slot' = slot
  BY DEF aicVars
<1>2. Core' = Core /\ blockDim' = blockDim /\ streamkCores' = streamkCores
  BY SameShape
<1>3. \A c, i : ActualLoopIdx(c, i)' = ActualLoopIdx(c, i) /\ SliceTurn(c)' = SliceTurn(c)
  BY SameTasks
<1>4. LoopInv'
  BY <1>1, <1>2, <1>3 DEF LoopInv
<1> QED
  BY <1>1, <1>4, AnnouncedStays

\* The barrier holds while the AIVs it waits for have arrived.
LEMMA BarrierStays ==
    ASSUME shape' = shape, BarrierInv, NEW a \in AIV, NEW pc,
           aivPc' = [aivPc EXCEPT ![a] = pc], DOMAIN aivPc = AIV,
           pc \in {"wait", "arrive"} => \A o \in AIV : aivPc[o] \notin {"reduce", "done"},
           pc \in {"reduce", "done"} => \A o \in AIV : aivPc[o] \notin {"wait", "arrive"}
    PROVE  BarrierInv'
<1>1. AIV' = AIV
  BY SameShape
<1> QED
  BY <1>1 DEF BarrierInv
-----------------------------------------------------------------------------
(* One lemma for each step.                                                *)
\* A core without tiles sets the flag before its first turn.
LEMMA AicSetEarlyKeeps ==
    ASSUME Assumptions, IInv, NEW c \in Core, AicSetEarly(c)
    PROVE  IInv'
<1>1. TypeInv /\ LoopInv /\ StoredInv /\ FlagInv /\ BarrierInv /\ ResultInv /\ ReduceInv /\ shape \in Shapes
  BY DEF IInv, TypeInv
<1>2. /\ aicPc[c] = "start" /\ SetFinish(c) /\ aicPc' = [aicPc EXCEPT ![c] = "turn"]
      /\ shape' = shape /\ loopIdx' = loopIdx /\ task' = task /\ slot' = slot /\ result' = result /\ aivPc' = aivPc
  BY DEF AicSetEarly
<1>3. Core' = Core /\ AIV' = AIV /\ blockDim' = blockDim /\ streamkCores' = streamkCores
  BY <1>2, SameShape
<1>4. \A d, i : ActualLoopIdx(d, i)' = ActualLoopIdx(d, i) /\ SliceTurn(d)' = SliceTurn(d)
  BY <1>2, SameTasks
<1>5. c >= streamkCores /\ c \in Nat /\ streamkCores \in Nat
  <2>1. c >= streamkCores
    BY <1>1, <1>2 DEF LoopInv
  <2>2. Core = 0..(blockDim - 1) /\ blockDim \in Nat /\ streamkCores \in 0..blockDim
    BY <1>1, Loops, CoreOfAiv
  <2> QED
    BY <2>1, <2>2
<1>6. TypeInv'
  <2>1. aicPc' \in [Core -> {"start", "turn", "set"}]
    BY <1>1, <1>2 DEF TypeInv
  <2>2. finish' \in [AIV -> Nat]
    BY <1>1, <1>2 DEF TypeInv, SetFinish
  <2> QED
    BY <1>1, <1>2, <1>3, <2>1, <2>2 DEF TypeInv, Parts
<1>7. LoopInv'
  <2>1. aicPc'[c] = "turn" /\ \A d \in Core : d # c => aicPc'[d] = aicPc[d]
    BY <1>1, <1>2 DEF TypeInv
  <2> QED
    BY <1>1, <1>2, <1>3, <1>4, <2>1 DEF LoopInv
<1>8. StoredInv' /\ ResultInv'
  BY <1>1, <1>2, StoresStay
<1>9. ReduceInv'
  BY <1>1, <1>2, ReducedStay
<1>10. BarrierInv'
  BY <1>1, <1>2, <1>3 DEF BarrierInv
<1>11. FlagInv'
  <2>1. ~Announced(c)
    BY <1>2, <1>5 DEF Announced
  <2>2. aicPc'[c] = "turn"
    BY <1>1, <1>2 DEF TypeInv
  <2>3. Announced(c)'
    BY <1>3, <1>5, <2>2 DEF Announced
  <2>4. \A d \in Core \ {c} : Announced(d)' <=> Announced(d)
    <3>1. \A d \in Core \ {c} : aicPc'[d] = aicPc[d]
      BY <1>1, <1>2 DEF TypeInv
    <3> QED
      BY <1>2, <3>1, AnnouncedStays
  <2>5. DOMAIN finish = AIV
    BY <1>1 DEF TypeInv
  <2> QED
    BY <1>1, <1>2, <2>1, <2>3, <2>4, <2>5, FlagSet
<1> QED
  BY <1>6, <1>7, <1>8, <1>9, <1>10, <1>11 DEF IInv

\* A core sets the flag behind the turn of its slices.
LEMMA AicSetKeeps ==
    ASSUME Assumptions, IInv, NEW c \in Core, AicSet(c)
    PROVE  IInv'
<1>1. TypeInv /\ LoopInv /\ StoredInv /\ FlagInv /\ BarrierInv /\ ResultInv /\ ReduceInv /\ shape \in Shapes
  BY DEF IInv, TypeInv
<1>2. /\ aicPc[c] = "set" /\ SetFinish(c) /\ aicPc' = [aicPc EXCEPT ![c] = "turn"]
      /\ shape' = shape /\ loopIdx' = loopIdx /\ task' = task /\ slot' = slot /\ result' = result /\ aivPc' = aivPc
  BY DEF AicSet
<1>3. Core' = Core /\ AIV' = AIV /\ blockDim' = blockDim /\ streamkCores' = streamkCores
  BY <1>2, SameShape
<1>4. \A d, i : ActualLoopIdx(d, i)' = ActualLoopIdx(d, i) /\ SliceTurn(d)' = SliceTurn(d)
  BY <1>2, SameTasks
<1>5. c < streamkCores /\ SliceTurn(c) < loopIdx[c]
  BY <1>1, <1>2 DEF LoopInv
<1>6. TypeInv'
  <2>1. aicPc' \in [Core -> {"start", "turn", "set"}]
    BY <1>1, <1>2 DEF TypeInv
  <2>2. finish' \in [AIV -> Nat]
    BY <1>1, <1>2 DEF TypeInv, SetFinish
  <2> QED
    BY <1>1, <1>2, <1>3, <2>1, <2>2 DEF TypeInv, Parts
<1>7. LoopInv'
  <2>1. aicPc'[c] = "turn" /\ \A d \in Core : d # c => aicPc'[d] = aicPc[d]
    BY <1>1, <1>2 DEF TypeInv
  <2> QED
    BY <1>1, <1>2, <1>3, <1>4, <2>1 DEF LoopInv
<1>8. StoredInv' /\ ResultInv'
  BY <1>1, <1>2, StoresStay
<1>9. ReduceInv'
  BY <1>1, <1>2, ReducedStay
<1>10. BarrierInv'
  BY <1>1, <1>2, <1>3 DEF BarrierInv
<1>11. FlagInv'
  <2>1. ~Announced(c)
    BY <1>2, <1>5 DEF Announced
  <2>2. aicPc'[c] = "turn"
    BY <1>1, <1>2 DEF TypeInv
  <2>3. Announced(c)'
    BY <1>2, <1>3, <1>4, <1>5, <2>2 DEF Announced
  <2>4. \A d \in Core \ {c} : Announced(d)' <=> Announced(d)
    <3>1. \A d \in Core \ {c} : aicPc'[d] = aicPc[d]
      BY <1>1, <1>2 DEF TypeInv
    <3> QED
      BY <1>2, <3>1, AnnouncedStays
  <2>5. DOMAIN finish = AIV
    BY <1>1 DEF TypeInv
  <2> QED
    BY <1>1, <1>2, <2>1, <2>3, <2>4, <2>5, FlagSet
<1> QED
  BY <1>6, <1>7, <1>8, <1>9, <1>10, <1>11 DEF IInv

\* An AIV takes the flag of its core.
LEMMA AivWaitKeeps ==
    ASSUME Assumptions, IInv, NEW a \in AIV, AivWait(a)
    PROVE  IInv'
<1>1. TypeInv /\ LoopInv /\ StoredInv /\ FlagInv /\ BarrierInv /\ ResultInv /\ ReduceInv /\ shape \in Shapes
  BY DEF IInv, TypeInv
<1>2. /\ aivPc[a] = "wait" /\ finish[a] > 0 /\ finish' = [finish EXCEPT ![a] = finish[a] - 1]
      /\ aivPc' = [aivPc EXCEPT ![a] = "arrive"]
      /\ shape' = shape /\ aicVars' = aicVars /\ result' = result
  BY DEF AivWait
<1>3. aicPc' = aicPc /\ loopIdx' = loopIdx /\ task' = task /\ slot' = slot
  BY <1>2 DEF aicVars
<1>4. Core' = Core /\ AIV' = AIV
  BY <1>2, SameShape
<1>5. LoopInv' /\ \A c \in Core : Announced(c)' <=> Announced(c)
  BY <1>1, <1>2, AivLoopStays
<1>6. TypeInv'
  <2>1. finish[a] \in Nat /\ finish[a] - 1 \in Nat
    BY <1>1, <1>2 DEF TypeInv
  <2>2. finish' \in [AIV -> Nat]
    BY <1>1, <1>2, <2>1 DEF TypeInv
  <2>3. aivPc' \in [AIV -> {"wait", "arrive", "barrier", "reduce", "done"}]
    BY <1>1, <1>2 DEF TypeInv
  <2> QED
    BY <1>1, <1>2, <1>3, <1>4, <2>2, <2>3 DEF TypeInv, Parts
<1>7. StoredInv' /\ ResultInv'
  BY <1>1, <1>2, <1>3, StoresStay
<1>8. aivPc'[a] = "arrive" /\ finish'[a] = finish[a] - 1
      /\ \A o \in AIV : o # a => aivPc'[o] = aivPc[o] /\ finish'[o] = finish[o]
  BY <1>1, <1>2 DEF TypeInv
<1>9. ReduceInv'
  BY <1>1, <1>2, <1>8, ReducedStay
<1>10. BarrierInv'
  <2>1. \A o \in AIV : aivPc[o] \notin {"reduce", "done"}
    BY <1>1, <1>2 DEF BarrierInv
  <2>2. DOMAIN aivPc = AIV
    BY <1>1 DEF TypeInv
  <2> QED
    BY <1>1, <1>2, <2>1, <2>2, BarrierStays
<1>11. FlagInv'
  <2>1. \A o \in AIV : Announced(o \div SubBlocks)' <=> Announced(o \div SubBlocks)
    BY <1>1, <1>5, CoreOfAiv
  <2>2. finish[a] = 1 /\ Announced(a \div SubBlocks)
    BY <1>1, <1>2 DEF FlagInv
  <2> QED
    BY <1>1, <1>2, <1>4, <1>8, <2>1, <2>2 DEF FlagInv
<1> QED
  BY <1>5, <1>6, <1>7, <1>9, <1>10, <1>11 DEF IInv

\* The barrier, from both sides.
LEMMA AivArriveKeeps ==
    ASSUME Assumptions, IInv, NEW a \in AIV, AivArrive(a) \/ AivBarrier(a)
    PROVE  IInv'
<1>1. TypeInv /\ LoopInv /\ StoredInv /\ FlagInv /\ BarrierInv /\ ResultInv /\ ReduceInv /\ shape \in Shapes
  BY DEF IInv, TypeInv
<1>2. /\ shape' = shape /\ aicVars' = aicVars /\ result' = result /\ finish' = finish
      /\ \/ aivPc[a] = "arrive" /\ aivPc' = [aivPc EXCEPT ![a] = "barrier"]
         \/ /\ aivPc[a] = "barrier" /\ aivPc' = [aivPc EXCEPT ![a] = "reduce"]
            /\ \A o \in AIV : aivPc[o] \notin {"wait", "arrive"}
  BY DEF AivArrive, AivBarrier
<1>3. aicPc' = aicPc /\ loopIdx' = loopIdx /\ task' = task /\ slot' = slot
  BY <1>2 DEF aicVars
<1>4. Core' = Core /\ AIV' = AIV
  BY <1>2, SameShape
<1>5. LoopInv' /\ \A c \in Core : Announced(c)' <=> Announced(c)
  BY <1>1, <1>2, AivLoopStays
<1>6. TypeInv'
  <2>1. aivPc' \in [AIV -> {"wait", "arrive", "barrier", "reduce", "done"}]
    BY <1>1, <1>2 DEF TypeInv
  <2> QED
    BY <1>1, <1>2, <1>3, <1>4, <2>1 DEF TypeInv, Parts
<1>7. StoredInv' /\ ResultInv'
  BY <1>1, <1>2, <1>3, StoresStay
<1>8. /\ aivPc[a] # "wait" /\ aivPc'[a] \in {"barrier", "reduce"}
      /\ \A o \in AIV : o # a => aivPc'[o] = aivPc[o]
  BY <1>1, <1>2 DEF TypeInv
<1>9. ReduceInv'
  <2>1. \A o \in AIV : aivPc'[o] = "done" => aivPc[o] = "done"
    BY <1>8
  <2> QED
    BY <1>1, <1>2, <2>1, ReducedStay
<1>10. BarrierInv'
  <2>1. DOMAIN aivPc = AIV
    BY <1>1 DEF TypeInv
  <2>2. CASE aivPc' = [aivPc EXCEPT ![a] = "barrier"]
    BY <1>1, <1>2, <2>1, <2>2, BarrierStays
  <2>3. CASE aivPc' = [aivPc EXCEPT ![a] = "reduce"] /\ \A o \in AIV : aivPc[o] \notin {"wait", "arrive"}
    BY <1>1, <1>2, <2>1, <2>3, BarrierStays
  <2> QED
    BY <1>2, <2>2, <2>3
<1>11. FlagInv'
  <2>1. \A o \in AIV : aivPc'[o] = "wait" <=> aivPc[o] = "wait"
    BY <1>8
  <2> QED
    BY <1>1, <1>2, <1>5, <2>1, FlagStays
<1> QED
  BY <1>5, <1>6, <1>7, <1>9, <1>10, <1>11 DEF IInv

\* A normal block is stored where it belongs, and nothing else changes.
LEMMA BlockStored ==
    ASSUME Assumptions, TypeInv, ResultInv, ReduceInv, shape' = shape, aivPc' = aivPc, slot' = slot,
           NEW t \in Block, t < normalBlocks,
           result' = [result EXCEPT ![t] =
                        [r \in Row |-> result[t][r] \cup {<<<<t % blockDim, 2>>, Part(t, 0, shape.k)>>}]]
    PROVE  Stored(t)' /\ (\A s : Stored(s) => Stored(s)') /\ ResultInv' /\ ReduceInv'
<1>1. /\ AIV' = AIV /\ Block' = Block /\ Row' = Row /\ normalBlocks' = normalBlocks /\ streamkBlocks' = streamkBlocks
      /\ normalBlocks \in Nat /\ streamkBlocks \in Nat
  BY SameShape, Loops, Quantities DEF Row, TypeInv
<1>2. /\ \A a, j : (Labors(a, j)' <=> Labors(a, j)) /\ RowsOf(a, j)' = RowsOf(a, j)
      /\ \A b : Value(b)' = Value(b)
  BY SameSums
<1>3. Value(t) = {<<<<t % blockDim, 2>>, Part(t, 0, shape.k)>>}
  BY DEF Value
<1>4. result = [b \in Block |-> [r \in Row |-> result[b][r]]] /\ \A b \in Block, r \in Row : result[b][r] \in {{}, Value(b)}
  BY DEF ResultInv
<1>5. \A b \in Block : b # t => result'[b] = result[b]
  BY <1>4
<1>6. result'[t] = [r \in Row |-> result[t][r] \cup Value(t)]
  BY <1>3, <1>4
<1>7. \A r \in Row : result'[t][r] = Value(t)
  BY <1>4, <1>6
<1>8. Stored(t)'
  BY <1>1, <1>2, <1>7 DEF Stored
<1>9. ASSUME NEW s, Stored(s) PROVE Stored(s)'
  <2>1. CASE s = t
    BY <1>8, <2>1
  <2>2. CASE s # t
    <3>1. s < normalBlocks => \A r \in Row : result'[s][r] = result[s][r]
      BY <2>2
    <3> QED
      BY <1>9, <3>1, StoredStays
  <2> QED
    BY <2>1, <2>2
<1>10. ResultInv'
  <2>1. \A b \in Block : result'[b] = [r \in Row |-> result'[b][r]]
    BY <1>4, <1>5, <1>6
  <2>2. result' = [b \in Block |-> result'[b]]
    BY <1>4
  <2>3. result' = [b \in Block |-> [r \in Row |-> result'[b][r]]]
    BY <2>1, <2>2
  <2>4. \A b \in Block, r \in Row : result'[b][r] \in {{}, Value(b)}
    BY <1>4, <1>5, <1>7
  <2> QED
    BY <1>1, <1>2, <2>3, <2>4 DEF ResultInv
<1>11. ReduceInv'
  <2>1. \A j \in 0..(streamkBlocks - 1), b \in Block : b = normalBlocks + j => result'[b] = result[b]
    BY <1>1, <1>5
  <2> QED
    BY <1>1, <1>2, <2>1 DEF ReduceInv
<1> QED
  BY <1>8, <1>9, <1>10, <1>11

\* So are the slices of a core.
LEMMA SlicesStored ==
    ASSUME Assumptions, TypeInv, StoredInv, ResultInv, ReduceInv, shape' = shape, aivPc' = aivPc, result' = result,
           NEW c \in Core, c < streamkCores, NEW t, t = normalBlocks + c,
           slot' = [slot EXCEPT ![c] = [x \in 0..1 |->
                        IF x = 0 THEN GetStreamkBlockDec(t).first
                        ELSE IF GetStreamkBlockDec(t).second # Nothing THEN GetStreamkBlockDec(t).second
                        ELSE slot[c][1]]]
    PROVE  /\ slot' \in [Core -> [0..1 -> Parts]]
           /\ Stored(t)' /\ (\A s \in Nat : s - normalBlocks \in Core /\ Stored(s) => Stored(s)')
           /\ (\A s \in Nat : s < normalBlocks /\ Stored(s) => Stored(s)') /\ ResultInv' /\ ReduceInv'
<1>1. /\ Block' = Block /\ Row' = Row /\ normalBlocks' = normalBlocks /\ Nothing' = Nothing
      /\ normalBlocks \in Nat /\ shape \in Shapes /\ Core = 0..(blockDim - 1) /\ blockDim \in Nat
  BY SameShape, Loops, CoreOfAiv DEF Row, Nothing, Part, TypeInv
<1>2. streamkCores \in Nat /\ c \in 0..(streamkCores - 1)
  <2>1. streamkCores \in 0..blockDim
    BY <1>1, Loops
  <2> QED
    BY <1>1, <2>1
<1>3. /\ \A b : Value(b)' = Value(b)
      /\ \A s : GetStreamkBlockDec(s)' = GetStreamkBlockDec(s)
  BY SameSums, SameTasks
<1>4. GetStreamkBlockDec(t).first \in Parts /\ GetStreamkBlockDec(t).second \in Parts
  BY <1>1, <1>2, DecType
<1>5. slot' \in [Core -> [0..1 -> Parts]]
  <2>1. slot \in [Core -> [0..1 -> Parts]]
    BY DEF TypeInv
  <2>2. [x \in 0..1 |-> IF x = 0 THEN GetStreamkBlockDec(t).first
                        ELSE IF GetStreamkBlockDec(t).second # Nothing THEN GetStreamkBlockDec(t).second
                        ELSE slot[c][1]] \in [0..1 -> Parts]
    BY <1>4, <2>1
  <2> QED
    BY <2>1, <2>2
<1>6. DOMAIN slot = Core
  BY DEF TypeInv
<1>7. /\ slot'[c][0] = GetStreamkBlockDec(t).first
      /\ GetStreamkBlockDec(t).second # Nothing => slot'[c][1] = GetStreamkBlockDec(t).second
      /\ \A d \in Core : d # c => slot'[d] = slot[d]
  BY <1>6
<1>8. t - normalBlocks = c /\ ~(t < normalBlocks)
  BY <1>1, <1>2
<1>9. Stored(t)'
  BY <1>1, <1>3, <1>7, <1>8 DEF Stored
<1>10. ASSUME NEW s \in Nat, s - normalBlocks \in Core, Stored(s) PROVE Stored(s)'
  <2>1. CASE s = t
    BY <1>9, <2>1
  <2>2. CASE s # t
    <3>1. s - normalBlocks # c /\ ~(s < normalBlocks)
      BY <1>1, <1>8, <1>10, <2>2
    <3> QED
      BY <1>7, <1>10, <3>1, StoredStays
  <2> QED
    BY <2>1, <2>2
<1>11. ASSUME NEW s \in Nat, s < normalBlocks, Stored(s) PROVE Stored(s)'
  BY <1>11, StoredStays
<1>12. ResultInv'
  BY <1>1, <1>3 DEF ResultInv
<1>13. ReduceInv'
  BY ReducedStay
<1> QED
  BY <1>5, <1>9, <1>10, <1>11, <1>12, <1>13

\* A turn of a core: its task is stored, and those before it stay.
LEMMA AicBlockKeeps ==
    ASSUME Assumptions, IInv, NEW c \in Core, AicBlock(c)
    PROVE  IInv'
<1>1. TypeInv /\ LoopInv /\ StoredInv /\ FlagInv /\ BarrierInv /\ ResultInv /\ ReduceInv /\ shape \in Shapes
  BY DEF IInv, TypeInv
<1>2. PICK i \in Nat : i = loopIdx[c] /\ i % blockDim = c /\ i < GetCoreLoops
  BY <1>1 DEF TypeInv, LoopInv, AicBlock
<1>3. PICK t \in Nat : t = task[c] /\ t = ActualLoopIdx(c, i)
  BY <1>1, <1>2 DEF TypeInv, LoopInv
<1> DEFINE dec == GetStreamkBlockDec(t)
<1>4. /\ aicPc[c] = "turn" /\ shape' = shape /\ aivPc' = aivPc /\ finish' = finish
      /\ loopIdx' = [loopIdx EXCEPT ![c] = i + blockDim]
      /\ task' = [task EXCEPT ![c] = ActualLoopIdx(c, i + blockDim)]
      /\ aicPc' = [aicPc EXCEPT ![c] = IF SetDue(c, i) THEN "set" ELSE "turn"]
  BY <1>2, <1>3 DEF AicBlock
<1>5. IF dec.isStreamkBlock
      THEN /\ slot' = [slot EXCEPT ![c] = [x \in 0..1 |->
                            IF x = 0 THEN dec.first
                            ELSE IF dec.second # Nothing THEN dec.second ELSE slot[c][1]]]
           /\ result' = result
      ELSE /\ result' = [result EXCEPT ![dec.first.block] =
                            [r \in Row |-> result[dec.first.block][r] \cup {<<<<c, 2>>, dec.first>>}]]
           /\ slot' = slot
  BY <1>3 DEF AicBlock
<1>6. /\ t < normalBlocks => t \in Block /\ t % blockDim = c
      /\ t >= normalBlocks => t = normalBlocks + c /\ c < streamkCores /\ i = SliceTurn(c)
      /\ c < streamkCores => (SetDue(c, i) <=> i = SliceTurn(c))
      /\ c >= streamkCores => ~SetDue(c, i)
  BY <1>1, <1>2, <1>3, TaskOfTurn
<1>7. /\ Core' = Core /\ AIV' = AIV /\ Block' = Block /\ blockDim' = blockDim /\ streamkCores' = streamkCores
      /\ GetCoreLoops' = GetCoreLoops /\ Row' = Row /\ Parts' = Parts
  BY <1>4, SameShape DEF Row, Parts
<1>8. \A d, k : ActualLoopIdx(d, k)' = ActualLoopIdx(d, k) /\ SliceTurn(d)' = SliceTurn(d)
  BY <1>4, SameTasks
<1>9. /\ Core = 0..(blockDim - 1) /\ blockDim \in Nat \ {0} /\ normalBlocks \in Nat
      /\ c \in Nat /\ streamkCores \in Nat /\ c \in 0..(blockDim - 1)
  <2>1. Core = 0..(blockDim - 1) /\ blockDim \in Nat \ {0} /\ streamkCores \in 0..blockDim /\ normalBlocks \in Nat
    BY <1>1, Loops, CoreOfAiv
  <2> QED
    BY <2>1
<1>10. i + blockDim \in Nat /\ (i + blockDim) % blockDim = c /\ ActualLoopIdx(c, i + blockDim) \in Nat
  <2>1. (i + blockDim) % blockDim = c
    BY <1>2, <1>9, Rounds
  <2>2. i + blockDim \in Nat
    BY <1>9
  <2> QED
    BY <1>1, <2>1, <2>2, TaskType
<1>11. /\ loopIdx'[c] = i + blockDim /\ task'[c] = ActualLoopIdx(c, i + blockDim)
       /\ aicPc'[c] = IF SetDue(c, i) THEN "set" ELSE "turn"
       /\ \A d \in Core : d # c => loopIdx'[d] = loopIdx[d] /\ task'[d] = task[d] /\ aicPc'[d] = aicPc[d]
  BY <1>1, <1>4 DEF TypeInv
\* The task is stored.
<1>12. /\ slot' \in [Core -> [0..1 -> Parts]] /\ ResultInv' /\ ReduceInv' /\ Stored(t)'
       /\ \A s \in Nat : (s < normalBlocks \/ s - normalBlocks \in Core) /\ Stored(s) => Stored(s)'
  <2>1. CASE t < normalBlocks
    <3>1. dec.first = Part(t, 0, shape.k) /\ ~dec.isStreamkBlock /\ dec.first.block = t
      BY <1>1, <2>1, DecType DEF Part
    <3>2. slot' = slot /\ result' = [result EXCEPT ![t] = [r \in Row |-> result[t][r] \cup {<<<<c, 2>>, Part(t, 0, shape.k)>>}]]
      BY <1>5, <3>1
    <3>3. t \in Block /\ t % blockDim = c
      BY <1>6, <2>1
    <3>4. Stored(t)' /\ (\A s : Stored(s) => Stored(s)') /\ ResultInv' /\ ReduceInv'
      BY <1>1, <1>4, <2>1, <3>2, <3>3, BlockStored
    <3> QED
      BY <1>1, <3>2, <3>4 DEF TypeInv
  <2>2. CASE t >= normalBlocks
    <3>1. t = normalBlocks + c /\ c < streamkCores
      BY <1>6, <2>2
    <3>2. c \in 0..(streamkCores - 1)
      BY <1>9, <3>1
    <3>3. dec.isStreamkBlock
      BY <1>1, <3>1, <3>2, DecType
    <3>4. /\ result' = result
          /\ slot' = [slot EXCEPT ![c] = [x \in 0..1 |->
                        IF x = 0 THEN GetStreamkBlockDec(t).first
                        ELSE IF GetStreamkBlockDec(t).second # Nothing THEN GetStreamkBlockDec(t).second
                        ELSE slot[c][1]]]
      BY <1>5, <3>3
    <3> QED
      BY <1>1, <1>4, <3>1, <3>4, SlicesStored
  <2> QED
    BY <1>9, <2>1, <2>2
<1> HIDE DEF dec
<1>13. TypeInv'
  <2>1. loopIdx' \in [Core -> Nat]
    BY <1>1, <1>4, <1>10 DEF TypeInv
  <2>2. task' \in [Core -> Nat]
    BY <1>1, <1>4, <1>10 DEF TypeInv
  <2>3. aicPc' \in [Core -> {"start", "turn", "set"}]
    BY <1>1, <1>4 DEF TypeInv
  <2> QED
    BY <1>1, <1>4, <1>7, <1>12, <2>1, <2>2, <2>3 DEF TypeInv
<1>14. c < streamkCores => SliceTurn(c) \in Nat /\ SliceTurn(c) % blockDim = c
  BY <1>1, SlicesHaveTurn
<1>15. LoopInv'
  <2>1. ASSUME NEW d \in Core, d # c
        PROVE  /\ loopIdx'[d] % blockDim = d
               /\ \A k \in Nat : loopIdx'[d] = k => task'[d] = ActualLoopIdx(d, k)
               /\ aicPc'[d] = "start" => d >= streamkCores
               /\ aicPc'[d] = "set" => d < streamkCores /\ SliceTurn(d) < loopIdx'[d]
    BY <1>1, <1>11, <2>1 DEF LoopInv
  <2>2. /\ loopIdx'[c] % blockDim = c
        /\ \A k \in Nat : loopIdx'[c] = k => task'[c] = ActualLoopIdx(c, k)
        /\ aicPc'[c] = "start" => c >= streamkCores
    BY <1>10, <1>11
  <2>3. aicPc'[c] = "set" => c < streamkCores /\ SliceTurn(c) < loopIdx'[c]
    BY <1>6, <1>9, <1>11
  <2> QED
    BY <1>7, <1>8, <2>1, <2>2, <2>3 DEF LoopInv
<1>16. StoredInv'
  <2> SUFFICES ASSUME NEW d \in Core, NEW k \in TurnsDone(d)', NEW s \in 0..(GetCoreLoops - 1), s = ActualLoopIdx(d, k)
               PROVE  Stored(s)'
    BY <1>7, <1>8 DEF StoredInv
  <2>1. k \in 0..(loopIdx'[d] - 1) /\ k % blockDim = d /\ k < GetCoreLoops
    BY <1>7 DEF TurnsDone
  <2>2. k \in Nat /\ s \in Nat
    BY <2>1
  <2>3. CASE d = c /\ k = i
    BY <1>3, <1>12, <2>3
  <2>4. CASE ~(d = c /\ k = i)
    <3>1. k \in TurnsDone(d)
      <4>1. CASE d # c
        BY <1>11, <2>1, <4>1 DEF TurnsDone
      <4>2. CASE d = c
        <5>1. k < i + blockDim /\ k # i
          BY <1>9, <1>11, <2>1, <2>4, <4>2
        <5>2. ~(i < k)
          BY <1>2, <1>9, <2>1, <2>2, <4>2, <5>1, RoundApart
        <5>3. k < i
          BY <2>2, <5>1, <5>2
        <5> QED
          BY <1>2, <2>1, <2>2, <4>2, <5>3 DEF TurnsDone
      <4> QED
        BY <4>1, <4>2
    <3>2. Stored(s)
      BY <1>1, <3>1 DEF StoredInv
    <3>3. s < normalBlocks \/ s - normalBlocks \in Core
      <4>1. s >= normalBlocks => s = normalBlocks + d
        BY <1>1, <2>1, <2>2, TaskOfTurn
      <4> QED
        BY <1>9, <2>2, <4>1
    <3> QED
      BY <1>12, <2>2, <3>2, <3>3
  <2> QED
    BY <2>3, <2>4
<1>17. BarrierInv'
  BY <1>1, <1>4, <1>7 DEF BarrierInv
<1>18. FlagInv'
  <2>1. \A d \in Core : d # c => (Announced(d)' <=> Announced(d))
    BY <1>4, <1>11, AnnouncedStays
  <2>2. Announced(c)' <=> Announced(c)
    <3>1. CASE c >= streamkCores
      <4>1. aicPc'[c] = "turn"
        BY <1>6, <1>11, <3>1
      <4> QED
        BY <1>4, <1>7, <1>9, <3>1, <4>1 DEF Announced
    <3>2. CASE c < streamkCores /\ i = SliceTurn(c)
      <4>1. aicPc'[c] = "set"
        BY <1>6, <1>11, <3>2
      <4>2. ~(SliceTurn(c) < loopIdx[c])
        BY <1>2, <3>2
      <4> QED
        BY <1>7, <3>2, <4>1, <4>2 DEF Announced
    <3>3. CASE c < streamkCores /\ i # SliceTurn(c)
      <4>1. aicPc'[c] = "turn"
        BY <1>6, <1>11, <3>3
      <4>2. i < SliceTurn(c) => i + blockDim <= SliceTurn(c)
        BY <1>2, <1>9, <1>14, <3>3, RoundApart
      <4>3. SliceTurn(c) < i + blockDim <=> SliceTurn(c) < i
        BY <1>2, <1>9, <1>14, <3>3, <4>2
      <4>4. SliceTurn(c)' = SliceTurn(c)
        BY <1>8
      <4> QED
        BY <1>2, <1>4, <1>7, <1>11, <3>3, <4>1, <4>3, <4>4 DEF Announced
    <3> QED
      BY <1>9, <3>1, <3>2, <3>3
  <2> QED
    BY <1>1, <1>4, <2>1, <2>2, FlagStays
<1> QED
  BY <1>12, <1>13, <1>15, <1>16, <1>17, <1>18 DEF IInv

\* When the AIVs are past the barrier the slots hold the parts of their blocks.
LEMMA SlotsStored ==
    ASSUME Assumptions, TypeInv, StoredInv, \A c \in Core : Announced(c),
           NEW j \in 0..(streamkBlocks - 1), NEW s \in SlotsOf(j)
    PROVE  slot[s[1]][s[2]] = PartOf(s)
<1>1. shape \in Shapes /\ loopIdx \in [Core -> Nat]
  BY DEF TypeInv
<1>2. PICK c \in CoresOf(j) : s = SlotOf(j, c)
  BY <1>1, SlotsAreOfBlock
<1>3. /\ Core = 0..(blockDim - 1) /\ blockDim \in Nat /\ streamkCores \in 0..blockDim /\ normalBlocks \in Nat
      /\ streamkBlocks \in Nat
  BY <1>1, Loops, CoreOfAiv, Quantities
<1>4. c \in Core /\ c < streamkCores /\ c \in Nat
  BY <1>3 DEF CoresOf
<1>5. SliceTurn(c) < loopIdx[c]
  BY <1>4 DEF Announced
<1>6. /\ SliceTurn(c) \in Nat /\ SliceTurn(c) % blockDim = c /\ SliceTurn(c) < GetCoreLoops
      /\ ActualLoopIdx(c, SliceTurn(c)) = normalBlocks + c /\ GetCoreLoops = normalBlocks + streamkCores
  BY <1>1, <1>4, SlicesHaveTurn, Loops
<1>7. SliceTurn(c) \in TurnsDone(c)
  BY <1>1, <1>4, <1>5, <1>6 DEF TurnsDone
<1>8. Stored(normalBlocks + c)
  <2>1. normalBlocks + c \in 0..(GetCoreLoops - 1)
    BY <1>3, <1>4, <1>6
  <2> QED
    BY <1>4, <1>6, <1>7, <2>1 DEF StoredInv
<1> DEFINE dec == GetStreamkBlockDec(normalBlocks + c)
<1>9. slot[c][0] = dec.first /\ (dec.second # Nothing => slot[c][1] = dec.second)
  <2>1. PICK t \in Int : t = normalBlocks + c
    BY <1>3, <1>4
  <2>2. ~(t < normalBlocks) /\ t - normalBlocks = c
    BY <1>3, <1>4, <2>1
  <2>3. Stored(t)
    BY <1>8, <2>1
  <2>4. dec = GetStreamkBlockDec(t)
    BY <2>1
  <2> HIDE DEF dec
  <2> QED
    BY <2>2, <2>3, <2>4 DEF Stored
<1>10. s[1] = c /\ s[2] \in {0, 1}
  BY <1>2 DEF SlotOf
<1>11. PartOf(s) = IF s[2] = 0 THEN dec.first ELSE dec.second
  BY <1>10 DEF PartOf
<1>12. PartOf(s).block = normalBlocks + j
  BY <1>1, <1>2, PartInSlot
<1>13. Nothing.block = -1 /\ normalBlocks + j # -1
  BY <1>3 DEF Nothing, Part
<1> HIDE DEF dec
<1> QED
  BY <1>9, <1>10, <1>11, <1>12, <1>13

\* An AIV adds up its rows.
LEMMA AivReduceKeeps ==
    ASSUME Assumptions, IInv, NEW a \in AIV, AivReduce(a)
    PROVE  IInv'
<1>1. TypeInv /\ LoopInv /\ StoredInv /\ FlagInv /\ BarrierInv /\ ResultInv /\ ReduceInv /\ shape \in Shapes
  BY DEF IInv, TypeInv
<1> DEFINE mine(j) == IF j >= 0 /\ Labors(a, j) THEN RowsOf(a, j) ELSE {}
           sum(j) == {<<s, slot[s[1]][s[2]]>> : s \in SlotsOf(j)}
<1>2. /\ aivPc[a] = "reduce" /\ aivPc' = [aivPc EXCEPT ![a] = "done"]
      /\ shape' = shape /\ aicVars' = aicVars /\ finish' = finish
      /\ result' = [b \in Block |-> [r \in Row |->
                        IF r \in mine(b - normalBlocks) THEN result[b][r] \cup sum(b - normalBlocks) ELSE result[b][r]]]
  BY DEF AivReduce
<1> HIDE DEF mine, sum
<1>3. aicPc' = aicPc /\ loopIdx' = loopIdx /\ task' = task /\ slot' = slot
  BY <1>2 DEF aicVars
<1>4. /\ Core' = Core /\ AIV' = AIV /\ Block' = Block /\ GetCoreLoops' = GetCoreLoops /\ blockDim' = blockDim
      /\ streamkBlocks' = streamkBlocks /\ normalBlocks' = normalBlocks /\ Row' = Row
  BY <1>2, SameShape DEF Row
<1>5. LoopInv' /\ \A c \in Core : Announced(c)' <=> Announced(c)
  BY <1>1, <1>2, AivLoopStays
<1>6. TypeInv'
  <2>1. aivPc' \in [AIV -> {"wait", "arrive", "barrier", "reduce", "done"}]
    BY <1>1, <1>2 DEF TypeInv
  <2> QED
    BY <1>1, <1>2, <1>3, <1>4, <2>1 DEF TypeInv, Parts
<1>7. \A o \in AIV : aivPc[o] \notin {"wait", "arrive"}
  BY <1>1, <1>2 DEF BarrierInv
<1>8. \A c \in Core : Announced(c)
  <2> SUFFICES ASSUME NEW c \in Core PROVE Announced(c)
    OBVIOUS
  <2>1. PICK o \in AIV : o \div SubBlocks = c
    BY <1>1, CoreOfAiv
  <2> QED
    BY <1>1, <1>7, <2>1 DEF FlagInv
<1>9. ASSUME NEW j \in 0..(streamkBlocks - 1) PROVE sum(j) = SumOf(j)
  <2>1. \A s \in SlotsOf(j) : slot[s[1]][s[2]] = PartOf(s)
    BY <1>1, <1>8, SlotsStored
  <2> QED
    BY <2>1 DEF sum, SumOf
<1>10. /\ normalBlocks \in Nat /\ streamkBlocks \in Nat /\ Block = 0..(normalBlocks + streamkBlocks - 1)
  <2>1. normalBlocks \in Nat /\ streamkBlocks \in Nat /\ normalBlocks + streamkBlocks = shape.blocks
    BY <1>1, Loops, Quantities
  <2> QED
    BY <2>1 DEF Block
<1>11. ASSUME NEW b \in Block, NEW j \in Int, b = normalBlocks + j
       PROVE  \A r \in Row : result'[b][r] = IF r \in mine(j) THEN result[b][r] \cup sum(j) ELSE result[b][r]
  <2>1. b - normalBlocks = j
    BY <1>10, <1>11
  <2> QED
    BY <1>2, <2>1
<1>12. ASSUME NEW b \in Block, b < normalBlocks PROVE \A r \in Row : result'[b][r] = result[b][r]
  <2>1. PICK j \in Int : b = normalBlocks + j /\ ~(j >= 0)
    <3>1. b - normalBlocks \in Int /\ b = normalBlocks + (b - normalBlocks) /\ ~(b - normalBlocks >= 0)
      BY <1>10, <1>12
    <3> QED
      BY <3>1
  <2>2. mine(j) = {}
    BY <2>1 DEF mine
  <2> QED
    BY <1>11, <2>1, <2>2
<1>13. ASSUME NEW b \in Block, NEW j \in 0..(streamkBlocks - 1), b = normalBlocks + j
       PROVE  \A r \in Row : /\ result[b][r] \in {{}, Value(b)}
                             /\ result'[b][r] = IF r \in mine(j) THEN Value(b) ELSE result[b][r]
  <2>1. Value(b) = SumOf(j)
    <3>1. ~(b < normalBlocks) /\ b - normalBlocks = j
      BY <1>10, <1>13
    <3> QED
      BY <3>1 DEF Value
  <2>2. j \in Int
    BY <1>10
  <2>3. \A r \in Row : result[b][r] \in {{}, Value(b)}
    BY <1>1 DEF ResultInv
  <2>4. sum(j) = SumOf(j)
    BY <1>9
  <2>5. \A r \in Row : result'[b][r] = IF r \in mine(j) THEN result[b][r] \cup Value(b) ELSE result[b][r]
    BY <1>11, <1>13, <2>1, <2>2, <2>4
  <2>6. ASSUME NEW r \in Row
        PROVE  result'[b][r] = IF r \in mine(j) THEN Value(b) ELSE result[b][r]
    BY <2>3, <2>5
  <2> QED
    BY <2>3, <2>6
<1>14. \A b \in Block : b < normalBlocks \/ \E j \in 0..(streamkBlocks - 1) : b = normalBlocks + j
  <2> SUFFICES ASSUME NEW b \in Block, ~(b < normalBlocks) PROVE \E j \in 0..(streamkBlocks - 1) : b = normalBlocks + j
    OBVIOUS
  <2>1. b - normalBlocks \in 0..(streamkBlocks - 1) /\ b = normalBlocks + (b - normalBlocks)
    BY <1>10
  <2> QED
    BY <2>1
<1>15. StoredInv'
  <2>1. \A c, i : ActualLoopIdx(c, i)' = ActualLoopIdx(c, i)
    BY <1>2, SameTasks
  <2>2. \A c : TurnsDone(c)' = TurnsDone(c)
    BY <1>3, <1>4 DEF TurnsDone
  <2>3. ASSUME NEW t \in Nat, Stored(t) PROVE Stored(t)'
    <3>1. t < normalBlocks => t \in Block
      BY <1>10
    <3>2. t < normalBlocks => \A r \in Row : result'[t][r] = result[t][r]
      BY <1>12, <3>1
    <3> QED
      BY <1>2, <1>3, <2>3, <3>2, StoredStays
  <2> QED
    BY <1>1, <1>4, <2>1, <2>2, <2>3 DEF StoredInv
<1>16. \A b : Value(b)' = Value(b)
  BY <1>2, SameSums
<1>17. ResultInv'
  <2>1. \A b \in Block, r \in Row : result'[b][r] \in {{}, Value(b)}
    <3> SUFFICES ASSUME NEW b \in Block, NEW r \in Row PROVE result'[b][r] \in {{}, Value(b)}
      OBVIOUS
    <3>1. CASE b < normalBlocks
      BY <1>1, <1>12, <3>1 DEF ResultInv
    <3>2. CASE \E j \in 0..(streamkBlocks - 1) : b = normalBlocks + j
      BY <1>13, <3>2
    <3> QED
      BY <1>14, <3>1, <3>2
  <2>2. result' = [b \in Block |-> [r \in Row |-> result'[b][r]]]
    BY <1>2
  <2> QED
    BY <1>4, <1>16, <2>1, <2>2 DEF ResultInv
<1>18. \A o \in AIV : aivPc'[o] = IF o = a THEN "done" ELSE aivPc[o]
  BY <1>1, <1>2 DEF TypeInv
<1>19. ReduceInv'
  <2>1. \A o, j : (Labors(o, j)' <=> Labors(o, j)) /\ RowsOf(o, j)' = RowsOf(o, j)
    BY <1>2, SameSums
  <2>2. ASSUME NEW o \in AIV, aivPc'[o] = "done", NEW j \in 0..(streamkBlocks - 1), NEW b \in Block,
               b = normalBlocks + j, Labors(o, j), NEW r \in RowsOf(o, j)
        PROVE  result'[b][r] = Value(b)
    <3>1. r \in Row /\ j >= 0
      BY <1>10 DEF RowsOf
    <3>2. CASE o = a
      <4>1. r \in mine(j)
        BY <2>2, <3>1, <3>2 DEF mine
      <4> QED
        BY <1>13, <2>2, <3>1, <4>1
    <3>3. CASE o # a
      <4>1. result[b][r] = Value(b)
        BY <1>1, <1>18, <2>2, <3>3 DEF ReduceInv
      <4> QED
        BY <1>13, <2>2, <3>1, <4>1
    <3> QED
      BY <3>2, <3>3
  <2> QED
    BY <1>4, <1>16, <2>1, <2>2 DEF ReduceInv
<1>20. BarrierInv'
  <2>1. DOMAIN aivPc = AIV
    BY <1>1 DEF TypeInv
  <2> QED
    BY <1>1, <1>2, <1>7, <2>1, BarrierStays
<1>21. FlagInv'
  <2>1. \A o \in AIV : aivPc'[o] = "wait" <=> aivPc[o] = "wait"
    BY <1>2, <1>18
  <2> QED
    BY <1>1, <1>2, <1>5, <2>1, FlagStays
<1> QED
  BY <1>5, <1>6, <1>15, <1>17, <1>19, <1>20, <1>21 DEF IInv
-----------------------------------------------------------------------------
(* The inductive invariant: cores go through their turns and announce      *)
(* their slices, AIVs wait for all of them and add them up.                *)
THEOREM Invariance ==
    ASSUME Assumptions
    PROVE  Spec => []IInv
<1>1. Init => IInv
  BY InitHolds
<1>2. IInv /\ [Next]_vars => IInv'
  <2> SUFFICES ASSUME IInv, [Next]_vars PROVE IInv'
    OBVIOUS
  <2>1. ASSUME NEW c \in Core, AicNext(c) PROVE IInv'
    BY <2>1, AicSetEarlyKeeps, AicBlockKeeps, AicSetKeeps DEF AicNext
  <2>2. ASSUME NEW a \in AIV, AivNext(a) PROVE IInv'
    BY <2>2, AivWaitKeeps, AivArriveKeeps, AivReduceKeeps DEF AivNext
  <2>3. CASE vars' = vars
    <3>1. /\ shape' = shape /\ loopIdx' = loopIdx /\ task' = task /\ aicPc' = aicPc /\ slot' = slot
          /\ result' = result /\ aivPc' = aivPc /\ finish' = finish /\ aicVars' = aicVars
      BY <2>3 DEF vars, aicVars
    <3>2. TypeInv /\ LoopInv /\ StoredInv /\ FlagInv /\ BarrierInv /\ ResultInv /\ ReduceInv /\ shape \in Shapes
      BY DEF IInv, TypeInv
    <3>3. Core' = Core /\ AIV' = AIV
      BY <3>1, SameShape
    <3>4. TypeInv' /\ BarrierInv'
      BY <3>1, <3>2, <3>3 DEF TypeInv, BarrierInv, Parts
    <3>5. LoopInv' /\ \A c \in Core : Announced(c)' <=> Announced(c)
      BY <3>1, <3>2, AivLoopStays
    <3>6. StoredInv' /\ ResultInv'
      BY <3>1, <3>2, StoresStay
    <3>7. ReduceInv'
      BY <3>1, <3>2, ReducedStay
    <3>8. FlagInv'
      BY <3>1, <3>2, <3>5, FlagStays
    <3> QED
      BY <3>4, <3>5, <3>6, <3>7, <3>8 DEF IInv
  <2> QED
    BY <2>1, <2>2, <2>3 DEF Next, Terminated
<1> QED
  BY <1>1, <1>2, PTL DEF Spec

(* For every problem and in every interleaving of cores and AIVs: what is  *)
(* in C is a product over the whole of k, each index once, and when the    *)
(* kernel has returned every row of every block is there.                  *)
THEOREM ResultWholeHolds ==
    ASSUME Assumptions
    PROVE  Spec => []ResultWhole
<1>1. IInv => ResultWhole
  <2> SUFFICES ASSUME IInv PROVE ResultWhole
    OBVIOUS
  <2>1. TypeInv /\ LoopInv /\ StoredInv /\ ResultInv /\ ReduceInv /\ shape \in Shapes
    BY DEF IInv, TypeInv
  <2>2. /\ normalBlocks \in Nat /\ streamkBlocks \in Nat /\ Block = 0..(normalBlocks + streamkBlocks - 1)
        /\ Core = 0..(blockDim - 1) /\ blockDim \in Nat \ {0}
    <3>1. /\ normalBlocks \in Nat /\ streamkBlocks \in Nat /\ normalBlocks + streamkBlocks = shape.blocks
          /\ Core = 0..(blockDim - 1) /\ blockDim \in Nat \ {0}
      BY <2>1, Loops, Quantities, CoreOfAiv
    <3> QED
      BY <3>1 DEF Block
  <2>3. ASSUME NEW b \in Block PROVE b < normalBlocks \/ \E j \in 0..(streamkBlocks - 1) : b = normalBlocks + j
    <3>1. ~(b < normalBlocks) => b - normalBlocks \in 0..(streamkBlocks - 1) /\ b = normalBlocks + (b - normalBlocks)
      BY <2>2
    <3> QED
      BY <3>1
  <2>4. ASSUME NEW b \in Block PROVE Whole(Value(b), b) /\ Value(b) # {}
    <3>1. CASE b < normalBlocks
      <4>1. Value(b) = {<<<<b % blockDim, 2>>, Part(b, 0, shape.k)>>}
        BY <3>1 DEF Value
      <4> QED
        BY <2>1, <4>1, BlockWhole
    <3>2. CASE \E j \in 0..(streamkBlocks - 1) : b = normalBlocks + j
      <4>1. PICK j \in 0..(streamkBlocks - 1) : b = normalBlocks + j
        BY <3>2
      <4>2. ~(b < normalBlocks) /\ b - normalBlocks = j
        BY <2>2, <4>1
      <4>3. Value(b) = SumOf(j)
        BY <4>2 DEF Value
      <4> QED
        BY <2>1, <4>1, <4>3, SumWhole
    <3> QED
      BY <2>3, <3>1, <3>2
  <2>5. \A b \in Block : \A summands \in RowValues(b) : summands # {} => Whole(summands, b)
    BY <2>1, <2>4 DEF RowValues, ResultInv
  <2>6. ASSUME AllDone, NEW b \in Block, NEW r \in Row PROVE result[b][r] # {}
    <3>1. CASE b < normalBlocks
      <4> DEFINE c == b % blockDim
      <4>1. b \in Nat
        BY <2>2
      <4>2. PICK i \in Nat : i % blockDim = c /\ i < GetCoreLoops /\ ActualLoopIdx(c, i) = b
        BY <2>1, <3>1, <4>1, BlockHasTurn
      <4>3. c \in Core
        BY <2>1, <3>1, <4>1, BlockHasTurn
      <4>4. loopIdx[c] \in Nat /\ GetCoreLoops <= loopIdx[c] /\ GetCoreLoops \in Nat /\ normalBlocks <= GetCoreLoops
        <5>1. loopIdx[c] \in Nat /\ loopIdx[c] >= GetCoreLoops
          BY <2>1, <2>6, <4>3 DEF AllDone, AicDone, TypeInv
        <5>2. GetCoreLoops = normalBlocks + streamkCores /\ streamkCores \in 0..blockDim
          BY <2>1, Loops
        <5> QED
          BY <2>2, <5>1, <5>2
      <4> HIDE DEF c
      <4>5. i \in TurnsDone(c)
        BY <4>2, <4>4 DEF TurnsDone
      <4>6. b \in 0..(GetCoreLoops - 1)
        BY <2>2, <3>1, <4>1, <4>4
      <4>7. Stored(b)
        BY <2>1, <4>2, <4>3, <4>5, <4>6 DEF StoredInv
      <4> QED
        BY <2>4, <3>1, <4>7 DEF Stored
    <3>2. CASE \E j \in 0..(streamkBlocks - 1) : b = normalBlocks + j
      <4>1. PICK j \in 0..(streamkBlocks - 1) : b = normalBlocks + j
        BY <3>2
      <4>2. PICK a \in AIV : Labors(a, j) /\ r \in RowsOf(a, j)
        BY <2>1, LaborOfRow
      <4>3. aivPc[a] = "done"
        BY <2>6 DEF AllDone
      <4>4. result[b][r] = Value(b)
        BY <2>1, <4>1, <4>2, <4>3 DEF ReduceInv
      <4> QED
        BY <2>4, <4>4
    <3> QED
      BY <2>3, <3>1, <3>2
  <2> QED
    BY <2>5, <2>6 DEF ResultWhole
<1> QED
  BY <1>1, Invariance, PTL

(* The kernel leaves the flag cleared: a core sets it as often as each of  *)
(* its AIVs waits.                                                         *)
THEOREM FlagCleared ==
    ASSUME Assumptions
    PROVE  Spec => [](AllDone => \A a \in AIV : finish[a] = 0)
<1>1. IInv => (AllDone => \A a \in AIV : finish[a] = 0)
  BY DEF IInv, FlagInv, AllDone
<1> QED
  BY <1>1, Invariance, PTL
=============================================================================
