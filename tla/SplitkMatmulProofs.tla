------------------------- MODULE SplitkMatmulProofs -------------------------
(***************************************************************************)
(* The split-K kernel for every problem, any number of cores and stages:   *)
(* the tasks cover C in every slice, the slices k, the tiles C; no AIV     *)
(* reads the workspace before it is whole, no pipe takes a buffer before   *)
(* its turn; what is written to C is whole and the flags are left cleared. *)
(***************************************************************************)
EXTENDS SplitkMatmul, BlockSwizzleProofs, FiniteSetTheorems

-----------------------------------------------------------------------------
(* Lengths cut into pieces. *)

\* The pieces of an axis or of the elements: all but the last of length tile.
LEMMA Cut ==
    ASSUME NEW total \in Nat \ {0}, NEW tile \in Nat \ {0}
    PROVE  LET L == CeilDiv(total, tile)
               Long(b) == ActualLength(b, L, total, tile)
           IN  /\ L \in Nat \ {0}
               /\ \A b \in 0..(L - 1) : Long(b) \in 1..tile /\ b * tile \in Nat /\ b * tile + Long(b) <= total
               /\ \A x \in 0..(total - 1) :
                    /\ x \div tile \in 0..(L - 1)
                    /\ (x \div tile) * tile <= x /\ x < (x \div tile) * tile + Long(x \div tile)
                    /\ \A b \in 0..(L - 1) : b * tile <= x /\ x < b * tile + Long(b) => b = x \div tile
  <1> DEFINE L == CeilDiv(total, tile)
             Long(b) == ActualLength(b, L, total, tile)
  <1>1. L \in Nat \ {0} /\ (L - 1) * tile < total /\ total <= L * tile
    <2> DEFINE a == total + tile - 1
               r == a % tile
    <2>1. a \in Nat
      OBVIOUS
    <2>2. L = a \div tile
      BY DEF CeilDiv
    <2>3. L \in Nat /\ r \in 0..(tile - 1) /\ a = tile * L + r
      BY <2>1, <2>2, DivMod
    <2> HIDE DEF L, r
    <2>4. L # 0
      BY <2>3
    <2>5. (L - 1) * tile = tile * L - tile /\ L * tile = tile * L
      BY <2>3
    <2> QED
      BY <2>3, <2>4, <2>5
  <1> HIDE DEF L
  <1>2. ASSUME NEW b \in 0..(L - 1)
        PROVE  Long(b) \in 1..tile /\ b * tile \in Nat /\ b * tile + Long(b) <= total
    <2>1. b * tile \in Nat
      BY <1>1
    <2>2. CASE b = L - 1
      <3>1. L * tile = (L - 1) * tile + tile
        BY <1>1
      <3> QED
        BY <1>1, <2>1, <2>2, <3>1 DEF ActualLength
    <2>3. CASE b # L - 1
      <3>1. b + 1 <= L - 1
        BY <1>1, <2>3
      <3>2. (b + 1) * tile <= (L - 1) * tile
        BY <1>1, <3>1
      <3>3. (b + 1) * tile = b * tile + tile
        BY <1>1
      <3> QED
        BY <1>1, <2>1, <2>3, <3>2, <3>3 DEF ActualLength
    <2> QED
      BY <2>2, <2>3
  <1>3. ASSUME NEW x \in 0..(total - 1), NEW b \in 0..(L - 1), b * tile <= x, x < b * tile + tile
        PROVE  b = x \div tile
    <2>1. b \in Nat /\ x \in Nat /\ b * tile = tile * b
      BY <1>1
    <2>2. x - tile * b \in 0..(tile - 1)
      BY <1>3, <2>1
    <2>3. (tile * b + (x - tile * b)) \div tile = b
      BY <2>1, <2>2, DivOf
    <2> QED
      BY <2>1, <2>3
  <1>4. ASSUME NEW x \in 0..(total - 1)
        PROVE  /\ x \div tile \in 0..(L - 1)
               /\ (x \div tile) * tile <= x /\ x < (x \div tile) * tile + Long(x \div tile)
    <2> DEFINE q == x \div tile
    <2>1. q \in Nat /\ x % tile \in 0..(tile - 1) /\ x = tile * q + (x % tile)
      BY DivMod
    <2> HIDE DEF q
    <2>2. q * tile <= x /\ x < q * tile + tile
      BY <2>1
    <2>3. q <= L - 1
      <3> SUFFICES ASSUME L <= q PROVE FALSE
        BY <1>1, <2>1
      <3>1. L * tile <= q * tile
        BY <1>1, <2>1
      <3> QED
        BY <1>1, <2>1, <2>2, <3>1
    <2>4. x < q * tile + Long(q)
      BY <1>1, <2>1, <2>2 DEF ActualLength
    <2> QED
      BY <1>1, <2>1, <2>2, <2>3, <2>4 DEF q
  <1>5. ASSUME NEW x \in 0..(total - 1), NEW b \in 0..(L - 1), b * tile <= x, x < b * tile + Long(b)
        PROVE  b = x \div tile
    <2>1. Long(b) \in 1..tile /\ b * tile \in Nat
      BY <1>2
    <2>2. x < b * tile + tile
      BY <1>5, <2>1
    <2> QED
      BY <1>3, <1>5, <2>2
  <1>6. \A b \in 0..(L - 1) : Long(b) \in 1..tile /\ b * tile \in Nat /\ b * tile + Long(b) <= total
    BY <1>2
  <1> HIDE DEF Long
  <1>7. \A x \in 0..(total - 1) :
          /\ x \div tile \in 0..(L - 1)
          /\ (x \div tile) * tile <= x /\ x < (x \div tile) * tile + Long(x \div tile)
          /\ \A b \in 0..(L - 1) : b * tile <= x /\ x < b * tile + Long(b) => b = x \div tile
    BY <1>4, <1>5
  <1> QED
    BY <1>1, <1>6, <1>7 DEF L, Long

\* Rounding up to whole multiples: not less, and not more than any multiple that
\* is not less.
LEMMA Rounded ==
    ASSUME NEW x \in Nat, NEW a \in Nat \ {0}
    PROVE  /\ RoundUp(x, a) \in Nat /\ x <= RoundUp(x, a) /\ RoundUp(x, a) < x + a
           /\ \E q \in Nat : RoundUp(x, a) = a * q
           /\ \A y \in Nat : x <= a * y => RoundUp(x, a) <= a * y
  <1> DEFINE q == CeilDiv(x, a)
             r == (x + a - 1) % a
  <1>1. x + a - 1 \in Nat
    OBVIOUS
  <1>2. q \in Nat /\ r \in 0..(a - 1) /\ x + a - 1 = a * q + r
    BY <1>1, DivMod DEF CeilDiv
  <1>3. RoundUp(x, a) = q * a
    BY DEF RoundUp
  <1> HIDE DEF q, r
  <1>4. a * q \in Nat /\ q * a = a * q
    BY <1>2
  <1>5. x <= a * q /\ a * q < x + a
    BY <1>2, <1>4
  <1>6. ASSUME NEW y \in Nat, x <= a * y PROVE a * q <= a * y
    <2> SUFFICES ASSUME y + 1 <= q PROVE FALSE
      BY <1>2
    <2>1. a * (y + 1) <= a * q
      BY <1>2
    <2>2. a * (y + 1) = a * y + a /\ a * y \in Nat
      OBVIOUS
    <2> QED
      BY <1>4, <1>5, <1>6, <2>1, <2>2
  <1> QED
    BY <1>2, <1>3, <1>4, <1>5, <1>6
-----------------------------------------------------------------------------
(* The quantities of a problem. *)

\* Every quantity of a problem is positive, and no slice of k is empty.
LEMMA Positive ==
    ASSUME Assumptions, problem \in Problems
    PROVE  /\ problem.m \in Nat \ {0} /\ problem.n \in Nat \ {0} /\ problem.k \in Nat \ {0}
           /\ problem.tileM \in Nat \ {0} /\ problem.tileN \in Nat \ {0} /\ problem.tileK \in Nat \ {0}
           /\ problem.offset \in Nat \ {0} /\ problem.coreNum \in Nat \ {0}
           /\ problem.splitkFactor \in Nat \ {0} /\ problem.stages \in Nat \ {0}
           /\ problem.direction \in {0, 1}
           /\ mLoops \in Nat \ {0} /\ nLoops \in Nat \ {0} /\ kLoops \in Nat \ {0}
           /\ problem.splitkFactor <= kLoops
           /\ elementCount \in Nat \ {0} /\ aivNum \in Nat \ {0} /\ coreLoops \in Nat \ {0}
           /\ SubBlockNum \in Nat \ {0} /\ VectorBlock \in Nat \ {0} /\ Align \in Nat \ {0} /\ Blk \in Nat \ {0}
           /\ ComputeLength \in Nat
  <1>1. /\ problem.m \in Nat \ {0} /\ problem.n \in Nat \ {0} /\ problem.k \in Nat \ {0}
        /\ problem.tileM \in Nat \ {0} /\ problem.tileN \in Nat \ {0} /\ problem.tileK \in Nat \ {0}
        /\ problem.offset \in Nat \ {0} /\ problem.coreNum \in Nat \ {0}
        /\ problem.splitkFactor \in Nat \ {0} /\ problem.stages \in Nat \ {0}
        /\ problem.direction \in {0, 1}
        /\ problem.splitkFactor <= kLoops
        /\ SubBlockNum \in Nat \ {0} /\ VectorBlock \in Nat \ {0} /\ Align \in Nat \ {0} /\ Blk \in Nat \ {0}
        /\ ComputeLength \in Nat
    BY DEF Assumptions, kLoops
  <1>2. mLoops \in Nat \ {0}
    BY <1>1, Cut DEF mLoops
  <1>3. nLoops \in Nat \ {0}
    BY <1>1, Cut DEF nLoops
  <1>4. kLoops \in Nat \ {0}
    BY <1>1, Cut DEF kLoops
  <1>5. elementCount \in Nat \ {0}
    BY <1>1 DEF elementCount
  <1>6. aivNum \in Nat \ {0}
    BY <1>1 DEF aivNum
  <1>7. coreLoops \in Nat \ {0}
    <2>1. mLoops * nLoops \in Nat \ {0}
      BY <1>2, <1>3
    <2> QED
      BY <1>1, <2>1 DEF coreLoops
  <1> QED
    BY <1>1, <1>2, <1>3, <1>4, <1>5, <1>6, <1>7

\* The piece of a position.
LEMMA PieceOf ==
    ASSUME NEW total \in Nat \ {0}, NEW tile \in Nat \ {0}, NEW x \in 0..(total - 1)
    PROVE  LET L == CeilDiv(total, tile)
               b == x \div tile
           IN  /\ b \in 0..(L - 1) /\ b * tile \in Nat /\ ActualLength(b, L, total, tile) \in 1..tile
               /\ b * tile <= x /\ x < b * tile + ActualLength(b, L, total, tile)
  <1> DEFINE L == CeilDiv(total, tile)
             Long(b) == ActualLength(b, L, total, tile)
  <1>1. /\ \A b \in 0..(L - 1) : Long(b) \in 1..tile /\ b * tile \in Nat
        /\ \A y \in 0..(total - 1) :
             /\ y \div tile \in 0..(L - 1)
             /\ (y \div tile) * tile <= y /\ y < (y \div tile) * tile + Long(y \div tile)
    BY Cut
  <1> HIDE DEF L, Long
  <1> QED
    BY <1>1 DEF L, Long
-----------------------------------------------------------------------------
(* The tasks: every element of C in every slice, and the slices divide k. *)

\* The k of a slice.
SliceK(slice) ==
    LET kIdx == GetKIdxBySplitkSliceIdx(slice, kLoops, problem.splitkFactor)
        kActual == SplitkActualLength(slice, kIdx, kLoops, problem.splitkFactor, problem.k, problem.tileK)
    IN  kIdx * problem.tileK .. kIdx * problem.tileK + kActual - 1

\* A task sums over the k of its slice.
LEMMA KOfIsSliceK ==
    ASSUME NEW task PROVE KOf(task) = SliceK(SliceOf(task))
  BY DEF KOf, SliceK

\* A task is of one of the slices.
LEMMA SliceOfTask ==
    ASSUME Assumptions, problem \in Problems, NEW task \in Nat
    PROVE  SliceOf(task) \in Slice
  <1> DEFINE mn == mLoops * nLoops
             f == problem.splitkFactor
             r == task % (mn * f)
  <1>1. mn \in Nat \ {0} /\ f \in Nat \ {0}
    BY Positive
  <1>2. SliceOf(task) = r \div mn
    BY DEF SliceOf, GetSplitkSliceIdx
  <1>3. Slice = 0..(f - 1)
    BY DEF Slice
  <1> HIDE DEF mn, f
  <1>4. mn * f \in Nat \ {0}
    BY <1>1
  <1>5. r \in 0..(mn * f - 1) /\ r \in Nat
    BY <1>4, DivMod
  <1> HIDE DEF r
  <1> DEFINE q == r \div mn
  <1>6. q \in Nat /\ r % mn \in 0..(mn - 1) /\ r = mn * q + (r % mn)
    BY <1>1, <1>4, <1>5, DivMod
  <1> HIDE DEF q
  <1>7. q < f
    <2> SUFFICES ASSUME f <= q PROVE FALSE
      BY <1>1, <1>6
    <2>1. mn * f <= mn * q
      BY <1>1, <1>6
    <2> QED
      BY <1>1, <1>4, <1>5, <1>6, <2>1
  <1> QED
    BY <1>1, <1>2, <1>3, <1>6, <1>7 DEF q

\* Every element is in the block of a task of every slice.
LEMMA TasksCover ==
    ASSUME Assumptions, problem \in Problems, NEW slice \in Slice, NEW e \in Element
    PROVE  \E task \in 0..(coreLoops - 1) : SliceOf(task) = slice /\ Covers(task, e)
  <1> DEFINE row == e \div problem.n
             column == e % problem.n
             m == row \div problem.tileM
             n == column \div problem.tileN
  <1>1. /\ problem.m \in Nat \ {0} /\ problem.n \in Nat \ {0}
        /\ problem.tileM \in Nat \ {0} /\ problem.tileN \in Nat \ {0}
        /\ problem.offset \in Nat \ {0} /\ problem.splitkFactor \in Nat \ {0}
        /\ problem.direction \in {0, 1} /\ mLoops \in Nat \ {0} /\ nLoops \in Nat \ {0}
    BY Positive
  <1>2. e \in 0..(problem.m * problem.n - 1) /\ problem.m * problem.n \in Nat /\ e \in Nat
    BY <1>1 DEF Element, elementCount
  <1>3. row \in Nat /\ column \in 0..(problem.n - 1) /\ e = problem.n * row + column
    BY <1>1, <1>2, DivMod
  <1> HIDE DEF row, column
  <1>4. row \in 0..(problem.m - 1)
    <2> SUFFICES ASSUME problem.m <= row PROVE FALSE
      BY <1>1, <1>3
    <2>1. problem.n * problem.m <= problem.n * row
      BY <1>1, <1>3
    <2>2. problem.n * problem.m = problem.m * problem.n
      BY <1>1
    <2> QED
      BY <1>1, <1>2, <1>3, <2>1, <2>2
  <1>5. /\ m \in 0..(mLoops - 1)
        /\ m * problem.tileM <= row /\ row < m * problem.tileM + ActualLength(m, mLoops, problem.m, problem.tileM)
        /\ m * problem.tileM \in Nat /\ ActualLength(m, mLoops, problem.m, problem.tileM) \in Nat
    <2> DEFINE total == problem.m
               tile == problem.tileM
    <2>1. total \in Nat \ {0} /\ tile \in Nat \ {0} /\ row \in 0..(total - 1) /\ mLoops = CeilDiv(total, tile)
      BY <1>1, <1>4 DEF mLoops
    <2> HIDE DEF total, tile
    <2>2. /\ row \div tile \in 0..(mLoops - 1)
          /\ (row \div tile) * tile \in Nat /\ ActualLength(row \div tile, mLoops, total, tile) \in 1..tile
          /\ (row \div tile) * tile <= row
          /\ row < (row \div tile) * tile + ActualLength(row \div tile, mLoops, total, tile)
      BY <2>1, PieceOf
    <2> QED
      BY <2>1, <2>2 DEF total, tile
  <1>6. /\ n \in 0..(nLoops - 1)
        /\ n * problem.tileN <= column
        /\ column < n * problem.tileN + ActualLength(n, nLoops, problem.n, problem.tileN)
        /\ n * problem.tileN \in Nat /\ ActualLength(n, nLoops, problem.n, problem.tileN) \in Nat
    <2> DEFINE total == problem.n
               tile == problem.tileN
    <2>1. total \in Nat \ {0} /\ tile \in Nat \ {0} /\ column \in 0..(total - 1) /\ nLoops = CeilDiv(total, tile)
      BY <1>1, <1>3 DEF nLoops
    <2> HIDE DEF total, tile
    <2>2. /\ column \div tile \in 0..(nLoops - 1)
          /\ (column \div tile) * tile \in Nat /\ ActualLength(column \div tile, nLoops, total, tile) \in 1..tile
          /\ (column \div tile) * tile <= column
          /\ column < (column \div tile) * tile + ActualLength(column \div tile, nLoops, total, tile)
      BY <2>1, PieceOf
    <2> QED
      BY <2>1, <2>2 DEF total, tile
  <1> HIDE DEF m, n
  <1>7. slice \in 0..(problem.splitkFactor - 1)
    BY DEF Slice
  <1>8. PICK task \in 0..(mLoops * nLoops * problem.splitkFactor - 1) :
          IsTask(task, m, n, slice, mLoops, nLoops, problem.splitkFactor, problem.offset, problem.direction)
    <2>1. m \in 0..(mLoops - 1) /\ n \in 0..(nLoops - 1)
      BY <1>5, <1>6
    <2> DEFINE f == problem.splitkFactor
               o == problem.offset
               d == problem.direction
    <2>2. f \in Nat \ {0} /\ o \in Nat \ {0} /\ d \in {0, 1} /\ slice \in 0..(f - 1)
      BY <1>1, <1>7
    <2>3. mLoops \in Nat \ {0} /\ nLoops \in Nat \ {0}
      BY <1>1
    <2> HIDE DEF f, o, d
    <2>4. \E task \in 0..(mLoops * nLoops * f - 1) : IsTask(task, m, n, slice, mLoops, nLoops, f, o, d)
      <3>1. OneTask(m, n, slice, mLoops, nLoops, f, o, d)
        BY <2>1, <2>2, <2>3, EveryBlockOnce
      <3> QED
        BY <3>1 DEF OneTask
    <2> QED
      BY <2>4 DEF f, o, d
  <1>9. task \in 0..(coreLoops - 1) /\ SliceOf(task) = slice /\ CoordOf(task) = [m |-> m, n |-> n]
    BY <1>8 DEF IsTask, coreLoops, SliceOf, CoordOf
  <1>10. Covers(task, e)
    <2>1. CoordOf(task).m = m /\ CoordOf(task).n = n
      BY <1>9
    <2>2. 0 <= row - m * problem.tileM /\ row - m * problem.tileM < ActualLength(m, mLoops, problem.m, problem.tileM)
      BY <1>4, <1>5
    <2>3. /\ 0 <= column - n * problem.tileN
          /\ column - n * problem.tileN < ActualLength(n, nLoops, problem.n, problem.tileN)
      BY <1>1, <1>3, <1>6
    <2> QED
      BY <2>1, <2>2, <2>3 DEF Covers, row, column
  <1> QED
    BY <1>9, <1>10

\* Every k is in exactly one slice.
LEMMA KInOneSlice ==
    ASSUME Assumptions, problem \in Problems, NEW k \in 0..(problem.k - 1)
    PROVE  \E s \in Slice : k \in SliceK(s) /\ \A o \in Slice : k \in SliceK(o) => o = s
  <1> DEFINE tile == problem.tileK
             f == problem.splitkFactor
             K == problem.k
             L == kLoops
             t == k \div tile
             First(s) == GetKIdxBySplitkSliceIdx(s, L, f)
             Tiles(s) == SplitkSliceTiles(s, L, f)
  <1>1. tile \in Nat \ {0} /\ f \in Nat \ {0} /\ K \in Nat \ {0} /\ L \in Nat \ {0}
    BY Positive
  <1>2. Slice = 0..(f - 1)
    BY DEF Slice
  <1>3. t \in 0..(L - 1)
    BY <1>1, Cut DEF kLoops
  <1>4. /\ \A s \in 0..(f - 1) : First(s) \in Nat /\ Tiles(s) \in Nat
        /\ \A s \in 0..(f - 1) : s = f - 1 => First(s) + Tiles(s) = L
        /\ \A s \in 0..(f - 1) : s # f - 1 => First(s) + Tiles(s) <= L
    <2> SUFFICES ASSUME NEW s \in 0..(f - 1)
                 PROVE  /\ First(s) \in Nat /\ Tiles(s) \in Nat
                        /\ s = f - 1 => First(s) + Tiles(s) = L
                        /\ First(s) + Tiles(s) <= L
      OBVIOUS
    <2>1. PICK q \in Nat, r \in 0..(f - 1) :
             /\ L = f * q + r
             /\ \A x \in 0..f :
                   /\ First(x) = IF x < r THEN (q + 1) * x ELSE x * q + r
                   /\ Tiles(x) = IF x < r THEN q + 1 ELSE q
      BY <1>1, SliceCases
    <2>2. First(s) = (IF s < r THEN (q + 1) * s ELSE s * q + r) /\ Tiles(s) = IF s < r THEN q + 1 ELSE q
      BY <1>1, <2>1
    <2> HIDE DEF First, Tiles, L, f
    <2>3. (s + 1) * q <= f * q /\ (s + 1) * q = s * q + q /\ (q + 1) * s = s * q + s
          /\ s * q \in Nat /\ f * q \in Nat
      BY <1>1
    <2>4. s = f - 1 => (s + 1) * q = f * q
      BY <1>1
    <2>5. First(s) + Tiles(s) = (s + 1) * q + IF s < r THEN s + 1 ELSE r
      BY <1>1, <2>2, <2>3
    <2>6. First(s) \in Nat /\ Tiles(s) \in Nat
      BY <1>1, <2>2, <2>3
    <2> QED
      <3>1. f \in Nat /\ L = f * q + r
        BY <1>1, <2>1
      <3>2. s < f /\ s \in Nat /\ r <= f - 1 /\ r \in Nat
        BY <1>1
      <3>3. CASE s = f - 1
        <4>1. ~(s < r)
          BY <3>2, <3>3
        <4> QED
          BY <2>3, <2>4, <2>5, <2>6, <3>1, <3>2, <3>3, <4>1
      <3>4. CASE s # f - 1
        BY <2>3, <2>5, <2>6, <3>1, <3>2, <3>4
      <3> QED
        BY <3>3, <3>4
  <1>5. /\ t * tile \in Nat /\ t * tile <= k /\ k < t * tile + tile
    <2>1. k \in Nat /\ k = tile * t + (k % tile) /\ k % tile \in 0..(tile - 1) /\ t \in Nat
      <3>1. k \in Nat
        BY <1>1
      <3> QED
        BY <1>1, <3>1, DivMod
    <2> HIDE DEF t, tile
    <2>2. t * tile = tile * t /\ t * tile \in Nat
      BY <1>1, <2>1
    <2> QED
      BY <1>1, <2>1, <2>2
  \* Tile t is one of slice s exactly when k is one of its k.
  <1>6. ASSUME NEW s \in 0..(f - 1)
        PROVE  k \in SliceK(s) <=> First(s) <= t /\ t < First(s) + Tiles(s)
    <2>1. SliceK(s) = First(s) * tile .. First(s) * tile
                          + (IF s = f - 1 THEN K - First(s) * tile ELSE Tiles(s) * tile) - 1
      BY DEF SliceK, SplitkActualLength
    <2>2. First(s) \in Nat /\ Tiles(s) \in Nat /\ (s = f - 1 => First(s) + Tiles(s) = L)
      BY <1>4
    <2> HIDE DEF First, Tiles, L, f, K, t, tile
    <2> DEFINE A == First(s)
               B == First(s) + Tiles(s)
    <2>3. A \in Nat /\ B \in Nat /\ B * tile = A * tile + Tiles(s) * tile
          /\ A * tile \in Nat /\ B * tile \in Nat /\ Tiles(s) * tile \in Nat
      BY <1>1, <2>2
    <2>4. s = f - 1 => t < B
      BY <1>3, <2>2
    <2>5. SliceK(s) = A * tile .. (IF s = f - 1 THEN K - 1 ELSE B * tile - 1)
      BY <1>1, <2>1, <2>3
    <2> HIDE DEF A, B
    <2>6. A * tile <= k <=> A <= t
      <3>1. A <= t => A * tile <= t * tile
        BY <1>1, <1>3, <2>3
      <3>2. t + 1 <= A => (t + 1) * tile <= A * tile
        BY <1>1, <1>3, <2>3
      <3>3. (t + 1) * tile = t * tile + tile
        BY <1>1, <1>3
      <3> QED
        BY <1>1, <1>3, <1>5, <2>3, <3>1, <3>2, <3>3
    <2>7. k < B * tile <=> t < B
      <3>1. B <= t => B * tile <= t * tile
        BY <1>1, <1>3, <2>3
      <3>2. t + 1 <= B => (t + 1) * tile <= B * tile
        BY <1>1, <1>3, <2>3
      <3>3. (t + 1) * tile = t * tile + tile
        BY <1>1, <1>3
      <3> QED
        BY <1>1, <1>3, <1>5, <2>3, <3>1, <3>2, <3>3
    <2>8. k \in 0..(K - 1) /\ k \in Nat
      BY DEF K
    <2>9. k \in SliceK(s) <=> A <= t /\ t < B
      <3>1. CASE s = f - 1
        <4>1. SliceK(s) = A * tile .. K - 1
          BY <2>5, <3>1
        <4> QED
          BY <1>1, <2>3, <2>4, <2>6, <2>8, <3>1, <4>1
      <3>2. CASE s # f - 1
        <4>1. SliceK(s) = A * tile .. B * tile - 1
          BY <2>5, <3>2
        <4> QED
          BY <1>1, <2>3, <2>6, <2>7, <2>8, <4>1
      <3> QED
        BY <3>1, <3>2
    <2> QED
      BY <2>9 DEF A, B
  <1>7. PICK s \in 0..(f - 1) :
          /\ First(s) <= t /\ t < First(s) + Tiles(s)
          /\ \A o \in 0..(f - 1) : First(o) <= t /\ t < First(o) + Tiles(o) => o = s
    <2> HIDE DEF t, f, L
    <2> QED
      BY <1>1, <1>3, SliceOfTile
  <1> QED
    BY <1>2, <1>6, <1>7
-----------------------------------------------------------------------------
(* How the reduction divides the elements, and where the rows lie. *)

\* The tiles are of whole vector blocks, and the rows of all slices fit.
LEMMA TileSize ==
    ASSUME Assumptions, problem \in Problems
    PROVE  /\ taskPerAiv \in Nat \ {0}
           /\ \E q \in Nat : taskPerAiv = Align * q
           /\ problem.splitkFactor * taskPerAiv <= ComputeLength
  <1> DEFINE V == VectorBlock
             F == problem.splitkFactor
             c == ComputeLength \div F
             x == elementCount \div aivNum
             most == c \div V
             even == CeilDiv(x, V)
  <1>1. /\ V \in Nat \ {0} /\ F \in Nat \ {0} /\ Align \in Nat \ {0} /\ ComputeLength \in Nat
        /\ elementCount \in Nat \ {0} /\ aivNum \in Nat \ {0}
    BY Positive
  <1>2. c >= V /\ V % Align = 0
    BY DEF Assumptions
  <1>3. c \in Nat /\ F * c <= ComputeLength
    <2>1. c \in Nat /\ ComputeLength % F \in 0..(F - 1) /\ ComputeLength = F * c + (ComputeLength % F)
      BY <1>1, DivMod
    <2> HIDE DEF F, c
    <2> QED
      BY <1>1, <2>1
  <1>4. x \in Nat
    BY <1>1, DivMod
  <1>5. taskPerAivMax = most * V
    BY DEF taskPerAivMax
  <1>6. taskPerAiv = Lower(IF even * V = 0 THEN V ELSE even * V, most * V)
    BY <1>5 DEF taskPerAiv, RoundUp
  <1> HIDE DEF c, x, F
  <1>7. most \in Nat \ {0} /\ V * most <= c
    <2>1. most \in Nat /\ c % V \in 0..(V - 1) /\ c = V * most + (c % V)
      BY <1>1, <1>3, DivMod
    <2> HIDE DEF V, most
    <2>2. most # 0
      BY <1>1, <1>2, <2>1
    <2> QED
      BY <1>1, <2>1, <2>2
  <1>8. even \in Nat
    <2>1. x + V - 1 \in Nat
      BY <1>1, <1>4
    <2> QED
      BY <1>1, <2>1, DivMod DEF CeilDiv
  <1> HIDE DEF V, most, even
  <1>9. PICK q \in Nat \ {0} : taskPerAiv = V * q /\ q <= most
    <2>1. CASE taskPerAiv = most * V
      <3>1. taskPerAiv = V * most
        BY <1>1, <1>7, <2>1
      <3> QED
        BY <1>7, <3>1
    <2>2. CASE taskPerAiv # most * V /\ even * V = 0
      <3>1. taskPerAiv = V * 1
        BY <1>1, <1>6, <2>2 DEF Lower
      <3> QED
        BY <1>7, <3>1
    <2>3. CASE taskPerAiv # most * V /\ even * V # 0
      <3>1. taskPerAiv = even * V /\ even * V < most * V
        BY <1>6, <2>3 DEF Lower
      <3>2. even # 0
        BY <1>1, <2>3
      <3>3. even <= most
        <4> SUFFICES ASSUME most <= even PROVE FALSE
          BY <1>7, <1>8
        <4>1. most * V <= even * V
          BY <1>1, <1>7, <1>8
        <4>2. most * V \in Nat /\ even * V \in Nat
          BY <1>1, <1>7, <1>8
        <4> QED
          BY <3>1, <4>1, <4>2
      <3>4. taskPerAiv = V * even
        BY <1>1, <1>8, <3>1
      <3> QED
        BY <1>8, <3>2, <3>3, <3>4
    <2> QED
      BY <2>1, <2>2, <2>3
  <1>10. taskPerAiv \in Nat \ {0}
    BY <1>1, <1>9
  <1>11. \E d \in Nat : taskPerAiv = Align * d
    <2> DEFINE v == V \div Align
    <2>1. v \in Nat /\ V = Align * v
      BY <1>1, <1>2, DivMod
    <2> HIDE DEF v
    <2>2. v * q \in Nat /\ taskPerAiv = Align * (v * q)
      BY <1>1, <1>9, <2>1
    <2> QED
      BY <2>2
  <1>12. F * taskPerAiv <= ComputeLength
    <2>1. V * q <= V * most
      BY <1>1, <1>7, <1>9
    <2>2. taskPerAiv <= c
      BY <1>1, <1>3, <1>7, <1>9, <1>10, <2>1
    <2>3. F * taskPerAiv <= F * c
      BY <1>1, <1>3, <1>10, <2>2
    <2>4. F * taskPerAiv \in Nat /\ F * c \in Nat
      BY <1>1, <1>3, <1>10
    <2> QED
      BY <1>1, <1>3, <2>3, <2>4
  <1> QED
    BY <1>10, <1>11, <1>12 DEF F

\* Every element is in exactly one tile.
LEMMA ElementInOneTile ==
    ASSUME Assumptions, problem \in Problems
    PROVE  /\ loops \in Nat \ {0}
           /\ \A t \in 0..(loops - 1) :
                /\ TileLen(t) \in 1..taskPerAiv
                /\ Elements(t) \subseteq Element /\ Elements(t) # {}
           /\ \A e \in Element :
                /\ e \div taskPerAiv \in 0..(loops - 1) /\ e \in Elements(e \div taskPerAiv)
                /\ \A t \in 0..(loops - 1) : e \in Elements(t) => t = e \div taskPerAiv
  <1> DEFINE total == elementCount
             tile == taskPerAiv
             L == loops
             Long(b) == ActualLength(b, L, total, tile)
  <1>1. total \in Nat \ {0} /\ tile \in Nat \ {0}
    BY Positive, TileSize
  <1>2. /\ \A t : TileLen(t) = Long(t)
        /\ \A t : Elements(t) = t * tile .. t * tile + Long(t) - 1
        /\ Element = 0..(total - 1)
        /\ L = CeilDiv(total, tile)
    BY DEF TileLen, ActualLength, Elements, Element, loops
  <1> HIDE DEF L, total, tile
  <1>3. /\ L \in Nat \ {0}
        /\ \A b \in 0..(L - 1) : Long(b) \in 1..tile /\ b * tile \in Nat /\ b * tile + Long(b) <= total
        /\ \A x \in 0..(total - 1) :
             /\ x \div tile \in 0..(L - 1)
             /\ (x \div tile) * tile <= x /\ x < (x \div tile) * tile + Long(x \div tile)
             /\ \A b \in 0..(L - 1) : b * tile <= x /\ x < b * tile + Long(b) => b = x \div tile
    BY <1>1, <1>2, Cut
  <1> HIDE DEF Long
  <1>4. ASSUME NEW t \in 0..(L - 1)
        PROVE  TileLen(t) \in 1..tile /\ Elements(t) \subseteq Element /\ Elements(t) # {}
    <2> DEFINE at0 == t * tile
               len == Long(t)
    <2>1. at0 \in Nat /\ len \in 1..tile /\ at0 + len <= total
      BY <1>3
    <2>2. Elements(t) = at0 .. at0 + len - 1 /\ TileLen(t) = len
      BY <1>2
    <2> HIDE DEF at0, len
    <2>3. at0 \in Elements(t)
      BY <1>1, <2>1, <2>2
    <2>4. Elements(t) \subseteq Element
      BY <1>1, <1>2, <2>1, <2>2
    <2> QED
      BY <2>1, <2>2, <2>3, <2>4
  <1>5. ASSUME NEW e \in Element
        PROVE  /\ e \div tile \in 0..(L - 1) /\ e \in Elements(e \div tile)
               /\ \A t \in 0..(L - 1) : e \in Elements(t) => t = e \div tile
    <2> DEFINE q == e \div tile
    <2>1. e \in 0..(total - 1) /\ e \in Int
      BY <1>1, <1>2
    <2>2. /\ q \in 0..(L - 1) /\ q * tile <= e /\ e < q * tile + Long(q)
          /\ \A b \in 0..(L - 1) : b * tile <= e /\ e < b * tile + Long(b) => b = q
      BY <1>3, <2>1
    <2> HIDE DEF q
    <2>3. ASSUME NEW t \in 0..(L - 1)
          PROVE  e \in Elements(t) <=> t * tile <= e /\ e < t * tile + Long(t)
      <3> DEFINE at0 == t * tile
                 len == Long(t)
      <3>1. at0 \in Nat /\ len \in 1..tile /\ Elements(t) = at0 .. at0 + len - 1
        BY <1>2, <1>3
      <3> HIDE DEF at0, len
      <3>2. e \in Elements(t) <=> at0 <= e /\ e < at0 + len
        BY <1>1, <2>1, <3>1
      <3> QED
        BY <3>2 DEF at0, len
    <2> QED
      BY <2>2, <2>3 DEF q
  <1> QED
    BY <1>3, <1>4, <1>5 DEF L, tile

\* The rows lie where the addition expects them, each in its own place, and
\* there is room for the row of a whole tile.
LEMMA RowsLie ==
    ASSUME Assumptions, problem \in Problems, NEW t \in 0..(loops - 1)
    PROVE  LET len == TileLen(t) IN
           /\ \A s \in Slice :
                /\ RowStart(s, len) = AddOffset(s, len)
                /\ AddOffset(s, len) \in Nat
                /\ AddOffset(s, len) + RoundUp(taskPerAiv, Align) <= ComputeLength
           /\ \A s, o \in Slice : AddOffset(s, len) = AddOffset(o, len) => s = o
  <1> DEFINE len == TileLen(t)
             A == RoundUp(len, Align)
             B == RoundUp(len, Blk)
             F == problem.splitkFactor
  <1>1. /\ Align \in Nat \ {0} /\ Blk \in Nat \ {0} /\ F \in Nat \ {0} /\ ComputeLength \in Nat
        /\ taskPerAiv \in Nat \ {0} /\ len \in 1..taskPerAiv /\ F * taskPerAiv <= ComputeLength
    BY Positive, TileSize, ElementInOneTile
  <1>2. Slice = 0..(F - 1)
    BY DEF Slice
  <1>3. PICK per \in Nat : taskPerAiv = Align * per
    BY TileSize
  <1> DEFINE c == Align \div Blk
  <1>4. c \in Nat /\ Align = Blk * c
    <2>1. Align % Blk = 0
      BY DEF Assumptions
    <2>2. c \in Nat /\ Align = Blk * c + (Align % Blk)
      BY <1>1, DivMod
    <2> HIDE DEF c
    <2> QED
      BY <1>1, <2>1, <2>2
  <1> HIDE DEF len, F, c
  <1>5. len \in Nat
    BY <1>1
  <1>6. /\ A \in Nat /\ len <= A /\ A <= taskPerAiv
        /\ B \in Nat /\ len <= B /\ B < len + Blk
    <2>1. A \in Nat /\ len <= A /\ \A y \in Nat : len <= Align * y => A <= Align * y
      BY <1>1, <1>5, Rounded
    <2>2. B \in Nat /\ len <= B /\ B < len + Blk
      BY <1>1, <1>5, Rounded
    <2>3. A <= taskPerAiv
      BY <1>1, <1>3, <2>1
    <2> QED
      BY <2>1, <2>2, <2>3
  <1>7. PICK a \in Nat : A = Align * a
    BY <1>1, <1>5, Rounded
  <1>8. PICK b \in Nat : B = Blk * b
    BY <1>1, <1>5, Rounded
  <1>9. B <= A
    <2>1. \A y \in Nat : len <= Blk * y => B <= Blk * y
      BY <1>1, <1>5, Rounded
    <2>2. c * a \in Nat /\ A = Blk * (c * a)
      BY <1>1, <1>4, <1>7
    <2> QED
      BY <1>6, <2>1, <2>2
  <1>10. RoundUp(taskPerAiv, Align) = taskPerAiv
    <2>1. /\ RoundUp(taskPerAiv, Align) \in Nat /\ taskPerAiv <= RoundUp(taskPerAiv, Align)
          /\ \A y \in Nat : taskPerAiv <= Align * y => RoundUp(taskPerAiv, Align) <= Align * y
      BY <1>1, Rounded
    <2>2. RoundUp(taskPerAiv, Align) <= taskPerAiv
      BY <1>1, <1>3, <2>1
    <2> QED
      BY <1>1, <2>1, <2>2
  <1> HIDE DEF A, B
  <1>11. B + ((A - len) \div Blk) * Blk = A
    <2> DEFINE g == c * a - b
    <2>1. c * a \in Nat /\ A = Blk * (c * a)
      BY <1>1, <1>4, <1>7
    <2>2. b <= c * a
      <3> SUFFICES ASSUME c * a + 1 <= b PROVE FALSE
        BY <2>1
      <3>1. Blk * (c * a + 1) <= Blk * b /\ Blk * (c * a + 1) = Blk * (c * a) + Blk
        BY <1>1, <2>1
      <3> QED
        BY <1>1, <1>6, <1>8, <1>9, <2>1, <3>1
    <2>3. g \in Nat /\ Blk * g = A - B /\ g * Blk = A - B
      <3> DEFINE ca == c * a
      <3> HIDE DEF ca
      <3>1. ca \in Nat /\ b <= ca /\ A = Blk * ca
        BY <2>1, <2>2 DEF ca
      <3>2. ca - b \in Nat /\ Blk * (ca - b) = Blk * ca - Blk * b /\ (ca - b) * Blk = Blk * ca - Blk * b
        BY <1>1, <3>1
      <3> QED
        BY <1>8, <3>1, <3>2 DEF ca
    <2> HIDE DEF g
    <2>4. B - len \in 0..(Blk - 1) /\ A - len = Blk * g + (B - len)
      BY <1>1, <1>5, <1>6, <2>3
    <2>5. (Blk * g + (B - len)) \div Blk = g
      BY <1>1, <2>3, <2>4, DivOf
    <2>6. (A - len) \div Blk = g
      BY <2>4, <2>5
    <2> QED
      BY <1>6, <2>3, <2>6
  <1>12. ASSUME NEW s \in Slice
         PROVE  RowStart(s, len) = s * A /\ AddOffset(s, len) = A * s
    BY <1>11 DEF RowStart, AddOffset, A, B
  <1>13. ASSUME NEW s \in Slice
         PROVE  /\ RowStart(s, len) = AddOffset(s, len) /\ AddOffset(s, len) \in Nat
                /\ AddOffset(s, len) + RoundUp(taskPerAiv, Align) <= ComputeLength
    <2>1. s \in Nat /\ s + 1 <= F
      BY <1>1, <1>2
    <2>2. s * A = A * s /\ A * s \in Nat
      BY <1>6, <2>1
    <2>3. A * s <= taskPerAiv * s
      BY <1>1, <1>6, <2>1
    <2>4. (s + 1) * taskPerAiv <= F * taskPerAiv /\ (s + 1) * taskPerAiv = taskPerAiv * s + taskPerAiv
      BY <1>1, <2>1
    <2>5. F * taskPerAiv \in Nat /\ taskPerAiv * s \in Nat
      BY <1>1, <2>1
    <2>6. A * s + taskPerAiv <= ComputeLength
      BY <1>1, <2>2, <2>3, <2>4, <2>5
    <2> QED
      BY <1>10, <1>12, <2>2, <2>6
  <1>14. ASSUME NEW s \in Slice, NEW o \in Slice, AddOffset(s, len) = AddOffset(o, len)
         PROVE  s = o
    <2>1. s \in Nat /\ o \in Nat
      BY <1>1, <1>2
    <2>2. A * s = A * o
      BY <1>12, <1>14
    <2>3. A \in Nat \ {0}
      BY <1>1, <1>6
    <2>4. s < o => A * (s + 1) <= A * o
      BY <2>1, <2>3
    <2>5. o < s => A * (o + 1) <= A * s
      BY <2>1, <2>3
    <2>6. A * (s + 1) = A * s + A /\ A * (o + 1) = A * o + A /\ A * s \in Nat /\ A * o \in Nat
      BY <2>1, <2>3
    <2> QED
      BY <2>1, <2>2, <2>3, <2>4, <2>5, <2>6
  <1> QED
    BY <1>13, <1>14 DEF len
-----------------------------------------------------------------------------
(* Rows and sums. *)

\* The row of slice s of a tile when the workspace is whole, and the sum of the
\* rows.
Row(t, s) == [tile |-> t, slice |-> s, values |-> {SliceK(s)}]
SumOf(t) == {Row(t, s) : s \in Slice}

\* What a buffer holds when the rows of tile t are loaded.
LoadedRows(t, contents) ==
    \A s \in Slice : /\ AddOffset(s, TileLen(t)) \in DOMAIN contents
                     /\ contents[AddOffset(s, TileLen(t))] = {Row(t, s)}

\* Added up, loaded rows are the sum.
LEMMA RowsAddUp ==
    ASSUME NEW t, NEW contents, LoadedRows(t, contents)
    PROVE  UNION {Begins(contents, AddOffset(s, TileLen(t))) : s \in Slice} = SumOf(t)
  <1>1. \A s \in Slice : Begins(contents, AddOffset(s, TileLen(t))) = {Row(t, s)}
    BY DEF LoadedRows, Begins
  <1>2. {Begins(contents, AddOffset(s, TileLen(t))) : s \in Slice} = {{Row(t, s)} : s \in Slice}
    BY <1>1
  <1>3. UNION {{Row(t, s)} : s \in Slice} = {Row(t, s) : s \in Slice}
    OBVIOUS
  <1> QED
    BY <1>2, <1>3 DEF SumOf

\* The sum has a row of every slice, and each k once.
LEMMA SumWhole ==
    ASSUME Assumptions, problem \in Problems, NEW t
    PROVE  Whole(t, SumOf(t))
  <1> DEFINE F == problem.splitkFactor
             f == [s \in Slice |-> Row(t, s)]
  <1>1. F \in Nat \ {0} /\ Slice = 0..(F - 1)
    BY Positive DEF Slice
  <1>2. Cardinality(SumOf(t)) = F
    <2>1. IsFiniteSet(Slice) /\ Cardinality(Slice) = F
      <3> HIDE DEF F
      <3>1. 0 \in Int /\ F - 1 \in Int
        BY <1>1
      <3>2. IsFiniteSet(0..(F - 1)) /\ Cardinality(0..(F - 1)) = IF 0 > F - 1 THEN 0 ELSE (F - 1) - 0 + 1
        BY <3>1, FS_Interval
      <3> QED
        BY <1>1, <3>2
    <2>2. f \in Bijection(Slice, SumOf(t))
      <3>1. f \in [Slice -> SumOf(t)]
        BY DEF SumOf
      <3>2. \A s, o \in Slice : f[s] = f[o] => s = o
        BY DEF Row
      <3>3. \A row \in SumOf(t) : \E s \in Slice : f[s] = row
        BY DEF SumOf
      <3> HIDE DEF f
      <3> QED
        <4>1. f \in Injection(Slice, SumOf(t))
          BY <3>1, <3>2 DEF Injection, IsInjective
        <4>2. f \in Surjection(Slice, SumOf(t))
          BY <3>1, <3>3 DEF Surjection
        <4> QED
          BY <4>1, <4>2 DEF Bijection
    <2>3. ExistsBijection(Slice, SumOf(t))
      BY <2>2 DEF ExistsBijection
    <2> HIDE DEF F
    <2> QED
      BY <2>1, <2>3, FS_Bijection
  <1>3. \A row \in SumOf(t) : row.tile = t /\ Cardinality(row.values) = 1
    <2> SUFFICES ASSUME NEW s \in Slice
                 PROVE  Row(t, s).tile = t /\ Cardinality(Row(t, s).values) = 1
      BY DEF SumOf
    <2>1. Row(t, s).tile = t /\ Row(t, s).values = {SliceK(s)}
      BY DEF Row
    <2> QED
      BY <2>1, FS_Singleton
  <1>4. ASSUME NEW k \in 0..(problem.k - 1)
        PROVE  Cardinality({row \in SumOf(t) : k \in UNION row.values}) = 1
    <2>1. PICK s \in Slice : k \in SliceK(s) /\ \A o \in Slice : k \in SliceK(o) => o = s
      BY KInOneSlice
    <2>2. \A o \in Slice : UNION Row(t, o).values = SliceK(o)
      BY DEF Row
    <2>3. {row \in SumOf(t) : k \in UNION row.values} = {Row(t, s)}
      BY <2>1, <2>2 DEF SumOf
    <2> QED
      BY <2>3, FS_Singleton
  <1> QED
    BY <1>2, <1>3, <1>4 DEF Whole
-----------------------------------------------------------------------------
(* The invariant. *)

Kinds == {"MTE3_MTE2", "MTE2_V", "V_MTE3"}
Buffers == 0..(problem.stages - 1)

TypeInv ==
    /\ problem \in Problems
    /\ aicPc \in [Core -> {"loop", "done"}]
    /\ loopIdx \in [Core -> Nat]
    /\ workspace \in [Slice -> [Element -> SUBSET Int]]
    /\ finish \in [AIV -> Int]
    /\ aivPc \in [AIV -> {"wait", "arrive", "barrier", "reduce", "done"}]
    /\ at \in [AIV -> [MTE2 : Nat, V : Nat, MTE3 : Nat]]
    /\ event \in [AIV -> [Kinds -> [Buffers -> Int]]]
    /\ DOMAIN buffer = AIV /\ \A a \in AIV : DOMAIN buffer[a] = Buffers

\* The block of a task is in the workspace.
Stored(task) == \A e \in Element : Covers(task, e) => workspace[SliceOf(task)][e] = KOf(task)

\* A core has stored all its tasks before loopIdx.
StoreInv ==
    \A c \in Core :
        /\ loopIdx[c] % problem.coreNum = c
        /\ \A task \in Nat : task % problem.coreNum = c /\ task < loopIdx[c] /\ task < coreLoops => Stored(task)
        /\ aicPc[c] = "done" => coreLoops <= loopIdx[c]

\* The core of an AIV.
CoreOf(a) == a \div SubBlockNum

\* The flag is set when the core is done and the AIV has not waited yet.
FlagInv ==
    \A a \in AIV :
        /\ finish[a] = IF aicPc[CoreOf(a)] = "done" /\ aivPc[a] = "wait" THEN 1 ELSE 0
        /\ aivPc[a] # "wait" => aicPc[CoreOf(a)] = "done"

\* Nobody is past the barrier while another has not arrived.
BarrierInv ==
    \A a, o \in AIV : aivPc[a] \in {"reduce", "done"} => aivPc[o] \notin {"wait", "arrive"}

\* The three pipes of an AIV: each at most as far as the one before it, MTE2 at
\* most stages ahead of MTE3, and every buffer with one event set, for the pipe
\* that is to take it next.
PipeInv(a) ==
    LET x == at[a].MTE2 y == at[a].V z == at[a].MTE3 IN
    /\ z <= y /\ y <= x /\ x <= z + problem.stages
    /\ \A i \in Nat : i < x => Has(a, i)
    /\ \A i \in z .. z + problem.stages - 1 :
         /\ event[a]["MTE3_MTE2"][BufferOf(i)] = IF aivPc[a] = "reduce" /\ x <= i THEN 1 ELSE 0
         /\ event[a]["MTE2_V"][BufferOf(i)] = IF y <= i /\ i < x THEN 1 ELSE 0
         /\ event[a]["V_MTE3"][BufferOf(i)] = IF i < y THEN 1 ELSE 0
    /\ aivPc[a] \in {"wait", "arrive", "barrier"} => x = 0
    /\ aivPc[a] = "done" => z = x /\ ~Has(a, x)

\* What the buffers hold between two pipes, and what has gone to C.
BufferInv(a) ==
    /\ \A i \in at[a].V .. at[a].MTE2 - 1 : LoadedRows(TileOf(a, i), buffer[a][BufferOf(i)])
    /\ \A i \in at[a].MTE3 .. at[a].V - 1 : buffer[a][BufferOf(i)][0] = SumOf(TileOf(a, i))
    /\ \A i \in Nat : i < at[a].MTE3 => <<a, TileOf(a, i), SumOf(TileOf(a, i))>> \in dst

DstInv ==
    \A d \in dst : \E a \in AIV : \E i \in Nat :
        i < at[a].MTE3 /\ d = <<a, TileOf(a, i), SumOf(TileOf(a, i))>>

FitInv ==
    \A a \in AIV : \A b \in Buffers : \A x \in DOMAIN buffer[a][b] :
        x \in Nat /\ x + RoundUp(taskPerAiv, Align) <= ComputeLength

IInv ==
    /\ TypeInv /\ StoreInv /\ FlagInv /\ BarrierInv /\ DstInv /\ FitInv
    /\ \A a \in AIV : PipeInv(a) /\ BufferInv(a)
-----------------------------------------------------------------------------
(* What a step leaves as it was. *)

\* The quantities of a problem stay as they are.
LEMMA Same ==
    ASSUME problem' = problem
    PROVE  /\ Core' = Core /\ Slice' = Slice /\ Element' = Element /\ AIV' = AIV /\ Buffers' = Buffers
           /\ mLoops' = mLoops /\ nLoops' = nLoops /\ kLoops' = kLoops /\ coreLoops' = coreLoops
           /\ elementCount' = elementCount /\ aivNum' = aivNum /\ taskPerAiv' = taskPerAiv /\ loops' = loops
  <1>1. mLoops' = mLoops /\ nLoops' = nLoops /\ kLoops' = kLoops /\ elementCount' = elementCount /\ aivNum' = aivNum
    BY DEF mLoops, nLoops, kLoops, elementCount, aivNum
  <1>2. taskPerAiv' = taskPerAiv
    BY <1>1 DEF taskPerAiv, taskPerAivMax
  <1>3. Core' = Core /\ Slice' = Slice /\ Element' = Element /\ AIV' = AIV /\ Buffers' = Buffers
    BY <1>1 DEF Core, Slice, Element, AIV, Buffers
  <1> QED
    BY <1>1, <1>2, <1>3 DEF coreLoops, loops

\* So do the tasks ...
LEMMA StoredSame ==
    ASSUME problem' = problem
    PROVE  /\ \A task : SliceOf(task)' = SliceOf(task) /\ KOf(task)' = KOf(task)
           /\ \A task, e : Covers(task, e)' <=> Covers(task, e)
  <1>1. \A task : SliceOf(task)' = SliceOf(task)
    BY Same DEF SliceOf
  <1>2. \A task : KOf(task)' = KOf(task)
    BY Same DEF KOf, SliceOf
  <1>3. \A task, e : Covers(task, e)' <=> Covers(task, e)
    BY Same DEF Covers, CoordOf
  <1> QED
    BY <1>1, <1>2, <1>3

\* ... and what is stored of them.
LEMMA StoreFrame ==
    ASSUME problem' = problem, workspace' = workspace, loopIdx' = loopIdx,
           StoreInv, \A c \in Core : aicPc'[c] = "done" => aicPc[c] = "done" \/ coreLoops <= loopIdx[c]
    PROVE  StoreInv'
  <1>1. /\ \A task : SliceOf(task)' = SliceOf(task) /\ KOf(task)' = KOf(task)
        /\ \A task, e : Covers(task, e)' <=> Covers(task, e)
    BY StoredSame
  <1>2. Core' = Core /\ Element' = Element /\ coreLoops' = coreLoops
    BY Same
  <1>3. ASSUME NEW task, Stored(task) PROVE Stored(task)'
    BY <1>1, <1>2, <1>3 DEF Stored, SliceOf
  <1> QED
    BY <1>2, <1>3 DEF StoreInv

\* An AIV that takes no step of a pipe keeps PipeInv ...
LEMMA PipeFrame ==
    ASSUME problem' = problem, NEW o \in AIV, PipeInv(o), at'[o] = at[o], event'[o] = event[o],
           aivPc'[o] = aivPc[o] \/ {aivPc[o], aivPc'[o]} \subseteq {"wait", "arrive", "barrier"}
    PROVE  PipeInv(o)'
  <1>1. aivNum' = aivNum /\ loops' = loops
    BY Same
  <1>2. \A i : (Has(o, i)' <=> Has(o, i)) /\ BufferOf(i)' = BufferOf(i)
    BY <1>1 DEF Has, TileOf, BufferOf
  <1>3. (aivPc'[o] = "reduce" <=> aivPc[o] = "reduce") /\ (aivPc'[o] = "done" <=> aivPc[o] = "done")
        /\ (aivPc'[o] \in {"wait", "arrive", "barrier"} <=> aivPc[o] \in {"wait", "arrive", "barrier"})
    OBVIOUS
  <1> QED
    BY <1>1, <1>2, <1>3 DEF PipeInv, Has, TileOf, BufferOf

\* Rows and sums are the same.
LEMMA SumsSame ==
    ASSUME problem' = problem
    PROVE  /\ \A a, i : TileOf(a, i)' = TileOf(a, i) /\ BufferOf(i)' = BufferOf(i) /\ (Has(a, i)' <=> Has(a, i))
           /\ \A t : TileLen(t)' = TileLen(t) /\ Elements(t)' = Elements(t) /\ SumOf(t)' = SumOf(t)
           /\ \A t, contents : LoadedRows(t, contents)' <=> LoadedRows(t, contents)
  <1>1. /\ Slice' = Slice /\ kLoops' = kLoops
        /\ elementCount' = elementCount /\ aivNum' = aivNum /\ taskPerAiv' = taskPerAiv /\ loops' = loops
    BY Same
  <1>2. \A t : TileLen(t)' = TileLen(t)
    BY <1>1 DEF TileLen
  <1>3. \A s : SliceK(s)' = SliceK(s)
    BY <1>1 DEF SliceK
  <1>4. \A t : SumOf(t)' = SumOf(t)
    BY <1>1, <1>3 DEF SumOf, Row
  <1>5. \A t, contents : LoadedRows(t, contents)' <=> LoadedRows(t, contents)
    BY <1>1, <1>2, <1>3 DEF LoadedRows, Row
  <1>6. \A t : Elements(t)' = Elements(t)
    BY <1>1, <1>2 DEF Elements
  <1> QED
    BY <1>1, <1>2, <1>4, <1>5, <1>6 DEF TileOf, BufferOf, Has

\* ... and one whose buffers nobody touches, BufferInv.
LEMMA BufferFrame ==
    ASSUME problem' = problem, NEW o \in AIV, BufferInv(o), at'[o] = at[o], buffer'[o] = buffer[o],
           dst \subseteq dst'
    PROVE  BufferInv(o)'
  <1>1. /\ \A i : TileOf(o, i)' = TileOf(o, i) /\ BufferOf(i)' = BufferOf(i)
        /\ \A t : SumOf(t)' = SumOf(t)
        /\ \A t, contents : LoadedRows(t, contents)' <=> LoadedRows(t, contents)
    BY SumsSame
  <1> QED
    BY <1>1 DEF BufferInv
-----------------------------------------------------------------------------
(* Init and the steps of the cores. *)

\* Of stages numbers in a row each has a buffer of its own.
LEMMA Window ==
    ASSUME NEW S \in Nat \ {0}, NEW z \in Nat
    PROVE  /\ \A i \in Nat : i % S \in 0..(S - 1)
           /\ \A i, j \in z .. z + S - 1 : i % S = j % S => i = j
           /\ \A b \in 0..(S - 1) : \E i \in z .. z + S - 1 : i % S = b
           /\ (z + S) % S = z % S
  <1>1. \A i \in Nat : i \div S \in Nat /\ i % S \in 0..(S - 1) /\ i = S * (i \div S) + (i % S)
    BY DivMod
  <1>2. ASSUME NEW i \in z .. z + S - 1, NEW j \in z .. z + S - 1, i % S = j % S, i <= j
        PROVE  i = j
    <2> DEFINE p == i \div S
               q == j \div S
               r == i % S
    <2>1. i \in Nat /\ j \in Nat /\ j < i + S
      BY <1>2
    <2>2. p \in Nat /\ q \in Nat /\ r \in 0..(S - 1) /\ i = S * p + r /\ j = S * q + r
      BY <1>1, <1>2, <2>1
    <2> HIDE DEF p, q, r
    <2>3. ~(p < q)
      <3> SUFFICES ASSUME p + 1 <= q PROVE FALSE
        BY <2>2
      <3>1. S * (p + 1) <= S * q /\ S * (p + 1) = S * p + S
        BY <2>2
      <3> QED
        BY <2>1, <2>2, <3>1
    <2>4. ~(q < p)
      <3> SUFFICES ASSUME q + 1 <= p PROVE FALSE
        BY <2>2
      <3>1. S * (q + 1) <= S * p /\ S * (q + 1) = S * q + S
        BY <2>2
      <3> QED
        BY <1>2, <2>1, <2>2, <3>1
    <2> QED
      BY <2>2, <2>3, <2>4
  <1>3. \A i, j \in z .. z + S - 1 : i % S = j % S => i = j
    <2> SUFFICES ASSUME NEW i \in z .. z + S - 1, NEW j \in z .. z + S - 1, i % S = j % S
                 PROVE  i = j
      OBVIOUS
    <2>1. i <= j \/ j <= i
      OBVIOUS
    <2> QED
      BY <1>2, <2>1
  <1>4. ASSUME NEW b \in 0..(S - 1) PROVE \E i \in z .. z + S - 1 : i % S = b
    <2> DEFINE q == z \div S
               r == z % S
    <2>1. q \in Nat /\ r \in 0..(S - 1) /\ z = S * q + r
      BY <1>1
    <2> HIDE DEF q, r
    <2>2. CASE r <= b
      <3>1. (S * q + b) % S = b
        BY <2>1, DivOf
      <3>2. S * q + b \in z .. z + S - 1
        BY <2>1, <2>2
      <3> QED
        BY <3>1, <3>2
    <2>3. CASE b < r
      <3>1. (S * (q + 1) + b) % S = b
        BY <2>1, DivOf
      <3>2. S * (q + 1) = S * q + S
        BY <2>1
      <3>3. S * (q + 1) + b \in z .. z + S - 1
        BY <2>1, <2>3, <3>2
      <3> QED
        BY <3>1, <3>3
    <2> QED
      BY <2>1, <2>2, <2>3
  <1>5. (z + S) % S = z % S
    <2> DEFINE q == z \div S
               r == z % S
    <2>1. q \in Nat /\ r \in 0..(S - 1) /\ z = S * q + r
      BY <1>1
    <2> HIDE DEF q, r
    <2>2. (S * (q + 1) + r) % S = r /\ S * (q + 1) = S * q + S
      BY <2>1, DivOf
    <2>3. (S * (q + 1) + r) = z + S
      BY <2>1, <2>2
    <2> QED
      BY <2>2, <2>3 DEF r
  <1> QED
    BY <1>1, <1>3, <1>4, <1>5

\* Every AIV is of a core, and every core has one.
LEMMA CoreOfAiv ==
    ASSUME Assumptions, problem \in Problems
    PROVE  /\ \A a \in AIV : CoreOf(a) \in Core
           /\ \A c \in Core : \E a \in AIV : CoreOf(a) = c
           /\ \A c \in Core, a \in AIV : a \in AivsOf(c) <=> CoreOf(a) = c
  <1> DEFINE n == problem.coreNum
             S == SubBlockNum
  <1>1. n \in Nat \ {0} /\ S \in Nat \ {0}
    BY Positive
  <1>2. AIV = 0..(n * S - 1) /\ Core = 0..(n - 1)
    BY DEF AIV, aivNum, Core
  <1> HIDE DEF n
  <1>3. ASSUME NEW a \in AIV PROVE CoreOf(a) \in Core
    <2> DEFINE q == a \div S
    <2>1. a \in Nat /\ a < n * S /\ n * S \in Nat
      BY <1>1, <1>2
    <2>2. q \in Nat /\ a % S \in 0..(S - 1) /\ a = S * q + (a % S)
      BY <1>1, <2>1, DivMod
    <2> HIDE DEF q
    <2>3. q < n
      <3> SUFFICES ASSUME n <= q PROVE FALSE
        BY <1>1, <2>2
      <3>1. S * n <= S * q /\ S * n = n * S
        BY <1>1, <2>2
      <3> QED
        BY <1>1, <2>1, <2>2, <3>1
    <2> QED
      BY <1>1, <1>2, <2>2, <2>3 DEF CoreOf, q
  <1>4. ASSUME NEW c \in Core PROVE \E a \in AIV : CoreOf(a) = c
    <2>1. c \in Nat /\ c + 1 <= n
      BY <1>1, <1>2
    <2>2. (S * c + 0) \div S = c
      BY <1>1, <2>1, DivOf
    <2>3. S * (c + 1) <= S * n /\ S * (c + 1) = S * c + S /\ S * n = n * S /\ S * c \in Nat
      BY <1>1, <2>1
    <2>4. S * c + 0 \in AIV
      BY <1>1, <1>2, <2>3
    <2> QED
      BY <2>2, <2>4 DEF CoreOf
  <1> QED
    BY <1>3, <1>4 DEF AivsOf, CoreOf

\* The k of a slice are numbers.
LEMMA KOfType ==
    ASSUME Assumptions, problem \in Problems, NEW task \in Nat
    PROVE  KOf(task) \in SUBSET Int
  <1> DEFINE s == SliceOf(task)
             f == problem.splitkFactor
             kIdx == GetKIdxBySplitkSliceIdx(s, kLoops, f)
             Tiles == SplitkSliceTiles(s, kLoops, f)
             last == kIdx * problem.tileK + SplitkActualLength(s, kIdx, kLoops, f, problem.k, problem.tileK) - 1
  <1>1. s \in 0..(f - 1) /\ f \in Nat \ {0} /\ kLoops \in Nat /\ problem.tileK \in Nat /\ problem.k \in Nat
    BY SliceOfTask, Positive DEF Slice
  <1>2. KOf(task) = kIdx * problem.tileK .. last
    BY DEF KOf
  <1>3. kIdx \in Nat /\ Tiles \in Nat
    <2> HIDE DEF s, f
    <2>1. PICK q \in Nat, r \in 0..(f - 1) :
             /\ kLoops = f * q + r
             /\ \A x \in 0..f :
                   /\ GetKIdxBySplitkSliceIdx(x, kLoops, f) = IF x < r THEN (q + 1) * x ELSE x * q + r
                   /\ SplitkSliceTiles(x, kLoops, f) = IF x < r THEN q + 1 ELSE q
      BY <1>1, SliceCases
    <2>2. s \in 0..f /\ s \in Nat /\ r \in Nat
      BY <1>1
    <2>3. kIdx = (IF s < r THEN (q + 1) * s ELSE s * q + r) /\ Tiles = IF s < r THEN q + 1 ELSE q
      BY <2>1, <2>2
    <2> HIDE DEF kIdx, Tiles
    <2> QED
      BY <2>2, <2>3
  <1>4. last \in Int
    <2>1. last = kIdx * problem.tileK + (IF s = f - 1 THEN problem.k - kIdx * problem.tileK ELSE Tiles * problem.tileK) - 1
      BY DEF SplitkActualLength
    <2> HIDE DEF kIdx, Tiles, last, s
    <2> QED
      BY <1>1, <1>3, <2>1
  <1> HIDE DEF kIdx, last
  <1>5. kIdx * problem.tileK \in Int
    BY <1>1, <1>3
  <1> QED
    BY <1>2, <1>4, <1>5

\* The first state of a problem.
LEMMA InitInv ==
    ASSUME Assumptions, Init
    PROVE  IInv
  <1>1. problem \in Problems
    BY DEF Init
  <1>2. problem.coreNum \in Nat \ {0} /\ problem.stages \in Nat \ {0} /\ loops \in Nat \ {0}
    BY <1>1, Positive, ElementInOneTile
  <1>3. \A c \in Core : c \in Nat /\ c % problem.coreNum = c
    <2> DEFINE n == problem.coreNum
    <2>1. n \in Nat \ {0} /\ Core = 0..(n - 1)
      BY <1>2 DEF Core
    <2> HIDE DEF n
    <2> SUFFICES ASSUME NEW c \in Core PROVE c \in Nat /\ c % n = c
      BY DEF n
    <2>2. (n * 0 + c) % n = c
      BY <2>1, DivOf
    <2>3. n * 0 + c = c /\ c \in Nat
      BY <2>1
    <2> QED
      BY <2>2, <2>3
  <1>4. TypeInv
    BY <1>1, <1>3 DEF TypeInv, Init, Kinds, Buffers
  <1>5. StoreInv
    <2> SUFFICES ASSUME NEW c \in Core
                 PROVE  /\ loopIdx[c] = c /\ c % problem.coreNum = c /\ aicPc[c] # "done"
                        /\ \A task \in Nat : task % problem.coreNum = c => ~(task < c)
      BY DEF StoreInv, Init
    <2>1. loopIdx[c] = c /\ aicPc[c] # "done"
      BY DEF Init
    <2>2. ASSUME NEW task \in Nat, task % problem.coreNum = c PROVE ~(task < c)
      <3> DEFINE n == problem.coreNum
      <3>1. n \in Nat \ {0} /\ task % n = c /\ c \in Nat
        BY <1>2, <1>3, <2>2
      <3> HIDE DEF n
      <3>2. task \div n \in Nat /\ task = n * (task \div n) + c
        BY <3>1, DivMod
      <3>3. n * (task \div n) \in Nat
        BY <3>1, <3>2
      <3> QED
        BY <3>1, <3>2, <3>3
    <2> QED
      BY <1>3, <2>1, <2>2
  <1>6. FlagInv /\ BarrierInv /\ DstInv
    <2>1. \A a \in AIV : CoreOf(a) \in Core
      BY <1>1, CoreOfAiv
    <2> QED
      BY <2>1 DEF FlagInv, BarrierInv, DstInv, Init
  <1>7. FitInv
    BY DEF FitInv, Init, Buffers
  <1>8. ASSUME NEW a \in AIV PROVE PipeInv(a) /\ BufferInv(a)
    <2>1. at[a].MTE2 = 0 /\ at[a].V = 0 /\ at[a].MTE3 = 0 /\ aivPc[a] = "wait"
      BY DEF Init
    <2>2. \A i \in 0..(problem.stages - 1) :
            event[a]["MTE3_MTE2"][i] = 0 /\ event[a]["MTE2_V"][i] = 0 /\ event[a]["V_MTE3"][i] = 0
      BY DEF Init
    <2>3. \A i \in Nat : BufferOf(i) \in 0..(problem.stages - 1)
      BY <1>2, Window DEF BufferOf
    <2>4. BufferInv(a)
      BY <2>1 DEF BufferInv
    <2>5. PipeInv(a)
      BY <1>2, <2>1, <2>2, <2>3 DEF PipeInv
    <2> QED
      BY <2>4, <2>5
  <1> QED
    BY <1>4, <1>5, <1>6, <1>7, <1>8 DEF IInv

\* What has gone to C stays explained while no tile is copied out.
LEMMA DstFrame ==
    ASSUME problem' = problem, dst' = dst, at' = at, DstInv
    PROVE  DstInv'
  <1>1. AIV' = AIV /\ \A a, i : TileOf(a, i)' = TileOf(a, i)
    BY Same, SumsSame
  <1>2. \A t : SumOf(t)' = SumOf(t)
    BY SumsSame
  <1> QED
    BY <1>1, <1>2 DEF DstInv

\* So does what fits.
LEMMA FitFrame ==
    ASSUME problem' = problem, buffer' = buffer, FitInv
    PROVE  FitInv'
  BY Same DEF FitInv

\* AicBlock stores one more task; another of the same slice holds the same k.
LEMMA AicBlockStep ==
    ASSUME Assumptions, IInv, NEW c \in Core, AicBlock(c)
    PROVE  IInv'
  <1>0. PICK task \in Nat : task = loopIdx[c]
    BY DEF IInv, TypeInv
  <1> DEFINE s == SliceOf(task)
             n == problem.coreNum
  <1>1. /\ problem \in Problems /\ problem' = problem /\ aicPc' = aicPc /\ finish' = finish /\ aivPc' = aivPc
        /\ at' = at /\ event' = event /\ buffer' = buffer /\ dst' = dst
    BY DEF IInv, TypeInv, AicBlock, reduceVars
  <1>2. aicPc[c] = "loop" /\ task < coreLoops /\ task \in Nat /\ task % n = c /\ n \in Nat \ {0}
    BY <1>0, <1>1, Positive DEF AicBlock, IInv, TypeInv, StoreInv
  <1>3. s \in Slice /\ KOf(task) \in SUBSET Int
    BY <1>1, <1>2, SliceOfTask, KOfType
  <1>4. /\ loopIdx' = [loopIdx EXCEPT ![c] = task + n]
        /\ workspace' = [workspace EXCEPT ![s] =
              [e \in Element |-> IF Covers(task, e) THEN KOf(task) ELSE workspace[s][e]]]
    BY <1>0 DEF AicBlock
  <1>5. /\ Core' = Core /\ Slice' = Slice /\ Element' = Element /\ AIV' = AIV /\ Buffers' = Buffers
        /\ coreLoops' = coreLoops
    BY <1>1, Same
  <1>6. workspace \in [Slice -> [Element -> SUBSET Int]] /\ loopIdx \in [Core -> Nat]
    BY DEF IInv, TypeInv
  <1> HIDE DEF s
  <1>7. /\ \A o \in Slice, e \in Element :
             workspace'[o][e] = IF o = s /\ Covers(task, e) THEN KOf(task) ELSE workspace[o][e]
        /\ workspace' \in [Slice -> [Element -> SUBSET Int]]
    BY <1>3, <1>4, <1>6
  <1>8. loopIdx' \in [Core -> Nat]
    BY <1>2, <1>4, <1>6 DEF n
  <1>9. TypeInv'
    BY <1>1, <1>5, <1>7, <1>8 DEF IInv, TypeInv
  <1>10. ASSUME NEW u \in Nat, Stored(u) PROVE Stored(u)'
    <2>1. /\ SliceOf(u)' = SliceOf(u) /\ KOf(u)' = KOf(u)
          /\ \A e : Covers(u, e)' <=> Covers(u, e)
      BY <1>1, StoredSame
    <2>2. SliceOf(u) \in Slice
      BY <1>1, SliceOfTask
    <2>3. SliceOf(u) = s => KOf(u) = KOf(task)
      BY KOfIsSliceK DEF s
    <2>4. ASSUME NEW e \in Element, Covers(u, e) PROVE workspace'[SliceOf(u)][e] = KOf(u)
      BY <1>7, <1>10, <2>2, <2>3, <2>4 DEF Stored
    <2> QED
      BY <1>5, <2>1, <2>4 DEF Stored
  <1>11. Stored(task)'
    <2>1. /\ SliceOf(task)' = SliceOf(task) /\ KOf(task)' = KOf(task)
          /\ \A e : Covers(task, e)' <=> Covers(task, e)
      BY <1>1, StoredSame
    <2> QED
      BY <1>3, <1>5, <1>7, <2>1 DEF Stored, s
  <1>12. StoreInv'
    <2> SUFFICES ASSUME NEW d \in Core
                 PROVE  /\ loopIdx'[d] % n = d
                        /\ \A u \in Nat : u % n = d /\ u < loopIdx'[d] /\ u < coreLoops => Stored(u)'
                        /\ aicPc[d] = "done" => coreLoops <= loopIdx'[d]
      BY <1>1, <1>5 DEF StoreInv
    <2>1. CASE d # c
      <3>1. loopIdx'[d] = loopIdx[d]
        BY <1>4, <1>6, <2>1
      <3> QED
        BY <1>10, <3>1 DEF IInv, StoreInv
    <2>2. CASE d = c
      <3>1. loopIdx'[d] = task + n
        BY <1>4, <1>6, <2>2
      <3> HIDE DEF n
      <3>2. (task + n) % n = c
        BY <1>2, Window
      <3>3. ASSUME NEW u \in Nat, u % n = c, u < task + n PROVE u < task \/ u = task
        <4> SUFFICES ASSUME task <= u PROVE u = task
          BY <1>2
        <4>1. u \in task .. task + n - 1 /\ task \in task .. task + n - 1
          BY <1>2, <3>3
        <4>2. u % n = task % n
          BY <1>2, <3>3
        <4>3. \A i, j \in task .. task + n - 1 : i % n = j % n => i = j
          BY <1>2, Window
        <4> QED
          BY <4>1, <4>2, <4>3
      <3>4. \A u \in Nat : u % n = c /\ u < task /\ u < coreLoops => Stored(u)
        BY <1>0, <2>2 DEF IInv, StoreInv, n
      <3> QED
        <4>1. (loopIdx'[d]) % n = d /\ aicPc[d] # "done"
          BY <1>2, <2>2, <3>1, <3>2
        <4>2. ASSUME NEW u \in Nat, u % n = d, u < loopIdx'[d], u < coreLoops PROVE Stored(u)'
          BY <1>10, <1>11, <2>2, <3>1, <3>3, <3>4, <4>2
        <4> QED
          BY <4>1, <4>2
    <2> QED
      BY <2>1, <2>2
  <1>13. \A a \in AIV : PipeInv(a)' /\ BufferInv(a)'
    BY <1>1, PipeFrame, BufferFrame DEF IInv
  <1>14. FlagInv' /\ BarrierInv' /\ DstInv' /\ FitInv'
    BY <1>1, <1>5, DstFrame, FitFrame DEF IInv, FlagInv, BarrierInv, CoreOf
  <1> QED
    BY <1>5, <1>9, <1>12, <1>13, <1>14 DEF IInv

\* The flag is set for the AIVs of a core that has stored all its tasks.
LEMMA AicSetFlagStep ==
    ASSUME Assumptions, IInv, NEW c \in Core, AicSetFlag(c)
    PROVE  IInv'
  <1>1. /\ problem \in Problems /\ problem' = problem /\ loopIdx' = loopIdx /\ workspace' = workspace /\ aivPc' = aivPc
        /\ at' = at /\ event' = event /\ buffer' = buffer /\ dst' = dst
        /\ aicPc[c] = "loop" /\ coreLoops <= loopIdx[c] /\ aicPc' = [aicPc EXCEPT ![c] = "done"]
        /\ finish' = [a \in AIV |-> IF a \in AivsOf(c) THEN finish[a] + 1 ELSE finish[a]]
    <2>1. problem \in Problems /\ coreLoops \in Nat /\ loopIdx[c] \in Nat
      BY Positive DEF IInv, TypeInv
    <2> QED
      BY <2>1 DEF AicSetFlag, reduceVars
  <1>2. /\ Core' = Core /\ Slice' = Slice /\ Element' = Element /\ AIV' = AIV /\ Buffers' = Buffers
        /\ coreLoops' = coreLoops
    BY <1>1, Same
  <1>3. \A a \in AIV : CoreOf(a) \in Core /\ (a \in AivsOf(c) <=> CoreOf(a) = c)
    BY <1>1, CoreOfAiv
  <1>4. aicPc \in [Core -> {"loop", "done"}] /\ finish \in [AIV -> Int]
    BY DEF IInv, TypeInv
  <1>5. TypeInv'
    BY <1>1, <1>2, <1>4 DEF IInv, TypeInv
  <1>6. StoreInv'
    BY <1>1, <1>4, StoreFrame DEF IInv
  <1>7. FlagInv'
    <2> SUFFICES ASSUME NEW a \in AIV
                 PROVE  /\ finish'[a] = IF aicPc'[CoreOf(a)] = "done" /\ aivPc[a] = "wait" THEN 1 ELSE 0
                        /\ aivPc[a] # "wait" => aicPc'[CoreOf(a)] = "done"
      BY <1>1, <1>2 DEF FlagInv, CoreOf
    <2>1. /\ finish[a] = IF aicPc[CoreOf(a)] = "done" /\ aivPc[a] = "wait" THEN 1 ELSE 0
          /\ aivPc[a] # "wait" => aicPc[CoreOf(a)] = "done"
      BY DEF IInv, FlagInv
    <2>2. CASE CoreOf(a) = c
      BY <1>1, <1>3, <1>4, <2>1, <2>2
    <2>3. CASE CoreOf(a) # c
      BY <1>1, <1>3, <1>4, <2>1, <2>3
    <2> QED
      BY <2>2, <2>3
  <1>8. \A a \in AIV : PipeInv(a)' /\ BufferInv(a)'
    BY <1>1, PipeFrame, BufferFrame DEF IInv
  <1>9. BarrierInv' /\ DstInv' /\ FitInv'
    BY <1>1, <1>2, DstFrame, FitFrame DEF IInv, BarrierInv
  <1> QED
    BY <1>2, <1>5, <1>6, <1>7, <1>8, <1>9 DEF IInv

\* An AIV takes the flag.
LEMMA AivWaitStep ==
    ASSUME Assumptions, IInv, NEW a \in AIV, AivWait(a)
    PROVE  IInv'
  <1>1. /\ problem \in Problems /\ problem' = problem /\ aicPc' = aicPc /\ loopIdx' = loopIdx /\ workspace' = workspace
        /\ at' = at /\ event' = event /\ buffer' = buffer /\ dst' = dst
        /\ aivPc[a] = "wait" /\ finish[a] > 0
        /\ finish' = [finish EXCEPT ![a] = finish[a] - 1] /\ aivPc' = [aivPc EXCEPT ![a] = "arrive"]
    BY DEF AivWait, IInv, TypeInv, aicVars, reduceVars
  <1>2. Core' = Core /\ Slice' = Slice /\ Element' = Element /\ AIV' = AIV /\ Buffers' = Buffers
    BY <1>1, Same
  <1>3. /\ finish \in [AIV -> Int] /\ aivPc \in [AIV -> {"wait", "arrive", "barrier", "reduce", "done"}]
    BY DEF IInv, TypeInv
  <1>4. TypeInv'
    BY <1>1, <1>2, <1>3 DEF IInv, TypeInv
  <1>5. StoreInv'
    BY <1>1, StoreFrame DEF IInv, StoreInv
  <1>6. FlagInv'
    BY <1>1, <1>2, <1>3 DEF IInv, FlagInv, CoreOf
  <1>7. BarrierInv'
    BY <1>1, <1>2, <1>3 DEF IInv, BarrierInv
  <1>8. \A o \in AIV : PipeInv(o)' /\ BufferInv(o)'
    <2> SUFFICES ASSUME NEW o \in AIV PROVE PipeInv(o)' /\ BufferInv(o)'
      OBVIOUS
    <2>1. aivPc'[o] = aivPc[o] \/ {aivPc[o], aivPc'[o]} \subseteq {"wait", "arrive", "barrier"}
      BY <1>1, <1>3
    <2> QED
      BY <1>1, <2>1, PipeFrame, BufferFrame DEF IInv
  <1>9. DstInv' /\ FitInv'
    BY <1>1, DstFrame, FitFrame DEF IInv
  <1> QED
    BY <1>2, <1>4, <1>5, <1>6, <1>7, <1>8, <1>9 DEF IInv

\* An AIV arrives at the barrier.
LEMMA AivArriveStep ==
    ASSUME Assumptions, IInv, NEW a \in AIV, AivArrive(a)
    PROVE  IInv'
  <1>1. /\ problem \in Problems /\ problem' = problem /\ aicPc' = aicPc /\ loopIdx' = loopIdx /\ workspace' = workspace
        /\ at' = at /\ event' = event /\ buffer' = buffer /\ dst' = dst /\ finish' = finish
        /\ aivPc[a] = "arrive" /\ aivPc' = [aivPc EXCEPT ![a] = "barrier"]
    BY DEF AivArrive, IInv, TypeInv, aicVars, reduceVars
  <1>2. Core' = Core /\ Slice' = Slice /\ Element' = Element /\ AIV' = AIV /\ Buffers' = Buffers
    BY <1>1, Same
  <1>3. aivPc \in [AIV -> {"wait", "arrive", "barrier", "reduce", "done"}]
    BY DEF IInv, TypeInv
  <1>4. TypeInv'
    BY <1>1, <1>2, <1>3 DEF IInv, TypeInv
  <1>5. StoreInv'
    BY <1>1, StoreFrame DEF IInv, StoreInv
  <1>6. FlagInv'
    BY <1>1, <1>2, <1>3 DEF IInv, FlagInv, CoreOf
  <1>7. BarrierInv'
    BY <1>1, <1>2, <1>3 DEF IInv, BarrierInv
  <1>8. \A o \in AIV : PipeInv(o)' /\ BufferInv(o)'
    <2> SUFFICES ASSUME NEW o \in AIV PROVE PipeInv(o)' /\ BufferInv(o)'
      OBVIOUS
    <2>1. aivPc'[o] = aivPc[o] \/ {aivPc[o], aivPc'[o]} \subseteq {"wait", "arrive", "barrier"}
      BY <1>1, <1>3
    <2> QED
      BY <1>1, <2>1, PipeFrame, BufferFrame DEF IInv
  <1>9. DstInv' /\ FitInv'
    BY <1>1, DstFrame, FitFrame DEF IInv
  <1> QED
    BY <1>2, <1>4, <1>5, <1>6, <1>7, <1>8, <1>9 DEF IInv
-----------------------------------------------------------------------------
(* The barrier. *)

\* Past the barrier every buffer is free.
LEMMA AivBarrierStep ==
    ASSUME Assumptions, IInv, NEW a \in AIV, AivBarrier(a)
    PROVE  IInv'
  <1>1. /\ problem \in Problems /\ problem' = problem /\ aicPc' = aicPc /\ loopIdx' = loopIdx /\ workspace' = workspace
        /\ at' = at /\ buffer' = buffer /\ dst' = dst /\ finish' = finish
        /\ aivPc[a] = "barrier" /\ aivPc' = [aivPc EXCEPT ![a] = "reduce"]
        /\ \A o \in AIV : aivPc[o] \notin {"wait", "arrive"}
    BY DEF AivBarrier, IInv, TypeInv, aicVars
  <1>2. Core' = Core /\ Slice' = Slice /\ Element' = Element /\ AIV' = AIV /\ Buffers' = Buffers
    BY <1>1, Same
  <1>3. /\ aivPc \in [AIV -> {"wait", "arrive", "barrier", "reduce", "done"}]
        /\ event \in [AIV -> [Kinds -> [Buffers -> Int]]]
        /\ at[a].MTE2 \in Nat /\ at[a].V \in Nat /\ at[a].MTE3 \in Nat
    BY DEF IInv, TypeInv
  <1>4. event' = [event EXCEPT ![a]["MTE3_MTE2"] = [i \in Buffers |-> 1]]
    <2>1. DOMAIN event[a]["MTE3_MTE2"] = Buffers
      BY <1>3 DEF Kinds
    <2> QED
      BY <2>1 DEF AivBarrier
  <1>5. /\ event' \in [AIV -> [Kinds -> [Buffers -> Int]]]
        /\ \A o \in AIV : o # a => event'[o] = event[o]
        /\ event'[a]["MTE2_V"] = event[a]["MTE2_V"] /\ event'[a]["V_MTE3"] = event[a]["V_MTE3"]
        /\ \A b \in Buffers : event'[a]["MTE3_MTE2"][b] = 1
    BY <1>3, <1>4 DEF Kinds
  <1>6. TypeInv'
    BY <1>1, <1>2, <1>3, <1>5 DEF IInv, TypeInv
  <1>7. StoreInv'
    BY <1>1, StoreFrame DEF IInv, StoreInv
  <1>8. FlagInv'
    BY <1>1, <1>2, <1>3 DEF IInv, FlagInv, CoreOf
  <1>9. BarrierInv'
    BY <1>1, <1>2, <1>3 DEF IInv, BarrierInv
  <1>10. PipeInv(a)'
    <2>1. at[a].MTE2 = 0 /\ at[a].V = 0 /\ at[a].MTE3 = 0
      BY <1>1, <1>3 DEF IInv, PipeInv
    <2>2. aivPc'[a] = "reduce"
      BY <1>1, <1>3
    <2>3. problem.stages \in Nat \ {0}
      BY <1>1, Positive
    <2>4. \A i \in Nat : BufferOf(i) \in Buffers /\ BufferOf(i)' = BufferOf(i)
      BY <1>1, <2>3, Window DEF BufferOf, Buffers
    <2>5. \A i \in 0 .. problem.stages - 1 : event[a]["MTE2_V"][BufferOf(i)] = 0 /\ event[a]["V_MTE3"][BufferOf(i)] = 0
      BY <2>1, <2>3 DEF IInv, PipeInv
    <2> QED
      BY <1>1, <1>5, <2>1, <2>2, <2>3, <2>4, <2>5 DEF PipeInv
  <1>11. ASSUME NEW o \in AIV PROVE PipeInv(o)' /\ BufferInv(o)'
    <2>1. BufferInv(o)'
      BY <1>1, BufferFrame DEF IInv
    <2>2. CASE o = a
      BY <1>10, <2>1, <2>2
    <2>3. CASE o # a
      <3>1. aivPc'[o] = aivPc[o]
        BY <1>1, <1>3, <2>3
      <3> QED
        BY <1>1, <1>5, <2>1, <2>3, <3>1, PipeFrame DEF IInv
    <2> QED
      BY <2>2, <2>3
  <1>12. DstInv' /\ FitInv'
    BY <1>1, DstFrame, FitFrame DEF IInv
  <1> QED
    BY <1>2, <1>6, <1>7, <1>8, <1>9, <1>11, <1>12 DEF IInv

\* Past the barrier every task is stored, and the workspace holds each slice of
\* k for each element.
LEMMA WorkspaceWhole ==
    ASSUME Assumptions, IInv, NEW a \in AIV, aivPc[a] \in {"reduce", "done"}
    PROVE  /\ \A c \in Core : aicPc[c] = "done"
           /\ \A s \in Slice, e \in Element : workspace[s][e] = SliceK(s)
  <1>1. problem \in Problems
    BY DEF IInv, TypeInv
  <1>2. ASSUME NEW c \in Core PROVE aicPc[c] = "done"
    <2>1. PICK o \in AIV : CoreOf(o) = c
      BY <1>1, CoreOfAiv
    <2>2. aivPc[o] # "wait"
      BY DEF IInv, BarrierInv
    <2> QED
      BY <2>1, <2>2 DEF IInv, FlagInv
  <1>3. ASSUME NEW s \in Slice, NEW e \in Element PROVE workspace[s][e] = SliceK(s)
    <2>1. PICK task \in 0..(coreLoops - 1) : SliceOf(task) = s /\ Covers(task, e)
      BY <1>1, TasksCover
    <2>2. problem.coreNum \in Nat \ {0} /\ coreLoops \in Nat
      BY <1>1, Positive
    <2>3. task \in Nat /\ task < coreLoops
      BY <2>2
    <2> DEFINE c == task % problem.coreNum
    <2>4. c \in Core
      BY <2>2, <2>3, DivMod DEF Core
    <2>5. coreLoops <= loopIdx[c] /\ loopIdx[c] \in Nat
      BY <1>2, <2>4 DEF IInv, StoreInv, TypeInv
    <2>6. Stored(task)
      BY <2>2, <2>3, <2>4, <2>5 DEF IInv, StoreInv
    <2> QED
      BY <2>1, <2>6, KOfIsSliceK DEF Stored
  <1> QED
    BY <1>2, <1>3
-----------------------------------------------------------------------------
(* The pipes. *)

\* The buffers of the window of a pipe, apart from one another.
LEMMA BufferWindow ==
    ASSUME Assumptions, problem \in Problems, NEW z \in Nat
    PROVE  /\ problem.stages \in Nat \ {0}
           /\ \A i \in Nat : BufferOf(i) \in Buffers
           /\ \A i, j \in z .. z + problem.stages - 1 : BufferOf(i) = BufferOf(j) => i = j
           /\ \A b \in Buffers : \E i \in z .. z + problem.stages - 1 : BufferOf(i) = b
           /\ BufferOf(z + problem.stages) = BufferOf(z)
  <1> DEFINE S == problem.stages
  <1>1. S \in Nat \ {0} /\ Buffers = 0..(S - 1) /\ \A i : BufferOf(i) = i % S
    BY Positive DEF Buffers, BufferOf
  <1> HIDE DEF S
  <1>2. /\ \A i \in Nat : i % S \in 0..(S - 1)
        /\ \A i, j \in z .. z + S - 1 : i % S = j % S => i = j
        /\ \A b \in 0..(S - 1) : \E i \in z .. z + S - 1 : i % S = b
        /\ (z + S) % S = z % S
    BY <1>1, Window
  <1> QED
    BY <1>1, <1>2 DEF S

\* One event less and one more, of one buffer.
Passed(a, waits, sets, b) ==
    /\ event' \in [AIV -> [Kinds -> [Buffers -> Int]]]
    /\ \A o \in AIV : o # a => event'[o] = event[o]
    /\ \A d \in Buffers :
         /\ event'[a][waits][d] = IF d = b THEN event[a][waits][d] - 1 ELSE event[a][waits][d]
         /\ event'[a][sets][d] = IF d = b THEN event[a][sets][d] + 1 ELSE event[a][sets][d]
    /\ \A kind \in Kinds : kind # waits /\ kind # sets => event'[a][kind] = event[a][kind]

\* What Step makes of the events.
LEMMA EventStep ==
    ASSUME event \in [AIV -> [Kinds -> [Buffers -> Int]]], NEW a \in AIV, NEW waits \in Kinds, NEW sets \in Kinds,
           waits # sets, NEW b \in Buffers,
           event' = [event EXCEPT ![a][waits][b] = @ - 1, ![a][sets][b] = @ + 1]
    PROVE  Passed(a, waits, sets, b)
  <1> DEFINE old == event[a]
             mid == [old EXCEPT ![waits] = [old[waits] EXCEPT ![b] = old[waits][b] - 1]]
             new == [mid EXCEPT ![sets] = [mid[sets] EXCEPT ![b] = mid[sets][b] + 1]]
             all == [event EXCEPT ![a] = mid]
  <1>1. old \in [Kinds -> [Buffers -> Int]]
    OBVIOUS
  <1>2. all[a] = mid /\ \A o \in AIV : o # a => all[o] = event[o]
    OBVIOUS
  <1>3. event' = [all EXCEPT ![a] = new]
    BY <1>2
  <1>4. DOMAIN all = AIV /\ all = [o \in AIV |-> all[o]]
    OBVIOUS
  <1> HIDE DEF old, new, mid, all
  <1>5. mid \in [Kinds -> [Buffers -> Int]] /\ mid[sets] = old[sets]
    BY <1>1 DEF mid
  <1>6. \A kind \in Kinds : kind # waits => mid[kind] = old[kind]
    BY <1>1 DEF mid
  <1>7. \A d \in Buffers : mid[waits][d] = IF d = b THEN old[waits][d] - 1 ELSE old[waits][d]
    BY <1>1 DEF mid
  <1>8. new \in [Kinds -> [Buffers -> Int]] /\ \A kind \in Kinds : kind # sets => new[kind] = mid[kind]
    BY <1>5 DEF new
  <1>9. \A d \in Buffers : new[sets][d] = IF d = b THEN old[sets][d] + 1 ELSE old[sets][d]
    BY <1>1, <1>5 DEF new
  <1>10. event'[a] = new /\ \A o \in AIV : o # a => event'[o] = event[o]
    BY <1>2, <1>3, <1>4
  <1>11. event' = [o \in AIV |-> event'[o]]
    BY <1>3, <1>4
  <1>12. event' \in [AIV -> [Kinds -> [Buffers -> Int]]]
    BY <1>8, <1>10, <1>11
  <1> QED
    BY <1>6, <1>7, <1>8, <1>9, <1>10, <1>12 DEF old, Passed

\* One pipe further.
LEMMA AtStep ==
    ASSUME at \in [AIV -> [MTE2 : Nat, V : Nat, MTE3 : Nat]], NEW a \in AIV, NEW r \in [MTE2 : Nat, V : Nat, MTE3 : Nat],
           at' = [at EXCEPT ![a] = r]
    PROVE  /\ at' \in [AIV -> [MTE2 : Nat, V : Nat, MTE3 : Nat]]
           /\ at'[a] = r /\ \A o \in AIV : o # a => at'[o] = at[o]
  OBVIOUS

\* A step of one AIV's pipes leaves the others as they were.
LEMMA PipeStepFrame ==
    ASSUME Assumptions, IInv, NEW a \in AIV,
           problem' = problem, aicPc' = aicPc, loopIdx' = loopIdx, workspace' = workspace, finish' = finish,
           aivPc' = aivPc, dst \subseteq dst',
           at' \in [AIV -> [MTE2 : Nat, V : Nat, MTE3 : Nat]],
           event' \in [AIV -> [Kinds -> [Buffers -> Int]]],
           DOMAIN buffer' = AIV, \A o \in AIV : DOMAIN buffer'[o] = Buffers,
           \A o \in AIV : o # a => at'[o] = at[o] /\ event'[o] = event[o] /\ buffer'[o] = buffer[o],
           PipeInv(a)', BufferInv(a)', DstInv', FitInv'
    PROVE  IInv'
  <1>1. Core' = Core /\ Slice' = Slice /\ Element' = Element /\ AIV' = AIV /\ Buffers' = Buffers
    BY Same
  <1>2. TypeInv'
    BY <1>1 DEF IInv, TypeInv
  <1>3. StoreInv'
    BY StoreFrame DEF IInv
  <1>4. FlagInv' /\ BarrierInv'
    BY <1>1 DEF IInv, FlagInv, BarrierInv, CoreOf
  <1>5. ASSUME NEW o \in AIV PROVE PipeInv(o)' /\ BufferInv(o)'
    <2>1. CASE o = a
      BY <2>1
    <2>2. CASE o # a
      BY <2>2, PipeFrame, BufferFrame DEF IInv
    <2> QED
      BY <2>1, <2>2
  <1> QED
    BY <1>1, <1>2, <1>3, <1>4, <1>5 DEF IInv

\* MTE2 takes a free buffer and fills it with the rows of a whole workspace.
LEMMA LoadStep ==
    ASSUME Assumptions, IInv, NEW a \in AIV, Load(a)
    PROVE  IInv'
  <1>1. PICK x \in Nat, y \in Nat, z \in Nat : at[a] = [MTE2 |-> x, V |-> y, MTE3 |-> z]
    BY DEF IInv, TypeInv
  <1>2. at[a].MTE2 = x /\ at[a].V = y /\ at[a].MTE3 = z /\ at[a]["MTE2"] = x
    BY <1>1
  <1>3. /\ at \in [AIV -> [MTE2 : Nat, V : Nat, MTE3 : Nat]] /\ event \in [AIV -> [Kinds -> [Buffers -> Int]]]
        /\ DOMAIN buffer = AIV /\ \A o \in AIV : DOMAIN buffer[o] = Buffers
        /\ problem \in Problems
    BY DEF IInv, TypeInv
  <1> DEFINE b == BufferOf(x)
             t == TileOf(a, x)
             len == TileLen(t)
             S == problem.stages
             rows == [p \in {RowStart(s, len) : s \in Slice} |->
                        LET s == CHOOSE s \in Slice : RowStart(s, len) = p
                        IN  {[tile |-> t, slice |-> s, values |-> Read(t, s)]}]
  <1>4. /\ problem' = problem /\ aicPc' = aicPc /\ loopIdx' = loopIdx /\ workspace' = workspace /\ finish' = finish
        /\ aivPc' = aivPc /\ dst' = dst
        /\ aivPc[a] = "reduce" /\ Has(a, x) /\ event[a]["MTE3_MTE2"][b] > 0
        /\ event' = [event EXCEPT ![a]["MTE3_MTE2"][b] = @ - 1, ![a]["MTE2_V"][b] = @ + 1]
        /\ at' = [at EXCEPT ![a]["MTE2"] = x + 1]
        /\ buffer' = [buffer EXCEPT ![a][b] = rows]
    BY <1>2 DEF Load, Step, aicVars
  <1>5. /\ S \in Nat \ {0} /\ \A i \in Nat : BufferOf(i) \in Buffers
        /\ \A i, j \in z .. z + S - 1 : BufferOf(i) = BufferOf(j) => i = j
        /\ BufferOf(z + S) = BufferOf(z)
    BY <1>3, BufferWindow
  <1>6. /\ z <= y /\ y <= x /\ x <= z + S
        /\ \A i \in Nat : i < x => Has(a, i)
        /\ \A i \in z .. z + S - 1 :
             /\ event[a]["MTE3_MTE2"][BufferOf(i)] = IF x <= i THEN 1 ELSE 0
             /\ event[a]["MTE2_V"][BufferOf(i)] = IF y <= i /\ i < x THEN 1 ELSE 0
             /\ event[a]["V_MTE3"][BufferOf(i)] = IF i < y THEN 1 ELSE 0
    BY <1>2, <1>4 DEF IInv, PipeInv
  <1>7. b \in Buffers
    BY <1>5
  <1> HIDE DEF b, rows, S, t, len
  <1>8. x < z + S
    <2> SUFFICES ASSUME x = z + S PROVE FALSE
      BY <1>5, <1>6
    <2>1. b = BufferOf(z) /\ z \in z .. z + S - 1 /\ ~(x <= z)
      BY <1>5 DEF b
    <2>2. event[a]["MTE3_MTE2"][b] = 0
      BY <1>6, <2>1
    <2> QED
      BY <1>4, <2>2
  <1>9. /\ at' \in [AIV -> [MTE2 : Nat, V : Nat, MTE3 : Nat]]
        /\ \A o \in AIV : o # a => at'[o] = at[o]
        /\ at'[a].MTE2 = x + 1 /\ at'[a].V = y /\ at'[a].MTE3 = z
    <2> DEFINE r == [MTE2 |-> x + 1, V |-> y, MTE3 |-> z]
    <2>1. at' = [at EXCEPT ![a] = r]
      <3>1. [at[a] EXCEPT !["MTE2"] = x + 1] = r
        BY <1>1
      <3> QED
        BY <1>3, <1>4, <3>1
    <2>2. r \in [MTE2 : Nat, V : Nat, MTE3 : Nat] /\ r.MTE2 = x + 1 /\ r.V = y /\ r.MTE3 = z
      OBVIOUS
    <2> HIDE DEF r
    <2> QED
      BY <1>3, <2>1, <2>2, AtStep
  <1>10. /\ event' \in [AIV -> [Kinds -> [Buffers -> Int]]]
         /\ \A o \in AIV : o # a => event'[o] = event[o]
         /\ \A d \in Buffers :
              /\ event'[a]["MTE3_MTE2"][d] = IF d = b THEN event[a]["MTE3_MTE2"][d] - 1 ELSE event[a]["MTE3_MTE2"][d]
              /\ event'[a]["MTE2_V"][d] = IF d = b THEN event[a]["MTE2_V"][d] + 1 ELSE event[a]["MTE2_V"][d]
              /\ event'[a]["V_MTE3"][d] = event[a]["V_MTE3"][d]
    <2>1. "MTE3_MTE2" \in Kinds /\ "MTE2_V" \in Kinds /\ "V_MTE3" \in Kinds
      BY DEF Kinds
    <2>2. Passed(a, "MTE3_MTE2", "MTE2_V", b)
      BY <1>3, <1>4, <1>7, <2>1, EventStep
    <2> QED
      BY <2>1, <2>2 DEF Passed
  <1>11. /\ DOMAIN buffer' = AIV /\ \A o \in AIV : DOMAIN buffer'[o] = Buffers
         /\ \A o \in AIV : o # a => buffer'[o] = buffer[o]
         /\ \A d \in Buffers : buffer'[a][d] = IF d = b THEN rows ELSE buffer[a][d]
    BY <1>3, <1>4, <1>7
  <1>12. PipeInv(a)'
    <2>1. \A i \in Nat : BufferOf(i)' = BufferOf(i) /\ (Has(a, i)' <=> Has(a, i))
      BY <1>4, SumsSame
    <2>2. \A i \in Nat : i < x + 1 => Has(a, i)
      BY <1>4, <1>6
    <2>3. ASSUME NEW i \in z .. z + S - 1
          PROVE  /\ event'[a]["MTE3_MTE2"][BufferOf(i)] = IF x + 1 <= i THEN 1 ELSE 0
                 /\ event'[a]["MTE2_V"][BufferOf(i)] = IF y <= i /\ i < x + 1 THEN 1 ELSE 0
                 /\ event'[a]["V_MTE3"][BufferOf(i)] = IF i < y THEN 1 ELSE 0
      <3>1. i \in Nat /\ BufferOf(i) \in Buffers
        BY <1>5
      <3>2. x \in z .. z + S - 1
        BY <1>5, <1>6, <1>8
      <3>3. BufferOf(i) = b <=> i = x
        BY <1>5, <3>2 DEF b
      <3>4. CASE i = x
        BY <1>6, <1>10, <3>1, <3>3, <3>4
      <3>5. CASE i # x
        BY <1>6, <1>10, <3>1, <3>3, <3>5
      <3> QED
        BY <3>4, <3>5
    <2>4. z <= y /\ y <= x + 1 /\ x + 1 <= z + S
      BY <1>5, <1>6, <1>8
    <2> QED
      <3>1. S' = S /\ aivPc'[a] = "reduce"
        BY <1>4 DEF S
      <3>2. \A i \in z .. z + S - 1 : i \in Nat
        BY <1>5
      <3> QED
        BY <1>9, <2>1, <2>2, <2>3, <2>4, <3>1, <3>2 DEF PipeInv, S
  <1>13. LoadedRows(t, rows) /\ \A p \in DOMAIN rows : p \in Nat /\ p + RoundUp(taskPerAiv, Align) <= ComputeLength
    <2>1. t \in 0..(loops - 1)
      <3>1. a \in Nat /\ aivNum \in Nat /\ loops \in Nat
        <4>1. aivNum \in Nat /\ loops \in Nat
          BY <1>3, Positive, ElementInOneTile
        <4> QED
          BY <4>1 DEF AIV
      <3>2. x * aivNum \in Nat
        BY <3>1
      <3> QED
        BY <1>4, <3>1, <3>2 DEF Has, TileOf, t
    <2>2. /\ \A s \in Slice : /\ RowStart(s, len) = AddOffset(s, len)
                              /\ AddOffset(s, len) \in Nat
                              /\ AddOffset(s, len) + RoundUp(taskPerAiv, Align) <= ComputeLength
          /\ \A s, o \in Slice : AddOffset(s, len) = AddOffset(o, len) => s = o
      BY <1>3, <2>1, RowsLie DEF len
    <2>3. ASSUME NEW s \in Slice PROVE Read(t, s) = {SliceK(s)}
      <3>1. Elements(t) \subseteq Element /\ Elements(t) # {}
        BY <1>3, <2>1, ElementInOneTile
      <3>2. \A e \in Elements(t) : workspace[s][e] = SliceK(s)
        BY <1>4, <3>1, WorkspaceWhole
      <3> QED
        BY <3>1, <3>2 DEF Read
    <2>4. ASSUME NEW s \in Slice
          PROVE  AddOffset(s, len) \in DOMAIN rows /\ rows[AddOffset(s, len)] = {Row(t, s)}
      <3> DEFINE p == AddOffset(s, len)
                 u == CHOOSE u \in Slice : RowStart(u, len) = p
      <3>1. p \in {RowStart(o, len) : o \in Slice}
        BY <2>2
      <3>2. u \in Slice /\ RowStart(u, len) = p
        BY <2>2
      <3>3. u = s
        BY <2>2, <3>2
      <3>4. p \in DOMAIN rows /\ rows[p] = {[tile |-> t, slice |-> u, values |-> Read(t, u)]}
        BY <3>1 DEF rows
      <3> HIDE DEF u, p
      <3> QED
        BY <2>3, <3>3, <3>4 DEF Row, p
    <2>5. \A p \in DOMAIN rows : \E s \in Slice : p = AddOffset(s, len)
      BY <2>2 DEF rows
    <2> QED
      BY <2>2, <2>4, <2>5 DEF LoadedRows, len
  <1>14. BufferInv(a)'
    <2>1. /\ \A i : TileOf(a, i)' = TileOf(a, i) /\ BufferOf(i)' = BufferOf(i)
          /\ \A u : SumOf(u)' = SumOf(u)
          /\ \A u, contents : LoadedRows(u, contents)' <=> LoadedRows(u, contents)
      BY <1>4, SumsSame
    <2>2. \A i \in z .. x - 1 : BufferOf(i) \in Buffers /\ BufferOf(i) # b
      BY <1>5, <1>6, <1>8 DEF b
    <2>3. ASSUME NEW i \in y .. (x + 1) - 1 PROVE LoadedRows(TileOf(a, i), buffer'[a][BufferOf(i)])
      <3>1. CASE i = x
        BY <1>7, <1>11, <1>13, <3>1 DEF t, b
      <3>2. CASE i # x
        <4>1. i \in y .. x - 1 /\ i \in z .. x - 1
          BY <1>6, <3>2
        <4> QED
          BY <1>2, <1>11, <2>2, <4>1 DEF IInv, BufferInv
      <3> QED
        BY <3>1, <3>2
    <2>4. ASSUME NEW i \in z .. y - 1 PROVE buffer'[a][BufferOf(i)][0] = SumOf(TileOf(a, i))
      <3>1. i \in z .. x - 1
        BY <1>6
      <3> QED
        BY <1>2, <1>11, <2>2, <3>1 DEF IInv, BufferInv
    <2>5. \A i \in Nat : i < z => <<a, TileOf(a, i), SumOf(TileOf(a, i))>> \in dst'
      BY <1>2, <1>4 DEF IInv, BufferInv
    <2> QED
      BY <1>9, <2>1, <2>3, <2>4, <2>5 DEF BufferInv
  <1>15. FitInv'
    <2>1. AIV' = AIV /\ Buffers' = Buffers /\ taskPerAiv' = taskPerAiv
      BY <1>4, Same
    <2> QED
      BY <1>11, <1>13, <2>1 DEF IInv, FitInv
  <1>16. DstInv'
    <2>1. AIV' = AIV /\ (\A o, i : TileOf(o, i)' = TileOf(o, i)) /\ \A u : SumOf(u)' = SumOf(u)
      BY <1>4, Same, SumsSame
    <2>2. \A o \in AIV : at'[o].MTE3 = at[o].MTE3
      BY <1>2, <1>9
    <2> QED
      BY <1>4, <2>1, <2>2 DEF IInv, DstInv
  <1> QED
    BY <1>4, <1>9, <1>10, <1>11, <1>12, <1>14, <1>15, <1>16, PipeStepFrame


\* V adds loaded rows up.
LEMMA AddStep ==
    ASSUME Assumptions, IInv, NEW a \in AIV, Add(a)
    PROVE  IInv'
  <1>1. PICK x \in Nat, y \in Nat, z \in Nat : at[a] = [MTE2 |-> x, V |-> y, MTE3 |-> z]
    BY DEF IInv, TypeInv
  <1>2. at[a].MTE2 = x /\ at[a].V = y /\ at[a].MTE3 = z /\ at[a]["V"] = y
    BY <1>1
  <1>3. /\ at \in [AIV -> [MTE2 : Nat, V : Nat, MTE3 : Nat]] /\ event \in [AIV -> [Kinds -> [Buffers -> Int]]]
        /\ DOMAIN buffer = AIV /\ \A o \in AIV : DOMAIN buffer[o] = Buffers
        /\ problem \in Problems
    BY DEF IInv, TypeInv
  <1> DEFINE b == BufferOf(y)
             t == TileOf(a, y)
             S == problem.stages
             rows == UNION {Begins(buffer[a][b], AddOffset(s, TileLen(t))) : s \in Slice}
             sum == [p \in {0} |-> rows]
  <1>4. /\ problem' = problem /\ aicPc' = aicPc /\ loopIdx' = loopIdx /\ workspace' = workspace /\ finish' = finish
        /\ aivPc' = aivPc /\ dst' = dst
        /\ aivPc[a] = "reduce" /\ Has(a, y) /\ event[a]["MTE2_V"][b] > 0
        /\ event' = [event EXCEPT ![a]["MTE2_V"][b] = @ - 1, ![a]["V_MTE3"][b] = @ + 1]
        /\ at' = [at EXCEPT ![a]["V"] = y + 1]
        /\ buffer' = [buffer EXCEPT ![a][b] = sum]
    BY <1>2 DEF Add, Step, aicVars
  <1>5. /\ S \in Nat \ {0} /\ \A i \in Nat : BufferOf(i) \in Buffers
        /\ \A i, j \in z .. z + S - 1 : BufferOf(i) = BufferOf(j) => i = j
        /\ BufferOf(z + S) = BufferOf(z)
    BY <1>3, BufferWindow
  <1>6. /\ z <= y /\ y <= x /\ x <= z + S
        /\ \A i \in Nat : i < x => Has(a, i)
        /\ \A i \in z .. z + S - 1 :
             /\ event[a]["MTE3_MTE2"][BufferOf(i)] = IF x <= i THEN 1 ELSE 0
             /\ event[a]["MTE2_V"][BufferOf(i)] = IF y <= i /\ i < x THEN 1 ELSE 0
             /\ event[a]["V_MTE3"][BufferOf(i)] = IF i < y THEN 1 ELSE 0
    BY <1>2, <1>4 DEF IInv, PipeInv
  <1>7. b \in Buffers
    BY <1>5
  <1> HIDE DEF b, rows, sum, S, t
  <1>8. y < x
    <2>1. CASE y = z + S
      <3>1. b = BufferOf(z) /\ z \in z .. z + S - 1 /\ ~(y <= z)
        BY <1>5, <2>1 DEF b
      <3>2. event[a]["MTE2_V"][b] = 0
        BY <1>6, <3>1
      <3> QED
        BY <1>4, <3>2
    <2>2. CASE y # z + S
      <3>1. y \in z .. z + S - 1
        BY <1>5, <1>6, <2>2
      <3> QED
        BY <1>4, <1>6, <3>1 DEF b
    <2> QED
      BY <2>1, <2>2
  <1>9. /\ at' \in [AIV -> [MTE2 : Nat, V : Nat, MTE3 : Nat]]
        /\ \A o \in AIV : o # a => at'[o] = at[o]
        /\ at'[a].MTE2 = x /\ at'[a].V = y + 1 /\ at'[a].MTE3 = z
    <2> DEFINE r == [MTE2 |-> x, V |-> y + 1, MTE3 |-> z]
    <2>1. at' = [at EXCEPT ![a] = r]
      <3>1. [at[a] EXCEPT !["V"] = y + 1] = r
        BY <1>1
      <3> QED
        BY <1>3, <1>4, <3>1
    <2>2. r \in [MTE2 : Nat, V : Nat, MTE3 : Nat] /\ r.MTE2 = x /\ r.V = y + 1 /\ r.MTE3 = z
      OBVIOUS
    <2> HIDE DEF r
    <2> QED
      BY <1>3, <2>1, <2>2, AtStep
  <1>10. /\ event' \in [AIV -> [Kinds -> [Buffers -> Int]]]
         /\ \A o \in AIV : o # a => event'[o] = event[o]
         /\ \A d \in Buffers :
              /\ event'[a]["MTE3_MTE2"][d] = event[a]["MTE3_MTE2"][d]
              /\ event'[a]["MTE2_V"][d] = IF d = b THEN event[a]["MTE2_V"][d] - 1 ELSE event[a]["MTE2_V"][d]
              /\ event'[a]["V_MTE3"][d] = IF d = b THEN event[a]["V_MTE3"][d] + 1 ELSE event[a]["V_MTE3"][d]
    <2>1. "MTE3_MTE2" \in Kinds /\ "MTE2_V" \in Kinds /\ "V_MTE3" \in Kinds
      BY DEF Kinds
    <2>2. Passed(a, "MTE2_V", "V_MTE3", b)
      BY <1>3, <1>4, <1>7, <2>1, EventStep
    <2> QED
      BY <2>1, <2>2 DEF Passed
  <1>11. /\ DOMAIN buffer' = AIV /\ \A o \in AIV : DOMAIN buffer'[o] = Buffers
         /\ \A o \in AIV : o # a => buffer'[o] = buffer[o]
         /\ \A d \in Buffers : buffer'[a][d] = IF d = b THEN sum ELSE buffer[a][d]
    BY <1>3, <1>4, <1>7
  <1>12. PipeInv(a)'
    <2>1. \A i \in Nat : BufferOf(i)' = BufferOf(i) /\ (Has(a, i)' <=> Has(a, i))
      BY <1>4, SumsSame
    <2>2. ASSUME NEW i \in z .. z + S - 1
          PROVE  /\ event'[a]["MTE3_MTE2"][BufferOf(i)] = IF x <= i THEN 1 ELSE 0
                 /\ event'[a]["MTE2_V"][BufferOf(i)] = IF y + 1 <= i /\ i < x THEN 1 ELSE 0
                 /\ event'[a]["V_MTE3"][BufferOf(i)] = IF i < y + 1 THEN 1 ELSE 0
      <3>1. i \in Nat /\ BufferOf(i) \in Buffers
        BY <1>5
      <3>2. y \in z .. z + S - 1
        BY <1>5, <1>6, <1>8
      <3>3. BufferOf(i) = b <=> i = y
        BY <1>5, <3>2 DEF b
      <3>4. CASE i = y
        BY <1>6, <1>8, <1>10, <3>1, <3>3, <3>4
      <3>5. CASE i # y
        BY <1>6, <1>10, <3>1, <3>3, <3>5
      <3> QED
        BY <3>4, <3>5
    <2>3. z <= y + 1 /\ y + 1 <= x /\ x <= z + S
      BY <1>6, <1>8
    <2>4. S' = S /\ aivPc'[a] = "reduce"
      BY <1>4 DEF S
    <2>5. \A i \in z .. z + S - 1 : i \in Nat
      BY <1>5
    <2> QED
      BY <1>6, <1>9, <2>1, <2>2, <2>3, <2>4, <2>5 DEF PipeInv, S
  <1>13. sum[0] = SumOf(t) /\ DOMAIN sum = {0}
    <2>1. LoadedRows(t, buffer[a][b])
      BY <1>2, <1>6, <1>8 DEF IInv, BufferInv, t, b
    <2>2. rows = SumOf(t)
      BY <2>1, RowsAddUp DEF rows
    <2> QED
      BY <2>2 DEF sum
  <1>14. BufferInv(a)'
    <2>1. /\ \A i : TileOf(a, i)' = TileOf(a, i) /\ BufferOf(i)' = BufferOf(i)
          /\ \A u : SumOf(u)' = SumOf(u)
          /\ \A u, contents : LoadedRows(u, contents)' <=> LoadedRows(u, contents)
      BY <1>4, SumsSame
    <2>2. \A i \in z .. x - 1 : BufferOf(i) \in Buffers /\ (BufferOf(i) = b <=> i = y)
      <3> SUFFICES ASSUME NEW i \in z .. x - 1 PROVE BufferOf(i) \in Buffers /\ (BufferOf(i) = b <=> i = y)
        OBVIOUS
      <3>1. i \in z .. z + S - 1 /\ y \in z .. z + S - 1 /\ i \in Nat
        BY <1>5, <1>6, <1>8
      <3> QED
        BY <1>5, <3>1 DEF b
    <2>3. ASSUME NEW i \in y + 1 .. x - 1 PROVE LoadedRows(TileOf(a, i), buffer'[a][BufferOf(i)])
      <3>1. i \in y .. x - 1 /\ i \in z .. x - 1 /\ i # y
        BY <1>6
      <3> QED
        BY <1>2, <1>11, <2>2, <3>1 DEF IInv, BufferInv
    <2>4. ASSUME NEW i \in z .. (y + 1) - 1 PROVE buffer'[a][BufferOf(i)][0] = SumOf(TileOf(a, i))
      <3>1. CASE i = y
        BY <1>7, <1>11, <1>13, <3>1 DEF t, b
      <3>2. CASE i # y
        <4>1. i \in z .. y - 1 /\ i \in z .. x - 1
          BY <1>6, <3>2
        <4> QED
          BY <1>2, <1>11, <2>2, <3>2, <4>1 DEF IInv, BufferInv
      <3> QED
        BY <3>1, <3>2
    <2>5. \A i \in Nat : i < z => <<a, TileOf(a, i), SumOf(TileOf(a, i))>> \in dst'
      BY <1>2, <1>4 DEF IInv, BufferInv
    <2> QED
      BY <1>9, <2>1, <2>3, <2>4, <2>5 DEF BufferInv
  <1>15. FitInv'
    <2>1. AIV' = AIV /\ Buffers' = Buffers /\ taskPerAiv' = taskPerAiv
      BY <1>4, Same
    <2>2. 0 + RoundUp(taskPerAiv, Align) <= ComputeLength
      <3>1. taskPerAiv \in Nat /\ Align \in Nat \ {0} /\ ComputeLength \in Nat
        BY <1>3, Positive, TileSize
      <3>2. loops \in Nat \ {0} /\ problem.splitkFactor \in Nat \ {0}
        BY <1>3, Positive, ElementInOneTile
      <3>3. 0 \in 0..(loops - 1) /\ 0 \in Slice
        BY <3>2 DEF Slice
      <3>4. /\ AddOffset(0, TileLen(0)) \in Nat
            /\ AddOffset(0, TileLen(0)) + RoundUp(taskPerAiv, Align) <= ComputeLength
        BY <1>3, <3>3, RowsLie
      <3>5. RoundUp(taskPerAiv, Align) \in Nat
        BY <3>1, Rounded
      <3> QED
        BY <3>1, <3>4, <3>5
    <2> QED
      BY <1>11, <1>13, <2>1, <2>2 DEF IInv, FitInv
  <1>16. DstInv'
    <2>1. AIV' = AIV /\ (\A o, i : TileOf(o, i)' = TileOf(o, i)) /\ \A u : SumOf(u)' = SumOf(u)
      BY <1>4, Same, SumsSame
    <2>2. \A o \in AIV : at'[o].MTE3 = at[o].MTE3
      BY <1>2, <1>9
    <2> QED
      BY <1>4, <2>1, <2>2 DEF IInv, DstInv
  <1> QED
    BY <1>4, <1>9, <1>10, <1>11, <1>12, <1>14, <1>15, <1>16, PipeStepFrame

\* MTE3 copies a sum out; its buffer is free for the tile stages further on.
LEMMA CopyOutStep ==
    ASSUME Assumptions, IInv, NEW a \in AIV, CopyOut(a)
    PROVE  IInv'
  <1>1. PICK x \in Nat, y \in Nat, z \in Nat : at[a] = [MTE2 |-> x, V |-> y, MTE3 |-> z]
    BY DEF IInv, TypeInv
  <1>2. at[a].MTE2 = x /\ at[a].V = y /\ at[a].MTE3 = z /\ at[a]["MTE3"] = z
    BY <1>1
  <1>3. /\ at \in [AIV -> [MTE2 : Nat, V : Nat, MTE3 : Nat]] /\ event \in [AIV -> [Kinds -> [Buffers -> Int]]]
        /\ DOMAIN buffer = AIV /\ \A o \in AIV : DOMAIN buffer[o] = Buffers
        /\ problem \in Problems
    BY DEF IInv, TypeInv
  <1> DEFINE b == BufferOf(z)
             t == TileOf(a, z)
             S == problem.stages
  <1>4. /\ problem' = problem /\ aicPc' = aicPc /\ loopIdx' = loopIdx /\ workspace' = workspace /\ finish' = finish
        /\ aivPc' = aivPc /\ buffer' = buffer
        /\ aivPc[a] = "reduce" /\ Has(a, z) /\ event[a]["V_MTE3"][b] > 0
        /\ event' = [event EXCEPT ![a]["V_MTE3"][b] = @ - 1, ![a]["MTE3_MTE2"][b] = @ + 1]
        /\ at' = [at EXCEPT ![a]["MTE3"] = z + 1]
        /\ dst' = dst \cup {<<a, t, buffer[a][b][0]>>}
    BY <1>2 DEF CopyOut, Step, aicVars
  <1>5. /\ S \in Nat \ {0} /\ \A i \in Nat : BufferOf(i) \in Buffers
        /\ \A i, j \in z .. z + S - 1 : BufferOf(i) = BufferOf(j) => i = j
        /\ BufferOf(z + S) = BufferOf(z)
    BY <1>3, BufferWindow
  <1>6. /\ z <= y /\ y <= x /\ x <= z + S
        /\ \A i \in Nat : i < x => Has(a, i)
        /\ \A i \in z .. z + S - 1 :
             /\ event[a]["MTE3_MTE2"][BufferOf(i)] = IF x <= i THEN 1 ELSE 0
             /\ event[a]["MTE2_V"][BufferOf(i)] = IF y <= i /\ i < x THEN 1 ELSE 0
             /\ event[a]["V_MTE3"][BufferOf(i)] = IF i < y THEN 1 ELSE 0
    BY <1>2, <1>4 DEF IInv, PipeInv
  <1>7. b \in Buffers
    BY <1>5
  <1> HIDE DEF b, S, t
  <1>8. z < y /\ z \in z .. z + S - 1
    <2>1. z \in z .. z + S - 1
      BY <1>5
    <2> QED
      BY <1>4, <1>6, <2>1 DEF b
  <1>9. /\ at' \in [AIV -> [MTE2 : Nat, V : Nat, MTE3 : Nat]]
        /\ \A o \in AIV : o # a => at'[o] = at[o]
        /\ at'[a].MTE2 = x /\ at'[a].V = y /\ at'[a].MTE3 = z + 1
    <2> DEFINE r == [MTE2 |-> x, V |-> y, MTE3 |-> z + 1]
    <2>1. at' = [at EXCEPT ![a] = r]
      <3>1. [at[a] EXCEPT !["MTE3"] = z + 1] = r
        BY <1>1
      <3> QED
        BY <1>3, <1>4, <3>1
    <2>2. r \in [MTE2 : Nat, V : Nat, MTE3 : Nat] /\ r.MTE2 = x /\ r.V = y /\ r.MTE3 = z + 1
      OBVIOUS
    <2> HIDE DEF r
    <2> QED
      BY <1>3, <2>1, <2>2, AtStep
  <1>10. /\ event' \in [AIV -> [Kinds -> [Buffers -> Int]]]
         /\ \A o \in AIV : o # a => event'[o] = event[o]
         /\ \A d \in Buffers :
              /\ event'[a]["MTE3_MTE2"][d] = IF d = b THEN event[a]["MTE3_MTE2"][d] + 1 ELSE event[a]["MTE3_MTE2"][d]
              /\ event'[a]["MTE2_V"][d] = event[a]["MTE2_V"][d]
              /\ event'[a]["V_MTE3"][d] = IF d = b THEN event[a]["V_MTE3"][d] - 1 ELSE event[a]["V_MTE3"][d]
    <2>1. "MTE3_MTE2" \in Kinds /\ "MTE2_V" \in Kinds /\ "V_MTE3" \in Kinds
      BY DEF Kinds
    <2>2. Passed(a, "V_MTE3", "MTE3_MTE2", b)
      BY <1>3, <1>4, <1>7, <2>1, EventStep
    <2> QED
      BY <2>1, <2>2 DEF Passed
  <1>11. PipeInv(a)'
    <2>1. \A i \in Nat : BufferOf(i)' = BufferOf(i) /\ (Has(a, i)' <=> Has(a, i))
      BY <1>4, SumsSame
    <2>2. ASSUME NEW i \in z + 1 .. z + 1 + S - 1
          PROVE  /\ event'[a]["MTE3_MTE2"][BufferOf(i)] = IF x <= i THEN 1 ELSE 0
                 /\ event'[a]["MTE2_V"][BufferOf(i)] = IF y <= i /\ i < x THEN 1 ELSE 0
                 /\ event'[a]["V_MTE3"][BufferOf(i)] = IF i < y THEN 1 ELSE 0
      <3>1. i \in Nat /\ BufferOf(i) \in Buffers
        BY <1>5
      \* The buffer given back is that of the number that enters the window.
      <3>2. CASE i = z + S
        <4>1. BufferOf(i) = b
          BY <1>5, <3>2 DEF b
        <4>2. /\ event[a]["MTE3_MTE2"][b] = 0 /\ event[a]["MTE2_V"][b] = 0 /\ event[a]["V_MTE3"][b] = 1
          BY <1>6, <1>8 DEF b
        <4>3. x <= i /\ ~(i < x) /\ ~(i < y)
          BY <1>5, <1>6, <3>2
        <4> QED
          BY <1>7, <1>10, <4>1, <4>2, <4>3
      <3>3. CASE i # z + S
        <4>1. i \in z .. z + S - 1 /\ i # z
          BY <1>5, <3>3
        <4>2. BufferOf(i) # b
          BY <1>5, <1>8, <4>1 DEF b
        <4> QED
          BY <1>6, <1>10, <3>1, <4>1, <4>2
      <3> QED
        BY <3>2, <3>3
    <2>3. z + 1 <= y /\ y <= x /\ x <= (z + 1) + S
      BY <1>5, <1>6, <1>8
    <2>4. S' = S /\ aivPc'[a] = "reduce"
      BY <1>4 DEF S
    <2>5. \A i \in z + 1 .. z + 1 + S - 1 : i \in Nat
      BY <1>5
    <2> QED
      BY <1>6, <1>9, <2>1, <2>2, <2>3, <2>4, <2>5 DEF PipeInv, S
  <1>12. buffer[a][b][0] = SumOf(t)
    BY <1>2, <1>8 DEF IInv, BufferInv, t, b
  <1>13. BufferInv(a)'
    <2>1. /\ \A i : TileOf(a, i)' = TileOf(a, i) /\ BufferOf(i)' = BufferOf(i)
          /\ \A u : SumOf(u)' = SumOf(u)
          /\ \A u, contents : LoadedRows(u, contents)' <=> LoadedRows(u, contents)
      BY <1>4, SumsSame
    <2>2. \A i \in y .. x - 1 : LoadedRows(TileOf(a, i), buffer'[a][BufferOf(i)])
      BY <1>2, <1>4 DEF IInv, BufferInv
    <2>3. ASSUME NEW i \in z + 1 .. y - 1 PROVE buffer'[a][BufferOf(i)][0] = SumOf(TileOf(a, i))
      <3>1. i \in z .. y - 1
        OBVIOUS
      <3> QED
        BY <1>2, <1>4, <3>1 DEF IInv, BufferInv
    <2>4. ASSUME NEW i \in Nat, i < z + 1 PROVE <<a, TileOf(a, i), SumOf(TileOf(a, i))>> \in dst'
      <3>1. CASE i = z
        BY <1>4, <1>12, <3>1 DEF t
      <3>2. CASE i # z
        <4>1. i < z
          BY <2>4, <3>2
        <4> QED
          BY <1>2, <1>4, <4>1 DEF IInv, BufferInv
      <3> QED
        BY <3>1, <3>2
    <2> QED
      BY <1>9, <2>1, <2>2, <2>3, <2>4 DEF BufferInv
  <1>14. DstInv'
    <2>1. AIV' = AIV /\ (\A o, i : TileOf(o, i)' = TileOf(o, i)) /\ \A u : SumOf(u)' = SumOf(u)
      BY <1>4, Same, SumsSame
    <2> SUFFICES ASSUME NEW d \in dst'
                 PROVE  \E o \in AIV : \E i \in Nat :
                            i < at'[o].MTE3 /\ d = <<o, TileOf(o, i), SumOf(TileOf(o, i))>>
      BY <2>1 DEF DstInv
    <2>2. CASE d \in dst
      <3>1. PICK o \in AIV, i \in Nat : i < at[o].MTE3 /\ d = <<o, TileOf(o, i), SumOf(TileOf(o, i))>>
        BY <2>2 DEF IInv, DstInv
      <3>2. i < at'[o].MTE3
        <4>1. CASE o = a
          BY <1>2, <1>9, <3>1, <4>1
        <4>2. CASE o # a
          BY <1>9, <3>1, <4>2
        <4> QED
          BY <4>1, <4>2
      <3> QED
        BY <3>1, <3>2
    <2>3. CASE d = <<a, t, buffer[a][b][0]>>
      <3>1. d = <<a, TileOf(a, z), SumOf(TileOf(a, z))>>
        BY <1>12, <2>3 DEF t
      <3>2. z < at'[a].MTE3
        BY <1>9
      <3> QED
        BY <3>1, <3>2
    <2> QED
      BY <1>4, <2>2, <2>3
  <1>15. FitInv'
    BY <1>4, FitFrame DEF IInv
  <1> QED
    BY <1>3, <1>4, <1>9, <1>10, <1>11, <1>13, <1>14, <1>15, PipeStepFrame

\* The last waits: when every buffer is free, all tiles are copied out.
LEMMA AivFinishStep ==
    ASSUME Assumptions, IInv, NEW a \in AIV, AivFinish(a)
    PROVE  IInv'
  <1>1. PICK x \in Nat, y \in Nat, z \in Nat : at[a] = [MTE2 |-> x, V |-> y, MTE3 |-> z]
    BY DEF IInv, TypeInv
  <1>2. at[a].MTE2 = x /\ at[a].V = y /\ at[a].MTE3 = z
    BY <1>1
  <1>3. /\ event \in [AIV -> [Kinds -> [Buffers -> Int]]]
        /\ aivPc \in [AIV -> {"wait", "arrive", "barrier", "reduce", "done"}]
        /\ problem \in Problems
    BY DEF IInv, TypeInv
  <1> DEFINE S == problem.stages
             kind == "MTE3_MTE2"
  <1>4. DOMAIN event[a][kind] = Buffers
    BY <1>3 DEF Kinds
  <1>5. /\ problem' = problem /\ aicPc' = aicPc /\ loopIdx' = loopIdx /\ workspace' = workspace /\ finish' = finish
        /\ at' = at /\ buffer' = buffer /\ dst' = dst
        /\ aivPc[a] = "reduce" /\ ~Has(a, x) /\ aivPc' = [aivPc EXCEPT ![a] = "done"]
        /\ \A b \in Buffers : event[a][kind][b] > 0
        /\ event' = [event EXCEPT ![a][kind] = [b \in Buffers |-> event[a][kind][b] - 1]]
    BY <1>2, <1>4 DEF AivFinish, aicVars
  <1>6. Core' = Core /\ Slice' = Slice /\ Element' = Element /\ AIV' = AIV /\ Buffers' = Buffers
    BY <1>5, Same
  <1>7. /\ S \in Nat \ {0} /\ \A i \in Nat : BufferOf(i) \in Buffers
        /\ \A i, j \in z .. z + S - 1 : BufferOf(i) = BufferOf(j) => i = j
        /\ BufferOf(z + S) = BufferOf(z)
    BY <1>3, BufferWindow
  <1>8. /\ z <= y /\ y <= x /\ x <= z + S
        /\ \A i \in Nat : i < x => Has(a, i)
        /\ \A i \in z .. z + S - 1 :
             /\ event[a]["MTE3_MTE2"][BufferOf(i)] = IF x <= i THEN 1 ELSE 0
             /\ event[a]["MTE2_V"][BufferOf(i)] = IF y <= i /\ i < x THEN 1 ELSE 0
             /\ event[a]["V_MTE3"][BufferOf(i)] = IF i < y THEN 1 ELSE 0
    BY <1>2, <1>5 DEF IInv, PipeInv
  <1> HIDE DEF S
  \* Every buffer has been copied out.
  <1>9. x = z /\ y = z
    <2>1. z \in z .. z + S - 1 /\ BufferOf(z) \in Buffers
      BY <1>7
    <2>2. x <= z
      BY <1>5, <1>8, <2>1
    <2> QED
      BY <1>8, <2>2
  <1>10. /\ event' \in [AIV -> [Kinds -> [Buffers -> Int]]]
         /\ \A o \in AIV : o # a => event'[o] = event[o]
         /\ event'[a]["MTE2_V"] = event[a]["MTE2_V"] /\ event'[a]["V_MTE3"] = event[a]["V_MTE3"]
         /\ \A b \in Buffers : event'[a]["MTE3_MTE2"][b] = event[a]["MTE3_MTE2"][b] - 1
    BY <1>3, <1>5 DEF Kinds
  <1>11. TypeInv'
    BY <1>3, <1>5, <1>6, <1>10 DEF IInv, TypeInv
  <1>12. StoreInv'
    BY <1>5, StoreFrame DEF IInv, StoreInv
  <1>13. FlagInv' /\ BarrierInv'
    BY <1>3, <1>5, <1>6 DEF IInv, FlagInv, BarrierInv, CoreOf
  <1>14. PipeInv(a)'
    <2>1. \A i \in Nat : BufferOf(i)' = BufferOf(i) /\ (Has(a, i)' <=> Has(a, i))
      BY <1>5, SumsSame
    <2>2. ASSUME NEW i \in z .. z + S - 1
          PROVE  /\ i \in Nat
                 /\ event'[a]["MTE3_MTE2"][BufferOf(i)] = 0
                 /\ event'[a]["MTE2_V"][BufferOf(i)] = 0
                 /\ event'[a]["V_MTE3"][BufferOf(i)] = 0
                 /\ ~(i < z)
      <3>1. i \in Nat /\ BufferOf(i) \in Buffers /\ x <= i /\ ~(i < x) /\ ~(i < y)
        BY <1>7, <1>9
      <3> QED
        BY <1>8, <1>9, <1>10, <3>1
    <2>3. S' = S /\ aivPc'[a] = "done"
      BY <1>3, <1>5 DEF S
    <2>4. at'[a].MTE2 = z /\ at'[a].V = z /\ at'[a].MTE3 = z
      BY <1>2, <1>5, <1>9
    <2>5. ~Has(a, z) /\ \A i \in Nat : i < z => Has(a, i)
      BY <1>5, <1>8, <1>9
    <2> QED
      BY <1>7, <2>1, <2>2, <2>3, <2>4, <2>5 DEF PipeInv, S
  <1>15. ASSUME NEW o \in AIV PROVE PipeInv(o)' /\ BufferInv(o)'
    <2>1. BufferInv(o)'
      BY <1>5, BufferFrame DEF IInv
    <2>2. CASE o = a
      BY <1>14, <2>1, <2>2
    <2>3. CASE o # a
      <3>1. aivPc'[o] = aivPc[o]
        BY <1>3, <1>5, <2>3
      <3> QED
        BY <1>5, <1>10, <2>1, <2>3, <3>1, PipeFrame DEF IInv
    <2> QED
      BY <2>2, <2>3
  <1>16. DstInv' /\ FitInv'
    BY <1>5, DstFrame, FitFrame DEF IInv
  <1> QED
    BY <1>6, <1>11, <1>12, <1>13, <1>15, <1>16 DEF IInv
-----------------------------------------------------------------------------
(* The theorems. *)

\* Nothing happens.
LEMMA Stutter ==
    ASSUME Assumptions, IInv, UNCHANGED vars
    PROVE  IInv'
  <1>1. /\ problem' = problem /\ aicPc' = aicPc /\ loopIdx' = loopIdx /\ workspace' = workspace /\ finish' = finish
        /\ aivPc' = aivPc /\ at' = at /\ event' = event /\ buffer' = buffer /\ dst' = dst
    BY DEF vars, aicVars, reduceVars
  <1>2. Core' = Core /\ Slice' = Slice /\ Element' = Element /\ AIV' = AIV /\ Buffers' = Buffers
    BY <1>1, Same
  <1>3. TypeInv'
    BY <1>1, <1>2 DEF IInv, TypeInv
  <1>4. StoreInv'
    BY <1>1, StoreFrame DEF IInv, StoreInv
  <1>5. FlagInv' /\ BarrierInv' /\ DstInv' /\ FitInv'
    BY <1>1, <1>2, DstFrame, FitFrame DEF IInv, FlagInv, BarrierInv, CoreOf
  <1>6. \A a \in AIV : PipeInv(a)' /\ BufferInv(a)'
    BY <1>1, PipeFrame, BufferFrame DEF IInv
  <1> QED
    BY <1>2, <1>3, <1>4, <1>5, <1>6 DEF IInv

\* The invariant holds of every behaviour: cores and pipes of the kernel keep
\* to it whatever the problem.
THEOREM InvariantHolds ==
    ASSUME Assumptions
    PROVE  Spec => []IInv
  <1>1. Init => IInv
    BY InitInv
  <1>2. IInv /\ [Next]_vars => IInv'
    <2> SUFFICES ASSUME IInv, [Next]_vars PROVE IInv'
      OBVIOUS
    <2>1. ASSUME NEW c \in Core, AicNext(c) PROVE IInv'
      <3>1. CASE AicBlock(c)
        BY <3>1, AicBlockStep
      <3>2. CASE AicSetFlag(c)
        BY <3>2, AicSetFlagStep
      <3> QED
        BY <2>1, <3>1, <3>2 DEF AicNext
    <2>2. ASSUME NEW a \in AIV, AivNext(a) PROVE IInv'
      <3>1. CASE AivWait(a)
        BY <3>1, AivWaitStep
      <3>2. CASE AivArrive(a)
        BY <3>2, AivArriveStep
      <3>3. CASE AivBarrier(a)
        BY <3>3, AivBarrierStep
      <3>4. CASE Load(a)
        BY <3>4, LoadStep
      <3>5. CASE Add(a)
        BY <3>5, AddStep
      <3>6. CASE CopyOut(a)
        BY <3>6, CopyOutStep
      <3>7. CASE AivFinish(a)
        BY <3>7, AivFinishStep
      <3> QED
        BY <2>2, <3>1, <3>2, <3>3, <3>4, <3>5, <3>6, <3>7 DEF AivNext
    <2>3. CASE UNCHANGED vars
      BY <2>3, Stutter
    <2> QED
      BY <2>1, <2>2, <2>3 DEF Next, Terminated
  <1> QED
    BY <1>1, <1>2, PTL DEF Spec

\* When all are done each tile was copied out, by the AIV it falls to.
LEMMA TilesDone ==
    ASSUME Assumptions, IInv, AllDone, NEW e \in Element
    PROVE  Cardinality({d \in dst : e \in Elements(d[2])}) = 1
  <1> DEFINE t == e \div taskPerAiv
             N == aivNum
             a == t % N
             i == t \div N
  <1>1. problem \in Problems
    BY DEF IInv, TypeInv
  <1>2. N \in Nat \ {0} /\ AIV = 0..(N - 1)
    BY <1>1, Positive DEF AIV
  <1>3. /\ loops \in Nat \ {0} /\ t \in 0..(loops - 1) /\ e \in Elements(t)
        /\ \A u \in 0..(loops - 1) : e \in Elements(u) => u = t
    BY <1>1, ElementInOneTile
  <1> HIDE DEF t
  <1>4. t \in Nat /\ i \in Nat /\ a \in 0..(N - 1) /\ t = N * i + a
    <2>1. t \in Nat
      BY <1>3
    <2> QED
      BY <1>2, <2>1, DivMod
  <1> HIDE DEF N, a, i
  <1>5. a \in AIV /\ TileOf(a, i) = t
    <2>1. i * N = N * i /\ i * N \in Nat
      BY <1>2, <1>4
    <2>2. TileOf(a, i) = a + i * N
      BY DEF TileOf, N
    <2> QED
      BY <1>2, <1>4, <2>1, <2>2
  <1>6. \A o \in AIV : \A j \in Nat : TileOf(o, j) = t => o = a
    <2> SUFFICES ASSUME NEW o \in AIV, NEW j \in Nat, TileOf(o, j) = t PROVE o = a
      OBVIOUS
    <2>1. o + j * N = t /\ o \in 0..(N - 1)
      BY <1>2 DEF TileOf, N
    <2>2. (N * j + o) % N = o /\ (N * i + a) % N = a
      BY <1>2, <1>4, <2>1, DivOf
    <2>3. N * j + o = t
      BY <1>2, <2>1
    <2> QED
      BY <1>4, <2>2, <2>3
  <1>7. \A o \in AIV : \A j \in Nat : j < at[o].MTE3 => TileOf(o, j) \in 0..(loops - 1)
    <2> SUFFICES ASSUME NEW o \in AIV, NEW j \in Nat, j < at[o].MTE3 PROVE TileOf(o, j) \in 0..(loops - 1)
      OBVIOUS
    <2>1. at[o].MTE3 <= at[o].MTE2 /\ at[o].MTE3 \in Nat /\ at[o].MTE2 \in Nat
      BY DEF IInv, TypeInv, PipeInv
    <2>2. Has(o, j)
      BY <2>1 DEF IInv, PipeInv
    <2>3. TileOf(o, j) = o + j * N /\ o \in Nat /\ j * N \in Nat
      BY <1>2 DEF TileOf, N
    <2> QED
      BY <1>3, <2>2, <2>3 DEF Has
  <1>8. i < at[a].MTE3
    <2> DEFINE x == at[a].MTE2
    <2>1. x = at[a].MTE3 /\ ~Has(a, x) /\ x \in Nat
      BY <1>5 DEF IInv, TypeInv, PipeInv, AllDone
    <2> HIDE DEF x
    <2> SUFFICES ASSUME x <= i PROVE FALSE
      BY <1>4, <2>1
    <2>2. x * N <= i * N /\ i * N = N * i /\ x * N \in Nat
      BY <1>2, <1>4, <2>1
    <2>3. a + x * N >= loops
      <3>1. ~(a + x * N < loops)
        BY <2>1 DEF Has, TileOf, N
      <3> QED
        BY <1>2, <1>3, <1>4, <2>2, <3>1
    <2> QED
      BY <1>2, <1>3, <1>4, <2>2, <2>3
  <1> DEFINE it == <<a, t, SumOf(t)>>
  <1>9. it \in dst /\ it[2] = t
    BY <1>4, <1>5, <1>8 DEF IInv, BufferInv
  <1>10. ASSUME NEW d \in dst, e \in Elements(d[2]) PROVE d = it
    <2>1. PICK o \in AIV, j \in Nat : j < at[o].MTE3 /\ d = <<o, TileOf(o, j), SumOf(TileOf(o, j))>>
      BY DEF IInv, DstInv
    <2>2. d[2] = TileOf(o, j)
      BY <2>1
    <2>3. TileOf(o, j) = t
      BY <1>3, <1>7, <1>10, <2>1, <2>2
    <2> QED
      BY <1>6, <2>1, <2>3
  <1>11. {d \in dst : e \in Elements(d[2])} = {it}
    BY <1>3, <1>9, <1>10
  <1> QED
    BY <1>11, FS_Singleton

\* Every element of C is written by one AIV, and what is written is the sum
\* over each k once: ResultWhole of SplitkMatmul.
THEOREM ResultWholeHolds ==
    ASSUME Assumptions
    PROVE  Spec => []ResultWhole
  <1>1. IInv => ResultWhole
    <2> SUFFICES ASSUME IInv, AllDone
                 PROVE  /\ \A e \in Element : Cardinality({d \in dst : e \in Elements(d[2])}) = 1
                        /\ \A d \in dst : Whole(d[2], d[3])
      BY DEF ResultWhole
    <2>1. ASSUME NEW d \in dst PROVE Whole(d[2], d[3])
      <3>1. PICK o \in AIV, j \in Nat : d = <<o, TileOf(o, j), SumOf(TileOf(o, j))>>
        BY DEF IInv, DstInv
      <3>2. d[2] = TileOf(o, j) /\ d[3] = SumOf(TileOf(o, j)) /\ problem \in Problems
        BY <3>1 DEF IInv, TypeInv
      <3> QED
        BY <3>2, SumWhole
    <2> QED
      BY <2>1, TilesDone
  <1> QED
    BY <1>1, InvariantHolds, PTL

\* The rows of all slices fit the buffer: RowsFitBuffer of SplitkMatmul.
THEOREM RowsFitBufferHolds ==
    ASSUME Assumptions
    PROVE  Spec => []RowsFitBuffer
  <1>1. IInv => RowsFitBuffer
    BY DEF IInv, FitInv, RowsFitBuffer, Buffers
  <1> QED
    BY <1>1, InvariantHolds, PTL

\* A core that returns leaves the flag and all events cleared, whether it had
\* blocks or tiles or none: Cleared of SplitkMatmul.
THEOREM ClearedAtExit ==
    ASSUME Assumptions
    PROVE  Spec => [](AllDone => Cleared)
  <1>1. IInv /\ AllDone => Cleared
    <2> SUFFICES ASSUME IInv, AllDone, NEW a \in AIV
                 PROVE  /\ finish[a] = 0
                        /\ \A kind \in DOMAIN event[a] : \A b \in DOMAIN event[a][kind] : event[a][kind][b] = 0
      BY DEF Cleared
    <2>1. aivPc[a] = "done"
      BY DEF AllDone
    <2>2. finish[a] = 0
      BY <2>1 DEF IInv, FlagInv
    <2>3. DOMAIN event[a] = Kinds /\ \A kind \in Kinds : DOMAIN event[a][kind] = Buffers
      BY DEF IInv, TypeInv
    <2>4. ASSUME NEW b \in Buffers
          PROVE  event[a]["MTE3_MTE2"][b] = 0 /\ event[a]["MTE2_V"][b] = 0 /\ event[a]["V_MTE3"][b] = 0
      <3>1. PICK z \in Nat : at[a].MTE3 = z /\ problem \in Problems
        BY DEF IInv, TypeInv
      <3>2. PICK i \in z .. z + problem.stages - 1 : BufferOf(i) = b
        BY <3>1, BufferWindow
      <3>3. at[a].MTE2 = z /\ at[a].V = z /\ i >= z /\ i \in Nat
        <4>1. problem.stages \in Nat
          BY <3>1, Positive
        <4>2. at[a].MTE2 \in Nat /\ at[a].V \in Nat
          BY DEF IInv, TypeInv
        <4> QED
          BY <2>1, <3>1, <4>1, <4>2 DEF IInv, PipeInv
      <3> QED
        BY <2>1, <3>1, <3>2, <3>3 DEF IInv, PipeInv
    <2> QED
      BY <2>2, <2>3, <2>4 DEF Kinds
  <1> QED
    BY <1>1, InvariantHolds, PTL
=============================================================================
