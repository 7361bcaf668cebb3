------------------------- MODULE BlockSwizzleProofs -------------------------
(***************************************************************************)
(* What the schedulers of BlockSwizzle compute, for every problem: the     *)
(* slices of split-K divide the k tiles, the order of blocks is a          *)
(* bijection, and of the tasks divided among the cores none is lost and    *)
(* none is taken twice.                                                    *)
(***************************************************************************)
EXTENDS BlockSwizzle, TLAPS


\* Division with remainder.
LEMMA DivMod ==
    ASSUME NEW a \in Nat, NEW d \in Nat \ {0}
    PROVE  /\ a \div d \in Nat /\ a % d \in 0..(d - 1)
           /\ a = d * (a \div d) + (a % d)
  OBVIOUS

\* What is d q + x, divided by d.
LEMMA DivOf ==
    ASSUME NEW d \in Nat \ {0}, NEW q \in Nat, NEW x \in 0..(d - 1)
    PROVE  (d * q + x) \div d = q /\ (d * q + x) % d = x
  <1> DEFINE a == d * q + x
  <1>1. a \in Nat
    OBVIOUS
  <1>2. /\ a \div d \in Nat /\ a % d \in 0..(d - 1)
        /\ a = d * (a \div d) + (a % d)
    BY <1>1, DivMod
  <1>3. ~(a \div d < q)
    <2> SUFFICES ASSUME a \div d + 1 <= q PROVE FALSE
      BY <1>2
    <2>1. d * (a \div d + 1) <= d * q
      BY <1>2
    <2> QED
      BY <1>2, <2>1
  <1>4. ~(q < a \div d)
    <2> SUFFICES ASSUME q + 1 <= a \div d PROVE FALSE
      BY <1>2
    <2>1. d * (q + 1) <= d * (a \div d)
      BY <1>2
    <2> QED
      BY <1>2, <2>1
  <1>5. a \div d = q
    BY <1>2, <1>3, <1>4
  <1> QED
    BY <1>2, <1>5
-----------------------------------------------------------------------------
(* Slices of k. *)

\* The two cases of a slice without division: q tiles each, and one more for
\* the first r slices.
LEMMA SliceCases ==
    ASSUME NEW kLoops \in Nat, NEW f \in Nat \ {0}
    PROVE  \E q \in Nat : \E r \in 0..(f - 1) :
             /\ kLoops = f * q + r
             /\ \A s \in 0..f :
                   /\ GetKIdxBySplitkSliceIdx(s, kLoops, f) = IF s < r THEN (q + 1) * s ELSE s * q + r
                   /\ SplitkSliceTiles(s, kLoops, f) = IF s < r THEN q + 1 ELSE q
  <1> DEFINE q == kLoops \div f
             r == kLoops % f
  <1>1. q \in Nat /\ r \in 0..(f - 1) /\ kLoops = f * q + r
    BY DivMod
  <1>2. \A s \in 0..f :
          /\ GetKIdxBySplitkSliceIdx(s, kLoops, f) = IF s < r THEN (q + 1) * s ELSE s * q + r
          /\ SplitkSliceTiles(s, kLoops, f) = IF s < r THEN q + 1 ELSE q
    BY DEF GetKIdxBySplitkSliceIdx, SplitkSliceTiles
  <1> HIDE DEF q, r
  <1> QED
    BY <1>1, <1>2

\* The slices begin at 0, each where the one before ends, and end with k
\* (GetKIdxBySplitkSliceIdx against the lengths GetActualBlockShape gives).
THEOREM SlicesAbut ==
    ASSUME NEW kLoops \in Nat, NEW f \in Nat \ {0}
    PROVE  /\ GetKIdxBySplitkSliceIdx(0, kLoops, f) = 0
           /\ \A s \in 0..(f - 1) :
                 GetKIdxBySplitkSliceIdx(s + 1, kLoops, f) =
                     GetKIdxBySplitkSliceIdx(s, kLoops, f) + SplitkSliceTiles(s, kLoops, f)
           /\ GetKIdxBySplitkSliceIdx(f, kLoops, f) = kLoops
  <1>1. PICK q \in Nat, r \in 0..(f - 1) :
             /\ kLoops = f * q + r
             /\ \A s \in 0..f :
                   /\ GetKIdxBySplitkSliceIdx(s, kLoops, f) = IF s < r THEN (q + 1) * s ELSE s * q + r
                   /\ SplitkSliceTiles(s, kLoops, f) = IF s < r THEN q + 1 ELSE q
    BY SliceCases
  <1>2. GetKIdxBySplitkSliceIdx(0, kLoops, f) = 0
    BY <1>1
  <1>3. ASSUME NEW s \in 0..(f - 1)
        PROVE  GetKIdxBySplitkSliceIdx(s + 1, kLoops, f) =
                   GetKIdxBySplitkSliceIdx(s, kLoops, f) + SplitkSliceTiles(s, kLoops, f)
    <2>1. s + 1 \in 0..f /\ s \in 0..f
      OBVIOUS
    <2>2. CASE s + 1 < r
      <3>1. (q + 1) * (s + 1) = (q + 1) * s + (q + 1)
        OBVIOUS
      <3> QED
        BY <1>1, <2>1, <2>2, <3>1
    <2>3. CASE s + 1 = r
      <3>1. (s + 1) * q + (s + 1) = (q + 1) * s + (q + 1)
        OBVIOUS
      <3> QED
        BY <1>1, <2>1, <2>3, <3>1
    <2>4. CASE r < s + 1
      <3>1. (s + 1) * q + r = (s * q + r) + q
        OBVIOUS
      <3> QED
        BY <1>1, <2>1, <2>4, <3>1
    <2> QED
      BY <2>2, <2>3, <2>4
  <1>4. GetKIdxBySplitkSliceIdx(f, kLoops, f) = kLoops
    BY <1>1
  <1> QED
    BY <1>2, <1>3, <1>4

\* A k tile is in exactly one slice.
LEMMA SliceOfTile ==
    ASSUME NEW kLoops \in Nat, NEW f \in Nat \ {0}, NEW t \in 0..(kLoops - 1)
    PROVE  \E s \in 0..(f - 1) :
             /\ GetKIdxBySplitkSliceIdx(s, kLoops, f) <= t
             /\ t < GetKIdxBySplitkSliceIdx(s, kLoops, f) + SplitkSliceTiles(s, kLoops, f)
             /\ \A o \in 0..(f - 1) :
                   /\ GetKIdxBySplitkSliceIdx(o, kLoops, f) <= t
                   /\ t < GetKIdxBySplitkSliceIdx(o, kLoops, f) + SplitkSliceTiles(o, kLoops, f)
                   => o = s
  <1>1. PICK q \in Nat, r \in 0..(f - 1) :
             /\ kLoops = f * q + r
             /\ \A s \in 0..f :
                   /\ GetKIdxBySplitkSliceIdx(s, kLoops, f) = IF s < r THEN (q + 1) * s ELSE s * q + r
                   /\ SplitkSliceTiles(s, kLoops, f) = IF s < r THEN q + 1 ELSE q
    BY SliceCases
  <1> DEFINE First(s) == IF s < r THEN (q + 1) * s ELSE s * q + r
             Tiles(s) == IF s < r THEN q + 1 ELSE q
  <1>2. \A s \in 0..(f - 1) :
          /\ GetKIdxBySplitkSliceIdx(s, kLoops, f) = First(s)
          /\ SplitkSliceTiles(s, kLoops, f) = Tiles(s)
    BY <1>1
  <1>3. \E s \in 0..(f - 1) : First(s) <= t /\ t < First(s) + Tiles(s)
    <2>1. CASE t < r * (q + 1)
      <3> DEFINE s == t \div (q + 1)
      <3>1. s \in Nat /\ t % (q + 1) \in 0..q /\ t = (q + 1) * s + (t % (q + 1))
        <4>1. q + 1 \in Nat \ {0} /\ t \in Nat
          OBVIOUS
        <4>2. t % (q + 1) \in 0..((q + 1) - 1)
          BY <4>1, DivMod
        <4>3. s \in Nat /\ t = (q + 1) * s + (t % (q + 1))
          BY <4>1, DivMod
        <4>4. (q + 1) - 1 = q
          OBVIOUS
        <4> QED
          BY <4>2, <4>3, <4>4, Zenon
      <3>2. s < r
        <4> SUFFICES ASSUME r <= s PROVE FALSE
          BY <3>1
        <4> HIDE DEF s
        <4>1. r * (q + 1) <= s * (q + 1)
          BY <3>1
        <4>2. (q + 1) * s = s * (q + 1)
          BY <3>1
        <4> QED
          BY <2>1, <3>1, <4>1, <4>2
      <3> HIDE DEF s
      <3>3. s \in 0..(f - 1) /\ First(s) = (q + 1) * s /\ Tiles(s) = q + 1
        BY <3>1, <3>2
      <3>4. First(s) <= t /\ t < First(s) + Tiles(s)
        <4> HIDE DEF First, Tiles
        <4> QED
          BY <3>1, <3>3
      <3> HIDE DEF First, Tiles
      <3> QED
        BY <3>3, <3>4
    <2>2. CASE r * (q + 1) <= t
      <3> DEFINE u == t - r * (q + 1)
                 d == u \div q
      <3>1. u \in Nat /\ t = r * (q + 1) + u
        BY <2>2
      <3>2. u < (f - r) * q
        <4>1. (f - r) * q + r * (q + 1) = f * q + r
          OBVIOUS
        <4> QED
          BY <1>1, <4>1
      <3>3. q # 0
        BY <3>1, <3>2
      <3>4. d \in Nat /\ u % q \in 0..(q - 1) /\ u = q * d + (u % q)
        <4> HIDE DEF u
        <4> QED
          BY <3>1, <3>3, DivMod
      <3> HIDE DEF u, d
      <3>5. d < f - r
        <4> SUFFICES ASSUME f - r <= d PROVE FALSE
          BY <3>4
        <4>1. (f - r) * q <= d * q
          BY <3>4
        <4>2. q * d = d * q
          BY <3>4
        <4> QED
          BY <3>1, <3>2, <3>4, <4>1, <4>2
      <3>6. First(r + d) = r * (q + 1) + q * d
        <4>1. (r + d) * q + r = r * (q + 1) + q * d
          BY <3>4
        <4> QED
          BY <3>4, <4>1
      <3>7. Tiles(r + d) = q /\ r + d \in 0..(f - 1)
        BY <3>4, <3>5
      <3>8. First(r + d) <= t /\ t < First(r + d) + Tiles(r + d)
        <4> HIDE DEF First, Tiles
        <4> QED
          BY <3>1, <3>4, <3>6, <3>7
      <3> HIDE DEF First, Tiles
      <3> QED
        BY <3>7, <3>8
    <2> QED
      BY <2>1, <2>2
  <1>4. ASSUME NEW s \in 0..(f - 1), NEW o \in 0..(f - 1), s < o
        PROVE  First(s) + Tiles(s) <= First(o)
    <2>1. CASE o < r
      <3>1. (q + 1) * (s + 1) <= (q + 1) * o
        BY <1>4
      <3>2. (q + 1) * (s + 1) = (q + 1) * s + (q + 1)
        OBVIOUS
      <3> QED
        BY <1>4, <2>1, <3>1, <3>2
    <2>2. CASE s < r /\ r <= o
      <3>1. (q + 1) * (s + 1) <= (q + 1) * r
        BY <2>2
      <3>2. (q + 1) * (s + 1) = (q + 1) * s + (q + 1)
        OBVIOUS
      <3>3. r * q <= o * q /\ (q + 1) * r = r * q + r
        BY <2>2
      <3> QED
        BY <2>2, <3>1, <3>2, <3>3
    <2>3. CASE r <= s
      <3>1. (s + 1) * q <= o * q
        BY <1>4
      <3>2. (s + 1) * q = s * q + q
        OBVIOUS
      <3> QED
        BY <1>4, <2>3, <3>1, <3>2
    <2> QED
      BY <2>1, <2>2, <2>3
  <1>5. \A s \in 0..(f - 1) : First(s) \in Nat /\ Tiles(s) \in Nat
    OBVIOUS
  <1> HIDE DEF First, Tiles
  <1>6. PICK s \in 0..(f - 1) : First(s) <= t /\ t < First(s) + Tiles(s)
    BY <1>3
  <1>7. ASSUME NEW o \in 0..(f - 1), First(o) <= t, t < First(o) + Tiles(o)
        PROVE  o = s
    <2>1. CASE s < o
      BY <1>4, <1>5, <1>6, <1>7, <2>1
    <2>2. CASE o < s
      BY <1>4, <1>5, <1>6, <1>7, <2>2
    <2> QED
      BY <2>1, <2>2
  <1> QED
    BY <1>2, <1>6, <1>7

\* All slices have a tile exactly when there are no more slices than tiles: the
\* slices the scheduler cuts when the factor is larger end in empty ones.
LEMMA SlicesWithTiles ==
    ASSUME NEW kLoops \in Nat, NEW f \in Nat \ {0}
    PROVE  (\A s \in 0..(f - 1) : SplitkSliceTiles(s, kLoops, f) > 0) <=> f <= kLoops
  <1>1. PICK q \in Nat, r \in 0..(f - 1) :
             /\ kLoops = f * q + r
             /\ \A s \in 0..f :
                   /\ GetKIdxBySplitkSliceIdx(s, kLoops, f) = IF s < r THEN (q + 1) * s ELSE s * q + r
                   /\ SplitkSliceTiles(s, kLoops, f) = IF s < r THEN q + 1 ELSE q
    BY SliceCases
  <1>2. CASE q = 0
    <2>1. f * q = 0
      BY <1>2
    <2>2. ~(f <= kLoops)
      BY <1>1, <2>1
    <2>3. f - 1 \in 0..(f - 1) /\ f - 1 \in 0..f /\ ~(f - 1 < r)
      BY <1>1
    <2>4. SplitkSliceTiles(f - 1, kLoops, f) = 0
      BY <1>1, <1>2, <2>3
    <2>5. ~(SplitkSliceTiles(f - 1, kLoops, f) > 0)
      BY <2>4
    <2> QED
      BY <2>2, <2>3, <2>5
  <1>3. CASE q >= 1
    <2>1. f * 1 <= f * q
      BY <1>3
    <2>2. f <= kLoops
      BY <1>1, <2>1
    <2>3. \A s \in 0..(f - 1) : SplitkSliceTiles(s, kLoops, f) > 0
      BY <1>1, <1>3
    <2> QED
      BY <2>2, <2>3
  <1> QED
    BY <1>1, <1>2, <1>3

\* Every k tile is in exactly one slice, so the summands the reduction adds have
\* each k tile once however large the problem; and no slice is empty exactly
\* when the factor is at most the number of tiles.
THEOREM TileInOneSlice ==
    ASSUME NEW kLoops \in Nat, NEW f \in Nat \ {0}
    PROVE  /\ \A t \in 0..(kLoops - 1) : \E s \in 0..(f - 1) :
                 /\ GetKIdxBySplitkSliceIdx(s, kLoops, f) <= t
                 /\ t < GetKIdxBySplitkSliceIdx(s, kLoops, f) + SplitkSliceTiles(s, kLoops, f)
                 /\ \A o \in 0..(f - 1) :
                       /\ GetKIdxBySplitkSliceIdx(o, kLoops, f) <= t
                       /\ t < GetKIdxBySplitkSliceIdx(o, kLoops, f) + SplitkSliceTiles(o, kLoops, f)
                       => o = s
           /\ (\A s \in 0..(f - 1) : SplitkSliceTiles(s, kLoops, f) > 0) <=> f <= kLoops
  BY SliceOfTile, SlicesWithTiles
-----------------------------------------------------------------------------
(* The way through the blocks of C. *)

Height(band, rows, offset) == IF band = CeilDiv(rows, offset) - 1 THEN rows - offset * band ELSE offset

\* The bands cover the rows, and the last one begins before their end.
LEMMA Bands ==
    ASSUME NEW rows \in Nat \ {0}, NEW offset \in Nat \ {0}
    PROVE  /\ CeilDiv(rows, offset) \in Nat
           /\ rows <= offset * CeilDiv(rows, offset)
           /\ offset * (CeilDiv(rows, offset) - 1) < rows
  <1> DEFINE a == rows + offset - 1
             n == a \div offset
  <1>1. a \in Nat
    OBVIOUS
  <1>2. n \in Nat /\ a % offset \in 0..(offset - 1) /\ a = offset * n + (a % offset)
    <2> HIDE DEF a
    <2> QED
      BY <1>1, DivMod
  <1>3. CeilDiv(rows, offset) = n
    BY DEF CeilDiv
  <1>4. a = rows + offset - 1
    OBVIOUS
  <1> HIDE DEF a, n
  <1>5. offset * (n - 1) = offset * n - offset
    BY <1>2
  <1> QED
    BY <1>2, <1>3, <1>4, <1>5

\* A band within the rows has between one and offset rows, all of them rows.
LEMMA BandInside ==
    ASSUME NEW rows \in Nat \ {0}, NEW offset \in Nat \ {0},
           NEW band \in Nat, band < CeilDiv(rows, offset)
    PROVE  /\ Height(band, rows, offset) \in 1..offset
           /\ band * offset + Height(band, rows, offset) <= rows
  <1> DEFINE n == CeilDiv(rows, offset)
  <1>1. n \in Nat /\ rows <= offset * n /\ offset * (n - 1) < rows
    BY Bands
  <1>2. Height(band, rows, offset) = IF band = n - 1 THEN rows - offset * band ELSE offset
    BY DEF Height
  <1>3. band < n
    OBVIOUS
  <1> HIDE DEF n
  <1>4. band * offset = offset * band
    OBVIOUS
  <1>5. CASE band = n - 1
    <2>1. offset * n = offset * band + offset
      BY <1>1, <1>5
    <2>2. offset * band < rows
      BY <1>1, <1>5
    <2>3. offset * band \in Nat
      OBVIOUS
    <2> QED
      BY <1>2, <1>4, <1>5, <1>1, <2>1, <2>2, <2>3
  <1>6. CASE band < n - 1
    <2>1. offset * (band + 1) <= offset * (n - 1)
      BY <1>1, <1>6
    <2>2. offset * (band + 1) = offset * band + offset
      OBVIOUS
    <2>3. offset * band \in Nat /\ offset * (n - 1) \in Int
      BY <1>1
    <2> QED
      BY <1>1, <1>2, <1>4, <1>6, <2>1, <2>2, <2>3
  <1> QED
    BY <1>1, <1>3, <1>5, <1>6

\* Position i is row x of a column of a band.
IsPosition(i, band, column, x, rows, columns, offset) ==
    /\ band < CeilDiv(rows, offset)
    /\ x < Height(band, rows, offset)
    /\ i = band * (offset * columns) + (Height(band, rows, offset) * column + x)
    /\ Snake(i, rows, columns, offset) =
         [row |-> band * offset + x,
          column |-> IF band % 2 = 1 THEN columns - column - 1 ELSE column]

\* Every position is one.
LEMMA SnakeParts ==
    ASSUME NEW rows \in Nat \ {0}, NEW columns \in Nat \ {0}, NEW offset \in Nat \ {0},
           NEW i \in 0..(rows * columns - 1)
    PROVE  \E band \in Nat, column \in 0..(columns - 1), x \in Nat :
             IsPosition(i, band, column, x, rows, columns, offset)
  <1> DEFINE d == offset * columns
             band == i \div d
             inBand == i % d
             n == CeilDiv(rows, offset)
             h == Height(band, rows, offset)
  <1>1. d \in Nat \ {0} /\ i \in Nat /\ rows * columns \in Nat
    OBVIOUS
  <1>2. band \in Nat /\ inBand \in 0..(d - 1) /\ i = d * band + inBand
    <2> HIDE DEF d
    <2> QED
      BY <1>1, DivMod
  <1>3. n \in Nat /\ rows <= offset * n
    BY Bands
  <1>4. band < n
    <2> SUFFICES ASSUME n <= band PROVE FALSE
      BY <1>2, <1>3
    <2> HIDE DEF band, n, inBand
    <2>1. offset * n <= offset * band
      BY <1>2, <1>3
    <2>2. rows <= offset * band
      BY <1>2, <1>3, <2>1
    <2>3. rows * columns <= (offset * band) * columns
      BY <1>2, <2>2
    <2>4. (offset * band) * columns = d * band
      BY <1>2
    <2> QED
      BY <1>1, <1>2, <2>3, <2>4
  <1>5. h \in 1..offset /\ band * offset + h <= rows
    <2> HIDE DEF band
    <2> QED
      BY <1>2, <1>4, BandInside
  <1>6. inBand < h * columns
    <2>1. CASE band = n - 1
      <3>1. h = rows - offset * band
        BY <2>1 DEF Height
      <3> HIDE DEF band, h, n, inBand
      <3>2. h * columns = rows * columns - d * band
        BY <1>2, <3>1
      <3> QED
        BY <1>1, <1>2, <3>2
    <2>2. CASE band # n - 1
      <3>1. h = offset
        BY <2>2 DEF Height
      <3> HIDE DEF band, h, n, inBand
      <3> QED
        BY <1>2, <3>1
    <2> QED
      BY <2>1, <2>2
  <1> DEFINE column == inBand \div h
             x == inBand % h
  <1>7. column \in Nat /\ x \in 0..(h - 1) /\ inBand = h * column + x
    <2> HIDE DEF inBand, h, d
    <2>1. inBand \in Nat /\ h \in Nat \ {0}
      BY <1>1, <1>2, <1>5
    <2> QED
      BY <2>1, DivMod
  <1>8. column < columns
    <2> SUFFICES ASSUME columns <= column PROVE FALSE
      BY <1>7
    <2> HIDE DEF inBand, h, d, column, x
    <2>1. h * columns <= h * column
      BY <1>5, <1>7
    <2> QED
      BY <1>1, <1>2, <1>5, <1>6, <1>7, <2>1
  <1>9. Snake(i, rows, columns, offset) =
          [row |-> band * offset + x,
           column |-> IF band % 2 = 1 THEN columns - column - 1 ELSE column]
    BY DEF Snake, Height
  <1>10. i = band * (offset * columns) + (h * column + x)
    <2>1. i = band * d + (h * column + x)
      <3> HIDE DEF d, band, inBand, h, column, x
      <3>1. d * band = band * d
        BY <1>1, <1>2
      <3> QED
        BY <1>2, <1>7, <3>1
    <2> QED
      BY <2>1
  <1>11. column \in 0..(columns - 1) /\ x \in Nat /\ x < h
    <2> HIDE DEF column, x, h
    <2> QED
      BY <1>5, <1>7, <1>8
  <1>12. IsPosition(i, band, column, x, rows, columns, offset)
    BY <1>4, <1>9, <1>10, <1>11 DEF IsPosition
  <1> HIDE DEF d, inBand, band, column, x
  <1> QED
    BY <1>2, <1>11, <1>12

\* What a scheduler gives for a task within the grid is a block of the grid.
THEOREM SnakeInside ==
    ASSUME NEW rows \in Nat \ {0}, NEW columns \in Nat \ {0}, NEW offset \in Nat \ {0},
           NEW i \in 0..(rows * columns - 1)
    PROVE  Snake(i, rows, columns, offset) \in [row : 0..(rows - 1), column : 0..(columns - 1)]
  <1>1. PICK band \in Nat, column \in 0..(columns - 1), x \in Nat :
             IsPosition(i, band, column, x, rows, columns, offset)
    BY SnakeParts
  <1>2. Height(band, rows, offset) \in 1..offset /\ band * offset + Height(band, rows, offset) <= rows
    BY <1>1, BandInside DEF IsPosition
  <1>3. band * offset + x \in 0..(rows - 1)
    <2>1. band * offset \in Nat
      OBVIOUS
    <2> QED
      BY <1>1, <1>2, <2>1 DEF IsPosition
  <1> QED
    BY <1>1, <1>3 DEF IsPosition

\* No block is given to two tasks.
THEOREM SnakeInjective ==
    ASSUME NEW rows \in Nat \ {0}, NEW columns \in Nat \ {0}, NEW offset \in Nat \ {0},
           NEW i \in 0..(rows * columns - 1), NEW j \in 0..(rows * columns - 1),
           Snake(i, rows, columns, offset) = Snake(j, rows, columns, offset)
    PROVE  i = j
  <1>1. PICK band \in Nat, column \in 0..(columns - 1), x \in Nat :
             IsPosition(i, band, column, x, rows, columns, offset)
    BY SnakeParts
  <1>2. PICK bandJ \in Nat, columnJ \in 0..(columns - 1), xJ \in Nat :
             IsPosition(j, bandJ, columnJ, xJ, rows, columns, offset)
    BY SnakeParts
  <1>3. x \in 0..(offset - 1) /\ xJ \in 0..(offset - 1)
    <2>1. Height(band, rows, offset) \in 1..offset
      BY <1>1, BandInside DEF IsPosition
    <2>2. Height(bandJ, rows, offset) \in 1..offset
      BY <1>2, BandInside DEF IsPosition
    <2> QED
      BY <1>1, <1>2, <2>1, <2>2 DEF IsPosition
  <1>4. offset * band + x = offset * bandJ + xJ
    <2>1. band * offset + x = bandJ * offset + xJ
      BY <1>1, <1>2 DEF IsPosition
    <2>2. band * offset = offset * band /\ bandJ * offset = offset * bandJ
      OBVIOUS
    <2> QED
      BY <2>1, <2>2
  <1>5. band = bandJ /\ x = xJ
    <2>1. (offset * band + x) \div offset = band /\ (offset * band + x) % offset = x
      BY <1>3, DivOf
    <2>2. (offset * bandJ + xJ) \div offset = bandJ /\ (offset * bandJ + xJ) % offset = xJ
      BY <1>3, DivOf
    <2> QED
      BY <1>4, <2>1, <2>2, Zenon
  <1>6. column = columnJ
    <2>1. (IF band % 2 = 1 THEN columns - column - 1 ELSE column) =
          (IF band % 2 = 1 THEN columns - columnJ - 1 ELSE columnJ)
      BY <1>1, <1>2, <1>5 DEF IsPosition
    <2> QED
      BY <2>1
  <1> QED
    BY <1>1, <1>2, <1>5, <1>6 DEF IsPosition

\* Whether position i is a block of the grid.
Visits(i, row, column, rows, columns, offset) ==
    Snake(i, rows, columns, offset) = [row |-> row, column |-> column]

\* Every block is given to a task.
THEOREM SnakeOnto ==
    ASSUME NEW rows \in Nat \ {0}, NEW columns \in Nat \ {0}, NEW offset \in Nat \ {0},
           NEW row \in 0..(rows - 1), NEW column \in 0..(columns - 1)
    PROVE  \E i \in 0..(rows * columns - 1) : Visits(i, row, column, rows, columns, offset)
  <1> DEFINE band == row \div offset
             x == row % offset
             n == CeilDiv(rows, offset)
             h == Height(band, rows, offset)
             col == IF band % 2 = 1 THEN columns - column - 1 ELSE column
             d == offset * columns
             i == d * band + (h * col + x)
  <1>1. band \in Nat /\ x \in 0..(offset - 1) /\ row = offset * band + x
    <2>1. row \in Nat
      OBVIOUS
    <2> QED
      BY <2>1, DivMod
  <1>2. n \in Nat /\ rows <= offset * n
    BY Bands
  <1>3. band < n
    <2> SUFFICES ASSUME n <= band PROVE FALSE
      BY <1>1, <1>2
    <2> HIDE DEF band, n, x
    <2>1. offset * n <= offset * band
      BY <1>1, <1>2
    <2> QED
      BY <1>1, <1>2, <2>1
  <1>4. h \in 1..offset /\ band * offset + h <= rows
    <2> HIDE DEF band
    <2> QED
      BY <1>1, <1>3, BandInside
  <1>5. x \in 0..(h - 1)
    <2>1. h = IF band = n - 1 THEN rows - offset * band ELSE offset
      BY DEF Height
    <2> HIDE DEF band, x, n, h
    <2> QED
      BY <1>1, <1>4, <2>1
  <1>6. col \in 0..(columns - 1)
    OBVIOUS
  <1>7. h * col + x \in 0..(h * columns - 1) /\ h * columns <= d /\ d \in Nat \ {0}
    <2> HIDE DEF band, x, n, h, col
    <2>1. h * (col + 1) <= h * columns /\ h * (col + 1) = h * col + h /\ h * col \in Nat
      BY <1>4, <1>6
    <2>2. h * columns <= offset * columns /\ offset * columns \in Nat \ {0}
      BY <1>4
    <2> QED
      BY <1>4, <1>5, <2>1, <2>2
  <1>8. h * col + x \in 0..(d - 1)
    <2>1. h * columns \in Nat
      <3> HIDE DEF h
      <3> QED
        BY <1>4
    <2> HIDE DEF band, x, n, h, col, d
    <2> QED
      BY <1>7, <2>1
  <1>9. i \div d = band /\ i % d = h * col + x
    <2> HIDE DEF band, x, n, h, col, d
    <2> QED
      BY <1>1, <1>7, <1>8, DivOf
  <1>10. (h * col + x) \div h = col /\ (h * col + x) % h = x
    <2> HIDE DEF band, x, n, h, col
    <2> QED
      BY <1>4, <1>5, <1>6, DivOf
  <1>11. i \in 0..(rows * columns - 1)
    <2> HIDE DEF band, x, n, h, col
    <2>1. (band * offset + h) * columns <= rows * columns
      BY <1>1, <1>4
    <2>2. (band * offset + h) * columns = d * band + h * columns
      BY <1>1, <1>4
    <2>3. d * band \in Nat /\ rows * columns \in Nat /\ h * columns \in Nat
      BY <1>1, <1>4
    <2> HIDE DEF d
    <2> QED
      BY <1>7, <2>1, <2>2, <2>3
  <1>12. Snake(i, rows, columns, offset) =
           [row |-> band * offset + x, column |-> IF band % 2 = 1 THEN columns - col - 1 ELSE col]
    <2>1. Snake(i, rows, columns, offset) =
            [row |-> (i \div d) * offset + ((i % d) % Height(i \div d, rows, offset)),
             column |-> IF (i \div d) % 2 = 1
                        THEN columns - ((i % d) \div Height(i \div d, rows, offset)) - 1
                        ELSE (i % d) \div Height(i \div d, rows, offset)]
      BY DEF Snake, Height
    <2> HIDE DEF band, x, n, col, d, i
    <2> QED
      BY <1>9, <1>10, <2>1
  <1>13. band * offset + x = row
    <2> HIDE DEF band, x
    <2> QED
      BY <1>1
  <1>14. (IF band % 2 = 1 THEN columns - col - 1 ELSE col) = column
    <2> HIDE DEF band
    <2> QED
      OBVIOUS
  <1> HIDE DEF band, x, n, h, col, d, i
  <1>15. Visits(i, row, column, rows, columns, offset)
    BY <1>12, <1>13, <1>14 DEF Visits
  <1> QED
    BY <1>11, <1>15

\* Whether a task is block <<m, n>> of a slice.
IsTask(task, m, n, slice, mLoops, nLoops, splitkFactor, offset, direction) ==
    /\ GetBlockCoord(task, mLoops, nLoops, offset, direction) = [m |-> m, n |-> n]
    /\ GetSplitkSliceIdx(task, mLoops, nLoops, splitkFactor) = slice

\* That is so of exactly one of the tasks.
OneTask(m, n, slice, mLoops, nLoops, splitkFactor, offset, direction) ==
    \E task \in 0..(mLoops * nLoops * splitkFactor - 1) :
        /\ IsTask(task, m, n, slice, mLoops, nLoops, splitkFactor, offset, direction)
        /\ \A o \in 0..(mLoops * nLoops * splitkFactor - 1) :
             IsTask(o, m, n, slice, mLoops, nLoops, splitkFactor, offset, direction) => o = task

\* A task is its slice and its position in the grid.
LEMMA TaskParts ==
    ASSUME NEW mLoops \in Nat \ {0}, NEW nLoops \in Nat \ {0}, NEW f \in Nat \ {0},
           NEW task \in 0..(mLoops * nLoops * f - 1)
    PROVE  /\ task % (mLoops * nLoops) \in 0..(mLoops * nLoops - 1)
           /\ task = (mLoops * nLoops) * GetSplitkSliceIdx(task, mLoops, nLoops, f)
                     + (task % (mLoops * nLoops))
  <1> DEFINE mn == mLoops * nLoops
  <1>1. mn \in Nat \ {0}
    OBVIOUS
  <1>2. mn * f \in Nat \ {0} /\ task \in 0..(mn * f - 1)
    OBVIOUS
  <1>3. GetSplitkSliceIdx(task, mLoops, nLoops, f) = (task % (mn * f)) \div mn
    BY DEF GetSplitkSliceIdx
  <1> HIDE DEF mn
  <1>4. task % (mn * f) = task
    <2>1. (mn * f) * 0 + task = task
      BY <1>2
    <2>2. ((mn * f) * 0 + task) % (mn * f) = task
      BY <1>2, DivOf
    <2> QED
      BY <2>1, <2>2
  <1>5. task \in Nat
    BY <1>2
  <1>6. task % mn \in 0..(mn - 1) /\ task = mn * (task \div mn) + (task % mn)
    BY <1>1, <1>5, DivMod
  <1>7. task % mn \in 0..(mn - 1) /\ task = mn * GetSplitkSliceIdx(task, mLoops, nLoops, f) + (task % mn)
    BY <1>3, <1>4, <1>6
  <1> QED
    BY <1>7 DEF mn

\* Each block of C is one task in each slice, and no more: for every problem,
\* tile, split, offset and direction of the scheduler, the tasks dealt out to
\* the cores are the blocks of the workspace, none left out and none stored
\* twice (GetBlockCoord and GetSplitkSliceIdx).
THEOREM EveryBlockOnce ==
    ASSUME NEW mLoops \in Nat \ {0}, NEW nLoops \in Nat \ {0}, NEW f \in Nat \ {0},
           NEW offset \in Nat \ {0}, NEW direction \in {0, 1},
           NEW m \in 0..(mLoops - 1), NEW n \in 0..(nLoops - 1), NEW slice \in 0..(f - 1)
    PROVE  OneTask(m, n, slice, mLoops, nLoops, f, offset, direction)
  <1> DEFINE mn == mLoops * nLoops
             Coord(i) == IF direction = 0
                         THEN Snake(i, mLoops, nLoops, offset) = [row |-> m, column |-> n]
                         ELSE Snake(i, nLoops, mLoops, offset) = [row |-> n, column |-> m]
  <1>1. mn \in Nat \ {0} /\ nLoops * mLoops = mn
    OBVIOUS
  <1>2. \E i \in 0..(mn - 1) : Coord(i)
    <2>1. CASE direction = 0
      <3>1. \E i \in 0..(mLoops * nLoops - 1) : Visits(i, m, n, mLoops, nLoops, offset)
        BY SnakeOnto
      <3> QED
        BY <2>1, <3>1 DEF Visits
    <2>2. CASE direction = 1
      <3>1. \E i \in 0..(nLoops * mLoops - 1) : Visits(i, n, m, nLoops, mLoops, offset)
        BY SnakeOnto
      <3> QED
        BY <1>1, <2>2, <3>1 DEF Visits
    <2> QED
      BY <2>1, <2>2
  <1>3. ASSUME NEW i \in 0..(mn - 1), NEW j \in 0..(mn - 1), Coord(i), Coord(j)
        PROVE  i = j
    <2>1. CASE direction = 0
      BY <1>3, <2>1, SnakeInjective
    <2>2. CASE direction = 1
      <3>1. i \in 0..(nLoops * mLoops - 1) /\ j \in 0..(nLoops * mLoops - 1)
        BY <1>1
      <3>2. Snake(i, nLoops, mLoops, offset) = Snake(j, nLoops, mLoops, offset)
        BY <1>3, <2>2
      <3> QED
        BY <3>1, <3>2, SnakeInjective
    <2> QED
      BY <2>1, <2>2
  <1>4. ASSUME NEW t \in Nat, t % mn \in 0..(mn - 1)
        PROVE  GetBlockCoord(t, mLoops, nLoops, offset, direction) = [m |-> m, n |-> n] <=> Coord(t % mn)
    <2>1. CASE direction = 0
      <3>1. GetBlockCoord(t, mLoops, nLoops, offset, direction) =
              [m |-> Snake(t % mn, mLoops, nLoops, offset).row, n |-> Snake(t % mn, mLoops, nLoops, offset).column]
        BY <2>1 DEF GetBlockCoord
      <3>2. Snake(t % mn, mLoops, nLoops, offset) \in [row : 0..(mLoops - 1), column : 0..(nLoops - 1)]
        BY <1>4, SnakeInside
      <3> HIDE DEF mn
      <3> QED
        BY <2>1, <3>1, <3>2
    <2>2. CASE direction = 1
      <3>1. GetBlockCoord(t, mLoops, nLoops, offset, direction) =
              [m |-> Snake(t % mn, nLoops, mLoops, offset).column, n |-> Snake(t % mn, nLoops, mLoops, offset).row]
        BY <2>2 DEF GetBlockCoord
      <3>2. t % mn \in 0..(nLoops * mLoops - 1)
        BY <1>1, <1>4
      <3>3. Snake(t % mn, nLoops, mLoops, offset) \in [row : 0..(nLoops - 1), column : 0..(mLoops - 1)]
        BY <3>2, SnakeInside
      <3> HIDE DEF mn
      <3> QED
        BY <2>2, <3>1, <3>3
    <2> QED
      BY <2>1, <2>2
  <1> HIDE DEF Coord
  <1>5. PICK i \in 0..(mn - 1) : Coord(i)
    BY <1>2
  <1> DEFINE task == mn * slice + i
  <1>6. task \in 0..(mn * f - 1)
    <2> HIDE DEF mn
    <2>1. mn * (slice + 1) <= mn * f /\ mn * (slice + 1) = mn * slice + mn /\ mn * slice \in Nat
      BY <1>1
    <2>2. mn * f \in Nat
      BY <1>1
    <2> QED
      BY <1>1, <2>1, <2>2
  <1>7. task % mn = i
    <2> HIDE DEF mn
    <2> QED
      BY <1>1, DivOf
  <1>8. ASSUME NEW o \in 0..(mn * f - 1)
        PROVE  /\ o \in Nat /\ o % mn \in 0..(mn - 1)
               /\ o = mn * GetSplitkSliceIdx(o, mLoops, nLoops, f) + (o % mn)
    BY TaskParts
  <1>9. IsTask(task, m, n, slice, mLoops, nLoops, f, offset, direction)
    <2>1. GetBlockCoord(task, mLoops, nLoops, offset, direction) = [m |-> m, n |-> n]
      <3> HIDE DEF mn, task
      <3> QED
        BY <1>4, <1>5, <1>6, <1>7, <1>8
    <2>2. task = mn * GetSplitkSliceIdx(task, mLoops, nLoops, f) + i
      <3> HIDE DEF mn, task
      <3> QED
        BY <1>6, <1>7, <1>8
    <2>3. GetSplitkSliceIdx(task, mLoops, nLoops, f) = task \div mn
      <3>1. GetSplitkSliceIdx(task, mLoops, nLoops, f) = (task % (mn * f)) \div mn
        BY DEF GetSplitkSliceIdx
      <3>2. mn * f \in Nat \ {0}
        BY <1>1
      <3> HIDE DEF mn, task
      <3>3. (mn * f) * 0 + task = task /\ ((mn * f) * 0 + task) % (mn * f) = task
        BY <1>6, <3>2, DivOf
      <3> QED
        BY <3>1, <3>3
    <2>4. task \div mn = slice
      <3> HIDE DEF mn
      <3> QED
        BY <1>1, DivOf
    <2> QED
      BY <2>1, <2>3, <2>4 DEF IsTask
  <1>10. ASSUME NEW o \in 0..(mn * f - 1), IsTask(o, m, n, slice, mLoops, nLoops, f, offset, direction)
         PROVE  o = task
    <2>1. o \in Nat /\ o % mn \in 0..(mn - 1) /\ o = mn * slice + (o % mn)
      BY <1>8, <1>10 DEF IsTask
    <2>2. Coord(o % mn)
      BY <1>4, <1>10, <2>1 DEF IsTask
    <2>3. o % mn = i
      BY <1>3, <1>5, <2>1, <2>2
    <2> QED
      BY <2>1, <2>3
  <1> HIDE DEF task
  <1> QED
    BY <1>6, <1>9, <1>10 DEF OneTask
-----------------------------------------------------------------------------
(* The schedulers that know the cores. *)


\* The blocks of a core begin where those of the core before end.
LEMMA RunsAbut ==
    ASSUME NEW q \in Nat, NEW r \in Nat, NEW a \in Nat, NEW b \in Nat, a < b
    PROVE  a * q + (IF a < r THEN a ELSE r) + q + (IF a < r THEN 1 ELSE 0)
             <= b * q + (IF b < r THEN b ELSE r)
  <1>1. (a + 1) * q <= b * q
    <2>1. PICK d \in Nat : b = a + 1 + d
      <3> WITNESS b - a - 1 \in Nat
      <3> QED OBVIOUS
    <2>2. b * q = (a + 1) * q + d * q /\ d * q \in Nat
      BY <2>1
    <2> QED
      BY <2>2
  <1>2. (a + 1) * q = a * q + q /\ a * q \in Nat /\ b * q \in Nat
    OBVIOUS
  <1>3. ASSUME NEW x \in Nat, NEW y \in Nat, x + q <= y
        PROVE  x + (IF a < r THEN a ELSE r) + q + (IF a < r THEN 1 ELSE 0)
                 <= y + (IF b < r THEN b ELSE r)
    BY <1>3
  <1> QED
    BY <1>1, <1>2, <1>3

\* A task of the L1FullLoad scheduler: its core, and its place in the core's run.
LEMMA TaskInRun ==
    ASSUME NEW c \in Nat \ {0}, NEW n \in Nat, NEW t \in 0..(n - 1)
    PROVE  /\ t % c \in 0..(c - 1) /\ t \div c \in Nat
           /\ t = c * (t \div c) + (t % c)
           /\ n \div c \in Nat /\ n % c \in 0..(c - 1)
           /\ n = c * (n \div c) + (n % c)
           /\ t \div c < n \div c + (IF t % c < n % c THEN 1 ELSE 0)
  <1> DEFINE i == t \div c
             j == t % c
             q == n \div c
             r == n % c
  <1>0. t \in Nat
    OBVIOUS
  <1>1. j \in 0..(c - 1) /\ i \in Nat /\ t = c * i + j
    BY <1>0, DivMod
  <1>2. r \in 0..(c - 1) /\ q \in Nat /\ n = c * q + r
    BY DivMod
  <1>3. c * i + j < c * q + r
    BY <1>1, <1>2
  <1> HIDE DEF i, j, q, r
  <1>4. i <= q
    <2> SUFFICES ASSUME q + 1 <= i PROVE FALSE
      BY <1>1, <1>2
    <2>1. PICK d \in Nat : i = q + 1 + d
      <3>1. i - q - 1 \in Nat /\ i = q + 1 + (i - q - 1)
        BY <1>1, <1>2
      <3> QED BY <3>1
    <2>2. c * i = c * q + c + c * d /\ c * d \in Nat /\ c * q \in Nat
      BY <2>1, <1>2
    <2> QED
      BY <2>2, <1>1, <1>2, <1>3
  <1>5. i = q => j < r
    BY <1>1, <1>2, <1>3
  <1>6. i < q + (IF j < r THEN 1 ELSE 0)
    BY <1>1, <1>2, <1>4, <1>5
  <1> QED
    BY <1>1, <1>2, <1>6 DEF i, j, q, r

\* InnerIdx grows with the core and, in one core, with the task.
LEMMA InnerIdxOrder ==
    ASSUME NEW p, NEW c \in Nat \ {0}, NEW n \in Nat, p.cores = c, MNLoops(p) = n,
           NEW x \in 0..(n - 1), NEW y \in 0..(n - 1)
    PROVE  /\ x % c < y % c => L1FullLoadInnerIdx(p, x) < L1FullLoadInnerIdx(p, y)
           /\ x % c = y % c => L1FullLoadInnerIdx(p, x) - L1FullLoadInnerIdx(p, y) = x \div c - y \div c
           /\ L1FullLoadInnerIdx(p, x) \in 0..(n - 1)
  <1> DEFINE q == n \div c
             r == n % c
             Start(j) == j * q + (IF j < r THEN j ELSE r)
  <1>1. \A t \in 0..(n - 1) : L1FullLoadInnerIdx(p, t) = (t % c) * q + t \div c + (IF t % c < r THEN t % c ELSE r)
    BY DEF L1FullLoadInnerIdx
  <1>2. q \in Nat /\ r \in 0..(c - 1) /\ n = c * q + r
    BY DivMod
  <1>3. \A t \in 0..(n - 1) : /\ t % c \in 0..(c - 1) /\ t \div c \in Nat
                             /\ t \div c < q + (IF t % c < r THEN 1 ELSE 0)
    BY TaskInRun
  <1> HIDE DEF q, r
  <1>4. \A j \in Nat : Start(j) \in Nat
    <2> TAKE j \in Nat
    <2>1. j * q \in Nat
      BY <1>2
    <2> QED
      BY <2>1, <1>2
  <1>5. \A t \in 0..(n - 1) : L1FullLoadInnerIdx(p, t) = Start(t % c) + (t \div c)
    <2> TAKE t \in 0..(n - 1)
    <2>1. PICK a \in 0..(c - 1), i \in Nat : a = t % c /\ i = t \div c
      BY <1>3
    <2>2. L1FullLoadInnerIdx(p, t) = a * q + i + (IF a < r THEN a ELSE r)
      BY <2>1, <1>1
    <2>3. a * q \in Nat
      BY <1>2
    <2>4. L1FullLoadInnerIdx(p, t) = Start(a) + i
      BY <2>2, <2>3, <1>2
    <2> QED
      BY <2>1, <2>4
  <1>6. \A a, b \in Nat : a < b => Start(a) + q + (IF a < r THEN 1 ELSE 0) <= Start(b)
    BY <1>2, RunsAbut
  <1>7. Start(c) = n
    BY <1>2
  <1> HIDE DEF Start
  <1>8. x % c < y % c => L1FullLoadInnerIdx(p, x) < L1FullLoadInnerIdx(p, y)
    <2> SUFFICES ASSUME x % c < y % c PROVE L1FullLoadInnerIdx(p, x) < L1FullLoadInnerIdx(p, y)
      OBVIOUS
    <2>1. PICK a \in 0..(c - 1), i \in Nat : a = x % c /\ i = x \div c /\ i < q + (IF a < r THEN 1 ELSE 0)
      BY <1>3
    <2>2. PICK b \in 0..(c - 1), k \in Nat : b = y % c /\ k = y \div c
      BY <1>3
    <2>3. a < b
      BY <2>1, <2>2
    <2>4. Start(a) + q + (IF a < r THEN 1 ELSE 0) <= Start(b) /\ Start(a) \in Nat /\ Start(b) \in Nat
      BY <2>3, <1>4, <1>6
    <2>5. L1FullLoadInnerIdx(p, x) = Start(a) + i /\ L1FullLoadInnerIdx(p, y) = Start(b) + k
      BY <2>1, <2>2, <1>5
    <2>6. Start(a) + i < Start(b) + k
      BY <2>1, <2>4, <1>2
    <2> QED
      BY <2>5, <2>6
  <1>9. x % c = y % c => L1FullLoadInnerIdx(p, x) - L1FullLoadInnerIdx(p, y) = x \div c - y \div c
    <2>1. /\ x % c \in Nat /\ x \div c \in Nat /\ y \div c \in Nat
          /\ L1FullLoadInnerIdx(p, x) = Start(x % c) + (x \div c)
          /\ L1FullLoadInnerIdx(p, y) = Start(y % c) + (y \div c)
      BY <1>3, <1>5
    <2>2. Start(x % c) \in Nat
      BY <2>1, <1>4
    <2> QED
      BY <2>1, <2>2
  <1>10. L1FullLoadInnerIdx(p, x) \in 0..(n - 1)
    <2>1. PICK a \in 0..(c - 1), i \in Nat : a = x % c /\ i = x \div c /\ i < q + (IF a < r THEN 1 ELSE 0)
      BY <1>3
    <2>2. Start(a) + q + (IF a < r THEN 1 ELSE 0) <= n /\ Start(a) \in Nat
      BY <1>4, <1>6, <1>7
    <2>3. L1FullLoadInnerIdx(p, x) = Start(a) + i
      BY <2>1, <1>5
    <2>4. Start(a) + i \in 0..(n - 1)
      BY <2>1, <2>2, <1>2
    <2> QED
      BY <2>3, <2>4
  <1> QED
    BY <1>8, <1>9, <1>10

\* The tasks of the L1FullLoad scheduler are different blocks of C, and blocks of C
\* (GemmIdentityBlockSwizzleL1FullLoad::GetBlockCoord, innerIdx).
THEOREM L1FullLoadInjective ==
    ASSUME NEW p, p.cores \in Nat \ {0}, MNLoops(p) \in Nat,
           NEW t \in 0..(MNLoops(p) - 1)
    PROVE  /\ L1FullLoadInnerIdx(p, t) \in 0..(MNLoops(p) - 1)
           /\ \A u \in 0..(MNLoops(p) - 1) :
                 L1FullLoadInnerIdx(p, t) = L1FullLoadInnerIdx(p, u) => t = u
  <1>1. PICK c \in Nat \ {0}, n \in Nat : p.cores = c /\ MNLoops(p) = n
    OBVIOUS
  <1>2. \A x, y \in 0..(n - 1) :
          /\ x % c < y % c => L1FullLoadInnerIdx(p, x) < L1FullLoadInnerIdx(p, y)
          /\ x % c = y % c => L1FullLoadInnerIdx(p, x) - L1FullLoadInnerIdx(p, y) = x \div c - y \div c
          /\ L1FullLoadInnerIdx(p, x) \in 0..(n - 1)
    BY <1>1, InnerIdxOrder
  <1>3. \A x \in 0..(n - 1) : /\ x % c \in 0..(c - 1) /\ x \div c \in Nat
                             /\ x = c * (x \div c) + (x % c)
    BY TaskInRun
  <1>4. ASSUME NEW u \in 0..(n - 1), L1FullLoadInnerIdx(p, t) = L1FullLoadInnerIdx(p, u)
        PROVE  t = u
    <2>1. PICK a \in 0..(c - 1), i \in Nat : a = t % c /\ i = t \div c /\ t = c * i + a
      BY <1>1, <1>3
    <2>2. PICK b \in 0..(c - 1), k \in Nat : b = u % c /\ k = u \div c /\ u = c * k + b
      BY <1>3
    <2>3. PICK z \in 0..(n - 1) : z = L1FullLoadInnerIdx(p, t) /\ z = L1FullLoadInnerIdx(p, u)
      BY <1>1, <1>2, <1>4
    <2>4. t \in 0..(n - 1)
      BY <1>1
    <2>5. ~(a < b)
      <3> SUFFICES ASSUME a < b PROVE FALSE
        OBVIOUS
      <3>1. L1FullLoadInnerIdx(p, t) < L1FullLoadInnerIdx(p, u)
        BY <2>1, <2>2, <2>4, <1>2
      <3> QED
        BY <3>1, <2>3
    <2>6. ~(b < a)
      <3> SUFFICES ASSUME b < a PROVE FALSE
        OBVIOUS
      <3>1. L1FullLoadInnerIdx(p, u) < L1FullLoadInnerIdx(p, t)
        BY <2>1, <2>2, <2>4, <1>2
      <3> QED
        BY <3>1, <2>3
    <2>7. a = b
      BY <2>5, <2>6
    <2>8. z - z = i - k
      BY <2>1, <2>2, <2>3, <2>4, <2>7, <1>2
    <2>9. i = k
      BY <2>8
    <2> QED
      BY <2>1, <2>2, <2>7, <2>9
  <1> QED
    BY <1>1, <1>2, <1>4
-----------------------------------------------------------------------------
\* The ranges of blocks of the cores begin at block 0, each where the one before
\* ends, and end with the last block (GetMNLoopRange; tmpNum is full).
THEOREM RangesAbut ==
    ASSUME NEW p, p.cores \in Nat \ {0}, MNLoops(p) \in Nat \ {0}
    PROVE  /\ GetMNLoopRange(p, 0).start = 0
           /\ \A i \in 0..(p.cores - 1) :
                 /\ GetMNLoopRange(p, i).len \in Nat
                 /\ GetMNLoopRange(p, i + 1).start = GetMNLoopRange(p, i).start + GetMNLoopRange(p, i).len
           /\ GetMNLoopRange(p, p.cores).start = MNLoops(p)
  <1>1. PICK c \in Nat \ {0}, n \in Nat \ {0} : p.cores = c /\ MNLoops(p) = n
    OBVIOUS
  <1> DEFINE full == n - c * (CeilDiv(n, c) - 1)
  <1>2. PICK q \in Nat : q = CeilDiv(n, c) - 1 /\ full \in 1..c /\ n = c * q + full
    <2>1. n - 1 \in Nat
      OBVIOUS
    <2>2. PICK d \in Nat, x \in 0..(c - 1) : n - 1 = c * d + x
      BY <2>1, DivMod, ZenonT(60)
    <2>3. PICK e \in Nat : e = d + 1
      OBVIOUS
    <2>4. n + c - 1 = c * e + x
      <3>1. c * e = c * d + c
        BY <2>3
      <3> QED
        BY <2>2, <3>1
    <2>5. (c * e + x) \div c = e
      BY DivOf
    <2>6. CeilDiv(n, c) = d + 1
      BY <2>3, <2>4, <2>5 DEF CeilDiv
    <2> QED
      BY <2>2, <2>6
  <1>3. \A i \in 0..c : GetMNLoopRange(p, i) =
            [start |-> IF i < full THEN i * (q + 1) ELSE full * (q + 1) + (i - full) * q,
             len |-> IF i < full THEN q + 1 ELSE q]
    <2>1. CeilDiv(n, c) = q + 1 /\ CeilDiv(n, c) - 1 = q /\ full = n - c * q
      <3>1. CeilDiv(n, c) \in Int
        BY DEF CeilDiv
      <3> QED
        BY <3>1, <1>2
    <2> QED
      BY <1>1, <2>1 DEF GetMNLoopRange
  <1> HIDE DEF full
  <1>4. GetMNLoopRange(p, 0).start = 0
    <2>1. 0 < full
      BY <1>2
    <2> QED
      BY <1>3, <2>1
  <1>5. ASSUME NEW i \in 0..(c - 1)
        PROVE  /\ GetMNLoopRange(p, i).len \in Nat
               /\ GetMNLoopRange(p, i + 1).start = GetMNLoopRange(p, i).start + GetMNLoopRange(p, i).len
    <2>1. i \in 0..c /\ i + 1 \in 0..c
      OBVIOUS
    <2>2. CASE i + 1 < full
      <3>1. (i + 1) * (q + 1) = i * (q + 1) + (q + 1)
        OBVIOUS
      <3> QED
        BY <1>2, <1>3, <2>1, <2>2, <3>1
    <2>3. CASE i + 1 = full
      <3>1. (i + 1) * (q + 1) = i * (q + 1) + (q + 1) /\ i * (q + 1) \in Nat
        OBVIOUS
      <3>2. (i + 1 - full) * q = 0
        BY <2>3
      <3>3. GetMNLoopRange(p, i) = [start |-> i * (q + 1), len |-> q + 1]
        BY <1>2, <1>3, <2>1, <2>3
      <3>4. GetMNLoopRange(p, i + 1).start = full * (q + 1) + (i + 1 - full) * q
        BY <1>2, <1>3, <2>1, <2>3
      <3>5. full * (q + 1) = (i + 1) * (q + 1)
        BY <2>3
      <3> QED
        BY <3>1, <3>2, <3>3, <3>4, <3>5
    <2>4. CASE full <= i
      <3>1. PICK d \in Nat : i = full + d
        <4>1. i - full \in Nat /\ i = full + (i - full)
          BY <1>2, <2>4
        <4> QED BY <4>1
      <3>2. (i - full) * q = d * q /\ (i + 1 - full) * q = d * q + q /\ d * q \in Nat
        BY <3>1, <1>2
      <3>3. full * (q + 1) \in Nat
        BY <1>2
      <3> QED
        BY <1>2, <1>3, <2>1, <2>4, <3>2, <3>3
    <2> QED
      BY <1>2, <2>2, <2>3, <2>4
  <1>6. GetMNLoopRange(p, c).start = n
    <2>1. GetMNLoopRange(p, c).start = full * (q + 1) + (c - full) * q
      BY <1>2, <1>3
    <2>2. full * (q + 1) + (c - full) * q = c * q + full
      <3>1. PICK d \in Nat : c = full + d
        <4>1. c - full \in Nat /\ c = full + (c - full)
          BY <1>2
        <4> QED BY <4>1
      <3>2. c * q = full * q + d * q /\ (c - full) * q = d * q /\ full * (q + 1) = full * q + full
        BY <3>1, <1>2
      <3>3. full * q \in Nat /\ d * q \in Nat
        BY <1>2
      <3> QED
        BY <3>2, <3>3, <1>2
    <2> QED
      BY <2>1, <2>2, <1>2
  <1> QED
    BY <1>1, <1>4, <1>5, <1>6
-----------------------------------------------------------------------------
(* MergedSnake. *)

\* Whether the last band is one with the band before it, the last band that is
\* left, and the rows of a band.
Merged(rows, offset, mergesHalf) ==
    /\ CeilDiv(rows, offset) >= 2
    /\ LET rest == rows - (CeilDiv(rows, offset) - 1) * offset
       IN  IF mergesHalf THEN rest <= offset \div 2 ELSE rest < offset \div 2
LastBand(rows, offset, mergesHalf) ==
    IF Merged(rows, offset, mergesHalf) THEN CeilDiv(rows, offset) - 2 ELSE CeilDiv(rows, offset) - 1
RowsOfBand(band, rows, offset, mergesHalf) ==
    IF band = LastBand(rows, offset, mergesHalf) THEN rows - offset * band ELSE offset

\* Downwards in an even column, upwards in an odd one.
RowInColumn(column, x, height) == IF column % 2 = 1 THEN height - x - 1 ELSE x
ColumnOnTheWay(band, c, columns) == IF band % 2 = 1 THEN columns - c - 1 ELSE c

\* The bands left are not empty, and all but the last have offset rows.
LEMMA MergedBands ==
    ASSUME NEW rows \in Nat \ {0}, NEW offset \in Nat \ {0}, NEW half \in BOOLEAN
    PROVE  /\ LastBand(rows, offset, half) \in Nat
           /\ offset * LastBand(rows, offset, half) < rows
           /\ \A band \in 0..LastBand(rows, offset, half) :
                 /\ RowsOfBand(band, rows, offset, half) \in Nat \ {0}
                 /\ offset * band + RowsOfBand(band, rows, offset, half) <= rows
  <1> DEFINE n == CeilDiv(rows, offset)
             last == LastBand(rows, offset, half)
  <1>1. n \in Nat /\ rows <= offset * n /\ offset * (n - 1) < rows
    BY Bands
  <1>2. n # 0
    BY <1>1
  <1>3. last \in Nat /\ last <= n - 1
    <2>1. last = (IF Merged(rows, offset, half) THEN n - 2 ELSE n - 1)
      BY DEF LastBand
    <2>2. Merged(rows, offset, half) => n >= 2
      BY DEF Merged
    <2> HIDE DEF n, last
    <2> QED
      BY <1>1, <1>2, <2>1, <2>2
  <1>4. \A band \in 0..last : RowsOfBand(band, rows, offset, half) =
                                IF band = last THEN rows - offset * band ELSE offset
    BY DEF RowsOfBand
  <1> HIDE DEF n, last
  <1>5. offset * last <= offset * (n - 1)
    BY <1>1, <1>2, <1>3
  <1>6. offset * last \in Nat /\ offset * (n - 1) \in Int
    BY <1>1, <1>3
  <1>7. offset * last < rows
    BY <1>1, <1>5, <1>6
  <1>8. ASSUME NEW band \in 0..last
        PROVE  /\ RowsOfBand(band, rows, offset, half) \in Nat \ {0}
               /\ offset * band + RowsOfBand(band, rows, offset, half) <= rows
    <2>1. CASE band = last
      BY <1>4, <1>6, <1>7, <2>1
    <2>2. CASE band < last
      <3>1. offset * (band + 1) <= offset * last /\ offset * (band + 1) = offset * band + offset
        BY <1>3, <2>2
      <3>2. offset * band \in Nat
        BY <1>3
      <3> QED
        BY <1>4, <1>6, <1>7, <2>2, <3>1, <3>2
    <2> QED
      BY <1>3, <2>1, <2>2
  <1> QED
    BY <1>3, <1>7, <1>8 DEF last

\* Position i is row x of column c of a band.
IsMergedPosition(i, band, c, x, rows, columns, offset, half) ==
    /\ i = band * (offset * columns) + (RowsOfBand(band, rows, offset, half) * c + x)
    /\ MergedSnake(i, rows, columns, offset, half) =
         [row |-> band * offset + RowInColumn(ColumnOnTheWay(band, c, columns), x,
                                              RowsOfBand(band, rows, offset, half)),
          column |-> ColumnOnTheWay(band, c, columns)]

\* What MergedSnake is once the band of a position is known.
LEMMA MergedSnakeIn ==
    ASSUME NEW rows \in Nat \ {0}, NEW columns \in Nat \ {0}, NEW offset \in Nat \ {0}, NEW half \in BOOLEAN,
           NEW band \in 0..LastBand(rows, offset, half),
           NEW c \in 0..(columns - 1), NEW x \in 0..(RowsOfBand(band, rows, offset, half) - 1),
           NEW i, i = band * (offset * columns) + (RowsOfBand(band, rows, offset, half) * c + x)
    PROVE  IsMergedPosition(i, band, c, x, rows, columns, offset, half) /\ i \in 0..(rows * columns - 1)
  <1> DEFINE n == CeilDiv(rows, offset)
             last == LastBand(rows, offset, half)
             h == RowsOfBand(band, rows, offset, half)
             d == offset * columns
             merged == Merged(rows, offset, half)
             rest == rows - (n - 1) * offset
             y == h * c + x
  <1>1. n \in Nat /\ rows <= offset * n /\ offset * (n - 1) < rows
    BY Bands
  <1>2. last \in Nat /\ offset * last < rows /\ h \in Nat \ {0} /\ offset * band + h <= rows
    BY MergedBands
  <1>3. merged => n >= 2
    BY DEF Merged
  <1>4. last = IF merged THEN n - 2 ELSE n - 1
    BY DEF LastBand
  <1>5. h = IF band = last THEN rows - offset * band ELSE offset
    BY DEF RowsOfBand
  <1>6. d \in Nat \ {0} /\ band \in Nat /\ band <= last /\ c \in Nat /\ c + 1 <= columns /\ x \in 0..(h - 1)
    BY <1>2
  <1>7. y \in Nat /\ y < h * columns
    <2> HIDE DEF h
    <2>1. h * (c + 1) <= h * columns /\ h * (c + 1) = h * c + h /\ h * c \in Nat
      BY <1>2, <1>6
    <2>2. h * columns \in Nat /\ x \in Nat /\ x < h
      BY <1>2, <1>6
    <2> QED
      BY <1>2, <2>1, <2>2
  <1>8. y \div h = c /\ y % h = x
    <2> HIDE DEF h
    <2> QED
      BY <1>2, <1>6, DivOf
  <1>9. d * band + h * columns <= rows * columns
    <2> HIDE DEF h
    <2>1. (offset * band + h) * columns <= rows * columns
      BY <1>2, <1>6
    <2>2. (offset * band + h) * columns = d * band + h * columns
      BY <1>2, <1>6
    <2> QED
      BY <2>1, <2>2
  <1>10. i = d * band + y
    <2> HIDE DEF h, y
    <2>1. band * d = d * band
      BY <1>6
    <2>2. i = band * d + y
      BY DEF h, y
    <2> HIDE DEF d
    <2> QED
      BY <2>1, <2>2
  <1> DEFINE b == i \div d
  <1>11. b \in Nat /\ i \in Nat /\ (IF band < last THEN b = band ELSE b >= last)
    <2>1. i \in Nat
      <3>1. d * band \in Nat
        BY <1>6
      <3> HIDE DEF d, y
      <3> QED
        BY <1>7, <1>10, <3>1
    <2>2. CASE band < last
      <3>1. y \in 0..(d - 1)
        <4>1. h = offset
          BY <1>2, <1>5, <1>6, <2>2
        <4>2. y < d
          <5> HIDE DEF y, h
          <5> QED
            BY <1>7, <4>1
        <4> HIDE DEF y, d
        <4> QED
          BY <1>6, <1>7, <4>2
      <3>2. (d * band + y) \div d = band
        <4> HIDE DEF d, y
        <4> QED
          BY <1>6, <3>1, DivOf
      <3> HIDE DEF d, y, last
      <3> QED
        BY <1>6, <1>10, <2>1, <2>2, <3>2
    <2>3. CASE band = last
      <3>1. b \in Nat /\ i % d \in 0..(d - 1) /\ i = d * b + (i % d)
        <4> HIDE DEF d
        <4> QED
          BY <1>6, <2>1, DivMod
      <3>2. ~(b < band)
        <4> HIDE DEF d, y, b
        <4> SUFFICES ASSUME b < band PROVE FALSE
          OBVIOUS
        <4>1. d * (b + 1) <= d * band /\ d * (b + 1) = d * b + d
          BY <1>6, <3>1
        <4>2. d * b \in Nat /\ d * band \in Nat
          BY <1>6, <3>1
        <4> QED
          BY <1>6, <1>7, <1>10, <3>1, <4>1, <4>2
      <3> HIDE DEF d, y, last, b
      <3> QED
        BY <1>6, <2>1, <2>3, <3>1, <3>2
    <2> HIDE DEF last, b
    <2> QED
      BY <1>2, <1>6, <2>2, <2>3
  <1>12. b < n
    <2> SUFFICES ASSUME n <= b PROVE FALSE
      BY <1>1, <1>11
    <2>1. b \in Nat /\ i % d \in 0..(d - 1) /\ i = d * b + (i % d)
      <3> HIDE DEF d
      <3> QED
        BY <1>6, <1>11, DivMod
    <2> HIDE DEF b, n, h, y
    <2>2. offset * n <= offset * b
      BY <1>1, <2>1
    <2>3. rows * columns <= (offset * b) * columns
      BY <1>1, <2>1, <2>2
    <2>4. (offset * b) * columns = d * b
      BY <2>1
    <2> HIDE DEF d
    <2>5. d * b \in Nat /\ d * band \in Nat /\ rows * columns \in Nat /\ h * columns \in Nat
      BY <1>2, <1>6, <2>1
    <2> QED
      BY <1>6, <1>7, <1>9, <1>10, <2>1, <2>3, <2>4, <2>5
  <1> DEFINE merges == merged /\ b >= n - 2
             bandIs == IF merges THEN n - 2 ELSE b
             height == IF merges THEN offset + rest ELSE IF bandIs = n - 1 THEN rest ELSE offset
  <1>13. bandIs = band
    <2> HIDE DEF n, last, merged, b
    <2> QED
      BY <1>1, <1>3, <1>4, <1>6, <1>11, <1>12
  <1>14. height = h
    <2>1. CASE band = last
      <3>1. CASE merged
        <4>1. merges
          <5> HIDE DEF n, last, merged, b
          <5> QED
            BY <1>1, <1>4, <1>6, <1>11, <2>1, <3>1
        <4>2. height = offset + (rows - (n - 1) * offset)
          BY <4>1
        <4>3. h = rows - offset * (n - 2)
          <5> HIDE DEF n, last, merged
          <5> QED
            BY <1>4, <1>5, <2>1, <3>1
        <4> HIDE DEF n, height, h
        <4> QED
          BY <1>1, <4>2, <4>3
      <3>2. CASE ~merged
        <4>1. bandIs = n - 1 /\ ~merges
          <5> HIDE DEF bandIs, n, last, merged
          <5> QED
            BY <1>4, <1>13, <2>1, <3>2
        <4>2. height = rows - (n - 1) * offset
          BY <4>1
        <4>3. h = rows - offset * (n - 1)
          <5> HIDE DEF n, last, merged
          <5> QED
            BY <1>4, <1>5, <2>1, <3>2
        <4> HIDE DEF n, height, h
        <4> QED
          BY <1>1, <4>2, <4>3
      <3> QED
        BY <3>1, <3>2
    <2>2. CASE band < last
      <3>1. ~merges /\ bandIs # n - 1
        <4> HIDE DEF n, last, merged, b
        <4> QED
          BY <1>1, <1>3, <1>4, <1>6, <1>11, <1>13, <2>2
      <3>2. height = offset
        BY <3>1
      <3> HIDE DEF height, last
      <3> QED
        BY <1>5, <1>6, <2>2, <3>2
    <2> HIDE DEF last
    <2> QED
      BY <1>2, <1>6, <2>1, <2>2
  <1>15. i - bandIs * offset * columns = y
    <2>1. bandIs * offset * columns = d * band
      <3> HIDE DEF bandIs
      <3> QED
        BY <1>6, <1>13
    <2> HIDE DEF bandIs, d, y
    <2>2. d * band \in Nat
      BY <1>6
    <2> QED
      BY <1>7, <1>10, <2>1, <2>2
  <1> DEFINE inBand == i - bandIs * offset * columns
             column == IF bandIs % 2 = 1 THEN columns - (inBand \div height) - 1 ELSE inBand \div height
             row == IF column % 2 = 1 THEN height - (inBand % height) - 1 ELSE inBand % height
  <1>16. MergedSnake(i, rows, columns, offset, half) = [row |-> bandIs * offset + row, column |-> column]
    BY DEF MergedSnake, Merged
  <1>17. column = ColumnOnTheWay(band, c, columns)
    <2> HIDE DEF inBand, bandIs, height, y, h
    <2> QED
      BY <1>8, <1>13, <1>14, <1>15 DEF ColumnOnTheWay, inBand
  <1>18. row = RowInColumn(ColumnOnTheWay(band, c, columns), x, h)
    <2> HIDE DEF column, bandIs, height, y, h
    <2> QED
      BY <1>8, <1>14, <1>15, <1>17 DEF RowInColumn, inBand
  <1>19. i \in 0..(rows * columns - 1)
    <2> HIDE DEF h, y, d
    <2>1. d * band \in Nat /\ rows * columns \in Nat /\ h * columns \in Nat
      BY <1>2, <1>6
    <2> QED
      BY <1>7, <1>9, <1>10, <1>11, <2>1
  <1> HIDE DEF inBand, column, row, bandIs, height, y
  <1> QED
    BY <1>13, <1>16, <1>17, <1>18, <1>19 DEF IsMergedPosition

\* Every position is one of them.
LEMMA MergedSnakeParts ==
    ASSUME NEW rows \in Nat \ {0}, NEW columns \in Nat \ {0}, NEW offset \in Nat \ {0}, NEW half \in BOOLEAN,
           NEW i \in 0..(rows * columns - 1)
    PROVE  \E band \in 0..LastBand(rows, offset, half), c \in 0..(columns - 1), x \in Nat :
             /\ x < RowsOfBand(band, rows, offset, half)
             /\ IsMergedPosition(i, band, c, x, rows, columns, offset, half)
  <1> DEFINE last == LastBand(rows, offset, half)
             d == offset * columns
             q == i \div d
             band == IF q < last THEN q ELSE last
             h == RowsOfBand(band, rows, offset, half)
             y == i - d * band
  <1>1. last \in Nat /\ d \in Nat \ {0} /\ i \in Nat /\ rows * columns \in Nat
    BY MergedBands
  <1>2. q \in Nat /\ i % d \in 0..(d - 1) /\ i = d * q + (i % d)
    <2> HIDE DEF d
    <2> QED
      BY <1>1, DivMod
  <1>3. band \in 0..last /\ d * band <= d * q
    <2>1. band \in 0..last /\ band <= q
      <3> HIDE DEF q, last
      <3> QED
        BY <1>1, <1>2
    <2> HIDE DEF q, last, d, band
    <2> QED
      BY <1>1, <1>2, <2>1
  <1>4. h \in Nat \ {0} /\ h = IF band = last THEN rows - offset * band ELSE offset
    <2> HIDE DEF band
    <2> QED
      BY <1>3, MergedBands DEF RowsOfBand
  <1>5. y \in 0..(h * columns - 1)
    <2>1. y \in Nat
      <3>1. d * band \in Nat /\ d * q \in Nat
        <4> HIDE DEF d, band, q
        <4> QED
          BY <1>1, <1>2, <1>3
      <3> HIDE DEF d, band, q
      <3> QED
        BY <1>1, <1>2, <1>3, <3>1
    <2>2. CASE band = last
      <3>1. h = rows - offset * band
        BY <1>4, <2>2
      <3>2. h * columns = rows * columns - d * band
        <4> HIDE DEF h, band
        <4> QED
          BY <1>3, <3>1
      <3>3. d * band \in Nat
        BY <1>1, <1>3
      <3> HIDE DEF h, d, band
      <3> QED
        BY <1>1, <2>1, <3>2, <3>3 DEF y
    <2>3. CASE band # last
      <3>1. h = offset
        BY <1>4, <2>3
      <3>2. band = q
        BY <2>3
      <3>3. h * columns = d
        <4> HIDE DEF h
        <4> QED
          BY <3>1
      <3>4. y = i % d
        <4>1. d * q \in Nat
          <5> HIDE DEF d, q
          <5> QED
            BY <1>1, <1>2
        <4> HIDE DEF d, band, q
        <4> QED
          BY <1>2, <3>2, <4>1
      <3> HIDE DEF h, d, band, q, y
      <3> QED
        BY <1>1, <1>2, <3>3, <3>4
    <2> QED
      BY <2>2, <2>3
  <1> DEFINE c == y \div h
             x == y % h
  <1>6. c \in Nat /\ x \in 0..(h - 1) /\ y = h * c + x
    <2>1. y \in Nat
      <3>1. h * columns \in Nat
        <4> HIDE DEF h
        <4> QED
          BY <1>4
      <3> HIDE DEF y, h
      <3> QED
        BY <1>5, <3>1
    <2>2. h \in Nat \ {0}
      BY <1>4
    <2> HIDE DEF y, h
    <2> QED
      BY <2>1, <2>2, DivMod
  <1>7. c < columns
    <2> SUFFICES ASSUME columns <= c PROVE FALSE
      BY <1>6
    <2> HIDE DEF y, h, c, x
    <2>1. h * columns <= h * c /\ h * columns \in Nat /\ h * c \in Nat
      BY <1>4, <1>6
    <2> QED
      BY <1>4, <1>5, <1>6, <2>1
  <1>8. i = band * d + y
    <2>1. d * band \in Nat /\ d * band = band * d
      <3> HIDE DEF d, band
      <3> QED
        BY <1>1, <1>3
    <2> HIDE DEF d, band
    <2> QED
      BY <1>1, <2>1
  <1>9. i = band * (offset * columns) + (h * c + x)
    <2> HIDE DEF band, h, c, x, y
    <2> QED
      BY <1>6, <1>8
  <1>10. c \in 0..(columns - 1) /\ x \in 0..(h - 1)
    <2> HIDE DEF c, x, h
    <2> QED
      BY <1>6, <1>7
  <1>11. IsMergedPosition(i, band, c, x, rows, columns, offset, half)
    <2>1. band \in 0..LastBand(rows, offset, half) /\ x \in 0..(RowsOfBand(band, rows, offset, half) - 1)
      BY <1>3, <1>10
    <2>2. i = band * (offset * columns) + (RowsOfBand(band, rows, offset, half) * c + x)
      BY <1>9
    <2> HIDE DEF band, c, x
    <2> QED
      BY <1>10, <2>1, <2>2, MergedSnakeIn
  <1>12. x \in Nat /\ x < RowsOfBand(band, rows, offset, half)
    <2>1. x \in Nat /\ x < h
      <3> HIDE DEF x, h
      <3> QED
        BY <1>4, <1>10
    <2> QED
      BY <2>1
  <1>13. band \in 0..LastBand(rows, offset, half)
    BY <1>3
  <1> HIDE DEF band, c, x
  <1> QED
    BY <1>10, <1>11, <1>12, <1>13

\* The row of a position in its band.
LEMMA RowInside ==
    ASSUME NEW h \in Nat \ {0}, NEW x \in 0..(h - 1), NEW column
    PROVE  RowInColumn(column, x, h) \in 0..(h - 1)
  BY DEF RowInColumn

\* The snake with the low band merged stays within the grid ...
LEMMA MergedSnakeInside ==
    ASSUME NEW rows \in Nat \ {0}, NEW columns \in Nat \ {0}, NEW offset \in Nat \ {0}, NEW half \in BOOLEAN,
           NEW i \in 0..(rows * columns - 1)
    PROVE  MergedSnake(i, rows, columns, offset, half) \in [row : 0..(rows - 1), column : 0..(columns - 1)]
  <1>1. PICK band \in 0..LastBand(rows, offset, half), c \in 0..(columns - 1), x \in Nat :
             /\ x < RowsOfBand(band, rows, offset, half)
             /\ IsMergedPosition(i, band, c, x, rows, columns, offset, half)
    BY MergedSnakeParts
  <1> DEFINE h == RowsOfBand(band, rows, offset, half)
             y == RowInColumn(ColumnOnTheWay(band, c, columns), x, h)
  <1>2. h \in Nat \ {0} /\ offset * band + h <= rows /\ band \in Nat
    BY MergedBands
  <1>3. y \in 0..(h - 1)
    <2>1. x \in 0..(h - 1)
      BY <1>1, <1>2
    <2> HIDE DEF h
    <2> QED
      BY <1>2, <2>1, RowInside
  <1>4. MergedSnake(i, rows, columns, offset, half) =
          [row |-> band * offset + y, column |-> ColumnOnTheWay(band, c, columns)]
    BY <1>1 DEF IsMergedPosition
  <1>5. ColumnOnTheWay(band, c, columns) \in 0..(columns - 1)
    BY DEF ColumnOnTheWay
  <1> HIDE DEF y, h
  <1>6. band * offset = offset * band /\ offset * band \in Nat
    BY <1>2
  <1>7. band * offset + y \in 0..(rows - 1)
    BY <1>2, <1>3, <1>6
  <1> QED
    BY <1>4, <1>5, <1>7

\* ... gives no block to two positions ...
LEMMA MergedSnakeInjective ==
    ASSUME NEW rows \in Nat \ {0}, NEW columns \in Nat \ {0}, NEW offset \in Nat \ {0}, NEW half \in BOOLEAN,
           NEW i \in 0..(rows * columns - 1), NEW j \in 0..(rows * columns - 1),
           MergedSnake(i, rows, columns, offset, half) = MergedSnake(j, rows, columns, offset, half)
    PROVE  i = j
  <1> DEFINE last == LastBand(rows, offset, half)
             h(band) == RowsOfBand(band, rows, offset, half)
             y(band, c, x) == RowInColumn(ColumnOnTheWay(band, c, columns), x, h(band))
  <1>0. /\ last \in Nat
        /\ \A band \in 0..last :
              /\ h(band) \in Nat \ {0} /\ offset * band + h(band) <= rows
              /\ band < last => h(band) = offset
    BY MergedBands DEF RowsOfBand
  <1>1. PICK b \in 0..last, c \in 0..(columns - 1), x \in Nat :
             x < h(b) /\ IsMergedPosition(i, b, c, x, rows, columns, offset, half)
    BY MergedSnakeParts
  <1>2. PICK bJ \in 0..last, cJ \in 0..(columns - 1), xJ \in Nat :
             x < h(b) /\ xJ < h(bJ) /\ IsMergedPosition(j, bJ, cJ, xJ, rows, columns, offset, half)
    BY <1>1, MergedSnakeParts
  <1>3. /\ b * offset + y(b, c, x) = bJ * offset + y(bJ, cJ, xJ)
        /\ ColumnOnTheWay(b, c, columns) = ColumnOnTheWay(bJ, cJ, columns)
    BY <1>1, <1>2 DEF IsMergedPosition
  <1>4. /\ i = b * (offset * columns) + (h(b) * c + x)
        /\ j = bJ * (offset * columns) + (h(bJ) * cJ + xJ)
    BY <1>1, <1>2 DEF IsMergedPosition
  <1>5. y(b, c, x) \in 0..(h(b) - 1) /\ y(bJ, cJ, xJ) \in 0..(h(bJ) - 1)
    <2>1. h(b) \in Nat \ {0} /\ h(bJ) \in Nat \ {0} /\ x \in 0..(h(b) - 1) /\ xJ \in 0..(h(bJ) - 1)
      <3> HIDE DEF h
      <3> QED
        BY <1>0, <1>1, <1>2
    <2> HIDE DEF h
    <2> QED
      BY <2>1, RowInside
  <1> HIDE DEF h, y, last
  <1>6. ASSUME NEW p \in 0..last, NEW q \in 0..last, NEW u \in 0..(h(p) - 1), NEW v \in 0..(h(q) - 1),
               p * offset + u = q * offset + v
        PROVE  ~(p < q)
    <2> SUFFICES ASSUME p < q PROVE FALSE
      OBVIOUS
    <2>1. h(p) = offset /\ p \in Nat /\ q \in Nat /\ h(q) \in Nat
      BY <1>0
    <2>2. (p + 1) * offset <= q * offset /\ (p + 1) * offset = p * offset + offset
      BY <2>1
    <2>3. p * offset \in Nat /\ q * offset \in Nat
      BY <2>1
    <2> QED
      BY <1>6, <2>1, <2>2, <2>3
  <1>7. b = bJ
    BY <1>0, <1>3, <1>5, <1>6
  <1>8. c = cJ
    BY <1>3, <1>7 DEF ColumnOnTheWay
  <1>9. x = xJ
    <2>1. y(b, c, x) = y(b, c, xJ)
      <3>1. b * offset \in Nat
        BY <1>0
      <3> QED
        BY <1>0, <1>3, <1>5, <1>7, <1>8, <3>1
    <2>2. h(b) \in Nat
      BY <1>0
    <2> QED
      BY <2>1, <2>2 DEF y, RowInColumn
  <1> QED
    BY <1>4, <1>7, <1>8, <1>9

\* Whether position i is a block of the grid.
MergedVisits(i, row, column, rows, columns, offset, half) ==
    MergedSnake(i, rows, columns, offset, half) = [row |-> row, column |-> column]

\* ... and leaves none out.
LEMMA MergedSnakeOnto ==
    ASSUME NEW rows \in Nat \ {0}, NEW columns \in Nat \ {0}, NEW offset \in Nat \ {0}, NEW half \in BOOLEAN,
           NEW row \in 0..(rows - 1), NEW column \in 0..(columns - 1)
    PROVE  \E i \in 0..(rows * columns - 1) : MergedVisits(i, row, column, rows, columns, offset, half)
  <1> DEFINE last == LastBand(rows, offset, half)
             q == row \div offset
             band == IF q < last THEN q ELSE last
             h == RowsOfBand(band, rows, offset, half)
             y == row - offset * band
             c == ColumnOnTheWay(band, column, columns)
             x == RowInColumn(column, y, h)
  <1>1. last \in Nat /\ offset * last < rows /\ row \in Nat
    BY MergedBands
  <1>2. q \in Nat /\ row % offset \in 0..(offset - 1) /\ row = offset * q + (row % offset)
    BY <1>1, DivMod
  <1>3. band \in 0..last /\ band <= q
    <2> HIDE DEF q, last
    <2> QED
      BY <1>1, <1>2
  <1>4. h \in Nat \ {0} /\ h = IF band = last THEN rows - offset * band ELSE offset
    <2> HIDE DEF band
    <2> QED
      BY <1>3, MergedBands DEF RowsOfBand
  <1>5. y \in 0..(h - 1)
    <2>1. offset * band <= offset * q /\ offset * band \in Nat /\ offset * q \in Nat
      <3> HIDE DEF q, band, last
      <3> QED
        BY <1>1, <1>2, <1>3
    <2>2. CASE band = last
      <3>1. h = rows - offset * band
        BY <1>4, <2>2
      <3> HIDE DEF q, band, last, h
      <3> QED
        BY <1>2, <2>1, <3>1
    <2>3. CASE band # last
      <3>1. h = offset /\ band = q
        BY <1>4, <2>3
      <3> HIDE DEF q, band, last, h
      <3> QED
        BY <1>2, <2>1, <3>1
    <2> QED
      BY <2>2, <2>3
  <1>6. c \in 0..(columns - 1) /\ ColumnOnTheWay(band, c, columns) = column
    <2> HIDE DEF band
    <2> QED
      BY DEF ColumnOnTheWay
  <1>7. x \in 0..(h - 1) /\ RowInColumn(column, x, h) = y
    <2> HIDE DEF y, h
    <2> QED
      BY <1>4, <1>5 DEF RowInColumn
  <1> DEFINE i == band * (offset * columns) + (h * c + x)
  <1>8. /\ IsMergedPosition(i, band, c, x, rows, columns, offset, half)
        /\ i \in 0..(rows * columns - 1)
    <2>1. band \in 0..LastBand(rows, offset, half) /\ x \in 0..(RowsOfBand(band, rows, offset, half) - 1)
      BY <1>3, <1>7
    <2>2. i = band * (offset * columns) + (RowsOfBand(band, rows, offset, half) * c + x)
      OBVIOUS
    <2> HIDE DEF band, c, x, i
    <2> QED
      BY <1>6, <2>1, <2>2, MergedSnakeIn
  <1>9. MergedSnake(i, rows, columns, offset, half) = [row |-> band * offset + y, column |-> column]
    <2> HIDE DEF i, c, x, y, band
    <2> QED
      BY <1>6, <1>7, <1>8 DEF IsMergedPosition
  <1>10. band * offset + y = row
    <2>1. offset * band \in Nat /\ band * offset = offset * band
      <3> HIDE DEF band, last
      <3> QED
        BY <1>1, <1>3
    <2> HIDE DEF band
    <2> QED
      BY <1>1, <2>1
  <1> HIDE DEF i, y, band
  <1> QED
    BY <1>8, <1>9, <1>10 DEF MergedVisits
-----------------------------------------------------------------------------
(* The scheduler with all of k in one core. *)

\* The range of a core is a slice of the blocks, although it is computed in another way.
LEMMA RangeIsSlice ==
    ASSUME NEW p, p.cores \in Nat \ {0}, MNLoops(p) \in Nat \ {0}, NEW core \in 0..(p.cores - 1)
    PROVE  /\ GetMNLoopRange(p, core).start = GetKIdxBySplitkSliceIdx(core, MNLoops(p), p.cores)
           /\ GetMNLoopRange(p, core).len = SplitkSliceTiles(core, MNLoops(p), p.cores)
  <1>1. PICK c \in Nat \ {0}, n \in Nat \ {0} : p.cores = c /\ MNLoops(p) = n
    OBVIOUS
  <1>2. PICK q \in Nat, r \in 0..(c - 1) :
             /\ n = c * q + r
             /\ \A s \in 0..c :
                   /\ GetKIdxBySplitkSliceIdx(s, n, c) = IF s < r THEN (q + 1) * s ELSE s * q + r
                   /\ SplitkSliceTiles(s, n, c) = IF s < r THEN q + 1 ELSE q
    BY SliceCases
  <1> DEFINE per == CeilDiv(n, c)
             full == n - c * (per - 1)
  <1>3. GetMNLoopRange(p, core) =
            [start |-> IF core < full THEN core * per ELSE full * per + (core - full) * (per - 1),
             len |-> IF core < full THEN per ELSE per - 1]
    BY <1>1 DEF GetMNLoopRange
  <1>4. core \in 0..(c - 1) /\ core \in 0..c
    BY <1>1
  <1>5. CASE r = 0
    <2>1. n + c - 1 = c * q + (c - 1)
      BY <1>2, <1>5
    <2>2. per = q
      <3>1. (c * q + (c - 1)) \div c = q
        <4>1. c - 1 \in 0..(c - 1)
          OBVIOUS
        <4> QED
          BY <4>1, DivOf
      <3> QED
        BY <2>1, <3>1 DEF CeilDiv
    <2>3. full = c
      <3>1. c * (q - 1) = c * q - c
        OBVIOUS
      <3> HIDE DEF per
      <3> QED
        BY <1>2, <1>5, <2>2, <3>1
    <2>4. core < full /\ core * per = core * q + r
      <3> HIDE DEF per, full
      <3> QED
        BY <1>4, <1>5, <2>2, <2>3
    <2> HIDE DEF per, full
    <2> QED
      BY <1>1, <1>2, <1>3, <1>4, <1>5, <2>2, <2>4
  <1>6. CASE r # 0
    <2>1. PICK e \in Nat : e = q + 1
      OBVIOUS
    <2>2. n + c - 1 = c * e + (r - 1)
      <3>1. c * e = c * q + c
        BY <2>1
      <3>2. c * q \in Nat
        OBVIOUS
      <3> QED
        BY <1>2, <3>1, <3>2
    <2>3. per = q + 1
      <3>1. (c * e + (r - 1)) \div c = e
        <4>1. r - 1 \in 0..(c - 1)
          BY <1>6
        <4> QED
          BY <4>1, DivOf
      <3> QED
        BY <2>1, <2>2, <3>1 DEF CeilDiv
    <2>4. full = r
      <3>1. c * q \in Nat
        OBVIOUS
      <3> HIDE DEF per
      <3> QED
        BY <1>2, <2>3, <3>1
    <2>5. CASE core < r
      <3>1. core * (q + 1) = (q + 1) * core
        BY <1>4
      <3> HIDE DEF per, full
      <3> QED
        BY <1>1, <1>2, <1>3, <1>4, <2>3, <2>4, <2>5, <3>1
    <2>6. CASE ~(core < r)
      <3>1. PICK d \in Nat : core = r + d
        <4>1. core - r \in Nat /\ core = r + (core - r)
          BY <1>4, <2>6
        <4> QED
          BY <4>1
      <3>2. r * (q + 1) + (core - r) * q = core * q + r
        <4>1. r * (q + 1) = r * q + r /\ (core - r) * q = d * q /\ core * q = r * q + d * q
          BY <3>1
        <4>2. r * q \in Nat /\ d * q \in Nat
          BY <3>1
        <4> QED
          BY <4>1, <4>2
      <3> HIDE DEF per, full
      <3> QED
        BY <1>1, <1>2, <1>3, <1>4, <2>3, <2>4, <2>6, <3>2
    <2> QED
      BY <2>5, <2>6
  <1> QED
    BY <1>5, <1>6

\* A position is its row and its column.
LEMMA SamePosition ==
    ASSUME NEW R, NEW C, NEW a \in [row : R, column : C], NEW b \in [row : R, column : C],
           a.row = b.row, a.column = b.column
    PROVE  a = b
  OBVIOUS

\* A tile begins where no other tile does.
LEMMA Cancel ==
    ASSUME NEW x \in Nat, NEW y \in Nat, NEW t \in Nat \ {0}, x * t = y * t
    PROVE  x = y
  <1>1. \A u, v \in Nat : u < v => u * t < v * t
    <2> SUFFICES ASSUME NEW u \in Nat, NEW v \in Nat, u < v PROVE u * t < v * t
      OBVIOUS
    <2>1. (u + 1) * t <= v * t /\ (u + 1) * t = u * t + t
      OBVIOUS
    <2>2. u * t \in Nat /\ v * t \in Nat
      OBVIOUS
    <2> QED
      BY <2>1, <2>2
  <1>2. x * t \in Nat
    OBVIOUS
  <1> QED
    BY <1>1, <1>2

\* Whether loop iteration loopIdx of a core is k tile k of block <<m, n>>.
TakesBlock(p, core, loopIdx, m, n, k) ==
    SingleCoreSplitkBlock(p, core, loopIdx) =
        Block(p, [m |-> m, n |-> n], k, ActualLength(k, Loops(p).k, p.shape.k, p.tile.k))

\* The single-core split-K scheduler gives each k tile of each block of C to exactly one
\* iteration of exactly one core, for every problem, tile, number of cores, offset and
\* direction: the ranges of the cores, the order of the blocks with a low last band merged,
\* and the loop that comes back to a block for each of its k tiles
\* (SingleCoreSplitkGemmIdentityBlockSwizzle).
THEOREM SingleCoreEveryBlockOnce ==
    ASSUME NEW p, p.cores \in Nat \ {0}, p.offset \in Nat \ {0}, p.direction \in {0, 1},
           p.tile \in [m : Nat \ {0}, n : Nat \ {0}, k : Nat \ {0}],
           Loops(p) \in [m : Nat \ {0}, n : Nat \ {0}, k : Nat \ {0}],
           NEW m \in 0..(Loops(p).m - 1), NEW n \in 0..(Loops(p).n - 1), NEW k \in 0..(Loops(p).k - 1)
    PROVE  \E core \in 0..(p.cores - 1) : \E loopIdx \in 0..(GetSingleCoreLoops(p, core) - 1) :
             /\ TakesBlock(p, core, loopIdx, m, n, k)
             /\ \A o \in 0..(p.cores - 1) : \A u \in 0..(GetSingleCoreLoops(p, o) - 1) :
                  TakesBlock(p, o, u, m, n, k) => o = core /\ u = loopIdx
  <1>1. PICK rows \in Nat \ {0}, columns \in Nat \ {0}, kLoops \in Nat \ {0} :
             Loops(p) = [m |-> rows, n |-> columns, k |-> kLoops]
    OBVIOUS
  <1>2. PICK c \in Nat \ {0}, offset \in Nat \ {0} : p.cores = c /\ p.offset = offset
    OBVIOUS
  <1>3. PICK tm \in Nat \ {0}, tn \in Nat \ {0}, tk \in Nat \ {0} : p.tile = [m |-> tm, n |-> tn, k |-> tk]
    OBVIOUS
  <1> DEFINE mn == rows * columns
             Coord(i) == IF p.direction = 0
                         THEN LET s == MergedSnake(i, rows, columns, offset, TRUE) IN [m |-> s.row, n |-> s.column]
                         ELSE LET s == MergedSnake(i, columns, rows, offset, FALSE) IN [m |-> s.column, n |-> s.row]
             Start(o) == GetMNLoopRange(p, o).start
             Len(o) == GetMNLoopRange(p, o).len
             In(o, i) == Start(o) <= i /\ i < Start(o) + Len(o)
  <1>4. mn \in Nat \ {0} /\ MNLoops(p) = mn /\ columns * rows = mn
    BY <1>1 DEF MNLoops
  <1>5. m \in 0..(rows - 1) /\ n \in 0..(columns - 1) /\ k \in 0..(kLoops - 1)
    BY <1>1
  <1>6. ASSUME NEW i \in 0..(mn - 1)
        PROVE  Coord(i) \in [m : 0..(rows - 1), n : 0..(columns - 1)]
    <2>1. i \in 0..(rows * columns - 1) /\ i \in 0..(columns * rows - 1)
      BY <1>4
    <2>2. MergedSnake(i, rows, columns, offset, TRUE) \in [row : 0..(rows - 1), column : 0..(columns - 1)]
      BY <2>1, MergedSnakeInside
    <2>3. MergedSnake(i, columns, rows, offset, FALSE) \in [row : 0..(columns - 1), column : 0..(rows - 1)]
      BY <2>1, MergedSnakeInside
    <2> QED
      BY <2>2, <2>3
  <1>7. ASSUME NEW i \in 0..(mn - 1), NEW j \in 0..(mn - 1), Coord(i) = Coord(j)
        PROVE  i = j
    <2>1. i \in 0..(rows * columns - 1) /\ i \in 0..(columns * rows - 1)
      BY <1>4
    <2>2. j \in 0..(rows * columns - 1) /\ j \in 0..(columns * rows - 1)
      BY <1>4
    <2>3. CASE p.direction = 0
      <3>1. /\ MergedSnake(i, rows, columns, offset, TRUE) \in [row : 0..(rows - 1), column : 0..(columns - 1)]
            /\ MergedSnake(j, rows, columns, offset, TRUE) \in [row : 0..(rows - 1), column : 0..(columns - 1)]
        BY <2>1, <2>2, MergedSnakeInside
      <3>2. MergedSnake(i, rows, columns, offset, TRUE) = MergedSnake(j, rows, columns, offset, TRUE)
        <4> DEFINE s(z) == MergedSnake(z, rows, columns, offset, TRUE)
        <4>1. \A z : Coord(z) = [m |-> s(z).row, n |-> s(z).column]
          BY <2>3
        <4> HIDE DEF Coord
        <4>2. s(i).row = s(j).row /\ s(i).column = s(j).column
          <5> HIDE DEF s
          <5> QED
            BY <1>7, <4>1
        <4> HIDE DEF s
        <4>3. s(i) = s(j)
          BY <3>1, <4>2, SamePosition DEF s
        <4> QED
          BY <4>3 DEF s
      <3> QED
        BY <2>1, <2>2, <3>2, MergedSnakeInjective
    <2>4. CASE p.direction = 1
      <3>1. /\ MergedSnake(i, columns, rows, offset, FALSE) \in [row : 0..(columns - 1), column : 0..(rows - 1)]
            /\ MergedSnake(j, columns, rows, offset, FALSE) \in [row : 0..(columns - 1), column : 0..(rows - 1)]
        BY <2>1, <2>2, MergedSnakeInside
      <3>2. MergedSnake(i, columns, rows, offset, FALSE) = MergedSnake(j, columns, rows, offset, FALSE)
        <4> DEFINE s(z) == MergedSnake(z, columns, rows, offset, FALSE)
        <4>1. \A z : Coord(z) = [m |-> s(z).column, n |-> s(z).row]
          BY <2>4
        <4> HIDE DEF Coord
        <4>2. s(i).row = s(j).row /\ s(i).column = s(j).column
          <5> HIDE DEF s
          <5> QED
            BY <1>7, <4>1
        <4> HIDE DEF s
        <4>3. s(i) = s(j)
          BY <3>1, <4>2, SamePosition DEF s
        <4> QED
          BY <4>3 DEF s
      <3> QED
        BY <2>1, <2>2, <3>2, MergedSnakeInjective
    <2> QED
      BY <2>3, <2>4
  <1>8. \E i \in 0..(mn - 1) : Coord(i) = [m |-> m, n |-> n]
    <2>1. CASE p.direction = 0
      <3>1. PICK i \in 0..(rows * columns - 1) : MergedVisits(i, m, n, rows, columns, offset, TRUE)
        BY <1>5, MergedSnakeOnto
      <3>2. Coord(i) = [m |-> m, n |-> n]
        <4> DEFINE s(z) == MergedSnake(z, rows, columns, offset, TRUE)
        <4>1. Coord(i) = [m |-> s(i).row, n |-> s(i).column]
          BY <2>1
        <4>2. s(i) = [row |-> m, column |-> n]
          BY <3>1 DEF MergedVisits
        <4> HIDE DEF s, Coord
        <4> QED
          BY <4>1, <4>2
      <3> HIDE DEF Coord
      <3> QED
        BY <3>1, <3>2
    <2>2. CASE p.direction = 1
      <3>1. PICK i \in 0..(columns * rows - 1) : MergedVisits(i, n, m, columns, rows, offset, FALSE)
        BY <1>5, MergedSnakeOnto
      <3>2. i \in 0..(mn - 1)
        BY <1>4, <3>1
      <3>3. Coord(i) = [m |-> m, n |-> n]
        <4> DEFINE s(z) == MergedSnake(z, columns, rows, offset, FALSE)
        <4>1. Coord(i) = [m |-> s(i).column, n |-> s(i).row]
          BY <2>2
        <4>2. s(i) = [row |-> n, column |-> m]
          BY <3>1 DEF MergedVisits
        <4> HIDE DEF s, Coord
        <4> QED
          BY <4>1, <4>2
      <3> HIDE DEF Coord
      <3> QED
        BY <3>2, <3>3
    <2> QED
      BY <2>1, <2>2
  <1>9. \A o \in 0..(c - 1) : Start(o) \in Nat /\ Len(o) \in Nat /\ Start(o) + Len(o) <= mn
    <2>1. PICK q \in Nat, r \in 0..(c - 1) :
             /\ mn = c * q + r
             /\ \A s \in 0..c :
                   /\ GetKIdxBySplitkSliceIdx(s, mn, c) = IF s < r THEN (q + 1) * s ELSE s * q + r
                   /\ SplitkSliceTiles(s, mn, c) = IF s < r THEN q + 1 ELSE q
      <3> HIDE DEF mn
      <3> QED
        BY <1>4, SliceCases
    <2>2. ASSUME NEW o \in 0..(c - 1)
          PROVE  Start(o) \in Nat /\ Len(o) \in Nat /\ Start(o) + Len(o) <= mn
      <3>1. /\ Start(o) = IF o < r THEN (q + 1) * o ELSE o * q + r
            /\ Len(o) = IF o < r THEN q + 1 ELSE q
        <4>1. o \in 0..(p.cores - 1) /\ o \in 0..c
          BY <1>2
        <4> HIDE DEF mn
        <4>2. Start(o) = GetKIdxBySplitkSliceIdx(o, mn, c) /\ Len(o) = SplitkSliceTiles(o, mn, c)
          BY <1>2, <1>4, <4>1, RangeIsSlice
        <4> QED
          BY <2>1, <4>1, <4>2
      <3> HIDE DEF Start, Len, mn
      <3>2. PICK d \in Nat : c = o + 1 + d
        <4>1. c - o - 1 \in Nat /\ c = o + 1 + (c - o - 1)
          OBVIOUS
        <4> QED
          BY <4>1
      <3>3. c * q = o * q + q + d * q /\ o * q \in Nat /\ d * q \in Nat
        BY <3>2
      <3>4. (q + 1) * o = o * q + o
        OBVIOUS
      <3> QED
        BY <2>1, <3>1, <3>3, <3>4
    <2> QED
      BY <2>2
  <1>10. ASSUME NEW i \in 0..(mn - 1)
         PROVE  \E o \in 0..(c - 1) : In(o, i) /\ \A u \in 0..(c - 1) : In(u, i) => u = o
    <2>1. \A o \in 0..(c - 1) : /\ Start(o) = GetKIdxBySplitkSliceIdx(o, mn, c)
                                /\ Len(o) = SplitkSliceTiles(o, mn, c)
      <3>1. \A o \in 0..(c - 1) : o \in 0..(p.cores - 1)
        BY <1>2
      <3> HIDE DEF mn
      <3> QED
        BY <1>2, <1>4, <3>1, RangeIsSlice
    <2>2. \E s \in 0..(c - 1) :
             /\ GetKIdxBySplitkSliceIdx(s, mn, c) <= i
             /\ i < GetKIdxBySplitkSliceIdx(s, mn, c) + SplitkSliceTiles(s, mn, c)
             /\ \A o \in 0..(c - 1) :
                   /\ GetKIdxBySplitkSliceIdx(o, mn, c) <= i
                   /\ i < GetKIdxBySplitkSliceIdx(o, mn, c) + SplitkSliceTiles(o, mn, c)
                   => o = s
      <3> HIDE DEF mn
      <3> QED
        BY <1>4, TileInOneSlice
    <2> HIDE DEF mn, Start, Len
    <2> QED
      BY <2>1, <2>2
  <1>11. \A o \in 0..(c - 1) : GetSingleCoreLoops(p, o) = kLoops * Len(o)
    BY <1>1 DEF GetSingleCoreLoops
  <1>12. ASSUME NEW o \in 0..(c - 1), NEW u \in 0..(kLoops * Len(o) - 1)
         PROVE  /\ Len(o) # 0
                /\ u % Len(o) \in 0..(Len(o) - 1) /\ u \div Len(o) \in 0..(kLoops - 1)
                /\ u = Len(o) * (u \div Len(o)) + (u % Len(o))
                /\ Start(o) + (u % Len(o)) \in 0..(mn - 1) /\ In(o, Start(o) + (u % Len(o)))
    <2>1. PICK l \in Nat : l = Len(o)
      BY <1>9
    <2>2. l # 0 /\ u \in Nat
      <3>1. kLoops * l \in Nat /\ (l = 0 => kLoops * l = 0)
        OBVIOUS
      <3> HIDE DEF Len
      <3> QED
        BY <2>1, <3>1
    <2>3. u \div l \in Nat /\ u % l \in 0..(l - 1) /\ u = l * (u \div l) + (u % l)
      BY <2>2, DivMod
    <2>4. u \div l < kLoops
      <3> SUFFICES ASSUME kLoops <= u \div l PROVE FALSE
        BY <2>3
      <3>1. l * kLoops <= l * (u \div l) /\ l * kLoops = kLoops * l
        BY <2>3
      <3>2. u < kLoops * l
        <4> HIDE DEF Len
        <4> QED
          BY <2>1, <2>2
      <3>3. l * kLoops \in Nat /\ l * (u \div l) \in Nat
        BY <2>3
      <3> QED
        BY <2>2, <2>3, <3>1, <3>2, <3>3
    <2>5. Start(o) \in Nat /\ Start(o) + l <= mn
      BY <1>9, <2>1
    <2> HIDE DEF Start, Len, mn
    <2>6. Start(o) + (u % l) \in 0..(mn - 1) /\ In(o, Start(o) + (u % l))
      <3>1. PICK a \in Nat, z \in 0..(l - 1) : a = Start(o) /\ z = u % l
        BY <2>3, <2>5
      <3>2. a + z \in 0..(mn - 1) /\ a <= a + z /\ a + z < a + l
        BY <1>4, <2>2, <2>5, <3>1
      <3>3. In(o, a + z)
        BY <2>1, <3>1, <3>2
      <3> QED
        BY <3>1, <3>2, <3>3
    <2>7. u \div l \in 0..(kLoops - 1)
      BY <2>3, <2>4
    <2> QED
      BY <2>1, <2>2, <2>3, <2>6, <2>7
  <1>13. ASSUME NEW o \in 0..(c - 1), NEW u \in 0..(kLoops * Len(o) - 1)
         PROVE  TakesBlock(p, o, u, m, n, k)
                  <=> Coord(Start(o) + (u % Len(o))) = [m |-> m, n |-> n] /\ u \div Len(o) = k
    <2> DEFINE i == Start(o) + (u % Len(o))
               kIdx == u \div Len(o)
               at == Coord(i)
    <2>1. i \in 0..(mn - 1) /\ kIdx \in 0..(kLoops - 1)
      <3> HIDE DEF mn, Start, Len
      <3> QED
        BY <1>12
    <2>2. at \in [m : 0..(rows - 1), n : 0..(columns - 1)]
      <3> HIDE DEF mn, Coord, i
      <3> QED
        BY <1>6, <2>1
    <2>3. SingleCoreSplitkBlock(p, o, u) =
            Block(p, at, kIdx, ActualLength(kIdx, Loops(p).k, p.shape.k, p.tile.k))
      BY <1>1, <1>2 DEF SingleCoreSplitkBlock
    <2> HIDE DEF at, i, kIdx, Coord
    <2>4. ASSUME TakesBlock(p, o, u, m, n, k)
          PROVE  at = [m |-> m, n |-> n] /\ kIdx = k
      <3>1. at.m * tm = m * tm /\ at.n * tn = n * tn /\ kIdx * tk = k * tk
        BY <1>3, <2>3, <2>4 DEF TakesBlock, Block
      <3>3. at.m = m /\ at.n = n /\ kIdx = k
        <4>1. at.m \in Nat /\ at.n \in Nat /\ kIdx \in Nat /\ m \in Nat /\ n \in Nat /\ k \in Nat
          BY <1>5, <2>1, <2>2
        <4> QED
          BY <3>1, <4>1, Cancel
      <3> QED
        BY <2>2, <3>3
    <2>5. ASSUME at = [m |-> m, n |-> n], kIdx = k
          PROVE  TakesBlock(p, o, u, m, n, k)
      BY <2>3, <2>5 DEF TakesBlock
    <2>6. TakesBlock(p, o, u, m, n, k) <=> at = [m |-> m, n |-> n] /\ kIdx = k
      BY <2>4, <2>5
    <2> QED
      BY <2>6 DEF at, i, kIdx
  <1>14. PICK i \in 0..(mn - 1) : Coord(i) = [m |-> m, n |-> n]
    BY <1>8
  <1>15. PICK o \in 0..(c - 1) : In(o, i) /\ \A u \in 0..(c - 1) : In(u, i) => u = o
    BY <1>10
  <1> HIDE DEF Start, Len, Coord, mn
  <1>16. PICK l \in Nat \ {0}, x \in Nat : l = Len(o) /\ x < l /\ i = Start(o) + x
    <2>1. Start(o) \in Nat /\ Len(o) \in Nat /\ i \in Nat /\ Start(o) <= i /\ i < Start(o) + Len(o)
      BY <1>4, <1>9, <1>15
    <2>2. i - Start(o) \in Nat /\ i - Start(o) < Len(o) /\ i = Start(o) + (i - Start(o)) /\ Len(o) # 0
      BY <2>1
    <2> QED
      BY <2>1, <2>2
  <1> DEFINE loopIdx == l * k + x
  <1>17. loopIdx \in 0..(kLoops * Len(o) - 1) /\ loopIdx \div l = k /\ loopIdx % l = x
    <2>1. l * (k + 1) <= l * kLoops /\ l * (k + 1) = l * k + l /\ l * kLoops = kLoops * l
      BY <1>5
    <2>2. l * k \in Nat /\ kLoops * l \in Nat
      BY <1>5
    <2>3. loopIdx \div l = k /\ loopIdx % l = x
      <3>1. k \in Nat /\ x \in 0..(l - 1)
        BY <1>5, <1>16
      <3> QED
        BY <3>1, DivOf
    <2>4. kLoops * Len(o) = kLoops * l
      BY <1>16
    <2>5. loopIdx \in 0..(kLoops * l - 1)
      BY <1>16, <2>1, <2>2
    <2> HIDE DEF loopIdx
    <2> QED
      BY <2>3, <2>4, <2>5
  <1> HIDE DEF loopIdx
  <1>18. TakesBlock(p, o, loopIdx, m, n, k)
    BY <1>13, <1>14, <1>16, <1>17
  <1>19. ASSUME NEW v \in 0..(c - 1), NEW u \in 0..(kLoops * Len(v) - 1), TakesBlock(p, v, u, m, n, k)
         PROVE  v = o /\ u = loopIdx
    <2> DEFINE j == Start(v) + (u % Len(v))
    <2>1. Coord(j) = [m |-> m, n |-> n] /\ u \div Len(v) = k
      BY <1>13, <1>19
    <2>2. j \in 0..(mn - 1) /\ In(v, j)
      BY <1>12
    <2>3. j = i
      <3> HIDE DEF j
      <3> QED
        BY <1>7, <1>14, <2>1, <2>2
    <2>4. v = o
      <3> HIDE DEF j
      <3> QED
        BY <1>15, <2>2, <2>3
    <2>5. u % l = x
      <3>1. Start(o) \in Nat /\ u % l \in Nat /\ Start(o) + (u % l) = Start(o) + x
        BY <1>9, <1>12, <1>16, <2>3, <2>4
      <3> QED
        BY <3>1
    <2>6. u = l * (u \div l) + (u % l)
      BY <1>12, <1>16, <2>4
    <2> QED
      BY <1>16, <2>1, <2>4, <2>5, <2>6 DEF loopIdx
  <1>20. \A v \in 0..(c - 1) : \A u \in 0..(GetSingleCoreLoops(p, v) - 1) :
            TakesBlock(p, v, u, m, n, k) => v = o /\ u = loopIdx
    BY <1>11, <1>19
  <1>21. loopIdx \in 0..(GetSingleCoreLoops(p, o) - 1)
    BY <1>11, <1>17
  <1> QED
    BY <1>2, <1>18, <1>20, <1>21
-----------------------------------------------------------------------------
\* The slices of the tail blocks are no more than one wave (splitkFactor).
LEMMA TailFitsWave ==
    ASSUME NEW p, p.cores \in Nat \ {0}, MNLoops(p) \in Nat, Loops(p).k \in Nat \ {0}
    PROVE  /\ TailBlockNum(p) * GetSplitkFactor(p) \in 0..p.cores
           /\ \E w \in Nat : NormalBlockNum(p) = p.cores * w
  <1>1. PICK c \in Nat \ {0}, n \in Nat, k \in Nat \ {0} : p.cores = c /\ MNLoops(p) = n /\ Loops(p).k = k
    OBVIOUS
  <1>2. PICK w \in Nat, r \in 0..(c - 1) : n = c * w + r /\ r = n % c
    <2>1. n \div c \in Nat /\ n % c \in 0..(c - 1) /\ n = c * (n \div c) + (n % c)
      BY DivMod
    <2> QED
      BY <2>1
  <1>3. TailBlockNum(p) = r /\ NormalBlockNum(p) = c * w
    <2>1. TailBlockNum(p) = r
      BY <1>1, <1>2 DEF TailBlockNum
    <2> QED
      BY <2>1, <1>1, <1>2 DEF NormalBlockNum
  <1>4. r * GetSplitkFactor(p) \in 0..c
    <2>1. CASE r = 0
      <3>1. GetSplitkFactor(p) \in Nat
        BY <1>1, <1>3, <2>1 DEF GetSplitkFactor
      <3> QED
        BY <2>1, <3>1
    <2>2. CASE r > 0
      <3>1. PICK f \in Nat, x \in Nat : f = c \div r /\ c = r * f + x
        <4>1. r \in Nat \ {0} /\ c \in Nat
          BY <2>2
        <4>2. c \div r \in Nat /\ c % r \in 0..(r - 1) /\ c = r * (c \div r) + (c % r)
          BY <4>1, DivMod
        <4> QED
          BY <4>1, <4>2
      <3>2. PICK g \in Nat : g = GetSplitkFactor(p) /\ g <= f
        BY <1>1, <1>3, <2>2, <3>1 DEF GetSplitkFactor
      <3>3. PICK d \in Nat : f = g + d
        <4>1. f - g \in Nat /\ f = g + (f - g)
          BY <3>2
        <4> QED BY <4>1
      <3>4. r * f = r * g + r * d /\ r * g \in Nat /\ r * d \in Nat
        BY <3>3
      <3> QED
        BY <3>1, <3>2, <3>4
    <2> QED
      BY <2>1, <2>2
  <1> QED
    BY <1>1, <1>3, <1>4

\* The kernel's exchange of the last two waves: in the wave before the last the cores
\* that have a slice take it, and their block of that wave afterwards.
LEMMA SwapCases ==
    ASSUME NEW p, p.cores \in Nat \ {0}, MNLoops(p) \in Nat, Loops(p).k \in Nat \ {0},
           NEW t \in 0..(TailSplitkCoreLoops(p) - 1)
    PROVE  LET normal == NormalBlockNum(p)
               tailCores == TailBlockNum(p) * GetSplitkFactor(p)
           IN  SwapLastWaves(p, t % p.cores, t) =
                 IF normal = 0 THEN t
                 ELSE IF normal - p.cores <= t /\ t < normal - p.cores + tailCores THEN t + p.cores
                 ELSE IF normal <= t THEN t - p.cores ELSE t
  <1>1. PICK c \in Nat \ {0} : p.cores = c
    OBVIOUS
  <1>2. PICK w \in Nat, m \in 0..c : NormalBlockNum(p) = c * w /\ TailBlockNum(p) * GetSplitkFactor(p) = m
    BY <1>1, TailFitsWave
  <1>3. PICK normal \in Nat : normal = c * w
    OBVIOUS
  <1>4. TailSplitkCoreLoops(p) = normal + m
    BY <1>2, <1>3 DEF TailSplitkCoreLoops
  <1>5. SwapLastWaves(p, t % c, t) =
          IF t = normal - c + (t % c) /\ t % c < m /\ normal > 0 THEN normal + (t % c)
          ELSE IF t >= normal /\ normal > 0 THEN normal - c + (t % c) ELSE t
    <2>1. (normal + m) - normal = m
      OBVIOUS
    <2> QED
      BY <1>1, <1>2, <1>3, <1>4, <2>1 DEF SwapLastWaves
  <1>6. PICK x \in 0..(c - 1) : x = t % c
    <2>1. t \in Nat
      BY <1>4
    <2>2. t % c \in 0..(c - 1)
      BY <2>1, DivMod
    <2> QED
      BY <2>2
  <1>7. ASSUME NEW q \in Nat, c * q <= t, t < c * q + c
        PROVE  t = c * q + x
    <2>1. PICK y \in 0..(c - 1) : t = c * q + y
      <3>1. c * q \in Nat /\ t - c * q \in 0..(c - 1) /\ t = c * q + (t - c * q)
        BY <1>7, <1>4
      <3> QED
        BY <3>1
    <2>2. (c * q + y) % c = y
      BY DivOf
    <2> QED
      BY <1>6, <2>1, <2>2
  <1>8. normal <= t => t = normal + x
    BY <1>2, <1>3, <1>4, <1>7
  <1>9. normal > 0 => ((normal - c <= t /\ t < normal) => t = normal - c + x)
    <2> SUFFICES ASSUME normal > 0, normal - c <= t, t < normal PROVE t = normal - c + x
      OBVIOUS
    <2>1. PICK q \in Nat : w = q + 1
      <3>1. w # 0
        BY <1>3
      <3>2. w - 1 \in Nat /\ w = (w - 1) + 1
        BY <3>1
      <3> QED
        BY <3>2
    <2>2. normal = c * q + c /\ c * q \in Nat
      BY <1>3, <2>1
    <2> QED
      BY <1>7, <2>2
  <1>10. t \in Nat
    BY <1>4
  <1>11. (IF t = normal - c + x /\ x < m /\ normal > 0 THEN normal + x
          ELSE IF t >= normal /\ normal > 0 THEN normal - c + x ELSE t)
         = (IF normal = 0 THEN t
            ELSE IF normal - c <= t /\ t < normal - c + m THEN t + c
            ELSE IF normal <= t THEN t - c ELSE t)
    BY <1>6, <1>8, <1>9, <1>10
  <1>12. NormalBlockNum(p) = normal /\ TailBlockNum(p) * GetSplitkFactor(p) = m
    BY <1>2, <1>3
  <1>13. SwapLastWaves(p, t % p.cores, t)
           = (IF normal = 0 THEN t
              ELSE IF normal - c <= t /\ t < normal - c + m THEN t + c
              ELSE IF normal <= t THEN t - c ELSE t)
    BY <1>1, <1>5, <1>6, <1>11
  <1> QED
    BY <1>1, <1>12, <1>13

\* The exchange loses no task and doubles none (tail_multi_core_splitk_matmul_tla.hpp,
\* actualLoopIdx), for any number of blocks, cores and k tiles.
THEOREM SwapPermutes ==
    ASSUME NEW p, p.cores \in Nat \ {0}, MNLoops(p) \in Nat, Loops(p).k \in Nat \ {0},
           NEW t \in 0..(TailSplitkCoreLoops(p) - 1)
    PROVE  /\ SwapLastWaves(p, t % p.cores, t) \in 0..(TailSplitkCoreLoops(p) - 1)
           /\ \A u \in 0..(TailSplitkCoreLoops(p) - 1) :
                 SwapLastWaves(p, t % p.cores, t) = SwapLastWaves(p, u % p.cores, u) => t = u
  <1>0. PICK c \in Nat \ {0} : p.cores = c
    OBVIOUS
  <1>1. PICK m \in 0..c, w \in Nat, normal \in Nat :
          /\ NormalBlockNum(p) = normal /\ normal = c * w
          /\ TailBlockNum(p) * GetSplitkFactor(p) = m
    <2>1. PICK w \in Nat : NormalBlockNum(p) = c * w
      BY <1>0, TailFitsWave
    <2>2. c * w \in Nat
      OBVIOUS
    <2> QED
      BY <1>0, <2>1, <2>2, TailFitsWave
  <1>2. TailSplitkCoreLoops(p) = normal + m
    BY <1>1 DEF TailSplitkCoreLoops
  <1>3. \A x \in 0..(normal + m - 1) :
          SwapLastWaves(p, x % p.cores, x) =
            IF normal = 0 THEN x
            ELSE IF normal - c <= x /\ x < normal - c + m THEN x + c
            ELSE IF normal <= x THEN x - c ELSE x
    <2> SUFFICES ASSUME NEW x \in 0..(normal + m - 1)
                 PROVE  SwapLastWaves(p, x % p.cores, x) =
                          IF normal = 0 THEN x
                          ELSE IF normal - c <= x /\ x < normal - c + m THEN x + c
                          ELSE IF normal <= x THEN x - c ELSE x
      OBVIOUS
    <2>1. x \in 0..(TailSplitkCoreLoops(p) - 1)
      BY <1>2
    <2>2. SwapLastWaves(p, x % p.cores, x) =
            IF NormalBlockNum(p) = 0 THEN x
            ELSE IF NormalBlockNum(p) - p.cores <= x
                    /\ x < NormalBlockNum(p) - p.cores + TailBlockNum(p) * GetSplitkFactor(p)
                 THEN x + p.cores
            ELSE IF NormalBlockNum(p) <= x THEN x - p.cores ELSE x
      BY <2>1, SwapCases
    <2> QED
      BY <1>0, <1>1, <2>2
  <1>4. normal = 0 \/ normal >= c
    <2>1. CASE w = 0
      BY <1>1, <2>1
    <2>2. CASE w > 0
      <3>1. PICK q \in Nat : w = q + 1
        <4>1. w - 1 \in Nat /\ w = (w - 1) + 1
          BY <2>2
        <4> QED BY <4>1
      <3>2. c * w = c * q + c /\ c * q \in Nat
        BY <3>1
      <3> QED
        BY <1>1, <3>2
    <2> QED
      BY <2>1, <2>2
  <1>5. SwapLastWaves(p, t % p.cores, t) \in 0..(normal + m - 1)
    BY <1>2, <1>3, <1>4
  <1>6. ASSUME NEW u \in 0..(normal + m - 1),
               SwapLastWaves(p, t % p.cores, t) = SwapLastWaves(p, u % p.cores, u)
        PROVE  t = u
    BY <1>2, <1>3, <1>4, <1>6
  <1> QED
    BY <1>2, <1>5, <1>6
=============================================================================
