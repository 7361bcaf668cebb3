------------------------ MODULE FlashAttentionProofs ------------------------
(***************************************************************************)
(* Proofs about FlashAttention, for every list of tasks, every size of     *)
(* tiles and stacks and every PreLaunch.                                   *)
(*                                                                         *)
(* AIC and AIVs run the same two loops, so the instructions of a list of   *)
(* tasks have one order (Before), and the units differ only in how far     *)
(* they are (at).  The invariant IInv says of every unit and pipe that     *)
(* what it has issued or executed is a prefix of that order, of every flag *)
(* that it counts the stacks one side has announced and the other has not  *)
(* waited for, and of every buffer what it holds, for as long as somebody  *)
(* still has to read it.                                                   *)
(*                                                                         *)
(* No flag says that a slot has been read.  What keeps a slot of a ring    *)
(* from being written too early is the distance of PreLaunch turns between *)
(* the halves of a stack: a unit that writes the slot of stack c again, in *)
(* turn c + PreLaunch + 1, has waited for what its reader announces only   *)
(* behind the read (WindowSpan, SlotsApart).                               *)
(*                                                                         *)
(* From the invariant follow FlagsWithinRing, OutputWhole and that the     *)
(* flags are cleared when the kernel is done.  That it is done at some     *)
(* time (Returns) is left to TLC.                                          *)
(***************************************************************************)
EXTENDS FlashAttention, FiniteSetTheorems, TLAPS

-----------------------------------------------------------------------------
(* Numbers.  The divisions of the code round up; what depends on           *)
(* products is left to few lemmas, and the others use their                *)
(* statements.                                                             *)

\* The tasks a core may get, by TasksAssumption.
Tasks ==
    {t \in [qSeqlen : Nat \ {0}, kvSeqlen : Nat, qSBlockIdx : Nat, qNBlockSize : Nat \ {0}, mask : BOOLEAN] :
       t.qSeqlen <= t.kvSeqlen /\ t.qSBlockIdx < QSBlockNum(t)}

\* The constants of the loops are positive; a stack has two blocks at least.
LEMMA Sizes ==
    /\ Tile \in Nat /\ Tile > 0
    /\ BlockStackNum \in Nat /\ BlockStackNum > 1
    /\ PreLaunch \in Nat /\ PreLaunch > 0
  BY SizesAssumption

\* Division with remainder.
LEMMA DivMod ==
    ASSUME NEW a \in Nat, NEW d \in Nat, d > 0
    PROVE  /\ a \div d \in Nat /\ a % d \in 0..(d - 1)
           /\ a = (a \div d) * d + (a % d)
  OBVIOUS

\* Products keep the order.
LEMMA Product ==
    ASSUME NEW a \in Int, NEW b \in Int, NEW d \in Nat
    PROVE  /\ a * d \in Int
           /\ a <= b => a * d <= b * d
           /\ d > 0 /\ a < b => a * d < b * d
           /\ d > 0 /\ a * d < b * d => a < b
           /\ d > 0 /\ a * d <= b * d => a <= b
           /\ d > 0 /\ a * d = b * d => a = b
  <1>1. a * d \in Int /\ b * d \in Int
    OBVIOUS
  <1>2. (b - a) * d = b * d - a * d
    OBVIOUS
  <1>3. ASSUME a <= b PROVE a * d <= b * d
    <2>1. (b - a) * d >= 0
      BY <1>3
    <2> QED BY <1>1, <1>2, <2>1
  <1>4. ASSUME d > 0, a < b PROVE a * d < b * d
    <2>1. (b - a) * d >= d
      BY <1>4
    <2> QED BY <1>1, <1>2, <1>4, <2>1
  <1>5. ASSUME d > 0, b < a PROVE b * d < a * d
    <2>0. (a - b) * d = a * d - b * d
      OBVIOUS
    <2>1. (a - b) * d >= d
      BY <1>5
    <2> QED BY <1>1, <2>0, <1>5, <2>1
  <1> HIDE <1>2
  <1> QED BY <1>1, <1>3, <1>4, <1>5

\* Rounded up division (CeilDiv) lies between the quotient and one more.
LEMMA CeilBounds ==
    ASSUME NEW a \in Nat, NEW d \in Nat, d > 0
    PROVE  /\ Ceil(a, d) \in Nat
           /\ a <= Ceil(a, d) * d
           /\ Ceil(a, d) * d < a + d
           /\ a = 0 => Ceil(a, d) = 0
           /\ a > 0 => Ceil(a, d) > 0
  <1> DEFINE n == a + d - 1
             q == n \div d
             r == n % d
  <1>1. n \in Nat
    OBVIOUS
  <1>2. q \in Nat /\ r \in 0..(d - 1) /\ n = q * d + r
    BY <1>1, DivMod
  <1>3. q * d \in Int
    BY <1>2
  <1>4. a <= q * d /\ q * d < a + d
    BY <1>2, <1>3
  <1>5. a = 0 => q = 0
    <2>1. q >= 1 => q * d >= 1 * d
      BY <1>2, Product
    <2> QED BY <1>2, <1>4, <2>1
  <1>6. a > 0 => q > 0
    <2>1. q = 0 => q * d = 0
      BY <1>2
    <2> QED BY <1>2, <1>4, <2>1
  <1>7. Ceil(a, d) = q
    BY DEF Ceil
  <1> HIDE DEF q
  <1> QED BY <1>2, <1>4, <1>5, <1>6, <1>7

\* ... and is the only number there.
LEMMA CeilUnique ==
    ASSUME NEW a \in Nat, NEW d \in Nat, d > 0, NEW q \in Int,
           a <= q * d, q * d < a + d
    PROVE  Ceil(a, d) = q
  <1> DEFINE c == Ceil(a, d)
  <1>1. c \in Nat /\ a <= c * d /\ c * d < a + d
    BY CeilBounds
  <1> HIDE DEF c
  <1>2. c * d \in Int /\ q * d \in Int
    BY <1>1
  <1>3. (c - 1) * d = c * d - d /\ (q - 1) * d = q * d - d
    BY <1>1
  <1>4. (c - 1) * d < q * d /\ (q - 1) * d < c * d
    BY <1>1, <1>2, <1>3
  <1>5. c - 1 < q /\ q - 1 < c
    <2>1. c - 1 \in Int /\ q - 1 \in Int
      BY <1>1
    <2> QED BY <1>1, <1>4, <2>1, Product
  <1>6. c = q
    BY <1>1, <1>5
  <1> QED BY <1>6 DEF c

-----------------------------------------------------------------------------
(* The blocks of a task: how many columns, blocks and stacks there         *)
(* are, and where the masked stack begins.                                 *)

\* Blocks of stacks: dividing in two steps rounds up as dividing in one.
LEMMA CeilOfCeil ==
    ASSUME NEW a \in Nat, NEW d \in Nat, d > 0, NEW e \in Nat, e > 0
    PROVE  Ceil(a, e * d) = Ceil(Ceil(a, d), e)
  <1> DEFINE c == Ceil(a, d)
             q == Ceil(c, e)
  <1>1. c \in Nat /\ a <= c * d /\ c * d < a + d
    BY CeilBounds
  <1>2. q \in Nat /\ c <= q * e /\ q * e < c + e
    BY <1>1, CeilBounds
  <1> HIDE DEF c, q
  <1>3. e * d \in Nat /\ e * d > 0
    <2>1. 0 * d < e * d
      BY Product
    <2> QED BY <2>1
  <1>4. q * (e * d) = (q * e) * d
    BY <1>2
  <1>5. q * e \in Int
    BY <1>2
  <1>6. c * d <= (q * e) * d
    BY <1>1, <1>2, <1>5, Product
  <1>7. (q * e) * d <= (c + e - 1) * d
    BY <1>1, <1>2, <1>5, Product
  <1>8. (c + e - 1) * d = c * d + e * d - d
    BY <1>1
  <1>9. a <= q * (e * d)
    BY <1>1, <1>4, <1>5, <1>6
  <1>10. q * (e * d) < a + e * d
    <2> DEFINE x == q * (e * d)  y == c * d   z == e * d
    <2>1. x \in Int /\ y \in Int /\ z \in Int
      BY <1>1, <1>2, <1>3
    <2>2. x <= y + z - d
      BY <1>4, <1>7, <1>8
    <2>3. y < a + d
      BY <1>1
    <2> HIDE DEF x, y, z
    <2>4. x < a + z
      BY <2>1, <2>2, <2>3
    <2> QED BY <2>4 DEF x, z
  <1>11. Ceil(a, e * d) = q
    BY <1>2, <1>3, <1>9, <1>10, CeilUnique
  <1> QED BY <1>11 DEF q, c

\* What the mask leaves a task.
LEMMA TaskColumns ==
    ASSUME NEW t \in Tasks
    PROVE  /\ QSBlockSize(t) \in 1..Tile
           /\ NoMaskKvS(t) \in Nat
           /\ NoMaskTailS(t) \in 0..(Tile - 1)
           /\ t.mask => NoSkipKvS(t) = NoMaskKvS(t) + QSBlockSize(t)
           /\ ~t.mask => NoSkipKvS(t) = NoMaskKvS(t) /\ NoMaskKvS(t) > 0 /\ NoMaskTailS(t) = 0
  <1> DEFINE q == t.qSeqlen
             kv == t.kvSeqlen
             i == t.qSBlockIdx
             n == QSBlockNum(t)
             x == i * Tile
  <1>1. /\ q \in Nat /\ q > 0 /\ kv \in Nat /\ i \in Nat /\ t.mask \in BOOLEAN
        /\ q <= kv /\ i < n
    BY DEF Tasks
  <1>2. Tile \in Nat /\ Tile > 0
    BY Sizes
  <1>3. n \in Nat /\ q <= n * Tile /\ n * Tile < q + Tile
    BY <1>1, <1>2, CeilBounds DEF QSBlockNum
  <1>4. x \in Nat
    BY <1>1, <1>2
  <1>5. (i + 1) * Tile = x + Tile
    BY <1>1, <1>2
  <1>6. CASE i = n - 1
    <2>1. x + Tile = n * Tile
      BY <1>1, <1>2, <1>3, <1>5, <1>6
    <2>2. QSBlockSize(t) = q - x
      BY <1>6 DEF QSBlockSize
    <2> HIDE DEF x
    <2>3. q - x \in 1..Tile
      BY <1>1, <1>2, <1>3, <1>4, <2>1
    <2>4. t.mask => NoSkipKvS(t) = kv
      BY <1>1, <1>2, <1>3, <1>4, <1>5, <2>1 DEF NoSkipKvS, Least
    <2>5. t.mask => NoMaskKvS(t) = kv - (q - x)
      BY <2>2, <2>4 DEF NoMaskKvS
    <2>6. ~t.mask => NoSkipKvS(t) = kv /\ NoMaskKvS(t) = kv /\ NoMaskTailS(t) = 0
      BY DEF NoSkipKvS, NoMaskKvS, NoMaskTailS
    <2>7. NoMaskKvS(t) \in Nat
      BY <1>1, <1>4, <2>5, <2>6
    <2>8. NoMaskKvS(t) % Tile \in 0..(Tile - 1)
      BY <1>2, <2>7, DivMod
    <2>9. NoMaskTailS(t) \in 0..(Tile - 1)
      <3>1. 0 \in 0..(Tile - 1)
        BY <1>2
      <3>2. NoMaskTailS(t) = NoMaskKvS(t) % Tile \/ NoMaskTailS(t) = 0
        BY Zenon DEF NoMaskTailS
      <3> QED BY <2>8, <3>1, <3>2, Zenon
    <2>10. t.mask => NoSkipKvS(t) = NoMaskKvS(t) + QSBlockSize(t)
      BY <1>1, <1>4, <2>2, <2>4, <2>5
    <2> QED BY <1>1, <2>2, <2>3, <2>6, <2>7, <2>9, <2>10
  <1>7. CASE i # n - 1
    <2>0. i + 2 <= n
      BY <1>1, <1>3, <1>7
    <2>1. x + Tile < q
      <3>1. (i + 2) * Tile <= n * Tile
        BY <1>1, <1>2, <1>3, <2>0, Product
      <3>2. (i + 2) * Tile = x + Tile + Tile
        BY <1>1, <1>2
      <3> HIDE DEF x
      <3> QED BY <1>1, <1>2, <1>3, <1>4, <3>1, <3>2
    <2>2. QSBlockSize(t) = Tile
      BY <1>7 DEF QSBlockSize
    <2>4. t.mask => NoSkipKvS(t) = x + Tile + kv - q
      <3> HIDE DEF x
      <3> QED BY <1>1, <1>2, <1>3, <1>4, <1>5, <2>1 DEF NoSkipKvS, Least
    <2> HIDE DEF x
    <2>5. t.mask => NoMaskKvS(t) = x + kv - q
      BY <1>1, <1>2, <1>4, <2>2, <2>4 DEF NoMaskKvS
    <2>6. ~t.mask => NoSkipKvS(t) = kv /\ NoMaskKvS(t) = kv /\ NoMaskTailS(t) = 0
      BY DEF NoSkipKvS, NoMaskKvS, NoMaskTailS
    <2>7. NoMaskKvS(t) \in Nat
      BY <1>1, <1>4, <2>5, <2>6
    <2>8. NoMaskKvS(t) % Tile \in 0..(Tile - 1)
      BY <1>2, <2>7, DivMod
    <2>9. NoMaskTailS(t) \in 0..(Tile - 1)
      <3>1. 0 \in 0..(Tile - 1)
        BY <1>2
      <3>2. NoMaskTailS(t) = NoMaskKvS(t) % Tile \/ NoMaskTailS(t) = 0
        BY Zenon DEF NoMaskTailS
      <3> QED BY <2>8, <3>1, <3>2, Zenon
    <2>10. t.mask => NoSkipKvS(t) = NoMaskKvS(t) + QSBlockSize(t)
      BY <1>1, <1>2, <1>4, <2>2, <2>4, <2>5
    <2> QED BY <1>1, <1>2, <2>2, <2>6, <2>7, <2>9, <2>10
  <1> QED BY <1>6, <1>7

\* The turns of the first loop, and the first block and columns of a stack.
FirstTurns(t) == Ceil(LoopNumNoMask(t), BlockStackNum)

\* The blocks and stacks of a task: the first loop's stacks, and one more with
\* a mask.
LEMMA TaskBlocks ==
    ASSUME NEW t \in Tasks
    PROVE  /\ LoopNumNoMask(t) \in Nat /\ LoopNumTotal(t) \in Nat
           /\ FirstTurns(t) \in Nat
           /\ NoMaskKvS(t) <= LoopNumNoMask(t) * Tile
           /\ LoopNumNoMask(t) * Tile < NoMaskKvS(t) + Tile
           /\ LoopNumNoMask(t) <= FirstTurns(t) * BlockStackNum
           /\ FirstTurns(t) * BlockStackNum < LoopNumNoMask(t) + BlockStackNum
           /\ TotalStackSeqNum(t) = FirstTurns(t) + IF t.mask THEN 1 ELSE 0
           /\ TotalStackSeqNum(t) \in Nat /\ TotalStackSeqNum(t) > 0
           /\ ~t.mask => /\ FirstTurns(t) > 0
                         /\ LoopNumTotal(t) = LoopNumNoMask(t)
                         /\ MaskedStartIdx(t) = FirstTurns(t) * BlockStackNum
                         /\ PreLaunchStackNum(t) = PreLaunch * BlockStackNum
  <1> DEFINE k == NoMaskKvS(t)
  <1>1. k \in Nat /\ NoSkipKvS(t) \in Nat /\ (~t.mask => NoSkipKvS(t) = k /\ k > 0) /\ t.mask \in BOOLEAN
    <2>1. t.mask \in BOOLEAN
      BY DEF Tasks
    <2> QED BY <2>1, TaskColumns, Sizes
  <1> HIDE DEF k
  <1>2. Tile \in Nat /\ Tile > 0 /\ BlockStackNum \in Nat /\ BlockStackNum > 0
    BY Sizes
  <1>3. LoopNumNoMask(t) = Ceil(k, Tile) /\ LoopNumTotal(t) = Ceil(NoSkipKvS(t), Tile)
    BY DEF k, LoopNumNoMask, LoopNumTotal
  <1>4. /\ LoopNumNoMask(t) \in Nat /\ k <= LoopNumNoMask(t) * Tile
        /\ LoopNumNoMask(t) * Tile < k + Tile
        /\ k > 0 => LoopNumNoMask(t) > 0
    BY <1>1, <1>2, <1>3, CeilBounds
  <1>5. LoopNumTotal(t) \in Nat
    BY <1>1, <1>2, <1>3, CeilBounds
  <1>6. /\ FirstTurns(t) \in Nat /\ LoopNumNoMask(t) <= FirstTurns(t) * BlockStackNum
        /\ FirstTurns(t) * BlockStackNum < LoopNumNoMask(t) + BlockStackNum
        /\ LoopNumNoMask(t) > 0 => FirstTurns(t) > 0
    BY <1>2, <1>4, CeilBounds DEF FirstTurns
  <1>7. Ceil(k, BlockStackNum * Tile) = FirstTurns(t)
    BY <1>1, <1>2, <1>3, CeilOfCeil DEF FirstTurns
  <1>8. TotalStackSeqNum(t) = FirstTurns(t) + IF t.mask THEN 1 ELSE 0
    BY <1>7 DEF TotalStackSeqNum, k
  <1>9. TotalStackSeqNum(t) \in Nat /\ TotalStackSeqNum(t) > 0
    BY <1>1, <1>4, <1>6, <1>8
  <1>10. ~t.mask => /\ FirstTurns(t) > 0
                    /\ LoopNumTotal(t) = LoopNumNoMask(t)
                    /\ MaskedStartIdx(t) = FirstTurns(t) * BlockStackNum
                    /\ PreLaunchStackNum(t) = PreLaunch * BlockStackNum
    BY <1>1, <1>3, <1>4, <1>6 DEF MaskedStartIdx, PreLaunchStackNum, FirstTurns
  <1> QED BY <1>4, <1>5, <1>6, <1>8, <1>9, <1>10 DEF k

\* The masked stack starts behind the full stacks and the blocks of an
\* incomplete one, and takes less than two blocks.
LEMMA MaskedStack ==
    ASSUME NEW t \in Tasks, t.mask
    PROVE  /\ MaskedStartIdx(t) \in Nat
           /\ NoMaskTailInteStackNum(t) \in 0..BlockStackNum
           /\ MaskedStartIdx(t) = (FirstTurns(t) - 1) * BlockStackNum + NoMaskTailInteStackNum(t)
           /\ MaskedStartIdx(t) * Tile + NoMaskTailS(t) = NoMaskKvS(t)
           /\ MaskedStartIdx(t) < LoopNumTotal(t)
           /\ LoopNumTotal(t) <= MaskedStartIdx(t) + BlockStackNum
           /\ NoSkipKvS(t) <= (MaskedStartIdx(t) + BlockStackNum) * Tile
           /\ PreLaunchStackNum(t) = (PreLaunch - 1) * BlockStackNum + NoMaskTailInteStackNum(t)
  <1> DEFINE k == NoMaskKvS(t)
             q == k \div Tile
             r == k % Tile
             e == q \div BlockStackNum
             rest == q % BlockStackNum
             f == FirstTurns(t)
             l == LoopNumNoMask(t)
             total == LoopNumTotal(t)
             inte == NoMaskTailInteStackNum(t)
  <1>1. /\ Tile \in Nat /\ Tile > 0 /\ BlockStackNum \in Nat /\ BlockStackNum > 1
        /\ PreLaunch \in Nat /\ PreLaunch > 0
    BY Sizes
  <1>2. k \in Nat /\ NoSkipKvS(t) = k + QSBlockSize(t) /\ QSBlockSize(t) \in 1..Tile
    BY TaskColumns
  <1>3. q \in Nat /\ r \in 0..(Tile - 1) /\ k = q * Tile + r
    BY <1>1, <1>2, DivMod
  <1>4. e \in Nat /\ rest \in 0..(BlockStackNum - 1) /\ q = e * BlockStackNum + rest
    <2> HIDE DEF q
    <2> QED BY <1>1, <1>3, DivMod
  <1>5. NoMaskTailS(t) = r
    BY DEF NoMaskTailS
  <1>6. l = Ceil(k, Tile) /\ total = Ceil(NoSkipKvS(t), Tile) /\ f = Ceil(l, BlockStackNum)
    BY DEF LoopNumNoMask, LoopNumTotal, FirstTurns
  <1>7. inte = IF rest # 0 \/ r # 0 THEN rest ELSE BlockStackNum
    <2>1. inte = IF rest # 0 \/ NoMaskTailS(t) # 0 THEN rest ELSE BlockStackNum
      BY Zenon DEF NoMaskTailInteStackNum
    <2> QED BY <1>5, <2>1, Zenon
  <1>8. MaskedStartIdx(t) = l - IF r # 0 THEN 1 ELSE 0
    <2>1. MaskedStartIdx(t) = l - IF NoMaskTailS(t) # 0 THEN 1 ELSE 0
      BY DEF MaskedStartIdx
    <2> QED BY <1>5, <2>1, Zenon
  <1> HIDE DEF k, q, r, e, rest
  <1>9. l = IF r # 0 THEN q + 1 ELSE q
    <2>1. q * Tile \in Nat /\ (q + 1) * Tile = q * Tile + Tile
      BY <1>1, <1>3
    <2>2. CASE r # 0
      <3>1. k <= (q + 1) * Tile /\ (q + 1) * Tile < k + Tile
        BY <1>1, <1>3, <2>1, <2>2
      <3>2. Ceil(k, Tile) = q + 1
        BY <1>1, <1>2, <1>3, <3>1, CeilUnique
      <3> QED BY <1>6, <2>2, <3>2
    <2>3. CASE r = 0
      <3>1. k <= q * Tile /\ q * Tile < k + Tile
        BY <1>1, <1>3, <2>1, <2>3
      <3>2. Ceil(k, Tile) = q
        BY <1>1, <1>2, <1>3, <3>1, CeilUnique
      <3> QED BY <1>6, <2>3, <3>2
    <2> QED BY <2>2, <2>3
  <1>10. MaskedStartIdx(t) = q
    BY <1>3, <1>8, <1>9
  <1>11. inte \in 0..BlockStackNum
    BY <1>1, <1>3, <1>4, <1>7
  <1>12. f * BlockStackNum \in Int /\ e * BlockStackNum \in Nat /\ (e + 1) * BlockStackNum = e * BlockStackNum + BlockStackNum
         /\ (e - 1) * BlockStackNum = e * BlockStackNum - BlockStackNum
    BY <1>1, <1>4, TaskBlocks
  <1>13. q = (f - 1) * BlockStackNum + inte
    <2>1. CASE rest # 0 \/ r # 0
      <3>1. l <= (e + 1) * BlockStackNum /\ (e + 1) * BlockStackNum < l + BlockStackNum
        BY <1>1, <1>3, <1>4, <1>9, <1>12, <2>1
      <3>2. l \in Nat
        BY TaskBlocks
      <3>3. f = e + 1
        BY <1>1, <1>4, <1>6, <3>1, <3>2, CeilUnique
      <3> QED BY <1>1, <1>4, <1>7, <1>12, <2>1, <3>3
    <2>2. CASE rest = 0 /\ r = 0
      <3>1. l <= e * BlockStackNum /\ e * BlockStackNum < l + BlockStackNum
        BY <1>1, <1>3, <1>4, <1>9, <1>12, <2>2
      <3>2. l \in Nat
        BY TaskBlocks
      <3>3. f = e
        BY <1>1, <1>4, <1>6, <3>1, <3>2, CeilUnique
      <3> QED BY <1>1, <1>4, <1>7, <1>12, <2>2, <3>3
    <2> QED BY <2>1, <2>2
  <1>14. (q + 2) * Tile = q * Tile + Tile + Tile /\ q * Tile \in Nat
    BY <1>1, <1>3
  <1>15. NoSkipKvS(t) \in Nat /\ NoSkipKvS(t) <= (q + 2) * Tile /\ q * Tile < NoSkipKvS(t)
    BY <1>1, <1>2, <1>3, <1>14
  <1>16. total \in Nat /\ NoSkipKvS(t) <= total * Tile /\ total * Tile < NoSkipKvS(t) + Tile
    BY <1>1, <1>6, <1>15, CeilBounds
  <1>17. q < total
    <2>1. q * Tile < total * Tile
      BY <1>1, <1>14, <1>15, <1>16
    <2> QED BY <1>1, <1>3, <1>16, <2>1, Product
  <1>18. total <= q + 2
    <2>1. (q + 3) * Tile = (q + 2) * Tile + Tile /\ (q + 2) * Tile \in Nat
      BY <1>1, <1>3
    <2>2. total * Tile < (q + 3) * Tile
      BY <1>1, <1>15, <1>16, <2>1
    <2>3. total < q + 3
      BY <1>1, <1>3, <1>16, <2>2, Product
    <2> QED BY <1>3, <1>16, <2>3
  <1>19. (q + 2) * Tile <= (q + BlockStackNum) * Tile
    BY <1>1, <1>3, Product
  <1>20. PreLaunchStackNum(t) = (PreLaunch - 1) * BlockStackNum + inte
    BY DEF PreLaunchStackNum
  <1>21. NoSkipKvS(t) <= (q + BlockStackNum) * Tile
    BY <1>1, <1>3, <1>15, <1>19
  <1> HIDE DEF inte, f, total
  <1>22. q * Tile + NoMaskTailS(t) = NoMaskKvS(t)
    BY <1>3, <1>5 DEF k
  <1>23. total <= q + BlockStackNum
    BY <1>1, <1>3, <1>16, <1>18
  <1> QED BY <1>3, <1>10, <1>11, <1>13, <1>17, <1>20, <1>21, <1>22, <1>23 DEF inte, f, total

-----------------------------------------------------------------------------
(* The turns of the two loops.  TurnAt(t, c) is turn c of task t: the      *)
(* turns follow one another up to the last, and the halves due in turn     *)
(* c are the first of stack c and the second of stack c - PreLaunch.       *)

\* The first block of stack c, and that of turn c.
StackIdx(t, c) == IF c < FirstTurns(t) THEN c * BlockStackNum ELSE MaskedStartIdx(t)
TurnIdx(t, c) ==
    CASE c < FirstTurns(t) -> c * BlockStackNum
      [] c >= FirstTurns(t) /\ t.mask /\ c >= FirstTurns(t) + PreLaunch -> MaskedStartIdx(t) + PreLaunchStackNum(t)
      [] OTHER -> MaskedStartIdx(t) + (c - FirstTurns(t)) * BlockStackNum
TurnAt(t, c) ==
    [loop |-> IF c < FirstTurns(t) THEN "noMask" ELSE "masked", kvSIdx |-> TurnIdx(t, c), count |-> c]

LastTurn(t) == TotalStackSeqNum(t) + PreLaunch - 1

\* The first loop runs for the stacks before FirstTurns.
LEMMA InFirstLoop ==
    ASSUME NEW t \in Tasks, NEW c \in Nat
    PROVE  c * BlockStackNum < LoopNumNoMask(t) <=> c < FirstTurns(t)
  <1> DEFINE f == FirstTurns(t)  l == LoopNumNoMask(t)  b == BlockStackNum
  <1>1. b \in Nat /\ b > 0
    BY Sizes
  <1>2. f \in Nat /\ l \in Nat /\ l <= f * b /\ f * b < l + b
    BY TaskBlocks
  <1> HIDE DEF f, l, b
  <1>3. c * b \in Int /\ (c + 1) * b = c * b + b /\ f * b \in Int
    BY <1>1, <1>2
  <1>4. ASSUME c < f PROVE c * b < l
    <2>1. (c + 1) * b <= f * b
      BY <1>1, <1>2, <1>4, Product
    <2> QED BY <1>1, <1>2, <1>3, <2>1
  <1>5. ASSUME f <= c PROVE l <= c * b
    <2>1. f * b <= c * b
      BY <1>1, <1>2, <1>5, Product
    <2> QED BY <1>1, <1>2, <1>3, <2>1
  <1>6. c * b < l <=> c < f
    BY <1>1, <1>2, <1>3, <1>4, <1>5
  <1> QED BY <1>6 DEF f, l, b

\* What is behind the blocks of the last stack is the end of the second loop.
LEMMA SecondLoopAt ==
    ASSUME NEW t \in Tasks, NEW c \in Nat, c >= FirstTurns(t)
    PROVE  /\ c <= LastTurn(t) => SecondLoop(t, TurnIdx(t, c), c) = TurnAt(t, c)
           /\ c = LastTurn(t) => SecondLoop(t, TurnIdx(t, c) + Step(t, c), c + 1).loop = "over"
           /\ c < LastTurn(t) => TurnIdx(t, c) + Step(t, c) = TurnIdx(t, c + 1)
  <1> DEFINE f == FirstTurns(t)  l == LoopNumNoMask(t)  b == BlockStackNum
             total == LoopNumTotal(t)  n == TotalStackSeqNum(t)
             pre == PreLaunchStackNum(t)  m == MaskedStartIdx(t)
             inte == NoMaskTailInteStackNum(t)  k == TurnIdx(t, c)
  <1>1. b \in Nat /\ b > 1 /\ PreLaunch \in Nat /\ PreLaunch > 0
    BY Sizes
  <1>2. /\ f \in Nat /\ l \in Nat /\ l <= f * b /\ f * b < l + b /\ total \in Nat
        /\ n = f + IF t.mask THEN 1 ELSE 0
        /\ n \in Nat /\ n > 0
        /\ ~t.mask => total = l /\ m = f * b /\ pre = PreLaunch * b
    BY TaskBlocks
  <1>3. t.mask \in BOOLEAN
    BY DEF Tasks
  <1>4. /\ LastTurn(t) = n + PreLaunch - 1
        /\ Step(t, c) = IF t.mask /\ c - PreLaunch = n - 2 THEN inte ELSE b
        /\ k = IF t.mask /\ c >= f + PreLaunch THEN m + pre ELSE m + (c - f) * b
        /\ TurnIdx(t, c + 1) = IF t.mask /\ c + 1 >= f + PreLaunch THEN m + pre ELSE m + (c + 1 - f) * b
        /\ TurnAt(t, c) = [loop |-> "masked", kvSIdx |-> k, count |-> c]
        /\ SecondLoop(t, k, c) = [loop |-> IF k < total + pre THEN "masked" ELSE "over", kvSIdx |-> k, count |-> c]
        /\ SecondLoop(t, k + Step(t, c), c + 1).loop = IF k + Step(t, c) < total + pre THEN "masked" ELSE "over"
    BY <1>1, <1>2, <1>3 DEF LastTurn, Step, TurnIdx, TurnAt, SecondLoop
  <1>5. CASE t.mask
    <2>1. /\ m \in Nat /\ inte \in 0..b /\ m < total /\ total <= m + b
          /\ pre = (PreLaunch - 1) * b + inte
      BY <1>5, MaskedStack
    <2> HIDE DEF f, l, b, total, n, pre, m, inte
    <2>2. (PreLaunch - 1) * b \in Nat /\ (c - f) * b \in Int /\ (c + 1 - f) * b = (c - f) * b + b
      BY <1>1, <1>2
    <2>3. c < f + PreLaunch => (c - f) * b <= (PreLaunch - 1) * b
      BY <1>1, <1>2, Product
    <2>4. c = f + PreLaunch - 1 => (c - f) * b = (PreLaunch - 1) * b
      BY <1>1, <1>2
    <2>5. pre \in Nat /\ n = f + 1
      BY <1>1, <1>2, <1>5, <2>1, <2>2
    <2>6. c <= LastTurn(t) => k < total + pre
      BY <1>1, <1>2, <1>4, <1>5, <2>1, <2>2, <2>3, <2>5
    <2>7. c = LastTurn(t) => Step(t, c) = b /\ k = m + pre
      BY <1>1, <1>2, <1>4, <1>5, <2>5
    <2>8. c = LastTurn(t) => ~(k + Step(t, c) < total + pre)
      BY <1>1, <1>2, <2>1, <2>5, <2>7
    <2>9. c < LastTurn(t) => k + Step(t, c) = TurnIdx(t, c + 1)
      <3>1. CASE c = f + PreLaunch - 1
        <4>1. Step(t, c) = inte /\ k = m + (c - f) * b /\ TurnIdx(t, c + 1) = m + pre
          BY <1>1, <1>2, <1>4, <1>5, <2>5, <3>1
        <4> QED BY <2>1, <2>2, <2>4, <3>1, <4>1
      <3>2. CASE c < f + PreLaunch - 1
        <4>1. Step(t, c) = b /\ k = m + (c - f) * b /\ TurnIdx(t, c + 1) = m + (c + 1 - f) * b
          BY <1>1, <1>2, <1>4, <1>5, <2>5, <3>2
        <4> QED BY <1>1, <2>1, <2>2, <4>1
      <3> QED BY <1>1, <1>2, <1>4, <2>5, <3>1, <3>2
    <2> QED BY <1>4, <2>6, <2>8, <2>9 DEF k, m, total, pre
  <1>6. CASE ~t.mask
    <2> HIDE DEF f, l, b, total, n, pre, m, inte
    <2>1. /\ f * b \in Nat /\ PreLaunch * b \in Nat /\ (c - f) * b = c * b - f * b /\ c * b \in Nat
          /\ (c + 1 - f) * b = c * b + b - f * b
          /\ (f + PreLaunch - 1) * b = f * b + PreLaunch * b - b
      BY <1>1, <1>2
    <2>2. k = c * b /\ Step(t, c) = b /\ TurnIdx(t, c + 1) = c * b + b
      BY <1>1, <1>2, <1>4, <1>6, <2>1
    <2>3. c <= f + PreLaunch - 1 => c * b <= (f + PreLaunch - 1) * b
      BY <1>1, <1>2, Product
    <2>4. c <= LastTurn(t) => k < total + pre
      BY <1>1, <1>2, <1>4, <1>6, <2>1, <2>2, <2>3
    <2>5. c = LastTurn(t) => c * b = (f + PreLaunch - 1) * b
      BY <1>1, <1>2, <1>4, <1>6
    <2>6. c = LastTurn(t) => ~(k + Step(t, c) < total + pre)
      BY <1>1, <1>2, <1>6, <2>1, <2>2, <2>5
    <2> QED BY <1>4, <2>2, <2>4, <2>6 DEF k, m, total, pre
  <1> QED BY <1>3, <1>5, <1>6

\* The turns follow one another: turn c is that of count c.
LEMMA TurnsFollow ==
    ASSUME NEW t \in Tasks
    PROVE  /\ FirstTurn(t) = TurnAt(t, 0)
           /\ \A c \in 0..LastTurn(t) :
                /\ c < LastTurn(t) => NextTurn(t, TurnAt(t, c)) = TurnAt(t, c + 1)
                /\ c = LastTurn(t) => NextTurn(t, TurnAt(t, c)).loop = "over"
  <1>1. BlockStackNum \in Nat /\ BlockStackNum > 1 /\ PreLaunch \in Nat /\ PreLaunch > 0
    BY Sizes
  <1>2. FirstTurns(t) \in Nat /\ TotalStackSeqNum(t) \in Nat /\ TotalStackSeqNum(t) > 0
        /\ TotalStackSeqNum(t) >= FirstTurns(t)
    BY TaskBlocks
  <1>3. LastTurn(t) \in Nat /\ LastTurn(t) >= FirstTurns(t)
    BY <1>1, <1>2 DEF LastTurn
  <1>4. TurnIdx(t, FirstTurns(t)) = MaskedStartIdx(t)
    <2>1. TurnIdx(t, FirstTurns(t)) = MaskedStartIdx(t) + 0 * BlockStackNum
      BY <1>1, <1>2 DEF TurnIdx
    <2>2. MaskedStartIdx(t) \in Int
      <3>1. CASE t.mask
        BY <3>1, MaskedStack
      <3>2. CASE ~t.mask
        BY <1>1, <1>2, <3>2, TaskBlocks
      <3> QED BY <3>1, <3>2
    <2> QED BY <1>1, <2>1, <2>2
  <1>5. ASSUME NEW c \in Nat, c <= FirstTurns(t)
        PROVE  FirstLoop(t, c * BlockStackNum, c) = TurnAt(t, c)
    <2>1. CASE c < FirstTurns(t)
      <3>1. c * BlockStackNum < LoopNumNoMask(t)
        BY <2>1, InFirstLoop
      <3>2. TurnAt(t, c) = [loop |-> "noMask", kvSIdx |-> c * BlockStackNum, count |-> c]
        BY <1>2, <2>1 DEF TurnAt, TurnIdx
      <3> QED BY <3>1, <3>2, Zenon DEF FirstLoop
    <2>2. CASE c = FirstTurns(t)
      <3>1. ~(c * BlockStackNum < LoopNumNoMask(t)) /\ c >= FirstTurns(t) /\ c <= LastTurn(t)
        BY <1>2, <1>3, <2>2, InFirstLoop
      <3>2. FirstLoop(t, c * BlockStackNum, c) = SecondLoop(t, TurnIdx(t, c), c)
        BY <1>4, <2>2, <3>1, Zenon DEF FirstLoop
      <3> QED BY <3>1, <3>2, SecondLoopAt
    <2> QED BY <1>2, <1>5, <2>1, <2>2
  <1>6. FirstTurn(t) = TurnAt(t, 0)
    <2>1. 0 * BlockStackNum = 0
      BY <1>1
    <2>2. FirstLoop(t, 0 * BlockStackNum, 0) = TurnAt(t, 0)
      BY <1>2, <1>5
    <2> QED BY <2>1, <2>2 DEF FirstTurn
  <1>7. ASSUME NEW c \in 0..LastTurn(t)
        PROVE  /\ c < LastTurn(t) => NextTurn(t, TurnAt(t, c)) = TurnAt(t, c + 1)
               /\ c = LastTurn(t) => NextTurn(t, TurnAt(t, c)).loop = "over"
    <2>1. CASE c < FirstTurns(t)
      <3>1. NextTurn(t, TurnAt(t, c)) = FirstLoop(t, c * BlockStackNum + BlockStackNum, c + 1)
        <4>1. TurnAt(t, c) = [loop |-> "noMask", kvSIdx |-> c * BlockStackNum, count |-> c]
          BY <1>2, <1>3, <2>1 DEF TurnAt, TurnIdx
        <4> QED BY <4>1 DEF NextTurn
      <3>2. c * BlockStackNum + BlockStackNum = (c + 1) * BlockStackNum
        BY <1>1, <1>3
      <3>3. c \in Nat /\ c + 1 \in Nat /\ c + 1 <= FirstTurns(t) /\ c < LastTurn(t)
        BY <1>2, <1>3, <2>1
      <3>4. FirstLoop(t, (c + 1) * BlockStackNum, c + 1) = TurnAt(t, c + 1)
        BY <1>5, <3>3, Zenon
      <3>5. NextTurn(t, TurnAt(t, c)) = TurnAt(t, c + 1)
        BY <3>1, <3>2, <3>4, Zenon
      <3> QED BY <1>3, <3>3, <3>5
    <2>2. CASE c >= FirstTurns(t)
      <3>1. NextTurn(t, TurnAt(t, c)) = SecondLoop(t, TurnIdx(t, c) + Step(t, c), c + 1)
        <4>1. TurnAt(t, c) = [loop |-> "masked", kvSIdx |-> TurnIdx(t, c), count |-> c]
          BY <1>2, <1>3, <2>2 DEF TurnAt
        <4> QED BY <4>1 DEF NextTurn
      <3>2. c \in Nat
        BY <1>3
      <3>3. ASSUME c < LastTurn(t) PROVE NextTurn(t, TurnAt(t, c)) = TurnAt(t, c + 1)
        <4>1. TurnIdx(t, c) + Step(t, c) = TurnIdx(t, c + 1)
          BY <2>2, <3>2, <3>3, SecondLoopAt
        <4>2. c + 1 \in Nat /\ c + 1 >= FirstTurns(t) /\ c + 1 <= LastTurn(t)
          BY <1>2, <1>3, <2>2, <3>2, <3>3
        <4>3. SecondLoop(t, TurnIdx(t, c + 1), c + 1) = TurnAt(t, c + 1)
          BY <4>2, SecondLoopAt
        <4> QED BY <3>1, <4>1, <4>3, Zenon
      <3> QED BY <2>2, <3>1, <3>2, <3>3, SecondLoopAt
    <2> QED BY <1>2, <1>3, <2>1, <2>2
  <1> QED BY <1>6, <1>7

\* A turn takes the first half of its stack and the second half of the one
\* PreLaunch turns before, as long as there are such stacks.
LEMMA DueAt ==
    ASSUME NEW t \in Tasks, NEW c \in 0..LastTurn(t)
    PROVE  /\ QKDue(t, TurnAt(t, c)) <=> c < TotalStackSeqNum(t)
           /\ PVDue(t, TurnAt(t, c)) <=> c >= PreLaunch
           /\ c < TotalStackSeqNum(t) => TurnIdx(t, c) = StackIdx(t, c)
           /\ c >= PreLaunch => Delayed(t, TurnAt(t, c)) = StackIdx(t, c - PreLaunch)
  <1> DEFINE f == FirstTurns(t)  l == LoopNumNoMask(t)  b == BlockStackNum
             total == LoopNumTotal(t)  n == TotalStackSeqNum(t)
             pre == PreLaunchStackNum(t)  m == MaskedStartIdx(t)
             inte == NoMaskTailInteStackNum(t)  k == TurnIdx(t, c)  delay == Delayed(t, TurnAt(t, c))
  <1>1. b \in Nat /\ b > 1 /\ PreLaunch \in Nat /\ PreLaunch > 0
    BY Sizes
  <1>2. /\ f \in Nat /\ l \in Nat /\ l <= f * b /\ f * b < l + b /\ total \in Nat
        /\ n = f + IF t.mask THEN 1 ELSE 0
        /\ n \in Nat /\ n > 0
        /\ ~t.mask => total = l /\ m = f * b /\ pre = PreLaunch * b
    BY TaskBlocks
  <1>3. t.mask \in BOOLEAN
    BY DEF Tasks
  <1>4. c \in Nat /\ c <= n + PreLaunch - 1
    BY <1>1, <1>2 DEF LastTurn
  <1>5. /\ TurnAt(t, c) = [loop |-> IF c < f THEN "noMask" ELSE "masked", kvSIdx |-> k, count |-> c]
        /\ k = IF c < f THEN c * b ELSE IF t.mask /\ c >= f + PreLaunch THEN m + pre ELSE m + (c - f) * b
        /\ QKDue(t, TurnAt(t, c)) <=> c < f \/ (k < total /\ c <= n - 1)
        /\ delay = k - IF c < f THEN PreLaunch * b ELSE pre
        /\ PVDue(t, TurnAt(t, c)) <=> delay >= 0
    BY <1>1, <1>2, <1>3, <1>4 DEF TurnAt, TurnIdx, QKDue, PVDue, Delayed
  <1>6. /\ StackIdx(t, c) = IF c < f THEN c * b ELSE m
        /\ StackIdx(t, c - PreLaunch) = IF c - PreLaunch < f THEN (c - PreLaunch) * b ELSE m
    BY DEF StackIdx
  <1>7. t.mask => /\ m \in Nat /\ inte \in 0..b /\ m < total /\ total <= m + b
                  /\ pre = (PreLaunch - 1) * b + inte
                  /\ m = (f - 1) * b + inte
    BY MaskedStack
  <1>8. (c - PreLaunch) * b >= 0 <=> c >= PreLaunch
    <2>1. c >= PreLaunch => (c - PreLaunch) * b >= 0
      BY <1>1, <1>4
    <2>2. c - PreLaunch < 0 => (c - PreLaunch) * b < 0 * b
      BY <1>1, <1>4, Product
    <2> QED BY <1>1, <1>4, <2>1, <2>2
  <1> HIDE DEF f, l, b, total, n, pre, m, inte, k, delay
  <1>9. /\ c * b \in Int /\ PreLaunch * b \in Int /\ f * b \in Int /\ f * b \in Int
        /\ (c - PreLaunch) * b = c * b - PreLaunch * b
        /\ (c - f) * b = c * b - f * b
        /\ (f - 1) * b = f * b - b /\ (PreLaunch - 1) * b = PreLaunch * b - b
    BY <1>1, <1>2, <1>4
  <1>10. c - PreLaunch < f => delay = (c - PreLaunch) * b
    <2>1. CASE c < f
      BY <1>5, <1>9, <2>1
    <2>2. CASE c >= f /\ t.mask
      BY <1>1, <1>2, <1>4, <1>5, <1>7, <1>9, <2>2
    <2>3. CASE c >= f /\ ~t.mask
      BY <1>1, <1>2, <1>4, <1>5, <1>9, <2>3
    <2> QED BY <1>2, <1>3, <1>4, <2>1, <2>2, <2>3
  <1>11. c - PreLaunch >= f => t.mask /\ delay = m
    <2>1. c - PreLaunch >= f => t.mask /\ c >= f + PreLaunch /\ ~(c < f)
      BY <1>1, <1>2, <1>3, <1>4
    <2>2. (m \in Nat /\ pre \in Int) \/ ~t.mask
      BY <1>1, <1>7, <1>9
    <2> QED BY <1>5, <2>1, <2>2
  <1>12. c >= PreLaunch => delay = StackIdx(t, c - PreLaunch)
    BY <1>1, <1>2, <1>4, <1>6, <1>10, <1>11
  <1>13. delay >= 0 <=> c >= PreLaunch
    BY <1>1, <1>2, <1>4, <1>7, <1>8, <1>10, <1>11
  <1>14. c < n => k = StackIdx(t, c)
    <2>1. CASE c < f
      BY <1>5, <1>6, <2>1
    <2>2. CASE c >= f /\ c < n
      <3>1. c = f /\ t.mask /\ ~(c < f) /\ ~(c >= f + PreLaunch)
        BY <1>1, <1>2, <1>3, <1>4, <2>2
      <3>2. (c - f) * b = 0
        BY <1>1, <1>2, <3>1
      <3> QED BY <1>5, <1>6, <1>7, <3>1, <3>2
    <2> QED BY <1>2, <1>4, <2>1, <2>2
  <1>15. c < f \/ (k < total /\ c <= n - 1) <=> c < n
    <2>1. CASE c < f
      BY <1>2, <1>4, <2>1
    <2>2. CASE c >= f /\ c < n
      BY <1>2, <1>4, <1>6, <1>7, <1>14, <2>2
    <2>3. CASE c >= n
      BY <1>2, <1>4, <2>3
    <2> QED BY <1>2, <1>4, <2>1, <2>2, <2>3
  <1>16. (QKDue(t, TurnAt(t, c)) <=> c < n) /\ (PVDue(t, TurnAt(t, c)) <=> c >= PreLaunch)
    BY <1>5, <1>13, <1>15
  <1> QED BY <1>12, <1>14, <1>16 DEF n, k, delay

\* The columns of a stack.
FromColumn(t, c) == IF c < FirstTurns(t) THEN (c * BlockStackNum) * Tile ELSE NoMaskKvS(t)
ToColumn(t, c) ==
    IF c < FirstTurns(t) THEN Least(NoMaskKvS(t), ((c + 1) * BlockStackNum) * Tile) ELSE NoSkipKvS(t)
StackColumns(t, i, c) == [task |-> i, from |-> FromColumn(t, c), to |-> ToColumn(t, c)]

\* The stacks of a task cut its columns, to the last one the mask leaves,
\* without a gap.
LEMMA ColumnsInOrder ==
    ASSUME NEW t \in Tasks, NEW c \in 0..(TotalStackSeqNum(t) - 1)
    PROVE  /\ FromColumn(t, c) \in Nat /\ ToColumn(t, c) \in Nat
           /\ FromColumn(t, c) < ToColumn(t, c)
           /\ c = 0 => FromColumn(t, c) = 0
           /\ c > 0 => FromColumn(t, c) = ToColumn(t, c - 1)
           /\ c = TotalStackSeqNum(t) - 1 => ToColumn(t, c) = NoSkipKvS(t)
  <1> DEFINE f == FirstTurns(t)  l == LoopNumNoMask(t)  b == BlockStackNum
             n == TotalStackSeqNum(t)  k == NoMaskKvS(t)
  <1>1. b \in Nat /\ b > 1 /\ Tile \in Nat /\ Tile > 0
    BY Sizes
  <1>2. /\ f \in Nat /\ l \in Nat /\ l <= f * b /\ f * b < l + b
        /\ k <= l * Tile /\ l * Tile < k + Tile
        /\ n = f + IF t.mask THEN 1 ELSE 0
        /\ n \in Nat /\ n > 0
    BY TaskBlocks
  <1>3. t.mask \in BOOLEAN
    BY DEF Tasks
  <1>4. /\ k \in Nat /\ QSBlockSize(t) \in 1..Tile
        /\ t.mask => NoSkipKvS(t) = k + QSBlockSize(t)
        /\ ~t.mask => NoSkipKvS(t) = k
    BY TaskColumns
  <1>5. c \in Nat /\ c < n
    BY <1>2
  \* Before the end of the first loop, blocks of columns are inside what is not masked.
  <1>6. ASSUME NEW d \in Nat PROVE (d * b) * Tile \in Nat /\ ((d * b) * Tile < k <=> d < f)
    <2>1. d * b \in Nat /\ (d * b) * Tile \in Nat
      BY <1>1
    <2>2. d * b < l <=> d < f
      BY InFirstLoop
    <2> HIDE DEF f, l, b, n, k
    <2>3. ASSUME d * b < l PROVE (d * b) * Tile < k
      <3>1. (d * b + 1) * Tile <= l * Tile
        BY <1>1, <1>2, <2>1, <2>3, Product
      <3>2. (d * b + 1) * Tile = (d * b) * Tile + Tile
        BY <1>1, <2>1
      <3> QED BY <1>1, <1>2, <1>4, <2>1, <3>1, <3>2
    <2>4. ASSUME l <= d * b PROVE k <= (d * b) * Tile
      <3>1. l * Tile <= (d * b) * Tile
        BY <1>1, <1>2, <2>1, <2>4, Product
      <3>2. l * Tile \in Int
        BY <1>1, <1>2
      <3> QED BY <1>2, <1>4, <2>1, <3>1, <3>2
    <2> QED BY <1>2, <1>4, <2>1, <2>2, <2>3, <2>4
  <1>7. /\ FromColumn(t, c) = IF c < f THEN (c * b) * Tile ELSE k
        /\ ToColumn(t, c) = IF c < f THEN (IF k < ((c + 1) * b) * Tile THEN k ELSE ((c + 1) * b) * Tile) ELSE NoSkipKvS(t)
        /\ c > 0 => ToColumn(t, c - 1) = IF c - 1 < f THEN (IF k < (c * b) * Tile THEN k ELSE (c * b) * Tile) ELSE NoSkipKvS(t)
    BY <1>5 DEF FromColumn, ToColumn, Least
  <1>8. /\ (c * b) * Tile \in Nat /\ ((c * b) * Tile < k <=> c < f)
        /\ ((c + 1) * b) * Tile \in Nat /\ (((c + 1) * b) * Tile < k <=> c + 1 < f)
    BY <1>5, <1>6
  <1>9. (c * b) * Tile < ((c + 1) * b) * Tile
    <2>1. c * b < (c + 1) * b
      BY <1>1, <1>5, Product
    <2> QED BY <1>1, <1>5, <2>1, Product
  <1>10. c = 0 => (c * b) * Tile = 0
    BY <1>1
  <1> HIDE DEF f, l, b, n, k
  <1>11. f > 0 => k > 0
    <2>1. (0 * b) * Tile < k <=> 0 < f
      BY <1>6
    <2>2. (0 * b) * Tile = 0
      BY <1>1
    <2> QED BY <2>1, <2>2
  <1>12. f = 0 => k = 0
    <2>1. (0 * b) * Tile < k <=> 0 < f
      BY <1>6
    <2>2. (0 * b) * Tile = 0
      BY <1>1
    <2> QED BY <1>2, <1>4, <2>1, <2>2
  <1> DEFINE x == (c * b) * Tile  y == ((c + 1) * b) * Tile
  <1>13. /\ x \in Nat /\ y \in Nat /\ x < y
         /\ x < k <=> c < f
         /\ y < k <=> c + 1 < f
         /\ c = 0 => x = 0
         /\ FromColumn(t, c) = IF c < f THEN x ELSE k
         /\ ToColumn(t, c) = IF c < f THEN (IF k < y THEN k ELSE y) ELSE NoSkipKvS(t)
         /\ c > 0 => ToColumn(t, c - 1) = IF c - 1 < f THEN (IF k < x THEN k ELSE x) ELSE NoSkipKvS(t)
    BY <1>7, <1>8, <1>9, <1>10
  <1> HIDE DEF x, y
  <1>14. /\ FromColumn(t, c) \in Nat /\ ToColumn(t, c) \in Nat
         /\ FromColumn(t, c) < ToColumn(t, c)
         /\ c = 0 => FromColumn(t, c) = 0
         /\ c > 0 => FromColumn(t, c) = ToColumn(t, c - 1)
         /\ c = n - 1 => ToColumn(t, c) = NoSkipKvS(t)
    <2>1. CASE c < f
      BY <1>1, <1>2, <1>3, <1>4, <1>5, <1>13, <2>1
    <2>2. CASE c >= f
      <3>1. c = f /\ t.mask
        BY <1>2, <1>3, <1>5, <2>2
      <3> QED BY <1>1, <1>2, <1>4, <1>5, <1>12, <1>13, <3>1
    <2> QED BY <1>2, <1>5, <2>1, <2>2
  <1> QED BY <1>14 DEF n

-----------------------------------------------------------------------------
(* The stacks of a task: both halves are for the same columns, and the     *)
(* stacks cut the columns of the task without a gap.                       *)

\* Both halves of stack c.
QKAt(t, i, c) == QKOp(i, t, TurnAt(t, c))
PVAt(t, i, c) == PVOp(i, t, TurnAt(t, c + PreLaunch))

\* Both halves of a stack have their turns.
LEMMA StackInTurns ==
    ASSUME NEW t \in Tasks, NEW c \in 0..(TotalStackSeqNum(t) - 1)
    PROVE  c \in 0..LastTurn(t) /\ c + PreLaunch \in 0..LastTurn(t)
  BY Sizes, TaskBlocks DEF LastTurn

\* Where the blocks of a stack are that the loops reach.
LEMMA StackBlocks ==
    ASSUME NEW t \in Tasks, NEW c \in 0..(TotalStackSeqNum(t) - 1)
    PROVE  /\ TurnIdx(t, c) = StackIdx(t, c)
           /\ Delayed(t, TurnAt(t, c + PreLaunch)) = StackIdx(t, c)
           /\ c >= FirstTurns(t) => t.mask /\ c = TotalStackSeqNum(t) - 1
           /\ t.mask /\ c = TotalStackSeqNum(t) - 1 => c >= FirstTurns(t)
           /\ c = TotalStackSeqNum(t) - 1 => c + PreLaunch >= FirstTurns(t)
  <1>1. c \in Nat /\ c < TotalStackSeqNum(t) /\ PreLaunch \in Nat /\ PreLaunch > 0 /\ t.mask \in BOOLEAN
    BY Sizes, TaskBlocks DEF Tasks
  <1>2. c + PreLaunch - PreLaunch = c /\ c + PreLaunch >= PreLaunch
    BY <1>1
  <1>3. Delayed(t, TurnAt(t, c + PreLaunch)) = StackIdx(t, c)
    <2>1. c + PreLaunch \in 0..LastTurn(t)
      BY StackInTurns
    <2> DEFINE d == c + PreLaunch
    <2>2. d \in 0..LastTurn(t) /\ d >= PreLaunch /\ d - PreLaunch = c
      BY <1>1, <1>2, <2>1
    <2> HIDE DEF d
    <2>3. Delayed(t, TurnAt(t, d)) = StackIdx(t, d - PreLaunch)
      BY <2>2, DueAt
    <2>4. Delayed(t, TurnAt(t, d)) = StackIdx(t, c)
      BY <2>2, <2>3
    <2> QED BY <2>4 DEF d
  <1>4. TurnIdx(t, c) = StackIdx(t, c)
    <2>1. c \in 0..LastTurn(t)
      BY StackInTurns
    <2> QED BY <1>1, <2>1, DueAt
  <1> QED BY <1>1, <1>3, <1>4, TaskBlocks

\* An op that starts at the blocks of a stack takes the columns of that stack.
LEMMA OpColumns ==
    ASSUME NEW t \in Tasks, NEW c \in 0..(TotalStackSeqNum(t) - 1), NEW i,
           NEW op,
           op.task = i, op.nIdx = StackIdx(t, c),
           c < FirstTurns(t) => op.tail = 0 /\ op.seqlen = NoMaskKvS(t),
           c >= FirstTurns(t) => op.tail = NoMaskTailS(t) /\ op.seqlen = NoSkipKvS(t)
    PROVE  Columns(op) = StackColumns(t, i, c)
  <1> DEFINE b == BlockStackNum
  <1>1. b \in Nat /\ b > 1 /\ Tile \in Nat /\ Tile > 0 /\ c \in Nat
    BY Sizes, TaskBlocks
  <1>2. CASE c < FirstTurns(t)
    <2>1. op.nIdx = c * b /\ op.tail = 0 /\ op.seqlen = NoMaskKvS(t)
      BY <1>2 DEF StackIdx
    <2>2. (c * b) * Tile + 0 = (c * b) * Tile /\ c * b + b = (c + 1) * b
      BY <1>1
    <2>3. Columns(op) = [task |-> i, from |-> (c * b) * Tile + 0, to |-> Least(NoMaskKvS(t), (c * b + b) * Tile)]
      BY <2>1 DEF Columns
    <2>4. StackColumns(t, i, c) = [task |-> i, from |-> (c * b) * Tile, to |-> Least(NoMaskKvS(t), ((c + 1) * b) * Tile)]
      BY <1>2 DEF StackColumns, FromColumn, ToColumn
    <2> HIDE DEF b
    <2> QED BY <2>2, <2>3, <2>4, Zenon
  <1>3. CASE c >= FirstTurns(t)
    <2>0. ~(c < FirstTurns(t))
      BY <1>1, <1>3, TaskBlocks
    <2>1. op.nIdx = MaskedStartIdx(t) /\ op.tail = NoMaskTailS(t) /\ op.seqlen = NoSkipKvS(t)
      BY <1>3, <2>0 DEF StackIdx
    <2>2. t.mask
      BY <1>3, StackBlocks
    <2>3. MaskedStartIdx(t) * Tile + NoMaskTailS(t) = NoMaskKvS(t)
      BY <2>2, MaskedStack
    <2>4. MaskedStartIdx(t) \in Nat /\ NoSkipKvS(t) <= (MaskedStartIdx(t) + b) * Tile
      BY <2>2, MaskedStack
    <2>5. NoSkipKvS(t) \in Nat
      BY <2>2, <1>1, TaskColumns
    <2>6. (MaskedStartIdx(t) + b) * Tile \in Nat
      BY <1>1, <2>4
    <2>7. Least(NoSkipKvS(t), (MaskedStartIdx(t) + b) * Tile) = NoSkipKvS(t)
      <3> DEFINE x == (MaskedStartIdx(t) + b) * Tile
      <3>1. x \in Nat /\ NoSkipKvS(t) <= x
        BY <2>4, <2>6
      <3> HIDE DEF x
      <3>2. Least(NoSkipKvS(t), x) = NoSkipKvS(t)
        BY <2>5, <3>1 DEF Least
      <3> QED BY <3>2 DEF x
    <2>8. Columns(op) = [task |-> i, from |-> NoMaskKvS(t), to |-> NoSkipKvS(t)]
      BY <2>1, <2>3, <2>7, Zenon DEF Columns
    <2>9. StackColumns(t, i, c) = [task |-> i, from |-> NoMaskKvS(t), to |-> NoSkipKvS(t)]
      BY <2>0, Zenon DEF StackColumns, FromColumn, ToColumn
    <2> QED BY <2>8, <2>9
  <1> QED BY <1>1, <1>2, <1>3, TaskBlocks

\* The first half of stack c: its slot, its columns, the width the softmax
\* takes.
LEMMA QKFacts ==
    ASSUME NEW t \in Tasks, NEW c \in 0..(TotalStackSeqNum(t) - 1), NEW i
    PROVE  LET op == QKAt(t, i, c) IN
           /\ op.unit = "QK" /\ op.task = i /\ op.count = c /\ op.slot = Slot(c)
           /\ op.first <=> c = 0
           /\ Columns(op) = StackColumns(t, i, c)
           /\ op.width = ToColumn(t, c) - FromColumn(t, c)
  <1> DEFINE turn == TurnAt(t, c)
             op == QKAt(t, i, c)
  <1>1. turn = [loop |-> IF c < FirstTurns(t) THEN "noMask" ELSE "masked", kvSIdx |-> StackIdx(t, c), count |-> c]
    BY StackBlocks DEF TurnAt
  <1>2. c \in Nat /\ FirstTurns(t) \in Nat
    BY TaskBlocks
  <1>3. CASE c < FirstTurns(t)
    <2>1. op = [Op("QK", i, c, StackIdx(t, c), LoopNumNoMask(t), NoMaskKvS(t)) EXCEPT !.width = NoMaskWidth(t, StackIdx(t, c))]
      BY <1>1, <1>3 DEF QKAt, QKOp, UnmaskedOp
    <2>2. /\ op.unit = "QK" /\ op.task = i /\ op.count = c /\ op.slot = Slot(c)
          /\ op.first <=> c = 0
          /\ op.nIdx = StackIdx(t, c) /\ op.tail = 0 /\ op.seqlen = NoMaskKvS(t)
          /\ op.width = NoMaskWidth(t, StackIdx(t, c))
      BY <2>1 DEF Op
    <2>3. Columns(op) = StackColumns(t, i, c)
      <3> HIDE DEF op
      <3>1. ~(c >= FirstTurns(t))
        BY <1>2, <1>3
      <3> QED BY <2>2, <3>1, OpColumns
    <2>4. NoMaskWidth(t, StackIdx(t, c)) = ToColumn(t, c) - FromColumn(t, c)
      <3> DEFINE b == BlockStackNum  l == LoopNumNoMask(t)  k == NoMaskKvS(t)
                 x == c * b
      <3>1. b \in Nat /\ b > 1 /\ Tile \in Nat /\ Tile > 0
        BY Sizes
      <3>2. l \in Nat /\ k \in Nat /\ k <= l * Tile /\ l * Tile < k + Tile
        BY TaskBlocks, TaskColumns
      <3>3. x \in Nat /\ x + b = (c + 1) * b
        BY <1>2, <3>1
      <3>4. NoMaskWidth(t, StackIdx(t, c)) = IF x + b > l - 1 THEN k - x * Tile ELSE Tile * b
        BY <1>3 DEF NoMaskWidth, StackIdx
      <3>5. FromColumn(t, c) = x * Tile /\ ToColumn(t, c) = IF k < (x + b) * Tile THEN k ELSE (x + b) * Tile
        <4>1. FromColumn(t, c) = x * Tile /\ ToColumn(t, c) = IF k < ((c + 1) * b) * Tile THEN k ELSE ((c + 1) * b) * Tile
          BY <1>3 DEF FromColumn, ToColumn, Least
        <4> HIDE DEF x, b, k
        <4> QED BY <3>3, <4>1, Zenon
      <3> HIDE DEF b, l, k, x
      <3>6. x * Tile \in Nat /\ (x + b) * Tile = x * Tile + Tile * b /\ l * Tile \in Nat /\ Tile * b \in Nat
        BY <3>1, <3>2, <3>3
      <3>7. ASSUME x + b > l - 1 PROVE k <= (x + b) * Tile
        <4>1. l * Tile <= (x + b) * Tile
          BY <3>1, <3>2, <3>3, <3>7, Product
        <4> QED BY <3>1, <3>2, <3>6, <4>1
      <3>8. ASSUME x + b <= l - 1 PROVE (x + b) * Tile < k
        <4>1. (x + b) * Tile <= (l - 1) * Tile
          BY <3>1, <3>2, <3>3, <3>8, Product
        <4>2. (l - 1) * Tile = l * Tile - Tile
          BY <3>1, <3>2
        <4> QED BY <3>1, <3>2, <3>6, <4>1, <4>2
      <3>9. CASE x + b > l - 1
        BY <3>2, <3>4, <3>5, <3>6, <3>7, <3>9
      <3>10. CASE x + b <= l - 1
        <4>1. ~(x + b > l - 1) /\ ~(k < (x + b) * Tile)
          BY <3>1, <3>2, <3>3, <3>6, <3>8, <3>10
        <4> QED BY <3>4, <3>5, <3>6, <4>1
      <3> QED BY <3>1, <3>2, <3>3, <3>9, <3>10
    <2> HIDE DEF op
    <2> QED BY <2>2, <2>3, <2>4 DEF op
  <1>4. CASE c >= FirstTurns(t)
    <2>0. ~(c < FirstTurns(t))
      BY <1>2, <1>4
    <2>1. op = [[Op("QK", i, c, StackIdx(t, c), LoopNumTotal(t), NoSkipKvS(t)) EXCEPT !.masked = TRUE, !.tail = NoMaskTailS(t)]
                  EXCEPT !.width = QSBlockSize(t)]
      BY <1>1, <2>0 DEF QKAt, QKOp, MaskedOp
    <2>2. /\ op.unit = "QK" /\ op.task = i /\ op.count = c /\ op.slot = Slot(c)
          /\ op.first <=> c = 0
          /\ op.nIdx = StackIdx(t, c) /\ op.tail = NoMaskTailS(t) /\ op.seqlen = NoSkipKvS(t)
          /\ op.width = QSBlockSize(t)
      BY <2>1 DEF Op
    <2>3. Columns(op) = StackColumns(t, i, c)
      <3> HIDE DEF op
      <3> QED BY <2>0, <2>2, OpColumns
    <2>4. QSBlockSize(t) = ToColumn(t, c) - FromColumn(t, c)
      <3>1. t.mask
        BY <1>4, StackBlocks
      <3>2. FromColumn(t, c) = NoMaskKvS(t) /\ ToColumn(t, c) = NoSkipKvS(t)
        BY <2>0 DEF FromColumn, ToColumn
      <3>3. NoMaskKvS(t) \in Nat /\ QSBlockSize(t) \in 1..Tile /\ NoSkipKvS(t) = NoMaskKvS(t) + QSBlockSize(t)
        BY <3>1, TaskColumns
      <3> QED BY <3>2, <3>3, Sizes
    <2> HIDE DEF op
    <2> QED BY <2>2, <2>3, <2>4 DEF op
  <1> QED BY <1>2, <1>3, <1>4

\* The second half of stack c, PreLaunch turns later, is for the same columns.
LEMMA PVFacts ==
    ASSUME NEW t \in Tasks, NEW c \in 0..(TotalStackSeqNum(t) - 1), NEW i
    PROVE  LET op == PVAt(t, i, c) IN
           /\ op.unit = "PV" /\ op.task = i /\ op.count = c /\ op.slot = Slot(c)
           /\ op.first <=> c = 0
           /\ op.last <=> c = TotalStackSeqNum(t) - 1
           /\ Columns(op) = StackColumns(t, i, c)
  <1> DEFINE n == TotalStackSeqNum(t)
             turn == TurnAt(t, c + PreLaunch)
             op == PVAt(t, i, c)
             last == turn.loop = "masked" /\ turn.count - PreLaunch = n - 1
  <1>1. /\ turn.loop = IF c + PreLaunch < FirstTurns(t) THEN "noMask" ELSE "masked"
        /\ turn.count = c + PreLaunch
        /\ Delayed(t, turn) = StackIdx(t, c)
    BY StackBlocks DEF TurnAt
  <1>2. c \in Nat /\ n \in Nat /\ FirstTurns(t) \in Nat /\ PreLaunch \in Nat /\ turn.count - PreLaunch = c
    BY <1>1, Sizes, TaskBlocks
  <1>3. last <=> c = n - 1
    BY <1>1, <1>2, StackBlocks
  <1>4. op = [IF last /\ t.mask THEN MaskedOp("PV", i, t, turn.count - PreLaunch, Delayed(t, turn))
              ELSE UnmaskedOp("PV", i, t, turn.count - PreLaunch, Delayed(t, turn)) EXCEPT !.last = last]
    BY Zenon DEF PVAt, PVOp
  <1> HIDE DEF turn, last, op
  <1>5. op = [IF last /\ t.mask THEN MaskedOp("PV", i, t, c, StackIdx(t, c))
              ELSE UnmaskedOp("PV", i, t, c, StackIdx(t, c)) EXCEPT !.last = last]
    BY <1>1, <1>2, <1>4, Zenon
  <1>6. CASE last /\ t.mask
    <2>1. op = [[Op("PV", i, c, StackIdx(t, c), LoopNumTotal(t), NoSkipKvS(t)) EXCEPT !.masked = TRUE, !.tail = NoMaskTailS(t)]
                  EXCEPT !.last = last]
      BY <1>5, <1>6 DEF MaskedOp
    <2>2. /\ op.unit = "PV" /\ op.task = i /\ op.count = c /\ op.slot = Slot(c)
          /\ op.first <=> c = 0
          /\ op.last = last
          /\ op.nIdx = StackIdx(t, c) /\ op.tail = NoMaskTailS(t) /\ op.seqlen = NoSkipKvS(t)
      BY <2>1 DEF Op
    <2>3. c >= FirstTurns(t) /\ ~(c < FirstTurns(t))
      BY <1>2, <1>3, <1>6, StackBlocks
    <2>4. Columns(op) = StackColumns(t, i, c)
      BY <2>2, <2>3, OpColumns
    <2> QED BY <1>3, <1>6, <2>2, <2>4 DEF op
  <1>7. CASE ~(last /\ t.mask)
    <2>1. op = [Op("PV", i, c, StackIdx(t, c), LoopNumNoMask(t), NoMaskKvS(t)) EXCEPT !.last = last]
      BY <1>5, <1>7 DEF UnmaskedOp
    <2>2. /\ op.unit = "PV" /\ op.task = i /\ op.count = c /\ op.slot = Slot(c)
          /\ op.first <=> c = 0
          /\ op.last = last
          /\ op.nIdx = StackIdx(t, c) /\ op.tail = 0 /\ op.seqlen = NoMaskKvS(t)
      BY <2>1 DEF Op
    <2>3. c < FirstTurns(t) /\ ~(c >= FirstTurns(t))
      BY <1>2, <1>3, <1>7, StackBlocks
    <2>4. Columns(op) = StackColumns(t, i, c)
      BY <2>2, <2>3, OpColumns
    <2> QED BY <1>3, <1>7, <2>2, <2>4 DEF op
  <1> QED BY <1>6, <1>7

-----------------------------------------------------------------------------
(* The inductive invariant.                                                *)

\* The stacks of a task.
N(i) == TotalStackSeqNum(tasks[i])

\* The instructions of the tasks.
OAt(i) == [PVAt(tasks[i], i, N(i) - 1) EXCEPT !.unit = "O"]
OpsOf(i) ==
    {QOp(i), OAt(i)} \cup {QKAt(tasks[i], i, c) : c \in 0..(N(i) - 1)} \cup {PVAt(tasks[i], i, c) : c \in 0..(N(i) - 1)}
Ops == UNION {OpsOf(i) : i \in 1..Len(tasks)}

\* The other instructions for the stack, or the task, of an instruction.
QOf(op) == QOp(op.task)
QKOf(op) == QKAt(tasks[op.task], op.task, op.count)
PVOf(op) == PVAt(tasks[op.task], op.task, op.count)
OOf(op) == OAt(op.task)

\* The order of the loops: task by task, turn by turn.
Place(op) ==
    CASE op.unit = "Q" -> 0
      [] op.unit = "QK" -> 4 * op.count + 1
      [] op.unit = "PV" -> 4 * (op.count + PreLaunch) + 2
      [] op.unit = "O" -> 4 * (op.count + PreLaunch) + 3
Before(a, b) == a.task < b.task \/ (a.task = b.task /\ Place(a) < Place(b))

\* What a scalar unit at a position has behind it.
PlaceAt(pos) ==
    CASE pos.part = "Q" -> 0
      [] pos.part = "QK" -> 4 * pos.turn.count + 1
      [] pos.part = "PV" -> 4 * pos.turn.count + 2
Behind(u, pos) ==
    {op \in Ops : /\ op.unit = "Q" => u = AIC
                  /\ op.task < pos.task \/ (op.task = pos.task /\ Place(op) < PlaceAt(pos))}
Passed(u) == Behind(u, at[u])

\* The positions a scalar unit can be at: before one half of turn c of task i,
\* or behind the last task.
InTask(u, pos, i, c, part) ==
    /\ pos = [task |-> i, turn |-> TurnAt(tasks[i], c), part |-> part]
    /\ part = "Q" => u = AIC /\ c = 0
    /\ part = "QK" => c < N(i)
Position(u, pos) ==
    \/ pos = [task |-> Len(tasks) + 1, part |-> "done"]
    \/ \E i \in 1..Len(tasks), part \in {"Q", "QK", "PV"} :
         \E c \in 0..LastTurn(tasks[i]) : InTask(u, pos, i, c, part)
AtOK(u) == Position(u, at[u])

\* A queue holds the last of what was given to it, in order.
Pending(q) == {q[k] : k \in 1..Len(q)}
Done(q, given) == given \ Pending(q)
InOrder(q, given) ==
    /\ q \in Seq(given)
    /\ \A j, k \in 1..Len(q) : j < k => Before(q[j], q[k])
    /\ \A a \in Done(q, given) : \A k \in 1..Len(q) : Before(a, q[k])

\* What each queue has been given.
ForAicMte2 == {op \in Passed(AIC) : op.unit \in {"Q", "PV"}}
ForCube == {op \in Passed(AIC) : op.unit \in {"QK", "PV"}}
ForMte2(v) == {op \in Passed(v) : op.unit \in {"QK", "PV"} /\ HasRows(v, op.task)}
ForVec(v) == {op \in Passed(v) : op.unit \in {"QK", "PV", "O"} /\ HasRows(v, op.task)}
ForMte3(v) == {op \in Passed(v) : op.unit = "QK" \/ (op.unit = "O" /\ HasRows(v, op.task))}

\* What each pipe has done.
Loaded == Done(aicMte2, ForAicMte2)
Multiplied == Done(cube, ForCube)
Stored == Multiplied \ {l0c[k].op : k \in 1..Len(l0c)}
AivLoaded(v) == Done(mte2[v], ForMte2(v))
Computed(v) == Done(vec[v], ForVec(v))
AivStored(v) == Done(mte3[v], ForMte3(v))

\* What the rows of a task have seen with stack op.count.
Rows(op) == [k \in 1..(op.count + 1) |-> StackColumns(tasks[op.task], op.task, k - 1)]

\* The types of the variables.
TileSet == [task : Nat, from : Nat, to : Nat]
RowsSet == Seq(TileSet)
L1Set == [q : Nat, qLoaded : Nat, p : Seq([AIV -> RowsSet])]
UbSet == [ls : Seq(TileSet), lp : Seq(RowsSet), seen : RowsSet, dm : [0..PreLaunch -> RowsSet],
          lo : RowsSet, loState : {"free", "loaded"}, go : RowsSet, divided : BOOLEAN]
TypeOK ==
    /\ tasks \in TaskLists
    /\ at = [u \in {AIC} \cup AIV |-> at[u]]
    /\ l1 \in L1Set
    /\ s \in [0..PreLaunch -> TileSet]
    /\ p \in [0..PreLaunch -> [AIV -> RowsSet]]
    /\ oTmp \in [0..PreLaunch -> [AIV -> RowsSet]]
    /\ {qkReady, softmaxReady, pvReady} \subseteq [AIV -> Nat]
    /\ ub \in [AIV -> UbSet]
    /\ output \in [AIV -> [1..Len(tasks) -> RowsSet]]
    /\ \A queue \in {mte2, vec, mte3} : queue = [v \in AIV |-> queue[v]]

\* Scalar units are at positions of the loops; pipes take what they are given in order.
AtsOK == \A u \in {AIC} \cup AIV : AtOK(u)
QueuesInOrder ==
    /\ InOrder(aicMte2, ForAicMte2) /\ InOrder(cube, ForCube)
    /\ \A v \in AIV : InOrder(mte2[v], ForMte2(v)) /\ InOrder(vec[v], ForVec(v)) /\ InOrder(mte3[v], ForMte3(v))

\* A flag counts the stacks announced to a unit that has not waited for them:
\* S stored by the AIC, P stored by the AIV, OTmp stored by the AIC.
QKs == {op \in Ops : op.unit = "QK"}
Announced(v) == {a \in QKs : a \in Stored /\ a \notin Passed(v)}
Softened(v) == {a \in QKs : a \in AivStored(v) /\ PVOf(a) \notin Passed(AIC)}
Weighted(v) == {a \in QKs : PVOf(a) \in Stored /\ PVOf(a) \notin Passed(v)}
FlagsCount ==
    \A v \in AIV : /\ qkReady[v] = Cardinality(Announced(v))
                   /\ softmaxReady[v] = Cardinality(Softened(v))
                   /\ pvReady[v] = Cardinality(Weighted(v))
\* Nobody is past the wait for a flag that has not been set for it.
Waited ==
    \A a \in QKs : \A v \in AIV :
        /\ a \in Passed(v) => a \in Stored
        /\ PVOf(a) \in Passed(AIC) => a \in AivStored(v)
        /\ PVOf(a) \in Passed(v) => PVOf(a) \in Stored

\* Each pipe of a core waits for the pipe before it.
PipesFollow ==
    /\ \A op \in Multiplied : /\ op.unit = "PV" => op \in Loaded
                              /\ op.unit = "QK" => QOf(op) \in Loaded
    /\ \A v \in AIV :
        /\ \A op \in Computed(v) : op.unit # "O" => op \in AivLoaded(v)
        /\ \A op \in AivStored(v) : HasRows(v, op.task) => op \in Computed(v)

\* The last of its unit in a set of instructions.
LastIn(op, set) == \A b \in set : b.unit = op.unit => ~Before(op, b)
\* Q in L1 is that of the task loaded last.  The event that it has been loaded
\* is set once, for a task whose first multiplication is still to come.
Q_InL1 ==
    /\ l1.qLoaded <= 1
    /\ l1.qLoaded > 0 => \E op \in Loaded : op.unit = "Q" /\ QKOf(op) \notin Multiplied
    /\ \A op \in Loaded : op.unit = "Q" /\ LastIn(op, Loaded) => l1.q = op.task
\* P in L1 is the one loaded and not yet multiplied.
P_InL1 ==
    LET between == {op \in Loaded \ Multiplied : op.unit = "PV"} IN
    /\ l1.p # <<>> => between # {}
    /\ \A op \in between :
         /\ l1.p # <<>>
         /\ \A v \in AIV : HasRows(v, op.task) => Head(l1.p)[v] = Rows(op)
         /\ between = {op}
\* The accumulator holds the result of the last multiplication.
Accumulator ==
    l0c # <<>> =>
      LET op == Head(l0c).op
          result == Head(l0c).result
      IN  /\ l0c = <<[op |-> op, result |-> result]>>
          /\ op \in Multiplied
          /\ \A b \in Multiplied : ~Before(op, b)
          /\ op.unit = "QK" => result = Columns(op)
          /\ op.unit = "PV" => /\ result \in [AIV -> RowsSet]
                               /\ \A v \in AIV : HasRows(v, op.task) => result[v] = Rows(op)
\* A slot holds what has been stored in it until its reader has loaded it:
\* nobody writes a slot again before.
Workspace ==
    \A v \in AIV : \A op \in Ops : HasRows(v, op.task) =>
        /\ op.unit = "QK" /\ op \in Stored /\ op \notin AivLoaded(v) => s[op.slot] = Columns(op)
        /\ op.unit = "QK" /\ op \in AivStored(v) /\ PVOf(op) \notin Loaded => p[op.slot][v] = Rows(op)
        /\ op.unit = "PV" /\ op \in Stored /\ op \notin AivLoaded(v) => oTmp[op.slot][v] = Rows(op)
\* In the unified buffer: S and OTmp between load and computation, P between
\* computation and store.
S_InUb(v) ==
    LET between == {op \in AivLoaded(v) \ Computed(v) : op.unit = "QK"} IN
    /\ ub[v].ls # <<>> => between # {}
    /\ \A op \in between : ub[v].ls = <<Columns(op)>> /\ between = {op}
P_InUb(v) ==
    LET between == {op \in Computed(v) \ AivStored(v) : op.unit = "QK"} IN
    /\ ub[v].lp # <<>> => between # {}
    /\ \A op \in between : ub[v].lp = <<Rows(op)>> /\ between = {op}
OTmp_InUb(v) ==
    LET between == {op \in AivLoaded(v) \ Computed(v) : op.unit = "PV"} IN
    /\ ub[v].loState = "loaded" => between # {}
    /\ \A op \in between :
         /\ ub[v].loState = "loaded"
         /\ IF op.count = 0 THEN ub[v].go = Rows(op) ELSE ub[v].lo = Rows(op)
         /\ between = {op}
\* What stays from one instruction to a later one: the rows seen, the factors
\* of the stacks whose second half is still to come, the output so far (until
\* the first OTmp of the next task is loaded over it).
KeptInUb(v) ==
    /\ \A op \in Computed(v) : op.unit = "QK" =>
         /\ LastIn(op, Computed(v)) => ub[v].seen = Rows(op)
         /\ op.count > 0 /\ PVOf(op) \notin Computed(v) => ub[v].dm[op.slot] = Rows(op)
    /\ \A op \in Computed(v) :
         op.unit = "PV" /\ LastIn(op, Computed(v))
         /\ (\A b \in AivLoaded(v) : b.unit = "PV" /\ Before(op, b) => b.count # 0)
         => ub[v].go = Rows(op)
    /\ ub[v].divided => \E op \in Computed(v) \ AivStored(v) : op.unit = "O"
\* The output of a task is there, and whole, from its store on.
Outputs ==
    \A v \in AIV : \A op \in Ops : op.unit = "O" =>
        output[v][op.task] = IF op \in AivStored(v) THEN Rows(op) ELSE <<>>
InUb == \A v \in AIV : S_InUb(v) /\ P_InUb(v) /\ OTmp_InUb(v) /\ KeptInUb(v)
\* The inductive invariant.
IInv ==
    /\ TypeOK /\ AtsOK /\ QueuesInOrder /\ FlagsCount /\ Waited /\ PipesFollow
    /\ Q_InL1 /\ P_InL1 /\ Accumulator /\ Workspace /\ InUb /\ Outputs

-----------------------------------------------------------------------------
(* The instructions of the tasks and their order.                          *)

\* Tasks have at least one stack.
LEMMA TasksTyped ==
    ASSUME tasks \in TaskLists
    PROVE  /\ Len(tasks) \in Nat
           /\ \A i \in 1..Len(tasks) : tasks[i] \in Tasks /\ N(i) \in Nat /\ N(i) > 0
  <1>1. tasks \in Seq(Tasks)
    BY TasksAssumption DEF Tasks
  <1>2. Len(tasks) \in Nat /\ \A i \in 1..Len(tasks) : tasks[i] \in Tasks
    BY <1>1
  <1> QED BY <1>2, TaskBlocks DEF N

\* O is the last PV of its task.
LEMMA OFacts ==
    ASSUME tasks \in TaskLists, NEW i \in 1..Len(tasks)
    PROVE  OAt(i).unit = "O" /\ OAt(i).task = i /\ OAt(i).count = N(i) - 1
  <1>1. tasks[i] \in Tasks /\ N(i) \in Nat /\ N(i) > 0
    BY TasksTyped
  <1>2. N(i) - 1 \in 0..(TotalStackSeqNum(tasks[i]) - 1)
    BY <1>1 DEF N
  <1> DEFINE op == PVAt(tasks[i], i, N(i) - 1)
  <1>3. op.unit = "PV" /\ op.task = i /\ op.count = N(i) - 1
    BY <1>1, <1>2, PVFacts
  <1>4. {"unit", "task", "count"} \subseteq DOMAIN op
    BY DEF PVAt, PVOp, UnmaskedOp, MaskedOp, Op
  <1>5. OAt(i) = [op EXCEPT !.unit = "O"]
    BY DEF OAt
  <1> HIDE DEF op
  <1> QED BY <1>3, <1>4, <1>5

\* The fields of an instruction, which its unit, task and count determine.
LEMMA OpFields ==
    ASSUME tasks \in TaskLists, NEW op \in Ops
    PROVE  /\ op.unit \in {"Q", "QK", "PV", "O"}
           /\ op.task \in 1..Len(tasks)
           /\ N(op.task) \in Nat
           /\ op.count \in 0..(N(op.task) - 1)
           /\ op.unit = "Q" => op = QOf(op) /\ op.count = 0
           /\ op.unit = "QK" => op = QKOf(op) /\ op.width = ToColumn(tasks[op.task], op.count) - FromColumn(tasks[op.task], op.count)
           /\ op.unit = "PV" => op = PVOf(op) /\ (op.last <=> op.count = N(op.task) - 1)
           /\ op.unit = "O" => op = OOf(op) /\ op.count = N(op.task) - 1
           /\ op.unit \in {"QK", "PV"} => /\ op.slot = Slot(op.count)
                                          /\ op.first <=> op.count = 0
                                          /\ Columns(op) = StackColumns(tasks[op.task], op.task, op.count)
  <1>1. PICK i \in 1..Len(tasks) : op \in OpsOf(i)
    BY DEF Ops
  <1>2. tasks[i] \in Tasks /\ N(i) \in Nat /\ N(i) > 0 /\ N(i) = TotalStackSeqNum(tasks[i])
    BY TasksTyped DEF N
  <1>3. CASE op = QOp(i)
    <2>1. op.unit = "Q" /\ op.task = i /\ op.count = 0
      BY <1>3 DEF QOp, Op
    <2> QED BY <1>2, <1>3, <2>1 DEF QOf
  <1>4. CASE op = OAt(i)
    <2>1. op.unit = "O" /\ op.task = i /\ op.count = N(i) - 1
      BY <1>4, OFacts
    <2> QED BY <1>2, <1>4, <2>1 DEF OOf
  <1>5. ASSUME NEW c \in 0..(N(i) - 1), op = QKAt(tasks[i], i, c)
        PROVE  /\ op.unit = "QK" /\ op.task = i /\ op.count = c
               /\ op.width = ToColumn(tasks[i], c) - FromColumn(tasks[i], c)
               /\ op.slot = Slot(c) /\ (op.first <=> c = 0)
               /\ Columns(op) = StackColumns(tasks[i], i, c)
    <2>1. c \in 0..(TotalStackSeqNum(tasks[i]) - 1)
      BY <1>2
    <2> QED BY <1>2, <1>5, <2>1, QKFacts
  <1>6. ASSUME NEW c \in 0..(N(i) - 1), op = PVAt(tasks[i], i, c)
        PROVE  /\ op.unit = "PV" /\ op.task = i /\ op.count = c
               /\ op.last <=> c = N(i) - 1
               /\ op.slot = Slot(c) /\ (op.first <=> c = 0)
               /\ Columns(op) = StackColumns(tasks[i], i, c)
    <2>1. c \in 0..(TotalStackSeqNum(tasks[i]) - 1)
      BY <1>2
    <2> QED BY <1>2, <1>6, <2>1, PVFacts
  <1>7. CASE \E c \in 0..(N(i) - 1) : op = QKAt(tasks[i], i, c)
    BY <1>2, <1>5, <1>7 DEF QKOf
  <1>8. CASE \E c \in 0..(N(i) - 1) : op = PVAt(tasks[i], i, c)
    BY <1>2, <1>6, <1>8 DEF PVOf
  <1> QED BY <1>1, <1>3, <1>4, <1>7, <1>8 DEF OpsOf

\* The instructions of stack c of task i.
LEMMA OpsAt ==
    ASSUME tasks \in TaskLists, NEW i \in 1..Len(tasks), NEW c \in 0..(N(i) - 1)
    PROVE  /\ QOp(i) \in Ops /\ QOp(i).unit = "Q" /\ QOp(i).task = i /\ QOp(i).count = 0
           /\ QKAt(tasks[i], i, c) \in Ops /\ QKAt(tasks[i], i, c).unit = "QK"
           /\ QKAt(tasks[i], i, c).task = i /\ QKAt(tasks[i], i, c).count = c
           /\ PVAt(tasks[i], i, c) \in Ops /\ PVAt(tasks[i], i, c).unit = "PV"
           /\ PVAt(tasks[i], i, c).task = i /\ PVAt(tasks[i], i, c).count = c
           /\ OAt(i) \in Ops /\ OAt(i).unit = "O" /\ OAt(i).task = i /\ OAt(i).count = N(i) - 1
  <1>1. tasks[i] \in Tasks /\ c \in 0..(TotalStackSeqNum(tasks[i]) - 1)
    BY TasksTyped DEF N
  <1>2. {QOp(i), OAt(i), QKAt(tasks[i], i, c), PVAt(tasks[i], i, c)} \subseteq OpsOf(i)
    BY DEF OpsOf
  <1>3. OpsOf(i) \subseteq Ops
    BY DEF Ops
  <1>4. QOp(i).unit = "Q" /\ QOp(i).task = i /\ QOp(i).count = 0
    BY DEF QOp, Op
  <1> QED BY <1>1, <1>2, <1>3, <1>4, OFacts, QKFacts, PVFacts

\* The other instructions of the stack, or of the task, of an instruction.
LEMMA OtherOps ==
    ASSUME tasks \in TaskLists, NEW op \in Ops
    PROVE  /\ QOf(op) \in Ops /\ QOf(op).unit = "Q" /\ QOf(op).task = op.task /\ QOf(op).count = 0
           /\ QKOf(op) \in Ops /\ QKOf(op).unit = "QK" /\ QKOf(op).task = op.task /\ QKOf(op).count = op.count
           /\ PVOf(op) \in Ops /\ PVOf(op).unit = "PV" /\ PVOf(op).task = op.task /\ PVOf(op).count = op.count
           /\ OOf(op) \in Ops /\ OOf(op).unit = "O" /\ OOf(op).task = op.task
           /\ OOf(op).count = N(op.task) - 1
  <1>1. op.task \in 1..Len(tasks) /\ op.count \in 0..(N(op.task) - 1)
    BY OpFields
  <1> QED BY <1>1, OpsAt DEF QOf, QKOf, PVOf, OOf

\* An instruction is known by its unit, its task and its stack.
LEMMA SameOp ==
    ASSUME tasks \in TaskLists, NEW a \in Ops, NEW b \in Ops,
           a.unit = b.unit, a.task = b.task, a.count = b.count
    PROVE  a = b
  <1>1. QOf(a) = QOf(b) /\ QKOf(a) = QKOf(b) /\ PVOf(a) = PVOf(b) /\ OOf(a) = OOf(b)
    BY DEF QOf, QKOf, PVOf, OOf
  <1>2. a.unit \in {"Q", "QK", "PV", "O"}
    BY OpFields
  <1> QED BY <1>1, <1>2, OpFields

\* The places of the instructions within their task.
LEMMA Places ==
    ASSUME tasks \in TaskLists, NEW op \in Ops
    PROVE  /\ Place(op) \in Nat
           /\ op.unit = "Q" => Place(op) = 0
           /\ op.unit = "QK" => Place(op) = 4 * op.count + 1
           /\ op.unit = "PV" => Place(op) = 4 * (op.count + PreLaunch) + 2
           /\ op.unit = "O" => Place(op) = 4 * (op.count + PreLaunch) + 3
  <1>1. op.count \in Nat /\ PreLaunch \in Nat /\ op.unit \in {"Q", "QK", "PV", "O"}
    BY OpFields, Sizes
  <1>2. /\ op.unit = "Q" => Place(op) = 0
        /\ op.unit = "QK" => Place(op) = 4 * op.count + 1
        /\ op.unit = "PV" => Place(op) = 4 * (op.count + PreLaunch) + 2
        /\ op.unit = "O" => Place(op) = 4 * (op.count + PreLaunch) + 3
    BY <1>1 DEF Place
  <1> QED BY <1>1, <1>2

\* The order of the loops is total.
LEMMA TotalOrder ==
    ASSUME tasks \in TaskLists, NEW a \in Ops, NEW b \in Ops
    PROVE  /\ a = b \/ Before(a, b) \/ Before(b, a)
           /\ ~Before(a, a)
           /\ Before(a, b) => ~Before(b, a)
           /\ \A c \in Ops : Before(a, b) /\ Before(b, c) => Before(a, c)
  <1>1. /\ a.unit \in {"Q", "QK", "PV", "O"} /\ a.task \in Int /\ a.count \in Nat /\ Place(a) \in Nat
        /\ b.unit \in {"Q", "QK", "PV", "O"} /\ b.task \in Int /\ b.count \in Nat /\ Place(b) \in Nat
        /\ \A c \in Ops : c.task \in Int /\ Place(c) \in Nat
    BY OpFields, Places
  <1>2. ASSUME a.task = b.task, Place(a) = Place(b) PROVE a = b
    <2>1. a.unit = "Q" => a.count = 0
      BY OpFields
    <2>2. b.unit = "Q" => b.count = 0
      BY OpFields
    <2>3. a.unit = b.unit /\ a.count = b.count
      BY <1>1, <1>2, <2>1, <2>2, Places, Sizes
    <2> QED BY <1>2, <2>3, SameOp
  <1>3. a = b \/ Before(a, b) \/ Before(b, a)
    BY <1>1, <1>2 DEF Before
  <1>4. ~Before(a, a) /\ (Before(a, b) => ~Before(b, a))
    BY <1>1 DEF Before
  <1>5. \A c \in Ops : Before(a, b) /\ Before(b, c) => Before(a, c)
    BY <1>1 DEF Before
  <1> QED BY <1>3, <1>4, <1>5
-----------------------------------------------------------------------------
(* Queues. *)

\* What has been taken from a queue comes before what is in it.
LEMMA QueueFacts ==
    ASSUME NEW q, NEW given, InOrder(q, given)
    PROVE  /\ Pending(q) \subseteq given
           /\ \A a \in Done(q, given) : \A b \in Pending(q) : Before(a, b)
           /\ \A a \in given : a \in Done(q, given) <=> a \notin Pending(q)
           /\ Done(q, given) \subseteq given
           /\ q = <<>> => Done(q, given) = given
  BY DEF InOrder, Done, Pending

\* An instruction behind all others is given to a queue.
LEMMA Push ==
    ASSUME NEW q, NEW given, InOrder(q, given), NEW op, op \notin given,
           \A a \in given : Before(a, op)
    PROVE  /\ InOrder(Append(q, op), given \cup {op})
           /\ Done(Append(q, op), given \cup {op}) = Done(q, given)
  <1> DEFINE r == Append(q, op)  all == given \cup {op}
  <1>1. q \in Seq(given) /\ Len(q) \in Nat
    BY DEF InOrder
  <1>2. r \in Seq(all) /\ Len(r) = Len(q) + 1 /\ r[Len(q) + 1] = op /\ \A k \in 1..Len(q) : r[k] = q[k]
    BY <1>1
  <1>3. \A k \in 1..Len(q) : q[k] \in given
    BY <1>1
  <1>4. Pending(r) = Pending(q) \cup {op}
    <2>1. 1..Len(r) = 1..Len(q) \cup {Len(q) + 1}
      BY <1>1, <1>2
    <2> HIDE DEF r
    <2> QED BY <1>2, <2>1 DEF Pending
  <1>5. Done(r, all) = Done(q, given)
    <2> HIDE DEF r
    <2> QED BY <1>4 DEF Done
  <1>6. \A j, k \in 1..Len(r) : j < k => Before(r[j], r[k])
    <2> HIDE DEF r
    <2> QED BY <1>1, <1>2, <1>3 DEF InOrder
  <1>7. \A a \in Done(r, all) : \A k \in 1..Len(r) : Before(a, r[k])
    <2> HIDE DEF r
    <2> SUFFICES ASSUME NEW a \in Done(r, all), NEW k \in 1..Len(r) PROVE Before(a, r[k])
      OBVIOUS
    <2>1. a \in given /\ a \in Done(q, given)
      BY <1>5 DEF Done
    <2>2. CASE k \in 1..Len(q)
      BY <1>2, <2>1, <2>2 DEF InOrder
    <2>3. CASE k = Len(q) + 1
      BY <1>2, <2>1, <2>3
    <2> QED BY <1>1, <1>2, <2>2, <2>3
  <1> QED BY <1>2, <1>5, <1>6, <1>7 DEF InOrder

\* The first instruction of a queue is executed.
LEMMA Pop ==
    ASSUME NEW q, NEW given, InOrder(q, given), q # <<>>, \A a \in given : ~Before(a, a)
    PROVE  /\ InOrder(Tail(q), given)
           /\ Head(q) \in given /\ Head(q) \notin Done(q, given)
           /\ Done(Tail(q), given) = Done(q, given) \cup {Head(q)}
           /\ \A a \in Done(q, given) : Before(a, Head(q))
           /\ \A b \in given : b \in Done(q, given) \/ b = Head(q) \/ Before(Head(q), b)
  <1>1. q \in Seq(given) /\ Len(q) \in Nat /\ Len(q) > 0
    BY DEF InOrder
  <1>2. /\ Tail(q) \in Seq(given) /\ Len(Tail(q)) = Len(q) - 1
        /\ \A k \in 1..Len(Tail(q)) : Tail(q)[k] = q[k + 1]
        /\ Head(q) = q[1] /\ q[1] \in given
    BY <1>1
  <1>3. \A j, k \in 1..Len(q) : j < k => Before(q[j], q[k])
    BY DEF InOrder
  <1>4. Pending(q) = Pending(Tail(q)) \cup {Head(q)}
    <2>1. ASSUME NEW k \in 1..Len(q) PROVE q[k] = Head(q) \/ q[k] \in Pending(Tail(q))
      <3>1. CASE k = 1
        BY <1>2, <3>1
      <3>2. CASE k > 1
        <4>1. k - 1 \in 1..Len(Tail(q)) /\ (k - 1) + 1 = k
          BY <1>1, <1>2, <3>2
        <4>2. Tail(q)[k - 1] = q[k]
          BY <1>2, <4>1
        <4> QED BY <4>1, <4>2 DEF Pending
      <3> QED BY <1>1, <3>1, <3>2
    <2>2. ASSUME NEW k \in 1..Len(Tail(q)) PROVE Tail(q)[k] \in Pending(q)
      <3>1. k + 1 \in 1..Len(q)
        BY <1>1, <1>2
      <3> QED BY <1>2, <3>1 DEF Pending
    <2>3. Head(q) \in Pending(q)
      BY <1>1, <1>2 DEF Pending
    <2> QED BY <2>1, <2>2, <2>3 DEF Pending
  <1>5. \A b \in Pending(Tail(q)) : Before(Head(q), b)
    <2>1. ASSUME NEW k \in 1..Len(Tail(q)) PROVE Before(Head(q), Tail(q)[k])
      <3>1. k + 1 \in 1..Len(q) /\ 1 \in 1..Len(q) /\ 1 < k + 1
        BY <1>1, <1>2
      <3> QED BY <1>2, <1>3, <3>1
    <2> QED BY <2>1 DEF Pending
  <1>6. Head(q) \notin Pending(Tail(q))
    BY <1>2, <1>5
  <1>7. Done(Tail(q), given) = Done(q, given) \cup {Head(q)}
    BY <1>2, <1>4, <1>6 DEF Done
  <1>8. \A a \in Done(q, given) : Before(a, Head(q))
    BY <1>1, <1>2 DEF InOrder
  <1>9. \A j, k \in 1..Len(Tail(q)) : j < k => Before(Tail(q)[j], Tail(q)[k])
    <2> TAKE j, k \in 1..Len(Tail(q))
    <2>1. j + 1 \in 1..Len(q) /\ k + 1 \in 1..Len(q) /\ (j < k => j + 1 < k + 1)
      BY <1>1, <1>2
    <2> QED BY <1>2, <1>3, <2>1
  <1>10. \A a \in Done(Tail(q), given) : \A k \in 1..Len(Tail(q)) : Before(a, Tail(q)[k])
    <2> SUFFICES ASSUME NEW a \in Done(Tail(q), given), NEW k \in 1..Len(Tail(q))
                 PROVE  Before(a, Tail(q)[k])
      OBVIOUS
    <2>1. Tail(q)[k] \in Pending(Tail(q))
      BY DEF Pending
    <2>2. CASE a = Head(q)
      BY <1>5, <2>1, <2>2
    <2>3. CASE a \in Done(q, given)
      <3>1. k + 1 \in 1..Len(q)
        BY <1>1, <1>2
      <3> QED BY <1>2, <2>3, <3>1 DEF InOrder
    <2> QED BY <1>7, <2>2, <2>3
  <1>11. Head(q) \notin Done(q, given)
    BY <1>4 DEF Done
  <1>12. \A b \in given : b \in Done(q, given) \/ b = Head(q) \/ Before(Head(q), b)
    BY <1>4, <1>5 DEF Done
  <1> QED BY <1>2, <1>7, <1>8, <1>9, <1>10, <1>11, <1>12 DEF InOrder

-----------------------------------------------------------------------------
(* Positions: what is behind a unit is a prefix of what the loops          *)
(* give it.                                                                *)

\* The units, and what each is given in the loops.
Units == {AIC} \cup AIV
OpsOfUnit(u) == {op \in Ops : op.unit = "Q" => u = AIC}

\* The halves due in turn c.
LEMMA TurnFields ==
    ASSUME tasks \in TaskLists, NEW i \in 1..Len(tasks), NEW c \in 0..LastTurn(tasks[i])
    PROVE  /\ c \in Nat /\ LastTurn(tasks[i]) = N(i) + PreLaunch - 1
           /\ TurnAt(tasks[i], c).count = c
           /\ TurnAt(tasks[i], c).loop # "over"
           /\ QKDue(tasks[i], TurnAt(tasks[i], c)) <=> c < N(i)
           /\ PVDue(tasks[i], TurnAt(tasks[i], c)) <=> c >= PreLaunch
  <1>1. tasks[i] \in Tasks /\ N(i) \in Nat /\ N(i) = TotalStackSeqNum(tasks[i])
    BY TasksTyped DEF N
  <1>2. QKDue(tasks[i], TurnAt(tasks[i], c)) <=> c < N(i)
    BY <1>1, DueAt
  <1>3. PVDue(tasks[i], TurnAt(tasks[i], c)) <=> c >= PreLaunch
    BY <1>1, DueAt
  <1>4. TurnAt(tasks[i], c).count = c /\ TurnAt(tasks[i], c).loop # "over"
    BY DEF TurnAt
  <1> QED BY <1>1, <1>2, <1>3, <1>4, Sizes DEF LastTurn

\* The instructions of a task lie in its turns.
LEMMA PlacesInTurns ==
    ASSUME tasks \in TaskLists, NEW op \in Ops, NEW c \in Nat
    PROVE  /\ Place(op) < 4 * c + 1 => op.unit = "Q" \/ Place(op) < 4 * c
           /\ op.unit = "QK" => Place(op) < 4 * N(op.task)
           /\ op.unit # "Q" => Place(op) > 0
           /\ Place(op) <= 4 * (N(op.task) + PreLaunch - 1) + 3
           /\ Place(op) = 4 * c + 1 => op.unit = "QK" /\ op.count = c
           /\ Place(op) = 4 * c + 2 => op.unit = "PV" /\ op.count + PreLaunch = c
           /\ Place(op) = 4 * c + 3 => op.unit = "O" /\ c = N(op.task) + PreLaunch - 1
           /\ op.unit \in {"PV", "O"} => Place(op) >= 4 * PreLaunch + 2
  <1>1. /\ op.unit \in {"Q", "QK", "PV", "O"} /\ N(op.task) \in Nat /\ op.count \in 0..(N(op.task) - 1)
        /\ op.unit = "Q" => op.count = 0
        /\ op.unit = "O" => op.count = N(op.task) - 1
    BY OpFields
  <1>2. PreLaunch \in Nat /\ PreLaunch > 0
    BY Sizes
  <1> QED BY <1>1, <1>2, Places

\* At the start of a task everything before it is behind the unit, and nothing
\* else.
LEMMA AtTaskFacts ==
    ASSUME tasks \in TaskLists, NEW u \in Units, NEW i \in 1..(Len(tasks) + 1)
    PROVE  /\ Position(u, AtTask(u, i))
           /\ Behind(u, AtTask(u, i)) = {op \in OpsOfUnit(u) : op.task < i}
  <1>0. Len(tasks) \in Nat
    BY TasksTyped
  <1>1. CASE i > Len(tasks)
    <2>1. AtTask(u, i) = [task |-> Len(tasks) + 1, part |-> "done"] /\ i = Len(tasks) + 1
      BY <1>0, <1>1 DEF AtTask
    <2>2. \A op \in Ops : op.task < i /\ op.task # i
      BY <1>0, <2>1, OpFields
    <2>3. Behind(u, AtTask(u, i)) = {op \in OpsOfUnit(u) : op.task < i}
      BY <2>1, <2>2 DEF Behind, OpsOfUnit
    <2> QED BY <2>1, <2>3 DEF Position
  <1>2. CASE i <= Len(tasks)
    <2>1. i \in 1..Len(tasks) /\ ~(i > Len(tasks))
      BY <1>0, <1>2
    <2>2. tasks[i] \in Tasks /\ N(i) \in Nat /\ N(i) > 0
      BY <2>1, TasksTyped
    <2>3. FirstTurn(tasks[i]) = TurnAt(tasks[i], 0)
      BY <2>2, TurnsFollow
    <2>4. 0 \in 0..LastTurn(tasks[i])
      BY <2>2, Sizes DEF LastTurn, N
    <2>5. QKDue(tasks[i], TurnAt(tasks[i], 0)) /\ TurnAt(tasks[i], 0).count = 0
      BY <2>1, <2>2, <2>4, TurnFields
    <2> DEFINE part == IF u = AIC THEN "Q" ELSE "QK"
    <2>6. AtTurn(i, TurnAt(tasks[i], 0)) = [task |-> i, turn |-> TurnAt(tasks[i], 0), part |-> "QK"]
      BY <2>5 DEF AtTurn
    <2>7. AtTask(u, i) = [task |-> i, turn |-> TurnAt(tasks[i], 0), part |-> part]
      <3>1. AtTask(u, i) = [AtTurn(i, TurnAt(tasks[i], 0)) EXCEPT !.part = IF u = AIC THEN "Q" ELSE @]
        BY <2>1, <2>3 DEF AtTask
      <3> QED BY <2>6, <3>1
    <2>8. InTask(u, AtTask(u, i), i, 0, part)
      BY <2>2, <2>7 DEF InTask
    <2>9. part \in {"Q", "QK", "PV"}
      OBVIOUS
    <2>10. Position(u, AtTask(u, i))
      BY <2>1, <2>4, <2>8, <2>9 DEF Position
    <2>11. ASSUME NEW op \in OpsOfUnit(u)
           PROVE  op.task < AtTask(u, i).task \/ (op.task = AtTask(u, i).task /\ Place(op) < PlaceAt(AtTask(u, i)))
                  <=> op.task < i
      <3>1. op \in Ops /\ (op.unit = "Q" => u = AIC)
        BY DEF OpsOfUnit
      <3>2. op.task \in Int /\ Place(op) \in Nat
        BY <3>1, OpFields, Places
      <3>3. op.unit # "Q" => Place(op) > 0
        BY <3>1, PlacesInTurns
      <3>4. CASE u = AIC
        <4>1. PlaceAt(AtTask(u, i)) = 0 /\ AtTask(u, i).task = i
          BY <2>7, <3>4 DEF PlaceAt
        <4> QED BY <2>1, <3>2, <4>1
      <3>5. CASE u # AIC
        <4>1. PlaceAt(AtTask(u, i)) = 4 * 0 + 1 /\ AtTask(u, i).task = i
          BY <2>5, <2>7, <3>5 DEF PlaceAt
        <4> QED BY <2>1, <3>1, <3>2, <3>3, <3>5, <4>1
      <3> QED BY <3>4, <3>5
    <2>12. Behind(u, AtTask(u, i)) = {op \in OpsOfUnit(u) : op.task < i}
      BY <2>11 DEF Behind, OpsOfUnit
    <2> QED BY <2>10, <2>12
  <1> QED BY <1>0, <1>1, <1>2

\* Where a scalar unit is after a turn.
AfterTurn(u, i, c) ==
    LET turn == NextTurn(tasks[i], TurnAt(tasks[i], c))
    IN  IF turn.loop = "over" THEN AtTask(u, i + 1) ELSE AtTurn(i, turn)

\* After turn c everything up to that turn is behind the unit.
LEMMA AfterTurnFacts ==
    ASSUME tasks \in TaskLists, NEW u \in Units, NEW i \in 1..Len(tasks), NEW c \in 0..LastTurn(tasks[i])
    PROVE  /\ Position(u, AfterTurn(u, i, c))
           /\ Behind(u, AfterTurn(u, i, c)) =
                {op \in OpsOfUnit(u) : op.task < i \/ (op.task = i /\ Place(op) <= 4 * c + 3)}
  <1>1. tasks[i] \in Tasks /\ N(i) \in Nat /\ N(i) > 0 /\ Len(tasks) \in Nat
    BY TasksTyped
  <1>2. c \in Nat /\ LastTurn(tasks[i]) = N(i) + PreLaunch - 1 /\ PreLaunch \in Nat /\ PreLaunch > 0
    BY TurnFields, Sizes
  <1>3. CASE c = LastTurn(tasks[i])
    <2>1. NextTurn(tasks[i], TurnAt(tasks[i], c)).loop = "over"
      BY <1>1, <1>3, TurnsFollow
    <2>2. AfterTurn(u, i, c) = AtTask(u, i + 1) /\ i + 1 \in 1..(Len(tasks) + 1)
      BY <1>1, <2>1 DEF AfterTurn
    <2>3. ASSUME NEW op \in OpsOfUnit(u)
          PROVE  op.task < i + 1 <=> op.task < i \/ (op.task = i /\ Place(op) <= 4 * c + 3)
      <3>1. op \in Ops
        BY DEF OpsOfUnit
      <3>2. op.task \in Int /\ Place(op) \in Nat
        BY <3>1, OpFields, Places
      <3>3. Place(op) <= 4 * (N(op.task) + PreLaunch - 1) + 3
        BY <1>2, <3>1, PlacesInTurns
      <3> QED BY <1>1, <1>2, <1>3, <3>2, <3>3
    <2>4. Position(u, AtTask(u, i + 1)) /\ Behind(u, AtTask(u, i + 1)) = {op \in OpsOfUnit(u) : op.task < i + 1}
      BY <2>2, AtTaskFacts
    <2> QED BY <2>2, <2>3, <2>4
  <1>4. CASE c < LastTurn(tasks[i])
    <2>1. NextTurn(tasks[i], TurnAt(tasks[i], c)) = TurnAt(tasks[i], c + 1) /\ c + 1 \in 0..LastTurn(tasks[i])
      BY <1>1, <1>2, <1>4, TurnsFollow
    <2>2. /\ TurnAt(tasks[i], c + 1).loop # "over" /\ TurnAt(tasks[i], c + 1).count = c + 1
          /\ QKDue(tasks[i], TurnAt(tasks[i], c + 1)) <=> c + 1 < N(i)
      BY <2>1, TurnFields
    <2> DEFINE part == IF c + 1 < N(i) THEN "QK" ELSE "PV"
               pos == AfterTurn(u, i, c)
    <2>3. pos = [task |-> i, turn |-> TurnAt(tasks[i], c + 1), part |-> part]
      BY <2>1, <2>2 DEF AfterTurn, AtTurn
    <2>4. InTask(u, pos, i, c + 1, part)
      BY <2>3 DEF InTask
    <2>5. Position(u, pos)
      BY <2>1, <2>4 DEF Position
    <2>6. pos.task = i /\ PlaceAt(pos) = 4 * (c + 1) + IF c + 1 < N(i) THEN 1 ELSE 2
      BY <2>2, <2>3 DEF PlaceAt
    <2> HIDE DEF pos
    <2>7. ASSUME NEW op \in OpsOfUnit(u)
          PROVE  op.task < pos.task \/ (op.task = pos.task /\ Place(op) < PlaceAt(pos))
                 <=> op.task < i \/ (op.task = i /\ Place(op) <= 4 * c + 3)
      <3>1. op \in Ops
        BY DEF OpsOfUnit
      <3>2. op.task \in Int /\ Place(op) \in Nat /\ N(op.task) \in Nat /\ op.count \in 0..(N(op.task) - 1)
        BY <3>1, OpFields, Places
      <3>3. c + 1 \in Nat
        BY <1>2
      <3>4. /\ Place(op) = 4 * (c + 1) + 1 => op.unit = "QK" /\ op.count = c + 1
            /\ Place(op) < 4 * (c + 1) + 1 => op.unit = "Q" \/ Place(op) < 4 * (c + 1)
        BY <3>1, <3>3, PlacesInTurns
      <3>5. op.unit = "Q" => Place(op) = 0
        BY <3>1, Places
      <3>6. c \in Nat /\ N(i) \in Nat /\ i \in Int
        BY <1>1, <1>2, TasksTyped DEF N
      <3>7. CASE op.task = i
        <4>1. Place(op) = 4 * (c + 1) + 1 => c + 1 < N(i)
          BY <3>2, <3>4, <3>6, <3>7
        <4>2. Place(op) < 4 * (c + 1) + 1 <=> Place(op) <= 4 * c + 3
          BY <3>2, <3>4, <3>5, <3>6
        <4>3. CASE c + 1 < N(i)
          <5>1. PlaceAt(pos) = 4 * (c + 1) + 1
            BY <2>6, <4>3
          <5> QED BY <2>6, <3>7, <4>2, <5>1
        <4>4. CASE ~(c + 1 < N(i))
          <5>1. PlaceAt(pos) = 4 * (c + 1) + 2
            BY <2>6, <4>4
          <5>2. Place(op) < 4 * (c + 1) + 2 <=> Place(op) < 4 * (c + 1) + 1
            BY <3>2, <3>6, <4>1, <4>4
          <5> QED BY <2>6, <3>7, <4>2, <5>1, <5>2
        <4> QED BY <4>3, <4>4
      <3>8. CASE op.task # i
        BY <2>6, <3>2, <3>6, <3>8
      <3> QED BY <3>7, <3>8
    <2>8. Behind(u, pos) = {op \in OpsOfUnit(u) : op.task < i \/ (op.task = i /\ Place(op) <= 4 * c + 3)}
      BY <2>7 DEF Behind, OpsOfUnit
    <2> QED BY <2>5, <2>8 DEF pos
  <1> QED BY <1>1, <1>2, <1>3, <1>4

\* A unit that is not done is in a turn of a task.
LEMMA PositionCases ==
    ASSUME NEW u, AtOK(u), at[u].part # "done"
    PROVE  \E i \in 1..Len(tasks) : \E c \in 0..LastTurn(tasks[i]) : InTask(u, at[u], i, c, at[u].part)
  <1>1. ASSUME NEW i, NEW c, NEW part, InTask(u, at[u], i, c, part)
        PROVE  InTask(u, at[u], i, c, at[u].part)
    <2>1. at[u].part = part
      BY <1>1 DEF InTask
    <2> QED BY <1>1, <2>1
  <1>2. at[u] # [task |-> Len(tasks) + 1, part |-> "done"]
    OBVIOUS
  <1> QED BY <1>1, <1>2 DEF AtOK, Position

\* What is behind a unit in turn c.
LEMMA PassedIn ==
    ASSUME NEW u, NEW i, NEW c, NEW part, InTask(u, at[u], i, c, part)
    PROVE  /\ at[u].task = i /\ at[u].turn = TurnAt(tasks[i], c) /\ at[u].part = part
           /\ Passed(u) = {op \in OpsOfUnit(u) : op.task < i \/ (op.task = i /\ Place(op) < PlaceAt(at[u]))}
           /\ part = "Q" => PlaceAt(at[u]) = 0
           /\ part = "QK" => PlaceAt(at[u]) = 4 * c + 1
           /\ part = "PV" => PlaceAt(at[u]) = 4 * c + 2
  <1>1. at[u].task = i /\ at[u].turn = TurnAt(tasks[i], c) /\ at[u].part = part /\ at[u].turn.count = c
    BY DEF InTask, TurnAt
  <1>2. /\ part = "Q" => PlaceAt(at[u]) = 0
        /\ part = "QK" => PlaceAt(at[u]) = 4 * c + 1
        /\ part = "PV" => PlaceAt(at[u]) = 4 * c + 2
    BY <1>1 DEF PlaceAt
  <1>3. Passed(u) = {op \in OpsOfUnit(u) : op.task < i \/ (op.task = i /\ Place(op) < PlaceAt(at[u]))}
    BY <1>1 DEF Passed, Behind, OpsOfUnit
  <1> QED BY <1>1, <1>2, <1>3

\* What a scalar unit issues, and what it then has behind it.
Issuing(u, op, more) ==
    /\ op \in Ops /\ op \notin Passed(u)
    /\ \A a \in Passed(u) : Before(a, op)
    /\ Behind(u, Onward(u)) = Passed(u) \cup {op} \cup more
    /\ Position(u, Onward(u))

\* Issuing the load of Q.
LEMMA OnwardQ ==
    ASSUME tasks \in TaskLists, NEW u \in Units, AtOK(u), Issues(u, "Q")
    PROVE  Issuing(u, OpOf(u), {}) /\ OpOf(u).unit = "Q" /\ u = AIC
  <1>0. PICK i \in 1..Len(tasks) : \E c \in 0..LastTurn(tasks[i]) : InTask(u, at[u], i, c, "Q")
    BY PositionCases DEF Issues
  <1>1. PICK c \in 0..LastTurn(tasks[i]) : InTask(u, at[u], i, c, "Q")
    BY <1>0
  <1>2. at[u].task = i /\ at[u].turn = TurnAt(tasks[i], c) /\ at[u].part = "Q"
        /\ Passed(u) = {op \in OpsOfUnit(u) : op.task < i \/ (op.task = i /\ Place(op) < 0)}
    <2>1. /\ at[u].task = i /\ at[u].turn = TurnAt(tasks[i], c) /\ at[u].part = "Q"
          /\ PlaceAt(at[u]) = 0
      BY <1>1, PassedIn
    <2>2. Passed(u) = {op \in OpsOfUnit(u) : op.task < i \/ (op.task = i /\ Place(op) < PlaceAt(at[u]))}
      BY <1>1, PassedIn
    <2> QED BY <2>1, <2>2
  <1>3. u = AIC /\ c = 0
    BY <1>1 DEF InTask
  <1>4. tasks[i] \in Tasks /\ N(i) \in Nat /\ N(i) > 0 /\ 0 \in 0..(N(i) - 1)
    BY TasksTyped
  <1> DEFINE op == QOp(i)  new == AtTurn(i, TurnAt(tasks[i], 0))
  <1>5. OpOf(u) = op /\ Onward(u) = new
    BY <1>2, <1>3 DEF OpOf, Onward
  <1>6. op \in Ops /\ op.unit = "Q" /\ op.task = i /\ op.count = 0
    BY <1>4, OpsAt
  <1> HIDE DEF op
  <1>7. TurnAt(tasks[i], 0).count = 0 /\ QKDue(tasks[i], TurnAt(tasks[i], 0))
    <2>1. 0 \in 0..LastTurn(tasks[i])
      BY <1>1, <1>3
    <2> QED BY <1>4, <2>1, TurnFields
  <1>8. new = [task |-> i, turn |-> TurnAt(tasks[i], 0), part |-> "QK"]
    BY <1>7 DEF AtTurn
  <1>9. Position(u, new)
    <2>1. InTask(u, new, i, 0, "QK")
      BY <1>4, <1>8 DEF InTask
    <2> QED BY <1>1, <1>3, <2>1 DEF Position
  <1>10. new.task = i /\ PlaceAt(new) = 1
    BY <1>7, <1>8 DEF PlaceAt
  <1> HIDE DEF new
  <1>11. ASSUME NEW a \in Ops
         PROVE  (a.task < i \/ (a.task = i /\ Place(a) < 1)) <=> (a.task < i \/ (a.task = i /\ Place(a) < 0) \/ a = op)
    <2>1. a.task \in Int /\ Place(a) \in Nat /\ (a.unit # "Q" => Place(a) > 0) /\ (a.unit = "Q" => a.count = 0)
      BY OpFields, Places, PlacesInTurns
    <2>2. a.unit = "Q" /\ a.task = i => a = op
      BY <1>6, <2>1, SameOp
    <2>3. Place(op) = 0
      BY <1>6, Places
    <2> QED BY <1>6, <2>1, <2>2, <2>3
  <1>12. Behind(u, new) = Passed(u) \cup {op} \cup {}
    BY <1>2, <1>3, <1>6, <1>10, <1>11 DEF Behind, OpsOfUnit
  <1>13. op \notin Passed(u) /\ \A a \in Passed(u) : Before(a, op)
    <2>1. Place(op) = 0
      BY <1>6, Places
    <2>2. \A a \in Ops : a.task \in Int /\ Place(a) \in Nat
      BY OpFields, Places
    <2> QED BY <1>2, <1>6, <2>1, <2>2 DEF Before, OpsOfUnit
  <1> QED BY <1>3, <1>5, <1>6, <1>9, <1>12, <1>13 DEF Issuing

\* Issuing a first half.
LEMMA OnwardQK ==
    ASSUME tasks \in TaskLists, NEW u \in Units, AtOK(u), Issues(u, "QK")
    PROVE  Issuing(u, OpOf(u), {}) /\ OpOf(u).unit = "QK"
  <1>0. PICK i \in 1..Len(tasks) : \E c \in 0..LastTurn(tasks[i]) : InTask(u, at[u], i, c, "QK")
    BY PositionCases DEF Issues
  <1>1. PICK c \in 0..LastTurn(tasks[i]) : InTask(u, at[u], i, c, "QK")
    BY <1>0
  <1>2. at[u].task = i /\ at[u].turn = TurnAt(tasks[i], c) /\ at[u].part = "QK"
        /\ Passed(u) = {op \in OpsOfUnit(u) : op.task < i \/ (op.task = i /\ Place(op) < 4 * c + 1)}
    <2>1. /\ at[u].task = i /\ at[u].turn = TurnAt(tasks[i], c) /\ at[u].part = "QK"
          /\ PlaceAt(at[u]) = 4 * c + 1
      BY <1>1, PassedIn
    <2>2. Passed(u) = {op \in OpsOfUnit(u) : op.task < i \/ (op.task = i /\ Place(op) < PlaceAt(at[u]))}
      BY <1>1, PassedIn
    <2> QED BY <2>1, <2>2
  <1>3. tasks[i] \in Tasks /\ N(i) \in Nat /\ N(i) > 0
    BY TasksTyped
  <1>4. c \in Nat /\ c < N(i) /\ c \in 0..(N(i) - 1) /\ PreLaunch \in Nat /\ PreLaunch > 0
    BY <1>1, <1>3, TurnFields, Sizes DEF InTask
  <1>5. PVDue(tasks[i], TurnAt(tasks[i], c)) <=> c >= PreLaunch
    BY TurnFields
  <1> DEFINE op == QKAt(tasks[i], i, c)
  <1>6. OpOf(u) = op
    BY <1>2 DEF OpOf, TaskOf, QKAt
  <1>7. op \in Ops /\ op.unit = "QK" /\ op.task = i /\ op.count = c
    BY <1>4, OpsAt
  <1> HIDE DEF op
  <1>8. Place(op) = 4 * c + 1
    BY <1>7, Places
  <1>9. \A a \in Ops : a.task \in Int /\ Place(a) \in Nat
    BY OpFields, Places
  <1>10. op \notin Passed(u) /\ \A a \in Passed(u) : Before(a, op)
    BY <1>2, <1>4, <1>7, <1>8, <1>9 DEF Before, OpsOfUnit
  <1>11. op \in OpsOfUnit(u)
    BY <1>7 DEF OpsOfUnit
  <1>12. ASSUME NEW a \in Ops, a.task = i, Place(a) = 4 * c + 1 PROVE a = op
    <2>1. a.unit = "QK" /\ a.count = c
      BY <1>4, <1>12, PlacesInTurns
    <2> QED BY <1>7, <1>12, <2>1, SameOp
  <1>13. Position(u, Onward(u)) /\ Behind(u, Onward(u)) = Passed(u) \cup {op}
    <2>1. CASE c >= PreLaunch
      <3> DEFINE new == [task |-> i, turn |-> TurnAt(tasks[i], c), part |-> "PV"]
      <3>1. at[u] = [task |-> i, turn |-> TurnAt(tasks[i], c), part |-> "QK"]
        BY <1>1 DEF InTask
      <3>2. Onward(u) = new
        BY <1>2, <1>5, <2>1, <3>1 DEF Onward, TaskOf
      <3>3. InTask(u, new, i, c, "PV")
        BY DEF InTask
      <3>4. Position(u, new)
        BY <3>3 DEF Position
      <3>5. new.task = i /\ PlaceAt(new) = 4 * c + 2
        BY DEF PlaceAt, TurnAt
      <3> HIDE DEF new
      <3>6. ASSUME NEW a \in OpsOfUnit(u)
            PROVE  (a.task < new.task \/ (a.task = new.task /\ Place(a) < PlaceAt(new)))
                   <=> (a.task < i \/ (a.task = i /\ Place(a) < 4 * c + 1) \/ a = op)
        <4>1. a \in Ops
          BY DEF OpsOfUnit
        <4> QED BY <1>4, <1>7, <1>8, <1>9, <1>12, <3>5, <4>1
      <3>7. Behind(u, new) = Passed(u) \cup {op}
        BY <1>2, <1>11, <3>6 DEF Behind, OpsOfUnit
      <3> QED BY <3>2, <3>4, <3>7
    <2>2. CASE c < PreLaunch
      <3>1. Onward(u) = AfterTurn(u, i, c)
        <4>1. ~PVDue(TaskOf(u), at[u].turn) /\ TaskOf(u) = tasks[i]
          BY <1>2, <1>4, <1>5, <2>2 DEF TaskOf
        <4> QED BY <1>2, <4>1 DEF Onward, AfterTurn
      <3>2. /\ Position(u, AfterTurn(u, i, c))
            /\ Behind(u, AfterTurn(u, i, c)) =
                {a \in OpsOfUnit(u) : a.task < i \/ (a.task = i /\ Place(a) <= 4 * c + 3)}
        BY AfterTurnFacts
      <3>3. ASSUME NEW a \in OpsOfUnit(u)
            PROVE  (a.task < i \/ (a.task = i /\ Place(a) <= 4 * c + 3))
                   <=> (a.task < i \/ (a.task = i /\ Place(a) < 4 * c + 1) \/ a = op)
        <4>1. a \in Ops
          BY DEF OpsOfUnit
        <4>2. /\ a.task = i /\ Place(a) = 4 * c + 2 => FALSE
              /\ a.task = i /\ Place(a) = 4 * c + 3 => FALSE
          <5>1. a.unit \in {"PV", "O"} => Place(a) >= 4 * PreLaunch + 2
            BY <4>1, PlacesInTurns
          <5>2. Place(a) = 4 * c + 2 => a.unit = "PV"
            BY <1>4, <4>1, PlacesInTurns
          <5>3. Place(a) = 4 * c + 3 => a.unit = "O"
            BY <1>4, <4>1, PlacesInTurns
          <5> QED BY <1>4, <1>9, <2>2, <4>1, <5>1, <5>2, <5>3
        <4> QED BY <1>4, <1>7, <1>8, <1>9, <1>12, <4>1, <4>2
      <3>4. Behind(u, AfterTurn(u, i, c)) = Passed(u) \cup {op}
        BY <1>2, <1>11, <3>2, <3>3
      <3> QED BY <3>1, <3>2, <3>4
    <2> QED BY <1>4, <2>1, <2>2
  <1> QED BY <1>6, <1>7, <1>10, <1>13 DEF Issuing

\* The second half of a turn, due or not.
LEMMA OnwardPV ==
    ASSUME tasks \in TaskLists, NEW u \in Units, AtOK(u), at[u].part = "PV"
    PROVE  /\ PVDue(TaskOf(u), at[u].turn) =>
                /\ Issuing(u, OpOf(u), IF OpOf(u).last THEN {OOf(OpOf(u))} ELSE {})
                /\ OpOf(u).unit = "PV"
           /\ ~PVDue(TaskOf(u), at[u].turn) => Position(u, Onward(u)) /\ Behind(u, Onward(u)) = Passed(u)
  <1>0. PICK i \in 1..Len(tasks) : \E c \in 0..LastTurn(tasks[i]) : InTask(u, at[u], i, c, "PV")
    BY PositionCases DEF Issues
  <1>1. PICK c \in 0..LastTurn(tasks[i]) : InTask(u, at[u], i, c, "PV")
    BY <1>0
  <1>2. at[u].task = i /\ at[u].turn = TurnAt(tasks[i], c) /\ at[u].part = "PV"
        /\ Passed(u) = {op \in OpsOfUnit(u) : op.task < i \/ (op.task = i /\ Place(op) < 4 * c + 2)}
    <2>1. /\ at[u].task = i /\ at[u].turn = TurnAt(tasks[i], c) /\ at[u].part = "PV"
          /\ PlaceAt(at[u]) = 4 * c + 2
      BY <1>1, PassedIn
    <2>2. Passed(u) = {op \in OpsOfUnit(u) : op.task < i \/ (op.task = i /\ Place(op) < PlaceAt(at[u]))}
      BY <1>1, PassedIn
    <2> QED BY <2>1, <2>2
  <1>3. tasks[i] \in Tasks /\ N(i) \in Nat /\ N(i) > 0
    BY TasksTyped
  <1>4. c \in Nat /\ c <= N(i) + PreLaunch - 1 /\ PreLaunch \in Nat /\ PreLaunch > 0
        /\ (PVDue(tasks[i], TurnAt(tasks[i], c)) <=> c >= PreLaunch)
    BY TurnFields, Sizes
  <1>5. TaskOf(u) = tasks[i] /\ Onward(u) = AfterTurn(u, i, c)
    BY <1>2 DEF TaskOf, Onward, AfterTurn
  <1>6. /\ Position(u, AfterTurn(u, i, c))
        /\ Behind(u, AfterTurn(u, i, c)) =
            {a \in OpsOfUnit(u) : a.task < i \/ (a.task = i /\ Place(a) <= 4 * c + 3)}
    BY AfterTurnFacts
  <1>7. \A a \in Ops : a.task \in Int /\ Place(a) \in Nat
    BY OpFields, Places
  <1>8. CASE c < PreLaunch
    <2>1. ASSUME NEW a \in OpsOfUnit(u)
          PROVE  (a.task < i \/ (a.task = i /\ Place(a) <= 4 * c + 3))
                 <=> (a.task < i \/ (a.task = i /\ Place(a) < 4 * c + 2))
      <3>1. a \in Ops
        BY DEF OpsOfUnit
      <3>2. a.unit \in {"PV", "O"} => Place(a) >= 4 * PreLaunch + 2
        BY <3>1, PlacesInTurns
      <3>3. Place(a) = 4 * c + 2 => a.unit = "PV"
        BY <1>4, <3>1, PlacesInTurns
      <3>4. Place(a) = 4 * c + 3 => a.unit = "O"
        BY <1>4, <3>1, PlacesInTurns
      <3>5. Place(a) \in Nat /\ c \in Nat /\ PreLaunch \in Nat /\ c < PreLaunch
        BY <1>4, <1>7, <1>8, <3>1
      <3>6. Place(a) # 4 * c + 2 /\ Place(a) # 4 * c + 3
        <4>1. ~(4 * c + 2 >= 4 * PreLaunch + 2) /\ ~(4 * c + 3 >= 4 * PreLaunch + 2)
          BY <3>5
        <4> QED BY <3>2, <3>3, <3>4, <4>1
      <3>7. Place(a) <= 4 * c + 3 <=> Place(a) < 4 * c + 2
        BY <3>5, <3>6
      <3> QED BY <3>7
    <2>2. Behind(u, AfterTurn(u, i, c)) = Passed(u)
      BY <1>2, <1>6, <2>1
    <2> QED BY <1>2, <1>4, <1>5, <1>6, <1>8, <2>2
  <1>9. CASE c >= PreLaunch
    <2> DEFINE op == PVAt(tasks[i], i, c - PreLaunch)
    <2>1. c - PreLaunch \in 0..(N(i) - 1) /\ c - PreLaunch + PreLaunch = c
      BY <1>3, <1>4, <1>9
    <2>2. OpOf(u) = op
      BY <1>2, <1>5, <2>1 DEF OpOf, PVAt
    <2>3. op \in Ops /\ op.unit = "PV" /\ op.task = i /\ op.count = c - PreLaunch
      BY <2>1, OpsAt
    <2> HIDE DEF op
    <2>4. op.last <=> c - PreLaunch = N(i) - 1
      BY <2>3, OpFields
    <2>5. Place(op) = 4 * c + 2
      <3>1. Place(op) = 4 * (c - PreLaunch + PreLaunch) + 2
        BY <2>3, Places
      <3> QED BY <2>1, <3>1
    <2>6. op \notin Passed(u) /\ \A a \in Passed(u) : Before(a, op)
      BY <1>2, <1>4, <1>7, <2>3, <2>5 DEF Before, OpsOfUnit
    <2>7. \A a \in Ops : a.task = i /\ Place(a) = 4 * c + 2 => a = op
      <3> SUFFICES ASSUME NEW a \in Ops, a.task = i, Place(a) = 4 * c + 2 PROVE a = op
        OBVIOUS
      <3>1. a.unit = "PV" /\ a.count + PreLaunch = c
        BY <1>4, PlacesInTurns
      <3>2. a.count \in 0..(N(i) - 1)
        BY OpFields
      <3>3. a.count = op.count
        BY <1>3, <1>4, <2>3, <3>1, <3>2
      <3> QED BY <2>3, <3>1, <3>3, SameOp
    <2>8. OOf(op) \in Ops /\ OOf(op).unit = "O" /\ OOf(op).task = i /\ OOf(op).count = N(i) - 1
      BY <2>3, OtherOps
    <2>9. Place(OOf(op)) = 4 * (N(i) - 1 + PreLaunch) + 3
      BY <2>8, Places
    <2>10. \A a \in Ops : a.task = i /\ Place(a) = 4 * c + 3 => op.last /\ a = OOf(op)
      <3> SUFFICES ASSUME NEW a \in Ops, a.task = i, Place(a) = 4 * c + 3 PROVE op.last /\ a = OOf(op)
        OBVIOUS
      <3>1. a.unit = "O" /\ c = N(i) + PreLaunch - 1
        BY <1>4, PlacesInTurns
      <3>2. a = OOf(a)
        BY <3>1, OpFields
      <3>3. OOf(a) = OOf(op)
        BY <2>3 DEF OOf
      <3> QED BY <1>3, <1>4, <2>4, <3>1, <3>2, <3>3
    <2> DEFINE more == IF op.last THEN {OOf(op)} ELSE {}
    <2>11. more \subseteq OpsOfUnit(u) /\ op \in OpsOfUnit(u)
      BY <2>3, <2>8 DEF OpsOfUnit
    <2>12. ASSUME NEW a \in OpsOfUnit(u)
           PROVE  (a.task < i \/ (a.task = i /\ Place(a) <= 4 * c + 3))
                  <=> (a.task < i \/ (a.task = i /\ Place(a) < 4 * c + 2) \/ a = op \/ a \in more)
      <3>1. a \in Ops
        BY DEF OpsOfUnit
      <3>2. a \in more => a.task = i /\ Place(a) = 4 * c + 3
        BY <1>3, <1>4, <2>4, <2>8, <2>9
      <3>3. a.task = i /\ Place(a) = 4 * c + 3 => a \in more
        BY <2>10, <3>1
      <3> HIDE DEF more
      <3>4. a.task = i /\ Place(a) = 4 * c + 2 => a = op
        BY <2>7, <3>1
      <3> QED BY <1>4, <1>7, <2>3, <2>5, <3>1, <3>2, <3>3, <3>4
    <2>13. Behind(u, AfterTurn(u, i, c)) = Passed(u) \cup {op} \cup more
      <3> HIDE DEF more
      <3> QED BY <1>2, <1>6, <2>11, <2>12
    <2>14. Issuing(u, op, more)
      <3> HIDE DEF more
      <3> QED BY <1>5, <1>6, <2>3, <2>6, <2>13 DEF Issuing
    <2> QED BY <1>2, <1>4, <1>5, <1>9, <2>2, <2>3, <2>14
  <1> QED BY <1>4, <1>8, <1>9

-----------------------------------------------------------------------------
(* Between the halves of a stack there are PreLaunch turns: the stacks     *)
(* in that window do not share a slot.                                     *)

\* The place of a position lies in a turn.
LEMMA PositionPlaces ==
    ASSUME tasks \in TaskLists, NEW u \in Units, NEW pos, Position(u, pos)
    PROVE  /\ pos.task \in 1..(Len(tasks) + 1)
           /\ pos.task \in 1..Len(tasks) =>
                /\ PlaceAt(pos) \in Nat
                /\ \E c \in Nat : PlaceAt(pos) >= 4 * c /\ PlaceAt(pos) <= 4 * c + 2
  <1>0. Len(tasks) \in Nat
    BY TasksTyped
  <1>1. CASE pos = [task |-> Len(tasks) + 1, part |-> "done"]
    BY <1>0, <1>1
  <1>2. CASE pos # [task |-> Len(tasks) + 1, part |-> "done"]
    <2>1. PICK i \in 1..Len(tasks), part \in {"Q", "QK", "PV"} :
            \E c \in 0..LastTurn(tasks[i]) : InTask(u, pos, i, c, part)
      BY <1>2 DEF Position
    <2>2. PICK c \in 0..LastTurn(tasks[i]) : InTask(u, pos, i, c, part)
      BY <2>1
    <2>3. c \in Nat /\ (part = "Q" => c = 0)
      BY <2>2, TurnFields DEF InTask
    <2>4. /\ pos.task = i
          /\ part = "Q" => PlaceAt(pos) = 0
          /\ part = "QK" => PlaceAt(pos) = 4 * c + 1
          /\ part = "PV" => PlaceAt(pos) = 4 * c + 2
      <3>1. pos = [task |-> i, turn |-> TurnAt(tasks[i], c), part |-> part]
        BY <2>2 DEF InTask
      <3>2. TurnAt(tasks[i], c).count = c
        BY <1>0, TurnFields
      <3>3. pos.task = i /\ pos.turn.count = c /\ pos.part = part
        BY <3>1, <3>2
      <3> QED BY <3>3 DEF PlaceAt
    <2>5. PlaceAt(pos) \in Nat /\ PlaceAt(pos) >= 4 * c /\ PlaceAt(pos) <= 4 * c + 2
      <3>1. CASE part = "Q"
        BY <2>3, <2>4, <3>1
      <3>2. CASE part = "QK"
        BY <2>3, <2>4, <3>2
      <3>3. CASE part = "PV"
        BY <2>3, <2>4, <3>3
      <3> QED BY <2>1, <3>1, <3>2, <3>3
    <2> QED BY <1>0, <2>3, <2>4, <2>5
  <1> QED BY <1>1, <1>2

\* The same for the position of a unit.
LEMMA AtPlaces ==
    ASSUME tasks \in TaskLists, NEW u \in Units, AtOK(u)
    PROVE  /\ at[u].task \in 1..(Len(tasks) + 1)
           /\ at[u].task \in 1..Len(tasks) =>
                /\ PlaceAt(at[u]) \in Nat
                /\ \E c \in Nat : PlaceAt(at[u]) >= 4 * c /\ PlaceAt(at[u]) <= 4 * c + 2
  BY PositionPlaces DEF AtOK

\* What a scalar unit has behind it, it has passed in order.
LEMMA BehindPrefix ==
    ASSUME tasks \in TaskLists, NEW u \in Units, NEW pos, Position(u, pos),
           NEW a \in Behind(u, pos), NEW b \in Ops, Before(b, a), b.unit # "Q" \/ u = AIC
    PROVE  b \in Behind(u, pos)
  <1>1. /\ a \in Ops
        /\ a.task < pos.task \/ (a.task = pos.task /\ Place(a) < PlaceAt(pos))
    BY DEF Behind
  <1>2. a.task \in 1..Len(tasks) /\ b.task \in 1..Len(tasks) /\ Place(a) \in Nat /\ Place(b) \in Nat
    BY <1>1, OpFields, Places
  <1>3. pos.task \in Int /\ (a.task = pos.task => PlaceAt(pos) \in Nat)
    BY <1>2, PositionPlaces
  <1>4. b.task < pos.task \/ (b.task = pos.task /\ Place(b) < PlaceAt(pos))
    BY <1>1, <1>2, <1>3 DEF Before
  <1> QED BY <1>4 DEF Behind

\* The same for what it has passed.
LEMMA PassedPrefix ==
    ASSUME tasks \in TaskLists, NEW u \in Units, AtOK(u),
           NEW a \in Passed(u), NEW b \in Ops, Before(b, a), b.unit # "Q" \/ u = AIC
    PROVE  b \in Passed(u)
  BY BehindPrefix DEF AtOK, Passed

\* Stacks of which the first half is behind a scalar unit and the second is not.
Window(u) == {a \in QKs : a \in Passed(u) /\ PVOf(a) \notin Passed(u)}

\* A stack between its halves belongs to the task at hand, and its turn is at
\* most PreLaunch turns ago.
LEMMA InWindow ==
    ASSUME tasks \in TaskLists, NEW u \in Units, AtOK(u), NEW a \in Window(u)
    PROVE  /\ a \in Ops /\ a.task = at[u].task /\ a.count \in Nat
           /\ 4 * a.count + 1 < PlaceAt(at[u]) /\ PlaceAt(at[u]) <= 4 * (a.count + PreLaunch) + 2
           /\ PlaceAt(at[u]) \in Nat
  <1>1. a \in Ops /\ a.unit = "QK" /\ a \in Passed(u) /\ PVOf(a) \notin Passed(u)
    BY DEF Window, QKs
  <1>2. a.task \in 1..Len(tasks) /\ a.count \in Nat /\ Place(a) = 4 * a.count + 1
    BY <1>1, OpFields, Places
  <1>3. PVOf(a) \in Ops /\ PVOf(a).unit = "PV" /\ PVOf(a).task = a.task /\ PVOf(a).count = a.count
    BY <1>1, OtherOps
  <1>4. Place(PVOf(a)) = 4 * (a.count + PreLaunch) + 2
    BY <1>3, Places
  <1>5. a.task < at[u].task \/ (a.task = at[u].task /\ Place(a) < PlaceAt(at[u]))
    BY <1>1 DEF Passed, Behind
  <1>6. ~(a.task < at[u].task \/ (a.task = at[u].task /\ Place(PVOf(a)) < PlaceAt(at[u])))
    BY <1>1, <1>3 DEF Passed, Behind
  <1>7. a.task = at[u].task
    BY <1>5, <1>6
  <1>8. PlaceAt(at[u]) \in Nat
    BY <1>2, <1>7, AtPlaces
  <1>9. 4 * a.count + 1 < PlaceAt(at[u])
    BY <1>2, <1>5, <1>6
  <1>10. ~(4 * (a.count + PreLaunch) + 2 < PlaceAt(at[u]))
    BY <1>4, <1>6, <1>7
  <1> QED BY <1>1, <1>2, <1>7, <1>8, <1>9, <1>10, Sizes

\* Two such stacks are at most PreLaunch apart.
LEMMA WindowSpan ==
    ASSUME tasks \in TaskLists, NEW u \in Units, AtOK(u), NEW a \in Window(u), NEW b \in Window(u)
    PROVE  a.task = b.task /\ a.count <= b.count + PreLaunch
  <1>1. /\ a.task = at[u].task /\ a.count \in Nat /\ 4 * a.count + 1 < PlaceAt(at[u])
        /\ PlaceAt(at[u]) \in Nat
    BY InWindow
  <1>2. b.task = at[u].task /\ b.count \in Nat /\ PlaceAt(at[u]) <= 4 * (b.count + PreLaunch) + 2
    BY InWindow
  <1> QED BY <1>1, <1>2, Sizes

\* There are PreLaunch + 1 of them at most.
LEMMA WindowSize ==
    ASSUME tasks \in TaskLists, NEW u \in Units, AtOK(u)
    PROVE  IsFiniteSet(Window(u)) /\ Cardinality(Window(u)) <= PreLaunch + 1
  <1>0. PreLaunch \in Nat
    BY Sizes
  <1>1. CASE Window(u) = {}
    BY <1>0, <1>1, FS_EmptySet
  <1>2. CASE Window(u) # {}
    <2>1. PICK a \in Window(u) : TRUE
      BY <1>2
    <2>2. a \in Ops /\ a.task = at[u].task
      BY InWindow
    <2>3. at[u].task \in 1..Len(tasks)
      BY <2>2, OpFields
    <2>4. PICK c \in Nat : PlaceAt(at[u]) >= 4 * c /\ PlaceAt(at[u]) <= 4 * c + 2
      BY <2>3, AtPlaces
    <2> DEFINE T == (c - PreLaunch)..c
               f == [b \in Window(u) |-> b.count]
    <2>5. ASSUME NEW b \in Window(u) PROVE b.count \in T
      <3>1. b.count \in Nat /\ 4 * b.count + 1 < PlaceAt(at[u]) /\ PlaceAt(at[u]) <= 4 * (b.count + PreLaunch) + 2
            /\ PlaceAt(at[u]) \in Nat
        BY InWindow
      <3> DEFINE x == PlaceAt(at[u])
      <3> HIDE DEF x
      <3>2. x \in Nat /\ 4 * b.count + 1 < x /\ x <= 4 * (b.count + PreLaunch) + 2 /\ x >= 4 * c /\ x <= 4 * c + 2
        BY <2>4, <3>1 DEF x
      <3>3. b.count <= c /\ c <= b.count + PreLaunch
        BY <1>0, <3>1, <3>2
      <3>4. c - PreLaunch \in Int /\ b.count >= c - PreLaunch
        BY <1>0, <3>1, <3>3
      <3> QED BY <1>0, <3>1, <3>3, <3>4
    <2>6. ASSUME NEW b \in Window(u), NEW d \in Window(u), b.count = d.count PROVE b = d
      <3>1. b \in Ops /\ b.task = at[u].task /\ d \in Ops /\ d.task = at[u].task
        BY InWindow
      <3>2. b.unit = "QK" /\ d.unit = "QK"
        BY DEF Window, QKs
      <3> QED BY <2>6, <3>1, <3>2, SameOp
    <2>7. f \in Injection(Window(u), T)
      <3> HIDE DEF T
      <3> QED BY <2>5, <2>6 DEF Injection, IsInjective
    <2>8. IsFiniteSet(T) /\ Cardinality(T) = PreLaunch + 1
      <3>1. c - PreLaunch \in Int /\ c \in Int /\ ~(c - PreLaunch > c) /\ c - (c - PreLaunch) + 1 = PreLaunch + 1
        BY <1>0
      <3> QED BY <3>1, FS_Interval
    <2> HIDE DEF T, f
    <2>9. IsFiniteSet(Window(u)) /\ Cardinality(Window(u)) <= Cardinality(T)
      BY <2>7, <2>8, FS_Injection
    <2> QED BY <2>8, <2>9
  <1> QED BY <1>1, <1>2

\* A slot is in the ring.
LEMMA SlotInRing == ASSUME NEW n \in Nat PROVE Slot(n) \in 0..PreLaunch
  <1>1. PreLaunch + 1 \in Nat /\ PreLaunch + 1 > 0 /\ (PreLaunch + 1) - 1 = PreLaunch
    BY Sizes
  <1>2. n % (PreLaunch + 1) \in 0..((PreLaunch + 1) - 1)
    BY <1>1, DivMod
  <1> QED BY <1>1, <1>2 DEF Slot

\* Two stacks less than a ring apart have slots of their own.
LEMMA SlotsApart ==
    ASSUME NEW m \in Nat, NEW n \in Nat, m < n, n <= m + PreLaunch
    PROVE  Slot(m) # Slot(n) /\ Slot(m) \in 0..PreLaunch /\ Slot(n) \in 0..PreLaunch
  <1> DEFINE d == PreLaunch + 1
             qm == m \div d  rm == m % d  qn == n \div d  rn == n % d
  <1>1. d \in Nat /\ d > 0 /\ PreLaunch \in Nat
    BY Sizes
  <1>2. qm \in Nat /\ rm \in 0..(d - 1) /\ m = qm * d + rm
    BY <1>1, DivMod
  <1>3. qn \in Nat /\ rn \in 0..(d - 1) /\ n = qn * d + rn
    BY <1>1, DivMod
  <1>4. Slot(m) = rm /\ Slot(n) = rn
    BY DEF Slot
  <1>5. d - 1 = PreLaunch
    BY <1>1
  <1> HIDE DEF qm, rm, qn, rn
  <1>6. ASSUME rm = rn PROVE FALSE
    <2> HIDE DEF d
    <2>1. qm * d \in Int /\ qn * d \in Int /\ (qm + 1) * d = qm * d + d
      BY <1>1, <1>2, <1>3
    <2>2. qm * d < qn * d /\ qn * d < (qm + 1) * d
      BY <1>1, <1>2, <1>3, <1>5, <1>6, <2>1
    <2>3. qm < qn /\ qn < qm + 1
      BY <1>1, <1>2, <1>3, <2>2, Product
    <2> QED BY <1>2, <1>3, <2>3
  <1> QED BY <1>2, <1>3, <1>4, <1>5, <1>6

-----------------------------------------------------------------------------
(* What the flags count.                                                   *)

\* What depends on the tasks only stays.
LEMMA TasksStay ==
    ASSUME tasks' = tasks
    PROVE  /\ Ops' = Ops /\ QKs' = QKs
           /\ \A op : /\ QOf(op)' = QOf(op) /\ QKOf(op)' = QKOf(op) /\ PVOf(op)' = PVOf(op)
                      /\ OOf(op)' = OOf(op) /\ Rows(op)' = Rows(op)
           /\ \A v, i : HasRows(v, i)' = HasRows(v, i)
  <1>1. \A i : OpsOf(i)' = OpsOf(i)
    BY DEF OpsOf, OAt, N
  <1>2. Ops' = Ops
    BY <1>1 DEF Ops
  <1> QED BY <1>2 DEF QKs, QOf, QKOf, PVOf, OOf, OAt, N, Rows, HasRows

\* A unit that does not move has passed what it had.
LEMMA UnitStays ==
    ASSUME tasks' = tasks, NEW u, at'[u] = at[u]
    PROVE  Passed(u)' = Passed(u) /\ (AtOK(u) => AtOK(u)')
  <1>1. Ops' = Ops
    BY TasksStay
  <1>2. Passed(u)' = Passed(u)
    BY <1>1 DEF Passed, Behind
  <1>3. AtOK(u) => AtOK(u)'
    BY DEF AtOK, Position, InTask, N
  <1> QED BY <1>2, <1>3

\* A unit that moves passes what lies behind its new position.
LEMMA UnitMoves ==
    ASSUME tasks' = tasks, NEW u, NEW pos, at'[u] = pos, Position(u, pos)
    PROVE  Passed(u)' = Behind(u, pos) /\ AtOK(u)'
  <1>1. Ops' = Ops
    BY TasksStay
  <1>2. Passed(u)' = Behind(u, pos)
    BY <1>1 DEF Passed, Behind
  <1>3. AtOK(u)'
    BY DEF AtOK, Position, InTask, N
  <1> QED BY <1>2, <1>3

-----------------------------------------------------------------------------
(* The queues after a scalar unit has issued an instruction.               *)

\* The loops put QK and PV of the stacks in the same order.
LEMMA HalvesInOrder ==
    ASSUME tasks \in TaskLists, NEW a \in Ops, NEW b \in Ops, a.unit = b.unit
    PROVE  /\ Before(a, b) <=> a.task < b.task \/ (a.task = b.task /\ a.count < b.count)
           /\ a.unit = "QK" => (Before(PVOf(a), PVOf(b)) <=> Before(a, b))
           /\ a.unit = "PV" => (Before(QKOf(a), QKOf(b)) <=> Before(a, b))
           /\ a.unit = "QK" => QKOf(PVOf(a)) = a /\ PVOf(a) = PVOf(QKOf(PVOf(a)))
           /\ a.unit = "PV" => PVOf(QKOf(a)) = a
  <1>1. ASSUME NEW x \in Ops, NEW y \in Ops, x.unit = y.unit
        PROVE  Before(x, y) <=> x.task < y.task \/ (x.task = y.task /\ x.count < y.count)
    <2>1. /\ x.task \in Int /\ y.task \in Int /\ x.count \in Nat /\ y.count \in Nat /\ PreLaunch \in Nat
          /\ x.unit \in {"Q", "QK", "PV", "O"}
          /\ x.task = y.task /\ x.unit \in {"Q", "O"} => x.count = y.count
      <3>1. N(x.task) \in Nat /\ N(y.task) \in Nat
        BY OpFields
      <3>2. x.count \in 0..(N(x.task) - 1) /\ y.count \in 0..(N(y.task) - 1)
        BY OpFields
      <3>3. x.task = y.task /\ x.unit \in {"Q", "O"} => x.count = y.count
        <4>1. CASE x.unit = "Q"
          <5>1. x.count = 0 /\ y.count = 0
            BY <1>1, <4>1, OpFields
          <5> QED BY <5>1
        <4>2. CASE x.unit = "O"
          <5>1. x.count = N(x.task) - 1 /\ y.count = N(y.task) - 1
            BY <1>1, <4>2, OpFields
          <5> QED BY <5>1
        <4> QED BY <4>1, <4>2
      <3>4. x.task \in 1..Len(tasks) /\ y.task \in 1..Len(tasks) /\ x.unit \in {"Q", "QK", "PV", "O"}
        BY OpFields
      <3> QED BY <3>1, <3>2, <3>3, <3>4, Sizes
    <2>2. CASE x.unit = "Q" \/ x.unit = "O"
      <3>1. x.task = y.task => x.count = y.count /\ Place(x) = Place(y)
        <4>1. /\ x.unit = "Q" => Place(x) = 0 /\ Place(y) = 0
              /\ x.unit = "O" => /\ Place(x) = 4 * (x.count + PreLaunch) + 3
                                 /\ Place(y) = 4 * (y.count + PreLaunch) + 3
          BY <1>1, Places
        <4> QED BY <2>1, <2>2, <4>1
      <3>2. Place(x) \in Nat /\ Place(y) \in Nat
        BY Places
      <3> QED BY <2>1, <3>1, <3>2 DEF Before
    <2>3. CASE x.unit = "QK"
      <3>1. Place(x) = 4 * x.count + 1 /\ Place(y) = 4 * y.count + 1
        BY <1>1, <2>3, Places
      <3> QED BY <2>1, <3>1 DEF Before
    <2>4. CASE x.unit = "PV"
      <3>1. Place(x) = 4 * (x.count + PreLaunch) + 2 /\ Place(y) = 4 * (y.count + PreLaunch) + 2
        BY <1>1, <2>4, Places
      <3> QED BY <2>1, <3>1 DEF Before
    <2> QED BY <2>1, <2>2, <2>3, <2>4
  <1>2. Before(a, b) <=> a.task < b.task \/ (a.task = b.task /\ a.count < b.count)
    BY <1>1
  <1>3. /\ PVOf(a) \in Ops /\ PVOf(b) \in Ops /\ PVOf(a).unit = PVOf(b).unit
        /\ PVOf(a).task = a.task /\ PVOf(a).count = a.count
        /\ PVOf(b).task = b.task /\ PVOf(b).count = b.count
    BY OtherOps
  <1>4. /\ QKOf(a) \in Ops /\ QKOf(b) \in Ops /\ QKOf(a).unit = QKOf(b).unit
        /\ QKOf(a).task = a.task /\ QKOf(a).count = a.count
        /\ QKOf(b).task = b.task /\ QKOf(b).count = b.count
    BY OtherOps
  <1>5. Before(PVOf(a), PVOf(b)) <=> Before(a, b)
    BY <1>1, <1>2, <1>3
  <1>6. Before(QKOf(a), QKOf(b)) <=> Before(a, b)
    BY <1>1, <1>2, <1>4
  <1>7. a.unit = "QK" => QKOf(PVOf(a)) = a
    BY <1>3, OpFields DEF QKOf
  <1>8. a.unit = "PV" => PVOf(QKOf(a)) = a
    BY <1>4, OpFields DEF PVOf
  <1> QED BY <1>2, <1>5, <1>6, <1>7, <1>8

\* What a pipe has done is a prefix of what it was given.
LEMMA DonePrefix ==
    ASSUME tasks \in TaskLists, NEW q, NEW given, InOrder(q, given), given \subseteq Ops
    PROVE  \A a \in Done(q, given) : \A b \in given : Before(b, a) => b \in Done(q, given)
  <1>1. SUFFICES ASSUME NEW a \in Done(q, given), NEW b \in given, Before(b, a), b \in Pending(q)
                 PROVE  FALSE
    BY QueueFacts
  <1>2. a \in given /\ Before(a, b)
    BY <1>1, QueueFacts
  <1> QED BY <1>1, <1>2, TotalOrder

\* What each pipe has done, it has done in the order of the loops.
LEMMA PipesInOrder ==
    ASSUME tasks \in TaskLists, AtsOK, QueuesInOrder, NEW b \in Ops
    PROVE  /\ \A a \in Loaded : /\ a \in Passed(AIC) /\ a \in Ops /\ a.unit \in {"Q", "PV"}
                                /\ Before(b, a) /\ b.unit \in {"Q", "PV"} => b \in Loaded
           /\ \A a \in Multiplied : /\ a \in Passed(AIC) /\ a \in Ops /\ a.unit \in {"QK", "PV"}
                                    /\ Before(b, a) /\ b.unit \in {"QK", "PV"} => b \in Multiplied
           /\ \A v \in AIV :
                /\ \A a \in AivLoaded(v) :
                     /\ a \in Passed(v) /\ a \in Ops /\ a.unit \in {"QK", "PV"} /\ HasRows(v, a.task)
                     /\ Before(b, a) /\ b.unit \in {"QK", "PV"} /\ HasRows(v, b.task) => b \in AivLoaded(v)
                /\ \A a \in Computed(v) :
                     /\ a \in Passed(v) /\ a \in Ops /\ a.unit \in {"QK", "PV", "O"} /\ HasRows(v, a.task)
                     /\ Before(b, a) /\ b.unit \in {"QK", "PV", "O"} /\ HasRows(v, b.task) => b \in Computed(v)
                /\ \A a \in AivStored(v) :
                     /\ a \in Passed(v) /\ a \in Ops /\ a.unit \in {"QK", "O"}
                     /\ a.unit = "O" => HasRows(v, a.task)
                     /\ Before(b, a) /\ b.unit \in {"QK", "O"} /\ (b.unit = "O" => HasRows(v, b.task))
                          => b \in AivStored(v)
  <1>0. \A u \in Units : Passed(u) \subseteq Ops
    BY DEF Passed, Behind
  <1>1. \A u \in Units : \A a \in Passed(u) : Before(b, a) /\ (b.unit # "Q" \/ u = AIC) => b \in Passed(u)
    BY PassedPrefix DEF AtsOK, Units
  <1>2. AIC \in Units /\ AIV \subseteq Units
    BY DEF Units
  <1>3. /\ ForAicMte2 \subseteq Ops /\ ForCube \subseteq Ops
        /\ \A v \in AIV : ForMte2(v) \subseteq Ops /\ ForVec(v) \subseteq Ops /\ ForMte3(v) \subseteq Ops
    BY <1>0, <1>2 DEF ForAicMte2, ForCube, ForMte2, ForVec, ForMte3
  <1>4. ASSUME NEW a \in Loaded
        PROVE  /\ a \in Passed(AIC) /\ a \in Ops /\ a.unit \in {"Q", "PV"}
               /\ Before(b, a) /\ b.unit \in {"Q", "PV"} => b \in Loaded
    <2>1. a \in ForAicMte2
      BY DEF Loaded, Done
    <2>2. Before(b, a) /\ b.unit \in {"Q", "PV"} => b \in ForAicMte2
      BY <1>1, <1>2, <2>1 DEF ForAicMte2
    <2>3. \A c \in ForAicMte2 : Before(c, a) => c \in Loaded
      BY <1>3, DonePrefix DEF QueuesInOrder, Loaded
    <2> QED BY <1>3, <2>1, <2>2, <2>3 DEF ForAicMte2
  <1>5. ASSUME NEW a \in Multiplied
        PROVE  /\ a \in Passed(AIC) /\ a \in Ops /\ a.unit \in {"QK", "PV"}
               /\ Before(b, a) /\ b.unit \in {"QK", "PV"} => b \in Multiplied
    <2>1. a \in ForCube
      BY DEF Multiplied, Done
    <2>2. Before(b, a) /\ b.unit \in {"QK", "PV"} => b \in ForCube
      BY <1>1, <1>2, <2>1 DEF ForCube
    <2>3. \A c \in ForCube : Before(c, a) => c \in Multiplied
      BY <1>3, DonePrefix DEF QueuesInOrder, Multiplied
    <2> QED BY <1>3, <2>1, <2>2, <2>3 DEF ForCube
  <1>6. ASSUME NEW v \in AIV, NEW a \in AivLoaded(v)
        PROVE  /\ a \in Passed(v) /\ a \in Ops /\ a.unit \in {"QK", "PV"} /\ HasRows(v, a.task)
               /\ Before(b, a) /\ b.unit \in {"QK", "PV"} /\ HasRows(v, b.task) => b \in AivLoaded(v)
    <2>1. a \in ForMte2(v)
      BY DEF AivLoaded, Done
    <2>2. Before(b, a) /\ b.unit \in {"QK", "PV"} /\ HasRows(v, b.task) => b \in ForMte2(v)
      BY <1>1, <1>2, <2>1 DEF ForMte2
    <2>3. \A c \in ForMte2(v) : Before(c, a) => c \in AivLoaded(v)
      BY <1>3, DonePrefix DEF QueuesInOrder, AivLoaded
    <2> QED BY <1>3, <2>1, <2>2, <2>3 DEF ForMte2
  <1>7. ASSUME NEW v \in AIV, NEW a \in Computed(v)
        PROVE  /\ a \in Passed(v) /\ a \in Ops /\ a.unit \in {"QK", "PV", "O"} /\ HasRows(v, a.task)
               /\ Before(b, a) /\ b.unit \in {"QK", "PV", "O"} /\ HasRows(v, b.task) => b \in Computed(v)
    <2>1. a \in ForVec(v)
      BY DEF Computed, Done
    <2>2. Before(b, a) /\ b.unit \in {"QK", "PV", "O"} /\ HasRows(v, b.task) => b \in ForVec(v)
      BY <1>1, <1>2, <2>1 DEF ForVec
    <2>3. \A c \in ForVec(v) : Before(c, a) => c \in Computed(v)
      BY <1>3, DonePrefix DEF QueuesInOrder, Computed
    <2> QED BY <1>3, <2>1, <2>2, <2>3 DEF ForVec
  <1>8. ASSUME NEW v \in AIV, NEW a \in AivStored(v)
        PROVE  /\ a \in Passed(v) /\ a \in Ops /\ a.unit \in {"QK", "O"} /\ (a.unit = "O" => HasRows(v, a.task))
               /\ Before(b, a) /\ b.unit \in {"QK", "O"} /\ (b.unit = "O" => HasRows(v, b.task))
                    => b \in AivStored(v)
    <2>1. a \in ForMte3(v)
      BY DEF AivStored, Done
    <2>2. Before(b, a) /\ b.unit \in {"QK", "O"} /\ (b.unit = "O" => HasRows(v, b.task)) => b \in ForMte3(v)
      BY <1>1, <1>2, <2>1 DEF ForMte3
    <2>3. \A c \in ForMte3(v) : Before(c, a) => c \in AivStored(v)
      BY <1>3, DonePrefix DEF QueuesInOrder, AivStored
    <2> QED BY <1>3, <2>1, <2>2, <2>3 DEF ForMte3
  <1> QED BY <1>4, <1>5, <1>6, <1>7, <1>8

\* What is in the accumulator is the last that was multiplied.
LEMMA InAccumulator ==
    ASSUME Accumulator, l0c # <<>>
    PROVE  /\ {l0c[k].op : k \in 1..Len(l0c)} = {Head(l0c).op}
           /\ Head(l0c).op \in Multiplied
           /\ \A b \in Multiplied : ~Before(Head(l0c).op, b)
  <1>1. PICK x : l0c = <<x>>
    BY DEF Accumulator
  <1>2. Head(l0c) = x /\ 1..Len(l0c) = {1} /\ l0c[1] = x
    BY <1>1
  <1>3. {l0c[k].op : k \in 1..Len(l0c)} = {Head(l0c).op}
    BY <1>2
  <1> QED BY <1>3 DEF Accumulator

\* What has been stored is a prefix of what has been multiplied.
LEMMA StoredInOrder ==
    ASSUME tasks \in TaskLists, AtsOK, QueuesInOrder, Accumulator, NEW a \in Stored
    PROVE  /\ a \in Multiplied /\ a \in Passed(AIC) /\ a \in Ops /\ a.unit \in {"QK", "PV"}
           /\ \A b \in Ops : Before(b, a) /\ b.unit \in {"QK", "PV"} => b \in Stored
  <1>1. a \in Multiplied /\ a \notin {l0c[k].op : k \in 1..Len(l0c)}
    BY DEF Stored
  <1>2. ASSUME NEW b \in Ops, Before(b, a), b.unit \in {"QK", "PV"} PROVE b \in Stored
    <2>1. b \in Multiplied
      BY <1>1, <1>2, PipesInOrder
    <2>2. ASSUME NEW k \in 1..Len(l0c), b = l0c[k].op PROVE FALSE
      <3>1. l0c # <<>>
        BY <2>2
      <3>2. b = Head(l0c).op
        BY <2>2, <3>1, InAccumulator
      <3> QED BY <1>1, <1>2, <3>1, <3>2, InAccumulator
    <2> QED BY <2>1, <2>2 DEF Stored
  <1>3. a \in ForCube /\ a \in Ops
    BY <1>1 DEF Multiplied, Done, ForCube, Passed, Behind
  <1>4. a \in Passed(AIC) /\ a.unit \in {"QK", "PV"}
    BY <1>3 DEF ForCube
  <1> QED BY <1>1, <1>2, <1>3, <1>4

-----------------------------------------------------------------------------
(* The flag a scalar unit waits for is that of the stack at hand.          *)

\* Every step of a stack comes behind the one before.
LEMMA StepsFollow ==
    ASSUME IInv, NEW v \in AIV, NEW a \in QKs
    PROVE  /\ PVOf(a) \in Passed(AIC) => a \in AivStored(v)
           /\ a \in AivStored(v) => a \in Passed(v) /\ (HasRows(v, a.task) => a \in Computed(v))
           /\ a \in Computed(v) => a \in AivLoaded(v)
           /\ a \in AivLoaded(v) => a \in Passed(v)
           /\ a \in Passed(v) => a \in Stored
           /\ a \in Stored => a \in Multiplied
           /\ a \in Multiplied => a \in Passed(AIC)
  <1>1. tasks \in TaskLists /\ AtsOK /\ QueuesInOrder /\ Waited /\ PipesFollow /\ Accumulator
    BY DEF IInv, TypeOK
  <1>2. a \in Ops /\ a.unit = "QK"
    BY DEF QKs
  <1>3. a \in Computed(v) => a \in AivLoaded(v)
    BY <1>1, <1>2 DEF PipesFollow
  <1>4. a \in AivStored(v) => (HasRows(v, a.task) => a \in Computed(v))
    BY <1>1 DEF PipesFollow
  <1>5. (PVOf(a) \in Passed(AIC) => a \in AivStored(v)) /\ (a \in Passed(v) => a \in Stored)
    BY <1>1 DEF Waited
  <1>6. /\ a \in AivStored(v) => a \in Passed(v)
        /\ a \in AivLoaded(v) => a \in Passed(v)
        /\ a \in Multiplied => a \in Passed(AIC)
    BY <1>1, <1>2, PipesInOrder
  <1>7. a \in Stored => a \in Multiplied
    BY DEF Stored
  <1> QED BY <1>3, <1>4, <1>5, <1>6, <1>7

\* The steps of its second half.
LEMMA SecondStepsFollow ==
    ASSUME IInv, NEW v \in AIV, NEW a \in QKs
    PROVE  /\ PVOf(a) \in Computed(v) => PVOf(a) \in AivLoaded(v)
           /\ PVOf(a) \in AivLoaded(v) => PVOf(a) \in Passed(v)
           /\ PVOf(a) \in Passed(v) => PVOf(a) \in Stored
           /\ PVOf(a) \in Stored => PVOf(a) \in Multiplied
           /\ PVOf(a) \in Multiplied => PVOf(a) \in Loaded
           /\ PVOf(a) \in Loaded => PVOf(a) \in Passed(AIC)
  <1>1. tasks \in TaskLists /\ AtsOK /\ QueuesInOrder /\ Waited /\ PipesFollow /\ Accumulator
    BY DEF IInv, TypeOK
  <1>2. PVOf(a) \in Ops /\ PVOf(a).unit = "PV"
    BY <1>1, OtherOps DEF QKs
  <1>3. PVOf(a) \in Computed(v) => PVOf(a) \in AivLoaded(v)
    BY <1>1, <1>2 DEF PipesFollow
  <1>4. PVOf(a) \in Passed(v) => PVOf(a) \in Stored
    BY <1>1 DEF Waited
  <1>5. PVOf(a) \in Multiplied => PVOf(a) \in Loaded
    BY <1>1, <1>2 DEF PipesFollow
  <1>6. /\ PVOf(a) \in AivLoaded(v) => PVOf(a) \in Passed(v)
        /\ PVOf(a) \in Loaded => PVOf(a) \in Passed(AIC)
    BY <1>1, <1>2, PipesInOrder
  <1>7. PVOf(a) \in Stored => PVOf(a) \in Multiplied
    BY DEF Stored
  <1> QED BY <1>3, <1>4, <1>5, <1>6, <1>7

\* What a flag counts lies between the halves of its stack, at a unit.
LEMMA FlagSets ==
    ASSUME IInv, NEW v \in AIV
    PROVE  /\ Announced(v) \subseteq Window(AIC) /\ Softened(v) \subseteq Window(AIC)
           /\ Weighted(v) \subseteq Window(v)
  BY StepsFollow, SecondStepsFollow DEF Announced, Softened, Weighted, Window

\* So no flag counts more than the slots of the ring.
LEMMA FlagSetsSize ==
    ASSUME IInv, NEW v \in AIV, NEW S \in {Announced(v), Softened(v), Weighted(v)}
    PROVE  IsFiniteSet(S) /\ Cardinality(S) \in Nat /\ Cardinality(S) <= PreLaunch + 1
  <1>1. tasks \in TaskLists /\ AtOK(v) /\ AtOK(AIC) /\ v \in Units /\ AIC \in Units /\ PreLaunch \in Nat
    BY Sizes DEF IInv, TypeOK, AtsOK, Units
  <1>2. PICK u \in Units : AtOK(u) /\ S \subseteq Window(u)
    BY <1>1, FlagSets
  <1>3. IsFiniteSet(Window(u)) /\ Cardinality(Window(u)) <= PreLaunch + 1
    BY <1>1, <1>2, WindowSize
  <1>4. IsFiniteSet(S) /\ Cardinality(S) <= Cardinality(Window(u))
    BY <1>2, <1>3, FS_Subset
  <1>5. Cardinality(S) \in Nat /\ Cardinality(Window(u)) \in Nat
    BY <1>3, <1>4, FS_CardinalityType
  <1> QED BY <1>1, <1>3, <1>4, <1>5

\* FlagsWithinRing follows from the invariant.
LEMMA RingBoundsFlags == IInv => FlagsWithinRing
  <1>1. SUFFICES ASSUME IInv, NEW v \in AIV
                 PROVE  {qkReady[v], softmaxReady[v], pvReady[v]} \subseteq 0..(PreLaunch + 1)
    BY DEF FlagsWithinRing
  <1>2. /\ qkReady[v] = Cardinality(Announced(v))
        /\ softmaxReady[v] = Cardinality(Softened(v))
        /\ pvReady[v] = Cardinality(Weighted(v))
    BY <1>1 DEF IInv, FlagsCount
  <1>3. \A S \in {Announced(v), Softened(v), Weighted(v)} : Cardinality(S) \in 0..(PreLaunch + 1)
    BY <1>1, FlagSetsSize, Sizes
  <1> QED BY <1>2, <1>3

AicQueuesInOrder == InOrder(aicMte2, ForAicMte2) /\ InOrder(cube, ForCube)
AivQueuesInOrder(v) ==
    InOrder(mte2[v], ForMte2(v)) /\ InOrder(vec[v], ForVec(v)) /\ InOrder(mte3[v], ForMte3(v))

\* A step adds to what a unit has passed, or a pipe has done.
PassedGrows(u, ops) == Passed(u)' = Passed(u) \cup ops
AicDoneStays == Loaded' = Loaded /\ Multiplied' = Multiplied /\ Stored' = Stored
AivDoneStays(v) ==
    AivLoaded(v)' = AivLoaded(v) /\ Computed(v)' = Computed(v) /\ AivStored(v)' = AivStored(v)
DoneStays == AicDoneStays /\ \A v \in AIV : AivDoneStays(v)

\* A scalar step of one unit leaves the others where they are.
LEMMA IssuedPasses ==
    ASSUME IInv, tasks' = tasks, NEW u \in Units, Issued(u), NEW ops,
           Position(u, Onward(u)), Behind(u, Onward(u)) = Passed(u) \cup ops
    PROVE  /\ AtsOK' /\ at' = [w \in Units |-> at'[w]]
           /\ PassedGrows(u, ops)
           /\ \A w \in Units : w # u => PassedGrows(w, {})
  <1>1. at = [w \in Units |-> at[w]] /\ AtsOK
    BY DEF IInv, TypeOK, Units
  <1>2. /\ at'[u] = Onward(u) /\ at' = [w \in Units |-> at'[w]]
        /\ \A w \in Units : w # u => at'[w] = at[w]
    BY <1>1 DEF Issued
  <1>3. Passed(u)' = Passed(u) \cup ops /\ AtOK(u)'
    BY <1>2, UnitMoves
  <1>4. ASSUME NEW w \in Units, w # u PROVE Passed(w)' = Passed(w) /\ AtOK(w)'
    BY <1>1, <1>2, <1>4, UnitStays DEF AtsOK, Units
  <1> QED BY <1>2, <1>3, <1>4 DEF AtsOK, Units, PassedGrows

\* What has been given to the pipes of a unit changes with what the unit has passed only.
LEMMA AicPipesStay ==
    ASSUME tasks' = tasks, PassedGrows(AIC, {}), aicMte2' = aicMte2, cube' = cube, l0c' = l0c
    PROVE  AicDoneStays /\ (AicQueuesInOrder => AicQueuesInOrder')
  <1>1. ForAicMte2' = ForAicMte2 /\ ForCube' = ForCube
    BY DEF ForAicMte2, ForCube, PassedGrows
  <1>2. Loaded' = Loaded /\ Multiplied' = Multiplied
    BY <1>1 DEF Loaded, Multiplied
  <1>3. Stored' = Stored
    BY <1>2 DEF Stored
  <1>4. AicQueuesInOrder => AicQueuesInOrder'
    BY <1>1 DEF AicQueuesInOrder
  <1> QED BY <1>2, <1>3, <1>4 DEF AicDoneStays

\* The queues of an AIV that does not move are given nothing.
LEMMA GivenStays ==
    ASSUME tasks' = tasks, NEW v, PassedGrows(v, {})
    PROVE  ForMte2(v)' = ForMte2(v) /\ ForVec(v)' = ForVec(v) /\ ForMte3(v)' = ForMte3(v)
  <1>1. \A i : HasRows(v, i)' = HasRows(v, i)
    BY TasksStay
  <1> QED BY <1>1 DEF ForMte2, ForVec, ForMte3, PassedGrows

\* The pipes of an AIV stay when it does not move and its queues stay.
LEMMA AivPipesStay ==
    ASSUME tasks' = tasks, NEW v, PassedGrows(v, {}),
           mte2'[v] = mte2[v], vec'[v] = vec[v], mte3'[v] = mte3[v]
    PROVE  AivDoneStays(v) /\ (AivQueuesInOrder(v) => AivQueuesInOrder(v)')
  <1>1. ForMte2(v)' = ForMte2(v) /\ ForVec(v)' = ForVec(v) /\ ForMte3(v)' = ForMte3(v)
    BY GivenStays
  <1>2. AivDoneStays(v)
    BY <1>1 DEF AivDoneStays, AivLoaded, Computed, AivStored
  <1>3. AivQueuesInOrder(v) => AivQueuesInOrder(v)'
    BY <1>1 DEF AivQueuesInOrder
  <1> QED BY <1>2, <1>3

\* The order of the queues, unit by unit.
LEMMA QueuesByUnit ==
    QueuesInOrder <=> AicQueuesInOrder /\ \A v \in AIV : AivQueuesInOrder(v)
  BY DEF QueuesInOrder, AicQueuesInOrder, AivQueuesInOrder

\* The same after a step.
LEMMA QueuesByUnitNext ==
    AicQueuesInOrder' /\ (\A v \in AIV : AivQueuesInOrder(v)') => QueuesInOrder'
  BY DEF QueuesInOrder, AicQueuesInOrder, AivQueuesInOrder

-----------------------------------------------------------------------------
(* Every step of a scalar unit preserves the invariant.                    *)

\* An instruction a unit issues is new to a pipe, and behind all that the pipe has got.
LEMMA Issue ==
    ASSUME NEW u, NEW op, NEW more, Issuing(u, op, more), NEW given, given \subseteq Passed(u)
    PROVE  op \notin given /\ \A a \in given : Before(a, op)
  BY DEF Issuing

\* The AIC's queues after it has issued an instruction.
LEMMA AicIssues ==
    ASSUME IInv, tasks' = tasks, NEW op, NEW more,
           Issuing(AIC, op, more), PassedGrows(AIC, {op} \cup more), \A a \in more : a.unit = "O",
           op.unit \in {"Q", "PV"} => aicMte2' = Append(aicMte2, op),
           op.unit \notin {"Q", "PV"} => aicMte2' = aicMte2,
           op.unit \in {"QK", "PV"} => cube' = Append(cube, op),
           op.unit \notin {"QK", "PV"} => cube' = cube,
           l0c' = l0c
    PROVE  AicDoneStays /\ AicQueuesInOrder'
  <1>0. AicQueuesInOrder
    BY QueuesByUnit DEF IInv
  <1>1. ForAicMte2 \subseteq Passed(AIC) /\ ForCube \subseteq Passed(AIC)
    BY DEF ForAicMte2, ForCube
  <1>2. InOrder(aicMte2, ForAicMte2)' /\ Loaded' = Loaded
    <2>1. CASE op.unit \in {"Q", "PV"}
      <3>1. ForAicMte2' = ForAicMte2 \cup {op}
        BY <2>1 DEF ForAicMte2, PassedGrows
      <3>2. op \notin ForAicMte2 /\ \A a \in ForAicMte2 : Before(a, op)
        BY <1>1, Issue
      <3>3. /\ InOrder(Append(aicMte2, op), ForAicMte2 \cup {op})
            /\ Done(Append(aicMte2, op), ForAicMte2 \cup {op}) = Done(aicMte2, ForAicMte2)
        BY <1>0, <3>2, Push DEF AicQueuesInOrder
      <3> QED BY <2>1, <3>1, <3>3 DEF Loaded
    <2>2. CASE op.unit \notin {"Q", "PV"}
      <3>1. ForAicMte2' = ForAicMte2
        BY <2>2 DEF ForAicMte2, PassedGrows
      <3> QED BY <1>0, <2>2, <3>1 DEF Loaded, AicQueuesInOrder
    <2> QED BY <2>1, <2>2
  <1>3. InOrder(cube, ForCube)' /\ Multiplied' = Multiplied
    <2>1. CASE op.unit \in {"QK", "PV"}
      <3>1. ForCube' = ForCube \cup {op}
        BY <2>1 DEF ForCube, PassedGrows
      <3>2. op \notin ForCube /\ \A a \in ForCube : Before(a, op)
        BY <1>1, Issue
      <3>3. /\ InOrder(Append(cube, op), ForCube \cup {op})
            /\ Done(Append(cube, op), ForCube \cup {op}) = Done(cube, ForCube)
        BY <1>0, <3>2, Push DEF AicQueuesInOrder
      <3> QED BY <2>1, <3>1, <3>3 DEF Multiplied
    <2>2. CASE op.unit \notin {"QK", "PV"}
      <3>1. ForCube' = ForCube
        BY <2>2 DEF ForCube, PassedGrows
      <3> QED BY <1>0, <2>2, <3>1 DEF Multiplied, AicQueuesInOrder
    <2> QED BY <2>1, <2>2
  <1>4. Stored' = Stored
    BY <1>3 DEF Stored
  <1> QED BY <1>2, <1>3, <1>4 DEF AicDoneStays, AicQueuesInOrder

\* The queues of an AIV after it has issued a softmax.
LEMMA AivIssuesQK ==
    ASSUME IInv, tasks' = tasks, NEW v \in AIV, NEW op,
           Issuing(v, op, {}), PassedGrows(v, {op}), op.unit = "QK",
           HasRows(v, op.task) => mte2'[v] = Append(mte2[v], op) /\ vec'[v] = Append(vec[v], op),
           ~HasRows(v, op.task) => mte2'[v] = mte2[v] /\ vec'[v] = vec[v],
           mte3'[v] = Append(mte3[v], op)
    PROVE  AivDoneStays(v) /\ AivQueuesInOrder(v)'
  <1>0. AivQueuesInOrder(v)
    BY QueuesByUnit DEF IInv
  <1>1. ForMte2(v) \subseteq Passed(v) /\ ForVec(v) \subseteq Passed(v) /\ ForMte3(v) \subseteq Passed(v)
    BY DEF ForMte2, ForVec, ForMte3
  <1>2. \A i : HasRows(v, i)' = HasRows(v, i)
    BY TasksStay
  <1>3. ForMte3(v)' = ForMte3(v) \cup {op}
    BY <1>2 DEF ForMte3, PassedGrows
  <1>4. InOrder(mte3[v], ForMte3(v))' /\ AivStored(v)' = AivStored(v)
    <2>1. op \notin ForMte3(v) /\ \A a \in ForMte3(v) : Before(a, op)
      BY <1>1, Issue
    <2>2. /\ InOrder(Append(mte3[v], op), ForMte3(v) \cup {op})
          /\ Done(Append(mte3[v], op), ForMte3(v) \cup {op}) = Done(mte3[v], ForMte3(v))
      BY <1>0, <2>1, Push DEF AivQueuesInOrder
    <2> QED BY <1>3, <2>2 DEF AivStored
  <1>5. InOrder(mte2[v], ForMte2(v))' /\ AivLoaded(v)' = AivLoaded(v)
    <2>1. CASE HasRows(v, op.task)
      <3>1. ForMte2(v)' = ForMte2(v) \cup {op}
        BY <1>2, <2>1 DEF ForMte2, PassedGrows
      <3>2. op \notin ForMte2(v) /\ \A a \in ForMte2(v) : Before(a, op)
        BY <1>1, Issue
      <3>3. /\ InOrder(Append(mte2[v], op), ForMte2(v) \cup {op})
            /\ Done(Append(mte2[v], op), ForMte2(v) \cup {op}) = Done(mte2[v], ForMte2(v))
        BY <1>0, <3>2, Push DEF AivQueuesInOrder
      <3> QED BY <2>1, <3>1, <3>3 DEF AivLoaded
    <2>2. CASE ~HasRows(v, op.task)
      <3>1. ForMte2(v)' = ForMte2(v)
        BY <1>2, <2>2 DEF ForMte2, PassedGrows
      <3> QED BY <1>0, <2>2, <3>1 DEF AivLoaded, AivQueuesInOrder
    <2> QED BY <2>1, <2>2
  <1>6. InOrder(vec[v], ForVec(v))' /\ Computed(v)' = Computed(v)
    <2>1. CASE HasRows(v, op.task)
      <3>1. ForVec(v)' = ForVec(v) \cup {op}
        BY <1>2, <2>1 DEF ForVec, PassedGrows
      <3>2. op \notin ForVec(v) /\ \A a \in ForVec(v) : Before(a, op)
        BY <1>1, Issue
      <3>3. /\ InOrder(Append(vec[v], op), ForVec(v) \cup {op})
            /\ Done(Append(vec[v], op), ForVec(v) \cup {op}) = Done(vec[v], ForVec(v))
        BY <1>0, <3>2, Push DEF AivQueuesInOrder
      <3> QED BY <2>1, <3>1, <3>3 DEF Computed
    <2>2. CASE ~HasRows(v, op.task)
      <3>1. ForVec(v)' = ForVec(v)
        BY <1>2, <2>2 DEF ForVec, PassedGrows
      <3> QED BY <1>0, <2>2, <3>1 DEF Computed, AivQueuesInOrder
    <2> QED BY <2>1, <2>2
  <1> QED BY <1>4, <1>5, <1>6 DEF AivDoneStays, AivQueuesInOrder

\* The queues of an AIV after it has issued a rescaling.
LEMMA AivIssuesPV ==
    ASSUME IInv, tasks' = tasks, NEW v \in AIV, NEW op \in Ops,
           Issuing(v, op, IF op.last THEN {OOf(op)} ELSE {}),
           PassedGrows(v, {op} \cup IF op.last THEN {OOf(op)} ELSE {}), op.unit = "PV",
           HasRows(v, op.task) =>
             /\ mte2'[v] = Append(mte2[v], op)
             /\ vec'[v] = IF op.last THEN Append(Append(vec[v], op), OOf(op)) ELSE Append(vec[v], op)
             /\ mte3'[v] = IF op.last THEN Append(mte3[v], OOf(op)) ELSE mte3[v],
           ~HasRows(v, op.task) => mte2'[v] = mte2[v] /\ vec'[v] = vec[v] /\ mte3'[v] = mte3[v]
    PROVE  AivDoneStays(v) /\ AivQueuesInOrder(v)'
  <1> DEFINE last == OOf(op)
             more == IF op.last THEN {last} ELSE {}
  <1>0. AivQueuesInOrder(v) /\ tasks \in TaskLists /\ op.count \in Nat
    BY QueuesByUnit, OpFields DEF IInv, TypeOK
  <1>1. /\ ForMte2(v) \subseteq Passed(v) /\ ForVec(v) \subseteq Passed(v) /\ ForMte3(v) \subseteq Passed(v)
        /\ Passed(v) \subseteq Ops
    BY DEF ForMte2, ForVec, ForMte3, Passed, Behind
  <1>2. \A i : HasRows(v, i)' = HasRows(v, i)
    BY TasksStay
  <1>3. last \in Ops /\ last.unit = "O" /\ last.task = op.task /\ (op.last => Before(op, last))
    <2>1. last \in Ops /\ last.unit = "O" /\ last.task = op.task /\ last.count = N(op.task) - 1
      BY <1>0, OtherOps
    <2>2. op.last => op.count = N(op.task) - 1
      BY <1>0, OpFields
    <2>3. Place(op) = 4 * (op.count + PreLaunch) + 2 /\ Place(last) = 4 * (last.count + PreLaunch) + 3
      BY <1>0, <2>1, Places
    <2>4. op.last => Place(op) < Place(last)
      BY <1>0, <2>1, <2>2, <2>3, Sizes
    <2> QED BY <2>1, <2>4 DEF Before
  <1>4. /\ op \notin Passed(v) /\ \A a \in Passed(v) : Before(a, op)
        /\ op.last => last \notin Passed(v) \cup {op} /\ \A a \in Passed(v) \cup {op} : Before(a, last)
    <2>1. op \notin Passed(v) /\ \A a \in Passed(v) : Before(a, op)
      BY DEF Issuing
    <2>2. op.last => \A a \in Passed(v) \cup {op} : Before(a, last)
      BY <1>0, <1>1, <1>3, <2>1, TotalOrder
    <2>3. op.last => ~Before(last, last)
      BY <1>0, <1>3, TotalOrder
    <2> QED BY <2>1, <2>2, <2>3
  <1> HIDE DEF last
  <1>5. CASE ~HasRows(v, op.task)
    <2>1. ForMte2(v)' = ForMte2(v) /\ ForVec(v)' = ForVec(v) /\ ForMte3(v)' = ForMte3(v)
      BY <1>2, <1>3, <1>5 DEF ForMte2, ForVec, ForMte3, PassedGrows, last
    <2> QED BY <1>0, <1>5, <2>1 DEF AivDoneStays, AivQueuesInOrder, AivLoaded, Computed, AivStored
  <1>6. CASE HasRows(v, op.task)
    <2>1. /\ ForMte2(v)' = ForMte2(v) \cup {op}
          /\ ForVec(v)' = IF op.last THEN (ForVec(v) \cup {op}) \cup {last} ELSE ForVec(v) \cup {op}
          /\ ForMte3(v)' = IF op.last THEN ForMte3(v) \cup {last} ELSE ForMte3(v)
      BY <1>2, <1>3, <1>6 DEF ForMte2, ForVec, ForMte3, PassedGrows, last
    <2>2. /\ mte2'[v] = Append(mte2[v], op)
          /\ vec'[v] = IF op.last THEN Append(Append(vec[v], op), last) ELSE Append(vec[v], op)
          /\ mte3'[v] = IF op.last THEN Append(mte3[v], last) ELSE mte3[v]
      BY <1>6 DEF last
    <2>3. /\ InOrder(Append(mte2[v], op), ForMte2(v) \cup {op})
          /\ Done(Append(mte2[v], op), ForMte2(v) \cup {op}) = Done(mte2[v], ForMte2(v))
      <3>1. op \notin ForMte2(v) /\ \A a \in ForMte2(v) : Before(a, op)
        BY <1>1, <1>4
      <3> QED BY <1>0, <3>1, Push DEF AivQueuesInOrder
    <2>4. /\ InOrder(Append(vec[v], op), ForVec(v) \cup {op})
          /\ Done(Append(vec[v], op), ForVec(v) \cup {op}) = Done(vec[v], ForVec(v))
      <3>1. op \notin ForVec(v) /\ \A a \in ForVec(v) : Before(a, op)
        BY <1>1, <1>4
      <3> QED BY <1>0, <3>1, Push DEF AivQueuesInOrder
    <2>5. op.last =>
            /\ InOrder(Append(Append(vec[v], op), last), (ForVec(v) \cup {op}) \cup {last})
            /\ Done(Append(Append(vec[v], op), last), (ForVec(v) \cup {op}) \cup {last}) = Done(vec[v], ForVec(v))
      <3>1. op.last => last \notin ForVec(v) \cup {op} /\ \A a \in ForVec(v) \cup {op} : Before(a, last)
        BY <1>1, <1>4
      <3> DEFINE q == Append(vec[v], op)  given == ForVec(v) \cup {op}
      <3>2. InOrder(q, given)
        BY <2>4
      <3> HIDE DEF q, given
      <3>3. op.last => last \notin given /\ \A a \in given : Before(a, last)
        BY <3>1 DEF given
      <3>4. op.last => InOrder(Append(q, last), given \cup {last})
                       /\ Done(Append(q, last), given \cup {last}) = Done(q, given)
        BY <3>2, <3>3, Push
      <3> QED BY <2>4, <3>4 DEF q, given
    <2>6. op.last =>
            /\ InOrder(Append(mte3[v], last), ForMte3(v) \cup {last})
            /\ Done(Append(mte3[v], last), ForMte3(v) \cup {last}) = Done(mte3[v], ForMte3(v))
      <3>1. op.last => last \notin ForMte3(v) /\ \A a \in ForMte3(v) : Before(a, last)
        BY <1>1, <1>4
      <3> QED BY <1>0, <3>1, Push DEF AivQueuesInOrder
    <2>7. InOrder(mte2[v], ForMte2(v))' /\ AivLoaded(v)' = AivLoaded(v)
      BY <2>1, <2>2, <2>3 DEF AivLoaded
    <2>8. InOrder(vec[v], ForVec(v))' /\ Computed(v)' = Computed(v)
      BY <2>1, <2>2, <2>4, <2>5 DEF Computed
    <2>9. InOrder(mte3[v], ForMte3(v))' /\ AivStored(v)' = AivStored(v)
      BY <1>0, <2>1, <2>2, <2>6 DEF AivStored, AivQueuesInOrder
    <2> QED BY <2>7, <2>8, <2>9 DEF AivDoneStays, AivQueuesInOrder
  <1> QED BY <1>5, <1>6

\* The instruction that is issued is the next one in the order.
LEMMA NextInOrder ==
    ASSUME tasks \in TaskLists, NEW u \in Units, NEW op, NEW more, Issuing(u, op, more),
           \A m \in more : Before(op, m) /\ m \in Ops,
           NEW b \in Ops, b.unit # "Q" \/ u = AIC
    PROVE  b \in Passed(u) \/ b = op \/ Before(op, b)
  <1>1. SUFFICES ASSUME b \notin Passed(u), b # op, ~Before(op, b) PROVE FALSE
    OBVIOUS
  <1>2. op \in Ops /\ op \in Behind(u, Onward(u)) /\ Position(u, Onward(u))
    BY DEF Issuing
  <1>3. Before(b, op)
    BY <1>1, <1>2, TotalOrder
  <1>4. b \in Behind(u, Onward(u))
    BY <1>2, <1>3, BehindPrefix
  <1>5. b \in more
    BY <1>1, <1>4 DEF Issuing
  <1> QED BY <1>1, <1>5

\* The store of the output comes behind the last rescaling.
LEMMA LastAfter ==
    ASSUME tasks \in TaskLists, NEW op \in Ops, op.unit = "PV",
           NEW m \in IF op.last THEN {OOf(op)} ELSE {}
    PROVE  m \in Ops /\ m.unit = "O" /\ Before(op, m)
  <1>1. m \in Ops /\ m.unit = "O" /\ m.task = op.task /\ m.count = N(op.task) - 1
    BY OtherOps
  <1>2. op.count = N(op.task) - 1 /\ op.count \in Nat
    BY OpFields
  <1>3. Place(op) = 4 * (op.count + PreLaunch) + 2 /\ Place(m) = 4 * (m.count + PreLaunch) + 3
    BY <1>1, Places
  <1>4. Place(op) < Place(m)
    BY <1>1, <1>2, <1>3, Sizes
  <1> QED BY <1>1, <1>4 DEF Before

\* The flag says of the next stack that it is ready: the flags are counted, the stacks in order.
LEMMA QKIsReady ==
    ASSUME IInv, NEW v \in AIV, NEW op, op.unit = "QK", Issuing(v, op, {}), RaisedForAiv(qkReady, v)
    PROVE  op \in Announced(v) /\ op \in QKs
  <1>1. tasks \in TaskLists /\ AtsOK /\ QueuesInOrder /\ Accumulator /\ v \in Units
    BY DEF IInv, TypeOK, Units
  <1>2. op \in QKs /\ op \notin Passed(v) /\ op \in Ops
    BY DEF Issuing, QKs
  <1>3. Announced(v) # {}
    <2>1. qkReady[v] = Cardinality(Announced(v))
      BY DEF IInv, FlagsCount
    <2>2. qkReady[v] > 0
      BY DEF RaisedForAiv
    <2>3. ~(0 > 0)
      OBVIOUS
    <2> QED BY <2>1, <2>2, <2>3, FS_EmptySet, Zenon
  <1>4. PICK a \in Announced(v) : TRUE
    BY <1>3
  <1>5. a \in QKs /\ a \in Ops /\ a.unit = "QK" /\ a \in Stored /\ a \notin Passed(v)
    BY <1>4 DEF Announced, QKs
  <1>6. a = op \/ Before(op, a)
    BY <1>1, <1>5, NextInOrder
  <1>7. op \in Stored
    BY <1>1, <1>2, <1>5, <1>6, StoredInOrder
  <1> QED BY <1>2, <1>7 DEF Announced

\* The wait for softmaxReady waits for P of the stack at hand.
LEMMA PIsReady ==
    ASSUME IInv, NEW op, op.unit = "PV",
           Issuing(AIC, op, IF op.last THEN {OOf(op)} ELSE {}), NEW v \in AIV, RaisedForAiv(softmaxReady, v)
    PROVE  QKOf(op) \in Softened(v) /\ QKOf(op) \in QKs /\ PVOf(QKOf(op)) = op
  <1>1. tasks \in TaskLists /\ AtsOK /\ QueuesInOrder /\ AIC \in Units
    BY DEF IInv, TypeOK, Units
  <1>2. op \notin Passed(AIC) /\ op \in Ops
    BY DEF Issuing
  <1>3. QKOf(op) \in Ops /\ QKOf(op) \in QKs /\ QKOf(op).unit = "QK" /\ PVOf(QKOf(op)) = op
    BY <1>1, <1>2, OtherOps, HalvesInOrder DEF QKs
  <1>4. Softened(v) # {}
    <2>1. softmaxReady[v] = Cardinality(Softened(v))
      BY DEF IInv, FlagsCount
    <2>2. softmaxReady[v] > 0
      BY DEF RaisedForAiv
    <2>3. ~(0 > 0)
      OBVIOUS
    <2> QED BY <2>1, <2>2, <2>3, FS_EmptySet, Zenon
  <1>5. PICK a \in Softened(v) : TRUE
    BY <1>4
  <1>6. a \in QKs /\ a \in Ops /\ a.unit = "QK" /\ a \in AivStored(v) /\ PVOf(a) \notin Passed(AIC)
    BY <1>5 DEF Softened, QKs
  <1>7. PVOf(a) \in Ops /\ PVOf(a).unit = "PV" /\ QKOf(PVOf(a)) = a
    BY <1>1, <1>6, OtherOps, HalvesInOrder
  <1>8. PVOf(a) = op \/ Before(op, PVOf(a))
    BY <1>1, <1>2, <1>6, <1>7, LastAfter, NextInOrder
  <1>9. QKOf(op) = a \/ Before(QKOf(op), a)
    BY <1>1, <1>2, <1>7, <1>8, HalvesInOrder
  <1>10. QKOf(op) \in AivStored(v)
    BY <1>1, <1>3, <1>6, <1>9, PipesInOrder
  <1> QED BY <1>2, <1>3, <1>10 DEF Softened

\* The wait for pvReady waits for OTmp of the stack at hand.
LEMMA PVIsReady ==
    ASSUME IInv, NEW v \in AIV, NEW op, op.unit = "PV",
           Issuing(v, op, IF op.last THEN {OOf(op)} ELSE {}), RaisedForAiv(pvReady, v)
    PROVE  QKOf(op) \in Weighted(v) /\ QKOf(op) \in QKs /\ PVOf(QKOf(op)) = op
  <1>1. tasks \in TaskLists /\ AtsOK /\ QueuesInOrder /\ Accumulator /\ v \in Units
    BY DEF IInv, TypeOK, Units
  <1>2. op \notin Passed(v) /\ op \in Ops
    BY DEF Issuing
  <1>3. QKOf(op) \in Ops /\ QKOf(op) \in QKs /\ QKOf(op).unit = "QK" /\ PVOf(QKOf(op)) = op
    BY <1>1, <1>2, OtherOps, HalvesInOrder DEF QKs
  <1>4. Weighted(v) # {}
    <2>1. pvReady[v] = Cardinality(Weighted(v))
      BY DEF IInv, FlagsCount
    <2>2. pvReady[v] > 0
      BY DEF RaisedForAiv
    <2>3. ~(0 > 0)
      OBVIOUS
    <2> QED BY <2>1, <2>2, <2>3, FS_EmptySet, Zenon
  <1>5. PICK a \in Weighted(v) : TRUE
    BY <1>4
  <1>6. a \in QKs /\ a \in Ops /\ a.unit = "QK" /\ PVOf(a) \in Stored /\ PVOf(a) \notin Passed(v)
    BY <1>5 DEF Weighted, QKs
  <1>7. PVOf(a) \in Ops /\ PVOf(a).unit = "PV"
    BY <1>1, <1>6, OtherOps
  <1>8. PVOf(a) = op \/ Before(op, PVOf(a))
    BY <1>1, <1>2, <1>6, <1>7, LastAfter, NextInOrder
  <1>9. op \in Stored
    BY <1>1, <1>2, <1>6, <1>8, StoredInOrder
  <1> QED BY <1>2, <1>3, <1>9 DEF Weighted

\* One flag fewer, one stack fewer.
LEMMA CountDown ==
    ASSUME NEW S, IsFiniteSet(S), NEW x \in S
    PROVE  Cardinality(S \ {x}) = Cardinality(S) - 1
  BY FS_RemoveElement
\* One element more.
LEMMA CountUp ==
    ASSUME NEW S, IsFiniteSet(S), NEW x, x \notin S
    PROVE  Cardinality(S \cup {x}) = Cardinality(S) + 1
  BY FS_AddElement

\* The parts of the invariant about buffers.
Buffers == PipesFollow /\ Q_InL1 /\ P_InL1 /\ Accumulator /\ Workspace /\ InUb /\ Outputs

\* They stay when the buffers and what the pipes have done stay.
LEMMA BuffersStay ==
    ASSUME IInv, DoneStays, tasks' = tasks, UNCHANGED <<l1, l0c, s, p, oTmp, ub, output>>
    PROVE  Buffers'
  <1>1. /\ Ops' = Ops /\ \A op : /\ QOf(op)' = QOf(op) /\ QKOf(op)' = QKOf(op) /\ PVOf(op)' = PVOf(op)
                                 /\ OOf(op)' = OOf(op) /\ Rows(op)' = Rows(op)
        /\ \A v, i : HasRows(v, i)' = HasRows(v, i)
    BY TasksStay
  <1>2. /\ Loaded' = Loaded /\ Multiplied' = Multiplied /\ Stored' = Stored
        /\ \A v \in AIV : AivLoaded(v)' = AivLoaded(v) /\ Computed(v)' = Computed(v) /\ AivStored(v)' = AivStored(v)
    BY DEF DoneStays, AicDoneStays, AivDoneStays
  <1>3. PipesFollow'
    BY <1>1, <1>2 DEF IInv, PipesFollow
  <1>4. Q_InL1'
    BY <1>1, <1>2 DEF IInv, Q_InL1, LastIn
  <1>5. P_InL1'
    BY <1>1, <1>2 DEF IInv, P_InL1
  <1>6. Accumulator'
    BY <1>1, <1>2 DEF IInv, Accumulator
  <1>7. Workspace'
    BY <1>1, <1>2 DEF IInv, Workspace
  <1>8. ASSUME NEW v \in AIV PROVE S_InUb(v)' /\ P_InUb(v)' /\ OTmp_InUb(v)' /\ KeptInUb(v)'
    <2>1. S_InUb(v) /\ P_InUb(v) /\ OTmp_InUb(v) /\ KeptInUb(v)
      BY DEF IInv, InUb
    <2>2. AivLoaded(v)' = AivLoaded(v) /\ Computed(v)' = Computed(v) /\ AivStored(v)' = AivStored(v)
      BY <1>2
    <2>3. S_InUb(v)'
      BY <2>1, <2>2 DEF S_InUb
    <2>4. P_InUb(v)'
      BY <1>1, <2>1, <2>2 DEF P_InUb
    <2>5. OTmp_InUb(v)'
      BY <1>1, <2>1, <2>2 DEF OTmp_InUb
    <2>6. KeptInUb(v)'
      BY <1>1, <2>1, <2>2 DEF KeptInUb, LastIn
    <2> QED BY <2>3, <2>4, <2>5, <2>6
  <1>9. Outputs'
    BY <1>1, <1>2 DEF IInv, Outputs
  <1> QED BY <1>3, <1>4, <1>5, <1>6, <1>7, <1>8, <1>9 DEF Buffers, InUb

\* A unit that issues changes none of the buffers, and no type.
LEMMA TypesStay ==
    ASSUME TypeOK, tasks' = tasks, UNCHANGED <<l1, s, p, oTmp, ub, output>>,
           at' = [u \in Units |-> at'[u]],
           qkReady' \in [AIV -> Nat], softmaxReady' \in [AIV -> Nat], pvReady' \in [AIV -> Nat],
           mte2' = [v \in AIV |-> mte2'[v]], vec' = [v \in AIV |-> vec'[v]], mte3' = [v \in AIV |-> mte3'[v]]
    PROVE  TypeOK'
  BY DEF TypeOK, Units

\* The invariant by its parts.
LEMMA InvByParts ==
    TypeOK' /\ AtsOK' /\ QueuesInOrder' /\ FlagsCount' /\ Waited' /\ Buffers' => IInv'
  BY DEF IInv, Buffers

\* The types of flags and queues.
LEMMA FlagTypes ==
    ASSUME TypeOK
    PROVE  /\ qkReady \in [AIV -> Nat] /\ softmaxReady \in [AIV -> Nat] /\ pvReady \in [AIV -> Nat]
           /\ mte2 = [v \in AIV |-> mte2[v]] /\ vec = [v \in AIV |-> vec[v]] /\ mte3 = [v \in AIV |-> mte3[v]]
           /\ at = [u \in Units |-> at[u]]
           /\ tasks \in TaskLists
  BY DEF TypeOK, Units

\* What the flags count, when units pass instructions and the pipes do none.
LEMMA CountedStays ==
    ASSUME tasks' = tasks, DoneStays, NEW v \in AIV
    PROVE  /\ PassedGrows(v, {}) => Announced(v)' = Announced(v) /\ Weighted(v)' = Weighted(v)
           /\ PassedGrows(AIC, {}) => Softened(v)' = Softened(v)
  <1>1. QKs' = QKs /\ \A a : PVOf(a)' = PVOf(a)
    BY TasksStay
  <1>2. Stored' = Stored /\ AivStored(v)' = AivStored(v)
    BY DEF DoneStays, AicDoneStays, AivDoneStays
  <1>3. PassedGrows(v, {}) => Announced(v)' = Announced(v)
    BY <1>1, <1>2 DEF PassedGrows, Announced
  <1>4. PassedGrows(v, {}) => Weighted(v)' = Weighted(v)
    BY <1>1, <1>2 DEF PassedGrows, Weighted
  <1>5. PassedGrows(AIC, {}) => Softened(v)' = Softened(v)
    BY <1>1, <1>2 DEF PassedGrows, Softened
  <1> QED BY <1>3, <1>4, <1>5

\* An AIV passes a softmax.
LEMMA CountedQK ==
    ASSUME IInv, tasks' = tasks, DoneStays, NEW v \in AIV, NEW op, op.unit = "QK", PassedGrows(v, {op})
    PROVE  Announced(v)' = Announced(v) \ {op} /\ Weighted(v)' = Weighted(v)
  <1>1. QKs' = QKs /\ \A a : PVOf(a)' = PVOf(a)
    BY TasksStay
  <1>2. Stored' = Stored
    BY DEF DoneStays, AicDoneStays
  <1>3. \A a \in QKs : PVOf(a) # op
    BY OtherOps DEF IInv, TypeOK, QKs
  <1>4. Announced(v)' = Announced(v) \ {op}
    BY <1>1, <1>2 DEF PassedGrows, Announced
  <1>5. Weighted(v)' = Weighted(v)
    BY <1>1, <1>2, <1>3 DEF PassedGrows, Weighted
  <1> QED BY <1>4, <1>5

\* A unit passes the second half of a stack.
LEMMA CountedPV ==
    ASSUME IInv, tasks' = tasks, DoneStays, NEW op \in Ops, op.unit = "PV",
           NEW u \in Units, PassedGrows(u, {op} \cup IF op.last THEN {OOf(op)} ELSE {})
    PROVE  /\ u \in AIV => Announced(u)' = Announced(u) /\ Weighted(u)' = Weighted(u) \ {QKOf(op)}
           /\ u = AIC => \A v \in AIV : Softened(v)' = Softened(v) \ {QKOf(op)}
  <1>0. tasks \in TaskLists
    BY DEF IInv, TypeOK
  <1>1. QKs' = QKs /\ \A a : PVOf(a)' = PVOf(a)
    BY TasksStay
  <1>2. Stored' = Stored /\ \A v \in AIV : AivStored(v)' = AivStored(v)
    BY DEF DoneStays, AicDoneStays, AivDoneStays
  <1>3. \A a \in QKs : a \in Ops /\ a.unit = "QK" /\ PVOf(a) \in Ops /\ PVOf(a).unit = "PV" /\ QKOf(PVOf(a)) = a
    BY <1>0, OtherOps, HalvesInOrder DEF QKs
  <1>4. PVOf(QKOf(op)) = op /\ OOf(op).unit = "O"
    BY <1>0, HalvesInOrder, OtherOps
  <1> DEFINE ops == {op} \cup IF op.last THEN {OOf(op)} ELSE {}
  <1>5. \A a \in QKs : a \notin ops /\ (PVOf(a) \in ops <=> a = QKOf(op))
    BY <1>3, <1>4
  <1>6. Passed(u)' = Passed(u) \cup ops
    BY DEF PassedGrows
  <1> HIDE DEF ops
  <1>7. ASSUME u \in AIV PROVE Announced(u)' = Announced(u) /\ Weighted(u)' = Weighted(u) \ {QKOf(op)}
    <2>1. Announced(u)' = Announced(u)
      BY <1>1, <1>2, <1>5, <1>6 DEF Announced
    <2>2. Weighted(u)' = Weighted(u) \ {QKOf(op)}
      BY <1>1, <1>2, <1>5, <1>6 DEF Weighted
    <2> QED BY <2>1, <2>2
  <1>8. ASSUME u = AIC, NEW v \in AIV PROVE Softened(v)' = Softened(v) \ {QKOf(op)}
    BY <1>1, <1>2, <1>5, <1>6, <1>8 DEF Softened
  <1> QED BY <1>7, <1>8

\* EmptyTurn preserves the invariant.
LEMMA EmptyTurnKeeps ==
    ASSUME IInv, NEW u \in Units, EmptyTurn(u)
    PROVE  IInv'
  <1>1. tasks' = tasks /\ Issued(u) /\ UNCHANGED <<aicVars, workspace, flags, queues, ub, output>>
    BY DEF EmptyTurn
  <1>2. TypeOK /\ tasks \in TaskLists /\ AtOK(u) /\ QueuesInOrder /\ FlagsCount /\ Waited
    BY DEF IInv, TypeOK, AtsOK, Units
  <1>3. Position(u, Onward(u)) /\ Behind(u, Onward(u)) = Passed(u) \cup {}
    BY <1>2, OnwardPV DEF EmptyTurn
  <1>4. AtsOK' /\ at' = [w \in Units |-> at'[w]] /\ \A w \in Units : PassedGrows(w, {})
    BY <1>1, <1>3, IssuedPasses
  <1>5. AIC \in Units /\ \A v \in AIV : v \in Units
    BY DEF Units
  <1>6. AicDoneStays /\ AicQueuesInOrder'
    BY <1>1, <1>2, <1>4, <1>5, AicPipesStay, QueuesByUnit DEF aicVars
  <1>7. \A v \in AIV : AivDoneStays(v) /\ AivQueuesInOrder(v)'
    BY <1>1, <1>2, <1>4, <1>5, AivPipesStay, QueuesByUnit DEF queues
  <1>8. DoneStays /\ QueuesInOrder'
    BY <1>6, <1>7, QueuesByUnitNext DEF DoneStays
  <1>9. Buffers'
    BY <1>1, <1>8, BuffersStay DEF aicVars, workspace
  <1>10. TypeOK'
    BY <1>1, <1>2, <1>4, TypesStay, FlagTypes DEF aicVars, workspace, flags, queues
  <1>11. FlagsCount'
    <2>1. \A v \in AIV : Announced(v)' = Announced(v) /\ Weighted(v)' = Weighted(v) /\ Softened(v)' = Softened(v)
      BY <1>1, <1>4, <1>5, <1>8, CountedStays
    <2> QED BY <1>1, <1>2, <2>1 DEF FlagsCount, flags
  <1>12. Waited'
    <2>1. QKs' = QKs /\ \A a : PVOf(a)' = PVOf(a)
      BY <1>1, TasksStay
    <2> QED BY <1>2, <1>4, <1>5, <1>8, <2>1 DEF Waited, PassedGrows, DoneStays, AicDoneStays, AivDoneStays
  <1> QED BY <1>4, <1>8, <1>9, <1>10, <1>11, <1>12, InvByParts

\* The AIC issues a load of Q or a multiplication of Q: no flag is concerned.
LEMMA AicQKeeps ==
    ASSUME IInv, NEW op, op = OpOf(AIC), op.unit \in {"Q", "QK"}, Issuing(AIC, op, {}), Issued(AIC),
           UNCHANGED <<tasks, l1, l0c, workspace, flags, queues, ub, output>>,
           op.unit = "Q" => aicMte2' = Append(aicMte2, op) /\ cube' = cube,
           op.unit = "QK" => aicMte2' = aicMte2 /\ cube' = Append(cube, op)
    PROVE  IInv'
  <1>2. TypeOK /\ tasks \in TaskLists /\ QueuesInOrder /\ FlagsCount /\ Waited
    BY DEF IInv, TypeOK
  <1>3. Position(AIC, Onward(AIC)) /\ Behind(AIC, Onward(AIC)) = Passed(AIC) \cup {op}
    BY DEF Issuing
  <1>5. AIC \in Units /\ AIC \notin AIV /\ \A v \in AIV : v \in Units /\ v # AIC
    BY UnitsAssumption DEF Units
  <1>4. /\ AtsOK' /\ at' = [w \in Units |-> at'[w]]
        /\ PassedGrows(AIC, {op}) /\ \A v \in AIV : PassedGrows(v, {})
    BY <1>3, <1>5, IssuedPasses
  <1>6. AicDoneStays /\ AicQueuesInOrder'
    <2>1. PassedGrows(AIC, {op} \cup {})
      BY <1>4
    <2> QED BY <2>1, AicIssues
  <1>7. \A v \in AIV : AivDoneStays(v) /\ AivQueuesInOrder(v)'
    BY <1>2, <1>4, AivPipesStay, QueuesByUnit DEF queues
  <1>8. DoneStays /\ QueuesInOrder'
    BY <1>6, <1>7, QueuesByUnitNext DEF DoneStays
  <1>9. Buffers'
    BY <1>8, BuffersStay DEF workspace
  <1>10. TypeOK'
    BY <1>2, <1>4, TypesStay, FlagTypes DEF workspace, flags, queues
  <1>0. QKs' = QKs /\ (\A a : PVOf(a)' = PVOf(a)) /\ \A a \in QKs : PVOf(a) # op
    BY <1>2, TasksStay, OtherOps DEF QKs
  <1>11. FlagsCount'
    <2>1. ASSUME NEW v \in AIV
          PROVE  Announced(v)' = Announced(v) /\ Weighted(v)' = Weighted(v) /\ Softened(v)' = Softened(v)
      <3>1. Announced(v)' = Announced(v) /\ Weighted(v)' = Weighted(v)
        BY <1>4, <1>8, CountedStays
      <3>2. Softened(v)' = Softened(v)
        BY <1>0, <1>4, <1>7 DEF Softened, PassedGrows, AivDoneStays
      <3> QED BY <3>1, <3>2
    <2> QED BY <1>2, <2>1 DEF FlagsCount, flags
  <1>12. Waited'
    BY <1>0, <1>2, <1>4, <1>8 DEF Waited, PassedGrows, DoneStays, AicDoneStays, AivDoneStays
  <1> QED BY <1>4, <1>8, <1>9, <1>10, <1>11, <1>12, InvByParts

\* AicLoadQ preserves the invariant.
LEMMA AicLoadQKeeps == ASSUME IInv, AicLoadQ PROVE IInv'
  <1>1. tasks \in TaskLists /\ AtOK(AIC) /\ AIC \in Units
    BY DEF IInv, TypeOK, AtsOK, Units
  <1>2. Issuing(AIC, OpOf(AIC), {}) /\ OpOf(AIC).unit = "Q"
    BY <1>1, OnwardQ DEF AicLoadQ
  <1> QED BY <1>2, AicQKeeps DEF AicLoadQ

\* AicIssueQK preserves the invariant.
LEMMA AicIssueQKKeeps == ASSUME IInv, AicIssueQK PROVE IInv'
  <1>1. tasks \in TaskLists /\ AtOK(AIC) /\ AIC \in Units
    BY DEF IInv, TypeOK, AtsOK, Units
  <1>2. Issuing(AIC, OpOf(AIC), {}) /\ OpOf(AIC).unit = "QK"
    BY <1>1, OnwardQK DEF AicIssueQK
  <1> QED BY <1>2, AicQKeeps DEF AicIssueQK

\* AicIssuePV preserves the invariant.
LEMMA AicIssuePVKeeps == ASSUME IInv, AicIssuePV PROVE IInv'
  <1> DEFINE op == OpOf(AIC)
             more == IF op.last THEN {OOf(op)} ELSE {}
  <1>2. TypeOK /\ tasks \in TaskLists /\ QueuesInOrder /\ FlagsCount /\ Waited /\ AtOK(AIC)
    BY DEF IInv, TypeOK, AtsOK
  <1>5. AIC \in Units /\ AIC \notin AIV /\ \A v \in AIV : v \in Units /\ v # AIC
    BY UnitsAssumption DEF Units
  <1>1. Issuing(AIC, op, more) /\ op.unit = "PV" /\ op \in Ops
    <2>1. at[AIC].part = "PV" /\ PVDue(TaskOf(AIC), at[AIC].turn)
      BY DEF AicIssuePV, Issues
    <2>2. Issuing(AIC, op, more) /\ op.unit = "PV"
      BY <1>2, <1>5, <2>1, OnwardPV
    <2> QED BY <2>2 DEF Issuing
  <1> HIDE DEF op
  <1>3. /\ Issued(AIC) /\ RaisedForAic(softmaxReady) /\ softmaxReady' = WaitedByAic(softmaxReady)
        /\ cube' = Append(cube, op) /\ aicMte2' = Append(aicMte2, op)
        /\ UNCHANGED <<tasks, l1, l0c, workspace, qkReady, pvReady, queues, ub, output>>
    BY DEF AicIssuePV, op
  <1>a. Position(AIC, Onward(AIC)) /\ Behind(AIC, Onward(AIC)) = Passed(AIC) \cup ({op} \cup more)
    BY <1>1 DEF Issuing
  <1>4. /\ AtsOK' /\ at' = [w \in Units |-> at'[w]]
        /\ PassedGrows(AIC, {op} \cup more) /\ \A v \in AIV : PassedGrows(v, {})
    BY <1>3, <1>5, <1>a, IssuedPasses
  <1>b. \A a \in more : a.unit = "O"
    BY <1>1, <1>2, LastAfter
  <1>6. AicDoneStays /\ AicQueuesInOrder'
    BY <1>1, <1>3, <1>4, <1>b, AicIssues
  <1>7. \A v \in AIV : AivDoneStays(v) /\ AivQueuesInOrder(v)'
    BY <1>2, <1>3, <1>4, AivPipesStay, QueuesByUnit DEF queues
  <1>8. DoneStays /\ QueuesInOrder'
    BY <1>6, <1>7, QueuesByUnitNext DEF DoneStays
  <1>9. Buffers'
    BY <1>3, <1>8, BuffersStay DEF workspace
  <1>c. \A v \in AIV : QKOf(op) \in Softened(v)
    <2>1. \A v \in AIV : RaisedForAiv(softmaxReady, v)
      BY <1>3 DEF RaisedForAic, RaisedForAiv
    <2> QED BY <1>1, <2>1, PIsReady
  <1>11. FlagsCount' /\ softmaxReady' \in [AIV -> Nat]
    <2>1. ASSUME NEW v \in AIV
          PROVE  /\ qkReady'[v] = Cardinality(Announced(v)') /\ pvReady'[v] = Cardinality(Weighted(v)')
                 /\ softmaxReady'[v] = Cardinality(Softened(v)') /\ softmaxReady'[v] \in Nat
      <3>1. Announced(v)' = Announced(v) /\ Weighted(v)' = Weighted(v)
        BY <1>3, <1>4, <1>8, CountedStays
      <3>2. Softened(v)' = Softened(v) \ {QKOf(op)}
        BY <1>1, <1>3, <1>4, <1>5, <1>8, CountedPV
      <3>3. IsFiniteSet(Softened(v)) /\ IsFiniteSet(Softened(v)')
        BY <3>2, FlagSetsSize, FS_RemoveElement
      <3>4. Cardinality(Softened(v)') = Cardinality(Softened(v)) - 1
        BY <1>c, <3>2, <3>3, CountDown
      <3>5. softmaxReady'[v] = softmaxReady[v] - 1
        BY <1>3 DEF WaitedByAic
      <3>6. Cardinality(Softened(v)') \in Nat
        BY <3>3, FS_CardinalityType
      <3>7. /\ qkReady[v] = Cardinality(Announced(v)) /\ pvReady[v] = Cardinality(Weighted(v))
            /\ softmaxReady[v] = Cardinality(Softened(v))
        BY <1>2 DEF FlagsCount
      <3> QED BY <1>3, <3>1, <3>4, <3>5, <3>6, <3>7
    <2>2. softmaxReady' = [v \in AIV |-> softmaxReady'[v]]
      BY <1>3 DEF WaitedByAic
    <2> QED BY <2>1, <2>2 DEF FlagsCount
  <1>10. TypeOK'
    BY <1>2, <1>3, <1>4, <1>11, TypesStay, FlagTypes DEF workspace, queues
  <1>12. Waited'
    <2>1. QKs' = QKs /\ (\A a : PVOf(a)' = PVOf(a))
      BY <1>3, TasksStay
    <2>2. ASSUME NEW a \in QKs, NEW v \in AIV, PVOf(a) \in Passed(AIC)' PROVE a \in AivStored(v)
      <3>1. PVOf(a).unit = "PV" /\ QKOf(PVOf(a)) = a
        BY <1>2, OtherOps, HalvesInOrder DEF QKs
      <3>2. PVOf(a) \in Passed(AIC) \/ PVOf(a) = op
        BY <1>4, <1>b, <2>2, <3>1 DEF PassedGrows
      <3> QED BY <1>2, <1>c, <3>1, <3>2 DEF Waited, Softened
    <2> QED BY <1>2, <1>4, <1>8, <2>1, <2>2 DEF Waited, PassedGrows, DoneStays, AicDoneStays, AivDoneStays
  <1> QED BY <1>4, <1>8, <1>9, <1>10, <1>11, <1>12, InvByParts

\* One AIV issues an instruction: the AIC and the other AIVs stay.
LEMMA AivAlone ==
    ASSUME IInv, tasks' = tasks, NEW v \in AIV, NEW ops, Issued(v),
           Position(v, Onward(v)), Behind(v, Onward(v)) = Passed(v) \cup ops,
           UNCHANGED <<aicVars, workspace, softmaxReady, ub, output>>,
           mte2' = [mte2 EXCEPT ![v] = mte2'[v]],
           vec' = [vec EXCEPT ![v] = vec'[v]],
           mte3' = [mte3 EXCEPT ![v] = mte3'[v]],
           AivDoneStays(v), AivQueuesInOrder(v)'
    PROVE  /\ DoneStays /\ QueuesInOrder' /\ AtsOK' /\ Buffers'
           /\ PassedGrows(AIC, {}) /\ PassedGrows(v, ops)
           /\ \A w \in AIV : w # v => PassedGrows(w, {})
           /\ qkReady' \in [AIV -> Nat] /\ pvReady' \in [AIV -> Nat] => TypeOK'
  <1>2. TypeOK /\ tasks \in TaskLists /\ QueuesInOrder
    BY DEF IInv, TypeOK
  <1>5. AIC \in Units /\ v \in Units /\ AIC # v /\ \A w \in AIV : w \in Units
    BY UnitsAssumption DEF Units
  <1>4. /\ AtsOK' /\ at' = [w \in Units |-> at'[w]]
        /\ PassedGrows(v, ops) /\ \A w \in Units : w # v => PassedGrows(w, {})
    BY <1>5, IssuedPasses
  <1>6. AicDoneStays /\ AicQueuesInOrder'
    BY <1>2, <1>4, <1>5, AicPipesStay, QueuesByUnit DEF aicVars
  <1>3. /\ mte2' = [w \in AIV |-> mte2'[w]] /\ vec' = [w \in AIV |-> vec'[w]] /\ mte3' = [w \in AIV |-> mte3'[w]]
        /\ \A w \in AIV : w # v => mte2'[w] = mte2[w] /\ vec'[w] = vec[w] /\ mte3'[w] = mte3[w]
    BY <1>2, FlagTypes
  <1>7. \A w \in AIV : AivDoneStays(w) /\ AivQueuesInOrder(w)'
    <2>1. ASSUME NEW w \in AIV, w # v PROVE AivDoneStays(w) /\ AivQueuesInOrder(w)'
      BY <1>2, <1>3, <1>4, <1>5, <2>1, AivPipesStay, QueuesByUnit
    <2> QED BY <2>1
  <1>8. DoneStays /\ QueuesInOrder'
    BY <1>6, <1>7, QueuesByUnitNext DEF DoneStays
  <1>9. Buffers'
    BY <1>8, BuffersStay DEF aicVars, workspace
  <1>10. qkReady' \in [AIV -> Nat] /\ pvReady' \in [AIV -> Nat] => TypeOK'
    BY <1>2, <1>3, <1>4, TypesStay, FlagTypes DEF aicVars, workspace
  <1> QED BY <1>4, <1>5, <1>8, <1>9, <1>10

\* A queue is a sequence of instructions.
LEMMA QueuesTyped ==
    ASSUME IInv, NEW v \in AIV
    PROVE  mte2[v] \in Seq(Ops) /\ vec[v] \in Seq(Ops) /\ mte3[v] \in Seq(Ops)
  <1>1. /\ mte2[v] \in Seq(ForMte2(v)) /\ vec[v] \in Seq(ForVec(v)) /\ mte3[v] \in Seq(ForMte3(v))
    BY DEF IInv, QueuesInOrder, InOrder
  <1>2. ForMte2(v) \subseteq Ops /\ ForVec(v) \subseteq Ops /\ ForMte3(v) \subseteq Ops
    BY DEF ForMte2, ForVec, ForMte3, Passed, Behind
  <1>3. \A S : S \subseteq Ops => Seq(S) \subseteq Seq(Ops)
    OBVIOUS
  <1> QED BY <1>1, <1>2, <1>3

\* A queue after one more instruction.
LEMMA QueueOne ==
    ASSUME NEW q, NEW v \in AIV, q = [w \in AIV |-> q[w]], NEW S, q[v] \in Seq(S), NEW op \in S, NEW r,
           r = [q EXCEPT ![v] = @ \o <<op>>]
    PROVE  r[v] = Append(q[v], op) /\ r = [q EXCEPT ![v] = r[v]]
  <1>1. r[v] = q[v] \o <<op>>
    OBVIOUS
  <1>2. q[v] \o <<op>> = Append(q[v], op)
    OBVIOUS
  <1>3. r = [q EXCEPT ![v] = r[v]]
    OBVIOUS
  <1> QED BY <1>1, <1>2, <1>3

\* A queue left alone, as an update.
LEMMA QueueNone ==
    ASSUME NEW q, NEW v \in AIV, q = [w \in AIV |-> q[w]]
    PROVE  q = [q EXCEPT ![v] = q[v]]
  OBVIOUS

\* AivSoftmax preserves the invariant.
LEMMA AivSoftmaxKeeps == ASSUME IInv, NEW v \in AIV, AivSoftmax(v) PROVE IInv'
  <1> DEFINE op == OpOf(v)
  <1>2. TypeOK /\ tasks \in TaskLists /\ QueuesInOrder /\ FlagsCount /\ Waited /\ AtOK(v) /\ v \in Units
    BY DEF IInv, TypeOK, AtsOK, Units
  <1>1. Issuing(v, op, {}) /\ op.unit = "QK" /\ op \in Ops
    <2>1. Issuing(v, op, {}) /\ op.unit = "QK"
      BY <1>2, OnwardQK DEF AivSoftmax
    <2> QED BY <2>1 DEF Issuing
  <1> HIDE DEF op
  <1>3. /\ Issued(v) /\ RaisedForAiv(qkReady, v) /\ qkReady' = WaitedByAiv(qkReady, v)
        /\ UNCHANGED <<tasks, aicVars, workspace, softmaxReady, pvReady, ub, output>>
        /\ HasRows(v, op.task) => Queue(mte2, v, <<op>>) /\ Queue(vec, v, <<op>>)
        /\ ~HasRows(v, op.task) => UNCHANGED <<mte2, vec>>
        /\ Queue(mte3, v, <<op>>)
    BY DEF AivSoftmax, op
  <1>4. Position(v, Onward(v)) /\ Behind(v, Onward(v)) = Passed(v) \cup {op}
    BY <1>1 DEF Issuing
  <1>5. AIC \in Units /\ v \in Units /\ AIC # v /\ \A w \in AIV : w \in Units
    BY UnitsAssumption DEF Units
  <1>6. PassedGrows(v, {op})
    BY <1>3, <1>4, <1>5, IssuedPasses
  <1>7. mte2[v] \in Seq(Ops) /\ vec[v] \in Seq(Ops) /\ mte3[v] \in Seq(Ops)
    BY QueuesTyped
  <1>8. /\ HasRows(v, op.task) => mte2'[v] = Append(mte2[v], op) /\ vec'[v] = Append(vec[v], op)
        /\ ~HasRows(v, op.task) => mte2'[v] = mte2[v] /\ vec'[v] = vec[v]
        /\ mte3'[v] = Append(mte3[v], op)
        /\ mte2' = [mte2 EXCEPT ![v] = mte2'[v]] /\ vec' = [vec EXCEPT ![v] = vec'[v]]
        /\ mte3' = [mte3 EXCEPT ![v] = mte3'[v]]
    <2>1. /\ mte2 = [w \in AIV |-> mte2[w]] /\ vec = [w \in AIV |-> vec[w]] /\ mte3 = [w \in AIV |-> mte3[w]]
      BY <1>2, FlagTypes
    <2>2. mte3'[v] = Append(mte3[v], op) /\ mte3' = [mte3 EXCEPT ![v] = mte3'[v]]
      BY <1>1, <1>3, <1>7, <2>1, QueueOne DEF Queue
    <2>3. HasRows(v, op.task) => /\ mte2'[v] = Append(mte2[v], op) /\ mte2' = [mte2 EXCEPT ![v] = mte2'[v]]
                                 /\ vec'[v] = Append(vec[v], op) /\ vec' = [vec EXCEPT ![v] = vec'[v]]
      BY <1>1, <1>3, <1>7, <2>1, QueueOne DEF Queue
    <2>4. ~HasRows(v, op.task) => /\ mte2'[v] = mte2[v] /\ mte2' = [mte2 EXCEPT ![v] = mte2'[v]]
                                  /\ vec'[v] = vec[v] /\ vec' = [vec EXCEPT ![v] = vec'[v]]
      BY <1>3, <2>1, QueueNone
    <2> QED BY <2>2, <2>3, <2>4
  <1>9. AivDoneStays(v) /\ AivQueuesInOrder(v)'
    BY <1>1, <1>3, <1>6, <1>8, AivIssuesQK
  <1>10. /\ DoneStays /\ QueuesInOrder' /\ AtsOK' /\ Buffers'
         /\ PassedGrows(AIC, {})
         /\ \A w \in AIV : w # v => PassedGrows(w, {})
         /\ qkReady' \in [AIV -> Nat] /\ pvReady' \in [AIV -> Nat] => TypeOK'
    BY <1>3, <1>4, <1>8, <1>9, AivAlone
  <1>11. op \in Announced(v) /\ op \in QKs
    BY <1>1, <1>3, QKIsReady
  <1>12. FlagsCount' /\ qkReady' \in [AIV -> Nat]
    <2>1. ASSUME NEW w \in AIV
          PROVE  /\ qkReady'[w] = Cardinality(Announced(w)') /\ qkReady'[w] \in Nat
                 /\ pvReady[w] = Cardinality(Weighted(w)')
                 /\ softmaxReady[w] = Cardinality(Softened(w)')
      <3>0. /\ qkReady[w] = Cardinality(Announced(w)) /\ pvReady[w] = Cardinality(Weighted(w))
            /\ softmaxReady[w] = Cardinality(Softened(w)) /\ qkReady[w] \in Nat
        BY <1>2, FlagTypes DEF FlagsCount
      <3>1. Softened(w)' = Softened(w)
        BY <1>3, <1>10, CountedStays
      <3>2. CASE w = v
        <4>1. Announced(v)' = Announced(v) \ {op} /\ Weighted(v)' = Weighted(v)
          BY <1>1, <1>3, <1>6, <1>10, CountedQK
        <4>2. IsFiniteSet(Announced(v)) /\ IsFiniteSet(Announced(v)')
          BY <4>1, FlagSetsSize, FS_RemoveElement
        <4>3. Cardinality(Announced(v)') = Cardinality(Announced(v)) - 1 /\ Cardinality(Announced(v)') \in Nat
          BY <1>11, <4>1, <4>2, CountDown, FS_CardinalityType
        <4>4. qkReady'[v] = qkReady[v] - 1
          BY <1>2, <1>3, FlagTypes DEF WaitedByAiv
        <4> QED BY <3>0, <3>1, <3>2, <4>1, <4>3, <4>4
      <3>3. CASE w # v
        <4>1. Announced(w)' = Announced(w) /\ Weighted(w)' = Weighted(w)
          BY <1>3, <1>10, <3>3, CountedStays
        <4>2. qkReady'[w] = qkReady[w]
          BY <1>2, <1>3, <3>3, FlagTypes DEF WaitedByAiv
        <4> QED BY <3>0, <3>1, <4>1, <4>2
      <3> QED BY <3>2, <3>3
    <2>2. qkReady' = [w \in AIV |-> qkReady'[w]]
      BY <1>2, <1>3, FlagTypes DEF WaitedByAiv
    <2> QED BY <1>3, <2>1, <2>2 DEF FlagsCount
  <1>13. TypeOK'
    BY <1>2, <1>3, <1>10, <1>12, FlagTypes
  <1>14. Waited'
    <2>1. QKs' = QKs /\ (\A a : PVOf(a)' = PVOf(a))
      BY <1>3, TasksStay
    <2>2. \A a \in QKs : PVOf(a) # op
      BY <1>1, <1>2, OtherOps DEF QKs
    <2>3. op \in Stored
      BY <1>11 DEF Announced
    <2>4. \A w \in AIV : PassedGrows(w, IF w = v THEN {op} ELSE {})
      BY <1>6, <1>10
    <2> QED BY <1>2, <1>10, <2>1, <2>2, <2>3, <2>4
         DEF Waited, PassedGrows, DoneStays, AicDoneStays, AivDoneStays
  <1> QED BY <1>10, <1>12, <1>13, <1>14, InvByParts

-----------------------------------------------------------------------------
(* Steps of the pipes: what they have done grows by the head of the        *)
(* queue, the next in the order of the loops.                              *)

\* A queue after two more instructions.
LEMMA QueueTwo ==
    ASSUME NEW q, NEW v \in AIV, q = [w \in AIV |-> q[w]], NEW S, q[v] \in Seq(S), NEW op \in S, NEW last \in S,
           NEW r, r = [q EXCEPT ![v] = @ \o (<<op>> \o <<last>>)]
    PROVE  r[v] = Append(Append(q[v], op), last) /\ r = [q EXCEPT ![v] = r[v]]
  <1>1. r[v] = q[v] \o (<<op>> \o <<last>>)
    OBVIOUS
  <1>2. q[v] \o (<<op>> \o <<last>>) = Append(Append(q[v], op), last)
    OBVIOUS
  <1>3. r = [q EXCEPT ![v] = r[v]]
    OBVIOUS
  <1> QED BY <1>1, <1>2, <1>3

\* A queue after none.
LEMMA QueueEmpty ==
    ASSUME NEW q, NEW v \in AIV, q = [w \in AIV |-> q[w]], NEW S, q[v] \in Seq(S),
           NEW r, r = [q EXCEPT ![v] = @ \o <<>>]
    PROVE  r[v] = q[v] /\ r = [q EXCEPT ![v] = r[v]]
  <1>1. r[v] = q[v] \o <<>>
    OBVIOUS
  <1>2. q[v] \o <<>> = q[v]
    OBVIOUS
  <1>3. r = [q EXCEPT ![v] = r[v]]
    OBVIOUS
  <1> QED BY <1>1, <1>2, <1>3

\* AivRescaleO preserves the invariant.
LEMMA AivRescaleOKeeps == ASSUME IInv, NEW v \in AIV, AivRescaleO(v) PROVE IInv'
  <1> DEFINE op == OpOf(v)
             more == IF op.last THEN {OOf(op)} ELSE {}
             stored == [op EXCEPT !.unit = "O"]
             last == IF op.last THEN <<stored>> ELSE <<>>
  <1>2. TypeOK /\ tasks \in TaskLists /\ QueuesInOrder /\ FlagsCount /\ Waited /\ AtOK(v) /\ v \in Units
    BY DEF IInv, TypeOK, AtsOK, Units
  <1>1. Issuing(v, op, more) /\ op.unit = "PV" /\ op \in Ops
    <2>1. at[v].part = "PV" /\ PVDue(TaskOf(v), at[v].turn)
      BY DEF AivRescaleO, Issues
    <2>2. Issuing(v, op, more) /\ op.unit = "PV"
      BY <1>2, <2>1, OnwardPV
    <2> QED BY <2>2 DEF Issuing
  <1> HIDE DEF op
  <1>3. /\ Issued(v) /\ RaisedForAiv(pvReady, v) /\ pvReady' = WaitedByAiv(pvReady, v)
        /\ UNCHANGED <<tasks, aicVars, workspace, qkReady, softmaxReady, ub, output>>
        /\ HasRows(v, op.task) => Queue(mte2, v, <<op>>) /\ Queue(vec, v, <<op>> \o last) /\ Queue(mte3, v, last)
        /\ ~HasRows(v, op.task) => UNCHANGED queues
    BY DEF AivRescaleO, op
  <1>4. Position(v, Onward(v)) /\ Behind(v, Onward(v)) = Passed(v) \cup ({op} \cup more)
    BY <1>1 DEF Issuing
  <1>5. AIC \in Units /\ v \in Units /\ AIC # v /\ \A w \in AIV : w \in Units
    BY UnitsAssumption DEF Units
  <1>6. PassedGrows(v, {op} \cup more)
    BY <1>3, <1>4, <1>5, IssuedPasses
  <1>7. mte2[v] \in Seq(Ops) /\ vec[v] \in Seq(Ops) /\ mte3[v] \in Seq(Ops)
    BY QueuesTyped
  <1>a. op.last => stored = OOf(op) /\ OOf(op) \in Ops
    <2>1. op = PVOf(op) /\ (op.last => op.count = N(op.task) - 1) /\ OOf(op) \in Ops
      BY <1>1, <1>2, OpFields, OtherOps
    <2> QED BY <2>1 DEF PVOf, OOf, OAt
  <1>8. /\ HasRows(v, op.task) =>
             /\ mte2'[v] = Append(mte2[v], op)
             /\ vec'[v] = IF op.last THEN Append(Append(vec[v], op), OOf(op)) ELSE Append(vec[v], op)
             /\ mte3'[v] = IF op.last THEN Append(mte3[v], OOf(op)) ELSE mte3[v]
        /\ ~HasRows(v, op.task) => mte2'[v] = mte2[v] /\ vec'[v] = vec[v] /\ mte3'[v] = mte3[v]
        /\ mte2' = [mte2 EXCEPT ![v] = mte2'[v]] /\ vec' = [vec EXCEPT ![v] = vec'[v]]
        /\ mte3' = [mte3 EXCEPT ![v] = mte3'[v]]
    <2>1. /\ mte2 = [w \in AIV |-> mte2[w]] /\ vec = [w \in AIV |-> vec[w]] /\ mte3 = [w \in AIV |-> mte3[w]]
      BY <1>2, FlagTypes
    <2>2. CASE ~HasRows(v, op.task)
      BY <1>3, <2>1, <2>2, QueueNone DEF queues
    <2>3. CASE HasRows(v, op.task)
      <3>1. mte2'[v] = Append(mte2[v], op) /\ mte2' = [mte2 EXCEPT ![v] = mte2'[v]]
        BY <1>1, <1>3, <1>7, <2>1, <2>3, QueueOne DEF Queue
      <3>2. CASE op.last
        <4>1. last = <<OOf(op)>> /\ OOf(op) \in Ops
          BY <1>a, <3>2
        <4>2. /\ vec' = [vec EXCEPT ![v] = @ \o (<<op>> \o <<OOf(op)>>)]
              /\ mte3' = [mte3 EXCEPT ![v] = @ \o <<OOf(op)>>]
          BY <1>3, <2>3, <4>1 DEF Queue
        <4>3. mte3'[v] = Append(mte3[v], OOf(op)) /\ mte3' = [mte3 EXCEPT ![v] = mte3'[v]]
          BY <1>7, <2>1, <4>1, <4>2, QueueOne
        <4>4. vec'[v] = Append(Append(vec[v], op), OOf(op)) /\ vec' = [vec EXCEPT ![v] = vec'[v]]
          BY <1>1, <1>7, <2>1, <4>1, <4>2, QueueTwo
        <4> QED BY <2>3, <3>1, <3>2, <4>3, <4>4
      <3>3. CASE ~op.last
        <4>1. last = <<>> /\ <<op>> \o last = <<op>>
          BY <3>3
        <4>2. vec' = [vec EXCEPT ![v] = @ \o <<op>>] /\ mte3' = [mte3 EXCEPT ![v] = @ \o <<>>]
          BY <1>3, <2>3, <4>1 DEF Queue
        <4>3. mte3'[v] = mte3[v] /\ mte3' = [mte3 EXCEPT ![v] = mte3'[v]]
          BY <1>7, <2>1, <4>2, QueueEmpty
        <4>4. vec'[v] = Append(vec[v], op) /\ vec' = [vec EXCEPT ![v] = vec'[v]]
          BY <1>1, <1>7, <2>1, <4>2, QueueOne
        <4> QED BY <2>3, <3>1, <3>3, <4>3, <4>4
      <3> QED BY <3>2, <3>3
    <2> QED BY <2>2, <2>3
  <1>9. AivDoneStays(v) /\ AivQueuesInOrder(v)'
    BY <1>1, <1>3, <1>6, <1>8, AivIssuesPV
  <1>10. /\ DoneStays /\ QueuesInOrder' /\ AtsOK' /\ Buffers'
         /\ PassedGrows(AIC, {})
         /\ \A w \in AIV : w # v => PassedGrows(w, {})
         /\ qkReady' \in [AIV -> Nat] /\ pvReady' \in [AIV -> Nat] => TypeOK'
    BY <1>3, <1>4, <1>8, <1>9, AivAlone
  <1>11. QKOf(op) \in Weighted(v) /\ QKOf(op) \in QKs /\ PVOf(QKOf(op)) = op
    BY <1>1, <1>3, PVIsReady
  <1>12. FlagsCount' /\ pvReady' \in [AIV -> Nat]
    <2>1. ASSUME NEW w \in AIV
          PROVE  /\ pvReady'[w] = Cardinality(Weighted(w)') /\ pvReady'[w] \in Nat
                 /\ qkReady[w] = Cardinality(Announced(w)')
                 /\ softmaxReady[w] = Cardinality(Softened(w)')
      <3>0. /\ qkReady[w] = Cardinality(Announced(w)) /\ pvReady[w] = Cardinality(Weighted(w))
            /\ softmaxReady[w] = Cardinality(Softened(w)) /\ pvReady[w] \in Nat
        BY <1>2, FlagTypes DEF FlagsCount
      <3>1. Softened(w)' = Softened(w)
        BY <1>3, <1>10, CountedStays
      <3>2. CASE w = v
        <4>1. Announced(v)' = Announced(v) /\ Weighted(v)' = Weighted(v) \ {QKOf(op)}
          BY <1>1, <1>3, <1>5, <1>6, <1>10, CountedPV
        <4>2. IsFiniteSet(Weighted(v)) /\ IsFiniteSet(Weighted(v)')
          <5>1. IsFiniteSet(Weighted(v))
            BY FlagSetsSize
          <5>2. IsFiniteSet(Weighted(v) \ {QKOf(op)})
            BY <5>1, FS_RemoveElement
          <5> QED BY <4>1, <5>1, <5>2
        <4>3. Cardinality(Weighted(v)') = Cardinality(Weighted(v)) - 1 /\ Cardinality(Weighted(v)') \in Nat
          <5>1. Cardinality(Weighted(v)') = Cardinality(Weighted(v)) - 1
            BY <1>11, <4>1, <4>2, CountDown
          <5>2. Cardinality(Weighted(v)') \in Nat
            BY <4>2, FS_CardinalityType
          <5> QED BY <5>1, <5>2
        <4>4. pvReady'[v] = pvReady[v] - 1
          BY <1>2, <1>3, FlagTypes DEF WaitedByAiv
        <4> QED BY <3>0, <3>1, <3>2, <4>1, <4>3, <4>4
      <3>3. CASE w # v
        <4>1. Announced(w)' = Announced(w) /\ Weighted(w)' = Weighted(w)
          BY <1>3, <1>10, <3>3, CountedStays
        <4>2. pvReady'[w] = pvReady[w]
          BY <1>2, <1>3, <3>3, FlagTypes DEF WaitedByAiv
        <4> QED BY <3>0, <3>1, <4>1, <4>2
      <3> QED BY <3>2, <3>3
    <2>2. pvReady' = [w \in AIV |-> pvReady'[w]]
      BY <1>2, <1>3, FlagTypes DEF WaitedByAiv
    <2> QED BY <1>3, <2>1, <2>2 DEF FlagsCount
  <1>13. TypeOK'
    BY <1>2, <1>3, <1>10, <1>12, FlagTypes
  <1>14. Waited'
    <2>1. QKs' = QKs /\ (\A a : PVOf(a)' = PVOf(a))
      BY <1>3, TasksStay
    <2>2. \A a \in QKs : a \notin {op} \cup more /\ (PVOf(a) \in {op} \cup more => PVOf(a) = op)
      <3>1. \A m \in more : m.unit = "O"
        BY <1>1, <1>2, LastAfter
      <3>2. \A a \in QKs : a.unit = "QK" /\ PVOf(a).unit = "PV"
        BY <1>2, OtherOps DEF QKs
      <3> QED BY <1>1, <3>1, <3>2
    <2>3. op \in Stored
      BY <1>11 DEF Weighted
    <2>4. \A w \in AIV : PassedGrows(w, IF w = v THEN {op} \cup more ELSE {})
      BY <1>6, <1>10
    <2> HIDE DEF more
    <2> QED BY <1>2, <1>10, <2>1, <2>2, <2>3, <2>4
         DEF Waited, PassedGrows, DoneStays, AicDoneStays, AivDoneStays
  <1> QED BY <1>10, <1>12, <1>13, <1>14, InvByParts

\* Neither the tasks nor what the units have passed change when a pipe executes an instruction.
LEMMA UnitsStay ==
    ASSUME IInv, tasks' = tasks, at' = at
    PROVE  AtsOK' /\ \A u : PassedGrows(u, {})
  <1>1. \A u : Passed(u)' = Passed(u) /\ (AtOK(u) => AtOK(u)')
    BY UnitStays
  <1> QED BY <1>1 DEF IInv, AtsOK, PassedGrows

\* The head of a queue is the next its pipe does.
NextOf(done, given, op) ==
    /\ op \in given /\ op \notin done
    /\ \A a \in done : Before(a, op)
    /\ \A b \in given : b \in done \/ b = op \/ Before(op, b)

\* The head of a queue is the next of what it was given.
LEMMA HeadIsNext ==
    ASSUME tasks \in TaskLists, NEW q, NEW given, given \subseteq Ops, InOrder(q, given), q # <<>>
    PROVE  /\ NextOf(Done(q, given), given, Head(q))
           /\ InOrder(Tail(q), given)
           /\ Done(Tail(q), given) = Done(q, given) \cup {Head(q)}
  <1>1. \A a \in given : ~Before(a, a)
    BY TotalOrder
  <1> QED BY <1>1, Pop DEF NextOf

\* Queues are given instructions of the tasks.
LEMMA GivenAreOps ==
    /\ ForAicMte2 \subseteq Ops /\ ForCube \subseteq Ops
    /\ \A v : ForMte2(v) \subseteq Ops /\ ForVec(v) \subseteq Ops /\ ForMte3(v) \subseteq Ops
  BY DEF ForAicMte2, ForCube, ForMte2, ForVec, ForMte3, Passed, Behind

\* The AIC's queues are given nothing while it does not move.
LEMMA AicGivenStays ==
    ASSUME tasks' = tasks, PassedGrows(AIC, {})
    PROVE  ForAicMte2' = ForAicMte2 /\ ForCube' = ForCube
  BY DEF ForAicMte2, ForCube, PassedGrows

\* A step of the AIC's PIPE_MTE2.
LEMMA LoadStep ==
    ASSUME IInv, tasks' = tasks, at' = at, aicMte2 # <<>>, aicMte2' = Tail(aicMte2), cube' = cube, l0c' = l0c,
           NEW op, op = Head(aicMte2)
    PROVE  /\ NextOf(Loaded, ForAicMte2, op)
           /\ Loaded' = Loaded \cup {op} /\ Multiplied' = Multiplied /\ Stored' = Stored
           /\ AicQueuesInOrder'
  <1>1. tasks \in TaskLists /\ AicQueuesInOrder /\ PassedGrows(AIC, {})
    BY UnitsStay, QueuesByUnit DEF IInv, TypeOK
  <1>2. ForAicMte2' = ForAicMte2 /\ ForCube' = ForCube
    BY <1>1, AicGivenStays
  <1>3. /\ NextOf(Loaded, ForAicMte2, op) /\ InOrder(Tail(aicMte2), ForAicMte2)
        /\ Done(Tail(aicMte2), ForAicMte2) = Loaded \cup {op}
    BY <1>1, HeadIsNext, GivenAreOps DEF AicQueuesInOrder, Loaded
  <1>4. Loaded' = Loaded \cup {op} /\ Multiplied' = Multiplied
    BY <1>2, <1>3 DEF Loaded, Multiplied
  <1>5. Stored' = Stored
    BY <1>4 DEF Stored
  <1>6. AicQueuesInOrder'
    BY <1>1, <1>2, <1>3 DEF AicQueuesInOrder
  <1> QED BY <1>3, <1>4, <1>5, <1>6

\* A step of its PIPE_MTE1 and PIPE_M.
LEMMA MultiplyStep ==
    ASSUME IInv, tasks' = tasks, at' = at, cube # <<>>, cube' = Tail(cube), aicMte2' = aicMte2,
           NEW op, op = Head(cube), l0c = <<>>, NEW x, l0c' = <<x>>, x.op = op
    PROVE  /\ NextOf(Multiplied, ForCube, op)
           /\ Multiplied' = Multiplied \cup {op} /\ Loaded' = Loaded /\ Stored' = Stored /\ Stored = Multiplied
           /\ AicQueuesInOrder'
  <1>1. tasks \in TaskLists /\ AicQueuesInOrder /\ PassedGrows(AIC, {})
    BY UnitsStay, QueuesByUnit DEF IInv, TypeOK
  <1>2. ForAicMte2' = ForAicMte2 /\ ForCube' = ForCube
    BY <1>1, AicGivenStays
  <1>3. /\ NextOf(Multiplied, ForCube, op) /\ InOrder(Tail(cube), ForCube)
        /\ Done(Tail(cube), ForCube) = Multiplied \cup {op}
    BY <1>1, HeadIsNext, GivenAreOps DEF AicQueuesInOrder, Multiplied
  <1>4. Multiplied' = Multiplied \cup {op} /\ Loaded' = Loaded
    BY <1>2, <1>3 DEF Loaded, Multiplied
  <1>5. Stored' = Stored /\ Stored = Multiplied
    <2>1. {l0c[k].op : k \in 1..Len(l0c)} = {}
      OBVIOUS
    <2>2. {l0c'[k].op : k \in 1..Len(l0c')} = {op}
      <3>1. Len(l0c') = 1 /\ l0c'[1] = x
        OBVIOUS
      <3> QED BY <3>1
    <2>3. op \notin Multiplied
      BY <1>3 DEF NextOf
    <2>4. Stored' = Multiplied' \ {op}
      BY <2>2 DEF Stored
    <2> QED BY <1>4, <2>1, <2>3, <2>4 DEF Stored
  <1>6. AicQueuesInOrder'
    BY <1>1, <1>2, <1>3 DEF AicQueuesInOrder
  <1> QED BY <1>3, <1>4, <1>5, <1>6

\* A step of its PIPE_FIX.
LEMMA StoreStep ==
    ASSUME IInv, tasks' = tasks, at' = at, cube' = cube, aicMte2' = aicMte2,
           l0c # <<>>, l0c' = <<>>, NEW op, op = Head(l0c).op
    PROVE  /\ op \in Multiplied /\ op \notin Stored /\ Stored' = Stored \cup {op}
           /\ Multiplied' = Multiplied /\ Loaded' = Loaded
           /\ op \in Ops /\ op.unit \in {"QK", "PV"}
           /\ AicQueuesInOrder'
  <1>1. tasks \in TaskLists /\ AicQueuesInOrder /\ PassedGrows(AIC, {}) /\ Accumulator
    BY UnitsStay, QueuesByUnit DEF IInv, TypeOK
  <1>2. ForAicMte2' = ForAicMte2 /\ ForCube' = ForCube
    BY <1>1, AicGivenStays
  <1>3. {l0c[k].op : k \in 1..Len(l0c)} = {op} /\ op \in Multiplied
    BY <1>1, InAccumulator
  <1>4. Multiplied' = Multiplied /\ Loaded' = Loaded
    BY <1>2 DEF Loaded, Multiplied
  <1>5. Stored = Multiplied \ {op} /\ Stored' = Multiplied'
    <2>1. {l0c'[k].op : k \in 1..Len(l0c')} = {}
      OBVIOUS
    <2> QED BY <1>3, <2>1 DEF Stored
  <1>6. AicQueuesInOrder'
    BY <1>1, <1>2 DEF AicQueuesInOrder
  <1>7. op \in ForCube
    BY <1>3 DEF Multiplied, Done
  <1>8. op \in Ops /\ op.unit \in {"QK", "PV"}
    BY <1>7, GivenAreOps DEF ForCube
  <1> QED BY <1>3, <1>4, <1>5, <1>6, <1>8

\* A step of the AIC leaves the AIVs alone, one of an AIV the AIC and the others.
LEMMA AivsStay ==
    ASSUME IInv, tasks' = tasks, at' = at, UNCHANGED queues
    PROVE  \A v \in AIV : AivDoneStays(v) /\ AivQueuesInOrder(v)'
  <1>1. \A v \in AIV : AivQueuesInOrder(v) /\ PassedGrows(v, {})
    BY UnitsStay, QueuesByUnit DEF IInv
  <1> QED BY <1>1, AivPipesStay DEF queues

\* The AIC's pipes stay.
LEMMA AicStays ==
    ASSUME IInv, tasks' = tasks, at' = at, UNCHANGED aicVars
    PROVE  AicDoneStays /\ AicQueuesInOrder'
  <1>1. AicQueuesInOrder /\ PassedGrows(AIC, {})
    BY UnitsStay, QueuesByUnit DEF IInv
  <1> QED BY <1>1, AicPipesStay DEF aicVars

\* The pipes of the other AIVs stay.
LEMMA OtherAivsStay ==
    ASSUME IInv, tasks' = tasks, at' = at, NEW v \in AIV,
           NEW m2, NEW ve, NEW m3,
           mte2' = [mte2 EXCEPT ![v] = m2], vec' = [vec EXCEPT ![v] = ve], mte3' = [mte3 EXCEPT ![v] = m3]
    PROVE  /\ \A w \in AIV : w # v => AivDoneStays(w) /\ AivQueuesInOrder(w)'
           /\ mte2'[v] = m2 /\ vec'[v] = ve /\ mte3'[v] = m3
           /\ mte2' = [w \in AIV |-> mte2'[w]] /\ vec' = [w \in AIV |-> vec'[w]] /\ mte3' = [w \in AIV |-> mte3'[w]]
  <1>1. \A w \in AIV : AivQueuesInOrder(w) /\ PassedGrows(w, {})
    BY UnitsStay, QueuesByUnit DEF IInv
  <1>2. /\ mte2'[v] = m2 /\ vec'[v] = ve /\ mte3'[v] = m3
        /\ mte2' = [w \in AIV |-> mte2'[w]] /\ vec' = [w \in AIV |-> vec'[w]] /\ mte3' = [w \in AIV |-> mte3'[w]]
        /\ \A w \in AIV : w # v => mte2'[w] = mte2[w] /\ vec'[w] = vec[w] /\ mte3'[w] = mte3[w]
    BY FlagTypes DEF IInv
  <1> QED BY <1>1, <1>2, AivPipesStay

\* A step of an AIV's PIPE_MTE2.
LEMMA AivLoadStep ==
    ASSUME IInv, tasks' = tasks, at' = at, NEW v \in AIV, mte2[v] # <<>>, mte2'[v] = Tail(mte2[v]),
           vec'[v] = vec[v], mte3'[v] = mte3[v], NEW op, op = Head(mte2[v])
    PROVE  /\ NextOf(AivLoaded(v), ForMte2(v), op)
           /\ AivLoaded(v)' = AivLoaded(v) \cup {op} /\ Computed(v)' = Computed(v) /\ AivStored(v)' = AivStored(v)
           /\ AivQueuesInOrder(v)'
  <1>1. tasks \in TaskLists /\ AivQueuesInOrder(v) /\ PassedGrows(v, {})
    BY UnitsStay, QueuesByUnit DEF IInv, TypeOK
  <1>2. ForMte2(v)' = ForMte2(v) /\ ForVec(v)' = ForVec(v) /\ ForMte3(v)' = ForMte3(v)
    BY <1>1, GivenStays
  <1>3. /\ NextOf(AivLoaded(v), ForMte2(v), op) /\ InOrder(Tail(mte2[v]), ForMte2(v))
        /\ Done(Tail(mte2[v]), ForMte2(v)) = AivLoaded(v) \cup {op}
    BY <1>1, HeadIsNext, GivenAreOps DEF AivQueuesInOrder, AivLoaded
  <1>4. AivLoaded(v)' = AivLoaded(v) \cup {op} /\ Computed(v)' = Computed(v) /\ AivStored(v)' = AivStored(v)
    BY <1>2, <1>3 DEF AivLoaded, Computed, AivStored
  <1>5. AivQueuesInOrder(v)'
    BY <1>1, <1>2, <1>3 DEF AivQueuesInOrder
  <1> QED BY <1>3, <1>4, <1>5

\* A step of its PIPE_V.
LEMMA AivComputeStep ==
    ASSUME IInv, tasks' = tasks, at' = at, NEW v \in AIV, vec[v] # <<>>, vec'[v] = Tail(vec[v]),
           mte2'[v] = mte2[v], mte3'[v] = mte3[v], NEW op, op = Head(vec[v])
    PROVE  /\ NextOf(Computed(v), ForVec(v), op)
           /\ Computed(v)' = Computed(v) \cup {op} /\ AivLoaded(v)' = AivLoaded(v) /\ AivStored(v)' = AivStored(v)
           /\ AivQueuesInOrder(v)'
  <1>1. tasks \in TaskLists /\ AivQueuesInOrder(v) /\ PassedGrows(v, {})
    BY UnitsStay, QueuesByUnit DEF IInv, TypeOK
  <1>2. ForMte2(v)' = ForMte2(v) /\ ForVec(v)' = ForVec(v) /\ ForMte3(v)' = ForMte3(v)
    BY <1>1, GivenStays
  <1>3. /\ NextOf(Computed(v), ForVec(v), op) /\ InOrder(Tail(vec[v]), ForVec(v))
        /\ Done(Tail(vec[v]), ForVec(v)) = Computed(v) \cup {op}
    BY <1>1, HeadIsNext, GivenAreOps DEF AivQueuesInOrder, Computed
  <1>4. Computed(v)' = Computed(v) \cup {op} /\ AivLoaded(v)' = AivLoaded(v) /\ AivStored(v)' = AivStored(v)
    BY <1>2, <1>3 DEF AivLoaded, Computed, AivStored
  <1>5. AivQueuesInOrder(v)'
    BY <1>1, <1>2, <1>3 DEF AivQueuesInOrder
  <1> QED BY <1>3, <1>4, <1>5

\* A step of its PIPE_MTE3.
LEMMA AivStoreStep ==
    ASSUME IInv, tasks' = tasks, at' = at, NEW v \in AIV, mte3[v] # <<>>, mte3'[v] = Tail(mte3[v]),
           mte2'[v] = mte2[v], vec'[v] = vec[v], NEW op, op = Head(mte3[v])
    PROVE  /\ NextOf(AivStored(v), ForMte3(v), op)
           /\ AivStored(v)' = AivStored(v) \cup {op} /\ AivLoaded(v)' = AivLoaded(v) /\ Computed(v)' = Computed(v)
           /\ AivQueuesInOrder(v)'
  <1>1. tasks \in TaskLists /\ AivQueuesInOrder(v) /\ PassedGrows(v, {})
    BY UnitsStay, QueuesByUnit DEF IInv, TypeOK
  <1>2. ForMte2(v)' = ForMte2(v) /\ ForVec(v)' = ForVec(v) /\ ForMte3(v)' = ForMte3(v)
    BY <1>1, GivenStays
  <1>3. /\ NextOf(AivStored(v), ForMte3(v), op) /\ InOrder(Tail(mte3[v]), ForMte3(v))
        /\ Done(Tail(mte3[v]), ForMte3(v)) = AivStored(v) \cup {op}
    BY <1>1, HeadIsNext, GivenAreOps DEF AivQueuesInOrder, AivStored
  <1>4. AivStored(v)' = AivStored(v) \cup {op} /\ AivLoaded(v)' = AivLoaded(v) /\ Computed(v)' = Computed(v)
    BY <1>2, <1>3 DEF AivLoaded, Computed, AivStored
  <1>5. AivQueuesInOrder(v)'
    BY <1>1, <1>2, <1>3 DEF AivQueuesInOrder
  <1> QED BY <1>3, <1>4, <1>5

\* What is next for a pipe is next of all the instructions there are of its kinds.
LEMMA NextInOps ==
    ASSUME tasks \in TaskLists, NEW u \in Units, AtOK(u), NEW done, NEW given, given \subseteq Passed(u),
           NEW op, NextOf(done, given, op), NEW b \in Ops, b \in Passed(u) => b \in given, b.unit # "Q" \/ u = AIC
    PROVE  op \in Ops /\ op \in Passed(u) /\ (b \in done \/ b = op \/ Before(op, b))
  <1>1. op \in given /\ op \in Passed(u) /\ op \in Ops
    BY DEF NextOf, Passed, Behind
  <1>2. CASE b \in given
    BY <1>1, <1>2 DEF NextOf
  <1>3. CASE b \notin Passed(u)
    <2>1. ~Before(b, op)
      BY <1>1, <1>3, PassedPrefix
    <2> QED BY <1>1, <1>3, <2>1, TotalOrder
  <1> QED BY <1>1, <1>2, <1>3

\* The next multiplication.
LEMMA MultiplyNext ==
    ASSUME IInv, NEW op, NextOf(Multiplied, ForCube, op)
    PROVE  /\ op \in Ops /\ op.unit \in {"QK", "PV"} /\ op \in Passed(AIC)
           /\ op \notin Multiplied /\ \A a \in Multiplied : Before(a, op)
           /\ \A b \in Ops : b.unit \in {"QK", "PV"} => b \in Multiplied \/ b = op \/ Before(op, b)
  <1>1. tasks \in TaskLists /\ AtOK(AIC) /\ AIC \in Units
    BY DEF IInv, TypeOK, AtsOK, Units
  <1>2. ForCube \subseteq Passed(AIC)
    BY DEF ForCube
  <1>3. op \in ForCube /\ op \notin Multiplied /\ \A a \in Multiplied : Before(a, op)
    BY DEF NextOf
  <1>4. ASSUME NEW b \in Ops, b.unit \in {"QK", "PV"} PROVE b \in Multiplied \/ b = op \/ Before(op, b)
    BY <1>1, <1>2, <1>4, NextInOps DEF ForCube
  <1> QED BY <1>3, <1>4, GivenAreOps DEF ForCube

\* The next load of the AIC.
LEMMA LoadNext ==
    ASSUME IInv, NEW op, NextOf(Loaded, ForAicMte2, op)
    PROVE  /\ op \in Ops /\ op.unit \in {"Q", "PV"} /\ op \in Passed(AIC)
           /\ op \notin Loaded /\ \A a \in Loaded : Before(a, op)
           /\ \A b \in Ops : b.unit \in {"Q", "PV"} => b \in Loaded \/ b = op \/ Before(op, b)
  <1>1. tasks \in TaskLists /\ AtOK(AIC) /\ AIC \in Units
    BY DEF IInv, TypeOK, AtsOK, Units
  <1>2. ForAicMte2 \subseteq Passed(AIC)
    BY DEF ForAicMte2
  <1>3. op \in ForAicMte2 /\ op \notin Loaded /\ \A a \in Loaded : Before(a, op)
    BY DEF NextOf
  <1>4. ASSUME NEW b \in Ops, b.unit \in {"Q", "PV"} PROVE b \in Loaded \/ b = op \/ Before(op, b)
    BY <1>1, <1>2, <1>4, NextInOps DEF ForAicMte2
  <1> QED BY <1>3, <1>4, GivenAreOps DEF ForAicMte2

\* The next load of an AIV.
LEMMA AivLoadNext ==
    ASSUME IInv, NEW v \in AIV, NEW op, NextOf(AivLoaded(v), ForMte2(v), op)
    PROVE  /\ op \in Ops /\ op.unit \in {"QK", "PV"} /\ op \in Passed(v) /\ HasRows(v, op.task)
           /\ op \notin AivLoaded(v) /\ \A a \in AivLoaded(v) : Before(a, op)
           /\ \A b \in Ops : b.unit \in {"QK", "PV"} /\ HasRows(v, b.task)
                               => b \in AivLoaded(v) \/ b = op \/ Before(op, b)
  <1>1. tasks \in TaskLists /\ AtOK(v) /\ v \in Units
    BY DEF IInv, TypeOK, AtsOK, Units
  <1>2. ForMte2(v) \subseteq Passed(v)
    BY DEF ForMte2
  <1>3. op \in ForMte2(v) /\ op \notin AivLoaded(v) /\ \A a \in AivLoaded(v) : Before(a, op)
    BY DEF NextOf
  <1>4. ASSUME NEW b \in Ops, b.unit \in {"QK", "PV"}, HasRows(v, b.task)
        PROVE  b \in AivLoaded(v) \/ b = op \/ Before(op, b)
    BY <1>1, <1>2, <1>4, NextInOps DEF ForMte2
  <1> QED BY <1>3, <1>4, GivenAreOps DEF ForMte2

\* The next instruction of the vector unit.
LEMMA ComputeNext ==
    ASSUME IInv, NEW v \in AIV, NEW op, NextOf(Computed(v), ForVec(v), op)
    PROVE  /\ op \in Ops /\ op.unit \in {"QK", "PV", "O"} /\ op \in Passed(v) /\ HasRows(v, op.task)
           /\ op \notin Computed(v) /\ \A a \in Computed(v) : Before(a, op)
           /\ \A b \in Ops : b.unit \in {"QK", "PV", "O"} /\ HasRows(v, b.task)
                               => b \in Computed(v) \/ b = op \/ Before(op, b)
  <1>1. tasks \in TaskLists /\ AtOK(v) /\ v \in Units
    BY DEF IInv, TypeOK, AtsOK, Units
  <1>2. ForVec(v) \subseteq Passed(v)
    BY DEF ForVec
  <1>3. op \in ForVec(v) /\ op \notin Computed(v) /\ \A a \in Computed(v) : Before(a, op)
    BY DEF NextOf
  <1>4. ASSUME NEW b \in Ops, b.unit \in {"QK", "PV", "O"}, HasRows(v, b.task)
        PROVE  b \in Computed(v) \/ b = op \/ Before(op, b)
    BY <1>1, <1>2, <1>4, NextInOps DEF ForVec
  <1> QED BY <1>3, <1>4, GivenAreOps DEF ForVec

\* The next store of an AIV.
LEMMA AivStoreNext ==
    ASSUME IInv, NEW v \in AIV, NEW op, NextOf(AivStored(v), ForMte3(v), op)
    PROVE  /\ op \in Ops /\ op.unit \in {"QK", "O"} /\ op \in Passed(v) /\ (op.unit = "O" => HasRows(v, op.task))
           /\ op \notin AivStored(v) /\ \A a \in AivStored(v) : Before(a, op)
           /\ \A b \in Ops : b.unit \in {"QK", "O"} /\ (b.unit = "O" => HasRows(v, b.task))
                               => b \in AivStored(v) \/ b = op \/ Before(op, b)
  <1>1. tasks \in TaskLists /\ AtOK(v) /\ v \in Units
    BY DEF IInv, TypeOK, AtsOK, Units
  <1>2. ForMte3(v) \subseteq Passed(v)
    BY DEF ForMte3
  <1>3. op \in ForMte3(v) /\ op \notin AivStored(v) /\ \A a \in AivStored(v) : Before(a, op)
    BY DEF NextOf
  <1>4. ASSUME NEW b \in Ops, b.unit \in {"QK", "O"}, b.unit = "O" => HasRows(v, b.task)
        PROVE  b \in AivStored(v) \/ b = op \/ Before(op, b)
    BY <1>1, <1>2, <1>4, NextInOps DEF ForMte3
  <1> QED BY <1>3, <1>4, GivenAreOps DEF ForMte3

\* The tiles the rows have seen with the stacks up to one.
LEMMA RowsOfStack ==
    ASSUME tasks \in TaskLists, NEW op \in Ops
    PROVE  /\ Rows(op) \in RowsSet /\ Rows(op) # <<>>
           /\ Len(Rows(op)) = op.count + 1
           /\ \A k \in 1..Len(Rows(op)) : Rows(op)[k] = StackColumns(tasks[op.task], op.task, k - 1)
           /\ op.unit \in {"QK", "PV"} => Last(Rows(op)) = Columns(op) /\ Columns(op) \in TileSet
           /\ \A b \in Ops : b.task = op.task /\ b.count = op.count => Rows(b) = Rows(op)
           /\ \A b \in Ops : b.task = op.task /\ op.count = b.count + 1 =>
                Append(Rows(b), StackColumns(tasks[op.task], op.task, op.count)) = Rows(op)
           /\ op.count = 0 => Rows(op) = <<StackColumns(tasks[op.task], op.task, 0)>>
  <1> DEFINE t == tasks[op.task]  n == op.count  i == op.task
             Tile_(k) == StackColumns(t, i, k - 1)
  <1>1. i \in 1..Len(tasks) /\ n \in 0..(TotalStackSeqNum(t) - 1) /\ t \in Tasks /\ TotalStackSeqNum(t) \in Nat
        /\ Len(tasks) \in Nat
    BY OpFields, TasksTyped DEF N
  <1>2. n \in Nat /\ i \in Nat
    BY <1>1
  <1>3. ASSUME NEW k \in 1..(n + 1) PROVE Tile_(k) \in TileSet
    <2>1. k - 1 \in 0..(TotalStackSeqNum(t) - 1)
      BY <1>1
    <2>2. FromColumn(t, k - 1) \in Nat /\ ToColumn(t, k - 1) \in Nat
      BY <1>1, <2>1, ColumnsInOrder
    <2> QED BY <1>2, <2>2 DEF StackColumns, TileSet
  <1>4. Rows(op) = [k \in 1..(n + 1) |-> Tile_(k)]
    BY DEF Rows
  <1> HIDE DEF Tile_
  <1>5. Rows(op) \in RowsSet /\ Rows(op) # <<>> /\ Len(Rows(op)) = n + 1
    <2> DEFINE f == [k \in 1..(n + 1) |-> Tile_(k)]
    <2>1. n + 1 \in Nat /\ n + 1 > 0
      BY <1>2
    <2>2. f \in [1..(n + 1) -> TileSet]
      BY <1>3
    <2>3. f \in Seq(TileSet) /\ Len(f) = n + 1
      <3> HIDE DEF f
      <3> QED BY <2>1, <2>2
    <2>4. f # <<>>
      <3> HIDE DEF f
      <3> QED BY <2>1, <2>3
    <2> QED BY <1>4, <2>3, <2>4 DEF RowsSet
  <1>6. \A k \in 1..(n + 1) : Rows(op)[k] = Tile_(k)
    BY <1>4
  <1>7. Last(Rows(op)) = Tile_(n + 1)
    BY <1>2, <1>5, <1>6 DEF Last
  <1>8. op.unit \in {"QK", "PV"} => Columns(op) = Tile_(n + 1)
    <2>1. (n + 1) - 1 = n
      BY <1>2
    <2> QED BY <2>1, OpFields DEF Tile_
  <1>9. ASSUME NEW b \in Ops, b.task = i, b.count = n PROVE Rows(b) = Rows(op)
    BY <1>9 DEF Rows
  <1>10. ASSUME NEW b \in Ops, b.task = i, n = b.count + 1
         PROVE  Append(Rows(b), StackColumns(t, i, n)) = Rows(op)
    <2>1. b.count \in Nat
      BY OpFields
    <2>2. Rows(b) = [k \in 1..n |-> Tile_(k)]
      BY <1>10 DEF Rows, Tile_
    <2>3. StackColumns(t, i, n) = Tile_(n + 1)
      <3>1. (n + 1) - 1 = n
        BY <1>2
      <3> QED BY <3>1 DEF Tile_
    <2>4. Append(Rows(b), Tile_(n + 1)) = [k \in 1..(n + 1) |-> Tile_(k)]
      BY <1>2, <2>2
    <2> QED BY <1>4, <2>3, <2>4
  <1>11. n = 0 => Rows(op) = <<StackColumns(t, i, 0)>>
    <2>1. ASSUME n = 0 PROVE Rows(op) = <<Tile_(1)>>
      BY <1>4, <2>1
    <2>2. Tile_(1) = StackColumns(t, i, 0)
      <3>1. 1 - 1 = 0
        OBVIOUS
      <3> QED BY <3>1 DEF Tile_
    <2> QED BY <2>1, <2>2
  <1>12. op.unit \in {"QK", "PV"} => Columns(op) \in TileSet
    BY <1>2, <1>3, <1>8
  <1>13. \A k \in 1..(n + 1) : Tile_(k) = StackColumns(t, i, k - 1)
    BY DEF Tile_
  <1> QED BY <1>5, <1>6, <1>7, <1>8, <1>9, <1>10, <1>11, <1>12, <1>13

\* What a step of another unit leaves alone.
LEMMA CountsStay ==
    ASSUME IInv, tasks' = tasks, at' = at, UNCHANGED flags,
           Stored' = Stored, \A v \in AIV : AivStored(v)' = AivStored(v)
    PROVE  FlagsCount' /\ Waited'
  <1>1. /\ QKs' = QKs /\ \A a : PVOf(a)' = PVOf(a)
        /\ \A u : Passed(u)' = Passed(u)
    BY TasksStay, UnitStays
  <1>2. \A v \in AIV : Announced(v)' = Announced(v) /\ Softened(v)' = Softened(v) /\ Weighted(v)' = Weighted(v)
    BY <1>1 DEF Announced, Softened, Weighted
  <1>3. FlagsCount'
    BY <1>2 DEF IInv, FlagsCount, flags
  <1>4. Waited'
    BY <1>1 DEF IInv, Waited
  <1> QED BY <1>3, <1>4

\* The unified buffer of an AIV stays.
LEMMA UbStays ==
    ASSUME IInv, tasks' = tasks, NEW v \in AIV, AivDoneStays(v), ub'[v] = ub[v]
    PROVE  S_InUb(v)' /\ P_InUb(v)' /\ OTmp_InUb(v)' /\ KeptInUb(v)'
  <1>1. \A op : Rows(op)' = Rows(op) /\ QKOf(op)' = QKOf(op) /\ PVOf(op)' = PVOf(op)
    BY TasksStay
  <1>2. AivLoaded(v)' = AivLoaded(v) /\ Computed(v)' = Computed(v) /\ AivStored(v)' = AivStored(v)
    BY DEF AivDoneStays
  <1>3. S_InUb(v) /\ P_InUb(v) /\ OTmp_InUb(v) /\ KeptInUb(v)
    BY DEF IInv, InUb
  <1>4. S_InUb(v)'
    BY <1>2, <1>3 DEF S_InUb
  <1>5. P_InUb(v)'
    BY <1>1, <1>2, <1>3 DEF P_InUb
  <1>6. OTmp_InUb(v)'
    BY <1>1, <1>2, <1>3 DEF OTmp_InUb
  <1>7. KeptInUb(v)'
    BY <1>1, <1>2, <1>3 DEF KeptInUb, LastIn
  <1> QED BY <1>4, <1>5, <1>6, <1>7

\* The outputs stay.
LEMMA OutputsStay ==
    ASSUME IInv, tasks' = tasks, output' = output, \A v \in AIV : AivStored(v)' = AivStored(v)
    PROVE  Outputs'
  <1>1. Ops' = Ops /\ \A op : Rows(op)' = Rows(op)
    BY TasksStay
  <1> QED BY <1>1 DEF IInv, Outputs

\* L1 and the accumulator stay.
LEMMA AicBuffersStay ==
    ASSUME IInv, tasks' = tasks, AicDoneStays, l1' = l1, l0c' = l0c
    PROVE  Q_InL1' /\ P_InL1' /\ Accumulator'
  <1>1. \A op : Rows(op)' = Rows(op) /\ QKOf(op)' = QKOf(op)
    BY TasksStay
  <1>2. \A v, i : HasRows(v, i)' = HasRows(v, i)
    BY TasksStay
  <1>3. Loaded' = Loaded /\ Multiplied' = Multiplied
    BY DEF AicDoneStays
  <1>4. Q_InL1'
    BY <1>1, <1>3 DEF IInv, Q_InL1, LastIn
  <1>5. P_InL1'
    BY <1>1, <1>2, <1>3 DEF IInv, P_InL1
  <1>6. Accumulator'
    BY <1>1, <1>2, <1>3 DEF IInv, Accumulator
  <1> QED BY <1>4, <1>5, <1>6

\* The parts that a step of the AIC leaves alone.
LEMMA AicStepKeeps ==
    ASSUME IInv, tasks' = tasks, at' = at, UNCHANGED <<queues, ub, output>>, AicQueuesInOrder'
    PROVE  /\ AtsOK' /\ QueuesInOrder' /\ InUb' /\ Outputs'
           /\ \A u : Passed(u)' = Passed(u)
           /\ \A v \in AIV : AivDoneStays(v)
  <1>1. AtsOK' /\ \A u : Passed(u)' = Passed(u)
    BY UnitsStay DEF PassedGrows
  <1>2. \A v \in AIV : AivDoneStays(v) /\ AivQueuesInOrder(v)'
    BY AivsStay
  <1>3. QueuesInOrder'
    BY <1>2, QueuesByUnitNext
  <1>4. InUb'
    BY <1>2, UbStays DEF InUb
  <1>5. Outputs'
    BY <1>2, OutputsStay DEF AivDoneStays
  <1> QED BY <1>1, <1>2, <1>3, <1>4, <1>5

\* The last stack of a task is the last to be done of it.
LastStack(i) == QKAt(tasks[i], i, N(i) - 1)

\* It comes last in its task, but for the store of the output.
LEMMA TaskEnds ==
    ASSUME tasks \in TaskLists, NEW op \in Ops
    PROVE  LET a == LastStack(op.task) IN
           /\ a \in QKs /\ a \in Ops /\ a.unit = "QK" /\ a.task = op.task /\ a.count = N(op.task) - 1
           /\ PVOf(a) \in Ops /\ PVOf(a).unit = "PV" /\ PVOf(a).task = op.task /\ PVOf(a).count = N(op.task) - 1
           /\ op.unit = "QK" => op = a \/ Before(op, a)
           /\ op.unit = "PV" => op = PVOf(a) \/ Before(op, PVOf(a))
           /\ op.unit = "O" => Before(PVOf(a), op) /\ Before(a, op)
           /\ \A b \in Ops : b.task > op.task => Before(op, b) /\ Before(a, b) /\ Before(PVOf(a), b)
  <1> DEFINE i == op.task
             a == LastStack(i)
  <1>1. i \in 1..Len(tasks) /\ N(i) \in Nat /\ op.count \in 0..(N(i) - 1)
    BY OpFields
  <1>2. N(i) - 1 \in 0..(N(i) - 1)
    BY <1>1, TasksTyped
  <1>3. a \in Ops /\ a.unit = "QK" /\ a.task = i /\ a.count = N(i) - 1 /\ a \in QKs
    BY <1>1, <1>2, OpsAt DEF QKs, LastStack
  <1>4. PVOf(a) \in Ops /\ PVOf(a).unit = "PV" /\ PVOf(a).task = i /\ PVOf(a).count = N(i) - 1
    BY <1>3, OtherOps
  <1> DEFINE b == PVOf(a)
  <1> HIDE DEF a, b
  <1>5. ASSUME NEW x \in Ops, x.unit = op.unit, x.task = i, x.count = N(i) - 1 PROVE op = x \/ Before(op, x)
    <2>1. CASE op.count = N(i) - 1
      BY <1>5, <2>1, SameOp
    <2>2. CASE op.count # N(i) - 1
      <3>1. op.count < x.count
        BY <1>1, <1>5, <2>2
      <3> QED BY <1>5, <3>1, HalvesInOrder
    <2> QED BY <2>1, <2>2
  <1>6. op.unit = "QK" => op = a \/ Before(op, a)
    BY <1>3, <1>5
  <1>7. op.unit = "PV" => op = b \/ Before(op, b)
    BY <1>4, <1>5 DEF b
  <1>8. ASSUME op.unit = "O" PROVE Before(b, op) /\ Before(a, op)
    <2>1. op.count = N(i) - 1 /\ Place(op) = 4 * (op.count + PreLaunch) + 3
      BY <1>8, OpFields, Places
    <2>2. Place(a) = 4 * (N(i) - 1) + 1 /\ Place(b) = 4 * ((N(i) - 1) + PreLaunch) + 2
      BY <1>3, <1>4, Places DEF b
    <2>3. N(i) - 1 \in Nat /\ PreLaunch \in Nat
      BY <1>1, <1>8, OpFields, Sizes
    <2>4. Place(op) = 4 * ((N(i) - 1) + PreLaunch) + 3
      BY <2>1
    <2>5. Place(a) < Place(op)
      <3>1. PICK n \in Nat : n = N(i) - 1
        BY <2>3
      <3> QED BY <2>2, <2>3, <2>4, <3>1
    <2>6. Place(b) < Place(op)
      <3>1. PICK n \in Nat : n = (N(i) - 1) + PreLaunch
        BY <2>3
      <3> QED BY <2>2, <2>4, <3>1
    <2> QED BY <1>3, <1>4, <2>5, <2>6 DEF Before, b
  <1>9. \A x \in Ops : x.task > i => Before(op, x) /\ Before(a, x) /\ Before(b, x)
    BY <1>1, <1>3, <1>4, OpFields DEF Before, b
  <1> QED BY <1>3, <1>4, <1>6, <1>7, <1>8, <1>9 DEF a, b

-----------------------------------------------------------------------------
(* PIPE_MTE2 of the AIC.                                                   *)

\* TypeOK after a step of a pipe.
LEMMA TypesChange ==
    ASSUME TypeOK, tasks' = tasks, at' = at, l1' \in L1Set,
           s' \in [0..PreLaunch -> TileSet], p' \in [0..PreLaunch -> [AIV -> RowsSet]],
           oTmp' \in [0..PreLaunch -> [AIV -> RowsSet]],
           qkReady' \in [AIV -> Nat], softmaxReady' \in [AIV -> Nat], pvReady' \in [AIV -> Nat],
           mte2' = [v \in AIV |-> mte2'[v]], vec' = [v \in AIV |-> vec'[v]], mte3' = [v \in AIV |-> mte3'[v]],
           ub' \in [AIV -> UbSet], output' \in [AIV -> [1..Len(tasks) -> RowsSet]]
    PROVE  TypeOK'
  BY DEF TypeOK, L1Set, UbSet, TileSet, RowsSet

\* The types of the buffers.
LEMMA Typed ==
    ASSUME TypeOK
    PROVE  /\ l1 \in L1Set /\ s \in [0..PreLaunch -> TileSet] /\ p \in [0..PreLaunch -> [AIV -> RowsSet]]
           /\ oTmp \in [0..PreLaunch -> [AIV -> RowsSet]]
           /\ ub \in [AIV -> UbSet] /\ output \in [AIV -> [1..Len(tasks) -> RowsSet]]
           /\ qkReady \in [AIV -> Nat] /\ softmaxReady \in [AIV -> Nat] /\ pvReady \in [AIV -> Nat]
           /\ mte2 = [v \in AIV |-> mte2[v]] /\ vec = [v \in AIV |-> vec[v]] /\ mte3 = [v \in AIV |-> mte3[v]]
  BY DEF TypeOK

\* The workspace stays when nothing is stored and more is loaded.
LEMMA WorkspaceStays ==
    ASSUME IInv, tasks' = tasks, UNCHANGED workspace,
           Stored' = Stored, Loaded \subseteq Loaded',
           \A v \in AIV : AivLoaded(v) \subseteq AivLoaded(v)' /\ AivStored(v)' = AivStored(v)
    PROVE  Workspace'
  <1>1. /\ Ops' = Ops /\ \A op : Rows(op)' = Rows(op) /\ PVOf(op)' = PVOf(op)
        /\ \A v, i : HasRows(v, i)' = HasRows(v, i)
    BY TasksStay
  <1>2. Workspace
    BY DEF IInv
  <1>3. ASSUME NEW v \in AIV, NEW op \in Ops, HasRows(v, op.task)
        PROVE  /\ op.unit = "QK" /\ op \in Stored /\ op \notin AivLoaded(v)' => s[op.slot] = Columns(op)
               /\ op.unit = "QK" /\ op \in AivStored(v) /\ PVOf(op) \notin Loaded' => p[op.slot][v] = Rows(op)
               /\ op.unit = "PV" /\ op \in Stored /\ op \notin AivLoaded(v)' => oTmp[op.slot][v] = Rows(op)
    BY <1>2, <1>3 DEF Workspace
  <1> QED BY <1>1, <1>3 DEF Workspace, workspace

\* Pipes still follow each other when more is loaded.
LEMMA FollowsStays ==
    ASSUME IInv, tasks' = tasks, Loaded \subseteq Loaded', Multiplied' = Multiplied, \A v \in AIV : AivDoneStays(v)
    PROVE  PipesFollow'
  <1>1. /\ \A op : QOf(op)' = QOf(op)
        /\ \A v, i : HasRows(v, i)' = HasRows(v, i)
    BY TasksStay
  <1>2. PipesFollow
    BY DEF IInv
  <1> QED BY <1>1, <1>2 DEF PipesFollow, AivDoneStays

\* The Q of a task is loaded when all multiplications of the task before are over.
LEMMA QWhenOver ==
    ASSUME IInv, NEW op \in Ops, NEW a \in Ops, a.task < op.task,
           \A b \in Ops : b.unit = "PV" /\ Before(b, op) => b \in Loaded
    PROVE  /\ a.unit = "QK" => a \in Multiplied
           /\ PVOf(LastStack(a.task)) \in Loaded
  <1> DEFINE last == LastStack(a.task)
  <1>1. tasks \in TaskLists /\ AtsOK /\ QueuesInOrder
    BY DEF IInv, TypeOK
  <1>2. last \in QKs /\ last.unit = "QK" /\ PVOf(last) \in Ops /\ PVOf(last).unit = "PV"
        /\ Before(PVOf(last), op) /\ (a.unit = "QK" => a = last \/ Before(a, last))
    BY <1>1, TaskEnds
  <1> HIDE DEF last
  <1>3. PVOf(last) \in Loaded
    BY <1>2
  <1>4. last \in Multiplied
    BY <1>2, <1>3, AIVAssumption, StepsFollow, SecondStepsFollow
  <1>5. a.unit = "QK" => a \in Multiplied
    BY <1>1, <1>2, <1>4, PipesInOrder
  <1> QED BY <1>3, <1>5 DEF last

\* AicLoad of Q: the Q before is not needed any more, though no event says so.
LEMMA AicLoadQDone ==
    ASSUME IInv, AicLoad, NEW op, op = Head(aicMte2), op.unit = "Q"
    PROVE  IInv'
  <1>1. /\ aicMte2 # <<>> /\ aicMte2' = Tail(aicMte2) /\ op.unit = "Q"
        /\ l1' = [l1 EXCEPT !.q = op.task, !.qLoaded = @ + 1]
        /\ UNCHANGED <<tasks, at, cube, l0c, workspace, flags, queues, ub, output>>
    BY DEF AicLoad
  <1>2. /\ NextOf(Loaded, ForAicMte2, op)
        /\ Loaded' = Loaded \cup {op} /\ Multiplied' = Multiplied /\ Stored' = Stored
        /\ AicQueuesInOrder'
    BY <1>1, LoadStep
  <1>3. /\ op \in Ops /\ op \notin Loaded /\ \A a \in Loaded : Before(a, op)
        /\ \A b \in Ops : b.unit \in {"Q", "PV"} => b \in Loaded \/ b = op \/ Before(op, b)
    BY <1>2, LoadNext
  <1>4. /\ AtsOK' /\ QueuesInOrder' /\ InUb' /\ Outputs' /\ \A v \in AIV : AivDoneStays(v)
    BY <1>1, <1>2, AicStepKeeps
  <1>5. FlagsCount' /\ Waited'
    BY <1>1, <1>2, <1>4, CountsStay DEF AivDoneStays
  <1>6. PipesFollow' /\ Workspace'
    BY <1>1, <1>2, <1>4, FollowsStays, WorkspaceStays DEF AivDoneStays
  <1>7. tasks \in TaskLists /\ TypeOK /\ l1 \in L1Set /\ AtsOK /\ QueuesInOrder /\ PipesFollow /\ Q_InL1 /\ P_InL1
        /\ Accumulator /\ op.task \in Nat
    BY <1>3, Typed, OpFields DEF IInv, TypeOK
  <1>8. l1'.q = op.task /\ l1'.qLoaded = l1.qLoaded + 1 /\ l1'.p = l1.p /\ l1' \in L1Set /\ l1.qLoaded \in Nat
    <2>1. l1.q \in Nat /\ l1.qLoaded \in Nat /\ l1.p \in Seq([AIV -> RowsSet])
      BY <1>7 DEF L1Set
    <2>2. l1 = [q |-> l1.q, qLoaded |-> l1.qLoaded, p |-> l1.p]
      BY <1>7 DEF L1Set
    <2>3. l1' = [q |-> op.task, qLoaded |-> l1.qLoaded + 1, p |-> l1.p]
      BY <1>1, <2>2, Zenon
    <2> QED BY <1>7, <2>1, <2>3 DEF L1Set
  <1>9. TypeOK'
    BY <1>1, <1>7, <1>8, Typed, TypesChange DEF workspace, flags, queues
  <1>10. l1.qLoaded = 0
    <2>1. SUFFICES ASSUME l1.qLoaded > 0 PROVE FALSE
      BY <1>8
    <2>2. PICK o \in Loaded : o.unit = "Q" /\ QKOf(o) \notin Multiplied
      BY <1>7, <2>1 DEF Q_InL1
    <2>3. o \in Ops /\ Before(o, op)
      BY <1>3, <1>7, <2>2, PipesInOrder
    <2>4. o.task < op.task /\ QKOf(o) \in Ops /\ QKOf(o).unit = "QK" /\ QKOf(o).task = o.task
      <3>1. Place(o) = 0 /\ Place(op) = 0
        BY <1>1, <1>3, <1>7, <2>2, <2>3, Places
      <3> QED BY <1>7, <2>3, <3>1, OtherOps DEF Before
    <2>5. \A b \in Ops : b.unit = "PV" /\ Before(b, op) => b \in Loaded
      BY <1>3, <1>7, TotalOrder
    <2> QED BY <1>3, <2>2, <2>4, <2>5, QWhenOver
  <1>11. Q_InL1'
    <2>0. \A o : QKOf(o)' = QKOf(o)
      BY <1>1, TasksStay
    <2>1. QKOf(op) \notin Multiplied
      <3>1. QKOf(op) \in Ops /\ QKOf(op).unit = "QK" /\ QKOf(op).task = op.task /\ op = QOf(op)
        BY <1>1, <1>3, <1>7, OtherOps, OpFields
      <3>2. QOf(QKOf(op)) = op
        BY <3>1 DEF QOf
      <3> QED BY <1>3, <1>7, <3>1, <3>2 DEF PipesFollow
    <2>2. ASSUME NEW o \in Loaded \cup {op}, o.unit = "Q", LastIn(o, Loaded \cup {op}) PROVE o = op
      BY <1>1, <1>3, <2>2 DEF LastIn
    <2>3. ASSUME NEW o \in Loaded', o.unit = "Q", LastIn(o, Loaded)' PROVE l1'.q = o.task
      <3>1. \A b \in Loaded \cup {op} : b.unit = o.unit => ~Before(o, b)
        BY <1>2, <2>3 DEF LastIn
      <3>2. o = op
        BY <1>2, <2>2, <2>3, <3>1 DEF LastIn
      <3> QED BY <1>8, <3>2
    <2>4. \E o \in Loaded' : o.unit = "Q" /\ QKOf(o)' \notin Multiplied'
      <3>1. op \in Loaded' /\ op.unit = "Q" /\ QKOf(op) \notin Multiplied'
        BY <1>1, <1>2, <2>1
      <3>2. QKOf(op)' = QKOf(op)
        BY <2>0
      <3> QED BY <2>0, <3>1, <3>2
    <2>5. l1'.qLoaded <= 1
      BY <1>8, <1>10
    <2> QED BY <2>3, <2>4, <2>5 DEF Q_InL1
  <1>12. P_InL1'
    <2>1. /\ \A o : Rows(o)' = Rows(o)
          /\ \A v, i : HasRows(v, i)' = HasRows(v, i)
      BY <1>1, TasksStay
    <2>2. {o \in Loaded' \ Multiplied' : o.unit = "PV"} = {o \in Loaded \ Multiplied : o.unit = "PV"}
      BY <1>1, <1>2
    <2> QED BY <1>7, <1>8, <2>1, <2>2 DEF P_InL1
  <1>13. Accumulator'
    <2>1. /\ \A o : Rows(o)' = Rows(o)
          /\ \A v, i : HasRows(v, i)' = HasRows(v, i)
      BY <1>1, TasksStay
    <2> QED BY <1>1, <1>2, <1>7, <2>1 DEF Accumulator
  <1> QED BY <1>4, <1>5, <1>6, <1>9, <1>11, <1>12, <1>13, InvByParts DEF Buffers

\* AicLoad of P: the slot holds the P of the stack.
LEMMA AicLoadPDone ==
    ASSUME IInv, AicLoad, NEW op, op = Head(aicMte2), op.unit = "PV"
    PROVE  IInv'
  <1>1. /\ aicMte2 # <<>> /\ aicMte2' = Tail(aicMte2)
        /\ l1.p = <<>> /\ l1' = [l1 EXCEPT !.p = <<p[op.slot]>>]
        /\ UNCHANGED <<tasks, at, cube, l0c, workspace, flags, queues, ub, output>>
    BY DEF AicLoad
  <1>2. /\ NextOf(Loaded, ForAicMte2, op)
        /\ Loaded' = Loaded \cup {op} /\ Multiplied' = Multiplied /\ Stored' = Stored
        /\ AicQueuesInOrder'
    BY <1>1, LoadStep
  <1>3. /\ op \in Ops /\ op \notin Loaded /\ op \in Passed(AIC)
    BY <1>2, LoadNext
  <1>4. /\ AtsOK' /\ QueuesInOrder' /\ InUb' /\ Outputs' /\ \A v \in AIV : AivDoneStays(v)
    BY <1>1, <1>2, AicStepKeeps
  <1>5. FlagsCount' /\ Waited'
    BY <1>1, <1>2, <1>4, CountsStay DEF AivDoneStays
  <1>6. PipesFollow' /\ Workspace'
    BY <1>1, <1>2, <1>4, FollowsStays, WorkspaceStays DEF AivDoneStays
  <1>7. tasks \in TaskLists /\ TypeOK /\ l1 \in L1Set /\ AtsOK /\ QueuesInOrder /\ PipesFollow /\ Q_InL1 /\ P_InL1
        /\ Accumulator /\ Workspace /\ p \in [0..PreLaunch -> [AIV -> RowsSet]]
    BY Typed DEF IInv, TypeOK
  <1>a. op.slot \in 0..PreLaunch /\ op.slot = Slot(op.count) /\ op.count \in Nat
    <2>1. op.count \in Nat /\ op.slot = Slot(op.count)
      BY <1>3, <1>7, OpFields
    <2> QED BY <2>1, Sizes, SlotInRing
  <1>8. l1'.q = l1.q /\ l1'.qLoaded = l1.qLoaded /\ l1'.p = <<p[op.slot]>> /\ l1' \in L1Set
    <2>1. l1.q \in Nat /\ l1.qLoaded \in Nat /\ p[op.slot] \in [AIV -> RowsSet]
      BY <1>7, <1>a DEF L1Set
    <2>2. l1 = [q |-> l1.q, qLoaded |-> l1.qLoaded, p |-> l1.p]
      BY <1>7 DEF L1Set
    <2>3. l1' = [q |-> l1.q, qLoaded |-> l1.qLoaded, p |-> <<p[op.slot]>>]
      BY <1>1, <2>2, Zenon
    <2> QED BY <2>1, <2>3 DEF L1Set
  <1>9. TypeOK'
    BY <1>1, <1>7, <1>8, Typed, TypesChange DEF workspace, flags, queues
  <1>0. /\ \A o : Rows(o)' = Rows(o) /\ QKOf(o)' = QKOf(o)
        /\ \A v, i : HasRows(v, i)' = HasRows(v, i)
    BY <1>1, TasksStay
  <1>11. Q_InL1'
    <2>1. ASSUME NEW o, o.unit = "Q", o \in Loaded', LastIn(o, Loaded)' PROVE o \in Loaded /\ LastIn(o, Loaded)
      BY <1>2, <2>1 DEF LastIn
    <2>2. \A o : o \in Loaded => o \in Loaded'
      BY <1>2
    <2> QED BY <1>0, <1>2, <1>7, <1>8, <2>1, <2>2 DEF Q_InL1
  <1>12. P_InL1'
    <2>1. op \notin Multiplied
      BY <1>3, <1>7 DEF PipesFollow
    <2>2. {o \in Loaded \ Multiplied : o.unit = "PV"} = {}
      BY <1>1, <1>7 DEF P_InL1
    <2>3. {o \in Loaded' \ Multiplied' : o.unit = "PV"} = {op}
      BY <1>2, <2>1, <2>2
    <2>4. ASSUME NEW v \in AIV, HasRows(v, op.task) PROVE p[op.slot][v] = Rows(op)
      <3> DEFINE a == QKOf(op)
      <3>1. /\ a \in Ops /\ a.unit = "QK" /\ a.task = op.task /\ a.count = op.count /\ PVOf(a) = op
        BY <1>3, <1>7, OtherOps, HalvesInOrder
      <3>2. a \in QKs /\ a.slot = op.slot
        BY <1>3, <1>7, <1>a, <3>1, OpFields DEF QKs
      <3> HIDE DEF a
      <3>3. a \in AivStored(v)
        BY <1>3, <3>1, <3>2, StepsFollow
      <3>4. p[a.slot][v] = Rows(a)
        BY <1>3, <1>7, <2>4, <3>1, <3>3 DEF Workspace
      <3>5. Rows(a) = Rows(op)
        BY <1>3, <1>7, <3>1, RowsOfStack
      <3> QED BY <3>2, <3>4, <3>5
    <2>5. l1'.p # <<>> /\ Head(l1'.p) = p[op.slot]
      BY <1>8
    <2>6. \A v \in AIV : HasRows(v, op.task)' => Head(l1'.p)[v] = Rows(op)'
      <3>1. Rows(op)' = Rows(op) /\ \A v \in AIV : HasRows(v, op.task)' = HasRows(v, op.task)
        BY <1>0
      <3> QED BY <2>4, <2>5, <3>1
    <2> QED BY <2>3, <2>5, <2>6 DEF P_InL1
  <1>13. Accumulator'
    BY <1>0, <1>1, <1>2, <1>7 DEF Accumulator
  <1> QED BY <1>4, <1>5, <1>6, <1>9, <1>11, <1>12, <1>13, InvByParts DEF Buffers

\* AicLoad preserves the invariant.
LEMMA AicLoadKeeps == ASSUME IInv, AicLoad PROVE IInv'
  <1>1. PICK op : op = Head(aicMte2)
    OBVIOUS
  <1>2. op.unit = "Q" \/ op.unit = "PV"
    BY <1>1 DEF AicLoad
  <1> QED BY <1>1, <1>2, AicLoadQDone, AicLoadPDone

-----------------------------------------------------------------------------
(* PIPE_MTE1 and PIPE_M.                                                   *)

\* The Q of a task is in L1 as long as there are stacks of the task to multiply it by.
LEMMA QOfTask ==
    ASSUME IInv, NEW op, NextOf(Multiplied, ForCube, op), op.unit = "QK", op.first => l1.qLoaded > 0
    PROVE  QOf(op) \in Loaded /\ l1.q = op.task
  <1> DEFINE q == QOf(op)
  <1>1. tasks \in TaskLists /\ AtsOK /\ QueuesInOrder /\ PipesFollow /\ Q_InL1
    BY DEF IInv, TypeOK
  <1>2. /\ op \in Ops /\ op \notin Multiplied
        /\ \A b \in Ops : b.unit \in {"QK", "PV"} => b \in Multiplied \/ b = op \/ Before(op, b)
    BY MultiplyNext
  <1>3. q \in Ops /\ q.unit = "Q" /\ q.task = op.task /\ Place(q) = 0
    BY <1>1, <1>2, OtherOps, Places
  <1>4. op.task \in 1..Len(tasks) /\ op.count \in Nat /\ (op.first <=> op.count = 0)
    BY <1>1, <1>2, OpFields
  <1>5. ASSUME op.first PROVE q \in Loaded
    <2>1. PICK o \in Loaded : o.unit = "Q" /\ QKOf(o) \notin Multiplied
      BY <1>1, <1>5 DEF Q_InL1
    <2>2. o \in Ops /\ o = QOf(o) /\ o.count = 0 /\ o.task \in 1..Len(tasks)
      <3>1. o \in Ops
        BY <1>1, <2>1, <1>2, PipesInOrder
      <3> QED BY <1>1, <2>1, <3>1, OpFields
    <2>3. QKOf(o) \in Ops /\ QKOf(o).unit = "QK" /\ QKOf(o).task = o.task /\ QKOf(o).count = 0
      BY <1>1, <2>2, OtherOps
    <2>4. QKOf(o) = op \/ Before(op, QKOf(o))
      BY <1>2, <2>1, <2>3
    <2>5. CASE QKOf(o) = op
      <3>1. QOf(o) = q
        BY <2>3, <2>5 DEF QOf
      <3> QED BY <2>1, <2>2, <3>1
    <2>6. CASE Before(op, QKOf(o))
      <3>1. op.task < o.task \/ (op.task = o.task /\ op.count < 0)
        BY <1>1, <1>2, <2>3, <2>6, HalvesInOrder
      <3>2. op.task < o.task
        BY <1>4, <3>1
      <3>3. Before(q, o)
        BY <1>3, <3>2 DEF Before
      <3> QED BY <1>1, <1>3, <2>1, <3>3, PipesInOrder
    <2> QED BY <2>4, <2>5, <2>6
  <1>6. ASSUME ~op.first PROVE q \in Loaded
    <2> DEFINE a == QKAt(tasks[op.task], op.task, 0)
    <2>1. 0 \in 0..(N(op.task) - 1)
      BY <1>1, <1>4, TasksTyped
    <2>2. a \in Ops /\ a.unit = "QK" /\ a.task = op.task /\ a.count = 0
      BY <1>1, <1>4, <2>1, OpsAt
    <2> HIDE DEF a
    <2>3. Before(a, op) /\ a # op
      BY <1>1, <1>2, <1>4, <1>6, <2>2, HalvesInOrder
    <2>4. a \in Multiplied
      BY <1>1, <1>2, <2>2, <2>3, TotalOrder
    <2>5. QOf(a) \in Loaded
      BY <1>1, <2>2, <2>4 DEF PipesFollow
    <2>6. QOf(a) = q
      BY <2>2 DEF QOf
    <2> QED BY <2>5, <2>6
  <1>7. q \in Loaded
    BY <1>5, <1>6
  <1>8. LastIn(q, Loaded)
    <2>1. SUFFICES ASSUME NEW b \in Loaded, b.unit = "Q", Before(q, b) PROVE FALSE
      BY <1>3 DEF LastIn
    <2>2. b \in Ops
      BY <1>1, <1>2, <2>1, PipesInOrder
    <2>3. Place(b) = 0
      BY <1>1, <2>1, <2>2, Places
    <2>4. op.task < b.task
      BY <1>3, <2>1, <2>3 DEF Before
    <2>5. \A c \in Ops : c.unit = "PV" /\ Before(c, b) => c \in Loaded
      BY <1>1, <2>1, PipesInOrder
    <2> QED BY <1>2, <2>2, <2>4, <2>5, QWhenOver
  <1>9. l1.q = q.task
    BY <1>1, <1>3, <1>7, <1>8 DEF Q_InL1
  <1> QED BY <1>3, <1>7, <1>9

\* The multiplications so far and the one in hand.
LEMMA FollowsMultiply ==
    ASSUME IInv, tasks' = tasks, NEW op, Loaded' = Loaded, Multiplied' = Multiplied \cup {op},
           op.unit = "PV" => op \in Loaded, op.unit = "QK" => QOf(op) \in Loaded,
           \A v \in AIV : AivDoneStays(v)
    PROVE  PipesFollow'
  <1>1. /\ \A o : QOf(o)' = QOf(o)
        /\ \A v, i : HasRows(v, i)' = HasRows(v, i)
    BY TasksStay
  <1>2. PipesFollow
    BY DEF IInv
  <1>3. ASSUME NEW o \in Multiplied' PROVE /\ o.unit = "PV" => o \in Loaded'
                                           /\ o.unit = "QK" => QOf(o)' \in Loaded'
    BY <1>1, <1>2 DEF PipesFollow
  <1>4. ASSUME NEW v \in AIV
        PROVE  /\ \A o \in Computed(v)' : o.unit # "O" => o \in AivLoaded(v)'
               /\ \A o \in AivStored(v)' : HasRows(v, o.task)' => o \in Computed(v)'
    BY <1>1, <1>2 DEF PipesFollow, AivDoneStays
  <1> QED BY <1>3, <1>4 DEF PipesFollow

\* AicMultiply of Q and K gives the columns of the stack.
LEMMA AicMultiplyQKDone ==
    ASSUME IInv, AicMultiply, NEW op, op = Head(cube), op.unit = "QK"
    PROVE  IInv'
  <1>1. /\ cube # <<>> /\ l0c = <<>> /\ cube' = Tail(cube)
        /\ op.first => l1.qLoaded > 0
        /\ l1' = IF op.first THEN [l1 EXCEPT !.qLoaded = @ - 1] ELSE l1
        /\ l0c' = <<[op |-> op, result |-> IF l1.q = op.task THEN Columns(op) ELSE NoTile]>>
        /\ UNCHANGED <<tasks, at, aicMte2, workspace, flags, queues, ub, output>>
    BY DEF AicMultiply
  <1>x. PICK x : x = [op |-> op, result |-> IF l1.q = op.task THEN Columns(op) ELSE NoTile]
    OBVIOUS
  <1>2. /\ NextOf(Multiplied, ForCube, op)
        /\ Multiplied' = Multiplied \cup {op} /\ Loaded' = Loaded /\ Stored' = Stored
        /\ AicQueuesInOrder'
    BY <1>1, <1>x, MultiplyStep
  <1>3. /\ op \in Ops /\ op \notin Multiplied /\ \A a \in Multiplied : Before(a, op)
    BY <1>2, MultiplyNext
  <1>4. /\ AtsOK' /\ QueuesInOrder' /\ InUb' /\ Outputs' /\ \A v \in AIV : AivDoneStays(v)
    BY <1>1, <1>2, AicStepKeeps
  <1>5. FlagsCount' /\ Waited'
    BY <1>1, <1>2, <1>4, CountsStay DEF AivDoneStays
  <1>6. QOf(op) \in Loaded /\ l1.q = op.task
    BY <1>1, <1>2, QOfTask
  <1>7. PipesFollow'
    BY <1>1, <1>2, <1>4, <1>6, FollowsMultiply
  <1>8. Workspace'
    BY <1>1, <1>2, <1>4, WorkspaceStays DEF AivDoneStays
  <1>9. tasks \in TaskLists /\ TypeOK /\ l1 \in L1Set /\ AtsOK /\ QueuesInOrder /\ Q_InL1 /\ P_InL1
    BY Typed DEF IInv, TypeOK
  <1>10. /\ l1'.q = l1.q /\ l1'.p = l1.p /\ l1' \in L1Set
         /\ op.first => l1'.qLoaded = 0
         /\ ~op.first => l1'.qLoaded = l1.qLoaded
    <2>1. l1.q \in Nat /\ l1.qLoaded \in Nat /\ l1.p \in Seq([AIV -> RowsSet])
      BY <1>9 DEF L1Set
    <2>2. l1 = [q |-> l1.q, qLoaded |-> l1.qLoaded, p |-> l1.p]
      BY <1>9 DEF L1Set
    <2>3. op.first => l1' = [q |-> l1.q, qLoaded |-> l1.qLoaded - 1, p |-> l1.p]
      <3>1. op.first => l1' = [l1 EXCEPT !.qLoaded = @ - 1]
        BY <1>1
      <3> QED BY <2>2, <3>1, Zenon
    <2>4. op.first => l1.qLoaded - 1 = 0
      BY <1>1, <1>9, <2>1 DEF Q_InL1
    <2>5. ASSUME op.first PROVE l1'.q = l1.q /\ l1'.p = l1.p /\ l1'.qLoaded = 0 /\ l1' \in L1Set
      <3>1. l1' = [q |-> l1.q, qLoaded |-> 0, p |-> l1.p]
        BY <2>3, <2>4, <2>5
      <3> QED BY <2>1, <3>1 DEF L1Set
    <2>6. ~op.first => l1' = l1
      BY <1>1
    <2> QED BY <1>9, <2>5, <2>6
  <1>11. TypeOK'
    BY <1>1, <1>9, <1>10, Typed, TypesChange DEF workspace, flags, queues
  <1>0. /\ \A o : Rows(o)' = Rows(o) /\ QKOf(o)' = QKOf(o)
        /\ \A v, i : HasRows(v, i)' = HasRows(v, i)
    BY <1>1, TasksStay
  <1>12. Q_InL1'
    <2>1. ASSUME l1'.qLoaded > 0 PROVE \E o \in Loaded' : o.unit = "Q" /\ QKOf(o)' \notin Multiplied'
      <3>1. ~op.first /\ l1.qLoaded > 0
        BY <1>10, <2>1
      <3>2. PICK o \in Loaded : o.unit = "Q" /\ QKOf(o) \notin Multiplied
        BY <1>9, <3>1 DEF Q_InL1
      <3>3. o \in Ops
        BY <1>3, <1>9, <3>2, PipesInOrder
      <3>4. QKOf(o).count = 0
        <4>1. o.count = 0
          BY <1>9, <3>2, <3>3, OpFields
        <4> QED BY <1>9, <3>3, <4>1, OtherOps
      <3>5. QKOf(o) # op
        BY <1>1, <1>3, <1>9, <3>1, <3>4, OpFields
      <3>6. QKOf(o)' \notin Multiplied'
        BY <1>0, <1>2, <3>2, <3>5
      <3> QED BY <1>2, <3>2, <3>6
    <2>2. l1'.qLoaded <= 1
      BY <1>9, <1>10 DEF Q_InL1
    <2>3. \A o \in Loaded' : o.unit = "Q" /\ LastIn(o, Loaded)' => l1'.q = o.task
      BY <1>2, <1>9, <1>10 DEF Q_InL1, LastIn
    <2> QED BY <2>1, <2>2, <2>3 DEF Q_InL1
  <1>13. P_InL1'
    <2>1. {o \in Loaded' \ Multiplied' : o.unit = "PV"} = {o \in Loaded \ Multiplied : o.unit = "PV"}
      BY <1>2
    <2> QED BY <1>0, <1>9, <1>10, <2>1 DEF P_InL1
  <1>14. Accumulator'
    <2>1. x.result = Columns(op) /\ x = [op |-> op, result |-> x.result]
      BY <1>6, <1>x
    <2>2. l0c' = <<x>> /\ Head(l0c') = x /\ x.op = op
      BY <1>1, <1>x
    <2>3. op \in Multiplied' /\ \A b \in Multiplied' : ~Before(op, b)
      <3>1. \A b \in Multiplied : b \in Ops
        BY <1>3, <1>9, PipesInOrder
      <3> QED BY <1>2, <1>3, <1>9, <3>1, TotalOrder
    <2>4. Head(l0c').op = op /\ Head(l0c').result = Columns(op)
      BY <2>1, <2>2
    <2>5. l0c' = <<[op |-> op, result |-> Columns(op)]>>
      BY <2>1, <2>2
    <2> QED BY <1>1, <2>3, <2>4, <2>5 DEF Accumulator
  <1> QED BY <1>4, <1>5, <1>7, <1>8, <1>11, <1>12, <1>13, <1>14, InvByParts DEF Buffers

\* The P in L1 is that of the next multiplication by a stack of values.
LEMMA POfStack ==
    ASSUME IInv, NEW op, NextOf(Multiplied, ForCube, op), op.unit = "PV", l1.p # <<>>
    PROVE  /\ op \in Loaded /\ {o \in Loaded \ Multiplied : o.unit = "PV"} = {op}
           /\ \A v \in AIV : HasRows(v, op.task) => Head(l1.p)[v] = Rows(op)
  <1> DEFINE between == {o \in Loaded \ Multiplied : o.unit = "PV"}
  <1>1. tasks \in TaskLists /\ AtsOK /\ QueuesInOrder /\ P_InL1
    BY DEF IInv, TypeOK
  <1>2. /\ op \in Ops /\ op \notin Multiplied
        /\ \A b \in Ops : b.unit \in {"QK", "PV"} => b \in Multiplied \/ b = op \/ Before(op, b)
    BY MultiplyNext
  <1>3. between # {}
    BY <1>1 DEF P_InL1
  <1>4. PICK y : y \in between
    BY <1>3
  <1>5. /\ between = {y} /\ y \in Loaded /\ y \notin Multiplied /\ y.unit = "PV"
        /\ \A v \in AIV : HasRows(v, y.task) => Head(l1.p)[v] = Rows(y)
    BY <1>1, <1>4 DEF P_InL1
  <1>6. y \in Ops
    BY <1>1, <1>2, <1>5, PipesInOrder
  <1>7. y = op
    <2>1. SUFFICES ASSUME Before(op, y) PROVE y = op
      BY <1>2, <1>5, <1>6
    <2>2. op \in Loaded
      BY <1>1, <1>2, <1>5, <2>1, PipesInOrder
    <2>3. op \in between
      BY <1>2, <2>2
    <2> QED BY <1>5, <2>3
  <1> QED BY <1>5, <1>7

\* AicMultiply of P and V gives the rows of the stack.
LEMMA AicMultiplyPVDone ==
    ASSUME IInv, AicMultiply, NEW op, op = Head(cube), op.unit = "PV"
    PROVE  IInv'
  <1> DEFINE rows == Head(l1.p)
             result == [v \in AIV |-> IF Last(rows[v]) = Columns(op) THEN rows[v] ELSE Garbage]
  <1>1. /\ cube # <<>> /\ l0c = <<>> /\ cube' = Tail(cube) /\ l1.p # <<>>
        /\ l1' = [l1 EXCEPT !.p = <<>>]
        /\ l0c' = <<[op |-> op, result |-> result]>>
        /\ UNCHANGED <<tasks, at, aicMte2, workspace, flags, queues, ub, output>>
    BY DEF AicMultiply
  <1>x. PICK x : x = [op |-> op, result |-> result]
    OBVIOUS
  <1>2. /\ NextOf(Multiplied, ForCube, op)
        /\ Multiplied' = Multiplied \cup {op} /\ Loaded' = Loaded /\ Stored' = Stored
        /\ AicQueuesInOrder'
    BY <1>1, <1>x, MultiplyStep
  <1>3. /\ op \in Ops /\ op \notin Multiplied /\ \A a \in Multiplied : Before(a, op)
    BY <1>2, MultiplyNext
  <1>4. /\ AtsOK' /\ QueuesInOrder' /\ InUb' /\ Outputs' /\ \A v \in AIV : AivDoneStays(v)
    BY <1>1, <1>2, AicStepKeeps
  <1>5. FlagsCount' /\ Waited'
    BY <1>1, <1>2, <1>4, CountsStay DEF AivDoneStays
  <1>6. /\ op \in Loaded /\ {o \in Loaded \ Multiplied : o.unit = "PV"} = {op}
        /\ \A v \in AIV : HasRows(v, op.task) => rows[v] = Rows(op)
    BY <1>1, <1>2, POfStack
  <1>7. PipesFollow'
    BY <1>1, <1>2, <1>4, <1>6, FollowsMultiply
  <1>8. Workspace'
    BY <1>1, <1>2, <1>4, WorkspaceStays DEF AivDoneStays
  <1>9. tasks \in TaskLists /\ TypeOK /\ l1 \in L1Set /\ AtsOK /\ QueuesInOrder /\ Q_InL1 /\ P_InL1
    BY Typed DEF IInv, TypeOK
  <1>10. /\ l1'.q = l1.q /\ l1'.p = <<>> /\ l1' \in L1Set /\ l1'.qLoaded = l1.qLoaded
         /\ rows \in [AIV -> RowsSet]
    <2>1. l1.q \in Nat /\ l1.qLoaded \in Nat /\ l1.p \in Seq([AIV -> RowsSet])
      BY <1>9 DEF L1Set
    <2>2. l1 = [q |-> l1.q, qLoaded |-> l1.qLoaded, p |-> l1.p]
      BY <1>9 DEF L1Set
    <2>3. l1' = [q |-> l1.q, qLoaded |-> l1.qLoaded, p |-> <<>>]
      BY <1>1, <2>2, Zenon
    <2>4. rows \in [AIV -> RowsSet]
      <3>1. \A q \in Seq([AIV -> RowsSet]) : q # <<>> => Head(q) \in [AIV -> RowsSet]
        OBVIOUS
      <3> QED BY <1>1, <2>1, <3>1
    <2>5. <<>> \in Seq([AIV -> RowsSet])
      OBVIOUS
    <2>6. l1'.q = l1.q /\ l1'.p = <<>> /\ l1'.qLoaded = l1.qLoaded
      BY <2>3
    <2>7. l1' \in L1Set
      BY <2>1, <2>3, <2>5 DEF L1Set
    <2> QED BY <2>4, <2>6, <2>7
  <1>11. TypeOK'
    BY <1>1, <1>9, <1>10, Typed, TypesChange DEF workspace, flags, queues
  <1>0. /\ \A o : Rows(o)' = Rows(o) /\ QKOf(o)' = QKOf(o)
        /\ \A v, i : HasRows(v, i)' = HasRows(v, i)
    BY <1>1, TasksStay
  <1>12. Q_InL1'
    <2>1. ASSUME l1'.qLoaded > 0 PROVE \E o \in Loaded' : o.unit = "Q" /\ QKOf(o)' \notin Multiplied'
      <3>2. PICK o \in Loaded : o.unit = "Q" /\ QKOf(o) \notin Multiplied
        BY <1>9, <1>10, <2>1 DEF Q_InL1
      <3>3. o \in Ops
        BY <1>3, <1>9, <3>2, PipesInOrder
      <3>4. QKOf(o) # op
        BY <1>1, <1>9, <3>3, OtherOps
      <3>6. QKOf(o)' \notin Multiplied'
        BY <1>0, <1>2, <3>2, <3>4
      <3> QED BY <1>2, <3>2, <3>6
    <2>2. l1'.qLoaded <= 1
      BY <1>9, <1>10 DEF Q_InL1
    <2>3. \A o \in Loaded' : o.unit = "Q" /\ LastIn(o, Loaded)' => l1'.q = o.task
      BY <1>2, <1>9, <1>10 DEF Q_InL1, LastIn
    <2> QED BY <2>1, <2>2, <2>3 DEF Q_InL1
  <1>13. P_InL1'
    <2>1. {o \in Loaded' \ Multiplied' : o.unit = "PV"} = {}
      BY <1>2, <1>6
    <2> QED BY <1>10, <2>1 DEF P_InL1
  <1>14. Accumulator'
    <2>2. l0c' = <<x>> /\ Head(l0c') = x /\ x.op = op /\ x.result = result
      BY <1>1, <1>x
    <2>3. op \in Multiplied' /\ \A b \in Multiplied' : ~Before(op, b)
      <3>1. \A b \in Multiplied : b \in Ops
        BY <1>3, <1>9, PipesInOrder
      <3> QED BY <1>2, <1>3, <1>9, <3>1, TotalOrder
    <2>4. Head(l0c').op = op /\ Head(l0c').result = result
      BY <2>2
    <2>5. l0c' = <<[op |-> op, result |-> Head(l0c').result]>>
      BY <1>1, <2>4
    <2>6. result \in [AIV -> RowsSet]
      <3>1. Garbage \in RowsSet
        BY DEF Garbage, NoTile, RowsSet, TileSet
      <3>2. \A v \in AIV : rows[v] \in RowsSet
        BY <1>10
      <3> HIDE DEF rows
      <3> QED BY <3>1, <3>2
    <2>7. ASSUME NEW v \in AIV, HasRows(v, op.task) PROVE result[v] = Rows(op)
      <3>1. rows[v] = Rows(op)
        BY <1>6, <2>7
      <3>2. Last(rows[v]) = Columns(op)
        BY <1>1, <1>3, <1>9, <3>1, RowsOfStack
      <3> HIDE DEF rows
      <3> QED BY <3>1, <3>2
    <2> HIDE DEF result
    <2>8. \A v \in AIV : HasRows(v, op.task)' => Head(l0c').result[v] = Rows(op)'
      BY <1>0, <2>4, <2>7
    <2> QED BY <1>1, <2>3, <2>4, <2>5, <2>6, <2>8 DEF Accumulator
  <1> QED BY <1>4, <1>5, <1>7, <1>8, <1>11, <1>12, <1>13, <1>14, InvByParts DEF Buffers

\* AicMultiply preserves the invariant.
LEMMA AicMultiplyKeeps == ASSUME IInv, AicMultiply PROVE IInv'
  <1>1. PICK op : op = Head(cube)
    OBVIOUS
  <1>2. op.unit = "QK" \/ op.unit = "PV"
    BY <1>1 DEF AicMultiply
  <1> QED BY <1>1, <1>2, AicMultiplyQKDone, AicMultiplyPVDone

-----------------------------------------------------------------------------
(* PIPE_FIX.                                                               *)

\* The slot that S is stored in is not that of a stack an AIV has still to load.
LEMMA SSlotsApart ==
    ASSUME IInv, NEW v \in AIV, NEW op \in Ops, op.unit = "QK", op \in Multiplied, op \notin Stored,
           NEW a \in Ops, a.unit = "QK", HasRows(v, a.task), a \in Stored, a \notin AivLoaded(v)
    PROVE  a.slot # op.slot
  <1>1. tasks \in TaskLists /\ AtOK(AIC) /\ AIC \in Units /\ a \in QKs /\ op \in QKs /\ a # op
    BY DEF IInv, TypeOK, AtsOK, Units, QKs
  <1>2. a \in Window(AIC)
    <2>1. a \in Passed(AIC)
      BY <1>1, StepsFollow
    <2>2. a \notin AivStored(v)
      BY <1>1, StepsFollow
    <2>3. PVOf(a) \notin Passed(AIC)
      BY <1>1, <2>2, StepsFollow
    <2> QED BY <1>1, <2>1, <2>3 DEF Window
  <1>3. op \in Window(AIC)
    <2>1. op \in Passed(AIC)
      BY <1>1, StepsFollow
    <2>2. op \notin AivStored(v)
      BY <1>1, StepsFollow
    <2>3. PVOf(op) \notin Passed(AIC)
      BY <1>1, <2>2, StepsFollow
    <2> QED BY <1>1, <2>1, <2>3 DEF Window
  <1>4. a.task = op.task /\ a.count <= op.count + PreLaunch /\ op.count <= a.count + PreLaunch
    BY <1>1, <1>2, <1>3, WindowSpan
  <1>5. a.count \in Nat /\ op.count \in Nat /\ a.slot = Slot(a.count) /\ op.slot = Slot(op.count)
    BY <1>1, OpFields
  <1>6. a.count # op.count
    BY <1>1, <1>4, SameOp
  <1>7. Slot(a.count) # Slot(op.count)
    <2>1. CASE a.count < op.count
      BY <1>4, <1>5, <2>1, SlotsApart
    <2>2. CASE op.count < a.count
      BY <1>4, <1>5, <2>2, SlotsApart
    <2> QED BY <1>5, <1>6, <2>1, <2>2
  <1> QED BY <1>5, <1>7

\* A stack of P that the AIC multiplies has been stored, and all that the AIVs
\* compute before it is over.
LEMMA ComputedBehindP ==
    ASSUME IInv, NEW v \in AIV, NEW op \in Ops, op.unit = "PV", op \in Passed(AIC),
           NEW a \in Ops, a.unit = "PV", HasRows(v, a.task),
           a.task < op.task \/ (a.task = op.task /\ a.count + PreLaunch < op.count)
    PROVE  a \in Computed(v)
  <1> DEFINE b == QKOf(op)
             o == OOf(a)
  <1>1. tasks \in TaskLists /\ AtsOK /\ QueuesInOrder /\ PipesFollow
    BY DEF IInv, TypeOK
  <1>2. b \in Ops /\ b.unit = "QK" /\ b.task = op.task /\ b.count = op.count /\ PVOf(b) = op /\ b \in QKs
    BY <1>1, OtherOps, HalvesInOrder DEF QKs
  <1>3. o \in Ops /\ o.unit = "O" /\ o.task = a.task
    BY <1>1, OtherOps
  <1>o. Before(a, o)
    <2>1. a.count \in 0..(N(a.task) - 1) /\ o.count = N(a.task) - 1 /\ N(a.task) \in Nat
      BY <1>1, OpFields, OtherOps
    <2>2. Place(a) = 4 * (a.count + PreLaunch) + 2 /\ Place(o) = 4 * (o.count + PreLaunch) + 3
      BY <1>1, <1>3, Places
    <2>3. Place(a) < Place(o)
      BY <2>1, <2>2, Sizes
    <2> QED BY <1>3, <2>3 DEF Before
  <1> HIDE DEF b, o
  <1>4. b \in AivStored(v)
    BY <1>2, StepsFollow
  <1>5. CASE a.task < op.task
    <2>1. Before(o, b)
      BY <1>2, <1>3, <1>5 DEF Before
    <2>2. o \in AivStored(v)
      BY <1>1, <1>3, <1>4, <2>1, PipesInOrder
    <2>3. o \in Computed(v)
      BY <1>1, <1>3, <2>2 DEF PipesFollow
    <2> QED BY <1>1, <1>3, <1>o, <2>3, PipesInOrder
  <1>6. CASE a.task = op.task /\ a.count + PreLaunch < op.count
    <2>1. a.count \in Nat /\ op.count \in Nat
      BY <1>1, OpFields
    <2>2. Place(a) = 4 * (a.count + PreLaunch) + 2 /\ Place(b) = 4 * op.count + 1
      BY <1>1, <1>2, Places
    <2>3. Place(a) < Place(b)
      BY <1>6, <2>1, <2>2, Sizes
    <2>4. Before(a, b)
      BY <1>2, <1>6, <2>3 DEF Before
    <2>5. b \in Computed(v)
      BY <1>2, <1>4, <1>6, StepsFollow
    <2> QED BY <1>1, <2>4, <2>5, PipesInOrder
  <1> QED BY <1>5, <1>6

\* The slot that OTmp is stored in is not that of a stack an AIV has still to load.
LEMMA OTmpSlotsApart ==
    ASSUME IInv, NEW v \in AIV, NEW op \in Ops, op.unit = "PV", op \in Passed(AIC),
           NEW a \in Ops, a.unit = "PV", HasRows(v, a.task), Before(a, op), a \notin AivLoaded(v)
    PROVE  a.slot # op.slot
  <1>1. tasks \in TaskLists /\ PipesFollow
    BY DEF IInv, TypeOK
  <1>2. a \notin Computed(v)
    BY <1>1 DEF PipesFollow
  <1>3. ~(a.task < op.task) /\ ~(a.task = op.task /\ a.count + PreLaunch < op.count)
    BY <1>2, ComputedBehindP
  <1>4. a.task = op.task /\ a.count < op.count
    BY <1>1, <1>3, HalvesInOrder
  <1>5. a.count \in Nat /\ op.count \in Nat /\ a.slot = Slot(a.count) /\ op.slot = Slot(op.count)
    BY <1>1, OpFields
  <1>6. op.count <= a.count + PreLaunch
    BY <1>3, <1>4, <1>5, Sizes
  <1> QED BY <1>4, <1>5, <1>6, SlotsApart

\* L1 stays.
LEMMA L1Stays ==
    ASSUME IInv, tasks' = tasks, Loaded' = Loaded, Multiplied' = Multiplied, l1' = l1
    PROVE  Q_InL1' /\ P_InL1'
  <1>1. \A op : Rows(op)' = Rows(op) /\ QKOf(op)' = QKOf(op)
    BY TasksStay
  <1>2. \A v, i : HasRows(v, i)' = HasRows(v, i)
    BY TasksStay
  <1>3. Q_InL1'
    BY <1>1 DEF IInv, Q_InL1, LastIn
  <1>4. P_InL1'
    BY <1>1, <1>2 DEF IInv, P_InL1
  <1> QED BY <1>3, <1>4

\* AicStore of S, and the set of qkReady.
LEMMA AicStoreQKDone ==
    ASSUME IInv, AicStore, NEW op, op = Head(l0c).op, op.unit = "QK"
    PROVE  IInv'
  <1> DEFINE result == Head(l0c).result
  <1>1. /\ l0c # <<>> /\ l0c' = <<>>
        /\ s' = [s EXCEPT ![op.slot] = result]
        /\ qkReady' = SetByAic(qkReady)
        /\ UNCHANGED <<tasks, at, aicMte2, cube, l1, p, oTmp, softmaxReady, pvReady, queues, ub, output>>
    BY DEF AicStore
  <1>2. /\ op \in Multiplied /\ op \notin Stored /\ Stored' = Stored \cup {op}
        /\ Multiplied' = Multiplied /\ Loaded' = Loaded /\ op \in Ops
        /\ AicQueuesInOrder'
    BY <1>1, StoreStep
  <1>3. /\ AtsOK' /\ QueuesInOrder' /\ InUb' /\ Outputs' /\ \A v \in AIV : AivDoneStays(v)
        /\ \A u : Passed(u)' = Passed(u)
    BY <1>1, <1>2, AicStepKeeps
  <1>4. tasks \in TaskLists /\ TypeOK /\ AtsOK /\ QueuesInOrder /\ Accumulator /\ Workspace /\ Waited /\ FlagsCount
        /\ op \in QKs
    BY <1>1, <1>2 DEF IInv, TypeOK, QKs
  <1>5. result = Columns(op) /\ result \in TileSet
    <2>1. result = Columns(op)
      BY <1>1, <1>4 DEF Accumulator
    <2> QED BY <1>1, <1>2, <1>4, <2>1, RowsOfStack
  <1> HIDE DEF result
  <1>6. op.slot \in 0..PreLaunch
    <2>1. op.count \in Nat /\ op.slot = Slot(op.count)
      BY <1>1, <1>2, <1>4, OpFields
    <2> QED BY <2>1, Sizes, SlotInRing
  <1>7. s \in [0..PreLaunch -> TileSet] /\ s' \in [0..PreLaunch -> TileSet] /\ s'[op.slot] = Columns(op)
        /\ \A k \in 0..PreLaunch : k # op.slot => s'[k] = s[k]
    BY <1>1, <1>4, <1>5, <1>6, Typed
  <1>8. qkReady \in [AIV -> Nat] /\ qkReady' \in [AIV -> Nat] /\ \A v \in AIV : qkReady'[v] = qkReady[v] + 1
    BY <1>1, <1>4, Typed DEF SetByAic
  <1>9. TypeOK'
    BY <1>1, <1>4, <1>7, <1>8, Typed, TypesChange DEF queues
  <1>0. /\ Ops' = Ops /\ QKs' = QKs /\ \A o : Rows(o)' = Rows(o) /\ PVOf(o)' = PVOf(o)
        /\ \A v, i : HasRows(v, i)' = HasRows(v, i)
    BY <1>1, TasksStay
  <1>10. FlagsCount'
    <2> SUFFICES ASSUME NEW v \in AIV
                 PROVE  /\ qkReady'[v] = Cardinality(Announced(v)')
                        /\ softmaxReady'[v] = Cardinality(Softened(v)')
                        /\ pvReady'[v] = Cardinality(Weighted(v)')
      BY DEF FlagsCount
    <2>1. op \notin Passed(v) /\ op \notin Announced(v)
      BY <1>2, <1>4 DEF Waited, Announced
    <2>2. Announced(v)' = Announced(v) \cup {op}
      BY <1>0, <1>2, <1>3, <1>4, <2>1 DEF Announced
    <2>3. IsFiniteSet(Announced(v))
      BY FlagSetsSize
    <2>4. Cardinality(Announced(v)') = Cardinality(Announced(v)) + 1
      BY <2>1, <2>2, <2>3, CountUp
    <2>5. Softened(v)' = Softened(v)
      BY <1>0, <1>3 DEF Softened, AivDoneStays
    <2>6. Weighted(v)' = Weighted(v)
      <3>1. \A a \in QKs : PVOf(a) # op
        BY <1>1, <1>4, OtherOps DEF QKs
      <3> QED BY <1>0, <1>2, <1>3, <3>1 DEF Weighted
    <2> QED BY <1>1, <1>4, <1>8, <2>4, <2>5, <2>6 DEF FlagsCount
  <1>11. Waited'
    BY <1>0, <1>2, <1>3, <1>4 DEF Waited, AivDoneStays
  <1>12. PipesFollow'
    BY <1>1, <1>2, <1>3, FollowsStays
  <1>13. Q_InL1' /\ P_InL1'
    BY <1>1, <1>2, L1Stays
  <1>14. Accumulator'
    BY <1>1 DEF Accumulator
  <1>15. Workspace'
    <2>1. ASSUME NEW v \in AIV, NEW a \in Ops, HasRows(v, a.task), a.unit = "QK", a \in Stored', a \notin AivLoaded(v)
          PROVE  s'[a.slot] = Columns(a)
      <3>1. CASE a = op
        BY <1>7, <3>1
      <3>2. CASE a # op
        <4>1. a \in Stored
          BY <1>2, <2>1, <3>2
        <4>2. a.slot # op.slot
          BY <1>1, <1>2, <2>1, <4>1, SSlotsApart
        <4>3. s[a.slot] = Columns(a)
          BY <1>4, <2>1, <4>1 DEF Workspace
        <4>4. a.slot \in 0..PreLaunch
          <5>1. a.count \in Nat /\ a.slot = Slot(a.count)
            BY <1>4, <2>1, OpFields
          <5> QED BY <5>1, Sizes, SlotInRing
        <4> QED BY <1>7, <4>2, <4>3, <4>4
      <3> QED BY <3>1, <3>2
    <2>2. ASSUME NEW v \in AIV, NEW a \in Ops, HasRows(v, a.task)
          PROVE  /\ a.unit = "QK" /\ a \in AivStored(v) /\ PVOf(a) \notin Loaded => p[a.slot][v] = Rows(a)
                 /\ a.unit = "PV" /\ a \in Stored' /\ a \notin AivLoaded(v) => oTmp[a.slot][v] = Rows(a)
      BY <1>1, <1>2, <1>4, <2>2 DEF Workspace
    <2>3. \A v \in AIV : AivLoaded(v)' = AivLoaded(v) /\ AivStored(v)' = AivStored(v)
      BY <1>3 DEF AivDoneStays
    <2> QED BY <1>0, <1>1, <1>2, <2>1, <2>2, <2>3 DEF Workspace
  <1> QED BY <1>3, <1>9, <1>10, <1>11, <1>12, <1>13, <1>14, <1>15, InvByParts DEF Buffers

\* AicStore of OTmp, and the set of pvReady.
LEMMA AicStorePVDone ==
    ASSUME IInv, AicStore, NEW op, op = Head(l0c).op, op.unit = "PV"
    PROVE  IInv'
  <1> DEFINE result == Head(l0c).result
  <1>1. /\ l0c # <<>> /\ l0c' = <<>>
        /\ oTmp' = [oTmp EXCEPT ![op.slot] = result]
        /\ pvReady' = SetByAic(pvReady)
        /\ UNCHANGED <<tasks, at, aicMte2, cube, l1, p, s, softmaxReady, qkReady, queues, ub, output>>
    BY DEF AicStore
  <1>2. /\ op \in Multiplied /\ op \notin Stored /\ Stored' = Stored \cup {op}
        /\ Multiplied' = Multiplied /\ Loaded' = Loaded /\ op \in Ops
        /\ AicQueuesInOrder'
    BY <1>1, StoreStep
  <1>3. /\ AtsOK' /\ QueuesInOrder' /\ InUb' /\ Outputs' /\ \A v \in AIV : AivDoneStays(v)
        /\ \A u : Passed(u)' = Passed(u)
    BY <1>1, <1>2, AicStepKeeps
  <1>4. tasks \in TaskLists /\ TypeOK /\ AtsOK /\ QueuesInOrder /\ Accumulator /\ Workspace /\ Waited /\ FlagsCount
    BY DEF IInv, TypeOK
  <1>5. result \in [AIV -> RowsSet] /\ \A v \in AIV : HasRows(v, op.task) => result[v] = Rows(op)
    BY <1>1, <1>4 DEF Accumulator
  <1> HIDE DEF result
  <1>6. op.slot \in 0..PreLaunch
    <2>1. op.count \in Nat /\ op.slot = Slot(op.count)
      BY <1>1, <1>2, <1>4, OpFields
    <2> QED BY <2>1, Sizes, SlotInRing
  <1>7. oTmp \in [0..PreLaunch -> [AIV -> RowsSet]] /\ oTmp' \in [0..PreLaunch -> [AIV -> RowsSet]]
        /\ oTmp'[op.slot] = result
        /\ \A k \in 0..PreLaunch : k # op.slot => oTmp'[k] = oTmp[k]
    BY <1>1, <1>4, <1>5, <1>6, Typed
  <1>8. pvReady \in [AIV -> Nat] /\ pvReady' \in [AIV -> Nat] /\ \A v \in AIV : pvReady'[v] = pvReady[v] + 1
    BY <1>1, <1>4, Typed DEF SetByAic
  <1>9. TypeOK'
    BY <1>1, <1>4, <1>7, <1>8, Typed, TypesChange DEF queues
  <1>0. /\ Ops' = Ops /\ QKs' = QKs /\ \A o : Rows(o)' = Rows(o) /\ PVOf(o)' = PVOf(o)
        /\ \A v, i : HasRows(v, i)' = HasRows(v, i)
    BY <1>1, TasksStay
  <1>10. FlagsCount'
    <2> SUFFICES ASSUME NEW v \in AIV
                 PROVE  /\ qkReady'[v] = Cardinality(Announced(v)')
                        /\ softmaxReady'[v] = Cardinality(Softened(v)')
                        /\ pvReady'[v] = Cardinality(Weighted(v)')
      BY DEF FlagsCount
    <2> DEFINE b == QKOf(op)
    <2>1. b \in QKs /\ PVOf(b) = op
      BY <1>1, <1>2, <1>4, OtherOps, HalvesInOrder DEF QKs
    <2>2. \A a \in QKs : PVOf(a) = op => a = b
      BY <1>1, <1>2, <1>4, HalvesInOrder DEF QKs
    <2> HIDE DEF b
    <2>3. op \notin Passed(v) /\ b \notin Weighted(v)
      BY <1>2, <1>4, <2>1 DEF Waited, Weighted
    <2>4. Weighted(v)' = Weighted(v) \cup {b}
      BY <1>0, <1>2, <1>3, <2>1, <2>2, <2>3 DEF Weighted
    <2>5. IsFiniteSet(Weighted(v))
      BY FlagSetsSize
    <2>6. Cardinality(Weighted(v)') = Cardinality(Weighted(v)) + 1
      BY <2>3, <2>4, <2>5, CountUp
    <2>7. Softened(v)' = Softened(v)
      BY <1>0, <1>3 DEF Softened, AivDoneStays
    <2>8. Announced(v)' = Announced(v)
      BY <1>0, <1>1, <1>2, <1>3 DEF Announced, QKs
    <2> QED BY <1>1, <1>4, <1>8, <2>6, <2>7, <2>8 DEF FlagsCount
  <1>11. Waited'
    BY <1>0, <1>2, <1>3, <1>4 DEF Waited, AivDoneStays
  <1>12. PipesFollow'
    BY <1>1, <1>2, <1>3, FollowsStays
  <1>13. Q_InL1' /\ P_InL1'
    BY <1>1, <1>2, L1Stays
  <1>14. Accumulator'
    BY <1>1 DEF Accumulator
  <1>15. Workspace'
    <2>1. ASSUME NEW v \in AIV, NEW a \in Ops, HasRows(v, a.task), a.unit = "PV", a \in Stored', a \notin AivLoaded(v)
          PROVE  oTmp'[a.slot][v] = Rows(a)
      <3>1. CASE a = op
        BY <1>5, <1>7, <2>1, <3>1
      <3>2. CASE a # op
        <4>1. a \in Stored /\ a \in Multiplied
          BY <1>2, <1>4, <2>1, <3>2, StoredInOrder
        <4>2. Before(a, op)
          BY <1>1, <1>2, <1>4, <2>1, <3>2, <4>1, InAccumulator, TotalOrder
        <4>3. op \in Passed(AIC)
          BY <1>2, <1>4, PipesInOrder
        <4>4. a.slot # op.slot
          BY <1>1, <1>2, <2>1, <4>2, <4>3, OTmpSlotsApart
        <4>5. oTmp[a.slot][v] = Rows(a)
          BY <1>4, <2>1, <4>1 DEF Workspace
        <4>6. a.slot \in 0..PreLaunch
          <5>1. a.count \in Nat /\ a.slot = Slot(a.count)
            BY <1>4, <2>1, OpFields
          <5> QED BY <5>1, Sizes, SlotInRing
        <4> QED BY <1>7, <4>4, <4>5, <4>6
      <3> QED BY <3>1, <3>2
    <2>2. ASSUME NEW v \in AIV, NEW a \in Ops, HasRows(v, a.task)
          PROVE  /\ a.unit = "QK" /\ a \in AivStored(v) /\ PVOf(a) \notin Loaded => p[a.slot][v] = Rows(a)
                 /\ a.unit = "QK" /\ a \in Stored' /\ a \notin AivLoaded(v) => s[a.slot] = Columns(a)
      BY <1>1, <1>2, <1>4, <2>2 DEF Workspace
    <2>3. \A v \in AIV : AivLoaded(v)' = AivLoaded(v) /\ AivStored(v)' = AivStored(v)
      BY <1>3 DEF AivDoneStays
    <2> QED BY <1>0, <1>1, <1>2, <2>1, <2>2, <2>3 DEF Workspace
  <1> QED BY <1>3, <1>9, <1>10, <1>11, <1>12, <1>13, <1>14, <1>15, InvByParts DEF Buffers

\* AicStore preserves the invariant.
LEMMA AicStoreKeeps == ASSUME IInv, AicStore PROVE IInv'
  <1>1. PICK op : op = Head(l0c).op
    OBVIOUS
  <1>2. op.unit = "QK" \/ op.unit = "PV"
    BY <1>1 DEF AicStore
  <1> QED BY <1>1, <1>2, AicStoreQKDone, AicStorePVDone

-----------------------------------------------------------------------------
(* PIPE_MTE2 of an AIV.                                                    *)

\* The parts that a step of a pipe of an AIV leaves alone.
LEMMA AivStepKeeps ==
    ASSUME IInv, tasks' = tasks, at' = at, UNCHANGED aicVars, NEW v \in AIV,
           NEW m2, NEW ve, NEW m3,
           mte2' = [mte2 EXCEPT ![v] = m2], vec' = [vec EXCEPT ![v] = ve], mte3' = [mte3 EXCEPT ![v] = m3],
           AivQueuesInOrder(v)'
    PROVE  /\ AtsOK' /\ QueuesInOrder' /\ AicDoneStays /\ Q_InL1' /\ P_InL1' /\ Accumulator'
           /\ \A u : Passed(u)' = Passed(u)
           /\ \A w \in AIV : w # v => AivDoneStays(w)
  <1>1. AtsOK' /\ \A u : Passed(u)' = Passed(u)
    BY UnitsStay DEF PassedGrows
  <1>2. AicDoneStays /\ AicQueuesInOrder'
    BY AicStays
  <1>3. \A w \in AIV : w # v => AivDoneStays(w) /\ AivQueuesInOrder(w)'
    BY OtherAivsStay
  <1>4. QueuesInOrder'
    <2>1. \A w \in AIV : AivQueuesInOrder(w)'
      BY <1>3
    <2> QED BY <1>2, <2>1, QueuesByUnitNext
  <1>5. Q_InL1' /\ P_InL1' /\ Accumulator'
    BY <1>2, AicBuffersStay DEF aicVars
  <1> QED BY <1>1, <1>2, <1>3, <1>4, <1>5

\* The buffers of the other AIVs.
LEMMA InUbByAiv ==
    ASSUME IInv, tasks' = tasks, NEW v \in AIV, \A w \in AIV : w # v => AivDoneStays(w) /\ ub'[w] = ub[w],
           S_InUb(v)', P_InUb(v)', OTmp_InUb(v)', KeptInUb(v)'
    PROVE  InUb'
  <1>1. ASSUME NEW w \in AIV, w # v PROVE S_InUb(w)' /\ P_InUb(w)' /\ OTmp_InUb(w)' /\ KeptInUb(w)'
    BY <1>1, UbStays
  <1>2. ASSUME NEW w \in AIV PROVE S_InUb(w)' /\ P_InUb(w)' /\ OTmp_InUb(w)' /\ KeptInUb(w)'
    BY <1>1
  <1> QED BY <1>2 DEF InUb

\* A queue left alone by a pipe, as an update.
LEMMA QueueOfOne ==
    ASSUME NEW queue, queue = [w \in AIV |-> queue[w]], NEW v \in AIV
    PROVE  queue = [queue EXCEPT ![v] = queue[v]]
  OBVIOUS

\* The unified buffer of an AIV, field by field.
LEMMA UbRecord ==
    ASSUME ub \in [AIV -> UbSet], NEW v \in AIV
    PROVE  /\ ub[v].ls \in Seq(TileSet) /\ ub[v].lp \in Seq(RowsSet) /\ ub[v].seen \in RowsSet
           /\ ub[v].dm \in [0..PreLaunch -> RowsSet] /\ ub[v].lo \in RowsSet
           /\ ub[v].loState \in {"free", "loaded"} /\ ub[v].go \in RowsSet /\ ub[v].divided \in BOOLEAN
           /\ ub[v] = [ls |-> ub[v].ls, lp |-> ub[v].lp, seen |-> ub[v].seen, dm |-> ub[v].dm, lo |-> ub[v].lo,
                       loState |-> ub[v].loState, go |-> ub[v].go, divided |-> ub[v].divided]
  BY DEF UbSet

\* The unified buffer with some of its fields changed.
WithS(r, x) == [r EXCEPT !.ls = x]
WithOTmp(r, x, y) == [r EXCEPT !.loState = "loaded", !.go = x, !.lo = y]
WithP(r, x, y) == [r EXCEPT !.ls = <<>>, !.lp = <<x>>, !.seen = x, !.dm = y]
WithO(r, x) == [r EXCEPT !.go = x, !.loState = "free"]
Divided(r, x) == [r EXCEPT !.go = x, !.divided = TRUE]
WithoutP(r) == [r EXCEPT !.lp = <<>>]
Written(r) == [r EXCEPT !.divided = FALSE]

\* The load of S.
LEMMA UbLs ==
    ASSUME NEW r \in UbSet, NEW x \in Seq(TileSet), NEW b, b = WithS(r, x)
    PROVE  /\ b \in UbSet
           /\ b.ls = x /\ b.lp = r.lp /\ b.seen = r.seen /\ b.dm = r.dm
           /\ b.lo = r.lo /\ b.loState = r.loState /\ b.go = r.go /\ b.divided = r.divided
  <1>0. b = [r EXCEPT !.ls = x]
    BY DEF WithS
  <1>1. b \in UbSet
    BY <1>0, ZenonT(60) DEF UbSet
  <1>2. b.ls = x
    BY <1>0, SMT DEF UbSet
  <1>3. b.lp = r.lp
    BY <1>0, SMT DEF UbSet
  <1>4. b.seen = r.seen
    BY <1>0, SMT DEF UbSet
  <1>5. b.dm = r.dm
    BY <1>0, SMT DEF UbSet
  <1>6. b.lo = r.lo
    BY <1>0, SMT DEF UbSet
  <1>7. b.loState = r.loState
    BY <1>0, SMT DEF UbSet
  <1>8. b.go = r.go
    BY <1>0, SMT DEF UbSet
  <1>9. b.divided = r.divided
    BY <1>0, SMT DEF UbSet
  <1> QED BY <1>1, <1>2, <1>3, <1>4, <1>5, <1>6, <1>7, <1>8, <1>9

\* The load of OTmp.
LEMMA UbOTmp ==
    ASSUME NEW r \in UbSet, NEW x \in RowsSet, NEW y \in RowsSet, NEW b, b = WithOTmp(r, x, y)
    PROVE  /\ b \in UbSet
           /\ b.ls = r.ls /\ b.lp = r.lp /\ b.seen = r.seen /\ b.dm = r.dm
           /\ b.lo = y /\ b.loState = "loaded" /\ b.go = x /\ b.divided = r.divided
  <1>0. b = [r EXCEPT !.loState = "loaded", !.go = x, !.lo = y]
    BY DEF WithOTmp
  <1>1. b \in UbSet
    BY <1>0, ZenonT(60) DEF UbSet
  <1>2. b.ls = r.ls
    BY <1>0, SMT DEF UbSet
  <1>3. b.lp = r.lp
    BY <1>0, SMT DEF UbSet
  <1>4. b.seen = r.seen
    BY <1>0, SMT DEF UbSet
  <1>5. b.dm = r.dm
    BY <1>0, SMT DEF UbSet
  <1>6. b.lo = y
    BY <1>0, SMT DEF UbSet
  <1>7. b.loState = "loaded"
    BY <1>0, SMT DEF UbSet
  <1>8. b.go = x
    BY <1>0, SMT DEF UbSet
  <1>9. b.divided = r.divided
    BY <1>0, SMT DEF UbSet
  <1> QED BY <1>1, <1>2, <1>3, <1>4, <1>5, <1>6, <1>7, <1>8, <1>9

\* The softmax.
LEMMA UbSoftmax ==
    ASSUME NEW r \in UbSet, NEW x \in RowsSet, NEW y \in [0..PreLaunch -> RowsSet], NEW b, b = WithP(r, x, y)
    PROVE  /\ b \in UbSet
           /\ b.ls = <<>> /\ b.lp = <<x>> /\ b.seen = x /\ b.dm = y
           /\ b.lo = r.lo /\ b.loState = r.loState /\ b.go = r.go /\ b.divided = r.divided
  <1>0. b = [r EXCEPT !.ls = <<>>, !.lp = <<x>>, !.seen = x, !.dm = y]
    BY DEF WithP
  <1>a. <<>> \in Seq(TileSet) /\ <<x>> \in Seq(RowsSet)
    OBVIOUS
  <1>1. b \in UbSet
    BY <1>0, <1>a, ZenonT(60) DEF UbSet
  <1>2. b.ls = <<>>
    BY <1>0, SMT DEF UbSet
  <1>3. b.lp = <<x>>
    BY <1>0, SMT DEF UbSet
  <1>4. b.seen = x
    BY <1>0, SMT DEF UbSet
  <1>5. b.dm = y
    BY <1>0, SMT DEF UbSet
  <1>6. b.lo = r.lo
    BY <1>0, SMT DEF UbSet
  <1>7. b.loState = r.loState
    BY <1>0, SMT DEF UbSet
  <1>8. b.go = r.go
    BY <1>0, SMT DEF UbSet
  <1>9. b.divided = r.divided
    BY <1>0, SMT DEF UbSet
  <1> QED BY <1>1, <1>2, <1>3, <1>4, <1>5, <1>6, <1>7, <1>8, <1>9

\* The rescaling.
LEMMA UbRescaled ==
    ASSUME NEW r \in UbSet, NEW x \in RowsSet, NEW b, b = WithO(r, x)
    PROVE  /\ b \in UbSet
           /\ b.ls = r.ls /\ b.lp = r.lp /\ b.seen = r.seen /\ b.dm = r.dm
           /\ b.lo = r.lo /\ b.loState = "free" /\ b.go = x /\ b.divided = r.divided
  <1>0. b = [r EXCEPT !.go = x, !.loState = "free"]
    BY DEF WithO
  <1>1. b \in UbSet
    BY <1>0, ZenonT(60) DEF UbSet
  <1>2. b.ls = r.ls
    BY <1>0, SMT DEF UbSet
  <1>3. b.lp = r.lp
    BY <1>0, SMT DEF UbSet
  <1>4. b.seen = r.seen
    BY <1>0, SMT DEF UbSet
  <1>5. b.dm = r.dm
    BY <1>0, SMT DEF UbSet
  <1>6. b.lo = r.lo
    BY <1>0, SMT DEF UbSet
  <1>7. b.loState = "free"
    BY <1>0, SMT DEF UbSet
  <1>8. b.go = x
    BY <1>0, SMT DEF UbSet
  <1>9. b.divided = r.divided
    BY <1>0, SMT DEF UbSet
  <1> QED BY <1>1, <1>2, <1>3, <1>4, <1>5, <1>6, <1>7, <1>8, <1>9

\* The division.
LEMMA UbDivided ==
    ASSUME NEW r \in UbSet, NEW x \in RowsSet, NEW b, b = Divided(r, x)
    PROVE  /\ b \in UbSet
           /\ b.ls = r.ls /\ b.lp = r.lp /\ b.seen = r.seen /\ b.dm = r.dm
           /\ b.lo = r.lo /\ b.loState = r.loState /\ b.go = x /\ b.divided
  <1>0. b = [r EXCEPT !.go = x, !.divided = TRUE]
    BY DEF Divided
  <1>1. b \in UbSet
    BY <1>0, ZenonT(60) DEF UbSet
  <1>2. b.ls = r.ls
    BY <1>0, SMT DEF UbSet
  <1>3. b.lp = r.lp
    BY <1>0, SMT DEF UbSet
  <1>4. b.seen = r.seen
    BY <1>0, SMT DEF UbSet
  <1>5. b.dm = r.dm
    BY <1>0, SMT DEF UbSet
  <1>6. b.lo = r.lo
    BY <1>0, SMT DEF UbSet
  <1>7. b.loState = r.loState
    BY <1>0, SMT DEF UbSet
  <1>8. b.go = x
    BY <1>0, SMT DEF UbSet
  <1>9. b.divided
    BY <1>0, SMT DEF UbSet
  <1> QED BY <1>1, <1>2, <1>3, <1>4, <1>5, <1>6, <1>7, <1>8, <1>9

\* The store of P.
LEMMA UbLp ==
    ASSUME NEW r \in UbSet, NEW b, b = WithoutP(r)
    PROVE  /\ b \in UbSet
           /\ b.ls = r.ls /\ b.lp = <<>> /\ b.seen = r.seen /\ b.dm = r.dm
           /\ b.lo = r.lo /\ b.loState = r.loState /\ b.go = r.go /\ b.divided = r.divided
  <1>0. b = [r EXCEPT !.lp = <<>>]
    BY DEF WithoutP
  <1>a. <<>> \in Seq(RowsSet)
    OBVIOUS
  <1>1. b \in UbSet
    BY <1>0, <1>a, ZenonT(60) DEF UbSet
  <1>2. b.ls = r.ls
    BY <1>0, SMT DEF UbSet
  <1>3. b.lp = <<>>
    BY <1>0, SMT DEF UbSet
  <1>4. b.seen = r.seen
    BY <1>0, SMT DEF UbSet
  <1>5. b.dm = r.dm
    BY <1>0, SMT DEF UbSet
  <1>6. b.lo = r.lo
    BY <1>0, SMT DEF UbSet
  <1>7. b.loState = r.loState
    BY <1>0, SMT DEF UbSet
  <1>8. b.go = r.go
    BY <1>0, SMT DEF UbSet
  <1>9. b.divided = r.divided
    BY <1>0, SMT DEF UbSet
  <1> QED BY <1>1, <1>2, <1>3, <1>4, <1>5, <1>6, <1>7, <1>8, <1>9

\* The store of the output.
LEMMA UbWritten ==
    ASSUME NEW r \in UbSet, NEW b, b = Written(r)
    PROVE  /\ b \in UbSet
           /\ b.ls = r.ls /\ b.lp = r.lp /\ b.seen = r.seen /\ b.dm = r.dm
           /\ b.lo = r.lo /\ b.loState = r.loState /\ b.go = r.go /\ b.divided = FALSE
  <1>0. b = [r EXCEPT !.divided = FALSE]
    BY DEF Written
  <1>1. b \in UbSet
    BY <1>0, ZenonT(60) DEF UbSet
  <1>2. b.ls = r.ls
    BY <1>0, SMT DEF UbSet
  <1>3. b.lp = r.lp
    BY <1>0, SMT DEF UbSet
  <1>4. b.seen = r.seen
    BY <1>0, SMT DEF UbSet
  <1>5. b.dm = r.dm
    BY <1>0, SMT DEF UbSet
  <1>6. b.lo = r.lo
    BY <1>0, SMT DEF UbSet
  <1>7. b.loState = r.loState
    BY <1>0, SMT DEF UbSet
  <1>8. b.go = r.go
    BY <1>0, SMT DEF UbSet
  <1>9. b.divided = FALSE
    BY <1>0, SMT DEF UbSet
  <1> QED BY <1>1, <1>2, <1>3, <1>4, <1>5, <1>6, <1>7, <1>8, <1>9

\* The slot of the half of a stack.
LEMMA SlotOf ==
    ASSUME tasks \in TaskLists, NEW op \in Ops, op.unit \in {"QK", "PV"}
    PROVE  op.slot \in 0..PreLaunch /\ op.slot = Slot(op.count) /\ op.count \in Nat
  <1>1. op.count \in Nat /\ op.slot = Slot(op.count)
    BY OpFields
  <1> QED BY <1>1, Sizes, SlotInRing

\* Pipes still follow each other after a step of one of an AIV.
LEMMA FollowsAivStep ==
    ASSUME IInv, tasks' = tasks, AicDoneStays, NEW v \in AIV, \A w \in AIV : w # v => AivDoneStays(w),
           \A op \in Computed(v)' : op.unit # "O" => op \in AivLoaded(v)',
           \A op \in AivStored(v)' : HasRows(v, op.task) => op \in Computed(v)'
    PROVE  PipesFollow'
  <1>1. /\ \A o : QOf(o)' = QOf(o)
        /\ \A w, i : HasRows(w, i)' = HasRows(w, i)
    BY TasksStay
  <1>2. PipesFollow
    BY DEF IInv
  <1>3. \A o \in Multiplied' : /\ o.unit = "PV" => o \in Loaded'
                               /\ o.unit = "QK" => QOf(o)' \in Loaded'
    BY <1>1, <1>2 DEF PipesFollow, AicDoneStays
  <1>4. ASSUME NEW w \in AIV, w # v
        PROVE  /\ \A o \in Computed(w)' : o.unit # "O" => o \in AivLoaded(w)'
               /\ \A o \in AivStored(w)' : HasRows(w, o.task)' => o \in Computed(w)'
    BY <1>1, <1>2, <1>4 DEF PipesFollow, AivDoneStays
  <1>5. /\ \A o \in Computed(v)' : o.unit # "O" => o \in AivLoaded(v)'
        /\ \A o \in AivStored(v)' : HasRows(v, o.task)' => o \in Computed(v)'
    BY <1>1
  <1> QED BY <1>3, <1>4, <1>5 DEF PipesFollow

\* AivLoad of S: the slot holds the S of the stack.
LEMMA AivLoadQKDone ==
    ASSUME IInv, NEW v \in AIV, AivLoad(v), NEW op, op = Head(mte2[v]), op.unit = "QK"
    PROVE  IInv'
  <1>1. /\ mte2[v] # <<>> /\ mte2' = [mte2 EXCEPT ![v] = Tail(mte2[v])]
        /\ ub[v].ls = <<>> /\ ub' = [ub EXCEPT ![v].ls = <<s[op.slot]>>]
        /\ UNCHANGED <<tasks, at, aicVars, workspace, flags, vec, mte3, output>>
    BY DEF AivLoad
  <1>2. tasks \in TaskLists /\ TypeOK /\ AtsOK /\ QueuesInOrder /\ Workspace /\ Waited /\ PipesFollow
        /\ S_InUb(v) /\ P_InUb(v) /\ OTmp_InUb(v) /\ KeptInUb(v)
    BY DEF IInv, TypeOK, InUb
  <1>3. vec' = [vec EXCEPT ![v] = vec[v]] /\ mte3' = [mte3 EXCEPT ![v] = mte3[v]]
    BY <1>1, <1>2, FlagTypes, QueueOfOne
  <1>4. mte2'[v] = Tail(mte2[v]) /\ vec'[v] = vec[v] /\ mte3'[v] = mte3[v]
        /\ mte2' = [w \in AIV |-> mte2'[w]] /\ vec' = [w \in AIV |-> vec'[w]] /\ mte3' = [w \in AIV |-> mte3'[w]]
    <2>1. mte2 = [w \in AIV |-> mte2[w]] /\ vec = [w \in AIV |-> vec[w]] /\ mte3 = [w \in AIV |-> mte3[w]]
      BY <1>2, FlagTypes
    <2> QED BY <1>1, <2>1
  <1>5. /\ NextOf(AivLoaded(v), ForMte2(v), op)
        /\ AivLoaded(v)' = AivLoaded(v) \cup {op} /\ Computed(v)' = Computed(v) /\ AivStored(v)' = AivStored(v)
        /\ AivQueuesInOrder(v)'
    BY <1>1, <1>4, AivLoadStep
  <1>6. /\ AtsOK' /\ QueuesInOrder' /\ AicDoneStays /\ Q_InL1' /\ P_InL1' /\ Accumulator'
        /\ \A w \in AIV : w # v => AivDoneStays(w)
    BY <1>1, <1>3, <1>5, AivStepKeeps
  <1>7. op \in Ops /\ op \in Passed(v) /\ HasRows(v, op.task) /\ op \notin AivLoaded(v) /\ op \in QKs
    BY <1>1, <1>5, AivLoadNext DEF QKs
  <1>8. op \notin Computed(v) /\ op \in Stored /\ op.slot \in 0..PreLaunch
    BY <1>1, <1>2, <1>7, StepsFollow, SlotOf
  <1>9. s[op.slot] = Columns(op) /\ Columns(op) \in TileSet
    BY <1>1, <1>2, <1>7, <1>8, RowsOfStack DEF Workspace
  <1>10. /\ ub' \in [AIV -> UbSet] /\ \A w \in AIV : w # v => ub'[w] = ub[w]
         /\ ub'[v].ls = <<Columns(op)>> /\ ub'[v].lp = ub[v].lp /\ ub'[v].seen = ub[v].seen /\ ub'[v].dm = ub[v].dm
         /\ ub'[v].lo = ub[v].lo /\ ub'[v].loState = ub[v].loState /\ ub'[v].go = ub[v].go
         /\ ub'[v].divided = ub[v].divided
    <2>a. PICK y : y = <<Columns(op)>>
      OBVIOUS
    <2>r. PICK r : r = ub[v]
      OBVIOUS
    <2>0. PICK b : b = WithS(r, y)
      OBVIOUS
    <2>1. ub' = [ub EXCEPT ![v] = b]
      BY <1>1, <1>9, <2>0, <2>a, <2>r, Zenon DEF WithS
    <2>2. ub \in [AIV -> UbSet]
      BY <1>2, Typed
    <2>3. r \in UbSet /\ y \in Seq(TileSet)
      BY <1>9, <2>2, <2>a, <2>r
    <2>4. /\ b \in UbSet
          /\ b.ls = y /\ b.lp = r.lp /\ b.seen = r.seen /\ b.dm = r.dm
          /\ b.lo = r.lo /\ b.loState = r.loState /\ b.go = r.go /\ b.divided = r.divided
      BY <2>0, <2>3, UbLs
    <2>5. ub'[v] = b /\ ub' \in [AIV -> UbSet] /\ \A w \in AIV : w # v => ub'[w] = ub[w]
      BY <2>1, <2>2, <2>4
    <2> QED BY <2>4, <2>5, <2>a, <2>r
  <1>11. TypeOK'
    BY <1>1, <1>2, <1>4, <1>10, Typed, TypesChange DEF workspace, flags, aicVars
  <1>12. /\ Stored' = Stored /\ Loaded' = Loaded
         /\ \A w \in AIV : AivStored(w)' = AivStored(w)
         /\ \A w \in AIV : AivLoaded(w) \subseteq AivLoaded(w)'
    BY <1>5, <1>6 DEF AicDoneStays, AivDoneStays
  <1>13. FlagsCount' /\ Waited' /\ Outputs'
    BY <1>1, <1>12, CountsStay, OutputsStay
  <1>14. Workspace'
    BY <1>1, <1>12, WorkspaceStays
  <1>15. PipesFollow'
    BY <1>1, <1>2, <1>5, <1>6, FollowsAivStep DEF PipesFollow
  <1>0. \A o : Rows(o)' = Rows(o) /\ QKOf(o)' = QKOf(o) /\ PVOf(o)' = PVOf(o)
    BY <1>1, TasksStay
  <1>16. S_InUb(v)'
    <2>1. {o \in AivLoaded(v) \ Computed(v) : o.unit = "QK"} = {}
      <3>1. \A x : ub[v].ls # <<x>>
        BY <1>1
      <3> QED BY <1>2, <3>1 DEF S_InUb
    <2>2. {o \in AivLoaded(v)' \ Computed(v)' : o.unit = "QK"} = {op}
      BY <1>1, <1>5, <1>8, <2>1
    <2> QED BY <1>10, <2>2 DEF S_InUb
  <1>17. P_InUb(v)'
    BY <1>0, <1>2, <1>5, <1>10 DEF P_InUb
  <1>18. OTmp_InUb(v)'
    <2>1. {o \in AivLoaded(v)' \ Computed(v)' : o.unit = "PV"} = {o \in AivLoaded(v) \ Computed(v) : o.unit = "PV"}
      BY <1>1, <1>5
    <2> QED BY <1>0, <1>2, <1>10, <2>1 DEF OTmp_InUb
  <1>19. KeptInUb(v)'
    <2>1. ASSUME NEW o \in Computed(v), o.unit = "QK"
          PROVE  /\ LastIn(o, Computed(v)) => ub'[v].seen = Rows(o)
                 /\ o.count > 0 /\ PVOf(o) \notin Computed(v) => ub'[v].dm[o.slot] = Rows(o)
      BY <1>2, <1>10, <2>1 DEF KeptInUb
    <2>2. ASSUME NEW o \in Computed(v), o.unit = "PV", LastIn(o, Computed(v)),
                 \A b \in AivLoaded(v)' : b.unit = "PV" /\ Before(o, b) => b.count # 0
          PROVE  ub'[v].go = Rows(o)
      BY <1>2, <1>5, <1>10, <2>2 DEF KeptInUb
    <2>3. ub'[v].divided => \E o \in Computed(v) \ AivStored(v) : o.unit = "O"
      BY <1>2, <1>10 DEF KeptInUb
    <2> QED BY <1>0, <1>5, <2>1, <2>2, <2>3 DEF KeptInUb, LastIn
  <1>20. InUb'
    BY <1>1, <1>6, <1>10, <1>16, <1>17, <1>18, <1>19, InUbByAiv
  <1> QED BY <1>6, <1>11, <1>13, <1>14, <1>15, <1>20, InvByParts DEF Buffers

\* AivLoad of OTmp: the output it may be loaded over has been stored.
LEMMA AivLoadPVDone ==
    ASSUME IInv, NEW v \in AIV, AivLoad(v), NEW op, op = Head(mte2[v]), op.unit = "PV"
    PROVE  IInv'
  <1> DEFINE x == oTmp[op.slot][v]
             go == IF op.first THEN x ELSE ub[v].go
             lo == IF op.first THEN ub[v].lo ELSE x
  <1>1. /\ mte2[v] # <<>> /\ mte2' = [mte2 EXCEPT ![v] = Tail(mte2[v])]
        /\ ub[v].loState = "free"
        /\ ub' = [ub EXCEPT ![v].loState = "loaded", ![v].go = IF op.first THEN x ELSE @,
                            ![v].lo = IF op.first THEN @ ELSE x]
        /\ UNCHANGED <<tasks, at, aicVars, workspace, flags, vec, mte3, output>>
    BY DEF AivLoad
  <1>2. tasks \in TaskLists /\ TypeOK /\ AtsOK /\ QueuesInOrder /\ Workspace /\ Waited /\ PipesFollow
        /\ S_InUb(v) /\ P_InUb(v) /\ OTmp_InUb(v) /\ KeptInUb(v)
    BY DEF IInv, TypeOK, InUb
  <1>3. vec' = [vec EXCEPT ![v] = vec[v]] /\ mte3' = [mte3 EXCEPT ![v] = mte3[v]]
    BY <1>1, <1>2, FlagTypes, QueueOfOne
  <1>4. mte2'[v] = Tail(mte2[v]) /\ vec'[v] = vec[v] /\ mte3'[v] = mte3[v]
        /\ mte2' = [w \in AIV |-> mte2'[w]] /\ vec' = [w \in AIV |-> vec'[w]] /\ mte3' = [w \in AIV |-> mte3'[w]]
    <2>1. mte2 = [w \in AIV |-> mte2[w]] /\ vec = [w \in AIV |-> vec[w]] /\ mte3 = [w \in AIV |-> mte3[w]]
      BY <1>2, FlagTypes
    <2> QED BY <1>1, <2>1
  <1>5. /\ NextOf(AivLoaded(v), ForMte2(v), op)
        /\ AivLoaded(v)' = AivLoaded(v) \cup {op} /\ Computed(v)' = Computed(v) /\ AivStored(v)' = AivStored(v)
        /\ AivQueuesInOrder(v)'
    BY <1>1, <1>4, AivLoadStep
  <1>6. /\ AtsOK' /\ QueuesInOrder' /\ AicDoneStays /\ Q_InL1' /\ P_InL1' /\ Accumulator'
        /\ \A w \in AIV : w # v => AivDoneStays(w)
    BY <1>1, <1>3, <1>5, AivStepKeeps
  <1>7. op \in Ops /\ op \in Passed(v) /\ HasRows(v, op.task) /\ op \notin AivLoaded(v)
        /\ \A a \in AivLoaded(v) : Before(a, op)
    BY <1>1, <1>5, AivLoadNext
  <1>8. op \notin Computed(v) /\ op \in Stored /\ op.slot \in 0..PreLaunch /\ (op.first <=> op.count = 0)
    <2>1. QKOf(op) \in QKs /\ PVOf(QKOf(op)) = op
      BY <1>1, <1>2, <1>7, OtherOps, HalvesInOrder DEF QKs
    <2> QED BY <1>1, <1>2, <1>7, <2>1, SecondStepsFollow, SlotOf, OpFields
  <1>9. x = Rows(op) /\ x \in RowsSet
    BY <1>1, <1>2, <1>7, <1>8, RowsOfStack DEF Workspace
  <1> HIDE DEF x
  <1>b. ub \in [AIV -> UbSet]
    BY <1>2, Typed
  <1>c. go \in RowsSet /\ lo \in RowsSet
    BY <1>9, <1>b, UbRecord
  <1>10. /\ ub' \in [AIV -> UbSet] /\ \A w \in AIV : w # v => ub'[w] = ub[w]
         /\ ub'[v].ls = ub[v].ls /\ ub'[v].lp = ub[v].lp /\ ub'[v].seen = ub[v].seen /\ ub'[v].dm = ub[v].dm
         /\ ub'[v].lo = lo /\ ub'[v].loState = "loaded" /\ ub'[v].go = go
         /\ ub'[v].divided = ub[v].divided
    <2>a. PICK y : y = go
      OBVIOUS
    <2>z. PICK z : z = lo
      OBVIOUS
    <2>r. PICK r : r = ub[v]
      OBVIOUS
    <2>0. PICK b : b = WithOTmp(r, y, z)
      OBVIOUS
    <2>1. ub' = [ub EXCEPT ![v] = b]
      BY <1>1, <1>b, <2>0, <2>a, <2>z, <2>r, Zenon DEF WithOTmp
    <2> HIDE DEF go, lo
    <2>3. r \in UbSet /\ y \in RowsSet /\ z \in RowsSet
      BY <1>b, <1>c, <2>a, <2>z, <2>r
    <2>4. /\ b \in UbSet
          /\ b.ls = r.ls /\ b.lp = r.lp /\ b.seen = r.seen /\ b.dm = r.dm
          /\ b.lo = z /\ b.loState = "loaded" /\ b.go = y /\ b.divided = r.divided
      BY <2>0, <2>3, UbOTmp
    <2>5. ub'[v] = b /\ ub' \in [AIV -> UbSet] /\ \A w \in AIV : w # v => ub'[w] = ub[w]
      BY <1>b, <2>1, <2>4
    <2> QED BY <2>4, <2>5, <2>a, <2>z, <2>r
  <1>11. TypeOK'
    BY <1>1, <1>2, <1>4, <1>10, Typed, TypesChange DEF workspace, flags, aicVars
  <1>12. /\ Stored' = Stored /\ Loaded' = Loaded
         /\ \A w \in AIV : AivStored(w)' = AivStored(w)
         /\ \A w \in AIV : AivLoaded(w) \subseteq AivLoaded(w)'
    BY <1>5, <1>6 DEF AicDoneStays, AivDoneStays
  <1>13. FlagsCount' /\ Waited' /\ Outputs'
    BY <1>1, <1>12, CountsStay, OutputsStay
  <1>14. Workspace'
    BY <1>1, <1>12, WorkspaceStays
  <1>15. PipesFollow'
    BY <1>1, <1>2, <1>5, <1>6, FollowsAivStep DEF PipesFollow
  <1>0. \A o : Rows(o)' = Rows(o) /\ QKOf(o)' = QKOf(o) /\ PVOf(o)' = PVOf(o)
    BY <1>1, TasksStay
  <1>16. S_InUb(v)'
    <2>1. {o \in AivLoaded(v)' \ Computed(v)' : o.unit = "QK"} = {o \in AivLoaded(v) \ Computed(v) : o.unit = "QK"}
      BY <1>1, <1>5
    <2> QED BY <1>2, <1>10, <2>1 DEF S_InUb
  <1>17. P_InUb(v)'
    BY <1>0, <1>2, <1>5, <1>10 DEF P_InUb
  <1>18. OTmp_InUb(v)'
    <2>1. {o \in AivLoaded(v) \ Computed(v) : o.unit = "PV"} = {}
      BY <1>1, <1>2 DEF OTmp_InUb
    <2>2. {o \in AivLoaded(v)' \ Computed(v)' : o.unit = "PV"} = {op}
      BY <1>1, <1>5, <1>8, <2>1
    <2>3. IF op.count = 0 THEN ub'[v].go = Rows(op) ELSE ub'[v].lo = Rows(op)
      BY <1>8, <1>9, <1>10
    <2> QED BY <1>0, <1>10, <2>2, <2>3 DEF OTmp_InUb
  <1>19. KeptInUb(v)'
    <2>1. ASSUME NEW o \in Computed(v), o.unit = "QK"
          PROVE  /\ LastIn(o, Computed(v)) => ub'[v].seen = Rows(o)
                 /\ o.count > 0 /\ PVOf(o) \notin Computed(v) => ub'[v].dm[o.slot] = Rows(o)
      BY <1>2, <1>10, <2>1 DEF KeptInUb
    <2>2. ASSUME NEW o \in Computed(v), o.unit = "PV", LastIn(o, Computed(v)),
                 \A b \in AivLoaded(v)' : b.unit = "PV" /\ Before(o, b) => b.count # 0
          PROVE  ub'[v].go = Rows(o)
      <3>1. Before(o, op)
        BY <1>2, <1>7, <2>2 DEF PipesFollow
      <3>2. op.count # 0
        BY <1>1, <1>5, <2>2, <3>1
      <3>3. ub'[v].go = ub[v].go
        BY <1>8, <1>10, <3>2
      <3>4. \A b \in AivLoaded(v) : b.unit = "PV" /\ Before(o, b) => b.count # 0
        BY <1>5, <2>2
      <3> QED BY <1>2, <2>2, <3>3, <3>4 DEF KeptInUb
    <2>3. ub'[v].divided => \E o \in Computed(v) \ AivStored(v) : o.unit = "O"
      BY <1>2, <1>10 DEF KeptInUb
    <2> QED BY <1>0, <1>5, <2>1, <2>2, <2>3 DEF KeptInUb, LastIn
  <1>20. InUb'
    BY <1>1, <1>6, <1>10, <1>16, <1>17, <1>18, <1>19, InUbByAiv
  <1> QED BY <1>6, <1>11, <1>13, <1>14, <1>15, <1>20, InvByParts DEF Buffers

\* AivLoad preserves the invariant.
LEMMA AivLoadKeeps == ASSUME IInv, NEW v \in AIV, AivLoad(v) PROVE IInv'
  <1>1. PICK op : op = Head(mte2[v])
    OBVIOUS
  <1>2. op.unit = "QK" \/ op.unit = "PV"
    BY <1>1 DEF AivLoad
  <1> QED BY <1>1, <1>2, AivLoadQKDone, AivLoadPVDone

-----------------------------------------------------------------------------
(* PIPE_V.                                                                 *)

\* An instruction of the vector unit, apart from what it does to the unified buffer.
Computes(v, op) ==
    /\ vec[v] # <<>> /\ op = Head(vec[v]) /\ vec' = [vec EXCEPT ![v] = Tail(vec[v])]
    /\ UNCHANGED <<tasks, at, aicVars, workspace, flags, mte2, mte3, output>>

\* What the pipes of an AIV have done after an instruction of the vector unit.
LEMMA ComputeSets ==
    ASSUME IInv, NEW v \in AIV, NEW op, Computes(v, op)
    PROVE  /\ Computed(v)' = Computed(v) \cup {op} /\ AivLoaded(v)' = AivLoaded(v) /\ AivStored(v)' = AivStored(v)
           /\ AivQueuesInOrder(v)' /\ vec' = [w \in AIV |-> vec'[w]]
           /\ op \in Ops /\ op.unit \in {"QK", "PV", "O"} /\ HasRows(v, op.task)
           /\ op \notin Computed(v) /\ \A a \in Computed(v) : Before(a, op) /\ a \in Ops
           /\ \A b \in Ops : b.unit \in {"QK", "PV", "O"} /\ HasRows(v, b.task)
                               => b \in Computed(v) \/ b = op \/ Before(op, b)
           /\ op \notin AivStored(v)
           /\ tasks \in TaskLists /\ AtsOK /\ QueuesInOrder /\ PipesFollow /\ ub \in [AIV -> UbSet]
           /\ S_InUb(v) /\ P_InUb(v) /\ OTmp_InUb(v) /\ KeptInUb(v)
  <1>1. tasks \in TaskLists /\ TypeOK /\ AtsOK /\ QueuesInOrder /\ PipesFollow
        /\ S_InUb(v) /\ P_InUb(v) /\ OTmp_InUb(v) /\ KeptInUb(v)
    BY DEF IInv, TypeOK, InUb
  <1>2. ub \in [AIV -> UbSet]
    BY <1>1, Typed
  <1>3. vec = [w \in AIV |-> vec[w]]
    BY <1>1, FlagTypes
  <1>4. vec'[v] = Tail(vec[v]) /\ vec' = [w \in AIV |-> vec'[w]]
    BY <1>3 DEF Computes
  <1>5. /\ NextOf(Computed(v), ForVec(v), op)
        /\ Computed(v)' = Computed(v) \cup {op} /\ AivLoaded(v)' = AivLoaded(v) /\ AivStored(v)' = AivStored(v)
        /\ AivQueuesInOrder(v)'
    BY <1>4, AivComputeStep DEF Computes
  <1>6. /\ op \in Ops /\ op.unit \in {"QK", "PV", "O"} /\ HasRows(v, op.task)
        /\ op \notin Computed(v) /\ \A a \in Computed(v) : Before(a, op)
        /\ \A b \in Ops : b.unit \in {"QK", "PV", "O"} /\ HasRows(v, b.task)
                            => b \in Computed(v) \/ b = op \/ Before(op, b)
    BY <1>5, ComputeNext
  <1>7. op \notin AivStored(v)
    BY <1>1, <1>6 DEF PipesFollow
  <1>8. \A a \in Computed(v) : a \in Ops
    BY <1>1, <1>6, PipesInOrder
  <1> QED BY <1>1, <1>2, <1>4, <1>5, <1>6, <1>7, <1>8

\* The invariant after it, but for the unified buffer of the AIV.
LEMMA ComputeKeeps ==
    ASSUME IInv, NEW v \in AIV, NEW op, Computes(v, op), op.unit # "O" => op \in AivLoaded(v),
           ub' \in [AIV -> UbSet], \A w \in AIV : w # v => ub'[w] = ub[w],
           S_InUb(v)', P_InUb(v)', OTmp_InUb(v)', KeptInUb(v)'
    PROVE  IInv'
  <1>1. /\ Computed(v)' = Computed(v) \cup {op} /\ AivLoaded(v)' = AivLoaded(v) /\ AivStored(v)' = AivStored(v)
        /\ AivQueuesInOrder(v)' /\ vec' = [w \in AIV |-> vec'[w]] /\ PipesFollow
    BY ComputeSets
  <1>2. /\ vec' = [vec EXCEPT ![v] = Tail(vec[v])]
        /\ UNCHANGED <<tasks, at, aicVars, workspace, flags, mte2, mte3, output>>
    BY DEF Computes
  <1>3. TypeOK
    BY DEF IInv
  <1>4. mte2' = [mte2 EXCEPT ![v] = mte2[v]] /\ mte3' = [mte3 EXCEPT ![v] = mte3[v]]
        /\ mte2' = [w \in AIV |-> mte2'[w]] /\ mte3' = [w \in AIV |-> mte3'[w]]
    BY <1>2, <1>3, FlagTypes, QueueOfOne
  <1>6. /\ AtsOK' /\ QueuesInOrder' /\ AicDoneStays /\ Q_InL1' /\ P_InL1' /\ Accumulator'
        /\ \A w \in AIV : w # v => AivDoneStays(w)
    BY <1>1, <1>2, <1>4, AivStepKeeps
  <1>7. TypeOK'
    BY <1>1, <1>2, <1>3, <1>4, Typed, TypesChange DEF workspace, flags, aicVars
  <1>8. /\ Stored' = Stored /\ Loaded' = Loaded
        /\ \A w \in AIV : AivStored(w)' = AivStored(w)
        /\ \A w \in AIV : AivLoaded(w) \subseteq AivLoaded(w)'
    BY <1>1, <1>6 DEF AicDoneStays, AivDoneStays
  <1>9. FlagsCount' /\ Waited' /\ Outputs'
    BY <1>2, <1>8, CountsStay, OutputsStay
  <1>10. Workspace'
    BY <1>2, <1>8, WorkspaceStays
  <1>11. PipesFollow'
    BY <1>1, <1>2, <1>6, FollowsAivStep DEF PipesFollow
  <1>12. InUb'
    BY <1>2, <1>6, InUbByAiv
  <1> QED BY <1>6, <1>7, <1>9, <1>10, <1>11, <1>12, InvByParts DEF Buffers

\* The tile of S, or of OTmp, in the unified buffer is that of the instruction.
LEMMA NextIsLoaded ==
    ASSUME IInv, NEW v \in AIV, NEW op, Computes(v, op), NEW unit \in {"QK", "PV"}, op.unit = unit,
           NEW y \in AivLoaded(v), y \notin Computed(v), y.unit = unit,
           {o \in AivLoaded(v) \ Computed(v) : o.unit = unit} = {y}
    PROVE  y = op
  <1>1. /\ op \in Ops /\ HasRows(v, op.task) /\ op \notin Computed(v)
        /\ \A b \in Ops : b.unit \in {"QK", "PV", "O"} /\ HasRows(v, b.task)
                            => b \in Computed(v) \/ b = op \/ Before(op, b)
        /\ tasks \in TaskLists /\ AtsOK /\ QueuesInOrder
    BY ComputeSets
  <1>2. y \in Ops /\ HasRows(v, y.task)
    BY <1>1, PipesInOrder
  <1>3. SUFFICES ASSUME Before(op, y) PROVE y = op
    BY <1>1, <1>2
  <1>4. op \in AivLoaded(v)
    BY <1>1, <1>3, PipesInOrder
  <1>5. op \in {o \in AivLoaded(v) \ Computed(v) : o.unit = unit}
    BY <1>1, <1>4
  <1> QED BY <1>5

\* The stack before.
LEMMA PreviousStack ==
    ASSUME tasks \in TaskLists, NEW op \in Ops, op.unit \in {"QK", "PV"}, op.count # 0
    PROVE  \E a \in Ops : /\ a.unit = op.unit /\ a.task = op.task /\ op.count = a.count + 1 /\ Before(a, op)
                          /\ \A b \in Ops : b.unit = op.unit /\ Before(b, op) => ~Before(a, b)
                          /\ Append(Rows(a), Columns(op)) = Rows(op)
  <1> DEFINE c == op.count - 1
             a == IF op.unit = "QK" THEN QKAt(tasks[op.task], op.task, c) ELSE PVAt(tasks[op.task], op.task, c)
  <1>1. op.task \in 1..Len(tasks) /\ N(op.task) \in Nat /\ op.count \in 0..(N(op.task) - 1)
        /\ Columns(op) = StackColumns(tasks[op.task], op.task, op.count)
    BY OpFields
  <1>2. c \in 0..(N(op.task) - 1)
    BY <1>1
  <1>3. a \in Ops /\ a.unit = op.unit /\ a.task = op.task /\ a.count = c
    <2> DEFINE qk == QKAt(tasks[op.task], op.task, c)
               pv == PVAt(tasks[op.task], op.task, c)
    <2> HIDE DEF c
    <2>1. qk \in Ops /\ qk.unit = "QK" /\ qk.task = op.task /\ qk.count = c
      BY <1>1, <1>2, OpsAt
    <2>2. pv \in Ops /\ pv.unit = "PV" /\ pv.task = op.task /\ pv.count = c
      BY <1>1, <1>2, OpsAt
    <2>3. op.unit = "QK" => a = qk
      OBVIOUS
    <2>4. op.unit = "PV" => a = pv
      OBVIOUS
    <2> HIDE DEF qk, pv, a
    <2> QED BY <2>1, <2>2, <2>3, <2>4
  <1> HIDE DEF a
  <1>4. op.count = a.count + 1
    BY <1>1, <1>3
  <1>5. Before(a, op)
    <2>1. a.count < op.count
      BY <1>1, <1>3, <1>4
    <2> QED BY <1>3, <2>1, HalvesInOrder
  <1>6. ASSUME NEW b \in Ops, b.unit = op.unit, Before(b, op), Before(a, b) PROVE FALSE
    <2>1. b.task < op.task \/ (b.task = op.task /\ b.count < op.count)
      BY <1>6, HalvesInOrder
    <2>2. a.task < b.task \/ (a.task = b.task /\ a.count < b.count)
      BY <1>3, <1>6, HalvesInOrder
    <2>3. b.task \in Nat /\ b.count \in Nat
      BY OpFields
    <2> QED BY <1>1, <1>3, <1>4, <2>1, <2>2, <2>3
  <1>7. Append(Rows(a), Columns(op)) = Rows(op)
    BY <1>1, <1>3, <1>4, RowsOfStack
  <1> QED BY <1>3, <1>4, <1>5, <1>6, <1>7

\* The softmax finds its tile of S and the maximum over the stacks before.
LEMMA SoftmaxSees ==
    ASSUME IInv, NEW v \in AIV, NEW op, Computes(v, op), op.unit = "QK", ub[v].ls # <<>>
    PROVE  /\ op \in AivLoaded(v) /\ {o \in AivLoaded(v) \ Computed(v) : o.unit = "QK"} = {op}
           /\ SoftmaxRows(ub[v].seen, Head(ub[v].ls), op) = Rows(op) /\ Rows(op) \in RowsSet
  <1>1. /\ op \in Ops /\ HasRows(v, op.task) /\ op \notin Computed(v)
        /\ \A a \in Computed(v) : Before(a, op) /\ a \in Ops
        /\ \A b \in Ops : b.unit \in {"QK", "PV", "O"} /\ HasRows(v, b.task)
                            => b \in Computed(v) \/ b = op \/ Before(op, b)
        /\ tasks \in TaskLists /\ S_InUb(v) /\ KeptInUb(v)
    BY ComputeSets
  <1> DEFINE between == {o \in AivLoaded(v) \ Computed(v) : o.unit = "QK"}
  <1>2. between # {}
    BY <1>1 DEF S_InUb
  <1>3. PICK y : y \in between
    BY <1>2
  <1>4. between = {y} /\ ub[v].ls = <<Columns(y)>>
    BY <1>1, <1>3 DEF S_InUb
  <1>5. y = op
    BY <1>3, <1>4, NextIsLoaded
  <1>6. Head(ub[v].ls) = Columns(op)
    BY <1>4, <1>5
  <1>7. op.first <=> op.count = 0
    BY <1>1, OpFields
  <1>8. Columns(op).to - Columns(op).from = op.width
    <2>1. Columns(op) = StackColumns(tasks[op.task], op.task, op.count)
          /\ op.width = ToColumn(tasks[op.task], op.count) - FromColumn(tasks[op.task], op.count)
      BY <1>1, OpFields
    <2> QED BY <2>1 DEF StackColumns
  <1>9. op.first => SoftmaxRows(ub[v].seen, Columns(op), op) = Rows(op)
    <2>1. Columns(op) = StackColumns(tasks[op.task], op.task, op.count)
      BY <1>1, OpFields
    <2>2. op.count = 0 => Rows(op) = <<StackColumns(tasks[op.task], op.task, 0)>>
      BY <1>1, RowsOfStack
    <2> QED BY <1>7, <1>8, <2>1, <2>2 DEF SoftmaxRows
  <1>10. ASSUME ~op.first PROVE SoftmaxRows(ub[v].seen, Columns(op), op) = Rows(op)
    <2>1. PICK a \in Ops : /\ a.unit = op.unit /\ a.task = op.task /\ Before(a, op)
                           /\ \A b \in Ops : b.unit = op.unit /\ Before(b, op) => ~Before(a, b)
                           /\ Append(Rows(a), Columns(op)) = Rows(op)
      BY <1>1, <1>7, <1>10, PreviousStack
    <2>2. a \in Computed(v)
      BY <1>1, <2>1, TotalOrder
    <2>3. LastIn(a, Computed(v))
      BY <1>1, <2>1 DEF LastIn
    <2>4. ub[v].seen = Rows(a)
      BY <1>1, <2>1, <2>2, <2>3 DEF KeptInUb
    <2> QED BY <1>8, <1>10, <2>1, <2>4 DEF SoftmaxRows
  <1>11. Rows(op) \in RowsSet
    BY <1>1, RowsOfStack
  <1> QED BY <1>3, <1>4, <1>5, <1>6, <1>9, <1>10, <1>11

\* The factors of a stack still to be used are not in the slot of the stack in hand.
LEMMA DmSlotsApart ==
    ASSUME IInv, NEW v \in AIV, NEW op, Computes(v, op), op.unit = "QK",
           NEW o \in Computed(v), o.unit = "QK", PVOf(o) \notin Computed(v)
    PROVE  o.slot # op.slot
  <1>1. /\ op \in Ops /\ Before(o, op) /\ o \in Ops
        /\ \A b \in Ops : b.unit \in {"QK", "PV", "O"} /\ HasRows(v, b.task)
                            => b \in Computed(v) \/ b = op \/ Before(op, b)
        /\ tasks \in TaskLists /\ AtsOK /\ QueuesInOrder
    BY ComputeSets
  <1>2. HasRows(v, o.task)
    BY <1>1, PipesInOrder
  <1> DEFINE b == PVOf(o)
  <1>3. b \in Ops /\ b.unit = "PV" /\ b.task = o.task /\ b.count = o.count
    BY <1>1, OtherOps
  <1> HIDE DEF b
  <1>4. Before(op, b)
    BY <1>1, <1>2, <1>3 DEF b
  <1>5. op.count \in Nat /\ o.count \in Nat /\ op.task \in Nat /\ o.task \in Nat
    BY <1>1, OpFields
  <1>6. o.task < op.task \/ (o.task = op.task /\ o.count < op.count)
    BY <1>1, HalvesInOrder
  <1>7. op.task < o.task \/ (op.task = o.task /\ 4 * op.count + 1 < 4 * (o.count + PreLaunch) + 2)
    <2>1. Place(op) = 4 * op.count + 1 /\ Place(b) = 4 * (o.count + PreLaunch) + 2
      BY <1>1, <1>3, Places
    <2> QED BY <1>3, <1>4, <2>1 DEF Before
  <1>8. o.task = op.task /\ o.count < op.count /\ op.count <= o.count + PreLaunch
    BY <1>5, <1>6, <1>7, Sizes
  <1>9. o.slot = Slot(o.count) /\ op.slot = Slot(op.count)
    BY <1>1, SlotOf
  <1> QED BY <1>5, <1>8, <1>9, SlotsApart

\* AivCompute of a softmax.
LEMMA AivSoftmaxDone ==
    ASSUME IInv, NEW v \in AIV, AivCompute(v), NEW op, op = Head(vec[v]), op.unit = "QK"
    PROVE  IInv'
  <1> DEFINE rows == SoftmaxRows(ub[v].seen, Head(ub[v].ls), op)
             dm == [ub[v].dm EXCEPT ![op.slot] = IF op.first THEN ub[v].dm[op.slot] ELSE rows]
  <1>1. /\ Computes(v, op)
        /\ ub[v].ls # <<>> /\ ub[v].lp = <<>>
        /\ ub' = [ub EXCEPT ![v].ls = <<>>, ![v].lp = <<rows>>, ![v].seen = rows,
                            ![v].dm[op.slot] = IF op.first THEN @ ELSE rows]
    BY DEF AivCompute, Computes
  <1>2. /\ Computed(v)' = Computed(v) \cup {op} /\ AivLoaded(v)' = AivLoaded(v) /\ AivStored(v)' = AivStored(v)
        /\ op \in Ops /\ HasRows(v, op.task) /\ op \notin Computed(v) /\ op \notin AivStored(v)
        /\ \A a \in Computed(v) : Before(a, op) /\ a \in Ops
        /\ tasks \in TaskLists /\ AtsOK /\ QueuesInOrder /\ PipesFollow /\ ub \in [AIV -> UbSet]
        /\ S_InUb(v) /\ P_InUb(v) /\ OTmp_InUb(v) /\ KeptInUb(v)
    BY <1>1, ComputeSets
  <1>3. /\ op \in AivLoaded(v) /\ {o \in AivLoaded(v) \ Computed(v) : o.unit = "QK"} = {op}
        /\ rows = Rows(op) /\ rows \in RowsSet
    BY <1>1, SoftmaxSees
  <1> HIDE DEF rows
  <1>4. op.slot \in 0..PreLaunch /\ (op.first <=> op.count = 0)
    BY <1>1, <1>2, SlotOf, OpFields
  <1>5. /\ dm \in [0..PreLaunch -> RowsSet]
        /\ \A k \in 0..PreLaunch : k # op.slot => dm[k] = ub[v].dm[k]
        /\ ~op.first => dm[op.slot] = rows
    <2>1. ub[v].dm \in [0..PreLaunch -> RowsSet]
      BY <1>2, UbRecord
    <2>2. PICK d : d = ub[v].dm
      OBVIOUS
    <2>3. dm = [d EXCEPT ![op.slot] = IF op.first THEN d[op.slot] ELSE rows]
      BY <2>2
    <2> QED BY <1>3, <1>4, <2>1, <2>2, <2>3
  <1>6. ub' = [ub EXCEPT ![v] = WithP(ub[v], rows, dm)]
    BY <1>1, ZenonT(40) DEF WithP
  <1> HIDE DEF dm
  <1>10. /\ ub' \in [AIV -> UbSet] /\ \A w \in AIV : w # v => ub'[w] = ub[w]
         /\ ub'[v].ls = <<>> /\ ub'[v].lp = <<rows>> /\ ub'[v].seen = rows /\ ub'[v].dm = dm
         /\ ub'[v].lo = ub[v].lo /\ ub'[v].loState = ub[v].loState /\ ub'[v].go = ub[v].go
         /\ ub'[v].divided = ub[v].divided
    <2>a. PICK y : y = dm
      OBVIOUS
    <2>z. PICK x : x = rows
      OBVIOUS
    <2>r. PICK r : r = ub[v]
      OBVIOUS
    <2>0. PICK b : b = WithP(r, x, y)
      OBVIOUS
    <2>1. ub' = [ub EXCEPT ![v] = b]
      BY <1>6, <2>0, <2>a, <2>z, <2>r, Zenon
    <2>3. r \in UbSet /\ x \in RowsSet /\ y \in [0..PreLaunch -> RowsSet]
      BY <1>2, <1>3, <1>5, <2>a, <2>z, <2>r
    <2>4. /\ b \in UbSet
          /\ b.ls = <<>> /\ b.lp = <<x>> /\ b.seen = x /\ b.dm = y
          /\ b.lo = r.lo /\ b.loState = r.loState /\ b.go = r.go /\ b.divided = r.divided
      BY <2>0, <2>3, UbSoftmax
    <2>5. ub'[v] = b /\ ub' \in [AIV -> UbSet] /\ \A w \in AIV : w # v => ub'[w] = ub[w]
      BY <1>2, <2>1, <2>4
    <2> QED BY <2>4, <2>5, <2>a, <2>z, <2>r
  <1>0. \A o : Rows(o)' = Rows(o) /\ QKOf(o)' = QKOf(o) /\ PVOf(o)' = PVOf(o)
    BY <1>1, TasksStay DEF Computes
  <1>16. S_InUb(v)'
    <2>1. {o \in AivLoaded(v)' \ Computed(v)' : o.unit = "QK"} = {}
      BY <1>2, <1>3
    <2> QED BY <1>10, <2>1 DEF S_InUb
  <1>17. P_InUb(v)'
    <2>1. {o \in Computed(v) \ AivStored(v) : o.unit = "QK"} = {}
      BY <1>1, <1>2 DEF P_InUb
    <2>2. {o \in Computed(v)' \ AivStored(v)' : o.unit = "QK"} = {op}
      BY <1>1, <1>2, <2>1
    <2> QED BY <1>0, <1>3, <1>10, <2>2 DEF P_InUb
  <1>18. OTmp_InUb(v)'
    <2>1. {o \in AivLoaded(v)' \ Computed(v)' : o.unit = "PV"} = {o \in AivLoaded(v) \ Computed(v) : o.unit = "PV"}
      BY <1>1, <1>2
    <2> QED BY <1>0, <1>2, <1>10, <2>1 DEF OTmp_InUb
  <1>19. KeptInUb(v)'
    <2>1. ASSUME NEW o \in Computed(v)', o.unit = "QK", LastIn(o, Computed(v)') PROVE ub'[v].seen = Rows(o)
      <3>1. o = op
        BY <1>1, <1>2, <2>1 DEF LastIn
      <3> QED BY <1>3, <1>10, <3>1
    <2>2. ASSUME NEW o \in Computed(v)', o.unit = "QK", o.count > 0, PVOf(o) \notin Computed(v)'
          PROVE  ub'[v].dm[o.slot] = Rows(o)
      <3>1. CASE o = op
        BY <1>3, <1>4, <1>5, <1>10, <2>2, <3>1
      <3>2. CASE o # op
        <4>1. o \in Computed(v) /\ PVOf(o) \notin Computed(v)
          BY <1>2, <2>2, <3>2
        <4>2. o.slot # op.slot
          BY <1>1, <2>2, <4>1, DmSlotsApart
        <4>3. o.slot \in 0..PreLaunch
          BY <1>2, <2>2, <4>1, SlotOf
        <4>4. ub[v].dm[o.slot] = Rows(o)
          BY <1>2, <2>2, <4>1 DEF KeptInUb
        <4> QED BY <1>5, <1>10, <4>2, <4>3, <4>4
      <3> QED BY <3>1, <3>2
    <2>3. ASSUME NEW o \in Computed(v)', o.unit = "PV", LastIn(o, Computed(v)'),
                 \A b \in AivLoaded(v) : b.unit = "PV" /\ Before(o, b) => b.count # 0
          PROVE  ub'[v].go = Rows(o)
      <3>1. o \in Computed(v) /\ LastIn(o, Computed(v))
        BY <1>1, <1>2, <2>3 DEF LastIn
      <3> QED BY <1>2, <1>10, <2>3, <3>1 DEF KeptInUb
    <2>4. ub'[v].divided => \E o \in Computed(v)' \ AivStored(v)' : o.unit = "O"
      BY <1>2, <1>10 DEF KeptInUb
    <2>5. \A o : LastIn(o, Computed(v))' <=> LastIn(o, Computed(v)')
      BY DEF LastIn
    <2> HIDE DEF LastIn
    <2> QED BY <1>0, <1>2, <2>1, <2>2, <2>3, <2>4, <2>5 DEF KeptInUb
  <1> QED BY <1>1, <1>3, <1>10, <1>16, <1>17, <1>18, <1>19, ComputeKeeps

\* The rescaling finds its OTmp, the factors of its stack and the output over the stacks before.
LEMMA RescaleSees ==
    ASSUME IInv, NEW v \in AIV, NEW op, Computes(v, op), op.unit = "PV", ub[v].loState = "loaded"
    PROVE  /\ op \in AivLoaded(v) /\ {o \in AivLoaded(v) \ Computed(v) : o.unit = "PV"} = {op}
           /\ RescaledO(ub[v], op) = Rows(op) /\ Rows(op) \in RowsSet
  <1>1. /\ op \in Ops /\ HasRows(v, op.task) /\ op \notin Computed(v)
        /\ \A a \in Computed(v) : Before(a, op) /\ a \in Ops
        /\ \A b \in Ops : b.unit \in {"QK", "PV", "O"} /\ HasRows(v, b.task)
                            => b \in Computed(v) \/ b = op \/ Before(op, b)
        /\ tasks \in TaskLists /\ OTmp_InUb(v) /\ KeptInUb(v)
    BY ComputeSets
  <1> DEFINE between == {o \in AivLoaded(v) \ Computed(v) : o.unit = "PV"}
  <1>2. between # {}
    BY <1>1 DEF OTmp_InUb
  <1>3. PICK y : y \in between
    BY <1>2
  <1>4. between = {y} /\ IF y.count = 0 THEN ub[v].go = Rows(y) ELSE ub[v].lo = Rows(y)
    BY <1>1, <1>3 DEF OTmp_InUb
  <1>5. y = op
    BY <1>3, <1>4, NextIsLoaded
  <1>6. op.first <=> op.count = 0
    BY <1>1, OpFields
  <1>7. op.first => RescaledO(ub[v], op) = Rows(op)
    BY <1>4, <1>5, <1>6 DEF RescaledO
  <1>8. ASSUME ~op.first PROVE RescaledO(ub[v], op) = Rows(op)
    <2>1. PICK a \in Ops : /\ a.unit = op.unit /\ a.task = op.task /\ Before(a, op)
                           /\ \A b \in Ops : b.unit = op.unit /\ Before(b, op) => ~Before(a, b)
                           /\ Append(Rows(a), Columns(op)) = Rows(op)
      BY <1>1, <1>6, <1>8, PreviousStack
    <2>2. a \in Computed(v)
      BY <1>1, <2>1, TotalOrder
    <2>3. LastIn(a, Computed(v))
      BY <1>1, <2>1 DEF LastIn
    <2>4. ASSUME NEW b \in AivLoaded(v), b.unit = "PV", Before(a, b) PROVE b.count # 0
      <3>1. b \notin Computed(v)
        BY <2>1, <2>3, <2>4 DEF LastIn
      <3>2. b = op
        BY <1>4, <1>5, <2>4, <3>1
      <3> QED BY <1>6, <1>8, <3>2
    <2>5. ub[v].go = Rows(a)
      BY <1>1, <2>1, <2>2, <2>3, <2>4 DEF KeptInUb
    <2>6. ub[v].lo = Rows(op)
      BY <1>4, <1>5, <1>6, <1>8
    <2>7. ub[v].dm[op.slot] = Rows(op)
      <3> DEFINE q == QKOf(op)
      <3>1. q \in Ops /\ q.unit = "QK" /\ q.task = op.task /\ q.count = op.count /\ PVOf(q) = op
        BY <1>1, OtherOps, HalvesInOrder
      <3> HIDE DEF q
      <3>2. Before(q, op)
        <4>1. op.count \in Nat
          BY <1>1, OpFields
        <4>2. Place(q) = 4 * op.count + 1 /\ Place(op) = 4 * (op.count + PreLaunch) + 2
          BY <1>1, <3>1, Places
        <4>3. Place(q) < Place(op)
          BY <4>1, <4>2, Sizes
        <4> QED BY <3>1, <4>3 DEF Before
      <3>3. q \in Computed(v)
        BY <1>1, <3>1, <3>2, TotalOrder
      <3>4. op.count > 0
        <4>1. op.count \in Nat
          BY <1>1, OpFields
        <4> QED BY <1>6, <1>8, <4>1
      <3>5. ub[v].dm[q.slot] = Rows(q)
        BY <1>1, <3>1, <3>3, <3>4 DEF KeptInUb
      <3>6. q.slot = op.slot
        BY <1>1, <3>1, SlotOf
      <3>7. Rows(q) = Rows(op)
        BY <1>1, <3>1, RowsOfStack
      <3> QED BY <3>5, <3>6, <3>7
    <2>8. Extends(Rows(a), Rows(op))
      <3>1. Last(Rows(op)) = Columns(op)
        BY <1>1, RowsOfStack
      <3> QED BY <2>1, <3>1 DEF Extends
    <2> QED BY <1>8, <2>5, <2>6, <2>7, <2>8 DEF RescaledO
  <1>9. Rows(op) \in RowsSet
    BY <1>1, RowsOfStack
  <1> QED BY <1>3, <1>4, <1>5, <1>7, <1>8, <1>9

\* AivCompute of a rescaling.
LEMMA AivRescaleDone ==
    ASSUME IInv, NEW v \in AIV, AivCompute(v), NEW op, op = Head(vec[v]), op.unit = "PV"
    PROVE  IInv'
  <1> DEFINE rows == RescaledO(ub[v], op)
  <1>1. /\ Computes(v, op)
        /\ ub[v].loState = "loaded"
        /\ ub' = [ub EXCEPT ![v].go = rows, ![v].loState = "free"]
    BY DEF AivCompute, Computes
  <1>2. /\ Computed(v)' = Computed(v) \cup {op} /\ AivLoaded(v)' = AivLoaded(v) /\ AivStored(v)' = AivStored(v)
        /\ op \in Ops /\ HasRows(v, op.task) /\ op \notin Computed(v) /\ op \notin AivStored(v)
        /\ \A a \in Computed(v) : Before(a, op) /\ a \in Ops
        /\ tasks \in TaskLists /\ AtsOK /\ QueuesInOrder /\ PipesFollow /\ ub \in [AIV -> UbSet]
        /\ S_InUb(v) /\ P_InUb(v) /\ OTmp_InUb(v) /\ KeptInUb(v)
    BY <1>1, ComputeSets
  <1>3. /\ op \in AivLoaded(v) /\ {o \in AivLoaded(v) \ Computed(v) : o.unit = "PV"} = {op}
        /\ rows = Rows(op) /\ rows \in RowsSet
    BY <1>1, RescaleSees
  <1> HIDE DEF rows
  <1>6. ub' = [ub EXCEPT ![v] = WithO(ub[v], rows)]
    BY <1>1 DEF WithO
  <1>10. /\ ub' \in [AIV -> UbSet] /\ \A w \in AIV : w # v => ub'[w] = ub[w]
         /\ ub'[v].ls = ub[v].ls /\ ub'[v].lp = ub[v].lp /\ ub'[v].seen = ub[v].seen /\ ub'[v].dm = ub[v].dm
         /\ ub'[v].lo = ub[v].lo /\ ub'[v].loState = "free" /\ ub'[v].go = rows
         /\ ub'[v].divided = ub[v].divided
    <2>z. PICK x : x = rows
      OBVIOUS
    <2>r. PICK r : r = ub[v]
      OBVIOUS
    <2>0. PICK b : b = WithO(r, x)
      OBVIOUS
    <2>1. ub' = [ub EXCEPT ![v] = b]
      BY <1>6, <2>0, <2>z, <2>r, Zenon
    <2>3. r \in UbSet /\ x \in RowsSet
      BY <1>2, <1>3, <2>z, <2>r
    <2>4. /\ b \in UbSet
          /\ b.ls = r.ls /\ b.lp = r.lp /\ b.seen = r.seen /\ b.dm = r.dm
          /\ b.lo = r.lo /\ b.loState = "free" /\ b.go = x /\ b.divided = r.divided
      BY <2>0, <2>3, UbRescaled
    <2>5. ub'[v] = b /\ ub' \in [AIV -> UbSet] /\ \A w \in AIV : w # v => ub'[w] = ub[w]
      BY <1>2, <2>1, <2>4
    <2> QED BY <2>4, <2>5, <2>z, <2>r
  <1>0. \A o : Rows(o)' = Rows(o) /\ QKOf(o)' = QKOf(o) /\ PVOf(o)' = PVOf(o)
    BY <1>1, TasksStay DEF Computes
  <1>16. S_InUb(v)'
    <2>1. {o \in AivLoaded(v)' \ Computed(v)' : o.unit = "QK"} = {o \in AivLoaded(v) \ Computed(v) : o.unit = "QK"}
      BY <1>1, <1>2
    <2> QED BY <1>2, <1>10, <2>1 DEF S_InUb
  <1>17. P_InUb(v)'
    <2>1. {o \in Computed(v)' \ AivStored(v)' : o.unit = "QK"} = {o \in Computed(v) \ AivStored(v) : o.unit = "QK"}
      BY <1>1, <1>2
    <2> QED BY <1>0, <1>2, <1>10, <2>1 DEF P_InUb
  <1>18. OTmp_InUb(v)'
    <2>1. {o \in AivLoaded(v)' \ Computed(v)' : o.unit = "PV"} = {}
      BY <1>2, <1>3
    <2> QED BY <1>10, <2>1 DEF OTmp_InUb
  <1>19. KeptInUb(v)'
    <2>1. ASSUME NEW o \in Computed(v)', o.unit = "QK"
          PROVE  /\ LastIn(o, Computed(v)') => ub'[v].seen = Rows(o)
                 /\ o.count > 0 /\ PVOf(o) \notin Computed(v)' => ub'[v].dm[o.slot] = Rows(o)
      <3>1. o \in Computed(v)
        BY <1>1, <1>2, <2>1
      <3>2. LastIn(o, Computed(v)') => LastIn(o, Computed(v))
        BY <1>2 DEF LastIn
      <3>3. PVOf(o) \notin Computed(v)' => PVOf(o) \notin Computed(v)
        BY <1>2
      <3> QED BY <1>2, <1>10, <2>1, <3>1, <3>2, <3>3 DEF KeptInUb
    <2>3. ASSUME NEW o \in Computed(v)', o.unit = "PV", LastIn(o, Computed(v)')
          PROVE  ub'[v].go = Rows(o)
      <3>1. o = op
        BY <1>1, <1>2, <2>3 DEF LastIn
      <3> QED BY <1>3, <1>10, <3>1
    <2>4. ub'[v].divided => \E o \in Computed(v)' \ AivStored(v)' : o.unit = "O"
      BY <1>2, <1>10 DEF KeptInUb
    <2>5. \A o : LastIn(o, Computed(v))' <=> LastIn(o, Computed(v)')
      BY DEF LastIn
    <2> HIDE DEF LastIn
    <2> QED BY <1>0, <1>2, <2>1, <2>3, <2>4, <2>5 DEF KeptInUb
  <1> QED BY <1>1, <1>3, <1>10, <1>16, <1>17, <1>18, <1>19, ComputeKeeps

\* The output of a task stays in the buffer until it is stored: P of a stack of
\* a later task is stored behind it.
LEMMA OutputKept ==
    ASSUME IInv, NEW v \in AIV, NEW op \in Ops, op.unit = "O", HasRows(v, op.task), op \notin AivStored(v),
           PVOf(LastStack(op.task)) \in Computed(v)
    PROVE  ub[v].go = Rows(op)
  <1> DEFINE b == PVOf(LastStack(op.task))
  <1>1. tasks \in TaskLists /\ AtsOK /\ QueuesInOrder /\ PipesFollow /\ KeptInUb(v)
    BY DEF IInv, TypeOK, InUb
  <1>2. /\ b \in Ops /\ b.unit = "PV" /\ b.task = op.task /\ b.count = N(op.task) - 1
        /\ op.count = N(op.task) - 1
    BY <1>1, TaskEnds, OpFields
  <1>3. b \in Computed(v)
    OBVIOUS
  <1> HIDE DEF b
  <1>4. ASSUME NEW c \in AivLoaded(v), c.unit = "PV", Before(b, c) PROVE FALSE
    <2>1. c \in Ops /\ c \in Passed(v)
      BY <1>1, <1>2, <1>4, PipesInOrder
    <2>2. c.task > op.task
      <3>1. b.task < c.task \/ (b.task = c.task /\ b.count < c.count)
        BY <1>2, <1>4, <2>1, <1>1, HalvesInOrder
      <3>2. c.count \in 0..(N(c.task) - 1) /\ N(c.task) \in Nat /\ c.task \in Nat /\ op.task \in Nat
        BY <1>1, <2>1, OpFields
      <3> QED BY <1>2, <3>1, <3>2
    <2> DEFINE q == QKOf(c)
    <2>3. q \in Ops /\ q.unit = "QK" /\ q.task = c.task /\ PVOf(q) = c /\ q \in QKs
      BY <1>1, <1>4, <2>1, OtherOps, HalvesInOrder DEF QKs
    <2> HIDE DEF q
    <2>4. c \in Passed(AIC)
      BY <2>1, <2>3, SecondStepsFollow
    <2>5. q \in AivStored(v)
      BY <2>3, <2>4, StepsFollow
    <2>6. Before(op, q)
      BY <2>2, <2>3, <1>1, OpFields DEF Before
    <2>7. op \in AivStored(v)
      BY <1>1, <2>5, <2>6, PipesInOrder
    <2> QED BY <2>7
  <1>5. LastIn(b, Computed(v))
    <2>1. SUFFICES ASSUME NEW c \in Computed(v), c.unit = "PV", Before(b, c) PROVE FALSE
      BY <1>2 DEF LastIn
    <2>2. c \in AivLoaded(v)
      BY <1>1, <2>1 DEF PipesFollow
    <2> QED BY <1>4, <2>1, <2>2
  <1>6. ub[v].go = Rows(b)
    BY <1>1, <1>2, <1>3, <1>4, <1>5 DEF KeptInUb
  <1>7. Rows(b) = Rows(op)
    BY <1>1, <1>2, RowsOfStack
  <1> QED BY <1>6, <1>7

\* The division finds the output of the task and the sum it is divided by.
LEMMA DivideSees ==
    ASSUME IInv, NEW v \in AIV, NEW op, Computes(v, op), op.unit = "O"
    PROVE  ub[v].go = Rows(op) /\ ub[v].seen = Rows(op)
  <1>1. /\ op \in Ops /\ HasRows(v, op.task) /\ op \notin Computed(v) /\ op \notin AivStored(v)
        /\ \A a \in Computed(v) : Before(a, op) /\ a \in Ops
        /\ \A b \in Ops : b.unit \in {"QK", "PV", "O"} /\ HasRows(v, b.task)
                            => b \in Computed(v) \/ b = op \/ Before(op, b)
        /\ tasks \in TaskLists /\ AtsOK /\ QueuesInOrder /\ KeptInUb(v)
    BY ComputeSets
  <1> DEFINE a == LastStack(op.task)
             b == PVOf(a)
  <1>2. /\ a \in Ops /\ a.unit = "QK" /\ a.task = op.task /\ a.count = N(op.task) - 1
        /\ b \in Ops /\ b.unit = "PV" /\ b.task = op.task
        /\ Before(b, op) /\ Before(a, op)
        /\ op.count = N(op.task) - 1
    BY <1>1, TaskEnds, OpFields
  <1> HIDE DEF a, b
  <1>3. a \in Computed(v) /\ b \in Computed(v)
    BY <1>1, <1>2, TotalOrder
  <1>4. ub[v].go = Rows(op)
    BY <1>1, <1>3, OutputKept DEF a, b
  <1>5. LastIn(a, Computed(v))
    <2>1. SUFFICES ASSUME NEW c \in Computed(v), c.unit = "QK", Before(a, c) PROVE FALSE
      BY <1>2 DEF LastIn
    <2>2. c \in Ops /\ Before(c, op)
      BY <1>1
    <2>3. a.task < c.task \/ (a.task = c.task /\ a.count < c.count)
      BY <1>1, <1>2, <2>1, <2>2, HalvesInOrder
    <2>4. c.count \in 0..(N(c.task) - 1) /\ N(c.task) \in Nat /\ c.task \in Nat /\ op.task \in Nat
      BY <1>1, <2>2, OpFields
    <2>5. c.task <= op.task
      BY <2>2, <2>4 DEF Before
    <2>6. c.task = op.task /\ a.count < c.count
      BY <1>2, <2>3, <2>4, <2>5
    <2> QED BY <1>2, <2>4, <2>6
  <1>6. ub[v].seen = Rows(a)
    BY <1>1, <1>2, <1>3, <1>5 DEF KeptInUb
  <1>7. Rows(a) = Rows(op)
    BY <1>1, <1>2, RowsOfStack
  <1> QED BY <1>4, <1>6, <1>7

\* AivCompute of a division: the output is that of all the stacks whose sum it
\* is divided by.
LEMMA AivDivideDone ==
    ASSUME IInv, NEW v \in AIV, AivCompute(v), NEW op, op = Head(vec[v]), op.unit = "O"
    PROVE  IInv'
  <1> DEFINE rows == IF ub[v].go = ub[v].seen THEN ub[v].go ELSE Garbage
  <1>1. /\ Computes(v, op)
        /\ ub' = [ub EXCEPT ![v].go = rows, ![v].divided = TRUE]
    BY DEF AivCompute, Computes
  <1>2. /\ Computed(v)' = Computed(v) \cup {op} /\ AivLoaded(v)' = AivLoaded(v) /\ AivStored(v)' = AivStored(v)
        /\ op \in Ops /\ HasRows(v, op.task) /\ op \notin Computed(v) /\ op \notin AivStored(v)
        /\ \A a \in Computed(v) : Before(a, op) /\ a \in Ops
        /\ tasks \in TaskLists /\ AtsOK /\ QueuesInOrder /\ PipesFollow /\ ub \in [AIV -> UbSet]
        /\ S_InUb(v) /\ P_InUb(v) /\ OTmp_InUb(v) /\ KeptInUb(v)
    BY <1>1, ComputeSets
  <1>3. rows = ub[v].go /\ rows \in RowsSet
    <2>1. ub[v].go = Rows(op) /\ ub[v].seen = Rows(op)
      BY <1>1, DivideSees
    <2>2. Rows(op) \in RowsSet
      BY <1>2, RowsOfStack
    <2> QED BY <2>1, <2>2
  <1> HIDE DEF rows
  <1>6. ub' = [ub EXCEPT ![v] = Divided(ub[v], rows)]
    BY <1>1 DEF Divided
  <1>10. /\ ub' \in [AIV -> UbSet] /\ \A w \in AIV : w # v => ub'[w] = ub[w]
         /\ ub'[v].ls = ub[v].ls /\ ub'[v].lp = ub[v].lp /\ ub'[v].seen = ub[v].seen /\ ub'[v].dm = ub[v].dm
         /\ ub'[v].lo = ub[v].lo /\ ub'[v].loState = ub[v].loState /\ ub'[v].go = ub[v].go
    <2>z. PICK x : x = rows
      OBVIOUS
    <2>r. PICK r : r = ub[v]
      OBVIOUS
    <2>0. PICK b : b = Divided(r, x)
      OBVIOUS
    <2>1. ub' = [ub EXCEPT ![v] = b]
      BY <1>6, <2>0, <2>z, <2>r, Zenon
    <2>3. r \in UbSet /\ x \in RowsSet
      BY <1>2, <1>3, <2>z, <2>r
    <2>a. x = r.go
      BY <1>3, <2>z, <2>r
    <2>4. /\ b \in UbSet
          /\ b.ls = r.ls /\ b.lp = r.lp /\ b.seen = r.seen /\ b.dm = r.dm
          /\ b.lo = r.lo /\ b.loState = r.loState /\ b.go = x
      BY <2>0, <2>3, UbDivided
    <2>5. ub'[v] = b /\ ub' \in [AIV -> UbSet] /\ \A w \in AIV : w # v => ub'[w] = ub[w]
      BY <1>2, <2>1, <2>4
    <2> QED BY <2>a, <2>4, <2>5, <2>z, <2>r
  <1>0. \A o : Rows(o)' = Rows(o) /\ QKOf(o)' = QKOf(o) /\ PVOf(o)' = PVOf(o)
    BY <1>1, TasksStay DEF Computes
  <1>16. S_InUb(v)'
    <2>1. {o \in AivLoaded(v)' \ Computed(v)' : o.unit = "QK"} = {o \in AivLoaded(v) \ Computed(v) : o.unit = "QK"}
      BY <1>1, <1>2
    <2> QED BY <1>2, <1>10, <2>1 DEF S_InUb
  <1>17. P_InUb(v)'
    <2>1. {o \in Computed(v)' \ AivStored(v)' : o.unit = "QK"} = {o \in Computed(v) \ AivStored(v) : o.unit = "QK"}
      BY <1>1, <1>2
    <2> QED BY <1>0, <1>2, <1>10, <2>1 DEF P_InUb
  <1>18. OTmp_InUb(v)'
    <2>1. {o \in AivLoaded(v)' \ Computed(v)' : o.unit = "PV"} = {o \in AivLoaded(v) \ Computed(v) : o.unit = "PV"}
      BY <1>1, <1>2
    <2> QED BY <1>0, <1>2, <1>10, <2>1 DEF OTmp_InUb
  <1>19. KeptInUb(v)'
    <2>1. ASSUME NEW o \in Computed(v)', o.unit = "QK"
          PROVE  /\ LastIn(o, Computed(v)') => ub'[v].seen = Rows(o)
                 /\ o.count > 0 /\ PVOf(o) \notin Computed(v)' => ub'[v].dm[o.slot] = Rows(o)
      <3>1. o \in Computed(v)
        BY <1>1, <1>2, <2>1
      <3>2. LastIn(o, Computed(v)') => LastIn(o, Computed(v))
        BY <1>2 DEF LastIn
      <3>3. PVOf(o) \notin Computed(v)' => PVOf(o) \notin Computed(v)
        BY <1>2
      <3> QED BY <1>2, <1>10, <2>1, <3>1, <3>2, <3>3 DEF KeptInUb
    <2>3. ASSUME NEW o \in Computed(v)', o.unit = "PV", LastIn(o, Computed(v)'),
                 \A b \in AivLoaded(v) : b.unit = "PV" /\ Before(o, b) => b.count # 0
          PROVE  ub'[v].go = Rows(o)
      <3>1. o \in Computed(v) /\ LastIn(o, Computed(v))
        BY <1>1, <1>2, <2>3 DEF LastIn
      <3> QED BY <1>2, <1>10, <2>3, <3>1 DEF KeptInUb
    <2>4. \E o \in Computed(v)' \ AivStored(v)' : o.unit = "O"
      BY <1>2
    <2>5. \A o : LastIn(o, Computed(v))' <=> LastIn(o, Computed(v)')
      BY DEF LastIn
    <2> HIDE DEF LastIn
    <2> QED BY <1>0, <1>2, <2>1, <2>3, <2>4, <2>5 DEF KeptInUb
  <1> QED BY <1>1, <1>10, <1>16, <1>17, <1>18, <1>19, ComputeKeeps

\* AivCompute preserves the invariant.
LEMMA AivComputeKeeps == ASSUME IInv, NEW v \in AIV, AivCompute(v) PROVE IInv'
  <1>1. PICK op : op = Head(vec[v])
    OBVIOUS
  <1>2. op.unit \in {"QK", "PV", "O"}
    BY <1>1 DEF AivCompute
  <1> QED BY <1>1, <1>2, AivSoftmaxDone, AivRescaleDone, AivDivideDone

-----------------------------------------------------------------------------
(* PIPE_MTE3.                                                              *)

\* A store of an AIV, apart from what it writes.
Stores(v, op) ==
    /\ mte3[v] # <<>> /\ op = Head(mte3[v]) /\ mte3' = [mte3 EXCEPT ![v] = Tail(mte3[v])]
    /\ UNCHANGED <<tasks, at, aicVars, s, oTmp, qkReady, pvReady, mte2, vec>>

\* What the pipes of an AIV have done after a store.
LEMMA StoreSets ==
    ASSUME IInv, NEW v \in AIV, NEW op, Stores(v, op)
    PROVE  /\ AivStored(v)' = AivStored(v) \cup {op} /\ AivLoaded(v)' = AivLoaded(v) /\ Computed(v)' = Computed(v)
           /\ AivQueuesInOrder(v)' /\ mte3' = [w \in AIV |-> mte3'[w]]
           /\ op \in Ops /\ op.unit \in {"QK", "O"} /\ (op.unit = "O" => HasRows(v, op.task)) /\ op \in Passed(v)
           /\ op \notin AivStored(v) /\ \A a \in AivStored(v) : Before(a, op) /\ a \in Ops
           /\ \A b \in Ops : b.unit \in {"QK", "O"} /\ (b.unit = "O" => HasRows(v, b.task))
                               => b \in AivStored(v) \/ b = op \/ Before(op, b)
           /\ tasks \in TaskLists /\ AtsOK /\ QueuesInOrder /\ PipesFollow /\ ub \in [AIV -> UbSet]
           /\ S_InUb(v) /\ P_InUb(v) /\ OTmp_InUb(v) /\ KeptInUb(v)
  <1>1. tasks \in TaskLists /\ TypeOK /\ AtsOK /\ QueuesInOrder /\ PipesFollow
        /\ S_InUb(v) /\ P_InUb(v) /\ OTmp_InUb(v) /\ KeptInUb(v)
    BY DEF IInv, TypeOK, InUb
  <1>2. ub \in [AIV -> UbSet]
    BY <1>1, Typed
  <1>3. mte3 = [w \in AIV |-> mte3[w]]
    BY <1>1, FlagTypes
  <1>4. mte3'[v] = Tail(mte3[v]) /\ mte3' = [w \in AIV |-> mte3'[w]]
    BY <1>3 DEF Stores
  <1>5. /\ NextOf(AivStored(v), ForMte3(v), op)
        /\ AivStored(v)' = AivStored(v) \cup {op} /\ AivLoaded(v)' = AivLoaded(v) /\ Computed(v)' = Computed(v)
        /\ AivQueuesInOrder(v)'
    BY <1>4, AivStoreStep DEF Stores
  <1>6. /\ op \in Ops /\ op.unit \in {"QK", "O"} /\ (op.unit = "O" => HasRows(v, op.task)) /\ op \in Passed(v)
        /\ op \notin AivStored(v) /\ \A a \in AivStored(v) : Before(a, op)
        /\ \A b \in Ops : b.unit \in {"QK", "O"} /\ (b.unit = "O" => HasRows(v, b.task))
                            => b \in AivStored(v) \/ b = op \/ Before(op, b)
    BY <1>5, AivStoreNext
  <1>8. \A a \in AivStored(v) : a \in Ops
    BY <1>1, <1>6, PipesInOrder
  <1> QED BY <1>1, <1>2, <1>4, <1>5, <1>6, <1>8

\* What is between a load and the instruction of the vector unit stays where it is.
LEMMA UbBesidesStore ==
    ASSUME IInv, NEW v \in AIV, NEW op, Stores(v, op),
           ub'[v].ls = ub[v].ls, ub'[v].seen = ub[v].seen, ub'[v].dm = ub[v].dm, ub'[v].lo = ub[v].lo,
           ub'[v].loState = ub[v].loState, ub'[v].go = ub[v].go,
           ub'[v].divided => \E o \in Computed(v)' \ AivStored(v)' : o.unit = "O"
    PROVE  S_InUb(v)' /\ OTmp_InUb(v)' /\ KeptInUb(v)'
  <1>1. /\ AivLoaded(v)' = AivLoaded(v) /\ Computed(v)' = Computed(v)
        /\ S_InUb(v) /\ OTmp_InUb(v) /\ KeptInUb(v)
    BY StoreSets
  <1>0. \A o : Rows(o)' = Rows(o) /\ PVOf(o)' = PVOf(o)
    BY TasksStay DEF Stores
  <1>2. S_InUb(v)'
    BY <1>1 DEF S_InUb
  <1>3. OTmp_InUb(v)'
    BY <1>0, <1>1 DEF OTmp_InUb
  <1>4. KeptInUb(v)'
    <2>1. \A o : LastIn(o, Computed(v))' <=> LastIn(o, Computed(v))
      BY <1>1 DEF LastIn
    <2> HIDE DEF LastIn
    <2> QED BY <1>0, <1>1, <2>1 DEF KeptInUb
  <1> QED BY <1>2, <1>3, <1>4

\* The invariant after it, from what it writes.
LEMMA StoreKeeps ==
    ASSUME IInv, NEW v \in AIV, NEW op, Stores(v, op), HasRows(v, op.task) => op \in Computed(v),
           p' \in [0..PreLaunch -> [AIV -> RowsSet]], softmaxReady' \in [AIV -> Nat],
           ub' \in [AIV -> UbSet], \A w \in AIV : w # v => ub'[w] = ub[w],
           output' \in [AIV -> [1..Len(tasks) -> RowsSet]],
           FlagsCount', Waited', Workspace', Outputs',
           S_InUb(v)', P_InUb(v)', OTmp_InUb(v)', KeptInUb(v)'
    PROVE  IInv'
  <1>1. /\ AivStored(v)' = AivStored(v) \cup {op} /\ AivLoaded(v)' = AivLoaded(v) /\ Computed(v)' = Computed(v)
        /\ AivQueuesInOrder(v)' /\ mte3' = [w \in AIV |-> mte3'[w]] /\ PipesFollow
    BY StoreSets
  <1>2. /\ mte3' = [mte3 EXCEPT ![v] = Tail(mte3[v])]
        /\ UNCHANGED <<tasks, at, aicVars, s, oTmp, qkReady, pvReady, mte2, vec>>
    BY DEF Stores
  <1>3. TypeOK
    BY DEF IInv
  <1>4. mte2' = [mte2 EXCEPT ![v] = mte2[v]] /\ vec' = [vec EXCEPT ![v] = vec[v]]
        /\ mte2' = [w \in AIV |-> mte2'[w]] /\ vec' = [w \in AIV |-> vec'[w]]
    BY <1>2, <1>3, FlagTypes, QueueOfOne
  <1>6. /\ AtsOK' /\ QueuesInOrder' /\ AicDoneStays /\ Q_InL1' /\ P_InL1' /\ Accumulator'
        /\ \A w \in AIV : w # v => AivDoneStays(w)
    BY <1>1, <1>2, <1>4, AivStepKeeps
  <1>7. TypeOK'
    BY <1>1, <1>2, <1>3, <1>4, Typed, TypesChange DEF aicVars
  <1>11. PipesFollow'
    <2>1. ASSUME NEW o \in AivStored(v)', HasRows(v, o.task) PROVE o \in Computed(v)'
      BY <1>1, <2>1 DEF PipesFollow
    <2>2. \A o \in Computed(v)' : o.unit # "O" => o \in AivLoaded(v)'
      BY <1>1 DEF PipesFollow
    <2> QED BY <1>2, <1>6, <2>1, <2>2, FollowsAivStep
  <1>12. InUb'
    BY <1>2, <1>6, InUbByAiv
  <1> QED BY <1>6, <1>7, <1>11, <1>12, InvByParts DEF Buffers

\* A P that is still to be loaded is not in the slot of the stack in hand.
LEMMA PSlotsApart ==
    ASSUME IInv, NEW v \in AIV, NEW op \in QKs, op \in Passed(v), op \notin AivStored(v),
           NEW a \in QKs, a \in AivStored(v), PVOf(a) \notin Loaded
    PROVE  a.slot # op.slot
  <1>1. tasks \in TaskLists /\ AtOK(v) /\ v \in Units /\ a \in Ops /\ op \in Ops /\ a.unit = "QK" /\ op.unit = "QK"
    BY DEF IInv, TypeOK, AtsOK, Units, QKs
  <1>2. a \in Window(v)
    BY StepsFollow, SecondStepsFollow DEF Window
  <1>3. op \in Window(v)
    BY StepsFollow, SecondStepsFollow DEF Window
  <1>4. a.task = op.task /\ a.count <= op.count + PreLaunch /\ op.count <= a.count + PreLaunch
    BY <1>1, <1>2, <1>3, WindowSpan
  <1>5. a.count # op.count
    BY <1>1, <1>4, SameOp
  <1>6. /\ a.count \in Nat /\ a.slot = Slot(a.count)
        /\ op.count \in Nat /\ op.slot = Slot(op.count)
    BY <1>1, SlotOf
  <1>7. CASE a.count < op.count
    BY <1>4, <1>6, <1>7, SlotsApart
  <1>8. CASE op.count < a.count
    BY <1>4, <1>6, <1>8, SlotsApart
  <1> QED BY <1>5, <1>6, <1>7, <1>8

\* The store of P and the set of softmaxReady.
LEMMA PCounts ==
    ASSUME IInv, NEW v \in AIV, NEW op, Stores(v, op), op.unit = "QK", softmaxReady' = SetByAiv(softmaxReady, v)
    PROVE  softmaxReady' \in [AIV -> Nat] /\ FlagsCount' /\ Waited'
  <1>1. /\ AivStored(v)' = AivStored(v) \cup {op} /\ op \in QKs /\ op \notin AivStored(v)
        /\ AivQueuesInOrder(v)'
    BY StoreSets DEF QKs
  <1>2. /\ mte3' = [mte3 EXCEPT ![v] = Tail(mte3[v])]
        /\ UNCHANGED <<tasks, at, aicVars, s, oTmp, qkReady, pvReady, mte2, vec>>
    BY DEF Stores
  <1>3. TypeOK /\ FlagsCount /\ Waited
    BY DEF IInv
  <1>4. mte2' = [mte2 EXCEPT ![v] = mte2[v]] /\ vec' = [vec EXCEPT ![v] = vec[v]]
    BY <1>2, <1>3, FlagTypes, QueueOfOne
  <1>5. /\ AicDoneStays /\ \A u : Passed(u)' = Passed(u)
        /\ \A w \in AIV : w # v => AivDoneStays(w)
    BY <1>1, <1>2, <1>4, AivStepKeeps
  <1>6. Stored' = Stored /\ \A w \in AIV : w # v => AivStored(w)' = AivStored(w)
    BY <1>5 DEF AicDoneStays, AivDoneStays
  <1>7. softmaxReady \in [AIV -> Nat] /\ softmaxReady' \in [AIV -> Nat]
        /\ softmaxReady'[v] = softmaxReady[v] + 1 /\ \A w \in AIV : w # v => softmaxReady'[w] = softmaxReady[w]
    BY <1>3, Typed DEF SetByAiv
  <1>0. QKs' = QKs /\ \A o : PVOf(o)' = PVOf(o)
    BY <1>2, TasksStay
  <1>8. Waited'
    BY <1>0, <1>1, <1>3, <1>5, <1>6 DEF Waited
  <1>9. FlagsCount'
    <2>1. \A w \in AIV : Announced(w)' = Announced(w) /\ Weighted(w)' = Weighted(w)
      BY <1>0, <1>5, <1>6 DEF Announced, Weighted
    <2>2. \A w \in AIV : w # v => Softened(w)' = Softened(w)
      BY <1>0, <1>5, <1>6 DEF Softened
    <2>3. op \notin Softened(v) /\ PVOf(op) \notin Passed(AIC)
      BY <1>1, <1>3 DEF Softened, Waited
    <2>4. Softened(v)' = Softened(v) \cup {op}
      BY <1>0, <1>1, <1>5, <2>3 DEF Softened
    <2>5. IsFiniteSet(Softened(v))
      BY FlagSetsSize
    <2>6. Cardinality(Softened(v)') = Cardinality(Softened(v)) + 1
      BY <2>3, <2>4, <2>5, CountUp
    <2>7. ASSUME NEW w \in AIV
          PROVE  /\ qkReady'[w] = Cardinality(Announced(w)')
                 /\ softmaxReady'[w] = Cardinality(Softened(w)')
                 /\ pvReady'[w] = Cardinality(Weighted(w)')
      BY <1>2, <1>3, <1>7, <2>1, <2>2, <2>6 DEF FlagsCount
    <2> QED BY <2>7 DEF FlagsCount
  <1> QED BY <1>7, <1>8, <1>9

\* The sets that a store leaves alone.
LEMMA StoresElse ==
    ASSUME IInv, NEW v \in AIV, NEW op, Stores(v, op)
    PROVE  /\ Stored' = Stored /\ Loaded' = Loaded
           /\ \A w \in AIV : AivLoaded(w)' = AivLoaded(w) /\ (w # v => AivStored(w)' = AivStored(w))
  <1>1. AivLoaded(v)' = AivLoaded(v) /\ AivQueuesInOrder(v)'
    BY StoreSets
  <1>2. /\ mte3' = [mte3 EXCEPT ![v] = Tail(mte3[v])]
        /\ UNCHANGED <<tasks, at, aicVars, s, oTmp, qkReady, pvReady, mte2, vec>>
    BY DEF Stores
  <1>3. TypeOK
    BY DEF IInv
  <1>4. mte2' = [mte2 EXCEPT ![v] = mte2[v]] /\ vec' = [vec EXCEPT ![v] = vec[v]]
    BY <1>2, <1>3, FlagTypes, QueueOfOne
  <1>5. AicDoneStays /\ \A w \in AIV : w # v => AivDoneStays(w)
    BY <1>1, <1>2, <1>4, AivStepKeeps
  <1> QED BY <1>1, <1>5 DEF AicDoneStays, AivDoneStays

\* A store of P is none of an output.
LEMMA OutputsByQK ==
    ASSUME IInv, NEW v \in AIV, NEW op, op.unit = "QK", tasks' = tasks, output' = output,
           AivStored(v)' = AivStored(v) \cup {op}, \A w \in AIV : w # v => AivStored(w)' = AivStored(w)
    PROVE  Outputs'
  <1>1. Ops' = Ops /\ \A o : Rows(o)' = Rows(o)
    BY TasksStay
  <1>2. \A w \in AIV : \A o : o.unit = "O" => (o \in AivStored(w)' <=> o \in AivStored(w))
    OBVIOUS
  <1> QED BY <1>1, <1>2 DEF IInv, Outputs

\* The P in the unified buffer is that of the instruction.
LEMMA StoresItsP ==
    ASSUME IInv, NEW v \in AIV, NEW op, Stores(v, op), op.unit = "QK", HasRows(v, op.task), ub[v].lp # <<>>
    PROVE  /\ op \in Computed(v) /\ {o \in Computed(v) \ AivStored(v) : o.unit = "QK"} = {op}
           /\ Head(ub[v].lp) = Rows(op)
  <1>1. /\ op \in Ops /\ op \notin AivStored(v)
        /\ \A b \in Ops : b.unit \in {"QK", "O"} /\ (b.unit = "O" => HasRows(v, b.task))
                            => b \in AivStored(v) \/ b = op \/ Before(op, b)
        /\ tasks \in TaskLists /\ AtsOK /\ QueuesInOrder /\ P_InUb(v)
    BY StoreSets
  <1> DEFINE between == {o \in Computed(v) \ AivStored(v) : o.unit = "QK"}
  <1>2. PICK y : y \in between
    BY <1>1 DEF P_InUb
  <1>3. between = {y} /\ ub[v].lp = <<Rows(y)>>
    BY <1>1, <1>2 DEF P_InUb
  <1>4. y \in Ops /\ y.unit = "QK" /\ y \in Computed(v) /\ y \notin AivStored(v)
    BY <1>1, <1>2, PipesInOrder
  <1>5. y = op \/ Before(op, y)
    BY <1>1, <1>4
  <1>6. op \in Computed(v)
    BY <1>1, <1>4, <1>5, PipesInOrder
  <1>7. op \in between
    BY <1>1, <1>6
  <1>8. y = op
    BY <1>3, <1>7
  <1> QED BY <1>3, <1>6, <1>8

\* AivStore of P, and the set of softmaxReady.
LEMMA AivStorePDone ==
    ASSUME IInv, NEW v \in AIV, AivStore(v), NEW op, op = Head(mte3[v]), op.unit = "QK", HasRows(v, op.task)
    PROVE  IInv'
  <1> DEFINE rows == Head(ub[v].lp)
  <1>1. /\ Stores(v, op)
        /\ ub[v].lp # <<>>
        /\ p' = [p EXCEPT ![op.slot][v] = rows]
        /\ ub' = [ub EXCEPT ![v].lp = <<>>]
        /\ softmaxReady' = SetByAiv(softmaxReady, v)
        /\ output' = output
    BY DEF AivStore, Stores
  <1>2. /\ AivStored(v)' = AivStored(v) \cup {op} /\ AivLoaded(v)' = AivLoaded(v) /\ Computed(v)' = Computed(v)
        /\ op \in Ops /\ op \in QKs /\ op \in Passed(v) /\ op \notin AivStored(v)
        /\ \A a \in AivStored(v) : a \in Ops
        /\ tasks \in TaskLists /\ AtsOK /\ QueuesInOrder /\ PipesFollow /\ ub \in [AIV -> UbSet]
    BY <1>1, StoreSets DEF QKs
  <1>3. /\ op \in Computed(v) /\ {o \in Computed(v) \ AivStored(v) : o.unit = "QK"} = {op}
        /\ rows = Rows(op)
    BY <1>1, StoresItsP
  <1>4. rows \in RowsSet
    BY <1>2, <1>3, RowsOfStack
  <1> HIDE DEF rows
  <1>5. ub' = [ub EXCEPT ![v] = WithoutP(ub[v])]
    BY <1>1 DEF WithoutP
  <1>6. /\ ub' \in [AIV -> UbSet] /\ \A w \in AIV : w # v => ub'[w] = ub[w]
        /\ ub'[v].ls = ub[v].ls /\ ub'[v].lp = <<>> /\ ub'[v].seen = ub[v].seen /\ ub'[v].dm = ub[v].dm
        /\ ub'[v].lo = ub[v].lo /\ ub'[v].loState = ub[v].loState /\ ub'[v].go = ub[v].go
        /\ ub'[v].divided = ub[v].divided
    <2>r. PICK r : r = ub[v]
      OBVIOUS
    <2>0. PICK b : b = WithoutP(r)
      OBVIOUS
    <2>1. ub' = [ub EXCEPT ![v] = b]
      BY <1>5, <2>0, <2>r, Zenon
    <2>3. r \in UbSet
      BY <1>2, <2>r
    <2>4. /\ b \in UbSet
          /\ b.ls = r.ls /\ b.lp = <<>> /\ b.seen = r.seen /\ b.dm = r.dm
          /\ b.lo = r.lo /\ b.loState = r.loState /\ b.go = r.go /\ b.divided = r.divided
      BY <2>0, <2>3, UbLp
    <2>5. ub'[v] = b /\ ub' \in [AIV -> UbSet] /\ \A w \in AIV : w # v => ub'[w] = ub[w]
      BY <1>2, <2>1, <2>4
    <2> QED BY <2>4, <2>5, <2>r
  <1>7. op.slot \in 0..PreLaunch
    BY <1>1, <1>2, SlotOf
  <1>8. TypeOK /\ KeptInUb(v) /\ Workspace
    BY DEF IInv, InUb
  <1>9. /\ p' \in [0..PreLaunch -> [AIV -> RowsSet]] /\ p'[op.slot][v] = rows
        /\ \A k \in 0..PreLaunch : \A w \in AIV : k # op.slot \/ w # v => p'[k][w] = p[k][w]
    <2>1. p \in [0..PreLaunch -> [AIV -> RowsSet]]
      BY <1>8, Typed
    <2> QED BY <1>1, <1>4, <1>7, <2>1
  <1>0. /\ Ops' = Ops /\ \A o : Rows(o)' = Rows(o) /\ PVOf(o)' = PVOf(o)
        /\ \A w, i : HasRows(w, i)' = HasRows(w, i)
    BY <1>1, TasksStay DEF Stores
  <1>10. P_InUb(v)'
    <2>1. {o \in Computed(v)' \ AivStored(v)' : o.unit = "QK"} = {}
      BY <1>2, <1>3
    <2> QED BY <1>6, <2>1 DEF P_InUb
  <1>11. S_InUb(v)' /\ OTmp_InUb(v)' /\ KeptInUb(v)'
    <2>1. ub'[v].divided => \E o \in Computed(v)' \ AivStored(v)' : o.unit = "O"
      BY <1>1, <1>2, <1>6, <1>8 DEF KeptInUb
    <2> QED BY <1>1, <1>6, <2>1, UbBesidesStore
  <1>12. softmaxReady' \in [AIV -> Nat] /\ FlagsCount' /\ Waited'
    BY <1>1, PCounts
  <1>13. /\ Stored' = Stored /\ Loaded' = Loaded
         /\ \A w \in AIV : AivLoaded(w)' = AivLoaded(w) /\ (w # v => AivStored(w)' = AivStored(w))
    BY <1>1, <1>2, StoresElse
  <1>14. Workspace'
    <2>1. ASSUME NEW w \in AIV, NEW a \in Ops, HasRows(w, a.task), a.unit = "QK", a \in AivStored(w)', PVOf(a) \notin Loaded
          PROVE  p'[a.slot][w] = Rows(a)
      <3>1. a.slot \in 0..PreLaunch
        BY <1>2, <2>1, SlotOf
      <3>2. CASE w = v /\ a = op
        BY <1>3, <1>9, <3>2
      <3>3. CASE w = v /\ a # op
        <4>1. a \in AivStored(v) /\ a \in QKs
          BY <1>2, <2>1, <3>3 DEF QKs
        <4>2. a.slot # op.slot
          BY <1>2, <2>1, <4>1, PSlotsApart
        <4>3. p[a.slot][w] = Rows(a)
          BY <1>8, <2>1, <3>3, <4>1 DEF Workspace
        <4> QED BY <1>9, <3>1, <4>2, <4>3
      <3>4. CASE w # v
        <4>1. a \in AivStored(w)
          BY <1>13, <2>1, <3>4
        <4>2. p[a.slot][w] = Rows(a)
          BY <1>8, <2>1, <4>1 DEF Workspace
        <4> QED BY <1>9, <3>1, <3>4, <4>2
      <3> QED BY <3>2, <3>3, <3>4
    <2>2. ASSUME NEW w \in AIV, NEW a \in Ops, HasRows(w, a.task)
          PROVE  /\ a.unit = "QK" /\ a \in Stored /\ a \notin AivLoaded(w) => s[a.slot] = Columns(a)
                 /\ a.unit = "PV" /\ a \in Stored /\ a \notin AivLoaded(w) => oTmp[a.slot][w] = Rows(a)
      BY <1>8, <2>2 DEF Workspace
    <2>3. s' = s /\ oTmp' = oTmp
      BY <1>1 DEF Stores
    <2> QED BY <1>0, <1>13, <2>1, <2>2, <2>3 DEF Workspace
  <1>15. Outputs'
    BY <1>1, <1>2, <1>13, OutputsByQK DEF Stores
  <1>16. output' \in [AIV -> [1..Len(tasks) -> RowsSet]]
    BY <1>1, <1>8, Typed
  <1> QED BY <1>1, <1>3, <1>6, <1>9, <1>10, <1>11, <1>12, <1>14, <1>15, <1>16, StoreKeeps

\* Without rows there is no P to store.
LEMMA AivStoreNoRowsDone ==
    ASSUME IInv, NEW v \in AIV, AivStore(v), NEW op, op = Head(mte3[v]), op.unit = "QK", ~HasRows(v, op.task)
    PROVE  IInv'
  <1>1. /\ Stores(v, op)
        /\ p' = p /\ ub' = ub /\ output' = output
        /\ softmaxReady' = SetByAiv(softmaxReady, v)
    BY DEF AivStore, Stores
  <1>2. /\ AivStored(v)' = AivStored(v) \cup {op} /\ AivLoaded(v)' = AivLoaded(v) /\ Computed(v)' = Computed(v)
        /\ op \in Ops /\ tasks \in TaskLists /\ AtsOK /\ QueuesInOrder
    BY <1>1, StoreSets
  <1>3. TypeOK /\ KeptInUb(v) /\ P_InUb(v) /\ Workspace
    BY DEF IInv, InUb
  <1>4. op \notin Computed(v)
    BY <1>2, PipesInOrder
  <1>0. /\ Ops' = Ops /\ \A o : Rows(o)' = Rows(o) /\ PVOf(o)' = PVOf(o)
        /\ \A w, i : HasRows(w, i)' = HasRows(w, i)
    BY <1>1, TasksStay DEF Stores
  <1>10. P_InUb(v)'
    <2>1. {o \in Computed(v)' \ AivStored(v)' : o.unit = "QK"} = {o \in Computed(v) \ AivStored(v) : o.unit = "QK"}
      BY <1>2, <1>4
    <2> QED BY <1>0, <1>1, <1>3, <2>1 DEF P_InUb
  <1>11. S_InUb(v)' /\ OTmp_InUb(v)' /\ KeptInUb(v)'
    <2>1. ub'[v].divided => \E o \in Computed(v)' \ AivStored(v)' : o.unit = "O"
      BY <1>1, <1>2, <1>3 DEF KeptInUb
    <2> QED BY <1>1, <2>1, UbBesidesStore
  <1>12. softmaxReady' \in [AIV -> Nat] /\ FlagsCount' /\ Waited'
    BY <1>1, PCounts
  <1>13. /\ Stored' = Stored /\ Loaded' = Loaded
         /\ \A w \in AIV : AivLoaded(w)' = AivLoaded(w) /\ (w # v => AivStored(w)' = AivStored(w))
    BY <1>1, StoresElse
  <1>14. Workspace'
    <2>1. ASSUME NEW w \in AIV, NEW a \in Ops, HasRows(w, a.task)
          PROVE  /\ a.unit = "QK" /\ a \in Stored /\ a \notin AivLoaded(w) => s[a.slot] = Columns(a)
                 /\ a.unit = "QK" /\ a \in AivStored(w)' /\ PVOf(a) \notin Loaded => p[a.slot][w] = Rows(a)
                 /\ a.unit = "PV" /\ a \in Stored /\ a \notin AivLoaded(w) => oTmp[a.slot][w] = Rows(a)
      <3>1. a \in AivStored(w)' => a \in AivStored(w)
        BY <1>2, <1>13, <2>1
      <3> QED BY <1>3, <2>1, <3>1 DEF Workspace
    <2>3. s' = s /\ oTmp' = oTmp
      BY <1>1 DEF Stores
    <2> QED BY <1>0, <1>1, <1>13, <2>1, <2>3 DEF Workspace
  <1>15. Outputs'
    BY <1>1, <1>2, <1>13, OutputsByQK DEF Stores
  <1>16. /\ output' \in [AIV -> [1..Len(tasks) -> RowsSet]] /\ p' \in [0..PreLaunch -> [AIV -> RowsSet]]
         /\ ub' \in [AIV -> UbSet] /\ \A w \in AIV : w # v => ub'[w] = ub[w]
    BY <1>1, <1>3, Typed
  <1> QED BY <1>1, <1>10, <1>11, <1>12, <1>14, <1>15, <1>16, StoreKeeps

\* The output in the unified buffer is that of the instruction.
LEMMA StoresItsO ==
    ASSUME IInv, NEW v \in AIV, NEW op, Stores(v, op), op.unit = "O", ub[v].divided
    PROVE  op \in Computed(v) /\ ub[v].go = Rows(op)
  <1>1. /\ op \in Ops /\ HasRows(v, op.task) /\ op \notin AivStored(v)
        /\ \A b \in Ops : b.unit \in {"QK", "O"} /\ (b.unit = "O" => HasRows(v, b.task))
                            => b \in AivStored(v) \/ b = op \/ Before(op, b)
        /\ tasks \in TaskLists /\ AtsOK /\ QueuesInOrder /\ KeptInUb(v)
    BY StoreSets
  <1>2. PICK o : o \in Computed(v) \ AivStored(v) /\ o.unit = "O"
    BY <1>1 DEF KeptInUb
  <1>3. o \in Ops /\ HasRows(v, o.task)
    BY <1>1, <1>2, PipesInOrder
  <1>4. o = op \/ Before(op, o)
    BY <1>1, <1>2, <1>3
  <1>5. op \in Computed(v)
    BY <1>1, <1>2, <1>4, PipesInOrder
  <1> DEFINE b == PVOf(LastStack(op.task))
  <1>6. b \in Ops /\ b.unit = "PV" /\ b.task = op.task /\ Before(b, op)
    BY <1>1, TaskEnds
  <1> HIDE DEF b
  <1>7. b \in Computed(v)
    BY <1>1, <1>5, <1>6, PipesInOrder
  <1> QED BY <1>1, <1>5, <1>7, OutputKept DEF b

\* AivStore of an output.
LEMMA AivStoreODone ==
    ASSUME IInv, NEW v \in AIV, AivStore(v), NEW op, op = Head(mte3[v]), op.unit = "O"
    PROVE  IInv'
  <1> DEFINE rows == ub[v].go
  <1>1. /\ Stores(v, op)
        /\ ub[v].divided
        /\ output' = [output EXCEPT ![v][op.task] = rows]
        /\ ub' = [ub EXCEPT ![v].divided = FALSE]
        /\ p' = p /\ softmaxReady' = softmaxReady
    BY DEF AivStore, Stores
  <1>2. /\ AivStored(v)' = AivStored(v) \cup {op} /\ AivLoaded(v)' = AivLoaded(v) /\ Computed(v)' = Computed(v)
        /\ op \in Ops /\ op \notin AivStored(v)
        /\ tasks \in TaskLists /\ AtsOK /\ QueuesInOrder /\ ub \in [AIV -> UbSet]
    BY <1>1, StoreSets
  <1>3. op \in Computed(v) /\ rows = Rows(op)
    BY <1>1, StoresItsO
  <1>4. rows \in RowsSet
    BY <1>2, <1>3, RowsOfStack
  <1>5. ub' = [ub EXCEPT ![v] = Written(ub[v])]
    BY <1>1 DEF Written
  <1>6. /\ ub' \in [AIV -> UbSet] /\ \A w \in AIV : w # v => ub'[w] = ub[w]
        /\ ub'[v].ls = ub[v].ls /\ ub'[v].lp = ub[v].lp /\ ub'[v].seen = ub[v].seen /\ ub'[v].dm = ub[v].dm
        /\ ub'[v].lo = ub[v].lo /\ ub'[v].loState = ub[v].loState /\ ub'[v].go = ub[v].go
        /\ ~ub'[v].divided
    <2>r. PICK r : r = ub[v]
      OBVIOUS
    <2>0. PICK b : b = Written(r)
      OBVIOUS
    <2>1. ub' = [ub EXCEPT ![v] = b]
      BY <1>5, <2>0, <2>r, Zenon
    <2>3. r \in UbSet
      BY <1>2, <2>r
    <2>4. /\ b \in UbSet
          /\ b.ls = r.ls /\ b.lp = r.lp /\ b.seen = r.seen /\ b.dm = r.dm
          /\ b.lo = r.lo /\ b.loState = r.loState /\ b.go = r.go /\ b.divided = FALSE
      BY <2>0, <2>3, UbWritten
    <2>5. ub'[v] = b /\ ub' \in [AIV -> UbSet] /\ \A w \in AIV : w # v => ub'[w] = ub[w]
      BY <1>2, <2>1, <2>4
    <2> QED BY <2>4, <2>5, <2>r
  <1> HIDE DEF rows
  <1>8. TypeOK /\ KeptInUb(v) /\ P_InUb(v) /\ Workspace /\ Outputs /\ FlagsCount /\ Waited
    BY DEF IInv, InUb
  <1>0. /\ Ops' = Ops /\ QKs' = QKs /\ \A o : Rows(o)' = Rows(o) /\ PVOf(o)' = PVOf(o)
        /\ \A w, i : HasRows(w, i)' = HasRows(w, i)
    BY <1>1, TasksStay DEF Stores
  <1>10. P_InUb(v)'
    <2>1. {o \in Computed(v)' \ AivStored(v)' : o.unit = "QK"} = {o \in Computed(v) \ AivStored(v) : o.unit = "QK"}
      BY <1>1, <1>2
    <2> QED BY <1>0, <1>6, <1>8, <2>1 DEF P_InUb
  <1>11. S_InUb(v)' /\ OTmp_InUb(v)' /\ KeptInUb(v)'
    BY <1>1, <1>6, UbBesidesStore
  <1>12. /\ Stored' = Stored /\ Loaded' = Loaded
         /\ \A w \in AIV : AivLoaded(w)' = AivLoaded(w) /\ (w # v => AivStored(w)' = AivStored(w))
    BY <1>1, StoresElse
  <1>13. \A w \in AIV : \A a : a.unit = "QK" => (a \in AivStored(w)' <=> a \in AivStored(w))
    BY <1>1, <1>2, <1>12
  <1>14. Workspace'
    <2>3. s' = s /\ oTmp' = oTmp
      BY <1>1 DEF Stores
    <2> QED BY <1>0, <1>1, <1>8, <1>12, <1>13, <2>3 DEF Workspace
  <1>15. FlagsCount' /\ Waited'
    <2>1. \A u : Passed(u)' = Passed(u)
      BY <1>1, UnitStays DEF Stores
    <2>2. \A w \in AIV, a \in QKs : a \in AivStored(w)' <=> a \in AivStored(w)
      BY <1>13 DEF QKs
    <2>3. \A w \in AIV : Announced(w)' = Announced(w) /\ Weighted(w)' = Weighted(w) /\ Softened(w)' = Softened(w)
      BY <1>0, <1>12, <2>1, <2>2 DEF Announced, Weighted, Softened
    <2>4. UNCHANGED <<qkReady, softmaxReady, pvReady>>
      BY <1>1 DEF Stores
    <2>5. FlagsCount'
      BY <1>8, <2>3, <2>4 DEF FlagsCount
    <2>6. Waited'
      BY <1>0, <1>8, <1>12, <2>1, <2>2 DEF Waited
    <2> QED BY <2>5, <2>6
  <1>16. /\ output' \in [AIV -> [1..Len(tasks) -> RowsSet]] /\ output'[v][op.task] = rows
         /\ \A w \in AIV : \A i \in 1..Len(tasks) : w # v \/ i # op.task => output'[w][i] = output[w][i]
    <2>1. output \in [AIV -> [1..Len(tasks) -> RowsSet]]
      BY <1>8, Typed
    <2>2. op.task \in 1..Len(tasks)
      BY <1>2, OpFields
    <2> QED BY <1>1, <1>4, <2>1, <2>2
  <1>17. Outputs'
    <2>1. ASSUME NEW w \in AIV, NEW o \in Ops, o.unit = "O"
          PROVE  output'[w][o.task] = IF o \in AivStored(w)' THEN Rows(o) ELSE <<>>
      <3>1. CASE w = v /\ o = op
        BY <1>2, <1>3, <1>16, <3>1
      <3>2. CASE ~(w = v /\ o = op)
        <4>1. o \in AivStored(w)' <=> o \in AivStored(w)
          BY <1>2, <1>12, <3>2
        <4>2. w # v \/ o.task # op.task
          <5>1. o = OOf(o) /\ op = OOf(op)
            BY <1>1, <1>2, <2>1, OpFields
          <5> QED BY <3>2, <5>1 DEF OOf
        <4>3. o.task \in 1..Len(tasks)
          BY <1>2, <2>1, OpFields
        <4>4. output'[w][o.task] = output[w][o.task]
          BY <1>16, <2>1, <4>2, <4>3
        <4> QED BY <1>8, <2>1, <4>1, <4>4 DEF Outputs
      <3> QED BY <3>1, <3>2
    <2> QED BY <1>0, <2>1 DEF Outputs
  <1>18. /\ p' \in [0..PreLaunch -> [AIV -> RowsSet]] /\ softmaxReady' \in [AIV -> Nat]
    BY <1>1, <1>8, Typed
  <1> QED BY <1>1, <1>3, <1>6, <1>10, <1>11, <1>14, <1>15, <1>16, <1>17, <1>18, StoreKeeps

\* AivStore preserves the invariant.
LEMMA AivStoreKeeps == ASSUME IInv, NEW v \in AIV, AivStore(v) PROVE IInv'
  <1>1. PICK op : op = Head(mte3[v])
    OBVIOUS
  <1>2. op.unit \in {"QK", "O"}
    BY <1>1 DEF AivStore
  <1>3. CASE op.unit = "QK" /\ HasRows(v, op.task)
    BY <1>1, <1>3, AivStorePDone
  <1>4. CASE op.unit = "QK" /\ ~HasRows(v, op.task)
    BY <1>1, <1>4, AivStoreNoRowsDone
  <1>5. CASE op.unit = "O"
    BY <1>1, <1>5, AivStoreODone
  <1> QED BY <1>2, <1>3, <1>4, <1>5

-----------------------------------------------------------------------------
(* The invariant, and what follows from it.                                *)

\* At the start nothing has been issued and every buffer is empty.
LEMMA InitInv == Init => IInv
  <1> SUFFICES ASSUME Init PROVE IInv
    OBVIOUS
  <1>1. /\ tasks \in TaskLists
        /\ at = [u \in {AIC} \cup AIV |-> AtTask(u, 1)]
        /\ aicMte2 = <<>> /\ cube = <<>>
        /\ l1 = [q |-> 0, qLoaded |-> 0, p |-> <<>>] /\ l0c = <<>>
        /\ s = Ring(NoTile) /\ p = Ring([v \in AIV |-> Garbage]) /\ oTmp = Ring([v \in AIV |-> Garbage])
        /\ qkReady = Cleared /\ softmaxReady = Cleared /\ pvReady = Cleared
        /\ mte2 = [v \in AIV |-> <<>>] /\ vec = [v \in AIV |-> <<>>] /\ mte3 = [v \in AIV |-> <<>>]
        /\ ub = [v \in AIV |-> EmptyUb]
        /\ output = [v \in AIV |-> [i \in 1..Len(tasks) |-> <<>>]]
    BY DEF Init
  <1>2. ASSUME NEW u \in Units PROVE AtOK(u) /\ Passed(u) = {}
    <2>1. at[u] = AtTask(u, 1)
      BY <1>1 DEF Units
    <2>2. 1 \in 1..(Len(tasks) + 1) /\ Len(tasks) \in Nat
      BY <1>1, TasksTyped
    <2>3. Position(u, AtTask(u, 1)) /\ Behind(u, AtTask(u, 1)) = {op \in OpsOfUnit(u) : op.task < 1}
      BY <1>1, <2>2, AtTaskFacts
    <2>4. ASSUME NEW op \in OpsOfUnit(u), op.task < 1 PROVE FALSE
      <3>1. op.task \in 1..Len(tasks)
        BY <1>1, <2>4, OpFields DEF OpsOfUnit
      <3> QED BY <2>2, <2>4, <3>1
    <2> QED BY <2>1, <2>3, <2>4 DEF AtOK, Passed
  <1>3. /\ Passed(AIC) = {} /\ \A v \in AIV : Passed(v) = {}
    BY <1>2 DEF Units
  <1>4. /\ ForAicMte2 = {} /\ ForCube = {}
        /\ \A v \in AIV : ForMte2(v) = {} /\ ForVec(v) = {} /\ ForMte3(v) = {}
    BY <1>3 DEF ForAicMte2, ForCube, ForMte2, ForVec, ForMte3
  <1>5. /\ Loaded = {} /\ Multiplied = {} /\ Stored = {}
        /\ \A v \in AIV : AivLoaded(v) = {} /\ Computed(v) = {} /\ AivStored(v) = {}
    BY <1>4 DEF Loaded, Multiplied, Stored, AivLoaded, Computed, AivStored, Done
  <1>6. TypeOK
    <2>1. l1 \in L1Set
      <3>1. <<>> \in Seq([AIV -> RowsSet])
        OBVIOUS
      <3> QED BY <1>1, <3>1 DEF L1Set
    <2>2. NoTile \in TileSet /\ Garbage \in RowsSet /\ <<>> \in RowsSet /\ <<>> \in Seq(TileSet) /\ <<>> \in Seq(RowsSet)
      BY DEF NoTile, Garbage, TileSet, RowsSet
    <2>3. /\ s \in [0..PreLaunch -> TileSet]
          /\ p \in [0..PreLaunch -> [AIV -> RowsSet]]
          /\ oTmp \in [0..PreLaunch -> [AIV -> RowsSet]]
      BY <1>1, <2>2 DEF Ring
    <2>4. EmptyUb \in UbSet
      <3>1. Ring(<<>>) \in [0..PreLaunch -> RowsSet]
        BY <2>2 DEF Ring
      <3> QED BY <2>2, <3>1 DEF EmptyUb, UbSet
    <2>5. qkReady \in [AIV -> Nat] /\ softmaxReady \in [AIV -> Nat] /\ pvReady \in [AIV -> Nat]
      BY <1>1 DEF Cleared
    <2>6. ub \in [AIV -> UbSet] /\ output \in [AIV -> [1..Len(tasks) -> RowsSet]]
      BY <1>1, <2>2, <2>4
    <2>7. at = [u \in {AIC} \cup AIV |-> at[u]]
      BY <1>1
    <2>8. \A queue \in {mte2, vec, mte3} : queue = [v \in AIV |-> queue[v]]
      BY <1>1
    <2> QED BY <1>1, <2>1, <2>3, <2>5, <2>6, <2>7, <2>8 DEF TypeOK
  <1>7. AtsOK
    BY <1>2 DEF AtsOK, Units
  <1>8. QueuesInOrder
    <2>1. InOrder(<<>>, {})
      BY DEF InOrder, Done
    <2> QED BY <1>1, <1>4, <2>1 DEF QueuesInOrder
  <1>9. FlagsCount
    <2>1. \A v \in AIV : Announced(v) = {} /\ Softened(v) = {} /\ Weighted(v) = {}
      BY <1>5 DEF Announced, Softened, Weighted
    <2>2. Cardinality({}) = 0
      BY FS_EmptySet
    <2> QED BY <1>1, <2>1, <2>2 DEF FlagsCount, Cleared
  <1>10. Waited
    BY <1>3 DEF Waited
  <1>11. PipesFollow /\ Workspace
    BY <1>5 DEF PipesFollow, Workspace
  <1>12. Q_InL1 /\ P_InL1
    BY <1>1, <1>5 DEF Q_InL1, P_InL1
  <1>13. Accumulator
    BY <1>1 DEF Accumulator
  <1>14. InUb
    <2>1. ASSUME NEW v \in AIV
          PROVE  /\ ub[v].ls = <<>> /\ ub[v].lp = <<>> /\ ub[v].loState = "free" /\ ~ub[v].divided
                 /\ AivLoaded(v) = {} /\ Computed(v) = {}
      BY <1>1, <1>5 DEF EmptyUb
    <2> QED BY <2>1 DEF InUb, S_InUb, P_InUb, OTmp_InUb, KeptInUb
  <1>15. Outputs
    <2>1. ASSUME NEW v \in AIV, NEW op \in Ops PROVE output[v][op.task] = <<>>
      <3>1. op.task \in 1..Len(tasks)
        BY <1>1, OpFields
      <3> QED BY <1>1, <3>1
    <2> QED BY <1>5, <2>1 DEF Outputs
  <1> QED BY <1>6, <1>7, <1>8, <1>9, <1>10, <1>11, <1>12, <1>13, <1>14, <1>15 DEF IInv

\* The invariant depends on the variables only.
LEMMA Stutter == ASSUME IInv, UNCHANGED vars PROVE IInv'
  <1>1. /\ tasks' = tasks /\ at' = at
        /\ UNCHANGED aicVars /\ UNCHANGED workspace /\ UNCHANGED flags /\ UNCHANGED queues
        /\ UNCHANGED <<l1, l0c, s, p, oTmp, ub, output>>
    BY DEF vars, aicVars, workspace
  <1>2. TypeOK /\ AicQueuesInOrder' /\ \A v \in AIV : AivQueuesInOrder(v)'
    BY <1>1, AicStays, AivsStay DEF IInv
  <1>3. DoneStays /\ QueuesInOrder' /\ AtsOK'
    BY <1>1, <1>2, AicStays, AivsStay, QueuesByUnitNext, UnitsStay DEF DoneStays
  <1>4. Buffers'
    BY <1>1, <1>3, BuffersStay
  <1>5. FlagsCount' /\ Waited'
    BY <1>1, <1>3, CountsStay DEF DoneStays, AicDoneStays, AivDoneStays
  <1>6. TypeOK'
    BY <1>1, <1>2, Typed, TypesChange DEF flags, queues
  <1> QED BY <1>3, <1>4, <1>5, <1>6, InvByParts

\* Every step preserves the invariant.
LEMMA NextInv == IInv /\ [Next]_vars => IInv'
  <1> SUFFICES ASSUME IInv, [Next]_vars PROVE IInv'
    OBVIOUS
  <1>1. CASE AicScalar
    BY <1>1, EmptyTurnKeeps, AicLoadQKeeps, AicIssueQKKeeps, AicIssuePVKeeps DEF AicScalar, Units
  <1>2. CASE AicLoad
    BY <1>2, AicLoadKeeps
  <1>3. CASE AicMultiply
    BY <1>3, AicMultiplyKeeps
  <1>4. CASE AicStore
    BY <1>4, AicStoreKeeps
  <1>5. ASSUME NEW v \in AIV, AivScalar(v) PROVE IInv'
    BY <1>5, EmptyTurnKeeps, AivSoftmaxKeeps, AivRescaleOKeeps DEF AivScalar, Units
  <1>6. ASSUME NEW v \in AIV, AivLoad(v) PROVE IInv'
    BY <1>6, AivLoadKeeps
  <1>7. ASSUME NEW v \in AIV, AivCompute(v) PROVE IInv'
    BY <1>7, AivComputeKeeps
  <1>8. ASSUME NEW v \in AIV, AivStore(v) PROVE IInv'
    BY <1>8, AivStoreKeeps
  <1>9. CASE UNCHANGED vars
    BY <1>9, Stutter
  <1> QED BY <1>1, <1>2, <1>3, <1>4, <1>5, <1>6, <1>7, <1>8, <1>9 DEF Next, Terminated

\* The inductive invariant.
THEOREM Invariance == Spec => []IInv
  <1> QED BY InitInv, NextInv, PTL DEF Spec

\* The counts of the flags stay within the ring.
THEOREM FlagsBounded == Spec => []FlagsWithinRing
  <1> QED BY Invariance, RingBoundsFlags, PTL

\* The rows of the last stack of a task have seen every column, in order.
LEMMA RowsComplete ==
    ASSUME tasks \in TaskLists, NEW i \in 1..Len(tasks)
    PROVE  Complete(i, Rows(OAt(i)))
  <1> DEFINE op == OAt(i)
             t == tasks[i]
             rows == Rows(op)
  <1>1. t \in Tasks /\ N(i) \in Nat /\ N(i) > 0 /\ N(i) = TotalStackSeqNum(t)
    BY TasksTyped DEF N
  <1>2. N(i) - 1 \in 0..(N(i) - 1)
    BY <1>1
  <1>3. op \in Ops /\ op.task = i /\ op.count = N(i) - 1
    BY <1>2, OpsAt
  <1> HIDE DEF op, t
  <1>4. /\ rows # <<>> /\ Len(rows) = N(i)
        /\ \A k \in 1..Len(rows) : rows[k] = StackColumns(t, i, k - 1)
    BY <1>1, <1>3, RowsOfStack DEF t
  <1> HIDE DEF rows
  <1>5. ASSUME NEW k \in 1..N(i)
        PROVE  /\ rows[k].task = i /\ rows[k].from = FromColumn(t, k - 1) /\ rows[k].to = ToColumn(t, k - 1)
               /\ k - 1 \in 0..(TotalStackSeqNum(t) - 1)
    BY <1>1, <1>4, <1>5 DEF StackColumns
  <1>6. ASSUME NEW k \in 1..Len(rows)
        PROVE  /\ rows[k].task = i
               /\ rows[k].from = IF k = 1 THEN 0 ELSE rows[k - 1].to
               /\ rows[k].from < rows[k].to
    <2>1. /\ rows[k].task = i /\ rows[k].from = FromColumn(t, k - 1) /\ rows[k].to = ToColumn(t, k - 1)
          /\ k - 1 \in 0..(TotalStackSeqNum(t) - 1)
      BY <1>4, <1>5
    <2>2. /\ FromColumn(t, k - 1) < ToColumn(t, k - 1)
          /\ k - 1 = 0 => FromColumn(t, k - 1) = 0
          /\ k - 1 > 0 => FromColumn(t, k - 1) = ToColumn(t, (k - 1) - 1)
      BY <1>1, <2>1, ColumnsInOrder
    <2>3. CASE k = 1
      BY <2>1, <2>2, <2>3
    <2>4. CASE k # 1
      <3>1. k - 1 \in 1..N(i) /\ k - 1 > 0
        BY <1>1, <1>4, <2>4
      <3>2. rows[k - 1].to = ToColumn(t, (k - 1) - 1)
        BY <1>5, <3>1
      <3> QED BY <2>1, <2>2, <2>4, <3>1, <3>2
    <2> QED BY <2>3, <2>4
  <1>7. Last(rows).to = NoSkipKvS(tasks[i])
    <2>1. N(i) \in 1..N(i)
      BY <1>1
    <2>2. rows[N(i)].to = ToColumn(t, N(i) - 1) /\ N(i) - 1 \in 0..(TotalStackSeqNum(t) - 1)
      BY <1>5, <2>1
    <2>3. ToColumn(t, N(i) - 1) = NoSkipKvS(t)
      BY <1>1, <2>2, ColumnsInOrder
    <2> QED BY <1>4, <2>2, <2>3 DEF Last, t
  <1> QED BY <1>4, <1>6, <1>7 DEF Complete, rows, op

\* A unit that is done has issued everything.
LEMMA DoneIssued ==
    ASSUME IInv, NEW u \in Units, at[u].part = "done"
    PROVE  \A op \in Ops : op.unit # "Q" \/ u = AIC => op \in Passed(u)
  <1>1. tasks \in TaskLists /\ AtOK(u)
    BY DEF IInv, TypeOK, AtsOK, Units
  <1>2. at[u].task = Len(tasks) + 1
    <2>1. CASE at[u] = [task |-> Len(tasks) + 1, part |-> "done"]
      BY <2>1
    <2>2. ASSUME NEW i \in 1..Len(tasks), NEW part \in {"Q", "QK", "PV"}, NEW c \in 0..LastTurn(tasks[i]),
                 InTask(u, at[u], i, c, part)
          PROVE  FALSE
      BY <2>2 DEF InTask
    <2> QED BY <1>1, <2>1, <2>2 DEF AtOK, Position
  <1>3. ASSUME NEW op \in Ops PROVE op.task < at[u].task
    <2>1. op.task \in 1..Len(tasks) /\ Len(tasks) \in Nat
      BY <1>1, OpFields, TasksTyped
    <2> QED BY <1>2, <2>1
  <1> QED BY <1>3 DEF Passed, Behind

\* OutputWhole follows from the invariant.
LEMMA WholeOutput == IInv => OutputWhole
  <1> SUFFICES ASSUME IInv, NEW v \in AIV, NEW i \in 1..Len(tasks)
               PROVE  /\ output[v][i] # <<>> => Complete(i, output[v][i])
                      /\ AllDone /\ HasRows(v, i) => output[v][i] # <<>>
    BY DEF OutputWhole
  <1> DEFINE op == OAt(i)
  <1>1. tasks \in TaskLists /\ Outputs /\ v \in Units
    BY DEF IInv, TypeOK, Units
  <1>2. op \in Ops /\ op.unit = "O" /\ op.task = i
    <2>1. N(i) \in Nat /\ N(i) > 0
      BY <1>1, TasksTyped
    <2>2. N(i) - 1 \in 0..(N(i) - 1)
      BY <2>1
    <2> QED BY <1>1, <2>2, OpsAt
  <1>3. Complete(i, Rows(op)) /\ Rows(op) # <<>>
    BY <1>1, <1>2, RowsComplete, RowsOfStack
  <1> HIDE DEF op
  <1>4. output[v][i] = IF op \in AivStored(v) THEN Rows(op) ELSE <<>>
    BY <1>1, <1>2 DEF Outputs
  <1>5. ASSUME AllDone, HasRows(v, i) PROVE op \in AivStored(v)
    <2>1. at[v].part = "done" /\ mte3[v] = <<>>
      BY <1>5 DEF AllDone
    <2>2. op \in ForMte3(v)
      BY <1>1, <1>2, <1>5, <2>1, DoneIssued DEF ForMte3
    <2> QED BY <2>1, <2>2 DEF AivStored, Done, Pending
  <1> QED BY <1>3, <1>4, <1>5

\* What is written for a task is attention over all its columns.
THEOREM OutputIsWhole == Spec => []OutputWhole
  <1> QED BY Invariance, WholeOutput, PTL

\* The kernel leaves the flags as it found them.
LeavesFlagsCleared ==
    AllDone => qkReady = Cleared /\ softmaxReady = Cleared /\ pvReady = Cleared

\* It follows from the invariant.
LEMMA DoneClears == IInv => LeavesFlagsCleared
  <1> SUFFICES ASSUME IInv, AllDone PROVE qkReady = Cleared /\ softmaxReady = Cleared /\ pvReady = Cleared
    BY DEF LeavesFlagsCleared
  <1>1. TypeOK /\ FlagsCount /\ tasks \in TaskLists
    BY DEF IInv, TypeOK
  <1>2. ASSUME NEW u \in Units, NEW a \in QKs PROVE a \in Passed(u) /\ PVOf(a) \in Passed(u)
    <2>1. at[u].part = "done"
      BY DEF AllDone, Units
    <2>2. a \in Ops /\ a.unit = "QK" /\ PVOf(a) \in Ops /\ PVOf(a).unit = "PV"
      BY <1>1, OtherOps DEF QKs
    <2> QED BY <2>1, <2>2, DoneIssued
  <1>3. ASSUME NEW v \in AIV PROVE Announced(v) = {} /\ Softened(v) = {} /\ Weighted(v) = {}
    BY <1>2 DEF Announced, Softened, Weighted, Units
  <1>4. \A v \in AIV : qkReady[v] = 0 /\ softmaxReady[v] = 0 /\ pvReady[v] = 0
    BY <1>1, <1>3, FS_EmptySet DEF FlagsCount
  <1>5. qkReady \in [AIV -> Nat] /\ softmaxReady \in [AIV -> Nat] /\ pvReady \in [AIV -> Nat]
    BY <1>1, Typed
  <1> QED BY <1>4, <1>5 DEF Cleared

\* Whenever the kernel is done, no flag is left set: the next use of a flag id
\* starts from zero.
THEOREM FlagsLeftCleared == Spec => []LeavesFlagsCleared
  <1> QED BY Invariance, DoneClears, PTL
=============================================================================
