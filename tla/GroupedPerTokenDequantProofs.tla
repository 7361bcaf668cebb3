--------------------- MODULE GroupedPerTokenDequantProofs ---------------------
(***************************************************************************)
(* Theorems about GroupedPerTokenDequant, for any problem, any set of      *)
(* AIVs, any number of tiles held back and any reverse depth: its flag,    *)
(* and which block each AIV writes what for.                               *)
(***************************************************************************)
EXTENDS GroupedPerTokenDequant, FiniteSetTheorems, SequenceTheorems, TLAPS
-----------------------------------------------------------------------------
(* The flag. *)

\* What AIV v has answered and the AIC has not taken.
Answers(v) == reverseQueued[v] + reverse[v]

\* The sets of the AIC since the last answer it took: queued behind a store,
\* raised, waited for, or answered as a whole round.
Round(v) == aicCount = Len(fixQueue) + finishStore[v] + aivCount[v] + ReverseDepth * Answers(v)

FlagTypes ==
    /\ aicCount \in 0..ReverseDepth
    /\ \E S : fixQueue \in Seq(S)
    /\ {finishStore, reverse, reverseQueued} \subseteq [AIV -> Nat]
    /\ aivCount \in [AIV -> 0..(ReverseDepth - 1)]

\* Where the groups and their blocks begin and end is of no matter to it.
FlagInv == FlagTypes /\ \A v \in AIV : Round(v)

(* A round that is answered is over, and there is one at most.             *)
LEMMA RoundBound ==
    ASSUME FlagInv, NEW v \in AIV
    PROVE  /\ {finishStore[v], reverse[v], reverseQueued[v], aivCount[v], Len(fixQueue)} \subseteq Nat
           /\ finishStore[v] <= ReverseDepth /\ Answers(v) <= 1
           /\ Answers(v) = 1 =>
                aicCount = ReverseDepth /\ fixQueue = <<>> /\ finishStore[v] = 0 /\ aivCount[v] = 0
<1>1. PICK S : fixQueue \in Seq(S)
  BY DEF FlagInv, FlagTypes
<1>2. Len(fixQueue) \in Nat /\ (Len(fixQueue) = 0 => fixQueue = <<>>)
  BY <1>1
<1>3. /\ {finishStore[v], reverse[v], reverseQueued[v], aivCount[v]} \subseteq Nat
      /\ aicCount \in 0..ReverseDepth /\ ReverseDepth \in Nat \ {0}
  BY DepthAssumption DEF FlagInv, FlagTypes
<1>4. aicCount = Len(fixQueue) + finishStore[v] + aivCount[v] + ReverseDepth * Answers(v)
  BY DEF FlagInv, Round
<1>5. Answers(v) \in Nat
  BY <1>3 DEF Answers
<1>6. Answers(v) <= 1
  <2>1. SUFFICES ASSUME Answers(v) >= 2 PROVE FALSE
    BY <1>5
  <2>2. ReverseDepth * Answers(v) >= ReverseDepth * 2
    BY <1>3, <1>5, <2>1
  <2> QED
    BY <1>2, <1>3, <1>4, <1>5, <2>2
<1>7. CASE Answers(v) = 0
  BY <1>2, <1>3, <1>4, <1>7
<1>8. CASE Answers(v) = 1
  BY <1>2, <1>3, <1>4, <1>8
<1> QED
  BY <1>2, <1>3, <1>5, <1>6, <1>7, <1>8
-----------------------------------------------------------------------------
(* No set and no answer is under way at first.                             *)
LEMMA InitInv == Init => FlagInv
<1> SUFFICES ASSUME Init PROVE FlagInv
  OBVIOUS
<1>1. fixQueue = <<>> /\ aicCount = 0
      /\ finishStore = [v \in AIV |-> 0] /\ reverse = [v \in AIV |-> 0]
      /\ reverseQueued = [v \in AIV |-> 0] /\ aivCount = [v \in AIV |-> 0]
  BY DEF Init, Cleared
<1>2. fixQueue \in Seq({})
  BY <1>1
<1>3. FlagTypes
  BY <1>1, <1>2, DepthAssumption DEF FlagTypes
<1>4. ASSUME NEW v \in AIV PROVE Round(v)
  <2>1. Len(fixQueue) = 0 /\ finishStore[v] = 0 /\ aivCount[v] = 0 /\ Answers(v) = 0
    BY <1>1 DEF Answers
  <2> QED
    BY <1>1, <2>1, DepthAssumption DEF Round
<1> QED
  BY <1>3, <1>4 DEF FlagInv

(* What a step does not touch keeps the invariant.                         *)
LEMMA Untouched ==
    ASSUME FlagInv, UNCHANGED <<aicCount, fixQueue, finishStore, reverse, reverseQueued, aivCount>>
    PROVE  FlagInv'
  BY DEF FlagInv, FlagTypes, Round, Answers

(* Every step of the kernel preserves the invariant.                       *)
LEMMA NextInv == FlagInv /\ [Next]_vars => FlagInv'
<1> SUFFICES ASSUME FlagInv, [Next]_vars PROVE FlagInv'
  OBVIOUS
<1> USE DepthAssumption
<1>0. FlagTypes /\ \A v \in AIV : Round(v)
  BY DEF FlagInv
<1>1. CASE AicStore
  <2>1. PICK S : fixQueue \in Seq(S)
    BY <1>0 DEF FlagTypes
  <2>2. fixQueue \in Seq(S \cup {Head(due).block})
    BY <2>1
  <2>3. fixQueue' \in Seq(S \cup {Head(due).block}) /\ Len(fixQueue') = Len(fixQueue) + 1 /\ Len(fixQueue) \in Nat
    BY <1>1, <2>2 DEF AicStore
  <2>4. /\ aicCount < ReverseDepth /\ aicCount' = aicCount + 1
        /\ UNCHANGED <<finishStore, reverse, reverseQueued, aivCount>>
    BY <1>1 DEF AicStore, aivVars
  <2>5. FlagTypes'
    BY <1>0, <2>3, <2>4 DEF FlagTypes
  <2>6. ASSUME NEW v \in AIV PROVE Round(v)'
    <3>1. Answers(v)' = Answers(v) /\ Round(v)
      BY <1>0, <2>4 DEF Answers
    <3>2. PICK answered \in Nat : answered = ReverseDepth * Answers(v)
      BY <1>0 DEF FlagTypes, Answers
    <3>3. /\ aicCount = Len(fixQueue) + finishStore[v] + aivCount[v] + answered
          /\ {finishStore[v], aivCount[v], aicCount} \subseteq Nat
      BY <1>0, <3>1, <3>2 DEF Round, FlagTypes
    <3>4. /\ aicCount' = aicCount + 1 /\ Len(fixQueue)' = Len(fixQueue) + 1 /\ Len(fixQueue) \in Nat
          /\ finishStore'[v] = finishStore[v] /\ aivCount'[v] = aivCount[v]
      BY <2>3, <2>4
    <3>5. aicCount' = Len(fixQueue)' + finishStore'[v] + aivCount'[v] + answered
      BY ONLY <3>3, <3>4, answered \in Nat, SMTT(30)
    <3> QED
      BY <3>1, <3>2, <3>5 DEF Round
  <2> QED
    BY <2>5, <2>6 DEF FlagInv
<1>2. CASE AicWaitReverse
  <2>1. /\ aicCount = ReverseDepth /\ aicCount' = 0
        /\ reverse' = [v \in AIV |-> reverse[v] - 1]
        /\ \A v \in AIV : reverse[v] > 0
        /\ UNCHANGED <<fixQueue, finishStore, reverseQueued, aivCount>>
    BY <1>2 DEF AicWaitReverse, RaisedForAic, WaitedByAic, fixVars, aivVars
  <2>2. FlagTypes'
    BY <1>0, <2>1 DEF FlagTypes
  <2>3. ASSUME NEW v \in AIV PROVE Round(v)'
    <3>1. /\ {reverse[v], reverseQueued[v]} \subseteq Nat /\ Answers(v) <= 1
          /\ (Answers(v) = 1 => fixQueue = <<>> /\ finishStore[v] = 0 /\ aivCount[v] = 0)
      BY RoundBound
    <3>2. Answers(v) = 1 /\ Answers(v)' = 0
      BY <2>1, <3>1 DEF Answers
    <3> QED
      BY <2>1, <3>1, <3>2 DEF Round
  <2> QED
    BY <2>2, <2>3 DEF FlagInv
<1>3. CASE FixSetFlag
  <2>1. PICK S : fixQueue \in Seq(S)
    BY <1>0 DEF FlagTypes
  <2>2. /\ fixQueue' \in Seq(S) /\ Len(fixQueue') = Len(fixQueue) - 1 /\ Len(fixQueue) \in Nat
        /\ finishStore' = [v \in AIV |-> finishStore[v] + 1]
        /\ UNCHANGED <<aicCount, reverse, reverseQueued, aivCount>>
    BY <1>3, <2>1 DEF FixSetFlag, SetByAic, aicVars, aivVars
  <2>3. FlagTypes'
    BY <1>0, <2>2 DEF FlagTypes
  <2>4. ASSUME NEW v \in AIV PROVE Round(v)'
    <3>1. Answers(v)' = Answers(v) /\ Round(v)
      BY <1>0, <2>2 DEF Answers
    <3>2. {finishStore[v], aivCount[v], Answers(v), ReverseDepth * Answers(v)} \subseteq Nat
      BY <1>0 DEF FlagTypes, Answers
    <3> QED
      BY <2>2, <3>1, <3>2 DEF Round
  <2> QED
    BY <2>3, <2>4 DEF FlagInv
<1>4. ASSUME NEW w \in AIV, AivWait(w) PROVE FlagInv'
  <2> DEFINE answer == aivCount[w] + 1 >= ReverseDepth
  <2>1. /\ finishStore[w] > 0 /\ finishStore' = [finishStore EXCEPT ![w] = @ - 1]
        /\ aivCount' = [aivCount EXCEPT ![w] = IF answer THEN 0 ELSE @ + 1]
        /\ reverseQueued' = [reverseQueued EXCEPT ![w] = IF answer THEN @ + 1 ELSE @]
        /\ UNCHANGED <<aicCount, fixQueue, reverse>>
    BY <1>4 DEF AivWait, RaisedForAiv, WaitedByAiv, aicVars, fixVars
  <2>2. FlagTypes'
    BY <1>0, <2>1, SMTT(30) DEF FlagTypes
  <2>3. ASSUME NEW v \in AIV PROVE Round(v)'
    <3>1. CASE v # w
      <4>1. /\ finishStore'[v] = finishStore[v] /\ aivCount'[v] = aivCount[v]
            /\ reverseQueued'[v] = reverseQueued[v]
        BY <1>0, <2>1, <3>1 DEF FlagTypes
      <4> QED
        BY <1>0, <2>1, <4>1 DEF Round, Answers
    <3>2. CASE v = w
      <4>1. /\ {finishStore[w], aivCount[w], reverse[w], reverseQueued[w], Len(fixQueue)} \subseteq Nat
            /\ Answers(w) <= 1 /\ (Answers(w) = 1 => finishStore[w] = 0)
        BY RoundBound
      <4>2. Answers(w) = 0 /\ aivCount[w] < ReverseDepth /\ ReverseDepth \in Nat
        BY <1>0, <2>1, <4>1 DEF Answers, FlagTypes
      <4>3. aicCount = Len(fixQueue) + finishStore[w] + aivCount[w]
        BY <1>0, <4>1, <4>2 DEF Round
      <4>4. finishStore'[w] = finishStore[w] - 1
        BY <1>0, <2>1 DEF FlagTypes
      <4>5. CASE answer
        <5>1. aivCount'[w] = 0 /\ aivCount[w] + 1 = ReverseDepth /\ Answers(w)' = 1
          BY <1>0, <2>1, <4>1, <4>2, <4>5 DEF FlagTypes, Answers
        <5> QED
          BY <2>1, <3>2, <4>1, <4>2, <4>3, <4>4, <5>1 DEF Round
      <4>6. CASE ~answer
        <5>1. aivCount'[w] = aivCount[w] + 1 /\ Answers(w)' = 0
          BY <1>0, <2>1, <4>2, <4>6 DEF FlagTypes, Answers
        <5> QED
          BY <2>1, <3>2, <4>1, <4>2, <4>3, <4>4, <5>1 DEF Round
      <4> QED
        BY <4>5, <4>6
    <3> QED
      BY <3>1, <3>2
  <2> QED
    BY <2>2, <2>3 DEF FlagInv
<1>5. ASSUME NEW w \in AIV, Mte3SetReverse(w) PROVE FlagInv'
  <2>1. /\ reverseQueued[w] > 0
        /\ reverseQueued' = [reverseQueued EXCEPT ![w] = @ - 1]
        /\ reverse' = [reverse EXCEPT ![w] = @ + 1]
        /\ UNCHANGED <<aicCount, fixQueue, finishStore, aivCount>>
    BY <1>5 DEF Mte3SetReverse, SetByAiv, aicVars, fixVars, aivVars
  <2>2. FlagTypes'
    BY <1>0, <2>1 DEF FlagTypes
  <2>3. ASSUME NEW v \in AIV PROVE Answers(v)' = Answers(v)
    BY <1>0, <2>1 DEF FlagTypes, Answers
  <2> QED
    BY <1>0, <2>1, <2>2, <2>3 DEF FlagInv, Round
<1>6. CASE AicCall \/ AicNextGroup \/ AicMultiply \/ AicSynchronizeBlock \/ AicFinish \/ FixStore
  BY <1>6, Untouched DEF AicCall, AicNextGroup, AicMultiply, AicSynchronizeBlock, AicFinish, FixStore, fixVars, aivVars, aicVars
<1>7. ASSUME NEW v \in AIV, AivZero(v) \/ AivEpilogue(v) \/ AivNextGroup(v) \/ AivFinish(v) PROVE FlagInv'
  BY <1>7, Untouched DEF AivZero, AivEpilogue, AivNextGroup, AivFinish, fixVars, aicVars
<1>8. CASE UNCHANGED vars
  BY <1>8, Untouched DEF vars, aicVars, fixVars, aivVars
<1> QED
  BY <1>1, <1>2, <1>3, <1>4, <1>5, <1>6, <1>7, <1>8 DEF Next, AicNext, FixNext, AivNext, Terminated
-----------------------------------------------------------------------------
(* The count of the AIC is what is under way of a round, in every state.   *)
THEOREM RoundInvariance == Spec => []FlagInv
<1>1. FlagInv /\ [Next]_vars => FlagInv'
  BY NextInv
<1> QED
  BY InitInv, <1>1, PTL DEF Spec

(* However groups and held-back blocks fall, no counter of the flag passes *)
(* the reverse depth, and none of its reverse direction passes one.        *)
THEOREM FlagBound == Spec => []FlagNeverOverflows
<1>1. FlagInv => FlagNeverOverflows
  <2> SUFFICES ASSUME FlagInv, NEW v \in AIV
               PROVE  finishStore[v] <= ReverseDepth /\ reverse[v] <= 1
    BY DEF FlagNeverOverflows
  <2>1. {reverse[v], reverseQueued[v]} \subseteq Nat /\ finishStore[v] <= ReverseDepth /\ Answers(v) <= 1
    BY RoundBound
  <2> QED
    BY <2>1 DEF Answers
<1> QED
  BY <1>1, RoundInvariance, PTL
-----------------------------------------------------------------------------
(* Arithmetic of the rotation. *)

\* Division with remainder.
LEMMA DivMod ==
    ASSUME NEW a \in Nat, NEW d \in Nat \ {0}
    PROVE  /\ a \div d \in Nat /\ a % d \in 0..(d - 1)
           /\ a = d * (a \div d) + (a % d)
  OBVIOUS

\* The remainder is unique.
LEMMA ModOf ==
    ASSUME NEW d \in Nat \ {0}, NEW q \in Nat, NEW x \in 0..(d - 1)
    PROVE  (d * q + x) % d = x
<1> DEFINE a == d * q + x
<1>1. a \in Nat
  OBVIOUS
<1>2. /\ a \div d \in Nat /\ a % d \in 0..(d - 1)
      /\ a = d * (a \div d) + (a % d)
  BY <1>1, DivMod
<1>3. ~(a \div d < q)
  <2> SUFFICES ASSUME a \div d + 1 <= q PROVE FALSE
    BY <1>2
  <2>1. d * (a \div d + 1) <= d * q
    BY <1>2
  <2> QED
    BY <1>2, <2>1
<1>4. ~(q < a \div d)
  <2> SUFFICES ASSUME q + 1 <= a \div d PROVE FALSE
    BY <1>2
  <2>1. d * (q + 1) <= d * (a \div d)
    BY <1>2
  <2> QED
    BY <1>2, <2>1
<1> QED
  BY <1>2, <1>3, <1>4

\* A remainder may be taken of a summand first.
LEMMA ModSum ==
    ASSUME NEW d \in Nat \ {0}, NEW a \in Nat, NEW b \in Nat
    PROVE  ((a % d) + b) % d = (a + b) % d
<1>1. PICK q \in Nat, r \in 0..(d - 1) : a = d * q + r /\ a % d = r
  BY DivMod
<1>2. PICK p \in Nat, x \in 0..(d - 1) : r + b = d * p + x /\ (r + b) % d = x
  <2>1. r + b \in Nat
    OBVIOUS
  <2> QED
    BY <2>1, DivMod
<1>3. a + b = d * (q + p) + x
  <2>1. d * (q + p) = d * q + d * p
    OBVIOUS
  <2> QED
    BY <1>1, <1>2, <2>1
<1>4. (d * (q + p) + x) % d = x
  BY ModOf, q + p \in Nat
<1> QED
  BY <1>1, <1>2, <1>3, <1>4

\* Among d numbers in a row no two have the same remainder.
LEMMA ModApart ==
    ASSUME NEW d \in Nat \ {0}, NEW a \in Nat, NEW b \in Nat, a < b, b < a + d
    PROVE  a % d # b % d
<1>1. PICK q \in Nat, r \in 0..(d - 1) : a = d * q + r /\ a % d = r
  BY DivMod
<1>2. PICK p \in Nat, x \in 0..(d - 1) : b = d * p + x /\ b % d = x
  BY DivMod
<1> SUFFICES ASSUME r = x PROVE FALSE
  BY <1>1, <1>2
<1>3. d * p > d * q /\ d * p < d * q + d
  BY <1>1, <1>2
<1>4. CASE p <= q
  <2>1. d * p <= d * q
    BY <1>4
  <2> QED
    BY <1>3, <2>1
<1>5. CASE p >= q + 1
  <2>1. d * p >= d * (q + 1)
    BY <1>5
  <2> QED
    BY <1>3, <2>1
<1> QED
  BY <1>4, <1>5

\* The same counted from a number in common.
LEMMA ModSumApart ==
    ASSUME NEW d \in Nat \ {0}, NEW a \in Nat, NEW x \in Nat, NEW y \in Nat, x < y, y < x + d
    PROVE  (a + x) % d # (a + y) % d
<1>1. a + x \in Nat /\ a + y \in Nat /\ a + x < a + y /\ a + y < a + x + d
  OBVIOUS
<1> QED
  BY <1>1, ModApart

LEMMA BelowRound ==
    ASSUME NEW d \in Nat \ {0}, NEW s \in 0..(d - 1), NEW x \in Nat
    PROVE  s \in Nat /\ s < x + d
  OBVIOUS

\* The remainder comes back after d numbers.
LEMMA ModAgain ==
    ASSUME NEW d \in Nat \ {0}, NEW a \in Nat
    PROVE  (a + d) % d = a % d
<1>1. PICK q \in Nat, r \in 0..(d - 1) : a = d * q + r /\ a % d = r
  BY DivMod
<1>2. a + d = d * (q + 1) + r
  <2>1. d * (q + 1) = d * q + d
    OBVIOUS
  <2> QED
    BY <1>1, <2>1
<1>3. (d * (q + 1) + r) % d = r
  BY ModOf, q + 1 \in Nat
<1> QED
  BY <1>1, <1>2, <1>3
-----------------------------------------------------------------------------
(* How a loop goes through the blocks. *)

ShapeInv == problem \in Problems /\ coreIdx \in 0..(coreNum - 1)

LEMMA ShapeTypes ==
    ASSUME ShapeInv
    PROVE  /\ coreNum \in Nat \ {0} /\ coreIdx \in Nat /\ coreIdx < coreNum
           /\ Len(groups) \in Nat
           /\ \A g \in 1..Len(groups) : groups[g].coreLoops \in Nat /\ groups[g].kTiles \in Nat
<1>1. coreNum \in Nat \ {0} /\ groups \in Seq([coreLoops : Nat, kTiles : Nat])
  BY ProblemsAssumption DEF ShapeInv, coreNum, groups
<1>2. \A g \in 1..Len(groups) : groups[g] \in [coreLoops : Nat, kTiles : Nat]
  BY <1>1, ElementOfSeq
<1> QED
  BY <1>1, <1>2 DEF ShapeInv

LEMMA UpTo ==
    ASSUME NEW n \in Nat
    PROVE  IsFiniteSet(0..(n - 1)) /\ Cardinality(0..(n - 1)) = n
<1>1. 0 \in Int /\ n - 1 \in Int
  OBVIOUS
<1>2. /\ IsFiniteSet(0..(n - 1))
      /\ Cardinality(0..(n - 1)) = IF 0 > n - 1 THEN 0 ELSE (n - 1) - 0 + 1
  BY <1>1, FS_Interval, Zenon
<1> QED
  BY <1>2

\* A group adds its blocks to those before it.
LEMMA BlocksAdd ==
    ASSUME ShapeInv, NEW g \in 1..Len(groups)
    PROVE  BlocksBefore(g) \in Nat /\ BlocksBefore(g + 1) = BlocksBefore(g) + groups[g].coreLoops
<1> DEFINE In == [h \in 1..(g - 1) |-> BlocksIn(h)]
           Some == {BlocksIn(h) : h \in 1..(g - 1)}
<1>1. \A h \in 1..Len(groups) :
         IsFiniteSet(BlocksIn(h)) /\ Cardinality(BlocksIn(h)) = groups[h].coreLoops
  <2> SUFFICES ASSUME NEW h \in 1..Len(groups)
               PROVE  IsFiniteSet(BlocksIn(h)) /\ Cardinality(BlocksIn(h)) = groups[h].coreLoops
    OBVIOUS
  <2>1. groups[h].coreLoops \in Nat
    BY ShapeTypes
  <2>2. /\ IsFiniteSet(0..(groups[h].coreLoops - 1))
        /\ Cardinality(0..(groups[h].coreLoops - 1)) = groups[h].coreLoops
    BY <2>1, UpTo
  <2>3. IsFiniteSet({h}) /\ Cardinality({h}) = 1
    BY FS_Singleton
  <2> QED
    BY <2>1, <2>2, <2>3, FS_Product, SMTT(30) DEF BlocksIn
<1>2. IsFiniteSet(UNION Some)
  <2>1. IsFiniteSet(1..(g - 1))
    BY FS_Interval, ShapeTypes
  <2>2. In \in Surjection(1..(g - 1), Some)
    BY DEF Surjection
  <2>3. IsFiniteSet(Some)
    BY <2>1, <2>2, FS_Surjection
  <2>4. \A T \in Some : IsFiniteSet(T)
    BY <1>1, ShapeTypes
  <2> QED
    BY <2>3, <2>4, FS_UNION
<1>3. UNION {BlocksIn(h) : h \in 1..((g + 1) - 1)} = (UNION Some) \cup BlocksIn(g)
  <2>1. 1..((g + 1) - 1) = (1..(g - 1)) \cup {g}
    BY ShapeTypes
  <2>2. {BlocksIn(h) : h \in (1..(g - 1)) \cup {g}} = Some \cup {BlocksIn(g)}
    BY Zenon
  <2>3. UNION (Some \cup {BlocksIn(g)}) = (UNION Some) \cup BlocksIn(g)
    BY Zenon
  <2> QED
    BY <2>1, <2>2, <2>3
<1>4. (UNION Some) \cap BlocksIn(g) = {}
  <2> SUFFICES ASSUME NEW h \in 1..(g - 1), NEW b \in BlocksIn(h), b \in BlocksIn(g) PROVE FALSE
    BY Zenon
  <2>1. b[1] = h /\ b[1] = g
    BY DEF BlocksIn
  <2> QED
    BY <2>1, ShapeTypes
<1>5. Cardinality((UNION Some) \cup BlocksIn(g)) = Cardinality(UNION Some) + groups[g].coreLoops
  <2> DEFINE before == UNION Some
             here == BlocksIn(g)
  <2>1. IsFiniteSet(here) /\ Cardinality(here) = groups[g].coreLoops /\ groups[g].coreLoops \in Nat
    BY <1>1, ShapeTypes
  <2>2. IsFiniteSet(before) /\ Cardinality(before) \in Nat /\ before \cap here = {}
    BY <1>2, <1>4, FS_CardinalityType
  <2>3. Cardinality({}) = 0
    BY FS_EmptySet
  <2> HIDE DEF before, here
  <2>4. Cardinality(before \cup here) = Cardinality(before) + Cardinality(here) - Cardinality(before \cap here)
    BY <2>1, <2>2, FS_Union, Zenon
  <2>5. Cardinality(before \cap here) = 0
    BY <2>2, <2>3, Zenon
  <2>6. Cardinality(before \cup here) = Cardinality(before) + groups[g].coreLoops - 0
    BY <2>1, <2>4, <2>5, Zenon
  <2>7. Cardinality(before) + groups[g].coreLoops - 0 = Cardinality(before) + groups[g].coreLoops
    BY <2>1, <2>2
  <2> QED
    BY <2>6, <2>7, Zenon DEF before, here
<1> QED
  BY <1>2, <1>3, <1>5, FS_CardinalityType DEF BlocksBefore

LEMMA NoBlocksBefore == BlocksBefore(1) = 0
<1>1. UNION {BlocksIn(h) : h \in 1..(1 - 1)} = {}
  OBVIOUS
<1> QED
  BY <1>1, FS_EmptySet DEF BlocksBefore

LEMMA InDealt ==
    ASSUME NEW g \in 1..Len(groups), NEW i \in 0..(groups[g].coreLoops - 1)
    PROVE  <<g, i>> \in Dealt <=> (BlocksBefore(g) + i) % coreNum = coreIdx
  BY DEF Dealt, BlocksIn

LEMMA OfDealt ==
    ASSUME NEW b \in Dealt
    PROVE  /\ b[1] \in 1..Len(groups) /\ b[2] \in 0..(groups[b[1]].coreLoops - 1) /\ b = <<b[1], b[2]>>
           /\ (BlocksBefore(b[1]) + b[2]) % coreNum = coreIdx
  BY DEF Dealt, BlocksIn

\* The state of a loop: the core a group starts at is that after the last block
\* before it, and the next block is the core's.
AtInv(at) ==
    /\ at \in [groupIdx : 1..(Len(groups) + 1), loopIdx : Nat, startCoreIdx : 0..(coreNum - 1)]
    /\ at.startCoreIdx = BlocksBefore(at.groupIdx) % coreNum
    /\ (at.startCoreIdx + at.loopIdx) % coreNum = coreIdx

\* The blocks of the core that it has gone past.
Passed(at) ==
    {b \in Dealt : b[1] < at.groupIdx \/ (b[1] = at.groupIdx /\ b[2] < at.loopIdx)}

\* The next block of the core, from its place in the loop or after it.
LEMMA StartLoop ==
    ASSUME ShapeInv, NEW start \in 0..(coreNum - 1)
    PROVE  StartLoopIdx(start) \in 0..(coreNum - 1) /\ (start + StartLoopIdx(start)) % coreNum = coreIdx
<1>1. coreNum \in Nat \ {0} /\ coreIdx \in 0..(coreNum - 1)
  BY ShapeTypes
<1>2. CASE coreIdx < start
  <2>1. StartLoopIdx(start) = coreIdx + coreNum - start
    BY <1>1, <1>2 DEF StartLoopIdx
  <2>2. start + StartLoopIdx(start) = coreNum * 1 + coreIdx /\ StartLoopIdx(start) \in 0..(coreNum - 1)
    BY <1>1, <1>2, <2>1
  <2>3. (coreNum * 1 + coreIdx) % coreNum = coreIdx
    BY <1>1, ModOf
  <2> QED
    BY <2>2, <2>3, Zenon
<1>3. CASE ~(coreIdx < start)
  <2>1. StartLoopIdx(start) = coreIdx - start
    BY <1>1, <1>3 DEF StartLoopIdx
  <2>2. start + StartLoopIdx(start) = coreNum * 0 + coreIdx /\ StartLoopIdx(start) \in 0..(coreNum - 1)
    BY <1>1, <1>3, <2>1
  <2>3. (coreNum * 0 + coreIdx) % coreNum = coreIdx
    BY <1>1, ModOf
  <2> QED
    BY <2>2, <2>3, Zenon
<1> QED
  BY <1>2, <1>3

\* A loop begins with no block behind it.
LEMMA BeginsAt ==
    ASSUME ShapeInv, NEW g \in 1..(Len(groups) + 1), NEW start, start = BlocksBefore(g) % coreNum,
           start \in 0..(coreNum - 1)
    PROVE  AtInv(AtGroup(g, start)) /\ Passed(AtGroup(g, start)) = {b \in Dealt : b[1] < g}
<1> DEFINE at == AtGroup(g, start)
<1>1. at.groupIdx = g /\ at.loopIdx = StartLoopIdx(start) /\ at.startCoreIdx = start
  BY DEF AtGroup
<1>2. StartLoopIdx(start) \in 0..(coreNum - 1) /\ (start + StartLoopIdx(start)) % coreNum = coreIdx
  BY StartLoop
<1>3. at \in [groupIdx : 1..(Len(groups) + 1), loopIdx : Nat, startCoreIdx : 0..(coreNum - 1)]
  BY <1>2, ShapeTypes DEF AtGroup
<1>4. AtInv(at)
  BY <1>1, <1>2, <1>3 DEF AtInv
<1>5. ASSUME NEW b \in Dealt, b[1] = g, b[2] < StartLoopIdx(start) PROVE FALSE
  <2>1. /\ g \in 1..Len(groups) /\ b[2] \in 0..(groups[g].coreLoops - 1)
        /\ (BlocksBefore(g) + b[2]) % coreNum = coreIdx
    BY <1>5, OfDealt
  <2>2. coreNum \in Nat \ {0} /\ BlocksBefore(g) \in Nat /\ b[2] \in Nat
    BY <2>1, ShapeTypes, BlocksAdd
  <2>3. (start + b[2]) % coreNum = coreIdx
    BY <2>1, <2>2, ModSum
  <2>4. start \in Nat /\ StartLoopIdx(start) \in Nat /\ StartLoopIdx(start) < b[2] + coreNum
    BY <1>2, <2>2, BelowRound, Zenon
  <2>5. (start + b[2]) % coreNum # (start + StartLoopIdx(start)) % coreNum
    BY <1>5, <2>2, <2>4, ModSumApart, ZenonT(60)
  <2> QED
    BY <1>2, <2>3, <2>5
<1> QED
  BY <1>1, <1>4, <1>5 DEF Passed

\* A turn of the inner loop goes past one block of the core.
LEMMA NextBlockAt ==
    ASSUME ShapeInv, NEW at, AtInv(at), AtBlock(at)
    PROVE  /\ BlockOf(at) \in Dealt /\ BlockOf(at) \notin Passed(at)
           /\ AtInv(NextBlock(at))
           /\ Passed(NextBlock(at)) = Passed(at) \cup {BlockOf(at)}
<1> DEFINE g == at.groupIdx
           l == at.loopIdx
<1>1. /\ g \in 1..Len(groups) /\ l \in 0..(groups[g].coreLoops - 1) /\ l \in Nat
      /\ at.startCoreIdx \in Nat /\ groups[g].coreLoops \in Nat
  BY ShapeTypes DEF AtInv, AtBlock, GroupsLeft
<1>2. coreNum \in Nat \ {0} /\ BlocksBefore(g) \in Nat
  BY <1>1, ShapeTypes, BlocksAdd
<1>3. \A i \in Nat : (BlocksBefore(g) + i) % coreNum = (at.startCoreIdx + i) % coreNum
  BY <1>2, ModSum, ZenonT(60) DEF AtInv
<1>4. BlockOf(at) = <<g, l>> /\ BlockOf(at) \in Dealt
  BY <1>1, <1>3, InDealt DEF BlockOf, AtInv
<1>5. BlockOf(at) \notin Passed(at)
  BY <1>1, <1>4 DEF Passed
<1>6. /\ NextBlock(at).groupIdx = g /\ NextBlock(at).loopIdx = l + coreNum
      /\ NextBlock(at).startCoreIdx = at.startCoreIdx
      /\ NextBlock(at) \in [groupIdx : 1..(Len(groups) + 1), loopIdx : Nat, startCoreIdx : 0..(coreNum - 1)]
  <2>1. l + coreNum \in Nat /\ NextBlock(at) = [at EXCEPT !.loopIdx = l + coreNum]
    BY <1>1, <1>2 DEF NextBlock
  <2>2. at \in [groupIdx : 1..(Len(groups) + 1), loopIdx : Nat, startCoreIdx : 0..(coreNum - 1)]
    BY DEF AtInv
  <2> QED
    BY <2>1, <2>2
<1>7. (at.startCoreIdx + (l + coreNum)) % coreNum = coreIdx
  <2>1. at.startCoreIdx + l \in Nat /\ at.startCoreIdx + (l + coreNum) = (at.startCoreIdx + l) + coreNum
    BY <1>1, <1>2
  <2>2. ((at.startCoreIdx + l) + coreNum) % coreNum = (at.startCoreIdx + l) % coreNum
    BY <1>2, <2>1, ModAgain
  <2> QED
    BY <2>1, <2>2 DEF AtInv
<1>8. AtInv(NextBlock(at))
  BY <1>6, <1>7 DEF AtInv
<1>9. ASSUME NEW b \in Dealt, b[1] = g, b[2] < l + coreNum, ~(b[2] < l) PROVE b = <<g, l>>
  <2>1. b[2] \in Nat /\ b = <<g, b[2]>> /\ (BlocksBefore(g) + b[2]) % coreNum = coreIdx
    BY <1>9, OfDealt, ShapeTypes
  <2>2. (at.startCoreIdx + b[2]) % coreNum = (at.startCoreIdx + l) % coreNum
    BY <1>3, <2>1 DEF AtInv
  <2>3. ~(l < b[2])
    <3> SUFFICES ASSUME l < b[2] PROVE FALSE
      OBVIOUS
    <3>1. (at.startCoreIdx + l) % coreNum # (at.startCoreIdx + b[2]) % coreNum
      BY <1>1, <1>2, <1>9, <2>1, ModSumApart
    <3> QED
      BY <2>2, <3>1
  <2> QED
    BY <1>1, <1>9, <2>1, <2>3
<1>10. Passed(NextBlock(at)) = Passed(at) \cup {BlockOf(at)}
  <2>1. \A b \in Dealt : b[2] \in Nat /\ b[1] \in Nat
    BY OfDealt, ShapeTypes
  <2>2. Passed(NextBlock(at)) \subseteq Passed(at) \cup {BlockOf(at)}
    BY <1>4, <1>6, <1>9, <2>1 DEF Passed
  <2>3. Passed(at) \cup {BlockOf(at)} \subseteq Passed(NextBlock(at))
    <3>1. \A b \in Passed(at) : b \in Passed(NextBlock(at))
      <4> SUFFICES ASSUME NEW b \in Passed(at) PROVE b \in Passed(NextBlock(at))
        OBVIOUS
      <4>1. b \in Dealt /\ (b[1] < g \/ (b[1] = g /\ b[2] < l)) /\ b[2] \in Nat
        BY <2>1 DEF Passed
      <4>2. b[2] < l => b[2] < l + coreNum
        BY <1>1, <1>2, <4>1
      <4> QED
        BY <1>6, <4>1, <4>2 DEF Passed
    <3>2. <<g, l>> \in Passed(NextBlock(at))
      <4>1. l < l + coreNum
        BY <1>1, <1>2
      <4> QED
        BY <1>4, <1>6, <4>1 DEF Passed
    <3> QED
      BY <1>4, <3>1, <3>2
  <2> QED
    BY <2>2, <2>3
<1> QED
  BY <1>4, <1>5, <1>8, <1>10

\* The end of a group goes past none.
LEMMA NextGroupAt ==
    ASSUME ShapeInv, NEW at, AtInv(at), AtEndOfGroup(at)
    PROVE  AtInv(NextGroup(at)) /\ Passed(NextGroup(at)) = Passed(at)
<1> DEFINE g == at.groupIdx
           start == (at.startCoreIdx + groups[g].coreLoops) % coreNum
<1>1. /\ g \in 1..Len(groups) /\ groups[g].coreLoops \in Nat /\ at.loopIdx \in Nat
      /\ groups[g].coreLoops <= at.loopIdx
  BY ShapeTypes DEF AtInv, AtEndOfGroup, AtBlock, GroupsLeft
<1>2. /\ coreNum \in Nat \ {0} /\ BlocksBefore(g) \in Nat
      /\ BlocksBefore(g + 1) = BlocksBefore(g) + groups[g].coreLoops
  BY <1>1, ShapeTypes, BlocksAdd
<1>3. start = BlocksBefore(g + 1) % coreNum
  BY <1>1, <1>2, ModSum, ZenonT(60) DEF AtInv
<1>4. start \in 0..(coreNum - 1)
  <2>1. BlocksBefore(g + 1) \in Nat
    BY <1>1, <1>2
  <2> QED
    BY <1>2, <1>3, <2>1, DivMod
<1>5. NextGroup(at) = AtGroup(g + 1, start)
  BY DEF NextGroup
<1>6. AtInv(NextGroup(at)) /\ Passed(NextGroup(at)) = {b \in Dealt : b[1] < g + 1}
  <2>1. g + 1 \in 1..(Len(groups) + 1)
    BY <1>1, ShapeTypes
  <2> HIDE DEF start
  <2> QED
    BY <1>3, <1>4, <1>5, <2>1, BeginsAt
<1>7. \A b \in Dealt : (b[1] < g + 1) <=> (b[1] < g \/ (b[1] = g /\ b[2] < at.loopIdx))
  <2> SUFFICES ASSUME NEW b \in Dealt
               PROVE  (b[1] < g + 1) <=> (b[1] < g \/ (b[1] = g /\ b[2] < at.loopIdx))
    OBVIOUS
  <2>1. b[1] \in Nat /\ b[2] \in 0..(groups[b[1]].coreLoops - 1)
    BY OfDealt
  <2> QED
    BY <1>1, <2>1
<1> QED
  BY <1>6, <1>7 DEF Passed
-----------------------------------------------------------------------------
(* Which blocks have been announced. *)

\* The order in which a core goes through its blocks.
Less(b, c) == b[1] < c[1] \/ (b[1] = c[1] /\ b[2] < c[2])

\* The blocks gone past that the AIC multiplies.
Work(at) == {b \in Passed(at) : KTiles(b) > 0}

\* The k tiles loaded and not multiplied, in the order they will be.
Tiles == due \o held

InFix == {fixQueue[i] : i \in 1..Len(fixQueue)}
InTiles == {Tiles[i].block : i \in {j \in 1..Len(Tiles) : Tiles[j].last}}

\* The blocks whose flag has been set.
Announced == Work(aicAt) \ (InFix \cup InTiles)

\* The blocks whose flag AIV v has waited for.
Waited(v) == Work(aivAt[v]) \cup (IF aivPc[v] = "epilogue" THEN {BlockOf(aivAt[v])} ELSE {})

Blocks == Nat \X Nat

QueueTypes ==
    /\ fixQueue \in Seq(Blocks)
    /\ {due, held} \subseteq Seq([block : Blocks, last : BOOLEAN])

\* The blocks are stored and announced in the order of the loop.
InOrder ==
    /\ InFix \subseteq Work(aicAt)
    /\ \A i \in 1..Len(Tiles) : Tiles[i].block \in Work(aicAt)
    /\ \A i, j \in 1..Len(fixQueue) : i < j => Less(fixQueue[i], fixQueue[j])
    /\ \A b \in InFix : \A j \in 1..Len(Tiles) : Less(b, Tiles[j].block)
    /\ \A i, j \in 1..Len(Tiles) : i < j =>
          \/ Less(Tiles[i].block, Tiles[j].block)
          \/ ~Tiles[i].last /\ Tiles[i].block = Tiles[j].block
    /\ \A a \in Announced : \A b \in InFix \cup InTiles : Less(a, b)

AicInv ==
    /\ AtInv(aicAt)
    /\ QueueTypes
    /\ InOrder
    /\ IsFiniteSet(Announced)
    /\ Announced \subseteq stored

\* What an AIV has written, and that it is as far as its flag says.
AivInv(v) ==
    /\ AtInv(aivAt[v])
    /\ output[v] = {<<b, IF KTiles(b) = 0 THEN "zero" ELSE "product">> : b \in Passed(aivAt[v])}
    /\ Waited(v) \subseteq Announced
    /\ finishStore[v] = Cardinality(Announced \ Waited(v))
    /\ aivPc[v] = "epilogue" => AtBlock(aivAt[v]) /\ KTiles(BlockOf(aivAt[v])) > 0
    /\ aivPc[v] = "done" => ~GroupsLeft(aivAt[v])

AivTypes ==
    /\ aivPc \in [AIV -> {"loop", "epilogue", "done"}]
    /\ DOMAIN aivAt = AIV /\ DOMAIN output = AIV

DealtInv == ShapeInv /\ AicInv /\ AivTypes /\ \A v \in AIV : AivInv(v)
-----------------------------------------------------------------------------
(* What follows from the shape alone. *)

LEMMA SameShape ==
    ASSUME UNCHANGED shape
    PROVE  /\ ShapeInv' = ShapeInv /\ Dealt' = Dealt /\ groups' = groups /\ coreNum' = coreNum
           /\ \A b : KTiles(b)' = KTiles(b)
           /\ \A at : /\ AtInv(at)' = AtInv(at) /\ Passed(at)' = Passed(at) /\ Work(at)' = Work(at)
                      /\ AtBlock(at)' = AtBlock(at) /\ GroupsLeft(at)' = GroupsLeft(at)
<1>1. problem' = problem /\ coreIdx' = coreIdx
  BY DEF shape
<1>2. groups' = groups /\ coreNum' = coreNum /\ ShapeInv' = ShapeInv
  BY <1>1 DEF groups, coreNum, ShapeInv
<1>3. Dealt' = Dealt /\ \A g : BlocksBefore(g)' = BlocksBefore(g)
  BY <1>1, <1>2, SMT DEF Dealt, BlocksIn, BlocksBefore
<1>4. \A b : KTiles(b)' = KTiles(b)
  BY <1>2 DEF KTiles
<1>5. ASSUME NEW at
      PROVE  /\ AtInv(at)' = AtInv(at) /\ Passed(at)' = Passed(at)
             /\ AtBlock(at)' = AtBlock(at) /\ GroupsLeft(at)' = GroupsLeft(at)
  BY <1>1, <1>2, <1>3 DEF AtInv, Passed, AtBlock, GroupsLeft
<1>6. ASSUME NEW at PROVE Work(at)' = Work(at)
  BY <1>4, <1>5 DEF Work
<1> QED
  BY <1>2, <1>3, <1>4, <1>5, <1>6

LEMMA DealtTypes ==
    ASSUME ShapeInv, NEW b \in Dealt
    PROVE  b \in Blocks /\ KTiles(b) \in Nat
<1>1. b[1] \in 1..Len(groups) /\ b[2] \in 0..(groups[b[1]].coreLoops - 1) /\ b = <<b[1], b[2]>>
  BY OfDealt
<1>2. groups[b[1]].kTiles \in Nat /\ b[1] \in Nat /\ b[2] \in Nat
  BY <1>1, ShapeTypes
<1> QED
  BY <1>1, <1>2 DEF Blocks, KTiles

\* The order is strict and total.
LEMMA LessOrder ==
    ASSUME NEW a \in Blocks, NEW b \in Blocks, NEW c \in Blocks
    PROVE  /\ ~Less(a, a)
           /\ Less(a, b) /\ Less(b, c) => Less(a, c)
           /\ a = b \/ Less(a, b) \/ Less(b, a)
  BY DEF Less, Blocks

\* What a loop has gone past is the beginning of the order.
LEMMA PassedDown ==
    ASSUME ShapeInv, NEW at, AtInv(at), NEW x \in Passed(at), NEW c \in Dealt, Less(c, x)
    PROVE  c \in Passed(at)
<1>1. x \in Blocks /\ c \in Blocks
  BY DealtTypes DEF Passed
<1>2. at.groupIdx \in Nat /\ at.loopIdx \in Nat
  BY ShapeTypes DEF AtInv
<1> QED
  BY <1>1, <1>2 DEF Passed, Less, Blocks

LEMMA NotPassed ==
    ASSUME ShapeInv, NEW at, AtInv(at), AtBlock(at), NEW x \in Dealt, x \notin Passed(at)
    PROVE  x = BlockOf(at) \/ Less(BlockOf(at), x)
<1>1. x \in Blocks
  BY DealtTypes
<1>2. at.groupIdx \in Nat /\ at.loopIdx \in Nat
  BY ShapeTypes DEF AtInv
<1> QED
  BY <1>1, <1>2 DEF Passed, Less, Blocks, BlockOf

\* A turn of the inner loop, and what is to be multiplied.
LEMMA NextBlockWork ==
    ASSUME ShapeInv, NEW at, AtInv(at), AtBlock(at)
    PROVE  /\ BlockOf(at) \in Blocks /\ KTiles(BlockOf(at)) \in Nat /\ BlockOf(at) \in Dealt
           /\ BlockOf(at) \notin Passed(at)
           /\ \A b \in Passed(at) : Less(b, BlockOf(at))
           /\ Work(NextBlock(at)) = Work(at) \cup (IF KTiles(BlockOf(at)) > 0 THEN {BlockOf(at)} ELSE {})
<1>1. /\ BlockOf(at) \in Dealt /\ BlockOf(at) \notin Passed(at)
      /\ Passed(NextBlock(at)) = Passed(at) \cup {BlockOf(at)}
  BY NextBlockAt
<1>2. \A b \in Passed(at) : Less(b, BlockOf(at))
  BY DEF Passed, Less, BlockOf
<1>3. Work(NextBlock(at)) = Work(at) \cup (IF KTiles(BlockOf(at)) > 0 THEN {BlockOf(at)} ELSE {})
  BY <1>1 DEF Work
<1> QED
  BY <1>1, <1>2, <1>3, DealtTypes

LEMMA WorkTypes ==
    ASSUME ShapeInv, NEW at
    PROVE  Work(at) \subseteq Passed(at) /\ Passed(at) \subseteq Dealt /\ Work(at) \subseteq Blocks
  BY DealtTypes DEF Work, Passed
-----------------------------------------------------------------------------
(* The steps of the AIC and of its PIPE_FIX. *)

TileTypes == [block : Blocks, last : BOOLEAN]

LEMMA TilesType == QueueTypes => Tiles \in Seq(TileTypes) /\ Len(Tiles) \in Nat
<1> SUFFICES ASSUME QueueTypes PROVE Tiles \in Seq(TileTypes) /\ Len(Tiles) \in Nat
  OBVIOUS
<1>1. due \in Seq(TileTypes) /\ held \in Seq(TileTypes)
  BY DEF QueueTypes, TileTypes
<1>2. Tiles \in Seq(TileTypes)
  BY <1>1, ConcatProperties DEF Tiles
<1> QED
  BY <1>2, LenProperties

LEMMA InTilesIff ==
    ASSUME NEW b
    PROVE  b \in InTiles <=> \E i \in 1..Len(Tiles) : Tiles[i].last /\ Tiles[i].block = b
  BY DEF InTiles

\* The end of a call, or of the loop: all that is due has been multiplied.
LEMMA NothingDue == QueueTypes /\ due = <<>> => Tiles = held
<1> SUFFICES ASSUME QueueTypes, due = <<>> PROVE Tiles = held
  OBVIOUS
<1>1. held \in Seq(TileTypes)
  BY DEF QueueTypes, TileTypes
<1> QED
  BY <1>1, ConcatEmptySeq DEF Tiles

\* Nothing is loaded, multiplied, stored or announced.
LEMMA AicSame ==
    ASSUME ShapeInv, AicInv, UNCHANGED shape, QueueTypes',
           AtInv(aicAt)', Work(aicAt)' = Work(aicAt), Tiles' = Tiles, fixQueue' = fixQueue,
           stored \subseteq stored'
    PROVE  AicInv' /\ Announced' = Announced
<1>1. InFix' = InFix /\ InTiles' = InTiles
  BY DEF InFix, InTiles
<1>2. Announced' = Announced
  BY <1>1 DEF Announced
<1>3. InOrder'
  BY <1>1, <1>2 DEF AicInv, InOrder
<1> QED
  BY <1>2, <1>3 DEF AicInv

LEMMA AicNextGroupInv ==
    ASSUME ShapeInv, AicInv, AicNextGroup
    PROVE  AicInv' /\ Announced' = Announced
<1>1. /\ AtEndOfGroup(aicAt) /\ aicAt' = NextGroup(aicAt) /\ UNCHANGED shape
      /\ UNCHANGED <<held, due, fixQueue, stored>>
  BY DEF AicNextGroup, fixVars
<1>2. AtInv(aicAt) /\ AtInv(NextGroup(aicAt)) /\ Passed(NextGroup(aicAt)) = Passed(aicAt)
  BY <1>1, NextGroupAt DEF AicInv
<1>3. Work(NextGroup(aicAt)) = Work(aicAt)
  BY <1>2 DEF Work
<1>4. AtInv(aicAt)' /\ Work(aicAt)' = Work(aicAt)
  BY <1>1, <1>2, <1>3, SameShape
<1>5. QueueTypes' /\ Tiles' = Tiles
  BY <1>1 DEF AicInv, QueueTypes, Tiles
<1> QED
  BY <1>1, <1>4, <1>5, AicSame

LEMMA AicSynchronizeBlockInv ==
    ASSUME ShapeInv, AicInv, AicSynchronizeBlock
    PROVE  AicInv' /\ Announced' = Announced
<1>1. /\ due = <<>> /\ due' = held /\ held' = <<>> /\ UNCHANGED shape
      /\ UNCHANGED <<aicAt, fixQueue, stored>>
  BY DEF AicSynchronizeBlock, Free, fixVars
<1>2. QueueTypes
  BY DEF AicInv
<1>3. held \in Seq(TileTypes) /\ QueueTypes'
  BY <1>1, <1>2 DEF QueueTypes, TileTypes
<1>4. Tiles' = Tiles
  <2>1. held \o <<>> = held
    BY <1>3, ConcatEmptySeq
  <2>2. Tiles' = held \o <<>>
    BY <1>1 DEF Tiles
  <2> QED
    BY <1>1, <1>2, <2>1, <2>2, NothingDue
<1>5. AtInv(aicAt)' /\ Work(aicAt)' = Work(aicAt)
  BY <1>1, SameShape DEF AicInv
<1> QED
  BY <1>1, <1>3, <1>4, <1>5, AicSame

\* The tile due first is the first of all.
LEMMA FirstDue ==
    ASSUME QueueTypes, due # <<>>
    PROVE  /\ Len(Tiles) \in Nat \ {0} /\ Head(due) = Tiles[1] /\ Head(due) \in TileTypes
           /\ Tail(due) \in Seq(TileTypes)
           /\ Len(Tail(due) \o held) = Len(Tiles) - 1
           /\ \A i \in 1..(Len(Tiles) - 1) : (Tail(due) \o held)[i] = Tiles[i + 1]
<1>1. due \in Seq(TileTypes) /\ held \in Seq(TileTypes)
  BY DEF QueueTypes, TileTypes
<1>2. Len(due) \in Nat \ {0} /\ Len(held) \in Nat
  BY <1>1, EmptySeq, LenProperties
<1>3. /\ Len(Tiles) = Len(due) + Len(held)
      /\ \A i \in 1..(Len(due) + Len(held)) :
            Tiles[i] = IF i <= Len(due) THEN due[i] ELSE held[i - Len(due)]
  BY <1>1, ConcatProperties DEF Tiles
<1>4. /\ Head(due) = due[1] /\ Head(due) \in TileTypes /\ Tail(due) \in Seq(TileTypes)
      /\ Len(Tail(due)) = Len(due) - 1
      /\ \A i \in 1..Len(Tail(due)) : Tail(due)[i] = due[i + 1]
  BY <1>1, HeadTailProperties
<1>5. /\ Len(Tail(due) \o held) = Len(due) - 1 + Len(held)
      /\ \A i \in 1..(Len(due) - 1 + Len(held)) :
            (Tail(due) \o held)[i] = IF i <= Len(due) - 1 THEN Tail(due)[i] ELSE held[i - (Len(due) - 1)]
  BY <1>1, <1>4, ConcatProperties
<1>6. ASSUME NEW i \in 1..(Len(Tiles) - 1) PROVE (Tail(due) \o held)[i] = Tiles[i + 1]
  <2>1. i \in Nat /\ i >= 1 /\ i + 1 \in 1..(Len(due) + Len(held)) /\ i \in 1..(Len(due) - 1 + Len(held))
    BY <1>2, <1>3
  <2>2. CASE i <= Len(due) - 1
    <3>1. i \in 1..Len(Tail(due)) /\ i + 1 <= Len(due)
      BY <1>2, <1>4, <2>1, <2>2
    <3> QED
      BY <1>3, <1>4, <1>5, <2>1, <2>2, <3>1
  <2>3. CASE ~(i <= Len(due) - 1)
    <3>1. ~(i + 1 <= Len(due)) /\ i - (Len(due) - 1) = (i + 1) - Len(due)
      BY <1>2, <2>1, <2>3
    <3> QED
      BY <1>3, <1>5, <2>1, <2>3, <3>1
  <2> QED
    BY <2>2, <2>3
<1>7. Len(Tiles) \in Nat \ {0} /\ Len(Tail(due) \o held) = Len(Tiles) - 1
  BY <1>2, <1>3, <1>5
<1>8. Tiles[1] = due[1]
  <2>1. 1 \in 1..(Len(due) + Len(held)) /\ 1 <= Len(due)
    BY <1>2
  <2> QED
    BY <1>3, <2>1
<1> QED
  BY <1>4, <1>6, <1>7, <1>8, Zenon

\* A multiplied tile leaves the row; the others keep their order.
LEMMA TileMultiplied ==
    ASSUME QueueTypes, due # <<>>, due' = Tail(due), held' = held, fixQueue' \in Seq(Blocks)
    PROVE  /\ QueueTypes' /\ Len(Tiles)' = Len(Tiles) - 1
           /\ \A i \in 1..Len(Tiles)' : Tiles'[i] = Tiles[i + 1]
           /\ InTiles' \subseteq InTiles
           /\ InTiles \subseteq InTiles' \cup (IF Head(due).last THEN {Head(due).block} ELSE {})
<1>1. /\ Len(Tiles) \in Nat \ {0} /\ Head(due) = Tiles[1] /\ Tail(due) \in Seq(TileTypes)
      /\ Len(Tiles)' = Len(Tiles) - 1
      /\ \A i \in 1..(Len(Tiles) - 1) : Tiles'[i] = Tiles[i + 1]
  BY FirstDue DEF Tiles
<1>2. QueueTypes'
  BY <1>1 DEF QueueTypes, TileTypes
<1>3. ASSUME NEW b \in InTiles' PROVE b \in InTiles
  <2>1. PICK i \in 1..Len(Tiles)' : Tiles'[i].last /\ Tiles'[i].block = b
    BY <1>3 DEF InTiles
  <2>2. i + 1 \in 1..Len(Tiles) /\ Tiles[i + 1].last /\ Tiles[i + 1].block = b
    BY <1>1, <2>1
  <2> QED
    BY <2>2, InTilesIff
<1>4. ASSUME NEW b \in InTiles, ~(Head(due).last /\ Head(due).block = b) PROVE b \in InTiles'
  <2>1. PICK i \in 1..Len(Tiles) : Tiles[i].last /\ Tiles[i].block = b
    BY <1>4, InTilesIff
  <2>2. i # 1
    BY <1>1, <1>4, <2>1
  <2>3. i - 1 \in 1..Len(Tiles)' /\ i - 1 \in 1..(Len(Tiles) - 1) /\ (i - 1) + 1 = i
    BY <1>1, <2>1, <2>2
  <2>4. Tiles'[i - 1].last /\ Tiles'[i - 1].block = b
    BY <1>1, <2>1, <2>3
  <2> QED
    BY <2>3, <2>4 DEF InTiles
<1> QED
  BY <1>1, <1>2, <1>3, <1>4

LEMMA AicMultiplyInv ==
    ASSUME ShapeInv, AicInv, AicMultiply
    PROVE  AicInv' /\ Announced' = Announced
<1>1. /\ due # <<>> /\ ~Head(due).last /\ due' = Tail(due) /\ UNCHANGED shape
      /\ UNCHANGED <<aicAt, held, fixQueue, stored>>
  BY DEF AicMultiply, fixVars
<1>2. QueueTypes /\ InOrder /\ AtInv(aicAt) /\ fixQueue' \in Seq(Blocks)
  BY <1>1 DEF AicInv, QueueTypes
<1>3. /\ QueueTypes' /\ Len(Tiles)' = Len(Tiles) - 1
      /\ \A i \in 1..Len(Tiles)' : Tiles'[i] = Tiles[i + 1]
      /\ InTiles' = InTiles
  BY <1>1, <1>2, TileMultiplied
<1>4. Len(Tiles) \in Nat \ {0}
  BY <1>1, <1>2, FirstDue
<1>5. Work(aicAt)' = Work(aicAt) /\ AtInv(aicAt)'
  BY <1>1, <1>2, SameShape
<1>6. InFix' = InFix /\ Announced' = Announced
  BY <1>1, <1>3, <1>5 DEF InFix, Announced
<1>7. \A i \in 1..Len(Tiles)' : i + 1 \in 1..Len(Tiles)
  BY <1>3, <1>4
<1>8. InOrder'
  <2>1. \A i \in 1..Len(Tiles)' : Tiles'[i].block \in Work(aicAt)'
    BY <1>2, <1>3, <1>5, <1>7 DEF InOrder
  <2>2. \A b \in InFix' : \A j \in 1..Len(Tiles)' : Less(b, Tiles'[j].block)
    BY <1>2, <1>3, <1>6, <1>7 DEF InOrder
  <2>3. ASSUME NEW i \in 1..Len(Tiles)', NEW j \in 1..Len(Tiles)', i < j
        PROVE  \/ Less(Tiles'[i].block, Tiles'[j].block)
               \/ ~Tiles'[i].last /\ Tiles'[i].block = Tiles'[j].block
    <3>1. i + 1 \in 1..Len(Tiles) /\ j + 1 \in 1..Len(Tiles) /\ i + 1 < j + 1
      BY <1>4, <1>7, <2>3
    <3> QED
      BY <1>2, <1>3, <3>1 DEF InOrder
  <2> QED
    BY <1>1, <1>2, <1>3, <1>5, <1>6, <2>1, <2>2, <2>3 DEF InOrder
<1> QED
  BY <1>1, <1>3, <1>5, <1>6, <1>8 DEF AicInv

\* The stored block goes from the tiles to the queue of PIPE_FIX.
LEMMA AicStoreInv ==
    ASSUME ShapeInv, AicInv, AicStore
    PROVE  AicInv' /\ Announced' = Announced
<1> DEFINE b == Head(due).block
           n == Len(fixQueue)
<1>1. /\ due # <<>> /\ Head(due).last /\ due' = Tail(due) /\ fixQueue' = Append(fixQueue, b)
      /\ UNCHANGED shape /\ UNCHANGED <<aicAt, held, stored>>
  BY DEF AicStore
<1>2. QueueTypes /\ InOrder /\ AtInv(aicAt) /\ fixQueue \in Seq(Blocks) /\ n \in Nat
  BY LenProperties DEF AicInv, QueueTypes
<1>3. /\ Len(Tiles) \in Nat \ {0} /\ 1 \in 1..Len(Tiles)
      /\ b \in Blocks /\ b = Tiles[1].block /\ Tiles[1].last
  BY <1>1, <1>2, FirstDue DEF TileTypes
<1>4. /\ fixQueue' \in Seq(Blocks) /\ Len(fixQueue') = n + 1 /\ fixQueue'[n + 1] = b
      /\ \A i \in 1..n : fixQueue'[i] = fixQueue[i]
  BY <1>1, <1>2, <1>3, AppendProperties
<1>5. /\ QueueTypes' /\ Len(Tiles)' = Len(Tiles) - 1
      /\ \A i \in 1..Len(Tiles)' : Tiles'[i] = Tiles[i + 1]
      /\ InTiles' \subseteq InTiles /\ InTiles \subseteq InTiles' \cup {b}
  BY <1>1, <1>2, <1>4, TileMultiplied
<1>6. Work(aicAt)' = Work(aicAt) /\ AtInv(aicAt)'
  BY <1>1, <1>2, SameShape
<1>7. InFix' = InFix \cup {b}
  <2>1. 1..(n + 1) = 1..n \cup {n + 1}
    BY <1>2
  <2> QED
    BY <1>2, <1>4, <2>1 DEF InFix
<1>8. InFix' \cup InTiles' = InFix \cup InTiles /\ Announced' = Announced
  <2>1. b \in InTiles
    BY <1>3, InTilesIff
  <2> QED
    BY <1>5, <1>6, <1>7, <2>1 DEF Announced
<1>9. \A i \in 1..Len(Tiles)' : i + 1 \in 1..Len(Tiles) /\ 1 < i + 1
  BY <1>3, <1>5
<1>10. InOrder'
  <2>1. InFix' \subseteq Work(aicAt)'
    BY <1>2, <1>3, <1>6, <1>7 DEF InOrder
  <2>2. \A i \in 1..Len(Tiles)' : Tiles'[i].block \in Work(aicAt)'
    BY <1>2, <1>5, <1>6, <1>9 DEF InOrder
  <2>3. ASSUME NEW i \in 1..Len(fixQueue'), NEW j \in 1..Len(fixQueue'), i < j
        PROVE  Less(fixQueue'[i], fixQueue'[j])
    <3>1. i \in 1..n /\ (j \in 1..n \/ j = n + 1)
      BY <1>2, <1>4, <2>3
    <3>2. CASE j \in 1..n
      BY <1>2, <1>4, <2>3, <3>1, <3>2 DEF InOrder
    <3>3. CASE j = n + 1
      <4>1. fixQueue[i] \in InFix
        BY <3>1 DEF InFix
      <4> QED
        BY <1>2, <1>3, <1>4, <3>1, <3>3, <4>1 DEF InOrder
    <3> QED
      BY <3>1, <3>2, <3>3
  <2>4. ASSUME NEW c \in InFix', NEW j \in 1..Len(Tiles)' PROVE Less(c, Tiles'[j].block)
    <3>1. j + 1 \in 1..Len(Tiles) /\ 1 < j + 1 /\ Tiles'[j] = Tiles[j + 1]
      BY <1>5, <1>9
    <3>2. CASE c \in InFix
      BY <1>2, <3>1, <3>2 DEF InOrder
    <3>3. CASE c = b
      BY <1>2, <1>3, <3>1, <3>3 DEF InOrder
    <3> QED
      BY <1>7, <3>2, <3>3
  <2>5. ASSUME NEW i \in 1..Len(Tiles)', NEW j \in 1..Len(Tiles)', i < j
        PROVE  \/ Less(Tiles'[i].block, Tiles'[j].block)
               \/ ~Tiles'[i].last /\ Tiles'[i].block = Tiles'[j].block
    <3>1. i + 1 \in 1..Len(Tiles) /\ j + 1 \in 1..Len(Tiles) /\ i + 1 < j + 1
      BY <1>3, <1>5, <1>9, <2>5
    <3>2. \/ Less(Tiles[i + 1].block, Tiles[j + 1].block)
          \/ ~Tiles[i + 1].last /\ Tiles[i + 1].block = Tiles[j + 1].block
      BY <1>2, <3>1 DEF InOrder
    <3>3. Tiles'[i] = Tiles[i + 1] /\ Tiles'[j] = Tiles[j + 1]
      BY <1>5
    <3> QED
      BY <3>2, <3>3
  <2>6. \A a \in Announced' : \A c \in InFix' \cup InTiles' : Less(a, c)
    BY <1>2, <1>8 DEF InOrder
  <2> QED
    BY <2>1, <2>2, <2>3, <2>4, <2>5, <2>6 DEF InOrder
<1> QED
  BY <1>1, <1>5, <1>6, <1>8, <1>10 DEF AicInv

LEMMA FixStoreInv ==
    ASSUME ShapeInv, AicInv, FixStore
    PROVE  AicInv' /\ Announced' = Announced
<1>1. /\ stored \subseteq stored' /\ UNCHANGED shape
      /\ UNCHANGED <<aicAt, held, due, fixQueue>>
  BY DEF FixStore, aicVars
<1>2. QueueTypes' /\ Tiles' = Tiles
  BY <1>1 DEF AicInv, QueueTypes, Tiles
<1>3. AtInv(aicAt)' /\ Work(aicAt)' = Work(aicAt)
  BY <1>1, SameShape DEF AicInv
<1> QED
  BY <1>1, <1>2, <1>3, AicSame

\* The set announces one block more.
LEMMA FixSetFlagInv ==
    ASSUME ShapeInv, AicInv, FixSetFlag
    PROVE  AicInv' /\ Head(fixQueue) \notin Announced /\ Announced' = Announced \cup {Head(fixQueue)}
<1> DEFINE b == Head(fixQueue)
           n == Len(fixQueue)
<1>1. /\ fixQueue # <<>> /\ b \in stored /\ fixQueue' = Tail(fixQueue)
      /\ UNCHANGED shape /\ UNCHANGED <<aicAt, held, due, stored>>
  BY DEF FixSetFlag, aicVars
<1>2. QueueTypes /\ InOrder /\ AtInv(aicAt) /\ fixQueue \in Seq(Blocks)
  BY DEF AicInv, QueueTypes
<1>3. n \in Nat \ {0} /\ b = fixQueue[1] /\ b \in Blocks
  BY <1>1, <1>2, EmptySeq, HeadTailProperties
<1>4. /\ fixQueue' \in Seq(Blocks) /\ Len(fixQueue') = n - 1
      /\ \A i \in 1..(n - 1) : fixQueue'[i] = fixQueue[i + 1]
  BY <1>1, <1>2, HeadTailProperties
<1>5. QueueTypes' /\ Tiles' = Tiles /\ InTiles' = InTiles
  BY <1>1, <1>2, <1>4 DEF QueueTypes, Tiles, InTiles
<1>6. Work(aicAt)' = Work(aicAt) /\ AtInv(aicAt)' /\ Work(aicAt) \subseteq Blocks
  BY <1>1, <1>2, SameShape, WorkTypes
<1>7. /\ InFix = InFix' \cup {b} /\ \A c \in InFix' : Less(b, c)
  <2>1. \A i \in 1..(n - 1) : i + 1 \in 1..n /\ 1 < i + 1 /\ 1 \in 1..n
    BY <1>3
  <2>2. ASSUME NEW c \in InFix' PROVE c \in InFix /\ Less(b, c)
    <3>1. PICK i \in 1..(n - 1) : c = fixQueue[i + 1]
      BY <1>4, <2>2 DEF InFix
    <3> QED
      BY <1>2, <1>3, <2>1, <3>1 DEF InFix, InOrder
  <2>3. ASSUME NEW c \in InFix, c # b PROVE c \in InFix'
    <3>1. PICK i \in 1..n : c = fixQueue[i]
      BY <2>3 DEF InFix
    <3>2. i - 1 \in 1..(n - 1) /\ (i - 1) + 1 = i
      BY <1>3, <2>3, <3>1
    <3> QED
      BY <1>4, <3>1, <3>2 DEF InFix
  <2>4. b \in InFix
    BY <1>3, 1 \in 1..n DEF InFix
  <2> QED
    BY <2>2, <2>3, <2>4
<1>8. /\ \A c \in InTiles : Less(b, c)
      /\ b \in Work(aicAt)
  <2>1. \A j \in 1..Len(Tiles) : Less(b, Tiles[j].block)
    BY <1>2, <1>7 DEF InOrder
  <2>2. b \in Work(aicAt)
    BY <1>2, <1>7 DEF InOrder
  <2> QED
    BY <2>1, <2>2, InTilesIff
<1>9. b \notin InFix' /\ b \notin InTiles
  <2>1. ~Less(b, b)
    BY <1>3, LessOrder
  <2> QED
    BY <1>7, <1>8, <2>1
<1>10. b \notin Announced /\ Announced' = Announced \cup {b}
  BY <1>5, <1>6, <1>7, <1>8, <1>9 DEF Announced
<1>11. InOrder'
  <2>1. InFix' \subseteq Work(aicAt)' /\ \A i \in 1..Len(Tiles)' : Tiles'[i].block \in Work(aicAt)'
    BY <1>2, <1>5, <1>6, <1>7 DEF InOrder
  <2>2. ASSUME NEW i \in 1..Len(fixQueue'), NEW j \in 1..Len(fixQueue'), i < j
        PROVE  Less(fixQueue'[i], fixQueue'[j])
    <3>1. i \in 1..(n - 1) /\ j \in 1..(n - 1) /\ i + 1 \in 1..n /\ j + 1 \in 1..n /\ i + 1 < j + 1
      BY <1>3, <1>4, <2>2
    <3> QED
      BY <1>2, <1>4, <3>1 DEF InOrder
  <2>3. \A c \in InFix' : \A j \in 1..Len(Tiles)' : Less(c, Tiles'[j].block)
    BY <1>2, <1>5, <1>7 DEF InOrder
  <2>4. \A i, j \in 1..Len(Tiles)' : i < j =>
          \/ Less(Tiles'[i].block, Tiles'[j].block)
          \/ ~Tiles'[i].last /\ Tiles'[i].block = Tiles'[j].block
    BY <1>2, <1>5 DEF InOrder
  <2>5. \A a \in Announced' : \A c \in InFix' \cup InTiles' : Less(a, c)
    BY <1>2, <1>5, <1>7, <1>8, <1>10 DEF InOrder
  <2> QED
    BY <2>1, <2>2, <2>3, <2>4, <2>5 DEF InOrder
<1>12. IsFiniteSet(Announced') /\ Announced' \subseteq stored'
  BY <1>1, <1>10, FS_AddElement DEF AicInv
<1> QED
  BY <1>5, <1>6, <1>10, <1>11, <1>12 DEF AicInv

\* Cutting the row in two and taking it together again.
LEMMA CutTogether ==
    ASSUME NEW S, NEW row \in Seq(S), NEW n \in 0..Len(row)
    PROVE  /\ SubSeq(row, 1, n) \in Seq(S) /\ SubSeq(row, n + 1, Len(row)) \in Seq(S)
           /\ SubSeq(row, 1, n) \o SubSeq(row, n + 1, Len(row)) = row
<1>1. Len(row) \in Nat /\ \A i \in 1..Len(row) : row[i] \in S
  BY LenProperties, ElementOfSeq
<1>2. SubSeq(row, 1, n) \in Seq(S)
  <2>1. 1 \in Int /\ n \in Int /\ \A i \in 1..n : row[i] \in S
    BY <1>1
  <2> QED
    BY <2>1, SubSeqProperties
<1>3. SubSeq(row, n + 1, Len(row)) \in Seq(S)
  <2>1. n + 1 \in Int /\ Len(row) \in Int /\ \A i \in (n + 1)..Len(row) : row[i] \in S
    BY <1>1
  <2> QED
    BY <2>1, SubSeqProperties
<1>4. SubSeq(row, 1, n) \o SubSeq(row, n + 1, Len(row)) = row
  <2>1. 1 \in 1..(Len(row) + 1) /\ n \in (1 - 1)..Len(row) /\ Len(row) \in n..Len(row)
    BY <1>1
  <2>2. SubSeq(row, 1, n) \o SubSeq(row, n + 1, Len(row)) = SubSeq(row, 1, Len(row))
    BY <2>1, ConcatAdjacentSubSeq
  <2> QED
    BY <2>2, SubSeqFull
<1> QED
  BY <1>2, <1>3, <1>4

\* A block of the core joins the row with all its k tiles, the last one marked.
LEMMA TilesJoin ==
    ASSUME QueueTypes, NEW b \in Blocks, KTiles(b) \in Nat
    PROVE  LET row == Tiles \o TilesOf(b) IN
           /\ row \in Seq(TileTypes) /\ Len(row) = Len(Tiles) + KTiles(b)
           /\ \A i \in 1..Len(Tiles) : row[i] = Tiles[i]
           /\ \A i \in (Len(Tiles) + 1)..(Len(Tiles) + KTiles(b)) :
                 row[i].block = b /\ (row[i].last <=> i = Len(Tiles) + KTiles(b))
<1> DEFINE n == Len(Tiles)
           k == KTiles(b)
           row == Tiles \o TilesOf(b)
<1>1. Tiles \in Seq(TileTypes) /\ n \in Nat
  BY TilesType
<1>2. /\ TilesOf(b) \in Seq(TileTypes) /\ Len(TilesOf(b)) = k
  <2>1. ASSUME NEW i \in 1..k PROVE [block |-> b, last |-> i = k] \in TileTypes
    <3>1. (i = k) \in BOOLEAN
      OBVIOUS
    <3> QED
      BY <3>1, Zenon DEF TileTypes
  <2>2. TilesOf(b) \in [1..k -> TileTypes]
    BY <2>1, Zenon DEF TilesOf
  <2>3. TilesOf(b) \in Seq(TileTypes)
    BY <2>2, SeqDef
  <2>4. DOMAIN TilesOf(b) = 1..k /\ DOMAIN TilesOf(b) = 1..Len(TilesOf(b)) /\ Len(TilesOf(b)) \in Nat
    BY <2>2, <2>3, LenProperties
  <2> QED
    BY <2>3, <2>4
<1>3. ASSUME NEW i \in 1..k PROVE TilesOf(b)[i].block = b /\ (TilesOf(b)[i].last <=> i = k)
  <2>1. TilesOf(b)[i] = [block |-> b, last |-> i = k]
    BY Zenon DEF TilesOf
  <2>2. [block |-> b, last |-> i = k].block = b
    OBVIOUS
  <2>3. [block |-> b, last |-> i = k].last = (i = k)
    OBVIOUS
  <2> QED
    BY <2>1, <2>2, <2>3, Zenon
<1>4. /\ row \in Seq(TileTypes) /\ Len(row) = n + k
      /\ \A i \in 1..(n + k) : row[i] = IF i <= n THEN Tiles[i] ELSE TilesOf(b)[i - n]
  <2>1. /\ row \in Seq(TileTypes) /\ Len(row) = n + Len(TilesOf(b))
        /\ \A i \in 1..(n + Len(TilesOf(b))) : row[i] = IF i <= n THEN Tiles[i] ELSE TilesOf(b)[i - n]
    BY <1>1, <1>2, ConcatProperties, Zenon
  <2> QED
    BY <1>2, <2>1, Zenon
<1>5. \A i \in 1..n : row[i] = Tiles[i]
  <2>1. \A i \in 1..n : i \in 1..(n + k) /\ i <= n
    BY <1>1
  <2> QED
    BY <1>4, <2>1
<1>6. ASSUME NEW i \in (n + 1)..(n + k) PROVE row[i].block = b /\ (row[i].last <=> i = n + k)
  <2>1. i \in 1..(n + k) /\ ~(i <= n) /\ i - n \in 1..k /\ (i - n = k <=> i = n + k)
    BY <1>1
  <2>2. row[i] = TilesOf(b)[i - n]
    BY <1>4, <2>1
  <2> QED
    BY <1>3, <2>1, <2>2, Zenon
<1> QED
  BY <1>4, <1>5, <1>6

\* A call takes a block among those gone past and not announced.
LEMMA AicCallInv ==
    ASSUME ShapeInv, AicInv, AicCall
    PROVE  AicInv' /\ Announced' = Announced
<1> DEFINE b == BlockOf(aicAt)
           k == KTiles(b)
           n == Len(Tiles)
           row == Tiles \o TilesOf(b)
<1>1. /\ due = <<>> /\ AtBlock(aicAt) /\ aicAt' = NextBlock(aicAt)
      /\ UNCHANGED shape /\ UNCHANGED <<fixQueue, stored>>
  BY DEF AicCall, Free, fixVars
<1>2. QueueTypes /\ InOrder /\ AtInv(aicAt) /\ Tiles = held /\ n \in Nat
  BY <1>1, NothingDue, TilesType DEF AicInv
<1>3. /\ b \in Blocks /\ k \in Nat /\ b \notin Passed(aicAt)
      /\ \A c \in Work(aicAt) : Less(c, b)
      /\ Work(NextBlock(aicAt)) = Work(aicAt) \cup (IF k > 0 THEN {b} ELSE {})
      /\ AtInv(NextBlock(aicAt))
  BY <1>1, <1>2, NextBlockWork, NextBlockAt, WorkTypes
<1>4. /\ row \in Seq(TileTypes) /\ Len(row) = n + k
      /\ \A i \in 1..n : row[i] = Tiles[i]
      /\ \A i \in (n + 1)..(n + k) : row[i].block = b /\ (row[i].last <=> i = n + k)
  BY <1>2, <1>3, TilesJoin
<1>5. QueueTypes' /\ Tiles' = row
  <2>1. PICK m \in 0..Len(row) : due' = SubSeq(row, 1, m) /\ held' = SubSeq(row, m + 1, Len(row))
    <3> DEFINE m == IF Len(row) > PreloadStages THEN Len(row) - PreloadStages ELSE 0
    <3>1. m \in 0..Len(row)
      BY <1>2, <1>3, <1>4, PreloadAssumption
    <3>2. due' = SubSeq(row, 1, m) /\ held' = SubSeq(row, m + 1, Len(row))
      BY <1>2 DEF AicCall
    <3> QED
      BY <3>1, <3>2
  <2>2. due' \in Seq(TileTypes) /\ held' \in Seq(TileTypes) /\ due' \o held' = row
    <3>1. row \in Seq(TileTypes)
      BY <1>4
    <3> HIDE DEF row
    <3> QED
      BY <2>1, <3>1, CutTogether
  <2> QED
    BY <1>1, <1>2, <2>2 DEF QueueTypes, TileTypes, Tiles
<1>6. /\ Work(aicAt)' = Work(aicAt) \cup (IF k > 0 THEN {b} ELSE {}) /\ AtInv(aicAt)'
      /\ InFix' = InFix
  BY <1>1, <1>3, SameShape DEF InFix
<1>7. \A i \in 1..(n + k) : i \in 1..n \/ (i \in (n + 1)..(n + k) /\ k > 0)
  BY <1>2, <1>3
<1>8. InTiles' = InTiles \cup (IF k > 0 THEN {b} ELSE {})
  <2>1. ASSUME NEW c \in InTiles PROVE c \in InTiles'
    <3>1. PICK i \in 1..n : Tiles[i].last /\ Tiles[i].block = c
      BY <2>1, InTilesIff
    <3>2. i \in 1..(n + k)
      BY <1>2, <1>3, <3>1
    <3> QED
      BY <1>4, <1>5, <3>1, <3>2 DEF InTiles
  <2>2. k > 0 => b \in InTiles'
    <3>1. k > 0 => n + k \in (n + 1)..(n + k) /\ n + k \in 1..(n + k)
      BY <1>2, <1>3
    <3> QED
      BY <1>4, <1>5, <3>1 DEF InTiles
  <2>3. ASSUME NEW c \in InTiles' PROVE c \in InTiles \/ (k > 0 /\ c = b)
    <3>1. PICK i \in 1..(n + k) : row[i].last /\ row[i].block = c
      BY <1>4, <1>5, <2>3 DEF InTiles
    <3>2. CASE i \in 1..n
      BY <1>4, <3>1, <3>2, InTilesIff
    <3>3. CASE i \in (n + 1)..(n + k) /\ k > 0
      BY <1>4, <3>1, <3>3
    <3> QED
      BY <1>7, <3>2, <3>3
  <2> QED
    BY <2>1, <2>2, <2>3
<1>9. b \notin Work(aicAt)
  BY <1>3 DEF Work
<1>10. Announced' = Announced
  BY <1>6, <1>8, <1>9 DEF Announced
<1>11. InOrder'
  <2>1. InFix' \subseteq Work(aicAt)'
    BY <1>2, <1>6 DEF InOrder
  <2>2. ASSUME NEW i \in 1..Len(Tiles)'
        PROVE  \/ i \in 1..n /\ Tiles'[i] = Tiles[i] /\ Tiles[i].block \in Work(aicAt)
               \/ i \in (n + 1)..(n + k) /\ Tiles'[i].block = b /\ (Tiles'[i].last <=> i = n + k) /\ k > 0
    BY <1>2, <1>4, <1>5, <1>7 DEF InOrder
  <2>3. \A i \in 1..Len(Tiles)' : Tiles'[i].block \in Work(aicAt)'
    BY <1>6, <2>2
  <2>4. ASSUME NEW c \in InFix', NEW j \in 1..Len(Tiles)' PROVE Less(c, Tiles'[j].block)
    <3>1. CASE j \in 1..n /\ Tiles'[j] = Tiles[j]
      BY <1>2, <1>6, <3>1 DEF InOrder
    <3>2. CASE Tiles'[j].block = b
      BY <1>2, <1>3, <1>6, <3>2 DEF InOrder
    <3> QED
      BY <2>2, <3>1, <3>2
  <2>5. ASSUME NEW i \in 1..Len(Tiles)', NEW j \in 1..Len(Tiles)', i < j
        PROVE  \/ Less(Tiles'[i].block, Tiles'[j].block)
               \/ ~Tiles'[i].last /\ Tiles'[i].block = Tiles'[j].block
    <3>1. CASE j \in 1..n /\ Tiles'[j] = Tiles[j]
      <4>1. i \in 1..n /\ Tiles'[i] = Tiles[i]
        BY <1>2, <1>4, <1>5, <1>7, <2>5, <3>1
      <4>2. \/ Less(Tiles[i].block, Tiles[j].block)
            \/ ~Tiles[i].last /\ Tiles[i].block = Tiles[j].block
        BY <1>2, <2>5, <3>1, <4>1 DEF InOrder
      <4> QED
        BY <3>1, <4>1, <4>2
    <3>2. CASE j \in (n + 1)..(n + k) /\ Tiles'[j].block = b
      <4>1. CASE Tiles'[i] = Tiles[i] /\ Tiles[i].block \in Work(aicAt)
        BY <1>3, <3>2, <4>1
      <4>2. CASE i \in (n + 1)..(n + k) /\ Tiles'[i].block = b /\ (Tiles'[i].last <=> i = n + k)
        <5>1. i # n + k
          BY <1>2, <1>3, <2>5, <3>2, <4>2
        <5> QED
          BY <3>2, <4>2, <5>1
      <4> QED
        BY <2>2, <4>1, <4>2
    <3> QED
      BY <2>2, <3>1, <3>2
  <2>6. ASSUME NEW a \in Announced', NEW c \in InFix' \cup InTiles' PROVE Less(a, c)
    <3>1. a \in Announced /\ a \in Work(aicAt)
      BY <1>10 DEF Announced
    <3>2. CASE c \in InFix \cup InTiles
      BY <1>2, <3>1, <3>2 DEF InOrder
    <3>3. CASE c = b
      BY <1>3, <3>1, <3>3
    <3> QED
      BY <1>6, <1>8, <3>2, <3>3
  <2> QED
    BY <2>1, <2>3, <2>4, <2>5, <2>6, <1>1, <1>2 DEF InOrder
<1> QED
  BY <1>1, <1>5, <1>6, <1>10, <1>11 DEF AicInv
-----------------------------------------------------------------------------
(* The steps of the AIVs. *)

\* Neither the AIV nor the announcements have moved.
LEMMA AivSame ==
    ASSUME UNCHANGED shape, NEW v \in AIV, AivInv(v), Announced' = Announced,
           aivPc'[v] = aivPc[v], aivAt'[v] = aivAt[v], output'[v] = output[v],
           finishStore'[v] = finishStore[v]
    PROVE  AivInv(v)'
<1>1. /\ AtInv(aivAt[v])' = AtInv(aivAt[v]) /\ Passed(aivAt[v])' = Passed(aivAt[v])
      /\ Work(aivAt[v])' = Work(aivAt[v]) /\ AtBlock(aivAt[v])' = AtBlock(aivAt[v])
      /\ GroupsLeft(aivAt[v])' = GroupsLeft(aivAt[v]) /\ BlockOf(aivAt[v])' = BlockOf(aivAt[v])
      /\ KTiles(BlockOf(aivAt[v]))' = KTiles(BlockOf(aivAt[v]))
  BY SameShape DEF BlockOf
<1>2. Waited(v)' = Waited(v)
  BY <1>1 DEF Waited
<1>3. \A b : KTiles(b)' = KTiles(b)
  BY SameShape
<1> QED
  BY <1>1, <1>2, <1>3 DEF AivInv

\* The flag is set for one block more.
LEMMA AivAnnounced ==
    ASSUME ShapeInv, AicInv, AivTypes, FlagInv, FixSetFlag, NEW v \in AIV, AivInv(v)
    PROVE  AivInv(v)'
<1> DEFINE b == Head(fixQueue)
<1>1. /\ b \notin Announced /\ Announced' = Announced \cup {b} /\ IsFiniteSet(Announced)
  BY FixSetFlagInv DEF AicInv
<1>2. /\ UNCHANGED <<aivPc, aivAt, output>> /\ UNCHANGED shape
      /\ finishStore'[v] = finishStore[v] + 1
  BY DEF FixSetFlag, aivVars, SetByAic
<1>3. /\ AtInv(aivAt[v])' = AtInv(aivAt[v]) /\ Passed(aivAt[v])' = Passed(aivAt[v])
      /\ Work(aivAt[v])' = Work(aivAt[v]) /\ AtBlock(aivAt[v])' = AtBlock(aivAt[v])
      /\ GroupsLeft(aivAt[v])' = GroupsLeft(aivAt[v]) /\ BlockOf(aivAt[v])' = BlockOf(aivAt[v])
      /\ KTiles(BlockOf(aivAt[v]))' = KTiles(BlockOf(aivAt[v]))
  BY <1>2, SameShape DEF BlockOf
<1>4. Waited(v)' = Waited(v)
  BY <1>2, <1>3 DEF Waited
<1>5. Waited(v) \subseteq Announced /\ finishStore[v] = Cardinality(Announced \ Waited(v))
  BY DEF AivInv
<1>6. finishStore'[v] = Cardinality(Announced' \ Waited(v)')
  <2>1. /\ b \notin Announced \ Waited(v)
        /\ Announced' \ Waited(v) = (Announced \ Waited(v)) \cup {b}
    BY <1>1, <1>5
  <2>2. IsFiniteSet(Announced \ Waited(v))
    BY <1>1, FS_Difference
  <2>3. Cardinality(Announced' \ Waited(v)) = Cardinality(Announced \ Waited(v)) + 1
    BY <2>1, <2>2, FS_AddElement
  <2> QED
    BY <1>2, <1>4, <1>5, <2>3
<1>7. \A c : KTiles(c)' = KTiles(c)
  BY <1>2, SameShape
<1>8. output'[v] = {<<c, IF KTiles(c)' = 0 THEN "zero" ELSE "product">> : c \in Passed(aivAt[v])'}
  BY <1>2, <1>3, <1>7 DEF AivInv
<1> QED
  BY <1>1, <1>2, <1>3, <1>4, <1>5, <1>6, <1>8 DEF AivInv

\* The block an AIV comes to when its flag is raised has been announced: the
\* announcements are the beginning of the order, as what the AIV has gone past is.
LEMMA RaisedForBlock ==
    ASSUME ShapeInv, AicInv, NEW v \in AIV, AivInv(v), aivPc[v] = "loop",
           AtBlock(aivAt[v]), KTiles(BlockOf(aivAt[v])) > 0, finishStore[v] > 0
    PROVE  BlockOf(aivAt[v]) \in Announced /\ BlockOf(aivAt[v]) \notin Waited(v)
<1> DEFINE at == aivAt[v]
           b == BlockOf(at)
<1>1. /\ AtInv(at) /\ Waited(v) = Work(at) /\ finishStore[v] = Cardinality(Announced \ Waited(v))
  BY DEF AivInv, Waited
<1>2. /\ b \in Dealt /\ b \in Blocks /\ b \notin Passed(at)
  BY <1>1, NextBlockWork
<1>3. PICK x \in Announced : x \notin Work(at)
  <2>1. Cardinality({}) = 0
    BY FS_EmptySet
  <2>2. Announced \ Waited(v) # {}
    BY <1>1, <2>1
  <2> QED
    BY <1>1, <2>2
<1>4. /\ x \in Work(aicAt) /\ x \in Passed(aicAt) /\ x \in Dealt /\ x \in Blocks /\ x \notin Passed(at)
  BY <1>3, WorkTypes DEF Announced, Work
<1>5. x = b \/ Less(b, x)
  BY <1>1, <1>4, NotPassed
<1>6. b \in Announced
  <2>1. CASE x = b
    BY <1>3, <2>1
  <2>2. CASE Less(b, x)
    <3>1. AtInv(aicAt) /\ InOrder
      BY DEF AicInv
    <3>2. b \in Work(aicAt)
      BY <1>2, <1>4, <2>2, <3>1, PassedDown DEF Work
    <3>3. b \notin InFix \cup InTiles
      <4>1. ~(Less(x, b) /\ Less(b, x))
        BY <1>2, <1>4, LessOrder
      <4> QED
        BY <1>3, <2>2, <3>1, <4>1 DEF InOrder
    <3> QED
      BY <3>2, <3>3 DEF Announced
  <2> QED
    BY <1>5, <2>1, <2>2
<1> QED
  BY <1>1, <1>2, <1>6 DEF Work

\* A step of an AIV that leaves the AIC and its PIPE_FIX alone.
LEMMA AicStill ==
    ASSUME ShapeInv, AicInv, UNCHANGED shape, UNCHANGED aicVars, UNCHANGED fixVars
    PROVE  AicInv' /\ Announced' = Announced
<1>1. UNCHANGED <<aicAt, held, due, fixQueue, stored>>
  BY DEF aicVars, fixVars
<1>2. QueueTypes' /\ Tiles' = Tiles
  BY <1>1 DEF AicInv, QueueTypes, Tiles
<1>3. AtInv(aicAt)' /\ Work(aicAt)' = Work(aicAt)
  BY SameShape, <1>1 DEF AicInv
<1> QED
  BY <1>1, <1>2, <1>3, AicSame

\* The wait takes the announcement of the block the AIV has come to.
LEMMA AivWaitInv ==
    ASSUME ShapeInv, AicInv, AivTypes, FlagInv, NEW v \in AIV, AivInv(v), AivWait(v)
    PROVE  AivInv(v)'
<1> DEFINE at == aivAt[v]
           b == BlockOf(at)
<1>1. /\ aivPc[v] = "loop" /\ aivPc'[v] = "epilogue" /\ AtBlock(at) /\ KTiles(b) > 0
      /\ finishStore[v] > 0 /\ finishStore'[v] = finishStore[v] - 1
      /\ UNCHANGED <<aivAt, output>> /\ UNCHANGED shape /\ UNCHANGED aicVars /\ UNCHANGED fixVars
  BY DEF AivWait, RaisedForAiv, WaitedByAiv, AivTypes, FlagInv, FlagTypes
<1>2. Announced' = Announced
  BY <1>1, AicStill
<1>3. b \in Announced /\ b \notin Waited(v)
  BY <1>1, RaisedForBlock
<1>4. /\ AtInv(at)' = AtInv(at) /\ Passed(at)' = Passed(at) /\ Work(at)' = Work(at)
      /\ AtBlock(at)' = AtBlock(at) /\ KTiles(b)' = KTiles(b) /\ b' = b
  BY <1>1, SameShape DEF BlockOf
<1>5. Waited(v)' = Waited(v) \cup {b}
  BY <1>1, <1>4 DEF Waited
<1>6. finishStore'[v] = Cardinality(Announced' \ Waited(v)')
  <2>1. /\ b \in Announced \ Waited(v)
        /\ Announced' \ Waited(v)' = (Announced \ Waited(v)) \ {b}
    BY <1>2, <1>3, <1>5
  <2>2. IsFiniteSet(Announced \ Waited(v))
    BY FS_Difference DEF AicInv
  <2>3. Cardinality((Announced \ Waited(v)) \ {b}) = Cardinality(Announced \ Waited(v)) - 1
    BY <2>1, <2>2, FS_RemoveElement
  <2> QED
    BY <1>1, <2>1, <2>3 DEF AivInv
<1>7. output'[v] = {<<c, IF KTiles(c)' = 0 THEN "zero" ELSE "product">> : c \in Passed(at)'}
  BY <1>1, <1>4, SameShape DEF AivInv
<1>8. AtInv(at)' /\ Waited(v)' \subseteq Announced'
  BY <1>2, <1>3, <1>4, <1>5 DEF AivInv
<1> QED
  BY <1>1, <1>4, <1>6, <1>7, <1>8 DEF AivInv

\* A block gone past joins the output.
LEMMA AivWritesInv ==
    ASSUME ShapeInv, AivTypes, UNCHANGED shape, NEW v \in AIV, AivInv(v), AtBlock(aivAt[v]),
           NEW what, what = (IF KTiles(BlockOf(aivAt[v])) = 0 THEN "zero" ELSE "product"),
           Writes(v, what)
    PROVE  /\ AtInv(aivAt[v])'
           /\ output'[v] = {<<b, IF KTiles(b)' = 0 THEN "zero" ELSE "product">> : b \in Passed(aivAt[v])'}
           /\ Work(aivAt[v])' = Work(aivAt[v])
                 \cup (IF KTiles(BlockOf(aivAt[v])) > 0 THEN {BlockOf(aivAt[v])} ELSE {})
<1> DEFINE at == aivAt[v]
           b == BlockOf(at)
           Entries(S) == {<<c, IF KTiles(c) = 0 THEN "zero" ELSE "product">> : c \in S}
<1>1. /\ AtInv(at) /\ output[v] = Entries(Passed(at))
  BY DEF AivInv
<1>2. aivAt'[v] = NextBlock(at) /\ output'[v] = output[v] \cup {<<b, what>>}
  BY DEF Writes, AivTypes
<1>3. /\ AtInv(NextBlock(at)) /\ Passed(NextBlock(at)) = Passed(at) \cup {b}
      /\ Work(NextBlock(at)) = Work(at) \cup (IF KTiles(b) > 0 THEN {b} ELSE {})
  BY <1>1, NextBlockAt, NextBlockWork
<1>4. /\ AtInv(aivAt[v])' = AtInv(NextBlock(at)) /\ Passed(aivAt[v])' = Passed(NextBlock(at))
      /\ Work(aivAt[v])' = Work(NextBlock(at)) /\ \A c : KTiles(c)' = KTiles(c)
  BY <1>2, SameShape
<1>5. Entries(Passed(at) \cup {b}) = Entries(Passed(at)) \cup {<<b, what>>}
  OBVIOUS
<1>6. output'[v] = Entries(Passed(NextBlock(at)))
  BY <1>1, <1>2, <1>3, <1>5, Zenon
<1>7. {<<c, IF KTiles(c)' = 0 THEN "zero" ELSE "product">> : c \in Passed(aivAt[v])'} = Entries(Passed(NextBlock(at)))
  BY <1>4
<1> QED
  BY <1>3, <1>4, <1>6, <1>7

LEMMA AivZeroInv ==
    ASSUME ShapeInv, AicInv, AivTypes, FlagInv, NEW v \in AIV, AivInv(v), AivZero(v)
    PROVE  AivInv(v)'
<1>1. /\ aivPc[v] = "loop" /\ AtBlock(aivAt[v]) /\ KTiles(BlockOf(aivAt[v])) = 0 /\ Writes(v, "zero")
      /\ UNCHANGED <<finishStore, aivPc>> /\ UNCHANGED shape /\ UNCHANGED aicVars /\ UNCHANGED fixVars
  BY DEF AivZero
<1>2. Announced' = Announced
  BY <1>1, AicStill
<1>3. /\ AtInv(aivAt[v])'
      /\ output'[v] = {<<b, IF KTiles(b)' = 0 THEN "zero" ELSE "product">> : b \in Passed(aivAt[v])'}
      /\ Work(aivAt[v])' = Work(aivAt[v])
  <2> DEFINE b == BlockOf(aivAt[v])
  <2>1. "zero" = (IF KTiles(b) = 0 THEN "zero" ELSE "product")
    BY <1>1
  <2>2. (IF KTiles(b) > 0 THEN {b} ELSE {}) = {}
    BY <1>1
  <2>3. /\ AtInv(aivAt[v])'
        /\ output'[v] = {<<c, IF KTiles(c)' = 0 THEN "zero" ELSE "product">> : c \in Passed(aivAt[v])'}
        /\ Work(aivAt[v])' = Work(aivAt[v]) \cup (IF KTiles(b) > 0 THEN {b} ELSE {})
    BY <1>1, <2>1, AivWritesInv
  <2> QED
    BY <2>2, <2>3
<1>4. Waited(v)' = Waited(v)
  BY <1>1, <1>3 DEF Waited
<1> QED
  BY <1>1, <1>2, <1>3, <1>4 DEF AivInv

LEMMA AivEpilogueInv ==
    ASSUME ShapeInv, AicInv, AivTypes, FlagInv, NEW v \in AIV, AivInv(v), AivEpilogue(v)
    PROVE  AivInv(v)'
<1> DEFINE b == BlockOf(aivAt[v])
<1>1. /\ aivPc[v] = "epilogue" /\ aivPc'[v] = "loop" /\ Writes(v, IF b \in stored THEN "product" ELSE "stale")
      /\ UNCHANGED finishStore /\ UNCHANGED shape /\ UNCHANGED aicVars /\ UNCHANGED fixVars
  BY DEF AivEpilogue, AivTypes
<1>2. Announced' = Announced
  BY <1>1, AicStill
<1>3. AtBlock(aivAt[v]) /\ KTiles(b) > 0 /\ Waited(v) = Work(aivAt[v]) \cup {b}
  BY <1>1 DEF AivInv, Waited
<1>4. b \in stored /\ KTiles(b) # 0
  <2>1. b \in Announced
    BY <1>3 DEF AivInv
  <2>2. b \in Dealt
    BY <2>1, WorkTypes DEF Announced
  <2> QED
    BY <1>3, <2>1, <2>2, DealtTypes DEF AicInv
<1>5. /\ AtInv(aivAt[v])'
      /\ output'[v] = {<<c, IF KTiles(c)' = 0 THEN "zero" ELSE "product">> : c \in Passed(aivAt[v])'}
      /\ Work(aivAt[v])' = Work(aivAt[v]) \cup {b}
  <2>1. Writes(v, "product")
    BY <1>1, <1>4
  <2> QED
    BY <1>1, <1>3, <1>4, <2>1, AivWritesInv
<1>6. Waited(v)' = Waited(v)
  BY <1>1, <1>3, <1>5 DEF Waited
<1> QED
  BY <1>1, <1>2, <1>5, <1>6 DEF AivInv

LEMMA AivNextGroupInv ==
    ASSUME ShapeInv, AicInv, AivTypes, FlagInv, NEW v \in AIV, AivInv(v), AivNextGroup(v)
    PROVE  AivInv(v)'
<1> DEFINE at == aivAt[v]
<1>1. /\ aivPc[v] = "loop" /\ AtEndOfGroup(at) /\ aivAt'[v] = NextGroup(at)
      /\ UNCHANGED <<finishStore, aivPc, output>> /\ UNCHANGED shape
      /\ UNCHANGED aicVars /\ UNCHANGED fixVars
  BY DEF AivNextGroup, AivTypes
<1>2. Announced' = Announced
  BY <1>1, AicStill
<1>3. AtInv(NextGroup(at)) /\ Passed(NextGroup(at)) = Passed(at) /\ Work(NextGroup(at)) = Work(at)
  BY <1>1, NextGroupAt DEF AivInv, Work
<1>4. /\ AtInv(at)' = AtInv(NextGroup(at)) /\ Passed(at)' = Passed(NextGroup(at))
      /\ Work(at)' = Work(NextGroup(at)) /\ \A c : KTiles(c)' = KTiles(c)
  BY <1>1, SameShape
<1>5. Waited(v)' = Waited(v)
  BY <1>1, <1>3, <1>4 DEF Waited
<1>6. output'[v] = {<<c, IF KTiles(c)' = 0 THEN "zero" ELSE "product">> : c \in Passed(at)'}
  BY <1>1, <1>3, <1>4 DEF AivInv
<1> QED
  BY <1>1, <1>2, <1>3, <1>4, <1>5, <1>6 DEF AivInv

LEMMA AivFinishInv ==
    ASSUME ShapeInv, AicInv, AivTypes, FlagInv, NEW v \in AIV, AivInv(v), AivFinish(v)
    PROVE  AivInv(v)'
<1>1. /\ aivPc[v] = "loop" /\ aivPc'[v] = "done" /\ ~GroupsLeft(aivAt[v])
      /\ UNCHANGED <<finishStore, aivAt, output>> /\ UNCHANGED shape
      /\ UNCHANGED aicVars /\ UNCHANGED fixVars
  BY DEF AivFinish, AivTypes
<1>2. Announced' = Announced
  BY <1>1, AicStill
<1>3. /\ AtInv(aivAt[v])' = AtInv(aivAt[v]) /\ Passed(aivAt[v])' = Passed(aivAt[v])
      /\ Work(aivAt[v])' = Work(aivAt[v]) /\ GroupsLeft(aivAt[v])' = GroupsLeft(aivAt[v])
      /\ \A c : KTiles(c)' = KTiles(c)
  BY <1>1, SameShape
<1>4. Waited(v)' = Waited(v)
  BY <1>1, <1>3 DEF Waited
<1>5. output'[v] = {<<c, IF KTiles(c)' = 0 THEN "zero" ELSE "product">> : c \in Passed(aivAt[v])'}
  BY <1>1, <1>3 DEF AivInv
<1> QED
  BY <1>1, <1>2, <1>3, <1>4, <1>5 DEF AivInv
-----------------------------------------------------------------------------
(* All steps together. *)

LEMMA DealtInit == Init => DealtInv
<1> SUFFICES ASSUME Init PROVE DealtInv
  OBVIOUS
<1>1. /\ problem \in Problems /\ coreIdx \in 0..(coreNum - 1)
      /\ aicAt = AtGroup(1, 0) /\ held = <<>> /\ due = <<>> /\ fixQueue = <<>>
      /\ finishStore = [v \in AIV |-> 0]
      /\ aivPc = [v \in AIV |-> "loop"] /\ aivAt = [v \in AIV |-> AtGroup(1, 0)]
      /\ output = [v \in AIV |-> {}]
  BY DEF Init, Cleared
<1>2. ShapeInv
  BY <1>1 DEF ShapeInv
<1>3. AtInv(AtGroup(1, 0)) /\ Passed(AtGroup(1, 0)) = {} /\ Work(AtGroup(1, 0)) = {}
  <2>1. 1 \in 1..(Len(groups) + 1) /\ coreNum \in Nat \ {0} /\ 0 \in 0..(coreNum - 1)
    BY <1>2, ShapeTypes
  <2>2. 0 = BlocksBefore(1) % coreNum
    <3>1. (coreNum * 0 + 0) % coreNum = 0
      BY <2>1, ModOf
    <3>2. coreNum * 0 + 0 = 0
      BY <2>1
    <3> QED
      BY <3>1, <3>2, NoBlocksBefore
  <2>3. AtInv(AtGroup(1, 0)) /\ Passed(AtGroup(1, 0)) = {b \in Dealt : b[1] < 1}
    BY <1>2, <2>1, <2>2, BeginsAt
  <2>4. \A b \in Dealt : ~(b[1] < 1)
    BY <1>2, OfDealt
  <2> QED
    BY <2>3, <2>4 DEF Work
<1>4. QueueTypes /\ Tiles = <<>> /\ Len(Tiles) = 0 /\ Len(fixQueue) = 0
  <2>1. QueueTypes
    BY <1>1 DEF QueueTypes
  <2>2. Tiles = <<>>
    BY <1>1, <2>1, NothingDue
  <2> QED
    BY <1>1, <2>1, <2>2
<1>5. InFix = {} /\ InTiles = {} /\ Announced = {}
  BY <1>1, <1>3, <1>4 DEF InFix, InTiles, Announced
<1>6. AicInv
  <2>1. InOrder
    BY <1>1, <1>4, <1>5 DEF InOrder
  <2>2. IsFiniteSet({})
    BY FS_EmptySet
  <2> QED
    BY <1>1, <1>3, <1>4, <1>5, <2>1, <2>2 DEF AicInv
<1>7. AivTypes
  BY <1>1 DEF AivTypes
<1>8. ASSUME NEW v \in AIV PROVE AivInv(v)
  <2>1. aivPc[v] = "loop" /\ aivAt[v] = AtGroup(1, 0) /\ output[v] = {} /\ finishStore[v] = 0
    BY <1>1
  <2>2. Waited(v) = {}
    BY <1>3, <2>1 DEF Waited
  <2>3. finishStore[v] = Cardinality(Announced \ Waited(v))
    BY <1>5, <2>1, <2>2, FS_EmptySet
  <2> QED
    BY <1>3, <1>5, <2>1, <2>2, <2>3 DEF AivInv
<1> QED
  BY <1>2, <1>6, <1>7, <1>8 DEF DealtInv

\* The AIC loads, multiplies, queues or waits: nothing is announced.
LEMMA AicStep ==
    ASSUME DealtInv, AicNext \/ FixStore
    PROVE  AicInv' /\ Announced' = Announced /\ UNCHANGED <<shape, finishStore, aivPc, aivAt, output>>
<1>1. ShapeInv /\ AicInv
  BY DEF DealtInv
<1>2. CASE AicCall
  BY <1>1, <1>2, AicCallInv DEF AicCall, aivVars
<1>3. CASE AicNextGroup
  BY <1>1, <1>3, AicNextGroupInv DEF AicNextGroup, aivVars
<1>4. CASE AicMultiply
  BY <1>1, <1>4, AicMultiplyInv DEF AicMultiply, aivVars
<1>5. CASE AicStore
  BY <1>1, <1>5, AicStoreInv DEF AicStore, aivVars
<1>6. CASE AicWaitReverse
  <2>1. /\ UNCHANGED <<aicAt, held, due, fixQueue, stored>> /\ UNCHANGED shape
        /\ UNCHANGED <<finishStore, aivPc, aivAt, output>>
    BY <1>6 DEF AicWaitReverse, fixVars, aivVars
  <2>2. QueueTypes' /\ Tiles' = Tiles
    BY <1>1, <2>1 DEF AicInv, QueueTypes, Tiles
  <2>3. AtInv(aicAt)' /\ Work(aicAt)' = Work(aicAt)
    BY <1>1, <2>1, SameShape DEF AicInv
  <2> QED
    BY <1>1, <2>1, <2>2, <2>3, AicSame
<1>7. CASE AicSynchronizeBlock
  BY <1>1, <1>7, AicSynchronizeBlockInv DEF AicSynchronizeBlock, aivVars
<1>8. CASE AicFinish
  <2>1. /\ UNCHANGED <<aicAt, held, due, fixQueue, stored>> /\ UNCHANGED shape
        /\ UNCHANGED <<finishStore, aivPc, aivAt, output>>
    BY <1>8 DEF AicFinish, fixVars, aivVars
  <2>2. QueueTypes' /\ Tiles' = Tiles
    BY <1>1, <2>1 DEF AicInv, QueueTypes, Tiles
  <2>3. AtInv(aicAt)' /\ Work(aicAt)' = Work(aicAt)
    BY <1>1, <2>1, SameShape DEF AicInv
  <2> QED
    BY <1>1, <2>1, <2>2, <2>3, AicSame
<1>9. CASE FixStore
  BY <1>1, <1>9, FixStoreInv DEF FixStore, aivVars
<1> QED
  BY <1>2, <1>3, <1>4, <1>5, <1>6, <1>7, <1>8, <1>9 DEF AicNext

\* A step of AIV v, and the other AIVs.
LEMMA AivStep ==
    ASSUME DealtInv, FlagInv, NEW v \in AIV, AivNext(v)
    PROVE  DealtInv'
<1>1. ShapeInv /\ AicInv /\ AivTypes /\ \A w \in AIV : AivInv(w)
  BY DEF DealtInv
<1>2. UNCHANGED shape /\ UNCHANGED aicVars /\ UNCHANGED fixVars
  BY DEF AivNext, AivZero, AivWait, AivEpilogue, AivNextGroup, AivFinish
<1>3. AicInv' /\ Announced' = Announced /\ ShapeInv'
  BY <1>1, <1>2, AicStill, SameShape
<1>4. AivInv(v)'
  BY <1>1, AivZeroInv, AivWaitInv, AivEpilogueInv, AivNextGroupInv, AivFinishInv DEF AivNext
<1>5. /\ AivTypes'
      /\ \A w \in AIV \ {v} :
            /\ aivPc'[w] = aivPc[w] /\ aivAt'[w] = aivAt[w] /\ output'[w] = output[w]
            /\ finishStore'[w] = finishStore[w]
  <2>1. CASE AivZero(v)
    BY <1>1, <2>1 DEF AivZero, Writes, AivTypes
  <2>2. CASE AivWait(v)
    BY <1>1, <2>2 DEF AivWait, WaitedByAiv, AivTypes, FlagInv, FlagTypes
  <2>3. CASE AivEpilogue(v)
    BY <1>1, <2>3 DEF AivEpilogue, Writes, AivTypes
  <2>4. CASE AivNextGroup(v)
    BY <1>1, <2>4 DEF AivNextGroup, AivTypes
  <2>5. CASE AivFinish(v)
    BY <1>1, <2>5 DEF AivFinish, AivTypes
  <2> QED
    BY <2>1, <2>2, <2>3, <2>4, <2>5 DEF AivNext
<1>6. ASSUME NEW w \in AIV \ {v} PROVE AivInv(w)'
  BY <1>1, <1>2, <1>3, <1>5, AivSame
<1> QED
  BY <1>3, <1>4, <1>5, <1>6 DEF DealtInv

LEMMA DealtNext == FlagInv /\ DealtInv /\ [Next]_vars => DealtInv'
<1> SUFFICES ASSUME FlagInv, DealtInv, [Next]_vars PROVE DealtInv'
  OBVIOUS
<1>1. ShapeInv /\ AicInv /\ AivTypes /\ \A v \in AIV : AivInv(v)
  BY DEF DealtInv
\* Whatever leaves the announcements and the AIVs alone.
<1>2. ASSUME AicInv', Announced' = Announced, UNCHANGED shape,
             UNCHANGED <<finishStore, aivPc, aivAt, output>>
      PROVE  DealtInv'
  <2>1. ShapeInv' /\ AivTypes'
    BY <1>1, <1>2, SameShape DEF AivTypes
  <2>2. ASSUME NEW v \in AIV PROVE AivInv(v)'
    BY <1>1, <1>2, AivSame
  <2> QED
    BY <1>2, <2>1, <2>2 DEF DealtInv
<1>3. CASE AicNext \/ FixStore
  BY <1>2, <1>3, AicStep
<1>4. CASE FixSetFlag
  <2>1. AicInv' /\ \A v \in AIV : AivInv(v)'
    BY <1>1, <1>4, FixSetFlagInv, AivAnnounced
  <2>2. UNCHANGED shape /\ UNCHANGED <<aivPc, aivAt, output>>
    BY <1>4 DEF FixSetFlag, aivVars
  <2>3. ShapeInv' /\ AivTypes'
    BY <1>1, <2>2, SameShape DEF AivTypes
  <2> QED
    BY <2>1, <2>3 DEF DealtInv
<1>5. ASSUME NEW v \in AIV, AivNext(v) PROVE DealtInv'
  BY <1>5, AivStep
<1>6. ASSUME NEW v \in AIV, Mte3SetReverse(v) PROVE DealtInv'
  <2>1. /\ UNCHANGED shape /\ UNCHANGED aicVars /\ UNCHANGED fixVars
        /\ UNCHANGED <<finishStore, aivPc, aivAt, output>>
    BY <1>6 DEF Mte3SetReverse, aivVars
  <2> QED
    BY <1>1, <1>2, <2>1, AicStill
<1>7. CASE UNCHANGED vars
  <2>1. /\ UNCHANGED shape /\ UNCHANGED aicVars /\ UNCHANGED fixVars
        /\ UNCHANGED <<finishStore, aivPc, aivAt, output>>
    BY <1>7 DEF vars, aivVars
  <2> QED
    BY <1>1, <1>2, <2>1, AicStill
<1> QED
  BY <1>3, <1>4, <1>5, <1>6, <1>7 DEF Next, FixNext, Terminated

\* A loop that has no group left has gone past every block of the core.
LEMMA AllPassed ==
    ASSUME ShapeInv, NEW at, AtInv(at), ~GroupsLeft(at)
    PROVE  Passed(at) = Dealt
<1>1. \A b \in Dealt : b[1] \in 1..Len(groups)
  BY OfDealt
<1>2. \A b \in Dealt : b[1] < at.groupIdx
  BY <1>1, ShapeTypes DEF AtInv, GroupsLeft
<1> QED
  BY <1>2 DEF Passed

(* What the AIC has announced is the beginning of the order in which both  *)
(* sides go through the blocks, and what an AIV has written is as much of  *)
(* it as it has waited for, in every state.                                *)
THEOREM DealtInvariance == Spec => []DealtInv
<1>1. FlagInv /\ DealtInv /\ [Next]_vars => DealtInv'
  BY DealtNext
<1> QED
  BY DealtInit, <1>1, RoundInvariance, PTL DEF Spec

(* For any groups and cores, each AIV ends with its blocks written once,   *)
(* every one with what belongs to it.                                      *)
THEOREM WrittenInTurn == Spec => []DealtInTurn
<1>1. DealtInv => DealtInTurn
  <2> SUFFICES ASSUME DealtInv, AllDone, NEW v \in AIV
               PROVE  output[v] = {<<b, IF KTiles(b) = 0 THEN "zero" ELSE "product">> : b \in Dealt}
    BY DEF DealtInTurn
  <2>1. ShapeInv /\ AivInv(v) /\ aivPc[v] = "done"
    BY DEF DealtInv, AllDone
  <2>2. Passed(aivAt[v]) = Dealt
    BY <2>1, AllPassed DEF AivInv
  <2> QED
    BY <2>1, <2>2 DEF AivInv
<1> QED
  BY <1>1, DealtInvariance, PTL
=============================================================================
