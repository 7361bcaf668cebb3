--------------------- MODULE MultiStageWorkspaceProofs ---------------------
(***************************************************************************)
(* Theorems about MultiStageWorkspace, for any set of AIVs, any number of  *)
(* blocks, stages and blocks held back.                                    *)
(***************************************************************************)
EXTENDS MultiStageWorkspace, TLAPS

USE LoopsAssumption, StagesAssumption, PreloadAssumption DEF Stage, Block

(* The counters of the AIC and of one AIV are numbers in their ranges.     *)
LEMMA Counters ==
    ASSUME TypeOK
    PROVE  /\ Loops \in Nat /\ Stages \in Nat /\ Stages > 0
           /\ enqueued \in Nat /\ enqueued <= Loops /\ issued \in Nat
           /\ stageId \in Nat /\ stageId < Stages /\ stageUsed \in Nat /\ stageUsed <= Stages
           /\ stored \in Nat /\ raised \in Nat
           /\ \A v \in AIV : /\ waited[v] \in Nat /\ loaded[v] \in Nat /\ released[v] \in Nat
                             /\ waited[v] <= Loops
  BY DEF TypeOK

(* The slots in use are those of at most Stages blocks.                    *)
LEMMA InUse ==
    ASSUME TypeOK, AicInv
    PROVE  /\ Reclaimed \in Nat /\ Reclaimed <= issued /\ issued <= Reclaimed + Stages
           /\ Reclaimed + Stages >= enqueued \/ aicPc = "loop"
  BY Counters DEF Reclaimed, AicInv

(* Two of the blocks in use that have the same stage are the same block.   *)
LEMMA Distinct ==
    ASSUME TypeOK, RingInv, NEW i \in Block, NEW j \in Block,
           i <= enqueued, j <= enqueued, i - j < Stages, j - i < Stages,
           stageOf[i] = stageOf[j]
    PROVE  i = j
<1>1. CASE i < j
  BY <1>1 DEF RingInv
<1>2. CASE j < i
  BY <1>2 DEF RingInv
<1> QED
  BY <1>1, <1>2

(* The initial state satisfies the inductive invariant.                    *)
LEMMA InitInv == Init => IInv
<1> SUFFICES ASSUME Init PROVE IInv
  OBVIOUS
<1> USE DEF Init
<1>1. TypeOK
  <2>1. takenFrom \in [AIV -> [Block -> Stage]]
    OBVIOUS
  <2>2. finishStore \in [Stage -> [AIV -> Nat]] /\ finishCompute \in [Stage -> [AIV -> Nat]]
    BY DEF Cleared
  <2>3. /\ stageOf \in [Block -> Stage] /\ mustWait \in [Block -> BOOLEAN]
        /\ slot \in [Stage -> 0..Loops] /\ stageId \in Stage
    BY DEF Torn
  <2>4. /\ aivStage \in [AIV -> Stage] /\ waited \in [AIV -> 0..Loops] /\ loaded \in [AIV -> 0..Loops]
        /\ got \in [AIV -> 0..Loops] /\ released \in [AIV -> 0..Loops]
    BY DEF Torn
  <2>5. storing \in BOOLEAN
    OBVIOUS
  <2>6. /\ aicPc = "loop"
        /\ enqueued \in 0..Loops /\ issued \in 0..Loops /\ stageUsed \in 0..Stages
        /\ stored \in 0..Loops /\ raised \in 0..Loops
    OBVIOUS
  <2> HIDE DEF Init
  <2> QED
    BY <2>1, <2>2, <2>3, <2>4, <2>5, <2>6 DEF TypeOK
<1>2. RingInv
  BY DEF RingInv
<1>3. AicInv
  BY DEF AicInv
<1>4. Reclaimed = 0
  BY DEF Reclaimed
<1>5. SlotInv
  BY DEF SlotInv
<1>6. ASSUME NEW v \in AIV PROVE AivInv(v) /\ FlagInv(v)
  <2>1. AivInv(v)
    BY <1>4 DEF AivInv, Torn
  <2>2. ASSUME NEW s \in Stage PROVE finishStore[s][v] = 0 /\ finishCompute[s][v] = 0
    BY DEF Cleared
  <2>3. raised = 0 /\ released[v] = 0
    OBVIOUS
  <2>4. FlagInv(v)
    <3> HIDE DEF Init
    <3>1. \A i \in Block : ~(i <= raised) /\ ~(i <= released[v])
      BY <2>3
    <3> QED
      BY <2>2, <3>1 DEF FlagInv
  <2> HIDE DEF Init
  <2> QED
    BY <2>1, <2>4
<1> QED
  BY <1>1, <1>2, <1>3, <1>5, <1>6 DEF IInv
-----------------------------------------------------------------------------
(* One lemma per action: it preserves the inductive invariant.             *)

LEMMA AicLoopInv == IInv /\ AicLoop => IInv'
<1> SUFFICES ASSUME IInv, AicLoop PROVE IInv'
  OBVIOUS
<1>1. TypeOK /\ RingInv /\ AicInv /\ SlotInv
  BY DEF IInv
<1>2. /\ aicPc = "loop" /\ enqueued < Loops /\ enqueued' = enqueued + 1
      /\ enqueued + 1 \in Block
      /\ UNCHANGED <<aicPc, issued, storing, stored, raised, slot, finishStore, finishCompute,
                     aivStage, waited, takenFrom, loaded, got, released>>
  BY <1>1, Counters DEF AicLoop, fixVars, aivVars
<1>3. \A i \in Block : i <= enqueued => stageOf'[i] = stageOf[i] /\ mustWait'[i] = mustWait[i]
  BY <1>1, <1>2, Counters DEF AicLoop, TypeOK
<1>4. stageOf'[enqueued + 1] = stageId /\ mustWait'[enqueued + 1] = (stageUsed = Stages)
  BY <1>1, <1>2 DEF AicLoop, TypeOK
<1>5. stageId' = NextStage(stageId) /\ stageId' \in Stage
  BY <1>1 DEF AicLoop, NextStage, TypeOK
<1>6. stageUsed' = (IF stageUsed = Stages THEN stageUsed ELSE stageUsed + 1) /\ stageUsed' \in 0..Stages
  BY <1>1, Counters DEF AicLoop
<1>7. TypeOK'
  <2>1. stageOf' \in [Block -> Stage] /\ mustWait' \in [Block -> BOOLEAN]
    BY <1>1, <1>2 DEF AicLoop, TypeOK
  <2>2. enqueued' \in 0..Loops
    BY <1>1, <1>2, Counters
  <2> QED
    BY <1>1, <1>2, <1>5, <1>6, <2>1, <2>2 DEF TypeOK
<1>8. RingInv'
  <2>1. ASSUME NEW i \in Block, i <= enqueued + 1, enqueued + 1 - i < Stages
        PROVE  stageOf'[i] = StageBefore(i)'
    <3>1. CASE i = enqueued + 1
      <4>1. enqueued' - i + 1 = 1
        BY <1>1, <1>2, <3>1, Counters
      <4>2. StageBefore(i)' = IF stageId' >= 1 THEN stageId' - 1 ELSE stageId' + Stages - 1
        BY <4>1 DEF StageBefore
      <4> QED
        BY <1>1, <1>4, <1>5, <3>1, <4>2, Counters DEF NextStage
    <3>2. CASE i <= enqueued
      <4>1. stageOf'[i] = StageBefore(i)
        BY <1>1, <1>3, <2>1, <3>2, Counters DEF RingInv
      <4> QED
        <5> DEFINE back == enqueued - i + 1
        <5>1. back \in Nat /\ back + 1 <= Stages /\ enqueued' - i + 1 = back + 1
          BY <1>1, <1>2, <2>1, <3>2, Counters
        <5>2. stageOf'[i] = IF stageId >= back THEN stageId - back ELSE stageId + Stages - back
          BY <4>1 DEF StageBefore
        <5>3. StageBefore(i)' = IF stageId' >= back + 1 THEN stageId' - (back + 1)
                                ELSE stageId' + Stages - (back + 1)
          BY <5>1 DEF StageBefore
        <5> HIDE DEF back
        <5> QED
          BY <1>1, <1>5, <5>1, <5>2, <5>3, Counters DEF NextStage
    <3> QED
      BY <1>1, <2>1, <3>1, <3>2, Counters
  <2>2. ASSUME NEW i \in Block, NEW j \in Block, i < j, j <= enqueued + 1, j - i < Stages
        PROVE  stageOf'[i] # stageOf'[j]
    <3>1. CASE j <= enqueued
      BY <1>1, <1>3, <2>2, <3>1, Counters DEF RingInv
    <3>2. CASE j = enqueued + 1
      <4>1. stageOf'[i] = StageBefore(i)
        BY <1>1, <1>3, <2>2, <3>2, Counters DEF RingInv
      <4> QED
        BY <1>1, <1>4, <2>2, <3>2, <4>1, Counters DEF StageBefore
    <3> QED
      BY <1>1, <2>2, <3>1, <3>2, Counters
  <2>3. ASSUME NEW i \in Block, i < enqueued + 1
        PROVE  stageOf'[i + 1] = NextStage(stageOf'[i])
    BY <1>1, <1>2, <1>3, <1>4, <2>3, Counters DEF RingInv
  <2>4. stageOf'[1] = 0 /\ stageId' = NextStage(stageOf'[enqueued'])
    BY <1>1, <1>2, <1>3, <1>4, <1>5, Counters DEF RingInv
  <2> QED
    BY <1>1, <1>2, <2>1, <2>2, <2>3, <2>4, Counters DEF RingInv
<1>9. AicInv'
  <2>1. ASSUME NEW i \in Block, i <= enqueued + 1 PROVE mustWait'[i] <=> i > Stages
    <3>1. CASE i <= enqueued
      BY <1>1, <1>3, <3>1 DEF AicInv
    <3>2. CASE i = enqueued + 1
      <4>1. (stageUsed = Stages) <=> enqueued + 1 > Stages
        BY <1>1, <1>2, Counters DEF AicInv
      <4> QED
        BY <1>4, <3>2, <4>1
    <3> QED
      BY <1>1, <2>1, <3>1, <3>2, Counters
  <2>2. stageUsed' = IF enqueued' < Stages THEN enqueued' ELSE Stages
    BY <1>1, <1>2, <1>6, Counters DEF AicInv
  <2> QED
    BY <1>1, <1>2, <2>1, <2>2, Counters DEF AicInv
<1>10. Reclaimed' = Reclaimed
  BY <1>2 DEF Reclaimed
<1>11. SlotInv'
  BY <1>1, <1>2, <1>3, <1>10, Counters DEF SlotInv, AicInv
<1>12. ASSUME NEW v \in AIV PROVE AivInv(v)' /\ FlagInv(v)'
  <2>1. AivInv(v) /\ FlagInv(v)
    BY DEF IInv
  <2>2. AivInv(v)'
    BY <1>1, <1>2, <1>3, <1>4, <1>5, <1>10, <2>1, Counters DEF AivInv, AicInv, RingInv
  <2>3. FlagInv(v)'
    <3>1. \A i \in Block : i <= raised \/ i <= released[v] => stageOf'[i] = stageOf[i]
      BY <1>1, <1>3, <2>1, Counters DEF AivInv, AicInv
    <3>2. ASSUME NEW t \in Stage
          PROVE  /\ finishStore'[t][v] = IF \E i \in Block : waited[v] < i /\ i <= raised /\ stageOf'[i] = t
                                          THEN 1 ELSE 0
                 /\ finishCompute'[t][v] = IF \E i \in Block : Reclaimed < i /\ i <= released[v] /\ stageOf'[i] = t
                                            THEN 1 ELSE 0
      BY <1>2, <2>1, <3>1 DEF FlagInv
    <3> QED
      BY <1>2, <1>10, <3>2 DEF FlagInv
  <2> QED
    BY <2>2, <2>3
<1> QED
  BY <1>7, <1>8, <1>9, <1>11, <1>12 DEF IInv

(* A wait of the AIC on slot s, when s is no stage of the blocks in use    *)
(* but the oldest: every AIV has released that block, and the flag is down *)
(* afterwards.                                                             *)
LEMMA ReclaimOne ==
    ASSUME TypeOK, AicInv, NEW v \in AIV, AivInv(v), FlagInv(v),
           NEW s \in Stage, finishCompute[s][v] > 0,
           \A j \in Block : Reclaimed + 1 < j /\ j <= issued => stageOf[j] # s
    PROVE  /\ Reclaimed + 1 <= released[v]
           /\ finishCompute[s][v] = 1
           /\ \A t \in Stage :
                (IF t = s THEN 0 ELSE finishCompute[t][v])
                = IF \E j \in Block : Reclaimed + 1 < j /\ j <= released[v] /\ stageOf[j] = t
                  THEN 1 ELSE 0
<1>1. released[v] <= issued
  BY Counters DEF AivInv, AicInv
<1>2. finishCompute[s][v] = 1 /\ \E j \in Block : Reclaimed < j /\ j <= released[v] /\ stageOf[j] = s
  BY DEF FlagInv
<1>3. PICK j \in Block : Reclaimed < j /\ j <= released[v] /\ stageOf[j] = s
  BY <1>2
<1>4. j = Reclaimed + 1
  BY <1>1, <1>3, InUse, Counters
<1>5. ASSUME NEW t \in Stage
      PROVE (IF t = s THEN 0 ELSE finishCompute[t][v])
            = IF \E i \in Block : Reclaimed + 1 < i /\ i <= released[v] /\ stageOf[i] = t
              THEN 1 ELSE 0
  <2>1. CASE t = s
    <3>1. ~ \E i \in Block : Reclaimed + 1 < i /\ i <= released[v] /\ stageOf[i] = t
      BY <1>1, <2>1, InUse, Counters
    <3> QED
      BY <2>1, <3>1
  <2>2. CASE t # s
    <3>1. (\E i \in Block : Reclaimed < i /\ i <= released[v] /\ stageOf[i] = t)
          <=> (\E i \in Block : Reclaimed + 1 < i /\ i <= released[v] /\ stageOf[i] = t)
      BY <1>3, <1>4, <2>2, InUse, Counters
    <3> QED
      BY <2>2, <3>1 DEF FlagInv
  <2> QED
    BY <2>1, <2>2
<1> QED
  BY <1>2, <1>3, <1>4, <1>5

(* The same for a whole step: the flag is taken from every AIV.            *)
LEMMA ReclaimStep ==
    ASSUME IInv, NEW s \in Stage,
           RaisedForAic(finishCompute[s]),
           finishCompute' = [finishCompute EXCEPT ![s] = WaitedByAic(@)],
           \A j \in Block : Reclaimed + 1 < j /\ j <= issued => stageOf[j] # s
    PROVE  /\ finishCompute' \in [Stage -> [AIV -> Nat]]
           /\ \A v \in AIV : Reclaimed + 1 <= released[v]
           /\ \A v \in AIV : \A t \in Stage :
                finishCompute'[t][v] =
                    IF \E j \in Block : Reclaimed + 1 < j /\ j <= released[v] /\ stageOf[j] = t
                    THEN 1 ELSE 0
<1>1. TypeOK /\ RingInv /\ AicInv
  BY DEF IInv
<1>2. /\ \A v \in AIV : finishCompute[s][v] > 0
      /\ finishCompute' = [finishCompute EXCEPT ![s] = [v \in AIV |-> finishCompute[s][v] - 1]]
  BY DEF RaisedForAic, WaitedByAic
<1>3. ASSUME NEW v \in AIV
      PROVE  /\ Reclaimed + 1 <= released[v] /\ finishCompute[s][v] = 1
             /\ \A t \in Stage :
                  (IF t = s THEN 0 ELSE finishCompute[t][v])
                  = IF \E j \in Block : Reclaimed + 1 < j /\ j <= released[v] /\ stageOf[j] = t
                    THEN 1 ELSE 0
  <2>1. AivInv(v) /\ FlagInv(v)
    BY DEF IInv
  <2> QED
    BY <1>1, <1>2, <2>1, ReclaimOne
<1>4. finishCompute' \in [Stage -> [AIV -> Nat]]
  <2>1. [v \in AIV |-> finishCompute[s][v] - 1] \in [AIV -> Nat]
    BY <1>3
  <2> QED
    BY <1>1, <1>2, <2>1 DEF TypeOK
<1>5. ASSUME NEW v \in AIV, NEW t \in Stage
      PROVE  finishCompute'[t][v] = IF t = s THEN 0 ELSE finishCompute[t][v]
  BY <1>1, <1>2, <1>3 DEF TypeOK
<1> QED
  BY <1>3, <1>4, <1>5

LEMMA AicFixpipeInv == IInv /\ AicFixpipe => IInv'
<1> SUFFICES ASSUME IInv, AicFixpipe PROVE IInv'
  OBVIOUS
<1> DEFINE b == issued + 1
           s == stageOf[b]
<1>1. TypeOK /\ RingInv /\ AicInv /\ SlotInv
  BY DEF IInv
<1>2. /\ issued < enqueued /\ issued' = b
      /\ UNCHANGED <<aicPc, enqueued, stageId, stageUsed, stageOf, mustWait, storing, stored, raised, slot,
                     finishStore, aivStage, waited, takenFrom, loaded, got, released>>
  BY DEF AicFixpipe, kernelVars, fixVars, aivVars
<1>3. b \in Block /\ s \in Stage /\ b <= enqueued /\ aicPc = "loop"
  <2>1. b \in Block /\ b <= enqueued /\ aicPc = "loop"
    BY <1>1, <1>2, Counters DEF AicInv
  <2> QED
    BY <1>1, <2>1 DEF TypeOK
<1>4. RingInv'
  BY <1>1, <1>2 DEF RingInv, StageBefore
<1>5. AicInv'
  BY <1>1, <1>2, Counters DEF AicInv
<1>6. SUFFICES /\ finishCompute' \in [Stage -> [AIV -> Nat]]
               /\ Reclaimed <= Reclaimed' /\ Reclaimed' \in Nat
               /\ \A v \in AIV : Reclaimed' <= released[v]
               /\ \A v \in AIV : \A t \in Stage :
                    finishCompute'[t][v] =
                        IF \E j \in Block : Reclaimed' < j /\ j <= released[v] /\ stageOf[j] = t
                        THEN 1 ELSE 0
  <2>1. TypeOK'
    <3>1. issued' \in 0..Loops
      BY <1>2, <1>3
    <3> QED
      BY <1>1, <1>2, <1>6, <3>1 DEF TypeOK
  <2>2. SlotInv'
    BY <1>1, <1>2, <1>6, InUse, Counters DEF SlotInv
  <2>3. ASSUME NEW v \in AIV PROVE AivInv(v)' /\ FlagInv(v)'
    <3>1. AivInv(v) /\ FlagInv(v)
      BY DEF IInv
    <3>2. AivInv(v)'
      BY <1>2, <1>6, <3>1 DEF AivInv
    <3>3. FlagInv(v)'
      BY <1>2, <1>6, <3>1 DEF FlagInv
    <3> QED
      BY <3>2, <3>3
  <2> QED
    BY <1>4, <1>5, <2>1, <2>2, <2>3 DEF IInv
<1>7. CASE mustWait[b]
  <2>1. b > Stages /\ Reclaimed = issued - Stages /\ Reclaimed' = Reclaimed + 1
    BY <1>1, <1>2, <1>3, <1>7, Counters DEF AicInv, Reclaimed
  <2>2. RaisedForAic(finishCompute[s]) /\ finishCompute' = [finishCompute EXCEPT ![s] = WaitedByAic(@)]
    BY <1>2, <1>7 DEF AicFixpipe
  <2>3. \A j \in Block : Reclaimed + 1 < j /\ j <= issued => stageOf[j] # s
    <3> SUFFICES ASSUME NEW j \in Block, Reclaimed + 1 < j, j <= issued, stageOf[j] = s
                 PROVE  FALSE
      OBVIOUS
    <3>1. j <= enqueued /\ b - j < Stages /\ j - b < Stages /\ j # b
      BY <1>1, <1>2, <2>1, Counters
    <3> QED
      BY <1>1, <1>3, <3>1, Distinct
  <2> HIDE DEF s
  <2>4. /\ finishCompute' \in [Stage -> [AIV -> Nat]]
        /\ \A v \in AIV : Reclaimed + 1 <= released[v]
        /\ \A v \in AIV : \A t \in Stage :
             finishCompute'[t][v] =
                 IF \E j \in Block : Reclaimed + 1 < j /\ j <= released[v] /\ stageOf[j] = t
                 THEN 1 ELSE 0
    BY <1>3, <2>2, <2>3, ReclaimStep
  <2> QED
    BY <1>1, <2>1, <2>4, InUse
<1>8. CASE ~mustWait[b]
  <2>1. ~(b > Stages) /\ Reclaimed' = Reclaimed
    BY <1>1, <1>2, <1>3, <1>8, Counters DEF AicInv, Reclaimed
  <2>2. finishCompute' = finishCompute
    BY <1>2, <1>8 DEF AicFixpipe
  <2>3. ASSUME NEW v \in AIV PROVE AivInv(v) /\ FlagInv(v)
    BY DEF IInv
  <2>4. Reclaimed \in Nat /\ finishCompute' \in [Stage -> [AIV -> Nat]]
    BY <1>1, <2>2, InUse DEF TypeOK
  <2> QED
    BY <2>1, <2>2, <2>3, <2>4 DEF AivInv, FlagInv
<1> QED
  BY <1>7, <1>8

LEMMA AicSynchronizeBlockInv == IInv /\ AicSynchronizeBlock => IInv'
<1> SUFFICES ASSUME IInv, AicSynchronizeBlock PROVE IInv'
  OBVIOUS
<1>1. TypeOK /\ RingInv /\ AicInv /\ SlotInv
  BY DEF IInv
<1>2. /\ aicPc = "loop" /\ aicPc' = "drain" /\ enqueued = Loops /\ issued = Loops
      /\ UNCHANGED <<enqueued, stageId, stageUsed, stageOf, mustWait, issued, storing, stored, raised, slot,
                     finishStore, finishCompute, aivStage, waited, takenFrom, loaded, got, released>>
  BY DEF AicSynchronizeBlock, fixVars, aivVars
<1>3. Reclaimed' = Reclaimed
  BY <1>1, <1>2, Counters DEF Reclaimed, AicInv
<1>4. TypeOK' /\ RingInv'
  BY <1>1, <1>2 DEF TypeOK, RingInv, StageBefore
<1>5. AicInv'
  BY <1>1, <1>2, Counters DEF AicInv
<1>6. SlotInv'
  BY <1>1, <1>2, <1>3 DEF SlotInv
<1>7. ASSUME NEW v \in AIV PROVE AivInv(v)' /\ FlagInv(v)'
  BY <1>2, <1>3 DEF IInv, AivInv, FlagInv
<1> QED
  BY <1>4, <1>5, <1>6, <1>7 DEF IInv

LEMMA AicFinishInv == IInv /\ AicFinish => IInv'
<1> SUFFICES ASSUME IInv, AicFinish PROVE IInv'
  OBVIOUS
<1>1. TypeOK /\ RingInv /\ AicInv /\ SlotInv
  BY DEF IInv
<1>2. /\ aicPc = "drain" /\ aicPc' = "done" /\ stageUsed = 0 /\ raised = issued
      /\ UNCHANGED <<enqueued, stageId, stageUsed, stageOf, mustWait, issued, storing, stored, raised, slot,
                     finishStore, finishCompute, aivStage, waited, takenFrom, loaded, got, released>>
  BY DEF AicFinish, fixVars, aivVars
<1>3. Reclaimed' = Reclaimed
  BY <1>2 DEF Reclaimed
<1>4. TypeOK' /\ RingInv'
  BY <1>1, <1>2 DEF TypeOK, RingInv, StageBefore
<1>5. AicInv'
  BY <1>1, <1>2, Counters DEF AicInv
<1>6. SlotInv'
  BY <1>1, <1>2, <1>3 DEF SlotInv
<1>7. ASSUME NEW v \in AIV PROVE AivInv(v)' /\ FlagInv(v)'
  BY <1>2, <1>3 DEF IInv, AivInv, FlagInv
<1> QED
  BY <1>4, <1>5, <1>6, <1>7 DEF IInv

LEMMA AicDrainInv == IInv /\ AicDrain => IInv'
<1> SUFFICES ASSUME IInv, AicDrain PROVE IInv'
  OBVIOUS
<1> DEFINE s == IF stageId >= stageUsed THEN stageId - stageUsed ELSE stageId + Stages - stageUsed
           b == Reclaimed + 1
<1>1. TypeOK /\ RingInv /\ AicInv /\ SlotInv
  BY DEF IInv
<1>2. /\ aicPc = "drain" /\ stageUsed > 0 /\ stageUsed' = stageUsed - 1
      /\ RaisedForAic(finishCompute[s]) /\ finishCompute' = [finishCompute EXCEPT ![s] = WaitedByAic(@)]
      /\ UNCHANGED <<aicPc, enqueued, stageId, stageOf, mustWait, issued, storing, stored, raised, slot,
                     finishStore, aivStage, waited, takenFrom, loaded, got, released>>
  BY DEF AicDrain, fixVars, aivVars
<1>3. /\ enqueued = Loops /\ issued = Loops /\ stageUsed <= enqueued
      /\ Reclaimed = enqueued - stageUsed /\ Reclaimed' = b
  BY <1>1, <1>2, Counters DEF AicInv, Reclaimed
<1>4. b \in Block /\ b <= enqueued /\ enqueued - b < Stages /\ enqueued - b + 1 = stageUsed
  BY <1>1, <1>2, <1>3, Counters
<1>5. stageOf[b] = s /\ s \in Stage
  <2>1. StageBefore(b) = s
    BY <1>4 DEF StageBefore
  <2>2. stageOf[b] = StageBefore(b)
    BY <1>1, <1>4 DEF RingInv
  <2> HIDE DEF b
  <2> QED
    BY <1>1, <1>4, <2>1, <2>2 DEF TypeOK
<1> HIDE DEF s
<1>6. \A j \in Block : b < j /\ j <= issued => stageOf[j] # s
  <2> SUFFICES ASSUME NEW j \in Block, b < j, j <= issued, stageOf[j] = s PROVE FALSE
    OBVIOUS
  <2>1. j <= enqueued /\ j - b < Stages /\ b - j < Stages /\ j # b
    BY <1>1, <1>3, <1>4, Counters
  <2> QED
    BY <1>1, <1>4, <1>5, <2>1, Distinct
<1>7. /\ finishCompute' \in [Stage -> [AIV -> Nat]]
      /\ \A v \in AIV : b <= released[v]
      /\ \A v \in AIV : \A t \in Stage :
           finishCompute'[t][v] =
               IF \E j \in Block : b < j /\ j <= released[v] /\ stageOf[j] = t THEN 1 ELSE 0
  BY <1>2, <1>5, <1>6, ReclaimStep
<1>8. TypeOK'
  <2>1. stageUsed' \in 0..Stages
    BY <1>1, <1>2, Counters
  <2> QED
    BY <1>1, <1>2, <1>7, <2>1 DEF TypeOK
<1>9. RingInv'
  BY <1>1, <1>2 DEF RingInv, StageBefore
<1>10. AicInv'
  BY <1>1, <1>2, <1>3, Counters DEF AicInv
<1>11. SlotInv'
  <2>1. Reclaimed \in Nat
    BY <1>1, InUse
  <2> QED
    BY <1>1, <1>2, <1>3, <2>1 DEF SlotInv
<1>12. ASSUME NEW v \in AIV PROVE AivInv(v)' /\ FlagInv(v)'
  <2>1. AivInv(v) /\ FlagInv(v)
    BY DEF IInv
  <2>2. AivInv(v)'
    BY <1>2, <1>3, <1>7, <2>1 DEF AivInv
  <2>3. FlagInv(v)'
    BY <1>2, <1>3, <1>7, <2>1 DEF FlagInv
  <2> QED
    BY <2>2, <2>3
<1> QED
  BY <1>8, <1>9, <1>10, <1>11, <1>12 DEF IInv

LEMMA FixStoreBeginInv == IInv /\ FixStoreBegin => IInv'
<1> SUFFICES ASSUME IInv, FixStoreBegin PROVE IInv'
  OBVIOUS
<1> DEFINE b == stored + 1
<1>1. TypeOK /\ RingInv /\ AicInv /\ SlotInv
  BY DEF IInv
<1>2. /\ stored < issued /\ raised = stored /\ storing' = TRUE
      /\ slot' = [slot EXCEPT ![stageOf[b]] = Torn]
      /\ UNCHANGED <<aicPc, enqueued, stageId, stageUsed, stageOf, mustWait, issued, stored, raised,
                     finishStore, finishCompute, aivStage, waited, takenFrom, loaded, got, released>>
  BY DEF FixStoreBegin, kernelVars, aivVars
<1>3. b \in Block /\ b <= issued /\ b <= enqueued
  BY <1>1, <1>2, Counters DEF AicInv
<1>4. Reclaimed' = Reclaimed
  BY <1>2 DEF Reclaimed
<1>5. TypeOK' /\ RingInv'
  <2>1. slot' \in [Stage -> 0..Loops]
    BY <1>1, <1>2 DEF TypeOK, Torn
  <2>2. storing' \in BOOLEAN
    BY <1>2
  <2> QED
    BY <1>1, <1>2, <2>1, <2>2 DEF TypeOK, RingInv, StageBefore
<1>6. AicInv'
  BY <1>1, <1>2, Counters DEF AicInv
<1>7. SlotInv'
  <2> SUFFICES ASSUME NEW i \in Block, Reclaimed < i, i <= stored PROVE slot'[stageOf[i]] = i
    BY <1>2, <1>4 DEF SlotInv
  <2>1. i <= enqueued /\ b - i < Stages /\ i - b < Stages /\ i # b
    BY <1>1, <1>3, InUse, Counters
  <2>2. stageOf[i] # stageOf[b]
    BY <1>1, <1>3, <2>1, Distinct
  <2>3. slot[stageOf[i]] = i
    BY <1>1 DEF SlotInv
  <2> HIDE DEF b
  <2> QED
    BY <1>1, <1>2, <1>3, <2>2, <2>3 DEF TypeOK
<1>8. ASSUME NEW v \in AIV PROVE AivInv(v)' /\ FlagInv(v)'
  BY <1>2, <1>4 DEF IInv, AivInv, FlagInv
<1> QED
  BY <1>5, <1>6, <1>7, <1>8 DEF IInv

LEMMA FixStoreEndInv == IInv /\ FixStoreEnd => IInv'
<1> SUFFICES ASSUME IInv, FixStoreEnd PROVE IInv'
  OBVIOUS
<1> DEFINE b == stored + 1
<1>1. TypeOK /\ RingInv /\ AicInv /\ SlotInv
  BY DEF IInv
<1>2. /\ storing /\ storing' = FALSE /\ stored' = b
      /\ slot' = [slot EXCEPT ![stageOf[b]] = b]
      /\ UNCHANGED <<aicPc, enqueued, stageId, stageUsed, stageOf, mustWait, issued, raised,
                     finishStore, finishCompute, aivStage, waited, takenFrom, loaded, got, released>>
  BY DEF FixStoreEnd, kernelVars, aivVars
<1>3. stored = raised /\ stored < issued /\ b \in Block /\ b <= issued /\ b <= enqueued
  BY <1>1, <1>2, Counters DEF AicInv
<1>4. Reclaimed' = Reclaimed
  BY <1>2 DEF Reclaimed
<1>5. TypeOK' /\ RingInv'
  <2>1. slot' \in [Stage -> 0..Loops]
    BY <1>1, <1>2, <1>3 DEF TypeOK
  <2>2. stored' \in 0..Loops
    BY <1>2, <1>3
  <2>3. storing' \in BOOLEAN
    BY <1>2
  <2> QED
    BY <1>1, <1>2, <2>1, <2>2, <2>3 DEF TypeOK, RingInv, StageBefore
<1>6. AicInv'
  BY <1>1, <1>2, <1>3, Counters DEF AicInv
<1>7. SlotInv'
  <2> SUFFICES ASSUME NEW i \in Block, Reclaimed < i, i <= b PROVE slot'[stageOf[i]] = i
    BY <1>2, <1>4 DEF SlotInv
  <2>1. CASE i = b
    BY <1>1, <1>2, <1>3, <2>1 DEF TypeOK
  <2>2. CASE i # b
    <3>1. i <= stored /\ i <= enqueued /\ b - i < Stages /\ i - b < Stages
      BY <1>1, <1>3, <2>2, InUse, Counters
    <3>2. stageOf[i] # stageOf[b]
      BY <1>1, <1>3, <2>2, <3>1, Distinct
    <3>3. slot[stageOf[i]] = i
      BY <1>1, <3>1 DEF SlotInv
    <3> HIDE DEF b
    <3> QED
      BY <1>1, <1>2, <1>3, <3>2, <3>3 DEF TypeOK
  <2> QED
    BY <2>1, <2>2
<1>8. ASSUME NEW v \in AIV PROVE AivInv(v)' /\ FlagInv(v)'
  BY <1>2, <1>4 DEF IInv, AivInv, FlagInv
<1> QED
  BY <1>5, <1>6, <1>7, <1>8 DEF IInv

LEMMA FixSetInv == IInv /\ FixSet => IInv'
<1> SUFFICES ASSUME IInv, FixSet PROVE IInv'
  OBVIOUS
<1> DEFINE b == raised + 1
           s == stageOf[b]
<1>1. TypeOK /\ RingInv /\ AicInv /\ SlotInv
  BY DEF IInv
<1>2. /\ raised < stored /\ raised' = b
      /\ finishStore' = [finishStore EXCEPT ![s] = [v \in AIV |-> finishStore[s][v] + 1]]
      /\ UNCHANGED <<aicPc, enqueued, stageId, stageUsed, stageOf, mustWait, issued, storing, stored, slot,
                     finishCompute, aivStage, waited, takenFrom, loaded, got, released>>
  BY DEF FixSet, SetByAic, kernelVars, aivVars
<1>3. b \in Block /\ b <= issued /\ b <= enqueued /\ ~storing
  BY <1>1, <1>2, Counters DEF AicInv
<1>4. s \in Stage
  BY <1>1, <1>3 DEF TypeOK
<1>5. Reclaimed' = Reclaimed
  BY <1>2 DEF Reclaimed
<1>6. TypeOK' /\ RingInv'
  <2>1. [v \in AIV |-> finishStore[s][v] + 1] \in [AIV -> Nat]
    <3>1. finishStore[s] \in [AIV -> Nat]
      BY <1>1, <1>4 DEF TypeOK
    <3> HIDE DEF s
    <3> QED
      BY <3>1
  <2>2. finishStore' \in [Stage -> [AIV -> Nat]]
    BY <1>1, <1>2, <2>1 DEF TypeOK
  <2>3. raised' \in 0..Loops
    BY <1>2, <1>3
  <2> QED
    BY <1>1, <1>2, <2>2, <2>3 DEF TypeOK, RingInv, StageBefore
<1>7. AicInv'
  BY <1>1, <1>2, <1>3, Counters DEF AicInv
<1>8. SlotInv'
  BY <1>1, <1>2, <1>5 DEF SlotInv
<1>9. ASSUME NEW v \in AIV PROVE AivInv(v)' /\ FlagInv(v)'
  <2>1. AivInv(v) /\ FlagInv(v)
    BY DEF IInv
  <2>2. AivInv(v)'
    BY <1>1, <1>2, <1>5, <2>1, Counters DEF AivInv
  <2>3. waited[v] <= raised /\ Reclaimed <= waited[v]
    BY <1>1, <2>1, InUse, Counters DEF AivInv
  <2>4. \A j \in Block : waited[v] < j /\ j <= raised => stageOf[j] # s
    <3> SUFFICES ASSUME NEW j \in Block, waited[v] < j, j <= raised, stageOf[j] = s PROVE FALSE
      OBVIOUS
    <3>1. j <= enqueued /\ b - j < Stages /\ j - b < Stages /\ j # b
      BY <1>1, <1>3, <2>3, InUse, Counters
    <3> QED
      BY <1>1, <1>3, <3>1, Distinct
  <2>5. ASSUME NEW t \in Stage
        PROVE  finishStore'[t][v] = IF \E j \in Block : waited[v] < j /\ j <= b /\ stageOf[j] = t
                                    THEN 1 ELSE 0
    <3>1. CASE t = s
      <4>1. finishStore[s][v] = 0
        BY <1>4, <2>1, <2>4 DEF FlagInv
      <4>2. finishStore'[s][v] = 1
        <5> HIDE DEF s, b
        <5>1. finishStore'[s] = [w \in AIV |-> finishStore[s][w] + 1]
          BY <1>1, <1>2, <1>4 DEF TypeOK
        <5> QED
          BY <4>1, <5>1
      <4>3. waited[v] < b
        BY <1>1, <2>3, Counters
      <4> QED
        BY <1>3, <3>1, <4>2, <4>3, Counters
    <3>2. CASE t # s
      <4>1. finishStore'[t][v] = finishStore[t][v]
        BY <1>1, <1>2, <1>4, <3>2 DEF TypeOK
      <4>2. (\E j \in Block : waited[v] < j /\ j <= b /\ stageOf[j] = t)
            <=> (\E j \in Block : waited[v] < j /\ j <= raised /\ stageOf[j] = t)
        BY <1>1, <3>2, Counters
      <4> QED
        BY <2>1, <4>1, <4>2 DEF FlagInv
    <3> QED
      BY <3>1, <3>2
  <2>6. FlagInv(v)'
    BY <1>2, <1>5, <2>1, <2>5 DEF FlagInv
  <2> QED
    BY <2>2, <2>6
<1> QED
  BY <1>6, <1>7, <1>8, <1>9 DEF IInv

LEMMA AivWaitInv == ASSUME NEW u \in AIV PROVE IInv /\ AivWait(u) => IInv'
<1> SUFFICES ASSUME IInv, AivWait(u) PROVE IInv'
  OBVIOUS
<1> DEFINE b == waited[u] + 1
           s == aivStage[u]
<1>1. TypeOK /\ RingInv /\ AicInv /\ SlotInv /\ AivInv(u) /\ FlagInv(u)
  BY DEF IInv
<1>2. /\ waited[u] < Loops /\ finishStore[s][u] > 0
      /\ finishStore' = [finishStore EXCEPT ![s] = [finishStore[s] EXCEPT ![u] = finishStore[s][u] - 1]]
      /\ waited' = [waited EXCEPT ![u] = b]
      /\ takenFrom' = [takenFrom EXCEPT ![u] = [takenFrom[u] EXCEPT ![b] = s]]
      /\ aivStage' = [aivStage EXCEPT ![u] = NextStage(s)]
      /\ UNCHANGED <<aicPc, enqueued, stageId, stageUsed, stageOf, mustWait, issued, storing, stored, raised,
                     slot, finishCompute, loaded, got, released>>
  BY DEF AivWait, RaisedForAiv, WaitedByAiv, kernelVars, fixVars
<1>3. s \in Stage
  BY <1>1 DEF TypeOK
<1>4. PICK j \in Block : waited[u] < j /\ j <= raised /\ stageOf[j] = s
  BY <1>1, <1>2, <1>3 DEF FlagInv
<1>5. /\ b \in Block /\ b <= raised /\ raised <= enqueued /\ raised <= issued
      /\ Reclaimed <= waited[u] /\ Reclaimed \in Nat
  BY <1>1, <1>4, InUse, Counters DEF AicInv, AivInv
<1>6. s = stageOf[b]
  BY <1>1, <1>5, Counters DEF AivInv
<1>7. /\ waited'[u] = b /\ takenFrom'[u][b] = s /\ aivStage'[u] = NextStage(s)
      /\ \A i \in Block : i # b => takenFrom'[u][i] = takenFrom[u][i]
      /\ \A v \in AIV : v # u => /\ waited'[v] = waited[v] /\ takenFrom'[v] = takenFrom[v]
                               /\ aivStage'[v] = aivStage[v]
  BY <1>1, <1>2, <1>5 DEF TypeOK
<1>8. Reclaimed' = Reclaimed
  BY <1>2 DEF Reclaimed
<1>9. TypeOK'
  <2> HIDE DEF s, b
  <2>0. finishStore[s] \in [AIV -> Nat]
    BY <1>1, <1>3 DEF TypeOK
  <2>1. finishStore[s] \in [AIV -> Nat] /\ finishStore[s][u] - 1 \in Nat
    BY <1>2, <2>0
  <2>2. finishStore' \in [Stage -> [AIV -> Nat]]
    BY <1>1, <1>2, <2>1 DEF TypeOK
  <2>3. waited' \in [AIV -> 0..Loops]
    <3>1. b \in 0..Loops
      BY <1>5
    <3> QED
      BY <1>1, <1>2, <3>1 DEF TypeOK
  <2>4. NextStage(s) \in Stage
    BY <1>3 DEF NextStage
  <2>5. aivStage' \in [AIV -> Stage]
    BY <1>1, <1>2, <2>4 DEF TypeOK
  <2>6. takenFrom' \in [AIV -> [Block -> Stage]]
    BY <1>1, <1>2, <1>3 DEF TypeOK
  <2> QED
    BY <1>1, <1>2, <2>2, <2>3, <2>5, <2>6 DEF TypeOK
<1>10. RingInv' /\ AicInv' /\ SlotInv'
  BY <1>1, <1>2, <1>8 DEF RingInv, StageBefore, AicInv, SlotInv
<1>11. AivInv(u)' /\ FlagInv(u)'
  <2>1. aivStage'[u] = IF b < enqueued THEN stageOf[b + 1] ELSE stageId
    BY <1>1, <1>5, <1>6, <1>7, Counters DEF RingInv
  <2>2. \A i \in Block : i <= b => takenFrom'[u][i] = stageOf[i]
    BY <1>1, <1>5, <1>6, <1>7, Counters DEF AivInv
  <2>3. loaded[u] <= b /\ b <= raised
    BY <1>1, <1>5, Counters DEF AivInv
  <2>4. AivInv(u)'
    BY <1>1, <1>2, <1>7, <1>8, <2>1, <2>2, <2>3 DEF AivInv
  <2>5. \A i \in Block : b < i /\ i <= raised => stageOf[i] # s
    <3> SUFFICES ASSUME NEW i \in Block, b < i, i <= raised, stageOf[i] = s PROVE FALSE
      OBVIOUS
    <3>1. i <= enqueued /\ b <= enqueued /\ b - i < Stages /\ i - b < Stages /\ i # b
      BY <1>1, <1>5, InUse, Counters
    <3> QED
      BY <1>1, <1>5, <1>6, <3>1, Distinct
  <2>6. ASSUME NEW t \in Stage
        PROVE  finishStore'[t][u] = IF \E i \in Block : b < i /\ i <= raised /\ stageOf[i] = t
                                    THEN 1 ELSE 0
    <3>1. CASE t = s
      <4>1. finishStore[s][u] = 1
        BY <1>1, <1>3, <1>4 DEF FlagInv
      <4>2. finishStore'[s][u] = 0
        BY <1>1, <1>2, <1>3, <4>1 DEF TypeOK
      <4> QED
        BY <2>5, <3>1, <4>2
    <3>2. CASE t # s
      <4>1. finishStore'[t][u] = finishStore[t][u]
        BY <1>1, <1>2, <1>3, <3>2 DEF TypeOK
      <4>2. (\E i \in Block : b < i /\ i <= raised /\ stageOf[i] = t)
            <=> (\E i \in Block : waited[u] < i /\ i <= raised /\ stageOf[i] = t)
        BY <1>1, <1>6, <3>2, Counters
      <4> QED
        BY <1>1, <4>1, <4>2 DEF FlagInv
    <3> QED
      BY <3>1, <3>2
  <2>7. FlagInv(u)'
    BY <1>1, <1>2, <1>7, <1>8, <2>6 DEF FlagInv
  <2> QED
    BY <2>4, <2>7
<1>12. ASSUME NEW v \in AIV, v # u PROVE AivInv(v)' /\ FlagInv(v)'
  <2>1. AivInv(v) /\ FlagInv(v)
    BY DEF IInv
  <2>2. AivInv(v)'
    BY <1>2, <1>7, <1>8, <1>12, <2>1 DEF AivInv
  <2>3. ASSUME NEW t \in Stage PROVE finishStore'[t][v] = finishStore[t][v]
    BY <1>1, <1>2, <1>3, <1>12 DEF TypeOK
  <2>4. FlagInv(v)'
    BY <1>2, <1>7, <1>8, <1>12, <2>1, <2>3 DEF FlagInv
  <2> QED
    BY <2>2, <2>4
<1> QED
  BY <1>9, <1>10, <1>11, <1>12 DEF IInv

LEMMA AivLoadInv == ASSUME NEW u \in AIV PROVE IInv /\ AivLoad(u) => IInv'
<1> SUFFICES ASSUME IInv, AivLoad(u) PROVE IInv'
  OBVIOUS
<1> DEFINE b == loaded[u] + 1
<1>1. TypeOK /\ RingInv /\ AicInv /\ SlotInv /\ AivInv(u)
  BY DEF IInv
<1>2. /\ loaded[u] < waited[u]
      /\ loaded' = [loaded EXCEPT ![u] = b]
      /\ got' = [got EXCEPT ![u] = slot[takenFrom[u][b]]]
      /\ UNCHANGED <<aicPc, enqueued, stageId, stageUsed, stageOf, mustWait, issued, storing, stored, raised,
                     slot, finishStore, finishCompute, aivStage, waited, takenFrom, released>>
  BY DEF AivLoad, kernelVars, fixVars
<1>3. b \in Block /\ b <= waited[u] /\ b <= stored /\ Reclaimed < b
  BY <1>1, <1>2, InUse, Counters DEF AicInv, AivInv
<1>4. slot[takenFrom[u][b]] = b
  <2>1. takenFrom[u][b] = stageOf[b]
    BY <1>1, <1>3 DEF AivInv
  <2>2. slot[stageOf[b]] = b
    BY <1>1, <1>3 DEF SlotInv
  <2> QED
    BY <2>1, <2>2
<1>5. Reclaimed' = Reclaimed
  BY <1>2 DEF Reclaimed
<1>6. TypeOK'
  <2>1. b \in 0..Loops
    BY <1>3
  <2>2. loaded' \in [AIV -> 0..Loops] /\ got' \in [AIV -> 0..Loops]
    BY <1>1, <1>2, <1>4, <2>1 DEF TypeOK
  <2> QED
    BY <1>1, <1>2, <2>2 DEF TypeOK
<1>7. RingInv' /\ AicInv' /\ SlotInv'
  BY <1>1, <1>2, <1>5 DEF RingInv, StageBefore, AicInv, SlotInv
<1>8. AivInv(u)'
  <2>1. loaded'[u] = b /\ got'[u] = b /\ released[u] <= b
    BY <1>1, <1>2, <1>4, Counters DEF TypeOK, AivInv
  <2> QED
    BY <1>1, <1>2, <1>3, <1>5, <2>1 DEF AivInv
<1>9. ASSUME NEW v \in AIV, v # u PROVE AivInv(v)'
  <2>1. AivInv(v) /\ loaded'[v] = loaded[v] /\ got'[v] = got[v]
    BY <1>1, <1>2, <1>9 DEF IInv, TypeOK
  <2> QED
    BY <1>2, <1>5, <2>1 DEF AivInv
<1>10. ASSUME NEW v \in AIV PROVE FlagInv(v)'
  BY <1>2, <1>5 DEF IInv, FlagInv
<1> QED
  BY <1>6, <1>7, <1>8, <1>9, <1>10 DEF IInv

LEMMA AivSetInv == ASSUME NEW u \in AIV PROVE IInv /\ AivSet(u) => IInv'
<1> SUFFICES ASSUME IInv, AivSet(u) PROVE IInv'
  OBVIOUS
<1> DEFINE b == released[u] + 1
           s == takenFrom[u][b]
<1>1. TypeOK /\ RingInv /\ AicInv /\ SlotInv /\ AivInv(u) /\ FlagInv(u)
  BY DEF IInv
<1>2. /\ released[u] < loaded[u]
      /\ released' = [released EXCEPT ![u] = b]
      /\ finishCompute' = [finishCompute EXCEPT ![s] = [finishCompute[s] EXCEPT ![u] = finishCompute[s][u] + 1]]
      /\ UNCHANGED <<aicPc, enqueued, stageId, stageUsed, stageOf, mustWait, issued, storing, stored, raised,
                     slot, finishStore, aivStage, waited, takenFrom, loaded, got>>
  BY DEF AivSet, SetByAiv, kernelVars, fixVars
<1>3. /\ b \in Block /\ b <= loaded[u] /\ b <= waited[u] /\ b <= issued /\ b <= enqueued
      /\ Reclaimed < b /\ Reclaimed \in Nat /\ issued <= Reclaimed + Stages
  BY <1>1, <1>2, InUse, Counters DEF AicInv, AivInv
<1>4. s = stageOf[b] /\ s \in Stage
  BY <1>1, <1>3 DEF AivInv, TypeOK
<1> HIDE DEF s
<1>5. Reclaimed' = Reclaimed
  BY <1>2 DEF Reclaimed
<1>6. TypeOK'
  <2> HIDE DEF b
  <2>1. finishCompute[s] \in [AIV -> Nat]
    BY <1>1, <1>4 DEF TypeOK
  <2>2. finishCompute' \in [Stage -> [AIV -> Nat]]
    <3>1. [finishCompute[s] EXCEPT ![u] = finishCompute[s][u] + 1] \in [AIV -> Nat]
      BY <2>1
    <3> QED
      BY <1>1, <1>2, <3>1 DEF TypeOK
  <2>3. released' \in [AIV -> 0..Loops]
    <3>1. b \in 0..Loops
      BY <1>3
    <3> QED
      BY <1>1, <1>2, <3>1 DEF TypeOK
  <2> QED
    BY <1>1, <1>2, <2>2, <2>3 DEF TypeOK
<1>7. RingInv' /\ AicInv' /\ SlotInv'
  BY <1>1, <1>2, <1>5 DEF RingInv, StageBefore, AicInv, SlotInv
<1>8. released'[u] = b /\ \A v \in AIV : v # u => released'[v] = released[v]
  BY <1>1, <1>2 DEF TypeOK
<1>9. AivInv(u)' /\ FlagInv(u)'
  <2>1. AivInv(u)'
    BY <1>1, <1>2, <1>3, <1>5, <1>8 DEF AivInv
  <2>2. \A j \in Block : Reclaimed < j /\ j <= released[u] => stageOf[j] # s
    <3> SUFFICES ASSUME NEW j \in Block, Reclaimed < j, j <= released[u], stageOf[j] = s PROVE FALSE
      OBVIOUS
    <3>1. j <= enqueued /\ b - j < Stages /\ j - b < Stages /\ j # b
      BY <1>1, <1>3, Counters
    <3> QED
      BY <1>1, <1>3, <1>4, <3>1, Distinct
  <2>3. ASSUME NEW t \in Stage
        PROVE  finishCompute'[t][u] = IF \E j \in Block : Reclaimed < j /\ j <= b /\ stageOf[j] = t
                                      THEN 1 ELSE 0
    <3>1. CASE t = s
      <4>1. finishCompute[s][u] = 0
        BY <1>1, <1>4, <2>2 DEF FlagInv
      <4>2. finishCompute'[s] = [finishCompute[s] EXCEPT ![u] = finishCompute[s][u] + 1]
        BY <1>1, <1>2, <1>4 DEF TypeOK
      <4>3. finishCompute[s] \in [AIV -> Nat]
        BY <1>1, <1>4 DEF TypeOK
      <4>4. finishCompute'[s][u] = 1
        BY <4>1, <4>2, <4>3
      <4> QED
        BY <1>3, <1>4, <3>1, <4>4
    <3>2. CASE t # s
      <4>1. finishCompute'[t][u] = finishCompute[t][u]
        BY <1>1, <1>2, <1>4, <3>2 DEF TypeOK
      <4>2. (\E j \in Block : Reclaimed < j /\ j <= b /\ stageOf[j] = t)
            <=> (\E j \in Block : Reclaimed < j /\ j <= released[u] /\ stageOf[j] = t)
        BY <1>1, <1>4, <3>2, Counters
      <4> QED
        BY <1>1, <4>1, <4>2 DEF FlagInv
    <3> QED
      BY <3>1, <3>2
  <2>4. FlagInv(u)'
    BY <1>1, <1>2, <1>5, <1>8, <2>3 DEF FlagInv
  <2> QED
    BY <2>1, <2>4
<1>10. ASSUME NEW v \in AIV, v # u PROVE AivInv(v)' /\ FlagInv(v)'
  <2>1. AivInv(v) /\ FlagInv(v)
    BY DEF IInv
  <2>2. AivInv(v)'
    BY <1>2, <1>5, <1>8, <1>10, <2>1 DEF AivInv
  <2>3. ASSUME NEW t \in Stage PROVE finishCompute'[t][v] = finishCompute[t][v]
    BY <1>1, <1>2, <1>4, <1>10 DEF TypeOK
  <2>4. FlagInv(v)'
    BY <1>2, <1>5, <1>8, <1>10, <2>1, <2>3 DEF FlagInv
  <2> QED
    BY <2>2, <2>4
<1> QED
  BY <1>6, <1>7, <1>9, <1>10 DEF IInv
-----------------------------------------------------------------------------
(* Every step of the kernel preserves the inductive invariant.             *)
LEMMA NextInv == IInv /\ [Next]_vars => IInv'
<1>1. IInv /\ UNCHANGED vars => IInv'
  <2> SUFFICES ASSUME IInv, UNCHANGED vars PROVE IInv'
    OBVIOUS
  <2> USE DEF vars, kernelVars, fixVars, aivVars
  <2>1. Reclaimed' = Reclaimed
    BY DEF Reclaimed
  <2>2. TypeOK' /\ RingInv' /\ AicInv' /\ SlotInv'
    BY <2>1 DEF IInv, TypeOK, RingInv, StageBefore, AicInv, SlotInv
  <2>3. ASSUME NEW v \in AIV PROVE AivInv(v)' /\ FlagInv(v)'
    BY <2>1 DEF IInv, AivInv, FlagInv
  <2> QED
    BY <2>2, <2>3 DEF IInv
<1> QED
  BY <1>1, AicLoopInv, AicFixpipeInv, AicSynchronizeBlockInv, AicDrainInv, AicFinishInv,
     FixStoreBeginInv, FixStoreEndInv, FixSetInv, AivWaitInv, AivLoadInv, AivSetInv
     DEF Next, AicNext, FixNext, AivNext, Terminated

(* IInv holds in every reachable state.                                    *)
THEOREM Invariance == Spec => []IInv
  BY InitInv, NextInv, PTL DEF Spec

(* Every AIV reads the blocks of this core in order and whole, for every   *)
(* number of stages and of blocks held back.                               *)
THEOREM ReadsItsBlock == Spec => []AivReadsItsBlock
<1>1. IInv => AivReadsItsBlock
  BY DEF IInv, AivInv, AivReadsItsBlock
<1> QED
  BY <1>1, Invariance, PTL

(* No store touches a slot an AIV has waited for and not released.         *)
THEOREM SlotHeld == Spec => []SlotHeldUntilReleased
<1>1. IInv => SlotHeldUntilReleased
  <2> SUFFICES ASSUME IInv, NEW v \in AIV, NEW i \in (released[v] + 1)..waited[v]
               PROVE  slot[takenFrom[v][i]] = i
    BY DEF SlotHeldUntilReleased
  <2>1. TypeOK /\ AicInv /\ SlotInv /\ AivInv(v)
    BY DEF IInv
  <2>2. i \in Block /\ i <= waited[v] /\ i <= stored /\ Reclaimed < i
    BY <2>1, InUse, Counters DEF AicInv, AivInv
  <2>3. takenFrom[v][i] = stageOf[i]
    BY <2>1, <2>2 DEF AivInv
  <2> QED
    BY <2>1, <2>2, <2>3 DEF SlotInv
<1> QED
  BY <1>1, Invariance, PTL

(* No hardware flag of the ring ever counts above one.                     *)
THEOREM BinaryFlags == Spec => []FlagsAreBinary
<1>1. IInv => FlagsAreBinary
  <2> SUFFICES ASSUME IInv, NEW s \in Stage, NEW v \in AIV
               PROVE  finishStore[s][v] <= 1 /\ finishCompute[s][v] <= 1
    BY DEF FlagsAreBinary
  <2>1. /\ finishStore[s][v] = 0 \/ finishStore[s][v] = 1
        /\ finishCompute[s][v] = 0 \/ finishCompute[s][v] = 1
    BY DEF IInv, FlagInv
  <2> QED
    BY <2>1
<1> QED
  BY <1>1, Invariance, PTL

(* A kernel that returned left every flag of the ring cleared, wherever    *)
(* its loop ended.                                                         *)
THEOREM CleanExit == Spec => []FlagsClearedAtExit
<1>1. IInv => FlagsClearedAtExit
  <2> SUFFICES ASSUME IInv, AllDone, NEW s \in Stage
               PROVE  finishStore[s] = Cleared /\ finishCompute[s] = Cleared
    BY DEF FlagsClearedAtExit
  <2>1. TypeOK /\ AicInv /\ Reclaimed = Loops /\ raised = Loops
    BY Counters DEF IInv, AicInv, AllDone, Reclaimed
  <2>2. ASSUME NEW v \in AIV PROVE finishStore[s][v] = 0 /\ finishCompute[s][v] = 0
    <3>1. FlagInv(v) /\ AivInv(v) /\ released[v] = Loops
      BY DEF IInv, AllDone
    <3>2. waited[v] >= Loops
      BY <2>1, <3>1, Counters DEF AivInv
    <3>3. ~ \E i \in Block : waited[v] < i /\ i <= raised /\ stageOf[i] = s
      BY <2>1, <3>2, Counters
    <3>4. ~ \E i \in Block : Reclaimed < i /\ i <= released[v] /\ stageOf[i] = s
      BY <2>1, <3>1, Counters
    <3> QED
      BY <3>1, <3>3, <3>4 DEF FlagInv
  <2>3. finishStore[s] \in [AIV -> Nat] /\ finishCompute[s] \in [AIV -> Nat]
    BY <2>1 DEF TypeOK
  <2> QED
    BY <2>2, <2>3 DEF Cleared
<1> QED
  BY <1>1, Invariance, PTL

(* The ring implements the abstract hand-off of capacity Stages: initial   *)
(* states map to initial states, every step to a step or a stutter (the    *)
(* fairness of TileHandoff is checked by TLC only).                        *)
THEOREM HandoffSafety == Spec => Handoff!Safety
<1>1. Init => Handoff!Init
  BY DEF Init, Handoff!Init
<1>2. IInv /\ [Next]_vars => [Handoff!Next]_(Handoff!vars)
  <2> SUFFICES ASSUME IInv, [Next]_vars PROVE [Handoff!Next]_(Handoff!vars)
    OBVIOUS
  <2>1. TypeOK /\ AicInv
    BY DEF IInv
  <2>2. CASE FixStoreEnd
    <3>1. stored < issued /\ stored' = stored + 1 /\ UNCHANGED released /\ stored < Loops
      BY <2>1, <2>2, Counters DEF FixStoreEnd, AicInv, aivVars
    <3>2. ASSUME NEW v \in AIV PROVE stored - released[v] < Stages
      <4>1. Reclaimed <= released[v]
        BY DEF IInv, AivInv
      <4> QED
        BY <2>1, <3>1, <4>1, InUse, Counters
    <3> QED
      BY <3>1, <3>2 DEF Handoff!Next, Handoff!Produce
  <2>3. ASSUME NEW v \in AIV, AivSet(v) PROVE Handoff!Next
    <3>1. released[v] < stored
      <4>1. AivInv(v)
        BY DEF IInv
      <4> QED
        BY <2>1, <2>3, <4>1, Counters DEF AivSet, AivInv, AicInv
    <3> QED
      BY <2>3, <3>1 DEF AivSet, fixVars, Handoff!Next, Handoff!Take
  <2>4. CASE AicNext \/ FixStoreBegin \/ FixSet
    BY <2>4 DEF AicNext, AicLoop, AicFixpipe, AicSynchronizeBlock, AicDrain, AicFinish,
                FixStoreBegin, FixSet, fixVars, aivVars, Handoff!vars
  <2>5. ASSUME NEW v \in AIV, AivWait(v) \/ AivLoad(v) PROVE UNCHANGED Handoff!vars
    BY <2>5 DEF AivWait, AivLoad, fixVars, Handoff!vars
  <2>6. CASE UNCHANGED vars
    BY <2>6 DEF vars, fixVars, aivVars, Handoff!vars
  <2> QED
    BY <2>2, <2>3, <2>4, <2>5, <2>6 DEF Next, FixNext, AivNext, Terminated
<1> QED
  BY <1>1, <1>2, Invariance, PTL DEF Spec, Handoff!Safety
=============================================================================
