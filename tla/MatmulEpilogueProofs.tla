------------------------ MODULE MatmulEpilogueProofs ------------------------
(***************************************************************************)
(* Theorems about MatmulEpilogue, for any set of AIVs, any number of       *)
(* blocks and any reverse depth.                                           *)
(***************************************************************************)
EXTENDS MatmulEpilogue, TLAPS

USE DepthAssumption, LoopsAssumption

(* The types of one AIV's part of the state.                               *)
LEMMA AivTypes ==
    ASSUME TypeOK, NEW v \in AIV
    PROVE  /\ waited[v] \in Nat /\ waited[v] <= Loops
           /\ aivCount[v] \in Nat /\ aivCount[v] < ReverseDepth
           /\ finishStore[v] \in Nat /\ reverse[v] \in Nat /\ reverseQueued[v] \in Nat
           /\ issued \in Nat /\ setsIssued \in Nat /\ stored \in Nat /\ raised \in Nat
           /\ aicCount \in Nat /\ aicCount <= ReverseDepth
           /\ ReverseDepth \in Nat /\ ReverseDepth > 0
  BY DEF TypeOK

(* The initial state satisfies the inductive invariant.                    *)
LEMMA InitInv == Init => IInv
  BY DEF Init, IInv, TypeOK, AicInv, AivInv, Cleared, AicRound, AivRound, Answers

(* Every step of the kernel preserves the inductive invariant.             *)
LEMMA NextInv == IInv /\ [Next]_vars => IInv'
<1> SUFFICES ASSUME IInv, [Next]_vars PROVE IInv'
  OBVIOUS
<1> USE DEF TypeOK, AicInv, AivInv, AicRound, AivRound, Answers, aicVars, fixVars, aivVars
<1>1. CASE AicMmad
  BY <1>1 DEF AicMmad, IInv
<1>2. CASE AicSetFlag
  BY <1>2 DEF AicSetFlag, IInv
<1>3. CASE AicWaitReverse
  <2>1. TypeOK /\ AicInv /\ aicCount = ReverseDepth
    BY <1>3 DEF AicWaitReverse, IInv
  <2>2. ASSUME NEW v \in AIV
        PROVE  /\ AivInv(v)
               /\ waited[v] - aivCount[v] = setsIssued
               /\ reverseQueued[v] = 0 /\ reverse[v] = 1
    <3>1. AivInv(v) /\ reverse[v] > 0
      BY <1>3 DEF AicWaitReverse, RaisedForAic, IInv
    <3>2. /\ waited[v] \in Nat /\ aivCount[v] \in Nat /\ setsIssued \in Nat /\ ReverseDepth \in Nat
          /\ reverse[v] \in Nat /\ reverseQueued[v] \in Nat
      BY <2>1, AivTypes
    <3>3. AivRound(v) = AicRound + ReverseDepth /\ Answers(v) = 1
      BY <3>1, <3>2
    <3>4. waited[v] - aivCount[v] = setsIssued
      <4> HIDE DEF AivInv, AicInv, TypeOK
      <4>1. aicCount = ReverseDepth
        BY <2>1
      <4>2. waited[v] - aivCount[v] = setsIssued - aicCount + ReverseDepth
        BY <3>3
      <4> QED
        BY ONLY <3>2, <4>1, <4>2
    <3>5. reverseQueued[v] = 0 /\ reverse[v] = 1
      <4> HIDE DEF AivInv, AicInv, TypeOK
      <4>1. reverse[v] > 0
        BY <3>1
      <4>2. reverseQueued[v] + reverse[v] = 1
        BY <3>3
      <4> QED
        BY ONLY <3>2, <4>1, <4>2
    <3> QED
      BY <3>1, <3>4, <3>5
  <2>3. reverse' = [v \in AIV |-> 0]
    BY <1>3, <2>2 DEF AicWaitReverse, WaitedByAic
  <2>4. TypeOK' /\ AicInv'
    BY <1>3, <2>1, <2>3 DEF AicWaitReverse
  <2>5. ASSUME NEW v \in AIV PROVE AivInv(v)'
    BY <1>3, <2>1, <2>2, <2>3 DEF AicWaitReverse
  <2> QED
    BY <2>4, <2>5 DEF IInv
<1>4. CASE AicFinish
  BY <1>4 DEF AicFinish, IInv
<1>5. CASE FixStore
  BY <1>5 DEF FixStore, IInv
<1>6. CASE FixSetFlag
  BY <1>6 DEF FixSetFlag, SetByAic, IInv
<1>7. ASSUME NEW v \in AIV, AivWaitFlag(v) PROVE IInv'
  <2>1. TypeOK /\ AicInv /\ AivInv(v) /\ waited[v] < raised
    BY <1>7 DEF AivWaitFlag, RaisedForAiv, IInv
  <2>2. aivCount[v] + 1 >= ReverseDepth => reverseQueued[v] = 0 /\ reverse[v] = 0
    BY <2>1
  <2>3. TypeOK'
    <3>1. waited[v] + 1 \in 0..Loops /\ finishStore[v] - 1 \in Nat
      BY <1>7, <2>1 DEF AivWaitFlag, RaisedForAiv
    <3>2. aivCount' \in [AIV -> 0..(ReverseDepth - 1)] /\ reverseQueued' \in [AIV -> Nat]
      BY <1>7, <2>1 DEF AivWaitFlag
    <3>3. waited' \in [AIV -> 0..Loops] /\ finishStore' \in [AIV -> Nat]
      BY <1>7, <2>1, <3>1 DEF AivWaitFlag, WaitedByAiv
    <3> QED
      BY <1>7, <2>1, <3>2, <3>3 DEF AivWaitFlag
  <2>4. AicInv' /\ AivInv(v)'
    <3>1. CASE aivCount[v] + 1 >= ReverseDepth
      BY <1>7, <2>1, <2>2, <3>1 DEF AivWaitFlag, WaitedByAiv
    <3>2. CASE aivCount[v] + 1 < ReverseDepth
      BY <1>7, <2>1, <3>2 DEF AivWaitFlag, WaitedByAiv
    <3> QED
      BY <2>1, <3>1, <3>2
  <2>5. ASSUME NEW u \in AIV, u # v PROVE AivInv(u)'
    <3>1. AivInv(u)
      BY DEF IInv
    <3> QED
      BY <1>7, <2>1, <2>5, <3>1 DEF AivWaitFlag, WaitedByAiv
  <2> QED
    BY <2>3, <2>4, <2>5 DEF IInv
<1>8. ASSUME NEW v \in AIV, Mte3SetReverse(v) PROVE IInv'
  BY <1>8 DEF Mte3SetReverse, SetByAiv, IInv
<1>9. ASSUME NEW v \in AIV, AivEpilogue(v) PROVE IInv'
  BY <1>9 DEF AivEpilogue, IInv
<1>10. ASSUME NEW v \in AIV, AivFinish(v) PROVE IInv'
  BY <1>10 DEF AivFinish, IInv
<1>11. CASE UNCHANGED vars
  BY <1>11 DEF vars, IInv
<1> QED
  BY <1>1, <1>2, <1>3, <1>4, <1>5, <1>6, <1>7, <1>8, <1>9, <1>10, <1>11
     DEF Next, AicNext, FixNext, AivNext, Terminated

(* IInv holds in every reachable state.                                    *)
THEOREM Invariance == Spec => []IInv
<1>1. Init => IInv
  BY InitInv
<1>2. IInv /\ [Next]_vars => IInv'
  BY NextInv
<1> QED
  BY <1>1, <1>2, PTL DEF Spec

(* cross_core_sync.hpp, line 18, for every reverse depth: no flag is set   *)
(* more than ReverseDepth times ahead of a wait, and the reverse flag not  *)
(* more than once.                                                         *)
THEOREM FlagBound == Spec => []FlagNeverOverflows
<1>1. IInv => FlagNeverOverflows
  <2> SUFFICES ASSUME IInv, NEW v \in AIV
               PROVE  finishStore[v] <= ReverseDepth /\ reverse[v] <= 1
    BY DEF FlagNeverOverflows
  <2>1. TypeOK /\ AicInv /\ AivInv(v)
    BY DEF IInv
  <2> QED
    BY <2>1, AivTypes DEF AicInv, AivInv, AicRound, AivRound, Answers
<1> QED
  BY <1>1, Invariance, PTL

(* Every epilogue finds its block stored.                                  *)
THEOREM EpilogueOrder == Spec => []EpilogueReadsStoredBlock
<1>1. IInv => EpilogueReadsStoredBlock
  <2> SUFFICES ASSUME IInv, NEW v \in AIV PROVE waited[v] <= stored
    BY DEF EpilogueReadsStoredBlock
  <2>1. TypeOK /\ AicInv /\ AivInv(v)
    BY DEF IInv
  <2> QED
    BY <2>1, AivTypes DEF AicInv, AivInv
<1> QED
  BY <1>1, Invariance, PTL

(* A kernel that returned left both hardware flags cleared.                *)
THEOREM CleanExit == Spec => []FlagsClearedAtExit
<1>1. IInv => FlagsClearedAtExit
  <2> SUFFICES ASSUME IInv, AllDone
               PROVE  finishStore = Cleared /\ reverse = Cleared
    BY DEF FlagsClearedAtExit
  <2>1. ASSUME NEW v \in AIV PROVE finishStore[v] = 0 /\ reverse[v] = 0
    BY <2>1 DEF IInv, TypeOK, AicInv, AivInv, AicRound, AivRound, Answers, AllDone
  <2> QED
    BY <2>1 DEF Cleared, IInv, TypeOK
<1> QED
  BY <1>1, Invariance, PTL

(* The kernel implements the abstract hand-off of capacity ReverseDepth:   *)
(* initial states map to initial states, every step to a step or a stutter *)
(* (the fairness of TileHandoff is checked by TLC only).                   *)
THEOREM HandoffSafety == Spec => Handoff!Safety
<1>1. Init => Handoff!Init
  BY DEF Init, Handoff!Init
<1>2. IInv /\ [Next]_vars => [Handoff!Next]_(Handoff!vars)
  <2> SUFFICES ASSUME IInv, [Next]_vars PROVE [Handoff!Next]_(Handoff!vars)
    OBVIOUS
  <2>1. CASE FixStore
    <3>1. \A v \in AIV : stored - waited[v] < ReverseDepth
      BY <2>1 DEF FixStore, IInv, TypeOK, AicInv, AivInv, AicRound, AivRound, Answers
    <3> QED
      BY <2>1, <3>1 DEF FixStore, IInv, TypeOK, AicInv, aivVars, Handoff!Next, Handoff!Produce
  <2>2. ASSUME NEW v \in AIV, AivWaitFlag(v) PROVE Handoff!Next
    <3>1. waited[v] < stored
      BY <2>2 DEF AivWaitFlag, RaisedForAiv, IInv, TypeOK, AicInv, AivInv
    <3> QED
      BY <2>2, <3>1 DEF AivWaitFlag, fixVars, Handoff!Next, Handoff!Take
  <2>3. CASE AicNext \/ FixSetFlag
    BY <2>3 DEF AicNext, AicMmad, AicSetFlag, AicWaitReverse, AicFinish, FixSetFlag,
                fixVars, aivVars, Handoff!vars
  <2>4. ASSUME NEW v \in AIV, AivEpilogue(v) \/ AivFinish(v) \/ Mte3SetReverse(v)
        PROVE  UNCHANGED Handoff!vars
    BY <2>4 DEF AivEpilogue, AivFinish, Mte3SetReverse, fixVars, aivVars, Handoff!vars
  <2>5. CASE UNCHANGED vars
    BY <2>5 DEF vars, fixVars, aivVars, Handoff!vars
  <2> QED
    BY <2>1, <2>2, <2>3, <2>4, <2>5 DEF Next, FixNext, AivNext, Terminated
<1> QED
  BY <1>1, <1>2, Invariance, PTL DEF Spec, Handoff!Safety
=============================================================================
