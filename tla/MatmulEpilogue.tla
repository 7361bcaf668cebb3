--------------------------- MODULE MatmulEpilogue ---------------------------
(***************************************************************************)
(* The fused kernel of gemm/kernel/matmul_epilogue.hpp on one AI core, and *)
(* the flag with a reverse direction it uses (arch/cross_core_sync.hpp).   *)
(* The AIC multiplies block after block and stores it to the workspace on  *)
(* PIPE_FIX, then raises flagAicFinishStore on the same pipe; each AIV     *)
(* waits for the flag before it runs the epilogue of that block.  Every    *)
(* ReverseDepth blocks the AIV answers with the reverse flag and the AIC   *)
(* waits for the answer.                                                   *)
(*                                                                         *)
(* The scalar unit of a core only issues instructions: what PIPE_FIX has   *)
(* been given (issued, setsIssued) and what it has done (stored, raised)   *)
(* are different counters.  A block is its ordinal in the loop of this     *)
(* core (loopIdx = BlockIdx + BlockNum * (n-1)): every block has its own   *)
(* region of the workspace and cores share nothing, so one core is enough. *)
(***************************************************************************)
EXTENDS Integers, CrossCoreFlags

CONSTANTS
    Loops,          \* blocks this core handles
    ReverseDepth    \* REVERSE_DEPTH; MAX_REVERSE_DEPTH (15) in the kernels

ASSUME LoopsAssumption == Loops \in Nat
ASSUME DepthAssumption == ReverseDepth \in Nat \ {0}

VARIABLES
    aicPc,          \* where the AIC's scalar unit is
    issued,         \* blocks whose mmad and store the AIC has issued
    setsIssued,     \* sets of flagAicFinishStore it has issued on PIPE_FIX
    aicCount,       \* flagAicFinishStore.count on the AIC
    stored,         \* stores PIPE_FIX has completed
    raised,         \* sets PIPE_FIX has executed
    finishStore,    \* the hardware counters of flagAicFinishStore.id
    aivPc,          \* aivPc[v]: where AIV v's scalar unit is
    waited,         \* waited[v]: waits AIV v has passed
    aivCount,       \* aivCount[v]: flagAicFinishStore.count on AIV v
    epilogues,      \* epilogues[v]: epilogues AIV v has run
    reverseQueued,  \* reverseQueued[v]: reverse sets in PIPE_MTE3 of AIV v
    reverse         \* the hardware counters of flagAicFinishStore.reverseId

aicVars == <<aicPc, issued, setsIssued, aicCount>>
fixVars == <<stored, raised>>
aivVars == <<aivPc, waited, aivCount, epilogues>>
vars == <<aicVars, fixVars, aivVars, finishStore, reverseQueued, reverse>>

Init ==
    /\ aicPc = "mmad"
    /\ issued = 0
    /\ setsIssued = 0
    /\ aicCount = 0
    /\ stored = 0
    /\ raised = 0
    /\ finishStore = Cleared
    /\ aivPc = [v \in AIV |-> "wait"]
    /\ waited = [v \in AIV |-> 0]
    /\ aivCount = [v \in AIV |-> 0]
    /\ epilogues = [v \in AIV |-> 0]
    /\ reverseQueued = [v \in AIV |-> 0]
    /\ reverse = Cleared
-----------------------------------------------------------------------------
(* The AIC: its scalar unit, then its fixpipe. *)

\* blockMmad(...): the store of the block goes to PIPE_FIX.
AicMmad ==
    /\ aicPc = "mmad"
    /\ issued < Loops
    /\ issued' = issued + 1
    /\ aicPc' = "set"
    /\ UNCHANGED <<setsIssued, aicCount, fixVars, aivVars, finishStore, reverseQueued, reverse>>

\* Mutation of AicSetFlag: flag.count++ where the code has ++flag.count.
AicSetFlagPostIncrement ==
    /\ aicPc = "set"
    /\ setsIssued' = setsIssued + 1
    /\ aicCount' = aicCount + 1
    /\ aicPc' = IF aicCount >= ReverseDepth THEN "reverse" ELSE "mmad"
    /\ UNCHANGED <<issued, fixVars, aivVars, finishStore, reverseQueued, reverse>>

\* CrossCoreSetFlagWithReverse, up to the test of the count.
AicSetFlag ==
    /\ aicPc = "set"
    /\ setsIssued' = setsIssued + 1
    /\ aicCount' = aicCount + 1
    /\ aicPc' = IF aicCount' >= ReverseDepth THEN "reverse" ELSE "mmad"
    /\ UNCHANGED <<issued, fixVars, aivVars, finishStore, reverseQueued, reverse>>

\* CrossCoreSetFlagWithReverse, the wait for the answer of both AIVs.
AicWaitReverse ==
    /\ aicPc = "reverse"
    /\ RaisedForAic(reverse)
    /\ reverse' = WaitedByAic(reverse)
    /\ aicCount' = 0
    /\ aicPc' = "mmad"
    /\ UNCHANGED <<issued, setsIssued, fixVars, aivVars, finishStore, reverseQueued>>

\* The end of the loop: PipeBarrier<PIPE_ALL> lets the fixpipe run empty.
AicFinish ==
    /\ aicPc = "mmad"
    /\ issued = Loops
    /\ stored = issued /\ raised = setsIssued
    /\ aicPc' = "done"
    /\ UNCHANGED <<issued, setsIssued, aicCount, fixVars, aivVars, finishStore, reverseQueued, reverse>>

\* PIPE_FIX executes in order: store, set, store, set, ...
FixStore ==
    /\ stored < issued
    /\ raised = stored
    /\ stored' = stored + 1
    /\ UNCHANGED <<aicVars, raised, aivVars, finishStore, reverseQueued, reverse>>

\* Mutation of FixSetFlag: the set is given to a pipe other than PIPE_FIX.
FixSetFlagOtherPipe ==
    /\ raised < setsIssued
    /\ raised' = raised + 1
    /\ finishStore' = SetByAic(finishStore)
    /\ UNCHANGED <<aicVars, stored, aivVars, reverseQueued, reverse>>

FixSetFlag ==
    /\ raised < setsIssued
    /\ raised < stored
    /\ raised' = raised + 1
    /\ finishStore' = SetByAic(finishStore)
    /\ UNCHANGED <<aicVars, stored, aivVars, reverseQueued, reverse>>
-----------------------------------------------------------------------------
(* The AIVs. *)

\* Mutation of AivWaitFlag: > REVERSE_DEPTH where the code has >=.
AivWaitFlagLateAnswer(v) ==
    /\ aivPc[v] = "wait"
    /\ waited[v] < Loops
    /\ RaisedForAiv(finishStore, v)
    /\ finishStore' = WaitedByAiv(finishStore, v)
    /\ waited' = [waited EXCEPT ![v] = @ + 1]
    /\ IF aivCount[v] + 1 > ReverseDepth
       THEN /\ aivCount' = [aivCount EXCEPT ![v] = 0]
            /\ reverseQueued' = [reverseQueued EXCEPT ![v] = @ + 1]
       ELSE /\ aivCount' = [aivCount EXCEPT ![v] = @ + 1]
            /\ UNCHANGED reverseQueued
    /\ aivPc' = [aivPc EXCEPT ![v] = "epilogue"]
    /\ UNCHANGED <<aicVars, fixVars, epilogues, reverse>>

\* CrossCoreWaitFlagWithReverse.  The reverse set is queued on PIPE_MTE3;
\* that pipe also carries the stores of the epilogues, in an order no
\* property depends on, so the set may take effect at any later moment.
AivWaitFlag(v) ==
    /\ aivPc[v] = "wait"
    /\ waited[v] < Loops
    /\ RaisedForAiv(finishStore, v)
    /\ finishStore' = WaitedByAiv(finishStore, v)
    /\ waited' = [waited EXCEPT ![v] = @ + 1]
    /\ IF aivCount[v] + 1 >= ReverseDepth
       THEN /\ aivCount' = [aivCount EXCEPT ![v] = 0]
            /\ reverseQueued' = [reverseQueued EXCEPT ![v] = @ + 1]
       ELSE /\ aivCount' = [aivCount EXCEPT ![v] = @ + 1]
            /\ UNCHANGED reverseQueued
    /\ aivPc' = [aivPc EXCEPT ![v] = "epilogue"]
    /\ UNCHANGED <<aicVars, fixVars, epilogues, reverse>>

Mte3SetReverse(v) ==
    /\ reverseQueued[v] > 0
    /\ reverseQueued' = [reverseQueued EXCEPT ![v] = @ - 1]
    /\ reverse' = SetByAiv(reverse, v)
    /\ UNCHANGED <<aicVars, fixVars, aivVars, finishStore>>

\* blockEpilogue(...) reads the block from the workspace.
AivEpilogue(v) ==
    /\ aivPc[v] = "epilogue"
    /\ epilogues' = [epilogues EXCEPT ![v] = @ + 1]
    /\ aivPc' = [aivPc EXCEPT ![v] = "wait"]
    /\ UNCHANGED <<aicVars, fixVars, waited, aivCount, finishStore, reverseQueued, reverse>>

AivFinish(v) ==
    /\ aivPc[v] = "wait"
    /\ waited[v] = Loops
    /\ reverseQueued[v] = 0
    /\ aivPc' = [aivPc EXCEPT ![v] = "done"]
    /\ UNCHANGED <<aicVars, fixVars, waited, aivCount, epilogues, finishStore, reverseQueued, reverse>>
-----------------------------------------------------------------------------
AicNext == AicMmad \/ AicSetFlag \/ AicWaitReverse \/ AicFinish
FixNext == FixStore \/ FixSetFlag
AivNext(v) == AivWaitFlag(v) \/ AivEpilogue(v) \/ AivFinish(v)

AllDone == aicPc = "done" /\ \A v \in AIV : aivPc[v] = "done"

\* The kernel has returned on every core.
Terminated == AllDone /\ UNCHANGED vars

Next ==
    \/ AicNext
    \/ FixNext
    \/ \E v \in AIV : AivNext(v) \/ Mte3SetReverse(v)
    \/ Terminated

\* Each scalar unit and each pipe runs on its own and never stops for good
\* while it has an instruction it can execute.
Fairness ==
    /\ WF_vars(AicNext)
    /\ WF_vars(FixNext)
    /\ \A v \in AIV : WF_vars(AivNext(v)) /\ WF_vars(Mte3SetReverse(v))

Spec == Init /\ [][Next]_vars /\ Fairness
-----------------------------------------------------------------------------
TypeOK ==
    /\ aicPc \in {"mmad", "set", "reverse", "done"}
    /\ issued \in 0..Loops
    /\ setsIssued \in 0..Loops
    /\ aicCount \in 0..ReverseDepth
    /\ stored \in 0..Loops
    /\ raised \in 0..Loops
    /\ finishStore \in [AIV -> Nat]
    /\ aivPc \in [AIV -> {"wait", "epilogue", "done"}]
    /\ waited \in [AIV -> 0..Loops]
    /\ aivCount \in [AIV -> 0..(ReverseDepth - 1)]
    /\ epilogues \in [AIV -> 0..Loops]
    /\ reverseQueued \in [AIV -> Nat]
    /\ reverse \in [AIV -> Nat]

(* The inductive invariant behind the properties below.  AicRound and      *)
(* AivRound(v) are the sets and waits of the completed rounds of           *)
(* ReverseDepth; an AIV is in the round of the AIC, or it has completed it *)
(* and exactly one reverse set of it is on its way.                        *)
AicRound == setsIssued - aicCount
AivRound(v) == waited[v] - aivCount[v]
Answers(v) == reverseQueued[v] + reverse[v]

AicInv ==
    /\ setsIssued = IF aicPc = "set" THEN issued - 1 ELSE issued
    /\ raised <= stored /\ stored <= raised + 1 /\ stored <= issued
    /\ raised <= setsIssued
    /\ aicCount >= ReverseDepth <=> aicPc = "reverse"
    /\ aicPc = "done" => issued = Loops /\ raised = Loops

AivInv(v) ==
    /\ waited[v] <= raised
    /\ finishStore[v] = raised - waited[v]
    /\ epilogues[v] = IF aivPc[v] = "epilogue" THEN waited[v] - 1 ELSE waited[v]
    /\ \/ AivRound(v) = AicRound /\ Answers(v) = 0
       \/ AivRound(v) = AicRound + ReverseDepth /\ Answers(v) = 1
    /\ aivPc[v] = "done" => waited[v] = Loops /\ reverseQueued[v] = 0

IInv == TypeOK /\ AicInv /\ \A v \in AIV : AivInv(v)

(* cross_core_sync.hpp, line 18: a flag set more than 15 times without a   *)
(* wait freezes the system.  With the reverse direction no flag is ever    *)
(* set more than ReverseDepth times ahead of the slowest AIV, and the      *)
(* reverse flag never more than once ahead of the AIC.                     *)
FlagNeverOverflows ==
    \A v \in AIV : finishStore[v] <= ReverseDepth /\ reverse[v] <= 1

(* matmul_epilogue.hpp, lines 154 and 188: an AIV past its wait for a      *)
(* block finds the block completely stored.                                *)
EpilogueReadsStoredBlock ==
    \A v \in AIV : waited[v] <= stored

(* A kernel that returns leaves both hardware flags cleared: a leftover    *)
(* count would release the first wait of the next kernel too early.        *)
FlagsClearedAtExit ==
    AllDone => finishStore = Cleared /\ reverse = Cleared

(* The flag with a reverse direction is a hand-off of capacity             *)
(* ReverseDepth: TileHandoff with its tiles stored by the fixpipe and      *)
(* taken by the AIVs' waits.                                               *)
Handoff == INSTANCE TileHandoff WITH
    Consumers <- AIV, Tiles <- Loops, Capacity <- ReverseDepth,
    produced <- stored, taken <- waited

ImplementsHandoff == Handoff!Spec
=============================================================================
