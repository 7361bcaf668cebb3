------------------------ MODULE MultiStageWorkspace ------------------------
(***************************************************************************)
(* The workspace ring of the multistage kernels, on one AI core:           *)
(* gemm/kernel/quant_matmul_multistage_workspace.hpp and                   *)
(* grouped_matmul_slice_m_per_token_dequant_multistage_workspace.hpp.      *)
(*                                                                         *)
(* The AIC stores the blocks of its loop in a ring of WORKSPACE_STAGES     *)
(* slots; each AIV dequantises them from there.  Slot s has two flags:     *)
(* aicFinishStore[s] says that it is full, aivFinishCompute[s] that an AIV *)
(* has finished with it.  There is one ring per AI core (offsetC starts at *)
(* (stageId * coreNum + coreIdx) * L1TileShape::M), so one core is enough. *)
(*                                                                         *)
(* With an asynchronous BlockMmad the callbacks that wait and set run when *)
(* the block leaves its preload pipeline, after the kernel's loop went on; *)
(* they keep the stage they were made with.  The scalar unit of an AIV     *)
(* runs ahead of its pipes in the same way.                                *)
(***************************************************************************)
EXTENDS Integers, CrossCoreFlags

CONSTANTS
    Loops,      \* blocks this core handles
    Stages,     \* WORKSPACE_STAGES
    Preload     \* blocks BlockMmad may hold back; 0 when it is synchronous

ASSUME LoopsAssumption == Loops \in Nat
ASSUME StagesAssumption == Stages \in Nat \ {0}
ASSUME PreloadAssumption == Preload \in Nat

Stage == 0..(Stages - 1)
Block == 1..Loops

\* The content of a slot no block has been stored to, or that is being written.
Torn == 0

VARIABLES
    aicPc,              \* "loop", "drain" or "done"
    enqueued,           \* blocks handed to blockMmad
    stageId, stageUsed, \* the AIC's variables of these names
    stageOf,            \* stageOf[i]: the stage captured by block i's callbacks
    mustWait,           \* mustWait[i]: block i was given a callbackBeforeFixpipe
    issued,             \* blocks whose fixpipe is issued, callbacks included
    storing,            \* PIPE_FIX is in the middle of a store
    stored,             \* stores PIPE_FIX has completed
    raised,             \* sets of aicFinishStore PIPE_FIX has executed
    slot,               \* slot[s]: the block in slot s of the workspace
    finishStore,        \* finishStore[s]: hardware counters of flagAicFinishStoreList[s]
    finishCompute,      \* finishCompute[s]: those of flagAivFinishComputeList[s]
    aivStage,           \* aivStage[v]: stageId of AIV v
    waited,             \* waited[v]: waits AIV v has passed
    takenFrom,          \* takenFrom[v][i]: the stage AIV v used for its i-th block
    loaded,             \* loaded[v]: blocks the pipes of AIV v have read
    got,                \* got[v]: what the last of these reads returned
    released            \* released[v]: sets of aivFinishCompute AIV v has executed

kernelVars == <<aicPc, enqueued, stageId, stageUsed, stageOf, mustWait>>
fixVars == <<storing, stored, raised, slot>>
aivVars == <<aivStage, waited, takenFrom, loaded, got, released>>
vars == <<kernelVars, issued, fixVars, finishStore, finishCompute, aivVars>>

Init ==
    /\ aicPc = "loop"
    /\ enqueued = 0 /\ stageId = 0 /\ stageUsed = 0
    /\ stageOf = [i \in Block |-> 0]
    /\ mustWait = [i \in Block |-> FALSE]
    /\ issued = 0
    /\ storing = FALSE /\ stored = 0 /\ raised = 0
    /\ slot = [s \in Stage |-> Torn]
    /\ finishStore = [s \in Stage |-> Cleared]
    /\ finishCompute = [s \in Stage |-> Cleared]
    /\ aivStage = [v \in AIV |-> 0]
    /\ waited = [v \in AIV |-> 0]
    /\ takenFrom = [v \in AIV |-> [i \in Block |-> 0]]
    /\ loaded = [v \in AIV |-> 0]
    /\ got = [v \in AIV |-> Torn]
    /\ released = [v \in AIV |-> 0]

NextStage(s) == IF s + 1 < Stages THEN s + 1 ELSE 0
-----------------------------------------------------------------------------
(* The AIC's scalar unit. *)

\* Mutation of AicLoop: the first turn of the ring is never told from the
\* later ones, so no block gets a callbackBeforeFixpipe.
AicLoopNeverWaits ==
    /\ aicPc = "loop"
    /\ enqueued < Loops
    /\ enqueued - issued <= Preload
    /\ enqueued' = enqueued + 1
    /\ stageOf' = [stageOf EXCEPT ![enqueued'] = stageId]
    /\ stageUsed' = IF stageUsed = Stages THEN stageUsed ELSE stageUsed + 1
    /\ stageId' = NextStage(stageId)
    /\ UNCHANGED <<aicPc, mustWait, issued, fixVars, finishStore, finishCompute, aivVars>>

\* One turn of the kernel's loop.  blockMmad returns with at most Preload
\* blocks held back.
AicLoop ==
    /\ aicPc = "loop"
    /\ enqueued < Loops
    /\ enqueued - issued <= Preload
    /\ enqueued' = enqueued + 1
    /\ stageOf' = [stageOf EXCEPT ![enqueued'] = stageId]
    /\ mustWait' = [mustWait EXCEPT ![enqueued'] = (stageUsed = Stages)]
    /\ stageUsed' = IF stageUsed = Stages THEN stageUsed ELSE stageUsed + 1
    /\ stageId' = NextStage(stageId)
    /\ UNCHANGED <<aicPc, issued, fixVars, finishStore, finishCompute, aivVars>>

\* A block reaches its fixpipe inside blockMmad: callbackBeforeFixpipe (a
\* blocking wait), the store, callbackAfterFixpipe.
AicFixpipe ==
    /\ issued < enqueued
    /\ issued' = issued + 1
    /\ LET s == stageOf[issued'] IN
        IF mustWait[issued']
        THEN /\ RaisedForAic(finishCompute[s])
             /\ finishCompute' = [finishCompute EXCEPT ![s] = WaitedByAic(@)]
        ELSE UNCHANGED finishCompute
    /\ UNCHANGED <<kernelVars, fixVars, finishStore, aivVars>>

\* Mutation of AicSynchronizeBlock: the drain loop that follows is missing.
AicSynchronizeBlockNoDrain ==
    /\ aicPc = "loop"
    /\ enqueued = Loops /\ issued = enqueued
    /\ aicPc' = "drain"
    /\ stageUsed' = 0
    /\ UNCHANGED <<enqueued, stageId, stageOf, mustWait, issued, fixVars,
                   finishStore, finishCompute, aivVars>>

\* After the loop: SynchronizeBlock flushes the blocks held back.
AicSynchronizeBlock ==
    /\ aicPc = "loop"
    /\ enqueued = Loops /\ issued = enqueued
    /\ aicPc' = "drain"
    /\ UNCHANGED <<enqueued, stageId, stageUsed, stageOf, mustWait, issued, fixVars,
                   finishStore, finishCompute, aivVars>>

\* while (stageUsed > 0): take back the slots not waited for yet.
AicDrain ==
    /\ aicPc = "drain"
    /\ stageUsed > 0
    /\ LET s == IF stageId >= stageUsed THEN stageId - stageUsed ELSE stageId + Stages - stageUsed IN
        /\ RaisedForAic(finishCompute[s])
        /\ finishCompute' = [finishCompute EXCEPT ![s] = WaitedByAic(@)]
    /\ stageUsed' = stageUsed - 1
    /\ UNCHANGED <<aicPc, enqueued, stageId, stageOf, mustWait, issued, fixVars, finishStore, aivVars>>

\* PipeBarrier<PIPE_ALL>.
AicFinish ==
    /\ aicPc = "drain"
    /\ stageUsed = 0 /\ raised = issued
    /\ aicPc' = "done"
    /\ UNCHANGED <<enqueued, stageId, stageUsed, stageOf, mustWait, issued, fixVars,
                   finishStore, finishCompute, aivVars>>
-----------------------------------------------------------------------------
(* PIPE_FIX executes in order: store, set, store, set, ... *)

FixStoreBegin ==
    /\ ~storing
    /\ stored < issued /\ raised = stored
    /\ storing' = TRUE
    /\ slot' = [slot EXCEPT ![stageOf[stored + 1]] = Torn]
    /\ UNCHANGED <<kernelVars, issued, stored, raised, finishStore, finishCompute, aivVars>>

FixStoreEnd ==
    /\ storing
    /\ storing' = FALSE
    /\ stored' = stored + 1
    /\ slot' = [slot EXCEPT ![stageOf[stored']] = stored']
    /\ UNCHANGED <<kernelVars, issued, raised, finishStore, finishCompute, aivVars>>

\* AicSetFunc, on PIPE_FIX.
FixSet ==
    /\ raised < stored
    /\ raised' = raised + 1
    /\ finishStore' = [finishStore EXCEPT ![stageOf[raised']] = SetByAic(@)]
    /\ UNCHANGED <<kernelVars, issued, storing, stored, slot, finishCompute, aivVars>>
-----------------------------------------------------------------------------
(* AIV v: its scalar unit, then its pipes. *)

AivWait(v) ==
    /\ waited[v] < Loops
    /\ RaisedForAiv(finishStore[aivStage[v]], v)
    /\ finishStore' = [finishStore EXCEPT ![aivStage[v]] = WaitedByAiv(@, v)]
    /\ waited' = [waited EXCEPT ![v] = @ + 1]
    /\ takenFrom' = [takenFrom EXCEPT ![v][waited[v] + 1] = aivStage[v]]
    /\ aivStage' = [aivStage EXCEPT ![v] = NextStage(@)]
    /\ UNCHANGED <<kernelVars, issued, fixVars, finishCompute, loaded, got, released>>

\* The epilogue reads the slot on PIPE_MTE2.
AivLoad(v) ==
    /\ loaded[v] < waited[v]
    /\ loaded' = [loaded EXCEPT ![v] = @ + 1]
    /\ got' = [got EXCEPT ![v] = slot[takenFrom[v][loaded[v] + 1]]]
    /\ UNCHANGED <<kernelVars, issued, fixVars, finishStore, finishCompute,
                   aivStage, waited, takenFrom, released>>

\* Mutation of AivSet: the slot is given back before the epilogue reads it.
AivSetBeforeEpilogue(v) ==
    /\ released[v] < waited[v]
    /\ released' = [released EXCEPT ![v] = @ + 1]
    /\ finishCompute' = [finishCompute EXCEPT ![takenFrom[v][released[v] + 1]] = SetByAiv(@, v)]
    /\ UNCHANGED <<kernelVars, issued, fixVars, finishStore, aivStage, waited, takenFrom, loaded, got>>

\* The set follows the epilogue's stores on PIPE_MTE3.
AivSet(v) ==
    /\ released[v] < loaded[v]
    /\ released' = [released EXCEPT ![v] = @ + 1]
    /\ finishCompute' = [finishCompute EXCEPT ![takenFrom[v][released[v] + 1]] = SetByAiv(@, v)]
    /\ UNCHANGED <<kernelVars, issued, fixVars, finishStore, aivStage, waited, takenFrom, loaded, got>>
-----------------------------------------------------------------------------
AicNext == AicLoop \/ AicFixpipe \/ AicSynchronizeBlock \/ AicDrain \/ AicFinish
FixNext == FixStoreBegin \/ FixStoreEnd \/ FixSet
AivNext(v) == AivWait(v) \/ AivLoad(v) \/ AivSet(v)

AllDone == aicPc = "done" /\ \A v \in AIV : released[v] = Loops

\* The kernel has returned on every core.
Terminated == AllDone /\ UNCHANGED vars

Next ==
    \/ AicNext
    \/ FixNext
    \/ \E v \in AIV : AivNext(v)
    \/ Terminated

\* Each scalar unit and each pipe runs on its own and never stops for good
\* while it has an instruction it can execute.
Fairness ==
    /\ WF_vars(AicNext)
    /\ WF_vars(FixNext)
    /\ \A v \in AIV : WF_vars(AivWait(v)) /\ WF_vars(AivLoad(v)) /\ WF_vars(AivSet(v))

Spec == Init /\ [][Next]_vars /\ Fairness
-----------------------------------------------------------------------------
TypeOK ==
    /\ aicPc \in {"loop", "drain", "done"}
    /\ enqueued \in 0..Loops /\ issued \in 0..Loops
    /\ stageId \in Stage /\ stageUsed \in 0..Stages
    /\ stageOf \in [Block -> Stage] /\ mustWait \in [Block -> BOOLEAN]
    /\ storing \in BOOLEAN /\ stored \in 0..Loops /\ raised \in 0..Loops
    /\ slot \in [Stage -> 0..Loops]
    /\ finishStore \in [Stage -> [AIV -> Nat]]
    /\ finishCompute \in [Stage -> [AIV -> Nat]]
    /\ aivStage \in [AIV -> Stage]
    /\ takenFrom \in [AIV -> [Block -> Stage]]
    /\ waited \in [AIV -> 0..Loops]
    /\ loaded \in [AIV -> 0..Loops]
    /\ got \in [AIV -> 0..Loops]
    /\ released \in [AIV -> 0..Loops]

(* The inductive invariant.  Reclaimed is the number of waits for          *)
(* aivFinishCompute the AIC has passed: the slots in use are those of the  *)
(* blocks Reclaimed+1 .. issued, never more than Stages of them.           *)
Reclaimed ==
    IF aicPc = "loop" THEN IF issued > Stages THEN issued - Stages ELSE 0
                      ELSE enqueued - stageUsed

\* The stage of block i, one of the last Stages blocks enqueued, counted
\* back from the AIC's stageId.
StageBefore(i) ==
    LET back == enqueued - i + 1 IN
    IF stageId >= back THEN stageId - back ELSE stageId + Stages - back

RingInv ==
    /\ \A i \in Block : i <= enqueued /\ enqueued - i < Stages => stageOf[i] = StageBefore(i)
    /\ \A i, j \in Block : i < j /\ j <= enqueued /\ j - i < Stages => stageOf[i] # stageOf[j]
    /\ \A i \in Block : i < enqueued => stageOf[i + 1] = NextStage(stageOf[i])
    /\ enqueued = 0 => stageId = 0
    /\ enqueued > 0 => stageOf[1] = 0 /\ stageId = NextStage(stageOf[enqueued])

AicInv ==
    /\ \A i \in Block : i <= enqueued => (mustWait[i] <=> i > Stages)
    /\ aicPc = "loop" => stageUsed = IF enqueued < Stages THEN enqueued ELSE Stages
    /\ aicPc # "loop" => enqueued = Loops /\ issued = Loops /\ stageUsed <= enqueued
    /\ aicPc = "done" => stageUsed = 0 /\ raised = issued
    /\ raised <= stored /\ stored <= raised + 1 /\ stored <= issued /\ issued <= enqueued
    /\ storing => stored = raised /\ stored < issued

SlotInv ==
    \A i \in Block : Reclaimed < i /\ i <= stored => slot[stageOf[i]] = i

AivInv(v) ==
    /\ Reclaimed <= released[v] /\ released[v] <= loaded[v]
    /\ loaded[v] <= waited[v] /\ waited[v] <= raised
    /\ aivStage[v] = IF waited[v] < enqueued THEN stageOf[waited[v] + 1] ELSE stageId
    /\ \A i \in Block : i <= waited[v] => takenFrom[v][i] = stageOf[i]
    /\ got[v] = loaded[v]

FlagInv(v) ==
    \A s \in Stage :
        /\ finishStore[s][v] = IF \E i \in Block : waited[v] < i /\ i <= raised /\ stageOf[i] = s
                               THEN 1 ELSE 0
        /\ finishCompute[s][v] = IF \E i \in Block : Reclaimed < i /\ i <= released[v] /\ stageOf[i] = s
                                 THEN 1 ELSE 0

IInv == TypeOK /\ RingInv /\ AicInv /\ SlotInv /\ \A v \in AIV : AivInv(v) /\ FlagInv(v)

(* Every AIV reads each block of this core, in order and whole: the slot   *)
(* it reads holds the block its loop is at, not an older one, a newer one  *)
(* or one half stored.                                                     *)
AivReadsItsBlock ==
    \A v \in AIV : got[v] = loaded[v]

(* From the wait on aicFinishStore to the set of aivFinishCompute a slot   *)
(* belongs to the AIV: the fixpipe neither starts nor finishes a store to  *)
(* it, however far the AIC has run ahead.                                  *)
SlotHeldUntilReleased ==
    \A v \in AIV : \A i \in (released[v] + 1)..waited[v] : slot[takenFrom[v][i]] = i

(* Between a set and its wait no flag is set again, so its counter is 0 or *)
(* 1 and cannot reach the limit of 15 (arch/cross_core_sync.hpp, line 18)  *)
(* although these kernels use no reverse flag.                             *)
FlagsAreBinary ==
    \A s \in Stage, v \in AIV : finishStore[s][v] <= 1 /\ finishCompute[s][v] <= 1

(* A kernel that returns leaves every hardware flag cleared: the drain     *)
(* loop takes exactly the sets no callback has waited for, also when the   *)
(* core has fewer blocks than stages, or none.                             *)
FlagsClearedAtExit ==
    AllDone => \A s \in Stage : finishStore[s] = Cleared /\ finishCompute[s] = Cleared

(* The ring is a hand-off of capacity Stages: TileHandoff with its tiles   *)
(* stored by the fixpipe and given back by the AIVs' sets.                 *)
Handoff == INSTANCE TileHandoff WITH
    Consumers <- AIV, Tiles <- Loops, Capacity <- Stages,
    produced <- stored, taken <- released

ImplementsHandoff == Handoff!Spec
=============================================================================
