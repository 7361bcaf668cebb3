-------------------------- MODULE BlockMmadPrologue --------------------------
(***************************************************************************)
(* gemm/block/block_mmad_pingpong_with_prologue.hpp with a prologue for B, *)
(* as gemm/kernel/w8a16_matmul.hpp and w4a8_matmul.hpp use it: the AIVs    *)
(* convert the k tiles of B to the type of A, each AIV its lines, into a   *)
(* ring of STAGES tiles in GM, from which the AIC loads them to L1.  The   *)
(* AIC is BlockMmadPingpong with another load of B; an AIV goes through    *)
(* the same tiles on its own.  Two flags for each slot of the ring keep    *)
(* the sides apart.                                                        *)
(***************************************************************************)
EXTENDS MmadInstructions, CrossCoreFlags

CONSTANTS
    Blocks, KTiles, LastKParts, KParts, Stages,     \* as BlockMmadPingpong has them
    Idle            \* pairs <<v, tile>>: AIV v has no line of the tile

VARIABLES
    pc, block, kLoopIdx, l1ListId, l0AListId, l0BListId,    \* of the AIC
    flagPrologueBFinish,    \* flagPrologueBFinish[i]: AIV sets, AIC waits
    taken,          \* taken[v][i]: sets of flagCopyBFinish[i] that AIV v has waited for
    waited,         \* waited[v]: tiles for which the scalar unit of AIV v has waited
    stored,         \* stored[v]: tiles that MTE3 of AIV v is through with
    storing         \* AIVs in the middle of a store

aivVars == <<taken, waited, stored, storing>>
aicVars == <<pc, block, kLoopIdx, l1ListId, l0AListId, l0BListId>>
vars == <<aicVars, flagPrologueBFinish, aivVars, pipeVars>>
-----------------------------------------------------------------------------
\* AIV v's lines of the tile in slot i of the workspace.
Workspace(i, v) == <<"workspace", i, v>>
SlotOfAivs(i) == {Workspace(i, v) : v \in AIV}

\* flagCopyBFinish[i], set by the AIC on PIPE_MTE2: the event counts all sets.
FlagCopyB(i) == <<"MTE2", "AIV", i>>
WaitPrologueB(i) == [pipe |-> "S", op |-> "wait", slot |-> i]

LinesOf(tile, i) == {Workspace(i, v) : v \in {v \in AIV : <<v, tile>> \notin Idle}}

\* Mutation of LoadTileB: the slot is given back before it is loaded.
LoadTileBEarly(tile, i, stages) ==
    << WaitFlag(MTE1_MTE2(L1BEvent(i, stages))), WaitPrologueB(i), SetFlag(FlagCopyB(i)),
       Gather("MTE2", LinesOf(tile, i), L1B(i)), SetFlag(MTE2_MTE1(L1BEvent(i, stages))) >>

\* B comes from the workspace, when both AIVs have filled the slot.
LoadTileB(tile, i, stages) ==
    << WaitFlag(MTE1_MTE2(L1BEvent(i, stages))), WaitPrologueB(i),
       Gather("MTE2", LinesOf(tile, i), L1B(i)), SetFlag(FlagCopyB(i)), SetFlag(MTE2_MTE1(L1BEvent(i, stages))) >>

FetchTileWithPrologue(tile, i, stages) == LoadTileA(tile, i) \o LoadTileB(tile, i, stages)

Aic == INSTANCE BlockMmadPingpong WITH FetchTile <- FetchTileWithPrologue

Ring == 0..(Stages - 1)
\* The tiles of all blocks, in the order of both sides.
TileList == FlattenSeq([b \in 1..Blocks |-> [k \in 1..KTiles[b] |-> <<b, k - 1>>]])

Init ==
    /\ pc = "ctor"
    /\ block = 0 /\ kLoopIdx = 0
    /\ l1ListId = 0 /\ l0AListId = 0 /\ l0BListId = 0
    /\ flagPrologueBFinish = [i \in Ring |-> Cleared]
    /\ taken = [v \in AIV |-> [i \in Ring |-> 0]]
    /\ waited = [v \in AIV |-> 0] /\ stored = [v \in AIV |-> 0]
    /\ storing = {}
    /\ todo = <<>>
    /\ PipesInit(Aic!Buffers \union UNION {SlotOfAivs(i) : i \in Ring}, Aic!Events \union {FlagCopyB(i) : i \in Ring})

\* The constructor on the AIC: the slots of the ring are free, too.
Construct ==
    /\ pc = "ctor"
    /\ todo' = [i \in 1..Stages |-> SetFlag(FlagCopyB(i - 1))]
               \o [i \in DOMAIN Aic!InitialEvents |-> SetFlag(Aic!InitialEvents[i])]
    /\ pc' = "idle"
    /\ UNCHANGED <<block, kLoopIdx, l1ListId, l0AListId, l0BListId, flagPrologueBFinish, aivVars,
                   queue, busy, event, mem>>

\* CrossCoreWaitFlag on the AIC.
ScalarWait ==
    /\ todo # <<>> /\ Head(todo).pipe = "S"
    /\ RaisedForAic(flagPrologueBFinish[Head(todo).slot])
    /\ flagPrologueBFinish' = [flagPrologueBFinish EXCEPT ![Head(todo).slot] = WaitedByAic(@)]
    /\ todo' = Tail(todo)
    /\ UNCHANGED <<aicVars, aivVars, queue, busy, event, mem>>

ScalarNext ==
    \/ Construct \/ ScalarWait
    \/ /\ Aic!Call \/ Aic!KLoop \/ Aic!CopyOut \/ Aic!Destroy \/ (Issue /\ UNCHANGED aicVars)
       /\ UNCHANGED <<flagPrologueBFinish, aivVars>>
PipeNext(p) == Execute(p) /\ UNCHANGED <<aicVars, flagPrologueBFinish, aivVars>>
-----------------------------------------------------------------------------
Take(v, i) ==
    /\ event[FlagCopyB(i)] > taken[v][i]
    /\ taken' = [taken EXCEPT ![v][i] = @ + 1]
    /\ waited' = [waited EXCEPT ![v] = @ + 1]
    /\ UNCHANGED <<aicVars, flagPrologueBFinish, stored, storing, pipeVars>>

\* One turn of PrologueImpl on the scalar unit of AIV v, as far as it blocks.
Prologue(v) ==
    /\ waited[v] < Len(TileList)
    /\ Take(v, waited[v] % Stages)

\* One turn of the destructor's loop on AIV v.
DestroyAiv(v) ==
    LET i == waited[v] - Len(TileList) IN
    /\ i \in Ring
    /\ Take(v, i)

\* MTE3 of AIV v at the next tile.
Slot(v) == stored[v] % Stages
NextTile(v) == TileList[stored[v] + 1]
Pending(v) == stored[v] < waited[v] /\ stored[v] < Len(TileList)

\* prologueB stores its lines: half of them are there.
BeginStore(v) ==
    /\ Pending(v) /\ v \notin storing /\ <<v, NextTile(v)>> \notin Idle
    /\ storing' = storing \union {v}
    /\ mem' = [mem EXCEPT ![Workspace(Slot(v), v)] = Garbage]
    /\ UNCHANGED <<aicVars, flagPrologueBFinish, taken, waited, stored, todo, queue, busy, event>>

\* All of them are, and flagPrologueBFinish is set behind them.
EndStore(v) ==
    /\ v \in storing
    /\ storing' = storing \ {v}
    /\ mem' = [mem EXCEPT ![Workspace(Slot(v), v)] = {NextTile(v)}]
    /\ stored' = [stored EXCEPT ![v] = @ + 1]
    /\ flagPrologueBFinish' = [flagPrologueBFinish EXCEPT ![Slot(v)] = SetByAiv(@, v)]
    /\ UNCHANGED <<aicVars, taken, waited, todo, queue, busy, event>>

\* Mutation of StoreNothing: without lines, no flag.
StoreNothingNoFlag(v) ==
    /\ Pending(v) /\ <<v, NextTile(v)>> \in Idle
    /\ stored' = [stored EXCEPT ![v] = @ + 1]
    /\ UNCHANGED <<aicVars, flagPrologueBFinish, taken, waited, storing, pipeVars>>

\* Without lines the flag is set all the same.
StoreNothing(v) ==
    /\ Pending(v) /\ <<v, NextTile(v)>> \in Idle
    /\ stored' = [stored EXCEPT ![v] = @ + 1]
    /\ flagPrologueBFinish' = [flagPrologueBFinish EXCEPT ![Slot(v)] = SetByAiv(@, v)]
    /\ UNCHANGED <<aicVars, taken, waited, storing, pipeVars>>

AivNext(v) == Prologue(v) \/ DestroyAiv(v) \/ BeginStore(v) \/ EndStore(v) \/ StoreNothing(v)

AivDestroyed(v) == waited[v] = Len(TileList) + Stages /\ stored[v] = Len(TileList)
Destroyed == Aic!Destroyed /\ \A v \in AIV : AivDestroyed(v)
Terminated == Destroyed /\ UNCHANGED vars

Next == ScalarNext \/ (\E p \in Pipe : PipeNext(p)) \/ (\E v \in AIV : AivNext(v)) \/ Terminated

\* The scalar unit and the pipes of the AIC and the AIVs go on while they can.
Fairness ==
    /\ WF_vars(ScalarNext)
    /\ \A p \in Pipe : WF_vars(PipeNext(p))
    /\ \A v \in AIV : WF_vars(AivNext(v))

Spec == Init /\ [][Next]_vars /\ Fairness
-----------------------------------------------------------------------------
(* No AIV writes lines that the AIC is loading. *)
WorkspaceRaceFree ==
    "MTE2" \in busy => \A v \in storing : Workspace(Slot(v), v) \notin Head(queue["MTE2"]).reads

(* How the destructors should leave things: each block made of all its k   *)
(* parts, those of B converted for that very tile, and every event and     *)
(* every flag back to zero.                                                *)
CleanExit ==
    /\ Destroyed
    /\ Aic!CleanExit
    /\ \A i \in Ring : flagPrologueBFinish[i] = Cleared /\ \A v \in AIV : taken[v][i] = event[FlagCopyB(i)]
=============================================================================
