--------------------------- MODULE FlashAttention ---------------------------
(***************************************************************************)
(* The flash attention kernel of examples/23_flash_attention_infer, on one *)
(* AI core.  For each task (a block of queries of a head group) the AIC    *)
(* multiplies Q by stacks of keys into S, the AIVs turn S into P (online   *)
(* softmax), the AIC multiplies P by the same stack of values into OTmp,   *)
(* and the AIVs add OTmp to the output they keep, rescaled by the growth   *)
(* of the row maximum.  The second half of a stack runs PreLaunch turns    *)
(* after the first; S, P, OTmp and the rescaling factors dm live in rings  *)
(* of PreLaunch + 1 slots.  Three flags, qkReady, softmaxReady and         *)
(* pvReady, announce S, P and OTmp.  Nothing announces that a slot has     *)
(* been read: there is no flag in the other direction.                     *)
(*                                                                         *)
(* Data are followed by what they stand for: a tile by its task and its    *)
(* columns; a P or an O by the tiles its rows have seen, in order, which   *)
(* determine the maximum and the sum they are scaled with.  Queries share  *)
(* these, so rows are told apart by AIV only.  An instruction between the  *)
(* flags is one step on the pipe that executes it; what a tile does inside *)
(* BlockMmad or over the row loops of an epilogue is one such step.        *)
(*                                                                         *)
(* The tasks of a core are dealt in turn and cores share nothing.          *)
(***************************************************************************)
EXTENDS FlashAttentionTurns, CrossCoreFlags

CONSTANTS
    AIC,            \* the cube core
    AIV0,           \* the AIV with GetSubBlockIdx() = 0
    TaskLists,      \* the task lists a core may get
    InFlight        \* how far the AIC's scalar unit runs ahead of its pipes

ASSUME UnitsAssumption == AIC \notin AIV /\ AIV0 \in AIV
ASSUME InFlightAssumption == InFlight \in Nat \ {0}
ASSUME TasksAssumption ==
    TaskLists \subseteq Seq({t \in [qSeqlen : Nat \ {0}, kvSeqlen : Nat, qSBlockIdx : Nat,
                                  qNBlockSize : Nat \ {0}, mask : BOOLEAN] :
                               t.qSeqlen <= t.kvSeqlen /\ t.qSBlockIdx < QSBlockNum(t)})

VARIABLES
    tasks,          \* the tasks of this core
    at,             \* at[u]: the task, turn and half of it at which the scalar unit of u is
    aicMte2, cube,  \* instructions queued on the AIC: loads, multiplications
    l1,             \* its L1: Q, the event that Q has been loaded, P
    l0c,            \* its accumulator, full until PIPE_FIX has stored it
    s, p, oTmp,     \* the workspaces, by slot (P and OTmp by AIV as well)
    qkReady, softmaxReady, pvReady,     \* the flags
    mte2, vec, mte3,                    \* queues[v]: instructions of AIV v
    ub,             \* ub[v]: the unified buffer of AIV v
    output          \* output[v][i]: what AIV v has written for task i

aicVars == <<aicMte2, cube, l1, l0c>>
workspace == <<s, p, oTmp>>
flags == <<qkReady, softmaxReady, pvReady>>
queues == <<mte2, vec, mte3>>
vars == <<tasks, at, aicVars, workspace, flags, queues, ub, output>>
-----------------------------------------------------------------------------
NoTile == [task |-> 0, from |-> 0, to |-> 0]
Garbage == <<NoTile>>

\* Rows go to the second AIV when there are not two of them to share.
HasRows(v, i) ==
    LET t == tasks[i]
    IN  v # AIV0 \/ t.qNBlockSize > 1 \/ QSBlockSize(t) > 1

Ring(x) == [slot \in 0..PreLaunch |-> x]
EmptyUb == [ls |-> <<>>, lp |-> <<>>, seen |-> <<>>, dm |-> Ring(<<>>),
            lo |-> <<>>, loState |-> "free", go |-> <<>>, divided |-> FALSE]

\* Where a scalar unit is at the start of a turn and of a task.  An AIV has no
\* part in the load of Q.
AtTurn(i, turn) == [task |-> i, turn |-> turn, part |-> IF QKDue(tasks[i], turn) THEN "QK" ELSE "PV"]
AtTask(u, i) ==
    IF i > Len(tasks) THEN [task |-> i, part |-> "done"]
    ELSE [AtTurn(i, FirstTurn(tasks[i])) EXCEPT !.part = IF u = AIC THEN "Q" ELSE @]

Init ==
    /\ tasks \in TaskLists
    /\ at = [u \in {AIC} \cup AIV |-> AtTask(u, 1)]
    /\ aicMte2 = <<>> /\ cube = <<>>
    /\ l1 = [q |-> 0, qLoaded |-> 0, p |-> <<>>] /\ l0c = <<>>
    /\ s = Ring(NoTile) /\ p = Ring([v \in AIV |-> Garbage]) /\ oTmp = Ring([v \in AIV |-> Garbage])
    /\ qkReady = Cleared /\ softmaxReady = Cleared /\ pvReady = Cleared
    /\ mte2 = [v \in AIV |-> <<>>] /\ vec = mte2 /\ mte3 = mte2
    /\ ub = [v \in AIV |-> EmptyUb]
    /\ output = [v \in AIV |-> [i \in 1..Len(tasks) |-> <<>>]]

\* What a scalar unit has to issue.  A turn with neither half due is passed over.
TaskOf(u) == tasks[at[u].task]
Issues(u, unit) == at[u].part = unit /\ (unit = "PV" => PVDue(TaskOf(u), at[u].turn))

OpOf(u) ==
    CASE at[u].part = "Q" -> QOp(at[u].task)
      [] at[u].part = "QK" -> QKOp(at[u].task, TaskOf(u), at[u].turn)
      [] at[u].part = "PV" -> PVOp(at[u].task, TaskOf(u), at[u].turn)

\* What follows: the second half of the turn, the next turn, the next task.
Onward(u) ==
    LET turn == NextTurn(TaskOf(u), at[u].turn) IN
    CASE at[u].part = "Q" -> AtTurn(at[u].task, at[u].turn)
      [] at[u].part = "QK" /\ PVDue(TaskOf(u), at[u].turn) -> [at[u] EXCEPT !.part = "PV"]
      [] OTHER -> IF turn.loop = "over" THEN AtTask(u, at[u].task + 1) ELSE AtTurn(at[u].task, turn)

Issued(u) == at' = [at EXCEPT ![u] = Onward(u)]

EmptyTurn(u) ==
    /\ at[u].part = "PV" /\ ~PVDue(TaskOf(u), at[u].turn)
    /\ Issued(u)
    /\ UNCHANGED <<tasks, aicVars, workspace, flags, queues, ub, output>>
-----------------------------------------------------------------------------
(* The AIC. *)

\* loadQGM.  Nothing holds it back until the MTE1 has read the Q of the task before.
AicLoadQ ==
    /\ Issues(AIC, "Q") /\ Issued(AIC)
    /\ aicMte2' = Append(aicMte2, OpOf(AIC))
    /\ UNCHANGED <<tasks, cube, l1, l0c, workspace, flags, queues, ub, output>>

\* blockMmadQK and blockMmadQKTail.
AicIssueQK ==
    /\ Issues(AIC, "QK") /\ Len(cube) < InFlight /\ Issued(AIC)
    /\ cube' = Append(cube, OpOf(AIC))
    /\ UNCHANGED <<tasks, aicMte2, l1, l0c, workspace, flags, queues, ub, output>>

\* Mutation of AicIssuePV: P is loaded without the wait for softmaxReady.
AicIssuePVUnready ==
    /\ Issues(AIC, "PV") /\ Len(cube) < InFlight /\ Issued(AIC)
    /\ cube' = Append(cube, OpOf(AIC))
    /\ aicMte2' = Append(aicMte2, OpOf(AIC))
    /\ UNCHANGED <<tasks, l1, l0c, workspace, flags, queues, ub, output>>

\* blockMmadPV and blockMmadPVTail: computePV waits for softmaxReady before it loads P.
AicIssuePV ==
    /\ Issues(AIC, "PV") /\ Len(cube) < InFlight /\ Issued(AIC)
    /\ RaisedForAic(softmaxReady)
    /\ softmaxReady' = WaitedByAic(softmaxReady)
    /\ cube' = Append(cube, OpOf(AIC))
    /\ aicMte2' = Append(aicMte2, OpOf(AIC))
    /\ UNCHANGED <<tasks, l1, l0c, workspace, qkReady, pvReady, queues, ub, output>>

\* PIPE_MTE2.  The buffer of P in L1 is loaded again when its last use is over.
AicLoad ==
    /\ aicMte2 # <<>>
    /\ aicMte2' = Tail(aicMte2)
    /\ LET op == Head(aicMte2) IN
        \/ op.unit = "Q" /\ l1' = [l1 EXCEPT !.q = op.task, !.qLoaded = @ + 1]
        \/ op.unit = "PV" /\ l1.p = <<>> /\ l1' = [l1 EXCEPT !.p = <<p[op.slot]>>]
    /\ UNCHANGED <<tasks, at, cube, l0c, workspace, flags, queues, ub, output>>

\* PIPE_MTE1 and PIPE_M.  The first stack of a task waits for its Q.
AicMultiply ==
    /\ cube # <<>> /\ l0c = <<>>
    /\ cube' = Tail(cube)
    /\ LET op == Head(cube) IN
        \/ /\ op.unit = "QK" /\ (op.first => l1.qLoaded > 0)
           /\ l1' = IF op.first THEN [l1 EXCEPT !.qLoaded = @ - 1] ELSE l1
           /\ l0c' = <<[op |-> op, result |-> IF l1.q = op.task THEN Columns(op) ELSE NoTile]>>
        \/ /\ op.unit = "PV" /\ l1.p # <<>>
           /\ l1' = [l1 EXCEPT !.p = <<>>]
           /\ LET rows == Head(l1.p)
              IN  l0c' = <<[op |-> op,
                            result |-> [v \in AIV |-> IF Last(rows[v]) = Columns(op) THEN rows[v] ELSE Garbage]]>>
    /\ UNCHANGED <<tasks, at, aicMte2, workspace, flags, queues, ub, output>>

\* PIPE_FIX: the store and the flag that announces it.
AicStore ==
    /\ l0c # <<>>
    /\ l0c' = <<>>
    /\ LET op == Head(l0c).op
           result == Head(l0c).result
       IN  \/ /\ op.unit = "QK"
              /\ s' = [s EXCEPT ![op.slot] = result]
              /\ qkReady' = SetByAic(qkReady)
              /\ UNCHANGED <<oTmp, pvReady>>
           \/ /\ op.unit = "PV"
              /\ oTmp' = [oTmp EXCEPT ![op.slot] = result]
              /\ pvReady' = SetByAic(pvReady)
              /\ UNCHANGED <<s, qkReady>>
    /\ UNCHANGED <<tasks, at, aicMte2, cube, l1, p, softmaxReady, queues, ub, output>>
-----------------------------------------------------------------------------
(* An AIV.  Without rows it has nothing to compute, but takes its part in  *)
(* every flag.                                                             *)

Queue(queue, v, ops) == queue' = [queue EXCEPT ![v] = @ \o ops]

\* Mutation of AivSoftmax: the masked epilogue returns before the wait when it has no rows.
AivSoftmaxSkipsWait(v) ==
    /\ Issues(v, "QK") /\ Issued(v)
    /\ LET op == OpOf(v)
       IN  /\ IF op.masked /\ ~HasRows(v, op.task) THEN UNCHANGED qkReady
              ELSE RaisedForAiv(qkReady, v) /\ qkReady' = WaitedByAiv(qkReady, v)
           /\ IF HasRows(v, op.task) THEN Queue(mte2, v, <<op>>) /\ Queue(vec, v, <<op>>)
              ELSE UNCHANGED <<mte2, vec>>
           /\ Queue(mte3, v, <<op>>)
    /\ UNCHANGED <<tasks, aicVars, workspace, softmaxReady, pvReady, ub, output>>

\* Mutation of AivSoftmax: an AIV without rows does not set softmaxReady.
AivSoftmaxNoSet(v) ==
    /\ Issues(v, "QK") /\ Issued(v)
    /\ RaisedForAiv(qkReady, v)
    /\ qkReady' = WaitedByAiv(qkReady, v)
    /\ LET op == OpOf(v) IN
        IF HasRows(v, op.task) THEN Queue(mte2, v, <<op>>) /\ Queue(vec, v, <<op>>) /\ Queue(mte3, v, <<op>>)
        ELSE UNCHANGED queues
    /\ UNCHANGED <<tasks, aicVars, workspace, softmaxReady, pvReady, ub, output>>

\* The wait for qkReady (in the kernel, or in the masked epilogue), the
\* softmax and the set of softmaxReady.
AivSoftmax(v) ==
    /\ Issues(v, "QK") /\ Issued(v)
    /\ RaisedForAiv(qkReady, v)
    /\ qkReady' = WaitedByAiv(qkReady, v)
    /\ LET op == OpOf(v) IN
        /\ IF HasRows(v, op.task) THEN Queue(mte2, v, <<op>>) /\ Queue(vec, v, <<op>>)
           ELSE UNCHANGED <<mte2, vec>>
        /\ Queue(mte3, v, <<op>>)
    /\ UNCHANGED <<tasks, aicVars, workspace, softmaxReady, pvReady, ub, output>>

\* Mutation of AivRescaleO: pvReady is not waited for.
AivRescaleONoWait(v) ==
    /\ Issues(v, "PV") /\ Issued(v)
    /\ LET op == OpOf(v)
           last == IF op.last THEN <<[op EXCEPT !.unit = "O"]>> ELSE <<>>
       IN  IF HasRows(v, op.task)
           THEN Queue(mte2, v, <<op>>) /\ Queue(vec, v, <<op>> \o last) /\ Queue(mte3, v, last)
           ELSE UNCHANGED queues
    /\ UNCHANGED <<tasks, aicVars, workspace, flags, ub, output>>

\* The wait for pvReady and the rescaling; the last one divides by the sum
\* and stores the output.
AivRescaleO(v) ==
    /\ Issues(v, "PV") /\ Issued(v)
    /\ RaisedForAiv(pvReady, v)
    /\ pvReady' = WaitedByAiv(pvReady, v)
    /\ LET op == OpOf(v)
           last == IF op.last THEN <<[op EXCEPT !.unit = "O"]>> ELSE <<>>
       IN  IF HasRows(v, op.task)
           THEN Queue(mte2, v, <<op>>) /\ Queue(vec, v, <<op>> \o last) /\ Queue(mte3, v, last)
           ELSE UNCHANGED queues
    /\ UNCHANGED <<tasks, aicVars, workspace, qkReady, softmaxReady, ub, output>>

\* PIPE_MTE2.  S is loaded when the vector unit has done with the tile
\* before, OTmp when it has done with the rescaling before.  The first OTmp
\* of a task becomes the output itself; no event waits for the store of the
\* output that was there.
AivLoad(v) ==
    /\ mte2[v] # <<>>
    /\ mte2' = [mte2 EXCEPT ![v] = Tail(@)]
    /\ LET op == Head(mte2[v]) IN
        \/ /\ op.unit = "QK" /\ ub[v].ls = <<>>
           /\ ub' = [ub EXCEPT ![v].ls = <<s[op.slot]>>]
        \/ /\ op.unit = "PV" /\ ub[v].loState = "free"
           /\ ub' = [ub EXCEPT ![v].loState = "loaded",
                               ![v].go = IF op.first THEN oTmp[op.slot][v] ELSE @,
                               ![v].lo = IF op.first THEN @ ELSE oTmp[op.slot][v]]
    /\ UNCHANGED <<tasks, at, aicVars, workspace, flags, vec, mte3, output>>

\* What the rows have seen with a tile of S of the width the AIV takes it to have.
SoftmaxRows(seen, tile, op) ==
    IF tile.to - tile.from # op.width THEN Garbage
    ELSE IF op.first THEN <<tile>> ELSE Append(seen, tile)

\* One tile more.
Extends(old, new) == new = Append(old, Last(new))

\* go * dm + lo: right if dm is the growth from what go has seen to what lo has seen.
RescaledO(b, op) ==
    IF op.first THEN b.go
    ELSE IF b.lo = b.dm[op.slot] /\ Extends(b.go, b.lo) THEN b.lo ELSE Garbage

\* PIPE_V.  P is written when the store of the P before is over.
AivCompute(v) ==
    /\ vec[v] # <<>>
    /\ vec' = [vec EXCEPT ![v] = Tail(@)]
    /\ LET op == Head(vec[v])
           b == ub[v]
       IN  \/ /\ op.unit = "QK" /\ b.ls # <<>> /\ b.lp = <<>>
              /\ LET seen == SoftmaxRows(b.seen, Head(b.ls), op)
                 IN  ub' = [ub EXCEPT ![v].ls = <<>>, ![v].lp = <<seen>>, ![v].seen = seen,
                                      ![v].dm[op.slot] = IF op.first THEN @ ELSE seen]
           \/ /\ op.unit = "PV" /\ b.loState = "loaded"
              /\ ub' = [ub EXCEPT ![v].go = RescaledO(b, op), ![v].loState = "free"]
           \/ /\ op.unit = "O"
              /\ ub' = [ub EXCEPT ![v].go = IF b.go = b.seen THEN @ ELSE Garbage, ![v].divided = TRUE]
    /\ UNCHANGED <<tasks, at, aicVars, workspace, flags, mte2, mte3, output>>

\* PIPE_MTE3: the store of P and the set of softmaxReady behind it, or the
\* store of the output.
AivStore(v) ==
    /\ mte3[v] # <<>>
    /\ mte3' = [mte3 EXCEPT ![v] = Tail(@)]
    /\ LET op == Head(mte3[v]) IN
        \/ /\ op.unit = "QK"
           /\ IF HasRows(v, op.task)
              THEN /\ ub[v].lp # <<>>
                   /\ p' = [p EXCEPT ![op.slot][v] = Head(ub[v].lp)]
                   /\ ub' = [ub EXCEPT ![v].lp = <<>>]
              ELSE UNCHANGED <<p, ub>>
           /\ softmaxReady' = SetByAiv(softmaxReady, v)
           /\ UNCHANGED output
        \/ /\ op.unit = "O" /\ ub[v].divided
           /\ output' = [output EXCEPT ![v][op.task] = ub[v].go]
           /\ ub' = [ub EXCEPT ![v].divided = FALSE]
           /\ UNCHANGED <<p, softmaxReady>>
    /\ UNCHANGED <<tasks, at, aicVars, s, oTmp, qkReady, pvReady, mte2, vec>>
-----------------------------------------------------------------------------
AicScalar == EmptyTurn(AIC) \/ AicLoadQ \/ AicIssueQK \/ AicIssuePV
AivScalar(v) == EmptyTurn(v) \/ AivSoftmax(v) \/ AivRescaleO(v)

\* Every unit has issued all it has to, and the events that are waited for
\* at the end of the kernel are there.
AllDone ==
    /\ \A u \in {AIC} \cup AIV : at[u].part = "done"
    /\ aicMte2 = <<>> /\ cube = <<>> /\ l0c = <<>>
    /\ \A v \in AIV : mte2[v] = <<>> /\ vec[v] = <<>> /\ mte3[v] = <<>>

Terminated == AllDone /\ UNCHANGED vars

Next ==
    \/ AicScalar \/ AicLoad \/ AicMultiply \/ AicStore
    \/ \E v \in AIV : AivScalar(v) \/ AivLoad(v) \/ AivCompute(v) \/ AivStore(v)
    \/ Terminated

\* Each scalar unit and each pipe goes on while it has an instruction it can
\* execute.  They have finitely many, so fairness to all together is fairness
\* to each.
Fairness == WF_vars(Next)

Spec == Init /\ [][Next]_vars /\ Fairness
-----------------------------------------------------------------------------
\* The columns of a task, each once, in order.
Complete(i, seen) ==
    /\ seen # <<>>
    /\ \A k \in 1..Len(seen) :
        /\ seen[k].task = i
        /\ seen[k].from = IF k = 1 THEN 0 ELSE seen[k - 1].to
        /\ seen[k].from < seen[k].to
    /\ Last(seen).to = NoSkipKvS(tasks[i])

(* What an AIV writes for a task is what attention over exactly the        *)
(* columns the mask leaves the task yields: no stack is left out, taken    *)
(* twice or scaled with the factor of another one, although a slot of the  *)
(* rings, Q in L1 and the output in the buffer are all written again with  *)
(* no flag or event that says they have been read.                         *)
OutputWhole ==
    \A v \in AIV : \A i \in 1..Len(tasks) :
        /\ output[v][i] # <<>> => Complete(i, output[v][i])
        /\ AllDone /\ HasRows(v, i) => output[v][i] # <<>>

(* The flags have no reverse direction; still none is ever set more often  *)
(* ahead of its waits than there are slots, far below the 15 sets after    *)
(* which the hardware freezes (cross_core_sync.hpp, line 18).              *)
FlagsWithinRing ==
    \A v \in AIV : {qkReady[v], softmaxReady[v], pvReady[v]} \subseteq 0..(PreLaunch + 1)

(* The kernel returns, for every length of queries and keys, with and      *)
(* without a mask and with an AIV that has no rows, and leaves the three   *)
(* flags cleared: AIC and AIVs have counted the same stacks.               *)
Returns == <>(AllDone /\ qkReady = Cleared /\ softmaxReady = Cleared /\ pvReady = Cleared)
=============================================================================
