-------------------------------- MODULE Pipes --------------------------------
(***************************************************************************)
(* The instruction pipes of an AIC or an AIV, hardware outside this        *)
(* repository, modelled from how the BlockMmad classes of gemm/block and   *)
(* the epilogues of epilogue/block use it.                                 *)
(*                                                                         *)
(* The scalar unit issues instructions in program order, each to the queue *)
(* of its pipe; a full queue stalls the scalar unit.  Each pipe executes   *)
(* its queue in order and independently of the others.  On an AIC, MTE2    *)
(* loads GM to L1, MTE1 copies L1 to L0, M multiplies, FIX stores L0C to   *)
(* GM; on an AIV, MTE2 loads GM to UB, V computes, MTE3 stores UB to GM.   *)
(* SetFlag<A_B>(id) is an instruction of pipe A, WaitFlag<A_B>(id) one of  *)
(* pipe B that takes one set; an event counts its sets.                    *)
(*                                                                         *)
(* A transfer or a multiplication takes time: between Begin and End the    *)
(* pipe is busy with its buffers.  A buffer holds a set of names: in L1    *)
(* the tile {<<block, k tile>>}, in L0 its part {<<block, k tile, part>>}, *)
(* in L0C and GM the parts accumulated so far; a multiplication whose      *)
(* operands have names of their own accumulates the pairs; one that also   *)
(* reads a bias starts from it.  An atomic add needs something to add to:  *)
(* nobody clears GM.  Where places matter, UB and each matrix in GM is a   *)
(* memory, a function from offsets, and an instruction moves what is at    *)
(* places[d] behind `from` to d behind `to`.                               *)
(***************************************************************************)
EXTENDS Integers, Sequences, FiniteSets

CONSTANT QueueDepth     \* instructions a pipe's queue holds

Pipe == {"MTE2", "MTE1", "M", "FIX", "V", "MTE3"}

\* Buffers: slot i of a ring, and the block of C in GM that a block is stored to.
L1A(i) == <<"l1A", i>>
L1B(i) == <<"l1B", i>>
L0A(i) == <<"l0A", i>>
L0B(i) == <<"l0B", i>>
L0C(i) == <<"l0C", i>>
GmC(b) == <<"gmC", b>>

\* AscendC::HardEvent with an event id: <<from pipe, to pipe, id>>.
MTE1_MTE2(id) == <<"MTE1", "MTE2", id>>
MTE2_MTE1(id) == <<"MTE2", "MTE1", id>>
M_MTE1(id) == <<"M", "MTE1", id>>
MTE1_M(id) == <<"MTE1", "M", id>>
M_FIX(id) == <<"M", "FIX", id>>
FIX_M(id) == <<"FIX", "M", id>>
MTE2_V(id) == <<"MTE2", "V", id>>
V_MTE2(id) == <<"V", "MTE2", id>>
V_MTE3(id) == <<"V", "MTE3", id>>
MTE3_V(id) == <<"MTE3", "V", id>>
MTE3_MTE2(id) == <<"MTE3", "MTE2", id>>
MTE2_MTE3(id) == <<"MTE2", "MTE3", id>>

\* The product of operands that do not belong together: no part has this name.
Garbage == {<<>>}

VARIABLES
    todo,       \* instructions the scalar unit has still to issue
    queue,      \* queue[p]: instructions pipe p has still to execute
    busy,       \* pipes in the middle of the instruction at their head
    event,      \* event[e]: sets of event e = <<from, to, id>> not waited for
    mem         \* mem[b]: the content of buffer b

pipeVars == <<todo, queue, busy, event, mem>>

SetFlag(e) == [pipe |-> e[1], op |-> "set", event |-> e]
WaitFlag(e) == [pipe |-> e[2], op |-> "wait", event |-> e]
OnlyIf(condition, instruction) == IF condition THEN <<instruction>> ELSE <<>>

LoadAll(tile, to) == [pipe |-> "MTE2", op |-> "load", reads |-> {}, writes |-> to, tile |-> tile]
Load(tile, to) == LoadAll(tile, {to})
Copy(from, part, to) == [pipe |-> "MTE1", op |-> "copy", reads |-> {from}, writes |-> {to}, part |-> part]
Mmad(a, b, c, initC) == [pipe |-> "M", op |-> "mmad", reads |-> {a, b}, writes |-> {c},
                         a |-> a, b |-> b, c |-> c, initC |-> initC]
Product(a, b, c, initC) == [Mmad(a, b, c, initC) EXCEPT !.op = "product"]
Gather(pipe, from, to) == [pipe |-> pipe, op |-> "gather", reads |-> from, writes |-> {to}]
Store(c, to) == Gather("FIX", {c}, to)
AtomicAdd(c, to) == [Store(c, to) EXCEPT !.op = "add"]
\* Offsets of UB that lie `offsets` behind an address <<memory, offset>>.
Nowhere == -1
InUB(address, offsets) == IF address[1] = "ub" THEN {address[2] + o : o \in offsets \ {Nowhere}} ELSE {}

Move(pipe, to, from, places) ==
    [pipe |-> pipe, op |-> "move", reads |-> InUB(from, {places[d] : d \in DOMAIN places}),
     writes |-> InUB(to, DOMAIN places), to |-> to, from |-> from, places |-> places]

\* The memory a move leaves; what comes from nowhere is of no use.  A move
\* "muls" multiplies on the way.
Moved(i) ==
    LET source == i.from[1]
        held(o) == IF source \in DOMAIN mem THEN mem[source][o] ELSE <<source, o>>
        changed(x) == IF i.op = "muls" THEN Append(x, "alpha") ELSE x
        arrives(s) == IF s = Nowhere THEN <<>> ELSE changed(held(i.from[2] + s))
    IN  [o \in DOMAIN mem[i.to[1]] |->
           IF o - i.to[2] \in DOMAIN i.places THEN arrives(i.places[o - i.to[2]]) ELSE mem[i.to[1]][o]]

\* The content an instruction leaves in the buffers it writes.
Result(i) ==
    CASE i.op = "load" -> {i.tile}
      [] i.op = "copy" -> {Append(tile, i.part) : tile \in UNION {mem[b] : b \in i.reads}}
      [] i.op = "gather" -> UNION {mem[b] : b \in i.reads}
      [] i.op = "add" ->
            LET held == UNION {mem[b] : b \in i.writes}
                new == UNION {mem[b] : b \in i.reads}
            IN  IF held = {} \/ held \cap new # {} THEN Garbage ELSE held \union new
      [] i.op \in {"mmad", "product"} ->
            LET bias == UNION {mem[b] : b \in i.reads \ {i.a, i.b}}
                acc == IF i.initC THEN bias ELSE mem[i.c] IN
            CASE i.op = "product" -> acc \union (mem[i.a] \X mem[i.b])
              [] mem[i.a] = mem[i.b] /\ mem[i.a] \cap acc = {} -> acc \union mem[i.a]
              [] OTHER -> Garbage

PipesHolding(content, events) ==
    /\ queue = [p \in Pipe |-> <<>>]
    /\ busy = {}
    /\ event = [e \in events |-> 0]
    /\ mem = content
PipesInit(buffers, events) == PipesHolding([b \in buffers |-> {}], events)

\* Sets at the head of a queue.
LeadingSets(q) == CHOOSE n \in 0..Len(q) :
    (\A i \in 1..n : q[i].op = "set") /\ (n < Len(q) => q[n + 1].op # "set")

\* Queue p becomes q, but for the sets at its head: they take effect at once.
\* A pipe that is slower with a set only keeps others waiting.
Becomes(p, q, events) ==
    LET n == LeadingSets(q)
        sets(e) == Cardinality({i \in 1..n : q[i].event = e})
    IN  /\ queue' = [queue EXCEPT ![p] = SubSeq(q, n + 1, Len(q))]
        /\ event' = IF n = 0 THEN events ELSE [e \in DOMAIN events |-> events[e] + sets(e)]

\* The scalar unit issues the next instruction.
Issue ==
    /\ todo # <<>>
    /\ LET i == Head(todo) IN
        /\ i.pipe \in Pipe
        /\ Len(queue[i.pipe]) < QueueDepth
        /\ Becomes(i.pipe, Append(queue[i.pipe], i), event)
    /\ todo' = Tail(todo)
    /\ UNCHANGED <<busy, mem>>

Retire(p, events) == Becomes(p, Tail(queue[p]), events)

ExecuteWait(p) ==
    /\ queue[p] # <<>> /\ Head(queue[p]).op = "wait"
    /\ LET e == Head(queue[p]).event IN
        /\ event[e] > 0
        /\ Retire(p, [event EXCEPT ![e] = @ - 1])
    /\ UNCHANGED <<todo, busy, mem>>

Begin(p) ==
    /\ queue[p] # <<>> /\ Head(queue[p]).op # "wait"
    /\ p \notin busy
    /\ busy' = busy \union {p}
    /\ UNCHANGED <<todo, queue, event, mem>>

End(p) ==
    /\ p \in busy
    /\ busy' = busy \ {p}
    /\ LET i == Head(queue[p]) IN
        mem' = IF i.op \in {"move", "muls"} THEN [mem EXCEPT ![i.to[1]] = Moved(i)]
               ELSE [b \in DOMAIN mem |-> IF b \in i.writes THEN Result(i) ELSE mem[b]]
    /\ Retire(p, event)
    /\ UNCHANGED todo

Execute(p) == ExecuteWait(p) \/ Begin(p) \/ End(p)

Drained == todo = <<>> /\ \A p \in Pipe : queue[p] = <<>>

\* Two pipes at work on one buffer, one of them writing it.
Conflict(i, j) ==
    i.writes \cap (j.reads \union j.writes) # {} \/ i.reads \cap j.writes # {}
RaceFree == \A p, q \in busy : p # q => ~Conflict(Head(queue[p]), Head(queue[q]))
=============================================================================
