--------------------------- MODULE MC_FlashAttention ---------------------------
(* FlashAttention for TLC: two AIVs, blocks of two columns, stacks of four *)
(* blocks.  Every list is two tasks, so that the end of one overlaps the   *)
(* start of the next.                                                      *)
EXTENDS FlashAttention
CONSTANTS aic, aiv0, aiv1
MCAIV == {aiv0, aiv1}

Task(q, kv, idx, heads, mask) ==
    [qSeqlen |-> q, kvSeqlen |-> kv, qSBlockIdx |-> idx, qNBlockSize |-> heads, mask |-> mask]

\* A single query of a single head, which leaves AIV0 without rows.
Decode(kv, mask) == Task(1, kv, 0, 1, mask)

MCTaskLists ==
    LET Lengths == {1, 8, 9, 25}
    IN  {<<Task(2, kv, 0, 2, m), Decode(9, m)>> : kv \in Lengths \ {1}, m \in BOOLEAN}
        \cup {<<Decode(kv, m), Task(3, 17, 1, 1, m)>> : kv \in Lengths, m \in BOOLEAN}
        \cup {<<Task(5, kv, 2, 1, TRUE), Task(5, kv, 0, 1, TRUE)>> : kv \in {5, 6, 14, 23}}
=============================================================================
