--------------------------- MODULE CrossCoreFlags ---------------------------
(***************************************************************************)
(* The inter-core flag of an AI core, mode 0x2: one AIC and the AIVs (its  *)
(* sub-blocks) that share it.  The flag is hardware outside this           *)
(* repository; it is modelled from how the kernels use it through          *)
(* arch/cross_core_sync.hpp.  A flag is a counter per AIV:                 *)
(*   - a set by the AIC adds one to the counter of every AIV, and each AIV *)
(*     waits on its own;                                                   *)
(*   - a set by an AIV adds one to its own counter, and the AIC waits      *)
(*     until every AIV has set, taking one from each.                      *)
(***************************************************************************)
EXTENDS Naturals

CONSTANT AIV            \* the AIVs of one AI core (two on the A2 chips)

ASSUME AIVAssumption == AIV # {}

\* A flag nobody has set.
Cleared == [v \in AIV |-> 0]

SetByAic(flag) == [v \in AIV |-> flag[v] + 1]

SetByAiv(flag, v) == [flag EXCEPT ![v] = @ + 1]

RaisedForAiv(flag, v) == flag[v] > 0

RaisedForAic(flag) == \A v \in AIV : flag[v] > 0

WaitedByAiv(flag, v) == [flag EXCEPT ![v] = @ - 1]

WaitedByAic(flag) == [v \in AIV |-> flag[v] - 1]
=============================================================================
