----------------------------- MODULE TileHandoff -----------------------------
(***************************************************************************)
(* What every AIC/AIV hand-off of the fused kernels promises, whatever     *)
(* mechanism it uses: the AIC produces Tiles tiles in order, every AIV     *)
(* takes each of them in order and only after it was produced, and the AIC *)
(* is never more than Capacity tiles ahead of the slowest AIV.             *)
(***************************************************************************)
EXTENDS Naturals

CONSTANTS Consumers, Tiles, Capacity

VARIABLES
    produced,   \* tiles the AIC has finished writing
    taken       \* taken[v]: tiles AIV v is done with

vars == <<produced, taken>>

Init ==
    /\ produced = 0
    /\ taken = [v \in Consumers |-> 0]

Produce ==
    /\ produced < Tiles
    /\ \A v \in Consumers : produced - taken[v] < Capacity
    /\ produced' = produced + 1
    /\ UNCHANGED taken

Take(v) ==
    /\ taken[v] < produced
    /\ taken' = [taken EXCEPT ![v] = @ + 1]
    /\ UNCHANGED produced

Next == Produce \/ \E v \in Consumers : Take(v)

Spec == Init /\ [][Next]_vars /\ WF_vars(Produce) /\ \A v \in Consumers : WF_vars(Take(v))

\* The part of Spec without fairness.
Safety == Init /\ [][Next]_vars
=============================================================================
