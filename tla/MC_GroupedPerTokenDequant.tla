----------------------- MODULE MC_GroupedPerTokenDequant -----------------------
(* GroupedPerTokenDequant for TLC: two AIVs; three groups that are slices  *)
(* of k, each of them possibly empty, or slices of m.                      *)
EXTENDS GroupedPerTokenDequant
CONSTANTS aiv0, aiv1
MCAIV == {aiv0, aiv1}

SlicesOfK(cores, loops) ==
    [coreNum : {cores}, groups : [1..3 -> [coreLoops : {loops}, kTiles : 0..2]]]
SlicesOfM(cores, tiles) ==
    [coreNum : {cores}, groups : [1..3 -> [coreLoops : 0..3, kTiles : {tiles}]]]
MCProblems == SlicesOfK(2, 3) \cup SlicesOfK(3, 4) \cup SlicesOfM(2, 1)
=============================================================================
