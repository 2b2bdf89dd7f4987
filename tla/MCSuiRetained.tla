---------------------------- MODULE MCSuiRetained ----------------------------
(* SuiRetained for TLC: words of two ticks, of which the third has both.  A price in    *)
(* the first word has the third outside its window.                                     *)
EXTENDS SuiRetained

MCWords == 0..2
MCTicks == {0, 4, 5}
MCTxLimit == [v \in Venues |-> IF v = "cetus" THEN 4 ELSE 3]
=============================================================================
