--------------------------- MODULE MCSolanaCache ---------------------------
(* Instances of SolanaCache for TLC: two positions, each around its own array. *)
EXTENDS SolanaCache

CONSTANTS Left, Right, LeftArray, RightArray

AroundPosition == [p \in {Left, Right} |-> IF p = Left THEN {LeftArray} ELSE {RightArray}]
=============================================================================
