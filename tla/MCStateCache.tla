---------------------------- MODULE MCStateCache ----------------------------
(* The instances of StateCache for TLC are given by the constants of their .cfg. *)
EXTENDS StateCache

\* Bound of state_cache: a chain that returns to a dropped block has three blocks.
ReturnsEarly == returns = 0 \/ Len(block) <= 3
=============================================================================
