---------------------------- MODULE MCObservation ----------------------------
(* RetainedObservation on small instances; the bounds are in the .cfg files. *)
EXTENDS RetainedObservation
==============================================================================
