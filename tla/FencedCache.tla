----------------------------- MODULE FencedCache -----------------------------
(***************************************************************************)
(* What the account and state caches promise, whatever they read and       *)
(* however many calls that takes.  A cache holds at most one entry that it *)
(* may hand out again without asking the node.  "entry" is its version (a  *)
(* block or slot number, 0 when there is none), "floor" the newest version *)
(* a notification has named.                                               *)
(***************************************************************************)
EXTENDS Naturals

VARIABLES floor, entry

Init == floor = 0 /\ entry = 0

\* A notification, a lost subscription, a failed check, an address set that the
\* streams do not match: nothing may be handed out until something is captured.
Drop ==
    /\ floor' \in Nat /\ floor' >= floor
    /\ entry' = 0

\* A capture that no notification has overtaken.  It may raise the floor to its own
\* version and no further.
Install ==
    /\ entry' \in Nat \ {0}
    /\ entry' >= floor
    /\ floor' \in {floor, entry'}

Next == Drop \/ Install

Spec == Init /\ [][Next]_<<floor, entry>>
=============================================================================
