------------------------- MODULE MCSolanaScenarios -------------------------
(***************************************************************************)
(* Two scenarios of SolanaCache, checked in one run; each bounds what the  *)
(* other leaves free.  "moves": the price moves between the two arrays,    *)
(* and the address set with it; one Run, nothing fails.  "fails": calls    *)
(* and streams fail, Run is cancelled and called again, the fee            *)
(* configuration changes; the price stays where it is.                     *)
(***************************************************************************)
EXTENDS MCSolanaCache

VARIABLE scenario

MCInit == Init /\ scenario \in {"moves", "fails"}

\* The fee configuration does not change, and its stream opens and closes at once.
ConfigStays ==
    \A c \in FeeConfigs :
       /\ Changes(c)' = {}
       /\ watch[c] \in {"dialing", "closing"} \/ (watch[c] = "on" /\ Cancelled)
             => watch'[c] # watch[c]

Moves == runs' <= 1 /\ failures' = 0 /\ ConfigStays

\* The price stays, and with it the arrays that are asked for.
Stays ==
    /\ \A s \in DOMAIN ledger' :
          ledger'[s].position = Start /\ ledger'[s].account \in Fixed \cup Around[Start]
    /\ op'.guess = Start /\ ~op'.far

MCNext ==
    /\ UNCHANGED scenario
    /\ Next
    /\ \/ scenario = "moves" /\ Moves
       \/ scenario = "fails" /\ Stays

MCSpec == MCInit /\ [][MCNext]_<<vars, scenario>>
=============================================================================
