------------------------------- MODULE MCParts -------------------------------
(***************************************************************************)
(* Three parts that share nothing and are checked in one run: a behaviour  *)
(* is one of a single part, the others stay in their initial state, in     *)
(* which nothing they are fair to can happen.                              *)
(***************************************************************************)
EXTENDS VenueSocket, SolanaStream, TickBatch

VARIABLE part

partVars == <<part, socketVars, streamVars, batchVars>>

Init ==
    /\ part \in {"socket", "stream", "batch"}
    /\ SocketInit /\ StreamInit /\ BatchInit

Next ==
    /\ UNCHANGED part
    /\ \/ part = "socket" /\ SocketNext /\ UNCHANGED <<streamVars, batchVars>>
       \/ part = "stream" /\ StreamNext /\ UNCHANGED <<socketVars, batchVars>>
       \/ part = "batch" /\ BatchNext /\ UNCHANGED <<socketVars, streamVars>>

Spec == Init /\ [][Next]_partVars /\ SocketFair /\ StreamFair /\ BatchFair

\* The types of the three parts: mutexes are held by the calls that took them, queues
\* keep their limit, every batch is one of the capture's.
PartsTypeOK == SocketTypeOK /\ StreamTypeOK /\ BatchTypeOK

\* What is handed over is whole: a subscriber of a Solana connection gets every
\* notification up to the end of its stream, a capture every tick of its batches or none.
PartsDeliver == DeliversAll /\ AllOrNothing

\* Nobody is left waiting: neither Close nor a call in a stopped session, nor a caller of
\* a Solana stream, nor Read of the tick batches once it cannot succeed.
PartsRelease == StopReleases /\ StreamReleases /\ ReadReturns
=============================================================================
