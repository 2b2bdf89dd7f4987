------------------------------ MODULE TickBatch ------------------------------
(***************************************************************************)
(* Read of go/internal/tickbatch/read.go: up to two workers fetch the      *)
(* batches of a tick capture; the first failure cancels the other.  "first"*)
(* and "next" are guarded by its mutex, whose critical sections are single *)
(* steps here.                                                             *)
(***************************************************************************)
EXTENDS Naturals, FiniteSets

CONSTANTS
    Workers,    \* two, or one when the reader does not support concurrency
    Batches     \* number of batches (count)

ASSUME BatchAssumption == IsFiniteSet(Workers) /\ Workers # {} /\ Batches \in Nat

VARIABLES
    next,           \* the next batch to hand out
    first,          \* the first failure: the batch, or 0
    ended,          \* has the caller's context ended?
    cancelled,      \* has the child context?
    work,           \* the batch each worker fetches; 0: between two, Left: it returned
    results,        \* batches whose result is stored
    blamed,         \* batches that failed without being cancelled, or for the caller
    returned         \* how Read returned

batchVars == <<next, first, ended, cancelled, work, results, blamed, returned>>

Left == Batches + 1

BatchTypeOK ==
    /\ next \in 1..Left /\ first \in 0..Batches
    /\ ended \in BOOLEAN /\ cancelled \in BOOLEAN
    /\ work \in [Workers -> 0..Left]
    /\ results \subseteq 1..Batches /\ blamed \subseteq 1..Batches
    /\ returned \in {"uncalled", "none", "results", "failed", "ended"}

BatchInit ==
    /\ next = 1 /\ first = 0 /\ ended = FALSE /\ cancelled = FALSE
    /\ work = [w \in Workers |-> Left]
    /\ results = {} /\ blamed = {} /\ returned = "uncalled"

\* At most as many workers as batches start.
ReadBegin ==
    /\ returned = "uncalled" /\ returned' = "none"
    /\ \E W \in SUBSET Workers :
          /\ W = Workers \/ Cardinality(W) = Batches
          /\ Cardinality(W) <= Batches
          /\ work' = [w \in Workers |-> IF w \in W THEN 0 ELSE Left]
    /\ UNCHANGED <<next, first, ended, cancelled, results, blamed>>

ContextEnds ==
    /\ returned = "none" /\ ~ended
    /\ ended' = TRUE /\ cancelled' = TRUE
    /\ UNCHANGED <<next, first, work, results, blamed, returned>>

\* Take the next batch, or leave.
TakeBatch(w) ==
    /\ work[w] = 0
    /\ IF first # 0 \/ cancelled \/ next > Batches
       THEN work' = [work EXCEPT ![w] = Left] /\ UNCHANGED next
       ELSE work' = [work EXCEPT ![w] = next] /\ next' = next + 1
    /\ UNCHANGED <<first, ended, cancelled, results, blamed, returned>>

FetchSucceeds(w) ==
    /\ work[w] \in 1..Batches
    /\ results' = results \cup {work[w]}
    /\ work' = [work EXCEPT ![w] = 0]
    /\ UNCHANGED <<next, first, ended, cancelled, blamed, returned>>

\* The first failure is kept and cancels the child context, in one critical section.
RecordFailure(w) ==
    /\ first' = IF first = 0 THEN work[w] ELSE first
    /\ cancelled' = TRUE

\* fetch fails by itself, or because the context ended; then it need not be to blame.
FetchFails(w) ==
    /\ work[w] \in 1..Batches
    /\ RecordFailure(w)
    /\ blamed' = IF cancelled /\ ~ended THEN blamed ELSE blamed \cup {work[w]}
    /\ work' = [work EXCEPT ![w] = Left]
    /\ UNCHANGED <<next, ended, results, returned>>

\* wg.Wait, then the failure, the caller's context or the results.
ReadEnd ==
    /\ returned = "none"
    /\ \A w \in Workers : work[w] = Left
    /\ returned' = IF first # 0 THEN "failed" ELSE IF ended THEN "ended" ELSE "results"
    /\ UNCHANGED <<next, first, ended, cancelled, work, results, blamed>>

BatchNext ==
    \/ ReadBegin \/ ContextEnds \/ ReadEnd
    \/ \E w \in Workers : TakeBatch(w) \/ FetchSucceeds(w) \/ FetchFails(w)

\* Workers run; a fetch may hang, but not beyond the end of its context.
BatchFair ==
    /\ WF_batchVars(ReadEnd)
    /\ \A w \in Workers : /\ WF_batchVars(TakeBatch(w))
                          /\ WF_batchVars(FetchFails(w) /\ cancelled)

BatchSpec == BatchInit /\ [][BatchNext]_batchVars /\ BatchFair

-----------------------------------------------------------------------------
(* Properties. *)

\* Results are returned for every batch or not at all, and a failure that is reported is
\* one that happened, not the echo of Read's own cancellation.
AllOrNothing ==
    /\ returned = "results" => results = 1..Batches
    /\ first # 0 => first \in blamed

\* One failure, or the end of the caller's context, ends Read although the other worker's
\* fetch hangs.
ReadReturns == returned = "none" /\ (first # 0 \/ ended) ~> returned # "none"
=============================================================================
