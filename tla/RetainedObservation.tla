------------------------- MODULE RetainedObservation -------------------------
(***************************************************************************)
(* Idle observation of a retained pool: the background watcher of          *)
(* go/internal/evmobservation (progress.go, journal.go), started and       *)
(* fenced by go/venues/uniswap/v3/observation_progress.go, next to the     *)
(* session of RetainedSubscription.                                        *)
(*                                                                         *)
(* The watcher reads the retained state, proves over several RPC calls     *)
(* that the journal of applied logs is the pool's log on a canonical range *)
(* of blocks, and confirms the state if it is still the same.  A verified  *)
(* range is kept as a prefix for the next proof.                           *)
(***************************************************************************)
EXTENDS RetainedSubscription

CONSTANT ProofLimit     \* bound of the code: maxBlocks

ASSUME ProofLimitAssumption == ProofLimit \in Nat

VARIABLES
    watch,      \* the watcher goroutine: its phase, variables and the proof in progress
    progress    \* observationProgress: the confirmed state (head is history)

obsVars == <<vars, watch, progress>>

-----------------------------------------------------------------------------
Point(h) == [num |-> IF h = EmptyHash THEN 0 ELSE block[h].num, hash |-> h]

\* priceObservationStateLocked.
State == [base |-> retained.base, cursor |-> cursor, gen |-> generation,
          received |-> retained.received]
NoState == [base |-> EmptyHash, cursor |-> NoCursor, gen |-> 0, received |-> 0]

\* readPriceObservation
Active == running /\ active /\ priceObservationActive /\ retained # Nil

\* continuesProof: nothing in the verified prefix changed between two reads.
ContinuesProof(previous, current, before, after, frontier) ==
    /\ frontier # EmptyHash
    /\ previous.base = current.base /\ previous.gen = current.gen
    /\ current.received >= previous.received
    /\ IF previous.cursor = current.cursor
       THEN previous.received = current.received
       ELSE /\ current.cursor.num > block[frontier].num
            /\ current.cursor.num > previous.cursor.num \/
               (previous.cursor.num = current.cursor.num /\
                current.cursor.hash = previous.cursor.hash /\
                current.cursor.hasLog /\ ~previous.cursor.hasLog)
    /\ \A h \in Range(after) : block[h].num <= block[frontier].num => h \in Range(before)

NoWatch == [phase |-> "off", state |-> NoState, applied |-> <<>>, previous |-> NoState,
            evidence |-> <<>>, frontier |-> EmptyHash, head |-> EmptyHash, outcome |-> "none"]

ObsInit ==
    /\ Init
    /\ watch = NoWatch
    /\ progress = [state |-> NoState, head |-> EmptyHash]

ObsTypeOK ==
    /\ TypeOK
    /\ watch.phase \in {"off", "wait", "head", "cursor", "logs", "recheck", "headcheck",
                        "decide", "apply", "failed"}
    /\ watch.outcome \in {"none", "idle", "advanced", "unavailable", "error"}
    /\ watch.frontier \in 0..Len(block) /\ watch.head \in 0..Len(block)

-----------------------------------------------------------------------------
(* The proof: Prove. *)

Outcome(o) == watch' = [watch EXCEPT !.phase = "decide", !.outcome = o]

\* The timer fires: read the state, keep or restart the frontier.
WatchRead ==
    /\ watch.phase = "wait"
    /\ IF ~Active THEN watch' = [watch EXCEPT !.previous = NoState]
       ELSE LET keep == ContinuesProof(watch.previous, State, watch.evidence, journal, watch.frontier)
                begun == [watch EXCEPT !.state = State, !.applied = journal,
                                       !.previous = State, !.evidence = journal,
                                       !.frontier = IF keep THEN @ ELSE retained.base,
                                       !.head = EmptyHash, !.outcome = "none"]
            IN  watch' = [begun EXCEPT !.phase =
                            IF cursor.num < block[retained.base].num THEN "failed" ELSE "head"]
    /\ UNCHANGED <<vars, progress>>

WatchHead ==
    /\ watch.phase = "head"
    /\ IF rpcHead < block[watch.frontier].num THEN Outcome("unavailable")
       ELSE watch' = [watch EXCEPT !.phase = "cursor", !.head = chain[rpcHead]]
    /\ UNCHANGED <<vars, progress>>

Distance == block[watch.head].num - block[watch.frontier].num

\* check(cursor), then the head: unchanged, too far, or a range to query.
WatchCursor ==
    /\ watch.phase = "cursor"
    /\ IF ~HeaderIs(watch.frontier) \/ (Distance = 0 /\ watch.head # watch.frontier)
       THEN Outcome("error")
       ELSE IF Distance = 0 THEN Outcome("idle")
       ELSE IF Distance > ProofLimit THEN Outcome("error")
       ELSE watch' = [watch EXCEPT !.phase = "logs"]
    /\ UNCHANGED <<vars, progress>>

\* Mutant of WatchLogs: an applied log that is not canonical goes unnoticed.
WatchLogsOneWay ==
    /\ watch.phase = "logs"
    /\ LET from == block[watch.frontier].num + 1
           to == block[watch.head].num
           canonical == {chain[n] : n \in {k \in from..to : k <= Height}}
           logs == {h \in canonical : block[h].log # "none"}
       IN  IF logs \subseteq Range(watch.applied)
           THEN watch' = [watch EXCEPT !.phase = "recheck"] ELSE Outcome("idle")
    /\ UNCHANGED <<vars, progress>>

\* FilterLogs over (frontier, head], and its comparison with the applied logs: all
\* canonical logs applied, none applied above the head, none that is not canonical.
\* The applied ones are visited in the order of a Go map.
WatchLogs ==
    /\ watch.phase = "logs"
    /\ LET from == block[watch.frontier].num + 1
           to == block[watch.head].num
           canonical == {chain[n] : n \in {k \in from..to : k <= Height}}
           logs == {h \in canonical : block[h].log # "none"}
           above == {h \in Range(watch.applied) : block[h].num > to}
           foreign == {h \in Range(watch.applied) : block[h].num \in from..to /\ h \notin logs}
       IN  \/ /\ (logs \ Range(watch.applied)) # {}
              /\ Outcome("idle")
           \/ /\ logs \subseteq Range(watch.applied)
              /\ \/ above # {} /\ Outcome("idle")
                 \/ foreign # {} /\ Outcome("error")
                 \/ /\ above \cup foreign = {}
                    /\ watch' = [watch EXCEPT !.phase = "recheck"]
    /\ UNCHANGED <<vars, progress>>

\* The filter and both endpoints must describe the same canonical chain.
WatchRecheck ==
    /\ watch.phase = "recheck"
    /\ IF HeaderIs(watch.frontier) THEN watch' = [watch EXCEPT !.phase = "headcheck"]
                                   ELSE Outcome("error")
    /\ UNCHANGED <<vars, progress>>

WatchHeadCheck ==
    /\ watch.phase = "headcheck"
    /\ Outcome(IF HeaderIs(watch.head) THEN "advanced" ELSE "error")
    /\ UNCHANGED <<vars, progress>>

\* A request fails or the attempt's deadline passes: missing evidence.
WatchUnavailable ==
    /\ watch.phase \in {"head", "cursor", "logs", "recheck", "headcheck"}
    /\ Spend("faults")
    /\ Outcome("unavailable")
    /\ UNCHANGED <<envVars, sessionVars, progress>>

-----------------------------------------------------------------------------
(* What Run makes of the proof. *)

Again(w) == watch' = [w EXCEPT !.phase = "wait", !.outcome = "none", !.head = EmptyHash,
                               !.state = NoState, !.applied = <<>>]

\* Mutant of WatchDecide: a rejected proof leaves the watcher without a next attempt.
WatchDecideOnce ==
    /\ watch.phase = "decide"
    /\ watch.outcome = "advanced" /\ Active /\ State = watch.state
    /\ watch' = [watch EXCEPT !.phase = "apply", !.frontier = watch.head]
    /\ UNCHANGED <<vars, progress>>

WatchDecide ==
    /\ watch.phase = "decide"
    /\ LET continues == ContinuesProof(watch.state, State, watch.applied, journal, watch.head)
       IN  \/ /\ watch.outcome = "unavailable" \/ ~Active
              /\ Again(IF Active THEN watch ELSE [watch EXCEPT !.previous = NoState])
           \/ /\ watch.outcome # "unavailable" /\ Active /\ State # watch.state
              /\ Again(IF watch.outcome = "advanced" /\ continues
                       THEN [watch EXCEPT !.frontier = watch.head] ELSE watch)
           \/ /\ watch.outcome # "unavailable" /\ Active /\ State = watch.state
              /\ CASE watch.outcome = "error" -> watch' = [watch EXCEPT !.phase = "failed"]
                   [] watch.outcome = "advanced" ->
                        watch' = [watch EXCEPT !.phase = "apply", !.frontier = watch.head]
                   [] OTHER -> Again(watch)
    /\ UNCHANGED <<vars, progress>>

\* confirmPriceObservation compares the state once more under the lock.
WatchConfirm ==
    /\ watch.phase = "apply"
    /\ progress' = IF Active /\ State = watch.state
                   THEN [state |-> State, head |-> watch.head] ELSE progress
    /\ Again(watch)
    /\ UNCHANGED vars

Watch == WatchRead \/ WatchHead \/ WatchCursor \/ WatchLogs \/ WatchRecheck
         \/ WatchHeadCheck \/ WatchUnavailable \/ WatchDecide \/ WatchConfirm

-----------------------------------------------------------------------------
(* The session owns the watcher. *)

\* observeIdleProgress, after the subscription is open.
SubscribeAndWatch ==
    /\ SessionSubscribe
    /\ watch' = [NoWatch EXCEPT !.phase = "wait"]
    /\ UNCHANGED progress

\* An inconsistency the watcher found ends the session.
WatchFails ==
    /\ Waiting
    /\ watch.phase = "failed"
    /\ SessionStop
    /\ UNCHANGED <<envVars, budget, stateVars, recovery, seen, running, active, events, loopVars, worker,
                   clock, watch, progress>>

\* stopProgress cancels and joins the watcher before the session gives up its state.
ExitJoined ==
    /\ SessionExit
    /\ watch' = NoWatch
    /\ UNCHANGED progress

Others ==
    \/ NewBlock \/ HeadMoves \/ DelayPasses
    \/ SessionStart \/ SessionLost \/ StartCapture
    \/ Worker \/ Result \/ LogStep
    \/ RequestRecovery \/ TakeRecovery

ObsNext ==
    \/ Others /\ UNCHANGED <<watch, progress>>
    \/ SubscribeAndWatch \/ ExitJoined \/ WatchFails
    \/ Watch

ObsSpec == ObsInit /\ [][ObsNext]_obsVars

-----------------------------------------------------------------------------
(* Properties. *)

\* The confirmation time counts for the state it was given for (Progress.ConfirmedAt).
Confirmed == Active /\ progress.state = State

\* A confirmed pool has exactly the liquidity deltas of the proved block, each once:
\* the proof misses no log, and the state fence (baseline, cursor, generation, receipt
\* time) lets no other inputs pass for the ones that were proved.  In a session that ends
\* at removed logs (RunRetained) it also has the price of that block.
ConfirmedState ==
    Confirmed => /\ retained.ticks = DeltasOf(progress.head) /\ retained.twice = {}
                 /\ ~events => retained.price = PriceOf(progress.head)

\* A confirmed pool has the active liquidity of the proved block.
ConfirmedLiquidity == Confirmed => retained.liquidity = DeltasOf(progress.head)

\* An idle pool is confirmed in the end: once its inputs are those of the head, above
\* their baseline, and nothing more happens, the watcher says so.
IdleConfirmed ==
    <>[](/\ Active
         /\ HeaderIs(retained.base) /\ block[retained.base].num < Height
         /\ retained.ticks = DeltasOf(chain[Height]) /\ retained.twice = {})
        => <>[]Confirmed

Apart == UNCHANGED <<watch, progress>>

ObsFairness ==
    /\ WF_obsVars(HeadMoves /\ Apart) /\ WF_obsVars(DelayPasses /\ Apart)
    /\ WF_obsVars(StartCapture /\ Apart) /\ WF_obsVars(Result /\ Apart)
    /\ WF_obsVars(LogStep /\ Apart) /\ WF_obsVars(TakeRecovery /\ Apart)
    /\ WF_obsVars((WorkerCapture \/ WorkerResume \/ WorkerReads \/ WorkerVerify) /\ Apart)
    /\ WF_obsVars(SubscribeAndWatch) /\ WF_obsVars(ExitJoined) /\ WF_obsVars(WatchFails)
    /\ WF_obsVars(WatchRead) /\ WF_obsVars(WatchDecide) /\ WF_obsVars(WatchConfirm)
    /\ WF_obsVars(WatchHead \/ WatchCursor \/ WatchLogs \/ WatchRecheck \/ WatchHeadCheck)

ObsFairSpec == ObsSpec /\ ObsFairness
=============================================================================
