------------------------ MODULE RetainedSubscription ------------------------
(***************************************************************************)
(* A retained pool kept current from one log subscription                  *)
(* (go/venues/uniswap/v3/retained_subscription.go, retained_quote.go and   *)
(* retained_log_order.go): sessions of RunRetained (events = FALSE) and of *)
(* RunRetainedWithEvents (events = TRUE), one at a time on one cache.      *)
(*                                                                         *)
(* The session goroutine handles logs, timers and capture results; one     *)
(* capture worker at a time reads a window of the pool over several RPC    *)
(* calls and resumes where an earlier attempt of the same epoch stopped.   *)
(* Logs received during a capture are buffered and replayed over it.       *)
(*                                                                         *)
(* Each block has at most one pool log: "swap" carries terminal price,     *)
(* liquidity and tick and is applied by assignment, "mint" stands for the  *)
(* incremental Mint/Burn deltas, "odd" for an event or delta that cannot   *)
(* be applied (unsupported, malformed or inconsistent).  A pool is its     *)
(* price (the last swap), its active liquidity and its ticks, each as the  *)
(* set of deltas in it; "twice" records deltas added to the ticks again.   *)
(* Deltas are taken to be in range, so both fields hold the same ones on   *)
(* chain, but a swap assigns the active liquidity and leaves the ticks.    *)
(***************************************************************************)
EXTENDS EvmChain, SequencesExt

CONSTANTS
    EntryPoints,    \* the consumer calls RunRetainedWithEvents (TRUE), RunRetained (FALSE)
    StreamBehind,   \* may a log arrive after a capture of its block was installed?
    ReplayLimit,    \* bound of the code: retainedReplayLimit
    JournalLimit,   \* bound of the code: applied logs the journal remembers
    MaxSessions,    \* bound: sessions
    MaxFaults,      \* bound: failed capture attempts, garbled logs, lost connections
    MaxDuplicates,  \* bound: logs the provider sends twice
    MaxRefreshes    \* bound: moves of the tick out of the captured window

ASSUME RetainedAssumption ==
    /\ Kinds \subseteq {"swap", "mint", "odd"}
    /\ EntryPoints \subseteq BOOLEAN /\ StreamBehind \in BOOLEAN
    /\ ReplayLimit \in Nat \ {0} /\ JournalLimit \in Nat \ {0}
    /\ MaxSessions \in Nat /\ MaxFaults \in Nat
    /\ MaxDuplicates \in Nat /\ MaxRefreshes \in Nat

VARIABLES
    rpcHead,        \* block number LatestHeader answers with
    wire,           \* logs sent to the subscription, not handled yet
    budget,         \* what is left of the bounds
    \* StateCache, protected by mu
    running, active, generation, priceObservationActive, retained, cursor, journal,
    published,      \* the snapshot the observer was given last
    torn,           \* history: some read of the baseline was served from another block
    recovery,       \* retainedRecovery holds a token
    seen,           \* liveOrder: log notices accepted so far
    \* the session goroutine
    session, events, replay, busy, pending, due, epoch, observedBlock, recoveryFloor, capture,
    worker,         \* the capture goroutine, with the result it posted
    clock           \* logical receipt time

stateVars == <<generation, priceObservationActive, retained, cursor, journal, published, torn>>
loopVars == <<replay, busy, pending, due, epoch, observedBlock, recoveryFloor, capture>>
lifeVars == <<running, active, session, events>>
envVars == <<chainVars, rpcHead, wire>>
vars == <<envVars, budget, stateVars, recovery, seen, lifeVars, loopVars, worker,
          clock>>

-----------------------------------------------------------------------------
(* The pool on a branch of the chain. *)

Branch(h) ==
    LET line[x \in 0..h] == IF x = EmptyHash THEN {} ELSE {x} \cup line[block[x].parent]
    IN  line[h]

\* The newest block of a set, EmptyHash for none.
Newest(hs) ==
    IF hs = {} THEN EmptyHash
    ELSE CHOOSE x \in hs : \A y \in hs : block[x].num >= block[y].num

PriceOf(h) == Newest({x \in Branch(h) : block[x].log = "swap"})
DeltasOf(h) == {x \in Branch(h) : block[x].log \in {"mint", "odd"}}

-----------------------------------------------------------------------------
(* Retained state. *)

Nil == [base |-> EmptyHash, price |-> EmptyHash, liquidity |-> {}, ticks |-> {}, twice |-> {},
        received |-> 0]
NoCursor == [num |-> 0, hash |-> EmptyHash, hasLog |-> FALSE]
CursorAt(h, hasLog) == [num |-> block[h].num, hash |-> h, hasLog |-> hasLog]

\* A cache in the middle of being updated: retained inputs, cursor and journal.
Cache == [pool : [base : Nat, price : Nat, liquidity : SUBSET Nat, ticks : SUBSET Nat,
                  twice : SUBSET Nat, received : Nat],
          cursor : [num : Nat, hash : Nat, hasLog : BOOLEAN], journal : Seq(Hash), ok : BOOLEAN]

\* The bounded memories of the code forget their oldest entry first: seen, and the
\* journal of applied logs (Journal.Record).
Remember(queue, x, limit) ==
    IF x \in Range(queue) THEN queue
    ELSE Append(IF Len(queue) = limit THEN Tail(queue) ELSE queue, x)

\* applyRetainedLogMode after its checks: the effect of log h, the cursor, the journal.
Apply(c, h, at) ==
    LET p == c.pool
        new == IF block[h].log = "swap"
               THEN [p EXCEPT !.price = h, !.liquidity = DeltasOf(h)]
               ELSE [p EXCEPT !.liquidity = @ \cup {h}, !.ticks = @ \cup {h},
                              !.twice = @ \cup ({h} \cap p.ticks)]
    IN  [pool |-> [new EXCEPT !.received = at], cursor |-> CursorAt(h, TRUE),
         journal |-> Remember(c.journal, h, JournalLimit), ok |-> TRUE]

\* Live mode: no baseline and no order check; an inapplicable log changes nothing.
ApplyLive(c, h, at) ==
    IF block[h].log = "odd" THEN [c EXCEPT !.ok = FALSE] ELSE Apply(c, h, at)

\* Replay mode: logs up to the baseline are part of it, later ones must be in order.
ApplyReplay(c, h, at) ==
    LET base == block[c.pool.base].num
        num == block[h].num
    IN  CASE num < base \/ h = c.pool.base -> c
          [] num = base /\ h # c.pool.base -> [c EXCEPT !.ok = FALSE]
          [] num > base /\ c.cursor.hasLog /\ num <= c.cursor.num -> [c EXCEPT !.ok = FALSE]
          [] OTHER -> ApplyLive(c, h, at)

\* The candidate a finished capture becomes: its baseline with the buffered logs
\* on top, swaps always in live mode.
Candidate(base, at) ==
    LET start == [pool |-> [base |-> base, price |-> PriceOf(base), liquidity |-> DeltasOf(base),
                            ticks |-> DeltasOf(base), twice |-> {}, received |-> at],
                  cursor |-> CursorAt(base, FALSE), journal |-> <<>>, ok |-> TRUE]
        after[i \in 0..Len(replay)] ==
            IF i = 0 THEN start
            ELSE IF ~after[i - 1].ok THEN after[i - 1]
            ELSE IF block[replay[i]].log = "swap" THEN ApplyLive(after[i - 1], replay[i], at)
            ELSE ApplyReplay(after[i - 1], replay[i], at)
    IN  after[Len(replay)]

Current == [pool |-> retained, cursor |-> cursor, journal |-> journal, ok |-> TRUE]

\* What the snapshot observer sees: the inputs, or nothing when they are withdrawn.
View(pool, gen, live) ==
    IF pool = Nil THEN [pool |-> Nil, gen |-> 0, live |-> FALSE]
    ELSE [pool |-> pool, gen |-> gen, live |-> live]

\* publishQuoteSnapshotLocked at the end of a critical section.
Publish ==
    published' = View(retained', generation', running' /\ active' /\ priceObservationActive')

-----------------------------------------------------------------------------
NoCapture == [base |-> EmptyHash, torn |-> FALSE, open |-> FALSE]
NoWorker == [phase |-> "none", epoch |-> 0, base |-> EmptyHash, floor |-> 0,
             floorHash |-> EmptyHash, torn |-> FALSE, ok |-> FALSE]

Init ==
    /\ ChainInit
    /\ rpcHead = 1
    /\ wire = <<>>
    /\ budget = [sessions |-> MaxSessions, faults |-> MaxFaults,
                 duplicates |-> MaxDuplicates, refreshes |-> MaxRefreshes]
    /\ running = FALSE /\ active = FALSE
    /\ generation = 0 /\ priceObservationActive = FALSE
    /\ retained = Nil /\ cursor = NoCursor /\ journal = <<>>
    /\ published = View(Nil, 0, FALSE)
    /\ torn = FALSE
    /\ recovery = FALSE
    /\ seen = <<>>
    /\ session = "idle" /\ events = FALSE
    /\ replay = <<>> /\ busy = FALSE /\ pending = FALSE /\ due = TRUE
    /\ epoch = 0 /\ observedBlock = 0 /\ recoveryFloor = 0 /\ capture = NoCapture
    /\ worker = NoWorker
    /\ clock = 0

TypeOK ==
    /\ ChainTypeOK
    /\ rpcHead \in 1..Height
    /\ wire \in Seq(Logs)
    /\ running \in BOOLEAN /\ active \in BOOLEAN /\ priceObservationActive \in BOOLEAN
    /\ torn \in BOOLEAN
    /\ generation \in Nat /\ epoch \in Nat /\ clock \in Nat
    /\ Current \in Cache
    /\ recovery \in BOOLEAN /\ events \in BOOLEAN /\ busy \in BOOLEAN /\ pending \in BOOLEAN /\ due \in BOOLEAN
    /\ session \in {"idle", "subscribing", "live", "closing"}
    /\ observedBlock \in Nat /\ recoveryFloor \in Nat
    /\ Len(replay) <= ReplayLimit
    /\ worker.phase \in {"none", "capture", "resume", "reads", "verify", "done"}

-----------------------------------------------------------------------------
(* The environment. *)

Subscribed == session \in {"live", "closing"}
Send(logs) == wire' = IF Subscribed THEN wire \o logs ELSE wire
Spend(what) == budget[what] > 0 /\ budget' = [budget EXCEPT ![what] = @ - 1]

sessionVars == <<stateVars, recovery, seen, lifeVars, loopVars, worker, clock>>

NewBlock ==
    /\ \E n \in 1..Height, log \in Effects :
          /\ Grow(n, log)
          /\ Send(Notices(n, Len(block) + 1, Child(n, log)))
          /\ rpcHead' = IF rpcHead > n + 1 THEN n + 1 ELSE rpcHead
    /\ UNCHANGED <<budget, sessionVars>>

HeadMoves ==
    /\ rpcHead < Height
    /\ rpcHead' \in (rpcHead + 1)..Height
    /\ UNCHANGED <<chainVars, wire, budget, sessionVars>>

\* The backoff delay of the next capture attempt passes.
DelayPasses ==
    /\ session = "live"
    /\ ~due
    /\ due' = TRUE
    /\ UNCHANGED <<envVars, budget, stateVars, recovery, seen, lifeVars, replay, busy, pending,
                   epoch, observedBlock, recoveryFloor, capture, worker, clock>>

-----------------------------------------------------------------------------
(* The session. *)

SessionStart ==
    /\ session = "idle"
    /\ ~running
    /\ Spend("sessions")
    /\ session' = "subscribing"
    /\ events' \in EntryPoints
    /\ running' = TRUE
    /\ priceObservationActive' = FALSE
    /\ generation' = generation + 1
    /\ retained' = Nil
    /\ recovery' = FALSE
    /\ UNCHANGED active
    /\ Publish
    /\ UNCHANGED <<envVars, cursor, journal, torn, seen, loopVars, worker, clock>>

\* The subscription is open, the cache active, and the loop's variables are set up;
\* without retained state a capture is needed.
SessionSubscribe ==
    /\ session = "subscribing"
    /\ session' = "live"
    /\ active' = TRUE
    /\ wire' = <<>>
    /\ replay' = <<>> /\ busy' = FALSE /\ pending' = TRUE /\ due' = TRUE
    /\ epoch' = 0 /\ observedBlock' = 0 /\ recoveryFloor' = 0 /\ capture' = NoCapture
    /\ UNCHANGED <<chainVars, rpcHead, budget, stateVars, recovery, seen, running, events, worker,
                   clock>>

\* Every return of the loop: context, lost connection, an error it does not recover
\* from.  The progress watcher, the subscription and the capture worker are stopped
\* and joined before the last critical section.
SessionStop == session' = "closing"

\* Mutant of SessionExit: the observer is not told.
SessionExitSilent ==
    /\ session = "closing"
    /\ session' = "idle"
    /\ worker' = NoWorker
    /\ wire' = <<>>
    /\ running' = FALSE /\ active' = FALSE
    /\ generation' = generation + 1
    /\ retained' = IF events THEN retained ELSE Nil
    /\ UNCHANGED <<priceObservationActive, published, torn, chainVars, rpcHead, budget, cursor,
                   journal, recovery, seen, events, loopVars, clock>>

SessionExit ==
    /\ session = "closing"
    /\ session' = "idle"
    /\ worker' = NoWorker
    /\ wire' = <<>>
    /\ running' = FALSE /\ active' = FALSE
    /\ generation' = generation + 1
    /\ retained' = IF events THEN retained ELSE Nil
    /\ UNCHANGED priceObservationActive
    /\ Publish
    /\ UNCHANGED <<chainVars, rpcHead, budget, cursor, journal, torn, recovery, seen, events,
                   loopVars, clock>>

\* The connection is lost, the context ends, or subscribing fails.
SessionLost ==
    /\ session \in {"subscribing", "live"}
    /\ Spend("faults")
    /\ SessionStop
    /\ UNCHANGED <<envVars, stateVars, recovery, seen, running, active, events, loopVars, worker,
                   clock>>

\* The top of the loop starts a capture before it waits for anything.
CaptureDue == session = "live" /\ pending /\ ~busy /\ due

\* The loop waits in its select.
Waiting == session = "live" /\ ~CaptureDue

StartCapture ==
    /\ CaptureDue
    /\ LET fresh == ~capture.open
           anchored == fresh /\ retained # Nil
       IN  /\ worker' = [NoWorker EXCEPT
                           !.phase = IF capture.base = EmptyHash THEN "capture" ELSE "resume",
                           !.epoch = epoch, !.base = capture.base, !.torn = capture.torn,
                           !.floor = IF anchored THEN cursor.num ELSE recoveryFloor,
                           !.floorHash = IF anchored THEN cursor.hash ELSE EmptyHash]
           /\ capture' = [capture EXCEPT !.open = TRUE]
           /\ replay' = IF anchored THEN <<>> ELSE replay
    /\ busy' = TRUE /\ pending' = FALSE
    /\ UNCHANGED <<envVars, budget, stateVars, recovery, seen, lifeVars, due, epoch,
                   observedBlock, recoveryFloor, clock>>

-----------------------------------------------------------------------------
(* The capture worker: resumeRetainedWindow. *)

HeaderIs(h) == block[h].num <= Height /\ chain[block[h].num] = h
workerFrame == <<envVars, budget, stateVars, recovery, seen, lifeVars, loopVars, clock>>

Post(ok) == worker' = [worker EXCEPT !.phase = "done", !.ok = ok]

\* capture: LatestHeader, or the observed block when the head is behind the floor.
WorkerCapture ==
    /\ worker.phase = "capture"
    /\ LET n == IF rpcHead >= worker.floor THEN rpcHead ELSE worker.floor
           known == \/ rpcHead >= worker.floor
                    \/ /\ worker.floorHash # EmptyHash
                       /\ n \in 1..Height /\ chain[n] = worker.floorHash
       IN  IF known THEN worker' = [worker EXCEPT !.phase = "reads", !.base = chain[n]]
                    ELSE Post(FALSE)
    /\ UNCHANGED workerFrame

\* A later attempt first checks that the staged block is still canonical;
\* verifyRetainedCapture drops the progress otherwise.
WorkerResume ==
    /\ worker.phase = "resume"
    /\ IF HeaderIs(worker.base) THEN worker' = [worker EXCEPT !.phase = "reads"]
       ELSE worker' = [worker EXCEPT !.phase = "done", !.ok = FALSE, !.base = EmptyHash]
    /\ UNCHANGED workerFrame

\* slot0, liquidity, the bitmap and the tick batches, by block number.
WorkerReads ==
    /\ worker.phase = "reads"
    /\ worker' = [worker EXCEPT !.phase = "verify", !.torn = @ \/ ~HeaderIs(worker.base)]
    /\ UNCHANGED workerFrame

\* Mutant of WorkerVerify: the staged block is not checked again.
WorkerVerifyNot ==
    /\ worker.phase = "verify"
    /\ Post(TRUE)
    /\ UNCHANGED workerFrame

WorkerVerify ==
    /\ worker.phase = "verify"
    /\ IF HeaderIs(worker.base) THEN Post(TRUE)
       ELSE worker' = [worker EXCEPT !.phase = "done", !.ok = FALSE, !.base = EmptyHash]
    /\ UNCHANGED workerFrame

\* A call fails or the attempt's deadline passes; validated progress is kept.  An
\* attempt of an abandoned epoch is cancelled.
WorkerFails ==
    /\ worker.phase \in {"capture", "resume", "reads", "verify"}
    /\ \/ Spend("faults")
       \/ worker.epoch # epoch /\ UNCHANGED budget
    /\ Post(FALSE)
    /\ UNCHANGED <<envVars, stateVars, recovery, seen, lifeVars, loopVars, clock>>

-----------------------------------------------------------------------------
(* Results. *)

ResultReady == Waiting /\ worker.phase = "done"
resultFrame == <<envVars, recovery, seen, running, active, events, observedBlock>>

\* Mutant of ResultStale: busy is reset only for results of this epoch.
ResultStaleBusy ==
    /\ ResultReady
    /\ worker.epoch # epoch
    /\ worker' = NoWorker
    /\ UNCHANGED <<resultFrame, budget, stateVars, session, loopVars, clock>>

\* A result of an abandoned epoch is dropped.
ResultStale ==
    /\ ResultReady
    /\ worker.epoch # epoch
    /\ worker' = NoWorker
    /\ busy' = FALSE
    /\ UNCHANGED <<resultFrame, budget, stateVars, session, replay, pending, due, epoch,
                   recoveryFloor, capture, clock>>

ResultFailed ==
    /\ ResultReady
    /\ worker.epoch = epoch /\ ~worker.ok
    /\ worker' = NoWorker
    /\ busy' = FALSE
    /\ capture' = IF worker.base = EmptyHash THEN NoCapture
                  ELSE [open |-> TRUE, base |-> worker.base, torn |-> worker.torn]
    /\ IF retained = Nil /\ ~events
       THEN SessionStop /\ UNCHANGED <<pending, due>>
       ELSE pending' = TRUE /\ due' = FALSE /\ UNCHANGED session
    /\ UNCHANGED <<resultFrame, budget, stateVars, replay, epoch, recoveryFloor, clock>>

\* invalidate: the retained inputs are withdrawn and recovered from the newest
\* observed block on.
Invalidate(observed) ==
    /\ epoch' = epoch + 1
    /\ recoveryFloor' = observed
    /\ capture' = NoCapture
    /\ replay' = <<>>
    /\ retained' = Nil
    /\ generation' = generation + 1
    /\ pending' = TRUE /\ due' = FALSE

\* retainedNeedsCapture: the tick left the captured window, or a tick is unknown.
NeedsCapture(need) == IF need THEN Spend("refreshes") ELSE UNCHANGED budget

\* The stream's lag at the installation of a capture (see StreamBehind).
Handled(base) ==
    \A i \in 1..Len(wire) : wire[i].num > block[base].num

ResultInstalled ==
    /\ ResultReady
    /\ worker.epoch = epoch /\ worker.ok
    /\ StreamBehind \/ Handled(worker.base)
    /\ LET c == Candidate(worker.base, clock + 1) IN
          /\ c.ok
          /\ retained' = c.pool /\ cursor' = c.cursor /\ journal' = c.journal
    /\ torn' = worker.torn
    /\ priceObservationActive' = TRUE
    /\ \E need \in BOOLEAN : NeedsCapture(need) /\ pending' = need
    /\ worker' = NoWorker
    /\ busy' = FALSE /\ due' = FALSE
    /\ capture' = NoCapture
    /\ replay' = <<>>
    /\ clock' = clock + 1
    /\ UNCHANGED <<generation, session>>
    /\ UNCHANGED <<resultFrame, epoch, recoveryFloor>>
    /\ Publish

\* A buffered log contradicts the baseline.
ResultContradicted ==
    /\ ResultReady
    /\ worker.epoch = epoch /\ worker.ok
    /\ ~Candidate(worker.base, clock + 1).ok
    /\ worker' = NoWorker
    /\ busy' = FALSE
    /\ IF events
       THEN Invalidate(observedBlock) /\ UNCHANGED <<session, priceObservationActive>> /\ Publish
       ELSE /\ SessionStop
            /\ capture' = NoCapture
            /\ UNCHANGED <<epoch, recoveryFloor, replay, retained, generation, pending, due,
                           priceObservationActive, published>>
    /\ UNCHANGED <<resultFrame, budget, cursor, journal, torn, clock>>

-----------------------------------------------------------------------------
(* Logs. *)

Observe(log) == IF log.num > observedBlock THEN log.num ELSE observedBlock

\* The notice at the head of the subscription; the provider may send it once more.
Take(again) ==
    IF again THEN Spend("duplicates") /\ UNCHANGED wire
             ELSE wire' = Tail(wire) /\ UNCHANGED budget

\* Mutant of IsNew: repeated notices pass.
IsNewAlways(log) == TRUE

\* accept: the event session does not handle a notice it remembers.
IsNew(log) == log \notin Range(seen)

\* Without events a removed log ends the session.
LogRemovedStops ==
    /\ Waiting /\ wire # <<>>
    /\ ~events /\ Head(wire).removed /\ Head(wire).pool
    /\ wire' = Tail(wire)
    /\ SessionStop
    /\ UNCHANGED <<chainVars, rpcHead, budget, stateVars, recovery, seen, running, active, events,
                   loopVars, worker, clock>>

\* Notices that leave the pool alone: of another contract, already seen (accept), or
\* of a removed log, which the application is told about.
LogSkipped ==
    /\ Waiting /\ wire # <<>>
    /\ LET log == Head(wire) IN
          /\ ~log.pool \/ (events /\ (~IsNew(log) \/ log.removed))
          /\ wire' = Tail(wire)
          /\ seen' = IF log.pool THEN Remember(seen, log, ReplayLimit) ELSE seen
          /\ observedBlock' = IF log.pool THEN Observe(log) ELSE observedBlock
    /\ UNCHANGED <<chainVars, rpcHead, budget, stateVars, recovery, lifeVars, replay, busy,
                   pending, due, epoch, recoveryFloor, capture, worker, clock>>

\* A notice that is malformed or contradicts one seen before.
LogGarbled ==
    /\ Waiting /\ wire # <<>>
    /\ LET log == Head(wire) IN
          /\ log.pool /\ IsNew(log)
          /\ Spend("faults")
          /\ wire' = Tail(wire)
          /\ IF events
             THEN /\ observedBlock' = Observe(log)
                  /\ Invalidate(Observe(log))
                  /\ UNCHANGED <<session, running, active, events, priceObservationActive>>
                  /\ Publish
             ELSE /\ SessionStop
                  /\ UNCHANGED <<observedBlock, epoch, recoveryFloor, capture, replay, pending, due,
                                 running, active, events, retained, generation,
                                 priceObservationActive, published>>
    /\ UNCHANGED <<chainVars, rpcHead, cursor, journal, torn, recovery, seen, busy, worker, clock>>

\* Mutant of Buffers: logs between two attempts of a capture are not kept.
BuffersBusy == busy \/ (events /\ retained = Nil)

\* Is the log kept for the capture in progress or to come?
Buffers == busy \/ capture.open \/ (events /\ retained = Nil)
\* Mutant of Overflows: off by one.
OverflowsLate == Buffers /\ Len(replay) > ReplayLimit
Overflows == Buffers /\ Len(replay) >= ReplayLimit

\* A log with an effect: buffered, and applied to the retained pool if there is one.
LogApplied ==
    /\ Waiting /\ wire # <<>>
    /\ LET log == Head(wire)
           c == ApplyLive(Current, log.hash, clock + 1)
           applies == retained # Nil /\ c.ok
           broken == retained # Nil /\ ~c.ok
       IN  /\ log.pool /\ ~log.removed /\ (events => IsNew(log))
           /\ events \/ ~(Overflows \/ broken)
           /\ \E again, need \in BOOLEAN :
                 /\ again => ~need
                 /\ need => applies
                 /\ IF need THEN Spend("refreshes") /\ wire' = Tail(wire) ELSE Take(again)
                 /\ pending' = (pending \/ Overflows \/ broken \/ need)
           /\ seen' = IF events THEN Remember(seen, log, ReplayLimit) ELSE seen
           /\ observedBlock' = IF events THEN Observe(log) ELSE observedBlock
           /\ replay' = IF ~Buffers THEN replay
                        ELSE IF Overflows THEN <<log.hash>> ELSE Append(replay, log.hash)
           /\ epoch' = IF Overflows THEN epoch + 1 ELSE epoch
           /\ capture' = IF Overflows THEN NoCapture ELSE capture
           /\ retained' = IF applies THEN c.pool ELSE retained
           /\ cursor' = IF applies THEN c.cursor ELSE cursor
           /\ journal' = IF applies THEN c.journal ELSE journal
           /\ priceObservationActive' = (priceObservationActive /\ ~Overflows /\ ~broken)
           /\ generation' = generation + (IF Overflows THEN 1 ELSE 0) + (IF broken THEN 1 ELSE 0)
           /\ due' = (due /\ ~broken)
    /\ clock' = clock + 1
    /\ UNCHANGED <<running, active, events, session>>
    /\ Publish
    /\ UNCHANGED <<chainVars, rpcHead, torn, recovery, busy, recoveryFloor, worker>>

\* Without events a full buffer or an inapplicable log ends the session.
LogStops ==
    /\ Waiting /\ wire # <<>>
    /\ ~events
    /\ LET log == Head(wire)
           broken == retained # Nil /\ ~ApplyLive(Current, log.hash, clock).ok
       IN  /\ log.pool /\ ~log.removed
           /\ Overflows \/ broken
           /\ IF Overflows THEN UNCHANGED <<priceObservationActive, generation, published>>
              ELSE /\ priceObservationActive' = FALSE
                   /\ generation' = generation + 1
                   /\ published' = View(retained, generation', FALSE)
    /\ wire' = Tail(wire)
    /\ SessionStop
    /\ UNCHANGED <<chainVars, rpcHead, budget, retained, cursor, journal, torn, recovery, seen,
                   running, active, events, loopVars, worker, clock>>

-----------------------------------------------------------------------------
(* Quotes on the retained pool. *)

\* QuoteRetainedPair met a tick it does not hold: requestRetainedRecovery.
RequestRecovery ==
    /\ running /\ retained # Nil /\ ~recovery
    /\ Spend("refreshes")
    /\ recovery' = TRUE
    /\ UNCHANGED <<envVars, stateVars, seen, lifeVars, loopVars, worker, clock>>

TakeRecovery ==
    /\ Waiting
    /\ recovery
    /\ recovery' = FALSE
    /\ pending' = TRUE
    /\ UNCHANGED <<envVars, budget, stateVars, seen, lifeVars, replay, busy, due, epoch,
                   observedBlock, recoveryFloor, capture, worker, clock>>

-----------------------------------------------------------------------------
Worker == WorkerCapture \/ WorkerResume \/ WorkerReads \/ WorkerVerify \/ WorkerFails
Result == ResultStale \/ ResultFailed \/ ResultInstalled \/ ResultContradicted
LogStep == LogRemovedStops \/ LogSkipped \/ LogGarbled \/ LogApplied \/ LogStops
SessionStep == SessionStart \/ SessionSubscribe \/ SessionLost \/ SessionExit \/ StartCapture

Next ==
    \/ NewBlock \/ HeadMoves \/ DelayPasses
    \/ SessionStep \/ Worker \/ Result \/ LogStep
    \/ RequestRecovery \/ TakeRecovery

Spec == Init /\ [][Next]_vars
-----------------------------------------------------------------------------
(* Properties. *)

\* The consumer's snapshot (publishQuoteSnapshotLocked, at the end of every critical
\* section that changes the inputs or their liveness) is the current one: state that
\* was withdrawn or updated is never left with it.
PublishedCurrent ==
    published = View(retained, generation, running /\ active /\ priceObservationActive)

\* Retained inputs were read from one block: an attempt that resumes progress of an
\* earlier one never combines fields of different block hashes (verifyRetainedCapture).
BaselineCoherent == ~torn

\* Of a capture that can still be installed, the buffer holds what its baseline may lack:
\* without retained inputs every log received above it, with retained inputs every log
\* applied to them above it (or it was dropped by a reorganisation).  So replaying the
\* buffer over the capture loses no delta.
BufferComplete ==
    session = "live" /\ worker.phase # "none" /\ worker.epoch = epoch /\ worker.base # EmptyHash
        => IF retained = Nil
           THEN \A log \in Range(seen) :
                   log.removed \/ log.num <= block[worker.base].num \/ log.hash \in Range(replay)
           ELSE \A h \in Range(journal) :
                   ~HeaderIs(h) \/ block[h].num <= block[worker.base].num \/ h \in Range(replay)

\* Once the chain is quiet, a session that stays up ends with live inputs, whatever
\* logs, reorganisations, failures, overflows and invalidations came before.
Recovers ==
    <>[](session = "live" /\ Height >= observedBlock)
        => <>[](retained # Nil /\ priceObservationActive /\ wire = <<>>)
=============================================================================
