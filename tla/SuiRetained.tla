---------------------------- MODULE SuiRetained ----------------------------
(***************************************************************************)
(* RunRetained of the pool caches on Sui: subscribe, warm a baseline       *)
(* pinned to a checkpoint, apply the stream's full replacements, and read  *)
(* the three-word tick window again with a detached capture when it lacks  *)
(* something around the price (internal/suiwindow.Run).  Every critical    *)
(* section of retainedMu publishes before it unlocks, so an observer sees  *)
(* `retained` and the observation exactly as they are here.                *)
(*                                                                         *)
(* The venues share this shape and differ in their inputs.  Cetus keeps    *)
(* the ticks of a fixed window; Turbos, Momentum and Bluefin keep bitmap   *)
(* words and ticks, wherever an update puts them.  Momentum stands for     *)
(* Bluefin too: these two keep the inputs of a session that has ended,     *)
(* the others withdraw them.                                               *)
(***************************************************************************)
EXTENDS SuiPool

CONSTANTS ReplayLimit,     \* 4096 in the code
          MaxFailures,     \* bound: failed reads, refused transactions, ends of sessions
          TxLimit          \* bound: transactions of each venue's pool

Venues == {"cetus", "turbos", "momentum"}

ASSUME RetainedAssumption ==
    /\ ReplayLimit \in Nat \ {0} /\ MaxFailures \in Nat
    /\ TxLimit \in [Venues -> 1..MaxTx]

VARIABLES
    venue,       \* never changes
    phase,       \* "off", "subscribe", "warm", "activate", "run", "closing"
    retained,    \* the retained inputs, NoInputs for nil
    active,      \* stateObservation.Active
    confirmed,   \* observationCheckpoint
    floor,       \* the checkpoint later reads must include
    accepted,    \* the last checkpoint of the cache's own reads, kept by the bitmap venues
    stream,      \* [since, sent, mark]: start, version delivered, watermark delivered
    pinned,      \* checkpoint of a running Warm of RunRetained, NoCp for none
    worker,      \* the detached capture: [pc, floor, cp]
    replay,      \* versions received while the capture runs
    overflow,
    waiting,     \* the backoff after a failed capture has not passed
    rejected,    \* history: newest checkpoint of a refused transaction
    failures

sessionVars == <<phase, active, stream, pinned>>
workerVars == <<worker, replay, overflow, waiting>>
steady == <<poolVars, venue, accepted>>     \* what most actions leave alone
vars == <<steady, sessionVars, workerVars, retained, confirmed, floor, rejected, failures>>

NoCp == 0 - 1
NoWorker == [pc |-> "idle", floor |-> 0, cp |-> 0]
Bitmap == venue # "cetus"
Withdraws == venue # "momentum"

Window(c) == {c - 1, c, c + 1} \cap Words
TicksIn(ws) == {t \in Ticks : Word(t) \in ws}

\* "words" are the words of the Cetus window, or those whose bitmap is known; "bits" the
\* ticks these bitmaps say are initialized; "center" is the Cetus window's.
NoInputs == [version |-> 0, word |-> 0, center |-> 0, words |-> {}, bits |-> {},
             ticks |-> [t \in Ticks |-> 0], baseline |-> 0, position |-> 0]

Inputs == [version: 1..MaxTx, word: Words, center: Words, words: SUBSET Words, bits: SUBSET Ticks,
           ticks: [Ticks -> Versions], baseline: Checkpoints, position: Checkpoints]

RetainedTypeOK ==
    /\ venue \in Venues
    /\ tx \in Seq(Tx) /\ Len(tx) \in 1..MaxTx /\ top \in Checkpoints
    /\ phase \in {"off", "subscribe", "warm", "activate", "run", "closing"}
    /\ retained = NoInputs \/ retained \in Inputs
    /\ active \in BOOLEAN /\ confirmed \in Checkpoints /\ floor \in Checkpoints /\ accepted \in Checkpoints
    /\ stream \in [since: Checkpoints, sent: Versions, mark: Checkpoints]
    /\ pinned \in Checkpoints \cup {NoCp}
    /\ worker \in [pc: {"idle", "start", "warm", "done", "failed"}, floor: Checkpoints, cp: Checkpoints]
    /\ replay \in Seq(Versions) /\ Len(replay) <= ReplayLimit
    /\ overflow \in BOOLEAN /\ waiting \in BOOLEAN
    /\ rejected \in Checkpoints /\ failures \in 0..MaxFailures

Larger(a, b) == IF a >= b THEN a ELSE b

\* captureState with newTickWindow, captureWindow: the pool and the ticks of its window
\* as of checkpoint c.
At(c) == LET v == VersionAt(c)
             here == Window(tx[v].word)
         IN [version |-> v, word |-> tx[v].word, center |-> tx[v].word, words |-> here,
             bits |-> IF Bitmap THEN {t \in TicksIn(here) : tx[v].ticks[t] # 0} ELSE {},
             ticks |-> [t \in Ticks |-> IF Word(t) \in here THEN tx[v].ticks[t] ELSE 0],
             baseline |-> c, position |-> 0]

\* The head may lag behind the stream; below the floor a numbered read
\* replaces it.
QuoteCheckpoint(fl, c) == \E h \in 0..top : c = Larger(h, fl)

\* Mutant of Skips: one transaction per checkpoint.
SkipsCheckpoint(s, v) == tx[v].cp <= s.baseline \/ tx[v].cp <= s.position

\* Incorporated in the baseline, or not newer than the retained version.
Skips(s, v) == tx[v].cp <= s.baseline \/ v <= s.version

\* The inputs after transaction v, but for the ticks.
Moved(s, v) == [s EXCEPT !.version = v, !.word = tx[v].word, !.position = tx[v].cp]

With(ticks, v, replaced) == [t \in Ticks |-> IF t \in replaced THEN tx[v].ticks[t] ELSE ticks[t]]

\* Cetus: ticks outside the window are ignored, and one to remove must be known.
ApplyWindow(s, v) ==
    LET here == tx[v].changed \cap TicksIn(s.words)
    IN IF \E t \in here : tx[v].ticks[t] = 0 /\ s.ticks[t] = 0 THEN NoInputs
       ELSE [Moved(s, v) EXCEPT !.ticks = With(@, v, here)]

\* The words whose bitmap a transaction writes: a tick was initialized or cleared.
Flipped(v) == {Word(t) : t \in {u \in tx[v].changed : (tx[v].ticks[u] = 0) # (tx[v - 1].ticks[u] = 0)}}

\* The others: bitmap words and ticks are replaced wherever they are.
ApplyBitmap(s, v) ==
    LET there == TicksIn(Flipped(v))
    IN [Moved(s, v) EXCEPT
          !.words = @ \cup Flipped(v),
          !.bits = (@ \ there) \cup {t \in there : tx[v].ticks[t] # 0},
          !.ticks = With(@, v, tx[v].changed)]

\* applyRetainedObjects on an intact notification: the inputs it leaves, or NoInputs
\* when it fails.
ApplyTx(s, v) ==
    IF s = NoInputs \/ Skips(s, v) THEN s
    ELSE IF Bitmap THEN ApplyBitmap(s, v) ELSE ApplyWindow(s, v)

\* ObserveProgress with watermark m, once the inputs are s.
Progress(s, m) == IF active /\ m >= s.baseline /\ m > confirmed THEN m ELSE confirmed

Init ==
    /\ PoolInit /\ venue \in Venues /\ accepted = 0
    /\ phase = "off" /\ active = FALSE
    /\ stream = [since |-> 0, sent |-> 1, mark |-> 0] /\ pinned = NoCp
    /\ worker = NoWorker /\ replay = <<>> /\ overflow = FALSE /\ waiting = FALSE
    /\ retained = NoInputs /\ confirmed = 0 /\ floor = 0 /\ rejected = 0
    /\ failures = 0

PoolSteps == /\ (Len(tx) < TxLimit[venue] /\ (Swap \/ Provide)) \/ Seal
             /\ UNCHANGED <<venue, accepted, sessionVars, workerVars, retained, confirmed, floor, rejected, failures>>

---------------------------------------------------------------------------
\* The session

RunStart ==
    /\ phase = "off"
    /\ phase' = "subscribe" /\ active' = FALSE /\ confirmed' = 0
    /\ retained' = IF Withdraws THEN NoInputs ELSE retained
    /\ worker' = NoWorker /\ replay' = <<>> /\ overflow' = FALSE /\ waiting' = FALSE
    /\ UNCHANGED <<steady, stream, pinned, floor, rejected, failures>>

\* The stream begins after the checkpoint that is sealed when it opens.
Subscribe ==
    /\ phase = "subscribe"
    /\ stream' = [since |-> top, sent |-> VersionAt(top), mark |-> 0]
    /\ phase' = "warm"
    /\ UNCHANGED <<steady, active, pinned, workerVars, retained, confirmed, floor, rejected, failures>>

WarmHead ==
    /\ phase = "warm" /\ pinned = NoCp
    /\ \E c \in Checkpoints : QuoteCheckpoint(floor, c) /\ pinned' = c
    /\ UNCHANGED <<steady, phase, active, stream, workerVars, retained, confirmed, floor, rejected, failures>>

\* The floor may have moved while the window was read; the bitmap venues also refuse
\* a checkpoint before the last accepted one.
WarmRefused == pinned < floor \/ pinned < accepted

WarmCommit ==
    /\ phase = "warm" /\ pinned # NoCp /\ pinned' = NoCp
    /\ IF WarmRefused
       THEN phase' = "closing" /\ UNCHANGED <<retained, accepted>>
       ELSE /\ phase' = "activate" /\ retained' = At(pinned)
            /\ accepted' = IF Bitmap THEN pinned ELSE accepted
    /\ UNCHANGED <<poolVars, venue, active, stream, workerVars, confirmed, floor, rejected, failures>>

Activate ==
    /\ phase = "activate"
    /\ phase' = "run" /\ active' = TRUE
    /\ UNCHANGED <<steady, stream, pinned, workerVars, retained, confirmed, floor, rejected, failures>>

\* A failed subscription or read, a lost stream, or the caller's cancellation.
SessionFails ==
    /\ phase \in {"subscribe", "warm", "run"} /\ failures < MaxFailures
    /\ failures' = failures + 1
    /\ phase' = "closing" /\ pinned' = NoCp
    /\ UNCHANGED <<steady, active, stream, workerVars, retained, confirmed, floor, rejected>>

\* The workers have been joined.  The inputs are withdrawn, or stay without observation.
Exit ==
    /\ phase = "closing"
    /\ phase' = "off" /\ active' = FALSE /\ worker' = NoWorker
    /\ retained' = IF Withdraws THEN NoInputs ELSE retained
    /\ UNCHANGED <<steady, stream, pinned, replay, overflow, waiting, confirmed, floor, rejected, failures>>

\* The user reports the newest checkpoint he has seen.
ObserveCheckpoint ==
    /\ floor < top /\ floor' = top
    /\ UNCHANGED <<steady, sessionVars, workerVars, retained, confirmed, rejected, failures>>

---------------------------------------------------------------------------
\* The stream

\* The newest checkpoint all of whose transactions up to version v are sent.
Covered(v) == IF v = Len(tx) \/ tx[v + 1].cp > top THEN top ELSE tx[v + 1].cp - 1

Undelivered == stream.sent < Len(tx) /\ tx[stream.sent + 1].cp <= top

\* Mutant of Replay: without the limit.
ReplayUnbounded(v) ==
    /\ replay' = IF worker.pc # "idle" /\ ~overflow THEN Append(replay, v) ELSE replay
    /\ UNCHANGED overflow

\* A received transaction joins the replay while a capture runs.
Replay(v) ==
    LET full == Len(replay) >= ReplayLimit
        keeps == worker.pc # "idle" /\ ~overflow
    IN /\ overflow' = (overflow \/ (keeps /\ full))
       /\ replay' = IF ~keeps THEN replay ELSE IF full THEN <<>> ELSE Append(replay, v)

\* Mutant of Refused: the checkpoint is not observed.
RefusedOnly(c) ==
    /\ rejected' = Larger(rejected, c)
    /\ retained' = NoInputs /\ phase' = "closing"
    /\ UNCHANGED <<confirmed, replay, overflow, floor>>

\* A failed apply: its checkpoint is observed, the inputs are dropped, Run returns.
Refused(c) ==
    /\ floor' = Larger(floor, c) /\ rejected' = Larger(rejected, c)
    /\ retained' = NoInputs /\ phase' = "closing"
    /\ UNCHANGED <<confirmed, replay, overflow>>

\* A transaction and the watermark it carries, if any.
ReceiveTx ==
    /\ phase = "run" /\ Undelivered
    /\ LET v == stream.sent + 1
           next == ApplyTx(retained, v)
       IN \E m \in {stream.mark, Covered(v)} :
            /\ stream' = [stream EXCEPT !.sent = v, !.mark = m]
            /\ IF next = NoInputs THEN Refused(tx[v].cp)
               ELSE /\ retained' = next /\ confirmed' = Progress(next, m)
                    /\ Replay(v) /\ UNCHANGED <<phase, floor, rejected>>
    /\ UNCHANGED <<steady, active, pinned, worker, waiting, failures>>

\* A transaction that does not decode, or that changes the configuration.
ReceiveGarbled ==
    /\ phase = "run" /\ Undelivered /\ failures < MaxFailures
    /\ failures' = failures + 1
    /\ tx[stream.sent + 1].cp > retained.baseline
    /\ Refused(tx[stream.sent + 1].cp)
    /\ UNCHANGED <<steady, active, stream, pinned, worker, waiting>>

\* A progress frame has a watermark and no transaction.
ReceiveProgress ==
    /\ phase = "run"
    /\ \E m \in Checkpoints :
         /\ m > stream.mark /\ m >= stream.since /\ m <= Covered(stream.sent)
         /\ stream' = [stream EXCEPT !.mark = m]
         /\ confirmed' = Progress(retained, m)
    /\ UNCHANGED <<steady, phase, active, pinned, workerVars, retained, floor, rejected, failures>>

---------------------------------------------------------------------------
\* The moved window

\* Mutant of Missing: a known bitmap is enough.
MissingWords(s) == ~(Window(s.word) \subseteq s.words)

\* A word around the price, or the tick of one of its bits, is not known.
Missing(s) ==
    \/ ~(Window(s.word) \subseteq s.words)
    \/ \E t \in s.bits : Word(t) \in Window(s.word) /\ s.ticks[t] = 0

CoverageMissing ==
    retained # NoInputs /\ IF Bitmap THEN Missing(retained) ELSE retained.word # retained.center

CaptureStart ==
    /\ phase = "run" /\ worker.pc = "idle" /\ ~waiting /\ CoverageMissing
    /\ worker' = [NoWorker EXCEPT !.pc = "start"]
    /\ replay' = <<>> /\ overflow' = FALSE
    /\ UNCHANGED <<steady, sessionVars, waiting, retained, confirmed, floor, rejected, failures>>

\* captureRetainedWindow: the candidate must include what was applied.
CaptureFloor ==
    LET seen == Larger(retained.baseline, retained.position)
    IN IF Bitmap THEN seen ELSE Larger(seen, floor)
WorkerFloor ==
    /\ worker.pc = "start"
    /\ worker' = IF retained = NoInputs THEN [worker EXCEPT !.pc = "failed"]
                 ELSE [worker EXCEPT !.pc = "warm", !.floor = CaptureFloor]
    /\ UNCHANGED <<steady, sessionVars, replay, overflow, waiting, retained, confirmed, floor, rejected, failures>>

\* The candidate warms itself against its own floor, not the session's.
WorkerWarm ==
    /\ worker.pc = "warm"
    /\ \E c \in Checkpoints : QuoteCheckpoint(worker.floor, c) /\ worker' = [worker EXCEPT !.pc = "done", !.cp = c]
    /\ UNCHANGED <<steady, sessionVars, replay, overflow, waiting, retained, confirmed, floor, rejected, failures>>

WorkerFails ==
    /\ worker.pc = "warm" /\ failures < MaxFailures
    /\ failures' = failures + 1 /\ worker' = [worker EXCEPT !.pc = "failed"]
    /\ UNCHANGED <<steady, sessionVars, replay, overflow, waiting, retained, confirmed, floor, rejected>>

\* installRetainedWindow: the candidate after the replay, NoInputs if one fails.
Replayed == LET after[i \in 0..Len(replay)] ==
                    IF i = 0 THEN At(worker.cp) ELSE ApplyTx(after[i - 1], replay[i])
            IN after[Len(replay)]
LastCheckpoint(s) == IF s.position # 0 THEN s.position ELSE s.baseline
Regressed(next) ==
    \/ next.version < retained.version
    \/ next.baseline < retained.baseline
    \/ ~Bitmap /\ LastCheckpoint(next) < LastCheckpoint(retained)
Installs == worker.pc = "done" /\ ~overflow /\ Replayed # NoInputs /\ ~Regressed(Replayed)

Installed ==
    /\ phase = "run" /\ Installs
    /\ retained' = Replayed
    /\ worker' = NoWorker /\ replay' = <<>> /\ waiting' = FALSE
    /\ UNCHANGED <<steady, sessionVars, overflow, confirmed, floor, rejected, failures>>

\* Mutant of Discarded: the worker slot is not freed.
DiscardedRunning ==
    /\ phase = "run" /\ worker.pc \in {"done", "failed"} /\ ~Installs
    /\ replay' = <<>> /\ waiting' = TRUE
    /\ UNCHANGED <<steady, sessionVars, overflow, worker, retained, confirmed, floor, rejected, failures>>

\* A failed, overflowed or refused capture: the live inputs stay, with a backoff.
Discarded ==
    /\ phase = "run" /\ worker.pc \in {"done", "failed"} /\ ~Installs
    /\ worker' = NoWorker /\ replay' = <<>> /\ waiting' = TRUE
    /\ UNCHANGED <<steady, sessionVars, overflow, retained, confirmed, floor, rejected, failures>>

DelayPasses ==
    /\ waiting /\ waiting' = FALSE
    /\ UNCHANGED <<steady, sessionVars, worker, replay, overflow, retained, confirmed, floor, rejected, failures>>

---------------------------------------------------------------------------
Next ==
    \/ PoolSteps
    \/ RunStart \/ Subscribe \/ WarmHead \/ WarmCommit \/ Activate \/ SessionFails \/ Exit
    \/ ObserveCheckpoint
    \/ ReceiveTx \/ ReceiveGarbled \/ ReceiveProgress
    \/ CaptureStart \/ WorkerFloor \/ WorkerWarm \/ WorkerFails
    \/ Installed \/ Discarded \/ DelayPasses

\* Everything the code does by itself is fair; the chain, failures and the
\* caller's reconnect are not.
Fairness ==
    /\ WF_vars(Subscribe) /\ WF_vars(WarmHead) /\ WF_vars(WarmCommit) /\ WF_vars(Activate) /\ WF_vars(Exit)
    /\ WF_vars(ReceiveTx) /\ WF_vars(ReceiveProgress)
    /\ WF_vars(CaptureStart) /\ WF_vars(WorkerFloor) /\ WF_vars(WorkerWarm)
    /\ WF_vars(Installed) /\ WF_vars(Discarded) /\ WF_vars(DelayPasses)

Spec == Init /\ [][Next]_vars
FairSpec == Spec /\ Fairness

---------------------------------------------------------------------------
\* The baseline does not precede the stream, as RunRetained intends.
Anchored == retained # NoInputs /\ retained.baseline >= stream.since

\* What is retained is one state of the pool: the price and every tick of the window
\* that counts as covered are those of the retained version, whatever was captured,
\* replayed or applied live, in the window or outside it.  Lost or repeated
\* replacements would break it silently.
Coherent ==
    Anchored =>
        LET now == tx[retained.version]
            \* Bitmap venues: every tick there is, once nothing is missing.
            covered == IF ~Bitmap THEN TicksIn(retained.words)
                       ELSE IF CoverageMissing THEN {} ELSE TicksIn(Window(retained.word))
        IN /\ retained.word = now.word
           /\ \A t \in covered : retained.ticks[t] = now.ticks[t]

\* A confirmed checkpoint is covered: the inputs include every transaction up
\* to it, also several in one checkpoint (ObserveProgress, "fully covered").
ConfirmedCurrent ==
    active /\ Anchored => retained.version >= VersionAt(confirmed)

\* After a refused transaction no inputs are retained that do not include its
\* checkpoint ("Require recovery to include the rejected transaction
\* checkpoint", RunRetained), although readers lag.  An active observation is
\* never about the inputs a session before has left readable.
RecoveryIncludes ==
    retained # NoInputs =>
        /\ retained.baseline >= rejected
        /\ active => retained.baseline >= accepted

\* A session that stays up moves its window to the price and confirms the
\* newest checkpoint once the pool is quiet.
SettlesRun == <>[](phase = "run") => <>[](~CoverageMissing /\ confirmed = top)
=============================================================================
