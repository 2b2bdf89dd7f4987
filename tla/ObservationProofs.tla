-------------------------- MODULE ObservationProofs --------------------------
(***************************************************************************)
(* Theorems about the retained subscription with its observation watcher,  *)
(* for every chain, every bound and both entry points.                     *)
(***************************************************************************)
EXTENDS RetainedObservation, EvmChainProofs

-----------------------------------------------------------------------------
(* What the observer of snapshots was given. *)

\* A session that has not subscribed yet retains nothing, so that becoming active needs
\* no publication.
Told == PublishedCurrent /\ (session = "subscribing" => retained = Nil)

LEMMA ToldInit == ObsInit => Told
  BY DEF ObsInit, Init, Told, PublishedCurrent, View

LEMMA ToldSame ==
  ASSUME Told, UNCHANGED <<stateVars, running, active>>,
         session' # "subscribing" \/ session' = session
  PROVE  Told'
  BY DEF Told, PublishedCurrent, View, stateVars

\* A critical section that ends with the publication.
LEMMA ToldPublish == Publish /\ session' # "subscribing" => Told'
  BY DEF Publish, Told, PublishedCurrent

LEMMA ToldLog == Told /\ LogStep => Told'
<1> SUFFICES ASSUME Told, LogStep PROVE Told'
  OBVIOUS
<1>s. session = "live"
  BY DEF LogStep, LogRemovedStops, LogSkipped, LogGarbled, LogApplied, LogStops, Waiting
<1>1. CASE LogRemovedStops
  BY <1>1, ToldSame DEF LogRemovedStops, SessionStop
<1>2. CASE LogSkipped
  BY <1>2, <1>s, ToldSame DEF LogSkipped, lifeVars
<1>3. CASE LogGarbled
  <2>1. CASE events
    <3>1. Publish /\ UNCHANGED session
      BY <1>3, <2>1 DEF LogGarbled
    <3> QED
      BY <1>s, <3>1, ToldPublish
  <2>2. CASE ~events
    <3>1. /\ SessionStop
          /\ UNCHANGED <<running, active, retained, generation, priceObservationActive, published>>
      BY <1>3, <2>2 DEF LogGarbled
    <3> QED
      BY <3>1 DEF SessionStop, Told, PublishedCurrent
  <2> QED
    BY <2>1, <2>2
<1>4. CASE LogApplied
  BY <1>4, <1>s, ToldPublish DEF LogApplied
<1>5. CASE LogStops
  <2>1. SessionStop /\ UNCHANGED <<running, active, retained>>
    BY <1>5 DEF LogStops
  <2>2. CASE UNCHANGED <<priceObservationActive, generation, published>>
    BY <2>1, <2>2 DEF SessionStop, Told, PublishedCurrent
  <2>3. CASE priceObservationActive' = FALSE /\ published' = View(retained, generation', FALSE)
    <3>1. (running' /\ active' /\ priceObservationActive') = FALSE
      BY <2>3
    <3> QED
      BY <2>1, <2>3, <3>1 DEF SessionStop, Told, PublishedCurrent
  <2> QED
    BY <1>5, <2>2, <2>3 DEF LogStops
<1> QED
  BY <1>1, <1>2, <1>3, <1>4, <1>5 DEF LogStep

LEMMA ToldResult == Told /\ Result => Told'
<1> SUFFICES ASSUME Told, Result PROVE Told'
  OBVIOUS
<1>s. session = "live" /\ UNCHANGED <<running, active>>
  BY DEF Result, ResultStale, ResultFailed, ResultInstalled, ResultContradicted, ResultReady,
     Waiting, resultFrame
<1>1. CASE ResultStale \/ ResultFailed
  <2>1. UNCHANGED stateVars /\ session' # "subscribing"
    BY <1>1, <1>s DEF ResultStale, ResultFailed, SessionStop
  <2> QED
    BY <1>s, <2>1, ToldSame
<1>2. CASE ResultInstalled
  BY <1>2, <1>s, ToldPublish DEF ResultInstalled
<1>3. CASE ResultContradicted
  <2>1. CASE events
    BY <1>3, <1>s, <2>1, ToldPublish DEF ResultContradicted
  <2>2. CASE ~events
    <3>1. SessionStop /\ UNCHANGED <<retained, generation, priceObservationActive, published>>
      BY <1>3, <2>2 DEF ResultContradicted
    <3> QED
      BY <1>s, <3>1 DEF SessionStop, Told, PublishedCurrent
  <2> QED
    BY <2>1, <2>2
<1> QED
  BY <1>1, <1>2, <1>3 DEF Result

LEMMA ToldStep == Told /\ [ObsNext]_obsVars => Told'
<1> SUFFICES ASSUME Told, [ObsNext]_obsVars PROVE Told'
  OBVIOUS
<1>1. CASE NewBlock \/ HeadMoves \/ DelayPasses
  BY <1>1, ToldSame DEF NewBlock, HeadMoves, DelayPasses, sessionVars, lifeVars
<1>2. CASE SessionStart
  <2>1. retained' = Nil /\ Publish
    BY <1>2 DEF SessionStart
  <2> QED
    BY <2>1 DEF Publish, Told, PublishedCurrent
<1>3. CASE SessionLost \/ StartCapture
  BY <1>3, ToldSame DEF SessionLost, StartCapture, SessionStop, lifeVars
<1>4. CASE Worker
  BY <1>4, ToldSame DEF Worker, WorkerCapture, WorkerResume, WorkerReads, WorkerVerify,
     WorkerFails, workerFrame, lifeVars
<1>5. CASE Result
  BY <1>5, ToldResult
<1>6. CASE LogStep
  BY <1>6, ToldLog
<1>7. CASE RequestRecovery \/ TakeRecovery
  BY <1>7, ToldSame DEF RequestRecovery, TakeRecovery, lifeVars
<1>8. CASE SubscribeAndWatch
  <2>1. retained = Nil /\ session' = "live" /\ UNCHANGED stateVars
    BY <1>8 DEF SubscribeAndWatch, SessionSubscribe, Told
  <2> QED
    BY <2>1 DEF Told, PublishedCurrent, View, stateVars
<1>9. CASE ExitJoined
  BY <1>9, ToldPublish DEF ExitJoined, SessionExit
<1>10. CASE WatchFails
  BY <1>10, ToldSame DEF WatchFails, SessionStop
<1>11. CASE Watch
  BY <1>11, ToldSame DEF Watch, WatchRead, WatchHead, WatchCursor, WatchLogs, WatchRecheck,
     WatchHeadCheck, WatchUnavailable, WatchDecide, WatchConfirm, vars, sessionVars, lifeVars
<1>12. CASE UNCHANGED obsVars
  BY <1>12, ToldSame DEF obsVars, vars, lifeVars
<1> QED
  BY <1>1, <1>2, <1>3, <1>4, <1>5, <1>6, <1>7, <1>8, <1>9, <1>10, <1>11, <1>12
     DEF ObsNext, Others

\* The consumer's snapshot is the current one: no critical section changes the inputs or
\* their liveness without telling the observer (retained_quote.go,
\* publishQuoteSnapshotLocked).
THEOREM PublishedSafe == ObsSpec => []PublishedCurrent
<1>1. Told => PublishedCurrent
  BY DEF Told
<1> QED
  BY <1>1, ToldInit, ToldStep, PTL DEF ObsSpec

-----------------------------------------------------------------------------
(* Coherence of captures across attempts and reorganisations. *)

WorkerFields == DOMAIN NoWorker
CaptureFields == DOMAIN NoCapture

\* Some read of the block was served from another one, so that the block is not canonical
\* any more, and never will be: the chain does not return here.
Spoilt(h, isTorn) == isTorn => h # EmptyHash /\ ~HeaderIs(h)

\* What makes BaselineCoherent inductive: progress that is kept between attempts, and a
\* result that has failed, may be torn, but then its check fails.
CaptureSound ==
    /\ ChainTypeOK /\ rpcHead \in 1..Height
    /\ DOMAIN worker = WorkerFields /\ DOMAIN capture = CaptureFields
    /\ worker.torn \in BOOLEAN /\ capture.torn \in BOOLEAN
    /\ worker.base \in 0..Len(block) /\ capture.base \in 0..Len(block)
    /\ worker.phase \in {"none", "capture"} => worker.base = EmptyHash /\ ~worker.torn
    /\ worker.phase \in {"resume", "reads", "verify"} => worker.base # EmptyHash
    /\ worker.base # EmptyHash => Spoilt(worker.base, worker.torn)
    /\ worker.phase = "done" /\ worker.ok => ~worker.torn
    /\ Spoilt(capture.base, capture.torn)
    /\ torn = FALSE

LEMMA SoundInit == ObsInit => CaptureSound
<1> SUFFICES ASSUME ObsInit PROVE CaptureSound
  OBVIOUS
<1>1. ChainTypeOK /\ rpcHead \in 1..Height
  BY ChainInitType DEF ObsInit, Init, ChainInit, Height
<1> QED
  BY <1>1 DEF ObsInit, Init, ChainInit, CaptureSound, NoWorker, NoCapture, WorkerFields,
     CaptureFields, Spoilt, EmptyHash

LEMMA SoundSame ==
  ASSUME CaptureSound, UNCHANGED <<chainVars, rpcHead, worker, capture, torn>>
  PROVE  CaptureSound'
<1>1. UNCHANGED <<chain, block, returns, Height, rpcHead, worker, capture, torn>> /\ ChainTypeOK'
  BY ChainSame DEF CaptureSound, chainVars
<1> QED
  BY <1>1 DEF CaptureSound, Spoilt, HeaderIs, WorkerFields, CaptureFields

\* A new block does not make a dropped one canonical.
LEMMA SpoiltStays ==
  ASSUME ChainTypeOK, NEW n \in 1..Height, NEW log \in Effects, Grow(n, log),
         NEW h \in 1..Len(block), ~HeaderIs(h)
  PROVE  h \in 1..Len(block') /\ ~(HeaderIs(h)')
<1>1. block[h] \in Blocks /\ block[h].num \in Nat \ {0}
  <2>1. block[h] \in Blocks
    BY DEF ChainTypeOK
  <2> QED
    BY <2>1, ChainAssumption DEF Blocks, Hash
<1>2. /\ h \in 1..Len(block') /\ block'[h] = block[h]
      /\ block[h].num <= Len(chain') /\ chain'[block[h].num] = h
            => block[h].num <= Len(chain) /\ chain[block[h].num] = h
  BY <1>1, ChainKeeps
<1> QED
  BY <1>2 DEF HeaderIs, Height

LEMMA SoundNewBlock == CaptureSound /\ NewBlock => CaptureSound'
<1> SUFFICES ASSUME CaptureSound, NewBlock PROVE CaptureSound'
  OBVIOUS
<1>1. PICK n \in 1..Height, log \in Effects :
         /\ Grow(n, log) /\ rpcHead' = (IF rpcHead > n + 1 THEN n + 1 ELSE rpcHead)
  BY DEF NewBlock
<1>2. ChainTypeOK' /\ Height' = n + 1 /\ Height \in Nat
  BY <1>1, GrowType DEF CaptureSound, ChainTypeOK, Height
<1>3. rpcHead' \in 1..Height' /\ Len(block') >= Len(block) /\ Len(block) \in Nat
      /\ Len(block') \in Nat
  <2>1. block' = Append(block, Child(n, log)) /\ block \in Seq(Blocks)
    BY <1>1 DEF Grow, CaptureSound, ChainTypeOK
  <2>2. Len(block') = Len(block) + 1
    BY <2>1
  <2> QED
    BY <1>1, <1>2, <2>1, <2>2 DEF CaptureSound
<1>4. UNCHANGED <<worker, capture, torn>>
  BY DEF NewBlock, sessionVars, loopVars, stateVars
<1>5. \A h \in 1..Len(block) : ~HeaderIs(h) => ~(HeaderIs(h)')
  BY <1>1, SpoiltStays DEF CaptureSound
<1>6. (worker.base # EmptyHash => Spoilt(worker.base, worker.torn))'
  <2>1. ASSUME worker.base # EmptyHash, worker.torn PROVE ~(HeaderIs(worker.base)')
    <3>1. worker.base \in 1..Len(block) /\ ~HeaderIs(worker.base)
      BY <2>1 DEF CaptureSound, Spoilt, EmptyHash
    <3> QED
      BY <1>4, <1>5, <3>1 DEF HeaderIs
  <2> QED
    BY <1>4, <2>1 DEF Spoilt, HeaderIs
<1>7. Spoilt(capture.base, capture.torn)'
  <2>1. ASSUME capture.torn PROVE capture.base # EmptyHash /\ ~(HeaderIs(capture.base)')
    <3>1. capture.base \in 1..Len(block) /\ ~HeaderIs(capture.base)
      BY <2>1 DEF CaptureSound, Spoilt, EmptyHash
    <3> QED
      BY <1>4, <1>5, <3>1 DEF EmptyHash, HeaderIs
  <2> QED
    BY <1>4, <2>1 DEF Spoilt, HeaderIs
<1> QED
  BY <1>2, <1>3, <1>4, <1>6, <1>7 DEF CaptureSound, WorkerFields, CaptureFields

\* The chain, and what a step without new blocks leaves alone.
LEMMA ChainKept ==
  ASSUME CaptureSound, UNCHANGED <<chainVars, rpcHead>>
  PROVE  /\ ChainTypeOK' /\ rpcHead' \in 1..Height' /\ Len(block') = Len(block)
         /\ block' = block /\ chain' = chain /\ Height' = Height
  BY ChainSame DEF CaptureSound, chainVars, Height

\* A block found at a number is one of the chain's.
LEMMA FoundBlock ==
  ASSUME ChainTypeOK, NEW n \in 1..Height
  PROVE  chain[n] \in 1..Len(block) /\ chain[n] \in 0..Len(block) /\ chain[n] # EmptyHash
<1>1. chain[n] \in 1..Len(block) /\ Len(block) \in Nat
  BY DEF ChainTypeOK, Height
<1> QED
  BY <1>1 DEF EmptyHash

LEMMA SoundWorker == CaptureSound /\ Worker => CaptureSound'
<1> SUFFICES ASSUME CaptureSound, Worker PROVE CaptureSound'
  OBVIOUS
<1>1. UNCHANGED <<chainVars, rpcHead, capture, torn>>
  BY DEF Worker, WorkerCapture, WorkerResume, WorkerReads, WorkerVerify, WorkerFails, workerFrame,
     envVars, stateVars, loopVars
<1>2. /\ ChainTypeOK' /\ rpcHead' \in 1..Height' /\ Len(block') = Len(block)
      /\ block' = block /\ chain' = chain /\ Height' = Height
  BY <1>1, ChainKept
<1>w. /\ DOMAIN worker = {"phase", "epoch", "base", "floor", "floorHash", "torn", "ok"}
      /\ worker.torn \in BOOLEAN /\ worker.base \in 0..Len(block)
      /\ Len(block) \in Nat
  BY DEF CaptureSound, WorkerFields, NoWorker, ChainTypeOK
\* It is enough to look at the worker.
<1>s. ASSUME DOMAIN worker' = WorkerFields, worker'.torn \in BOOLEAN,
             worker'.base \in 0..Len(block),
             worker'.phase \in {"reads", "verify", "done"},
             worker'.phase # "done" => worker'.base # EmptyHash,
             worker'.base # EmptyHash /\ worker'.torn => ~HeaderIs(worker'.base),
             worker'.phase = "done" /\ worker'.ok => ~worker'.torn
      PROVE  CaptureSound'
  <2>1. (worker.base # EmptyHash => Spoilt(worker.base, worker.torn))'
    BY <1>2, <1>s DEF Spoilt, HeaderIs
  <2>2. Spoilt(capture.base, capture.torn)'
    BY <1>1, <1>2 DEF CaptureSound, Spoilt, HeaderIs
  <2> QED
    BY <1>1, <1>2, <1>s, <2>1, <2>2 DEF CaptureSound, WorkerFields, CaptureFields
\* A result that keeps the progress made so far, or drops it.
<1>p. ASSUME NEW ok \in BOOLEAN, Post(ok),
             ok => ~worker.torn,
             worker.base # EmptyHash /\ worker.torn => ~HeaderIs(worker.base)
      PROVE  CaptureSound'
  <2>1. /\ DOMAIN worker' = WorkerFields /\ worker'.torn = worker.torn
        /\ worker'.base = worker.base /\ worker'.phase = "done" /\ worker'.ok = ok
    BY <1>p, <1>w DEF Post, CaptureSound
  <2> QED
    BY <1>p, <1>s, <1>w, <2>1
<1>d. ASSUME worker' = [worker EXCEPT !.phase = "done", !.ok = FALSE, !.base = EmptyHash]
      PROVE  CaptureSound'
  <2>1. /\ DOMAIN worker' = WorkerFields /\ worker'.torn = worker.torn
        /\ worker'.base = EmptyHash /\ worker'.phase = "done" /\ worker'.ok = FALSE
    BY <1>d, <1>w DEF CaptureSound
  <2> QED
    BY <1>s, <1>w, <2>1 DEF EmptyHash
<1>f. worker.base # EmptyHash /\ worker.torn => ~HeaderIs(worker.base)
  BY DEF CaptureSound, Spoilt
<1>3. CASE WorkerCapture
  <2>1. ~worker.torn
    BY <1>3 DEF WorkerCapture, CaptureSound
  <2>2. CASE Post(FALSE)
    BY <1>f, <1>p, <2>2
  <2>3. ASSUME NEW n \in 1..Height, worker' = [worker EXCEPT !.phase = "reads", !.base = chain[n]]
        PROVE  CaptureSound'
    <3>1. chain[n] \in 0..Len(block) /\ chain[n] # EmptyHash
      BY FoundBlock DEF CaptureSound
    <3>2. /\ DOMAIN worker' = WorkerFields /\ worker'.torn = worker.torn
          /\ worker'.base = chain[n] /\ worker'.phase = "reads"
      BY <2>3, <1>w DEF CaptureSound
    <3> QED
      BY <1>s, <1>w, <2>1, <3>1, <3>2
  <2> QED
    BY <1>3, <2>2, <2>3 DEF WorkerCapture, CaptureSound
<1>4. CASE WorkerResume
  <2>1. CASE HeaderIs(worker.base)
    <3>1. worker' = [worker EXCEPT !.phase = "reads"] /\ worker.base # EmptyHash /\ ~worker.torn
      BY <1>4, <1>f, <2>1 DEF WorkerResume, CaptureSound
    <3>2. /\ DOMAIN worker' = WorkerFields /\ worker'.torn = worker.torn
          /\ worker'.base = worker.base /\ worker'.phase = "reads"
      BY <3>1, <1>w DEF CaptureSound
    <3> QED
      BY <1>s, <1>w, <3>1, <3>2
  <2>2. CASE ~HeaderIs(worker.base)
    BY <1>4, <1>d, <2>2 DEF WorkerResume
  <2> QED
    BY <2>1, <2>2
<1>5. CASE WorkerReads
  <2>1. /\ worker' = [worker EXCEPT !.phase = "verify", !.torn = @ \/ ~HeaderIs(worker.base)]
        /\ worker.base # EmptyHash
    BY <1>5 DEF WorkerReads, CaptureSound
  <2> DEFINE now == worker.torn \/ ~HeaderIs(worker.base)
  <2>2. now \in BOOLEAN /\ (now => ~HeaderIs(worker.base))
    BY <1>f, <2>1
  <2>3. worker' = [worker EXCEPT !.phase = "verify", !.torn = now]
    BY <2>1
  <2> HIDE DEF now
  <2>4. /\ DOMAIN worker' = WorkerFields /\ worker'.torn = now
        /\ worker'.base = worker.base /\ worker'.phase = "verify"
    BY <2>3, <1>w DEF CaptureSound
  <2> QED
    BY <1>s, <1>w, <2>1, <2>2, <2>4
<1>6. CASE WorkerVerify
  <2>1. CASE HeaderIs(worker.base)
    <3>1. Post(TRUE) /\ ~worker.torn
      BY <1>6, <1>f, <2>1 DEF WorkerVerify, CaptureSound
    <3> QED
      BY <1>f, <1>p, <3>1
  <2>2. CASE ~HeaderIs(worker.base)
    BY <1>6, <1>d, <2>2 DEF WorkerVerify
  <2> QED
    BY <2>1, <2>2
<1>7. CASE WorkerFails
  BY <1>7, <1>f, <1>p DEF WorkerFails
<1> QED
  BY <1>3, <1>4, <1>5, <1>6, <1>7 DEF Worker

\* Critical sections of the loop leave a capture, its worker, or both, or abandon them.
LEMMA SoundLoop ==
  ASSUME CaptureSound, UNCHANGED <<chainVars, rpcHead, torn>>,
         worker' = worker \/ worker' = NoWorker,
         capture' = capture \/ capture' = NoCapture
  PROVE  CaptureSound'
<1>1. /\ ChainTypeOK' /\ rpcHead' \in 1..Height' /\ Len(block') = Len(block)
      /\ block' = block /\ chain' = chain /\ Height' = Height
  BY ChainKept
<1>n. Len(block) \in Nat
  BY DEF CaptureSound, ChainTypeOK
<1>2. (worker.base # EmptyHash => Spoilt(worker.base, worker.torn))'
  <2>1. CASE worker' = worker
    BY <1>1, <2>1 DEF CaptureSound, Spoilt, HeaderIs
  <2>2. CASE worker' = NoWorker
    BY <2>2 DEF NoWorker, EmptyHash
  <2> QED
    BY <2>1, <2>2
<1>3. Spoilt(capture.base, capture.torn)'
  <2>1. CASE capture' = capture
    BY <1>1, <2>1 DEF CaptureSound, Spoilt, HeaderIs
  <2>2. CASE capture' = NoCapture
    BY <2>2 DEF NoCapture, Spoilt
  <2> QED
    BY <2>1, <2>2
<1>4. /\ DOMAIN worker' = WorkerFields /\ worker'.torn \in BOOLEAN
      /\ worker'.base \in 0..Len(block)
      /\ worker'.phase \in {"none", "capture"} => worker'.base = EmptyHash /\ ~worker'.torn
      /\ worker'.phase \in {"resume", "reads", "verify"} => worker'.base # EmptyHash
      /\ worker'.phase = "done" /\ worker'.ok => ~worker'.torn
  <2>1. CASE worker' = worker
    BY <2>1 DEF CaptureSound
  <2>2. CASE worker' = NoWorker
    BY <1>1, <1>n, <2>2 DEF NoWorker, WorkerFields, EmptyHash
  <2> QED
    BY <2>1, <2>2
<1>5. /\ DOMAIN capture' = CaptureFields /\ capture'.torn \in BOOLEAN
      /\ capture'.base \in 0..Len(block)
  <2>1. CASE capture' = capture
    BY <2>1 DEF CaptureSound
  <2>2. CASE capture' = NoCapture
    BY <1>1, <1>n, <2>2 DEF NoCapture, CaptureFields, EmptyHash
  <2> QED
    BY <2>1, <2>2
<1> QED
  BY <1>1, <1>2, <1>3, <1>4, <1>5 DEF CaptureSound, WorkerFields, CaptureFields

\* An attempt starts from the progress of the earlier ones.
LEMMA SoundStart == CaptureSound /\ StartCapture => CaptureSound'
<1> SUFFICES ASSUME CaptureSound, StartCapture PROVE CaptureSound'
  OBVIOUS
<1>1. UNCHANGED <<chainVars, rpcHead, torn>>
  BY DEF StartCapture, envVars, stateVars
<1>2. /\ ChainTypeOK' /\ rpcHead' \in 1..Height' /\ Len(block') = Len(block)
      /\ block' = block /\ chain' = chain /\ Height' = Height
  BY <1>1, ChainKept
<1>3. /\ DOMAIN worker' = WorkerFields /\ worker'.torn = capture.torn
      /\ worker'.base = capture.base
      /\ worker'.phase = IF capture.base = EmptyHash THEN "capture" ELSE "resume"
  BY DEF StartCapture, NoWorker, WorkerFields
<1>4. DOMAIN capture = {"base", "torn", "open"}
  BY DEF CaptureSound, CaptureFields, NoCapture
<1>5. /\ DOMAIN capture' = CaptureFields /\ capture'.torn = capture.torn
      /\ capture'.base = capture.base
  BY <1>4 DEF StartCapture, CaptureFields, NoCapture
<1>6. Spoilt(capture.base, capture.torn)'
  BY <1>2, <1>5 DEF CaptureSound, Spoilt, HeaderIs
<1>7. (worker.base # EmptyHash => Spoilt(worker.base, worker.torn))'
  BY <1>2, <1>3 DEF CaptureSound, Spoilt, HeaderIs
<1>8. capture.base = EmptyHash => ~capture.torn
  BY DEF CaptureSound, Spoilt
<1> QED
  BY <1>1, <1>2, <1>3, <1>5, <1>6, <1>7, <1>8
     DEF CaptureSound, WorkerFields, CaptureFields, EmptyHash

\* A failed attempt hands its progress to the next one.
LEMMA SoundFailed == CaptureSound /\ ResultFailed => CaptureSound'
<1> SUFFICES ASSUME CaptureSound, ResultFailed PROVE CaptureSound'
  OBVIOUS
<1>1. UNCHANGED <<chainVars, rpcHead, torn>> /\ worker' = NoWorker
  BY DEF ResultFailed, resultFrame, envVars, stateVars
<1>2. CASE worker.base = EmptyHash
  BY <1>1, <1>2, SoundLoop DEF ResultFailed
<1>3. CASE worker.base # EmptyHash
  <2>1. /\ ChainTypeOK' /\ rpcHead' \in 1..Height' /\ Len(block') = Len(block)
        /\ block' = block /\ chain' = chain /\ Height' = Height
    BY <1>1, ChainKept
  <2>2. /\ DOMAIN capture' = CaptureFields /\ capture'.torn = worker.torn
        /\ capture'.base = worker.base
    BY <1>3 DEF ResultFailed, CaptureFields, NoCapture
  <2>3. Spoilt(capture.base, capture.torn)'
    BY <1>3, <2>1, <2>2 DEF CaptureSound, Spoilt, HeaderIs
  <2>n. worker.base \in 0..Len(block) /\ worker.torn \in BOOLEAN /\ Len(block) \in Nat
    BY DEF CaptureSound, ChainTypeOK
  <2>4. /\ DOMAIN worker' = WorkerFields /\ worker'.torn = FALSE
        /\ worker'.base = EmptyHash /\ worker'.phase = "none"
    BY <1>1 DEF NoWorker, WorkerFields
  <2>5. worker'.base \in 0..Len(block)
    BY <2>4, <2>n DEF EmptyHash
  <2>6. capture'.base \in 0..Len(block)' /\ capture'.torn \in BOOLEAN
    BY <2>1, <2>2, <2>n
  <2> QED
    BY <1>1, <2>1, <2>2, <2>3, <2>4, <2>5, <2>6 DEF CaptureSound, WorkerFields, CaptureFields
<1> QED
  BY <1>2, <1>3

\* Only a result whose block was canonical to the end is installed.
LEMMA SoundInstalled == CaptureSound /\ ResultInstalled => CaptureSound'
<1> SUFFICES ASSUME CaptureSound, ResultInstalled PROVE CaptureSound'
  OBVIOUS
<1>1. /\ UNCHANGED <<chainVars, rpcHead>> /\ worker' = NoWorker /\ capture' = NoCapture
      /\ torn' = worker.torn /\ worker.phase = "done" /\ worker.ok
  BY DEF ResultInstalled, ResultReady, resultFrame, envVars
<1>2. UNCHANGED torn
  BY <1>1 DEF CaptureSound
<1> QED
  BY <1>1, <1>2, SoundLoop

LEMMA SoundStep == CaptureSound /\ [ObsNext]_obsVars => CaptureSound'
<1> SUFFICES ASSUME CaptureSound, [ObsNext]_obsVars PROVE CaptureSound'
  OBVIOUS
<1>1. CASE NewBlock
  BY <1>1, SoundNewBlock
<1>2. CASE HeadMoves
  <2>1. UNCHANGED <<chainVars, worker, capture, torn>> /\ rpcHead' \in (rpcHead + 1)..Height
    BY <1>2 DEF HeadMoves, sessionVars, loopVars, stateVars
  <2>2. UNCHANGED <<chain, block>> /\ ChainTypeOK' /\ Height' = Height
    BY <2>1, ChainSame DEF CaptureSound, chainVars, Height
  <2>3. rpcHead' \in 1..Height'
    BY <2>1, <2>2 DEF CaptureSound, Height, ChainTypeOK
  <2>4. Spoilt(capture.base, capture.torn)'
        /\ (worker.base # EmptyHash => Spoilt(worker.base, worker.torn))'
    BY <2>1, <2>2 DEF CaptureSound, Spoilt, HeaderIs
  <2> QED
    BY <2>1, <2>2, <2>3, <2>4 DEF CaptureSound, WorkerFields, CaptureFields
<1>3. CASE DelayPasses \/ SessionStart \/ SessionLost \/ RequestRecovery \/ TakeRecovery
  BY <1>3, SoundSame DEF DelayPasses, SessionStart, SessionLost, SessionStop, RequestRecovery,
     TakeRecovery, envVars, stateVars, loopVars
<1>4. CASE StartCapture
  BY <1>4, SoundStart
<1>5. CASE Worker
  BY <1>5, SoundWorker
<1>6. CASE ResultStale
  BY <1>6, SoundLoop DEF ResultStale, resultFrame, envVars, stateVars
<1>7. CASE ResultFailed
  BY <1>7, SoundFailed
<1>8. CASE ResultInstalled
  BY <1>8, SoundInstalled
<1>9. CASE ResultContradicted
  <2>1. UNCHANGED <<chainVars, rpcHead, torn>> /\ worker' = NoWorker /\ capture' = NoCapture
    BY <1>9 DEF ResultContradicted, resultFrame, envVars, Invalidate
  <2> QED
    BY <2>1, SoundLoop
<1>10. CASE LogRemovedStops \/ LogSkipped \/ LogStops
  BY <1>10, SoundSame DEF LogRemovedStops, LogSkipped, LogStops, stateVars, loopVars
<1>11. CASE LogGarbled
  <2>1. UNCHANGED <<chainVars, rpcHead, worker, torn>>
        /\ (capture' = capture \/ capture' = NoCapture)
    BY <1>11 DEF LogGarbled, Invalidate
  <2> QED
    BY <2>1, SoundLoop
<1>12. CASE LogApplied
  <2>1. UNCHANGED <<chainVars, rpcHead, worker, torn>>
        /\ (capture' = capture \/ capture' = NoCapture)
    BY <1>12 DEF LogApplied
  <2> QED
    BY <2>1, SoundLoop
<1>13. CASE SubscribeAndWatch
  BY <1>13, SoundLoop DEF SubscribeAndWatch, SessionSubscribe, stateVars
<1>14. CASE ExitJoined
  BY <1>14, SoundLoop DEF ExitJoined, SessionExit, loopVars
<1>15. CASE WatchFails \/ Watch
  BY <1>15, SoundSame DEF WatchFails, Watch, WatchRead, WatchHead, WatchCursor, WatchLogs,
     WatchRecheck, WatchHeadCheck, WatchUnavailable, WatchDecide, WatchConfirm, vars, envVars,
     sessionVars, stateVars, loopVars
<1>16. CASE UNCHANGED obsVars
  BY <1>16, SoundSame DEF obsVars, vars, envVars, stateVars, loopVars
<1> QED
  BY <1>1, <1>2, <1>3, <1>4, <1>5, <1>6, <1>7, <1>8, <1>9, <1>10, <1>11, <1>12, <1>13, <1>14,
     <1>15, <1>16 DEF ObsNext, Others, Result, LogStep

\* An installed baseline was read from one block in all its calls, over any number of
\* attempts and reorganisations (verifyRetainedCapture drops the progress of a block that
\* is not canonical any more, and is the last check of a capture).
THEOREM BaselineSafe == ObsSpec => []BaselineCoherent
<1>1. CaptureSound => BaselineCoherent
  BY DEF CaptureSound, BaselineCoherent
<1> QED
  BY <1>1, SoundInit, SoundStep, PTL DEF ObsSpec
-----------------------------------------------------------------------------
(* The chain: branches and what is canonical on them. *)

\* While a block is canonical, later blocks are on top of it.
Later ==
    \A x, y \in 1..Len(block) : On(chain, block, x) /\ x < y => x \in Line(block, y)

ChainGood == ChainTypeOK /\ Tree(block) /\ Chained(chain, block) /\ Later

LEMMA HeaderOn == \A h : HeaderIs(h) <=> On(chain, block, h)
  BY DEF HeaderIs, On, Height

LEMMA BranchLine == \A h : Branch(h) = Line(block, h)
  BY DEF Branch, Line

LEMMA ChainGoodInit == ObsInit => ChainGood
<1> SUFFICES ASSUME ObsInit PROVE ChainGood
  OBVIOUS
<1>1. ChainInit /\ ChainTypeOK
  BY ChainInitType DEF ObsInit, Init
<1>2. /\ Len(block) = 1 /\ Len(chain) = 1 /\ chain[1] = 1
      /\ block[1].num = 1 /\ block[1].parent = EmptyHash
  BY <1>1 DEF ChainInit
<1>3. \A x \in 1..1 : x = 1
  OBVIOUS
<1> QED
  BY <1>1, <1>2, <1>3 DEF ChainGood, Tree, Chained, Later, EmptyHash

\* What a new block does: the others stay as they are, with their branches; some are not
\* canonical any more.
LEMMA Grown ==
  ASSUME ChainGood, NEW n \in 1..Height, NEW log \in Effects, Grow(n, log)
  PROVE  /\ ChainGood' /\ Len(block') = Len(block) + 1 /\ Len(block) \in Nat
         /\ \A x \in 1..Len(block) :
               /\ block'[x] = block[x] /\ Line(block', x) = Line(block, x)
               /\ On(chain', block', x) => On(chain, block, x)
               /\ On(chain, block, x) /\ ~On(chain', block', x) => block[x].num > n
         /\ block'[Len(block) + 1] = Child(n, log)
<1> DEFINE N == Len(block)
<1>1. /\ block \in Seq(Blocks) /\ block' \in Seq(Blocks) /\ block' = Append(block, Child(n, log))
      /\ Child(n, log) \in Blocks /\ N \in Nat /\ chain \in Seq(1..N) /\ n \in 1..Len(chain)
      /\ ChainTypeOK'
  BY ChildType, GrowType DEF ChainGood, Grow, ChainTypeOK, Height
<1>2. Len(block') = N + 1 /\ block'[N + 1] = Child(n, log) /\ \A x \in 1..N : block'[x] = block[x]
  BY <1>1
<1>3. /\ Len(chain') = n + 1 /\ chain'[n + 1] = N + 1
      /\ \A i \in 1..n : chain'[i] = chain[i]
  BY <1>1 DEF Grow
<1>4. /\ chain[n] \in 1..N /\ block[chain[n]].num = n
      /\ Child(n, log).num = n + 1 /\ Child(n, log).parent = chain[n]
  BY <1>1 DEF ChainGood, Chained, Child
<1>t. Tree(block) /\ Chained(chain, block) /\ Len(chain) \in Nat
  BY <1>1 DEF ChainGood
<1>5. Tree(block')
  <2> SUFFICES ASSUME NEW x \in 1..Len(block')
               PROVE  /\ block'[x].parent \in 0..(x - 1)
                      /\ block'[x].num = IF block'[x].parent = EmptyHash THEN 1
                                         ELSE block'[block'[x].parent].num + 1
    BY DEF Tree
  <2>1. CASE x \in 1..N
    <3>1. /\ block[x].parent \in 0..(x - 1)
          /\ block[x].num = IF block[x].parent = EmptyHash THEN 1 ELSE block[block[x].parent].num + 1
      BY <2>1 DEF ChainGood, Tree
    <3>2. block[x].parent # EmptyHash => block'[block[x].parent] = block[block[x].parent]
      BY <1>1, <1>2, <2>1, <3>1 DEF EmptyHash
    <3> QED
      BY <1>2, <2>1, <3>1, <3>2
  <2>2. CASE x = N + 1
    <3>1. block'[x].parent = chain[n] /\ block'[x].num = n + 1 /\ block'[chain[n]].num = n
      BY <1>2, <1>4, <2>2
    <3>2. chain[n] # EmptyHash /\ chain[n] \in 0..(x - 1) /\ n \in Nat
      BY <1>1, <1>4, <2>2 DEF EmptyHash
    <3> QED
      BY <3>1, <3>2
  <2>3. x \in 1..N \/ x = N + 1
    BY <1>1, <1>2
  <2> QED
    BY <2>1, <2>2, <2>3
<1>6. \A x \in 0..N : Line(block', x) = Line(block, x)
  <2> TAKE x \in 0..N
  <2>1. Len(block) <= Len(block')
    BY <1>1, <1>2
  <2> QED
    BY <1>1, <1>2, <1>5, <1>t, <2>1, LineKept
<1>7. \A x \in 1..N : On(chain', block', x) => On(chain, block, x) /\ block[x].num <= n
  <2> SUFFICES ASSUME NEW x \in 1..N, On(chain', block', x)
               PROVE  On(chain, block, x) /\ block[x].num <= n
    OBVIOUS
  <2>1. block'[x] = block[x] /\ block[x].num \in Nat \ {0}
    BY <1>1, <1>2, NumType
  <2>2. block[x].num <= n + 1 /\ chain'[block[x].num] = x
    BY <1>3, <2>1 DEF On
  <2>3. block[x].num # n + 1
    BY <1>1, <1>3, <2>2
  <2>4. block[x].num \in 1..n
    BY <1>1, <2>1, <2>2, <2>3
  <2> QED
    BY <1>1, <1>3, <2>2, <2>4 DEF On
<1>8. \A x \in 1..N : On(chain, block, x) /\ ~On(chain', block', x) => block[x].num > n
  <2> SUFFICES ASSUME NEW x \in 1..N, On(chain, block, x), ~(block[x].num > n)
               PROVE  On(chain', block', x)
    OBVIOUS
  <2>1. block'[x] = block[x] /\ block[x].num \in 1..n
    BY <1>1, <1>2, NumType
  <2> QED
    BY <1>1, <1>3, <2>1 DEF On
<1>9. Chained(chain', block')
  <2> SUFFICES ASSUME NEW i \in 1..Len(chain')
               PROVE  /\ chain'[i] \in 1..Len(block') /\ block'[chain'[i]].num = i
                      /\ block'[chain'[i]].parent = IF i = 1 THEN EmptyHash ELSE chain'[i - 1]
    BY DEF Chained
  <2>1. CASE i \in 1..n
    <3>1. /\ chain[i] \in 1..N /\ block[chain[i]].num = i
          /\ block[chain[i]].parent = IF i = 1 THEN EmptyHash ELSE chain[i - 1]
      BY <1>1, <2>1 DEF ChainGood, Chained
    <3>2. i # 1 => i - 1 \in 1..n
      BY <1>1, <2>1
    <3>3. chain'[i] = chain[i] /\ (i # 1 => chain'[i - 1] = chain[i - 1])
          /\ block'[chain[i]] = block[chain[i]] /\ chain[i] \in 1..Len(block')
      BY <1>1, <1>2, <1>3, <2>1, <3>1, <3>2
    <3> QED
      BY <3>1, <3>3
  <2>2. CASE i = n + 1
    <3>1. i # 1 /\ i - 1 = n /\ n \in 1..n
      BY <1>1, <2>2
    <3>2. chain'[i] = N + 1 /\ N + 1 \in 1..Len(block') /\ chain'[i - 1] = chain[n]
      BY <1>1, <1>2, <1>3, <2>2, <3>1
    <3> QED
      BY <1>2, <1>4, <2>2, <3>1, <3>2
  <2>3. i \in 1..n \/ i = n + 1
    BY <1>1, <1>3
  <2> QED
    BY <2>1, <2>2, <2>3
<1>10. Later'
  <2> SUFFICES ASSUME NEW x \in 1..Len(block'), NEW y \in 1..Len(block'),
                      On(chain', block', x), x < y
               PROVE  x \in Line(block', y)
    BY DEF Later
  <2>1. x \in 1..N
    BY <1>1, <1>2
  <2>2. On(chain, block, x) /\ block[x].num <= n
    BY <1>7, <2>1
  <2>3. CASE y \in 1..N
    BY <1>6, <2>1, <2>2, <2>3 DEF ChainGood, Later
  <2>4. CASE y = N + 1
    <3>1. Line(block', y) = {y} \cup Line(block', chain[n])
      <4>1. y \in 1..Len(block') /\ block'[y].parent = chain[n] /\ Len(block') \in Nat
        BY <1>1, <1>2, <1>4, <2>4
      <4> QED
        BY <1>5, <4>1, LineStep
    <3>2. On(chain, block, chain[n])
      BY <1>1, <1>4 DEF On
    <3>3. x \in Line(block, chain[n])
      BY <1>1, <1>4, <1>t, <2>1, <2>2, <3>2, OnLine
    <3> QED
      BY <1>4, <1>6, <3>1, <3>3
  <2>5. y \in 1..N \/ y = N + 1
    BY <1>1, <1>2
  <2> QED
    BY <2>3, <2>4, <2>5
<1> QED
  BY <1>1, <1>2, <1>5, <1>6, <1>7, <1>8, <1>9, <1>10 DEF ChainGood

LEMMA ChainGoodSame == ChainGood /\ UNCHANGED chainVars => ChainGood'
<1> SUFFICES ASSUME ChainGood, UNCHANGED chainVars PROVE ChainGood'
  OBVIOUS
<1>1. ChainTypeOK' /\ chain' = chain /\ block' = block
  BY ChainSame DEF ChainGood, chainVars
<1> QED
  BY <1>1 DEF ChainGood, Tree, Chained, Later

\* Blocks of a good chain.
LEMMA Canonical2 ==
  ASSUME ChainGood, NEW x \in 1..Len(block), NEW y \in 1..Len(block),
         On(chain, block, x)
  PROVE  /\ x < y => block[x].num < block[y].num
         /\ On(chain, block, y) /\ block[y].num <= block[x].num => y \in Line(block, x)
         /\ \A z \in Line(block, x) : On(chain, block, z)
<1>1. block \in Seq(Blocks) /\ Tree(block) /\ Len(chain) \in Nat /\ Chained(chain, block)
  BY DEF ChainGood, ChainTypeOK
<1>2. x < y => block[x].num < block[y].num
  <2> SUFFICES ASSUME x < y PROVE block[x].num < block[y].num
    OBVIOUS
  <2>1. x \in Line(block, y) /\ x # y
    BY DEF ChainGood, Later
  <2> QED
    BY <1>1, <2>1, LineLower
<1> QED
  BY <1>1, <1>2, OnLine

-----------------------------------------------------------------------------
(* The pool on a branch. *)

NewestOf(b, hs) ==
    IF hs = {} THEN EmptyHash
    ELSE CHOOSE x \in hs : \A y \in hs : b[x].num >= b[y].num

SwapsAt(b, h) == {x \in Line(b, h) : b[x].log = "swap"}
PriceAt(b, h) == NewestOf(b, SwapsAt(b, h))
DeltasAt(b, h) == {x \in Line(b, h) : b[x].log \in {"mint", "odd"}}

LEMMA PriceLine == \A h : PriceOf(h) = PriceAt(block, h) /\ DeltasOf(h) = DeltasAt(block, h)
<1> TAKE h
<1>1. Branch(h) = Line(block, h)
  BY BranchLine
<1>2. \A hs : Newest(hs) = NewestOf(block, hs)
  BY DEF Newest, NewestOf
<1>3. PriceOf(h) = Newest(SwapsAt(block, h))
  BY <1>1 DEF PriceOf, SwapsAt
<1>4. DeltasOf(h) = DeltasAt(block, h)
  BY <1>1 DEF DeltasOf, DeltasAt
<1> QED
  BY <1>2, <1>3, <1>4 DEF PriceAt

\* The newest of some blocks of a branch is one of them, and alone.
LEMMA NewestIs ==
  ASSUME NEW b \in Seq(Blocks), Tree(b), NEW h \in 1..Len(b),
         NEW hs, hs \subseteq Line(b, h), hs # {}
  PROVE  /\ NewestOf(b, hs) \in hs
         /\ \A y \in hs : b[y].num <= b[NewestOf(b, hs)].num
         /\ \A x \in hs : (\A y \in hs : b[y].num <= b[x].num) => x = NewestOf(b, hs)
<1>1. Len(b) \in Nat
  OBVIOUS
<1>2. \A x \in hs : x \in 1..Len(b) /\ b[x].num \in Nat /\ b[x].num <= MaxBlocks
  <2> TAKE x \in hs
  <2>1. x \in 1..Len(b)
    BY <1>1, LineLower
  <2>2. b[x] \in Blocks
    BY <2>1
  <2> QED
    BY <2>1, <2>2, ChainAssumption DEF Blocks, Hash
<1> DEFINE M == {MaxBlocks - b[x].num : x \in hs}
<1>3. M \subseteq Nat /\ M # {}
  BY <1>2, ChainAssumption
<1>4. PICK m \in M : \A n \in M : m <= n
  <2> HIDE DEF M
  <2> QED
    BY <1>3, Least
<1>5. PICK x \in hs : m = MaxBlocks - b[x].num
  OBVIOUS
<1>6. \A y \in hs : b[x].num >= b[y].num
  <2> TAKE y \in hs
  <2>1. m <= MaxBlocks - b[y].num
    BY <1>4
  <2> QED
    BY <1>2, <1>5, <2>1, ChainAssumption
<1> DEFINE N == CHOOSE z \in hs : \A y \in hs : b[z].num >= b[y].num
<1>7. N \in hs /\ \A y \in hs : b[N].num >= b[y].num
  BY <1>6
<1>8. NewestOf(b, hs) = N
  BY DEF NewestOf
<1> HIDE DEF N
<1>9. ASSUME NEW z \in hs, \A y \in hs : b[y].num <= b[z].num PROVE z = N
  <2>1. b[z].num = b[N].num
    BY <1>2, <1>7, <1>9
  <2>2. z \in Line(b, N) /\ N \in 1..Len(b)
    BY <1>1, <1>2, <1>7, <2>1, LineTotal
  <2>3. z = N \/ b[z].num < b[N].num
    BY <1>1, <2>2, LineLower
  <2> QED
    BY <1>2, <1>7, <2>1, <2>3
<1>10. \A y \in hs : b[y].num <= b[N].num
  BY <1>2, <1>7
<1> QED
  BY <1>7, <1>8, <1>9, <1>10

\* The newest swap and the deltas of a branch.
LEMMA BranchType ==
  ASSUME NEW b \in Seq(Blocks), Tree(b), NEW h \in 1..Len(b)
  PROVE  /\ PriceAt(b, h) \in 0..Len(b) /\ DeltasAt(b, h) \subseteq 1..Len(b)
         /\ Line(b, h) \subseteq 1..Len(b) /\ h \in Line(b, h)
<1>1. Len(b) \in Nat
  OBVIOUS
<1>2. Line(b, h) \subseteq 1..Len(b) /\ h \in Line(b, h)
  BY <1>1, LineLower
<1> DEFINE hs == SwapsAt(b, h)
<1>4. NewestOf(b, hs) \in 0..Len(b)
  <2>1. hs \subseteq Line(b, h)
    BY DEF SwapsAt
  <2> HIDE DEF hs
  <2>2. CASE hs = {}
    BY <1>1, <2>2 DEF NewestOf, EmptyHash
  <2>3. CASE hs # {}
    <3>1. NewestOf(b, hs) \in hs
      BY <2>1, <2>3, NewestIs
    <3> QED
      BY <1>2, <2>1, <3>1
  <2> QED
    BY <2>2, <2>3
<1> QED
  BY <1>2, <1>4 DEF PriceAt, DeltasAt

\* What is known of branches does not change with new blocks.
LEMMA BranchKept ==
  ASSUME NEW b \in Seq(Blocks), Tree(b), NEW c \in Seq(Blocks), Tree(c),
         Len(b) <= Len(c), \A x \in 1..Len(b) : c[x] = b[x], NEW h \in 1..Len(b)
  PROVE  PriceAt(c, h) = PriceAt(b, h) /\ DeltasAt(c, h) = DeltasAt(b, h)
<1>1. Line(c, h) = Line(b, h)
  <2>1. h \in 0..Len(b)
    OBVIOUS
  <2> QED
    BY <2>1, LineKept
<1>2. Line(b, h) \subseteq 1..Len(b) /\ h \in 1..Len(c)
  BY BranchType
<1>3. DeltasAt(c, h) = DeltasAt(b, h) /\ SwapsAt(c, h) = SwapsAt(b, h)
  BY <1>1, <1>2 DEF DeltasAt, SwapsAt
<1> DEFINE hs == SwapsAt(b, h)
<1>4. hs \subseteq Line(b, h)
  BY DEF SwapsAt
<1> HIDE DEF hs
<1>5. NewestOf(c, hs) = NewestOf(b, hs)
  <2>1. CASE hs = {}
    BY <2>1 DEF NewestOf
  <2>2. CASE hs # {}
    <3>1. NewestOf(b, hs) \in hs /\ \A y \in hs : b[y].num <= b[NewestOf(b, hs)].num
      BY <1>4, <2>2, NewestIs
    <3>2. \A y \in hs : c[y].num <= c[NewestOf(b, hs)].num
      BY <1>2, <1>4, <3>1
    <3>3. \A x \in hs : (\A y \in hs : c[y].num <= c[x].num) => x = NewestOf(c, hs)
      BY <1>1, <1>2, <1>4, <2>2, NewestIs
    <3> QED
      BY <3>1, <3>2, <3>3
  <2> QED
    BY <2>1, <2>2
<1> QED
  BY <1>3, <1>5 DEF PriceAt, hs

-----------------------------------------------------------------------------
(* Applying a log. *)

PoolRec == [base : Nat, price : Nat, liquidity : SUBSET Nat, ticks : SUBSET Nat,
            twice : SUBSET Nat, received : Nat]
CursorRec == [num : Nat, hash : Nat, hasLog : BOOLEAN]

LEMMA CacheIs == Cache = [pool : PoolRec, cursor : CursorRec, journal : Seq(Hash), ok : BOOLEAN]
  BY DEF Cache, PoolRec, CursorRec

Rising(q) == \A i, j \in 1..Len(q) : i < j => q[i] < q[j]

\* No more entries than blocks up to the entry.
Placed(q) == \A i \in 1..Len(q) : i <= q[i]

LEMMA RememberType ==
  ASSUME NEW S, NEW q \in Seq(S), NEW x \in S, NEW limit \in Nat \ {0}
  PROVE  /\ Remember(q, x, limit) \in Seq(S)
         /\ Range(Remember(q, x, limit)) \subseteq Range(q) \cup {x}
         /\ x \in Range(Remember(q, x, limit))
<1>1. CASE x \in Range(q)
  BY <1>1 DEF Remember
<1>2. CASE x \notin Range(q)
  <2> DEFINE r == IF Len(q) = limit THEN Tail(q) ELSE q
  <2>1. r \in Seq(S) /\ \A i \in 1..Len(r) : r[i] \in Range(q)
    <3>1. CASE Len(q) = limit
      <4>1. q # <<>> /\ Len(q) \in Nat /\ Len(q) >= 1
        BY <3>1
      <4>2. Tail(q) \in Seq(S) /\ Len(Tail(q)) = Len(q) - 1
            /\ \A i \in 1..(Len(q) - 1) : Tail(q)[i] = q[i + 1]
        BY <4>1
      <4>3. \A i \in 1..(Len(q) - 1) : i + 1 \in DOMAIN q
        BY <4>1
      <4> QED
        BY <3>1, <4>2, <4>3 DEF Range
    <3>2. CASE Len(q) # limit
      BY <3>2 DEF Range
    <3> QED
      BY <3>1, <3>2
  <2>2. Remember(q, x, limit) = Append(r, x)
    BY <1>2 DEF Remember
  <2> HIDE DEF r
  <2>3. /\ Append(r, x) \in Seq(S) /\ Len(Append(r, x)) = Len(r) + 1 /\ Len(r) \in Nat
        /\ Append(r, x)[Len(r) + 1] = x /\ \A i \in 1..Len(r) : Append(r, x)[i] = r[i]
        /\ DOMAIN Append(r, x) = 1..(Len(r) + 1)
    BY <2>1
  <2>4. \A i \in 1..(Len(r) + 1) : i \in 1..Len(r) \/ i = Len(r) + 1
    BY <2>3
  <2>5. Range(Append(r, x)) \subseteq Range(q) \cup {x}
    BY <2>1, <2>3, <2>4 DEF Range
  <2>6. x \in Range(Append(r, x))
    BY <2>3 DEF Range
  <2> QED
    BY <2>2, <2>3, <2>5, <2>6
<1> QED
  BY <1>1, <1>2

\* Logs in order never fill a journal that has room for every block.
LEMMA RememberIs ==
  ASSUME JournalLimit >= MaxBlocks, NEW q \in Seq(Hash), NEW h \in Hash,
         Rising(q), Placed(q), \A x \in Range(q) : x < h
  PROVE  LET r == Remember(q, h, JournalLimit)
         IN  /\ r = Append(q, h) /\ r \in Seq(Hash) /\ Rising(r) /\ Placed(r)
             /\ Range(r) = Range(q) \cup {h} /\ Len(r) \in Nat /\ r # <<>> /\ Last(r) = h
<1>1. h \in Nat /\ h <= MaxBlocks /\ h >= 1 /\ Len(q) \in Nat /\ MaxBlocks \in Nat /\ JournalLimit \in Nat
  BY ChainAssumption, RetainedAssumption DEF Hash
<1>2. \A i \in 1..Len(q) : q[i] \in Nat /\ q[i] < h /\ i <= q[i]
  BY ChainAssumption DEF Range, Placed, Hash
<1>3. Len(q) < h
  <2>1. CASE Len(q) = 0
    BY <1>1, <2>1
  <2>2. CASE Len(q) # 0
    <3>1. Len(q) \in 1..Len(q)
      BY <1>1, <2>2
    <3> QED
      BY <1>1, <1>2, <3>1
  <2> QED
    BY <2>1, <2>2
<1>4. Len(q) # JournalLimit /\ h \notin Range(q)
  BY <1>1, <1>3
<1> DEFINE r == Append(q, h)
<1>5. Remember(q, h, JournalLimit) = r
  BY <1>4 DEF Remember
<1>6. /\ r \in Seq(Hash) /\ Len(r) = Len(q) + 1 /\ r[Len(q) + 1] = h
      /\ \A i \in 1..Len(q) : r[i] = q[i]
      /\ DOMAIN r = 1..(Len(q) + 1)
  OBVIOUS
<1>7. \A i \in 1..(Len(q) + 1) : i \in 1..Len(q) \/ i = Len(q) + 1
  BY <1>1
<1>8. Rising(r)
  BY <1>1, <1>2, <1>6, <1>7 DEF Rising
<1>9. Placed(r)
  BY <1>1, <1>2, <1>3, <1>6, <1>7 DEF Placed
<1>10. Range(r) = Range(q) \cup {h}
  <2>1. \A x \in Range(r) : x \in Range(q) \cup {h}
    BY <1>6, <1>7 DEF Range
  <2>2. h \in Range(r)
    BY <1>1, <1>6 DEF Range
  <2>3. \A i \in 1..Len(q) : q[i] \in Range(r)
    BY <1>1, <1>6 DEF Range
  <2>4. Range(q) = {q[i] : i \in 1..Len(q)}
    BY DEF Range
  <2> QED
    BY <2>1, <2>2, <2>3, <2>4
<1>11. r # <<>> /\ Last(r) = h
  BY <1>1, <1>6 DEF Last
<1> QED
  BY <1>1, <1>5, <1>6, <1>8, <1>9, <1>10, <1>11

\* What applying a log makes of the cache.
Adds(c, d, h, at) ==
    /\ d \in Cache /\ d.ok /\ d.journal = Remember(c.journal, h, JournalLimit)
    /\ d.cursor.num = block[h].num
    /\ d.pool.base = c.pool.base /\ d.pool.received = at
    /\ block[h].log = "swap" =>
          /\ d.pool.price = h
          /\ d.pool.ticks = c.pool.ticks /\ d.pool.twice = c.pool.twice
    /\ block[h].log # "swap" =>
          /\ d.pool.price = c.pool.price
          /\ d.pool.ticks = c.pool.ticks \cup {h}
          /\ d.pool.twice = c.pool.twice \cup ({h} \cap c.pool.ticks)

LEMMA ApplyIs ==
  ASSUME ChainGood, NEW c \in Cache, NEW h \in 1..Len(block), NEW at \in Nat
  PROVE  Adds(c, Apply(c, h, at), h, at)
<1>1. block \in Seq(Blocks) /\ Tree(block) /\ Len(block) \in 1..MaxBlocks
  BY DEF ChainGood, ChainTypeOK
<1>2. h \in Hash /\ h \in Nat /\ block[h].num \in Nat /\ DeltasOf(h) \in SUBSET Nat
  <2>1. DeltasAt(block, h) \subseteq 1..Len(block)
    BY <1>1, BranchType
  <2>2. DeltasOf(h) = DeltasAt(block, h)
    BY PriceLine
  <2>3. block[h].num \in Nat
    BY <1>1, NumType
  <2> QED
    BY <1>1, <2>1, <2>2, <2>3, ChainAssumption DEF Hash
<1>3. PICK p \in PoolRec, cur \in CursorRec, j \in Seq(Hash), ok \in BOOLEAN :
         c = [pool |-> p, cursor |-> cur, journal |-> j, ok |-> ok]
  BY CacheIs
<1>4. c.pool = p /\ c.journal = j
  BY <1>3
<1>5. Remember(j, h, JournalLimit) \in Seq(Hash)
  BY <1>2, RememberType, RetainedAssumption
<1>6. CursorAt(h, TRUE) \in CursorRec /\ CursorAt(h, TRUE).num = block[h].num
  BY <1>2 DEF CursorAt, CursorRec
<1> DEFINE swapped == [p EXCEPT !.price = h, !.liquidity = DeltasOf(h)]
           added == [p EXCEPT !.liquidity = @ \cup {h}, !.ticks = @ \cup {h},
                              !.twice = @ \cup ({h} \cap p.ticks)]
           new == IF block[h].log = "swap" THEN swapped ELSE added
           got == [new EXCEPT !.received = at]
<1>7. /\ swapped \in PoolRec /\ swapped.base = p.base /\ swapped.price = h
      /\ swapped.ticks = p.ticks /\ swapped.twice = p.twice
  BY <1>2 DEF PoolRec
<1>8. /\ added \in PoolRec /\ added.base = p.base /\ added.price = p.price
      /\ added.ticks = p.ticks \cup {h} /\ added.twice = p.twice \cup ({h} \cap p.ticks)
  BY <1>2 DEF PoolRec
<1> HIDE DEF swapped, added
<1>9. new \in PoolRec
  BY <1>7, <1>8
<1>10. /\ got \in PoolRec /\ got.received = at /\ got.base = new.base /\ got.price = new.price
       /\ got.ticks = new.ticks /\ got.twice = new.twice
  <2> HIDE DEF new
  <2> QED
    BY <1>9 DEF PoolRec
<1> DEFINE rem == Remember(j, h, JournalLimit)
           cur2 == CursorAt(h, TRUE)
           e == [pool |-> got, cursor |-> cur2, journal |-> rem, ok |-> TRUE]
<1>11. Apply(c, h, at) = e
  BY <1>4 DEF Apply, swapped, added
<1> HIDE DEF got, rem, cur2
<1>12. Apply(c, h, at) \in Cache
  <2>1. got \in PoolRec /\ cur2 \in CursorRec /\ rem \in Seq(Hash)
    BY <1>5, <1>6, <1>10 DEF rem, cur2
  <2>2. e \in Cache
    BY <2>1, CacheIs
  <2> QED
    BY <1>11, <2>2
<1>13. /\ Apply(c, h, at).ok /\ Apply(c, h, at).pool = got
       /\ Apply(c, h, at).journal = Remember(j, h, JournalLimit)
       /\ Apply(c, h, at).cursor.num = block[h].num
  <2>1. e.ok = TRUE /\ e.pool = got /\ e.journal = rem /\ e.cursor = cur2
    OBVIOUS
  <2> HIDE DEF e
  <2> QED
    BY <1>6, <1>11, <2>1 DEF rem, cur2
<1>14. got.base = p.base
  BY <1>7, <1>8, <1>10
<1>15. CASE block[h].log = "swap"
  <2>1. got.price = h /\ got.ticks = p.ticks /\ got.twice = p.twice
    BY <1>7, <1>10, <1>15
  <2> QED
    BY <1>4, <1>10, <1>12, <1>13, <1>14, <1>15, <2>1 DEF Adds
<1>16. CASE block[h].log # "swap"
  <2>1. got.price = p.price /\ got.ticks = p.ticks \cup {h}
        /\ got.twice = p.twice \cup ({h} \cap p.ticks)
    BY <1>8, <1>10, <1>16
  <2> QED
    BY <1>4, <1>10, <1>12, <1>13, <1>14, <1>16, <2>1 DEF Adds
<1> QED
  BY <1>15, <1>16

\* Live mode: nothing, or the log.
LEMMA LiveIs ==
  ASSUME ChainGood, NEW c \in Cache, NEW h \in 1..Len(block), NEW at \in Nat
  PROVE  /\ ApplyLive(c, h, at) \in Cache
         /\ ApplyLive(c, h, at).ok =>
               block[h].log # "odd" /\ ApplyLive(c, h, at) = Apply(c, h, at)
<1>1. Apply(c, h, at) \in Cache
  BY ApplyIs DEF Adds
<1>2. [c EXCEPT !.ok = FALSE] \in Cache /\ ~[c EXCEPT !.ok = FALSE].ok
  BY DEF Cache
<1> QED
  BY <1>1, <1>2 DEF ApplyLive

-----------------------------------------------------------------------------
(* The candidate of a finished capture. *)

Started(base, at) ==
    [pool |-> [base |-> base, price |-> PriceOf(base), liquidity |-> DeltasOf(base),
               ticks |-> DeltasOf(base), twice |-> {}, received |-> at],
     cursor |-> CursorAt(base, FALSE), journal |-> <<>>, ok |-> TRUE]

Replayed(c, x, at) ==
    IF ~c.ok THEN c
    ELSE IF block[x].log = "swap" THEN ApplyLive(c, x, at)
    ELSE ApplyReplay(c, x, at)

LEMMA StartedType ==
  ASSUME ChainGood, NEW base \in 1..Len(block), NEW at \in Nat
  PROVE  Started(base, at) \in Cache
<1>1. block \in Seq(Blocks) /\ Tree(block) /\ Len(block) \in Nat
  BY DEF ChainGood, ChainTypeOK
<1>2. PriceOf(base) \in Nat /\ DeltasOf(base) \in SUBSET Nat /\ base \in Nat /\ block[base].num \in Nat
  <2>1. PriceAt(block, base) \in 0..Len(block) /\ DeltasAt(block, base) \subseteq 1..Len(block)
    BY <1>1, BranchType
  <2>2. block[base].num \in Nat
    BY <1>1, NumType
  <2> QED
    BY <1>1, <2>1, <2>2, PriceLine
<1>3. CursorAt(base, FALSE) \in CursorRec
  BY <1>2 DEF CursorAt, CursorRec
<1> DEFINE p == [base |-> base, price |-> PriceOf(base), liquidity |-> DeltasOf(base),
                 ticks |-> DeltasOf(base), twice |-> {}, received |-> at]
<1>4. p \in PoolRec
  BY <1>2 DEF PoolRec
<1> HIDE DEF p
<1>5. [pool |-> p, cursor |-> CursorAt(base, FALSE), journal |-> <<>>, ok |-> TRUE] \in Cache
  <2> DEFINE cur == CursorAt(base, FALSE)
  <2>0. <<>> \in Seq(Hash)
    OBVIOUS
  <2>1. cur \in CursorRec
    BY <1>3
  <2> HIDE DEF cur
  <2>2. [pool |-> p, cursor |-> cur, journal |-> <<>>, ok |-> TRUE] \in Cache
    BY <1>4, <2>0, <2>1, CacheIs
  <2> QED
    BY <2>2 DEF cur
<1> QED
  BY <1>5 DEF Started, p

LEMMA ReplayedType ==
  ASSUME ChainGood, NEW c \in Cache, NEW x \in 1..Len(block), NEW at \in Nat
  PROVE  Replayed(c, x, at) \in Cache
<1>1. ApplyLive(c, x, at) \in Cache
  BY LiveIs
<1>2. [c EXCEPT !.ok = FALSE] \in Cache
  BY DEF Cache
<1>3. ApplyReplay(c, x, at) \in Cache
  BY <1>1, <1>2 DEF ApplyReplay
<1> QED
  BY <1>1, <1>3 DEF Replayed

\* The candidate as the end of a run over the buffered logs.
LEMMA CandidateRun ==
  ASSUME ChainGood, NEW base \in 1..Len(block), NEW at \in Nat, replay \in Seq(1..Len(block))
  PROVE  \E after \in [0..Len(replay) -> Cache] :
            /\ after[0] = Started(base, at)
            /\ \A i \in 1..Len(replay) : after[i] = Replayed(after[i - 1], replay[i], at)
            /\ Candidate(base, at) = after[Len(replay)]
<1> DEFINE n == Len(replay)
           F == [i \in 1..n |-> [c \in Cache |-> Replayed(c, replay[i], at)]]
<1>1. n \in Nat /\ \A i \in 1..n : replay[i] \in 1..Len(block)
  OBVIOUS
<1>2. F \in [1..n -> [Cache -> Cache]]
  <2>1. \A i \in 1..n, c \in Cache : Replayed(c, replay[i], at) \in Cache
    BY <1>1, ReplayedType
  <2> HIDE DEF n
  <2> QED
    BY <2>1
<1>3. \A i \in 1..n, c \in Cache : F[i][c] = Replayed(c, replay[i], at)
  OBVIOUS
<1> HIDE DEF F
<1>4. PICK after \in [0..n -> Cache] : Iterates(after, Started(base, at), n, F)
  <2>1. Started(base, at) \in Cache
    BY StartedType
  <2> HIDE DEF n
  <2> QED
    BY <1>1, <1>2, <2>1, Iteration
<1>5. /\ after[0] = Started(base, at)
      /\ \A i \in 1..n : after[i - 1] \in Cache /\ after[i] = Replayed(after[i - 1], replay[i], at)
  <2> HIDE DEF n
  <2>1. after[0] = Started(base, at) /\ \A i \in 1..n : after[i] = F[i][after[i - 1]]
    BY <1>4 DEF Iterates
  <2>2. \A i \in 1..n : i - 1 \in 0..n
    BY <1>1
  <2>3. \A i \in 1..n : after[i - 1] \in Cache
    BY <1>4, <2>2
  <2> QED
    BY <1>3, <2>1, <2>3
<1>6. Candidate(base, at) = after[n]
  <2> DEFINE H(f) == [i \in 0..n |-> IF i = 0 THEN Started(base, at)
                                     ELSE Replayed(f[i - 1], replay[i], at)]
             G(f) == f = H(f)
  <2>1. G(after)
    <3>1. after = [i \in 0..n |-> after[i]]
      BY <1>4
    <3>2. \A i \in 0..n : after[i] = H(after)[i]
      BY <1>1, <1>5
    <3> QED
      BY <3>1, <3>2
  <2>2. ASSUME NEW f, G(f) PROVE f = after
    <3>1. f[0] = Started(base, at) /\ \A i \in 1..n : f[i] = Replayed(f[i - 1], replay[i], at)
      <4> HIDE DEF n
      <4>1. \A i \in 1..n : i \in 0..n /\ i # 0
        BY <1>1
      <4>2. 0 \in 0..n /\ f = H(f)
        BY <1>1, <2>2
      <4> QED
        BY <4>1, <4>2
    <3>2. \A i \in 0..n : f[i] = after[i]
      <4>1. Alike(f, after, n)
        BY <1>5, <3>1 DEF Alike
      <4> HIDE DEF n
      <4> QED
        BY <1>1, <4>1, SameIteration
    <3>3. f = [i \in 0..n |-> f[i]] /\ after = [i \in 0..n |-> after[i]]
      BY <1>4, <2>2
    <3> QED
      BY <3>2, <3>3
  <2>3. Candidate(base, at) = (CHOOSE f : G(f))[n]
    BY DEF Candidate, Started, Replayed, n
  <2> HIDE DEF G
  <2> QED
    BY <2>1, <2>2, <2>3
<1> QED
  BY <1>4, <1>5, <1>6

\* A candidate takes over the deltas above its baseline from the buffer, each once, and
\* its price from the last swap in it.
Follows(c, base, at, J) ==
    /\ c.pool.base = base /\ c.pool.received = at
    /\ c.pool.ticks = DeltasOf(base) \cup {x \in Range(J) : block[x].log # "swap"}
    /\ c.pool.twice = {}
    /\ J \in Seq(Hash) /\ Rising(J) /\ Placed(J)
    /\ c.cursor.num = block[IF J = <<>> THEN base ELSE Last(J)].num
    /\ IF \E x \in Range(J) : block[x].log = "swap"
       THEN /\ c.pool.price \in Range(J) /\ block[c.pool.price].log = "swap"
            /\ \A x \in Range(J) : block[x].log = "swap" => x <= c.pool.price
       ELSE c.pool.price = PriceOf(base)

\* The buffered logs that a candidate takes over.
Taken(S, base) == {x \in S : block[x].log = "swap" \/ block[x].num > block[base].num}

LEMMA FollowsStarted ==
  ASSUME ChainGood, NEW base \in 1..Len(block), NEW at \in Nat
  PROVE  Follows(Started(base, at), base, at, <<>>) /\ Started(base, at).journal = <<>>
<1>1. Range(<<>>) = {}
  BY DEF Range
<1>2. /\ Started(base, at).pool.base = base /\ Started(base, at).pool.received = at
      /\ Started(base, at).pool.ticks = DeltasOf(base) /\ Started(base, at).pool.twice = {}
      /\ Started(base, at).pool.price = PriceOf(base)
      /\ Started(base, at).cursor = CursorAt(base, FALSE) /\ Started(base, at).journal = <<>>
  BY DEF Started
<1>3. CursorAt(base, FALSE).num = block[base].num
  BY DEF CursorAt
<1>4. Rising(<<>>) /\ Placed(<<>>) /\ <<>> \in Seq(Hash)
  BY DEF Rising, Placed
<1> QED
  BY <1>1, <1>2, <1>3, <1>4 DEF Follows

Before(q, h) == \A x \in Range(q) : x < h

Extended(c, d, base, at, S) ==
    Follows(d, base, at, d.journal) /\ Range(d.journal) = Range(c.journal) \cup S

\* Applying one more log: it is later than the others and not a delta of the baseline.
LEMMA FollowsApplied ==
  ASSUME ChainGood, JournalLimit >= MaxBlocks, NEW c \in Cache, NEW base \in 1..Len(block),
         NEW at \in Nat, NEW at0, Follows(c, base, at0, c.journal), NEW h \in 1..Len(block),
         Before(c.journal, h), block[h].log = "swap" \/ h \notin DeltasOf(base)
  PROVE  Extended(c, Apply(c, h, at), base, at, {h})
<1> DEFINE J == c.journal
           r == Append(J, h)
<1>1. block \in Seq(Blocks) /\ Len(block) \in 1..MaxBlocks /\ h \in Hash /\ h \in Nat
  BY ChainAssumption DEF ChainGood, ChainTypeOK, Hash
<1>2. J \in Seq(Hash) /\ Rising(J) /\ Placed(J) /\ \A x \in Range(J) : x < h /\ x \in Nat
  BY ChainAssumption DEF Before, Follows, Range, Hash
<1>3. /\ Remember(J, h, JournalLimit) = r /\ r \in Seq(Hash) /\ Rising(r) /\ Placed(r)
      /\ Range(r) = Range(J) \cup {h} /\ r # <<>> /\ Last(r) = h
  <2> HIDE DEF J
  <2> QED
    BY <1>1, <1>2, RememberIs
<1>4. h \notin Range(J)
  BY <1>1, <1>2
<1> HIDE DEF r
<1> DEFINE d == Apply(c, h, at)
<1>5. /\ d \in Cache /\ d.journal = r /\ d.cursor.num = block[h].num
      /\ d.pool.base = base /\ d.pool.received = at
      /\ block[h].log = "swap" =>
            /\ d.pool.price = h
            /\ d.pool.ticks = c.pool.ticks /\ d.pool.twice = {}
      /\ block[h].log # "swap" =>
            /\ d.pool.price = c.pool.price
            /\ d.pool.ticks = c.pool.ticks \cup {h}
            /\ d.pool.twice = {h} \cap c.pool.ticks
  <2>1. Adds(c, d, h, at)
    BY ApplyIs
  <2>2. c.pool.base = base /\ c.pool.twice = {}
    BY DEF Follows
  <2> HIDE DEF d
  <2> QED
    BY <1>3, <2>1, <2>2 DEF Adds
<1> HIDE DEF d
<1>6. c.pool.ticks = DeltasOf(base) \cup {x \in Range(J) : block[x].log # "swap"}
  BY DEF Follows
<1>7. d.pool.twice = {}
  BY <1>4, <1>5, <1>6
<1>8. d.pool.ticks = DeltasOf(base) \cup {x \in Range(r) : block[x].log # "swap"}
  <2> HIDE DEF J
  <2> QED
    BY <1>3, <1>5, <1>6
<1>9. IF \E x \in Range(r) : block[x].log = "swap"
      THEN /\ d.pool.price \in Range(r) /\ block[d.pool.price].log = "swap"
           /\ \A x \in Range(r) : block[x].log = "swap" => x <= d.pool.price
      ELSE d.pool.price = PriceOf(base)
  <2>p. IF \E x \in Range(J) : block[x].log = "swap"
        THEN /\ c.pool.price \in Range(J) /\ block[c.pool.price].log = "swap"
             /\ \A x \in Range(J) : block[x].log = "swap" => x <= c.pool.price
        ELSE c.pool.price = PriceOf(base)
    BY DEF Follows
  <2> HIDE DEF J
  <2>1. CASE block[h].log = "swap"
    <3>1. \A x \in Range(r) : x <= h
      BY <1>1, <1>2, <1>3
    <3> QED
      BY <1>3, <1>5, <2>1, <3>1
  <2>2. CASE block[h].log # "swap"
    BY <1>3, <1>5, <2>2, <2>p
  <2> QED
    BY <2>1, <2>2
<1> QED
  <2>1. d.cursor.num = block[IF r = <<>> THEN base ELSE Last(r)].num
    BY <1>3, <1>5
  <2>2. Follows(d, base, at, r)
    BY <1>3, <1>5, <1>7, <1>8, <1>9, <2>1 DEF Follows
  <2> QED
    BY <1>3, <1>5, <2>2 DEF d, Extended

\* One buffered log of the replay.
LEMMA FollowsReplayed ==
  ASSUME ChainGood, JournalLimit >= MaxBlocks, NEW c \in Cache, NEW base \in 1..Len(block),
         NEW at \in Nat, Follows(c, base, at, c.journal), NEW h \in 1..Len(block),
         Before(c.journal, h), c.ok, Replayed(c, h, at).ok
  PROVE  Extended(c, Replayed(c, h, at), base, at, Taken({h}, base))
<1> DEFINE d == Replayed(c, h, at)
<1>1. block \in Seq(Blocks) /\ Tree(block) /\ Len(block) \in Nat
      /\ block[h].num \in Nat /\ block[base].num \in Nat
  BY NumType DEF ChainGood, ChainTypeOK
<1>2. h \in DeltasOf(base) => h = base \/ block[h].num < block[base].num
  <2>1. h \in DeltasOf(base) => h \in Line(block, base)
    BY PriceLine DEF DeltasAt
  <2> QED
    BY <1>1, <2>1, LineLower
<1>3. CASE block[h].log = "swap"
  <2>1. d = ApplyLive(c, h, at)
    BY <1>3 DEF Replayed
  <2>2. d = Apply(c, h, at)
    BY <2>1, LiveIs
  <2>3. Taken({h}, base) = {h}
    BY <1>3 DEF Taken
  <2> QED
    BY <1>3, <2>2, <2>3, FollowsApplied
<1>4. CASE block[h].log # "swap" /\ (block[h].num < block[base].num \/ h = base)
  <2>1. d = ApplyReplay(c, h, at) /\ c.pool.base = base
    BY <1>4 DEF Replayed, Follows
  <2>2. d = c
    BY <1>4, <2>1 DEF ApplyReplay
  <2>3. Taken({h}, base) = {}
    BY <1>1, <1>4 DEF Taken
  <2> QED
    BY <2>2, <2>3 DEF Extended
<1>5. CASE block[h].log # "swap" /\ ~(block[h].num < block[base].num \/ h = base)
  <2>1. d = ApplyReplay(c, h, at) /\ c.pool.base = base
    BY <1>5 DEF Replayed, Follows
  <2>2. ~[c EXCEPT !.ok = FALSE].ok
    BY DEF Cache
  <2>3. d = ApplyLive(c, h, at) /\ block[h].num # block[base].num
    BY <1>1, <1>5, <2>1, <2>2 DEF ApplyReplay
  <2>4. d = Apply(c, h, at)
    BY <2>3, LiveIs
  <2>5. Taken({h}, base) = {h} /\ h \notin DeltasOf(base)
    BY <1>1, <1>2, <1>5, <2>3 DEF Taken
  <2> QED
    BY <2>4, <2>5, FollowsApplied
<1> QED
  BY <1>3, <1>4, <1>5

LEMMA BaseKept ==
  ASSUME ChainGood, NEW c \in Cache, NEW x \in 1..Len(block), NEW at \in Nat
  PROVE  ApplyLive(c, x, at).pool.base = c.pool.base /\ Replayed(c, x, at).pool.base = c.pool.base
<1>1. Apply(c, x, at).pool.base = c.pool.base
  BY ApplyIs DEF Adds
<1>2. [c EXCEPT !.ok = FALSE].pool = c.pool
  BY DEF Cache
<1>3. ApplyLive(c, x, at).pool.base = c.pool.base
  BY <1>1, <1>2 DEF ApplyLive
<1>4. ApplyReplay(c, x, at).pool.base = c.pool.base
  BY <1>2, <1>3 DEF ApplyReplay
<1> QED
  BY <1>3, <1>4 DEF Replayed

LEMMA CandidateType ==
  ASSUME ChainGood, NEW base \in 1..Len(block), NEW at \in Nat, replay \in Seq(1..Len(block))
  PROVE  Candidate(base, at) \in Cache /\ Candidate(base, at).pool.base = base
<1> DEFINE n == Len(replay)
<1>1. PICK after \in [0..n -> Cache] :
            /\ after[0] = Started(base, at)
            /\ \A i \in 1..n : after[i] = Replayed(after[i - 1], replay[i], at)
            /\ Candidate(base, at) = after[n]
  BY CandidateRun
<1>2. n \in Nat /\ \A i \in 1..n : replay[i] \in 1..Len(block)
  OBVIOUS
<1> HIDE DEF n
<1> DEFINE T == {i \in Nat : i <= n => after[i].pool.base = base}
<1>3. 0 \in T
  <2>1. Started(base, at).pool.base = base
    BY DEF Started
  <2> QED
    BY <1>1, <2>1
<1>4. ASSUME NEW i \in Nat, i \in T PROVE i + 1 \in T
  <2> SUFFICES ASSUME i + 1 <= n PROVE after[i + 1].pool.base = base
    OBVIOUS
  <2>1. i + 1 \in 1..n /\ i + 1 - 1 = i /\ i \in 0..n /\ i <= n
    BY <1>2
  <2>2. after[i] \in Cache /\ after[i + 1] = Replayed(after[i], replay[i + 1], at)
        /\ replay[i + 1] \in 1..Len(block)
    BY <1>1, <1>2, <2>1
  <2> QED
    BY <1>4, <2>1, <2>2, BaseKept
<1>5. Nat \subseteq T
  <2> HIDE DEF T
  <2> QED
    BY <1>3, <1>4, SetInduction
<1>6. n \in 0..n
  BY <1>2
<1> QED
  BY <1>1, <1>2, <1>5, <1>6

LEMMA CandidateIs ==
  ASSUME ChainGood, JournalLimit >= MaxBlocks, NEW base \in 1..Len(block), NEW at \in Nat,
         replay \in Seq(1..Len(block)), Rising(replay), Candidate(base, at).ok
  PROVE  LET c == Candidate(base, at)
         IN  /\ Follows(c, base, at, c.journal)
             /\ Range(c.journal) = Taken(Range(replay), base)
<1> DEFINE n == Len(replay)
           Got(i) == {replay[k] : k \in 1..i}
<1>1. PICK after \in [0..n -> Cache] :
            /\ after[0] = Started(base, at)
            /\ \A i \in 1..n : after[i] = Replayed(after[i - 1], replay[i], at)
            /\ Candidate(base, at) = after[n]
  BY CandidateRun
<1>2. n \in Nat /\ \A i \in 1..n : replay[i] \in 1..Len(block)
  OBVIOUS
<1>3. \A i, j \in 1..n : i < j => replay[i] < replay[j]
  BY DEF Rising
<1>4. Range(replay) = Got(n)
  BY DEF Range
<1> HIDE DEF n
<1> DEFINE Kept(i) == after[i].ok =>
                        /\ Follows(after[i], base, at, after[i].journal)
                        /\ Range(after[i].journal) = Taken(Got(i), base)
           T == {i \in Nat : i <= n => Kept(i)}
<1>5. 0 \in T
  <2>1. Follows(after[0], base, at, after[0].journal) /\ after[0].journal = <<>>
    BY <1>1, FollowsStarted
  <2>2. Range(<<>>) = {} /\ Got(0) = {}
    BY DEF Range
  <2>3. Taken(Got(0), base) = {}
    BY <2>2 DEF Taken
  <2> QED
    BY <2>1, <2>2, <2>3
<1>6. ASSUME NEW i \in Nat, i \in T PROVE i + 1 \in T
  <2> SUFFICES ASSUME i + 1 <= n, after[i + 1].ok
               PROVE  /\ Follows(after[i + 1], base, at, after[i + 1].journal)
                      /\ Range(after[i + 1].journal) = Taken(Got(i + 1), base)
    OBVIOUS
  <2> DEFINE c == after[i]
             d == after[i + 1]
             h == replay[i + 1]
  <2>1. i + 1 \in 1..n /\ i + 1 - 1 = i /\ i \in 0..n /\ i <= n
    BY <1>2
  <2>2. c \in Cache /\ d = Replayed(c, h, at) /\ h \in 1..Len(block)
    BY <1>1, <1>2, <2>1
  <2>3. c.ok
    <3> HIDE DEF c, d
    <3> QED
      BY <2>2 DEF Replayed, d
  <2>4. Kept(i)
    BY <1>6, <2>1
  <2>5. Follows(c, base, at, c.journal) /\ Range(c.journal) = Taken(Got(i), base)
    BY <2>3, <2>4
  <2>6. \A k \in 1..i : replay[k] < h
    BY <1>2, <1>3, <2>1
  <2>7. \A x \in Got(i) : x < h
    BY <2>6
  <2>8. Got(i + 1) = Got(i) \cup {h}
    <3>1. \A k \in 1..(i + 1) : k \in 1..i \/ k = i + 1
      BY <2>1
    <3>2. \A k \in 1..i : k \in 1..(i + 1)
      BY <2>1
    <3>3. i + 1 \in 1..(i + 1)
      BY <2>1
    <3> QED
      BY <3>1, <3>2, <3>3
  <2> HIDE DEF c, d, h, Got, Kept, T
  <2>9. Before(c.journal, h)
    BY <2>5, <2>7 DEF Before, Taken
  <2>10. d.ok
    BY DEF d
  <2>11. /\ Follows(d, base, at, d.journal)
         /\ Range(d.journal) = Range(c.journal) \cup Taken({h}, base)
    BY <2>2, <2>3, <2>5, <2>9, <2>10, FollowsReplayed DEF Extended
  <2>12. Taken(Got(i + 1), base) = Taken(Got(i), base) \cup Taken({h}, base)
    BY <2>8 DEF Taken
  <2> QED
    BY <2>5, <2>11, <2>12 DEF d
<1>7. Nat \subseteq T
  <2> HIDE DEF T
  <2> QED
    BY <1>5, <1>6, SetInduction
<1>8. Kept(n)
  <2> HIDE DEF Kept
  <2> QED
    BY <1>2, <1>7
<1> QED
  BY <1>1, <1>4, <1>8

-----------------------------------------------------------------------------
(* Types. *)

Budget == [sessions : Nat, faults : Nat, duplicates : Nat, refreshes : Nat]

FlagTypes ==
    /\ budget \in Budget
    /\ running \in BOOLEAN /\ active \in BOOLEAN /\ priceObservationActive \in BOOLEAN
    /\ recovery \in BOOLEAN /\ events \in BOOLEAN /\ busy \in BOOLEAN /\ pending \in BOOLEAN
    /\ due \in BOOLEAN
    /\ generation \in Nat /\ epoch \in Nat /\ clock \in Nat
    /\ observedBlock \in Nat /\ recoveryFloor \in Nat
    /\ session \in {"idle", "subscribing", "live", "closing"}

\* What notices say is so.
Noticed(b, w) ==
    \A i \in 1..Len(w) :
       /\ w[i].hash \in 1..Len(b) /\ w[i].num = b[w[i].hash].num
       /\ w[i].pool <=> b[w[i].hash].log # "none"

Pooled(log) == log.pool /\ ~log.removed

\* Logs come in the order of their blocks' appearance.
Ordered(w) ==
    \A i, j \in 1..Len(w) : i < j /\ Pooled(w[i]) /\ Pooled(w[j]) => w[i].hash < w[j].hash

StreamTypes ==
    /\ wire \in Seq(Logs) /\ Noticed(block, wire) /\ Ordered(wire)
    /\ seen \in Seq(Logs)
    /\ replay \in Seq(Hash) /\ \A i \in 1..Len(replay) : replay[i] \in 1..Len(block)
    /\ Len(replay) <= ReplayLimit

CacheTypes ==
    /\ retained \in PoolRec /\ retained.base \in 0..Len(block)
    /\ cursor \in CursorRec /\ journal \in Seq(Hash)

WorkTypes ==
    /\ worker.phase \in {"none", "capture", "resume", "reads", "verify", "done"}
    /\ worker.epoch \in Nat /\ worker.floor \in Nat /\ worker.ok \in BOOLEAN
    /\ worker.phase = "done" /\ worker.ok => worker.base # EmptyHash
    /\ capture.open \in BOOLEAN

WatchFields == DOMAIN NoWatch

WatchTypes ==
    /\ DOMAIN watch = WatchFields
    /\ watch.phase \in {"off", "wait", "head", "cursor", "logs", "recheck", "headcheck",
                        "decide", "apply", "failed"}
    /\ watch.outcome \in {"none", "idle", "advanced", "unavailable", "error"}
    /\ watch.frontier \in 0..Len(block) /\ watch.head \in 0..Len(block)

ObsTypes ==
    /\ ChainGood /\ CaptureSound
    /\ FlagTypes /\ StreamTypes /\ CacheTypes /\ WorkTypes /\ WatchTypes

LEMMA ObsTypesInit == ObsInit => ObsTypes
<1> SUFFICES ASSUME ObsInit PROVE ObsTypes
  OBVIOUS
<1>1. ChainGood /\ CaptureSound
  BY ChainGoodInit, SoundInit
<1>n. Len(block) \in Nat /\ ReplayLimit \in Nat \ {0}
  BY <1>1, RetainedAssumption DEF ChainGood, ChainTypeOK
<1>2. FlagTypes
  <2>1. budget \in Budget
    BY RetainedAssumption DEF ObsInit, Init, Budget
  <2> QED
    BY <2>1 DEF ObsInit, Init, FlagTypes
<1>3. StreamTypes
  <2>1. wire = <<>> /\ seen = <<>> /\ replay = <<>>
    BY DEF ObsInit, Init
  <2> QED
    BY <1>n, <2>1 DEF StreamTypes, Noticed, Ordered
<1>4. CacheTypes
  <2>1. Nil \in PoolRec /\ Nil.base = EmptyHash
    BY DEF Nil, PoolRec, EmptyHash
  <2>2. NoCursor \in CursorRec
    BY DEF NoCursor, CursorRec, EmptyHash
  <2>3. <<>> \in Seq(Hash)
    OBVIOUS
  <2>4. retained = Nil /\ cursor = NoCursor /\ journal = <<>>
    BY DEF ObsInit, Init
  <2> QED
    BY <1>n, <2>1, <2>2, <2>3, <2>4 DEF CacheTypes, EmptyHash
<1>5. WorkTypes
  BY DEF ObsInit, Init, NoWorker, NoCapture, WorkTypes
<1>6. WatchTypes
  BY <1>n DEF ObsInit, NoWatch, WatchTypes, WatchFields, EmptyHash
<1> QED
  BY <1>1, <1>2, <1>3, <1>4, <1>5, <1>6 DEF ObsTypes

LEMMA ChainGoodStep == ChainGood /\ [ObsNext]_obsVars => ChainGood'
<1> SUFFICES ASSUME ChainGood, [ObsNext]_obsVars PROVE ChainGood'
  OBVIOUS
<1>1. CASE NewBlock
  <2>1. PICK n \in 1..Height, log \in Effects : Grow(n, log)
    BY <1>1 DEF NewBlock
  <2> QED
    BY <2>1, Grown
<1>2. CASE UNCHANGED chainVars
  BY <1>2, ChainGoodSame
<1>3. NewBlock \/ UNCHANGED chainVars
  BY DEF ObsNext, Others, HeadMoves, DelayPasses, SessionStart, SessionLost, StartCapture,
     Worker, WorkerCapture, WorkerResume, WorkerReads, WorkerVerify, WorkerFails, workerFrame,
     Result, ResultStale, ResultFailed, ResultInstalled, ResultContradicted, resultFrame,
     LogStep, LogRemovedStops, LogSkipped, LogGarbled, LogApplied, LogStops, RequestRecovery,
     TakeRecovery, SubscribeAndWatch, SessionSubscribe, ExitJoined, SessionExit, WatchFails,
     Watch, WatchRead, WatchHead, WatchCursor, WatchLogs, WatchRecheck, WatchHeadCheck,
     WatchUnavailable, WatchDecide, WatchConfirm, vars, envVars, obsVars
<1> QED
  BY <1>1, <1>2, <1>3

\* Spending leaves a budget.
LEMMA SpendType ==
  ASSUME budget \in Budget, NEW what \in {"sessions", "faults", "duplicates", "refreshes"},
         Spend(what)
  PROVE  /\ budget' \in Budget
         /\ budget'.duplicates = (IF what = "duplicates" THEN budget.duplicates - 1
                                  ELSE budget.duplicates)
         /\ what = "duplicates" => budget.duplicates > 0
<1>1. budget[what] \in Nat /\ budget[what] > 0 /\ budget' = [budget EXCEPT ![what] = budget[what] - 1]
  BY DEF Spend, Budget
<1>2. CASE what = "sessions"
  BY <1>1, <1>2 DEF Budget
<1>3. CASE what = "faults"
  BY <1>1, <1>3 DEF Budget
<1>4. CASE what = "duplicates"
  BY <1>1, <1>4 DEF Budget
<1>5. CASE what = "refreshes"
  BY <1>1, <1>5 DEF Budget
<1> QED
  BY <1>2, <1>3, <1>4, <1>5

\* The notice that is handled.
LEMMA HeadType ==
  ASSUME StreamTypes, wire # <<>>
  PROVE  /\ Head(wire) = wire[1] /\ Head(wire) \in Logs /\ Head(wire).hash \in 1..Len(block)
         /\ Head(wire).num \in Nat /\ Len(wire) \in Nat \ {0}
         /\ Tail(wire) \in Seq(Logs) /\ Len(Tail(wire)) = Len(wire) - 1
         /\ \A i \in 1..(Len(wire) - 1) : Tail(wire)[i] = wire[i + 1] /\ i + 1 \in 1..Len(wire)
<1>1. wire \in Seq(Logs) /\ Len(wire) \in Nat \ {0} /\ 1 \in 1..Len(wire)
  BY DEF StreamTypes
<1>2. wire[1] \in Logs /\ wire[1].hash \in 1..Len(block) /\ Head(wire) = wire[1]
  BY <1>1 DEF StreamTypes, Noticed
<1>3. wire[1].num \in Nat
  BY <1>2, ChainAssumption DEF Logs, Hash
<1>4. /\ Tail(wire) \in Seq(Logs) /\ Len(Tail(wire)) = Len(wire) - 1
      /\ \A i \in 1..(Len(wire) - 1) : Tail(wire)[i] = wire[i + 1] /\ i + 1 \in 1..Len(wire)
  BY <1>1
<1> QED
  BY <1>1, <1>2, <1>3, <1>4

LEMMA FlagsSame ==
  ASSUME FlagTypes,
         UNCHANGED <<budget, running, active, priceObservationActive, recovery, events, busy,
                     pending, due, generation, epoch, clock, observedBlock, recoveryFloor, session>>
  PROVE  FlagTypes'
  BY DEF FlagTypes

LEMMA FlagsLog == FlagTypes /\ StreamTypes /\ LogStep => FlagTypes'
<1> SUFFICES ASSUME FlagTypes, StreamTypes, LogStep PROVE FlagTypes'
  OBVIOUS
<1>1. wire # <<>>
  BY DEF LogStep, LogRemovedStops, LogSkipped, LogGarbled, LogApplied, LogStops
<1>2. Observe(Head(wire)) \in Nat
  BY <1>1, HeadType DEF FlagTypes, Observe
<1>3. CASE LogRemovedStops
  BY <1>3 DEF LogRemovedStops, FlagTypes, SessionStop, stateVars, loopVars
<1>4. CASE LogSkipped
  BY <1>2, <1>4 DEF LogSkipped, FlagTypes, stateVars, lifeVars
<1>5. CASE LogGarbled
  <2>1. budget' \in Budget
    BY <1>5, SpendType DEF LogGarbled, FlagTypes
  <2>2. UNCHANGED <<recovery, busy, clock>> /\ session' \in {session, "closing"}
    BY <1>5 DEF LogGarbled, SessionStop
  <2>3. running' = running /\ active' = active /\ events' = events
        /\ priceObservationActive' = priceObservationActive
    BY <1>5 DEF LogGarbled
  <2>4. /\ observedBlock' \in Nat /\ epoch' \in Nat /\ generation' \in Nat /\ recoveryFloor' \in Nat
    BY <1>2, <1>5 DEF LogGarbled, Invalidate, FlagTypes
  <2>5. pending' \in BOOLEAN /\ due' \in BOOLEAN
    BY <1>5 DEF LogGarbled, Invalidate, FlagTypes
  <2> QED
    BY <2>1, <2>2, <2>3, <2>4, <2>5 DEF FlagTypes
<1>6. CASE LogApplied
  <2>1. budget' \in Budget
    <3>1. Spend("refreshes") \/ Spend("duplicates") \/ UNCHANGED budget
      BY <1>6 DEF LogApplied, Take
    <3> QED
      BY <3>1, SpendType DEF FlagTypes
  <2>2. pending' \in BOOLEAN
    <3>1. Overflows \in BOOLEAN
      BY DEF Overflows
    <3>2. PICK again \in BOOLEAN, need \in BOOLEAN :
             pending' = (pending \/ Overflows
                         \/ (retained # Nil /\ ~ApplyLive(Current, Head(wire).hash, clock + 1).ok) \/ need)
      BY <1>6 DEF LogApplied
    <3> QED
      BY <3>1, <3>2 DEF FlagTypes
  <2>3. priceObservationActive' \in BOOLEAN /\ due' \in BOOLEAN
    BY <1>6 DEF LogApplied, FlagTypes
  <2>4. generation' \in Nat /\ epoch' \in Nat /\ clock' \in Nat /\ observedBlock' \in Nat
    BY <1>2, <1>6 DEF LogApplied, FlagTypes
  <2>5. UNCHANGED <<running, active, recovery, events, busy, recoveryFloor, session>>
    BY <1>6 DEF LogApplied
  <2> QED
    BY <2>1, <2>2, <2>3, <2>4, <2>5 DEF FlagTypes
<1>7. CASE LogStops
  <2>1. UNCHANGED <<budget, recovery, running, active, events, loopVars, clock>> /\ session' = "closing"
    BY <1>7 DEF LogStops, SessionStop
  <2>2. priceObservationActive' \in BOOLEAN
    BY <1>7 DEF LogStops, FlagTypes
  <2>3. generation' \in Nat
    <3>1. generation' = generation \/ generation' = generation + 1
      BY <1>7, Zenon DEF LogStops
    <3> QED
      BY <3>1 DEF FlagTypes
  <2> QED
    BY <2>1, <2>2, <2>3 DEF FlagTypes, loopVars
<1> QED
  BY <1>3, <1>4, <1>5, <1>6, <1>7 DEF LogStep

LEMMA FlagsResult == FlagTypes /\ Result => FlagTypes'
<1> SUFFICES ASSUME FlagTypes, Result PROVE FlagTypes'
  OBVIOUS
<1>1. CASE ResultStale
  BY <1>1 DEF ResultStale, resultFrame, stateVars, FlagTypes
<1>2. CASE ResultFailed
  BY <1>2 DEF ResultFailed, resultFrame, stateVars, FlagTypes, SessionStop
<1>3. CASE ResultInstalled
  <2>1. PICK need \in BOOLEAN : NeedsCapture(need) /\ pending' = need
    BY <1>3 DEF ResultInstalled
  <2>2. budget' \in Budget
    BY <2>1, SpendType DEF NeedsCapture, FlagTypes
  <2>3. UNCHANGED <<recovery, running, active, events, observedBlock, generation, session, epoch,
                    recoveryFloor>>
    BY <1>3 DEF ResultInstalled, resultFrame
  <2>4. busy' \in BOOLEAN /\ due' \in BOOLEAN /\ priceObservationActive' \in BOOLEAN
        /\ clock' = clock + 1
    BY <1>3 DEF ResultInstalled
  <2> QED
    BY <2>1, <2>2, <2>3, <2>4 DEF FlagTypes
<1>4. CASE ResultContradicted
  <2>1. UNCHANGED <<recovery, running, active, events, observedBlock, budget, clock>> /\ busy' = FALSE
    BY <1>4 DEF ResultContradicted, resultFrame
  <2>2. session' \in {session, "closing"} /\ priceObservationActive' = priceObservationActive
    BY <1>4 DEF ResultContradicted, SessionStop
  <2>3. pending' \in BOOLEAN /\ due' \in BOOLEAN
    BY <1>4 DEF ResultContradicted, Invalidate, FlagTypes
  <2>4. epoch' \in Nat /\ generation' \in Nat /\ recoveryFloor' \in Nat
    BY <1>4 DEF ResultContradicted, Invalidate, FlagTypes
  <2> QED
    BY <2>1, <2>2, <2>3, <2>4 DEF FlagTypes
<1> QED
  BY <1>1, <1>2, <1>3, <1>4 DEF Result

LEMMA FlagsStep == FlagTypes /\ StreamTypes /\ [ObsNext]_obsVars => FlagTypes'
<1> SUFFICES ASSUME FlagTypes, StreamTypes, [ObsNext]_obsVars PROVE FlagTypes'
  OBVIOUS
<1>1. CASE NewBlock \/ HeadMoves
  BY <1>1, FlagsSame DEF NewBlock, HeadMoves, sessionVars, stateVars, lifeVars, loopVars
<1>2. CASE DelayPasses
  BY <1>2 DEF DelayPasses, FlagTypes, stateVars, lifeVars
<1>3. CASE SessionStart
  <2>1. budget' \in Budget
    BY <1>3, SpendType DEF SessionStart, FlagTypes
  <2> QED
    <3>1. UNCHANGED <<active, loopVars, clock>> /\ generation' = generation + 1
      BY <1>3 DEF SessionStart
    <3>2. session' = "subscribing" /\ running' \in BOOLEAN /\ priceObservationActive' \in BOOLEAN
          /\ recovery' \in BOOLEAN
      BY <1>3 DEF SessionStart
    <3>3. events' \in BOOLEAN
      BY <1>3, RetainedAssumption DEF SessionStart
    <3> QED
      BY <2>1, <3>1, <3>2, <3>3 DEF FlagTypes, loopVars
<1>4. CASE SessionLost
  <2>1. budget' \in Budget
    BY <1>4, SpendType DEF SessionLost, FlagTypes
  <2> QED
    BY <1>4, <2>1 DEF SessionLost, SessionStop, FlagTypes, stateVars, loopVars
<1>5. CASE StartCapture
  BY <1>5 DEF StartCapture, FlagTypes, stateVars, lifeVars
<1>6. CASE Worker
  <2>1. budget' \in Budget
    BY <1>6, SpendType DEF Worker, WorkerCapture, WorkerResume, WorkerReads, WorkerVerify, WorkerFails,
       workerFrame, FlagTypes
  <2>2. UNCHANGED <<stateVars, recovery, lifeVars, loopVars, clock>>
    BY <1>6 DEF Worker, WorkerCapture, WorkerResume, WorkerReads, WorkerVerify, WorkerFails,
       workerFrame
  <2> QED
    BY <2>1, <2>2 DEF FlagTypes, stateVars, lifeVars, loopVars
<1>7. CASE Result
  BY <1>7, FlagsResult
<1>8. CASE LogStep
  BY <1>8, FlagsLog
<1>9. CASE RequestRecovery
  <2>1. budget' \in Budget
    BY <1>9, SpendType DEF RequestRecovery, FlagTypes
  <2> QED
    BY <1>9, <2>1 DEF RequestRecovery, FlagTypes, stateVars, lifeVars, loopVars
<1>10. CASE TakeRecovery
  BY <1>10 DEF TakeRecovery, FlagTypes, stateVars, lifeVars
<1>11. CASE SubscribeAndWatch
  BY <1>11 DEF SubscribeAndWatch, SessionSubscribe, FlagTypes, stateVars
<1>12. CASE ExitJoined
  <2>1. UNCHANGED <<budget, priceObservationActive, recovery, events, loopVars, clock>>
        /\ generation' = generation + 1
    BY <1>12 DEF ExitJoined, SessionExit
  <2>2. session' = "idle" /\ running' \in BOOLEAN /\ active' \in BOOLEAN
    BY <1>12 DEF ExitJoined, SessionExit
  <2> QED
    BY <2>1, <2>2 DEF FlagTypes, loopVars
<1>13. CASE WatchFails
  BY <1>13 DEF WatchFails, SessionStop, FlagTypes, stateVars, loopVars
<1>14. CASE Watch
  <2>1. UNCHANGED vars \/ (Spend("faults") /\ UNCHANGED <<envVars, sessionVars>>)
    BY <1>14 DEF Watch, WatchRead, WatchHead, WatchCursor, WatchLogs, WatchRecheck, WatchHeadCheck,
       WatchUnavailable, WatchDecide, WatchConfirm
  <2>2. CASE UNCHANGED vars
    BY <2>2, FlagsSame DEF vars, stateVars, lifeVars, loopVars
  <2>3. CASE Spend("faults") /\ UNCHANGED <<envVars, sessionVars>>
    <3>1. budget' \in Budget
      BY <2>3, SpendType DEF FlagTypes
    <3> QED
      BY <2>3, <3>1 DEF FlagTypes, sessionVars, stateVars, lifeVars, loopVars
  <2> QED
    BY <2>1, <2>2, <2>3
<1>15. CASE UNCHANGED obsVars
  BY <1>15, FlagsSame DEF obsVars, vars, stateVars, lifeVars, loopVars
<1> QED
  BY <1>1, <1>2, <1>3, <1>4, <1>5, <1>6, <1>7, <1>8, <1>9, <1>10, <1>11, <1>12, <1>13, <1>14,
     <1>15 DEF ObsNext, Others

-----------------------------------------------------------------------------
(* The wire. *)

\* The blocks whose logs are still to come, behind the first notice and with it: the
\* event session has handled a first notice that it remembers.
RestOf(w) == {w[i].hash : i \in {j \in 2..Len(w) : Pooled(w[j])}}
ComingOf(w, e, s) ==
    RestOf(w) \cup
    (IF w # <<>> /\ Pooled(w[1]) /\ ~(e /\ w[1] \in Range(s)) THEN {w[1].hash} ELSE {})

LEMMA ComingIn ==
  ASSUME NEW w \in Seq(Logs), NEW e, NEW s, NEW y \in ComingOf(w, e, s)
  PROVE  \E i \in 1..Len(w) : w[i].hash = y /\ Pooled(w[i])
<1>1. Len(w) \in Nat /\ (w # <<>> => Len(w) >= 1)
  OBVIOUS
<1>2. CASE y \in RestOf(w)
  BY <1>1, <1>2 DEF RestOf
<1>3. CASE y \notin RestOf(w)
  <2>1. w # <<>> /\ Pooled(w[1]) /\ y = w[1].hash
    BY <1>3 DEF ComingOf
  <2>2. 1 \in 1..Len(w)
    BY <1>1, <2>1
  <2> QED
    BY <2>1, <2>2
<1> QED
  BY <1>2, <1>3

\* A notice is taken.
LEMMA WireTail ==
  ASSUME NEW b, NEW w \in Seq(Logs), w # <<>>, Noticed(b, w), Ordered(w)
  PROVE  /\ Tail(w) \in Seq(Logs) /\ Noticed(b, Tail(w)) /\ Ordered(Tail(w))
         /\ \A e, s : ComingOf(Tail(w), e, s) \subseteq RestOf(w)
         /\ \A s : ComingOf(Tail(w), FALSE, s) = RestOf(w)
         /\ Pooled(w[1]) => \A y \in RestOf(w) : w[1].hash < y
<1> DEFINE t == Tail(w)
<1>1. Len(w) \in Nat \ {0} /\ 1 \in 1..Len(w)
  OBVIOUS
<1>2. t \in Seq(Logs) /\ Len(t) = Len(w) - 1 /\ \A i \in 1..Len(t) : t[i] = w[i + 1] /\ i + 1 \in 2..Len(w)
  BY <1>1
<1>3. \A j \in 2..Len(w) : j - 1 \in 1..Len(t) /\ w[j] = t[j - 1] /\ (t # <<>>) /\ j \in 1..Len(w)
  BY <1>1, <1>2
<1> HIDE DEF t
<1>4. Noticed(b, t)
  BY <1>1, <1>2 DEF Noticed
<1>5. Ordered(t)
  <2> SUFFICES ASSUME NEW i \in 1..Len(t), NEW j \in 1..Len(t), i < j, Pooled(t[i]), Pooled(t[j])
               PROVE  t[i].hash < t[j].hash
    BY DEF Ordered
  <2>1. i + 1 \in 1..Len(w) /\ j + 1 \in 1..Len(w) /\ i + 1 < j + 1
    BY <1>1, <1>2
  <2>2. t[i] = w[i + 1] /\ t[j] = w[j + 1]
    BY <1>2
  <2> QED
    BY <2>1, <2>2 DEF Ordered
<1>6. \A y \in RestOf(t) : y \in RestOf(w)
  <2> TAKE y \in RestOf(t)
  <2>1. PICK i \in 2..Len(t) : Pooled(t[i]) /\ y = t[i].hash
    BY DEF RestOf
  <2>2. i \in 1..Len(t)
    BY <1>1, <1>2
  <2>3. t[i] = w[i + 1] /\ i + 1 \in 2..Len(w)
    BY <1>2, <2>2
  <2> QED
    BY <2>1, <2>3 DEF RestOf
<1>7. t # <<>> /\ Pooled(t[1]) => t[1].hash \in RestOf(w)
  <2> SUFFICES ASSUME t # <<>>, Pooled(t[1]) PROVE t[1].hash \in RestOf(w)
    OBVIOUS
  <2>1. 1 \in 1..Len(t)
    BY <1>1, <1>2
  <2>2. t[1] = w[1 + 1] /\ 1 + 1 \in 2..Len(w)
    BY <1>2, <2>1
  <2> QED
    BY <2>2 DEF RestOf
<1>8. \A e, s : ComingOf(t, e, s) \subseteq RestOf(w)
  BY <1>6, <1>7 DEF ComingOf
<1>9. \A y \in RestOf(w) : y \in RestOf(t) \/ (t # <<>> /\ Pooled(t[1]) /\ y = t[1].hash)
  <2> TAKE y \in RestOf(w)
  <2>1. PICK j \in 2..Len(w) : Pooled(w[j]) /\ y = w[j].hash
    BY DEF RestOf
  <2>2. j - 1 \in 1..Len(t) /\ w[j] = t[j - 1] /\ t # <<>>
    BY <1>3, <2>1
  <2>3. CASE j = 2
    BY <2>1, <2>2, <2>3
  <2>4. CASE j # 2
    <3>1. j - 1 \in 2..Len(t)
      BY <1>1, <1>2, <2>2, <2>4
    <3> QED
      BY <2>1, <2>2, <3>1 DEF RestOf
  <2> QED
    BY <2>3, <2>4
<1>10. \A s : ComingOf(t, FALSE, s) = RestOf(w)
  BY <1>6, <1>7, <1>9 DEF ComingOf
<1>11. ASSUME Pooled(w[1]), NEW y \in RestOf(w) PROVE w[1].hash < y
  <2>1. PICK j \in 2..Len(w) : Pooled(w[j]) /\ y = w[j].hash
    BY DEF RestOf
  <2>2. 1 < j /\ j \in 1..Len(w)
    BY <1>1
  <2> QED
    BY <1>1, <1>11, <2>1, <2>2 DEF Ordered
<1> QED
  BY <1>2, <1>4, <1>5, <1>8, <1>10, <1>11 DEF t

\* Notices are appended that announce the removal of blocks, and then, maybe, a new block.
Announces(b, D, h) ==
    /\ D \in Seq(Logs) /\ Noticed(b, D)
    /\ \A k \in 1..Len(D) : ~D[k].removed => k = Len(D) /\ D[k].hash = h

LEMMA WireGrows ==
  ASSUME NEW b, NEW c, NEW w \in Seq(Logs), Noticed(b, w), Ordered(w),
         Len(b) \in Nat, Len(c) = Len(b) + 1, \A x \in 1..Len(b) : c[x] = b[x],
         NEW D, Announces(c, D, Len(c))
  PROVE  /\ w \o D \in Seq(Logs) /\ Noticed(c, w \o D) /\ Ordered(w \o D)
         /\ \A e, s : ComingOf(w \o D, e, s) \subseteq ComingOf(w, e, s) \cup {Len(c)}
         /\ \A s : ComingOf(w, FALSE, s) \subseteq ComingOf(w \o D, FALSE, s)
         /\ \A k \in 1..Len(D) : \A s : Pooled(D[k]) => D[k].hash \in ComingOf(w \o D, FALSE, s)
<1> DEFINE v == w \o D
           p == Len(w)
           q == Len(D)
<1>1. p \in Nat /\ q \in Nat /\ D \in Seq(Logs) /\ (w # <<>> <=> p # 0) /\ Len(c) \in Nat
      /\ \A k \in 1..q : ~D[k].removed => k = q /\ D[k].hash = Len(c)
  BY DEF Announces
<1>2. v \in Seq(Logs) /\ Len(v) = p + q /\ (\A i \in 1..p : v[i] = w[i])
      /\ (\A k \in 1..q : v[p + k] = D[k])
  BY <1>1
<1> HIDE DEF v, p, q
<1>3. \A i \in 1..(p + q) : i \in 1..p \/ (i - p \in 1..q /\ v[i] = D[i - p] /\ ~(i \in 1..p))
  <2> SUFFICES ASSUME NEW i \in 1..(p + q), ~(i \in 1..p) PROVE i - p \in 1..q /\ v[i] = D[i - p]
    OBVIOUS
  <2>1. i - p \in 1..q /\ p + (i - p) = i
    BY <1>1
  <2> QED
    BY <1>2, <2>1
<1>4. Noticed(c, v)
  <2>1. \A i \in 1..p : /\ v[i].hash \in 1..Len(c) /\ v[i].num = c[v[i].hash].num
                        /\ v[i].pool <=> c[v[i].hash].log # "none"
    BY <1>2 DEF Noticed, p
  <2>2. \A k \in 1..q : /\ D[k].hash \in 1..Len(c) /\ D[k].num = c[D[k].hash].num
                        /\ D[k].pool <=> c[D[k].hash].log # "none"
    BY DEF Announces, Noticed, q
  <2> QED
    <3> SUFFICES ASSUME NEW i \in 1..(p + q)
                 PROVE  /\ v[i].hash \in 1..Len(c) /\ v[i].num = c[v[i].hash].num
                        /\ v[i].pool <=> c[v[i].hash].log # "none"
      BY <1>2 DEF Noticed
    <3>1. CASE i \in 1..p
      BY <2>1, <3>1
    <3>2. CASE i \notin 1..p
      <4>1. i - p \in 1..q /\ v[i] = D[i - p]
        BY <1>3, <3>2
      <4> QED
        BY <2>2, <4>1
    <3> QED
      BY <3>1, <3>2
<1>5. Ordered(v)
  <2> SUFFICES ASSUME NEW i \in 1..(p + q), NEW j \in 1..(p + q), i < j, Pooled(v[i]), Pooled(v[j])
               PROVE  v[i].hash < v[j].hash
    BY <1>1, <1>2 DEF Ordered
  <2>1. CASE j \in 1..p
    <3>1. i \in 1..p
      BY <1>1, <2>1
    <3> QED
      BY <1>2, <2>1, <3>1 DEF Ordered, p
  <2>2. CASE j \notin 1..p
    <3>1. j - p \in 1..q /\ v[j] = D[j - p]
      BY <1>3, <2>2
    <3>2. j - p = q /\ v[j].hash = Len(c)
      BY <1>1, <3>1 DEF Pooled
    <3>3. i \in 1..p
      <4> SUFFICES ASSUME i \notin 1..p PROVE FALSE
        OBVIOUS
      <4>1. i - p \in 1..q /\ v[i] = D[i - p]
        BY <1>3
      <4>2. i - p = q
        BY <1>1, <4>1 DEF Pooled
      <4> QED
        BY <1>1, <3>2, <4>2
    <3>4. v[i].hash \in 1..Len(b)
      BY <1>2, <3>3 DEF Noticed, p
    <3> QED
      BY <3>2, <3>4
  <2> QED
    BY <2>1, <2>2
<1>6. ASSUME NEW e, NEW s PROVE ComingOf(v, e, s) \subseteq ComingOf(w, e, s) \cup {Len(c)}
  <2> SUFFICES ASSUME NEW y \in ComingOf(v, e, s), y # Len(c) PROVE y \in ComingOf(w, e, s)
    OBVIOUS
  <2>1. CASE y \in RestOf(v)
    <3>1. PICK i \in 2..(p + q) : Pooled(v[i]) /\ y = v[i].hash
      BY <1>1, <1>2, <2>1 DEF RestOf
    <3>2. i \in 1..p
      <4> SUFFICES ASSUME i \notin 1..p PROVE FALSE
        OBVIOUS
      <4>1. i \in 1..(p + q)
        BY <1>1
      <4>2. i - p \in 1..q /\ v[i] = D[i - p]
        BY <1>3, <4>1
      <4> QED
        BY <1>1, <3>1, <4>2 DEF Pooled
    <3>3. i \in 2..p /\ v[i] = w[i]
      BY <1>1, <1>2, <3>2
    <3>4. y \in RestOf(w)
      BY <3>1, <3>3 DEF RestOf, p
    <3> QED
      BY <3>4 DEF ComingOf
  <2>2. CASE y \notin RestOf(v)
    <3>1. v # <<>> /\ Pooled(v[1]) /\ y = v[1].hash /\ ~(e /\ v[1] \in Range(s))
      BY <2>2 DEF ComingOf
    <3>2. 1 \in 1..(p + q)
      BY <1>1, <1>2, <3>1
    <3>3. 1 \in 1..p
      <4> SUFFICES ASSUME 1 \notin 1..p PROVE FALSE
        OBVIOUS
      <4>2. 1 - p \in 1..q /\ v[1] = D[1 - p]
        BY <1>3, <3>2
      <4> QED
        BY <1>1, <3>1, <4>2 DEF Pooled
    <3>4. w # <<>> /\ v[1] = w[1]
      BY <1>1, <1>2, <3>3
    <3> QED
      BY <3>1, <3>4 DEF ComingOf
  <2> QED
    BY <2>1, <2>2
<1>7. \A i \in 1..(p + q) : \A s : Pooled(v[i]) => v[i].hash \in ComingOf(v, FALSE, s)
  <2> TAKE i \in 1..(p + q)
  <2> TAKE s
  <2> SUFFICES ASSUME Pooled(v[i]) PROVE v[i].hash \in ComingOf(v, FALSE, s)
    OBVIOUS
  <2>1. CASE i = 1
    <3>1. v # <<>>
      BY <1>1, <1>2
    <3> QED
      BY <2>1, <3>1 DEF ComingOf
  <2>2. CASE i # 1
    <3>1. i \in 2..Len(v)
      BY <1>1, <1>2, <2>2
    <3> QED
      BY <3>1 DEF ComingOf, RestOf
  <2> QED
    BY <2>1, <2>2
<1>8. ASSUME NEW s, NEW y \in ComingOf(w, FALSE, s) PROVE y \in ComingOf(v, FALSE, s)
  <2>1. PICK i \in 1..p : w[i].hash = y /\ Pooled(w[i])
    <3>1. PICK e : y \in ComingOf(w, e, s)
      BY <1>8, Zenon
    <3> QED
      BY <3>1, ComingIn DEF p
  <2>2. i \in 1..(p + q) /\ v[i] = w[i]
    BY <1>1, <1>2
  <2> QED
    BY <1>7, <2>1, <2>2
<1>9. ASSUME NEW k \in 1..q, NEW s, Pooled(D[k]) PROVE D[k].hash \in ComingOf(v, FALSE, s)
  <2>1. p + k \in 1..(p + q) /\ v[p + k] = D[k]
    BY <1>1, <1>2
  <2> QED
    BY <1>7, <1>9, <2>1
<1> QED
  BY <1>2, <1>4, <1>5, <1>6, <1>8, <1>9 DEF v, q

\* The notices of a new block.
LEMMA NoticesIs ==
  ASSUME ChainGood, NEW n \in 1..Height, NEW log \in Effects, Grow(n, log),
         NEW D, D = Notices(n, Len(block) + 1, Child(n, log))
  PROVE  /\ Announces(block', D, Len(block'))
         /\ \A x \in 1..Len(block) : On(chain, block, x) /\ ~On(chain', block', x) =>
               \E k \in 1..Len(D) : D[k].removed /\ D[k].hash = x
         /\ log # "none" => \E k \in 1..Len(D) : Pooled(D[k]) /\ D[k].hash = Len(block')
<1> DEFINE N == Len(block)
           b == Child(n, log)
           R == Dropped(n)
           new == [num |-> b.num, hash |-> N + 1, pool |-> TRUE, removed |-> FALSE]
           r == Height - n
<1>1. /\ ChainGood' /\ Len(block') = N + 1 /\ N \in Nat /\ block'[N + 1] = b
      /\ \A x \in 1..N : /\ block'[x] = block[x]
                         /\ On(chain, block, x) /\ ~On(chain', block', x) => block[x].num > n
  BY Grown
<1>2. /\ ChainTypeOK /\ block \in Seq(Blocks) /\ chain \in Seq(1..N) /\ Height = Len(chain)
      /\ n \in Nat /\ Height \in Nat /\ n <= Height /\ Len(block) < MaxBlocks
  BY DEF ChainGood, ChainTypeOK, Height, Grow
<1>3. b \in Blocks /\ b.num \in Nat /\ b.log = log /\ N + 1 \in Hash
  <2>1. b \in Blocks
    BY <1>2, ChildType
  <2>2. b.num \in Nat
    BY <2>1, ChainAssumption DEF Blocks, Hash
  <2> QED
    BY <1>1, <1>2, <2>1, <2>2, ChainAssumption DEF Child, Hash
<1>4. D \in Seq(Logs)
  <2>1. n \in 0..Height
    BY <1>2
  <2> QED
    BY <1>2, <1>3, <2>1, NoticesType
<1>5. /\ R \in Seq(Logs) /\ r \in Nat /\ Len(R) = r
      /\ \A i \in 1..r : R[i] = Log(chain[Height + 1 - i], TRUE)
  <2>1. n \in 0..Height /\ r \in Nat
    BY <1>2
  <2>2. R \in Seq(Logs)
    BY <1>2, <2>1, DroppedType
  <2>3. DOMAIN R = 1..r /\ \A i \in 1..r : R[i] = Log(chain[Height + 1 - i], TRUE)
    BY DEF Dropped
  <2>4. Len(R) = r
    <3> HIDE DEF R, r
    <3> QED
      BY <2>1, <2>2, <2>3
  <2> QED
    BY <2>1, <2>2, <2>3, <2>4
<1>6. D = R \o (IF log # "none" THEN <<new>> ELSE <<>>)
  BY <1>3 DEF Notices
<1>c. \A i \in 1..r : chain[Height + 1 - i] \in 1..N
  BY <1>2
<1>7. ASSUME NEW i \in 1..r
      PROVE  /\ R[i].removed /\ R[i].hash = chain[Height + 1 - i] /\ R[i].hash \in 1..N
             /\ R[i].num = block'[R[i].hash].num
             /\ R[i].pool <=> block'[R[i].hash].log # "none"
  <2> DEFINE h == chain[Height + 1 - i]
  <2>1. h \in 1..N /\ R[i] = Log(h, TRUE)
    BY <1>5, <1>7, <1>c
  <2> HIDE DEF h, R
  <2>2. /\ R[i].removed = TRUE /\ R[i].hash = h /\ R[i].num = block[h].num
        /\ R[i].pool = (block[h].log # "none")
    BY <2>1 DEF Log
  <2>3. block'[h] = block[h]
    BY <1>1, <2>1
  <2> QED
    BY <2>1, <2>2, <2>3 DEF h
<1>8. \A x \in 1..N : On(chain, block, x) /\ ~On(chain', block', x) =>
         \E k \in 1..r : R[k].removed /\ R[k].hash = x
  <2> SUFFICES ASSUME NEW x \in 1..N, On(chain, block, x), ~On(chain', block', x)
               PROVE  \E k \in 1..r : R[k].removed /\ R[k].hash = x
    OBVIOUS
  <2> DEFINE m == block[x].num
  <2>1. m > n /\ m <= Height /\ chain[m] = x /\ m \in Nat
    BY <1>1, <1>2, NumType DEF On
  <2>2. Height + 1 - m \in 1..r /\ Height + 1 - (Height + 1 - m) = m
    <3> HIDE DEF m
    <3> QED
      BY <1>2, <2>1
  <2> HIDE DEF m, R, r
  <2> QED
    BY <1>7, <2>1, <2>2
<1> HIDE DEF R, r, b
<1>9. CASE log = "none"
  <2>1. D = R
    BY <1>4, <1>5, <1>6, <1>9
  <2>2. Announces(block', D, Len(block'))
    BY <1>1, <1>5, <1>7, <2>1 DEF Announces, Noticed
  <2> QED
    BY <1>5, <1>8, <1>9, <2>1, <2>2
<1>10. CASE log # "none"
  <2>1. /\ new \in Logs /\ new.hash = N + 1 /\ new.num = b.num /\ new.pool = TRUE
        /\ new.removed = FALSE
    BY <1>3 DEF Logs, Blocks
  <2> HIDE DEF new
  <2>2. D = R \o <<new>>
    BY <1>6, <1>10
  <2>3. Len(D) = r + 1 /\ D[r + 1] = new /\ \A i \in 1..r : D[i] = R[i]
    BY <1>5, <2>1, <2>2
  <2>4. \A k \in 1..(r + 1) : k \in 1..r \/ k = r + 1
    BY <1>5
  <2>5. Noticed(block', D)
    <3> SUFFICES ASSUME NEW k \in 1..(r + 1)
                 PROVE  /\ D[k].hash \in 1..Len(block') /\ D[k].num = block'[D[k].hash].num
                        /\ D[k].pool <=> block'[D[k].hash].log # "none"
      BY <2>3 DEF Noticed
    <3>1. CASE k \in 1..r
      BY <1>1, <1>7, <2>3, <3>1
    <3>2. CASE k = r + 1
      BY <1>1, <1>3, <1>10, <2>1, <2>3, <3>2
    <3> QED
      BY <2>4, <3>1, <3>2
  <2>6. Announces(block', D, Len(block'))
    BY <1>1, <1>4, <1>7, <2>1, <2>3, <2>4, <2>5 DEF Announces
  <2>7. r + 1 \in 1..Len(D) /\ Pooled(D[r + 1]) /\ D[r + 1].hash = Len(block')
    BY <1>1, <1>5, <2>1, <2>3 DEF Pooled
  <2>8. \A k \in 1..r : k \in 1..Len(D) /\ D[k] = R[k]
    BY <1>5, <2>3
  <2> QED
    BY <1>8, <2>6, <2>7, <2>8
<1> QED
  BY <1>9, <1>10

-----------------------------------------------------------------------------
(* Types, continued: what is received, kept, read and proved. *)

LEMMA StreamNext ==
  ASSUME StreamTypes, UNCHANGED block,
         wire' = wire \/ wire' = <<>> \/ (wire # <<>> /\ wire' = Tail(wire)),
         \/ replay' = replay \/ replay' = <<>>
         \/ \E h \in 1..Len(block) :
            replay' = <<h>> \/ (replay' = Append(replay, h) /\ Len(replay) < ReplayLimit),
         seen' = seen \/ \E log \in Logs : seen' = Remember(seen, log, ReplayLimit),
         Len(block) \in 1..MaxBlocks
  PROVE  StreamTypes'
<1>1. wire' \in Seq(Logs) /\ Noticed(block, wire') /\ Ordered(wire')
  <2>1. wire \in Seq(Logs) /\ Noticed(block, wire) /\ Ordered(wire)
    BY DEF StreamTypes
  <2>2. CASE wire' = wire
    BY <2>1, <2>2
  <2>3. CASE wire' = <<>>
    BY <2>3 DEF Noticed, Ordered
  <2>4. CASE wire # <<>> /\ wire' = Tail(wire)
    BY <2>1, <2>4, WireTail
  <2> QED
    BY <2>2, <2>3, <2>4
<1>2. seen' \in Seq(Logs)
  BY RememberType, RetainedAssumption DEF StreamTypes
<1>3. /\ replay' \in Seq(Hash) /\ \A i \in 1..Len(replay') : replay'[i] \in 1..Len(block)
      /\ Len(replay') <= ReplayLimit
  <2>1. /\ replay \in Seq(Hash) /\ \A i \in 1..Len(replay) : replay[i] \in 1..Len(block)
        /\ Len(replay) <= ReplayLimit /\ Len(replay) \in Nat /\ ReplayLimit \in Nat \ {0}
    BY RetainedAssumption DEF StreamTypes
  <2>2. CASE replay' = replay \/ replay' = <<>>
    <3>1. CASE replay' = replay
      BY <2>1, <3>1
    <3>2. CASE replay' = <<>>
      <4>1. replay' \in Seq(Hash) /\ Len(replay') = 0
        BY <3>2
      <4> QED
        BY <2>1, <4>1
    <3> QED
      BY <2>2, <3>1, <3>2
  <2>3. ASSUME NEW h \in 1..Len(block), replay' = <<h>>
        PROVE  /\ replay' \in Seq(Hash) /\ \A i \in 1..Len(replay') : replay'[i] \in 1..Len(block)
               /\ Len(replay') <= ReplayLimit
    <3>1. h \in Hash
      BY ChainAssumption DEF Hash
    <3> QED
      BY <2>1, <2>3, <3>1
  <2>4. ASSUME NEW h \in 1..Len(block), replay' = Append(replay, h), Len(replay) < ReplayLimit
        PROVE  /\ replay' \in Seq(Hash) /\ \A i \in 1..Len(replay') : replay'[i] \in 1..Len(block)
               /\ Len(replay') <= ReplayLimit
    <3>1. h \in Hash
      BY ChainAssumption DEF Hash
    <3>2. /\ replay' \in Seq(Hash) /\ Len(replay') = Len(replay) + 1 /\ replay'[Len(replay) + 1] = h
          /\ \A i \in 1..Len(replay) : replay'[i] = replay[i]
      BY <2>1, <2>4, <3>1
    <3>3. \A i \in 1..(Len(replay) + 1) : i \in 1..Len(replay) \/ i = Len(replay) + 1
      BY <2>1
    <3> QED
      BY <2>1, <2>4, <3>2, <3>3
  <2>5. CASE \E h \in 1..Len(block) :
            replay' = <<h>> \/ (replay' = Append(replay, h) /\ Len(replay) < ReplayLimit)
    <3>1. PICK h \in 1..Len(block) :
            replay' = <<h>> \/ (replay' = Append(replay, h) /\ Len(replay) < ReplayLimit)
      BY <2>5
    <3>2. CASE replay' = <<h>>
      BY <2>3, <3>2
    <3>3. CASE replay' = Append(replay, h) /\ Len(replay) < ReplayLimit
      BY <2>4, <3>3
    <3> QED
      BY <3>1, <3>2, <3>3
  <2> QED
    BY <2>2, <2>5
<1> QED
  BY <1>1, <1>2, <1>3 DEF StreamTypes

LEMMA StreamSame ==
  ASSUME StreamTypes, UNCHANGED <<block, wire, replay, seen>>
  PROVE  StreamTypes'
  BY DEF StreamTypes

\* What the subscription makes of a new block.
LEMMA NewBlockIs ==
  ASSUME ChainGood, NewBlock
  PROVE  \E n \in 1..Height, log \in Effects :
            /\ Grow(n, log)
            /\ wire' = IF Subscribed THEN wire \o Notices(n, Len(block) + 1, Child(n, log)) ELSE wire
  BY DEF NewBlock, Send

LEMMA StreamNewBlock == ChainGood /\ StreamTypes /\ NewBlock => StreamTypes'
<1> SUFFICES ASSUME ChainGood, StreamTypes, NewBlock PROVE StreamTypes'
  OBVIOUS
<1>1. PICK n \in 1..Height, log \in Effects :
         /\ Grow(n, log)
         /\ wire' = IF Subscribed THEN wire \o Notices(n, Len(block) + 1, Child(n, log)) ELSE wire
  BY NewBlockIs
<1> DEFINE D == Notices(n, Len(block) + 1, Child(n, log))
<1>2. /\ Len(block') = Len(block) + 1 /\ Len(block) \in Nat
      /\ \A x \in 1..Len(block) : block'[x] = block[x]
  BY <1>1, Grown
<1>3. Announces(block', D, Len(block'))
  BY <1>1, NoticesIs
<1>d. wire' = IF Subscribed THEN wire \o D ELSE wire
  BY <1>1
<1> HIDE DEF D
<1>4. wire \in Seq(Logs) /\ Noticed(block, wire) /\ Ordered(wire)
  BY DEF StreamTypes
<1>5. wire' \in Seq(Logs) /\ Noticed(block', wire') /\ Ordered(wire')
  <2>1. CASE Subscribed
    BY <1>2, <1>3, <1>4, <1>d, <2>1, WireGrows
  <2>2. CASE ~Subscribed
    BY <1>2, <1>4, <1>d, <2>2 DEF Noticed
  <2> QED
    BY <2>1, <2>2
<1>6. UNCHANGED <<replay, seen>>
  BY DEF NewBlock, sessionVars, loopVars
<1> QED
  BY <1>2, <1>5, <1>6 DEF StreamTypes

LEMMA StreamLog == ChainGood /\ StreamTypes /\ LogStep => StreamTypes'
<1> SUFFICES ASSUME ChainGood, StreamTypes, LogStep PROVE StreamTypes'
  OBVIOUS
<1>1. wire # <<>> /\ UNCHANGED block /\ Len(block) \in 1..MaxBlocks
  BY DEF LogStep, LogRemovedStops, LogSkipped, LogGarbled, LogApplied, LogStops, chainVars,
     ChainGood, ChainTypeOK
<1>2. Head(wire) \in Logs /\ Head(wire).hash \in 1..Len(block)
  BY <1>1, HeadType
<1>3. wire' = wire \/ wire' = Tail(wire)
  BY DEF LogStep, LogRemovedStops, LogSkipped, LogGarbled, LogApplied, LogStops, Take
<1>4. seen' = seen \/ \E log \in Logs : seen' = Remember(seen, log, ReplayLimit)
  BY <1>2 DEF LogStep, LogRemovedStops, LogSkipped, LogGarbled, LogApplied, LogStops
<1>5. CASE ~LogApplied
  <2>1. replay' = replay \/ replay' = <<>>
    BY <1>5 DEF LogStep, LogRemovedStops, LogSkipped, LogGarbled, LogStops, loopVars, Invalidate
  <2> QED
    BY <1>1, <1>3, <1>4, <2>1, StreamNext
<1>6. CASE LogApplied
  <2>1. replay' = IF ~Buffers THEN replay
                  ELSE IF Overflows THEN <<Head(wire).hash>> ELSE Append(replay, Head(wire).hash)
    BY <1>6 DEF LogApplied
  <2>2. Buffers /\ ~Overflows => Len(replay) < ReplayLimit
    BY RetainedAssumption DEF Overflows, StreamTypes
  <2> QED
    BY <1>1, <1>2, <1>3, <1>4, <2>1, <2>2, StreamNext
<1> QED
  BY <1>5, <1>6

LEMMA StreamStep == ChainGood /\ StreamTypes /\ [ObsNext]_obsVars => StreamTypes'
<1> SUFFICES ASSUME ChainGood, StreamTypes, [ObsNext]_obsVars PROVE StreamTypes'
  OBVIOUS
<1>1. CASE NewBlock
  BY <1>1, StreamNewBlock
<1>2. CASE LogStep
  BY <1>2, StreamLog
<1>3. CASE ~NewBlock /\ ~LogStep
  <2>1. /\ UNCHANGED <<block, seen>> /\ wire' \in {wire, <<>>}
        /\ replay' \in {replay, <<>>}
    <3>1. CASE HeadMoves \/ DelayPasses \/ SessionStart \/ SessionLost \/ StartCapture
      BY <3>1 DEF HeadMoves, DelayPasses, SessionStart, SessionLost, StartCapture,
         envVars, chainVars, sessionVars, loopVars
    <3>2. CASE Worker
      BY <3>2 DEF Worker, WorkerCapture, WorkerResume, WorkerReads, WorkerVerify, WorkerFails,
         workerFrame, envVars, chainVars, loopVars
    <3>3. CASE Result
      BY <3>3 DEF Result, ResultStale, ResultFailed, ResultInstalled, ResultContradicted, resultFrame,
         envVars, chainVars, Invalidate
    <3>4. CASE RequestRecovery \/ TakeRecovery \/ SubscribeAndWatch \/ ExitJoined \/ WatchFails
      BY <3>4 DEF RequestRecovery, TakeRecovery, SubscribeAndWatch, SessionSubscribe, ExitJoined,
         SessionExit, WatchFails, envVars, chainVars, loopVars
    <3>5. CASE Watch \/ UNCHANGED obsVars
      BY <3>5 DEF Watch, WatchRead, WatchHead, WatchCursor, WatchLogs, WatchRecheck, WatchHeadCheck,
         WatchUnavailable, WatchDecide, WatchConfirm, vars, envVars, chainVars, sessionVars, loopVars,
         obsVars
    <3> QED
      BY <1>3, <3>1, <3>2, <3>3, <3>4, <3>5 DEF ObsNext, Others
  <2>2. Len(block) \in 1..MaxBlocks
    BY DEF ChainGood, ChainTypeOK
  <2> QED
    BY <2>1, <2>2, StreamNext
<1> QED
  BY <1>1, <1>2, <1>3

LEMMA CacheSame ==
  ASSUME CacheTypes, UNCHANGED <<block, cursor, journal>>, retained' = retained \/ retained' = Nil,
         Len(block) \in Nat
  PROVE  CacheTypes'
<1>1. Nil \in PoolRec /\ Nil.base = EmptyHash
  BY DEF Nil, PoolRec, EmptyHash
<1>2. retained' \in PoolRec /\ retained'.base \in 0..Len(block)
  BY <1>1 DEF CacheTypes, EmptyHash
<1> QED
  BY <1>2 DEF CacheTypes

LEMMA CurrentIs ==
  ASSUME CacheTypes
  PROVE  /\ Current \in Cache /\ Current.ok /\ Current.pool = retained /\ Current.cursor = cursor
         /\ Current.journal = journal
<1>1. [pool |-> retained, cursor |-> cursor, journal |-> journal, ok |-> TRUE] \in Cache
  BY CacheIs DEF CacheTypes
<1> QED
  BY <1>1 DEF Current

LEMMA CacheParts ==
  ASSUME NEW c \in Cache
  PROVE  c.pool \in PoolRec /\ c.cursor \in CursorRec /\ c.journal \in Seq(Hash) /\ c.ok \in BOOLEAN
  BY CacheIs

LEMMA ReplayType ==
  ASSUME StreamTypes
  PROVE  /\ replay \in Seq(1..Len(block)) /\ Len(replay) \in Nat
         /\ Range(replay) \subseteq 1..Len(block)
<1>1. replay \in Seq(Hash) /\ \A i \in 1..Len(replay) : replay[i] \in 1..Len(block)
  BY DEF StreamTypes
<1>2. replay \in [1..Len(replay) -> 1..Len(block)] /\ Len(replay) \in Nat
  BY <1>1
<1> QED
  BY <1>1, <1>2, SeqDef DEF Range

\* What a log makes of the cache, if it is applied.
LEMMA AppliedIs ==
  ASSUME ChainGood, FlagTypes, StreamTypes, CacheTypes, LogApplied
  PROVE  LET d == ApplyLive(Current, Head(wire).hash, clock + 1)
         IN  /\ d \in Cache /\ d.pool.base = retained.base
             /\ d.ok => d = Apply(Current, Head(wire).hash, clock + 1)
             /\ IF retained # Nil /\ d.ok
                THEN retained' = d.pool /\ cursor' = d.cursor /\ journal' = d.journal
                ELSE UNCHANGED <<retained, cursor, journal>>
<1>1. wire # <<>>
  BY DEF LogApplied
<1>2. Head(wire).hash \in 1..Len(block) /\ clock + 1 \in Nat
  BY <1>1, HeadType DEF FlagTypes
<1> DEFINE d == ApplyLive(Current, Head(wire).hash, clock + 1)
<1>3. d \in Cache /\ (d.ok => d = Apply(Current, Head(wire).hash, clock + 1))
  BY <1>2, CurrentIs, LiveIs
<1>4. d.pool.base = retained.base
  BY <1>2, CurrentIs, BaseKept
<1>5. IF retained # Nil /\ d.ok
      THEN retained' = d.pool /\ cursor' = d.cursor /\ journal' = d.journal
      ELSE UNCHANGED <<retained, cursor, journal>>
  BY DEF LogApplied
<1> QED
  BY <1>3, <1>4, <1>5

\* What an installed capture makes of it.
LEMMA InstalledIs ==
  ASSUME ObsTypes, ResultInstalled
  PROVE  /\ worker.base \in 1..Len(block) /\ clock + 1 \in Nat
         /\ Candidate(worker.base, clock + 1) \in Cache /\ Candidate(worker.base, clock + 1).ok
         /\ Candidate(worker.base, clock + 1).pool.base = worker.base
         /\ retained' = Candidate(worker.base, clock + 1).pool
         /\ cursor' = Candidate(worker.base, clock + 1).cursor
         /\ journal' = Candidate(worker.base, clock + 1).journal
<1>1. worker.base \in 0..Len(block) /\ worker.base # EmptyHash /\ clock \in Nat
  BY DEF ResultInstalled, ResultReady, ObsTypes, CaptureSound, WorkTypes, FlagTypes
<1>2. worker.base \in 1..Len(block)
  BY <1>1 DEF EmptyHash
<1>3. Candidate(worker.base, clock + 1) \in Cache /\ Candidate(worker.base, clock + 1).pool.base = worker.base
  BY <1>1, <1>2, ReplayType, CandidateType DEF ObsTypes
<1> QED
  BY <1>1, <1>2, <1>3 DEF ResultInstalled

LEMMA CacheStep == ObsTypes /\ [ObsNext]_obsVars => CacheTypes'
<1> SUFFICES ASSUME ObsTypes, [ObsNext]_obsVars PROVE CacheTypes'
  OBVIOUS
<1>t. ChainGood /\ FlagTypes /\ StreamTypes /\ CacheTypes /\ Len(block) \in Nat
  BY DEF ObsTypes, ChainGood, ChainTypeOK
<1>1. CASE NewBlock
  <2>1. PICK n \in 1..Height, log \in Effects : Grow(n, log)
    BY <1>1 DEF NewBlock
  <2>2. Len(block') = Len(block) + 1 
    BY <1>t, <2>1, Grown
  <2>3. UNCHANGED <<retained, cursor, journal>>
    BY <1>1 DEF NewBlock, sessionVars, stateVars
  <2> QED
    BY <1>t, <2>2, <2>3 DEF CacheTypes
<1>2. CASE ResultInstalled
  <2>1. UNCHANGED block
    BY <1>2 DEF ResultInstalled, resultFrame, envVars, chainVars
  <2> QED
    BY <1>2, <1>t, <2>1, InstalledIs, CacheParts DEF CacheTypes
<1>3. CASE LogApplied
  <2>1. UNCHANGED block
    BY <1>3 DEF LogApplied, chainVars
  <2> DEFINE d == ApplyLive(Current, Head(wire).hash, clock + 1)
  <2>2. /\ d \in Cache /\ d.pool.base = retained.base
        /\ IF retained # Nil /\ d.ok
           THEN retained' = d.pool /\ cursor' = d.cursor /\ journal' = d.journal
           ELSE UNCHANGED <<retained, cursor, journal>>
    BY <1>3, <1>t, AppliedIs
  <2> HIDE DEF d
  <2> QED
    BY <1>t, <2>1, <2>2, CacheParts DEF CacheTypes
<1>4. CASE ~NewBlock /\ ~ResultInstalled /\ ~LogApplied
  <2>1. UNCHANGED <<block, cursor, journal>> /\ (retained' = retained \/ retained' = Nil)
    <3>1. CASE HeadMoves \/ DelayPasses \/ SessionStart \/ SessionLost \/ StartCapture
      BY <3>1 DEF HeadMoves, DelayPasses, SessionStart, SessionLost, StartCapture,
         envVars, chainVars, sessionVars, stateVars
    <3>2. CASE Worker
      BY <3>2 DEF Worker, WorkerCapture, WorkerResume, WorkerReads, WorkerVerify, WorkerFails,
         workerFrame, envVars, chainVars, stateVars
    <3>3. CASE Result
      BY <1>4, <3>3 DEF Result, ResultStale, ResultFailed, ResultContradicted, resultFrame,
         envVars, chainVars, stateVars, Invalidate
    <3>4. CASE RequestRecovery \/ TakeRecovery \/ SubscribeAndWatch \/ ExitJoined \/ WatchFails
      BY <3>4 DEF RequestRecovery, TakeRecovery, SubscribeAndWatch, SessionSubscribe, ExitJoined,
         SessionExit, WatchFails, envVars, chainVars, stateVars
    <3>5. CASE Watch \/ UNCHANGED obsVars
      BY <3>5 DEF Watch, WatchRead, WatchHead, WatchCursor, WatchLogs, WatchRecheck, WatchHeadCheck,
         WatchUnavailable, WatchDecide, WatchConfirm, vars, envVars, chainVars, sessionVars, stateVars,
         obsVars
    <3>6. CASE LogStep
      BY <1>4, <3>6 DEF LogStep, LogRemovedStops, LogSkipped, LogGarbled, LogStops, chainVars,
         stateVars, Invalidate
    <3> QED
      BY <1>4, <3>1, <3>2, <3>3, <3>4, <3>5, <3>6 DEF ObsNext, Others
  <2> QED
    BY <1>t, <2>1, CacheSame
<1> QED
  BY <1>1, <1>2, <1>3, <1>4

\* What one step of the capture worker does.
Based ==
    \/ worker'.base = EmptyHash
    \/ worker'.base = worker.base /\ worker.phase # "capture"
    \/ /\ worker.phase = "capture"
       /\ \E n \in 1..Height : n >= worker.floor /\ worker'.base = chain[n]

WorkerMoves ==
    /\ worker.phase \in {"capture", "resume", "reads", "verify"}
    /\ worker'.phase \in {"reads", "verify", "done"}
    /\ worker'.epoch = worker.epoch /\ worker'.floor = worker.floor /\ worker'.ok \in BOOLEAN
    /\ worker'.phase # "done" => worker'.base # EmptyHash
    /\ worker'.ok => worker'.base # EmptyHash
    /\ Based

\* A record that differs from another one in some fields has its others.
Renewed(w, phase, base, ok) ==
    /\ w.phase = phase /\ w.base = base /\ w.ok = ok
    /\ w.epoch = worker.epoch /\ w.floor = worker.floor

LEMMA WorkerIs ==
  ASSUME CaptureSound, WorkTypes, rpcHead \in 1..Height, Height \in Nat, Worker
  PROVE  /\ WorkerMoves
         /\ UNCHANGED <<envVars, stateVars, recovery, seen, lifeVars, loopVars, clock>>
<1>w. /\ DOMAIN worker = {"phase", "epoch", "base", "floor", "floorHash", "torn", "ok"}
      /\ worker.epoch \in Nat /\ worker.floor \in Nat /\ worker.ok \in BOOLEAN
  BY DEF CaptureSound, WorkerFields, NoWorker, WorkTypes
<1>b. /\ worker.phase = "capture" => worker.base = EmptyHash
      /\ worker.phase \in {"resume", "reads", "verify"} => worker.base # EmptyHash
  BY DEF CaptureSound
<1>u. UNCHANGED <<envVars, stateVars, recovery, seen, lifeVars, loopVars, clock>>
  BY DEF Worker, WorkerCapture, WorkerResume, WorkerReads, WorkerVerify, WorkerFails, workerFrame
<1> SUFFICES WorkerMoves
  BY <1>u
<1>p. ASSUME NEW ok \in BOOLEAN, Post(ok)
      PROVE  Renewed(worker', "done", worker.base, ok)
  BY <1>p, <1>w DEF Post, Renewed
<1>d. ASSUME worker' = [worker EXCEPT !.phase = "done", !.ok = FALSE, !.base = EmptyHash]
      PROVE  Renewed(worker', "done", EmptyHash, FALSE)
  BY <1>d, <1>w DEF Renewed
<1>m. ASSUME NEW phase \in {"reads", "verify", "done"}, NEW base, NEW ok \in BOOLEAN,
             worker.phase \in {"capture", "resume", "reads", "verify"},
             Renewed(worker', phase, base, ok),
             phase # "done" => base # EmptyHash, ok => base # EmptyHash,
             \/ base = EmptyHash
             \/ base = worker.base /\ worker.phase # "capture"
             \/ /\ worker.phase = "capture"
                /\ \E n \in 1..Height : n >= worker.floor /\ base = chain[n]
      PROVE  WorkerMoves
  <2>1. /\ worker'.phase \in {"reads", "verify", "done"}
        /\ worker'.epoch = worker.epoch /\ worker'.floor = worker.floor
        /\ worker'.phase # "done" => worker'.base # EmptyHash
    BY <1>m DEF Renewed
  <2>2. worker'.ok \in BOOLEAN /\ (worker'.ok => worker'.base # EmptyHash)
    BY <1>m, Zenon DEF Renewed
  <2>3. Based
    <3>1. worker'.base = base
      BY <1>m DEF Renewed
    <3> QED
      BY <1>m, <3>1, Zenon DEF Based
  <2> QED
    BY <1>m, <2>1, <2>2, <2>3, Zenon DEF WorkerMoves
\* Whatever it had staged, an attempt that gives up keeps at most that.
<1>f. ASSUME worker.phase \in {"capture", "resume", "reads", "verify"}, Post(FALSE)
      PROVE  WorkerMoves
  <2>1. Renewed(worker', "done", worker.base, FALSE)
    BY <1>f, <1>p, Zenon
  <2>2. worker.base = EmptyHash \/ (worker.base = worker.base /\ worker.phase # "capture")
    BY <1>b
  <2> QED
    BY <1>f, <2>1, <2>2, <1>m, Zenon
<1>g. ASSUME worker.phase \in {"capture", "resume", "reads", "verify"},
             worker' = [worker EXCEPT !.phase = "done", !.ok = FALSE, !.base = EmptyHash]
      PROVE  WorkerMoves
  <2>1. Renewed(worker', "done", EmptyHash, FALSE)
    BY <1>g, <1>d
  <2> QED
    BY <1>g, <2>1, <1>m, Zenon
<1>1. CASE WorkerCapture
  <2>1. CASE Post(FALSE)
    BY <1>1, <1>f, <2>1 DEF WorkerCapture
  <2>2. CASE ~Post(FALSE)
    <3> DEFINE n == IF rpcHead >= worker.floor THEN rpcHead ELSE worker.floor
    <3>1. worker.phase = "capture" /\ worker' = [worker EXCEPT !.phase = "reads", !.base = chain[n]]
      BY <1>1, <2>2 DEF WorkerCapture
    <3>2. rpcHead >= worker.floor \/ (~(rpcHead >= worker.floor) /\ worker.floor \in 1..Height)
      BY <1>1, <1>w, <2>2 DEF WorkerCapture
    <3>3. n \in 1..Height /\ n >= worker.floor
      BY <1>w, <3>2
    <3> HIDE DEF n
    <3>4. chain[n] # EmptyHash
      BY <3>3, FoundBlock DEF CaptureSound
    <3>5. Renewed(worker', "reads", chain[n], worker.ok)
      BY <1>w, <3>1 DEF Renewed
    <3> QED
      BY <1>w, <1>m, <3>1, <3>3, <3>4, <3>5, Zenon
  <2> QED
    BY <2>1, <2>2
<1>2. CASE WorkerResume
  <2>1. CASE HeaderIs(worker.base)
    <3>1. worker.phase = "resume" /\ worker' = [worker EXCEPT !.phase = "reads"]
      BY <1>2, <2>1 DEF WorkerResume
    <3>2. Renewed(worker', "reads", worker.base, worker.ok)
      BY <1>w, <3>1 DEF Renewed
    <3>3. worker.base # EmptyHash /\ worker.phase # "capture"
      BY <1>b, <3>1
    <3> QED
      BY <1>w, <1>m, <3>1, <3>2, <3>3, Zenon
  <2>2. CASE ~HeaderIs(worker.base)
    BY <1>2, <1>g, <2>2 DEF WorkerResume
  <2> QED
    BY <2>1, <2>2
<1>3. CASE WorkerReads
  <2> DEFINE now == worker.torn \/ ~HeaderIs(worker.base)
  <2>1. worker.phase = "reads" /\ worker' = [worker EXCEPT !.phase = "verify", !.torn = now]
    BY <1>3 DEF WorkerReads
  <2> HIDE DEF now
  <2>2. Renewed(worker', "verify", worker.base, worker.ok)
    BY <1>w, <2>1 DEF Renewed
  <2>3. worker.base # EmptyHash /\ worker.phase # "capture"
    BY <1>b, <2>1
  <2> QED
    BY <1>w, <1>m, <2>1, <2>2, <2>3, Zenon
<1>4. CASE WorkerVerify
  <2>1. CASE HeaderIs(worker.base)
    <3>1. worker.phase = "verify" /\ Post(TRUE)
      BY <1>4, <2>1 DEF WorkerVerify
    <3>2. Renewed(worker', "done", worker.base, TRUE)
      BY <1>p, <3>1, Zenon
    <3>3. worker.base # EmptyHash /\ worker.phase # "capture"
      BY <1>b, <3>1
    <3> QED
      BY <1>m, <3>1, <3>2, <3>3, Zenon
  <2>2. CASE ~HeaderIs(worker.base)
    BY <1>4, <1>g, <2>2 DEF WorkerVerify
  <2> QED
    BY <2>1, <2>2
<1>5. CASE WorkerFails
  BY <1>5, <1>f DEF WorkerFails
<1> QED
  BY <1>1, <1>2, <1>3, <1>4, <1>5 DEF Worker

\* What starting a capture does.
LEMMA StartIs ==
  ASSUME CaptureSound, WorkTypes, StartCapture
  PROVE  /\ worker'.phase = (IF capture.base = EmptyHash THEN "capture" ELSE "resume")
         /\ worker'.epoch = epoch /\ worker'.base = capture.base /\ worker'.ok = FALSE
         /\ worker'.floor = (IF ~capture.open /\ retained # Nil THEN cursor.num ELSE recoveryFloor)
         /\ capture'.open = TRUE /\ capture'.base = capture.base
         /\ replay' = (IF ~capture.open /\ retained # Nil THEN <<>> ELSE replay)
         /\ session = "live" /\ pending /\ ~busy /\ due
         /\ UNCHANGED <<envVars, budget, stateVars, recovery, seen, lifeVars, epoch, clock>>
<1>1. DOMAIN capture = {"base", "torn", "open"}
  BY DEF CaptureSound, CaptureFields, NoCapture
<1>2. capture' = [capture EXCEPT !.open = TRUE]
  BY DEF StartCapture
<1>3. capture'.open = TRUE /\ capture'.base = capture.base
  BY <1>1, <1>2
<1> DEFINE anchored == ~capture.open /\ retained # Nil
<1>4. worker' = [NoWorker EXCEPT
                   !.phase = IF capture.base = EmptyHash THEN "capture" ELSE "resume",
                   !.epoch = epoch, !.base = capture.base, !.torn = capture.torn,
                   !.floor = IF anchored THEN cursor.num ELSE recoveryFloor,
                   !.floorHash = IF anchored THEN cursor.hash ELSE EmptyHash]
  BY DEF StartCapture
<1> HIDE DEF anchored
<1>5. /\ worker'.phase = (IF capture.base = EmptyHash THEN "capture" ELSE "resume")
      /\ worker'.epoch = epoch /\ worker'.base = capture.base /\ worker'.ok = FALSE
      /\ worker'.floor = (IF anchored THEN cursor.num ELSE recoveryFloor)
  BY <1>4 DEF NoWorker
<1>6. replay' = (IF anchored THEN <<>> ELSE replay)
  BY DEF StartCapture, anchored
<1>7. session = "live" /\ pending /\ ~busy /\ due
  BY DEF StartCapture, CaptureDue
<1>8. UNCHANGED <<envVars, budget, stateVars, recovery, seen, lifeVars, epoch, clock>>
  BY DEF StartCapture
<1> QED
  BY <1>3, <1>5, <1>6, <1>7, <1>8 DEF anchored

\* What the loop leaves of a failed attempt.
LEMMA FailedIs ==
  ASSUME ResultFailed
  PROVE  /\ worker' = NoWorker /\ worker.phase = "done" /\ worker.epoch = epoch /\ ~worker.ok
         /\ capture'.base = worker.base /\ capture'.open = (worker.base # EmptyHash)
         /\ session = "live" /\ ~busy'
         /\ UNCHANGED <<envVars, budget, stateVars, recovery, seen, running, active, events, replay,
                        epoch, recoveryFloor, clock>>
<1>1. /\ worker' = NoWorker /\ worker.phase = "done" /\ worker.epoch = epoch /\ ~worker.ok
      /\ session = "live" /\ busy' = FALSE
      /\ UNCHANGED <<envVars, budget, stateVars, recovery, seen, running, active, events, replay,
                     epoch, recoveryFloor, clock>>
  BY DEF ResultFailed, ResultReady, Waiting, resultFrame
<1>2. capture' = IF worker.base = EmptyHash THEN NoCapture
                 ELSE [open |-> TRUE, base |-> worker.base, torn |-> worker.torn]
  BY DEF ResultFailed
<1>3. capture'.base = worker.base /\ capture'.open = (worker.base # EmptyHash)
  BY <1>2 DEF NoCapture
<1> QED
  BY <1>1, <1>3

LEMMA WorkSame ==
  ASSUME WorkTypes, worker' = worker \/ worker' = NoWorker, capture' = capture \/ capture' = NoCapture
  PROVE  WorkTypes'
<1> DEFINE W(w) == /\ w.phase \in {"none", "capture", "resume", "reads", "verify", "done"}
                   /\ w.epoch \in Nat /\ w.floor \in Nat /\ w.ok \in BOOLEAN
                   /\ w.phase = "done" /\ w.ok => w.base # EmptyHash
<1>1. W(worker) /\ capture.open \in BOOLEAN
  BY Zenon DEF WorkTypes
<1>2. W(NoWorker) /\ NoCapture.open \in BOOLEAN
  BY DEF NoWorker, NoCapture
<1>3. W(worker')
  BY <1>1, <1>2, Zenon
<1>4. capture'.open \in BOOLEAN
  BY <1>1, <1>2, Zenon
<1> QED
  BY <1>3, <1>4, Zenon DEF WorkTypes

LEMMA WorkStep == ObsTypes /\ [ObsNext]_obsVars => WorkTypes'
<1> SUFFICES ASSUME ObsTypes, [ObsNext]_obsVars PROVE WorkTypes'
  OBVIOUS
<1>t. CaptureSound /\ FlagTypes /\ CacheTypes /\ WorkTypes /\ cursor.num \in Nat
  BY DEF ObsTypes, CacheTypes, CursorRec
<1>h. rpcHead \in 1..Height /\ Height \in Nat
  BY DEF ObsTypes, ChainTypeOK, CaptureSound, Height
<1>1. CASE Worker
  <2>1. WorkerMoves /\ UNCHANGED capture
    BY <1>1, <1>h, <1>t, WorkerIs DEF loopVars
  <2>2. worker'.ok \in BOOLEAN /\ (worker'.ok => worker'.base # EmptyHash)
    BY <2>1 DEF WorkerMoves
  <2>3. /\ worker'.phase \in {"none", "capture", "resume", "reads", "verify", "done"}
        /\ worker'.epoch \in Nat /\ worker'.floor \in Nat
    BY <1>t, <2>1 DEF WorkTypes, WorkerMoves
  <2>4. capture'.open \in BOOLEAN
    BY <1>t, <2>1 DEF WorkTypes
  <2> QED
    BY <2>2, <2>3, <2>4, Zenon DEF WorkTypes
<1>2. CASE StartCapture
  <2>1. /\ worker'.phase = (IF capture.base = EmptyHash THEN "capture" ELSE "resume")
        /\ worker'.epoch = epoch /\ worker'.ok = FALSE
        /\ worker'.floor = (IF ~capture.open /\ retained # Nil THEN cursor.num ELSE recoveryFloor)
        /\ capture'.open = TRUE
    BY <1>2, <1>t, StartIs
  <2>2. worker'.phase \in {"none", "capture", "resume", "reads", "verify", "done"}
    BY <2>1
  <2>3. worker'.epoch \in Nat /\ worker'.floor \in Nat
    BY <1>t, <2>1 DEF FlagTypes
  <2>4. worker'.ok \in BOOLEAN /\ (worker'.phase = "done" /\ worker'.ok => worker'.base # EmptyHash)
    BY <2>1
  <2>5. capture'.open \in BOOLEAN
    BY <2>1
  <2> QED
    BY <2>2, <2>3, <2>4, <2>5, Zenon DEF WorkTypes
<1>3. CASE ResultFailed
  <2>1. worker' = NoWorker /\ capture'.open = (worker.base # EmptyHash)
    BY <1>3, FailedIs
  <2> QED
    BY <2>1 DEF WorkTypes, NoWorker
<1>4. CASE ~Worker /\ ~StartCapture /\ ~ResultFailed
  <2>1. (worker' = worker \/ worker' = NoWorker) /\ (capture' = capture \/ capture' = NoCapture)
    <3>1. CASE NewBlock \/ HeadMoves \/ DelayPasses \/ SessionStart \/ SessionLost
      BY <3>1 DEF NewBlock, HeadMoves, DelayPasses, SessionStart, SessionLost, sessionVars, loopVars
    <3>3. CASE Result
      BY <1>4, <3>3 DEF Result, ResultStale, ResultInstalled, ResultContradicted, Invalidate
    <3>4. CASE RequestRecovery \/ TakeRecovery \/ SubscribeAndWatch \/ ExitJoined \/ WatchFails
      BY <3>4 DEF RequestRecovery, TakeRecovery, SubscribeAndWatch, SessionSubscribe, ExitJoined,
         SessionExit, WatchFails, loopVars
    <3>5. CASE Watch \/ UNCHANGED obsVars
      BY <3>5 DEF Watch, WatchRead, WatchHead, WatchCursor, WatchLogs, WatchRecheck, WatchHeadCheck,
         WatchUnavailable, WatchDecide, WatchConfirm, vars, sessionVars, loopVars, obsVars
    <3>6. CASE LogStep
      BY <3>6 DEF LogStep, LogRemovedStops, LogSkipped, LogGarbled, LogApplied, LogStops, loopVars, Invalidate
    <3> QED
      BY <1>4, <3>1, <3>3, <3>4, <3>5, <3>6 DEF ObsNext, Others
  <2> QED
    BY <1>t, <2>1, WorkSame
<1> QED
  BY <1>1, <1>2, <1>3, <1>4

-----------------------------------------------------------------------------
(* The watcher's steps, field by field. *)

\* The watcher goes on with the inputs it read.
Moves(phase, head, outcome) ==
    /\ DOMAIN watch' = WatchFields
    /\ watch'.phase = phase /\ watch'.head = head /\ watch'.outcome = outcome
    /\ watch'.frontier = watch.frontier /\ watch'.state = watch.state
    /\ watch'.applied = watch.applied /\ watch'.previous = watch.previous
    /\ watch'.evidence = watch.evidence

LEMMA MovesIs ==
  ASSUME DOMAIN watch = WatchFields, NEW phase, NEW head, NEW outcome
  PROVE  /\ watch' = [watch EXCEPT !.phase = phase] => Moves(phase, watch.head, watch.outcome)
         /\ watch' = [watch EXCEPT !.phase = phase, !.head = head] => Moves(phase, head, watch.outcome)
         /\ Outcome(outcome) => Moves("decide", watch.head, outcome)
<1>1. DOMAIN watch = {"phase", "state", "applied", "previous", "evidence", "frontier", "head", "outcome"}
  BY DEF WatchFields, NoWatch
<1>2. ASSUME watch' = [watch EXCEPT !.phase = phase]
      PROVE  Moves(phase, watch.head, watch.outcome)
  BY <1>1, <1>2 DEF Moves, WatchFields, NoWatch
<1>3. ASSUME watch' = [watch EXCEPT !.phase = phase, !.head = head]
      PROVE  Moves(phase, head, watch.outcome)
  BY <1>1, <1>3 DEF Moves, WatchFields, NoWatch
<1>4. ASSUME Outcome(outcome) PROVE Moves("decide", watch.head, outcome)
  BY <1>1, <1>4 DEF Outcome, Moves, WatchFields, NoWatch
<1> QED
  BY <1>2, <1>3, <1>4

\* The watcher waits for its next attempt.
Waits(w) ==
    /\ DOMAIN watch' = WatchFields
    /\ watch'.phase = "wait" /\ watch'.head = EmptyHash /\ watch'.outcome = "none"
    /\ watch'.state = NoState /\ watch'.applied = <<>>
    /\ watch'.previous = w.previous /\ watch'.evidence = w.evidence /\ watch'.frontier = w.frontier

LEMMA WaitsIs ==
  ASSUME NEW w, DOMAIN w = WatchFields, Again(w)
  PROVE  Waits(w)
  BY DEF Again, Waits, WatchFields, NoWatch

Keeps == ContinuesProof(watch.previous, State, watch.evidence, journal, watch.frontier)

\* An attempt begins with the state it read.
Begins ==
    /\ DOMAIN watch' = WatchFields
    /\ watch'.phase \in {"failed", "head"} /\ watch'.head = EmptyHash /\ watch'.outcome = "none"
    /\ watch'.state = State /\ watch'.applied = journal
    /\ watch'.previous = State /\ watch'.evidence = journal
    /\ \/ Keeps /\ watch'.frontier = watch.frontier
       \/ watch'.frontier = retained.base

\* There is nothing to observe: only the comparison state is forgotten.
Forgets ==
    /\ DOMAIN watch' = WatchFields
    /\ watch'.phase = watch.phase /\ watch'.head = watch.head /\ watch'.outcome = watch.outcome
    /\ watch'.frontier = watch.frontier /\ watch'.state = watch.state
    /\ watch'.applied = watch.applied /\ watch'.previous = NoState
    /\ watch'.evidence = watch.evidence

LEMMA ReadIs ==
  ASSUME DOMAIN watch = WatchFields, WatchRead
  PROVE  (Active /\ Begins) \/ (~Active /\ Forgets)
<1>1. DOMAIN watch = {"phase", "state", "applied", "previous", "evidence", "frontier", "head", "outcome"}
  BY DEF WatchFields, NoWatch
<1>2. CASE ~Active
  BY <1>1, <1>2 DEF WatchRead, Forgets, WatchFields, NoWatch
<1>3. CASE Active
  <2> DEFINE keep == Keeps
             S == State
             f == IF keep THEN watch.frontier ELSE retained.base
             p == IF cursor.num < block[retained.base].num THEN "failed" ELSE "head"
             begun == [watch EXCEPT !.state = S, !.applied = journal, !.previous = S,
                                    !.evidence = journal, !.frontier = f,
                                    !.head = EmptyHash, !.outcome = "none"]
  <2>1. watch' = [begun EXCEPT !.phase = p]
    BY <1>3 DEF WatchRead, Keeps
  <2>2. p \in {"failed", "head"} /\ ((Keeps /\ f = watch.frontier) \/ f = retained.base)
    BY Zenon
  <2>3. S = State
    OBVIOUS
  <2> HIDE DEF keep, S, f, p
  <2>4. /\ DOMAIN watch' = WatchFields
        /\ watch'.phase = p /\ watch'.head = EmptyHash /\ watch'.outcome = "none"
        /\ watch'.state = S /\ watch'.applied = journal
        /\ watch'.previous = S /\ watch'.evidence = journal /\ watch'.frontier = f
    BY <1>1, <2>1 DEF WatchFields, NoWatch
  <2> QED
    BY <1>3, <2>2, <2>3, <2>4, Zenon DEF Begins
<1> QED
  BY <1>2, <1>3

LEMMA CursorMoves ==
  ASSUME DOMAIN watch = WatchFields, WatchCursor
  PROVE  \/ \E o \in {"idle", "error"} : Moves("decide", watch.head, o)
         \/ HeaderIs(watch.frontier) /\ Distance # 0 /\ Moves("logs", watch.head, watch.outcome)
<1>1. Outcome("error") \/ Outcome("idle")
      \/ (/\ HeaderIs(watch.frontier) /\ Distance # 0
          /\ watch' = [watch EXCEPT !.phase = "logs"])
  BY DEF WatchCursor
<1> QED
  BY <1>1, MovesIs

LEMMA HeadMovesOn ==
  ASSUME DOMAIN watch = WatchFields, WatchHead
  PROVE  \/ Moves("decide", watch.head, "unavailable")
         \/ /\ ~(rpcHead < block[watch.frontier].num)
            /\ Moves("cursor", chain[rpcHead], watch.outcome)
  BY MovesIs DEF WatchHead

LEMMA RecheckMoves ==
  ASSUME DOMAIN watch = WatchFields, WatchRecheck
  PROVE  \/ Moves("decide", watch.head, "error")
         \/ HeaderIs(watch.frontier) /\ Moves("headcheck", watch.head, watch.outcome)
  BY MovesIs DEF WatchRecheck

LEMMA HeadCheckMoves ==
  ASSUME DOMAIN watch = WatchFields, WatchHeadCheck
  PROVE  \/ Moves("decide", watch.head, "error")
         \/ HeaderIs(watch.head) /\ Moves("decide", watch.head, "advanced")
  BY MovesIs DEF WatchHeadCheck

\* The canonical blocks above the frontier, up to the head.
Range0 == {chain[n] : n \in {k \in (block[watch.frontier].num + 1)..block[watch.head].num : k <= Height}}

\* The logs of these blocks were applied, and no other applied log is above the frontier.
Matched ==
    /\ \A h \in Range0 : block[h].log # "none" => h \in Range(watch.applied)
    /\ \A h \in Range(watch.applied) :
          /\ ~(block[h].num > block[watch.head].num)
          /\ block[h].num \in (block[watch.frontier].num + 1)..block[watch.head].num
                => h \in Range0 /\ block[h].log # "none"

LEMMA LogsMove ==
  ASSUME DOMAIN watch = WatchFields, WatchLogs
  PROVE  \/ \E o \in {"idle", "error"} : Moves("decide", watch.head, o)
         \/ Matched /\ Moves("recheck", watch.head, watch.outcome)
<1>1. \/ Outcome("error") \/ Outcome("idle")
      \/ Matched /\ watch' = [watch EXCEPT !.phase = "recheck"]
  BY DEF WatchLogs, Matched, Range0
<1> QED
  BY <1>1, MovesIs

LEMMA UnavailableMoves ==
  ASSUME DOMAIN watch = WatchFields, WatchUnavailable
  PROVE  Moves("decide", watch.head, "unavailable")
  BY MovesIs DEF WatchUnavailable

\* What a decision may come to: no state to observe, another attempt, another attempt
\* from the proved block, a confirmation, the end of the session.
LEMMA DecideIs ==
  ASSUME DOMAIN watch = WatchFields, WatchDecide
  PROVE  \/ ~Active /\ Waits([watch EXCEPT !.previous = NoState])
         \/ Waits(watch)
         \/ /\ watch.outcome = "advanced" /\ Active
            /\ ContinuesProof(watch.state, State, watch.applied, journal, watch.head)
            /\ Waits([watch EXCEPT !.frontier = watch.head])
         \/ /\ watch.outcome = "advanced" /\ Active /\ State = watch.state
            /\ watch' = [watch EXCEPT !.phase = "apply", !.frontier = watch.head]
         \/ Moves("failed", watch.head, watch.outcome)
<1>1. /\ DOMAIN watch = {"phase", "state", "applied", "previous", "evidence", "frontier", "head", "outcome"}
      /\ DOMAIN [watch EXCEPT !.previous = NoState] = WatchFields
      /\ DOMAIN [watch EXCEPT !.frontier = watch.head] = WatchFields
  BY DEF WatchFields, NoWatch
<1>2. \/ ~Active /\ Again([watch EXCEPT !.previous = NoState])
      \/ Again(watch)
      \/ /\ watch.outcome = "advanced" /\ Active
         /\ ContinuesProof(watch.state, State, watch.applied, journal, watch.head)
         /\ Again([watch EXCEPT !.frontier = watch.head])
      \/ /\ watch.outcome = "advanced" /\ Active /\ State = watch.state
         /\ watch' = [watch EXCEPT !.phase = "apply", !.frontier = watch.head]
      \/ watch' = [watch EXCEPT !.phase = "failed"]
  BY Zenon DEF WatchDecide
<1> QED
  BY <1>1, <1>2, WaitsIs, MovesIs, Zenon

\* A watcher step leaves the chain; only a failed request spends.
LEMMA WatchFrame ==
  ASSUME Watch
  PROVE  UNCHANGED <<envVars, sessionVars>>
  BY DEF Watch, WatchRead, WatchHead, WatchCursor, WatchLogs, WatchRecheck, WatchHeadCheck,
     WatchUnavailable, WatchDecide, WatchConfirm, vars, sessionVars

Phases == {"off", "wait", "head", "cursor", "logs", "recheck", "headcheck", "decide", "apply", "failed"}
Outcomes == {"none", "idle", "advanced", "unavailable", "error"}

LEMMA WatchStep == ObsTypes /\ [ObsNext]_obsVars => WatchTypes'
<1> SUFFICES ASSUME ObsTypes, [ObsNext]_obsVars PROVE WatchTypes'
  OBVIOUS
<1>t. /\ ChainTypeOK /\ Len(block) \in Nat /\ rpcHead \in 1..Height
      /\ WatchTypes /\ retained.base \in 0..Len(block)
  BY DEF ObsTypes, ChainGood, ChainTypeOK, CaptureSound, CacheTypes
<1>d. DOMAIN watch = WatchFields
  BY <1>t DEF WatchTypes
<1>w. /\ watch.phase \in Phases /\ watch.outcome \in Outcomes
      /\ watch.frontier \in 0..Len(block) /\ watch.head \in 0..Len(block)
  BY <1>t DEF WatchTypes, Phases, Outcomes
<1> DEFINE Good == /\ DOMAIN watch' = WatchFields
                   /\ watch'.phase \in Phases /\ watch'.outcome \in Outcomes
                   /\ watch'.frontier \in 0..Len(block) /\ watch'.head \in 0..Len(block)
<1>e. EmptyHash \in 0..Len(block)
  BY <1>t DEF EmptyHash
<1>m. ASSUME NEW phase \in Phases, NEW head \in 0..Len(block), NEW outcome \in Outcomes,
             Moves(phase, head, outcome)
      PROVE  Good
  BY <1>m, <1>w DEF Moves
<1>h. ASSUME NEW f \in 0..Len(block), NEW v, v = [watch EXCEPT !.frontier = f], Waits(v)
      PROVE  Good
  <2>1. v.frontier = f
    BY <1>d, <1>h DEF WatchFields, NoWatch
  <2> QED
    BY <1>e, <1>h, <2>1 DEF Waits, Phases, Outcomes
<1>1. CASE Watch
  <2>1. UNCHANGED block
    BY <1>1, WatchFrame DEF envVars, chainVars
  <2>2. Good
    <3>1. CASE WatchRead
      <4>1. (Active /\ Begins) \/ (~Active /\ Forgets)
        BY <1>d, <3>1, ReadIs
      <4>2. CASE Begins
        BY <1>e, <1>t, <1>w, <4>2 DEF Begins, Phases, Outcomes
      <4>3. CASE Forgets
        BY <1>w, <4>3 DEF Forgets
      <4> QED
        BY <4>1, <4>2, <4>3
    <3>2. CASE WatchHead
      <4>1. chain[rpcHead] \in 0..Len(block)
        BY <1>t, FoundBlock
      <4>2. Moves("decide", watch.head, "unavailable") \/ Moves("cursor", chain[rpcHead], watch.outcome)
        BY <1>d, <3>2, HeadMovesOn
      <4> QED
        BY <1>m, <1>w, <4>1, <4>2 DEF Phases, Outcomes
    <3>3. CASE WatchCursor \/ WatchLogs \/ WatchRecheck \/ WatchHeadCheck \/ WatchUnavailable
      <4>1. \/ \E o \in Outcomes : Moves("decide", watch.head, o)
            \/ \E p \in Phases : Moves(p, watch.head, watch.outcome)
        BY <1>d, <3>3, CursorMoves, LogsMove, RecheckMoves, HeadCheckMoves, UnavailableMoves
           DEF Phases, Outcomes
      <4>2. "decide" \in Phases
        BY DEF Phases
      <4> HIDE DEF Good
      <4> QED
        BY <1>m, <1>w, <4>1, <4>2
    <3>4. CASE WatchDecide
      <4>1. CASE Waits([watch EXCEPT !.previous = NoState])
        <5>1. [watch EXCEPT !.previous = NoState].frontier = watch.frontier
          BY <1>d DEF WatchFields, NoWatch
        <5> QED
          BY <1>e, <1>w, <4>1, <5>1 DEF Waits, Phases, Outcomes
      <4>2. CASE Waits(watch)
        BY <1>e, <1>w, <4>2 DEF Waits, Phases, Outcomes
      <4>3. CASE Waits([watch EXCEPT !.frontier = watch.head])
        BY <1>h, <1>w, <4>3
      <4>4. CASE watch' = [watch EXCEPT !.phase = "apply", !.frontier = watch.head]
        BY <1>d, <1>w, <4>4 DEF WatchFields, NoWatch, Phases
      <4>5. CASE Moves("failed", watch.head, watch.outcome)
        BY <1>m, <1>w, <4>5 DEF Phases
      <4> QED
        BY <1>d, <3>4, DecideIs, <4>1, <4>2, <4>3, <4>4, <4>5
    <3>5. CASE WatchConfirm
      <4>1. Waits(watch)
        BY <1>d, <3>5, WaitsIs DEF WatchConfirm
      <4> QED
        BY <1>e, <1>w, <4>1 DEF Waits, Phases, Outcomes
    <3> QED
      BY <1>1, <3>1, <3>2, <3>3, <3>4, <3>5 DEF Watch
  <2> QED
    BY <2>1, <2>2 DEF WatchTypes, Phases, Outcomes
<1>2. CASE ~Watch
  <2>1. watch' = watch \/ watch' = NoWatch \/ watch' = [NoWatch EXCEPT !.phase = "wait"]
    BY <1>2 DEF ObsNext, SubscribeAndWatch, ExitJoined, WatchFails, obsVars
  <2>2. Good
    BY <1>d, <1>e, <1>w, <2>1 DEF NoWatch, WatchFields, Phases, Outcomes
  <2>3. Len(block') \in Nat /\ Len(block) <= Len(block')
    <3>1. CASE NewBlock
      <4>1. PICK n \in 1..Height, log \in Effects : Grow(n, log)
        BY <3>1 DEF NewBlock
      <4> QED
        BY <4>1, Grown DEF ObsTypes
    <3>2. CASE UNCHANGED chainVars
      BY <1>t, <3>2 DEF chainVars
    <3>3. NewBlock \/ UNCHANGED chainVars
      BY <1>2 DEF ObsNext, Others, HeadMoves, DelayPasses, SessionStart, SessionLost, StartCapture,
         Worker, WorkerCapture, WorkerResume, WorkerReads, WorkerVerify, WorkerFails, workerFrame,
         Result, ResultStale, ResultFailed, ResultInstalled, ResultContradicted, resultFrame,
         LogStep, LogRemovedStops, LogSkipped, LogGarbled, LogApplied, LogStops, RequestRecovery,
         TakeRecovery, SubscribeAndWatch, SessionSubscribe, ExitJoined, SessionExit, WatchFails,
         vars, envVars, obsVars
    <3> QED
      BY <3>1, <3>2, <3>3
  <2> QED
    BY <1>t, <2>2, <2>3 DEF WatchTypes, Phases, Outcomes
<1> QED
  BY <1>1, <1>2

LEMMA ObsTypesStep == ObsTypes /\ [ObsNext]_obsVars => ObsTypes'
  BY ChainGoodStep, SoundStep, FlagsStep, StreamStep, CacheStep, WorkStep, WatchStep DEF ObsTypes

LEMMA ObsTyped == ObsTypes => ObsTypeOK
<1> SUFFICES ASSUME ObsTypes PROVE ObsTypeOK
  OBVIOUS
<1>1. ChainTypeOK /\ rpcHead \in 1..Height /\ wire \in Seq(Logs) /\ Len(replay) <= ReplayLimit
  BY DEF ObsTypes, ChainGood, CaptureSound, StreamTypes
<1>2. torn \in BOOLEAN
  BY DEF ObsTypes, CaptureSound
<1>3. Current \in Cache
  BY CurrentIs DEF ObsTypes
<1>4. FlagTypes
  BY DEF ObsTypes
<1>5. TypeOK
  BY <1>1, <1>2, <1>3, <1>4, Zenon DEF ObsTypes, TypeOK, FlagTypes, WorkTypes
<1> QED
  BY <1>5 DEF ObsTypes, ObsTypeOK, WatchTypes

\* Every value of the program's variables is of its type, the bounded ones within their
\* bounds: the buffer of received logs never outgrows its limit, the watcher's points are
\* blocks that exist, and the retained inputs, cursor and journal of the cache stay a
\* pool, a block and a list of blocks whatever logs and captures come.
THEOREM ObservedTypeOK == ObsSpec => []ObsTypeOK
<1>1. ObsInit => ObsTypes
  BY ObsTypesInit
<1>2. ObsTypes /\ [ObsNext]_obsVars => ObsTypes'
  BY ObsTypesStep
<1> QED
  BY <1>1, <1>2, ObsTyped, PTL DEF ObsSpec

-----------------------------------------------------------------------------
(* The confirmed state is the state of the proved block. *)

\* Room in the journal for every block, no stream behind the captured baseline, and no
\* notice sent twice to a session that does not recognise it.
Fits ==
    /\ JournalLimit >= MaxBlocks /\ ~StreamBehind
    /\ FALSE \in EntryPoints => MaxDuplicates = 0

HasLog(x) == block[x].log # "none"
Swap(x) == block[x].log = "swap"
Num(x) == block[x].num
After(y, b) == y > b \/ Num(y) > Num(b)
Coming == ComingOf(wire, events, seen)

\* What the session's life cycle leaves behind.
Calls ==
    /\ session \in {"idle", "subscribing"} => wire = <<>> /\ worker.phase = "none"
    /\ session = "subscribing" => retained = Nil
    /\ session # "idle" => events \in EntryPoints
    /\ budget.duplicates <= MaxDuplicates
    /\ session \in {"idle", "subscribing"} => watch = NoWatch

LEMMA ComingLess ==
  ASSUME StreamTypes,
         \/ wire' = <<>>
         \/ UNCHANGED <<wire, events, seen>>
         \/ wire # <<>> /\ wire' = Tail(wire)
  PROVE  Coming' \subseteq Coming
<1>1. CASE wire' = <<>>
  BY <1>1 DEF Coming, ComingOf, RestOf
<1>2. CASE UNCHANGED <<wire, events, seen>>
  BY <1>2 DEF Coming
<1>3. CASE wire # <<>> /\ wire' = Tail(wire)
  <2>1. ComingOf(Tail(wire), events', seen') \subseteq RestOf(wire)
    BY <1>3, WireTail DEF StreamTypes
  <2> QED
    BY <1>3, <2>1 DEF Coming, ComingOf
<1> QED
  BY <1>1, <1>2, <1>3

\* A step that neither brings a block nor applies a log or a capture.
Calm ==
    /\ UNCHANGED <<chainVars, journal, cursor, clock>>
    /\ Coming' \subseteq Coming
    /\ generation' >= generation
    /\ \/ retained' = retained
       \/ retained' = Nil /\ generation' > generation
    /\ events' = events \/ retained' = Nil
    /\ replay' = replay \/ replay' = <<>>

LEMMA CalmSession ==
  ASSUME ObsTypes, Calls,
         SessionStart \/ SubscribeAndWatch \/ ExitJoined \/ SessionLost \/ WatchFails
         \/ RequestRecovery \/ TakeRecovery \/ HeadMoves \/ DelayPasses \/ StartCapture
  PROVE  Calm
<1>t. StreamTypes /\ generation \in Nat
  BY DEF ObsTypes, FlagTypes
<1>1. CASE SessionStart
  <2>1. wire' = <<>>
    BY <1>1 DEF SessionStart, Calls, envVars
  <2> QED
    BY <1>1, <1>t, <2>1, ComingLess DEF SessionStart, Calm, envVars, loopVars
<1>2. CASE SubscribeAndWatch
  BY <1>2, <1>t, ComingLess DEF SubscribeAndWatch, SessionSubscribe, Calm, stateVars
<1>3. CASE ExitJoined
  <2>1. generation' > generation /\ generation' >= generation
    BY <1>3, <1>t DEF ExitJoined, SessionExit
  <2> QED
    BY <1>3, <1>t, <2>1, ComingLess DEF ExitJoined, SessionExit, Calm, loopVars
<1>4. CASE SessionLost \/ WatchFails \/ RequestRecovery \/ TakeRecovery \/ HeadMoves \/ DelayPasses
           \/ StartCapture
  <2>1. UNCHANGED <<chainVars, journal, cursor, clock, wire, events, seen, generation, retained>>
    BY <1>4 DEF SessionLost, WatchFails, RequestRecovery, TakeRecovery, HeadMoves, DelayPasses,
       StartCapture, envVars, stateVars, sessionVars, lifeVars
  <2>2. replay' = replay \/ replay' = <<>>
    BY <1>4 DEF SessionLost, WatchFails, RequestRecovery, TakeRecovery, HeadMoves, DelayPasses,
       StartCapture, sessionVars, loopVars
  <2> QED
    BY <1>t, <2>1, <2>2, ComingLess DEF Calm
<1> QED
  BY <1>1, <1>2, <1>3, <1>4

LEMMA CalmWorker ==
  ASSUME ObsTypes, Worker \/ ResultStale \/ ResultFailed \/ ResultContradicted
  PROVE  Calm
<1>t. StreamTypes /\ generation \in Nat
  BY DEF ObsTypes, FlagTypes
<1>1. CASE Worker \/ ResultStale \/ ResultFailed
  <2>1. UNCHANGED <<chainVars, journal, cursor, clock, wire, events, seen, generation, retained, replay>>
    BY <1>1 DEF Worker, WorkerCapture, WorkerResume, WorkerReads, WorkerVerify, WorkerFails,
       workerFrame, ResultStale, ResultFailed, resultFrame, envVars, stateVars, lifeVars, loopVars
  <2> QED
    BY <1>t, <2>1, ComingLess DEF Calm
<1>2. CASE ResultContradicted
  <2>1. UNCHANGED <<chainVars, journal, cursor, clock, wire, events, seen>>
    BY <1>2 DEF ResultContradicted, resultFrame, envVars
  <2>2. \/ retained' = retained /\ generation' = generation
        \/ retained' = Nil /\ generation' = generation + 1
    BY <1>2 DEF ResultContradicted, Invalidate
  <2>3. replay' = replay \/ replay' = <<>>
    BY <1>2 DEF ResultContradicted, Invalidate
  <2> QED
    BY <1>t, <2>1, <2>2, <2>3, ComingLess DEF Calm
<1> QED
  BY <1>1, <1>2

LEMMA CalmLog ==
  ASSUME ObsTypes, LogRemovedStops \/ LogSkipped \/ LogGarbled \/ LogStops
  PROVE  Calm
<1>t. StreamTypes /\ generation \in Nat
  BY DEF ObsTypes, FlagTypes
<1>1. wire # <<>> /\ wire' = Tail(wire)
  BY DEF LogRemovedStops, LogSkipped, LogGarbled, LogStops
<1>2. UNCHANGED <<chainVars, journal, cursor, clock, events>>
  BY DEF LogRemovedStops, LogSkipped, LogGarbled, LogStops, stateVars, lifeVars
<1>3. /\ retained' = retained \/ (retained' = Nil /\ generation' = generation + 1)
      /\ generation' = generation \/ generation' = generation + 1
  <2>1. CASE LogRemovedStops \/ LogSkipped
    BY <2>1 DEF LogRemovedStops, LogSkipped, stateVars
  <2>2. CASE LogGarbled
    BY <2>2 DEF LogGarbled, Invalidate
  <2>3. CASE LogStops
    BY <2>3, Zenon DEF LogStops
  <2> QED
    BY <2>1, <2>2, <2>3
<1>4. replay' = replay \/ replay' = <<>>
  BY DEF LogRemovedStops, LogSkipped, LogGarbled, LogStops, loopVars, Invalidate
<1> QED
  BY <1>t, <1>1, <1>2, <1>3, <1>4, ComingLess DEF Calm

LEMMA CalmWatch ==
  ASSUME ObsTypes, Watch \/ UNCHANGED obsVars
  PROVE  Calm
<1>1. UNCHANGED <<chainVars, journal, cursor, clock, wire, events, seen, generation, retained, replay>>
  BY WatchFrame DEF envVars, sessionVars, stateVars, lifeVars, loopVars, obsVars, vars
<1> QED
  BY <1>1, ComingLess DEF Calm, ObsTypes, FlagTypes

LEMMA CalmIs ==
  ASSUME ObsTypes, Calls, [ObsNext]_obsVars, ~NewBlock, ~LogApplied, ~ResultInstalled
  PROVE  Calm
  BY CalmSession, CalmWorker, CalmLog, CalmWatch DEF ObsNext, Others, Result, LogStep

\* A log is taken from the wire and perhaps buffered.
Takes(h) ==
    /\ h \in 1..Len(block) /\ HasLog(h) /\ h \in Coming
    /\ Coming' \subseteq Coming /\ \A y \in Coming' : h < y
    /\ ~events => wire' = Tail(wire) /\ Coming \subseteq Coming' \cup {h} /\ ~Overflows
    /\ wire # <<>> /\ h = wire[1].hash /\ Pooled(wire[1])
    /\ session = "live" /\ UNCHANGED <<chainVars, events, session, busy, worker>>
    /\ replay' = replay \/ replay' = <<h>> \/ replay' = Append(replay, h)
    /\ capture'.open => UNCHANGED <<capture, epoch>> /\ replay' = Append(replay, h)
    /\ \/ UNCHANGED <<capture, epoch>>
       \/ capture' = NoCapture /\ epoch' = epoch + 1
    /\ ~Overflows => UNCHANGED <<capture, epoch>>
    /\ ~Buffers => replay' = replay
    /\ generation' >= generation

\* The notice may come again only to a session that will know it.
LEMMA TakesWire ==
  ASSUME ObsTypes, Calls, Fits, LogApplied
  PROVE  /\ events /\ wire' = wire => wire[1] \in Range(seen')
         /\ wire' = Tail(wire) \/ (events /\ wire' = wire)
<1>t. budget \in Budget /\ budget.duplicates <= MaxDuplicates
  BY DEF ObsTypes, FlagTypes, Calls
<1>1. wire # <<>> /\ Head(wire) = wire[1] /\ Head(wire) \in Logs
  BY HeadType DEF LogApplied, ObsTypes
<1>2. events => seen' = Remember(seen, Head(wire), ReplayLimit)
  BY DEF LogApplied
<1>3. Head(wire) \in Range(Remember(seen, Head(wire), ReplayLimit))
  BY <1>1, RememberType, RetainedAssumption DEF ObsTypes, StreamTypes
<1>4. wire' = Tail(wire) \/ (Spend("duplicates") /\ wire' = wire)
  BY DEF LogApplied, Take
<1>5. ASSUME Spend("duplicates") PROVE events
  <2>1. budget.duplicates > 0 /\ budget.duplicates \in Nat
    BY <1>5, <1>t DEF Spend, Budget
  <2>2. MaxDuplicates # 0
    BY <1>t, <2>1, RetainedAssumption
  <2>3. FALSE \notin EntryPoints
    BY <2>2, Zenon DEF Fits
  <2>4. session = "live"
    BY DEF LogApplied, Waiting
  <2>5. events \in EntryPoints /\ events \in BOOLEAN
    BY <2>4 DEF Calls, ObsTypes, FlagTypes
  <2> QED
    BY <2>3, <2>5, Zenon
<1> QED
  BY <1>1, <1>2, <1>3, <1>4, <1>5

LEMMA TakesIs ==
  ASSUME ObsTypes, Calls, Fits, LogApplied
  PROVE  Takes(Head(wire).hash)
<1> DEFINE h == Head(wire).hash
<1>1. wire # <<>> /\ Head(wire) = wire[1] /\ h \in 1..Len(block) /\ h = wire[1].hash
  BY HeadType DEF LogApplied, ObsTypes
<1>2. Pooled(wire[1]) /\ (events => wire[1] \notin Range(seen))
  BY <1>1 DEF LogApplied, Pooled, IsNew
<1>3. HasLog(h)
  <2>1. wire \in Seq(Logs) /\ Noticed(block, wire)
    BY DEF ObsTypes, StreamTypes
  <2>2. 1 \in 1..Len(wire)
    BY <1>1, <2>1
  <2> QED
    BY <1>1, <1>2, <2>1, <2>2 DEF Noticed, HasLog, Pooled
<1>4. h \in Coming
  BY <1>1, <1>2 DEF Coming, ComingOf
<1>w. /\ \A e, s : ComingOf(Tail(wire), e, s) \subseteq RestOf(wire)
      /\ \A s : ComingOf(Tail(wire), FALSE, s) = RestOf(wire)
      /\ \A y \in RestOf(wire) : h < y
  BY <1>1, <1>2, WireTail DEF ObsTypes, StreamTypes
<1>e. events' = events /\ events \in BOOLEAN
  BY DEF LogApplied, ObsTypes, FlagTypes
<1>5. Coming' \subseteq RestOf(wire)
  <2>1. CASE wire' = Tail(wire)
    BY <1>w, <2>1 DEF Coming
  <2>2. CASE events /\ wire' = wire
    <3>1. wire[1] \in Range(seen')
      BY <2>2, TakesWire
    <3> QED
      BY <1>e, <2>2, <3>1 DEF Coming, ComingOf
  <2> QED
    BY <2>1, <2>2, TakesWire
<1>6. Coming' \subseteq Coming /\ \A y \in Coming' : h < y
  BY <1>5, <1>w DEF Coming, ComingOf
<1>7. ASSUME ~events PROVE wire' = Tail(wire) /\ Coming \subseteq Coming' \cup {h} /\ ~Overflows
  <2>1. wire' = Tail(wire)
    BY <1>7, TakesWire
  <2>2. events' = FALSE
    BY <1>7, <1>e, Zenon
  <2>3. Coming' = RestOf(wire)
    BY <1>w, <2>1, <2>2 DEF Coming
  <2>4. Coming \subseteq RestOf(wire) \cup {h}
    BY <1>1 DEF Coming, ComingOf
  <2>5. ~Overflows
    BY <1>7 DEF LogApplied
  <2> QED
    BY <2>1, <2>3, <2>4, <2>5
<1>8. session = "live" /\ UNCHANGED <<chainVars, events, session, busy, worker>>
  BY DEF LogApplied, Waiting
<1>9. /\ replay' = IF ~Buffers THEN replay ELSE IF Overflows THEN <<h>> ELSE Append(replay, h)
      /\ capture' = IF Overflows THEN NoCapture ELSE capture
      /\ epoch' = IF Overflows THEN epoch + 1 ELSE epoch
  BY DEF LogApplied
<1>10. capture.open => Buffers
  BY DEF Buffers
<1>11. ~NoCapture.open
  BY DEF NoCapture
<1>12. generation' >= generation
  <2>1. \E a, b \in {0, 1} : generation' = generation + a + b
    BY DEF LogApplied
  <2> QED
    BY <2>1 DEF ObsTypes, FlagTypes
<1> HIDE DEF h
<1>13. /\ replay' = replay \/ replay' = <<h>> \/ replay' = Append(replay, h)
       /\ capture'.open => UNCHANGED <<capture, epoch>> /\ replay' = Append(replay, h)
       /\ \/ UNCHANGED <<capture, epoch>>
          \/ capture' = NoCapture /\ epoch' = epoch + 1
       /\ ~Overflows => UNCHANGED <<capture, epoch>>
       /\ ~Buffers => replay' = replay
  BY <1>9, <1>10, <1>11
<1> QED
  BY <1>1, <1>2, <1>3, <1>4, <1>6, <1>7, <1>8, <1>12, <1>13 DEF Takes, h

\* It may be applied to the retained pool as well.
PoolAdds(h) ==
    /\ retained # Nil /\ retained'.base = retained.base /\ retained'.received = clock'
    /\ journal' = Remember(journal, h, JournalLimit) /\ cursor'.num = Num(h)
    /\ Swap(h) =>
          /\ retained'.price = h
          /\ retained'.ticks = retained.ticks /\ retained'.twice = retained.twice
    /\ ~Swap(h) =>
          /\ retained'.price = retained.price
          /\ retained'.ticks = retained.ticks \cup {h}
          /\ retained'.twice = retained.twice \cup ({h} \cap retained.ticks)

LEMMA PoolTakes ==
  ASSUME ObsTypes, LogApplied
  PROVE  /\ clock' = clock + 1 /\ clock' \in Nat
         /\ UNCHANGED <<retained, cursor, journal>> \/ PoolAdds(Head(wire).hash)
<1> DEFINE h == Head(wire).hash
           d == ApplyLive(Current, h, clock + 1)
<1>1. clock' = clock + 1 /\ clock' \in Nat
  BY DEF LogApplied, ObsTypes, FlagTypes
<1>2. h \in 1..Len(block)
  BY HeadType DEF LogApplied, ObsTypes
<1>3. /\ d.ok => d = Apply(Current, h, clock + 1)
      /\ IF retained # Nil /\ d.ok
         THEN retained' = d.pool /\ cursor' = d.cursor /\ journal' = d.journal
         ELSE UNCHANGED <<retained, cursor, journal>>
  BY AppliedIs DEF ObsTypes
<1>4. /\ Current \in Cache /\ Current.pool = retained /\ Current.cursor = cursor
      /\ Current.journal = journal
  BY CurrentIs DEF ObsTypes
<1>5. Adds(Current, Apply(Current, h, clock + 1), h, clock + 1)
  BY <1>1, <1>2, <1>4, ApplyIs DEF ObsTypes
<1> HIDE DEF h, d
<1>6. CASE retained # Nil /\ d.ok
  <2>1. /\ retained' = d.pool /\ cursor' = d.cursor /\ journal' = d.journal
        /\ Adds(Current, d, h, clock + 1)
    BY <1>3, <1>5, <1>6
  <2>2. PoolAdds(h)
    BY <1>1, <1>4, <1>6, <2>1 DEF Adds, PoolAdds, Swap, Num
  <2> QED
    BY <1>1, <2>2 DEF h
<1> QED
  BY <1>1, <1>3, <1>6

\* What was received is in order and older than what is to come.
OrderInv ==
    /\ \A x \in Range(replay) \cup Range(journal) : x \in 1..Len(block) /\ HasLog(x)
    /\ Rising(replay) /\ Rising(journal) /\ Placed(journal)
    /\ \A x \in Range(replay) \cup Range(journal), y \in Coming : x < y

LEMMA RangeAppend ==
  ASSUME NEW S, NEW q \in Seq(S), NEW x \in S
  PROVE  Range(Append(q, x)) = Range(q) \cup {x}
<1>1. /\ Append(q, x) \in Seq(S) /\ Len(Append(q, x)) = Len(q) + 1 /\ Len(q) \in Nat
      /\ \A i \in 1..Len(q) : Append(q, x)[i] = q[i]
      /\ Append(q, x)[Len(q) + 1] = x
  OBVIOUS
<1> DEFINE r == Append(q, x)
<1>2. r \in Seq(S) /\ Len(r) = Len(q) + 1 /\ (\A i \in 1..Len(q) : r[i] = q[i]) /\ r[Len(q) + 1] = x
  BY <1>1
<1> HIDE DEF r
<1>3. Range(q) = {q[i] : i \in 1..Len(q)} /\ Range(r) = {r[i] : i \in 1..Len(r)}
  BY <1>2 DEF Range
<1>4. \A i \in 1..Len(r) : i \in 1..Len(q) \/ i = Len(q) + 1
  BY <1>1, <1>2
<1>5. \A i \in 1..Len(q) : i \in 1..Len(r)
  BY <1>1, <1>2
<1>6. Len(q) + 1 \in 1..Len(r)
  BY <1>1, <1>2
<1>7. Range(r) \subseteq Range(q) \cup {x}
  BY <1>2, <1>3, <1>4
<1>8. Range(q) \subseteq Range(r)
  BY <1>2, <1>3, <1>5
<1>9. x \in Range(r)
  BY <1>2, <1>3, <1>6
<1> QED
  BY <1>7, <1>8, <1>9 DEF r

LEMMA RisingAppend ==
  ASSUME NEW q \in Seq(Nat), NEW x \in Nat, Rising(q), \A y \in Range(q) : y < x
  PROVE  Rising(Append(q, x))
<1> DEFINE r == Append(q, x)
<1>1. Len(r) = Len(q) + 1 /\ (\A i \in 1..Len(q) : r[i] = q[i]) /\ r[Len(q) + 1] = x /\ Len(q) \in Nat
  OBVIOUS
<1> HIDE DEF r
<1>2. \A i \in 1..Len(q) : q[i] \in Range(q)
  BY DEF Range
<1> SUFFICES ASSUME NEW i \in 1..Len(r), NEW j \in 1..Len(r), i < j PROVE r[i] < r[j]
  BY DEF r, Rising
<1>3. i \in 1..Len(q)
  BY <1>1
<1>4. CASE j \in 1..Len(q)
  BY <1>1, <1>3, <1>4 DEF Rising
<1>5. CASE j = Len(q) + 1
  BY <1>1, <1>2, <1>3, <1>5
<1> QED
  BY <1>1, <1>4, <1>5

LEMMA OneRange ==
  ASSUME NEW x
  PROVE  Range(<<x>>) = {x} /\ Rising(<<x>>) /\ Range(<<>>) = {} /\ Rising(<<>>) /\ Placed(<<>>)
  BY DEF Range, Rising, Placed

LEMMA OrderCalm == ObsTypes /\ OrderInv /\ Calm => OrderInv'
<1> SUFFICES ASSUME ObsTypes, OrderInv, Calm PROVE OrderInv'
  OBVIOUS
<1>1. Range(replay') \subseteq Range(replay) /\ Rising(replay')
  BY OneRange DEF Calm, OrderInv
<1>2. journal' = journal /\ block' = block /\ Coming' \subseteq Coming
  BY DEF Calm, chainVars
<1>3. \A x \in Range(replay') \cup Range(journal') : x \in Range(replay) \cup Range(journal)
  BY <1>1, <1>2
<1>4. \A x \in Range(replay') \cup Range(journal') : x \in 1..Len(block') /\ HasLog(x)'
  BY <1>2, <1>3 DEF OrderInv, HasLog
<1>5. \A x \in Range(replay') \cup Range(journal'), y \in Coming' : x < y
  BY <1>2, <1>3 DEF OrderInv
<1> QED
  BY <1>1, <1>2, <1>4, <1>5 DEF OrderInv

\* The new block comes after all others; only its log is new on the wire.
Brings(n, log) ==
    /\ Grow(n, log) /\ ChainGood' /\ Len(block') = Len(block) + 1 /\ Len(block) \in Nat
    /\ \A x \in 1..Len(block) :
          /\ block'[x] = block[x] /\ Line(block', x) = Line(block, x)
          /\ On(chain', block', x) => On(chain, block, x)
    /\ block'[Len(block) + 1] = Child(n, log)
    /\ UNCHANGED <<budget, sessionVars, watch, progress>>
    /\ Coming' \subseteq Coming \cup {Len(block')}

LEMMA BringsIs ==
  ASSUME ObsTypes, NewBlock, UNCHANGED <<watch, progress>>
  PROVE  \E n \in 1..Height, log \in Effects : Brings(n, log)
<1>1. PICK n \in 1..Height, log \in Effects :
         /\ Grow(n, log)
         /\ wire' = IF Subscribed THEN wire \o Notices(n, Len(block) + 1, Child(n, log)) ELSE wire
  BY NewBlockIs DEF ObsTypes
<1>2. /\ ChainGood' /\ Len(block') = Len(block) + 1 /\ Len(block) \in Nat
      /\ \A x \in 1..Len(block) :
            /\ block'[x] = block[x] /\ Line(block', x) = Line(block, x)
            /\ On(chain', block', x) => On(chain, block, x)
      /\ block'[Len(block) + 1] = Child(n, log)
  BY <1>1, Grown DEF ObsTypes
<1> DEFINE D == Notices(n, Len(block) + 1, Child(n, log))
<1>3. Announces(block', D, Len(block'))
  BY <1>1, NoticesIs DEF ObsTypes
<1>4. wire' = wire \/ wire' = wire \o D
  BY <1>1
<1> HIDE DEF D
<1>5. UNCHANGED <<budget, sessionVars>> /\ UNCHANGED <<events, seen>>
  BY DEF NewBlock, sessionVars, lifeVars
<1>6. Coming' \subseteq Coming \cup {Len(block')}
  <2>1. CASE wire' = wire
    BY <1>5, <2>1 DEF Coming
  <2>2. CASE wire' = wire \o D
    <3>1. \A e, s : ComingOf(wire \o D, e, s) \subseteq ComingOf(wire, e, s) \cup {Len(block')}
      BY <1>2, <1>3, WireGrows DEF ObsTypes, StreamTypes
    <3> QED
      BY <1>5, <2>2, <3>1 DEF Coming
  <2> QED
    BY <1>4, <2>1, <2>2
<1> QED
  BY <1>1, <1>2, <1>5, <1>6 DEF Brings

LEMMA OrderGrows ==
  ASSUME ObsTypes, OrderInv, NEW n, NEW log, Brings(n, log)
  PROVE  OrderInv'
<1>1. replay' = replay /\ journal' = journal
  BY DEF Brings, sessionVars, loopVars, stateVars
<1>2. \A x \in Range(replay) \cup Range(journal) : x \in 1..Len(block') /\ HasLog(x)'
  BY DEF OrderInv, Brings, HasLog
<1>3. \A x \in Range(replay) \cup Range(journal), y \in Coming' : x < y
  <2> TAKE x \in Range(replay) \cup Range(journal), y \in Coming'
  <2>1. CASE y \in Coming
    BY <2>1 DEF OrderInv
  <2>2. CASE y = Len(block')
    BY <2>2 DEF OrderInv, Brings
  <2> QED
    BY <2>1, <2>2 DEF Brings
<1> QED
  BY <1>1, <1>2, <1>3 DEF OrderInv

LEMMA OrderTakes ==
  ASSUME ObsTypes, OrderInv, Fits, NEW h, Takes(h),
         UNCHANGED <<retained, cursor, journal>> \/ PoolAdds(h)
  PROVE  OrderInv'
<1>t. /\ replay \in Seq(Hash) /\ journal \in Seq(Hash) /\ h \in Hash
      /\ \A x \in Hash : x \in Nat
  <2>1. Len(block) \in 1..MaxBlocks /\ MaxBlocks \in Nat
    BY ChainAssumption DEF ObsTypes, ChainGood, ChainTypeOK
  <2> QED
    BY <2>1 DEF ObsTypes, StreamTypes, CacheTypes, Takes, Hash
<1>n. replay \in Seq(Nat)
  <2>1. \A i \in 1..Len(replay) : replay[i] \in Nat
    BY <1>t
  <2> QED
    BY <1>t, <2>1
<1>b. block' = block
  BY DEF Takes, chainVars
<1>1. \A x \in Range(replay) \cup Range(journal) : x < h
  BY DEF Takes, OrderInv
<1>2. Range(replay') \subseteq Range(replay) \cup {h} /\ Rising(replay')
  <2>1. CASE replay' = replay
    BY <2>1 DEF OrderInv
  <2>2. CASE replay' = <<h>>
    BY <2>2, OneRange
  <2>3. CASE replay' = Append(replay, h)
    <3>1. Range(Append(replay, h)) = Range(replay) \cup {h}
      BY <1>t, RangeAppend
    <3>2. Rising(Append(replay, h))
      BY <1>1, <1>n, <1>t, RisingAppend DEF OrderInv
    <3> QED
      BY <2>3, <3>1, <3>2
  <2> QED
    BY <2>1, <2>2, <2>3 DEF Takes
<1>3. Range(journal') \subseteq Range(journal) \cup {h} /\ Rising(journal') /\ Placed(journal')
  <2>1. CASE journal' = journal
    BY <2>1 DEF OrderInv
  <2>2. CASE journal' = Remember(journal, h, JournalLimit)
    BY <1>1, <1>t, <2>2, RememberIs DEF OrderInv, Fits
  <2> QED
    BY <2>1, <2>2 DEF PoolAdds
<1>4. \A x \in Range(replay') \cup Range(journal') : x \in Range(replay) \cup Range(journal) \/ x = h
  BY <1>2, <1>3
<1>5. \A x \in Range(replay') \cup Range(journal') : x \in 1..Len(block') /\ HasLog(x)'
  BY <1>4, <1>b DEF OrderInv, Takes, HasLog
<1>6. \A x \in Range(replay') \cup Range(journal'), y \in Coming' : x < y
  BY <1>4 DEF OrderInv, Takes
<1> QED
  BY <1>2, <1>3, <1>5, <1>6 DEF OrderInv

\* What the capture that is installed makes of the retained state.
PoolFollows(b) ==
    /\ retained'.base = b /\ retained'.received = clock'
    /\ retained'.ticks = DeltasOf(b) \cup {x \in Range(journal') : ~Swap(x)}
    /\ retained'.twice = {}
    /\ Rising(journal') /\ Placed(journal') /\ Range(journal') = Taken(Range(replay), b)
    /\ cursor'.num = Num(IF journal' = <<>> THEN b ELSE Last(journal'))
    /\ IF \E x \in Range(journal') : Swap(x)
       THEN /\ retained'.price \in Range(journal') /\ Swap(retained'.price)
            /\ \A x \in Range(journal') : Swap(x) => x <= retained'.price
       ELSE retained'.price = PriceOf(b)

Installs(b) ==
    /\ b = worker.base /\ b \in 1..Len(block) /\ b # EmptyHash
    /\ UNCHANGED <<chainVars, wire, events, seen, generation, epoch, session>>
    /\ clock' = clock + 1 /\ clock' \in Nat
    /\ session = "live" /\ worker.phase = "done" /\ worker.epoch = epoch
    /\ \A i \in 1..Len(wire) : wire[i].num > Num(b)
    /\ \A y \in Coming : Num(y) > Num(b)
    /\ Coming' = Coming
    /\ replay' = <<>> /\ capture' = NoCapture /\ ~busy' /\ worker' = NoWorker
    /\ PoolFollows(b)

LEMMA InstallsIs ==
  ASSUME ObsTypes, OrderInv, Fits, ResultInstalled
  PROVE  Installs(worker.base)
<1> DEFINE b == worker.base
           c == Candidate(b, clock + 1)
<1>1. /\ b \in 1..Len(block) /\ clock + 1 \in Nat /\ c \in Cache /\ c.ok
      /\ retained' = c.pool /\ cursor' = c.cursor /\ journal' = c.journal
  BY InstalledIs
<1>2. /\ UNCHANGED <<chainVars, wire, events, seen, generation, epoch, session>>
      /\ clock' = clock + 1 /\ session = "live" /\ worker.phase = "done" /\ worker.epoch = epoch
      /\ replay' = <<>> /\ capture' = NoCapture /\ busy' = FALSE /\ worker' = NoWorker
  BY DEF ResultInstalled, ResultReady, Waiting, resultFrame, envVars
<1>3. \A i \in 1..Len(wire) : wire[i].num > Num(b)
  BY DEF ResultInstalled, Handled, Fits, Num
<1>4. \A y \in Coming : Num(y) > Num(b)
  <2> TAKE y \in Coming
  <2>1. PICK i \in 1..Len(wire) : wire[i].hash = y
    BY ComingIn DEF Coming, ObsTypes, StreamTypes
  <2>2. wire[i].num = Num(y)
    BY <2>1 DEF ObsTypes, StreamTypes, Noticed, Num
  <2> QED
    BY <1>3, <2>2
<1>5. Coming' = Coming
  BY <1>2 DEF Coming
<1>6. Follows(c, b, clock + 1, c.journal) /\ Range(c.journal) = Taken(Range(replay), b)
  BY <1>1, CandidateIs, ReplayType DEF ObsTypes, OrderInv, Fits
<1> HIDE DEF b, c
<1>7. PoolFollows(b)
  BY <1>1, <1>2, <1>6 DEF Follows, PoolFollows, Swap, Num
<1>8. b # EmptyHash
  BY <1>1 DEF EmptyHash
<1> QED
  BY <1>1, <1>2, <1>3, <1>4, <1>5, <1>7, <1>8 DEF Installs, b

LEMMA OrderInstalls ==
  ASSUME ObsTypes, OrderInv, NEW b, Installs(b)
  PROVE  OrderInv'
<1>1. block' = block /\ Coming' = Coming /\ replay' = <<>>
  BY DEF Installs, chainVars
<1>2. Rising(journal') /\ Placed(journal') /\ Range(journal') \subseteq Range(replay)
  BY DEF Installs, PoolFollows, Taken
<1>3. Range(replay') = {} /\ Rising(replay')
  BY <1>1, OneRange
<1>4. \A x \in Range(replay') \cup Range(journal') : x \in Range(replay)
  BY <1>2, <1>3
<1>5. \A x \in Range(replay') \cup Range(journal') : x \in 1..Len(block') /\ HasLog(x)'
  BY <1>1, <1>4 DEF OrderInv, HasLog
<1>6. \A x \in Range(replay') \cup Range(journal'), y \in Coming' : x < y
  BY <1>1, <1>4 DEF OrderInv
<1> QED
  BY <1>2, <1>3, <1>5, <1>6 DEF OrderInv

\* Every step is one of five kinds.
LEMMA Kinds5 ==
  ASSUME ObsTypes, Calls, OrderInv, Fits, [ObsNext]_obsVars
  PROVE  \/ \E n, log : Brings(n, log)
         \/ /\ LogApplied /\ Takes(Head(wire).hash) /\ clock' = clock + 1
            /\ UNCHANGED <<retained, cursor, journal>> \/ PoolAdds(Head(wire).hash)
         \/ ResultInstalled /\ Installs(worker.base)
         \/ Calm /\ ~NewBlock /\ ~LogApplied /\ ~ResultInstalled
<1>1. CASE NewBlock
  <2>1. UNCHANGED <<watch, progress>>
    <3>1. stateVars' = stateVars /\ session' = session /\ worker' = worker /\ block' # block
      <4>1. PICK n \in 1..Height, log \in Effects : Grow(n, log)
        BY <1>1 DEF NewBlock
      <4>2. Len(block') = Len(block) + 1 /\ Len(block) \in Nat
        BY <4>1, Grown DEF ObsTypes
      <4>3. block' # block
        BY <4>2
      <4> QED
        BY <1>1, <4>3 DEF NewBlock, sessionVars, lifeVars
    <3>2. ~Watch
      BY <3>1, WatchFrame DEF envVars, chainVars
    <3>3. ~SubscribeAndWatch /\ ~ExitJoined /\ ~WatchFails
      BY <3>1 DEF SubscribeAndWatch, SessionSubscribe, ExitJoined, SessionExit, WatchFails, envVars,
         chainVars
    <3>4. ~UNCHANGED obsVars
      BY <3>1 DEF obsVars, vars, envVars, chainVars
    <3> QED
      BY <3>2, <3>3, <3>4 DEF ObsNext
  <2> QED
    BY <1>1, <2>1, BringsIs
<1>2. CASE LogApplied
  BY <1>2, TakesIs, PoolTakes
<1>3. CASE ResultInstalled
  BY <1>3, InstallsIs
<1>4. CASE ~NewBlock /\ ~LogApplied /\ ~ResultInstalled
  BY <1>4, CalmIs
<1> QED
  BY <1>1, <1>2, <1>3, <1>4

LEMMA OrderStep == ObsTypes /\ Calls /\ OrderInv /\ Fits /\ [ObsNext]_obsVars => OrderInv'
  BY Kinds5, OrderGrows, OrderTakes, OrderInstalls, OrderCalm

LEMMA CallsInit == ObsInit => Calls
<1> SUFFICES ASSUME ObsInit PROVE Calls
  OBVIOUS
<1>1. session = "idle" /\ wire = <<>> /\ worker = NoWorker /\ watch = NoWatch
  BY DEF ObsInit, Init
<1>2. budget.duplicates = MaxDuplicates /\ MaxDuplicates \in Nat
  BY RetainedAssumption DEF ObsInit, Init
<1> QED
  BY <1>1, <1>2 DEF Calls, NoWorker

LEMMA DuplicatesLess ==
  ASSUME FlagTypes, Calls, [ObsNext]_obsVars
  PROVE  budget'.duplicates <= MaxDuplicates
<1>1. budget' = budget \/ \E what \in {"sessions", "faults", "duplicates", "refreshes"} : Spend(what)
  <2>1. CASE NewBlock \/ HeadMoves \/ DelayPasses \/ SessionStart \/ SessionLost \/ StartCapture
    BY <2>1 DEF NewBlock, HeadMoves, DelayPasses, SessionStart, SessionLost, StartCapture
  <2>2. CASE Worker
    BY <2>2 DEF Worker, WorkerCapture, WorkerResume, WorkerReads, WorkerVerify, WorkerFails, workerFrame
  <2>3. CASE Result
    BY <2>3 DEF Result, ResultStale, ResultFailed, ResultInstalled, ResultContradicted, NeedsCapture
  <2>4. CASE LogStep
    BY <2>4 DEF LogStep, LogRemovedStops, LogSkipped, LogGarbled, LogApplied, LogStops, Take
  <2>5. CASE RequestRecovery \/ TakeRecovery \/ SubscribeAndWatch \/ ExitJoined \/ WatchFails
    BY <2>5 DEF RequestRecovery, TakeRecovery, SubscribeAndWatch, SessionSubscribe, ExitJoined,
       SessionExit, WatchFails
  <2>6. CASE Watch \/ UNCHANGED obsVars
    BY <2>6 DEF Watch, WatchRead, WatchHead, WatchCursor, WatchLogs, WatchRecheck, WatchHeadCheck,
       WatchUnavailable, WatchDecide, WatchConfirm, vars, obsVars
  <2> QED
    BY <2>1, <2>2, <2>3, <2>4, <2>5, <2>6 DEF ObsNext, Others
<1>2. budget \in Budget /\ budget.duplicates \in Nat /\ budget.duplicates <= MaxDuplicates
  BY DEF FlagTypes, Budget, Calls
<1>3. MaxDuplicates \in Nat
  BY RetainedAssumption
<1>4. CASE budget' = budget
  BY <1>2, <1>4
<1>5. CASE \E what \in {"sessions", "faults", "duplicates", "refreshes"} : Spend(what)
  <2>1. budget'.duplicates = budget.duplicates - 1 \/ budget'.duplicates = budget.duplicates
    BY <1>2, <1>5, SpendType
  <2> QED
    BY <1>2, <1>3, <2>1
<1> QED
  BY <1>1, <1>4, <1>5

\* The part of Calls about a session that is not live.
Rests(s, w, k, r, v) ==
    /\ s \in {"idle", "subscribing"} => w = <<>> /\ k.phase = "none" /\ v = NoWatch
    /\ s = "subscribing" => r = Nil

LEMMA RestsStep ==
  ASSUME ObsTypes, Calls, [ObsNext]_obsVars
  PROVE  /\ Rests(session', wire', worker', retained', watch')
         /\ session' # "idle" => events' \in EntryPoints
<1>r. Rests(session, wire, worker, retained, watch) /\ (session # "idle" => events \in EntryPoints)
  BY DEF Calls, Rests
<1>1. CASE UNCHANGED <<session, wire, worker, retained, watch, events>>
  BY <1>1, <1>r
<1>2. CASE session' \in {"live", "closing"} /\ events' = events /\ session # "idle"
  BY <1>2, <1>r DEF Rests
<1>3. CASE NewBlock /\ UNCHANGED <<watch, progress>>
  <2>1. UNCHANGED <<session, worker, retained, watch, events>>
    BY <1>3 DEF NewBlock, sessionVars, stateVars, lifeVars
  <2>2. Subscribed \/ wire' = wire
    BY <1>3 DEF NewBlock, Send
  <2>3. CASE wire' = wire
    BY <1>1, <2>1, <2>3
  <2>4. CASE Subscribed
    BY <1>2, <2>1, <2>4 DEF Subscribed
  <2> QED
    BY <2>2, <2>3, <2>4
<1>4. CASE HeadMoves /\ UNCHANGED <<watch, progress>>
  BY <1>1, <1>4 DEF HeadMoves, sessionVars, stateVars, lifeVars
<1>5. CASE DelayPasses \/ StartCapture
  <2>1. session' = "live" /\ session = "live" /\ events' = events
    BY <1>5 DEF DelayPasses, StartCapture, CaptureDue, lifeVars
  <2> QED
    BY <1>2, <2>1
<1>6. CASE SessionLost \/ WatchFails
  <2>1. session' = "closing" /\ session # "idle" /\ events' = events
    BY <1>6 DEF SessionLost, WatchFails, SessionStop, Waiting
  <2> QED
    BY <1>2, <2>1
<1>7. CASE LogStep
  <2>1. session' \in {"live", "closing"} /\ session = "live" /\ events' = events
    BY <1>7 DEF LogStep, LogRemovedStops, LogSkipped, LogGarbled, LogApplied, LogStops, Waiting,
       SessionStop, lifeVars
  <2> QED
    BY <1>2, <2>1
<1>8. CASE Result
  <2>1. session' \in {"live", "closing"} /\ session = "live" /\ events' = events
    BY <1>8 DEF Result, ResultStale, ResultFailed, ResultInstalled, ResultContradicted, ResultReady,
       resultFrame, Waiting, SessionStop
  <2> QED
    BY <1>2, <2>1
<1>9. CASE TakeRecovery
  <2>1. session' = "live" /\ session = "live" /\ events' = events
    BY <1>9 DEF TakeRecovery, Waiting, lifeVars
  <2> QED
    BY <1>2, <2>1
<1>10. CASE RequestRecovery /\ UNCHANGED <<watch, progress>>
  BY <1>1, <1>10 DEF RequestRecovery, stateVars, lifeVars, envVars
<1>11. CASE Worker
  <2>1. UNCHANGED <<session, events>> /\ worker.phase # "none"
    BY <1>11 DEF Worker, WorkerCapture, WorkerResume, WorkerReads, WorkerVerify, WorkerFails,
       workerFrame, lifeVars
  <2>2. session \in {"live", "closing"}
    BY <1>r, <2>1 DEF Rests, ObsTypes, FlagTypes
  <2> QED
    BY <1>2, <2>1, <2>2
<1>12. CASE SessionStart /\ UNCHANGED <<watch, progress>>
  <2>1. /\ session' = "subscribing" /\ session = "idle" /\ wire' = wire /\ worker' = worker
        /\ watch' = watch /\ retained' = Nil /\ events' \in EntryPoints
    BY <1>12 DEF SessionStart, envVars
  <2> QED
    BY <1>r, <2>1 DEF Rests
<1>13. CASE SubscribeAndWatch
  <2>1. session' = "live" /\ session = "subscribing" /\ events' = events
    BY <1>13 DEF SubscribeAndWatch, SessionSubscribe
  <2> QED
    BY <1>2, <2>1
<1>14. CASE ExitJoined
  <2>1. session' = "idle" /\ wire' = <<>> /\ worker' = NoWorker /\ watch' = NoWatch
    BY <1>14 DEF ExitJoined, SessionExit
  <2> QED
    BY <2>1 DEF Rests, NoWorker
<1>15. CASE Watch
  <2>1. UNCHANGED <<session, events>> /\ watch.phase # "off"
    BY <1>15, WatchFrame DEF Watch, WatchRead, WatchHead, WatchCursor, WatchLogs, WatchRecheck,
       WatchHeadCheck, WatchUnavailable, WatchDecide, WatchConfirm, sessionVars, lifeVars
  <2>2. session \in {"live", "closing"}
    BY <1>r, <2>1 DEF Rests, NoWatch, ObsTypes, FlagTypes
  <2> QED
    BY <1>2, <2>1, <2>2
<1>16. CASE UNCHANGED obsVars
  BY <1>1, <1>16 DEF obsVars, vars, stateVars, lifeVars, envVars
<1> QED
  BY <1>3, <1>4, <1>5, <1>6, <1>7, <1>8, <1>9, <1>10, <1>11, <1>12, <1>13, <1>14, <1>15, <1>16
     DEF ObsNext, Others

LEMMA CallsStep == ObsTypes /\ Calls /\ [ObsNext]_obsVars => Calls'
<1> SUFFICES ASSUME ObsTypes, Calls, [ObsNext]_obsVars PROVE Calls'
  OBVIOUS
<1>1. budget'.duplicates <= MaxDuplicates
  BY DuplicatesLess DEF ObsTypes
<1> QED
  BY <1>1, RestsStep DEF Rests, Calls

\* An attempt of this epoch is the one the loop waits for; progress is kept for the next.
Attempts ==
    session = "live" =>
      /\ busy <=> worker.phase # "none"
      /\ busy => (capture.open <=> worker.epoch = epoch) /\ worker.epoch <= epoch
      /\ ~capture.open => capture.base = EmptyHash
      /\ capture.open /\ ~busy => capture.base # EmptyHash
      /\ ~events /\ busy => capture.open
      /\ ~events /\ retained = Nil /\ ~capture.open => replay = <<>>

LEMMA AttemptsSame ==
  ASSUME Attempts, session' # "live" \/ UNCHANGED <<busy, worker, capture, epoch, events, retained, replay, session>>
  PROVE  Attempts'
  BY DEF Attempts

LEMMA AttemptsQuiet ==
  ASSUME Attempts, [ObsNext]_obsVars, ~Worker, ~Result, ~StartCapture, ~SubscribeAndWatch,
         ~LogGarbled, ~LogApplied
  PROVE  Attempts'
<1>1. CASE NewBlock \/ HeadMoves \/ DelayPasses \/ SessionStart \/ SessionLost
  BY <1>1, AttemptsSame DEF NewBlock, HeadMoves, DelayPasses, SessionStart, SessionLost, SessionStop,
     sessionVars, stateVars, lifeVars, loopVars
<1>2. CASE LogStep
  BY <1>2, AttemptsSame DEF LogStep, LogRemovedStops, LogSkipped, LogStops, SessionStop,
     stateVars, lifeVars, loopVars
<1>3. CASE RequestRecovery \/ TakeRecovery \/ ExitJoined \/ WatchFails
  BY <1>3, AttemptsSame DEF RequestRecovery, TakeRecovery, ExitJoined, SessionExit, WatchFails,
     SessionStop, stateVars, lifeVars, loopVars
<1>4. CASE Watch \/ UNCHANGED obsVars
  <2>1. UNCHANGED <<busy, worker, capture, epoch, events, retained, replay, session>>
    BY <1>4, WatchFrame DEF sessionVars, stateVars, lifeVars, loopVars, obsVars, vars
  <2> QED
    BY <2>1, AttemptsSame
<1> QED
  BY <1>1, <1>2, <1>3, <1>4 DEF ObsNext, Others

LEMMA NilReceived == Nil.received = 0 /\ Nil.base = EmptyHash
  BY DEF Nil

\* Reset, with the capture closed.
LEMMA AttemptsReset ==
  ASSUME ~capture'.open, capture'.base = EmptyHash, replay' = <<>>, worker'.phase = "none", busy' = FALSE
  PROVE  Attempts'
  BY DEF Attempts

LEMMA AttemptsStep ==
  ObsTypes /\ Calls /\ OrderInv /\ Fits /\ Attempts /\ [ObsNext]_obsVars => Attempts'
<1> SUFFICES ASSUME ObsTypes, Calls, OrderInv, Fits, Attempts, [ObsNext]_obsVars PROVE Attempts'
  OBVIOUS
<1>t. /\ busy \in BOOLEAN /\ epoch \in Nat /\ worker.epoch \in Nat /\ capture.open \in BOOLEAN
      /\ events \in BOOLEAN /\ clock \in Nat
  BY DEF ObsTypes, FlagTypes, WorkTypes
<1>n. ~NoCapture.open /\ NoCapture.base = EmptyHash /\ NoWorker.phase = "none"
  BY DEF NoCapture, NoWorker
<1>1. CASE Worker
  <2>1. /\ worker.phase # "none" /\ worker'.phase # "none" /\ worker'.epoch = worker.epoch
        /\ UNCHANGED <<busy, capture, epoch, events, retained, replay, session>>
    <3>1. CaptureSound /\ WorkTypes /\ rpcHead \in 1..Height /\ Height \in Nat
      BY DEF ObsTypes, CaptureSound, ChainTypeOK, Height
    <3>2. WorkerMoves /\ UNCHANGED <<stateVars, lifeVars, loopVars>>
      BY <1>1, <3>1, WorkerIs
    <3> QED
      BY <3>2 DEF WorkerMoves, stateVars, lifeVars, loopVars
  <2> QED
    BY <2>1 DEF Attempts
<1>2. CASE StartCapture
  <2>1. /\ worker'.phase # "none" /\ worker'.epoch = epoch /\ capture'.open = TRUE
        /\ capture'.base = capture.base /\ busy' = TRUE
        /\ UNCHANGED <<epoch, events, retained, session>>
    BY <1>2, StartIs DEF ObsTypes, StartCapture, lifeVars, stateVars
  <2> QED
    BY <1>t, <2>1 DEF Attempts
<1>3. CASE SubscribeAndWatch
  <2>1. /\ capture' = NoCapture /\ replay' = <<>> /\ busy' = FALSE /\ worker' = worker
        /\ worker.phase = "none"
    BY <1>3 DEF SubscribeAndWatch, SessionSubscribe, Calls
  <2> QED
    BY <1>n, <2>1, AttemptsReset
<1>4. CASE ResultStale
  <2>1. /\ worker.phase = "done" /\ worker.epoch # epoch /\ worker' = NoWorker /\ busy' = FALSE
        /\ session = "live" /\ UNCHANGED <<capture, epoch, events, retained, replay>>
    BY <1>4 DEF ResultStale, ResultReady, Waiting, resultFrame, stateVars
  <2>2. busy /\ ~capture.open
    BY <1>t, <2>1 DEF Attempts
  <2> QED
    BY <1>n, <1>t, <2>1, <2>2 DEF Attempts
<1>5. CASE ResultFailed
  <2>1. /\ worker.phase = "done" /\ worker.epoch = epoch /\ worker' = NoWorker /\ busy' = FALSE
        /\ session = "live" /\ UNCHANGED <<epoch, events, retained, replay>>
        /\ capture'.base = worker.base /\ capture'.open = (worker.base # EmptyHash)
        /\ (retained = Nil /\ ~events => session' = "closing")
    BY <1>5, FailedIs DEF ResultFailed, SessionStop, stateVars
  <2>2. busy
    BY <1>t, <2>1 DEF Attempts
  <2>3. capture'.open \in BOOLEAN /\ (capture'.open <=> capture'.base # EmptyHash)
    BY <2>1
  <2> QED
    BY <1>n, <1>t, <2>1, <2>2, <2>3 DEF Attempts
<1>6. CASE ResultInstalled
  <2>1. Installs(worker.base)
    BY <1>6, InstallsIs
  <2>2. capture' = NoCapture /\ replay' = <<>> /\ worker' = NoWorker /\ busy' = FALSE
    BY <1>6 DEF ResultInstalled
  <2> QED
    BY <1>n, <2>2, AttemptsReset
<1>7. CASE ResultContradicted
  <2>1. worker' = NoWorker /\ busy' = FALSE /\ (session' = "closing" \/ (capture' = NoCapture /\ replay' = <<>>))
    BY <1>7 DEF ResultContradicted, SessionStop, Invalidate
  <2>2. CASE session' = "closing"
    BY <2>2, AttemptsSame
  <2>3. CASE capture' = NoCapture /\ replay' = <<>>
    BY <1>n, <2>1, <2>3, AttemptsReset
  <2> QED
    BY <2>1, <2>2, <2>3
<1>8. CASE LogGarbled
  <2>1. CASE events
    <3>1. /\ capture' = NoCapture /\ replay' = <<>> /\ epoch' = epoch + 1 /\ session = "live"
          /\ UNCHANGED <<busy, worker, events, session>>
      BY <1>8, <2>1 DEF LogGarbled, Invalidate, Waiting
    <3>2. worker.epoch <= epoch \/ ~busy
      BY <3>1 DEF Attempts
    <3>3. busy => worker.epoch # epoch'
      BY <1>t, <3>1, <3>2
    <3> QED
      BY <1>n, <1>t, <2>1, <3>1, <3>3 DEF Attempts
  <2>2. CASE ~events
    <3>1. session' = "closing"
      BY <1>8, <2>2 DEF LogGarbled, SessionStop
    <3> QED
      BY <3>1, AttemptsSame
  <2> QED
    BY <2>1, <2>2
<1>9. CASE LogApplied
  <2> DEFINE h == Head(wire).hash
  <2>1. Takes(h) /\ clock' = clock + 1 /\ (UNCHANGED <<retained, cursor, journal>> \/ PoolAdds(h))
    BY <1>9, TakesIs, PoolTakes
  <2> HIDE DEF h
  <2>2. session = "live" /\ UNCHANGED <<events, session, busy, worker>> /\ (~Buffers => replay' = replay)
    BY <2>1, Zenon DEF Takes
  <2>3. retained' = Nil => retained = Nil
    <3>1. clock + 1 # 0
      BY <1>t
    <3> QED
      BY <2>1, <3>1, NilReceived DEF PoolAdds
  <2>4. CASE UNCHANGED <<capture, epoch>>
    <3>1. ~events /\ retained' = Nil /\ ~capture.open => ~Buffers /\ replay = <<>>
      BY <1>t, <2>2, <2>3 DEF Attempts, Buffers
    <3> QED
      BY <2>2, <2>4, <3>1 DEF Attempts
  <2>5. CASE capture' = NoCapture /\ epoch' = epoch + 1 /\ ~UNCHANGED <<capture, epoch>>
    <3>1. events
      BY <2>1, <2>5, Zenon DEF Takes
    <3>2. busy => worker.epoch # epoch' /\ worker.epoch <= epoch'
      BY <1>t, <2>2, <2>5 DEF Attempts
    <3> QED
      BY <1>n, <1>t, <2>2, <2>5, <3>1, <3>2 DEF Attempts
  <2> QED
    BY <2>1, <2>4, <2>5 DEF Takes
<1> QED
  BY <1>1, <1>2, <1>3, <1>4, <1>5, <1>6, <1>7, <1>8, <1>9, AttemptsQuiet DEF Result

\* Without events a session receives every log: none between two that it holds is missing,
\* and none of a dropped block whose removal is not announced.
Closed(S, T) == \A x \in S : \A y \in 1..Len(block) : x < y /\ HasLog(y) => y \in T
Announced(x) == On(chain, block, x) \/ \E i \in 1..Len(wire) : wire[i].hash = x /\ wire[i].removed

Plain ==
    session = "live" /\ ~events =>
      /\ Closed(Coming, Coming)
      /\ capture.open => Closed(Range(replay), Range(replay) \cup Coming)
      /\ \A x \in Range(replay) \cup Coming : Announced(x)

LEMMA ComingLogs ==
  ASSUME StreamTypes
  PROVE  \A y \in Coming : y \in 1..Len(block) /\ HasLog(y)
<1> TAKE y \in Coming
<1>1. PICK i \in 1..Len(wire) : wire[i].hash = y /\ Pooled(wire[i])
  BY ComingIn DEF Coming, StreamTypes
<1> QED
  BY <1>1 DEF StreamTypes, Noticed, Pooled, HasLog

LEMMA AnnouncedTail ==
  ASSUME wire \in Seq(Logs), wire # <<>>, wire' = Tail(wire), UNCHANGED chainVars, NEW x,
         ~(wire[1].removed /\ wire[1].hash = x), Announced(x)
  PROVE  Announced(x)'
<1>1. UNCHANGED <<chain, block>>
  BY DEF chainVars
<1>2. CASE On(chain, block, x)
  BY <1>1, <1>2 DEF Announced
<1>3. CASE ~On(chain, block, x)
  <2>1. PICK i \in 1..Len(wire) : wire[i].hash = x /\ wire[i].removed
    BY <1>3 DEF Announced
  <2>2. i # 1
    BY <2>1
  <2>3. i - 1 \in 1..Len(Tail(wire)) /\ Tail(wire)[i - 1] = wire[i]
    BY <2>2
  <2> QED
    BY <2>1, <2>3 DEF Announced
<1> QED
  BY <1>2, <1>3

LEMMA PlainSame ==
  ASSUME Plain,
         \/ session' # "live" \/ events'
         \/ /\ UNCHANGED <<chainVars, wire, seen, events, session>>
            /\ replay' = replay \/ replay' = <<>>
            /\ capture'.open => replay' = <<>> \/ (capture.open /\ replay' = replay)
  PROVE  Plain'
<1>1. CASE session' # "live" \/ events'
  BY <1>1 DEF Plain
<1>2. CASE ~(session' # "live" \/ events')
  <2>1. UNCHANGED <<chain, block, wire, seen, events, session>> /\ session = "live" /\ ~events
    BY <1>2 DEF chainVars
  <2>2. Coming' = Coming /\ \A x : Announced(x)' <=> Announced(x)
    BY <2>1 DEF Coming, Announced
  <2>3. \A S, T : Closed(S, T)' <=> Closed(S, T)
    BY <2>1 DEF Closed, HasLog
  <2>4. Closed(Coming, Coming)'
    BY <2>1, <2>2 DEF Plain, Closed, HasLog
  <2>5. \A x \in Range(replay') \cup Coming' : Announced(x)'
    <3>1. Range(replay') \subseteq Range(replay)
      BY <1>2, OneRange
    <3> QED
      BY <2>1, <2>2, <3>1 DEF Plain
  <2>6. capture'.open => Closed(Range(replay), Range(replay) \cup Coming)'
    <3>1. CASE replay' = <<>>
      BY <3>1, OneRange DEF Closed
    <3>2. CASE capture'.open /\ capture.open /\ replay' = replay
      BY <2>1, <2>2, <3>2 DEF Plain, Closed, HasLog
    <3> QED
      BY <1>2, <3>1, <3>2
  <2> QED
    BY <2>4, <2>5, <2>6 DEF Plain
<1> QED
  BY <1>1, <1>2

LEMMA PlainSkipped ==
  ASSUME ObsTypes, OrderInv, Plain, LogSkipped
  PROVE  Plain'
<1> SUFFICES ASSUME session' = "live", ~events' PROVE Plain'
  BY DEF Plain
<1>1. /\ wire # <<>> /\ wire' = Tail(wire) /\ UNCHANGED <<chain, block, session, events, replay, capture>>
      /\ UNCHANGED chainVars
  BY DEF LogSkipped, lifeVars, chainVars
<1>2. wire \in Seq(Logs) /\ Noticed(block, wire) /\ Ordered(wire) /\ 1 \in 1..Len(wire)
  BY <1>1 DEF ObsTypes, StreamTypes
<1>3. session = "live" /\ ~events /\ ~wire[1].pool
  BY <1>1, HeadType DEF LogSkipped, ObsTypes
<1>4. Coming' = Coming
  <2>1. events' = FALSE /\ events = FALSE
    BY <1>1, <1>3, Zenon DEF ObsTypes, FlagTypes
  <2>2. ComingOf(Tail(wire), FALSE, seen') = RestOf(wire)
    BY <1>1, <1>2, WireTail
  <2>3. Coming = RestOf(wire)
    BY <1>3 DEF Coming, ComingOf, Pooled
  <2> QED
    BY <1>1, <2>1, <2>2, <2>3 DEF Coming
<1>5. \A x \in Range(replay) \cup Coming : Announced(x)'
  <2> TAKE x \in Range(replay) \cup Coming
  <2>1. HasLog(x) /\ Announced(x)
    BY <1>3, ComingLogs DEF OrderInv, Plain, ObsTypes
  <2>2. ~(wire[1].hash = x)
    BY <1>2, <1>3, <2>1 DEF Noticed, HasLog
  <2> QED
    BY <1>1, <1>2, <2>1, <2>2, AnnouncedTail
<1> QED
  BY <1>1, <1>3, <1>4, <1>5 DEF Plain, Closed, HasLog

LEMMA PlainTakes ==
  ASSUME ObsTypes, OrderInv, Attempts, Plain, NEW h, Takes(h)
  PROVE  Plain'
<1> SUFFICES ASSUME session' = "live", ~events' PROVE Plain'
  BY DEF Plain
<1>1. /\ wire # <<>> /\ UNCHANGED <<chain, block, session, events>> /\ session = "live"
      /\ UNCHANGED chainVars /\ wire[1].hash = h /\ ~wire[1].removed /\ h \in Coming
      /\ Coming' \subseteq Coming /\ \A y \in Coming' : h < y
  BY DEF Takes, chainVars, Pooled
<1>2. ~events /\ wire' = Tail(wire) /\ Coming \subseteq Coming' \cup {h}
  <2>1. ~events
    BY <1>1, Zenon
  <2> QED
    BY <2>1, Zenon DEF Takes
<1>t. h \in Nat /\ replay \in Seq(Hash) /\ h \in Hash /\ Len(block) \in Nat
  <2>1. Len(block) \in 1..MaxBlocks /\ MaxBlocks \in Nat /\ h \in 1..Len(block)
    BY ChainAssumption DEF ObsTypes, ChainGood, ChainTypeOK, Takes
  <2> QED
    BY <2>1 DEF ObsTypes, StreamTypes, Hash
<1>c. \A x \in Coming : x \in Nat
  BY <1>t, ComingLogs DEF ObsTypes
<1>3. Range(replay') \subseteq Range(replay) \cup {h}
  <2>1. replay' = replay \/ replay' = <<h>> \/ replay' = Append(replay, h)
    BY DEF Takes
  <2>2. Range(<<h>>) = {h} /\ Range(Append(replay, h)) = Range(replay) \cup {h}
    BY <1>t, OneRange, RangeAppend
  <2> QED
    BY <2>1, <2>2
<1>4. \A x \in Range(replay') \cup Coming' : Announced(x)'
  <2> TAKE x \in Range(replay') \cup Coming'
  <2>1. x \in Range(replay) \cup Coming
    BY <1>1, <1>3
  <2>2. Announced(x)
    BY <1>1, <1>2, <2>1 DEF Plain
  <2>3. wire \in Seq(Logs)
    BY DEF ObsTypes, StreamTypes
  <2> QED
    BY <1>1, <1>2, <2>2, <2>3, AnnouncedTail
<1>5. \A x \in Coming, y \in 1..Len(block) : x < y /\ HasLog(y) => y \in Coming
  BY <1>1, <1>2 DEF Plain, Closed
<1>6. \A x \in Coming', y \in 1..Len(block') : x < y /\ HasLog(y)' => y \in Coming'
  <2> SUFFICES ASSUME NEW x \in Coming', NEW y \in 1..Len(block), x < y, HasLog(y) PROVE y \in Coming'
    BY <1>1 DEF HasLog
  <2>1. y \in Coming /\ h < x /\ x \in Nat
    BY <1>1, <1>5, <1>c
  <2>2. y # h
    BY <1>t, <2>1
  <2> QED
    BY <1>2, <2>1, <2>2
<1>7. ASSUME capture'.open PROVE Closed(Range(replay), Range(replay) \cup Coming)'
  <2>1. capture' = capture /\ replay' = Append(replay, h)
    BY <1>7 DEF Takes
  <2>2. Range(replay') = Range(replay) \cup {h}
    BY <1>t, <2>1, RangeAppend
  <2>3. \A x \in Range(replay), y \in 1..Len(block) : x < y /\ HasLog(y) => y \in Range(replay) \cup Coming
    BY <1>1, <1>2, <1>7, <2>1 DEF Plain, Closed
  <2>4. \A x \in Range(replay'), y \in 1..Len(block) :
           x < y /\ HasLog(y) => y \in Range(replay') \cup Coming'
    BY <1>1, <1>2, <1>5, <2>2, <2>3
  <2> QED
    BY <1>1, <2>4 DEF Closed, HasLog
<1> QED
  BY <1>4, <1>6, <1>7 DEF Plain, Closed

LEMMA PlainGrows ==
  ASSUME ObsTypes, OrderInv, Plain, NewBlock
  PROVE  Plain'
<1> SUFFICES ASSUME session' = "live", ~events' PROVE Plain'
  BY DEF Plain
<1>1. UNCHANGED <<session, events, seen, replay, capture>>
  BY DEF NewBlock, sessionVars, lifeVars, loopVars
<1>2. session = "live" /\ events = FALSE /\ events' = FALSE
  BY <1>1, Zenon DEF ObsTypes, FlagTypes
<1>3. PICK n \in 1..Height, log \in Effects :
         /\ Grow(n, log)
         /\ wire' = IF Subscribed THEN wire \o Notices(n, Len(block) + 1, Child(n, log)) ELSE wire
  BY NewBlockIs DEF ObsTypes
<1>N. PICK N : N = Len(block)
  OBVIOUS
<1> DEFINE D == Notices(n, Len(block) + 1, Child(n, log))
<1>4. wire' = wire \o D
  BY <1>2, <1>3 DEF Subscribed
<1>5. /\ ChainGood' /\ Len(block') = N + 1 /\ N \in Nat
      /\ \A x \in 1..N : block'[x] = block[x]
      /\ block'[N + 1] = Child(n, log)
  BY <1>3, <1>N, Grown DEF ObsTypes
<1>6. /\ Announces(block', D, Len(block'))
      /\ \A x \in 1..N : On(chain, block, x) /\ ~On(chain', block', x) =>
            \E k \in 1..Len(D) : D[k].removed /\ D[k].hash = x
      /\ log # "none" => \E k \in 1..Len(D) : Pooled(D[k]) /\ D[k].hash = Len(block')
  BY <1>3, <1>N, NoticesIs DEF ObsTypes
<1>k. block'[N + 1].num = n + 1 /\ block'[N + 1].log = log
  BY <1>5 DEF Child
<1>o. On(chain', block', N + 1)
  <2>1. chain \in Seq(1..Len(block)) /\ n \in 1..Len(chain) /\ chain' = Append(SubSeq(chain, 1, n), Len(block) + 1)
    BY <1>3 DEF Grow, ObsTypes, ChainGood, ChainTypeOK, Height
  <2>3. Len(chain') = n + 1 /\ chain'[n + 1] = Len(block) + 1
    BY <2>1 DEF ObsTypes, ChainGood, ChainTypeOK
  <2> QED
    BY <1>N, <1>k, <2>3 DEF On
<1>w. wire \in Seq(Logs) /\ Noticed(block, wire) /\ Ordered(wire) /\ D \in Seq(Logs)
  BY <1>6 DEF ObsTypes, StreamTypes, Announces
<1> HIDE DEF D
<1>7. /\ Coming \subseteq Coming' /\ Coming' \subseteq Coming \cup {N + 1}
      /\ \A k \in 1..Len(D) : Pooled(D[k]) => D[k].hash \in Coming'
  <2>1. /\ \A e, s : ComingOf(wire \o D, e, s) \subseteq ComingOf(wire, e, s) \cup {Len(block')}
        /\ \A s : ComingOf(wire, FALSE, s) \subseteq ComingOf(wire \o D, FALSE, s)
        /\ \A k \in 1..Len(D) : \A s : Pooled(D[k]) => D[k].hash \in ComingOf(wire \o D, FALSE, s)
    BY <1>5, <1>6, <1>w, <1>N, WireGrows
  <2>2. Coming = ComingOf(wire, FALSE, seen) /\ Coming' = ComingOf(wire \o D, FALSE, seen)
    BY <1>1, <1>2, <1>4 DEF Coming
  <2> QED
    BY <1>5, <2>1, <2>2
<1>8. HasLog(N + 1)' => N + 1 \in Coming'
  BY <1>5, <1>6, <1>7, <1>k DEF HasLog
<1>9. \A x \in Range(replay) \cup Coming : x \in 1..N /\ Announced(x)
  BY <1>2, <1>N, ComingLogs DEF OrderInv, Plain, ObsTypes
<1>10. \A x \in Range(replay) \cup Coming : Announced(x)'
  <2> TAKE x \in Range(replay) \cup Coming
  <2>1. CASE On(chain', block', x)
    BY <2>1 DEF Announced
  <2>2. CASE ~On(chain', block', x) /\ On(chain, block, x)
    <3>1. PICK k \in 1..Len(D) : D[k].removed /\ D[k].hash = x
      BY <1>6, <1>9, <2>2
    <3>2. Len(wire) + k \in 1..Len(wire \o D) /\ (wire \o D)[Len(wire) + k] = D[k]
      BY <1>w
    <3> QED
      BY <1>4, <3>1, <3>2 DEF Announced
  <2>3. CASE ~On(chain, block, x)
    <3>1. PICK i \in 1..Len(wire) : wire[i].hash = x /\ wire[i].removed
      BY <1>9, <2>3 DEF Announced
    <3>2. i \in 1..Len(wire \o D) /\ (wire \o D)[i] = wire[i]
      BY <1>w
    <3> QED
      BY <1>4, <3>1, <3>2 DEF Announced
  <2> QED
    BY <2>1, <2>2, <2>3
<1>11. \A x \in Range(replay') \cup Coming' : Announced(x)'
  <2>1. Announced(N + 1)'
    BY <1>o DEF Announced
  <2> QED
    BY <1>1, <1>7, <1>10, <2>1
<1>12. ASSUME NEW S, NEW T, NEW U, S \subseteq 1..N, Closed(S, T), T \subseteq U, Coming' \subseteq U
       PROVE  \A x \in S : \A y \in 1..Len(block') : x < y /\ HasLog(y)' => y \in U
  <2> TAKE x \in S
  <2> TAKE y \in 1..Len(block')
  <2>1. CASE y \in 1..N
    BY <1>5, <1>12, <1>N, <2>1 DEF Closed, HasLog
  <2>2. CASE y = N + 1
    BY <1>8, <1>12, <2>2
  <2> QED
    BY <1>5, <2>1, <2>2
<1>13. Closed(Coming, Coming)'
  <2>1. \A x \in Coming : \A y \in 1..Len(block') : x < y /\ HasLog(y)' => y \in Coming'
    BY <1>2, <1>7, <1>9, <1>12 DEF Plain
  <2>2. \A y \in 1..Len(block') : ~(N + 1 < y)
    BY <1>5
  <2> QED
    BY <1>7, <2>1, <2>2 DEF Closed
<1>14. capture'.open => Closed(Range(replay), Range(replay) \cup Coming)'
  <2> SUFFICES ASSUME capture'.open PROVE Closed(Range(replay), Range(replay) \cup Coming)'
    OBVIOUS
  <2>1. Closed(Range(replay), Range(replay) \cup Coming)
    BY <1>1, <1>2 DEF Plain
  <2>2. \A x \in Range(replay) : \A y \in 1..Len(block') : x < y /\ HasLog(y)' => y \in Range(replay) \cup Coming'
    BY <1>7, <1>9, <1>12, <2>1
  <2> QED
    BY <1>1, <2>2 DEF Closed
<1> QED
  BY <1>11, <1>13, <1>14 DEF Plain

LEMMA PlainQuiet ==
  ASSUME ObsTypes, Calls, Attempts, Plain, [ObsNext]_obsVars, ~NewBlock, ~LogApplied, ~ResultInstalled,
         ~LogSkipped, ~SubscribeAndWatch
  PROVE  Plain'
<1>t. events \in BOOLEAN
  BY DEF ObsTypes, FlagTypes
<1>w. CaptureSound /\ WorkTypes
  BY DEF ObsTypes
<1>n. ~NoCapture.open
  BY DEF NoCapture
<1> DEFINE Frame == /\ UNCHANGED <<chainVars, wire, seen, events, session>>
                    /\ replay' = replay \/ replay' = <<>>
                    /\ capture'.open => replay' = <<>> \/ (capture.open /\ replay' = replay)
<1>f. ASSUME session' # "live" \/ events' \/ Frame PROVE Plain'
  BY <1>f, PlainSame
<1> HIDE DEF Frame
<1>1. CASE HeadMoves \/ DelayPasses \/ RequestRecovery \/ TakeRecovery
  <2>1. UNCHANGED <<chainVars, wire, seen, events, session, replay, capture>>
    BY <1>1 DEF HeadMoves, DelayPasses, RequestRecovery, TakeRecovery, envVars, sessionVars, lifeVars,
       loopVars
  <2> QED
    BY <1>f, <2>1 DEF Frame
<1>2. CASE SessionStart \/ SessionLost \/ ExitJoined \/ WatchFails \/ LogRemovedStops \/ LogStops
  <2>1. session' # "live"
    BY <1>2 DEF SessionStart, SessionLost, ExitJoined, SessionExit, WatchFails, LogRemovedStops,
       LogStops, SessionStop
  <2> QED
    BY <1>f, <2>1
<1>3. CASE LogGarbled
  <2>1. session' # "live" \/ events'
    <3>1. CASE events
      BY <1>3, <3>1 DEF LogGarbled
    <3>2. CASE ~events
      BY <1>3, <3>2 DEF LogGarbled, SessionStop
    <3> QED
      BY <3>1, <3>2
  <2> QED
    BY <1>f, <2>1
<1>4. CASE ResultContradicted
  <2>1. session' # "live" \/ events'
    <3>1. CASE events
      <4>1. events' = events
        BY <1>4 DEF ResultContradicted, resultFrame
      <4> QED
        BY <3>1, <4>1, Zenon
    <3>2. CASE ~events
      BY <1>4, <3>2 DEF ResultContradicted, SessionStop
    <3> QED
      BY <3>1, <3>2
  <2> QED
    BY <1>f, <2>1
<1>5. CASE Worker
  <2>1. UNCHANGED <<chainVars, wire, seen, events, session, replay, capture>>
    BY <1>5 DEF Worker, WorkerCapture, WorkerResume, WorkerReads, WorkerVerify, WorkerFails,
       workerFrame, envVars, lifeVars, loopVars
  <2> QED
    BY <1>f, <2>1 DEF Frame
<1>6. CASE ResultStale
  <2>1. UNCHANGED <<chainVars, wire, seen, events, session, replay, capture>>
    BY <1>6 DEF ResultStale, resultFrame, envVars
  <2> QED
    BY <1>f, <2>1 DEF Frame
<1>7. CASE ResultFailed
  <2>1. /\ UNCHANGED <<chainVars, wire, seen, events, replay>> /\ session' \in {session, "closing"}
        /\ worker.phase = "done" /\ worker.epoch = epoch /\ session = "live"
    BY <1>7, FailedIs DEF ResultFailed, SessionStop, envVars
  <2>2. capture.open
    BY <2>1 DEF Attempts
  <2> QED
    BY <1>f, <2>1, <2>2 DEF Frame
<1>8. CASE StartCapture
  <2>0. UNCHANGED <<chainVars, wire, seen, events, session>> /\ session = "live"
    BY <1>8, <1>w, StartIs DEF envVars, lifeVars
  <2>a. replay' = (IF ~capture.open /\ retained # Nil THEN <<>> ELSE replay)
    BY <1>8, <1>w, StartIs
  <2>1. /\ UNCHANGED <<chainVars, wire, seen, events, session>> /\ session = "live"
        /\ replay' = (IF ~capture.open /\ retained # Nil THEN <<>> ELSE replay)
    BY <2>0, <2>a
  <2>2. CASE events
    BY <1>f, <2>1, <2>2
  <2>3. CASE ~events
    <3>1. ~capture.open /\ retained = Nil => replay = <<>>
      BY <2>1, <2>3 DEF Attempts
    <3> QED
      BY <1>f, <2>1, <3>1 DEF Frame
  <2> QED
    BY <2>2, <2>3
<1>9. CASE Watch \/ UNCHANGED obsVars
  <2>1. UNCHANGED <<chainVars, wire, seen, events, session, replay, capture>>
    BY <1>9, WatchFrame DEF envVars, sessionVars, lifeVars, loopVars, obsVars, vars
  <2> QED
    BY <1>f, <2>1 DEF Frame
<1> QED
  BY <1>1, <1>2, <1>3, <1>4, <1>5, <1>6, <1>7, <1>8, <1>9 DEF ObsNext, Others, Result, LogStep

LEMMA PlainStep ==
  ObsTypes /\ Calls /\ OrderInv /\ Fits /\ Attempts /\ Plain /\ [ObsNext]_obsVars => Plain'
<1> SUFFICES ASSUME ObsTypes, Calls, OrderInv, Fits, Attempts, Plain, [ObsNext]_obsVars PROVE Plain'
  OBVIOUS
<1>1. CASE NewBlock
  BY <1>1, PlainGrows
<1>2. CASE LogApplied
  BY <1>2, TakesIs, PlainTakes
<1>3. CASE ResultInstalled
  <2>1. Installs(worker.base)
    BY <1>3, InstallsIs
  <2>2. UNCHANGED <<chainVars, wire, seen, events, session>> /\ replay' = <<>>
    BY <2>1 DEF Installs
  <2> QED
    BY <2>2, PlainSame
<1>4. CASE LogSkipped
  BY <1>4, PlainSkipped
<1>5. CASE SubscribeAndWatch
  <2>1. wire' = <<>> /\ replay' = <<>>
    BY <1>5 DEF SubscribeAndWatch, SessionSubscribe
  <2>a. RestOf(<<>>) = {}
    BY DEF RestOf
  <2>b. Coming' = {}
    BY <2>1, <2>a DEF Coming, ComingOf
  <2>2. Coming' = {} /\ Range(replay') = {}
    BY <2>1, <2>b, OneRange
  <2> QED
    BY <2>2 DEF Plain, Closed
<1> QED
  BY <1>1, <1>2, <1>3, <1>4, <1>5, PlainQuiet

LEMMA PlainInit == ObsInit => Plain /\ Attempts /\ OrderInv
<1> SUFFICES ASSUME ObsInit PROVE Plain /\ Attempts /\ OrderInv
  OBVIOUS
<1>1. session = "idle" /\ replay = <<>> /\ journal = <<>>
  BY DEF ObsInit, Init
<1> QED
  BY <1>1, OneRange DEF Plain, Attempts, OrderInv

\* What is known of a block stays when a new one comes.
LEMMA Fixed ==
  ASSUME ObsTypes, NEW n, NEW log, Brings(n, log), NEW x \in 1..Len(block)
  PROVE  /\ x \in 1..Len(block') /\ x < Len(block')
         /\ Num(x)' = Num(x) /\ (Swap(x)' <=> Swap(x)) /\ (HasLog(x)' <=> HasLog(x))
         /\ DeltasOf(x)' = DeltasOf(x) /\ PriceOf(x)' = PriceOf(x) /\ Branch(x)' = Branch(x)
         /\ HeaderIs(x)' => HeaderIs(x)
<1>1. /\ Len(block') = Len(block) + 1 /\ Len(block) \in Nat /\ block'[x] = block[x]
      /\ On(chain', block', x) => On(chain, block, x)
  BY DEF Brings
<1>2. x \in 1..Len(block') /\ x < Len(block')
  BY <1>1
<1>3. Num(x)' = Num(x) /\ (Swap(x)' <=> Swap(x)) /\ (HasLog(x)' <=> HasLog(x))
  BY <1>1 DEF Num, Swap, HasLog
<1>4. /\ block \in Seq(Blocks) /\ Tree(block) /\ block' \in Seq(Blocks) /\ Tree(block')
      /\ Len(block) <= Len(block') /\ \A y \in 1..Len(block) : block'[y] = block[y]
  BY <1>1 DEF Brings, ObsTypes, ChainGood, ChainTypeOK
<1>5. PriceAt(block', x) = PriceAt(block, x) /\ DeltasAt(block', x) = DeltasAt(block, x)
  BY <1>4, BranchKept
<1>6. Line(block', x) = Line(block, x)
  BY DEF Brings
<1>7. Branch(x) = Line(block, x) /\ Branch(x)' = Line(block', x)
  BY DEF Branch, Line
<1>8. DeltasOf(x) = DeltasAt(block, x) /\ DeltasOf(x)' = DeltasAt(block', x)
  BY <1>7 DEF DeltasOf, DeltasAt
<1>9. PriceOf(x) = PriceAt(block, x) /\ PriceOf(x)' = PriceAt(block', x)
  <2>1. PriceOf(x) = Newest(SwapsAt(block, x))
    BY <1>7 DEF PriceOf, SwapsAt
  <2>2. \A hs : Newest(hs) = NewestOf(block, hs)
    BY DEF Newest, NewestOf
  <2>3. PriceOf(x)' = NewestOf(block', SwapsAt(block', x))
    BY <1>7 DEF PriceOf, SwapsAt, Newest, NewestOf
  <2> QED
    BY <2>1, <2>2, <2>3 DEF PriceAt
<1>10. HeaderIs(x)' => HeaderIs(x)
  BY <1>1 DEF HeaderIs, On, Height
<1> QED
  BY <1>2, <1>3, <1>5, <1>6, <1>7, <1>8, <1>9, <1>10

LEMMA FixedSame ==
  ASSUME UNCHANGED chainVars, NEW x
  PROVE  /\ Num(x)' = Num(x) /\ (Swap(x)' <=> Swap(x)) /\ (HasLog(x)' <=> HasLog(x))
         /\ DeltasOf(x)' = DeltasOf(x) /\ PriceOf(x)' = PriceOf(x) /\ Branch(x)' = Branch(x)
         /\ HeaderIs(x)' <=> HeaderIs(x)
<1>1. block' = block /\ chain' = chain
  BY DEF chainVars
<1>2. Branch(x)' = Branch(x)
  BY <1>1 DEF Branch
<1> QED
  BY <1>1, <1>2 DEF Num, Swap, HasLog, DeltasOf, PriceOf, Newest, HeaderIs, Height

\* A buffer that stays in use is kept, except when a capture starts over.
Steady == session' = "live" /\ capture'.open /\ retained' # Nil =>
            replay' = <<>> \/ (session = "live" /\ capture.open /\ replay' = replay)

LEMMA SteadyIs ==
  ASSUME ObsTypes, Calls, Attempts, [ObsNext]_obsVars, ~NewBlock, ~LogApplied, ~ResultInstalled
  PROVE  Steady
<1>n. ~NoCapture.open
  BY DEF NoCapture
<1>w. CaptureSound /\ WorkTypes
  BY DEF ObsTypes
<1>1. CASE HeadMoves \/ DelayPasses \/ RequestRecovery \/ TakeRecovery
  BY <1>1 DEF Steady, HeadMoves, DelayPasses, RequestRecovery, TakeRecovery, sessionVars, lifeVars,
     loopVars
<1>2. CASE SessionStart \/ SessionLost \/ ExitJoined \/ WatchFails \/ LogRemovedStops \/ LogStops
  BY <1>2 DEF Steady, SessionStart, SessionLost, ExitJoined, SessionExit, WatchFails, LogRemovedStops,
     LogStops, SessionStop
<1>3. CASE LogGarbled
  BY <1>3, <1>n DEF Steady, LogGarbled, SessionStop, Invalidate
<1>4. CASE ResultContradicted
  BY <1>4, <1>n DEF Steady, ResultContradicted, SessionStop, Invalidate
<1>5. CASE Worker
  BY <1>5 DEF Steady, Worker, WorkerCapture, WorkerResume, WorkerReads, WorkerVerify, WorkerFails,
     workerFrame, lifeVars, loopVars
<1>6. CASE ResultStale
  BY <1>6 DEF Steady, ResultStale
<1>7. CASE ResultFailed
  <2>1. /\ UNCHANGED replay /\ worker.phase = "done" /\ worker.epoch = epoch /\ session = "live"
    BY <1>7 DEF ResultFailed, ResultReady, Waiting
  <2>2. capture.open
    BY <2>1 DEF Attempts
  <2> QED
    BY <2>1, <2>2 DEF Steady
<1>8. CASE StartCapture
  <2>1. replay' = (IF ~capture.open /\ retained # Nil THEN <<>> ELSE replay) /\ session = "live"
    BY <1>8, <1>w, StartIs
  <2>2. retained' = retained
    BY <1>8 DEF StartCapture, stateVars
  <2> QED
    BY <2>1, <2>2 DEF Steady
<1>9. CASE Watch \/ UNCHANGED obsVars
  <2>1. UNCHANGED <<session, replay, capture>>
    BY <1>9, WatchFrame DEF sessionVars, lifeVars, loopVars, obsVars, vars
  <2> QED
    BY <2>1 DEF Steady
<1>10. CASE SubscribeAndWatch
  BY <1>10 DEF Steady, SubscribeAndWatch, SessionSubscribe
<1>11. CASE LogSkipped
  BY <1>11 DEF Steady, LogSkipped, lifeVars
<1> QED
  BY <1>1, <1>2, <1>3, <1>4, <1>5, <1>6, <1>7, <1>8, <1>9, <1>10, <1>11
     DEF ObsNext, Others, Result, LogStep

-----------------------------------------------------------------------------
(* What is to be applied comes after the baseline. *)

Ahead(b) ==
    /\ \A y \in Coming : After(y, b)
    /\ session = "live" /\ capture.open => \A y \in Range(replay) : After(y, b)

LEMMA AfterSame ==
  ASSUME UNCHANGED chainVars, NEW x, NEW b
  PROVE  After(x, b)' <=> After(x, b)
  BY DEF After, Num, chainVars

LEMMA AheadGrows ==
  ASSUME ObsTypes, OrderInv, NEW n, NEW log, Brings(n, log), NEW b \in 1..Len(block), Ahead(b)
  PROVE  Ahead(b)'
<1>0. PICK N : N = Len(block')
  OBVIOUS
<1>1. UNCHANGED <<session, capture, replay>> /\ Coming' \subseteq Coming \cup {N}
  BY <1>0 DEF Brings, sessionVars, lifeVars, loopVars
<1>2. \A y \in Coming : y \in 1..Len(block)
  BY ComingLogs DEF ObsTypes
<1>3. \A y \in 1..Len(block) : After(y, b) => After(y, b)'
  BY Fixed DEF After
<1>4. After(N, b)'
  <2>1. b < N
    BY <1>0, Fixed
  <2>2. N \in Nat
    BY <1>0 DEF Brings
  <2> QED
    BY <2>1, <2>2 DEF After
<1>5. \A y \in Coming' : After(y, b)'
  BY <1>1, <1>2, <1>3, <1>4 DEF Ahead
<1>6. session' = "live" /\ capture'.open => \A y \in Range(replay') : After(y, b)'
  <2>1. \A y \in Range(replay) : y \in 1..Len(block)
    BY DEF OrderInv
  <2> QED
    BY <1>1, <1>3, <2>1 DEF Ahead
<1> QED
  BY <1>5, <1>6 DEF Ahead

LEMMA AheadTakes ==
  ASSUME ObsTypes, NEW h, Takes(h), NEW b, Ahead(b)
  PROVE  Ahead(b)'
<1>1. /\ Coming' \subseteq Coming /\ h \in Coming /\ UNCHANGED chainVars /\ UNCHANGED session
      /\ h \in 1..Len(block)
      /\ capture'.open => UNCHANGED <<capture, epoch>> /\ replay' = Append(replay, h)
  BY DEF Takes
<1>2. \A y : After(y, b)' <=> After(y, b)
  BY <1>1, AfterSame
<1>3. replay \in Seq(Hash) /\ h \in Hash
  <2>1. Len(block) \in 1..MaxBlocks /\ MaxBlocks \in Nat
    BY ChainAssumption DEF ObsTypes, ChainGood, ChainTypeOK
  <2> QED
    BY <1>1, <2>1 DEF ObsTypes, StreamTypes, Hash
<1>4. Range(Append(replay, h)) = Range(replay) \cup {h}
  BY <1>3, RangeAppend
<1>5. \A y \in Coming' : After(y, b)'
  BY <1>1, <1>2 DEF Ahead
<1>6. session' = "live" /\ capture'.open => \A y \in Range(replay') : After(y, b)'
  BY <1>1, <1>2, <1>4 DEF Ahead
<1> QED
  BY <1>5, <1>6 DEF Ahead

LEMMA AheadCalm ==
  ASSUME ObsTypes, NEW b, Ahead(b), Calm, Steady, retained' # Nil
  PROVE  Ahead(b)'
<1>1. Coming' \subseteq Coming /\ UNCHANGED chainVars
  BY DEF Calm
<1>2. \A y : After(y, b)' <=> After(y, b)
  BY <1>1, AfterSame
<1>3. Range(<<>>) = {}
  BY OneRange
<1>4. \A y \in Coming' : After(y, b)'
  BY <1>1, <1>2 DEF Ahead
<1>5. session' = "live" /\ capture'.open => \A y \in Range(replay') : After(y, b)'
  BY <1>2, <1>3 DEF Ahead, Steady
<1> QED
  BY <1>4, <1>5 DEF Ahead

LEMMA AheadInstalls ==
  ASSUME ObsTypes, NEW w, Installs(w), NEW b, \A y \in Coming : After(y, b)
  PROVE  Ahead(b)'
<1>1. Coming' = Coming /\ UNCHANGED chainVars /\ capture' = NoCapture
  BY DEF Installs
<1>2. \A y : After(y, b)' <=> After(y, b)
  BY <1>1, AfterSame
<1>3. ~capture'.open
  BY <1>1 DEF NoCapture
<1> QED
  BY <1>1, <1>2, <1>3 DEF Ahead

\* While something is retained.
LEMMA AheadStep ==
  ASSUME ObsTypes, Calls, OrderInv, Fits, Attempts, [ObsNext]_obsVars, retained' # Nil,
         NEW b \in 1..Len(block), Ahead(b)
  PROVE  Ahead(b)'
<1>1. ASSUME NEW n, NEW log, Brings(n, log) PROVE Ahead(b)'
  BY <1>1, AheadGrows
<1>2. CASE Takes(Head(wire).hash)
  BY <1>2, AheadTakes
<1>3. CASE Installs(worker.base)
  BY <1>3, AheadInstalls DEF Ahead
<1>4. CASE Calm /\ ~NewBlock /\ ~LogApplied /\ ~ResultInstalled
  BY <1>4, SteadyIs, AheadCalm
<1> QED
  BY <1>1, <1>2, <1>3, <1>4, Kinds5

-----------------------------------------------------------------------------
(* The deltas of the retained pool are those of its baseline and of its journal. *)

Deltas(J) == {x \in J : ~Swap(x)}

PoolHas(b) ==
    /\ b \in 1..Len(block) /\ retained.received \in 1..clock
    /\ retained.ticks = DeltasOf(b) \cup Deltas(Range(journal)) /\ retained.twice = {}
    /\ cursor.num = Num(IF journal = <<>> THEN b ELSE Last(journal))
    /\ \A x \in Range(journal) : ~Swap(x) => After(x, b)

PoolInv == retained # Nil => PoolHas(retained.base) /\ Ahead(retained.base)

\* A journal's last entry is one of it.
LEMMA LastIn ==
  ASSUME NEW S, NEW q \in Seq(S), q # <<>>
  PROVE  Last(q) \in Range(q)
<1>1. Len(q) \in 1..Len(q) /\ Last(q) = q[Len(q)]
  BY DEF Last
<1> QED
  BY <1>1 DEF Range

LEMMA PoolSame ==
  ASSUME ObsTypes, OrderInv, NEW b \in 1..Len(block), PoolHas(b),
         UNCHANGED <<retained, cursor, journal>>,
         clock' \in Nat, clock' >= clock,
         \A x \in 1..Len(block) : /\ x \in 1..Len(block') /\ Num(x)' = Num(x)
                                  /\ (Swap(x)' <=> Swap(x)) /\ DeltasOf(x)' = DeltasOf(x)
  PROVE  PoolHas(b)'
<1>1. \A x \in Range(journal) : x \in 1..Len(block)
  BY DEF OrderInv
<1>2. b \in 1..Len(block)
  BY DEF PoolHas
<1>3. PICK J : J = Range(journal)
  OBVIOUS
<1>4. Deltas(J)' = Deltas(J)
  BY <1>1, <1>3 DEF Deltas
<1>5. \A x \in J : (~Swap(x) => After(x, b)) => (~Swap(x) => After(x, b))'
  BY <1>1, <1>2, <1>3 DEF After
<1>6. PICK c : c = IF journal = <<>> THEN b ELSE Last(journal)
  OBVIOUS
<1>7. c \in 1..Len(block)
  <2>1. journal # <<>> => Last(journal) \in Range(journal)
    BY LastIn DEF ObsTypes, CacheTypes
  <2> QED
    BY <1>1, <1>2, <1>6, <2>1
<1>8. Num(c)' = Num(c) /\ DeltasOf(b)' = DeltasOf(b)
  BY <1>2, <1>7
<1>9. clock \in Nat /\ (retained.received \in 1..clock => retained'.received \in 1..clock')
  BY DEF ObsTypes, FlagTypes
<1>10. retained'.ticks = DeltasOf(b)' \cup Deltas(J)' /\ retained'.twice = {} /\ J = Range(journal')
  BY <1>3, <1>4, <1>8 DEF PoolHas
<1>11. cursor'.num = Num(c)' /\ c = IF journal' = <<>> THEN b ELSE Last(journal')
  BY <1>6, <1>8 DEF PoolHas
<1>12. \A x \in Range(journal') : (~Swap(x) => After(x, b))'
  BY <1>3, <1>5 DEF PoolHas
<1>13. b \in 1..Len(block') /\ retained'.received \in 1..clock'
  BY <1>2, <1>9 DEF PoolHas
<1> QED
  BY <1>10, <1>11, <1>12, <1>13 DEF PoolHas

\* What the journal becomes with a new log.
LEMMA JournalAdds ==
  ASSUME ObsTypes, OrderInv, Fits, NEW h, h \in 1..Len(block), h \in Coming,
         journal' = Remember(journal, h, JournalLimit)
  PROVE  /\ Range(journal') = Range(journal) \cup {h}
         /\ journal' # <<>> /\ Last(journal') = h
         /\ \A x \in Range(journal) : x < h
<1>1. h \in Hash /\ journal \in Seq(Hash)
  <2>1. Len(block) \in 1..MaxBlocks /\ MaxBlocks \in Nat
    BY ChainAssumption DEF ObsTypes, ChainGood, ChainTypeOK
  <2> QED
    BY <2>1 DEF ObsTypes, CacheTypes, Hash
<1>2. \A x \in Range(journal) : x < h
  BY DEF OrderInv
<1>3. Rising(journal) /\ Placed(journal) /\ JournalLimit >= MaxBlocks
  BY DEF OrderInv, Fits
<1> QED
  BY <1>1, <1>2, <1>3, RememberIs

LEMMA NotBefore ==
  ASSUME ObsTypes, NEW b \in 1..Len(block), NEW h, After(h, b)
  PROVE  h \notin Branch(b)
<1>1. block \in Seq(Blocks) /\ Tree(block)
  BY DEF ObsTypes, ChainGood, ChainTypeOK
<1>2. Branch(b) = Line(block, b)
  BY BranchLine
<1> SUFFICES ASSUME h \in Branch(b) PROVE FALSE
  OBVIOUS
<1>3. h \in 1..b /\ (h = b \/ block[h].num < block[b].num) /\ b \in Nat
  BY <1>1, <1>2, LineLower
<1>4. h \in 1..Len(block)
  BY <1>3
<1>5. block[h].num \in Nat /\ block[b].num \in Nat
  BY <1>1, <1>4, NumType
<1> QED
  BY <1>3, <1>5 DEF After, Num

LEMMA PoolGrows ==
  ASSUME ObsTypes, OrderInv, Fits, NEW h, Takes(h), PoolAdds(h), NEW b, PoolHas(b), Ahead(b),
         clock' = clock + 1, retained.base = b
  PROVE  PoolHas(b)'
<1>1. h \in 1..Len(block) /\ HasLog(h) /\ h \in Coming /\ UNCHANGED chainVars
  BY DEF Takes
<1>2. \A x : /\ Num(x)' = Num(x) /\ (Swap(x)' <=> Swap(x)) /\ DeltasOf(x)' = DeltasOf(x)
             /\ After(x, b)' <=> After(x, b)
  BY <1>1, FixedSame, AfterSame
<1>3. /\ Range(journal') = Range(journal) \cup {h} /\ journal' # <<>> /\ Last(journal') = h
      /\ \A x \in Range(journal) : x < h
  BY <1>1, JournalAdds DEF PoolAdds
<1>4. After(h, b) /\ b \in 1..Len(block)
  BY <1>1 DEF Ahead, PoolHas
<1>5. h \notin retained.ticks
  <2>1. h \notin DeltasOf(b)
    BY <1>4, NotBefore DEF DeltasOf
  <2>2. h \notin Range(journal)
    BY <1>1, <1>3
  <2> QED
    BY <2>1, <2>2 DEF PoolHas, Deltas
<1>6. PICK J, K : J = Range(journal) /\ K = Range(journal')
  OBVIOUS
<1>7. Deltas(K)' = IF Swap(h) THEN Deltas(J) ELSE Deltas(J) \cup {h}
  BY <1>2, <1>3, <1>6 DEF Deltas
<1>8. retained'.ticks = DeltasOf(b)' \cup Deltas(K)' /\ retained'.twice = {}
  <2>1. retained.ticks = DeltasOf(b) \cup Deltas(J) /\ retained.twice = {} /\ DeltasOf(b)' = DeltasOf(b)
    BY <1>2, <1>6 DEF PoolHas
  <2> QED
    BY <1>5, <1>7, <2>1 DEF PoolAdds
<1>9. retained'.received \in 1..clock'
  BY DEF PoolAdds, PoolHas, ObsTypes, FlagTypes
<1>10. cursor'.num = Num(h)'
  BY <1>2 DEF PoolAdds
<1>11. \A x \in K : (~Swap(x) => After(x, b))'
  BY <1>2, <1>3, <1>4, <1>6 DEF PoolHas
<1>12. b \in 1..Len(block')
  BY <1>1, <1>4 DEF chainVars
<1> QED
  BY <1>3, <1>6, <1>8, <1>9, <1>10, <1>11, <1>12 DEF PoolHas

LEMMA PoolInstalls ==
  ASSUME ObsTypes, OrderInv, NEW b, Installs(b)
  PROVE  PoolHas(b)' /\ Ahead(b)'
<1>1. /\ b \in 1..Len(block) /\ UNCHANGED chainVars /\ clock' = clock + 1 /\ PoolFollows(b)
      /\ \A y \in Coming : After(y, b)
  BY DEF Installs, After
<1>2. \A x : /\ Num(x)' = Num(x) /\ (Swap(x)' <=> Swap(x)) /\ DeltasOf(x)' = DeltasOf(x)
             /\ After(x, b)' <=> After(x, b)
  BY <1>1, FixedSame, AfterSame
<1>3. Ahead(b)'
  BY <1>1, AheadInstalls
<1>4. PICK K : K = Range(journal')
  OBVIOUS
<1>5. retained'.ticks = DeltasOf(b)' \cup Deltas(K)' /\ retained'.twice = {}
  <2>1. Deltas(K)' = {x \in K : ~Swap(x)}
    BY <1>2 DEF Deltas
  <2> QED
    BY <1>1, <1>2, <1>4, <2>1 DEF PoolFollows
<1>6. retained'.received \in 1..clock'
  BY <1>1 DEF PoolFollows, ObsTypes, FlagTypes
<1>7. PICK c : c = IF journal' = <<>> THEN b ELSE Last(journal')
  OBVIOUS
<1>8. cursor'.num = Num(c)'
  BY <1>1, <1>2, <1>7 DEF PoolFollows
<1>9. \A x \in K : (~Swap(x) => After(x, b))'
  <2>1. \A x \in K : Swap(x) \/ Num(x) > Num(b)
    BY <1>1, <1>4 DEF PoolFollows, Taken, Swap, Num
  <2> QED
    BY <1>2, <2>1 DEF After
<1>10. b \in 1..Len(block')
  BY <1>1 DEF chainVars
<1> QED
  BY <1>3, <1>4, <1>5, <1>6, <1>7, <1>8, <1>9, <1>10 DEF PoolHas

LEMMA PoolStep ==
  ObsTypes /\ Calls /\ OrderInv /\ Fits /\ Attempts /\ PoolInv /\ [ObsNext]_obsVars => PoolInv'
<1> SUFFICES ASSUME ObsTypes, Calls, OrderInv, Fits, Attempts, PoolInv, [ObsNext]_obsVars,
                    retained' # Nil
             PROVE  PoolHas(retained.base)' /\ Ahead(retained.base)'
  BY DEF PoolInv
<1>1. PICK b : b = retained'.base
  OBVIOUS
<1> SUFFICES PoolHas(b)' /\ Ahead(b)'
  BY <1>1
<1>2. CASE retained # Nil /\ retained.base = b
  <2>1. PoolHas(b) /\ Ahead(b) /\ b \in 1..Len(block)
    BY <1>2 DEF PoolInv, PoolHas
  <2>2. Ahead(b)'
    BY <2>1, AheadStep
  <2> SUFFICES PoolHas(b)'
    BY <2>2
  <2>3. clock \in Nat
    BY DEF ObsTypes, FlagTypes
  <2>4. ASSUME NEW n, NEW log, Brings(n, log) PROVE PoolHas(b)'
    <3>1. UNCHANGED <<retained, cursor, journal, clock>>
      BY <2>4 DEF Brings, sessionVars, stateVars
    <3>2. \A x \in 1..Len(block) : /\ x \in 1..Len(block') /\ Num(x)' = Num(x)
                                   /\ (Swap(x)' <=> Swap(x)) /\ DeltasOf(x)' = DeltasOf(x)
      BY <2>4, Fixed
    <3>3. clock' \in Nat /\ clock' >= clock
      BY <2>3, <3>1
    <3> QED
      BY <2>1, <3>1, <3>2, <3>3, PoolSame
  <2>5. CASE /\ Takes(Head(wire).hash) /\ clock' = clock + 1
             /\ UNCHANGED <<retained, cursor, journal>> \/ PoolAdds(Head(wire).hash)
    <3>1. UNCHANGED chainVars
      BY <2>5 DEF Takes
    <3>2. CASE UNCHANGED <<retained, cursor, journal>>
      <4>1. \A x \in 1..Len(block) : /\ x \in 1..Len(block') /\ Num(x)' = Num(x)
                                     /\ (Swap(x)' <=> Swap(x)) /\ DeltasOf(x)' = DeltasOf(x)
        BY <3>1, FixedSame DEF chainVars
      <4>2. clock' \in Nat /\ clock' >= clock
        BY <2>3, <2>5
      <4> QED
        BY <2>1, <3>2, <4>1, <4>2, PoolSame
    <3>3. CASE PoolAdds(Head(wire).hash)
      BY <1>2, <2>1, <2>5, <3>3, PoolGrows
    <3> QED
      BY <2>5, <3>2, <3>3
  <2>6. CASE Installs(worker.base)
    <3>1. worker.base = b
      BY <1>1, <2>6 DEF Installs, PoolFollows
    <3> QED
      BY <2>6, <3>1, PoolInstalls
  <2>7. CASE Calm
    <3>1. UNCHANGED <<retained, cursor, journal, clock, chainVars>>
      BY <2>7 DEF Calm
    <3>2. \A x \in 1..Len(block) : /\ x \in 1..Len(block') /\ Num(x)' = Num(x)
                                   /\ (Swap(x)' <=> Swap(x)) /\ DeltasOf(x)' = DeltasOf(x)
      BY <3>1, FixedSame DEF chainVars
    <3>3. clock' \in Nat /\ clock' >= clock
      BY <2>3, <3>1
    <3> QED
      BY <2>1, <3>1, <3>2, <3>3, PoolSame
  <2> QED
    BY <2>4, <2>5, <2>6, <2>7, Kinds5
<1>3. CASE ~(retained # Nil /\ retained.base = b)
  <2>1. retained' # retained
    BY <1>1, <1>3
  <2>2. ASSUME NEW n, NEW log PROVE ~Brings(n, log)
    BY <2>1 DEF Brings, sessionVars, stateVars
  <2>3. ~Calm
    BY <2>1 DEF Calm
  <2>4. ~PoolAdds(Head(wire).hash)
    BY <1>1, <1>3 DEF PoolAdds
  <2>5. Installs(worker.base)
    BY <2>1, <2>2, <2>3, <2>4, Kinds5
  <2>6. worker.base = b
    BY <1>1, <2>5 DEF Installs, PoolFollows
  <2> QED
    BY <2>5, <2>6, PoolInstalls
<1> QED
  BY <1>2, <1>3

-----------------------------------------------------------------------------
(* The price is that of the last swap of the journal, or of the baseline. *)

Swaps(J) == {x \in J : Swap(x)}

PriceHas(b) ==
    /\ HeaderIs(b) => \A x \in Range(journal) : Num(x) <= Num(b) => x \in Branch(b)
    /\ Swaps(Range(journal)) = {} => retained.price = PriceOf(b)
    /\ Swaps(Range(journal)) # {} =>
          /\ retained.price \in Range(journal) /\ Swap(retained.price)
          /\ \A s \in Range(journal) \cup Branch(b) : Swap(s) => s <= retained.price

PriceInv == retained # Nil /\ ~events => PriceHas(retained.base)

LEMMA PriceSame ==
  ASSUME ObsTypes, OrderInv, NEW b \in 1..Len(block), PriceHas(b), UNCHANGED <<retained, journal>>,
         \A x \in 1..Len(block) : /\ Num(x)' = Num(x) /\ (Swap(x)' <=> Swap(x))
                                  /\ PriceOf(x)' = PriceOf(x) /\ Branch(x)' = Branch(x)
                                  /\ HeaderIs(x)' => HeaderIs(x)
  PROVE  PriceHas(b)'
<1>1. \A x \in Range(journal) : x \in 1..Len(block)
  BY DEF OrderInv
<1>2. \A x \in Branch(b) : x \in 1..Len(block)
  BY BranchLine, BranchType DEF ObsTypes, ChainGood, ChainTypeOK
<1>3. PICK J, p : J = Range(journal) /\ p = retained.price
  OBVIOUS
<1>4. Swaps(J)' = Swaps(J)
  BY <1>1, <1>3 DEF Swaps
<1>5. J = Range(journal') /\ p = retained'.price
  BY <1>3
<1>6. HeaderIs(b)' => \A x \in J : (Num(x) <= Num(b) => x \in Branch(b))'
  BY <1>1, <1>3 DEF PriceHas
<1>7. (Swaps(J) = {})' => p = PriceOf(b)'
  BY <1>3, <1>4 DEF PriceHas
<1>8. ASSUME (Swaps(J) # {})'
      PROVE  /\ p \in J /\ Swap(p)'
             /\ \A s \in J \cup Branch(b)' : Swap(s)' => s <= p
  <2>1. /\ p \in J /\ Swap(p)
        /\ \A s \in J \cup Branch(b) : Swap(s) => s <= p
    BY <1>3, <1>4, <1>8 DEF PriceHas
  <2>2. Swap(p)'
    BY <1>1, <1>3, <2>1
  <2>3. \A s \in J \cup Branch(b)' : s \in 1..Len(block) /\ s \in J \cup Branch(b)
    BY <1>1, <1>2, <1>3
  <2> QED
    BY <2>1, <2>2, <2>3
<1> QED
  BY <1>5, <1>6, <1>7, <1>8 DEF PriceHas, Swaps, Num, Swap

\* A later log of a canonical baseline's chain is above it.
LEMMA AboveBase ==
  ASSUME ObsTypes, NEW b \in 1..Len(block), NEW h \in 1..Len(block), After(h, b), HeaderIs(b)
  PROVE  Num(h) > Num(b)
<1>1. On(chain, block, b) /\ ChainGood /\ block \in Seq(Blocks)
  BY HeaderOn DEF ObsTypes, ChainGood, ChainTypeOK
<1>2. b < h => Num(b) < Num(h)
  BY <1>1, Canonical2 DEF Num
<1>3. Num(b) \in Nat /\ Num(h) \in Nat /\ b \in Nat /\ h \in Nat
  BY <1>1, NumType DEF Num
<1> QED
  BY <1>2, <1>3 DEF After

LEMMA PriceGrows ==
  ASSUME ObsTypes, OrderInv, Fits, Plain, NEW h, Takes(h), PoolAdds(h), ~events,
         NEW b \in 1..Len(block), PriceHas(b), Ahead(b)
  PROVE  PriceHas(b)'
<1>1. h \in 1..Len(block) /\ HasLog(h) /\ h \in Coming /\ UNCHANGED chainVars /\ session = "live"
  BY DEF Takes
<1>2. \A x : /\ Num(x)' = Num(x) /\ (Swap(x)' <=> Swap(x)) /\ PriceOf(x)' = PriceOf(x)
             /\ Branch(x)' = Branch(x) /\ (HeaderIs(x)' <=> HeaderIs(x))
  BY <1>1, FixedSame
<1>3. Range(journal') = Range(journal) \cup {h} /\ \A x \in Range(journal) : x < h
  BY <1>1, JournalAdds DEF PoolAdds
<1>4. After(h, b)
  BY <1>1 DEF Ahead
<1>5. PICK J, K, p : J = Range(journal) /\ K = Range(journal') /\ p = retained'.price
  OBVIOUS
<1>6. Swaps(K)' = IF Swap(h) THEN Swaps(J) \cup {h} ELSE Swaps(J)
  BY <1>2, <1>3, <1>5 DEF Swaps
<1>7. HeaderIs(b) => \A x \in K : Num(x) <= Num(b) => x \in Branch(b)
  <2>1. HeaderIs(b) => Num(h) > Num(b)
    BY <1>1, <1>4, AboveBase
  <2>2. Num(h) \in Nat /\ Num(b) \in Nat
    BY <1>1, NumType DEF Num, ObsTypes, ChainGood, ChainTypeOK
  <2> QED
    BY <1>3, <1>5, <2>1, <2>2 DEF PriceHas
<1>8. Swaps(K)' = {} => p = PriceOf(b)'
  BY <1>2, <1>5, <1>6 DEF PriceHas, PoolAdds
<1>9. ASSUME Swaps(K)' # {}
      PROVE  p \in K /\ Swap(p) /\ \A s \in K \cup Branch(b) : Swap(s) => s <= p
  <2>b. \A s \in Branch(b) : s \in 1..b /\ s \in 1..Len(block) /\ b \in Nat
    BY BranchLine, LineLower DEF ObsTypes, ChainGood, ChainTypeOK
  <2>1. CASE Swap(h)
    <3>1. p = h
      BY <1>5, <2>1 DEF PoolAdds
    <3>2. \A s \in J : s <= h
      BY <1>1, <1>3, <1>5 DEF OrderInv
    <3>3. ASSUME NEW s \in Branch(b), Swap(s), ~(s <= h) PROVE FALSE
      <4>1. HasLog(s) /\ h < s /\ s \in 1..Len(block)
        BY <1>1, <2>b, <3>3 DEF HasLog, Swap
      <4>2. s \in Coming
        BY <1>1, <4>1 DEF Plain, Closed
      <4>3. After(s, b)
        BY <4>2 DEF Ahead
      <4> QED
        BY <3>3, <4>3, NotBefore
    <3>4. h <= h
      BY <1>1
    <3> QED
      BY <1>3, <1>5, <2>1, <3>1, <3>2, <3>3, <3>4
  <2>2. CASE ~Swap(h)
    <3>1. p = retained.price /\ Swaps(J) # {}
      BY <1>5, <1>6, <1>9, <2>2 DEF PoolAdds
    <3>2. p \in J /\ Swap(p) /\ \A s \in J \cup Branch(b) : Swap(s) => s <= p
      BY <1>5, <3>1 DEF PriceHas
    <3> QED
      BY <1>3, <1>5, <2>2, <3>2
  <2> QED
    BY <2>1, <2>2
<1>10. HeaderIs(b)' => \A x \in K : (Num(x) <= Num(b) => x \in Branch(b))'
  BY <1>2, <1>7
<1>11. (Swaps(K) # {})' => p \in K /\ Swap(p)' /\ \A s \in K \cup Branch(b)' : Swap(s)' => s <= p
  BY <1>2, <1>9
<1>12. K = Range(journal') /\ p = retained'.price
  BY <1>5
<1> QED
  BY <1>8, <1>10, <1>11, <1>12 DEF PriceHas, Swaps, Num, Swap

LEMMA PriceInstalls ==
  ASSUME ObsTypes, OrderInv, Attempts, Plain, ~events, NEW b, Installs(b)
  PROVE  PriceHas(b)'
<1>1. /\ b \in 1..Len(block) /\ UNCHANGED chainVars /\ PoolFollows(b) /\ session = "live"
      /\ worker.phase = "done" /\ worker.epoch = epoch
      /\ (\A i \in 1..Len(wire) : wire[i].num > Num(b)) /\ \A y \in Coming : After(y, b)
  BY DEF Installs, After
<1>2. \A x : /\ Num(x)' = Num(x) /\ (Swap(x)' <=> Swap(x)) /\ PriceOf(x)' = PriceOf(x)
             /\ Branch(x)' = Branch(x) /\ (HeaderIs(x)' <=> HeaderIs(x))
  BY <1>1, FixedSame
<1>3. PICK K, p : K = Range(journal') /\ p = retained'.price
  OBVIOUS
<1>4. K \subseteq Range(replay) /\ \A x \in Range(replay) : Swap(x) => x \in K
  BY <1>1, <1>3 DEF PoolFollows, Taken, Swap
<1>5. \A x \in K : x \in 1..Len(block)
  BY <1>4 DEF OrderInv
<1>6. ASSUME HeaderIs(b), NEW x \in K, Num(x) <= Num(b) PROVE x \in Branch(b)
  <2>1. Announced(x)
    BY <1>1, <1>4 DEF Plain
  <2>2. \A i \in 1..Len(wire) : wire[i].hash # x
    <3> TAKE i \in 1..Len(wire)
    <3>1. wire[i].num = block[wire[i].hash].num /\ wire[i].num > Num(b)
      BY <1>1 DEF ObsTypes, StreamTypes, Noticed
    <3>2. Num(x) \in Nat /\ Num(b) \in Nat
      BY <1>1, <1>5, NumType DEF Num, ObsTypes, ChainGood, ChainTypeOK
    <3> QED
      BY <1>6, <3>1, <3>2 DEF Num
  <2>3. On(chain, block, x) /\ On(chain, block, b)
    BY <1>6, <2>1, <2>2, HeaderOn DEF Announced
  <2>4. x \in Line(block, b)
    BY <1>1, <1>5, <1>6, <2>3, Canonical2 DEF ObsTypes, Num
  <2> QED
    BY <2>4, BranchLine
<1>7. Swaps(K)' = {} => p = PriceOf(b)'
  BY <1>1, <1>2, <1>3 DEF PoolFollows, Swaps
<1>8. ASSUME Swaps(K)' # {}
      PROVE  p \in K /\ Swap(p) /\ \A s \in K \cup Branch(b) : Swap(s) => s <= p
  <2>1. \E x \in Range(journal') : Swap(x)
    BY <1>2, <1>3, <1>8 DEF Swaps
  <2>2. p \in K /\ Swap(p) /\ \A s \in K : Swap(s) => s <= p
    BY <1>1, <1>3, <2>1 DEF PoolFollows
  <2>b. \A s \in Branch(b) : s \in 1..Len(block)
    BY <1>1, BranchLine, BranchType DEF ObsTypes, ChainGood, ChainTypeOK
  <2>3. ASSUME NEW s \in Branch(b), Swap(s), ~(s <= p) PROVE FALSE
    <3>1. HasLog(s) /\ p < s /\ s \in 1..Len(block)
      BY <1>5, <2>b, <2>2, <2>3 DEF HasLog, Swap
    <3>2. capture.open
      BY <1>1 DEF Attempts
    <3>3. s \in Range(replay) \cup Coming
      BY <1>1, <1>4, <2>2, <3>1, <3>2 DEF Plain, Closed
    <3>4. s \notin Coming
      BY <1>1, <2>3, NotBefore
    <3>5. s \in K
      BY <1>4, <2>3, <3>3, <3>4
    <3> QED
      BY <2>2, <2>3, <3>5
  <2> QED
    BY <2>2, <2>3
<1>9. HeaderIs(b)' => \A x \in K : (Num(x) <= Num(b) => x \in Branch(b))'
  BY <1>2, <1>6
<1>10. (Swaps(K) # {})' => p \in K /\ Swap(p)' /\ \A s \in K \cup Branch(b)' : Swap(s)' => s <= p
  BY <1>2, <1>8
<1> QED
  BY <1>3, <1>7, <1>9, <1>10 DEF PriceHas, Swaps, Num, Swap

LEMMA PriceStep ==
  ObsTypes /\ Calls /\ OrderInv /\ Fits /\ Attempts /\ Plain /\ PoolInv /\ PriceInv
    /\ [ObsNext]_obsVars => PriceInv'
<1> SUFFICES ASSUME ObsTypes, Calls, OrderInv, Fits, Attempts, Plain, PoolInv, PriceInv,
                    [ObsNext]_obsVars, retained' # Nil, ~events'
             PROVE  PriceHas(retained.base)'
  BY DEF PriceInv
<1>1. PICK b : b = retained'.base
  OBVIOUS
<1> SUFFICES PriceHas(b)'
  BY <1>1
<1>2. ASSUME NEW n, NEW log, Brings(n, log) PROVE PriceHas(b)'
  <2>1. UNCHANGED <<retained, journal>> /\ ~events
    BY <1>2 DEF Brings, sessionVars, stateVars, lifeVars
  <2>2. PriceHas(b) /\ b \in 1..Len(block)
    BY <1>1, <2>1 DEF PriceInv, PoolInv, PoolHas
  <2> QED
    BY <1>2, <2>1, <2>2, Fixed, PriceSame
<1>3. CASE /\ Takes(Head(wire).hash)
           /\ UNCHANGED <<retained, cursor, journal>> \/ PoolAdds(Head(wire).hash)
  <2>1. UNCHANGED chainVars /\ ~events
    BY <1>3 DEF Takes
  <2>2. retained # Nil /\ retained.base = b
    BY <1>1, <1>3 DEF PoolAdds
  <2>3. PriceHas(b) /\ Ahead(b) /\ b \in 1..Len(block)
    BY <2>1, <2>2 DEF PriceInv, PoolInv, PoolHas
  <2>4. CASE UNCHANGED <<retained, cursor, journal>>
    BY <2>1, <2>3, <2>4, FixedSame, PriceSame
  <2>5. CASE PoolAdds(Head(wire).hash)
    BY <1>3, <2>1, <2>3, <2>5, PriceGrows
  <2> QED
    BY <1>3, <2>4, <2>5
<1>4. CASE Installs(worker.base)
  <2>1. worker.base = b /\ ~events
    BY <1>1, <1>4 DEF Installs, PoolFollows
  <2> QED
    BY <1>4, <2>1, PriceInstalls
<1>5. CASE Calm
  <2>1. UNCHANGED <<retained, journal, chainVars>> /\ ~events
    BY <1>5 DEF Calm
  <2>2. PriceHas(b) /\ b \in 1..Len(block)
    BY <1>1, <2>1 DEF PriceInv, PoolInv, PoolHas
  <2> QED
    BY <2>1, <2>2, FixedSame, PriceSame
<1> QED
  BY <1>2, <1>3, <1>4, <1>5, Kinds5

-----------------------------------------------------------------------------
(* What a running capture may leave out is at most at its block. *)

\* The block of the capture has number m, or at least m while it is not known yet.
Asks(m) ==
    /\ session = "live" /\ capture.open
    /\ \/ busy /\ worker.phase = "capture" /\ m = worker.floor
       \/ busy /\ worker.phase # "capture" /\ worker.base # EmptyHash /\ m = Num(worker.base)
       \/ ~busy /\ capture.base # EmptyHash /\ m = Num(capture.base)

AsksOn(m) == \E k \in Nat : Asks(k) /\ k <= m /\ Range(replay) \subseteq Range(replay')

\* A capture goes on, and to no lower block, or starts from the cursor.
Fetching ==
    \A m \in Nat : Asks(m)' /\ retained' # Nil =>
       /\ retained # Nil
       /\ AsksOn(m) \/ (replay' = <<>> /\ m = cursor.num /\ journal' = journal)

\* What is known of blocks and stays.
Stable ==
    \A x \in 1..Len(block) :
       /\ x \in 1..Len(block')
       /\ Num(x)' = Num(x) /\ (Swap(x)' <=> Swap(x)) /\ (HasLog(x)' <=> HasLog(x))
       /\ DeltasOf(x)' = DeltasOf(x) /\ PriceOf(x)' = PriceOf(x) /\ Branch(x)' = Branch(x)
       /\ HeaderIs(x)' => HeaderIs(x)

LEMMA StableIs ==
  ASSUME ObsTypes, Calls, OrderInv, Fits, [ObsNext]_obsVars
  PROVE  Stable
<1>1. ASSUME NEW n, NEW log, Brings(n, log) PROVE Stable
  BY <1>1, Fixed DEF Stable
<1>2. CASE UNCHANGED chainVars
  <2>1. block' = block
    BY <1>2 DEF chainVars
  <2> QED
    BY <1>2, <2>1, FixedSame DEF Stable
<1> QED
  BY <1>1, <1>2, Kinds5 DEF Takes, Installs, Calm

LEMMA BaseNum ==
  ASSUME ObsTypes
  PROVE  \A x \in 1..Len(block) : Num(x) \in Nat /\ Num(x) >= 1
  BY NumType DEF ObsTypes, ChainGood, ChainTypeOK, Num

LEMMA AsksSame ==
  ASSUME ObsTypes, Stable, UNCHANGED <<session, capture, busy, worker>>, NEW m \in Nat, Asks(m)',
         Range(replay) \subseteq Range(replay')
  PROVE  AsksOn(m)
<1>1. worker.base # EmptyHash => Num(worker.base) = Num(worker.base)'
  <2> SUFFICES ASSUME worker.base # EmptyHash PROVE Num(worker.base) = Num(worker.base)'
    OBVIOUS
  <2>1. PICK b : b = worker.base
    OBVIOUS
  <2>2. b \in 1..Len(block) /\ b = worker'.base
    BY <2>1 DEF ObsTypes, CaptureSound, EmptyHash
  <2> QED
    BY <2>1, <2>2 DEF Stable, Num
<1>2. capture.base # EmptyHash => Num(capture.base) = Num(capture.base)'
  <2> SUFFICES ASSUME capture.base # EmptyHash PROVE Num(capture.base) = Num(capture.base)'
    OBVIOUS
  <2>1. PICK b : b = capture.base
    OBVIOUS
  <2>2. b \in 1..Len(block) /\ b = capture'.base
    BY <2>1 DEF ObsTypes, CaptureSound, EmptyHash
  <2> QED
    BY <2>1, <2>2 DEF Stable, Num
<1>3. Asks(m)
  BY <1>1, <1>2 DEF Asks
<1> QED
  BY <1>3 DEF AsksOn

LEMMA AsksWorker ==
  ASSUME ObsTypes, Attempts, Worker, NEW m \in Nat, Asks(m)'
  PROVE  AsksOn(m)
<1>0. CaptureSound /\ WorkTypes /\ rpcHead \in 1..Height /\ Height \in Nat
  BY DEF ObsTypes, CaptureSound, ChainTypeOK, Height
<1>1. WorkerMoves /\ UNCHANGED <<envVars, stateVars, recovery, seen, lifeVars, loopVars, clock>>
  BY <1>0, WorkerIs
<1>2. UNCHANGED <<chainVars, session, capture, busy, replay>> /\ block' = block
  BY <1>1 DEF envVars, chainVars, lifeVars, loopVars
<1>3. busy /\ session = "live" /\ capture.open
  <2>1. worker.phase # "none"
    BY <1>1 DEF WorkerMoves
  <2> QED
    BY <1>2, <2>1 DEF Asks, Attempts
<1>4. worker'.phase # "capture"
  BY <1>1 DEF WorkerMoves
<1>5. worker'.base # EmptyHash /\ m = block[worker'.base].num
  BY <1>2, <1>3, <1>4 DEF Asks, Num
<1>6. CASE worker'.base = worker.base /\ worker.phase # "capture"
  <2>1. Asks(m)
    BY <1>3, <1>5, <1>6 DEF Asks, Num
  <2> QED
    BY <1>2, <2>1 DEF AsksOn
<1>7. CASE worker.phase = "capture" /\ \E n \in 1..Height : n >= worker.floor /\ worker'.base = chain[n]
  <2>1. PICK n \in 1..Height : n >= worker.floor /\ worker'.base = chain[n]
    BY <1>7
  <2>2. block[chain[n]].num = n
    BY DEF ObsTypes, ChainGood, Chained, Height
  <2>3. worker.floor <= m /\ worker.floor \in Nat
    BY <1>0, <1>5, <2>1, <2>2 DEF WorkTypes
  <2>4. Asks(worker.floor)
    BY <1>3, <1>7 DEF Asks
  <2> QED
    BY <1>2, <2>3, <2>4 DEF AsksOn
<1> QED
  BY <1>1, <1>5, <1>6, <1>7 DEF WorkerMoves, Based

LEMMA AsksFailed ==
  ASSUME ObsTypes, Attempts, ResultFailed, NEW m \in Nat, Asks(m)'
  PROVE  AsksOn(m)
<1>1. /\ worker.phase = "done" /\ worker.epoch = epoch /\ session = "live" /\ ~busy'
      /\ capture'.base = worker.base /\ capture'.open = (worker.base # EmptyHash)
      /\ UNCHANGED <<envVars, replay>>
  BY FailedIs
<1>2. block' = block
  BY <1>1 DEF envVars, chainVars
<1>3. busy /\ capture.open
  BY <1>1 DEF Attempts
<1>4. worker.base # EmptyHash /\ m = Num(worker.base)
  BY <1>1, <1>2 DEF Asks, Num
<1>5. Asks(m)
  BY <1>1, <1>3, <1>4 DEF Asks
<1> QED
  BY <1>1, <1>5 DEF AsksOn

LEMMA AsksStart ==
  ASSUME ObsTypes, Attempts, StartCapture, NEW m \in Nat, Asks(m)', retained' # Nil
  PROVE  AsksOn(m) \/ (replay' = <<>> /\ m = cursor.num /\ journal' = journal)
<1>0. CaptureSound /\ WorkTypes
  BY DEF ObsTypes
<1>1. /\ worker'.phase = (IF capture.base = EmptyHash THEN "capture" ELSE "resume")
      /\ worker'.base = capture.base
      /\ worker'.floor = (IF ~capture.open /\ retained # Nil THEN cursor.num ELSE recoveryFloor)
      /\ replay' = (IF ~capture.open /\ retained # Nil THEN <<>> ELSE replay)
      /\ session = "live" /\ ~busy
      /\ UNCHANGED <<envVars, stateVars>>
  BY <1>0, StartIs
<1>2. block' = block /\ retained' = retained /\ journal' = journal
  BY <1>1 DEF envVars, chainVars, stateVars
<1>3. busy'
  BY DEF StartCapture
<1>4. CASE capture.open
  <2>1. capture.base # EmptyHash
    BY <1>1, <1>4 DEF Attempts
  <2>2. m = Num(capture.base)
    BY <1>1, <1>2, <1>3, <2>1 DEF Asks, Num
  <2>3. Asks(m) /\ replay' = replay
    BY <1>1, <1>4, <2>1, <2>2 DEF Asks
  <2> QED
    BY <2>3 DEF AsksOn
<1>5. CASE ~capture.open
  <2>1. capture.base = EmptyHash
    BY <1>1, <1>5 DEF Attempts
  <2> QED
    BY <1>1, <1>2, <1>3, <1>5, <2>1 DEF Asks
<1> QED
  BY <1>4, <1>5

LEMMA FetchingCalm ==
  ASSUME ObsTypes, Calls, Attempts, Stable, [ObsNext]_obsVars, Calm,
         ~NewBlock, ~LogApplied, ~ResultInstalled
  PROVE  Fetching
<1>r. retained' # Nil => retained # Nil
  BY DEF Calm
<1> SUFFICES ASSUME NEW m \in Nat, Asks(m)', retained' # Nil
             PROVE  AsksOn(m) \/ (replay' = <<>> /\ m = cursor.num /\ journal' = journal)
  BY <1>r DEF Fetching
<1>n. ~NoCapture.open
  BY DEF NoCapture
<1>a. session' = "live" /\ capture'.open
  BY DEF Asks
<1>f. ASSUME UNCHANGED <<session, capture, busy, worker, replay>> PROVE AsksOn(m)
  BY <1>f, AsksSame
<1>1. CASE HeadMoves \/ DelayPasses \/ RequestRecovery \/ TakeRecovery
  BY <1>1, <1>f DEF HeadMoves, DelayPasses, RequestRecovery, TakeRecovery, sessionVars, lifeVars,
     loopVars
<1>2. CASE SessionStart \/ SessionLost \/ ExitJoined \/ WatchFails \/ LogRemovedStops \/ LogStops
  BY <1>2, <1>a DEF SessionStart, SessionLost, ExitJoined, SessionExit, WatchFails, LogRemovedStops,
     LogStops, SessionStop
<1>3. CASE LogGarbled
  BY <1>3, <1>a, <1>n DEF LogGarbled, SessionStop, Invalidate
<1>4. CASE ResultContradicted
  BY <1>4, <1>a, <1>n DEF ResultContradicted, SessionStop, Invalidate
<1>5. CASE Worker
  BY <1>5, AsksWorker
<1>6. CASE ResultStale
  <2>1. /\ UNCHANGED <<session, capture, epoch>> /\ session = "live" /\ worker.phase = "done"
        /\ worker.epoch # epoch
    BY <1>6 DEF ResultStale, ResultReady, Waiting
  <2>2. ~capture.open
    BY <2>1 DEF Attempts
  <2> QED
    BY <1>a, <2>1, <2>2
<1>7. CASE ResultFailed
  BY <1>7, AsksFailed
<1>8. CASE StartCapture
  BY <1>8, AsksStart
<1>9. CASE Watch \/ UNCHANGED obsVars
  <2>1. UNCHANGED <<session, capture, busy, worker, replay>>
    BY <1>9, WatchFrame DEF sessionVars, lifeVars, loopVars, obsVars, vars
  <2> QED
    BY <1>f, <2>1
<1>10. CASE SubscribeAndWatch
  BY <1>10, <1>a, <1>n DEF SubscribeAndWatch, SessionSubscribe
<1>11. CASE LogSkipped
  BY <1>11, <1>f DEF LogSkipped, lifeVars
<1> QED
  BY <1>1, <1>2, <1>3, <1>4, <1>5, <1>6, <1>7, <1>8, <1>9, <1>10, <1>11
     DEF ObsNext, Others, Result, LogStep

LEMMA FetchingIs ==
  ASSUME ObsTypes, Calls, OrderInv, Fits, Attempts, [ObsNext]_obsVars
  PROVE  Fetching
<1>s. Stable
  BY StableIs
<1>n. ~NoCapture.open
  BY DEF NoCapture
<1>1. ASSUME NEW n, NEW log, Brings(n, log) PROVE Fetching
  <2>1. UNCHANGED <<session, capture, busy, worker, replay, retained>>
    BY <1>1 DEF Brings, sessionVars, lifeVars, loopVars, stateVars
  <2> QED
    BY <1>s, <2>1, AsksSame DEF Fetching
<1>2. CASE /\ Takes(Head(wire).hash)
           /\ UNCHANGED <<retained, cursor, journal>> \/ PoolAdds(Head(wire).hash)
  <2> SUFFICES ASSUME NEW m \in Nat, Asks(m)', retained' # Nil
               PROVE  retained # Nil /\ AsksOn(m)
    BY DEF Fetching
  <2>1. retained # Nil
    BY <1>2 DEF PoolAdds
  <2>2. capture'.open
    BY DEF Asks
  <2>3. UNCHANGED <<session, capture, busy, worker>> /\ replay' = Append(replay, Head(wire).hash)
    BY <1>2, <2>2 DEF Takes
  <2>4. replay \in Seq(Hash) /\ Head(wire).hash \in Hash
    <3>1. Head(wire).hash \in 1..Len(block) /\ Len(block) \in 1..MaxBlocks /\ MaxBlocks \in Nat
      BY <1>2, ChainAssumption DEF Takes, ObsTypes, ChainGood, ChainTypeOK
    <3> QED
      BY <3>1 DEF ObsTypes, StreamTypes, Hash
  <2>5. Range(replay) \subseteq Range(replay')
    BY <2>3, <2>4, RangeAppend
  <2> QED
    BY <1>s, <2>1, <2>3, <2>5, AsksSame
<1>3. CASE Installs(worker.base)
  BY <1>3, <1>n DEF Installs, Fetching, Asks
<1>4. CASE Calm /\ ~NewBlock /\ ~LogApplied /\ ~ResultInstalled
  BY <1>4, <1>s, FetchingCalm
<1> QED
  BY <1>1, <1>2, <1>3, <1>4, Kinds5

FetchInv ==
    retained # Nil =>
      \A m \in Nat : Asks(m) =>
        \A x \in Range(journal) : HeaderIs(x) => x \in Range(replay) \/ Num(x) <= m

\* What is canonical in the journal is at most the cursor.
LEMMA CursorAbove ==
  ASSUME ObsTypes, OrderInv, NEW b, PoolHas(b), NEW x \in Range(journal), HeaderIs(x)
  PROVE  Num(x) <= cursor.num
<1>1. x \in 1..Len(block) /\ ChainGood
  BY DEF OrderInv, ObsTypes
<1>2. journal \in Seq(Hash) /\ Rising(journal)
  BY DEF ObsTypes, CacheTypes, OrderInv
<1>3. PICK i \in 1..Len(journal) : journal[i] = x
  BY <1>2 DEF Range
<1>4. journal # <<>> /\ Last(journal) = journal[Len(journal)] /\ Len(journal) \in 1..Len(journal)
  BY <1>2, <1>3 DEF Last
<1>5. PICK l : l = journal[Len(journal)]
  OBVIOUS
<1>6. cursor.num = Num(l)
  BY <1>4, <1>5 DEF PoolHas
<1>7. l \in 1..Len(block)
  <2>1. l \in Range(journal)
    BY <1>2, <1>4, <1>5 DEF Range
  <2> QED
    BY <2>1 DEF OrderInv
<1>8. x = l \/ x < l
  BY <1>2, <1>3, <1>4, <1>5 DEF Rising
<1>9. On(chain, block, x)
  BY HeaderOn
<1>10. x < l => Num(x) < Num(l)
  BY <1>1, <1>7, <1>9, Canonical2 DEF Num
<1>11. Num(x) \in Nat /\ Num(l) \in Nat
  BY <1>1, <1>7, BaseNum
<1> QED
  BY <1>6, <1>8, <1>10, <1>11

\* During a capture a log that is applied is buffered as well.
LEMMA JournalBuffered ==
  ASSUME ObsTypes, Calls, OrderInv, Fits, [ObsNext]_obsVars, NEW m, Asks(m)'
  PROVE  Range(journal') \subseteq Range(journal) \cup Range(replay')
<1>n. ~NoCapture.open
  BY DEF NoCapture
<1>0. capture'.open
  BY DEF Asks
<1>1. ASSUME NEW n, NEW log, Brings(n, log) PROVE journal' = journal
  BY <1>1 DEF Brings, sessionVars, stateVars
<1>2. CASE /\ Takes(Head(wire).hash)
           /\ UNCHANGED <<retained, cursor, journal>> \/ PoolAdds(Head(wire).hash)
  <2>1. PICK h : h = Head(wire).hash
    OBVIOUS
  <2>2. replay' = Append(replay, h) /\ h \in 1..Len(block) /\ h \in Coming
    BY <1>0, <1>2, <2>1 DEF Takes
  <2>3. h \in Range(replay')
    <3>1. replay \in Seq(Hash) /\ h \in Hash
      <4>1. Len(block) \in 1..MaxBlocks /\ MaxBlocks \in Nat
        BY ChainAssumption DEF ObsTypes, ChainGood, ChainTypeOK
      <4> QED
        BY <2>2, <4>1 DEF ObsTypes, StreamTypes, Hash
    <3> QED
      BY <2>2, <3>1, RangeAppend
  <2>4. CASE PoolAdds(h)
    BY <2>2, <2>3, <2>4, JournalAdds DEF PoolAdds
  <2> QED
    BY <1>2, <2>1, <2>4
<1>3. ~Installs(worker.base)
  BY <1>0, <1>n DEF Installs
<1>4. CASE Calm
  BY <1>4 DEF Calm
<1> QED
  BY <1>1, <1>2, <1>3, <1>4, Kinds5

LEMMA FetchStep ==
  ObsTypes /\ Calls /\ OrderInv /\ Fits /\ Attempts /\ PoolInv /\ FetchInv /\ [ObsNext]_obsVars
    => FetchInv'
<1> SUFFICES ASSUME ObsTypes, Calls, OrderInv, Fits, Attempts, PoolInv, FetchInv, [ObsNext]_obsVars,
                    retained' # Nil, NEW m \in Nat, Asks(m)', NEW x \in Range(journal'), HeaderIs(x)'
             PROVE  x \in Range(replay') \/ Num(x)' <= m
  BY DEF FetchInv
<1>1. Fetching /\ Stable
  BY FetchingIs, StableIs
<1>2. x \in Range(journal) \/ x \in Range(replay')
  BY JournalBuffered
<1> SUFFICES ASSUME x \in Range(journal) PROVE x \in Range(replay') \/ Num(x)' <= m
  BY <1>2
<1>3. x \in 1..Len(block)
  BY DEF OrderInv
<1>4. HeaderIs(x) /\ Num(x)' = Num(x) /\ Num(x) \in Nat
  BY <1>1, <1>3, BaseNum DEF Stable
<1>5. retained # Nil
  BY <1>1 DEF Fetching
<1>6. CASE AsksOn(m)
  <2>1. PICK k \in Nat : Asks(k) /\ k <= m /\ Range(replay) \subseteq Range(replay')
    BY <1>6 DEF AsksOn
  <2>2. x \in Range(replay) \/ Num(x) <= k
    BY <1>4, <1>5, <2>1 DEF FetchInv
  <2> QED
    BY <1>4, <2>1, <2>2
<1>7. CASE m = cursor.num
  <2>1. PoolHas(retained.base)
    BY <1>5 DEF PoolInv
  <2> QED
    BY <1>4, <1>7, <2>1, CursorAbove
<1> QED
  BY <1>1, <1>6, <1>7 DEF Fetching

-----------------------------------------------------------------------------
(* What the watcher remembers of an earlier reading: its baseline b, the blocks E of its *)
(* journal, its generation g and its receipt time r.                                     *)

Recalled(b, E, g, r) ==
    /\ g \in Nat /\ r \in Nat /\ g <= generation /\ r <= clock
    /\ b \in 0..Len(block) /\ E \subseteq 1..Len(block)
    /\ b # EmptyHash /\ g = generation => retained # Nil
    /\ b # EmptyHash /\ retained # Nil /\ retained.received = r =>
          Range(journal) = E /\ retained.base = b

\* Unless the pool was captured again above it, the journal still has what it had.
Carries(b, E) ==
    \/ cursor.num > Num(b) /\ retained.base # b
    \/ \A x \in E : HeaderIs(x) => x \in Range(journal) \/ Num(x) <= Num(b)

\* A capture that may install a lower block has it in its buffer.
Buffered(b, E) ==
    \A m \in Nat : Asks(m) /\ m <= Num(b) =>
      \A x \in E : HeaderIs(x) => x \in Range(replay) \/ Num(x) <= Num(b)

Carried(b, E, g) ==
    b # EmptyHash /\ g = generation /\ HeaderIs(b) => Carries(b, E) /\ Ahead(b) /\ Buffered(b, E)

LEMMA RecalledStep ==
  ASSUME ObsTypes, Calls, OrderInv, Fits, [ObsNext]_obsVars,
         NEW b, NEW E, NEW g, NEW r, Recalled(b, E, g, r)
  PROVE  Recalled(b, E, g, r)'
<1>t. generation \in Nat /\ clock \in Nat /\ Len(block) \in Nat
  BY DEF ObsTypes, FlagTypes, ChainGood, ChainTypeOK
<1>s. 1..Len(block) \subseteq 1..Len(block')
  BY StableIs DEF Stable
<1>l. b \in 0..Len(block') /\ E \subseteq 1..Len(block')
  <2>1. b = 0 \/ b \in 1..Len(block)
    BY <1>t DEF Recalled
  <2>2. 0 \in 0..Len(block') /\ 1..Len(block') \subseteq 0..Len(block')
    <3>1. Len(block') \in Nat
      BY ChainGoodStep DEF ObsTypes, ChainGood, ChainTypeOK
    <3> QED
      BY <3>1
  <2> QED
    BY <1>s, <2>1, <2>2 DEF Recalled
<1>1. CASE UNCHANGED <<retained, journal, generation, clock>>
  BY <1>1, <1>l DEF Recalled
<1>2. ASSUME NEW n, NEW log, Brings(n, log) PROVE Recalled(b, E, g, r)'
  BY <1>1, <1>2 DEF Brings, sessionVars, stateVars
<1>3. CASE /\ LogApplied /\ Takes(Head(wire).hash) /\ clock' = clock + 1
           /\ UNCHANGED <<retained, cursor, journal>> \/ PoolAdds(Head(wire).hash)
  <2>1. generation' >= generation /\ generation' \in Nat /\ clock' > clock /\ clock' \in Nat
    <3>1. FlagTypes'
      BY FlagsStep DEF ObsTypes
    <3> QED
      BY <1>3, <1>t, <3>1 DEF Takes, FlagTypes
  <2>2. CASE UNCHANGED <<retained, cursor, journal>>
    BY <1>l, <1>t, <2>1, <2>2 DEF Recalled
  <2>3. CASE PoolAdds(Head(wire).hash)
    <3>1. retained # Nil /\ retained'.received = clock'
      BY <2>3 DEF PoolAdds
    <3>2. retained' # Nil
      <4>1. retained'.received # 0
        BY <1>t, <2>1, <3>1
      <4> QED
        BY <4>1 DEF Nil
    <3> QED
      BY <1>l, <1>t, <2>1, <3>1, <3>2 DEF Recalled
  <2> QED
    BY <1>3, <2>2, <2>3
<1>4. CASE Installs(worker.base)
  <2>1. /\ generation' = generation /\ clock' = clock + 1 /\ retained'.received = clock'
        /\ clock' \in Nat
    BY <1>4 DEF Installs, PoolFollows
  <2>2. retained' # Nil
    <3>1. retained'.received # 0
      BY <1>t, <2>1
    <3> QED
      BY <3>1 DEF Nil
  <2> QED
    BY <1>l, <1>t, <2>1, <2>2 DEF Recalled
<1>5. CASE Calm
  <2>1. /\ UNCHANGED <<journal, clock>> /\ generation' >= generation
        /\ retained' = retained \/ (retained' = Nil /\ generation' > generation)
    BY <1>5 DEF Calm
  <2>2. generation' \in Nat
    BY FlagsStep DEF ObsTypes, FlagTypes
  <2> QED
    BY <1>l, <1>t, <2>1, <2>2 DEF Recalled
<1> QED
  BY <1>2, <1>3, <1>4, <1>5, Kinds5

\* What is installed is above the baseline b, or has the journal that it had.
LEMMA CarriesInstalls ==
  ASSUME ObsTypes, OrderInv, Attempts, [ObsNext]_obsVars, NEW w, Installs(w), NEW b \in 1..Len(block), NEW E,
         E \subseteq 1..Len(block), HeaderIs(b), Ahead(b), Buffered(b, E)
  PROVE  Carries(b, E)'
<1>1. /\ w \in 1..Len(block) /\ w = worker.base /\ w # EmptyHash /\ UNCHANGED chainVars
      /\ PoolFollows(w) /\ session = "live" /\ worker.phase = "done" /\ worker.epoch = epoch
  BY DEF Installs
<1>2. busy /\ capture.open
  BY <1>1 DEF Attempts
<1>3. \A x : Num(x)' = Num(x) /\ (HeaderIs(x)' <=> HeaderIs(x))
  BY <1>1, FixedSame
<1>4. Num(w) \in Nat /\ Num(b) \in Nat
  BY <1>1, BaseNum
<1>5. CASE Num(w) > Num(b)
  <2>1. PICK l : l = IF journal' = <<>> THEN w ELSE Last(journal')
    OBVIOUS
  <2>2. Num(l) > Num(b)
    <3>1. CASE journal' = <<>>
      BY <1>5, <2>1, <3>1
    <3>2. CASE journal' # <<>>
      <4>1. journal' \in Seq(Hash)
        BY CacheStep DEF CacheTypes
      <4>2. l \in Range(journal')
        BY <2>1, <3>2, <4>1, LastIn
      <4>3. l \in Range(replay)
        BY <1>1, <4>2 DEF PoolFollows, Taken
      <4>4. After(l, b) /\ l \in 1..Len(block)
        BY <1>1, <1>2, <4>3 DEF Ahead, OrderInv
      <4> QED
        BY <4>4, AboveBase
    <3> QED
      BY <3>1, <3>2
  <2>3. cursor'.num = Num(l) /\ retained'.base = w
    BY <1>1, <2>1 DEF PoolFollows
  <2>4. w # b
    BY <1>4, <1>5
  <2>5. cursor'.num > Num(b)' /\ retained'.base # b
    BY <1>3, <2>2, <2>3, <2>4
  <2> QED
    BY <2>5 DEF Carries
<1>6. CASE Num(w) <= Num(b)
  <2>1. Asks(Num(w))
    BY <1>1, <1>2 DEF Asks
  <2>2. ASSUME NEW x \in E, HeaderIs(x), ~(Num(x) <= Num(b)) PROVE x \in Range(journal')
    <3>1. x \in Range(replay) /\ Num(x) \in Nat
      BY <1>4, <1>6, <2>1, <2>2, BaseNum DEF Buffered
    <3>2. Num(x) > Num(w)
      BY <1>4, <1>6, <2>2, <3>1
    <3> QED
      BY <1>1, <3>1, <3>2 DEF PoolFollows, Taken, Num
  <2>3. \A x \in E : HeaderIs(x)' => x \in Range(journal') \/ Num(x)' <= Num(b)'
    BY <1>3, <2>2
  <2> QED
    BY <2>3 DEF Carries
<1> QED
  BY <1>4, <1>5, <1>6

LEMMA CarriesSame ==
  ASSUME Stable, NEW b \in 1..Len(block), NEW E, E \subseteq 1..Len(block), Carries(b, E),
         UNCHANGED <<cursor, journal, retained>>
  PROVE  Carries(b, E)'
<1>1. Num(b)' = Num(b) /\ \A x \in E : Num(x)' = Num(x) /\ (HeaderIs(x)' => HeaderIs(x))
  BY DEF Stable
<1>2. CASE cursor.num > Num(b) /\ retained.base # b
  <2>1. cursor'.num > Num(b)' /\ retained'.base # b
    BY <1>1, <1>2
  <2> QED
    BY <2>1 DEF Carries
<1>3. CASE \A x \in E : HeaderIs(x) => x \in Range(journal) \/ Num(x) <= Num(b)
  <2>1. \A x \in E : HeaderIs(x)' => x \in Range(journal') \/ Num(x)' <= Num(b)'
    BY <1>1, <1>3
  <2> QED
    BY <2>1 DEF Carries
<1> QED
  BY <1>2, <1>3 DEF Carries

LEMMA CarriesGrows ==
  ASSUME ObsTypes, OrderInv, Fits, NEW h, Takes(h), PoolAdds(h), NEW b \in 1..Len(block), NEW E,
         E \subseteq 1..Len(block), Carries(b, E), HeaderIs(b), Ahead(b)
  PROVE  Carries(b, E)'
<1>1. h \in 1..Len(block) /\ h \in Coming /\ UNCHANGED chainVars
  BY DEF Takes
<1>2. \A x : Num(x)' = Num(x) /\ (HeaderIs(x)' <=> HeaderIs(x))
  BY <1>1, FixedSame
<1>3. Num(h) > Num(b)
  BY <1>1, AboveBase DEF Ahead
<1>4. CASE cursor.num > Num(b) /\ retained.base # b
  <2>1. cursor'.num > Num(b)' /\ retained'.base # b
    BY <1>2, <1>3, <1>4 DEF PoolAdds
  <2> QED
    BY <2>1 DEF Carries
<1>5. CASE \A x \in E : HeaderIs(x) => x \in Range(journal) \/ Num(x) <= Num(b)
  <2>1. Range(journal) \subseteq Range(journal')
    BY <1>1, JournalAdds DEF PoolAdds
  <2>2. \A x \in E : HeaderIs(x)' => x \in Range(journal') \/ Num(x)' <= Num(b)'
    BY <1>2, <1>5, <2>1
  <2> QED
    BY <2>2 DEF Carries
<1> QED
  BY <1>4, <1>5 DEF Carries

LEMMA BufferedStep ==
  ASSUME ObsTypes, OrderInv, Stable, Fetching, PoolInv, retained # Nil, retained' # Nil,
         NEW b \in 1..Len(block), NEW E, E \subseteq 1..Len(block), Carries(b, E), Buffered(b, E)
  PROVE  Buffered(b, E)'
<1>1. Num(b)' = Num(b) /\ \A x \in E : Num(x)' = Num(x) /\ (HeaderIs(x)' => HeaderIs(x))
  BY DEF Stable
<1>2. Num(b) \in Nat /\ \A x \in E : Num(x) \in Nat
  BY BaseNum
<1>3. ASSUME NEW m \in Nat, Asks(m)', m <= Num(b), NEW x \in E, HeaderIs(x)
      PROVE  x \in Range(replay') \/ Num(x) <= Num(b)
  <2>1. CASE AsksOn(m)
    <3>1. PICK k \in Nat : Asks(k) /\ k <= m /\ Range(replay) \subseteq Range(replay')
      BY <2>1 DEF AsksOn
    <3>2. k <= Num(b)
      BY <1>2, <1>3, <3>1
    <3> QED
      BY <1>3, <3>1, <3>2 DEF Buffered
  <2>2. CASE m = cursor.num
    <3>1. x \in Range(journal) \/ Num(x) <= Num(b)
      BY <1>2, <1>3, <2>2 DEF Carries
    <3>2. x \in Range(journal) => Num(x) <= m
      BY <1>3, <2>2, CursorAbove DEF PoolInv
    <3> QED
      BY <1>2, <1>3, <3>1, <3>2
  <2> QED
    BY <1>3, <2>1, <2>2 DEF Fetching
<1>4. \A m \in Nat : Asks(m)' /\ m <= Num(b)' =>
        \A x \in E : HeaderIs(x)' => x \in Range(replay') \/ Num(x)' <= Num(b)'
  BY <1>1, <1>3
<1> QED
  BY <1>4 DEF Buffered

LEMMA CarriedStep ==
  ASSUME ObsTypes, Calls, OrderInv, Fits, Attempts, PoolInv, [ObsNext]_obsVars,
         NEW b, NEW E, NEW g, NEW r, Recalled(b, E, g, r), Carried(b, E, g)
  PROVE  Carried(b, E, g)'
<1> SUFFICES ASSUME b # EmptyHash, g = generation', HeaderIs(b)'
             PROVE  Carries(b, E)' /\ Ahead(b)' /\ Buffered(b, E)'
  BY DEF Carried
<1>s. Stable /\ Fetching
  BY StableIs, FetchingIs
<1>1. b \in 1..Len(block) /\ E \subseteq 1..Len(block) /\ g \in Nat /\ g <= generation
  BY DEF Recalled, EmptyHash, ObsTypes, ChainGood, ChainTypeOK
<1>2. Recalled(b, E, g, r)'
  BY RecalledStep
<1>3. retained' # Nil
  BY <1>2 DEF Recalled
<1>4. generation' >= generation /\ generation \in Nat
  <2>1. generation \in Nat
    BY DEF ObsTypes, FlagTypes
  <2>2. ASSUME NEW n, NEW log, Brings(n, log) PROVE generation' = generation
    BY <2>2 DEF Brings, sessionVars, stateVars
  <2> QED
    BY <2>1, <2>2, Kinds5 DEF Takes, Installs, Calm
<1>5. g = generation
  BY <1>1, <1>4
<1>6. retained # Nil /\ HeaderIs(b)
  BY <1>1, <1>5, <1>s DEF Recalled, Stable
<1>7. Carries(b, E) /\ Ahead(b) /\ Buffered(b, E)
  BY <1>5, <1>6 DEF Carried
<1>8. Ahead(b)'
  BY <1>1, <1>3, <1>7, AheadStep
<1>9. Buffered(b, E)'
  BY <1>1, <1>3, <1>6, <1>7, <1>s, BufferedStep
<1> SUFFICES Carries(b, E)'
  BY <1>8, <1>9
<1>10. CASE UNCHANGED <<cursor, journal, retained>>
  BY <1>1, <1>7, <1>10, <1>s, CarriesSame
<1>11. ASSUME NEW n, NEW log, Brings(n, log) PROVE Carries(b, E)'
  BY <1>10, <1>11 DEF Brings, sessionVars, stateVars
<1>12. CASE Takes(Head(wire).hash) /\ PoolAdds(Head(wire).hash)
  BY <1>1, <1>6, <1>7, <1>12, CarriesGrows
<1>13. CASE Installs(worker.base)
  BY <1>1, <1>6, <1>7, <1>13, CarriesInstalls
<1>14. CASE Calm
  BY <1>3, <1>10, <1>14 DEF Calm
<1> QED
  BY <1>10, <1>11, <1>12, <1>13, <1>14, Kinds5

-----------------------------------------------------------------------------
(* What a proof establishes. *)

\* Without removed logs every applied log counts, otherwise those that add up.
Counts(x) == events => ~Swap(x)

\* The baseline b with the journal E is the pool of block f and of what E has above it.
Covers(f, b, E) ==
    /\ b \in Branch(f)
    /\ \A x \in Branch(f) : HasLog(x) => x \in Branch(b) \cup E
    /\ \A x \in E : Counts(x) /\ Num(x) <= Num(f) => x \in Branch(f)

\* The logs between blocks f and h are those of E above f.
Spans(f, h, E) ==
    /\ \A x \in Branch(h) : HasLog(x) /\ Num(x) > Num(f) => x \in E
    /\ \A x \in E : Num(x) <= Num(h) /\ (Num(x) > Num(f) => x \in Branch(h))

Proved(h, b, E) == Covers(h, b, E) /\ \A x \in E : Num(x) <= Num(h)

\* The retained pool is that of block h.
Good(h) ==
    /\ retained.ticks = DeltasOf(h) /\ retained.twice = {}
    /\ ~events => retained.price = PriceOf(h)

BranchIn == \A f \in 1..Len(block) : Branch(f) \subseteq 1..Len(block)

LEMMA BranchInIs == ObsTypes => BranchIn
  BY BranchLine, BranchType DEF ObsTypes, ChainGood, ChainTypeOK, BranchIn

LEMMA CoversStep ==
  ASSUME ObsTypes, Stable, events' = events, NEW f \in 1..Len(block), NEW b \in 1..Len(block),
         NEW E, E \subseteq 1..Len(block), Covers(f, b, E)
  PROVE  Covers(f, b, E)'
<1>1. /\ Branch(f)' = Branch(f) /\ Branch(b)' = Branch(b) /\ Num(f)' = Num(f)
      /\ \A x \in 1..Len(block) : /\ HasLog(x)' <=> HasLog(x)
                                  /\ Num(x)' = Num(x) /\ (Swap(x)' <=> Swap(x))
  BY DEF Stable
<1>2. Branch(f) \subseteq 1..Len(block)
  BY BranchInIs DEF BranchIn
<1>3. b \in Branch(f)'
  BY <1>1 DEF Covers
<1>4. \A x \in Branch(f)' : HasLog(x)' => x \in Branch(b)' \cup E
  BY <1>1, <1>2 DEF Covers
<1>5. \A x \in E : Counts(x)' /\ Num(x)' <= Num(f)' => x \in Branch(f)'
  BY <1>1 DEF Covers, Counts
<1> QED
  BY <1>3, <1>4, <1>5 DEF Covers

LEMMA ProvedStep ==
  ASSUME ObsTypes, Stable, events' = events, NEW h \in 1..Len(block), NEW b \in 1..Len(block),
         NEW E, E \subseteq 1..Len(block), Proved(h, b, E)
  PROVE  Proved(h, b, E)'
<1>1. Covers(h, b, E)'
  BY CoversStep DEF Proved
<1>2. Num(h)' = Num(h) /\ \A x \in E : Num(x)' = Num(x)
  BY DEF Stable
<1>3. \A x \in E : Num(x)' <= Num(h)'
  BY <1>2 DEF Proved
<1> QED
  BY <1>1, <1>3 DEF Proved

LEMMA SpansStep ==
  ASSUME ObsTypes, Stable, NEW f \in 1..Len(block), NEW h \in 1..Len(block),
         NEW E, E \subseteq 1..Len(block), Spans(f, h, E)
  PROVE  Spans(f, h, E)'
<1>1. /\ Branch(h)' = Branch(h) /\ Num(f)' = Num(f) /\ Num(h)' = Num(h)
      /\ \A x \in 1..Len(block) : (HasLog(x)' <=> HasLog(x)) /\ Num(x)' = Num(x)
  BY DEF Stable
<1>2. Branch(h) \subseteq 1..Len(block)
  BY BranchInIs DEF BranchIn
<1>3. \A x \in Branch(h)' : HasLog(x)' /\ Num(x)' > Num(f)' => x \in E
  BY <1>1, <1>2 DEF Spans
<1>4. \A x \in E : Num(x)' <= Num(h)' /\ (Num(x)' > Num(f)' => x \in Branch(h)')
  BY <1>1 DEF Spans
<1> QED
  BY <1>3, <1>4 DEF Spans

LEMMA GoodStep ==
  ASSUME Stable, events' = events, retained' = retained, NEW h \in 1..Len(block), Good(h)
  PROVE  Good(h)'
  BY DEF Stable, Good

LEMMA ReceivedNew ==
  ASSUME ObsTypes, Calls, OrderInv, Fits, [ObsNext]_obsVars, retained' # Nil,
         NEW r \in Nat, r <= clock, retained'.received = r
  PROVE  retained' = retained /\ events' = events
<1>t. clock \in Nat
  BY DEF ObsTypes, FlagTypes
<1>1. ASSUME NEW n, NEW log, Brings(n, log) PROVE retained' = retained /\ events' = events
  BY <1>1 DEF Brings, sessionVars, stateVars, lifeVars
<1>2. CASE /\ Takes(Head(wire).hash) /\ clock' = clock + 1
           /\ UNCHANGED <<retained, cursor, journal>> \/ PoolAdds(Head(wire).hash)
  BY <1>2, <1>t DEF Takes, PoolAdds
<1>3. CASE Installs(worker.base)
  BY <1>3, <1>t DEF Installs, PoolFollows
<1>4. CASE Calm
  BY <1>4 DEF Calm
<1> QED
  BY <1>1, <1>2, <1>3, <1>4, Kinds5

LEMMA EventsSame ==
  ASSUME [ObsNext]_obsVars, session # "idle"
  PROVE  events' = events
<1>1. CASE NewBlock \/ HeadMoves \/ DelayPasses \/ SessionLost \/ RequestRecovery \/ TakeRecovery
           \/ StartCapture \/ Worker
  BY <1>1 DEF NewBlock, HeadMoves, DelayPasses, SessionLost, RequestRecovery, TakeRecovery, StartCapture,
     Worker, WorkerCapture, WorkerResume, WorkerReads, WorkerVerify, WorkerFails, workerFrame,
     sessionVars, lifeVars
<1>2. CASE SessionStart
  BY <1>2 DEF SessionStart
<1>3. CASE SubscribeAndWatch \/ ExitJoined \/ WatchFails
  BY <1>3 DEF SubscribeAndWatch, SessionSubscribe, ExitJoined, SessionExit, WatchFails
<1>4. CASE Result
  BY <1>4 DEF Result, ResultStale, ResultFailed, ResultInstalled, ResultContradicted, resultFrame
<1>5. CASE LogStep
  <2>1. CASE LogGarbled
    <3>1. CASE events
      BY <2>1, <3>1, Zenon DEF LogGarbled
    <3>2. CASE ~events
      BY <2>1, <3>2, Zenon DEF LogGarbled
    <3> QED
      BY <3>1, <3>2
  <2>2. CASE LogRemovedStops \/ LogSkipped \/ LogApplied \/ LogStops
    BY <2>2 DEF LogRemovedStops, LogSkipped, LogApplied, LogStops, lifeVars
  <2> QED
    BY <1>5, <2>1, <2>2 DEF LogStep
<1>6. CASE Watch \/ UNCHANGED obsVars
  BY <1>6, WatchFrame DEF sessionVars, lifeVars, obsVars, vars
<1> QED
  BY <1>1, <1>2, <1>3, <1>4, <1>5, <1>6 DEF ObsNext, Others

-----------------------------------------------------------------------------
(* The watcher's variables w: what they remember and what they prove. *)

InProof == {"head", "cursor", "logs", "recheck", "headcheck", "decide", "apply"}
Ranging == {"cursor", "logs", "recheck", "headcheck"}

Minds(w) ==
    /\ Recalled(w.previous.base, Range(w.evidence), w.previous.gen, w.previous.received)
    /\ Carried(w.previous.base, Range(w.evidence), w.previous.gen)
    /\ w.frontier \in 0..Len(block) /\ w.head \in 0..Len(block)
    /\ w.phase \in InProof =>
          /\ w.previous.base # EmptyHash /\ w.frontier # EmptyHash
          /\ w.state = w.previous /\ w.applied = w.evidence
    /\ w.phase \in Ranging => w.head # EmptyHash /\ Num(w.head) >= Num(w.frontier)

Proves(w) ==
    /\ w.previous.base # EmptyHash /\ w.frontier # EmptyHash /\ HeaderIs(w.frontier) =>
          Covers(w.frontier, w.previous.base, Range(w.evidence))
    /\ w.phase = "recheck" /\ HeaderIs(w.head) => Spans(w.frontier, w.head, Range(w.evidence))
    /\ w.phase = "headcheck" /\ HeaderIs(w.head) =>
          Proved(w.head, w.previous.base, Range(w.evidence))
    /\ w.phase = "decide" /\ w.outcome = "advanced" =>
          w.head # EmptyHash /\ Proved(w.head, w.previous.base, Range(w.evidence))
    /\ w.phase = "apply" =>
          /\ w.head # EmptyHash
          /\ retained # Nil /\ retained.received = w.state.received => Good(w.head)

\* The confirmed state p.
Confirms(p) ==
    /\ p.state.received \in Nat /\ p.state.received <= clock
    /\ retained # Nil /\ retained.received = p.state.received =>
          p.head \in 1..Len(block) /\ Good(p.head)

LEMMA MindsStep ==
  ASSUME ObsTypes, Calls, OrderInv, Fits, Attempts, PoolInv, [ObsNext]_obsVars, NEW w, Minds(w)
  PROVE  Minds(w)'
<1>1. Recalled(w.previous.base, Range(w.evidence), w.previous.gen, w.previous.received)'
  BY RecalledStep DEF Minds
<1>2. Carried(w.previous.base, Range(w.evidence), w.previous.gen)'
  BY CarriedStep DEF Minds
<1>s. Stable
  BY StableIs
<1>l. /\ Len(block') \in Nat /\ Len(block) \in Nat
      /\ \A x \in 0..Len(block) : x = 0 \/ x \in 1..Len(block)
  BY ChainGoodStep DEF ObsTypes, ChainGood, ChainTypeOK
<1>3. w.frontier \in 0..Len(block') /\ w.head \in 0..Len(block')
  <2>1. \A x \in 0..Len(block) : x \in 0..Len(block')
    BY <1>l, <1>s DEF Stable
  <2> QED
    BY <2>1 DEF Minds
<1>4. w.phase \in Ranging => Num(w.head)' >= Num(w.frontier)'
  <2> SUFFICES ASSUME w.phase \in Ranging PROVE Num(w.head)' >= Num(w.frontier)'
    OBVIOUS
  <2>1. w.head \in 1..Len(block) /\ w.frontier \in 1..Len(block)
    BY <1>l DEF Minds, EmptyHash, Ranging, InProof
  <2> QED
    BY <1>s, <2>1 DEF Stable, Minds
<1> QED
  BY <1>1, <1>2, <1>3, <1>4 DEF Minds

LEMMA ProvesStep ==
  ASSUME ObsTypes, Calls, OrderInv, Fits, [ObsNext]_obsVars, events' = events,
         NEW w, Minds(w), Proves(w)
  PROVE  Proves(w)'
<1>s. Stable
  BY StableIs
<1> DEFINE f == w.frontier
           h == w.head
           b == w.previous.base
           E == Range(w.evidence)
<1>l. /\ b # EmptyHash => b \in 1..Len(block)
      /\ f # EmptyHash => f \in 1..Len(block)
      /\ h # EmptyHash => h \in 1..Len(block)
      /\ E \subseteq 1..Len(block)
  <2>1. Len(block) \in Nat /\ \A x \in 0..Len(block) : x # EmptyHash => x \in 1..Len(block)
    BY DEF ObsTypes, ChainGood, ChainTypeOK, EmptyHash
  <2> QED
    BY <2>1 DEF Minds, Recalled
<1>m. /\ w.phase \in InProof => b # EmptyHash /\ f # EmptyHash /\ w.state = w.previous
      /\ w.phase \in Ranging => h # EmptyHash
      /\ w.previous.received \in Nat /\ w.previous.received <= clock
  BY DEF Minds, Recalled
<1>p. /\ b # EmptyHash /\ f # EmptyHash /\ HeaderIs(f) => Covers(f, b, E)
      /\ w.phase = "recheck" /\ HeaderIs(h) => Spans(f, h, E)
      /\ w.phase = "headcheck" /\ HeaderIs(h) => Proved(h, b, E)
      /\ w.phase = "decide" /\ w.outcome = "advanced" => h # EmptyHash /\ Proved(h, b, E)
      /\ w.phase = "apply" => /\ h # EmptyHash
                              /\ retained # Nil /\ retained.received = w.state.received => Good(h)
  BY DEF Proves
<1> HIDE DEF f, h, b, E
<1>k. \A x \in 1..Len(block) : HeaderIs(x)' => HeaderIs(x)
  BY <1>s DEF Stable
<1>1. b # EmptyHash /\ f # EmptyHash /\ HeaderIs(f)' => Covers(f, b, E)'
  BY <1>k, <1>l, <1>p, <1>s, CoversStep
<1>2. w.phase = "recheck" /\ HeaderIs(h)' => Spans(f, h, E)'
  <2>1. w.phase = "recheck" => f # EmptyHash /\ h # EmptyHash
    BY <1>m DEF InProof, Ranging
  <2> QED
    BY <1>k, <1>l, <1>p, <1>s, <2>1, SpansStep
<1>3. w.phase = "headcheck" /\ HeaderIs(h)' => Proved(h, b, E)'
  <2>1. w.phase = "headcheck" => b # EmptyHash /\ h # EmptyHash
    BY <1>m DEF InProof, Ranging
  <2> QED
    BY <1>k, <1>l, <1>p, <1>s, <2>1, ProvedStep
<1>4. w.phase = "decide" /\ w.outcome = "advanced" => h # EmptyHash /\ Proved(h, b, E)'
  <2>1. w.phase = "decide" => b # EmptyHash
    BY <1>m DEF InProof
  <2> QED
    BY <1>l, <1>p, <1>s, <2>1, ProvedStep
<1>5. w.phase = "apply" => h # EmptyHash
  BY <1>p
<1>6. w.phase = "apply" /\ retained' # Nil /\ retained'.received = w.state.received => Good(h)'
  <2> SUFFICES ASSUME w.phase = "apply", retained' # Nil, retained'.received = w.state.received
               PROVE  Good(h)'
    OBVIOUS
  <2>1. w.state.received \in Nat /\ w.state.received <= clock
    BY <1>m DEF InProof
  <2>2. retained' = retained
    BY <2>1, ReceivedNew
  <2>3. Good(h) /\ h \in 1..Len(block)
    BY <1>l, <1>p, <2>2
  <2> QED
    BY <1>s, <2>2, <2>3, GoodStep
<1> QED
  BY <1>1, <1>2, <1>3, <1>4, <1>5, <1>6 DEF Proves, f, h, b, E

LEMMA ConfirmsStep ==
  ASSUME ObsTypes, Calls, OrderInv, Fits, [ObsNext]_obsVars, NEW p, Confirms(p)
  PROVE  Confirms(p)'
<1>s. Stable
  BY StableIs
<1>1. clock' >= clock /\ clock \in Nat /\ clock' \in Nat
  <2>1. clock \in Nat
    BY DEF ObsTypes, FlagTypes
  <2>2. ASSUME NEW n, NEW log, Brings(n, log) PROVE clock' = clock
    BY <2>2 DEF Brings, sessionVars
  <2>3. clock' = clock \/ clock' = clock + 1
    BY <2>2, Kinds5 DEF Installs, Calm
  <2> QED
    BY <2>1, <2>3
<1>2. p.state.received \in Nat /\ p.state.received <= clock /\ p.state.received <= clock'
  BY <1>1 DEF Confirms
<1>3. ASSUME retained' # Nil, retained'.received = p.state.received
      PROVE  p.head \in 1..Len(block') /\ Good(p.head)'
  <2>1. retained' = retained /\ events' = events
    BY <1>2, <1>3, ReceivedNew
  <2>2. p.head \in 1..Len(block) /\ Good(p.head)
    BY <1>3, <2>1 DEF Confirms
  <2> QED
    BY <1>s, <2>1, <2>2, GoodStep DEF Stable
<1> QED
  BY <1>2, <1>3 DEF Confirms

-----------------------------------------------------------------------------
(* The pool of a baseline and its journal is the pool of the block they were proved for. *)

\* The newest of the swaps of a branch is the one that came last.
LEMMA NewestLast ==
  ASSUME ObsTypes, NEW h \in 1..Len(block), NEW p \in Branch(h), Swap(p),
         \A s \in Branch(h) : Swap(s) => s <= p
  PROVE  PriceOf(h) = p
<1>1. block \in Seq(Blocks) /\ Tree(block) /\ Branch(h) = Line(block, h)
  BY BranchLine DEF ObsTypes, ChainGood, ChainTypeOK
<1> DEFINE hs == SwapsAt(block, h)
<1>2. hs \subseteq Line(block, h) /\ p \in hs /\ \A s \in hs : Swap(s)
  BY <1>1 DEF SwapsAt, Swap
<1> HIDE DEF hs
<1>3. \A y \in hs : block[y].num <= block[p].num
  <2> SUFFICES ASSUME NEW y \in hs, ~(block[y].num <= block[p].num) PROVE FALSE
    OBVIOUS
  <2>1. y \in 1..h /\ p \in 1..h /\ h \in Nat
    BY <1>1, <1>2, LineLower
  <2>2. block[y].num \in Nat /\ block[p].num \in Nat
    BY <1>1, <2>1, NumType
  <2>3. block[p].num <= block[y].num
    BY <2>2
  <2>4. p \in Line(block, y)
    BY <1>1, <1>2, <2>3, LineTotal
  <2>5. y \in 1..Len(block)
    BY <2>1
  <2>6. p \in 1..y
    BY <1>1, <2>4, <2>5, LineLower
  <2>7. y <= p
    BY <1>1, <1>2
  <2>8. y = p
    BY <2>1, <2>6, <2>7
  <2> QED
    BY <2>2, <2>8
<1>4. p = NewestOf(block, hs)
  BY <1>1, <1>2, <1>3, NewestIs
<1>5. PriceOf(h) = NewestOf(block, hs)
  BY PriceLine DEF PriceAt, hs
<1> QED
  BY <1>4, <1>5

\* Two branches with the same swaps have the same price.
LEMMA SameSwaps ==
  ASSUME NEW h, NEW b, \A x : x \in Branch(h) /\ Swap(x) <=> x \in Branch(b) /\ Swap(x)
  PROVE  PriceOf(h) = PriceOf(b)
<1>1. {x \in Branch(h) : block[x].log = "swap"} = {x \in Branch(b) : block[x].log = "swap"}
  BY DEF Swap
<1> QED
  BY <1>1 DEF PriceOf

LEMMA GoodProved ==
  ASSUME ObsTypes, OrderInv, PoolInv, PriceInv, retained # Nil, NEW h \in 1..Len(block), NEW b, NEW J,
         b = retained.base, J = Range(journal), Proved(h, b, J)
  PROVE  Good(h)
<1>1. /\ b \in Branch(h) /\ \A x \in Branch(h) : HasLog(x) => x \in Branch(b) \cup J
      /\ \A x \in J : Counts(x) => x \in Branch(h)
  BY DEF Proved, Covers
<1>2. PoolHas(b) /\ b \in 1..Len(block)
  BY DEF PoolInv, PoolHas
<1>3. Branch(b) \subseteq Branch(h) /\ Branch(h) \subseteq 1..Len(block)
  <2>1. block \in Seq(Blocks) /\ Tree(block)
    BY DEF ObsTypes, ChainGood, ChainTypeOK
  <2> QED
    BY <1>1, <2>1, BranchLine, LineLower, BranchType
<1>4. \A x \in 1..Len(block) : HasLog(x) => block[x].log \in {"swap", "mint", "odd"}
  <2> TAKE x \in 1..Len(block)
  <2>1. block[x] \in Blocks
    BY DEF ObsTypes, ChainGood, ChainTypeOK
  <2> QED
    BY <2>1, RetainedAssumption DEF HasLog, Blocks, Effects
<1>5. \A x \in 1..Len(block) : block[x].log \in {"mint", "odd"} <=> HasLog(x) /\ ~Swap(x)
  BY <1>4 DEF HasLog, Swap
<1>6. \A x \in J : x \in 1..Len(block) /\ HasLog(x)
  BY DEF OrderInv
<1>7. DeltasOf(h) = {x \in Branch(h) : HasLog(x) /\ ~Swap(x)}
  BY <1>3, <1>5 DEF DeltasOf
<1>8. DeltasOf(b) = {x \in Branch(b) : HasLog(x) /\ ~Swap(x)}
  BY <1>3, <1>5 DEF DeltasOf
<1>9. DeltasOf(h) = DeltasOf(b) \cup Deltas(J)
  BY <1>1, <1>3, <1>6, <1>7, <1>8 DEF Deltas, Counts
<1>10. retained.ticks = DeltasOf(h) /\ retained.twice = {}
  BY <1>2, <1>9 DEF PoolHas
<1>11. ASSUME ~events PROVE retained.price = PriceOf(h)
  <2>1. PriceHas(b)
    BY <1>11 DEF PriceInv
  <2>2. \A x \in J : x \in Branch(h)
    BY <1>1, <1>11 DEF Counts
  <2>3. \A x \in Branch(h) : Swap(x) => x \in Branch(b) \cup J
    BY <1>1 DEF Swap, HasLog
  <2>4. CASE Swaps(J) = {}
    <3>1. \A x : x \in Branch(h) /\ Swap(x) <=> x \in Branch(b) /\ Swap(x)
      BY <1>3, <2>3, <2>4 DEF Swaps
    <3> QED
      BY <2>1, <2>4, <3>1, SameSwaps DEF PriceHas
  <2>5. CASE Swaps(J) # {}
    <3>1. PICK p : p = retained.price
      OBVIOUS
    <3>2. p \in J /\ Swap(p) /\ \A s \in J \cup Branch(b) : Swap(s) => s <= p
      BY <2>1, <2>5, <3>1 DEF PriceHas
    <3>3. p \in Branch(h) /\ \A s \in Branch(h) : Swap(s) => s <= p
      BY <2>2, <2>3, <3>2
    <3> QED
      BY <3>1, <3>2, <3>3, NewestLast
  <2> QED
    BY <2>4, <2>5
<1> QED
  BY <1>10, <1>11 DEF Good

-----------------------------------------------------------------------------
(* The steps of a proof. *)

LEMMA NoStateIs ==
  NoState.base = EmptyHash /\ NoState.gen = 0 /\ NoState.received = 0
  BY DEF NoState

LEMMA StateIs ==
  State.base = retained.base /\ State.gen = generation /\ State.received = retained.received
  BY DEF State

\* A proof starts from the baseline itself.
LEMMA CoversBase ==
  ASSUME ObsTypes, OrderInv, PoolInv, PriceInv, retained # Nil, NEW b, b = retained.base, HeaderIs(b)
  PROVE  Covers(b, b, Range(journal))
<1>1. PoolHas(b) /\ b \in 1..Len(block)
  BY DEF PoolInv, PoolHas
<1>2. b \in Branch(b)
  BY <1>1, BranchLine, BranchType DEF ObsTypes, ChainGood, ChainTypeOK
<1>3. ASSUME NEW x \in Range(journal), Counts(x), Num(x) <= Num(b) PROVE x \in Branch(b)
  <2>1. CASE events
    <3>1. After(x, b) /\ x \in 1..Len(block)
      BY <1>1, <1>3, <2>1 DEF PoolHas, Counts, OrderInv
    <3>2. Num(x) > Num(b)
      BY <1>1, <3>1, AboveBase
    <3> QED
      BY <1>1, <1>3, <3>1, <3>2, BaseNum
  <2>2. CASE ~events
    BY <1>3, <2>2 DEF PriceInv, PriceHas
  <2> QED
    BY <2>1, <2>2
<1> QED
  BY <1>2, <1>3 DEF Covers

\* What was proved up to a block still holds with the journal read now.
LEMMA CoversKeeps ==
  ASSUME ObsTypes, OrderInv, retained # Nil, Minds(watch), NEW f, NEW b, NEW E,
         f = watch.frontier, b = watch.previous.base, E = Range(watch.evidence),
         Keeps, HeaderIs(f), b # EmptyHash, Covers(f, b, E)
  PROVE  Covers(f, b, Range(journal))
<1>1. /\ f # EmptyHash /\ b = retained.base /\ watch.previous.gen = generation
      /\ \A x \in Range(journal) : Num(x) <= Num(f) => x \in E
  BY StateIs DEF Keeps, ContinuesProof, Num
<1>2. /\ f \in 1..Len(block) /\ b \in 1..Len(block) /\ E \subseteq 1..Len(block)
      /\ ChainGood
  BY <1>1 DEF Minds, Recalled, EmptyHash, ObsTypes, ChainGood, ChainTypeOK
<1>3. \A x \in Branch(f) : x \in 1..Len(block) /\ HeaderIs(x)
  BY <1>2, BranchLine, HeaderOn, Canonical2, BranchInIs DEF BranchIn
<1>4. HeaderIs(b)
  BY <1>3 DEF Covers
<1>5. \A x \in E : HeaderIs(x) => x \in Range(journal) \/ Num(x) <= Num(b)
  <2>1. Carries(b, E)
    BY <1>1, <1>4 DEF Minds, Carried
  <2> QED
    BY <1>1, <2>1 DEF Carries
<1>6. \A x \in 1..Len(block) : HeaderIs(x) /\ Num(x) <= Num(b) => x \in Branch(b)
  BY <1>2, <1>4, HeaderOn, BranchLine, Canonical2 DEF Num
<1>7. ASSUME NEW x \in Branch(f), HasLog(x) PROVE x \in Branch(b) \cup Range(journal)
  <2>1. x \in Branch(b) \cup E
    BY <1>7 DEF Covers
  <2> QED
    BY <1>3, <1>5, <1>6, <2>1
<1>8. \A x \in Range(journal) : Counts(x) /\ Num(x) <= Num(f) => x \in Branch(f)
  BY <1>1 DEF Covers
<1> QED
  BY <1>7, <1>8 DEF Covers

\* The logs found between frontier and head are those applied.
LEMMA SpansMatched ==
  ASSUME ObsTypes, NEW f \in 1..Len(block), NEW h \in 1..Len(block), NEW E, E \subseteq 1..Len(block),
         f = watch.frontier, h = watch.head, E = Range(watch.applied), Matched, HeaderIs(h)
  PROVE  Spans(f, h, E)
<1>0. ChainGood /\ Height \in Nat
  BY DEF ObsTypes, ChainGood, ChainTypeOK, Height
<1>1. /\ \A x \in Range0 : HasLog(x) => x \in E
      /\ \A x \in E : /\ ~(Num(x) > Num(h))
                      /\ Num(x) \in (Num(f) + 1)..Num(h) => x \in Range0
  BY DEF Matched, HasLog, Num
<1>2. \A x \in 1..Len(block) : Num(x) \in Nat
  BY BaseNum
<1>3. \A x \in Range0 : x \in 1..Len(block) /\ HeaderIs(x) /\ Num(x) <= Num(h)
  <2> TAKE x \in Range0
  <2>1. PICK n \in (Num(f) + 1)..Num(h) : n <= Height /\ x = chain[n]
    BY DEF Range0, Num
  <2>2. n \in 1..Height
    BY <1>0, <1>2, <2>1
  <2>3. chain[n] \in 1..Len(block) /\ block[chain[n]].num = n
    BY <2>2 DEF ObsTypes, ChainGood, Chained, Height
  <2> QED
    BY <1>2, <2>1, <2>2, <2>3 DEF HeaderIs, Num
<1>4. \A x \in Range0 : x \in Branch(h)
  BY <1>0, <1>3, HeaderOn, BranchLine, Canonical2 DEF Num
<1>5. ASSUME NEW x \in Branch(h), HasLog(x), Num(x) > Num(f) PROVE x \in E
  <2>1. x \in 1..Len(block) /\ HeaderIs(x)
    BY <1>0, BranchLine, HeaderOn, Canonical2, BranchInIs DEF BranchIn
  <2>2. Num(x) <= Num(h)
    <3>1. x = h \/ block[x].num < block[h].num
      BY BranchLine, LineLower DEF ObsTypes, ChainGood, ChainTypeOK
    <3> QED
      BY <1>2, <2>1, <3>1 DEF Num
  <2>3. Num(x) <= Height /\ chain[Num(x)] = x
    BY <2>1 DEF HeaderIs, Num
  <2>4. Num(x) \in (Num(f) + 1)..Num(h)
    BY <1>2, <1>5, <2>1, <2>2
  <2>5. x \in Range0
    BY <2>3, <2>4 DEF Range0, Num
  <2> QED
    BY <1>1, <1>5, <2>5
<1>6. \A x \in E : Num(x) <= Num(h) /\ (Num(x) > Num(f) => x \in Branch(h))
  <2> TAKE x \in E
  <2>1. Num(x) \in Nat /\ Num(h) \in Nat /\ Num(f) \in Nat
    BY <1>2
  <2>2. Num(x) <= Num(h)
    BY <1>1, <2>1
  <2>3. Num(x) > Num(f) => Num(x) \in (Num(f) + 1)..Num(h)
    BY <2>1, <2>2
  <2> QED
    BY <1>1, <1>4, <2>2, <2>3
<1> QED
  BY <1>5, <1>6 DEF Spans

\* So the proof reaches the head.
LEMMA ProvedHead ==
  ASSUME ObsTypes, NEW f \in 1..Len(block), NEW h \in 1..Len(block), NEW b \in 1..Len(block),
         NEW E, E \subseteq 1..Len(block), Covers(f, b, E), Spans(f, h, E),
         HeaderIs(f), HeaderIs(h), Num(h) >= Num(f)
  PROVE  Proved(h, b, E)
<1>0. ChainGood /\ block \in Seq(Blocks) /\ Tree(block)
  BY DEF ObsTypes, ChainGood, ChainTypeOK
<1>1. \A x \in 1..Len(block) : Num(x) \in Nat
  BY BaseNum
<1>2. f \in Branch(h)
  BY <1>0, <1>1, HeaderOn, BranchLine, Canonical2 DEF Num
<1>3. Branch(f) \subseteq Branch(h)
  BY <1>0, <1>2, BranchLine, LineLower
<1>4. \A x \in Branch(h) : x \in 1..Len(block) /\ HeaderIs(x)
  BY <1>0, BranchLine, HeaderOn, Canonical2, BranchInIs DEF BranchIn
<1>5. \A x \in Branch(h) : Num(x) <= Num(f) => x \in Branch(f)
  BY <1>0, <1>4, HeaderOn, BranchLine, Canonical2 DEF Num
<1>6. \A x \in Branch(h) : HasLog(x) => x \in Branch(b) \cup E
  <2> TAKE x \in Branch(h)
  <2>1. Num(x) > Num(f) \/ Num(x) <= Num(f)
    BY <1>1, <1>4
  <2> QED
    BY <1>5, <2>1 DEF Covers, Spans
<1>7. \A x \in E : Counts(x) => x \in Branch(h)
  <2> TAKE x \in E
  <2>1. Num(x) > Num(f) \/ Num(x) <= Num(f)
    BY <1>1
  <2> QED
    BY <1>3, <2>1 DEF Covers, Spans
<1>8. b \in Branch(h) /\ \A x \in E : Num(x) <= Num(h)
  BY <1>3 DEF Covers, Spans
<1> QED
  BY <1>6, <1>7, <1>8 DEF Proved, Covers

-----------------------------------------------------------------------------
(* A step of the watcher keeps what it remembers, and proves what it says. *)

\* It goes on with the inputs it read.
LEMMA GoesOn ==
  ASSUME Minds(watch), Proves(watch), NEW v, v = watch', NEW phase, NEW head, NEW outcome,
         Moves(phase, head, outcome), head \in 0..Len(block),
         phase \in InProof => watch.phase \in InProof,
         phase \in Ranging => head # EmptyHash /\ Num(head) >= Num(watch.frontier),
         phase = "recheck" /\ HeaderIs(head) => Spans(watch.frontier, head, Range(watch.evidence)),
         phase = "headcheck" /\ HeaderIs(head) =>
           Proved(head, watch.previous.base, Range(watch.evidence)),
         phase = "decide" /\ outcome = "advanced" =>
           head # EmptyHash /\ Proved(head, watch.previous.base, Range(watch.evidence)),
         phase # "apply"
  PROVE  Minds(v) /\ Proves(v)
<1>1. /\ v.phase = phase /\ v.head = head /\ v.outcome = outcome
      /\ v.frontier = watch.frontier /\ v.state = watch.state /\ v.applied = watch.applied
      /\ v.previous = watch.previous /\ v.evidence = watch.evidence
  BY DEF Moves
<1>2. Minds(v)
  BY <1>1 DEF Minds
<1>3. Proves(v)
  BY <1>1 DEF Proves
<1> QED
  BY <1>2, <1>3

\* It waits for its next attempt.
LEMMA WaitsOn ==
  ASSUME ObsTypes, Minds(watch), Proves(watch), NEW v, v = watch', NEW w, Waits(w),
         w.previous = watch.previous, w.evidence = watch.evidence,
         \/ w.frontier = watch.frontier
         \/ w.frontier = watch.head /\ Covers(watch.head, watch.previous.base, Range(watch.evidence))
  PROVE  Minds(v) /\ Proves(v)
<1>1. /\ v.phase = "wait" /\ v.head = EmptyHash /\ v.outcome = "none"
      /\ v.previous = watch.previous /\ v.evidence = watch.evidence /\ v.frontier = w.frontier
  BY DEF Waits
<1>2. EmptyHash \in 0..Len(block) /\ "wait" \notin InProof /\ "wait" \notin Ranging
  BY DEF ObsTypes, ChainGood, ChainTypeOK, EmptyHash, InProof, Ranging
<1>3. Minds(v)
  BY <1>1, <1>2 DEF Minds
<1>4. Proves(v)
  BY <1>1 DEF Proves
<1> QED
  BY <1>3, <1>4

\* It remembers nothing, so that there is nothing to prove.
LEMMA Blank ==
  ASSUME ObsTypes, NEW v, v.previous = NoState, Range(v.evidence) \subseteq 1..Len(block),
         v.phase \notin InProof, v.frontier \in 0..Len(block), v.head \in 0..Len(block)
  PROVE  Minds(v) /\ Proves(v)
<1>1. /\ v.previous.base = EmptyHash /\ v.previous.gen = 0 /\ v.previous.received = 0
      /\ EmptyHash \in 0..Len(block)
  BY NoStateIs DEF ObsTypes, ChainGood, ChainTypeOK, EmptyHash
<1>2. generation \in Nat /\ clock \in Nat
  BY DEF ObsTypes, FlagTypes
<1>3. Recalled(v.previous.base, Range(v.evidence), v.previous.gen, v.previous.received)
  BY <1>1, <1>2 DEF Recalled
<1>4. Carried(v.previous.base, Range(v.evidence), v.previous.gen)
  BY <1>1 DEF Carried
<1>5. v.phase \notin Ranging /\ v.phase \notin {"recheck", "headcheck", "decide", "apply"}
  BY DEF InProof, Ranging
<1>6. Minds(v)
  BY <1>3, <1>4, <1>5 DEF Minds
<1>7. Proves(v)
  BY <1>1, <1>5 DEF Proves
<1> QED
  BY <1>6, <1>7

\* What is read now is remembered as it is.
LEMMA ReadMinds ==
  ASSUME ObsTypes, OrderInv, PoolInv, FetchInv, retained # Nil, NEW b, b = retained.base, NEW E,
         E = Range(journal)
  PROVE  /\ Recalled(b, E, generation, retained.received) /\ Carried(b, E, generation)
         /\ b \in 1..Len(block) /\ b # EmptyHash
<1>1. PoolHas(b) /\ Ahead(b)
  BY DEF PoolInv
<1>2. b \in 1..Len(block) /\ b # EmptyHash
  BY <1>1 DEF PoolHas, EmptyHash, ObsTypes, ChainGood, ChainTypeOK
<1>3. generation \in Nat /\ clock \in Nat /\ retained.received \in Nat /\ retained.received <= clock
  BY <1>1 DEF PoolHas, ObsTypes, FlagTypes
<1>4. E \subseteq 1..Len(block) /\ b \in 0..Len(block)
  BY <1>2 DEF OrderInv
<1>5. Recalled(b, E, generation, retained.received)
  BY <1>3, <1>4 DEF Recalled
<1>6. Carries(b, E)
  BY DEF Carries
<1>7. Buffered(b, E)
  <2> SUFFICES ASSUME NEW m \in Nat, Asks(m), m <= Num(b), NEW x \in E, HeaderIs(x)
               PROVE  x \in Range(replay) \/ Num(x) <= Num(b)
    BY DEF Buffered
  <2>1. x \in Range(replay) \/ Num(x) <= m
    BY DEF FetchInv
  <2>2. Num(x) \in Nat /\ Num(b) \in Nat
    BY <1>2, <1>4, BaseNum
  <2> QED
    BY <2>1, <2>2
<1> QED
  BY <1>1, <1>2, <1>5, <1>6, <1>7 DEF Carried

\* What the watcher keeps is stated of a step by itself, then of the state after it.
Keeping == \A v : v = watch' => Minds(v) /\ Proves(v)

LEMMA ReadKeeps ==
  ASSUME ObsTypes, OrderInv, PoolInv, PriceInv, FetchInv, Minds(watch), Proves(watch), WatchRead
  PROVE  Keeping
<1> SUFFICES ASSUME NEW v, v = watch' PROVE Minds(v) /\ Proves(v)
  BY DEF Keeping
<1>d. DOMAIN watch = WatchFields /\ watch.phase = "wait"
  BY DEF ObsTypes, WatchTypes, WatchRead
<1>w. "wait" \notin InProof /\ EmptyHash \in 0..Len(block)
  BY DEF InProof, EmptyHash, ObsTypes, ChainGood, ChainTypeOK
<1>1. CASE Forgets
  <2>1. /\ v.previous = NoState /\ v.evidence = watch.evidence /\ v.phase = watch.phase
        /\ v.frontier = watch.frontier /\ v.head = watch.head
    BY <1>1 DEF Forgets
  <2> QED
    BY <1>d, <1>w, <2>1, Blank DEF Minds, Recalled
<1>2. CASE Active /\ Begins
  <2>1. retained # Nil
    BY <1>2 DEF Active
  <2>2. PICK b, E : b = retained.base /\ E = Range(journal)
    OBVIOUS
  <2>3. /\ Recalled(b, E, generation, retained.received) /\ Carried(b, E, generation)
        /\ b \in 1..Len(block) /\ b # EmptyHash
    BY <2>1, <2>2, ReadMinds
  <2>4. /\ v.phase \in {"failed", "head"} /\ v.head = EmptyHash /\ v.outcome = "none"
        /\ v.state = State /\ v.applied = journal /\ v.previous = State /\ v.evidence = journal
        /\ \/ Keeps /\ v.frontier = watch.frontier
           \/ v.frontier = b
    BY <1>2, <2>2 DEF Begins
  <2>5. /\ v.previous.base = b /\ v.previous.gen = generation
        /\ v.previous.received = retained.received /\ Range(v.evidence) = E
    BY <2>2, <2>4, StateIs
  <2>6. v.frontier \in 1..Len(block) /\ v.frontier # EmptyHash
    <3>1. Keeps => watch.frontier # EmptyHash
      BY DEF Keeps, ContinuesProof
    <3>2. watch.frontier # EmptyHash => watch.frontier \in 1..Len(block)
      BY DEF Minds, EmptyHash, ObsTypes, ChainGood, ChainTypeOK
    <3> QED
      BY <2>3, <2>4, <3>1, <3>2
  <2>7. Minds(v)
    <3>1. v.phase \notin Ranging /\ v.frontier \in 0..Len(block) /\ v.head \in 0..Len(block)
      BY <1>w, <2>4, <2>6 DEF Ranging
    <3> QED
      BY <2>3, <2>4, <2>5, <2>6, <3>1 DEF Minds
  <2>8. HeaderIs(v.frontier) => Covers(v.frontier, b, E)
    <3> SUFFICES ASSUME HeaderIs(v.frontier) PROVE Covers(v.frontier, b, E)
      OBVIOUS
    <3>1. CASE v.frontier = b
      BY <2>1, <2>2, <3>1, CoversBase
    <3>2. CASE Keeps /\ v.frontier = watch.frontier
      <4>1. watch.previous.base = b /\ watch.frontier # EmptyHash
        BY <2>2, <3>2, StateIs DEF Keeps, ContinuesProof
      <4>2. PICK f, F : f = watch.frontier /\ F = Range(watch.evidence)
        OBVIOUS
      <4>3. Covers(f, b, F)
        BY <2>3, <3>2, <4>1, <4>2 DEF Proves
      <4>4. Covers(f, b, Range(journal))
        BY <2>1, <2>3, <3>2, <4>1, <4>2, <4>3, CoversKeeps
      <4> QED
        BY <2>2, <3>2, <4>2, <4>4
    <3> QED
      BY <2>4, <3>1, <3>2
  <2>9. Proves(v)
    BY <2>4, <2>5, <2>8 DEF Proves
  <2> QED
    BY <2>7, <2>9
<1> QED
  BY <1>d, <1>1, <1>2, ReadIs

LEMMA HeadKeeps ==
  ASSUME ObsTypes, Minds(watch), Proves(watch), WatchHead
  PROVE  Keeping
<1> SUFFICES ASSUME NEW v, v = watch' PROVE Minds(v) /\ Proves(v)
  BY DEF Keeping
<1>d. DOMAIN watch = WatchFields /\ watch.phase = "head"
  BY DEF ObsTypes, WatchTypes, WatchHead
<1>w. /\ watch.phase \in InProof /\ watch.head \in 0..Len(block)
      /\ "decide" \notin Ranging
  BY <1>d DEF InProof, Ranging, Minds
<1>1. CASE Moves("decide", watch.head, "unavailable")
  BY <1>w, <1>1, GoesOn
<1>2. CASE /\ ~(rpcHead < block[watch.frontier].num)
           /\ Moves("cursor", chain[rpcHead], watch.outcome)
  <2>1. PICK h : h = chain[rpcHead]
    OBVIOUS
  <2>2. h \in 1..Len(block) /\ block[h].num = rpcHead /\ rpcHead \in Nat
    BY <2>1 DEF ObsTypes, CaptureSound, ChainGood, Chained, Height
  <2>3. watch.frontier \in 1..Len(block)
    BY <1>w DEF Minds, EmptyHash, ObsTypes, ChainGood, ChainTypeOK
  <2>4. Num(watch.frontier) \in Nat
    BY <2>3, BaseNum
  <2>5. Num(h) >= Num(watch.frontier) /\ h # EmptyHash /\ h \in 0..Len(block)
    <3>1. h # EmptyHash /\ h \in 0..Len(block)
      BY <2>2 DEF EmptyHash, ObsTypes, ChainGood, ChainTypeOK
    <3> QED
      BY <1>2, <2>2, <2>4, <3>1 DEF Num
  <2>6. Moves("cursor", h, watch.outcome)
    BY <1>2, <2>1
  <2> QED
    BY <1>w, <2>5, <2>6, GoesOn
<1> QED
  BY <1>d, <1>1, <1>2, HeadMovesOn

LEMMA CursorKeeps ==
  ASSUME ObsTypes, Minds(watch), Proves(watch), WatchCursor
  PROVE  Keeping
<1> SUFFICES ASSUME NEW v, v = watch' PROVE Minds(v) /\ Proves(v)
  BY DEF Keeping
<1>d. DOMAIN watch = WatchFields /\ watch.phase = "cursor"
  BY DEF ObsTypes, WatchTypes, WatchCursor
<1>w. /\ watch.phase \in InProof /\ watch.phase \in Ranging /\ watch.head \in 0..Len(block)
      /\ "decide" \notin Ranging
  BY <1>d DEF InProof, Ranging, Minds
<1>1. ASSUME NEW o \in {"idle", "error"}, Moves("decide", watch.head, o)
      PROVE  Minds(v) /\ Proves(v)
  BY <1>w, <1>1, GoesOn
<1>2. CASE Moves("logs", watch.head, watch.outcome)
  <2>1. watch.head # EmptyHash /\ Num(watch.head) >= Num(watch.frontier)
    BY <1>w DEF Minds
  <2> QED
    BY <1>w, <1>2, <2>1, GoesOn
<1> QED
  BY <1>d, <1>1, <1>2, CursorMoves

LEMMA LogsKeep ==
  ASSUME ObsTypes, Minds(watch), Proves(watch), WatchLogs
  PROVE  Keeping
<1> SUFFICES ASSUME NEW v, v = watch' PROVE Minds(v) /\ Proves(v)
  BY DEF Keeping
<1>d. DOMAIN watch = WatchFields /\ watch.phase = "logs"
  BY DEF ObsTypes, WatchTypes, WatchLogs
<1>w. /\ watch.phase \in InProof /\ watch.phase \in Ranging /\ watch.head \in 0..Len(block)
      /\ "decide" \notin Ranging
  BY <1>d DEF InProof, Ranging, Minds
<1>1. ASSUME NEW o \in {"idle", "error"}, Moves("decide", watch.head, o)
      PROVE  Minds(v) /\ Proves(v)
  BY <1>w, <1>1, GoesOn
<1>2. CASE Matched /\ Moves("recheck", watch.head, watch.outcome)
  <2>1. /\ watch.head # EmptyHash /\ Num(watch.head) >= Num(watch.frontier)
        /\ watch.frontier # EmptyHash /\ watch.applied = watch.evidence
        /\ Range(watch.evidence) \subseteq 1..Len(block)
        /\ watch.frontier \in 0..Len(block)
    BY <1>w DEF Minds, Recalled
  <2>2. watch.head \in 1..Len(block) /\ watch.frontier \in 1..Len(block)
    BY <1>w, <2>1 DEF EmptyHash, ObsTypes, ChainGood, ChainTypeOK
  <2>3. PICK f, h, E : f = watch.frontier /\ h = watch.head /\ E = Range(watch.applied)
    OBVIOUS
  <2>4. HeaderIs(h) => Spans(f, h, E)
    BY <1>2, <2>1, <2>2, <2>3, SpansMatched
  <2>5. HeaderIs(watch.head) => Spans(watch.frontier, watch.head, Range(watch.evidence))
    BY <2>1, <2>3, <2>4
  <2> QED
    BY <1>w, <1>2, <2>1, <2>5, GoesOn
<1> QED
  BY <1>d, <1>1, <1>2, LogsMove

LEMMA RecheckKeeps ==
  ASSUME ObsTypes, Minds(watch), Proves(watch), WatchRecheck
  PROVE  Keeping
<1> SUFFICES ASSUME NEW v, v = watch' PROVE Minds(v) /\ Proves(v)
  BY DEF Keeping
<1>d. DOMAIN watch = WatchFields /\ watch.phase = "recheck"
  BY DEF ObsTypes, WatchTypes, WatchRecheck
<1>w. /\ watch.phase \in InProof /\ watch.phase \in Ranging /\ watch.head \in 0..Len(block)
      /\ "decide" \notin Ranging
  BY <1>d DEF InProof, Ranging, Minds
<1>1. CASE Moves("decide", watch.head, "error")
  BY <1>w, <1>1, GoesOn
<1>2. CASE HeaderIs(watch.frontier) /\ Moves("headcheck", watch.head, watch.outcome)
  <2>1. /\ watch.head # EmptyHash /\ Num(watch.head) >= Num(watch.frontier)
        /\ watch.frontier # EmptyHash /\ watch.previous.base # EmptyHash
        /\ watch.frontier \in 0..Len(block) /\ watch.previous.base \in 0..Len(block)
        /\ Range(watch.evidence) \subseteq 1..Len(block)
    BY <1>w DEF Minds, Recalled
  <2>2. /\ watch.head \in 1..Len(block) /\ watch.frontier \in 1..Len(block)
        /\ watch.previous.base \in 1..Len(block)
    BY <1>w, <2>1 DEF EmptyHash, ObsTypes, ChainGood, ChainTypeOK
  <2>3. /\ Covers(watch.frontier, watch.previous.base, Range(watch.evidence))
        /\ HeaderIs(watch.head) => Spans(watch.frontier, watch.head, Range(watch.evidence))
    BY <1>d, <1>2, <2>1 DEF Proves
  <2>4. PICK f, h, b, E : /\ f = watch.frontier /\ h = watch.head /\ b = watch.previous.base
                          /\ E = Range(watch.evidence)
    OBVIOUS
  <2>5. HeaderIs(h) => Proved(h, b, E)
    BY <1>2, <2>1, <2>2, <2>3, <2>4, ProvedHead
  <2>6. HeaderIs(watch.head) => Proved(watch.head, watch.previous.base, Range(watch.evidence))
    BY <2>4, <2>5
  <2> QED
    BY <1>w, <1>2, <2>1, <2>6, GoesOn
<1> QED
  BY <1>d, <1>1, <1>2, RecheckMoves

LEMMA HeadCheckKeeps ==
  ASSUME ObsTypes, Minds(watch), Proves(watch), WatchHeadCheck
  PROVE  Keeping
<1> SUFFICES ASSUME NEW v, v = watch' PROVE Minds(v) /\ Proves(v)
  BY DEF Keeping
<1>d. DOMAIN watch = WatchFields /\ watch.phase = "headcheck"
  BY DEF ObsTypes, WatchTypes, WatchHeadCheck
<1>w. /\ watch.phase \in InProof /\ watch.phase \in Ranging /\ watch.head \in 0..Len(block)
      /\ "decide" \notin Ranging
  BY <1>d DEF InProof, Ranging, Minds
<1>1. CASE Moves("decide", watch.head, "error")
  BY <1>w, <1>1, GoesOn
<1>2. CASE HeaderIs(watch.head) /\ Moves("decide", watch.head, "advanced")
  <2>1. /\ watch.head # EmptyHash
        /\ Proved(watch.head, watch.previous.base, Range(watch.evidence))
    BY <1>d, <1>w, <1>2 DEF Minds, Proves
  <2> QED
    BY <1>w, <1>2, <2>1, GoesOn
<1> QED
  BY <1>d, <1>1, <1>2, HeadCheckMoves

LEMMA UnavailableKeeps ==
  ASSUME ObsTypes, Minds(watch), Proves(watch), WatchUnavailable
  PROVE  Keeping
<1> SUFFICES ASSUME NEW v, v = watch' PROVE Minds(v) /\ Proves(v)
  BY DEF Keeping
<1>d. /\ DOMAIN watch = WatchFields
      /\ watch.phase \in {"head", "cursor", "logs", "recheck", "headcheck"}
  BY DEF ObsTypes, WatchTypes, WatchUnavailable
<1>w. watch.phase \in InProof /\ watch.head \in 0..Len(block) /\ "decide" \notin Ranging
  BY <1>d DEF InProof, Ranging, Minds
<1>1. Moves("decide", watch.head, "unavailable")
  BY <1>d, UnavailableMoves
<1> QED
  BY <1>w, <1>1, GoesOn

\* The proved block counts once the state is still the one that was read.
LEMMA GoodNow ==
  ASSUME ObsTypes, OrderInv, PoolInv, PriceInv, Minds(watch), retained # Nil,
         NEW h, h = watch.head, h # EmptyHash, watch.phase \in InProof,
         Proved(h, watch.previous.base, Range(watch.evidence)),
         retained.received = watch.previous.received
  PROVE  Good(h)
<1>1. PICK b, J : b = retained.base /\ J = Range(journal)
  OBVIOUS
<1>2. watch.previous.base = b /\ Range(watch.evidence) = J
  BY <1>1 DEF Minds, Recalled
<1>3. h \in 1..Len(block)
  BY DEF Minds, EmptyHash, ObsTypes, ChainGood, ChainTypeOK
<1>4. Proved(h, b, J)
  BY <1>2
<1> QED
  BY <1>1, <1>3, <1>4, GoodProved

LEMMA DecideKeeps ==
  ASSUME ObsTypes, OrderInv, PoolInv, PriceInv, Minds(watch), Proves(watch), WatchDecide
  PROVE  Keeping
<1> SUFFICES ASSUME NEW v, v = watch' PROVE Minds(v) /\ Proves(v)
  BY DEF Keeping
<1>d. DOMAIN watch = WatchFields /\ watch.phase = "decide"
  BY DEF ObsTypes, WatchTypes, WatchDecide
<1>w. /\ watch.phase \in InProof /\ watch.head \in 0..Len(block) /\ watch.frontier \in 0..Len(block)
      /\ Range(watch.evidence) \subseteq 1..Len(block)
      /\ watch.previous.base # EmptyHash /\ watch.state = watch.previous
      /\ watch.applied = watch.evidence
  BY <1>d DEF InProof, Minds, Recalled
<1>f. watch.outcome = "advanced" =>
        watch.head # EmptyHash /\ Proved(watch.head, watch.previous.base, Range(watch.evidence))
  BY <1>d DEF Proves
<1>1. CASE Waits([watch EXCEPT !.previous = NoState])
  <2>1. /\ v.previous = NoState /\ v.phase = "wait" /\ v.head = EmptyHash
        /\ v.evidence = watch.evidence /\ v.frontier = watch.frontier
    BY <1>d, <1>1 DEF Waits, WatchFields, NoWatch
  <2>2. "wait" \notin InProof /\ EmptyHash \in 0..Len(block)
    BY DEF InProof, EmptyHash, ObsTypes, ChainGood, ChainTypeOK
  <2> QED
    BY <1>w, <2>1, <2>2, Blank
<1>2. CASE Waits(watch)
  BY <1>2, WaitsOn
<1>3. CASE watch.outcome = "advanced" /\ Waits([watch EXCEPT !.frontier = watch.head])
  <2>1. PICK w : w = [watch EXCEPT !.frontier = watch.head]
    OBVIOUS
  <2>2. w.previous = watch.previous /\ w.evidence = watch.evidence /\ w.frontier = watch.head
    BY <1>d, <2>1 DEF WatchFields, NoWatch
  <2>3. Covers(watch.head, watch.previous.base, Range(watch.evidence))
    BY <1>f, <1>3 DEF Proved
  <2> QED
    BY <1>3, <2>1, <2>2, <2>3, WaitsOn
<1>4. CASE /\ watch.outcome = "advanced" /\ Active /\ State = watch.state
           /\ watch' = [watch EXCEPT !.phase = "apply", !.frontier = watch.head]
  <2>1. /\ v.phase = "apply" /\ v.frontier = watch.head /\ v.head = watch.head
        /\ v.state = watch.state /\ v.applied = watch.applied /\ v.previous = watch.previous
        /\ v.evidence = watch.evidence
    BY <1>d, <1>4 DEF WatchFields, NoWatch
  <2>2. "apply" \notin Ranging
    BY DEF Ranging
  <2>3. Minds(v)
    BY <1>f, <1>w, <1>4, <2>1, <2>2 DEF Minds
  <2>4. retained # Nil /\ retained.received = watch.previous.received
    BY <1>w, <1>4, StateIs DEF Active
  <2>5. Good(watch.head)
    BY <1>f, <1>w, <1>4, <2>4, GoodNow
  <2>6. Covers(watch.head, watch.previous.base, Range(watch.evidence))
    BY <1>f, <1>4 DEF Proved
  <2>7. Proves(v)
    BY <1>f, <1>4, <2>1, <2>5, <2>6 DEF Proves
  <2> QED
    BY <2>3, <2>7
<1>5. CASE Moves("failed", watch.head, watch.outcome)
  <2>1. "failed" \notin InProof /\ "failed" \notin Ranging
    BY DEF InProof, Ranging
  <2> QED
    BY <1>w, <1>5, <2>1, GoesOn
<1> QED
  BY <1>d, <1>1, <1>2, <1>3, <1>4, <1>5, DecideIs

\* What is confirmed is the state that was proved, or what was confirmed before.
LEMMA ConfirmKeeps ==
  ASSUME ObsTypes, Minds(watch), Proves(watch), Confirms(progress), WatchConfirm
  PROVE  Keeping /\ \A p : p = progress' => Confirms(p)
<1>d. DOMAIN watch = WatchFields /\ watch.phase = "apply"
  BY DEF ObsTypes, WatchTypes, WatchConfirm
<1>1. Waits(watch)
  BY <1>d, WaitsIs DEF WatchConfirm
<1>2. Keeping
  BY <1>1, WaitsOn DEF Keeping
<1>3. CASE progress' = progress
  BY <1>2, <1>3
<1>4. CASE Active /\ State = watch.state /\ progress' = [state |-> State, head |-> watch.head]
  <2>1. watch.state = watch.previous /\ watch.head # EmptyHash /\ watch.head \in 0..Len(block)
    BY <1>d DEF Minds, Proves, InProof
  <2>2. State.received \in Nat /\ State.received <= clock /\ State.received = retained.received
    BY <1>4, <2>1, StateIs DEF Minds, Recalled
  <2>3. retained # Nil /\ retained.received = watch.state.received
    BY <1>4, <2>2 DEF Active
  <2>4. Good(watch.head) /\ watch.head \in 1..Len(block)
    BY <1>d, <2>1, <2>3 DEF Proves, EmptyHash, ObsTypes, ChainGood, ChainTypeOK
  <2>5. ASSUME NEW p, p = progress' PROVE Confirms(p)
    <3>1. p.state = State /\ p.head = watch.head
      BY <1>4, <2>5
    <3> QED
      BY <2>2, <2>4, <3>1 DEF Confirms
  <2> QED
    BY <1>2, <2>5
<1> QED
  BY <1>3, <1>4 DEF WatchConfirm

LEMMA WatchKeeps ==
  ASSUME ObsTypes, OrderInv, PoolInv, PriceInv, FetchInv, Minds(watch), Proves(watch),
         Confirms(progress), Watch
  PROVE  Keeping /\ \A p : p = progress' => Confirms(p)
<1>1. CASE WatchConfirm
  BY <1>1, ConfirmKeeps
<1>2. CASE WatchRead \/ WatchHead \/ WatchCursor \/ WatchLogs \/ WatchRecheck \/ WatchHeadCheck
           \/ WatchUnavailable \/ WatchDecide
  <2>1. progress' = progress
    BY <1>2 DEF WatchRead, WatchHead, WatchCursor, WatchLogs, WatchRecheck, WatchHeadCheck,
       WatchUnavailable, WatchDecide
  <2>2. Keeping
    BY <1>2, ReadKeeps, HeadKeeps, CursorKeeps, LogsKeep, RecheckKeeps, HeadCheckKeeps,
       UnavailableKeeps, DecideKeeps
  <2> QED
    BY <2>1, <2>2
<1> QED
  BY <1>1, <1>2 DEF Watch

-----------------------------------------------------------------------------
(* The invariant. *)

WatchInv == Minds(watch) /\ Proves(watch) /\ Confirms(progress)

LEMMA WatchKinds ==
  ASSUME [ObsNext]_obsVars
  PROVE  \/ Watch
         \/ watch' = watch /\ progress' = progress
         \/ watch' = NoWatch /\ progress' = progress
         \/ watch' = [NoWatch EXCEPT !.phase = "wait"] /\ progress' = progress
  BY DEF ObsNext, SubscribeAndWatch, ExitJoined, WatchFails, obsVars

\* A watcher that has not begun remembers nothing.
LEMMA NoWatchIs ==
  ASSUME ObsTypes, NEW v, v = NoWatch \/ v = [NoWatch EXCEPT !.phase = "wait"]
  PROVE  Minds(v) /\ Proves(v) /\ v.phase \notin InProof
<1>1. /\ v.previous = NoState /\ v.evidence = <<>> /\ v.frontier = EmptyHash /\ v.head = EmptyHash
      /\ v.phase \in {"off", "wait"}
  BY DEF NoWatch
<1>2. Range(v.evidence) = {}
  BY <1>1 DEF Range
<1>3. EmptyHash \in 0..Len(block) /\ v.phase \notin InProof
  BY <1>1 DEF EmptyHash, InProof, ObsTypes, ChainGood, ChainTypeOK
<1> QED
  BY <1>1, <1>2, <1>3, Blank

\* What is not in a proof and remembers nothing proves nothing, whatever the state.
LEMMA NothingProved ==
  ASSUME NEW v, v.previous = NoState, v.phase \notin InProof
  PROVE  Proves(v)'
<1>1. v.previous.base = EmptyHash
  BY NoStateIs
<1>2. v.phase \notin {"recheck", "headcheck", "decide", "apply"}
  BY DEF InProof
<1> QED
  BY <1>1, <1>2 DEF Proves

LEMMA WatchInvStep ==
  ObsTypes /\ Calls /\ OrderInv /\ Fits /\ Attempts /\ PoolInv /\ PriceInv /\ FetchInv /\ WatchInv
    /\ [ObsNext]_obsVars => WatchInv'
<1> SUFFICES ASSUME ObsTypes, Calls, OrderInv, Fits, Attempts, PoolInv, PriceInv, FetchInv, WatchInv,
                    [ObsNext]_obsVars
             PROVE  WatchInv'
  OBVIOUS
<1>1. PICK v, p : v = watch' /\ p = progress'
  OBVIOUS
<1>2. /\ Minds(v) /\ Confirms(p)
      /\ \/ Proves(v) /\ events' = events
         \/ v.previous = NoState /\ v.phase \notin InProof
  <2>1. CASE Watch
    <3>1. Keeping /\ \A q : q = progress' => Confirms(q)
      BY <2>1, WatchKeeps DEF WatchInv
    <3>2. events' = events
      BY <2>1, WatchFrame DEF sessionVars, lifeVars
    <3> QED
      BY <1>1, <3>1, <3>2 DEF Keeping
  <2>2. CASE watch' = watch /\ progress' = progress
    <3>1. Minds(v) /\ Proves(v) /\ Confirms(p)
      BY <1>1, <2>2 DEF WatchInv
    <3>2. CASE session # "idle"
      BY <3>1, <3>2, EventsSame
    <3>3. CASE session = "idle"
      <4>1. v = NoWatch
        BY <1>1, <2>2, <3>3 DEF Calls
      <4> QED
        BY <3>1, <4>1, NoWatchIs DEF NoWatch
    <3> QED
      BY <3>2, <3>3
  <2>3. CASE /\ watch' = NoWatch \/ watch' = [NoWatch EXCEPT !.phase = "wait"]
             /\ progress' = progress
    <3>1. v = NoWatch \/ v = [NoWatch EXCEPT !.phase = "wait"]
      BY <1>1, <2>3
    <3>2. v.previous = NoState
      BY <3>1 DEF NoWatch
    <3> QED
      BY <1>1, <2>3, <3>1, <3>2, NoWatchIs DEF WatchInv
  <2> QED
    BY <2>1, <2>2, <2>3, WatchKinds
<1>3. Minds(v)'
  BY <1>2, MindsStep
<1>4. Proves(v)'
  BY <1>2, ProvesStep, NothingProved
<1>5. Confirms(p)'
  BY <1>2, ConfirmsStep
<1> QED
  BY <1>1, <1>3, <1>4, <1>5 DEF WatchInv

\* The invariant: what the session, the pool's cache and the watcher hold together.
ObsInv ==
    /\ ObsTypes /\ Calls /\ OrderInv /\ Attempts /\ Plain
    /\ PoolInv /\ PriceInv /\ FetchInv /\ WatchInv

LEMMA ObsInvInit == ObsInit => ObsInv
<1> SUFFICES ASSUME ObsInit PROVE ObsInv
  OBVIOUS
<1>1. ObsTypes /\ Calls /\ OrderInv /\ Attempts /\ Plain
  BY ObsTypesInit, CallsInit, PlainInit
<1>2. retained = Nil /\ watch = NoWatch /\ progress = [state |-> NoState, head |-> EmptyHash]
  BY DEF ObsInit, Init
<1>3. PoolInv /\ PriceInv /\ FetchInv
  BY <1>2 DEF PoolInv, PriceInv, FetchInv
<1>4. Minds(watch) /\ Proves(watch)
  BY <1>1, <1>2, NoWatchIs
<1>5. progress.state.received = 0 /\ clock \in Nat
  BY <1>1, <1>2, NoStateIs DEF ObsTypes, FlagTypes
<1>6. Confirms(progress)
  BY <1>2, <1>5 DEF Confirms
<1> QED
  BY <1>1, <1>3, <1>4, <1>6 DEF ObsInv, WatchInv

LEMMA ObsInvStep == Fits /\ ObsInv /\ [ObsNext]_obsVars => ObsInv'
<1> SUFFICES ASSUME Fits, ObsInv, [ObsNext]_obsVars PROVE ObsInv'
  OBVIOUS
<1>1. /\ ObsTypes /\ Calls /\ OrderInv /\ Attempts /\ Plain
      /\ PoolInv /\ PriceInv /\ FetchInv /\ WatchInv
  BY DEF ObsInv
<1>2. ObsTypes' /\ Calls' /\ OrderInv'
  BY <1>1, ObsTypesStep, CallsStep, OrderStep
<1>3. Attempts' /\ Plain'
  BY <1>1, AttemptsStep, PlainStep
<1>4. PoolInv' /\ PriceInv' /\ FetchInv'
  BY <1>1, PoolStep, PriceStep, FetchStep
<1>5. WatchInv'
  BY <1>1, WatchInvStep
<1> QED
  BY <1>2, <1>3, <1>4, <1>5 DEF ObsInv

\* What an idle pool is confirmed to be: however the confirmation time, read later and by
\* others, meets logs, recaptures and lost sessions in between, as long as it counts for the
\* retained state (the state fence: baseline, cursor, generation and receipt time) that pool
\* has each liquidity delta of the proved block once and no other, and, in a session that
\* ends at removed logs, the price of the last swap up to it.  Fits is the environment of
\* Observation 1: a journal longer than the chain (nothing is evicted), a stream that is not
\* behind the RPC node, and no duplicate logs where RunRetained is used.
THEOREM ConfirmedSafe == Fits => (ObsSpec => []ConfirmedState)
<1>1. ObsInit => ObsInv
  BY ObsInvInit
<1>2. Fits /\ ObsInv /\ [ObsNext]_obsVars => ObsInv'
  BY ObsInvStep
<1>3. ObsInv => ConfirmedState
  <2> SUFFICES ASSUME ObsInv, Confirmed PROVE
        /\ retained.ticks = DeltasOf(progress.head) /\ retained.twice = {}
        /\ ~events => retained.price = PriceOf(progress.head)
    BY DEF ConfirmedState
  <2>1. retained # Nil /\ progress.state = State
    BY DEF Confirmed, Active
  <2>2. retained.received = progress.state.received
    BY <2>1, StateIs
  <2>3. Good(progress.head)
    BY <2>1, <2>2 DEF ObsInv, WatchInv, Confirms
  <2> QED
    BY <2>3 DEF Good
<1>4. SUFFICES ASSUME Fits PROVE ObsSpec => []ConfirmedState
  OBVIOUS
<1>5. ObsInv /\ [ObsNext]_obsVars => ObsInv'
  BY <1>2, <1>4
<1> QED
  BY <1>1, <1>3, <1>5, PTL DEF ObsSpec

-----------------------------------------------------------------------------
(* The buffer of a capture has all that its baseline may lack. *)

\* One session, and room in the buffer for every block.
Roomy == MaxSessions <= 1 /\ ReplayLimit >= MaxBlocks

\* The session is the first that remembers notices.
FirstSession ==
    /\ budget.sessions <= 1 /\ (session # "idle" => budget.sessions = 0)
    /\ budget.sessions > 0 \/ session = "subscribing" => seen = <<>>

\* Until something is retained, every log received is buffered, or at most at the block from
\* which a capture is read.
Received ==
    \A log \in Range(seen) : log.removed \/ log.num <= recoveryFloor \/ log.hash \in Range(replay)

HeardInv ==
    session = "live" =>
      /\ ~events => seen = <<>>
      /\ \A log \in Range(seen) : log.num <= observedBlock
      /\ retained = Nil => Received
      /\ retained = Nil => \A m \in Nat : Asks(m) => recoveryFloor <= m

LEMMA FirstInit == Roomy /\ ObsInit => FirstSession /\ HeardInv /\ Placed(replay)
<1> SUFFICES ASSUME Roomy, ObsInit PROVE FirstSession /\ HeardInv /\ Placed(replay)
  OBVIOUS
<1>1. session = "idle" /\ seen = <<>> /\ replay = <<>> /\ budget.sessions = MaxSessions
  BY DEF ObsInit, Init
<1> QED
  BY <1>1, OneRange DEF FirstSession, HeardInv, Roomy

\* Only a live session receives notices.
LEMMA SeenSame ==
  ASSUME [ObsNext]_obsVars
  PROVE  \/ seen' = seen
         \/ LogApplied /\ events /\ session = "live" /\ session' = "live"
         \/ LogSkipped /\ session = "live" /\ session' = "live"
<1>1. CASE LogApplied \/ LogSkipped
  BY <1>1 DEF LogApplied, LogSkipped, Waiting, lifeVars
<1>2. CASE NewBlock \/ HeadMoves \/ DelayPasses \/ SessionStart \/ SessionLost \/ StartCapture
           \/ RequestRecovery \/ TakeRecovery \/ SubscribeAndWatch \/ ExitJoined \/ WatchFails
  BY <1>2 DEF NewBlock, HeadMoves, DelayPasses, SessionStart, SessionLost, StartCapture, sessionVars,
     RequestRecovery, TakeRecovery, SubscribeAndWatch, SessionSubscribe, ExitJoined, SessionExit,
     WatchFails
<1>3. CASE Worker \/ Result
  BY <1>3 DEF Worker, WorkerCapture, WorkerResume, WorkerReads, WorkerVerify, WorkerFails,
     workerFrame, Result, ResultStale, ResultFailed, ResultInstalled, ResultContradicted, resultFrame
<1>4. CASE LogRemovedStops \/ LogGarbled \/ LogStops
  BY <1>4 DEF LogRemovedStops, LogGarbled, LogStops
<1>5. CASE Watch \/ UNCHANGED obsVars
  BY <1>5, WatchFrame DEF sessionVars, obsVars, vars
<1> QED
  BY <1>1, <1>2, <1>3, <1>4, <1>5 DEF ObsNext, Others, LogStep

LEMMA SessionsSame ==
  ASSUME FlagTypes, [ObsNext]_obsVars, ~SessionStart
  PROVE  budget'.sessions = budget.sessions
<1>1. budget' = budget \/ \E what \in {"faults", "duplicates", "refreshes"} : Spend(what)
  <2>1. CASE NewBlock \/ HeadMoves \/ DelayPasses \/ SessionLost \/ StartCapture
    BY <2>1 DEF NewBlock, HeadMoves, DelayPasses, SessionLost, StartCapture
  <2>2. CASE Worker
    BY <2>2 DEF Worker, WorkerCapture, WorkerResume, WorkerReads, WorkerVerify, WorkerFails, workerFrame
  <2>3. CASE Result
    BY <2>3 DEF Result, ResultStale, ResultFailed, ResultInstalled, ResultContradicted, NeedsCapture
  <2>4. CASE LogStep
    BY <2>4 DEF LogStep, LogRemovedStops, LogSkipped, LogGarbled, LogApplied, LogStops, Take
  <2>5. CASE RequestRecovery \/ TakeRecovery \/ SubscribeAndWatch \/ ExitJoined \/ WatchFails
    BY <2>5 DEF RequestRecovery, TakeRecovery, SubscribeAndWatch, SessionSubscribe, ExitJoined,
       SessionExit, WatchFails
  <2>6. CASE Watch \/ UNCHANGED obsVars
    BY <2>6 DEF Watch, WatchRead, WatchHead, WatchCursor, WatchLogs, WatchRecheck, WatchHeadCheck,
       WatchUnavailable, WatchDecide, WatchConfirm, vars, obsVars
  <2> QED
    BY <2>1, <2>2, <2>3, <2>4, <2>5, <2>6 DEF ObsNext, Others
<1>2. ASSUME NEW what \in {"faults", "duplicates", "refreshes"}, Spend(what)
      PROVE  budget'.sessions = budget.sessions
  <2>1. budget' = [budget EXCEPT ![what] = budget[what] - 1] /\ budget \in Budget
    BY <1>2 DEF Spend, FlagTypes
  <2> QED
    BY <1>2, <2>1 DEF Budget
<1> QED
  BY <1>1, <1>2

LEMMA FirstStep ==
  ObsTypes /\ Calls /\ FirstSession /\ [ObsNext]_obsVars => FirstSession'
<1> SUFFICES ASSUME ObsTypes, Calls, FirstSession, [ObsNext]_obsVars PROVE FirstSession'
  OBVIOUS
<1>t. FlagTypes /\ budget \in Budget /\ budget.sessions \in Nat
  BY DEF ObsTypes, FlagTypes, Budget
<1>1. CASE SessionStart
  <2>1. budget.sessions > 0 /\ budget'.sessions = budget.sessions - 1 /\ seen' = seen /\ session = "idle"
    <3>1. Spend("sessions") /\ seen' = seen /\ session = "idle"
      BY <1>1 DEF SessionStart
    <3>2. budget' = [budget EXCEPT !["sessions"] = budget["sessions"] - 1] /\ budget["sessions"] > 0
      BY <3>1 DEF Spend
    <3> QED
      BY <1>t, <3>1, <3>2 DEF Budget
  <2> QED
    BY <1>t, <2>1 DEF FirstSession
<1>2. CASE ~SessionStart
  <2>1. budget'.sessions = budget.sessions
    BY <1>2, <1>t, SessionsSame
  <2>2. session' # "idle" => session # "idle"
    <3>1. CASE Watch \/ UNCHANGED obsVars
      BY <3>1, WatchFrame DEF sessionVars, lifeVars, obsVars, vars
    <3>2. CASE Worker \/ Result \/ LogStep
      BY <3>2, Zenon DEF Worker, WorkerCapture, WorkerResume, WorkerReads, WorkerVerify, WorkerFails,
         workerFrame, lifeVars, Result, ResultStale, ResultFailed, ResultInstalled,
         ResultContradicted, ResultReady, LogStep, LogRemovedStops, LogSkipped, LogGarbled,
         LogApplied, LogStops, Waiting
    <3>3. CASE NewBlock \/ HeadMoves \/ DelayPasses \/ SessionLost \/ StartCapture
           \/ RequestRecovery \/ TakeRecovery \/ SubscribeAndWatch \/ ExitJoined \/ WatchFails
      BY <3>3 DEF NewBlock, HeadMoves, DelayPasses, SessionLost, StartCapture, CaptureDue, sessionVars,
         RequestRecovery, TakeRecovery, SubscribeAndWatch, SessionSubscribe, ExitJoined, SessionExit,
         WatchFails, Waiting, lifeVars
    <3> QED
      BY <1>2, <3>1, <3>2, <3>3 DEF ObsNext, Others
  <2>3. session' = "subscribing" => session = "subscribing" /\ seen' = seen
    <3>1. CASE Watch \/ UNCHANGED obsVars
      BY <3>1, WatchFrame DEF sessionVars, lifeVars, obsVars, vars
    <3>2. CASE Worker
      BY <3>2, Zenon DEF Worker, WorkerCapture, WorkerResume, WorkerReads, WorkerVerify, WorkerFails,
         workerFrame, lifeVars
    <3>3. CASE Result \/ LogStep
      BY <3>3 DEF Result, ResultStale, ResultFailed, ResultInstalled, ResultContradicted, ResultReady,
         LogStep, LogRemovedStops, LogSkipped, LogGarbled, LogApplied, LogStops, Waiting,
         SessionStop, lifeVars
    <3>4. CASE NewBlock \/ HeadMoves \/ DelayPasses \/ SessionLost \/ StartCapture
           \/ RequestRecovery \/ TakeRecovery \/ SubscribeAndWatch \/ ExitJoined \/ WatchFails
      BY <3>4 DEF NewBlock, HeadMoves, DelayPasses, SessionLost, StartCapture, CaptureDue, sessionVars,
         RequestRecovery, TakeRecovery, SubscribeAndWatch, SessionSubscribe, ExitJoined, SessionExit,
         WatchFails, Waiting, SessionStop, lifeVars
    <3> QED
      BY <1>2, <3>1, <3>2, <3>3, <3>4 DEF ObsNext, Others
  <2>4. budget.sessions > 0 => seen' = seen
    BY SeenSame DEF FirstSession
  <2> QED
    BY <2>1, <2>2, <2>3, <2>4 DEF FirstSession
<1> QED
  BY <1>1, <1>2

\* The buffer has room for the log that comes next.
LEMMA Room ==
  ASSUME ObsTypes, OrderInv, Roomy, Placed(replay), NEW h, Takes(h)
  PROVE  ~Overflows /\ Placed(replay')
<1>t. /\ replay \in Seq(Hash) /\ h \in Hash /\ h \in Nat /\ h >= 1 /\ h <= MaxBlocks
      /\ MaxBlocks \in Nat /\ ReplayLimit \in Nat /\ Len(replay) \in Nat
  <2>1. Len(block) \in 1..MaxBlocks /\ MaxBlocks \in Nat /\ h \in 1..Len(block)
    BY ChainAssumption DEF ObsTypes, ChainGood, ChainTypeOK, Takes
  <2> QED
    BY <2>1, RetainedAssumption DEF ObsTypes, StreamTypes, Hash
<1>1. \A i \in 1..Len(replay) : replay[i] \in Nat /\ replay[i] < h /\ i <= replay[i]
  <2>1. \A x \in Range(replay) : x < h /\ x \in Nat
    BY <1>t DEF Takes, OrderInv
  <2> QED
    BY <1>t, <2>1 DEF Range, Placed
<1>2. Len(replay) < h
  <2>1. CASE Len(replay) = 0
    BY <1>t, <2>1
  <2>2. CASE Len(replay) # 0
    <3>1. Len(replay) \in 1..Len(replay)
      BY <1>t, <2>2
    <3> QED
      BY <1>t, <1>1, <3>1
  <2> QED
    BY <2>1, <2>2
<1>3. ~Overflows
  BY <1>t, <1>2 DEF Overflows, Roomy
<1>4. Placed(<<h>>)
  BY <1>t DEF Placed
<1>5. Placed(Append(replay, h))
  <2> DEFINE r == Append(replay, h)
  <2>1. Len(r) = Len(replay) + 1 /\ (\A i \in 1..Len(replay) : r[i] = replay[i]) /\ r[Len(replay) + 1] = h
    BY <1>t
  <2> HIDE DEF r
  <2>2. \A i \in 1..Len(r) : i \in 1..Len(replay) \/ i = Len(replay) + 1
    BY <1>t, <2>1
  <2>3. Placed(r)
    BY <1>t, <1>1, <1>2, <2>1, <2>2 DEF Placed
  <2> QED
    BY <2>3 DEF r
<1> QED
  BY <1>3, <1>4, <1>5 DEF Takes

LEMMA PlacedStep ==
  ObsTypes /\ Calls /\ OrderInv /\ Fits /\ Roomy /\ Placed(replay) /\ [ObsNext]_obsVars
    => Placed(replay')
<1> SUFFICES ASSUME ObsTypes, Calls, OrderInv, Fits, Roomy, Placed(replay), [ObsNext]_obsVars
             PROVE  Placed(replay')
  OBVIOUS
<1>1. ASSUME NEW n, NEW log, Brings(n, log) PROVE replay' = replay
  BY <1>1 DEF Brings, sessionVars, loopVars
<1> QED
  BY <1>1, Kinds5, Room, OneRange DEF Installs, Calm

\* What a step leaves alone of what was received.
LEMMA HeardSame ==
  ASSUME HeardInv, session = "live", ObsTypes, UNCHANGED <<seen, events, recoveryFloor>>,
         observedBlock' = observedBlock, retained' = Nil => retained = Nil,
         retained' = Nil => Range(replay) \subseteq Range(replay'),
         \A m \in Nat : Asks(m)' /\ retained' = Nil => AsksOn(m) \/ recoveryFloor <= m
  PROVE  HeardInv'
<1>1. /\ ~events' => seen' = <<>>
      /\ \A log \in Range(seen') : log.num <= observedBlock'
  BY DEF HeardInv
<1> SUFFICES ASSUME retained' = Nil
             PROVE  Received' /\ \A m \in Nat : Asks(m)' => recoveryFloor' <= m
  BY <1>1 DEF HeardInv
<1>2. Received'
  BY DEF HeardInv, Received
<1>3. ASSUME NEW m \in Nat, Asks(m)' PROVE recoveryFloor' <= m
  <2>1. CASE AsksOn(m)
    <3>1. PICK k \in Nat : Asks(k) /\ k <= m
      BY <2>1 DEF AsksOn
    <3>2. recoveryFloor <= k /\ recoveryFloor \in Nat
      BY <3>1 DEF HeardInv, ObsTypes, FlagTypes
    <3> QED
      BY <3>1, <3>2
  <2> QED
    BY <1>3, <2>1
<1> QED
  BY <1>2, <1>3

\* Once withdrawn, the inputs are captured again from the newest block observed.
LEMMA HeardInvalidate ==
  ASSUME HeardInv, session = "live", NEW top \in Nat, Invalidate(top), observedBlock' = top,
         observedBlock <= top, observedBlock \in Nat, seen \in Seq(Logs), UNCHANGED <<seen, events>>
  PROVE  HeardInv'
<1>1. capture' = NoCapture /\ recoveryFloor' = top
  BY DEF Invalidate
<1>2. \A m : ~Asks(m)'
  BY <1>1 DEF Asks, NoCapture
<1>3. \A log \in Range(seen) : log.num \in Nat
  <2>1. \A i \in 1..Len(seen) : seen[i] \in Logs
    OBVIOUS
  <2>2. \A log \in Logs : log.num \in Nat
    BY ChainAssumption DEF Logs, Hash
  <2> QED
    BY <2>1, <2>2 DEF Range
<1>4. \A log \in Range(seen) : log.num <= top
  BY <1>3 DEF HeardInv
<1>5. Received'
  BY <1>1, <1>4 DEF Received
<1> QED
  BY <1>1, <1>2, <1>4, <1>5 DEF HeardInv

LEMMA ObservedMore ==
  ASSUME ObsTypes, wire # <<>>
  PROVE  /\ Observe(Head(wire)) \in Nat /\ observedBlock <= Observe(Head(wire))
         /\ Head(wire).num <= Observe(Head(wire)) /\ Head(wire).num \in Nat
<1>1. Head(wire).num \in Nat /\ observedBlock \in Nat
  BY HeadType DEF ObsTypes, FlagTypes
<1> QED
  BY <1>1 DEF Observe

LEMMA SeenNums ==
  ASSUME ObsTypes
  PROVE  \A log \in Range(seen) : log.num \in Nat
<1>1. seen \in Seq(Logs)
  BY DEF ObsTypes, StreamTypes
<1>2. \A i \in 1..Len(seen) : seen[i] \in Logs
  BY <1>1
<1>3. \A log \in Logs : log.num \in Nat
  BY ChainAssumption DEF Logs, Hash
<1> QED
  BY <1>1, <1>2, <1>3 DEF Range

LEMMA HeardApplied ==
  ASSUME ObsTypes, Calls, OrderInv, Fits, Roomy, Placed(replay), HeardInv, Stable, LogApplied
  PROVE  HeardInv'
<1>1. PICK log : log = Head(wire)
  OBVIOUS
<1>2. /\ wire # <<>> /\ log \in Logs /\ log.num \in Nat
      /\ observedBlock <= Observe(log) /\ log.num <= Observe(log) /\ Observe(log) \in Nat
  BY <1>1, HeadType, ObservedMore DEF ObsTypes, LogApplied
<1>3. /\ Takes(log.hash) /\ clock' = clock + 1
      /\ UNCHANGED <<retained, cursor, journal>> \/ PoolAdds(log.hash)
  BY <1>1, TakesIs, PoolTakes
<1>4. ~Overflows
  BY <1>3, Room
<1>5. /\ session = "live" /\ UNCHANGED <<events, session, busy, worker, capture, recoveryFloor>>
      /\ seen' = (IF events THEN Remember(seen, log, ReplayLimit) ELSE seen)
      /\ observedBlock' = (IF events THEN Observe(log) ELSE observedBlock)
      /\ replay' = (IF ~Buffers THEN replay ELSE Append(replay, log.hash))
  BY <1>1, <1>4 DEF LogApplied, Waiting
<1>6. retained' = Nil => retained = Nil
  <2>1. clock + 1 # 0
    BY DEF ObsTypes, FlagTypes
  <2> QED
    BY <1>3, <2>1, NilReceived DEF PoolAdds
<1>7. replay \in Seq(Hash) /\ log.hash \in Hash
  BY <1>2 DEF Logs, ObsTypes, StreamTypes
<1>8. Range(Append(replay, log.hash)) = Range(replay) \cup {log.hash}
  BY <1>7, RangeAppend
<1>9. Range(replay) \subseteq Range(replay')
  BY <1>5, <1>8
<1>10. \A m \in Nat : Asks(m)' => AsksOn(m)
  BY <1>5, <1>9, AsksSame
<1>11. CASE ~events
  BY <1>5, <1>6, <1>9, <1>10, <1>11, HeardSame
<1>12. CASE events
  <2>1. Range(seen') \subseteq Range(seen) \cup {log}
    <3>1. seen \in Seq(Logs) /\ ReplayLimit \in Nat \ {0}
      BY RetainedAssumption DEF ObsTypes, StreamTypes
    <3> QED
      BY <1>2, <1>5, <1>12, <3>1, RememberType
  <2>2. observedBlock' = Observe(log) /\ events'
    BY <1>5, <1>12
  <2>3. \A l \in Range(seen') : l.num <= observedBlock'
    <3> TAKE l \in Range(seen')
    <3>1. CASE l \in Range(seen)
      <4>1. l.num <= observedBlock /\ l.num \in Nat /\ observedBlock \in Nat
        BY <1>5, <3>1, SeenNums DEF HeardInv, ObsTypes, FlagTypes
      <4> QED
        BY <1>2, <2>2, <4>1
    <3>2. CASE l = log
      BY <1>2, <2>2, <3>2
    <3> QED
      BY <2>1, <3>1, <3>2
  <2> SUFFICES ASSUME retained' = Nil
               PROVE  Received' /\ \A m \in Nat : Asks(m)' => recoveryFloor' <= m
    BY <2>2, <2>3 DEF HeardInv
  <2>4. retained = Nil /\ Buffers
    BY <1>6, <1>12 DEF Buffers
  <2>5. Range(replay') = Range(replay) \cup {log.hash}
    BY <1>5, <1>8, <2>4
  <2>6. Received'
    BY <1>5, <2>1, <2>4, <2>5 DEF HeardInv, Received
  <2>7. ASSUME NEW m \in Nat, Asks(m)' PROVE recoveryFloor' <= m
    <3>1. PICK k \in Nat : Asks(k) /\ k <= m
      BY <1>10, <2>7 DEF AsksOn
    <3>2. recoveryFloor <= k /\ recoveryFloor \in Nat
      BY <1>5, <2>4, <3>1 DEF HeardInv, ObsTypes, FlagTypes
    <3> QED
      BY <1>5, <3>1, <3>2
  <2> QED
    BY <2>6, <2>7
<1> QED
  BY <1>11, <1>12

LEMMA HeardSkipped ==
  ASSUME ObsTypes, HeardInv, Stable, LogSkipped
  PROVE  HeardInv'
<1>1. PICK log : log = Head(wire)
  OBVIOUS
<1>2. /\ wire # <<>> /\ session = "live" /\ log \in Logs /\ log.num \in Nat /\ observedBlock \in Nat
      /\ observedBlock <= Observe(log) /\ log.num <= Observe(log) /\ Observe(log) \in Nat
  BY <1>1, HeadType, ObservedMore DEF ObsTypes, FlagTypes, LogSkipped, Waiting
<1>3. /\ UNCHANGED <<session, capture, busy, worker, replay, events, recoveryFloor, retained>>
      /\ \/ UNCHANGED <<seen, observedBlock>>
         \/ /\ events /\ observedBlock' = Observe(log) /\ seen' = Remember(seen, log, ReplayLimit)
            /\ log \in Range(seen) \/ log.removed
  BY <1>1 DEF LogSkipped, stateVars, lifeVars, IsNew
<1>4. \/ UNCHANGED <<seen, observedBlock>>
      \/ Range(seen') \subseteq Range(seen) \cup {log} /\ (log \in Range(seen) => seen' = seen)
  <2>1. seen \in Seq(Logs) /\ ReplayLimit \in Nat \ {0}
    BY RetainedAssumption DEF ObsTypes, StreamTypes
  <2>2. Range(Remember(seen, log, ReplayLimit)) \subseteq Range(seen) \cup {log}
    BY <1>2, <2>1, RememberType
  <2>3. log \in Range(seen) => Remember(seen, log, ReplayLimit) = seen
    BY DEF Remember
  <2> QED
    BY <1>3, <2>2, <2>3
<1>5. \A m \in Nat : Asks(m)' => AsksOn(m)
  BY <1>3, AsksSame
<1>6. CASE UNCHANGED <<seen, observedBlock>>
  BY <1>2, <1>3, <1>5, <1>6, HeardSame
<1>7. CASE ~UNCHANGED <<seen, observedBlock>>
  <2>1. events' /\ observedBlock' = Observe(log) /\ (log \in Range(seen) \/ log.removed)
    BY <1>3, <1>7
  <2>2. \A l \in Range(seen') : l \in Range(seen) \/ (l = log /\ log.removed)
    BY <1>4, <1>7, <2>1
  <2>3. \A l \in Range(seen') : l.num <= observedBlock'
    <3> TAKE l \in Range(seen')
    <3>1. CASE l \in Range(seen)
      <4>1. l.num <= observedBlock /\ l.num \in Nat
        BY <1>2, <3>1, SeenNums DEF HeardInv
      <4> QED
        BY <1>2, <2>1, <4>1
    <3>2. CASE l = log
      BY <1>2, <2>1, <3>2
    <3> QED
      BY <2>2, <3>1, <3>2
  <2> SUFFICES ASSUME retained' = Nil
               PROVE  Received' /\ \A m \in Nat : Asks(m)' => recoveryFloor' <= m
    BY <2>1, <2>3 DEF HeardInv
  <2>4. Received'
    BY <1>2, <1>3, <2>2 DEF HeardInv, Received
  <2>5. ASSUME NEW m \in Nat, Asks(m)' PROVE recoveryFloor' <= m
    <3>1. PICK k \in Nat : Asks(k) /\ k <= m
      BY <1>5, <2>5 DEF AsksOn
    <3>2. recoveryFloor <= k /\ recoveryFloor \in Nat
      BY <1>2, <1>3, <3>1 DEF HeardInv, ObsTypes, FlagTypes
    <3> QED
      BY <1>3, <3>1, <3>2
  <2> QED
    BY <2>4, <2>5
<1> QED
  BY <1>6, <1>7

LEMMA HeardStart ==
  ASSUME ObsTypes, Attempts, HeardInv, StartCapture
  PROVE  HeardInv'
<1>0. CaptureSound /\ WorkTypes
  BY DEF ObsTypes
<1>1. /\ worker'.phase = (IF capture.base = EmptyHash THEN "capture" ELSE "resume")
      /\ worker'.base = capture.base
      /\ worker'.floor = (IF ~capture.open /\ retained # Nil THEN cursor.num ELSE recoveryFloor)
      /\ replay' = (IF ~capture.open /\ retained # Nil THEN <<>> ELSE replay)
      /\ session = "live" /\ ~busy
      /\ UNCHANGED <<envVars, stateVars, seen, lifeVars>>
  BY <1>0, StartIs
<1>2. /\ block' = block /\ UNCHANGED <<retained, seen, events>> /\ busy'
      /\ UNCHANGED <<recoveryFloor, observedBlock>>
  BY <1>1 DEF envVars, chainVars, stateVars, lifeVars, StartCapture
<1>3. ASSUME NEW m \in Nat, Asks(m)', retained' = Nil PROVE AsksOn(m) \/ recoveryFloor <= m
  <2>0. retained = Nil /\ replay' = replay /\ recoveryFloor \in Nat
    BY <1>1, <1>2, <1>3 DEF ObsTypes, FlagTypes
  <2>1. CASE capture.open
    <3>1. capture.base # EmptyHash
      BY <1>1, <2>1 DEF Attempts
    <3>2. m = Num(capture.base)
      BY <1>1, <1>2, <1>3, <3>1 DEF Asks, Num
    <3>3. Asks(m)
      BY <1>1, <2>1, <3>1, <3>2 DEF Asks
    <3> QED
      BY <2>0, <3>3 DEF AsksOn
  <2>2. CASE ~capture.open
    <3>1. capture.base = EmptyHash
      BY <1>1, <2>2 DEF Attempts
    <3>2. m = recoveryFloor
      BY <1>1, <1>2, <1>3, <2>0, <3>1 DEF Asks
    <3> QED
      BY <2>0, <3>2
  <2> QED
    BY <2>1, <2>2
<1> QED
  BY <1>1, <1>2, <1>3, HeardSame

LEMMA HeardQuiet ==
  ASSUME ObsTypes, Calls, Attempts, HeardInv, FirstSession, Stable, [ObsNext]_obsVars,
         ~Worker, ~Result, ~StartCapture, ~LogStep
  PROVE  HeardInv'
<1>1. CASE \/ NewBlock \/ HeadMoves \/ DelayPasses \/ RequestRecovery \/ TakeRecovery
           \/ Watch \/ UNCHANGED obsVars
  <2>1. UNCHANGED <<session, capture, busy, worker, replay, events, recoveryFloor, retained, seen,
                    observedBlock>>
    <3>1. CASE NewBlock \/ HeadMoves \/ DelayPasses \/ RequestRecovery \/ TakeRecovery
      BY <3>1 DEF NewBlock, HeadMoves, DelayPasses, RequestRecovery, TakeRecovery, sessionVars,
         lifeVars, loopVars, stateVars
    <3>2. CASE Watch \/ UNCHANGED obsVars
      BY <3>2, WatchFrame DEF sessionVars, lifeVars, loopVars, stateVars, obsVars, vars
    <3> QED
      BY <1>1, <3>1, <3>2
  <2>2. \A m \in Nat : Asks(m)' => AsksOn(m)
    BY <2>1, AsksSame
  <2>3. CASE session = "live"
    BY <2>1, <2>2, <2>3, HeardSame
  <2>4. CASE session # "live"
    BY <2>1, <2>4 DEF HeardInv
  <2> QED
    BY <2>3, <2>4
<1>2. CASE SessionStart \/ SessionLost \/ ExitJoined \/ WatchFails
  <2>1. session' # "live"
    BY <1>2 DEF SessionStart, SessionLost, ExitJoined, SessionExit, WatchFails, SessionStop
  <2> QED
    BY <2>1 DEF HeardInv
<1>3. CASE SubscribeAndWatch
  <2>1. seen' = seen /\ session = "subscribing" /\ capture' = NoCapture
    BY <1>3 DEF SubscribeAndWatch, SessionSubscribe
  <2>2. seen' = <<>> /\ Range(seen') = {}
    BY <2>1, OneRange DEF FirstSession
  <2>3. \A m : ~Asks(m)'
    BY <2>1 DEF Asks, NoCapture
  <2> QED
    BY <2>2, <2>3 DEF HeardInv, Received
<1> QED
  BY <1>1, <1>2, <1>3 DEF ObsNext, Others

LEMMA HeardStep ==
  ASSUME ObsTypes, Calls, OrderInv, Fits, Roomy, Attempts, FirstSession, HeardInv, Placed(replay),
         [ObsNext]_obsVars
  PROVE  HeardInv'
<1>s. Stable
  BY StableIs
<1>t. /\ observedBlock \in Nat /\ seen \in Seq(Logs) /\ WorkTypes /\ CaptureSound
      /\ rpcHead \in 1..Height /\ Height \in Nat
  BY DEF ObsTypes, FlagTypes, StreamTypes, CaptureSound, ChainTypeOK, Height
<1>1. CASE Worker
  <2>1. UNCHANGED <<seen, lifeVars, loopVars, stateVars>>
    BY <1>1, <1>t, WorkerIs
  <2>2. UNCHANGED <<session, replay, events, recoveryFloor, retained, seen, observedBlock>>
    BY <2>1 DEF lifeVars, loopVars, stateVars
  <2>3. \A m \in Nat : Asks(m)' => AsksOn(m)
    BY <1>1, AsksWorker
  <2>4. CASE session = "live"
    BY <2>2, <2>3, <2>4, HeardSame
  <2>5. CASE session # "live"
    BY <2>2, <2>5 DEF HeardInv
  <2> QED
    BY <2>4, <2>5
<1>2. CASE ResultStale
  <2>1. /\ session = "live" /\ worker.phase = "done" /\ worker.epoch # epoch
        /\ UNCHANGED <<capture, replay, events, recoveryFloor, retained, seen, observedBlock>>
    BY <1>2 DEF ResultStale, ResultReady, Waiting, resultFrame, stateVars
  <2>2. ~capture'.open
    BY <2>1 DEF Attempts
  <2>3. \A m : ~Asks(m)'
    BY <2>2 DEF Asks
  <2> QED
    BY <2>1, <2>3, HeardSame
<1>3. CASE ResultFailed
  <2>1. /\ session = "live"
        /\ UNCHANGED <<replay, events, recoveryFloor, retained, seen, observedBlock>>
    BY <1>3, FailedIs DEF ResultFailed, resultFrame, stateVars
  <2>2. \A m \in Nat : Asks(m)' => AsksOn(m)
    BY <1>3, AsksFailed
  <2> QED
    BY <2>1, <2>2, HeardSame
<1>4. CASE ResultInstalled
  <2>1. Installs(worker.base)
    BY <1>4, InstallsIs
  <2>2. retained' # Nil
    BY <2>1, NilReceived DEF Installs, PoolFollows
  <2>3. session = "live" /\ UNCHANGED <<events, recoveryFloor, seen, observedBlock>>
    BY <1>4, <2>1 DEF ResultInstalled, resultFrame, Installs
  <2> QED
    BY <2>2, <2>3, HeardSame
<1>5. CASE ResultContradicted
  <2>1. session = "live" /\ UNCHANGED <<events, seen, observedBlock>>
    BY <1>5 DEF ResultContradicted, ResultReady, Waiting, resultFrame
  <2>2. session' = "closing" \/ Invalidate(observedBlock)
    BY <1>5 DEF ResultContradicted, SessionStop
  <2>3. CASE session' = "closing"
    BY <2>3 DEF HeardInv
  <2>4. CASE Invalidate(observedBlock)
    BY <1>t, <2>1, <2>4, HeardInvalidate
  <2> QED
    BY <2>2, <2>3, <2>4
<1>6. CASE LogGarbled
  <2>1. session = "live" /\ UNCHANGED <<events, seen>> /\ wire # <<>>
    BY <1>6 DEF LogGarbled, Waiting
  <2>2. session' = "closing" \/ (Invalidate(Observe(Head(wire))) /\ observedBlock' = Observe(Head(wire)))
    BY <1>6 DEF LogGarbled, SessionStop
  <2>3. CASE session' = "closing"
    BY <2>3 DEF HeardInv
  <2>4. Observe(Head(wire)) \in Nat /\ observedBlock <= Observe(Head(wire))
    BY <2>1, ObservedMore
  <2> QED
    BY <1>t, <2>1, <2>2, <2>3, <2>4, HeardInvalidate
<1>7. CASE LogRemovedStops \/ LogStops
  <2>1. session' = "closing"
    BY <1>7 DEF LogRemovedStops, LogStops, SessionStop
  <2> QED
    BY <2>1 DEF HeardInv
<1> QED
  BY <1>s, <1>1, <1>2, <1>3, <1>4, <1>5, <1>6, <1>7, HeardQuiet, HeardStart, HeardSkipped, HeardApplied
     DEF Result, LogStep

BufferInv == FirstSession /\ HeardInv /\ Placed(replay)

\* A capture that can still be installed, with the buffer replayed over it, loses no delta:
\* the buffer has every log above the baseline that was received since the inputs were
\* withdrawn, or that was applied to the inputs in use, whatever attempts failed and were
\* resumed, recaptures were started and withdrawn, and blocks were dropped in between.
\* Fits is as above; Roomy is the rest of Observation 1: one session, whose buffer does not
\* overflow.
THEOREM BufferSafe == Fits /\ Roomy => (ObsSpec => []BufferComplete)
<1> SUFFICES ASSUME Fits, Roomy PROVE ObsSpec => []BufferComplete
  OBVIOUS
<1>1. ObsInit => ObsInv /\ BufferInv
  BY ObsInvInit, FirstInit DEF BufferInv
<1>2. ObsInv /\ BufferInv /\ [ObsNext]_obsVars => (ObsInv /\ BufferInv)'
  <2> SUFFICES ASSUME ObsInv, BufferInv, [ObsNext]_obsVars PROVE (ObsInv /\ BufferInv)'
    OBVIOUS
  <2>1. ObsTypes /\ Calls /\ OrderInv /\ Attempts /\ FirstSession /\ HeardInv /\ Placed(replay)
    BY DEF ObsInv, BufferInv
  <2>2. FirstSession' /\ HeardInv' /\ Placed(replay')
    BY <2>1, FirstStep, HeardStep, PlacedStep
  <2>3. ObsInv'
    BY ObsInvStep
  <2> QED
    BY <2>2, <2>3 DEF BufferInv
<1>3. ObsInv /\ BufferInv => BufferComplete
  <2> SUFFICES ASSUME ObsInv, BufferInv, session = "live", worker.phase # "none",
                      worker.epoch = epoch, worker.base # EmptyHash
               PROVE  IF retained = Nil
                      THEN \A log \in Range(seen) :
                             log.removed \/ log.num <= block[worker.base].num \/ log.hash \in Range(replay)
                      ELSE \A h \in Range(journal) :
                             ~HeaderIs(h) \/ block[h].num <= block[worker.base].num \/ h \in Range(replay)
    BY DEF BufferComplete
  <2>1. ObsTypes /\ Attempts /\ FetchInv /\ HeardInv
    BY DEF ObsInv, BufferInv
  <2>2. PICK m : m = Num(worker.base)
    OBVIOUS
  <2>3. m \in Nat
    <3>1. worker.base \in 1..Len(block)
      BY <2>1 DEF ObsTypes, CaptureSound, EmptyHash
    <3> QED
      BY <2>1, <2>2, <3>1, BaseNum
  <2>4. busy /\ capture.open /\ worker.phase # "capture"
    BY <2>1 DEF Attempts, ObsTypes, CaptureSound
  <2>5. Asks(m)
    BY <2>2, <2>4 DEF Asks
  <2>6. CASE retained = Nil
    <3>1. Received /\ recoveryFloor <= m /\ recoveryFloor \in Nat
      BY <2>1, <2>3, <2>5, <2>6 DEF HeardInv, ObsTypes, FlagTypes
    <3>2. \A log \in Range(seen) : log.removed \/ log.num <= m \/ log.hash \in Range(replay)
      BY <2>1, <2>3, <3>1, SeenNums DEF Received
    <3> QED
      BY <2>2, <2>6, <3>2 DEF Num
  <2>7. CASE retained # Nil
    BY <2>1, <2>2, <2>3, <2>5, <2>7 DEF FetchInv, Num
  <2> QED
    BY <2>6, <2>7
<1> QED
  BY <1>1, <1>2, <1>3, PTL DEF ObsSpec
=============================================================================
