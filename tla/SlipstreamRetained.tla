------------------------- MODULE SlipstreamRetained -------------------------
(***************************************************************************)
(* The retained pool of Aerodrome Slipstream: one session of RunRetained   *)
(* (go/venues/aerodrome/slipstream/retained_subscription.go,               *)
(* retained_quote.go, retained_window.go).                                 *)
(*                                                                         *)
(* Other than the v3 session it receives headers and logs by two streams.  *)
(* A log waits, with all that came after it, until the header of its block *)
(* is known, whose time the fee's oracle needs.  Logs of one block may     *)
(* come in any order: they are applied again from the state before that    *)
(* block.  A swap that is older than the retained state replaces its       *)
(* price.  While the price is outside the captured window, or a capture    *)
(* has not succeeded, a worker captures again and what was applied since   *)
(* its start is applied to the result.                                     *)
(*                                                                         *)
(* The chain only grows (a removed log ends the session).  A log is a      *)
(* "swap", which moves the price into another window, or a "mint", any     *)
(* change of liquidity in range.  A pool is its price (the last swap), its *)
(* ticks (the set of mints in it; "twice" those added again) and the       *)
(* writes to its oracle: block and price before it.  The active liquidity  *)
(* and what the oracle computes (FeeOracle) are left out, as are headers   *)
(* that were forgotten (after 256).                                        *)
(***************************************************************************)
EXTENDS Integers, Sequences, FiniteSets, SequencesExt

CONSTANTS
    HeadsRegress,   \* may LatestHeader answer with an older block than before?
    LateKinds,      \* kinds of logs that may come after a later one of their block
    BlockLogs,      \* bound: logs of a block
    MaxHeight, MaxLogs,     \* bounds: blocks after the first, logs
    BufferLimit,    \* bound of the code: 4096 logs to replay
    MaxLosses,      \* bound: failed captures and lost connections
    MaxRepeats      \* bound: logs sent twice

ASSUME SlipstreamAssumption ==
    /\ HeadsRegress \in BOOLEAN /\ LateKinds \subseteq {"swap", "mint"}
    /\ {BlockLogs, MaxHeight, MaxLogs, BufferLimit, MaxLosses, MaxRepeats} \subseteq Nat

VARIABLES
    ledger,     \* ledger[n]: the kinds of block n's logs
    spent,      \* what is used of the bounds
    since,      \* the block the streams started from
    answered,   \* the newest block LatestHeader has answered with
    stream, heads,    \* logs on their way, and the newest header received
    life,       \* "idle", "starting", "initializing", "live"
    cache,      \* retained, replayBase and replayLogs of StateCache
    queue,      \* pending
    capture, window, busy, due,     \* capture, replay, busy and the backoff
    job         \* the goroutine that captures

slipVars == <<ledger, spent, since, answered, stream, heads, life, cache, queue, capture, window,
              busy, due, job>>

-----------------------------------------------------------------------------
(* The chain. *)

Height == Len(ledger)
Log(n, i) == [num |-> n, idx |-> i]
Kind(log) == ledger[log.num][log.idx]
LogsOf(n) == [i \in 1..Len(ledger[n]) |-> Log(n, i)]
LogsUpTo(n) == UNION {{Log(m, i) : i \in 1..Len(ledger[m])} : m \in 1..n}
Before(a, b) == a.num < b.num \/ (a.num = b.num /\ a.idx < b.idx)

NoLog == [num |-> 0, idx |-> 0]
LastOf(logs) ==
    IF logs = {} THEN NoLog
    ELSE CHOOSE a \in logs : \A b \in logs \ {a} : Before(b, a)

PriceAt(n) == LastOf({a \in LogsUpTo(n) : Kind(a) = "swap"})
MintsAt(n) == {a \in LogsUpTo(n) : Kind(a) = "mint"}
WritesAt(n) == {[at |-> m, price |-> PriceAt(m - 1)] : m \in {k \in 1..n : ledger[k] # <<>>}}

-----------------------------------------------------------------------------
(* retainedPoolState and the log handlers. *)

NoPool == [base |-> 0, price |-> NoLog, ticks |-> {}, twice |-> {}, writes |-> {},
           at |-> NoLog, time |-> 0]

\* "time" is the block whose timestamp the state has, "at" the last log applied to it
\* (NoLog: hasLog is false).
Baseline(n) == [base |-> n, price |-> PriceAt(n), ticks |-> MintsAt(n), twice |-> {},
                writes |-> WritesAt(n), at |-> NoLog, time |-> n]

\* "from" and "logs" are replayBase and replayLogs; no logs stand for a replay that is
\* not of this state.
NoCache == [pool |-> NoPool, from |-> NoPool, logs |-> {}, ok |-> TRUE]
Fresh(pool) == [NoCache EXCEPT !.pool = pool]
Cleared(c) == [c EXCEPT !.pool = NoPool, !.ok = FALSE]

\* oracle.write: the price before, at most once a block.
Written(pool, n) ==
    IF \E w \in pool.writes : w.at = n THEN pool.writes
    ELSE pool.writes \cup {[at |-> n, price |-> pool.price]}

\* applyRetainedPoolEvent and the position.  The code writes the oracle when the tick, or
\* the active liquidity, changes: swaps that stay in their tick and liquidity out of
\* range, which change neither, are not among the logs here.
Effect(pool, log) ==
    [pool EXCEPT
        !.price = IF Kind(log) = "swap" THEN log ELSE @,
        !.ticks = IF Kind(log) = "mint" THEN @ \cup {log} ELSE @,
        !.twice = IF Kind(log) = "mint" THEN @ \cup ({log} \cap pool.ticks) ELSE @,
        !.writes = Written(pool, log.num),
        !.at = log, !.time = log.num]

\* applyOrderedRetainedLog: what the baseline has is skipped, and so is the last log when
\* it is sent again; anything else must come after it.
Ordered(c, log) ==
    CASE log.num <= c.pool.base \/ log = c.pool.at -> c
      [] /\ log.num > c.pool.base /\ log # c.pool.at
         /\ log.num < c.pool.time \/ Before(log, c.pool.at) -> Cleared(c)
      [] OTHER -> [c EXCEPT !.pool = Effect(c.pool, log)]

InOrder(logs) == SetToSortSeq(logs, Before)

\* Mutant: the logs of the block are applied to the current state.
ReplayedOver(c, log) ==
    LET again == FoldLeft(LAMBDA d, x : [d EXCEPT !.pool = Effect(d.pool, x)], Fresh(c.pool),
                          InOrder(c.logs \cup {log}))
    IN  [again EXCEPT !.from = c.from, !.logs = c.logs \cup {log}]

\* A late log: the logs of the block are applied again, in order, to the state before.
Replayed(c, log) ==
    LET again == FoldLeft(Ordered, Fresh(c.from), InOrder(c.logs \cup {log}))
    IN  [again EXCEPT !.from = c.from, !.logs = c.logs \cup {log}]

\* applyRetainedLog
ApplyRetained(c, log) ==
    IF c.pool = NoPool \/ log.num <= c.pool.base THEN Ordered(c, log)
    ELSE LET new == \A x \in c.logs : log.num > x.num
             d == IF new THEN [c EXCEPT !.from = c.pool, !.logs = {}] ELSE c
         IN  IF log \in d.logs THEN d
             ELSE IF d.logs # {} /\ log.num = d.pool.at.num /\ Before(log, d.pool.at)
             THEN Replayed(d, log)
             ELSE LET e == Ordered(d, log)
                  IN  IF e.ok THEN [e EXCEPT !.logs = d.logs \cup {log}] ELSE e

\* Is a live log older than the state?
Replaces(pool, log) ==
    \/ log.num <= pool.base \/ log.num < pool.time
    \/ pool.at # NoLog /\ Before(log, pool.at)

\* applyLiveRetainedLog: the price of an older swap replaces the retained one.
ApplyLive(c, log) ==
    IF c.pool # NoPool /\ Kind(log) = "swap" /\ Replaces(c.pool, log)
    THEN Fresh([c.pool EXCEPT !.price = log, !.at = log])
    ELSE ApplyRetained(c, log)

\* Does a log have to wait for the header of its block?
Waits(log, pool, head) == log.num > pool.base /\ log.num > head

-----------------------------------------------------------------------------
(* apply: what the session does after every event. *)

\* The state in the middle of it: the cache, the pending logs, those kept for replay.
Round(c, pending, kept) == [c |-> c, queue |-> pending, window |-> kept, full |-> FALSE]

\* "keep": a capture is in progress or to be continued.
Applied(round, head, keep) ==
    LET ready == SelectInSeq(round.queue, LAMBDA log : Waits(log, round.c.pool, head))
        n == IF ready = 0 THEN Len(round.queue) ELSE ready - 1
        Step(r, log) ==
            IF ~r.c.ok \/ r.full THEN r
            ELSE LET c == ApplyLive(r.c, log)
                 IN  IF ~c.ok \/ ~keep THEN [r EXCEPT !.c = c]
                     ELSE IF Len(r.window) >= BufferLimit
                     THEN [r EXCEPT !.c = c, !.full = TRUE]
                     ELSE [r EXCEPT !.c = c, !.window = Append(@, log)]
        done == FoldLeft(Step, round, SubSeq(round.queue, 1, n))
    IN  [done EXCEPT !.queue = SubSeq(round.queue, n + 1, Len(round.queue))]

NoCapture == [open |-> FALSE, floor |-> 0, base |-> 0]
NoJob == [pc |-> "none", ok |-> FALSE]

\* The session returns: its streams and its goroutines end with it.
Ends ==
    /\ life' = "idle"
    /\ stream' = <<>> /\ queue' = <<>> /\ window' = <<>>
    /\ capture' = NoCapture /\ busy' = FALSE /\ due' = TRUE /\ job' = NoJob

\* An error of apply ends the session, with the cache it left.
Continue(round) ==
    /\ cache' = round.c
    /\ IF round.c.ok /\ ~round.full
       THEN queue' = round.queue /\ window' = round.window /\ UNCHANGED life
       ELSE life' = "idle" /\ queue' = <<>> /\ window' = <<>>

Spend(what, limit) == spent[what] < limit /\ spent' = [spent EXCEPT ![what] = @ + 1]

-----------------------------------------------------------------------------
SlipInit ==
    /\ ledger = <<<<>>>>
    /\ spent = [logs |-> 0, losses |-> 0, repeats |-> 0]
    /\ since = 1 /\ answered = 1
    /\ stream = <<>> /\ heads = 1
    /\ life = "idle" /\ cache = NoCache /\ queue = <<>>
    /\ capture = NoCapture /\ window = <<>> /\ busy = FALSE /\ due = TRUE
    /\ job = NoJob

SlipTypeOK ==
    /\ since \in 1..Height /\ heads \in 1..Height /\ answered \in 1..Height
    /\ life \in {"idle", "starting", "initializing", "live"}
    /\ Range(stream) \cup Range(queue) \cup Range(window) \cup cache.logs \subseteq LogsUpTo(Height)
    /\ Len(window) <= BufferLimit
    /\ cache.pool # NoPool => cache.pool.base \in since..Height
    /\ life # "live" => queue = <<>> /\ ~busy /\ ~capture.open
    /\ busy => job.pc # "none" /\ capture.open

Streams == life \in {"initializing", "live"}

\* The orders in which the logs of a new block may be sent.
Sendings(logs) ==
    {s \in [1..Len(logs) -> Range(logs)] :
        /\ Range(s) = Range(logs)
        /\ \A i, j \in 1..Len(logs) :
              i < j /\ Before(s[j], s[i]) => ledger'[s[j].num][s[j].idx] \in LateKinds}

NewBlock ==
    /\ Height <= MaxHeight
    /\ \E kinds \in UNION {[1..k -> {"swap", "mint"}] : k \in 0..BlockLogs} :
          LET logs == [i \in 1..Len(kinds) |-> Log(Height + 1, i)] IN
          /\ spent.logs + Len(kinds) <= MaxLogs
          /\ spent' = [spent EXCEPT !.logs = @ + Len(kinds)]
          /\ ledger' = Append(ledger, kinds)
          /\ IF Streams THEN \E s \in Sendings(logs) : stream' = stream \o s ELSE UNCHANGED stream
    /\ UNCHANGED <<since, answered, heads, life, cache, queue, capture, window, busy, due, job>>

-----------------------------------------------------------------------------
(* The session. *)

\* running is set and what an earlier session left is withdrawn.
SlipStart ==
    /\ life = "idle"
    /\ life' = "starting"
    /\ cache' = [cache EXCEPT !.pool = NoPool]
    /\ UNCHANGED <<ledger, spent, since, answered, stream, heads, queue, capture, window, busy, due, job>>

SlipSubscribe ==
    /\ life = "starting"
    /\ life' = "initializing"
    /\ stream' = <<>> /\ since' = Height /\ heads' = Height
    /\ UNCHANGED <<ledger, spent, answered, cache, queue, capture, window, busy, due, job>>

\* LatestHeader: the reader does not lag behind the start of the streams.
Heads ==
    {n \in since..Height : HeadsRegress \/ n >= answered}

\* One attempt: the reads of a capture are of one block, whatever happens meanwhile.
SlipInitialize ==
    /\ life = "initializing"
    /\ \E n \in Heads : answered' = n /\ cache' = [cache EXCEPT !.pool = Baseline(n), !.ok = TRUE,
                                                                !.logs = {}, !.from = NoPool]
    /\ life' = "live"
    /\ UNCHANGED <<ledger, spent, since, stream, heads, queue, capture, window, busy, due, job>>

\* The context ends, a stream fails, an RPC call of the initialization fails.
SlipLost ==
    /\ life # "idle"
    /\ Spend("losses", MaxLosses)
    /\ Ends
    /\ UNCHANGED <<ledger, since, answered, heads, cache>>

Keeps == busy \/ capture.open

HeaderReceived ==
    /\ life = "live"
    /\ heads < Height
    /\ heads' = heads + 1
    /\ Continue(Applied(Round(cache, queue, window), heads + 1, Keeps))
    /\ IF life' = "idle"
       THEN stream' = <<>> /\ capture' = NoCapture /\ busy' = FALSE /\ due' = TRUE /\ job' = NoJob
       ELSE UNCHANGED <<stream, capture, busy, due, job>>
    /\ UNCHANGED <<ledger, spent, since, answered>>

\* The provider may send a log once more.
LogReceived ==
    /\ life = "live"
    /\ stream # <<>>
    /\ \E again \in BOOLEAN :
          /\ IF again THEN Spend("repeats", MaxRepeats) ELSE UNCHANGED spent
          /\ Continue(Applied(Round(cache, Append(queue, Head(stream)), window), heads, Keeps))
          /\ IF life' = "idle"
             THEN stream' = <<>> /\ capture' = NoCapture /\ busy' = FALSE /\ due' = TRUE /\ job' = NoJob
             ELSE stream' = (IF again THEN stream ELSE Tail(stream)) /\ UNCHANGED <<capture, busy, due, job>>
    /\ UNCHANGED <<ledger, since, answered, heads>>

BackoffPasses ==
    /\ life = "live" /\ ~due
    /\ due' = TRUE
    /\ UNCHANGED <<ledger, spent, since, answered, stream, heads, life, cache, queue, capture,
                   window, busy, job>>

\* retainedNeedsCapture: every swap moves the price into another window.
NeedsCapture == cache.pool.price # PriceAt(cache.pool.base)

\* The position of the retained state.
Position(pool) == IF pool.at = NoLog THEN pool.base ELSE pool.at.num

CaptureStarts ==
    /\ life = "live"
    /\ NeedsCapture \/ capture.open
    /\ ~busy /\ due
    /\ busy' = TRUE
    /\ job' = [pc |-> "reading", ok |-> FALSE]
    /\ IF capture.open THEN UNCHANGED <<capture, window>>
       ELSE /\ capture' = [open |-> TRUE, floor |-> Position(cache.pool), base |-> 0]
            /\ window' = <<>>
    /\ UNCHANGED <<ledger, spent, since, answered, stream, heads, life, cache, queue, due>>

-----------------------------------------------------------------------------
(* The capture. *)

\* resumeRetainedPool: the block is chosen once, and kept by an attempt that fails later.
JobReads ==
    /\ job.pc = "reading"
    /\ IF capture.base # 0 THEN UNCHANGED <<capture, answered>>
       ELSE \E n \in Heads : answered' = n /\ capture' = [capture EXCEPT !.base = n]
    /\ job' = [job EXCEPT !.pc = "verifying"]
    /\ UNCHANGED <<ledger, spent, since, stream, heads, life, cache, queue, window, busy, due>>

\* The baseline must not be older than what was retained when the capture began.
JobVerifies ==
    /\ job.pc = "verifying"
    /\ job' = [pc |-> "done", ok |-> capture.base >= capture.floor]
    /\ capture' = IF capture.base >= capture.floor THEN capture
                  ELSE [open |-> TRUE, floor |-> 0, base |-> 0]
    /\ UNCHANGED <<ledger, spent, since, answered, stream, heads, life, cache, queue, window, busy,
                   due>>

JobFails ==
    /\ job.pc \in {"reading", "verifying"}
    /\ Spend("losses", MaxLosses)
    /\ job' = [pc |-> "done", ok |-> FALSE]
    /\ UNCHANGED <<ledger, since, answered, stream, heads, life, cache, queue, capture, window,
                   busy, due>>

\* installRetainedWindow: the candidate with everything applied since, or no change.
Installed(base) ==
    LET candidate == FoldLeft(ApplyRetained, Fresh(Baseline(base)), window)
        floor == IF Position(cache.pool) >= cache.pool.base
                 THEN Position(cache.pool) ELSE cache.pool.base
    IN  IF candidate.ok /\ (candidate.pool.base >= floor \/ Position(candidate.pool) >= floor)
        THEN candidate ELSE cache

\* The result; an attempt that has read its block is continued.
CaptureEnds ==
    /\ life = "live" /\ job.pc = "done"
    /\ busy' = FALSE /\ due' = FALSE /\ job' = NoJob
    /\ LET next == IF job.ok \/ capture.base = 0 THEN NoCapture ELSE capture
           c == IF job.ok THEN Installed(capture.base) ELSE cache
           kept == IF next.open THEN window ELSE <<>>
       IN  /\ capture' = next
           /\ Continue(Applied(Round(c, queue, kept), heads, next.open))
    /\ UNCHANGED <<ledger, spent, since, answered, stream, heads>>

SlipSession ==
    \/ SlipStart \/ SlipSubscribe \/ SlipInitialize \/ SlipLost
    \/ HeaderReceived \/ LogReceived \/ BackoffPasses \/ CaptureStarts \/ CaptureEnds

SlipNext == NewBlock \/ SlipSession \/ JobReads \/ JobVerifies \/ JobFails

SlipSpec == SlipInit /\ [][SlipNext]_slipVars

-----------------------------------------------------------------------------
(* Properties. *)

\* Once a session has handled all logs and no capture is in progress, the retained pool
\* is the one on chain: no change of liquidity is missing or counted twice, however the
\* logs of a block were ordered, repeated, held back for their header or replayed over a
\* capture, and the fee's oracle has the price before each block that wrote to it.  On the
\* way nothing is retained that is not on chain, and no more than the limit is replayed.
RetainedExact ==
    /\ SlipTypeOK
    /\ life = "live" /\ stream = <<>> /\ queue = <<>> /\ ~Keeps
           => /\ cache.pool.ticks = MintsAt(Height) /\ cache.pool.twice = {}
              /\ cache.pool.price = PriceAt(Height)
              /\ cache.pool.writes = WritesAt(Height)
=============================================================================
