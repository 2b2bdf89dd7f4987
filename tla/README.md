# Verification of the onchain SDK

TLA+ models of the concurrent and stateful parts of `onchain`, the TLC runs that check them on small instances,
and TLAPS proofs of the properties that hold for every value of the constants.

## 1. The system

`onchain` is a Go SDK that keeps local, quotable copies of AMM pools on EVM chains, Solana and Sui, plus a Solidity
contract that settles a two-venue spread trade. A pool's copy is captured by RPC calls that are not atomic, kept up to
date by a subscription that can be late, lose its connection or meet a reorganisation, and handed to quoting code in
other goroutines. Nothing is persisted; a restart starts from nothing. What is hard is the interleaving of capture,
stream and quote.

| Component | State | Operations | Interacts with |
| --- | --- | --- | --- |
| Uniswap v3 state cache (`go/venues/uniswap/v3/state_cache.go`, `state_check.go`) | snapshot with its generation, floor block and hash, covered header, running/active, a gate channel, a change channel of capacity 1 | `Run`, `QuotePair`, `CheckState`, `Changes` | node RPC, log subscription |
| Uniswap v3 retained subscription (`retained_*.go`) | retained pool, cursor, journal of log positions, replay buffer, resumable capture, epoch, recovery request | `RunRetained`, `RunRetainedWithEvents`, `QuoteRetainedPair` | node RPC, log subscription, idle observation |
| EVM idle observation (`go/internal/evmobservation`) | verified prefix, retry state, proof | `Start`/`Run`, `Prove`, `ConfirmedAt` | retained subscription by two callbacks |
| Uniswap v3 local quote (`local_math.go`, `quote_gross.go`) | none between calls; price, tick and liquidity of one walk | `quote`, `QuoteGrossPair` | a retained or captured pool |
| Uniswap v4 | as v3, keyed by pool id, with the fees in the candidate | as v3 | as v3 |
| Aerodrome Slipstream (`go/venues/aerodrome/slipstream`) | retained pool with fee and oracle ring, base of the current block and its logs, pending logs, headers, resumable capture | `RunRetained`, `RunRetainedWithParams` | header and log streams, node RPC |
| Spread contract (`contracts/evm/spread`) | balances, allowances, roles, pause and reentrancy flags | `executeSpread`, `rescueToken`, role and pause functions | tokens and venues (external calls) |
| Cetus retained inputs (`go/venues/cetus/clmm`) | retained pool version and tick window, checkpoint floor, observation | `RunRetained`, `Warm`, `ObserveCheckpoint`, `QuotePair` | Sui reader, transaction stream |
| Turbos, Momentum, Bluefin spot | bitmap words and tick nets, accepted checkpoint | as Cetus | as Cetus |
| Sui window producer (`go/internal/suiwindow`) | replay, overflow, running, backoff | `Run`, `ObserveProgress` | the four Sui venues, by callbacks |
| Solana account caches (Raydium CPMM/CLMM, Meteora DLMM, `account_state.go`) | accounts by address with slot and receipt time, decoded fee configurations, generation, minimum slot, active streams | `Run`, `watch`, `QuoteExactInputs`, `CheckState`, `Warm`, window capture | account streams, RPC |
| Solana stream (`ws_stream.go`) | pending and active subscriptions, bounded queues | `subscribe`, `recv`, `Unsubscribe`, `stop` | websocket |
| Perpetual venues (Lighter, Arcus, Bluefin Pro) | one session, its cause of failure | `Connect`, `Send`, `Recv`, `Close`, keepalive | websocket |
| Tick batches (`go/internal/tickbatch`) | next index, first error | `Read` | every window capture |
| Core types, `quotestate`, CLI, ERC-20 and LP analysis, REST clients, generated bindings | none between calls | | |

What makes each of them correct:

- *State caches* (v3, Solana): an accepted snapshot is of one block or slot; a cached one is never handed out below what
  the subscription has named; a handled log is reflected; notifications are coalesced but never lost; callers are served;
  the subscriptions follow the addresses that quotes use.
- *Retained subscriptions*: each liquidity delta is counted once, from the captured baseline or from its log; progress of
  an earlier attempt is resumed on the same block only; withdrawn state is never left published; a session recovers.
- *Slipstream* in addition: a log waits for its block's header, and the fee's price history answers like the contract.
- *Idle observation*: what is confirmed is the pool of the proved block; a quiet pool is confirmed in the end.
- *Local quote*: the liquidity of a walk is that of the positions around its tick; rounding is against the taker.
- *Contract*: no allowance survives a transaction, the caller gets the profit asked for, the contract's own tokens stay.
- *Sui*: price and window ticks are those of one version; a confirmed checkpoint is covered; recovery includes the
  refused transaction; the window follows the price.
- *Transports*: what was delivered is whole and in order, a failure is reported as what it was, and no waiter is left
  behind by a stop; a stopped session cannot touch the next one. *Tick batches*: all of them or none.

`PROJECT.json` lists every hazard at its line, with the properties that cover it.

## 2. Modules

| Module | Models |
| --- | --- |
| `EvmChain` | the chain: blocks, reorganisations, returning blocks, the log notices of a reorganisation (external) |
| `FencedCache` | abstract: at most one entry that may be served without asking the node, never below the floor |
| `StateCache` | the v3 state cache over `EvmChain`: goroutines of `Run`, one call that holds the gate, the consumer of `Changes` |
| `RetainedSubscription` | the v3 (and v4) retained session loop and its capture worker, over `EvmChain` |
| `RetainedObservation` | extends it with the watcher goroutine of the idle observation |
| `SolanaCache` | the account cache of Raydium CLMM and Meteora DLMM: `Run` and its watchers, one call at a time, the retained accounts |
| `SolanaStream` | one websocket connection to a Solana node with its subscriptions |
| `VenueSocket` | the websocket client of Lighter and Arcus |
| `TickBatch` | `Read` with its workers |
| `SuiPool`, `SuiRetained` | a shared pool object (external); the retained session of the four Sui venues with the window producer |
| `SpreadExecutor` | the contract |
| `SwapWalk` | the local quote of v3 and v4 as a walk of swap steps |
| `FeeOracle` | the ring of observations behind Slipstream's dynamic fee: the contract's and the retained copy |
| `SlipstreamRetained` | the Slipstream session |
| `MC*` | the instances for TLC; `MCParts` and `MCSpreadExecutor` check parts that share nothing in one run each: a behaviour is one of a single part; `MCSolanaScenarios` checks two scenarios of `SolanaCache` in one run |
| `EvmChainProofs`, `StateCacheProofs`, `ObservationProofs`, `SolanaCacheProofs`, `SuiRetainedProofs`, `PartsProofs`, `TradeProofs` | theorems |
| `Induction` | the induction that proofs about folds and sequences use: a set that has 0 and, with every number, the next; a function that follows a recursion |

### Correspondence with the code

**StateCache.** One action per critical section or RPC call. `run[r]` is the program counter of a caller of `run`:
start, subscription, activation, log handling and the three deferred releases are separate steps, because they are
separate critical sections. `op` is the call that holds the gate (`QuotePair` or `CheckState`); its copies of generation
and floor are taken at the start and compared at the end. A snapshot's contents are abstracted to `reads`, the set of
pool states its reads were served from: one element means one block. `updates` is the channel of `Changes`.

**RetainedSubscription.** One action per branch of the session loop's `select`: a log (skipped, garbled, buffered,
applied, fatal), a finished capture (stale, failed, installed, contradicted), a recovery request, the delay. The worker
of a capture has one step per read phase and verification. The pool is its price, its set of applied deltas and the
liquidity in range, so that a delta lost, applied twice or taken from another block is visible. `published` is what the
observer of snapshots was given last; `torn` is history: was some read of the baseline served from another block? The
session of v4 is the same line for line: it filters by pool id, and `ModifyLiquidity` replaces `Mint` and `Burn`.

**RetainedObservation.** The watcher takes one step per RPC call of a proof (state, head, cursor, logs, recheck, head
check), then decides and confirms. `progress` is what it has proved and for which state.

**SolanaCache.** `run` and `watch[a]` are `Run` and its goroutine for an address; `op` is the call that holds
`s.refresh` (a quote, a check, `Warm`, or the window worker), with one step per snapshot request. An account is the slot
of its last change; `moved` stands for the comparison of generations. `snapshot` holds all accounts at one slot,
`retained` each by itself. `configs` is `s.configs`, the fee configurations as decoded from the last capture of a quote
or of `Warm`: a quote from the snapshot takes its fee from there, notifications and checks leave it. `checkedKey` is what
the last check read: only a second equal check installs a snapshot. `ledger` and `cursor` are the node: what changed
when, and how far each stream is. Meteora has the same code without fee configurations: `FeeConfigs` is empty.

**SolanaStream, VenueSocket, TickBatch.** One program counter per caller (`sub[s].pc`, `call[p].pc`, `work[w]`), a step
per critical section or blocking operation. `sync.Once` in `session.stop` is three states: whoever stops a session
meanwhile waits until the body has run. The keepalive is part of its session; an error is the place it comes from, so
"the caller's own error is in what it returns" is membership.

**SpreadExecutor.** A transaction is a record of phases: buying, selling, settling; between phases the venue runs, and
anything the contract allows may be called back: transfers from the contract within the allowance, deposits, pause and
role changes, `rescueToken`. `Revert` restores what the transaction saved. Checked arithmetic is the guard of a phase.

**SwapWalk.** One `Iterate` per loop of `quote`. Q96, 2^256, the fee unit and the tick range are small constants;
`sqrtAtTick` is a table of prices. Two checks that only end a walk with an error are left out: the budget of 2048
iterations (`v3/state_cache.go:438`) and liquidity over 128 bits (line 491). `before` is a quote made first on the same pool, whose result the second takes up.

**FeeOracle.** The contract is modelled independently of the code, as the list of all observations with the slots that
still hold one, in unbounded integers; the copy has the code's ring, known slots, and wrapping times and sums.

**SlipstreamRetained.** One action per branch of the session's loop; `Continue` processes the pending logs after every
event until one waits for its header. `Ordered` is the application of a block's logs from `replayBase` again. Every
log writes the oracle: the code does so when the tick or the active liquidity changes, and the swaps and mints of the
model are those that do change them.

**SuiRetained.** `phase` follows `RunRetained`: subscribe, warm (head, then commit with the floor re-check), activate,
run, and the deferred exit. The pool's version is the number of transactions that touched it, so the history is the
sequence `tx`, and inputs are correct exactly when they equal `tx[retained.version]` on the window. The detached capture
takes its floor in one critical section, warms a candidate against that floor, and is installed after the replay of what
was received meanwhile. Reads of one checkpoint are immutable, so a capture is determined by its checkpoint. Cetus keeps
the ticks of a fixed window, the others bitmap words and ticks; `venue` "momentum" stands for Bluefin, whose code differs
in names and the trading switches.

**Refinement.** `FencedCache` is what a cache owes its caller. `StateCache` and `SolanaCache` each implement it:
`floor` is the invalidated block (`minimumSlot`), `entry` the version of the snapshot a quote may use again. A step of
several fields at once is one abstract step: a notification drops the entry when it raises the floor, and only a
capture that nothing overtook installs one.

## 3. Runs

| Run | Shows | Bounds and why they are enough |
| --- | --- | --- |
| `state_cache` | snapshots of one block, never below the floor, reflecting every handled log, when heads do not regress; the cache refines `FencedCache` | 4 blocks, reorganisation depth 1: two branches and a block above them; every read may fall on either side. A dropped block may return while there are at most three blocks (`ReturnsEarly`) |
| `state_cache_sessions` | one session, no lost notification, a caller that keeps asking is served | 2 callers of `Run`, 2 sessions, a failure, 2 blocks, one return |
| `state_cache_heads` | *violated*: a log skipped as covered need not be reflected when a later head is lower | 3 blocks |
| `observation` | inputs published as current, captures of one block, no delta lost, confirmed price and deltas exact | 3 blocks with swaps and mints, depth 1, a fault, a recovery request, both entry points |
| `observation_live` | no delta counted twice, recovery and idle confirmation | repeated and inapplicable logs, buffer of 1, two sessions, a fault |
| `observation_liquidity` | *violated*: confirmed liquidity may miss a mint | 4 blocks, no reorganisation and no fault needed |
| `solana_cache` | what may be quoted again is one slot's state, with the fee read with it unless a check installed it, watched and fenced; window captures undo nothing | a pool, its fee configuration and two arrays, 2 slots; two scenarios (`MCSolanaScenarios`): the price and the address set move in one `Run` without failures, or the price stays and there are 2 calls of `Run`, a failure, streams that start a slot behind and changes of the fee configuration |
| `solana_cache_watched` | *violated*: a reusable snapshot may use an address that nobody watches | one `Run`, no failure needed |
| `solana_cache_fee` | *violated*: a quote may take its fee from an older fee configuration than its snapshot's | one array, one `Run`, no failure needed |
| `sui_retained` | coherent inputs, covered confirmation, recovery, settling, for the venues' two kinds of inputs | 4 versions (3 for the bitmap venues) in 2 checkpoints, 3 words of two ticks (the window covers 2 or all of them), replay of 1 so that it overflows, a failure |
| `spread_executor` | the contract: profit, own tokens, no allowance left | 2 tokens, venues and accounts, amounts 0..1, balances up to 3 |
| | quotes: liquidity of the positions, no internal error, rounding | up to 3 overlapping positions, prices of 17 ticks, words of 4, fees of 0, 1 and 3 in 10, amounts from 1 to 80 |
| | the fee's history answers like the contract | times wrap at 14, sums at 56, rings of up to 3, 4 observations: the ring wraps and grows |
| | a Slipstream session that has handled its logs has the chain's pool | 3 logs in 3 blocks, up to 2 in one and those of mints in any order, a repetition, 2 failed captures or lost connections, buffer of 3 |
| `parts` | one connection, own errors, whole deliveries, nobody left waiting | 2 goroutines over 2 sessions of a venue's socket; 2 subscriptions, 2 ids, queues of 1; 2 workers, 3 batches |

The violated runs and what they contradict are the entries of "findings" in `PROJECT.json`.
`CHECK_DEADLOCK FALSE` is set where the bounded environment stops (no more blocks, transactions or failures) and the
program waits for input.

**Bounds.** `MaxBlocks`, `ReorgDepth`, `MaxReturns`, `MaxSessions`, `MaxFailures`/`MaxFaults`/`MaxLosses`,
`MaxDuplicates`/`MaxRepeats`, `MaxRefreshes`, `MaxTx`, `TxLimit`, `MaxTop`, `MaxSlot`, `StreamLag`, `MaxRuns`,
`MaxNotes`, `MaxWrites`, `BlockLogs`, `MaxHeight`, `MaxLogs` and `MaxBalance` bound the environment and are only in its
guards. `ReplayLimit`, `JournalLimit`, `ProofLimit`, `BufferLimit`, `QueueLimit`, `ReadBatch` and `MaxAttempts` are
limits of the code, made small. In `ObserveCheckpoint` of `SuiRetained` the caller names the newest checkpoint only, and
a transaction carries either the last watermark or the newest it can.

**Fairness.** A goroutine that can run does run, an RPC call returns or fails, a timer fires: weak fairness of the
program's steps. Failures, blocks, transactions and reconnects are never fair.

- `state_cache_sessions` uses strong fairness for taking the gate, since waiters of a Go channel are served in order,
  and assumes the node's head catches up in the end; without it nothing can be served.
- `observation_live` and `sui_retained` state their liveness for a session that stays up. They do not assume that a
  caller reconnects.
- `parts`: mutexes are fair (Go's are starvation-free), a dial, a ping and the closing of a connection return, a read or
  write of a connection returns once that is closed, a request to a Solana node ends by its answer, its context or the
  end of the connection; a node need not answer, a fetch need not return before its context ends.

## 4. Proofs

For every value of the constants that meets the named assumptions of the modules, and nothing else.

`EvmChainProofs` has the lemmas about the chain: a block, once made, is never changed; growth and return keep the types.

`StateCacheProofs`:

- `TypeCorrect`, `FloorSafe`: `FloorRespected` is not inductive, because the capture is made outside the lock. `Fence`
  strengthens it: a call whose generation is still current also has the current floor, and no capture is below the floor
  it was started with. A log that raises the floor also moves the generation, so a commit that passes the comparison is
  at or above the floor.
- `CacheRefines`: the same facts show that every step is a step of `FencedCache` or a stutter.
- `SessionSafe` and `ChangesSafe` follow from their own induction.
- `CoherenceSafe`: `BlockCoherent` with `CallCoherent`: as long as the captured header is canonical, every read so far was
  served from its block; the verification at the end establishes that for good. It says so up to the first return of a
  dropped block: one that is dropped and comes back between two reads defeats a check of the header.
- `LogsSafe`, for heads that do not regress and chains that do not return to a dropped block; with a
  regressing head it is false (`state_cache_heads`), with returning blocks it is only model-checked. `LogsReflected` speaks of
  every log handled so far, those skipped as covered included, so no floor or generation records it. `Bounded` does: a
  handled or covered block that is still canonical is at most the floor or the reported head, hence at most what a call
  that was not overtaken will capture, and at most what it has captured. `WellKnown` holds what that needs: headers,
  notices and the covered block carry the number of the block they name, and a reusable snapshot is the covered block.

`ObservationProofs`, for the session with its watcher:

- `PublishedSafe`: every critical section that changes inputs, generation or liveness ends with `Publish`. `Told` adds
  that a session which has not subscribed yet retains nothing, so that becoming active needs no publication.
- `BaselineSafe`: `CaptureSound` says of the progress handed from attempt to attempt that, if one of its reads came from
  another block, its own block is not canonical any more; and that cannot change, since blocks do not return in that
  specification. `verifyRetainedCapture` is the last step of a capture, so what is installed is sound.
- `ObservedTypeOK`: the types of the session and its watcher. `ObsTypes` adds what keeps them: blocks form a tree of
  `MaxBlocks` at most (`ChainGood`), the buffer is empty where nothing is captured and within its limit elsewhere, and the
  watcher knows a pool and a block in every phase that reads them (`Current`). `CandidateType` and `CacheStep` carry
  the types through the recursive functions that append to the journal and replay the buffer (by `Induction`), and the
  lemmas `MovesIs` to `DecideIs` say field by field what each step of the watcher does.
- `ConfirmedSafe`: what was confirmed is the pool of the proved block. The hypothesis `Fits` is the environment of the
  observations below: a journal at least as long as the chain (4), a stream that is not behind the node (3), and no
  repeated logs where `RunRetained` is used (7). The property relates what one goroutine proved over several RPC calls to
  what another has made of the cache meanwhile, so the invariant `ObsInv` has a part for each:
  - `OrderInv`: buffer and journal are in the order of the blocks, and older than every log still to come (`Coming`).
  - `Plain`: in a session that ends at removed logs, what was received and what is to come has no gap on its branch.
  - `PoolInv`, `PriceInv`: the retained deltas are those of the baseline and of the journal, each once, and the price is
    that of the newest swap of the two; what is to come is above the baseline (`Ahead`).
  - `FetchInv`: a running capture has in its buffer whatever canonical log of the journal is above the block it may install.
  - `WatchInv`: what the watcher remembers of an earlier reading is still in the journal, or the pool was captured anew
    above it (`Minds`); in every phase, what its calls have established so far about the range from the baseline to the
    head, where a block it named is still canonical (`Proves`); and of the confirmed state, that it is good for as long as
    the receipt time is that of the pool (`Confirms`).

  No step needs to look at what another step did in between: each part is kept by every action (`OrderStep`, `PoolStep`,
  `PriceStep`, `FetchStep`, `MindsStep`, `ProvesStep`, `ConfirmsStep`, and `WatchKeeps` for the watcher's own), and
  `GoodProved` draws the conclusion when the state is applied. The receipt time is what makes the state fence sound: it
  grows with every change of the retained inputs (`ReceivedNew`).
- `BufferSafe`: of a capture that can still be installed, the buffer holds every log above the baseline that was received
  since the inputs were withdrawn, or that was applied to the inputs in use. Beside `Fits` it needs `Roomy`, the rest of
  observation 1: one session, and a buffer that does not overflow. For inputs in use it is `FetchInv`. For withdrawn ones
  `HeardInv` says that what was received is buffered or at most at the recovery floor, and that no capture is read below
  that floor: the two critical sections that withdraw inputs raise the floor to the newest block observed, a resumed
  attempt asks for the block of the attempt before it, and between two attempts logs are still buffered. `FirstSession`
  keeps the notices of an earlier session out of it, and `Room` shows that logs in order fit.

`SolanaCacheProofs`: `SolTypeCorrect`, and with `SolFence` (a call that was not overtaken has a minimum slot at or above
the cache's, and what it captured is the ledger at that slot) `CachedExactSafe` and the refinement `SolanaCacheRefines`.
The fee half of `CachedExactSafe` needs `FeeKept`: not only a reusable but every snapshot has its fee configurations in
`configs` or is what the last check read, and a quote in progress from the cache commits the snapshot it found. The
exception cannot be dropped (`solana_cache_fee`).
`RetainedSafe` comes with `SolKept` (a change received after a capture took its minimum slot is retained at its own slot already,
and the merge goes by slots). `FollowedSafe`, where reads are not behind the streams (`~ReaderBehind`), with `StreamsKnown`
(the active streams are those of the session's addresses), `CopiesKnown` and `Followed`: while `Run` waits with no signal
pending and a stream is open, the snapshot, and what a call that was not overtaken is about to make of it, has the
addresses of the streams and was read at a slot that none of them has passed. The counts that `Reusable` compares then
mean the same sets. With reads behind the streams the property is false: a change delivered before the capture may be
missing from it.

`SuiRetainedProofs`, for any number of transactions, ticks, words and checkpoints and any replay limit: `RetainedTypeCorrect`,
`CoherentSafe`, `ConfirmedCurrentSafe` and `RecoveryIncludesSafe`, from one inductive invariant, `RetainedInv` (none of the
four is inductive, since what is retained comes from a capture and from a stream that started elsewhere):

- `PoolKept`: transactions lie in checkpoints one after another, and a tick a transaction did not name is the one before.
- `InputsKept`: retained inputs include their baseline (`Based`) and are the pool's at their version (`Exact`), and live
  ones are not behind what was delivered (`Abreast`), except before anything was delivered.
- `StreamKept`: a watermark, and hence what was confirmed, is included in what was delivered.
- `CaptureKept`: the replay of a running capture is every transaction since it started, unless it overflowed, and what the
  capture brings cannot be older than its start. So the replay closes the gap between the two.
- `RecoveryKept`: the floor of a capture is at or above a refused checkpoint.

The step of an installation needs what the replay computes, for a replay of any length: `Replayed` is a recursive function,
and `Induction` shows that it has its values step by step and that each is the pool at that version.

`PartsProofs`, for any number of callers, sessions, subscriptions, ids, workers and batches:

- `VenueSocket`: `SocketTypeCorrect`; `OneConnectionSafe` with `SessionLocked` (a session is replaced only under `c.mu`, by
  a `Close` that has waited for its keepalive); `OwnErrorSafe` with `ErrorOnItsWay` (a call that failed is on its way to
  `stop`).
- `TickBatch`: `AllOrNothingSafe` with `HandedOut` (without a failure, every batch handed out is stored or being fetched).
- `SolanaStream`: `DeliversAll`, with `Delivery`. What makes it hard is an id that the node gives out twice: a notification
  carries the id only, so whose queue it reaches depends on the answers that are still unread in front of it. `Later` says
  that a second holder of an id was answered after the first; hence a notification of the second is preceded by an answer
  that either is read first and stops the connection, or makes the second the holder (`OwnNotes`). `Consecutive`: what is
  under way for a subscription carries, in order, the numbers from the one due to the last one sent; so their count is what
  `DeliversAll` says.
- `PartsTypeCorrect` and `PartsDeliverSafe` are about the specification of all three.

`TradeProofs` has three parts. The contract, for all sets of tokens, venues and accounts and all amounts: `IInv` says that at most one
allowance is live and only within its phase (`OneAllowance`), that the reentrancy flag is up exactly during an execution
(`Locked`), that what the contract holds covers what it held before plus the live allowance (`Covered`), that the two
tokens differ (`Distinct`), and that before the sell the quote balance is what the buy left, at least the initial one
(`Accounted`). From it follow `AllowanceSafe`, `ProfitSafe` and the action property `KeepsOwnSafe`.

The local quote, for every finite set of positions, every pool made of them, every table of prices that grows with the
ticks, every word size and spacing, both clients, and all fees and requests:

- `LiquiditySafe`. `WalkInv` is inductive: the walk's liquidity is the pool's at its tick, and its price lies within that
  tick. `NextTickPasses` shows of `nextTick` that there is no initialized tick between the walk's and the one it
  returns, below zero too and whether it stops at one or at the end of a bitmap word; `SameLiquidity` that liquidity does
  not change over such a stretch, and `NetLiquidity` that the net of a tick is its change. They rest on the sums of a
  finite set's sizes (`SizeOfRemove`, `SizeOfDisjoint`), by induction on its cardinality. Hence the error
  liquidity=out_of_range cannot occur either.
- `StepsCompleteSafe`. `CalculateStepSound`: a step ends between its price and its target, takes at most what is left, and all
  of it when it stops short of the target. Its cases are the four formulas of `nextPrice`, the contract's fallback and v4's own
  `calculateStep`, each reduced to facts about natural numbers (`InZero` to `OutUp`, `FeeFits`). That the result fits 256 bits is a
  property of the whole walk: `AmountsInv` carries that the amounts moved so far are together at most what all liquidity
  holds between the first price and the current one (`ReckonNext`, by telescoping), plus one unit of rounding per step,
  and that each further step has moved the tick. `AmountsAssumption` is what the contract's widths give: liquidity below
  2^128 and prices below 2^160 leave room for that sum and its fees in 256 bits.
- `FeeForPoolSafe` and `RoundsForPoolSafe` compare two walks over one captured state. Neither is a fact about the second
  walk's variables alone, so their invariant carries the first one: `FirstWalk` says that the walk is at the end of a
  sequence of places, each a step that reached its tick from the one before (`Trodden`), and that a quote made the last step
  (`Last`); `SecondWalk` says that the second walk is at one of these places (`Along`: same price, tick and liquidity, and
  as much left and done as makes up for the fee or pays the cost), or has already given enough. The steps from one place are
  compared by `InputWithoutFee`, `OutputWithoutFee` and `CostBuys`, which rest on `FurtherMore` (an amount grows along the
  way, in both roundings), `InputFurther` (more of an input moves the price at least as far, also across the overflow
  fallback) and `InputReaches` (an amount that pays for the way to a price moves the price there). The last one needs that
  `liquidity * 2^96 + amount * price` fits 256 bits; `ProductsFit` says so of the walk that pays a cost, and is the one hypothesis of
  `RoundsForPoolSafe`. It always holds of costs below 2^95; beyond the overflow the claim is false (observation
  15). `FeeForPoolSafe`, the half about the fee, needs no hypothesis. These two invariants quantify over sequences of
  places, so TLC checks what follows from them, `RoundsForPool`, and not the invariants themselves.

The price history, `FeeHistorySafe`, for all ring sizes, windows, ticks and batch sizes and any number of observations:
`FeeHistoryExact`. `OracleInv` is inductive:

- `HistoryOK`: the times rise within one wrap, and between two observations the sum rises by a tick a second.
- `RingOK`: slot `i` holds the observation as many before the newest as `i` lies behind its slot, or nothing where the
  ring has grown and not been filled.
- `CopyOK`: the copy is the contract's ring restricted to the slots it knows (`CopyOf`), wrapped, and these reach back to
  an observation older than the window, or are all (`Reaches`). So the restriction never shows: `ObserveAnswers` follows the
  walk of `observe` to the observation at which the contract's search ends, and `ObserveReaches` is the converse, that a
  new window for which `observe` reports no gap is reached by what is known.

That wrapped times and sums give the same differences is `SinceExact` and `WrapDiffers`; the latter needs
`OracleAssumption`: the steepest tick for a whole wrap of the time stays below the range of a sum (2^20 * 2^32 < 2^55).

**Only model-checked.** All liveness; `LogsReflected` with returning blocks; `BufferComplete` across sessions or
overflows, where it does not hold (observation 1); `ConfirmedLiquidity`, which `observation_liquidity` refutes;
`RoundsForPool` where the products of `nextPrice` overflow; `RetainedExact`, whose state before a block is a fold over
an order that the model picks: what it computes is beyond the provers' induction.

## 5. Observations

Beside the findings, the models show these behaviours of the code; they have no run of their own.

1. `v3/retained_subscription.go:214` and `:386`: a live log that cannot be applied, or an overflowed buffer, is recovered
   from with the last applied log as the floor, so a lagging `LatestHeader` can install an older baseline than the logs
   discarded (`retained_events_test.go:159` expects the opposite). `BufferComplete` therefore speaks of captures that can
   still be installed, `Roomy` is a hypothesis of its theorem, and the runs let a session settle on the newest head.
2. `v3/retained_subscription.go:281`: a buffered swap of a block that was dropped is replayed live over the baseline that
   replaced it. `ConfirmedState` speaks of the price only in sessions that end at removed logs.
   In the same way a Mint or Burn log below the number of a baseline whose block was dropped after its last check is
   skipped as part of it (`retained_quote.go:104`), and the cursor, set back by such a swap, lets the next capture leave
   it out too. That takes a reorganisation of at least three blocks. `BufferComplete` therefore speaks, for inputs in use, of the
   logs that were applied.
3. `v3/retained_quote.go:142`: a Mint or Burn log that arrives after the capture of its block was installed is added
   twice when the stream is behind the RPC node. `StreamBehind = FALSE` excludes it from the runs.
4. `evmobservation/journal.go:50`: the evicted entry of a dropped block lets a state be confirmed; `JournalLimit` is
   larger than the number of logs in the runs.
5. `v3/state_cache.go:83`: a block that is dropped and returns between two reads mixes two blocks in one snapshot.
   `BlockCoherent` is stated until the chain first returns.
6. `cetus/clmm/retained_subscription_scope.go:16` says that `Warm` "pins a later baseline" than the subscription, but the
   head is only bounded by the checkpoint floor: with a lagging reader the transactions between the baseline and the
   start of the stream are in neither. `Coherent` and `ConfirmedCurrent` are stated for a baseline that does not precede
   the stream; readers lag freely in the run.
7. `v3/retained_log_order.go:32`: only the event session drops repeated notices. In `RunRetained` a Mint or Burn log that
   the provider sends twice is added twice; hence `MaxDuplicates = 0` in `observation`, where both entry points run, and
   1 in `observation_live`, which runs the event session.
8. Solana, `raydium/clmm/state_cache.go`: an array outside the address set is not notified, so after the price has left
   and come back the snapshot can be reused with it stale until `Run` has replaced its streams (the finding of
   `solana_cache_watched`); the retained copy of an account misses what changed between two subscriptions; `Warm` during
   `Run` changes the addresses without a signal, so that only the next quote notices.
9. Solana, `raydium/clmm/state_check.go:88`: what `solana_cache_fee` finds goes further when nothing was decoded yet: a
   window capture gives the addresses, two equal checks the snapshot, and quotes are answered without any fee, since the
   lookup in the empty `s.configs` gives a rate of 0 (`NoFee`). `retained_window.go`: `!s.running` in `captureRetainedWindow` cannot hold there; a stream is
   closed before the cache is invalidated, so for a moment a snapshot has streams that have ended.
10. `lighter/websocket/client.go`: a pong may be written to, and a message of an old session returned after, a newer
    session was opened: both hold the session they started with.
11. `lighter/websocket/client.go:257` (and Arcus): for a message above `MaxMessageBytes`, `Recv` stops the session with its own
    error and returns `s.failure()`, not `s.fail(err)`: when the keepalive failed first its error is returned instead, and
    when `Close` came first neither a message nor an error. The default dialer refuses such messages itself; a `Dialer`
    of the caller's need not. `parts` has them (`Oversized`), and `OwnErrorKept` speaks of reads and writes that fail.
12. `v3/local_math.go`: an exact output equal to the floored amount at a tick moves the price onto the tick; and the quote
    without a fee of `QuoteGrossPair` may run out of liquidity where the one with the fee does not.
13. Sui: a user's own `Warm` or `QuotePair` while a session runs can set the retained inputs back below transactions that
    were applied and are not sent again. Not modelled; the run has the session's own `Warm` only.
14. Slipstream: a buffered swap from before the baseline sets the active liquidity, as in v3 (which is why the active
    liquidity is left out of that model); a late swap of the same block with a lower index replaces the newer price until
    the next swap (hence `LateKinds = {"mint"}`); a `LatestHeader` behind the start of the streams leaves a gap.
15. Slipstream, `retained_subscription.go:221`: after such a swap the floor of a capture is below the baseline. With a
    `LatestHeader` that lags (`HeadsRegress = TRUE`) the next baseline is older, and the check against a regressed window
    passes once a newer log was replayed; a mint between the two baselines is lost. The intent is that of
    `retained_window_test.go:46`. The run assumes heads that do not regress.
16. `v3/local_math.go:69`: in the contract's fallback for products over 256 bits the next price is rounded up more coarsely, so
    there the cost of an exact output, paid as an exact input, can leave the output short (`TestExactOutputRequiresSufficientInputBothDirections`
    tries amounts far below). With liquidity 243442217213647782797501402211479 and prices from 956083204410799324866046542453
    down to 256536082014 the input 75184275821220134863637540238073064354152176392792 ends one unit above that price.
    The code follows the contract; it takes an amount of some 2^165 near the lowest prices.

## 6. Plan and what is left

All parts of the first plan are modelled: the caches of v3 and Solana, the retained sessions of v3/v4, Slipstream and
Sui, the idle observation, the transports, the batches, the quote and the contract. In the order of their worth, what
remains:

1. Theorems about `SlipstreamRetained`.
2. Callers of `QuotePair` and `Warm` next to a Sui session (observation 13), and `CheckState` of the Sui venues.
3. Raydium CPMM; Bluefin Pro's stream; the state cache over v4's pool manager.
4. Liveness of a Slipstream session (every matched log is applied): its steps are whole handlers, and ENABLED over them
   was too slow for TLC.

Two hazards are listed without a property: the eviction of the journal (observation 4) and a baseline older than the
stream on Sui (observation 6). In both the code as it is violates the obvious property; what it says elsewhere is not
definite enough to call that a finding.

## 7. Not modelled

- Generated bindings (`*.pb.go`, the contract bindings), the CLI, experiments: no logic of their own. They are the
  larger part of the lines that are not mapped.
- REST, RPC, gRPC and GraphQL plumbing, parsing, decoding, catalogues, validation and formatting: sequential functions of
  one response, without state between calls; the environment modules state what they deliver.
- ERC-20, LP and fee analysis, perpetual venues' REST clients: read-only computations over one response each.
- 256-bit arithmetic at its real width, `sqrtAtTick`, Slipstream's fee formula, the swap arithmetic of Solana and Sui
  venues; hooks of v4.
- Reorganisations and changes of the fee module in a Slipstream session (they end it), headers forgotten after 256 and
  the limit of 4096 pending logs.
- Wall-clock ages: a snapshot that expires by age is one that is not reused.
- The tokens of the contract move what they are asked to or fail; fee-on-transfer tokens are left out.
