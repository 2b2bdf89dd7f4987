----------------------------- MODULE StateCache -----------------------------
(***************************************************************************)
(* The block-coherent quote cache of a Uniswap v3 pool                     *)
(* (go/venues/uniswap/v3/state_cache.go and state_check.go).               *)
(*                                                                         *)
(* Three kinds of goroutines share one StateCache:                         *)
(*   - Run keeps a log subscription and invalidates on pool logs;          *)
(*   - QuotePair and CheckState, one at a time (c.gate), capture the pool  *)
(*     over several RPC calls and accept the result only when no           *)
(*     invalidation happened meanwhile (the generation fence);             *)
(*   - one consumer takes the coalesced notifications of Changes.          *)
(* Every RPC call is a step of its own: the chain, the subscription and    *)
(* the consumer move between any two of them.                              *)
(*                                                                         *)
(* A pool read is abstracted to the name of the pool state it was served   *)
(* from; a snapshot keeps the set of those names.  Swap arithmetic, read   *)
(* budgets and wall-clock time are abstracted: a snapshot may turn out too *)
(* old at any of the two places the code compares ages.                    *)
(***************************************************************************)
EXTENDS EvmChain, Integers

CONSTANTS
    Runners,        \* goroutines that call Run
    MaxSessions,    \* bound: calls of Run that get past the running check
    MaxFailures,    \* bound: failed RPC calls plus snapshots aged out while quoting
    UseChanges,     \* does the application call Changes?
    HeadRegress     \* may LatestHeader answer with a lower head than before?

ASSUME CacheAssumption ==
    /\ IsFiniteSet(Runners)
    /\ MaxSessions \in Nat
    /\ MaxFailures \in Nat
    /\ UseChanges \in BOOLEAN
    /\ HeadRegress \in BOOLEAN

VARIABLES
    rpcHead,            \* block number LatestHeader answers with
    wire,               \* logs sent to the subscription, not handled yet
    run,                \* control state of each Run
    sessions, failures, \* the bounded counters
    running, active, generation, floor, floorHash, covered,
    verificationEpoch, retained, updates,    \* StateCache, protected by mu
    snapshot, cachedGeneration,              \* StateCache, protected by gate
    op,                 \* the call that holds the gate
    outcome,            \* how the last QuotePair or CheckState ended
    noted,              \* generation at the consumer's last receive from Changes
    delivered           \* logs handled by Run and not removed since

nodeVars  == <<rpcHead, wire>>
lockVars  == <<running, active, generation, floor, floorHash, verificationEpoch,
               updates>>
gateVars  == <<snapshot, cachedGeneration, op, outcome>>
pubVars   == <<covered, retained>>
boundVars == <<sessions, failures>>
ghostVars == <<noted, delivered>>
vars == <<chainVars, nodeVars, run, boundVars, lockVars, pubVars, gateVars, ghostVars>>

-----------------------------------------------------------------------------
NoHeader == [num |-> 0, hash |-> EmptyHash]
NoSnapshot == [num |-> 0, hash |-> EmptyHash, reads |-> {}]
Headers == [num : Nat, hash : Hash \cup {EmptyHash}]
Snapshots == [num : Nat, hash : Hash \cup {EmptyHash}, reads : SUBSET Hash]
HeaderOf(s) == [num |-> s.num, hash |-> s.hash]

Phases == {"free", "latest", "floor", "slot0", "liquidity", "ticks", "verify",
           "previous", "commit"}
\* Phases with a captured header.
Captured == {"slot0", "liquidity", "ticks", "verify", "previous", "commit"}
\* Phases that end in an RPC call, which may fail.
Calling == {"latest", "floor", "slot0", "liquidity", "ticks", "verify", "previous"}

\* The locals of the call in progress: "gen", "floor" and "floorHash" are the
\* copies taken under mu at its start, "s" the snapshot it works on, "read" is
\* budget < 64, "reorg" as in CheckState.
Idle == [pc |-> "free", kind |-> "none", gen |-> 0, floor |-> 0,
         floorHash |-> EmptyHash, s |-> NoSnapshot, read |-> FALSE, reorg |-> FALSE]

TypeOK ==
    /\ ChainTypeOK
    /\ rpcHead \in 1..Height
    /\ wire \in Seq(Logs)
    /\ run \in [Runners -> {"idle", "starting", "subscribed", "watching", "closing"}]
    /\ sessions \in Nat /\ failures \in Nat
    /\ running \in BOOLEAN /\ active \in BOOLEAN
    /\ generation \in Nat /\ cachedGeneration \in Nat /\ noted \in Nat
    /\ floor \in Nat
    /\ floorHash \in Hash \cup {EmptyHash}
    /\ verificationEpoch \in Nat
    /\ covered \in Headers
    /\ retained \in Snapshots /\ snapshot \in Snapshots
    /\ updates \in {"nil", "empty", "full"}
    /\ op \in [pc : Phases, kind : {"none", "quote", "check"}, gen : Nat, floor : Nat,
               floorHash : Hash \cup {EmptyHash}, s : Snapshots,
               read : BOOLEAN, reorg : BOOLEAN]
    /\ outcome \in {"none", "quoted", "checked", "failed"}
    /\ delivered \subseteq Hash

Init ==
    /\ ChainInit
    /\ rpcHead = 1
    /\ wire = <<>>
    /\ run = [r \in Runners |-> "idle"]
    /\ sessions = 0 /\ failures = 0
    /\ running = FALSE /\ active = FALSE
    /\ generation = 0 /\ floor = 0 /\ floorHash = EmptyHash
    /\ verificationEpoch = 0
    /\ covered = NoHeader /\ retained = NoSnapshot
    /\ updates = "nil"
    /\ snapshot = NoSnapshot /\ cachedGeneration = 0
    /\ op = Idle
    /\ outcome = "none"
    /\ noted = 0 /\ delivered = {}

-----------------------------------------------------------------------------
(* The environment: chain and nodes. *)

Subscribed == \E r \in Runners : run[r] \in {"subscribed", "watching", "closing"}

Send(logs) == wire' = IF Subscribed THEN wire \o logs ELSE wire

NewBlock ==
    /\ \E n \in 1..Height, log \in Effects :
          /\ Grow(n, log)
          /\ Send(Notices(n, Len(block) + 1, Child(n, log)))
          /\ rpcHead' = IF rpcHead > n + 1 THEN n + 1 ELSE rpcHead
    /\ UNCHANGED <<run, boundVars, lockVars, pubVars, gateVars, ghostVars>>

OldBlock ==
    /\ \E h \in Hash :
          /\ Return(h)
          /\ Send(Notices(Height - 1, h, block[h]))
    /\ UNCHANGED <<rpcHead, run, boundVars, lockVars, pubVars, gateVars, ghostVars>>

\* The node behind LatestHeader catches up, or another, slower node answers.
HeadMoves ==
    /\ rpcHead' \in 1..Height
    /\ rpcHead' # rpcHead
    /\ rpcHead' > rpcHead \/ HeadRegress
    /\ UNCHANGED <<chainVars, wire, run, boundVars, lockVars, pubVars, gateVars, ghostVars>>

-----------------------------------------------------------------------------
(* Run. *)

\* Mutant: an unbuffered channel, whose non-blocking send finds no receiver.
SignalUnbuffered == updates' = updates

\* signalChange: a non-blocking send on a channel of capacity one.
Signal == updates' = IF updates = "empty" THEN "full" ELSE updates

\* Mutant: the running check is missing.
RunStartAgain(r) ==
    /\ run[r] = "idle"
    /\ sessions < MaxSessions
    /\ running' = TRUE
    /\ run' = [run EXCEPT ![r] = "starting"]
    /\ sessions' = sessions + 1
    /\ UNCHANGED <<chainVars, nodeVars, failures, active, generation, floor, floorHash,
                   verificationEpoch, updates, pubVars, gateVars, ghostVars>>

\* The first critical section; a caller that finds running set returns at once.
RunStart(r) ==
    /\ run[r] = "idle"
    /\ sessions < MaxSessions
    /\ ~running
    /\ running' = TRUE
    /\ run' = [run EXCEPT ![r] = "starting"]
    /\ sessions' = sessions + 1
    /\ UNCHANGED <<chainVars, nodeVars, failures, active, generation, floor, floorHash,
                   verificationEpoch, updates, pubVars, gateVars, ghostVars>>

\* SubscribeFilterLogs answers: from here on the node forwards logs.
RunSubscribe(r) ==
    /\ run[r] = "starting"
    /\ run' = [run EXCEPT ![r] = "subscribed"]
    /\ wire' = <<>>
    /\ UNCHANGED <<chainVars, rpcHead, boundVars, lockVars, pubVars, gateVars, ghostVars>>

RunSubscribeFails(r) ==
    /\ run[r] = "starting"
    /\ run' = [run EXCEPT ![r] = "idle"]
    /\ running' = FALSE
    /\ UNCHANGED <<chainVars, nodeVars, boundVars, active, generation, floor, floorHash,
                   verificationEpoch, updates, pubVars, gateVars, ghostVars>>

RunActivate(r) ==
    /\ run[r] = "subscribed"
    /\ run' = [run EXCEPT ![r] = "watching"]
    /\ active' = TRUE
    /\ floorHash' = EmptyHash
    /\ generation' = generation + 1
    /\ Signal
    /\ UNCHANGED <<chainVars, nodeVars, boundVars, running, floor, verificationEpoch,
                   pubVars, gateVars, ghostVars>>

\* Mutant: any block from the covered one on counts as covered.
IsCoveredFrom(log) == ~log.removed /\ log.num >= covered.num

\* A log of the exact block that the last accepted capture verified.
IsCovered(log) == ~log.removed /\ log.num = covered.num /\ log.hash = covered.hash

Invalidate(log) ==
    /\ generation' = generation + 1
    /\ Signal
    /\ floor' = IF log.num >= floor THEN log.num ELSE floor
    /\ floorHash' = IF log.removed THEN EmptyHash
                    ELSE IF log.num >= floor THEN log.hash ELSE floorHash
    /\ verificationEpoch' = IF log.removed THEN verificationEpoch + 1 ELSE verificationEpoch

RunLog(r) ==
    /\ run[r] = "watching"
    /\ wire # <<>>
    /\ LET log == Head(wire) IN
          /\ wire' = Tail(wire)
          /\ delivered' = IF ~log.pool THEN delivered
                          ELSE IF log.removed THEN delivered \ {log.hash}
                          ELSE delivered \cup {log.hash}
          /\ IF ~log.pool \/ IsCovered(log)
             THEN UNCHANGED <<generation, updates, floor, floorHash, verificationEpoch>>
             ELSE Invalidate(log)
    /\ UNCHANGED <<chainVars, rpcHead, run, boundVars, running, active, pubVars,
                   gateVars, noted>>

\* The loop returns (context, subscription error, closed channel) and the last
\* deferred function runs first.
RunDisconnect(r) ==
    /\ run[r] = "watching"
    /\ run' = [run EXCEPT ![r] = "closing"]
    /\ active' = FALSE
    /\ floorHash' = EmptyHash
    /\ generation' = generation + 1
    /\ Signal
    /\ UNCHANGED <<chainVars, nodeVars, boundVars, running, floor, verificationEpoch,
                   pubVars, gateVars, ghostVars>>

\* sub.Unsubscribe, then running is released.
RunReturn(r) ==
    /\ run[r] = "closing"
    /\ run' = [run EXCEPT ![r] = "idle"]
    /\ wire' = <<>>
    /\ running' = FALSE
    /\ UNCHANGED <<chainVars, rpcHead, boundVars, active, generation, floor, floorHash,
                   verificationEpoch, updates, pubVars, gateVars, ghostVars>>

-----------------------------------------------------------------------------
(* The consumer of Changes. *)

\* Changes creates the channel at its first call; signals before it are lost.
Changes ==
    /\ UseChanges
    /\ updates = "nil"
    /\ updates' = "empty"
    /\ noted' = generation
    /\ UNCHANGED <<chainVars, nodeVars, run, boundVars, running, active, generation, floor,
                   floorHash, verificationEpoch, pubVars, gateVars, delivered>>

ReceiveChange ==
    /\ updates = "full"
    /\ updates' = "empty"
    /\ noted' = generation
    /\ UNCHANGED <<chainVars, nodeVars, run, boundVars, running, active, generation, floor,
                   floorHash, verificationEpoch, pubVars, gateVars, delivered>>

-----------------------------------------------------------------------------
(* QuotePair and CheckState.  Whoever holds the gate is "op". *)

\* Mutant: the call starts over under the gate, with the generation of its first attempt.
RejectRetrying ==
    /\ snapshot' = NoSnapshot
    /\ op' = [op EXCEPT !.pc = "latest"]
    /\ outcome' = "failed"
    /\ UNCHANGED cachedGeneration

\* Every error path of both: the cached snapshot is dropped, the gate released.
Reject ==
    /\ snapshot' = NoSnapshot
    /\ op' = Idle
    /\ outcome' = "failed"
    /\ UNCHANGED cachedGeneration

Goto(pc) == op' = [op EXCEPT !.pc = pc]

\* What a call leaves alone until it accepts its capture.
CallFrame == UNCHANGED <<chainVars, nodeVars, run, sessions, lockVars, pubVars, ghostVars>>
Working == UNCHANGED <<snapshot, cachedGeneration, outcome>>

\* May QuotePair use the cached snapshot? "old" is the age comparison.
Reusable(old) ==
    snapshot # NoSnapshot /\ active /\ generation = cachedGeneration /\ ~old

QuoteBegin ==
    /\ op.pc = "free"
    /\ \E old \in BOOLEAN :
          op' = [Idle EXCEPT !.kind = "quote", !.gen = generation, !.floor = floor,
                             !.floorHash = IF active THEN floorHash ELSE EmptyHash,
                             !.pc = IF Reusable(old) THEN "ticks" ELSE "latest",
                             !.s = IF Reusable(old) THEN snapshot ELSE NoSnapshot]
    /\ outcome' = "none"
    /\ UNCHANGED <<snapshot, cachedGeneration, failures>>
    /\ CallFrame

CheckBegin ==
    /\ op.pc = "free"
    /\ op' = [Idle EXCEPT !.kind = "check", !.gen = generation, !.floor = floor,
                          !.floorHash = floorHash, !.pc = "latest"]
    /\ outcome' = "none"
    /\ UNCHANGED <<snapshot, cachedGeneration, failures>>
    /\ CallFrame

\* An RPC call fails, or the context ends.
CallFails ==
    /\ op.pc \in Calling
    /\ failures < MaxFailures
    /\ failures' = failures + 1
    /\ Reject
    /\ CallFrame

\* Mutant: the latest header is taken whatever the floor.
LatestAny ==
    /\ op.pc = "latest"
    /\ op' = [op EXCEPT !.pc = "slot0", !.s = [NoSnapshot EXCEPT !.num = rpcHead,
                                                         !.hash = chain[rpcHead]]]
    /\ Working
    /\ UNCHANGED failures
    /\ CallFrame

\* capture: LatestHeader, and what its number decides.
Latest ==
    /\ op.pc = "latest"
    /\ \/ /\ rpcHead >= op.floor
          /\ op' = [op EXCEPT !.pc = "slot0", !.s = [NoSnapshot EXCEPT !.num = rpcHead,
                                                               !.hash = chain[rpcHead]]]
          /\ Working
       \/ /\ rpcHead < op.floor /\ op.floorHash # EmptyHash
          /\ Goto("floor")
          /\ Working
       \/ /\ rpcHead < op.floor /\ op.floorHash = EmptyHash
          /\ Reject
    /\ UNCHANGED failures
    /\ CallFrame

\* Mutant: the block is looked up, its hash is not compared.
HeaderExists(n, h) == n <= Height

\* HeaderByNumber(n): the node that serves it may be ahead of LatestHeader.
HeaderIs(n, h) == n <= Height /\ chain[n] = h

\* capture: the observed block is used after its hash is verified.
ObservedHeader ==
    /\ op.pc = "floor"
    /\ IF HeaderIs(op.floor, op.floorHash)
       THEN /\ op' = [op EXCEPT !.pc = "slot0", !.s = [NoSnapshot EXCEPT !.num = op.floor,
                                                             !.hash = op.floorHash]]
            /\ Working
       ELSE Reject
    /\ UNCHANGED failures
    /\ CallFrame

\* read: CallContract at the snapshot's block NUMBER.
Read(next) ==
    IF op.s.num <= Height
    THEN /\ op' = [op EXCEPT !.pc = next, !.read = TRUE,
                             !.s.reads = @ \cup {StateAt(op.s.num)}]
         /\ Working
    ELSE Reject

ReadSlot0 ==
    /\ op.pc = "slot0"
    /\ Read("liquidity")
    /\ UNCHANGED failures
    /\ CallFrame

ReadLiquidity ==
    /\ op.pc = "liquidity"
    /\ Read("ticks")
    /\ UNCHANGED failures
    /\ CallFrame

\* CheckState compares the block with the one of the snapshot it replaces.
Regressed == op.kind = "check" /\ snapshot # NoSnapshot /\ op.s.num < snapshot.num

\* quote reads the bitmap words and ticks that the snapshot does not hold yet;
\* CheckState reads again the ones the previous snapshot held.
ReadTicks ==
    /\ op.pc = "ticks"
    /\ op.kind = "check" => snapshot # NoSnapshot
    /\ ~Regressed
    /\ Read("ticks")
    /\ UNCHANGED failures
    /\ CallFrame

\* Both directions are quoted (or every old word is read): a call that read
\* anything verifies its block.  A regressed block ends CheckState before that.
ReadsDone ==
    /\ op.pc = "ticks"
    /\ IF Regressed
       THEN Reject
       ELSE Goto(IF op.read THEN "verify" ELSE "commit") /\ Working
    /\ UNCHANGED failures
    /\ CallFrame

\* CheckState asks for the previous block too, unless it has the same number.
Verify ==
    /\ op.pc = "verify"
    /\ IF HeaderIs(op.s.num, op.s.hash)
       THEN /\ LET old == op.kind = "check" /\ snapshot # NoSnapshot
                   same == snapshot.num = op.s.num
               IN  op' = [op EXCEPT !.pc = IF old /\ ~same THEN "previous" ELSE "commit",
                                    !.reorg = old /\ same /\ snapshot.hash # op.s.hash]
            /\ Working
       ELSE Reject
    /\ UNCHANGED failures
    /\ CallFrame

\* CheckState: is the previous snapshot's block still canonical?
VerifyPrevious ==
    /\ op.pc = "previous"
    /\ IF snapshot.num <= Height
       THEN /\ op' = [op EXCEPT !.pc = "commit", !.reorg = chain[snapshot.num] # snapshot.hash]
            /\ Working
       ELSE Reject
    /\ UNCHANGED failures
    /\ CallFrame

\* Mutant: the generation is read again instead of compared.
QuoteCommitUnfenced ==
    /\ op.pc = "commit" /\ op.kind = "quote"
    /\ covered' = HeaderOf(op.s)
    /\ retained' = op.s
    /\ snapshot' = op.s
    /\ cachedGeneration' = generation
    /\ op' = Idle
    /\ outcome' = "quoted"
    /\ UNCHANGED <<chainVars, nodeVars, run, boundVars, lockVars, ghostVars>>

\* Mutant: the cached generation is stored one too low (and wraps below zero).
QuoteCommitUnderflow ==
    /\ op.pc = "commit" /\ op.kind = "quote"
    /\ covered' = HeaderOf(op.s)
    /\ retained' = op.s
    /\ snapshot' = op.s
    /\ cachedGeneration' = op.gen - 1
    /\ op' = Idle
    /\ outcome' = "quoted"
    /\ UNCHANGED <<chainVars, nodeVars, run, boundVars, lockVars, ghostVars>>

\* QuotePair's last critical section and what follows it.  "late" is the second
\* age comparison: it comes after covered and retained are set.
QuoteCommit ==
    /\ op.pc = "commit" /\ op.kind = "quote"
    /\ LET changed == op.gen # generation IN
          \E late \in BOOLEAN :
             /\ late => failures < MaxFailures
             /\ failures' = IF late THEN failures + 1 ELSE failures
             /\ covered' = IF changed THEN covered ELSE HeaderOf(op.s)
             /\ retained' = IF changed THEN retained ELSE op.s
             /\ IF changed \/ late
                THEN Reject
                ELSE /\ snapshot' = op.s
                     /\ cachedGeneration' = op.gen
                     /\ op' = Idle
                     /\ outcome' = "quoted"
    /\ UNCHANGED <<chainVars, nodeVars, run, sessions, lockVars, ghostVars>>

CheckCommit ==
    /\ op.pc = "commit" /\ op.kind = "check"
    /\ IF op.gen # generation
       THEN Reject /\ UNCHANGED <<verificationEpoch, covered>>
       ELSE /\ verificationEpoch' = IF op.reorg THEN verificationEpoch + 1
                                                ELSE verificationEpoch
            /\ covered' = HeaderOf(op.s)
            /\ snapshot' = op.s
            /\ cachedGeneration' = op.gen
            /\ op' = Idle
            /\ outcome' = "checked"
    /\ UNCHANGED <<chainVars, nodeVars, run, boundVars, running, active, generation, floor,
                   floorHash, updates, retained, ghostVars>>

Call ==
    \/ QuoteBegin \/ CheckBegin \/ CallFails \/ Latest \/ ObservedHeader \/ ReadSlot0
    \/ ReadLiquidity \/ ReadTicks \/ ReadsDone \/ Verify \/ VerifyPrevious
    \/ QuoteCommit \/ CheckCommit

RunStep(r) ==
    \/ RunStart(r) \/ RunSubscribe(r) \/ RunSubscribeFails(r) \/ RunActivate(r)
    \/ RunLog(r) \/ RunDisconnect(r) \/ RunReturn(r)

Next ==
    \/ NewBlock \/ OldBlock \/ HeadMoves
    \/ \E r \in Runners : RunStep(r)
    \/ Changes \/ ReceiveChange
    \/ Call

Spec == Init /\ [][Next]_vars

\* The goroutine that holds the gate keeps running, its RPC calls return, the
\* head the node reports catches up, and a caller of QuotePair that waits for
\* the gate gets it in turn (waiters on a Go channel are served in order).
FairSpec ==
    /\ Spec
    /\ WF_vars(Call /\ op.pc # "free")
    /\ SF_vars(QuoteBegin)
    /\ WF_vars(HeadMoves /\ rpcHead' = Height)

-----------------------------------------------------------------------------
(* Properties. *)

\* One subscription at a time, across every window of Run's start and of its
\* deferred clean-up: quotes are treated as watched (active) exactly while the
\* one live Run handles logs, and running is held for its whole life.
OneSession ==
    /\ running <=> \E r \in Runners : run[r] # "idle"
    /\ active <=> \E r \in Runners : run[r] = "watching"
    /\ \A q, r \in Runners : run[q] # "idle" /\ run[r] # "idle" => q = r

\* A cached snapshot that QuotePair may hand out again is never older than the
\* newest block a handled log named, although the capture ran over many RPC
\* calls while logs were being handled.
FloorRespected == Reusable(FALSE) => snapshot.num >= floor

\* An accepted snapshot holds the pool of one block, the block it names: no
\* reorganisation between two of its reads is mixed in, as long as the chain does not
\* return to a block it had dropped, which a check of the header cannot notice.
SnapshotCoherent ==
    snapshot # NoSnapshot => snapshot.reads = {block[snapshot.hash].state}
BlockCoherent == returns = 0 => SnapshotCoherent

\* A snapshot that may be handed out again reflects every log handled so far whose
\* block is still part of the chain, the logs skipped as covered included.
LogsReflected ==
    Reusable(FALSE) => \A h \in delivered : Canonical(h) => block[h].num <= snapshot.num

\* What makes FloorRespected inductive: copies taken at the start of a call are
\* current as long as the generation has not moved, and no capture is below the
\* floor it was started with.
Fence ==
    /\ cachedGeneration <= generation
    /\ op.gen <= generation
    /\ op.pc # "free" /\ op.gen = generation => op.floor = floor
    /\ op.pc = "floor" => op.floor >= 1
    /\ op.pc \in Captured => op.s.num >= op.floor /\ op.s.num >= 1
    /\ snapshot # NoSnapshot => snapshot.num >= 1
    /\ snapshot # NoSnapshot /\ cachedGeneration = generation => snapshot.num >= floor

\* What makes SnapshotCoherent inductive: as long as the captured header is canonical
\* every read so far was served from its block, and from the verification on that
\* no longer depends on the chain.
CallCoherent ==
    /\ snapshot # NoSnapshot => snapshot.hash \in 1..Len(block)
    /\ op.pc \in Captured => op.s.hash \in 1..Len(block)
    /\ op.pc \in Captured \ {"slot0"} => op.s.reads # {}
    /\ (/\ op.pc \in Captured
        /\ op.pc \in {"previous", "commit"} \/ ~op.read \/ HeaderIs(op.s.num, op.s.hash))
       => op.s.reads \subseteq {block[op.s.hash].state}

\* The cache implements the abstract one: its entry is the block of the snapshot that
\* QuotePair may use again.
Abstract == INSTANCE FencedCache WITH entry <- IF Reusable(FALSE) THEN snapshot.num ELSE 0
CacheFenced == Abstract!Spec

\* Notifications are coalesced, never lost: with the channel empty, the consumer
\* has been told of the current generation.
NoLostChange == updates = "empty" => noted = generation

\* A caller that keeps asking is served again and again once the chain, the
\* subscription and the RPC failures are quiet (they are bounded here).
QuotesServed == []<>(outcome = "quoted")
=============================================================================
