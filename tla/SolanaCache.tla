---------------------------- MODULE SolanaCache ----------------------------
(***************************************************************************)
(* The account cache of a Raydium CLMM pool                                *)
(* (go/solana/raydium/clmm/state_cache.go, retained_window.go, warm.go,    *)
(* state_check.go, go/solana/account_state.go).  Meteora DLMM has the same *)
(* code without "configs", and the Clock among the accounts of a capture.  *)
(*                                                                         *)
(* One StateCache is shared by                                             *)
(*   - Run, which keeps one watch goroutine per address of the set         *)
(*     "addresses" and replaces them all when that set changes;            *)
(*   - the callers of QuoteExactInputs, CheckState and Warm and the worker *)
(*     that refills the retained window, one at a time (s.refresh).        *)
(* It holds two copies: "snapshot", all accounts at one slot, dropped at   *)
(* every notification, and "retained", every account by itself; and, with  *)
(* a life of its own, "configs", the fee configuration as decoded from the *)
(* last capture of a quote or of Warm.  A quote from the snapshot takes    *)
(* its fee from configs, not from the snapshot's configuration account.    *)
(*                                                                         *)
(* What an account holds is abstracted to the slot of its last change.     *)
(* The generation is only ever compared with the copy the call in progress *)
(* took: op.moved says whether they differ.                                *)
(***************************************************************************)
EXTENDS Integers, Sequences, FiniteSets, FiniteSetsExt

CONSTANTS
    Pool, Arrays,       \* the pool's account and its tick (bin) array accounts
    FeeConfigs,         \* its fee configuration account; none for Meteora
    Positions, Start,   \* where the price can be, and where it is at first
    Around,             \* the arrays initially requested for a position
    MaxAttempts,        \* snapshot requests of one call (5 in the code)
    ReaderBehind,       \* may RPC reads be older than what a stream started from?
    StreamLag,          \* bound: slots a new stream may start behind the ledger
    MaxSlot,            \* bound: length of the ledger
    MaxRuns,            \* bound: calls of Run
    MaxFailures         \* bound: failed calls, failed and late streams, cancelled runs

\* The accounts of every address set; the arrays come and go.
Fixed == {Pool} \cup FeeConfigs
Accounts == Fixed \cup Arrays

ASSUME SolanaAssumption ==
    /\ Pool \notin Arrays \cup FeeConfigs /\ Arrays \cap FeeConfigs = {}
    /\ IsFiniteSet(FeeConfigs)
    /\ IsFiniteSet(Arrays)
    /\ Start \in Positions
    /\ Around \in [Positions -> SUBSET Arrays]
    /\ MaxAttempts \in Nat \ {0}
    /\ ReaderBehind \in BOOLEAN
    /\ StreamLag \in Nat /\ MaxSlot \in Nat \ {0}
    /\ MaxRuns \in Nat /\ MaxFailures \in Nat

VARIABLES
    ledger,     \* ledger[s]: the account changed in slot s, the price after it
    cursor,     \* slot up to which the stream of an account has been delivered
    run, target, failed,    \* Run: control state, this session's addresses, an error?
    watch,      \* the watch goroutine of each address
    changed,    \* is there a token in s.changed?
    minimumSlot, addresses, active, snapshot, retained,
    configs,    \* the fee configurations last decoded
    checkedKey, \* what the last check read
    op,         \* the call that holds s.refresh
    runs, failures,     \* the bounded counters
    last        \* newest change of each account retained from a stream

runVars == <<run, target, failed>>
boundVars == <<runs, failures>>
vars == <<ledger, cursor, runVars, watch, changed, minimumSlot, addresses, active,
          snapshot, retained, configs, checkedKey, op, boundVars, last>>

-----------------------------------------------------------------------------
(* The ledger. *)

Slot == Len(ledger)
Changes(a) == {s \in 1..Slot : ledger[s].account = a}
Content(a, t) == Max({0} \cup {s \in Changes(a) : s <= t})
PositionAt(t) == IF t = 0 THEN Start ELSE ledger[t].position
Pending(a) == {s \in Changes(a) : s > cursor[a]}

\* Accounts read at one slot.  "at" is not stored in the code: it is the slot the
\* accounts were really read at.
NoSnapshot == [keys |-> {}, ver |-> [a \in Accounts |-> 0], at |-> 0]
Snapshots == [keys : SUBSET Accounts, ver : [Accounts -> Nat], at : Nat]
At(keys, t) ==
    [keys |-> keys, at |-> t,
     ver |-> [a \in Accounts |-> IF a \in keys THEN Content(a, t) ELSE 0]]

\* The keys of CheckState: accounts with what they hold, but not the slot.
Key(data) == [keys |-> data.keys, ver |-> data.ver]

\* A fee configuration that was never decoded: a quote finds an empty entry, of rate 0.
NoFee == -1
Fees(data) == [c \in FeeConfigs |-> data.ver[c]]

\* A retained account; slot 0 is no slot: the account is not retained.
Absent == [slot |-> 0, ver |-> 0]
Held == {a \in Accounts : retained[a] # Absent}

\* The locals of the call in progress: "min" is the copy of minimumSlot and then the
\* slot of the newest read, "want" the arrays to read, "guess" the position they are
\* chosen for, "far" whether the amount needs all arrays.
Idle == [pc |-> "free", kind |-> "none", far |-> FALSE, min |-> 0, moved |-> FALSE,
         want |-> {}, guess |-> Start, attempt |-> 0, data |-> NoSnapshot, cached |-> FALSE]

SolTypeOK ==
    /\ ledger \in Seq([account : Accounts, position : Positions])
    /\ cursor \in [Accounts -> Nat]
    /\ run \in {"idle", "loop", "watching", "draining", "reconfiguring", "closing"}
    /\ target \subseteq Accounts
    /\ failed \in BOOLEAN /\ changed \in BOOLEAN
    /\ watch \in [Accounts -> {"off", "dialing", "on", "closing", "done"}]
    /\ minimumSlot \in 0..Slot
    /\ addresses \subseteq Accounts /\ active \subseteq Accounts
    /\ snapshot \in Snapshots
    /\ retained \in [Accounts -> [slot : Nat, ver : 0..Slot]]
    /\ configs \in [FeeConfigs -> Nat \cup {NoFee}]
    /\ checkedKey \in [keys : SUBSET Accounts, ver : [Accounts -> Nat]]
    /\ op \in [pc : {"free", "fetch", "commit"},
               kind : {"none", "quote", "check", "warm", "window"},
               far : BOOLEAN, min : Nat, moved : BOOLEAN, want : SUBSET Arrays,
               guess : Positions, attempt : Nat, data : Snapshots, cached : BOOLEAN]
    /\ runs \in Nat /\ failures \in Nat
    /\ last \in [Accounts -> Nat]

Init ==
    /\ ledger = <<[account |-> Pool, position |-> Start]>>
    /\ cursor = [a \in Accounts |-> 0]
    /\ run = "idle" /\ target = {} /\ failed = FALSE
    /\ watch = [a \in Accounts |-> "off"]
    /\ changed = FALSE
    /\ minimumSlot = 0 /\ addresses = Fixed /\ active = {}
    /\ snapshot = NoSnapshot
    /\ retained = [a \in Accounts |-> Absent]
    /\ configs = [c \in FeeConfigs |-> NoFee] /\ checkedKey = Key(NoSnapshot)
    /\ op = Idle /\ runs = 0 /\ failures = 0
    /\ last = [a \in Accounts |-> 0]

\* A transaction changes one account of the pool in a new slot.
Transact ==
    /\ Slot < MaxSlot
    /\ \E a \in Accounts, p \in Positions :
          /\ a # Pool => p = PositionAt(Slot)
          /\ ledger' = Append(ledger, [account |-> a, position |-> p])
    /\ UNCHANGED <<cursor, runVars, watch, changed, minimumSlot, addresses, active, snapshot,
                   retained, configs, checkedKey, op, boundVars, last>>

-----------------------------------------------------------------------------
(* Run. *)

Fail == failures < MaxFailures /\ failures' = failures + 1 /\ UNCHANGED runs

\* Run leaves the state of the cache alone: that is what its watch goroutines change.
RunFrame == UNCHANGED <<ledger, cursor, minimumSlot, addresses, active, snapshot, retained,
                        configs, checkedKey, op, last>>

\* The cache is warmed before Run is started, not meanwhile (README.md, "State-only
\* AMM initialization").
RunStart ==
    /\ run = "idle" /\ op.kind # "warm"
    /\ runs < MaxRuns /\ runs' = runs + 1
    /\ run' = "loop"
    /\ UNCHANGED <<target, failed, watch, changed, failures>>
    /\ RunFrame

\* The head of the loop reads the address set and drains the signal in one
\* critical section, then starts one watch goroutine per address.
StartWatches ==
    /\ run = "loop"
    /\ run' = "watching"
    /\ target' = addresses
    /\ changed' = FALSE
    /\ watch' = [a \in Accounts |-> IF a \in addresses THEN "dialing" ELSE "off"]
    /\ UNCHANGED <<failed, boundVars>>
    /\ RunFrame

\* The three branches of select; each is followed by cancel().
Reconfigure ==
    /\ run = "watching" /\ changed
    /\ changed' = FALSE
    /\ run' = "reconfiguring"
    /\ UNCHANGED <<target, failed, watch, boundVars>>
    /\ RunFrame

FirstResult ==
    /\ run = "watching"
    /\ \E a \in Accounts : watch[a] = "done"
    /\ run' = "draining"
    /\ UNCHANGED <<target, failed, watch, changed, boundVars>>
    /\ RunFrame

RunCancelled ==
    /\ run \in {"watching", "loop"}
    /\ Fail
    /\ run' = IF run = "watching" THEN "draining" ELSE "closing"
    /\ UNCHANGED <<target, failed, watch, changed>>
    /\ RunFrame

Cancelled == run \in {"draining", "reconfiguring"}

\* All results are in: an error ends Run, a changed address set starts again.
Drained ==
    /\ Cancelled
    /\ \A a \in Accounts : watch[a] \in {"off", "done"}
    /\ watch' = [a \in Accounts |-> "off"]
    /\ run' = IF run = "reconfiguring" /\ ~failed THEN "loop" ELSE "closing"
    /\ target' = {}
    /\ UNCHANGED <<failed, changed, boundVars>>
    /\ RunFrame

\* stopWindow, <-windowDone, running = false.
RunReturn ==
    /\ run = "closing" /\ op.kind # "window"
    /\ run' = "idle" /\ failed' = FALSE
    /\ UNCHANGED <<target, watch, changed, boundVars>>
    /\ RunFrame

-----------------------------------------------------------------------------
(* watch. *)

\* Mutant: the slot after the notified one becomes the minimum.
InvalidatePast(slot) ==
    /\ op' = [op EXCEPT !.moved = op.pc # "free"]
    /\ snapshot' = NoSnapshot
    /\ minimumSlot' = Max({minimumSlot, slot + 1})

\* configs stays, and so does checkedKey (see WatchFrame).
Invalidate(slot) ==
    /\ op' = [op EXCEPT !.moved = op.pc # "free"]
    /\ snapshot' = NoSnapshot
    /\ minimumSlot' = Max({minimumSlot, slot})

WatchFrame == UNCHANGED <<ledger, run, target, changed, addresses, configs, checkedKey>>

\* subscribe answers: the node delivers the changes after slot "from", which a
\* node behind the one of an earlier session may have passed already.
Subscribed(a) ==
    /\ watch[a] = "dialing"
    /\ watch' = [watch EXCEPT ![a] = "on"]
    /\ \E from \in 0..Slot :
          /\ from >= Slot - StreamLag
          /\ IF from < Slot THEN Fail ELSE UNCHANGED boundVars
          /\ cursor' = [cursor EXCEPT ![a] = from]
    /\ active' = active \cup {a}
    /\ Invalidate(0)
    /\ UNCHANGED <<failed, retained, last>>
    /\ WatchFrame

SubscribeFails(a) ==
    /\ watch[a] = "dialing"
    /\ watch' = [watch EXCEPT ![a] = "done"]
    /\ failed' = TRUE
    /\ Fail
    /\ UNCHANGED <<cursor, minimumSlot, active, snapshot, retained, op, last>>
    /\ WatchFrame

\* A full account payload: retained in the order of receipt, whatever its slot.
\* An address that has left the set is skipped.
Notified(a) ==
    /\ watch[a] = "on"
    /\ Pending(a) # {}
    /\ LET s == Min(Pending(a)) IN
          /\ cursor' = [cursor EXCEPT ![a] = s]
          /\ IF a \in addresses
             THEN /\ retained' = [retained EXCEPT ![a] = [slot |-> s, ver |-> s]]
                  /\ last' = [last EXCEPT ![a] = s]
                  /\ Invalidate(s)
             ELSE UNCHANGED <<retained, last, op, snapshot, minimumSlot>>
    /\ UNCHANGED <<failed, watch, active, boundVars>>
    /\ WatchFrame

\* The session was cancelled, or the stream fails, and it is closed; the cache does
\* not know yet.
StreamLost(a) ==
    /\ watch[a] = "on"
    /\ watch' = [watch EXCEPT ![a] = "closing"]
    /\ cursor' = [cursor EXCEPT ![a] = 0]
    /\ \/ Cancelled /\ UNCHANGED <<failed, boundVars>>
       \/ ~Cancelled /\ Fail /\ failed' = TRUE
    /\ UNCHANGED <<minimumSlot, active, snapshot, retained, op, last>>
    /\ WatchFrame

WatchEnds(a) ==
    /\ watch[a] = "closing"
    /\ watch' = [watch EXCEPT ![a] = "done"]
    /\ active' = active \ {a}
    /\ Invalidate(0)
    /\ UNCHANGED <<cursor, failed, retained, boundVars, last>>
    /\ WatchFrame

-----------------------------------------------------------------------------
(* The calls that hold s.refresh. *)

\* "old" is the comparison with maxAge.
Reusable(old) ==
    /\ snapshot.keys # {}
    /\ Cardinality(active) = Cardinality(addresses)
    /\ addresses \subseteq active
    /\ ~old

\* The arrays a quote walks through: those around the price, or all of them.
Needs(far, p) == IF far THEN Arrays ELSE Around[p]

\* Are initial arrays of the retained pool's position missing?
WindowMissing ==
    /\ retained[Pool] # Absent
    /\ ~(Around[PositionAt(retained[Pool].ver)] \subseteq Held)

Begin(kind) == [Idle EXCEPT !.pc = "fetch", !.kind = kind, !.min = minimumSlot]

CallFrame == UNCHANGED <<ledger, cursor, runVars, watch, active, runs, last>>
Working == UNCHANGED <<changed, minimumSlot, addresses, snapshot, retained, configs, checkedKey>>

\* The arrays of a refresh are chosen for the position of the last one, which may be
\* any by now.
QuoteBegin ==
    /\ op.pc = "free"
    /\ \E far, old \in BOOLEAN, p \in Positions :
          op' = IF /\ Reusable(old)
                   /\ Needs(far, PositionAt(snapshot.ver[Pool])) \subseteq snapshot.keys
                THEN [Begin("quote") EXCEPT !.pc = "commit", !.data = snapshot, !.cached = TRUE]
                ELSE [Begin("quote") EXCEPT !.far = far, !.guess = p, !.want = Around[p]]
    /\ UNCHANGED failures
    /\ Working /\ CallFrame

CheckBegin ==
    /\ op.pc = "free"
    /\ op' = [Begin("check") EXCEPT
                !.want = (IF snapshot.keys # {} THEN snapshot.keys ELSE addresses) \ Fixed]
    /\ UNCHANGED failures
    /\ Working /\ CallFrame

WarmBegin ==
    /\ op.pc = "free" /\ run = "idle"
    /\ op' = [Begin("warm") EXCEPT !.want = Around[Start]]
    /\ UNCHANGED failures
    /\ Working /\ CallFrame

WindowBegin ==
    /\ op.pc = "free" /\ run \notin {"idle", "closing"}
    /\ WindowMissing
    /\ op' = [Begin("window") EXCEPT !.want = Around[PositionAt(retained[Pool].ver)]]
    /\ UNCHANGED failures
    /\ Working /\ CallFrame

\* RPC failure, a node behind the minimum, or the context ends; the worker's
\* context ends with Run.
CallFails ==
    /\ op.pc = "fetch"
    /\ \/ failures < MaxFailures /\ failures' = failures + 1
       \/ op.kind = "window" /\ run = "closing" /\ UNCHANGED failures
    /\ op' = Idle
    /\ Working /\ CallFrame

\* AccountSnapshot: all requested accounts at one slot, not behind the minimum.
Readable(t) ==
    /\ t >= op.min
    /\ ReaderBehind \/ \A a \in active : t >= cursor[a]

\* Is everything there that the refreshed pool asks for?
Complete(p) ==
    CASE op.kind = "quote" -> Needs(op.far, p) \subseteq op.want
      [] op.kind = "check" -> TRUE
      [] OTHER -> op.want = Around[p]

\* The arrays of the next request: those around the refreshed price, and for a quote
\* the missing ones and earlier expansions.
NextWant(p) ==
    IF op.kind = "quote"
    THEN Around[p] \cup (op.want \ Around[op.guess]) \cup (Needs(op.far, p) \ op.want)
    ELSE Around[p]

Fetch ==
    /\ op.pc = "fetch"
    /\ \E t \in 1..Slot :
          /\ Readable(t)
          /\ LET p == PositionAt(t) IN
             op' = IF Complete(p)
                   THEN [Idle EXCEPT !.pc = "commit", !.kind = op.kind, !.moved = op.moved,
                                     !.min = t, !.data = At(Fixed \cup op.want, t)]
                   ELSE IF op.attempt + 1 < MaxAttempts
                   THEN [op EXCEPT !.min = t, !.attempt = @ + 1, !.want = NextWant(p),
                                   !.guess = IF op.kind = "quote" THEN p ELSE @]
                   ELSE Idle
    /\ UNCHANGED failures
    /\ Working /\ CallFrame

\* Mutant: captured accounts replace whatever is retained.
SeedOver(data, slot) ==
    retained' = [a \in Accounts |->
        IF a \in data.keys THEN [slot |-> slot, ver |-> data.ver[a]] ELSE Absent]

\* SeedWindow: the captured set replaces the retained one; equal or newer slots stay.
SeedWindow(data, slot) ==
    retained' = [a \in Accounts |->
        CASE a \notin data.keys -> Absent
          [] a \in data.keys /\ retained[a].slot >= slot -> retained[a]
          [] OTHER -> [slot |-> slot, ver |-> data.ver[a]]]

\* A new address set is signalled to Run, without waiting.
Follow(keys) ==
    /\ addresses' = keys
    /\ changed' = (changed \/ keys # addresses)

\* The fee configuration the quote in progress uses: decoded from what it has read, or
\* s.configs as it is, which nobody else may write meanwhile (s.refresh).
FeeUsed == IF op.cached THEN configs ELSE Fees(op.data)

\* Mutant: a refresh keeps the fee configuration it found.
QuoteCommitOldFee ==
    /\ op.pc = "commit" /\ op.kind = "quote"
    /\ op' = Idle
    /\ IF op.moved
       THEN Working
       ELSE /\ snapshot' = op.data
            /\ SeedWindow(op.data, op.min)
            /\ minimumSlot' = Max({minimumSlot, op.min})
            /\ IF op.cached THEN UNCHANGED <<addresses, changed>> ELSE Follow(op.data.keys)
            /\ UNCHANGED <<configs, checkedKey>>
    /\ UNCHANGED failures
    /\ CallFrame

\* A refreshed quote is labelled with the slot it was read at, one from the cache
\* with the minimum slot.
QuoteCommit ==
    /\ op.pc = "commit" /\ op.kind = "quote"
    /\ op' = Idle
    /\ IF op.moved
       THEN Working
       ELSE /\ snapshot' = op.data /\ configs' = FeeUsed
            /\ UNCHANGED checkedKey
            /\ SeedWindow(op.data, op.min)
            /\ minimumSlot' = Max({minimumSlot, op.min})
            /\ IF op.cached THEN UNCHANGED <<addresses, changed>> ELSE Follow(op.data.keys)
    /\ UNCHANGED failures
    /\ CallFrame

\* Mutant: the generation is not compared.
CheckCommitUnfenced ==
    /\ op.pc = "commit" /\ op.kind = "check"
    /\ op' = Idle
    /\ snapshot' = IF checkedKey = Key(op.data) THEN op.data ELSE NoSnapshot
    /\ checkedKey' = Key(op.data)
    /\ minimumSlot' = op.min
    /\ UNCHANGED <<changed, addresses, retained, configs, failures>>
    /\ CallFrame

\* CheckState caches what it read only when it equals what the last check read; the
\* configuration account is among it, but is not decoded: configs stays as it was.
CheckCommit ==
    /\ op.pc = "commit" /\ op.kind = "check"
    /\ op' = Idle
    /\ IF op.moved
       THEN UNCHANGED <<snapshot, checkedKey, minimumSlot>>
       ELSE /\ snapshot' = IF checkedKey = Key(op.data) THEN op.data ELSE NoSnapshot
            /\ checkedKey' = Key(op.data)
            /\ minimumSlot' = op.min
    /\ UNCHANGED <<changed, addresses, retained, configs, failures>>
    /\ CallFrame

WarmCommit ==
    /\ op.pc = "commit" /\ op.kind = "warm"
    /\ op' = Idle
    /\ IF op.moved
       THEN UNCHANGED <<snapshot, retained, configs, minimumSlot, addresses>>
       ELSE /\ snapshot' = op.data /\ configs' = Fees(op.data)
            /\ SeedWindow(op.data, op.min)
            /\ minimumSlot' = Max({minimumSlot, op.min})
            /\ addresses' = op.data.keys
    /\ UNCHANGED <<changed, checkedKey, failures>>
    /\ CallFrame

\* Mutant: the new address set is not signalled.
WindowCommitSilent ==
    /\ op.pc = "commit" /\ op.kind = "window"
    /\ op' = Idle
    /\ SeedWindow(op.data, op.min)
    /\ addresses' = op.data.keys
    /\ UNCHANGED <<changed, snapshot, configs, checkedKey, minimumSlot, failures>>
    /\ CallFrame

\* The window is merged whatever was notified meanwhile: no generation here.
WindowCommit ==
    /\ op.pc = "commit" /\ op.kind = "window"
    /\ op' = Idle
    /\ SeedWindow(op.data, op.min)
    /\ Follow(op.data.keys)
    /\ UNCHANGED <<snapshot, configs, checkedKey, minimumSlot, failures>>
    /\ CallFrame

Call ==
    \/ QuoteBegin \/ CheckBegin \/ WarmBegin \/ WindowBegin \/ CallFails \/ Fetch
    \/ QuoteCommit \/ CheckCommit \/ WarmCommit \/ WindowCommit

RunStep ==
    \/ RunStart \/ StartWatches \/ Reconfigure \/ FirstResult \/ RunCancelled
    \/ Drained \/ RunReturn

WatchStep(a) == Subscribed(a) \/ SubscribeFails(a) \/ Notified(a) \/ StreamLost(a) \/ WatchEnds(a)

Next == Transact \/ RunStep \/ (\E a \in Accounts : WatchStep(a)) \/ Call

Spec == Init /\ [][Next]_vars

-----------------------------------------------------------------------------
(* Properties. *)

\* A snapshot that may be quoted from again holds every account as it was at the
\* slot the quote is labelled with, minimumSlot: none of its accounts is newer or
\* older, and no handled notification is newer.  The fee configuration a quote takes
\* beside it was read with it, unless the last check has read just this snapshot:
\* quotes and Warm always renew both, notifications and refused calls never separate
\* them.
CachedExact ==
    Reusable(FALSE) =>
        /\ snapshot.ver = At(snapshot.keys, minimumSlot).ver
        /\ configs = Fees(snapshot) \/ checkedKey = Key(snapshot)

\* What the README promises without that exception: a quote that is answered has the
\* fee configuration of the snapshot it is computed from.
QuotedFeeExact ==
    op.pc = "commit" /\ op.kind = "quote" /\ ~op.moved => FeeUsed = Fees(op.data)

\* Every account of a reusable snapshot is watched, and whatever changes after it
\* will still be notified: nothing falls between the capture and the streams it is
\* reused under (reads are not behind them).  Not while Run has yet to replace its
\* streams, or a stream has ended unnoticed: then the snapshot is about to be dropped.
\* While Run waits with no signal pending, the streams are those of the addresses: no
\* change of the address set is overlooked.
CachedFollowed ==
    run = "watching" /\ ~changed =>
        /\ target = addresses
        /\ Reusable(FALSE) /\ (\A a \in active : watch[a] = "on") =>
            /\ snapshot.keys = active
            /\ \A a \in snapshot.keys : {s \in Changes(a) : s > minimumSlot} \subseteq Pending(a)

\* What the README promises without that exception.
UsedAddressesWatched == Reusable(FALSE) => snapshot.keys \subseteq active

\* A window or quote captured earlier does not undo a payload received meanwhile.
RetainedNotUndone == \A a \in Held : retained[a].ver >= last[a]

\* The cache implements the abstract one: its entry is the slot of the snapshot that
\* a quote may use again.
Abstract == INSTANCE FencedCache
                WITH floor <- minimumSlot, entry <- IF Reusable(FALSE) THEN snapshot.at ELSE 0
CacheFenced == Abstract!Spec
=============================================================================
