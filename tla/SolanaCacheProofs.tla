------------------------- MODULE SolanaCacheProofs -------------------------
(***************************************************************************)
(* Theorems about SolanaCache, for every set of arrays and of fee          *)
(* configurations, every length of the ledger and every number of runs,    *)
(* failures and attempts; RPC reads may lag behind the streams, except in  *)
(* FollowedSafe.                                                           *)
(***************************************************************************)
EXTENDS SolanaCache, FiniteSetTheorems, SequenceTheorems, WellFoundedInduction, TLAPS

-----------------------------------------------------------------------------
(* Max and Min of sets of natural numbers. *)

LEMMA LeastExists ==
  ASSUME NEW S \in SUBSET Nat, S # {}
  PROVE  \E x \in S : \A y \in S : x =< y
<1>1. PICK x \in S : \A y \in S : ~(<<y, x>> \in OpToRel(<, Nat))
  BY NatLessThanWellFounded, WFMin
<1>2. ASSUME NEW y \in S PROVE x =< y
  <2>1. ~(y < x)
    BY <1>1, <1>2 DEF OpToRel
  <2> QED
    BY <2>1
<1> QED
  BY <1>1, <1>2

LEMMA MinExists ==
  ASSUME NEW S \in SUBSET Nat, S # {}
  PROVE  Min(S) \in S /\ \A y \in S : Min(S) =< y
<1> QED
  BY LeastExists DEF Min

LEMMA MaxExists ==
  ASSUME NEW S \in SUBSET Nat, S # {}, NEW n \in Nat, \A s \in S : s =< n
  PROVE  Max(S) \in S /\ \A y \in S : Max(S) >= y
<1> DEFINE T == {n - s : s \in S}
<1>1. T \in SUBSET Nat /\ T # {}
  <2>1. \A s \in S : s \in Nat /\ s =< n
    OBVIOUS
  <2>2. \A s \in S : n - s \in Nat
    BY <2>1
  <2> QED
    BY <2>2
<1>2. PICK d \in T : \A e \in T : d =< e
  <2> HIDE DEF T
  <2> QED
    BY <1>1, LeastExists
<1>3. PICK x \in S : d = n - x
  BY <1>2
<1>4. \A y \in S : x >= y
  <2> SUFFICES ASSUME NEW y \in S PROVE x >= y
    OBVIOUS
  <2>1. n - y \in T
    OBVIOUS
  <2>2. d =< n - y
    BY <1>2, <2>1
  <2> QED
    BY <2>2, <1>3
<1> QED
  BY <1>3, <1>4 DEF Max

LEMMA MaxOfTwo ==
  ASSUME NEW a \in Nat, NEW b \in Nat
  PROVE  Max({a, b}) = IF a >= b THEN a ELSE b
<1>1. \A s \in {a, b} : s =< a + b
  OBVIOUS
<1>2. Max({a, b}) \in {a, b} /\ \A y \in {a, b} : Max({a, b}) >= y
  BY <1>1, MaxExists
<1> QED
  BY <1>2

-----------------------------------------------------------------------------
(* What accounts hold at a slot. *)

\* The versions of At, with the ledger as a parameter.
Versions(l, keys, t) ==
    [a \in Accounts |-> IF a \in keys
                        THEN Max({0} \cup {s \in 1..Len(l) : l[s].account = a /\ s <= t})
                        ELSE 0]

Entries == [account : Accounts, position : Positions]

LEMMA AtVersions ==
  ASSUME NEW keys, NEW t
  PROVE  /\ At(keys, t).keys = keys /\ At(keys, t).at = t
         /\ At(keys, t).ver = Versions(ledger, keys, t)
<1>1. \A a : {s \in Changes(a) : s <= t} = {s \in 1..Len(ledger) : ledger[s].account = a /\ s <= t}
  BY DEF Changes, Slot
<1> QED
  BY <1>1 DEF At, Versions, Content

LEMMA VersionsType ==
  ASSUME NEW l \in Seq(Entries), NEW keys, NEW t \in Nat
  PROVE  Versions(l, keys, t) \in [Accounts -> 0..Len(l)]
<1> SUFFICES ASSUME NEW a \in Accounts
             PROVE Max({0} \cup {s \in 1..Len(l) : l[s].account = a /\ s <= t}) \in 0..Len(l)
  BY DEF Versions
<1> DEFINE S == {0} \cup {s \in 1..Len(l) : l[s].account = a /\ s <= t}
<1>1. S \in SUBSET Nat /\ S # {} /\ \A s \in S : s =< t
  OBVIOUS
<1>2. Max(S) \in S
  BY <1>1, MaxExists
<1> QED
  BY <1>1, <1>2

LEMMA VersionsCover ==
  ASSUME NEW l \in Seq(Entries), NEW keys, NEW t \in Nat, NEW a \in Accounts \cap keys,
         NEW c \in 1..Len(l), l[c].account = a, c <= t
  PROVE  Versions(l, keys, t)[a] >= c
<1> DEFINE S == {0} \cup {s \in 1..Len(l) : l[s].account = a /\ s <= t}
<1>1. S \in SUBSET Nat /\ S # {} /\ \A s \in S : s =< t
  OBVIOUS
<1>2. \A y \in S : Max(S) >= y
  BY <1>1, MaxExists
<1>3. c \in S
  OBVIOUS
<1>4. Versions(l, keys, t)[a] = Max(S)
  BY DEF Versions
<1> QED
  BY <1>2, <1>3, <1>4

\* A new slot does not change what an earlier one held.
LEMMA VersionsKept ==
  ASSUME NEW l \in Seq(Entries), NEW e \in Entries, NEW keys, NEW t \in 0..Len(l)
  PROVE  Versions(Append(l, e), keys, t) = Versions(l, keys, t)
<1> DEFINE m == Append(l, e)
<1>1. Len(m) = Len(l) + 1 /\ \A s \in 1..Len(l) : m[s] = l[s]
  OBVIOUS
<1>2. ASSUME NEW a \in Accounts
      PROVE {s \in 1..Len(m) : m[s].account = a /\ s <= t}
            = {s \in 1..Len(l) : l[s].account = a /\ s <= t}
  <2>1. \A s : s \in 1..Len(m) /\ s <= t <=> s \in 1..Len(l) /\ s <= t
    BY <1>1
  <2> HIDE DEF m
  <2> QED
    BY <1>1, <2>1
<1> HIDE DEF m
<1>3. Versions(m, keys, t) = Versions(l, keys, t)
  BY <1>2 DEF Versions
<1> QED
  BY <1>3 DEF m

-----------------------------------------------------------------------------
(* The inductive invariant. *)

\* A snapshot is what the accounts held at the minimum slot; a call that no notification
\* has overtaken is not behind it, and what it is about to commit is of the slot it says.
SolFence ==
    /\ op.min \in 0..Slot
    /\ snapshot.keys # {} =>
          /\ snapshot.at = minimumSlot /\ minimumSlot >= 1
          /\ snapshot.ver = Versions(ledger, snapshot.keys, minimumSlot)
    /\ op.pc # "free" /\ ~op.moved => op.min >= minimumSlot
    /\ op.pc = "commit" =>
          /\ op.data.at = op.min /\ op.min >= 1
          /\ op.data.ver = Versions(ledger, op.data.keys, op.min)

Ops == [pc : {"free", "fetch", "commit"},
        kind : {"none", "quote", "check", "warm", "window"},
        far : BOOLEAN, min : Nat, moved : BOOLEAN, want : SUBSET Arrays,
        guess : Positions, attempt : Nat, data : Snapshots, cached : BOOLEAN]

LEMMA Constants ==
  /\ NoSnapshot \in Snapshots /\ NoSnapshot.keys = {}
  /\ Absent \in [slot : Nat, ver : {0}]
  /\ Idle \in Ops /\ Idle.pc = "free" /\ Idle.min = 0
  /\ Pool \in Accounts /\ Fixed \subseteq Accounts /\ Pool \in Fixed
<1>1. NoSnapshot \in Snapshots /\ NoSnapshot.keys = {}
  BY DEF NoSnapshot, Snapshots
<1> QED
  BY <1>1, SolanaAssumption DEF Absent, Idle, Ops, Accounts, Fixed

LEMMA LedgerType == SolTypeOK => ledger \in Seq(Entries) /\ Slot \in Nat /\ Slot = Len(ledger)
  BY DEF SolTypeOK, Entries, Slot

LEMMA AtType ==
  ASSUME SolTypeOK, NEW keys \in SUBSET Accounts, NEW t \in Nat
  PROVE  At(keys, t) \in Snapshots
<1>1. Versions(ledger, keys, t) \in [Accounts -> Nat]
  <2>1. Versions(ledger, keys, t) \in [Accounts -> 0..Len(ledger)] /\ 0..Len(ledger) \subseteq Nat
    BY LedgerType, VersionsType
  <2> QED
    BY <2>1
<1>2. At(keys, t) = [keys |-> keys, at |-> t, ver |-> At(keys, t).ver]
  BY DEF At
<1> QED
  BY <1>1, <1>2, AtVersions DEF Snapshots

LEMMA BeginType ==
  ASSUME SolTypeOK, NEW kind \in {"quote", "check", "warm", "window"}
  PROVE  /\ Begin(kind) \in Ops
         /\ Begin(kind).pc = "fetch" /\ Begin(kind).min = minimumSlot /\ ~Begin(kind).moved
<1>1. Idle \in Ops /\ ~Idle.moved
  BY Constants DEF Idle
<1>2. minimumSlot \in Nat
  BY LedgerType DEF SolTypeOK
<1> QED
  BY <1>1, <1>2 DEF Begin, Ops

\* The keys and fee configurations taken from what was read have their types.
Keys == [keys : SUBSET Accounts, ver : [Accounts -> Nat]]
FeeTable == [FeeConfigs -> Nat \cup {NoFee}]

LEMMA KeyType ==
  ASSUME NEW data \in Snapshots
  PROVE  Key(data) \in Keys /\ Fees(data) \in FeeTable
<1>1. data.keys \in SUBSET Accounts /\ data.ver \in [Accounts -> Nat]
  BY DEF Snapshots
<1>2. FeeConfigs \subseteq Accounts
  BY DEF Accounts, Fixed
<1> QED
  BY <1>1, <1>2 DEF Key, Keys, Fees, FeeTable

LEMMA AroundType ==
  ASSUME NEW p \in Positions
  PROVE  Around[p] \in SUBSET Arrays /\ \A far \in BOOLEAN : Needs(far, p) \in SUBSET Arrays
  BY SolanaAssumption DEF Needs

LEMMA PositionType ==
  ASSUME SolTypeOK, NEW t \in 0..Slot
  PROVE  PositionAt(t) \in Positions
<1>1. CASE t = 0
  BY <1>1, SolanaAssumption DEF PositionAt
<1>2. CASE t # 0
  <2>1. t \in 1..Len(ledger)
    BY <1>2, LedgerType
  <2>2. ledger[t] \in Entries
    BY <2>1, LedgerType
  <2> QED
    BY <1>2, <2>2 DEF PositionAt, Entries
<1> QED
  BY <1>1, <1>2

-----------------------------------------------------------------------------
(* What single operations do to the cache. *)

LEMMA InvalidateStep ==
  ASSUME SolTypeOK, SolFence, NEW s \in 0..Slot, Invalidate(s), ledger' = ledger
  PROVE  /\ op' \in Ops /\ snapshot' \in Snapshots /\ minimumSlot' \in 0..Slot
         /\ minimumSlot' >= minimumSlot /\ minimumSlot' >= s
         /\ op'.pc = op.pc /\ op'.kind = op.kind /\ op'.min = op.min
         /\ SolFence'
<1>t. op \in Ops /\ minimumSlot \in 0..Slot /\ Slot \in Nat
  BY LedgerType DEF SolTypeOK, Ops
<1>1. snapshot' = NoSnapshot /\ snapshot' \in Snapshots /\ snapshot'.keys = {}
  BY Constants DEF Invalidate
<1>2. minimumSlot' = IF minimumSlot >= s THEN minimumSlot ELSE s
  BY <1>t, MaxOfTwo DEF Invalidate
<1>3. /\ op' = [op EXCEPT !.moved = op.pc # "free"] /\ op' \in Ops
      /\ op'.pc = op.pc /\ op'.kind = op.kind /\ op'.min = op.min /\ op'.data = op.data
      /\ op'.moved = (op.pc # "free")
  BY <1>t DEF Invalidate, Ops
<1>4. Slot' = Slot
  BY DEF Slot
<1>5. SolFence'
  BY <1>t, <1>1, <1>2, <1>3, <1>4 DEF SolFence
<1> QED
  BY <1>t, <1>1, <1>2, <1>3, <1>5

LEMMA SeedType ==
  ASSUME SolTypeOK, NEW data, NEW slot \in Nat, SeedWindow(data, slot),
         data.ver \in [Accounts -> 0..Slot]
  PROVE  retained' \in [Accounts -> [slot : Nat, ver : 0..Slot]]
<1>1. ASSUME NEW a \in Accounts
      PROVE [slot |-> slot, ver |-> data.ver[a]] \in [slot : Nat, ver : 0..Slot]
            /\ retained[a] \in [slot : Nat, ver : 0..Slot]
  BY DEF SolTypeOK
<1>2. Absent \in [slot : Nat, ver : 0..Slot]
  BY LedgerType DEF Absent
<1> QED
  BY <1>1, <1>2 DEF SeedWindow

LEMMA FenceSame ==
  ASSUME SolFence, UNCHANGED <<ledger, minimumSlot, snapshot, op>>
  PROVE  SolFence'
  BY DEF SolFence, Slot

-----------------------------------------------------------------------------
(* One lemma per step. *)

LEMMA TransactStep ==
  ASSUME SolTypeOK, SolFence, Transact
  PROVE  SolTypeOK' /\ SolFence'
<1>1. PICK a \in Accounts, p \in Positions :
         ledger' = Append(ledger, [account |-> a, position |-> p])
  BY DEF Transact
<1>2. [account |-> a, position |-> p] \in Entries /\ ledger \in Seq(Entries)
  BY LedgerType DEF Entries
<1>3. ledger' \in Seq(Entries) /\ Slot' = Slot + 1 /\ Slot = Len(ledger) /\ Slot \in Nat
  BY <1>1, <1>2 DEF Slot
<1>4. ASSUME NEW keys, NEW t \in 0..Slot
      PROVE Versions(Append(ledger, [account |-> a, position |-> p]), keys, t)
            = Versions(ledger, keys, t)
  BY <1>2, <1>3, VersionsKept
<1>5. minimumSlot \in 0..Slot /\ op.min \in 0..Slot
  BY DEF SolTypeOK, SolFence
<1>6. UNCHANGED <<minimumSlot, snapshot, op>>
  BY DEF Transact
<1>7. SolTypeOK'
  <2>1. retained' \in [Accounts -> [slot : Nat, ver : 0..Slot']]
    <3>1. [slot : Nat, ver : 0..Slot] \subseteq [slot : Nat, ver : 0..Slot']
      BY <1>3
    <3>2. retained' = retained
      BY DEF Transact
    <3> QED
      BY <3>1, <3>2 DEF SolTypeOK
  <2>2. UNCHANGED <<cursor, run, target, failed, watch, changed, minimumSlot, addresses, active,
                    snapshot, configs, checkedKey, op, runs, failures, last>>
    BY DEF Transact, runVars, boundVars
  <2>3. minimumSlot' \in 0..Slot'
    BY <1>3, <1>5, <2>2
  <2>4. ledger' \in Seq([account : Accounts, position : Positions])
    BY <1>3 DEF Entries
  <2> QED
    BY <2>1, <2>2, <2>3, <2>4, SMTT(30) DEF SolTypeOK
<1>8. SolFence'
  BY <1>1, <1>3, <1>4, <1>5, <1>6 DEF SolFence
<1> QED
  BY <1>7, <1>8

LEMMA RunSteps ==
  ASSUME SolTypeOK, SolFence, RunStep
  PROVE  SolTypeOK' /\ SolFence' /\ minimumSlot' = minimumSlot
<1>1. RunFrame
  BY DEF RunStep, RunStart, StartWatches, Reconfigure, FirstResult, RunCancelled, Drained, RunReturn
<1>2. /\ run' \in {"idle", "loop", "watching", "draining", "reconfiguring", "closing"}
      /\ target' \subseteq Accounts /\ failed' \in BOOLEAN /\ changed' \in BOOLEAN
      /\ watch' \in [Accounts -> {"off", "dialing", "on", "closing", "done"}]
      /\ runs' \in Nat /\ failures' \in Nat
  <2> USE DEF SolTypeOK, boundVars
  <2>1. CASE RunStart
    BY <2>1 DEF RunStart
  <2>2. CASE StartWatches
    BY <2>2 DEF StartWatches, RunFrame
  <2>3. CASE Reconfigure \/ FirstResult
    BY <2>3 DEF Reconfigure, FirstResult
  <2>4. CASE RunCancelled
    BY <2>4 DEF RunCancelled, Fail
  <2>5. CASE Drained
    BY <2>5 DEF Drained
  <2>6. CASE RunReturn
    BY <2>6 DEF RunReturn
  <2> QED
    BY <2>1, <2>2, <2>3, <2>4, <2>5, <2>6 DEF RunStep
<1>3. SolTypeOK'
  BY <1>1, <1>2 DEF SolTypeOK, RunFrame, Slot
<1> QED
  BY <1>1, <1>3, FenceSame DEF RunFrame

LEMMA SubscribedStep ==
  ASSUME SolTypeOK, SolFence, NEW a \in Accounts, Subscribed(a)
  PROVE  /\ SolTypeOK' /\ SolFence' /\ minimumSlot' >= minimumSlot
         /\ op'.pc = op.pc /\ op'.min = op.min
<1>1. Slot \in Nat /\ 0 \in 0..Slot /\ ledger' = ledger /\ Slot' = Slot
  BY LedgerType DEF Subscribed, WatchFrame, Slot
<1>2. /\ op' \in Ops /\ snapshot' \in Snapshots /\ minimumSlot' \in 0..Slot
      /\ minimumSlot' >= minimumSlot /\ op'.pc = op.pc /\ op'.min = op.min /\ SolFence'
  BY <1>1, InvalidateStep DEF Subscribed
<1>3. /\ cursor' \in [Accounts -> Nat] /\ active' \subseteq Accounts
      /\ watch' \in [Accounts -> {"off", "dialing", "on", "closing", "done"}]
      /\ runs' \in Nat /\ failures' \in Nat
  BY SMTT(30) DEF Subscribed, SolTypeOK, Fail, boundVars
<1>4. SolTypeOK'
  <2>1. UNCHANGED <<ledger, run, target, changed, addresses, configs, checkedKey, failed,
                    retained, last>>
    BY DEF Subscribed, WatchFrame
  <2> QED
    BY <1>1, <1>2, <1>3, <2>1 DEF SolTypeOK, Ops
<1> QED
  BY <1>2, <1>4

LEMMA WatchEndsStep ==
  ASSUME SolTypeOK, SolFence, NEW a \in Accounts, WatchEnds(a)
  PROVE  /\ SolTypeOK' /\ SolFence' /\ minimumSlot' >= minimumSlot
         /\ op'.pc = op.pc /\ op'.min = op.min
<1>1. Slot \in Nat /\ 0 \in 0..Slot /\ ledger' = ledger /\ Slot' = Slot
  BY LedgerType DEF WatchEnds, WatchFrame, Slot
<1>2. /\ op' \in Ops /\ snapshot' \in Snapshots /\ minimumSlot' \in 0..Slot
      /\ minimumSlot' >= minimumSlot /\ op'.pc = op.pc /\ op'.min = op.min /\ SolFence'
  BY <1>1, InvalidateStep DEF WatchEnds
<1>3. SolTypeOK'
  BY <1>1, <1>2 DEF WatchEnds, WatchFrame, SolTypeOK, Ops, boundVars
<1> QED
  BY <1>2, <1>3

LEMMA NotifiedStep ==
  ASSUME SolTypeOK, SolFence, NEW a \in Accounts, Notified(a)
  PROVE  /\ SolTypeOK' /\ SolFence' /\ minimumSlot' >= minimumSlot
         /\ op'.pc = op.pc /\ op'.min = op.min
         /\ \/ /\ last' = [last EXCEPT ![a] = Min(Pending(a))]
               /\ retained' = [retained EXCEPT ![a] = [slot |-> Min(Pending(a)), ver |-> Min(Pending(a))]]
               /\ minimumSlot' >= Min(Pending(a))
            \/ UNCHANGED <<retained, last>>
         /\ Min(Pending(a)) \in 1..Slot /\ ledger[Min(Pending(a))].account = a
<1> DEFINE s == Min(Pending(a))
<1>1. Slot \in Nat /\ ledger' = ledger /\ Slot' = Slot
  BY LedgerType DEF Notified, WatchFrame, Slot
<1>2. s \in 1..Slot /\ ledger[s].account = a
  <2>1. Pending(a) \in SUBSET Nat /\ Pending(a) # {}
    BY <1>1 DEF Notified, Pending, Changes
  <2>2. s \in Pending(a)
    BY <2>1, MinExists
  <2> QED
    BY <2>2 DEF Pending, Changes
<1> HIDE DEF s
<1>3. CASE a \in addresses
  <2>1. /\ cursor' = [cursor EXCEPT ![a] = s] /\ last' = [last EXCEPT ![a] = s]
        /\ retained' = [retained EXCEPT ![a] = [slot |-> s, ver |-> s]]
        /\ Invalidate(s)
    BY <1>3 DEF Notified, s
  <2>2. /\ op' \in Ops /\ snapshot' \in Snapshots /\ minimumSlot' \in 0..Slot
        /\ minimumSlot' >= minimumSlot /\ minimumSlot' >= s
        /\ op'.pc = op.pc /\ op'.min = op.min /\ SolFence'
    BY <1>1, <1>2, <2>1, InvalidateStep
  <2>3. SolTypeOK'
    <3>1. /\ cursor' \in [Accounts -> Nat] /\ last' \in [Accounts -> Nat]
          /\ retained' \in [Accounts -> [slot : Nat, ver : 0..Slot]]
      <4>1. s \in Nat /\ [slot |-> s, ver |-> s] \in [slot : Nat, ver : 0..Slot]
        BY <1>1, <1>2
      <4> QED
        BY <2>1, <4>1 DEF SolTypeOK
    <3>2. UNCHANGED <<ledger, run, target, changed, addresses, failed, watch, active, runs, failures,
                     configs, checkedKey>>
      BY DEF Notified, WatchFrame, boundVars
    <3> QED
      BY <1>1, <2>2, <3>1, <3>2 DEF SolTypeOK, Ops
  <2> QED
    BY <1>2, <2>1, <2>2, <2>3 DEF s
<1>4. CASE a \notin addresses
  <2>1. UNCHANGED <<retained, last, op, snapshot, minimumSlot>> /\ cursor' = [cursor EXCEPT ![a] = s]
    BY <1>4 DEF Notified, s
  <2>2. SolTypeOK'
    <3>1. cursor' \in [Accounts -> Nat]
      BY <1>1, <1>2, <2>1 DEF SolTypeOK
    <3>2. UNCHANGED <<ledger, run, target, changed, addresses, failed, watch, active, runs, failures,
                     configs, checkedKey>>
      BY DEF Notified, WatchFrame, boundVars
    <3> QED
      BY <1>1, <2>1, <3>1, <3>2, SMTT(30) DEF SolTypeOK
  <2>3. minimumSlot' >= minimumSlot
    BY <1>1, <2>1 DEF SolTypeOK
  <2> QED
    BY <1>1, <1>2, <2>1, <2>2, <2>3, FenceSame DEF s
<1> QED
  BY <1>3, <1>4

LEMMA QuietWatchStep ==
  ASSUME SolTypeOK, SolFence, NEW a \in Accounts, SubscribeFails(a) \/ StreamLost(a)
  PROVE  SolTypeOK' /\ SolFence' /\ minimumSlot' = minimumSlot
<1>1. UNCHANGED <<ledger, minimumSlot, snapshot, op>>
  BY DEF SubscribeFails, StreamLost, WatchFrame
<1>2. SolTypeOK'
  <2>1. CASE SubscribeFails(a)
    BY <2>1, SMTT(30) DEF SubscribeFails, WatchFrame, SolTypeOK, Fail, Slot
  <2>2. CASE StreamLost(a)
    <3>a. failed \in BOOLEAN /\ runs \in Nat /\ failures \in Nat
      BY DEF SolTypeOK
    <3>b. \/ UNCHANGED <<failed, boundVars>>
          \/ Fail /\ failed' = TRUE
      BY <2>2 DEF StreamLost
    <3>1. failed' \in BOOLEAN /\ runs' \in Nat /\ failures' \in Nat
      <4>1. failed' = failed \/ failed' = TRUE
        BY <3>b, Zenon
      <4>2. failed' \in BOOLEAN
        BY <3>a, <4>1, Zenon
      <4>3. (runs' = runs /\ failures' = failures) \/ (runs' = runs /\ failures' = failures + 1)
        BY <3>b DEF Fail, boundVars
      <4>4. runs' \in Nat /\ failures' \in Nat
        BY <3>a, <4>3
      <4> QED
        BY <4>2, <4>4
    <3>2. /\ cursor' \in [Accounts -> Nat]
          /\ watch' \in [Accounts -> {"off", "dialing", "on", "closing", "done"}]
      BY <2>2 DEF StreamLost, SolTypeOK
    <3> QED
      BY <2>2, <3>1, <3>2, SMTT(30) DEF StreamLost, WatchFrame, SolTypeOK, Slot
  <2> QED
    BY <2>1, <2>2
<1> QED
  BY <1>1, <1>2, FenceSame

\* The calls leave the rest of the state alone.
LEMMA CallType ==
  ASSUME SolTypeOK, CallFrame, op' \in Ops, snapshot' \in Snapshots, minimumSlot' \in 0..Slot,
         retained' \in [Accounts -> [slot : Nat, ver : 0..Slot]], addresses' \subseteq Accounts,
         changed' \in BOOLEAN, failures' \in Nat, configs' \in FeeTable, checkedKey' \in Keys
  PROVE  SolTypeOK'
  BY DEF SolTypeOK, CallFrame, runVars, Ops, Slot, FeeTable, Keys

LEMMA BeginStep ==
  ASSUME SolTypeOK, SolFence, Working, CallFrame, UNCHANGED failures,
         op' \in Ops, op'.pc = "fetch", op'.min = minimumSlot
  PROVE  SolTypeOK' /\ SolFence' /\ minimumSlot' = minimumSlot
<1>1. SolTypeOK'
  BY CallType DEF SolTypeOK, Working, FeeTable, Keys
<1>2. SolFence'
  BY LedgerType DEF SolFence, SolTypeOK, Working, CallFrame, Slot
<1> QED
  BY <1>1, <1>2 DEF Working

LEMMA QuoteBeginStep ==
  ASSUME SolTypeOK, SolFence, QuoteBegin
  PROVE  SolTypeOK' /\ SolFence' /\ minimumSlot' = minimumSlot /\ op'.min = minimumSlot
<1>1. PICK far, old \in BOOLEAN, p \in Positions :
        op' = IF /\ Reusable(old)
                 /\ Needs(far, PositionAt(snapshot.ver[Pool])) \subseteq snapshot.keys
              THEN [Begin("quote") EXCEPT !.pc = "commit", !.data = snapshot, !.cached = TRUE]
              ELSE [Begin("quote") EXCEPT !.far = far, !.guess = p, !.want = Around[p]]
  BY DEF QuoteBegin
<1>2. Working /\ CallFrame /\ UNCHANGED failures
  BY DEF QuoteBegin
<1>3. Begin("quote") \in Ops /\ Begin("quote").min = minimumSlot /\ ~Begin("quote").moved
      /\ Begin("quote").pc = "fetch"
  BY BeginType
<1>4. Around[p] \in SUBSET Arrays
  BY AroundType
<1>5. CASE /\ Reusable(old)
           /\ op' = [Begin("quote") EXCEPT !.pc = "commit", !.data = snapshot, !.cached = TRUE]
  <2>1. snapshot \in Snapshots /\ snapshot.keys # {}
    BY <1>5 DEF SolTypeOK, Reusable
  <2>2. /\ op' \in Ops /\ op'.pc = "commit" /\ op'.data = snapshot /\ op'.min = minimumSlot
        /\ ~op'.moved
    BY <1>3, <1>5, <2>1 DEF Ops
  <2>3. SolTypeOK'
    BY <1>2, <2>2, CallType DEF SolTypeOK, Working, FeeTable, Keys
  <2>4. SolFence'
    BY <1>2, <2>1, <2>2, LedgerType DEF SolFence, SolTypeOK, Working, CallFrame, Slot
  <2> QED
    BY <1>2, <2>2, <2>3, <2>4 DEF Working
<1>6. CASE op' = [Begin("quote") EXCEPT !.far = far, !.guess = p, !.want = Around[p]]
  <2>1. op' \in Ops /\ op'.pc = "fetch" /\ op'.min = minimumSlot
    BY <1>3, <1>4, <1>6 DEF Ops
  <2> QED
    BY <1>2, <2>1, BeginStep
<1> QED
  BY <1>1, <1>5, <1>6

LEMMA OtherBeginStep ==
  ASSUME SolTypeOK, SolFence, CheckBegin \/ WarmBegin \/ WindowBegin
  PROVE  SolTypeOK' /\ SolFence' /\ minimumSlot' = minimumSlot /\ op'.min = minimumSlot
<1>1. PICK kind \in {"check", "warm", "window"}, w \in SUBSET Arrays :
         op' = [Begin(kind) EXCEPT !.want = w]
  <2>1. CASE CheckBegin
    <3>1. ((IF snapshot.keys # {} THEN snapshot.keys ELSE addresses) \ Fixed) \in SUBSET Arrays
      BY DEF SolTypeOK, Snapshots, Accounts
    <3> QED
      BY <2>1, <3>1 DEF CheckBegin
  <2>2. CASE WarmBegin
    BY <2>2, SolanaAssumption DEF WarmBegin
  <2>3. CASE WindowBegin
    <3>1. retained[Pool].ver \in 0..Slot
      BY DEF SolTypeOK, Accounts, Fixed
    <3>2. Around[PositionAt(retained[Pool].ver)] \in SUBSET Arrays
      BY <3>1, PositionType, AroundType
    <3> QED
      BY <2>3, <3>2 DEF WindowBegin
  <2> QED
    BY <2>1, <2>2, <2>3
<1>2. Begin(kind) \in Ops /\ Begin(kind).min = minimumSlot /\ Begin(kind).pc = "fetch"
  BY BeginType
<1>3. op' \in Ops /\ op'.pc = "fetch" /\ op'.min = minimumSlot
  BY <1>1, <1>2 DEF Ops
<1>4. Working /\ CallFrame /\ UNCHANGED failures
  BY DEF CheckBegin, WarmBegin, WindowBegin
<1> QED
  BY <1>3, <1>4, BeginStep

LEMMA CallFailsStep ==
  ASSUME SolTypeOK, SolFence, CallFails
  PROVE  SolTypeOK' /\ SolFence' /\ minimumSlot' = minimumSlot /\ op' = Idle
<1>1. op' = Idle /\ Working /\ CallFrame /\ op' \in Ops /\ op'.pc = "free" /\ op'.min = 0
  BY Constants DEF CallFails
<1>2. failures' \in Nat
  BY DEF CallFails, SolTypeOK
<1>3. SolTypeOK'
  BY <1>1, <1>2, CallType DEF SolTypeOK, Working, FeeTable, Keys
<1>4. SolFence'
  BY <1>1, LedgerType DEF SolFence, Working, CallFrame, Slot
<1> QED
  BY <1>1, <1>3, <1>4 DEF Working

LEMMA NextWantType ==
  ASSUME SolTypeOK, NEW p \in Positions
  PROVE  NextWant(p) \in SUBSET Arrays
<1>1. op.want \in SUBSET Arrays /\ op.far \in BOOLEAN
  BY DEF SolTypeOK
<1>2. Around[p] \in SUBSET Arrays /\ Needs(op.far, p) \in SUBSET Arrays
  BY <1>1, AroundType
<1> QED
  BY <1>1, <1>2 DEF NextWant

LEMMA FetchStep ==
  ASSUME SolTypeOK, SolFence, Fetch
  PROVE  /\ SolTypeOK' /\ SolFence' /\ minimumSlot' = minimumSlot
         /\ op' = Idle \/ op'.min >= op.min
<1>1. PICK t \in 1..Slot :
        /\ Readable(t)
        /\ op' = IF Complete(PositionAt(t))
                 THEN [Idle EXCEPT !.pc = "commit", !.kind = op.kind, !.moved = op.moved,
                                   !.min = t, !.data = At(Fixed \cup op.want, t)]
                 ELSE IF op.attempt + 1 < MaxAttempts
                 THEN [op EXCEPT !.min = t, !.attempt = @ + 1, !.want = NextWant(PositionAt(t)),
                                 !.guess = IF op.kind = "quote" THEN PositionAt(t) ELSE @]
                 ELSE Idle
  BY DEF Fetch
<1>2. Working /\ CallFrame /\ UNCHANGED failures /\ op.pc = "fetch"
  BY DEF Fetch
<1>t. /\ op \in Ops /\ Slot \in Nat /\ t >= op.min /\ t \in Nat /\ op.min \in Nat
      /\ PositionAt(t) \in Positions
  <2>1. op \in Ops
    BY DEF SolTypeOK, Ops
  <2>2. Slot \in Nat /\ t \in Nat /\ t \in 0..Slot
    BY LedgerType
  <2>3. t >= op.min
    BY <1>1 DEF Readable
  <2> QED
    BY <2>1, <2>2, <2>3, PositionType DEF Ops
<1>3. UNCHANGED <<ledger, minimumSlot, snapshot>> /\ Slot' = Slot
  BY <1>2 DEF Working, CallFrame, Slot
<1>4. op.moved \/ t >= minimumSlot
  BY <1>t, <1>2, LedgerType DEF SolFence, SolTypeOK
<1>5. CASE op' = [Idle EXCEPT !.pc = "commit", !.kind = op.kind, !.moved = op.moved,
                              !.min = t, !.data = At(Fixed \cup op.want, t)]
  <2>1. Fixed \cup op.want \in SUBSET Accounts
    BY <1>t DEF Ops, Accounts
  <2> DEFINE d == At(Fixed \cup op.want, t)
  <2>2. d \in Snapshots /\ d.at = t /\ d.ver = Versions(ledger, d.keys, t)
    BY <1>t, <2>1, AtType, AtVersions
  <2> HIDE DEF d
  <2>3. /\ op' \in Ops /\ op'.pc = "commit" /\ op'.min = t /\ op'.data = d /\ op'.moved = op.moved
    BY <1>5, <1>t, <2>2, Constants DEF Ops, d
  <2>4. SolFence'
    BY <1>1, <1>t, <1>3, <1>4, <2>2, <2>3 DEF SolFence
  <2> QED
    BY <1>t, <1>2, <1>3, <2>3, <2>4, CallType DEF SolTypeOK, Working, FeeTable, Keys
<1>6. CASE op' = [op EXCEPT !.min = t, !.attempt = @ + 1, !.want = NextWant(PositionAt(t)),
                            !.guess = IF op.kind = "quote" THEN PositionAt(t) ELSE @]
  <2>1. NextWant(PositionAt(t)) \in SUBSET Arrays
    BY <1>t, NextWantType
  <2> DEFINE w == NextWant(PositionAt(t))
             g == IF op.kind = "quote" THEN PositionAt(t) ELSE op.guess
  <2>a. g \in Positions /\ op.attempt + 1 \in Nat /\ w \in SUBSET Arrays
    BY <1>t, <2>1 DEF Ops
  <2>b. op' = [op EXCEPT !.min = t, !.attempt = op.attempt + 1, !.want = w, !.guess = g]
    BY <1>6, <1>t DEF Ops
  <2> HIDE DEF w, g
  <2>2. /\ op' \in Ops /\ op'.pc = "fetch" /\ op'.min = t /\ op'.moved = op.moved
    BY <1>t, <1>2, <2>a, <2>b DEF Ops
  <2>3. SolFence'
    BY <1>1, <1>t, <1>3, <1>4, <2>2 DEF SolFence
  <2> QED
    BY <1>t, <1>2, <1>3, <2>2, <2>3, CallType DEF SolTypeOK, Working, FeeTable, Keys
<1>7. CASE op' = Idle
  <2>1. op' \in Ops /\ op'.pc = "free" /\ op'.min = 0
    BY <1>7, Constants
  <2>2. SolFence'
    BY <1>t, <1>3, <2>1 DEF SolFence
  <2> QED
    BY <1>2, <1>3, <1>7, <2>1, <2>2, CallType DEF SolTypeOK, Working, FeeTable, Keys
<1> QED
  BY <1>1, <1>5, <1>6, <1>7

\* What a commit may rely on.
LEMMA CommitFacts ==
  ASSUME SolTypeOK, SolFence, op.pc = "commit"
  PROVE  /\ op.data \in Snapshots /\ op.min \in 1..Slot /\ op.data.at = op.min
         /\ op.data.keys \in SUBSET Accounts
         /\ op.data.ver = Versions(ledger, op.data.keys, op.min)
         /\ op.data.ver \in [Accounts -> 0..Slot]
         /\ ~op.moved => op.min >= minimumSlot /\ Max({minimumSlot, op.min}) = op.min
<1>1. /\ op.data \in Snapshots /\ op.data.keys \in SUBSET Accounts
      /\ minimumSlot \in Nat /\ Slot \in Nat /\ ledger \in Seq(Entries) /\ Slot = Len(ledger)
  <2>1. op.data \in Snapshots
    BY DEF SolTypeOK
  <2>2. op.data.keys \in SUBSET Accounts
    BY <2>1 DEF Snapshots
  <2>3. minimumSlot \in 0..Slot
    BY DEF SolTypeOK
  <2> QED
    BY <2>1, <2>2, <2>3, LedgerType
<1>2. /\ op.min \in 1..Slot /\ op.data.at = op.min
      /\ op.data.ver = Versions(ledger, op.data.keys, op.min)
      /\ ~op.moved => op.min >= minimumSlot
  BY <1>1 DEF SolFence
<1>3. op.data.ver \in [Accounts -> 0..Slot]
  BY <1>1, <1>2, VersionsType
<1>4. ~op.moved => Max({minimumSlot, op.min}) = op.min
  BY <1>1, <1>2, MaxOfTwo
<1> QED
  BY <1>1, <1>2, <1>3, <1>4

\* Either nothing but the address set and the retained window changes, or the captured
\* snapshot, or none, is kept with its slot as the minimum.
LEMMA CommitStep ==
  ASSUME SolTypeOK, SolFence, op.pc = "commit", op' = Idle, CallFrame, UNCHANGED failures,
         retained' = retained \/ SeedWindow(op.data, op.min),
         addresses' \subseteq Accounts, changed' \in BOOLEAN,
         configs' \in FeeTable, checkedKey' \in Keys,
         \/ UNCHANGED <<snapshot, minimumSlot>>
         \/ ~op.moved /\ snapshot' \in {op.data, NoSnapshot} /\ minimumSlot' = op.min
  PROVE  SolTypeOK' /\ SolFence' /\ minimumSlot' >= minimumSlot
<1>1. /\ op' \in Ops /\ op'.pc = "free" /\ op'.min = 0
      /\ NoSnapshot \in Snapshots /\ NoSnapshot.keys = {}
      /\ minimumSlot \in 0..Slot /\ snapshot \in Snapshots
      /\ ledger' = ledger /\ Slot' = Slot /\ Slot \in Nat
  BY Constants, LedgerType DEF SolTypeOK, CallFrame, Slot
<1>2. retained' \in [Accounts -> [slot : Nat, ver : 0..Slot]]
  <2>1. CASE retained' = retained
    BY <2>1 DEF SolTypeOK
  <2>2. CASE SeedWindow(op.data, op.min)
    <3>1. op.data.ver \in [Accounts -> 0..Slot] /\ op.min \in Nat
      BY CommitFacts, <1>1
    <3> QED
      BY <2>2, <3>1, SeedType
  <2> QED
    BY <2>1, <2>2
<1>3. snapshot' \in Snapshots /\ minimumSlot' \in 0..Slot /\ minimumSlot' >= minimumSlot
  BY <1>1, CommitFacts
<1>4. SolTypeOK'
  BY <1>1, <1>2, <1>3, CallType DEF SolTypeOK
<1>5. SolFence'
  <2>1. CASE UNCHANGED <<snapshot, minimumSlot>>
    BY <1>1, <2>1 DEF SolFence
  <2>2. CASE ~op.moved /\ snapshot' \in {op.data, NoSnapshot} /\ minimumSlot' = op.min
    BY <1>1, <2>2, CommitFacts DEF SolFence
  <2> QED
    BY <2>1, <2>2
<1> QED
  BY <1>3, <1>4, <1>5

Commit == QuoteCommit \/ CheckCommit \/ WarmCommit \/ WindowCommit

\* Every commit is of that form.
LEMMA CommitForm ==
  ASSUME SolTypeOK, SolFence, Commit
  PROVE  /\ op.pc = "commit" /\ op' = Idle /\ CallFrame /\ UNCHANGED failures
         /\ retained' = retained \/ SeedWindow(op.data, op.min)
         /\ addresses' \subseteq Accounts /\ changed' \in BOOLEAN
         /\ configs' \in FeeTable /\ checkedKey' \in Keys
         /\ \/ UNCHANGED <<snapshot, minimumSlot>>
            \/ ~op.moved /\ snapshot' \in {op.data, NoSnapshot} /\ minimumSlot' = op.min
<1>1. op.pc = "commit" /\ op' = Idle /\ CallFrame /\ UNCHANGED failures
  BY DEF Commit, QuoteCommit, CheckCommit, WarmCommit, WindowCommit
<1>2. /\ op.data.keys \in SUBSET Accounts
      /\ ~op.moved => Max({minimumSlot, op.min}) = op.min
  BY <1>1, CommitFacts
<1>3. /\ addresses \subseteq Accounts /\ changed \in BOOLEAN
      /\ configs \in FeeTable /\ checkedKey \in Keys
      /\ Key(op.data) \in Keys /\ Fees(op.data) \in FeeTable
  <2>1. Key(op.data) \in Keys /\ Fees(op.data) \in FeeTable
    BY <1>1, CommitFacts, KeyType
  <2> QED
    BY <2>1 DEF SolTypeOK, FeeTable, Keys
<1>4. CASE QuoteCommit
  BY <1>1, <1>2, <1>3, <1>4 DEF QuoteCommit, Working, Follow, FeeUsed
<1>5. CASE CheckCommit
  BY <1>1, <1>2, <1>3, <1>5 DEF CheckCommit
<1>6. CASE WarmCommit
  BY <1>1, <1>2, <1>3, <1>6 DEF WarmCommit
<1>7. CASE WindowCommit
  BY <1>1, <1>2, <1>3, <1>7 DEF WindowCommit, Follow
<1> QED
  BY <1>4, <1>5, <1>6, <1>7 DEF Commit

-----------------------------------------------------------------------------
(* The invariant. *)

LEMMA SolInit == Init => SolTypeOK /\ SolFence
<1> SUFFICES ASSUME Init PROVE SolTypeOK /\ SolFence
  OBVIOUS
<1>1. [account |-> Pool, position |-> Start] \in Entries
  BY SolanaAssumption, Constants DEF Entries
<1>2. ledger \in Seq(Entries) /\ Slot = 1
  BY <1>1 DEF Init, Slot
<1>3. /\ op \in Ops /\ op.pc = "free" /\ op.min = 0
      /\ snapshot \in Snapshots /\ snapshot.keys = {}
      /\ retained \in [Accounts -> [slot : Nat, ver : 0..Slot]]
  <2>1. Absent \in [slot : Nat, ver : 0..Slot]
    BY <1>2 DEF Absent
  <2> QED
    BY <2>1, Constants DEF Init
<1>4. SolTypeOK
  <2>1. /\ cursor \in [Accounts -> Nat] /\ last \in [Accounts -> Nat]
        /\ watch \in [Accounts -> {"off", "dialing", "on", "closing", "done"}]
        /\ addresses \subseteq Accounts /\ active \subseteq Accounts /\ target \subseteq Accounts
    BY Constants DEF Init
  <2>2. minimumSlot \in 0..Slot /\ runs \in Nat /\ failures \in Nat
    BY <1>2 DEF Init
  <2>3. /\ run \in {"idle", "loop", "watching", "draining", "reconfiguring", "closing"}
        /\ failed \in BOOLEAN /\ changed \in BOOLEAN
    BY DEF Init
  <2>4. configs \in FeeTable /\ checkedKey \in Keys
    <3>1. configs = [c \in FeeConfigs |-> NoFee] /\ checkedKey = Key(NoSnapshot)
      BY DEF Init
    <3> QED
      BY <3>1, Constants, KeyType DEF FeeTable
  <2> QED
    BY <1>2, <1>3, <2>1, <2>2, <2>3, <2>4 DEF SolTypeOK, Ops, Entries, FeeTable, Keys
<1> QED
  BY <1>2, <1>3, <1>4 DEF SolFence

LEMMA SolStep ==
  SolTypeOK /\ SolFence /\ [Next]_vars => SolTypeOK' /\ SolFence' /\ minimumSlot' >= minimumSlot
<1> SUFFICES ASSUME SolTypeOK, SolFence, [Next]_vars
             PROVE  SolTypeOK' /\ SolFence' /\ minimumSlot' >= minimumSlot
  OBVIOUS
<1>0. minimumSlot >= minimumSlot
  BY LedgerType DEF SolTypeOK
<1>1. CASE Transact
  BY <1>0, <1>1, TransactStep DEF Transact
<1>2. CASE RunStep
  BY <1>0, <1>2, RunSteps
<1>3. ASSUME NEW a \in Accounts, WatchStep(a)
      PROVE  SolTypeOK' /\ SolFence' /\ minimumSlot' >= minimumSlot
  BY <1>0, <1>3, SubscribedStep, WatchEndsStep, NotifiedStep, QuietWatchStep DEF WatchStep
<1>4. CASE Call
  <2>1. CASE QuoteBegin \/ CheckBegin \/ WarmBegin \/ WindowBegin
    BY <1>0, <2>1, QuoteBeginStep, OtherBeginStep
  <2>2. CASE CallFails \/ Fetch
    BY <1>0, <2>2, CallFailsStep, FetchStep
  <2>3. CASE Commit
    BY <2>3, CommitForm, CommitStep
  <2> QED
    BY <1>4, <2>1, <2>2, <2>3 DEF Call, Commit
<1>5. CASE UNCHANGED vars
  BY <1>0, <1>5, FenceSame DEF vars, runVars, boundVars, SolTypeOK, Slot
<1> QED
  BY <1>1, <1>2, <1>3, <1>4, <1>5 DEF Next

\* Every state of the cache has its types, a snapshot is of the minimum slot, and a call
\* that no notification has overtaken commits what it read at the slot it says
\* (state_cache.go: the generation compared under the lock).
THEOREM SolTypeCorrect == Spec => [](SolTypeOK /\ SolFence)
<1>1. Init => SolTypeOK /\ SolFence
  BY SolInit
<1>2. SolTypeOK /\ SolFence /\ [Next]_vars => (SolTypeOK /\ SolFence)'
  BY SolStep
<1> QED
  BY <1>1, <1>2, PTL DEF Spec

-----------------------------------------------------------------------------
(* The fee configuration beside the snapshot. *)

\* The configurations were read with the snapshot, or the last check has read just that
\* snapshot; a quote served from the cache commits the snapshot it has found.
FeeKept ==
    /\ snapshot.keys # {} => configs = Fees(snapshot) \/ checkedKey = Key(snapshot)
    /\ op.pc = "commit" /\ op.cached =>
          op.kind = "quote" /\ (~op.moved => op.data = snapshot)

LEMMA FeeSame ==
  ASSUME FeeKept, UNCHANGED <<snapshot, configs, checkedKey, op>>
  PROVE  FeeKept'
  BY DEF FeeKept, Fees, Key

LEMMA FeeInvalidate ==
  ASSUME SolTypeOK, FeeKept, NEW s, Invalidate(s), UNCHANGED <<configs, checkedKey>>
  PROVE  FeeKept'
<1>1. op \in Ops
  BY DEF SolTypeOK, Ops
<1>2. /\ op'.pc = op.pc /\ op'.kind = op.kind /\ op'.cached = op.cached
      /\ op'.moved = (op.pc # "free") /\ snapshot'.keys = {}
  BY <1>1, Constants DEF Invalidate, Ops
<1> QED
  BY <1>2 DEF FeeKept

LEMMA FeeWatch ==
  ASSUME SolTypeOK, FeeKept, NEW a \in Accounts, WatchStep(a)
  PROVE  FeeKept'
<1>1. UNCHANGED <<configs, checkedKey>>
  BY DEF WatchStep, Subscribed, SubscribeFails, Notified, StreamLost, WatchEnds, WatchFrame
<1>2. CASE UNCHANGED <<snapshot, op>>
  BY <1>1, <1>2, FeeSame
<1>3. CASE Invalidate(0) \/ Invalidate(Min(Pending(a)))
  BY <1>1, <1>3, FeeInvalidate
<1> QED
  BY <1>2, <1>3 DEF WatchStep, Subscribed, SubscribeFails, Notified, StreamLost, WatchEnds

LEMMA FeeBegin ==
  ASSUME SolTypeOK, FeeKept, QuoteBegin \/ CheckBegin \/ WarmBegin \/ WindowBegin
  PROVE  FeeKept'
<1>1. UNCHANGED <<snapshot, configs, checkedKey>>
  BY DEF QuoteBegin, CheckBegin, WarmBegin, WindowBegin, Working
<1>2. ASSUME NEW k \in {"quote", "check", "warm", "window"}
      PROVE  Begin(k) \in Ops /\ Begin(k).pc = "fetch" /\ Begin(k).kind = k
  BY BeginType DEF Begin, Idle
<1>3. \/ op'.pc = "fetch"
      \/ op'.kind = "quote" /\ op'.data = snapshot
  <2>1. CASE QuoteBegin
    <3>1. \/ op' = [Begin("quote") EXCEPT !.pc = "commit", !.data = snapshot, !.cached = TRUE]
          \/ \E far \in BOOLEAN, p \in Positions :
                op' = [Begin("quote") EXCEPT !.far = far, !.guess = p, !.want = Around[p]]
      BY <2>1 DEF QuoteBegin
    <3>2. Begin("quote") \in Ops /\ Begin("quote").pc = "fetch" /\ Begin("quote").kind = "quote"
      BY <1>2
    <3> QED
      BY <3>1, <3>2 DEF Ops
  <2>2. CASE CheckBegin \/ WarmBegin \/ WindowBegin
    BY <1>2, <2>2 DEF CheckBegin, WarmBegin, WindowBegin, Ops
  <2> QED
    BY <2>1, <2>2
<1> QED
  BY <1>1, <1>3 DEF FeeKept, Fees, Key

LEMMA FeeFetch ==
  ASSUME SolTypeOK, FeeKept, CallFails \/ Fetch
  PROVE  FeeKept'
<1>1. UNCHANGED <<snapshot, configs, checkedKey>>
  BY DEF CallFails, Fetch, Working
<1>2. op \in Ops /\ Idle \in Ops /\ Idle.pc = "free" /\ ~Idle.cached
  BY Constants DEF SolTypeOK, Ops, Idle
<1>3. op'.pc # "commit" \/ ~op'.cached
  <2>1. CASE CallFails
    BY <1>2, <2>1 DEF CallFails
  <2>2. CASE Fetch
    BY <1>2, <2>2 DEF Fetch, Ops
  <2> QED
    BY <2>1, <2>2
<1> QED
  BY <1>1, <1>3 DEF FeeKept, Fees, Key

LEMMA FeeCommit ==
  ASSUME SolTypeOK, SolFence, FeeKept, Commit
  PROVE  FeeKept'
<1>1. op.pc = "commit" /\ op'.pc = "free" /\ NoSnapshot.keys = {}
  BY CommitForm, Constants
<1>2. CASE UNCHANGED <<snapshot, configs, checkedKey>>
  BY <1>1, <1>2 DEF FeeKept, Fees, Key
<1>3. CASE QuoteCommit /\ ~op.moved
  <2>1. snapshot' = op.data /\ configs' = FeeUsed /\ checkedKey' = checkedKey
    BY <1>3 DEF QuoteCommit
  <2>2. CASE op.cached
    <3>1. snapshot' = snapshot /\ configs' = configs
      BY <1>1, <1>3, <2>1, <2>2 DEF FeeKept, FeeUsed
    <3> QED
      BY <1>1, <2>1, <3>1 DEF FeeKept, Fees, Key
  <2>3. CASE ~op.cached
    BY <1>1, <2>1, <2>3 DEF FeeKept, FeeUsed, Fees
  <2> QED
    BY <2>2, <2>3
<1>4. CASE CheckCommit /\ ~op.moved
  <2>1. \/ snapshot' = NoSnapshot
        \/ snapshot' = op.data /\ checkedKey' = Key(op.data)
    BY <1>4 DEF CheckCommit
  <2> QED
    BY <1>1, <2>1 DEF FeeKept, Key
<1>5. CASE WarmCommit /\ ~op.moved
  <2>1. snapshot' = op.data /\ configs' = Fees(op.data)
    BY <1>5 DEF WarmCommit
  <2> QED
    BY <1>1, <2>1 DEF FeeKept, Fees
<1> QED
  BY <1>2, <1>3, <1>4, <1>5
  DEF Commit, QuoteCommit, CheckCommit, WarmCommit, WindowCommit, Working

\* The accounts of a snapshot that may be used again are those of the minimum slot, and
\* the fee configuration quotes take beside it was read with it, unless it is CheckState
\* that has installed it (state_cache.go, and state_check.go, which leaves configs alone).
THEOREM CachedExactSafe == Spec => []CachedExact
<1>1. Init => FeeKept
  BY Constants DEF Init, FeeKept
<1>2. SolTypeOK /\ SolFence /\ FeeKept /\ [Next]_vars => FeeKept'
  <2> SUFFICES ASSUME SolTypeOK, SolFence, FeeKept, [Next]_vars PROVE FeeKept'
    OBVIOUS
  <2>1. CASE Transact
    BY <2>1, FeeSame DEF Transact
  <2>2. CASE RunStep
    BY <2>2, FeeSame DEF RunStep, RunStart, StartWatches, Reconfigure, FirstResult,
       RunCancelled, Drained, RunReturn, RunFrame
  <2>3. ASSUME NEW a \in Accounts, WatchStep(a) PROVE FeeKept'
    BY <2>3, FeeWatch
  <2>4. CASE Call
    BY <2>4, FeeBegin, FeeFetch, FeeCommit DEF Call, Commit
  <2>5. CASE UNCHANGED vars
    BY <2>5, FeeSame DEF vars
  <2> QED
    BY <2>1, <2>2, <2>3, <2>4, <2>5 DEF Next
<1>3. SolTypeOK /\ SolFence /\ FeeKept => CachedExact
  <2>1. SolTypeOK /\ SolFence /\ Reusable(FALSE)
           => snapshot.ver = At(snapshot.keys, minimumSlot).ver
    BY AtVersions DEF SolFence, Reusable
  <2>2. FeeKept /\ Reusable(FALSE) => configs = Fees(snapshot) \/ checkedKey = Key(snapshot)
    BY DEF FeeKept, Reusable
  <2> QED
    BY <2>1, <2>2 DEF CachedExact
<1> QED
  BY <1>1, <1>2, <1>3, SolTypeCorrect, PTL DEF Spec

-----------------------------------------------------------------------------
(* The cache implements FencedCache. *)

SolEntry == IF Reusable(FALSE) THEN snapshot.at ELSE 0

LEMMA SolRefinesInit == Init => Abstract!Init
  BY Constants DEF Init, Abstract!Init, Reusable

LEMMA SolRefinesStep ==
  SolTypeOK /\ SolFence /\ [Next]_vars => [Abstract!Next]_<<minimumSlot, SolEntry>>
<1> SUFFICES ASSUME SolTypeOK, SolFence, [Next]_vars
             PROVE  Abstract!Next
  OBVIOUS
<1>1. SolTypeOK' /\ SolFence' /\ minimumSlot' >= minimumSlot
  BY SolStep
<1>2. minimumSlot' \in Nat
  <2>1. Slot' \in Nat /\ minimumSlot' \in 0..Slot'
    BY <1>1 DEF SolTypeOK, Slot
  <2> QED
    BY <2>1
<1>3. CASE ~Reusable(FALSE)'
  BY <1>1, <1>2, <1>3 DEF Abstract!Next, Abstract!Drop, Reusable
<1>4. CASE Reusable(FALSE)'
  <2>1. snapshot'.at = minimumSlot' /\ minimumSlot' >= 1
    BY <1>1, <1>4 DEF SolFence, Reusable
  <2> QED
    BY <1>1, <1>2, <1>4, <2>1 DEF Abstract!Next, Abstract!Install, Reusable
<1> QED
  BY <1>3, <1>4

\* What may be quoted again is never older than a handled notification, and only a
\* capture that none has overtaken makes it so.
THEOREM SolanaCacheRefines == Spec => CacheFenced
<1>1. SolTypeOK /\ SolFence /\ [Next]_vars => [Abstract!Next]_<<minimumSlot, SolEntry>>
  BY SolRefinesStep
<1> QED
  BY <1>1, SolTypeCorrect, SolRefinesInit, PTL DEF Spec, CacheFenced, Abstract!Spec, SolEntry

-----------------------------------------------------------------------------
(* The retained accounts. *)

\* The newest change received of an account is not above the minimum slot; a retained
\* account is not behind it, and neither is what the call in progress will retain.
SolKept ==
    /\ \A a \in Accounts :
          /\ last[a] <= minimumSlot
          /\ last[a] # 0 => last[a] \in 1..Slot /\ ledger[last[a]].account = a
    /\ \A a \in Held : retained[a].slot >= last[a] /\ retained[a].ver >= last[a]
    /\ op.pc # "free" => \A a \in Accounts : last[a] <= op.min \/ retained[a].slot >= last[a]

\* Steps that neither receive nor retain anything.
LEMMA KeptSame ==
  ASSUME SolTypeOK, SolKept, UNCHANGED <<last, retained, ledger>>, minimumSlot' >= minimumSlot,
         minimumSlot' \in Nat,
         \/ op'.pc = "free"
         \/ op'.min \in Nat /\ op'.min >= minimumSlot
         \/ op.pc # "free" /\ op'.min \in Nat /\ op'.min >= op.min
  PROVE  SolKept'
<1>1. /\ last \in [Accounts -> Nat] /\ minimumSlot \in Nat /\ op.min \in Nat
      /\ Slot' = Slot /\ Held' = Held
  BY LedgerType DEF SolTypeOK, Slot, Held
<1>2. \A a \in Accounts : last[a] \in Nat /\ last[a] <= minimumSlot
  BY <1>1 DEF SolKept
<1>3. \A a \in Accounts : last'[a] <= minimumSlot'
  BY <1>1, <1>2
<1>4. op'.pc # "free" => \A a \in Accounts : last'[a] <= op'.min \/ retained'[a].slot >= last'[a]
  BY <1>1, <1>2 DEF SolKept
<1> QED
  BY <1>1, <1>3, <1>4 DEF SolKept

LEMMA KeptTransact ==
  ASSUME SolTypeOK, SolKept, Transact
  PROVE  SolKept'
<1>1. PICK a \in Accounts, p \in Positions :
         ledger' = Append(ledger, [account |-> a, position |-> p])
  BY DEF Transact
<1>2. ledger \in Seq(Entries) /\ Slot = Len(ledger) /\ Slot \in Nat
  BY LedgerType
<1>3. Slot' = Slot + 1 /\ \A s \in 1..Slot : s \in 1..Slot' /\ ledger'[s] = ledger[s]
  BY <1>1, <1>2 DEF Slot
<1>4. UNCHANGED <<last, retained, minimumSlot, op>> /\ Held' = Held
  BY DEF Transact, Held
<1> QED
  BY <1>3, <1>4 DEF SolKept

LEMMA KeptNotified ==
  ASSUME SolTypeOK, SolFence, SolKept, NEW a \in Accounts, Notified(a)
  PROVE  SolKept'
<1> DEFINE s == Min(Pending(a))
<1>1. /\ SolTypeOK' /\ minimumSlot' >= minimumSlot
      /\ op'.pc = op.pc /\ op'.min = op.min
      /\ s \in 1..Slot /\ ledger[s].account = a
      /\ \/ /\ last' = [last EXCEPT ![a] = s]
            /\ retained' = [retained EXCEPT ![a] = [slot |-> s, ver |-> s]]
            /\ minimumSlot' >= s
         \/ UNCHANGED <<retained, last>>
  BY NotifiedStep
<1> HIDE DEF s
<1>2. ledger' = ledger /\ Slot' = Slot /\ Slot \in Nat /\ minimumSlot \in Nat /\ op.min \in Nat
  BY LedgerType DEF Notified, WatchFrame, Slot, SolTypeOK
<1>3. minimumSlot' \in Nat
  BY <1>1, <1>2 DEF SolTypeOK
<1>4. CASE UNCHANGED <<retained, last>>
  BY <1>1, <1>2, <1>3, <1>4, KeptSame
<1>5. CASE /\ last' = [last EXCEPT ![a] = s]
           /\ retained' = [retained EXCEPT ![a] = [slot |-> s, ver |-> s]]
           /\ minimumSlot' >= s
  <2>s. s \in Nat
    BY <1>1, <1>2
  <2>r. /\ last \in [Accounts -> Nat]
        /\ retained \in [Accounts -> [slot : Nat, ver : 0..Slot]]
    BY DEF SolTypeOK
  <2>t. /\ last \in [Accounts -> Nat] /\ s \in Nat
        /\ retained \in [Accounts -> [slot : Nat, ver : 0..Slot]]
    BY <2>s, <2>r
  <2>1. ASSUME NEW b \in Accounts
        PROVE /\ last'[b] <= minimumSlot'
              /\ last'[b] # 0 => last'[b] \in 1..Slot' /\ ledger'[last'[b]].account = b
              /\ b \in Held' => retained'[b].slot >= last'[b] /\ retained'[b].ver >= last'[b]
              /\ op'.pc # "free" => last'[b] <= op'.min \/ retained'[b].slot >= last'[b]
    <3>1. CASE b = a
      <4>1. last'[b] = s /\ retained'[b].slot = s /\ retained'[b].ver = s
        BY <1>5, <2>t, <3>1
      <4> QED
        BY <1>1, <1>2, <1>5, <2>t, <3>1, <4>1
    <3>2. CASE b # a
      <4>1. last'[b] = last[b] /\ retained'[b] = retained[b] /\ last[b] \in Nat
        BY <1>5, <2>t, <3>2
      <4>2. last[b] <= minimumSlot /\ (b \in Held' => b \in Held)
        BY <4>1 DEF SolKept, Held
      <4> QED
        BY <1>1, <1>2, <1>3, <4>1, <4>2 DEF SolKept
    <3> QED
      BY <3>1, <3>2
  <2>2. Held' \subseteq Accounts
    BY DEF Held
  <2> QED
    BY <2>1, <2>2 DEF SolKept
<1> QED
  BY <1>1, <1>4, <1>5

LEMMA KeptCommit ==
  ASSUME SolTypeOK, SolFence, SolKept, Commit
  PROVE  SolKept'
<1>1. /\ op.pc = "commit" /\ op' = Idle /\ CallFrame
      /\ retained' = retained \/ SeedWindow(op.data, op.min)
  BY CommitForm
<1>2. SolTypeOK' /\ minimumSlot' >= minimumSlot
  BY CommitForm, CommitStep
<1>t. /\ last' = last /\ ledger' = ledger /\ Slot' = Slot /\ Slot \in Nat
      /\ last \in [Accounts -> Nat] /\ minimumSlot \in Nat /\ op'.pc = "free"
      /\ retained \in [Accounts -> [slot : Nat, ver : 0..Slot]]
      /\ ledger \in Seq(Entries) /\ Slot = Len(ledger)
  <2>1. /\ last' = last /\ ledger' = ledger /\ op'.pc = "free"
        /\ last \in [Accounts -> Nat]
        /\ retained \in [Accounts -> [slot : Nat, ver : 0..Slot]]
    BY <1>1, Constants DEF SolTypeOK, CallFrame
  <2>2. ledger \in Seq(Entries) /\ Slot = Len(ledger) /\ Slot \in Nat
    BY LedgerType
  <2>3. minimumSlot \in 0..Slot
    BY DEF SolTypeOK
  <2>4. Slot' = Slot
    BY <2>1 DEF Slot
  <2> QED
    BY <2>1, <2>2, <2>3, <2>4
<1>u. minimumSlot' \in Nat
  BY <1>2, <1>t DEF SolTypeOK
<1>3. CASE retained' = retained
  BY <1>2, <1>3, <1>t, <1>u, KeptSame
<1>4. CASE SeedWindow(op.data, op.min)
  <2>1. /\ op.min \in 1..Slot /\ op.data.ver = Versions(ledger, op.data.keys, op.min)
        /\ op.data.ver \in [Accounts -> 0..Slot]
    BY <1>1, CommitFacts
  <2>2. ASSUME NEW a \in Held'
        PROVE retained'[a].slot >= last[a] /\ retained'[a].ver >= last[a]
    <3>1. a \in Accounts /\ retained'[a] # Absent /\ last[a] \in Nat
      BY <1>t DEF Held
    <3>2. a \in op.data.keys
      BY <1>4, <3>1 DEF SeedWindow
    <3>3. CASE retained[a].slot >= op.min
      <4>1. retained'[a] = retained[a]
        BY <1>4, <3>1, <3>2, <3>3 DEF SeedWindow
      <4>2. a \in Held
        BY <3>1, <4>1 DEF Held
      <4> QED
        BY <4>1, <4>2 DEF SolKept
    <3>4. CASE ~(retained[a].slot >= op.min)
      <4>1. retained'[a].slot = op.min /\ retained'[a].ver = op.data.ver[a]
        BY <1>4, <3>1, <3>2, <3>4 DEF SeedWindow
      <4>2. last[a] <= op.min
        <5>1. retained[a].slot \in Nat /\ op.min \in Nat
          BY <1>t, <2>1, <3>1
        <5>2. last[a] <= op.min \/ retained[a].slot >= last[a]
          BY <1>1, <3>1 DEF SolKept
        <5> QED
          BY <3>1, <3>4, <5>1, <5>2
      <4>3. op.data.ver[a] >= last[a]
        <5>1. CASE last[a] = 0
          BY <2>1, <3>1, <5>1
        <5>2. CASE last[a] # 0
          <6>1. last[a] \in 1..Len(ledger) /\ ledger[last[a]].account = a
            BY <1>t, <3>1, <5>2 DEF SolKept
          <6>2. op.min \in Nat /\ a \in Accounts \cap op.data.keys
            BY <2>1, <3>1, <3>2
          <6> QED
            BY <1>t, <2>1, <4>2, <6>1, <6>2, VersionsCover
        <5> QED
          BY <5>1, <5>2
      <4> QED
        BY <2>1, <4>1, <4>2, <4>3
    <3> QED
      BY <3>3, <3>4
  <2>3. \A a \in Accounts : last[a] \in Nat /\ last[a] <= minimumSlot
    BY <1>t DEF SolKept
  <2>4. \A a \in Accounts : last'[a] <= minimumSlot'
    BY <1>2, <1>t, <1>u, <2>3
  <2> QED
    BY <1>t, <2>2, <2>4 DEF SolKept
<1> QED
  BY <1>1, <1>3, <1>4

LEMMA KeptStep == SolTypeOK /\ SolFence /\ SolKept /\ [Next]_vars => SolKept'
<1> SUFFICES ASSUME SolTypeOK, SolFence, SolKept, [Next]_vars PROVE SolKept'
  OBVIOUS
<1>1. SolTypeOK' /\ minimumSlot' >= minimumSlot /\ minimumSlot' \in Nat
  <2>1. SolTypeOK' /\ minimumSlot' >= minimumSlot
    BY SolStep
  <2>2. minimumSlot' \in 0..Slot' /\ Slot' \in Nat
    BY <2>1 DEF SolTypeOK, Slot
  <2> QED
    BY <2>1, <2>2
<1>2. op.min \in Nat /\ minimumSlot \in Nat
  BY LedgerType DEF SolTypeOK
<1>3. CASE Transact
  BY <1>3, KeptTransact
<1>4. CASE RunStep
  <2>1. UNCHANGED <<last, retained, ledger, op>>
    BY <1>4 DEF RunStep, RunStart, StartWatches, Reconfigure, FirstResult, RunCancelled, Drained,
       RunReturn, RunFrame
  <2> QED
    BY <1>1, <1>2, <2>1, KeptSame
<1>5. ASSUME NEW a \in Accounts, WatchStep(a) PROVE SolKept'
  <2>1. CASE Notified(a)
    BY <2>1, KeptNotified
  <2>2. CASE SubscribeFails(a) \/ StreamLost(a)
    <3>1. UNCHANGED <<last, retained, ledger, op>>
      BY <2>2 DEF SubscribeFails, StreamLost, WatchFrame
    <3> QED
      BY <1>1, <1>2, <3>1, KeptSame
  <2>3. CASE Subscribed(a) \/ WatchEnds(a)
    <3>1. UNCHANGED <<last, retained, ledger>>
      BY <2>3 DEF Subscribed, WatchEnds, WatchFrame
    <3>2. op'.pc = op.pc /\ op'.min = op.min
      BY <2>3, SubscribedStep, WatchEndsStep
    <3> QED
      BY <1>1, <1>2, <3>1, <3>2, KeptSame
  <2> QED
    BY <1>5, <2>1, <2>2, <2>3 DEF WatchStep
<1>6. CASE QuoteBegin \/ CheckBegin \/ WarmBegin \/ WindowBegin
  <2>1. op'.min = minimumSlot /\ UNCHANGED <<last, retained, ledger>>
    BY <1>6, QuoteBeginStep, OtherBeginStep
    DEF QuoteBegin, CheckBegin, WarmBegin, WindowBegin, Working, CallFrame
  <2> QED
    BY <1>1, <1>2, <2>1, KeptSame
<1>7. CASE CallFails \/ Fetch
  <2>1. UNCHANGED <<last, retained, ledger>> /\ op.pc # "free"
    BY <1>7 DEF CallFails, Fetch, Working, CallFrame
  <2>2. op'.pc = "free" \/ op'.min >= op.min
    BY <1>7, CallFailsStep, FetchStep, Constants
  <2>3. op'.min \in Nat
    BY <1>1 DEF SolTypeOK
  <2> QED
    BY <1>1, <2>1, <2>2, <2>3, KeptSame, SMTT(30)
<1>8. CASE Commit
  BY <1>8, KeptCommit
<1>9. CASE UNCHANGED vars
  BY <1>1, <1>2, <1>9, KeptSame DEF vars
<1> QED
  BY <1>3, <1>4, <1>5, <1>6, <1>7, <1>8, <1>9 DEF Next, Call, Commit

\* A capture that was under way when a payload was received does not undo it
\* (account_state.go, SeedWindow).
THEOREM RetainedSafe == Spec => []RetainedNotUndone
<1>1. Init => SolKept
  BY Constants DEF Init, SolKept, Held
<1>2. SolTypeOK /\ SolFence /\ SolKept /\ [Next]_vars => SolKept'
  BY KeptStep
<1>3. SolKept => RetainedNotUndone
  BY DEF SolKept, RetainedNotUndone
<1> QED
  BY <1>1, <1>2, <1>3, SolTypeCorrect, PTL DEF Spec

-----------------------------------------------------------------------------
(* The snapshot and the streams it is reused under. *)

\* Run waits and no change of the address set is signalled.
Steady == run = "watching" /\ ~changed

\* The active streams are those of the watch goroutines of the session's addresses.
StreamsKnown ==
    /\ active = {a \in Accounts : watch[a] \in {"on", "closing"}}
    /\ run \in {"idle", "loop", "closing"} => \A a \in Accounts : watch[a] = "off"
    /\ run = "watching" => \A a \in Accounts : watch[a] # "off" => a \in target
    /\ Steady => target = addresses
    /\ op.kind = "warm" => run = "idle"

\* Every set of accounts has the fixed ones; a quote served from the cache carries the
\* snapshot unless a notification has moved the generation.
CopiesKnown ==
    /\ Fixed \subseteq addresses
    /\ snapshot.keys # {} => Fixed \subseteq snapshot.keys
    /\ op.pc = "commit" => Fixed \subseteq op.data.keys
    /\ op.pc = "commit" /\ op.cached /\ ~op.moved =>
          op.kind = "quote" /\ op.data = snapshot /\ op.min = minimumSlot

\* While a stream is open, the snapshot, and what a call that nothing has overtaken is
\* about to make of it, has the accounts the streams follow, and every one of them was
\* read at a slot its stream has not passed.
Followed ==
    Steady => \A a \in active :
        /\ snapshot.keys # {} => snapshot.keys = addresses /\ cursor[a] <= minimumSlot
        /\ op.pc = "fetch" /\ op.kind = "check" /\ ~op.moved => Fixed \cup op.want = addresses
        /\ op.pc = "commit" /\ ~op.moved /\ ~op.cached =>
              /\ op.kind = "check" => op.data.keys = addresses
              /\ cursor[a] <= op.min

LEMMA InvalidateOp ==
  ASSUME SolTypeOK, NEW s, Invalidate(s)
  PROVE  /\ op'.pc = op.pc /\ op'.kind = op.kind /\ op'.min = op.min /\ op'.data = op.data
         /\ op'.cached = op.cached /\ op'.moved = (op.pc # "free")
         /\ snapshot'.keys = {}
<1>1. op \in Ops
  BY DEF SolTypeOK, Ops
<1> QED
  BY <1>1, Constants DEF Invalidate, Ops

\* What every step does to the operation and the streams.
LEMMA StreamsRun ==
  ASSUME SolTypeOK, StreamsKnown, RunStep
  PROVE  StreamsKnown'
<1>1. UNCHANGED <<addresses, active, op>>
  BY DEF RunStep, RunStart, StartWatches, Reconfigure, FirstResult, RunCancelled, Drained,
     RunReturn, RunFrame
<1>2. CASE RunStart
  BY <1>1, <1>2 DEF RunStart, StreamsKnown, Steady
<1>3. CASE StartWatches
  BY <1>1, <1>3 DEF StartWatches, StreamsKnown, Steady
<1>4. CASE Reconfigure \/ FirstResult
  BY <1>1, <1>4 DEF Reconfigure, FirstResult, StreamsKnown, Steady
<1>5. CASE RunCancelled
  BY <1>1, <1>5 DEF RunCancelled, StreamsKnown, Steady
<1>6. CASE Drained
  BY <1>1, <1>6 DEF Drained, Cancelled, StreamsKnown, Steady
<1>7. CASE RunReturn
  BY <1>1, <1>7 DEF RunReturn, StreamsKnown, Steady
<1> QED
  BY <1>2, <1>3, <1>4, <1>5, <1>6, <1>7 DEF RunStep

LEMMA StreamsWatch ==
  ASSUME SolTypeOK, StreamsKnown, NEW a \in Accounts, WatchStep(a)
  PROVE  StreamsKnown'
<1>1. UNCHANGED <<run, target, changed, addresses>>
  BY DEF WatchStep, Subscribed, SubscribeFails, Notified, StreamLost, WatchEnds, WatchFrame
<1>2. op'.kind = op.kind
  BY InvalidateOp DEF WatchStep, Subscribed, SubscribeFails, Notified, StreamLost, WatchEnds
<1>3. /\ watch[a] # "off"
      /\ \/ watch' = watch
         \/ \E w \in {"on", "closing", "done"} : watch' = [watch EXCEPT ![a] = w]
  BY DEF WatchStep, Subscribed, SubscribeFails, Notified, StreamLost, WatchEnds
<1>4. watch \in [Accounts -> {"off", "dialing", "on", "closing", "done"}]
  BY DEF SolTypeOK
<1>5. ASSUME NEW b \in Accounts PROVE watch'[b] = watch[b] \/ b = a
  BY <1>3, <1>4
<1>6. active' = {b \in Accounts : watch'[b] \in {"on", "closing"}}
  <2>1. active = {b \in Accounts : watch[b] \in {"on", "closing"}}
    BY DEF StreamsKnown
  <2>2. CASE Subscribed(a)
    BY <1>4, <2>1, <2>2 DEF Subscribed
  <2>3. CASE SubscribeFails(a)
    BY <1>4, <2>1, <2>3 DEF SubscribeFails
  <2>4. CASE Notified(a)
    BY <2>1, <2>4 DEF Notified
  <2>5. CASE StreamLost(a)
    BY <1>4, <2>1, <2>5 DEF StreamLost
  <2>6. CASE WatchEnds(a)
    BY <1>4, <2>1, <2>6 DEF WatchEnds
  <2> QED
    BY <2>2, <2>3, <2>4, <2>5, <2>6 DEF WatchStep
<1>7. ~(run \in {"idle", "loop", "closing"})
  BY <1>3 DEF StreamsKnown
<1>8. run = "watching" => \A b \in Accounts : watch'[b] # "off" => b \in target
  BY <1>3, <1>5 DEF StreamsKnown
<1> QED
  BY <1>1, <1>2, <1>6, <1>7, <1>8 DEF StreamsKnown, Steady

LEMMA BeginKind ==
  ASSUME SolTypeOK, NEW k \in {"quote", "check", "warm", "window"}
  PROVE  Begin(k) \in Ops /\ Begin(k).kind = k /\ ~Begin(k).cached
<1>1. Begin(k) \in Ops
  BY BeginType
<1>2. Begin(k).kind = k /\ ~Begin(k).cached
  BY DEF Begin, Idle
<1> QED
  BY <1>1, <1>2

\* Only a call that begins changes which call it is.
LEMMA CallKind ==
  ASSUME SolTypeOK, Call
  PROVE  op'.kind = "warm" => run = "idle" \/ op.kind = "warm"
<1>1. ASSUME NEW k \in {"quote", "check", "warm", "window"}
      PROVE Begin(k) \in Ops /\ Begin(k).kind = k
  BY BeginKind
<1>2. Idle.kind = "none" /\ Idle \in Ops /\ op \in Ops
  BY Constants DEF Idle, SolTypeOK, Ops
<1>3. CASE QuoteBegin
  <2>1. op'.kind = "quote"
    BY <1>1, <1>3 DEF QuoteBegin, Ops
  <2> QED
    BY <2>1
<1>4. CASE CheckBegin \/ WindowBegin
  <2>1. op'.kind \in {"check", "window"}
    BY <1>1, <1>4 DEF CheckBegin, WindowBegin, Ops
  <2> QED
    BY <2>1
<1>5. CASE WarmBegin
  BY <1>5 DEF WarmBegin
<1>6. CASE CallFails \/ Commit
  <2>1. op' = Idle
    BY <1>6 DEF CallFails, Commit, QuoteCommit, CheckCommit, WarmCommit, WindowCommit
  <2> QED
    BY <1>2, <2>1
<1>7. CASE Fetch
  <2>1. op'.kind = op.kind \/ op'.kind = "none"
    BY <1>2, <1>7 DEF Fetch, Ops
  <2> QED
    BY <2>1
<1> QED
  BY <1>3, <1>4, <1>5, <1>6, <1>7 DEF Call, Commit

LEMMA StreamsCall ==
  ASSUME SolTypeOK, StreamsKnown, Call
  PROVE  StreamsKnown'
<1>1. UNCHANGED <<run, target, watch, active>>
  BY DEF Call, QuoteBegin, CheckBegin, WarmBegin, WindowBegin, CallFails, Fetch, QuoteCommit,
     CheckCommit, WarmCommit, WindowCommit, CallFrame, runVars
<1>2. op'.kind = "warm" => run = "idle"
  BY CallKind DEF StreamsKnown
<1>3. Steady' => Steady /\ addresses' = addresses
  <2>1. CASE QuoteBegin \/ CheckBegin \/ WarmBegin \/ WindowBegin \/ CallFails \/ Fetch
    BY <1>1, <2>1 DEF QuoteBegin, CheckBegin, WarmBegin, WindowBegin, CallFails, Fetch, Working,
       Steady
  <2>2. CASE QuoteCommit
    BY <1>1, <2>2 DEF QuoteCommit, Working, Follow, Steady
  <2>3. CASE CheckCommit
    BY <1>1, <2>3 DEF CheckCommit, Steady
  <2>4. CASE WarmCommit
    BY <1>1, <2>4 DEF WarmCommit, StreamsKnown, Steady
  <2>5. CASE WindowCommit
    BY <1>1, <2>5 DEF WindowCommit, Follow, Steady
  <2> QED
    BY <2>1, <2>2, <2>3, <2>4, <2>5 DEF Call
<1> QED
  BY <1>1, <1>2, <1>3 DEF StreamsKnown
\* A notification or a new session overtakes the call in progress.
LEMMA InvalidateFollowed ==
  ASSUME SolTypeOK, CopiesKnown, NEW s, Invalidate(s), addresses' = addresses
  PROVE  CopiesKnown' /\ Followed'
<1>1. /\ op'.pc = op.pc /\ op'.data = op.data /\ op'.cached = op.cached
      /\ op'.moved = (op.pc # "free") /\ snapshot'.keys = {}
  BY InvalidateOp
<1>2. CopiesKnown'
  BY <1>1 DEF CopiesKnown
<1>3. Followed'
  BY <1>1 DEF Followed
<1> QED
  BY <1>2, <1>3

LEMMA FollowedRun ==
  ASSUME SolTypeOK, StreamsKnown, CopiesKnown, Followed, RunStep
  PROVE  CopiesKnown' /\ Followed'
<1>1. UNCHANGED <<cursor, minimumSlot, addresses, active, snapshot, op>>
  BY DEF RunStep, RunStart, StartWatches, Reconfigure, FirstResult, RunCancelled, Drained,
     RunReturn, RunFrame
<1>2. CASE StartWatches
  <2>1. active' = {}
    BY <1>1, <1>2 DEF StartWatches, StreamsKnown
  <2> QED
    BY <1>1, <2>1 DEF CopiesKnown, Followed
<1>3. CASE ~StartWatches
  <2>1. ~Steady'
    BY <1>3 DEF RunStep, RunStart, Reconfigure, FirstResult, RunCancelled, Drained, RunReturn, Steady
  <2> QED
    BY <1>1, <2>1 DEF CopiesKnown, Followed
<1> QED
  BY <1>2, <1>3

LEMMA FollowedWatch ==
  ASSUME SolTypeOK, StreamsKnown, CopiesKnown, Followed, NEW a \in Accounts, WatchStep(a)
  PROVE  CopiesKnown' /\ Followed'
<1>1. UNCHANGED <<run, target, changed, addresses>>
  BY DEF WatchStep, Subscribed, SubscribeFails, Notified, StreamLost, WatchEnds, WatchFrame
<1>2. CASE Subscribed(a) \/ WatchEnds(a)
  BY <1>1, <1>2, InvalidateFollowed DEF Subscribed, WatchEnds
<1>3. CASE Notified(a)
  <2>1. CASE a \in addresses
    BY <1>1, <1>3, <2>1, InvalidateFollowed DEF Notified
  <2>2. CASE a \notin addresses
    <3>1. ~Steady
      BY <1>3, <2>2 DEF Notified, StreamsKnown, Steady
    <3>2. UNCHANGED <<op, snapshot, minimumSlot>>
      BY <1>3, <2>2 DEF Notified
    <3> QED
      BY <1>1, <3>1, <3>2 DEF CopiesKnown, Followed, Steady
  <2> QED
    BY <2>1, <2>2
<1>4. CASE SubscribeFails(a)
  BY <1>1, <1>4 DEF SubscribeFails, CopiesKnown, Followed, Steady
<1>5. CASE StreamLost(a)
  <2>1. UNCHANGED <<op, snapshot, minimumSlot, active>> /\ cursor' = [cursor EXCEPT ![a] = 0]
    BY <1>5 DEF StreamLost
  <2>2. /\ cursor \in [Accounts -> Nat] /\ minimumSlot \in Nat /\ op.min \in Nat
        /\ active \subseteq Accounts
    BY LedgerType, SMTT(30) DEF SolTypeOK
  <2>3. ASSUME NEW b \in active PROVE cursor'[b] = cursor[b] \/ cursor'[b] = 0
    BY <2>1, <2>2
  <2>4. Followed'
    BY <1>1, <2>1, <2>2, <2>3 DEF Followed, Steady
  <2> QED
    BY <1>1, <2>1, <2>4 DEF CopiesKnown
<1> QED
  BY <1>2, <1>3, <1>4, <1>5 DEF WatchStep

LEMMA FollowedBegin ==
  ASSUME SolTypeOK, CopiesKnown, Followed,
         QuoteBegin \/ CheckBegin \/ WarmBegin \/ WindowBegin
  PROVE  CopiesKnown' /\ Followed'
<1>1. UNCHANGED <<run, cursor, active, changed, minimumSlot, addresses, snapshot>>
  BY DEF QuoteBegin, CheckBegin, WarmBegin, WindowBegin, Working, CallFrame, runVars
<1>2. ASSUME NEW k \in {"quote", "check", "warm", "window"}
      PROVE  /\ Begin(k) \in Ops /\ Begin(k).kind = k /\ Begin(k).pc = "fetch"
             /\ Begin(k).min = minimumSlot
  BY BeginType, BeginKind
<1>3. CASE QuoteBegin
  <2>1. PICK far, old \in BOOLEAN, p \in Positions :
          op' = IF /\ Reusable(old)
                   /\ Needs(far, PositionAt(snapshot.ver[Pool])) \subseteq snapshot.keys
                THEN [Begin("quote") EXCEPT !.pc = "commit", !.data = snapshot, !.cached = TRUE]
                ELSE [Begin("quote") EXCEPT !.far = far, !.guess = p, !.want = Around[p]]
    BY <1>3 DEF QuoteBegin
  <2>2. CASE /\ Reusable(old)
             /\ op' = [Begin("quote") EXCEPT !.pc = "commit", !.data = snapshot, !.cached = TRUE]
    <3>1. snapshot.keys # {}
      BY <2>2 DEF Reusable
    <3>2. /\ op'.pc = "commit" /\ op'.kind = "quote" /\ op'.data = snapshot
          /\ op'.min = minimumSlot /\ op'.cached
      BY <1>2, <2>2 DEF Ops
    <3> QED
      BY <1>1, <3>1, <3>2 DEF CopiesKnown, Followed, Steady
  <2>3. CASE op' = [Begin("quote") EXCEPT !.far = far, !.guess = p, !.want = Around[p]]
    <3>1. op'.pc = "fetch" /\ op'.kind = "quote"
      BY <1>2, <2>3 DEF Ops
    <3> QED
      BY <1>1, <3>1 DEF CopiesKnown, Followed, Steady
  <2> QED
    BY <2>1, <2>2, <2>3
<1>4. CASE CheckBegin
  <2> DEFINE K == IF snapshot.keys # {} THEN snapshot.keys ELSE addresses
  <2>1. op'.pc = "fetch" /\ op'.want = K \ Fixed
    BY <1>2, <1>4 DEF CheckBegin, Ops
  <2>2. Fixed \subseteq K
    BY DEF CopiesKnown
  <2>3. Fixed \cup op'.want = K
    BY <2>1, <2>2
  <2>4. CopiesKnown'
    BY <1>1, <2>1 DEF CopiesKnown
  <2>5. Followed'
    BY <1>1, <2>1, <2>3 DEF Followed, Steady
  <2> QED
    BY <2>4, <2>5
<1>5. CASE WarmBegin \/ WindowBegin
  <2>1. op'.pc = "fetch" /\ op'.kind # "check"
    <3>1. PICK k \in {"warm", "window"} : \E w : op' = [Begin(k) EXCEPT !.want = w]
      BY <1>5 DEF WarmBegin, WindowBegin
    <3>2. PICK w : op' = [Begin(k) EXCEPT !.want = w]
      BY <3>1
    <3> QED
      BY <1>2, <3>2 DEF Ops
  <2> QED
    BY <1>1, <2>1 DEF CopiesKnown, Followed, Steady
<1> QED
  BY <1>3, <1>4, <1>5

\* The node an account is read from has passed what the streams have delivered.
LEMMA FollowedFetch ==
  ASSUME SolTypeOK, CopiesKnown, Followed, Fetch, ~ReaderBehind
  PROVE  CopiesKnown' /\ Followed'
<1>1. PICK t \in 1..Slot :
        /\ Readable(t)
        /\ op' = IF Complete(PositionAt(t))
                 THEN [Idle EXCEPT !.pc = "commit", !.kind = op.kind, !.moved = op.moved,
                                   !.min = t, !.data = At(Fixed \cup op.want, t)]
                 ELSE IF op.attempt + 1 < MaxAttempts
                 THEN [op EXCEPT !.min = t, !.attempt = @ + 1, !.want = NextWant(PositionAt(t)),
                                 !.guess = IF op.kind = "quote" THEN PositionAt(t) ELSE @]
                 ELSE Idle
  BY DEF Fetch
<1>2. /\ UNCHANGED <<run, cursor, active, changed, minimumSlot, addresses, snapshot>>
      /\ op.pc = "fetch"
  BY DEF Fetch, Working, CallFrame, runVars
<1>3. Idle \in Ops /\ op \in Ops /\ Idle.pc = "free" /\ ~Idle.cached
  BY Constants DEF SolTypeOK, Ops, Idle
<1>4. CASE op' = [Idle EXCEPT !.pc = "commit", !.kind = op.kind, !.moved = op.moved,
                              !.min = t, !.data = At(Fixed \cup op.want, t)]
  <2>1. /\ op'.pc = "commit" /\ op'.kind = op.kind /\ op'.moved = op.moved /\ op'.min = t
        /\ op'.data = At(Fixed \cup op.want, t) /\ ~op'.cached
    BY <1>3, <1>4 DEF Ops
  <2>2. op'.data.keys = Fixed \cup op.want
    BY <2>1, AtVersions
  <2>3. \A b \in active : cursor[b] <= t
    <3>1. active \subseteq Accounts /\ cursor \in [Accounts -> Nat] /\ t \in Nat
      <4>1. active \subseteq Accounts /\ cursor \in [Accounts -> Nat]
        BY DEF SolTypeOK
      <4> QED
        BY <4>1, LedgerType
    <3> QED
      BY <1>1, <3>1 DEF Readable
  <2>4. CopiesKnown'
    BY <1>2, <2>1, <2>2 DEF CopiesKnown
  <2>5. Followed'
    BY <1>2, <2>1, <2>2, <2>3 DEF Followed, Steady
  <2> QED
    BY <2>4, <2>5
<1>5. CASE /\ ~Complete(PositionAt(t))
           /\ op' = [op EXCEPT !.min = t, !.attempt = @ + 1, !.want = NextWant(PositionAt(t)),
                               !.guess = IF op.kind = "quote" THEN PositionAt(t) ELSE @]
  <2>1. op.kind # "check"
    BY <1>5 DEF Complete
  <2>2. op'.pc = "fetch" /\ op'.kind = op.kind
    BY <1>2, <1>3, <1>5 DEF Ops
  <2> QED
    BY <1>2, <2>1, <2>2 DEF CopiesKnown, Followed, Steady
<1>6. CASE op' = Idle
  BY <1>2, <1>3, <1>6 DEF CopiesKnown, Followed, Steady
<1> QED
  BY <1>1, <1>4, <1>5, <1>6

LEMMA FollowedCommit ==
  ASSUME SolTypeOK, SolFence, StreamsKnown, CopiesKnown, Followed, Commit
  PROVE  CopiesKnown' /\ Followed'
<1>1. /\ op.pc = "commit" /\ op'.pc = "free" /\ UNCHANGED <<run, cursor, active>>
  BY CommitForm, Constants DEF CallFrame, runVars
<1>2. ~op.moved => Max({minimumSlot, op.min}) = op.min
  BY <1>1, CommitFacts
<1>3. Fixed \subseteq addresses /\ Fixed \subseteq op.data.keys /\ NoSnapshot.keys = {}
      /\ Fixed # {}
  BY <1>1, Constants DEF CopiesKnown
<1>4. CASE QuoteCommit
  <2>1. CASE op.moved
    BY <1>1, <1>4, <2>1 DEF QuoteCommit, Working, CopiesKnown, Followed, Steady
  <2>2. CASE ~op.moved /\ op.cached
    <3>1. snapshot' = snapshot /\ minimumSlot' = minimumSlot /\ UNCHANGED <<addresses, changed>>
      BY <1>1, <1>2, <1>4, <2>2 DEF QuoteCommit, CopiesKnown
    <3> QED
      BY <1>1, <3>1 DEF CopiesKnown, Followed, Steady
  <2>3. CASE ~op.moved /\ ~op.cached
    <3>1. /\ snapshot' = op.data /\ minimumSlot' = op.min /\ addresses' = op.data.keys
          /\ changed' = (changed \/ op.data.keys # addresses)
      BY <1>2, <1>4, <2>3 DEF QuoteCommit, Follow
    <3>2. Steady' => Steady
      BY <1>1, <3>1 DEF Steady
    <3>3. Steady => \A a \in active : cursor[a] <= op.min
      BY <1>1, <2>3 DEF Followed
    <3> QED
      BY <1>1, <1>3, <3>1, <3>2, <3>3 DEF CopiesKnown, Followed
  <2> QED
    BY <2>1, <2>2, <2>3
<1>5. CASE CheckCommit
  <2>0. UNCHANGED <<changed, addresses>> /\ op.kind = "check"
    BY <1>5 DEF CheckCommit
  <2>1. CASE op.moved
    BY <1>1, <1>5, <2>0, <2>1 DEF CheckCommit, CopiesKnown, Followed, Steady
  <2>2. CASE ~op.moved /\ snapshot' = NoSnapshot
    BY <1>1, <1>3, <2>0, <2>2 DEF CopiesKnown, Followed
  <2>3. CASE ~op.moved /\ snapshot' = op.data /\ minimumSlot' = op.min
    <3>1. ~op.cached
      BY <1>1, <2>0, <2>3 DEF CopiesKnown
    <3>2. Steady => \A a \in active : op.data.keys = addresses /\ cursor[a] <= op.min
      BY <1>1, <2>0, <2>3, <3>1 DEF Followed
    <3> QED
      BY <1>1, <1>3, <2>0, <2>3, <3>2 DEF CopiesKnown, Followed, Steady
  <2> QED
    BY <1>5, <2>1, <2>2, <2>3 DEF CheckCommit
<1>6. CASE WarmCommit
  <2>1. ~Steady'
    BY <1>1, <1>6 DEF WarmCommit, StreamsKnown, Steady
  <2>2. CopiesKnown'
    BY <1>1, <1>3, <1>6 DEF WarmCommit, CopiesKnown
  <2> QED
    BY <2>1, <2>2 DEF Followed
<1>7. CASE WindowCommit
  <2>1. /\ UNCHANGED <<snapshot, minimumSlot>> /\ addresses' = op.data.keys
        /\ changed' = (changed \/ op.data.keys # addresses)
    BY <1>7 DEF WindowCommit, Follow
  <2>2. Steady' => Steady /\ addresses' = addresses
    BY <1>1, <2>1 DEF Steady
  <2> QED
    BY <1>1, <1>3, <2>1, <2>2 DEF CopiesKnown, Followed
<1> QED
  BY <1>4, <1>5, <1>6, <1>7 DEF Commit

LEMMA FollowedStep ==
  ASSUME SolTypeOK, SolFence, StreamsKnown, CopiesKnown, Followed, ~ReaderBehind, [Next]_vars
  PROVE  StreamsKnown' /\ CopiesKnown' /\ Followed'
<1>1. CASE Transact
  BY <1>1 DEF Transact, StreamsKnown, CopiesKnown, Followed, Steady, runVars
<1>2. CASE RunStep
  BY <1>2, StreamsRun, FollowedRun
<1>3. ASSUME NEW a \in Accounts, WatchStep(a) PROVE StreamsKnown' /\ CopiesKnown' /\ Followed'
  BY <1>3, StreamsWatch, FollowedWatch
<1>4. CASE Call
  <2>1. CopiesKnown' /\ Followed'
    <3>1. CASE QuoteBegin \/ CheckBegin \/ WarmBegin \/ WindowBegin
      BY <3>1, FollowedBegin
    <3>2. CASE CallFails
      BY <3>2, Constants DEF CallFails, Working, CallFrame, runVars, CopiesKnown, Followed, Steady
    <3>3. CASE Fetch
      BY <3>3, FollowedFetch
    <3>4. CASE Commit
      BY <3>4, FollowedCommit
    <3> QED
      BY <1>4, <3>1, <3>2, <3>3, <3>4 DEF Call, Commit
  <2> QED
    BY <1>4, <2>1, StreamsCall
<1>5. CASE UNCHANGED vars
  BY <1>5 DEF vars, runVars, StreamsKnown, CopiesKnown, Followed, Steady
<1> QED
  BY <1>1, <1>2, <1>3, <1>4, <1>5 DEF Next

LEMMA FollowedInit == Init => StreamsKnown /\ CopiesKnown /\ Followed
  BY Constants DEF Init, StreamsKnown, CopiesKnown, Followed, Steady, Idle

\* A snapshot that may be used again has one open stream for each of its accounts.
LEMMA ReusableKeys ==
  ASSUME SolTypeOK, CopiesKnown, Followed, Steady, Reusable(FALSE)
  PROVE  snapshot.keys = active /\ \A a \in active : cursor[a] <= minimumSlot
<1>1. IsFiniteSet(active)
  <2>1. IsFiniteSet(Accounts)
    <3>1. IsFiniteSet({Pool}) /\ IsFiniteSet(FeeConfigs) /\ IsFiniteSet(Arrays)
      BY FS_Singleton, SolanaAssumption
    <3>2. IsFiniteSet(Fixed)
      BY <3>1, FS_Union DEF Fixed
    <3> QED
      BY <3>1, <3>2, FS_Union DEF Accounts
  <2>2. active \in SUBSET Accounts
    BY DEF SolTypeOK
  <2> QED
    BY <2>1, <2>2, FS_Subset
<1>2. addresses \in SUBSET active /\ Cardinality(active) = Cardinality(addresses)
  BY DEF Reusable
<1>3. active = addresses
  BY <1>1, <1>2, FS_Subset
<1>4. Pool \in active
  BY <1>3, Constants DEF CopiesKnown
<1> QED
  BY <1>3, <1>4 DEF Followed, Reusable

\* When reads are not behind the streams, every change of an account that a reusable
\* snapshot does not have will still be notified (state_cache.go: the generation moved
\* by every subscription and every change of the address set followed by Run).
THEOREM FollowedSafe == ~ReaderBehind => (Spec => []CachedFollowed)
<1> SUFFICES ASSUME ~ReaderBehind PROVE Spec => []CachedFollowed
  OBVIOUS
<1>1. SolTypeOK /\ SolFence /\ StreamsKnown /\ CopiesKnown /\ Followed /\ [Next]_vars
      => (StreamsKnown /\ CopiesKnown /\ Followed)'
  BY FollowedStep
<1>2. SolTypeOK /\ StreamsKnown /\ CopiesKnown /\ Followed => CachedFollowed
  <2> SUFFICES ASSUME SolTypeOK, StreamsKnown, CopiesKnown, Followed, Steady
               PROVE  /\ target = addresses
                      /\ Reusable(FALSE) =>
                           /\ snapshot.keys = active
                           /\ \A a \in snapshot.keys :
                                {s \in Changes(a) : s > minimumSlot} \subseteq Pending(a)
    BY DEF CachedFollowed, Steady
  <2>1. target = addresses
    BY DEF StreamsKnown
  <2>2. ASSUME Reusable(FALSE), NEW a \in active, NEW s \in Changes(a), s > minimumSlot
        PROVE  s \in Pending(a)
    <3>1. cursor[a] <= minimumSlot
      BY <2>2, ReusableKeys
    <3>2. cursor[a] \in Nat /\ minimumSlot \in Nat /\ s \in Nat
      BY LedgerType DEF SolTypeOK, Changes
    <3> QED
      BY <2>2, <3>1, <3>2 DEF Pending
  <2> QED
    BY <2>1, <2>2, ReusableKeys
<1> QED
  BY <1>1, <1>2, FollowedInit, SolTypeCorrect, PTL DEF Spec
=============================================================================
