------------------------------ MODULE EvmChain ------------------------------
(***************************************************************************)
(* The chain as the SDK's readers and subscriptions meet it: a canonical   *)
(* list of blocks that grows, that may replace its last blocks by others   *)
(* (a reorganisation), and that may return to blocks it had dropped.       *)
(* External: nodes are not part of the repository; what is here is what    *)
(* LatestHeader, HeaderByNumber, CallContract and SubscribeFilterLogs are  *)
(* used for.                                                               *)
(*                                                                         *)
(* A block hash is its index in "block"; 0 is Go's empty common.Hash.  The *)
(* pool state after a block is named by the hash of the last block on its  *)
(* branch that emitted a log of the pool: two blocks agree on "state" iff  *)
(* the pool's storage is the same after both.                              *)
(***************************************************************************)
EXTENDS Naturals, Sequences, FiniteSets

CONSTANTS
    MaxBlocks,      \* bound: blocks ever produced, on all branches
    ReorgDepth,     \* bound: how many canonical blocks one reorganisation drops
    Kinds,          \* the kinds of pool logs that matter to the model
    MaxReturns      \* bound: returns to a block that had been dropped (0: it never happens)

ASSUME ChainAssumption ==
    /\ MaxBlocks \in Nat \ {0}
    /\ ReorgDepth \in Nat
    /\ "none" \notin Kinds
    /\ MaxReturns \in Nat

VARIABLES
    chain,          \* canonical hashes, chain[n] is the hash of block number n
    block,          \* every block produced, by hash
    returns         \* returns so far

chainVars == <<chain, block, returns>>

Hash == 1..MaxBlocks
EmptyHash == 0

\* What a block did to the pool: nothing, or one log of some kind.
Effects == Kinds \cup {"none"}

Blocks == [num : Hash, parent : Hash \cup {EmptyHash}, log : Effects, state : Hash]

ChainTypeOK ==
    /\ block \in Seq(Blocks)
    /\ Len(block) \in 1..MaxBlocks
    /\ chain \in Seq(1..Len(block))
    /\ Len(chain) \in 1..Len(block)
    /\ returns \in Nat

ChainInit ==
    /\ block = <<[num |-> 1, parent |-> EmptyHash, log |-> "none", state |-> 1]>>
    /\ chain = <<1>>
    /\ returns = 0

Height == Len(chain)
Canonical(h) == \E n \in 1..Height : chain[n] = h
StateAt(n) == block[chain[n]].state

\* A log notification: "pool" is log.Address == c.pool.  A block that changed
\* the pool emits one pool log; a subscriber may also be sent logs of others.
Log(h, removed) ==
    [num |-> block[h].num, hash |-> h, pool |-> block[h].log # "none", removed |-> removed]
Logs == [num : Hash, hash : Hash, pool : BOOLEAN, removed : BOOLEAN]

\* The next block on top of canonical block number n.
Child(n, log) ==
    [num |-> n + 1, parent |-> chain[n], log |-> log,
     state |-> IF log # "none" THEN Len(block) + 1 ELSE StateAt(n)]

\* A new block on canonical block number n; the canonical blocks above n are
\* dropped (none when n = Height).
Grow(n, log) ==
    /\ Len(block) < MaxBlocks
    /\ n \in 1..Height
    /\ Height - n <= ReorgDepth
    /\ block' = Append(block, Child(n, log))
    /\ chain' = Append(SubSeq(chain, 1, n), Len(block) + 1)
    /\ returns' = returns

\* The last block gives way to a block that had been dropped at its height.
Return(h) ==
    /\ returns < MaxReturns
    /\ returns' = returns + 1
    /\ Height > 1
    /\ h \in 1..Len(block)
    /\ ~Canonical(h)
    /\ block[h].num = Height
    /\ block[h].parent = chain[Height - 1]
    /\ block' = block
    /\ chain' = [chain EXCEPT ![Height] = h]

\* The removed-log notices for the canonical blocks above n, newest first.
Dropped(n) == [i \in 1..(Height - n) |-> Log(chain[Height + 1 - i], TRUE)]

\* The notices a subscriber gets when the blocks above n give way to block h,
\* whose contents are b.
Notices(n, h, b) ==
    Dropped(n) \o
    (IF b.log # "none" THEN <<[num |-> b.num, hash |-> h, pool |-> TRUE, removed |-> FALSE]>>
     ELSE <<>>)
=============================================================================
