------------------------------ MODULE SuiPool ------------------------------
(***************************************************************************)
(* A shared pool object of Sui as its readers and streams see it: every    *)
(* transaction that touches the pool gives it the next object version, a   *)
(* checkpoint seals a run of transactions, and what is sealed is never     *)
(* replaced.  A tick is 0 when it is not initialized, else the version that *)
(* wrote it last, so that two different contents are never equal.  Ticks   *)
(* are grouped in words; the bitmap of the pools that keep one has a bit   *)
(* for every initialized tick of a word.                                   *)
(***************************************************************************)
EXTENDS Integers, Sequences, FiniteSets

CONSTANTS MaxTx, MaxTop,    \* bounds: transactions and checkpoints
          Words, Ticks,     \* words of the price, ticks liquidity is added at
          WordSize          \* 256 in the code

\* The word of a compressed tick index, rounding down.
Word(t) == t \div WordSize

ASSUME PoolAssumption ==
    /\ MaxTx \in Nat \ {0} /\ MaxTop \in Nat \ {0} /\ WordSize \in Nat \ {0}
    /\ Words \subseteq Int /\ Words # {}
    /\ Ticks \subseteq Int /\ \A t \in Ticks : Word(t) \in Words

VARIABLES tx,      \* tx[v] made the pool's version v; tx[1] is genesis
          top      \* the last sealed checkpoint

poolVars == <<tx, top>>

Checkpoints == 0..MaxTop
Versions == 0..MaxTx
Tx == [cp: 0..(MaxTop + 1), word: Words, ticks: [Ticks -> Versions], changed: SUBSET Ticks]

Newest == tx[Len(tx)]
\* The pool's version at the end of checkpoint c.
VersionAt(c) == CHOOSE v \in 1..Len(tx) :
                    tx[v].cp <= c /\ (v = Len(tx) \/ tx[v + 1].cp > c)

PoolInit ==
    /\ \E w \in Words, n \in 0..1 :
        tx = <<[cp |-> 0, word |-> w, ticks |-> [t \in Ticks |-> n], changed |-> {}]>>
    /\ top = 0

Append1(t) == tx' = Append(tx, t) /\ UNCHANGED top

\* The current tick moves to another word.
Swap == /\ Len(tx) < MaxTx /\ top < MaxTop
        /\ \E w \in Words \ {Newest.word} : Append1([Newest EXCEPT !.cp = top + 1, !.word = w, !.changed = {}])

\* Liquidity is added at a tick, or all of a tick's liquidity is removed.
Provide == /\ Len(tx) < MaxTx /\ top < MaxTop
           /\ \E t \in Ticks, n \in {0, Len(tx) + 1} :
                /\ Newest.ticks[t] # n
                /\ Append1([Newest EXCEPT !.cp = top + 1, !.ticks[t] = n, !.changed = {t}])

Seal == top < MaxTop /\ top' = top + 1 /\ UNCHANGED tx
=============================================================================
