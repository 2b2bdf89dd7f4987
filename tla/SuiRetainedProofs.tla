------------------------- MODULE SuiRetainedProofs -------------------------
(***************************************************************************)
(* The retained inputs on Sui are one state of the pool, cover what is     *)
(* confirmed and include what was refused, for every number of             *)
(* transactions, ticks and words and every limit of the replay.            *)
(***************************************************************************)
EXTENDS SuiRetained, Induction

\* Version v includes every transaction up to checkpoint c.
Includes(v, c) == \A w \in 1..Len(tx) : tx[w].cp <= c => w <= v

\* Transactions are in checkpoints one after another, the last ones in the checkpoint that
\* is not sealed, and a tick keeps its content unless its transaction changed it.
PoolKept ==
    /\ tx[1].cp = 0 /\ \A v \in 2..Len(tx) : tx[v].cp \in 1..(top + 1)
    /\ \A v, w \in 1..Len(tx) : v <= w => tx[v].cp <= tx[w].cp
    /\ \A v \in 2..Len(tx) : \A t \in Ticks \ tx[v].changed : tx[v].ticks[t] = tx[v - 1].ticks[t]

\* Inputs s include their baseline, and what they were moved to is known from the two
\* checkpoints they record.
Based(s) ==
    /\ s.version <= Len(tx) /\ s.baseline <= top /\ s.position <= top
    /\ Includes(s.version, s.baseline)
    /\ tx[s.version].cp <= Larger(s.baseline, s.position)

\* Inputs s are the pool's at their version, as far as they are known.
Exact(s) ==
    LET now == tx[s.version]
    IN /\ s.word = now.word
       /\ ~Bitmap => \A t \in TicksIn(s.words) : s.ticks[t] = now.ticks[t]
       /\ Bitmap => /\ \A t \in Ticks : s.ticks[t] \in {0, now.ticks[t]}
                    /\ s.bits \subseteq TicksIn(s.words)
                    /\ \A t \in TicksIn(s.words) : t \in s.bits <=> now.ticks[t] # 0

Live == active \/ phase = "activate"

\* Live inputs include all that was delivered, unless nothing was delivered yet.
Abreast == retained.version >= stream.sent \/ tx[stream.sent].cp <= stream.since

InputsKept ==
    /\ retained # NoInputs => Based(retained) /\ (Anchored => Exact(retained))
    /\ retained # NoInputs /\ Live => Abreast
    /\ phase \in {"activate", "run"} => retained # NoInputs

StreamKept ==
    /\ stream.since <= top /\ stream.mark <= top /\ confirmed <= top /\ floor <= top /\ pinned <= top
    /\ stream.sent \in 1..Len(tx) /\ tx[stream.sent].cp <= top
    /\ Includes(stream.sent, stream.mark) /\ Includes(stream.sent, confirmed)
    /\ phase = "warm" => tx[stream.sent].cp <= stream.since
    /\ phase = "run" => active
    /\ active => phase \in {"run", "closing"}

\* What a running capture replays goes on where it began, and its candidate cannot be older.
CaptureKept ==
    /\ worker.floor <= top /\ worker.cp <= top
    /\ worker.pc # "idle" => phase \in {"run", "closing"}
    /\ phase = "run" /\ worker.pc # "idle" /\ ~overflow =>
         LET start == stream.sent - Len(replay)
         IN /\ start \in 1..Len(tx)
            /\ \A i \in 1..Len(replay) : replay[i] = start + i
            /\ worker.pc = "warm" => tx[start].cp <= Larger(worker.floor, stream.since)
            /\ worker.pc = "done" => tx[start].cp <= Larger(worker.cp, stream.since)

RecoveryKept ==
    /\ floor >= rejected
    /\ retained # NoInputs => retained.baseline >= rejected
    /\ retained # NoInputs /\ Live => retained.baseline >= accepted
    /\ ~Bitmap => accepted = 0

RetainedInv == RetainedTypeOK /\ PoolKept /\ InputsKept /\ StreamKept /\ CaptureKept /\ RecoveryKept

---------------------------------------------------------------------------
\* The pool

LEMMA PoolTypes ==
  ASSUME RetainedTypeOK
  PROVE  /\ Len(tx) \in Nat /\ Len(tx) >= 1 /\ Len(tx) <= MaxTx /\ top \in Nat
         /\ \A v \in 1..Len(tx) :
               /\ tx[v] \in Tx /\ tx[v].cp \in Nat /\ tx[v].word \in Words
               /\ tx[v].ticks \in [Ticks -> Versions] /\ tx[v].changed \subseteq Ticks
<1>1. Len(tx) \in 1..MaxTx /\ tx \in Seq(Tx) /\ MaxTx \in Nat
  BY PoolAssumption DEF RetainedTypeOK
<1>2. top \in Nat
  BY PoolAssumption DEF RetainedTypeOK, Checkpoints
<1>3. ASSUME NEW v \in 1..Len(tx)
      PROVE  /\ tx[v] \in Tx /\ tx[v].cp \in Nat /\ tx[v].word \in Words
             /\ tx[v].ticks \in [Ticks -> Versions] /\ tx[v].changed \subseteq Ticks
  <2>1. tx[v] \in Tx
    BY <1>1
  <2> QED
    BY <2>1, PoolAssumption DEF Tx
<1> QED
  BY <1>1, <1>2, <1>3

\* VersionAt is the last version whose transaction is not after the checkpoint.
LEMMA VersionAtIs ==
  ASSUME RetainedTypeOK, PoolKept, NEW c \in Nat
  PROVE  /\ VersionAt(c) \in 1..Len(tx) /\ tx[VersionAt(c)].cp <= c
         /\ Includes(VersionAt(c), c)
<1> DEFINE Ends(v) == tx[v].cp <= c /\ (v = Len(tx) \/ tx[v + 1].cp > c)
           T == {v \in 1..Len(tx) : v = Len(tx) \/ tx[v + 1].cp > c}
<1>1. \E v \in 1..Len(tx) : Ends(v)
  <2>1. T \subseteq Nat /\ Len(tx) \in T
    BY PoolTypes
  <2>2. PICK v \in T : \A w \in T : v <= w
    <3> HIDE DEF T
    <3> QED
      BY <2>1, Least
  <2>3. v \in 1..Len(tx)
    OBVIOUS
  <2>4. CASE v = 1
    <3>1. tx[v].cp <= c
      BY <2>4 DEF PoolKept
    <3> QED
      BY <3>1, <2>2
  <2>5. CASE v # 1
    <3>1. v - 1 \in 1..Len(tx) /\ v - 1 + 1 = v /\ ~(v <= v - 1)
      BY <2>3, <2>5, PoolTypes
    <3>2. v - 1 \notin T
      <4> HIDE DEF T
      <4> QED
        BY <2>2, <3>1
    <3>3. ~(tx[v].cp > c)
      BY <3>1, <3>2
    <3>4. tx[v].cp <= c
      BY <3>3, <2>3, PoolTypes
    <3> QED
      BY <3>4, <2>2
  <2> QED
    BY <2>4, <2>5
<1>2. VersionAt(c) \in 1..Len(tx) /\ Ends(VersionAt(c))
  <2>1. VersionAt(c) = CHOOSE v \in 1..Len(tx) : Ends(v)
    BY DEF VersionAt
  <2> HIDE DEF Ends
  <2> QED
    BY <1>1, <2>1
<1>3. ASSUME NEW w \in 1..Len(tx), tx[w].cp <= c PROVE w <= VersionAt(c)
  <2> DEFINE v == VersionAt(c)
  <2> SUFFICES ASSUME v < w PROVE FALSE
    BY <1>2, PoolTypes
  <2>1. v + 1 \in 1..Len(tx) /\ v + 1 <= w /\ v # Len(tx)
    BY <1>2, PoolTypes
  <2>2. tx[v + 1].cp <= tx[w].cp
    BY <2>1 DEF PoolKept
  <2>3. tx[v + 1].cp > c
    BY <1>2, <2>1
  <2> QED
    BY <1>3, <2>1, <2>2, <2>3, PoolTypes
<1> QED
  BY <1>2, <1>3 DEF Includes

\* The checkpoints up to Covered(v) have no transaction after v.
LEMMA CoveredIs ==
  ASSUME RetainedTypeOK, PoolKept, NEW v \in 1..Len(tx)
  PROVE  Covered(v) \in 0..top /\ Includes(v, Covered(v))
<1>1. CASE v = Len(tx)
  BY <1>1, PoolTypes DEF Covered, Includes
<1>2. CASE v # Len(tx)
  <2>1. v + 1 \in 2..Len(tx) /\ v + 1 \in 1..Len(tx)
    BY <1>2, PoolTypes
  <2>2. tx[v + 1].cp \in 1..(top + 1)
    BY <2>1 DEF PoolKept
  <2>3. Covered(v) \in 0..top /\ Covered(v) < tx[v + 1].cp
    BY <1>2, <2>2, PoolTypes DEF Covered
  <2>4. ASSUME NEW w \in 1..Len(tx), tx[w].cp <= Covered(v) PROVE w <= v
    <3> SUFFICES ASSUME v + 1 <= w PROVE FALSE
      BY PoolTypes
    <3>1. tx[v + 1].cp <= tx[w].cp
      BY <2>1 DEF PoolKept
    <3> QED
      BY <2>1, <2>3, <2>4, <3>1, PoolTypes
  <2> QED
    BY <2>3, <2>4 DEF Includes
<1> QED
  BY <1>1, <1>2

\* What covers a checkpoint covers the earlier ones, and a later version covers no less.
LEMMA IncludesMore ==
  ASSUME RetainedTypeOK, NEW v \in Nat, NEW w \in Nat, v <= w, NEW c \in Nat, NEW d \in Nat, d <= c,
         Includes(v, c)
  PROVE  Includes(w, d)
BY PoolTypes DEF Includes

---------------------------------------------------------------------------
\* What is captured and applied

LEMMA SomeInputs ==
  /\ NoInputs \notin Inputs
  /\ \A s \in Inputs : s # NoInputs
BY DEF NoInputs, Inputs

LEMMA InputsTypes ==
  ASSUME NEW s \in Inputs
  PROVE  /\ s.version \in Nat /\ s.version >= 1 /\ s.baseline \in Nat /\ s.position \in Nat
         /\ s.ticks \in [Ticks -> Versions] /\ s.words \subseteq Words /\ s.bits \subseteq Ticks
BY PoolAssumption DEF Inputs, Checkpoints, Versions

\* A pinned read is exact as of its checkpoint.
LEMMA AtIs ==
  ASSUME RetainedTypeOK, PoolKept, NEW c \in 0..top
  PROVE  /\ At(c) \in Inputs /\ Based(At(c)) /\ Exact(At(c)) /\ At(c).baseline = c
         /\ \A v \in 1..Len(tx) : tx[v].cp <= c => v <= At(c).version
<1> DEFINE v == VersionAt(c)
           here == Window(tx[v].word)
<1>1. c \in Checkpoints /\ c \in Nat /\ 0 \in Checkpoints
  BY PoolAssumption DEF RetainedTypeOK, Checkpoints
<1>2. v \in 1..Len(tx) /\ tx[v].cp <= c /\ Includes(v, c)
  BY <1>1, VersionAtIs
<1>3. /\ tx[v].word \in Words /\ tx[v].ticks \in [Ticks -> Versions] /\ tx[v].cp \in Nat
      /\ v \in 1..MaxTx /\ 0 \in Versions
  BY <1>2, PoolTypes, PoolAssumption DEF Versions
<1>4. here \subseteq Words /\ TicksIn(here) \subseteq Ticks
  BY DEF Window, TicksIn
<1> DEFINE s == At(c)
<1>5. /\ s.version = v /\ s.word = tx[v].word /\ s.center = tx[v].word /\ s.words = here
      /\ s.bits = IF Bitmap THEN {t \in TicksIn(here) : tx[v].ticks[t] # 0} ELSE {}
      /\ s.ticks = [t \in Ticks |-> IF Word(t) \in here THEN tx[v].ticks[t] ELSE 0]
      /\ s.baseline = c /\ s.position = 0
  BY DEF At
<1>6. s \in Inputs
  <2>1. s.bits \subseteq Ticks
    BY <1>4, <1>5
  <2>2. s.ticks \in [Ticks -> Versions]
    <3> HIDE DEF here
    <3> QED
      BY <1>3, <1>5
  <2>3. s = [version |-> s.version, word |-> s.word, center |-> s.center, words |-> s.words,
             bits |-> s.bits, ticks |-> s.ticks, baseline |-> s.baseline, position |-> s.position]
    BY DEF At
  <2> HIDE DEF s, here, v
  <2> QED
    BY <1>1, <1>3, <1>4, <1>5, <2>1, <2>2, <2>3 DEF Inputs
<1> HIDE DEF s, v
<1>7. Based(s)
  BY <1>1, <1>2, <1>3, <1>5, PoolTypes DEF Based, Larger
<1>8. Exact(s)
  <2>1. \A t \in TicksIn(here) : s.ticks[t] = tx[v].ticks[t]
    BY <1>5 DEF TicksIn
  <2>2. \A t \in Ticks : s.ticks[t] \in {0, tx[v].ticks[t]}
    BY <1>5
  <2> HIDE DEF here
  <2>3. Bitmap => s.bits \subseteq TicksIn(here) /\ \A t \in TicksIn(here) : t \in s.bits <=> tx[v].ticks[t] # 0
    BY <1>5
  <2> QED
    BY <1>5, <2>1, <2>2, <2>3 DEF Exact
<1> QED
  BY <1>2, <1>5, <1>6, <1>7, <1>8 DEF Includes, s

\* Inputs with what a transaction replaces.
LEMMA MovedIs ==
  ASSUME RetainedTypeOK, PoolKept, NEW s \in Inputs, Based(s), NEW v \in 2..Len(tx), tx[v].cp <= top,
         s.version <= v,
         NEW r \in Inputs, r.version = v, r.position = tx[v].cp, r.baseline = s.baseline
  PROVE  Based(r)
<1>1. Includes(v, s.baseline)
  BY PoolTypes, InputsTypes, IncludesMore DEF Based
<1>2. tx[v].cp \in Nat
  BY PoolTypes
<1> QED
  BY <1>1, <1>2, InputsTypes, PoolTypes DEF Based, Larger

LEMMA WithIs ==
  ASSUME RetainedTypeOK, NEW ticks \in [Ticks -> Versions], NEW v \in 1..Len(tx), NEW replaced
  PROVE  /\ With(ticks, v, replaced) \in [Ticks -> Versions]
         /\ \A t \in Ticks : With(ticks, v, replaced)[t] = IF t \in replaced THEN tx[v].ticks[t] ELSE ticks[t]
BY PoolTypes DEF With

\* What applying transaction v makes of inputs s: they include v, and they are exact when
\* they were and v is the next transaction.
Applied(s, v, r) ==
    /\ r \in Inputs /\ Based(r) /\ r.baseline = s.baseline
    /\ r.version >= s.version /\ r.version >= v
    /\ Exact(s) /\ v <= s.version + 1 => Exact(r)

LEMMA ApplyWindowIs ==
  ASSUME RetainedTypeOK, PoolKept, ~Bitmap, NEW s \in Inputs, Based(s),
         NEW v \in 2..Len(tx), tx[v].cp <= top, s.version < v, ApplyWindow(s, v) # NoInputs
  PROVE  Applied(s, v, ApplyWindow(s, v))
<1> DEFINE here == tx[v].changed \cap TicksIn(s.words)
           new == With(s.ticks, v, here)
           r == ApplyWindow(s, v)
<1>1. v \in 1..Len(tx) /\ s.ticks \in [Ticks -> Versions]
  BY InputsTypes
<1>2. r = [s EXCEPT !.version = v, !.word = tx[v].word, !.position = tx[v].cp, !.ticks = new]
  <2>1. r = [Moved(s, v) EXCEPT !.ticks = With(@, v, here)]
    BY DEF ApplyWindow
  <2> QED
    BY <2>1 DEF Moved, Inputs
<1>3. new \in [Ticks -> Versions] /\ \A t \in Ticks : new[t] = IF t \in here THEN tx[v].ticks[t] ELSE s.ticks[t]
  BY <1>1, WithIs
<1>4. /\ v \in 1..MaxTx /\ tx[v].word \in Words /\ tx[v].cp \in Checkpoints
  BY <1>1, PoolTypes, PoolAssumption DEF Checkpoints, RetainedTypeOK
<1>5. /\ r.version = v /\ r.word = tx[v].word /\ r.position = tx[v].cp /\ r.ticks = new
      /\ r.words = s.words /\ r.baseline = s.baseline
  BY <1>2 DEF Inputs
<1>6. r \in Inputs
  <2> HIDE DEF r, new
  <2> QED
    BY <1>2, <1>3, <1>4 DEF Inputs
<1> HIDE DEF r
<1>7. Based(r)
  BY <1>5, <1>6, MovedIs, InputsTypes
<1>8. ASSUME Exact(s), v <= s.version + 1 PROVE Exact(r)
  <2>1. s.version = v - 1 /\ s.version \in 1..Len(tx)
    BY <1>1, <1>8, InputsTypes, PoolTypes
  <2>2. ASSUME NEW t \in TicksIn(r.words) PROVE r.ticks[t] = tx[v].ticks[t]
    <3>1. t \in Ticks /\ t \in TicksIn(s.words)
      BY <1>5 DEF TicksIn
    <3>2. CASE t \in tx[v].changed
      BY <1>3, <1>5, <3>1, <3>2
    <3>3. CASE t \notin tx[v].changed
      <4>1. tx[v].ticks[t] = tx[v - 1].ticks[t]
        BY <3>1, <3>3 DEF PoolKept
      <4>2. r.ticks[t] = s.ticks[t]
        <5>1. t \notin here
          BY <3>3
        <5> HIDE DEF new, here
        <5> QED
          BY <1>3, <1>5, <3>1, <5>1
      <4>3. s.ticks[t] = tx[s.version].ticks[t]
        BY <1>8, <3>1 DEF Exact
      <4> QED
        BY <4>1, <4>2, <4>3, <2>1
    <3> QED
      BY <3>2, <3>3
  <2> QED
    BY <1>5, <2>2 DEF Exact
<1> QED
  BY <1>5, <1>6, <1>7, <1>8, InputsTypes DEF Applied, r

LEMMA ApplyBitmapIs ==
  ASSUME RetainedTypeOK, PoolKept, Bitmap, NEW s \in Inputs, Based(s),
         NEW v \in 2..Len(tx), tx[v].cp <= top, s.version < v
  PROVE  Applied(s, v, ApplyBitmap(s, v))
<1> DEFINE there == TicksIn(Flipped(v))
           new == With(s.ticks, v, tx[v].changed)
           bits == (s.bits \ there) \cup {t \in there : tx[v].ticks[t] # 0}
           words == s.words \cup Flipped(v)
           r == ApplyBitmap(s, v)
<1>1. v \in 1..Len(tx) /\ s.ticks \in [Ticks -> Versions]
  BY InputsTypes
<1>2. r = [s EXCEPT !.version = v, !.word = tx[v].word, !.position = tx[v].cp,
                    !.words = words, !.bits = bits, !.ticks = new]
  <2>1. r = [Moved(s, v) EXCEPT !.words = @ \cup Flipped(v),
                                !.bits = (@ \ there) \cup {t \in there : tx[v].ticks[t] # 0},
                                !.ticks = With(@, v, tx[v].changed)]
    BY DEF ApplyBitmap
  <2> HIDE DEF there
  <2> QED
    BY <2>1 DEF Moved, Inputs
<1>3. /\ new \in [Ticks -> Versions]
      /\ \A t \in Ticks : new[t] = IF t \in tx[v].changed THEN tx[v].ticks[t] ELSE s.ticks[t]
  BY <1>1, WithIs
<1>4. /\ v \in 1..MaxTx /\ tx[v].word \in Words /\ tx[v].cp \in Checkpoints /\ tx[v].changed \subseteq Ticks
  BY <1>1, PoolTypes, PoolAssumption DEF Checkpoints, RetainedTypeOK
<1>5. Flipped(v) \subseteq Words /\ there \subseteq Ticks
  BY <1>4, PoolAssumption DEF Flipped, TicksIn
<1>6. words \subseteq Words /\ bits \subseteq Ticks
  <2> HIDE DEF there
  <2> QED
    BY <1>5, InputsTypes
<1>7. /\ r.version = v /\ r.word = tx[v].word /\ r.position = tx[v].cp /\ r.ticks = new
      /\ r.words = words /\ r.bits = bits /\ r.baseline = s.baseline
  <2> HIDE DEF r, new, words, bits
  <2> QED
    BY <1>2 DEF Inputs
<1>8. r \in Inputs
  <2> HIDE DEF r, new, words, bits
  <2> QED
    BY <1>2, <1>3, <1>4, <1>6 DEF Inputs
<1> HIDE DEF r
<1>9. Based(r)
  BY <1>7, <1>8, MovedIs, InputsTypes
<1>10. ASSUME Exact(s), v <= s.version + 1 PROVE Exact(r)
  <2>1. s.version = v - 1 /\ s.version \in 1..Len(tx)
    BY <1>1, <1>10, InputsTypes, PoolTypes
  <2>2. /\ \A t \in Ticks : s.ticks[t] \in {0, tx[v - 1].ticks[t]}
        /\ s.bits \subseteq TicksIn(s.words)
        /\ \A t \in TicksIn(s.words) : t \in s.bits <=> tx[v - 1].ticks[t] # 0
    BY <1>10, <2>1 DEF Exact
  <2>3. \A t \in Ticks \ tx[v].changed : tx[v].ticks[t] = tx[v - 1].ticks[t]
    BY DEF PoolKept
  <2>4. \A t \in Ticks : r.ticks[t] \in {0, tx[v].ticks[t]}
    <3> HIDE DEF new
    <3> QED
      BY <1>3, <1>7, <2>2, <2>3
  <2>5. TicksIn(words) = TicksIn(s.words) \cup there
    BY DEF TicksIn
  <2>6. \A t \in Ticks \ there : tx[v].ticks[t] = 0 <=> tx[v - 1].ticks[t] = 0
    <3> TAKE t \in Ticks \ there
    <3>1. CASE t \in tx[v].changed
      BY <3>1 DEF TicksIn, Flipped
    <3>2. CASE t \notin tx[v].changed
      BY <3>2, <2>3
    <3> QED
      BY <3>1, <3>2
  <2>7. bits \subseteq TicksIn(words) /\ \A t \in TicksIn(words) : t \in bits <=> tx[v].ticks[t] # 0
    <3>1. TicksIn(s.words) \subseteq Ticks
      BY DEF TicksIn
    <3> HIDE DEF there, words
    <3> QED
      BY <2>2, <2>5, <2>6, <3>1
  <2> HIDE DEF words, bits
  <2> QED
    BY <1>7, <2>4, <2>7 DEF Exact
<1> QED
  BY <1>7, <1>8, <1>9, <1>10, InputsTypes DEF Applied, r

LEMMA ApplyTxIs ==
  ASSUME RetainedTypeOK, PoolKept, NEW s \in Inputs, Based(s),
         NEW v \in 2..Len(tx), tx[v].cp <= top, ApplyTx(s, v) # NoInputs
  PROVE  Applied(s, v, ApplyTx(s, v))
<1>1. s # NoInputs /\ v \in 1..Len(tx)
  BY SomeInputs
<1>2. CASE Skips(s, v)
  <2>1. ApplyTx(s, v) = s
    BY <1>2 DEF ApplyTx
  <2>2. v <= s.version
    BY <1>1, <1>2 DEF Skips, Based, Includes
  <2> QED
    BY <2>1, <2>2, InputsTypes DEF Applied
<1>3. CASE ~Skips(s, v)
  <2>1. s.version < v
    BY <1>3, InputsTypes, PoolTypes DEF Skips
  <2>2. ApplyTx(s, v) = IF Bitmap THEN ApplyBitmap(s, v) ELSE ApplyWindow(s, v)
    BY <1>1, <1>3 DEF ApplyTx
  <2> QED
    BY <2>1, <2>2, ApplyWindowIs, ApplyBitmapIs
<1> QED
  BY <1>2, <1>3

\* What the replay makes of the candidate: after every notification, inputs of the
\* candidate's baseline that include it, or none.
ReplayKept(after) ==
    LET start == stream.sent - Len(replay)
    IN \A i \in 0..Len(replay) : after[i] # NoInputs =>
          /\ after[i] \in Inputs /\ Based(after[i]) /\ after[i].baseline = worker.cp
          /\ i > 0 \/ worker.cp >= stream.since => after[i].version >= start + i
          /\ worker.cp >= stream.since => Exact(after[i])

LEMMA ReplayedIs ==
  ASSUME RetainedTypeOK, PoolKept, StreamKept, CaptureKept,
         phase = "run", worker.pc = "done", ~overflow, Replayed # NoInputs
  PROVE  /\ Replayed \in Inputs /\ Based(Replayed) /\ Replayed.baseline = worker.cp
         /\ Replayed.version >= stream.sent \/ tx[stream.sent].cp <= stream.since
         /\ worker.cp >= stream.since => Exact(Replayed)
<1> DEFINE n == Len(replay)
           start == stream.sent - n
           A == {x \in Inputs : Based(x)} \cup {NoInputs}
           F == [i \in 1..n |-> [x \in A |-> ApplyTx(x, replay[i])]]
<1>1. /\ n \in Nat /\ worker.cp \in 0..top /\ stream.sent \in 1..Len(tx) /\ tx[stream.sent].cp <= top
      /\ stream.since \in 0..top /\ start \in 1..Len(tx) /\ start + n = stream.sent
      /\ \A i \in 1..n : replay[i] = start + i
      /\ tx[start].cp <= Larger(worker.cp, stream.since)
  <2>1. n \in Nat /\ worker.cp \in Nat /\ stream.since \in Nat
    BY PoolAssumption DEF RetainedTypeOK, Checkpoints
  <2> QED
    BY <2>1, PoolTypes DEF StreamKept, CaptureKept
<1>2. \A i \in 1..n : replay[i] \in 2..Len(tx) /\ tx[replay[i]].cp <= top
  <2> TAKE i \in 1..n
  <2> HIDE DEF n, start
  <2>1. /\ replay[i] = start + i /\ start \in 1..Len(tx) /\ start + n = stream.sent /\ n \in Nat
        /\ stream.sent \in 1..Len(tx) /\ tx[stream.sent].cp <= top
    BY <1>1
  <2>2. Len(tx) \in Nat /\ top \in Nat
    BY PoolTypes
  <2>3. replay[i] \in 2..Len(tx) /\ replay[i] <= stream.sent /\ replay[i] \in 1..Len(tx)
    BY <2>1, <2>2
  <2>4. tx[replay[i]].cp <= tx[stream.sent].cp
    BY <2>1, <2>3 DEF PoolKept
  <2>5. tx[replay[i]].cp \in Nat /\ tx[stream.sent].cp \in Nat
    BY <2>1, <2>3, PoolTypes
  <2>6. tx[replay[i]].cp <= top
    BY <2>1, <2>2, <2>4, <2>5
  <2> QED
    BY <2>3, <2>6
<1> HIDE DEF n, start
<1>3. /\ At(worker.cp) \in Inputs /\ Based(At(worker.cp)) /\ Exact(At(worker.cp))
      /\ At(worker.cp).baseline = worker.cp
      /\ worker.cp >= stream.since => At(worker.cp).version >= start
  <2>1. \A v \in 1..Len(tx) : tx[v].cp <= worker.cp => v <= At(worker.cp).version
    BY <1>1, AtIs
  <2>2. worker.cp >= stream.since => tx[start].cp <= worker.cp
    BY <1>1 DEF Larger
  <2>3. At(worker.cp) \in Inputs
    BY <1>1, AtIs
  <2> QED
    BY <1>1, <2>1, <2>2, <2>3, AtIs, InputsTypes
<1>4. F \in [1..n -> [A -> A]]
  <2>1. ASSUME NEW i \in 1..n, NEW x \in A PROVE ApplyTx(x, replay[i]) \in A
    <3>1. CASE x = NoInputs
      BY <3>1 DEF ApplyTx
    <3>2. CASE x # NoInputs /\ ApplyTx(x, replay[i]) # NoInputs
      <4>1. Applied(x, replay[i], ApplyTx(x, replay[i]))
        BY <1>2, <3>2, ApplyTxIs
      <4> QED
        BY <4>1 DEF Applied
    <3> QED
      BY <3>1, <3>2
  <2> HIDE DEF A
  <2> QED
    BY <2>1
<1>5. \A i \in 1..n, x \in A : F[i][x] = ApplyTx(x, replay[i])
  OBVIOUS
<1> HIDE DEF F
<1>6. PICK after \in [0..n -> A] : Iterates(after, At(worker.cp), n, F)
  <2>1. At(worker.cp) \in A /\ n \in Nat
    BY <1>1, <1>3
  <2> HIDE DEF A
  <2> QED
    BY <1>4, <2>1, Iteration
<1>7. after[0] = At(worker.cp) /\ \A i \in 1..n : after[i - 1] \in A /\ after[i] = ApplyTx(after[i - 1], replay[i])
  BY <1>1, <1>5, <1>6 DEF Iterates
<1>8. Replayed = after[n]
  <2> DEFINE G(f) == f = [i \in 0..n |-> IF i = 0 THEN At(worker.cp) ELSE ApplyTx(f[i - 1], replay[i])]
             H(f) == [i \in 0..n |-> IF i = 0 THEN At(worker.cp) ELSE ApplyTx(f[i - 1], replay[i])]
  <2>1. G(after)
    <3>1. after = [i \in 0..n |-> after[i]]
      OBVIOUS
    <3>2. \A i \in 0..n : after[i] = H(after)[i]
      BY <1>7
    <3> QED
      BY <3>1, <3>2
  <2>2. ASSUME NEW f, G(f) PROVE f = after
    <3>1. f[0] = At(worker.cp) /\ \A i \in 1..n : f[i] = ApplyTx(f[i - 1], replay[i])
      BY <1>1, <2>2
    <3>2. \A i \in 0..n : f[i] = after[i]
      <4>1. Alike(f, after, n)
        BY <1>7, <3>1 DEF Alike
      <4>2. n \in Nat
        BY <1>1
      <4> QED
        BY <4>1, <4>2, SameIteration
    <3>3. f = [i \in 0..n |-> f[i]] /\ after = [i \in 0..n |-> after[i]]
      BY <2>2
    <3> QED
      BY <3>2, <3>3
  <2>3. Replayed = (CHOOSE f : G(f))[n]
    BY DEF Replayed, n
  <2> HIDE DEF G
  <2> QED
    BY <2>1, <2>2, <2>3
<1>9. ReplayKept(after)
  <2> DEFINE Kept(i) == after[i] # NoInputs =>
                /\ after[i] \in Inputs /\ Based(after[i]) /\ after[i].baseline = worker.cp
                /\ i > 0 \/ worker.cp >= stream.since => after[i].version >= start + i
                /\ worker.cp >= stream.since => Exact(after[i])
             T == {i \in Nat : i <= n => Kept(i)}
  <2>1. 0 \in T
    BY <1>1, <1>3, <1>7
  <2>2. ASSUME NEW i \in Nat, i \in T PROVE i + 1 \in T
    <3> SUFFICES ASSUME i + 1 <= n, after[i + 1] # NoInputs PROVE Kept(i + 1)
      OBVIOUS
    <3> DEFINE s == after[i]
               v == replay[i + 1]
    <3>1. i + 1 \in 1..n /\ i + 1 - 1 = i
      BY <1>1
    <3>2. s \in A /\ after[i + 1] = ApplyTx(s, v) /\ v = start + i + 1 /\ v \in 2..Len(tx) /\ tx[v].cp <= top
      BY <1>1, <1>2, <1>7, <3>1
    <3>3. s # NoInputs
      BY <3>2 DEF ApplyTx
    <3>4. s \in Inputs /\ Based(s) /\ Kept(i)
      BY <2>2, <3>2, <3>3, <1>1
    <3>5. Applied(s, v, after[i + 1])
      BY <3>2, <3>4, ApplyTxIs
    <3>6. worker.cp >= stream.since => v <= s.version + 1
      BY <1>1, <3>2, <3>3, <3>4, InputsTypes
    <3> HIDE DEF s, v
    <3>7. after[i + 1].version >= start + (i + 1)
      BY <1>1, <3>2, <3>5 DEF Applied
    <3>8. worker.cp >= stream.since => Exact(after[i + 1])
      BY <3>3, <3>4, <3>5, <3>6 DEF Applied, s
    <3> QED
      BY <3>3, <3>4, <3>5, <3>7, <3>8 DEF Applied, s
  <2>3. Nat \subseteq T
    <3> HIDE DEF T
    <3> QED
      BY <2>1, <2>2, SetInduction
  <2>4. \A i \in 0..n : Kept(i)
    <3> HIDE DEF Kept
    <3> QED
      BY <1>1, <2>3
  <2> QED
    BY <2>4 DEF ReplayKept, n, start
<1>10. n \in 0..n
  BY <1>1
<1>11. /\ after[n] \in Inputs /\ Based(after[n]) /\ after[n].baseline = worker.cp
       /\ n > 0 \/ worker.cp >= stream.since => after[n].version >= start + n
       /\ worker.cp >= stream.since => Exact(after[n])
  BY <1>8, <1>9, <1>10 DEF ReplayKept, n, start
<1>12. after[n].version >= stream.sent \/ tx[stream.sent].cp <= stream.since
  <2>1. CASE n > 0 \/ worker.cp >= stream.since
    BY <1>1, <1>11, <2>1
  <2>2. CASE n = 0 /\ ~(worker.cp >= stream.since)
    BY <1>1, <2>2 DEF Larger
  <2> QED
    BY <1>1, <2>1, <2>2
<1> QED
  BY <1>8, <1>11, <1>12

---------------------------------------------------------------------------
\* The invariant

LEMMA InitKept == Init => RetainedInv
<1> SUFFICES ASSUME Init PROVE RetainedInv
  OBVIOUS
<1> USE PoolAssumption, RetainedAssumption
<1>1. PICK w \in Words, n \in 0..1 :
         tx = <<[cp |-> 0, word |-> w, ticks |-> [t \in Ticks |-> n], changed |-> {}]>>
  BY DEF Init, PoolInit
<1>2. /\ Len(tx) = 1 /\ tx[1].cp = 0 /\ tx \in Seq(Tx) /\ top = 0
  <2>1. tx[1] \in Tx
    BY <1>1 DEF Tx, Versions
  <2> QED
    BY <1>1, <2>1 DEF Init, PoolInit
<1>3. 0 \in Checkpoints /\ 1 \in Versions
  BY DEF Checkpoints, Versions
<1>4. RetainedTypeOK
  <2>1. worker \in [pc: {"idle", "start", "warm", "done", "failed"}, floor: Checkpoints, cp: Checkpoints]
    BY <1>3 DEF Init, NoWorker
  <2>2. stream \in [since: Checkpoints, sent: Versions, mark: Checkpoints]
    BY <1>3 DEF Init
  <2>3. replay \in Seq(Versions) /\ Len(replay) = 0
    BY DEF Init
  <2>4. Len(tx) \in 1..MaxTx /\ Len(replay) <= ReplayLimit /\ 0 \in 0..MaxFailures
    BY <1>2, <2>3
  <2>5. /\ venue \in Venues /\ top = 0 /\ accepted = 0 /\ phase = "off" /\ active = FALSE /\ pinned = NoCp
        /\ overflow = FALSE /\ waiting = FALSE /\ retained = NoInputs /\ confirmed = 0 /\ floor = 0
        /\ rejected = 0 /\ failures = 0
    BY <1>2 DEF Init
  <2> QED
    BY <1>2, <1>3, <2>1, <2>2, <2>3, <2>4, <2>5, Zenon DEF RetainedTypeOK
<1>5. PoolKept
  BY <1>2 DEF PoolKept
<1>6. StreamKept /\ CaptureKept
  BY <1>2 DEF Init, StreamKept, CaptureKept, Includes, NoCp, NoWorker
<1>7. InputsKept /\ RecoveryKept
  BY DEF Init, InputsKept, RecoveryKept
<1> QED
  BY <1>4, <1>5, <1>6, <1>7 DEF RetainedInv

\* The pool grows: what there is stays, and a new transaction is not sealed yet.
Grows ==
    /\ Len(tx) <= Len(tx)' /\ top <= top' /\ tx' \in Seq(Tx) /\ Len(tx)' \in 1..MaxTx /\ top' \in Checkpoints
    /\ \A v \in 1..Len(tx) : tx'[v] = tx[v]
    /\ \A v \in 1..Len(tx)' : v > Len(tx) => tx'[v].cp > top

LEMMA AppendGrows ==
  ASSUME RetainedTypeOK, PoolKept, NEW t \in Tx, Len(tx) < MaxTx, Append1(t), t.cp = top + 1,
         \A u \in Ticks \ t.changed : t.ticks[u] = Newest.ticks[u]
  PROVE  Grows /\ PoolKept'
<1>1. tx \in Seq(Tx) /\ tx' = Append(tx, t) /\ top' = top /\ top \in Nat /\ top \in Checkpoints
  BY PoolTypes DEF Append1, RetainedTypeOK
<1>2. Len(tx') = Len(tx) + 1 /\ tx' \in Seq(Tx) /\ Len(tx) \in Nat /\ Len(tx) >= 1
  BY <1>1, PoolTypes
<1>3. /\ \A v \in 1..Len(tx) : tx'[v] = tx[v] /\ tx[v].cp \in Nat
      /\ tx'[Len(tx) + 1] = t
  BY <1>1, <1>2, PoolTypes
<1>4. Grows
  BY <1>1, <1>2, <1>3, PoolAssumption DEF Grows
<1>5. \A v \in 1..Len(tx) : tx[v].cp <= top + 1
  <2>1. \A v \in 2..Len(tx) : tx[v].cp <= top + 1
    BY <1>1 DEF PoolKept
  <2>2. tx[1].cp = 0
    BY DEF PoolKept
  <2> QED
    BY <1>1, <1>2, <2>1, <2>2
<1>6. tx'[1].cp = 0 /\ \A v \in 2..Len(tx') : tx'[v].cp \in 1..(top + 1)
  BY <1>1, <1>2, <1>3 DEF PoolKept
<1>7. \A v, w \in 1..Len(tx') : v <= w => tx'[v].cp <= tx'[w].cp
  <2> TAKE v, w \in 1..Len(tx')
  <2>1. CASE w <= Len(tx)
    BY <1>2, <1>3, <2>1 DEF PoolKept
  <2>2. CASE w = Len(tx) + 1
    <3>1. tx'[v].cp <= top + 1
      BY <1>1, <1>2, <1>3, <1>5
    <3> QED
      BY <1>3, <2>2, <3>1
  <2> QED
    BY <1>2, <2>1, <2>2
<1>8. \A v \in 2..Len(tx') : \A u \in Ticks \ tx'[v].changed : tx'[v].ticks[u] = tx'[v - 1].ticks[u]
  <2> TAKE v \in 2..Len(tx')
  <2>1. CASE v <= Len(tx)
    <3>1. v \in 2..Len(tx) /\ tx'[v] = tx[v] /\ tx'[v - 1] = tx[v - 1]
      BY <1>2, <1>3, <2>1
    <3> QED
      BY <3>1 DEF PoolKept
  <2>2. CASE v = Len(tx) + 1
    <3>1. tx'[v] = t /\ tx'[v - 1] = Newest
      BY <1>2, <1>3, <2>2 DEF Newest
    <3> QED
      BY <3>1
  <2> QED
    BY <1>2, <2>1, <2>2
<1> QED
  BY <1>1, <1>4, <1>6, <1>7, <1>8 DEF PoolKept

LEMMA PoolGrows ==
  ASSUME RetainedTypeOK, PoolKept, PoolSteps
  PROVE  Grows /\ PoolKept'
<1>1. /\ Newest \in Tx /\ Newest.ticks \in [Ticks -> Versions] /\ Len(tx) \in Nat /\ top \in Nat
  BY PoolTypes DEF Newest
<1>2. CASE Swap
  <2>1. PICK w \in Words \ {Newest.word} : Append1([Newest EXCEPT !.cp = top + 1, !.word = w, !.changed = {}])
    BY <1>2 DEF Swap
  <2>2. Len(tx) < MaxTx /\ top < MaxTop
    BY <1>2 DEF Swap
  <2>3. PICK c \in 0..(MaxTop + 1) : c = top + 1
    BY <1>1, <2>2, PoolAssumption
  <2>4. PICK t : t = [Newest EXCEPT !.cp = c, !.word = w, !.changed = {}]
    OBVIOUS
  <2>5. t \in Tx /\ t.cp = c /\ t.ticks = Newest.ticks
    <3>1. t \in Tx
      BY <1>1, <2>4 DEF Tx
    <3>2. t.cp = c
      BY <1>1, <2>4 DEF Tx
    <3>3. t.ticks = Newest.ticks
      BY <1>1, <2>4 DEF Tx
    <3> QED
      BY <3>1, <3>2, <3>3
  <2> QED
    BY <2>1, <2>2, <2>3, <2>4, <2>5, AppendGrows
<1>3. CASE Provide
  <2>1. PICK u \in Ticks, n \in {0, Len(tx) + 1} :
           Append1([Newest EXCEPT !.cp = top + 1, !.ticks[u] = n, !.changed = {u}])
    BY <1>3 DEF Provide
  <2>2. Len(tx) < MaxTx /\ top < MaxTop
    BY <1>3 DEF Provide
  <2>3. n \in Versions
    BY <1>1, <2>2, PoolAssumption DEF Versions
  <2>4. PICK c \in 0..(MaxTop + 1) : c = top + 1
    BY <1>1, <2>2, PoolAssumption
  <2>5. PICK t : t = [Newest EXCEPT !.cp = c, !.ticks[u] = n, !.changed = {u}]
    OBVIOUS
  <2>6. t \in Tx /\ t.cp = c /\ t.ticks = [Newest.ticks EXCEPT ![u] = n] /\ t.changed = {u}
    <3>1. t \in Tx
      BY <1>1, <2>3, <2>5 DEF Tx
    <3>2. t.cp = c /\ t.changed = {u}
      BY <1>1, <2>5 DEF Tx
    <3>3. t.ticks = [Newest.ticks EXCEPT ![u] = n]
      BY <1>1, <2>5 DEF Tx
    <3> QED
      BY <3>1, <3>2, <3>3
  <2>7. \A x \in Ticks \ t.changed : t.ticks[x] = Newest.ticks[x]
    BY <1>1, <2>6
  <2> QED
    BY <2>1, <2>2, <2>4, <2>5, <2>6, <2>7, AppendGrows
<1>4. CASE Seal
  <2>1. tx' = tx /\ top' = top + 1 /\ top < MaxTop
    BY <1>4 DEF Seal
  <2>2. Grows
    BY <1>1, <2>1, PoolAssumption, PoolTypes DEF Grows, Checkpoints, RetainedTypeOK
  <2>3. PoolKept'
    BY <1>1, <2>1 DEF PoolKept
  <2> QED
    BY <2>2, <2>3
<1> QED
  BY <1>2, <1>3, <1>4 DEF PoolSteps

\* What includes a sealed checkpoint still includes it when the pool has grown.
LEMMA GrowsIncludes ==
  ASSUME RetainedTypeOK, Grows, NEW v, NEW c, c <= top, c \in Int, Includes(v, c)
  PROVE  Includes(v, c)'
<1> SUFFICES ASSUME NEW w \in 1..Len(tx'), tx'[w].cp <= c PROVE w <= v
  BY DEF Includes
<1>1. w \in 1..Len(tx) \/ w > Len(tx)
  BY PoolTypes
<1>2. CASE w > Len(tx)
  <2>1. tx'[w].cp > top /\ tx'[w].cp \in Nat /\ top \in Nat
    <3>1. tx' \in Seq(Tx) /\ tx'[w].cp > top
      BY <1>2 DEF Grows
    <3>2. tx'[w] \in Tx
      BY <3>1
    <3>3. tx'[w].cp \in Nat
      BY <3>2, PoolAssumption DEF Tx
    <3> QED
      BY <3>1, <3>3, PoolTypes
  <2> QED
    BY <2>1
<1>3. CASE w \in 1..Len(tx)
  BY <1>3 DEF Grows, Includes
<1> QED
  BY <1>1, <1>2, <1>3

LEMMA RetainedTypes ==
  ASSUME RetainedTypeOK
  PROVE  /\ stream.since \in Nat /\ stream.sent \in Nat /\ stream.mark \in Nat
         /\ confirmed \in Nat /\ floor \in Nat /\ accepted \in Nat /\ rejected \in Nat
         /\ pinned \in Int /\ worker.floor \in Nat /\ worker.cp \in Nat /\ Len(replay) \in Nat
         /\ top \in Nat /\ MaxTop \in Nat
         /\ retained # NoInputs => retained \in Inputs
BY PoolAssumption DEF RetainedTypeOK, Checkpoints, Versions, NoCp

LEMMA PoolKeeps == RetainedInv /\ PoolSteps => RetainedInv'
<1> SUFFICES ASSUME RetainedInv, PoolSteps PROVE RetainedInv'
  OBVIOUS
<1> USE DEF RetainedInv
<1>1. Grows /\ PoolKept'
  BY PoolGrows
<1>2. UNCHANGED <<venue, accepted, sessionVars, workerVars, retained, confirmed, floor, rejected, failures>>
  BY DEF PoolSteps
<1>3. RetainedTypeOK'
  BY <1>1, <1>2 DEF RetainedTypeOK, Grows, sessionVars, workerVars
<1>4. top <= top' /\ Len(tx) <= Len(tx)' /\ Len(tx)' \in Nat /\ top' \in Nat /\ \A v \in 1..Len(tx) : tx'[v] = tx[v]
  BY <1>1, PoolAssumption DEF Grows, Checkpoints
<1>5. StreamKept'
  <2>1. Includes(stream.sent, stream.mark)' /\ Includes(stream.sent, confirmed)'
    BY <1>1, <1>2, GrowsIncludes, RetainedTypes DEF StreamKept, sessionVars
  <2>2. stream.sent \in 1..Len(tx)' /\ tx'[stream.sent] = tx[stream.sent]
    BY <1>4, PoolTypes DEF StreamKept
  <2>3. /\ stream.since <= top' /\ stream.mark <= top' /\ confirmed <= top' /\ floor <= top' /\ pinned <= top'
    <3>1. stream.since <= top /\ stream.mark <= top /\ confirmed <= top /\ floor <= top /\ pinned <= top
      BY DEF StreamKept
    <3>2. /\ stream.since \in Int /\ stream.mark \in Int /\ confirmed \in Int /\ floor \in Int /\ pinned \in Int
          /\ top \in Int /\ top' \in Int /\ top <= top'
      BY <1>4, RetainedTypes
    <3> QED
      BY <3>1, <3>2
  <2>5. tx[stream.sent].cp <= top'
    BY <1>4, <2>2, PoolTypes DEF StreamKept
  <2>4. UNCHANGED <<stream, confirmed, floor, pinned, phase, active>>
    BY <1>2 DEF sessionVars
  <2> QED
    BY <2>1, <2>2, <2>3, <2>4, <2>5 DEF StreamKept
<1>6. InputsKept'
  <2>1. UNCHANGED <<stream, phase, active, retained, venue>>
    BY <1>2 DEF sessionVars
  <2>2. retained # NoInputs => tx'[retained.version] = tx[retained.version] /\ retained.version \in 1..Len(tx)
    <3> SUFFICES ASSUME retained # NoInputs PROVE retained.version \in 1..Len(tx)
      BY <1>4
    <3>1. retained \in Inputs /\ retained.version <= Len(tx)
      BY RetainedTypes DEF InputsKept, Based
    <3> QED
      BY <3>1, InputsTypes, PoolTypes
  <2>3. retained # NoInputs => Based(retained)'
    <3> SUFFICES ASSUME retained # NoInputs PROVE Based(retained)'
      OBVIOUS
    <3>1. Based(retained) /\ retained \in Inputs
      BY RetainedTypes DEF InputsKept
    <3>2. Includes(retained.version, retained.baseline)'
      BY <1>1, <2>1, <3>1, GrowsIncludes, InputsTypes DEF Based
    <3>3. retained.version <= Len(tx)' /\ retained.baseline <= top' /\ retained.position <= top'
      BY <1>4, <3>1, InputsTypes, PoolTypes DEF Based
    <3> QED
      BY <2>1, <2>2, <3>1, <3>2, <3>3 DEF Based
  <2>4. Anchored' = Anchored
    BY <2>1 DEF Anchored
  <2>5. Anchored => Exact(retained)'
    BY <2>1, <2>2 DEF InputsKept, Anchored, Exact, Bitmap
  <2>6. Live' = Live /\ Abreast' = Abreast
    BY <1>4, <2>1 DEF Live, Abreast, StreamKept
  <2> QED
    BY <2>1, <2>3, <2>4, <2>5, <2>6 DEF InputsKept
<1>7. CaptureKept'
  <2>1. UNCHANGED <<stream, phase, worker, replay, overflow>>
    BY <1>2 DEF sessionVars, workerVars
  <2>2. worker.floor <= top' /\ worker.cp <= top'
    <3>1. worker.floor \in Nat /\ worker.cp \in Nat /\ top \in Nat
      BY RetainedTypes
    <3>2. worker.floor <= top /\ worker.cp <= top
      BY DEF CaptureKept
    <3>3. top \in Nat /\ top' \in Nat /\ top <= top'
      BY <1>4, <3>1
    <3> QED
      BY ONLY <3>1, <3>2, <3>3
  <2>3. ASSUME phase = "run", worker.pc # "idle", ~overflow
        PROVE  LET start == stream.sent - Len(replay)
               IN start \in 1..Len(tx)' /\ start \in 1..Len(tx) /\ tx'[start] = tx[start]
    BY <1>4, <2>3, PoolTypes DEF CaptureKept
  <2> QED
    BY <2>1, <2>2, <2>3 DEF CaptureKept
<1>8. RecoveryKept'
  BY <1>2 DEF RecoveryKept, Live, Bitmap, sessionVars
<1> QED
  BY <1>1, <1>3, <1>5, <1>6, <1>7, <1>8

---------------------------------------------------------------------------
\* What a step leaves alone

LEMMA PoolRests ==
  ASSUME UNCHANGED poolVars
  PROVE  /\ PoolKept => PoolKept'
         /\ tx' = tx /\ top' = top
         /\ \A v, c : Includes(v, c)' = Includes(v, c)
BY DEF poolVars, PoolKept, Includes

LEMMA InputsRest ==
  ASSUME InputsKept, UNCHANGED <<poolVars, venue, retained, stream>>,
         Live' => Live, phase' \in {"activate", "run"} => phase \in {"activate", "run"}
  PROVE  InputsKept'
BY DEF InputsKept, Based, Exact, Includes, Anchored, Abreast, Bitmap, poolVars

LEMMA InputsGone ==
  ASSUME retained' = NoInputs, phase' \notin {"activate", "run"}
  PROVE  InputsKept'
BY DEF InputsKept

LEMMA StreamRests ==
  ASSUME StreamKept, UNCHANGED <<poolVars, stream, confirmed, floor, pinned, phase, active>>
  PROVE  StreamKept'
BY DEF StreamKept, Includes, poolVars

LEMMA CaptureIdle ==
  ASSUME UNCHANGED poolVars, worker' = NoWorker, top \in Nat
  PROVE  CaptureKept'
BY DEF CaptureKept, poolVars, NoWorker

LEMMA RecoveryRests ==
  ASSUME RecoveryKept, UNCHANGED <<venue, accepted, floor, rejected, retained>>, Live' => Live
  PROVE  RecoveryKept'
BY DEF RecoveryKept, Bitmap

---------------------------------------------------------------------------
\* The session

LEMMA RunStartKeeps == RetainedInv /\ RunStart => RetainedInv'
<1> SUFFICES ASSUME RetainedInv, RunStart PROVE RetainedInv'
  OBVIOUS
<1> USE DEF RetainedInv
<1>1. /\ UNCHANGED <<poolVars, venue, accepted, stream, pinned, floor, rejected, failures>>
      /\ phase' = "subscribe" /\ active' = FALSE /\ confirmed' = 0 /\ worker' = NoWorker /\ replay' = <<>>
      /\ overflow' = FALSE /\ waiting' = FALSE /\ retained' \in {NoInputs, retained} /\ ~Live'
  BY DEF RunStart, steady, Live
<1>2. RetainedTypeOK'
  <2>1. 0 \in Checkpoints /\ 0 <= ReplayLimit
    BY PoolAssumption, RetainedAssumption DEF Checkpoints
  <2>2. worker' \in [pc: {"idle", "start", "warm", "done", "failed"}, floor: Checkpoints, cp: Checkpoints]
    BY <1>1, <2>1 DEF NoWorker
  <2>3. replay' \in Seq(Versions) /\ Len(replay') <= ReplayLimit
    BY <1>1, <2>1
  <2> QED
    BY <1>1, <2>1, <2>2, <2>3 DEF RetainedTypeOK, poolVars
<1>3. PoolKept'
  BY <1>1, PoolRests
<1>4. StreamKept'
  <2>1. Includes(stream.sent, 0)
    <3>1. Includes(stream.sent, stream.mark) /\ stream.mark \in Nat /\ stream.sent \in Nat
      BY RetainedTypes DEF StreamKept
    <3> QED
      BY <3>1, PoolTypes DEF Includes
  <2> QED
    BY <1>1, <2>1, RetainedTypes DEF StreamKept, poolVars, Includes
<1>5. InputsKept'
  BY <1>1, InputsRest, InputsGone
<1>6. CaptureKept'
  BY <1>1, CaptureIdle, RetainedTypes
<1>7. RecoveryKept'
  BY <1>1, RecoveryRests DEF RecoveryKept, Bitmap
<1> QED
  BY <1>2, <1>3, <1>4, <1>5, <1>6, <1>7

LEMMA SubscribeKeeps == RetainedInv /\ Subscribe => RetainedInv'
<1> SUFFICES ASSUME RetainedInv, Subscribe PROVE RetainedInv'
  OBVIOUS
<1> USE DEF RetainedInv
<1>1. /\ UNCHANGED <<poolVars, venue, accepted, active, pinned, workerVars, retained, confirmed, floor, rejected, failures>>
      /\ phase = "subscribe" /\ phase' = "warm" /\ stream' = [since |-> top, sent |-> VersionAt(top), mark |-> 0]
      /\ ~active
  BY DEF Subscribe, steady, StreamKept
<1>2. top \in Nat /\ VersionAt(top) \in 1..Len(tx) /\ tx[VersionAt(top)].cp <= top /\ Includes(VersionAt(top), top)
  BY RetainedTypes, VersionAtIs
<1>3. RetainedTypeOK'
  <2>1. stream' \in [since: Checkpoints, sent: Versions, mark: Checkpoints]
    <3>1. top \in Checkpoints /\ 0 \in Checkpoints
      BY PoolAssumption DEF RetainedTypeOK, Checkpoints
    <3>2. VersionAt(top) \in Versions
      BY <1>2, PoolTypes, PoolAssumption DEF Versions
    <3> QED
      BY <1>1, <3>1, <3>2
  <2> QED
    BY <1>1, <2>1 DEF RetainedTypeOK, poolVars, workerVars
<1>4. PoolKept'
  BY <1>1, PoolRests
<1>5. StreamKept'
  <2>1. Includes(VersionAt(top), 0) /\ Includes(VersionAt(top), confirmed)
    BY <1>2, RetainedTypes, IncludesMore DEF StreamKept
  <2>2. /\ stream'.since = top /\ stream'.sent = VersionAt(top) /\ stream'.mark = 0 /\ tx' = tx /\ top' = top
    BY <1>1 DEF poolVars
  <2>3. Includes(stream.sent, stream.mark)' /\ Includes(stream.sent, confirmed)'
    BY <1>1, <2>1, <2>2 DEF Includes
  <2> QED
    BY <1>1, <1>2, <2>2, <2>3 DEF StreamKept
<1>6. InputsKept'
  <2>1. retained # NoInputs => (Anchored' => Anchored)
    BY <1>1, RetainedTypes, InputsTypes DEF Anchored, InputsKept, StreamKept, Based
  <2>2. ~Live'
    BY <1>1 DEF Live
  <2>3. tx' = tx /\ top' = top /\ retained' = retained /\ venue' = venue /\ phase' = "warm"
    BY <1>1 DEF poolVars
  <2>4. Anchored' => retained # NoInputs
    BY <2>3 DEF Anchored
  <2>5. retained # NoInputs => Based(retained)' /\ (Anchored' => Exact(retained)')
    BY <2>1, <2>3 DEF InputsKept, Based, Exact, Includes, Bitmap
  <2> QED
    BY <2>2, <2>3, <2>5 DEF InputsKept
<1>7. CaptureKept'
  BY <1>1 DEF CaptureKept, poolVars, workerVars
<1>8. RecoveryKept'
  BY <1>1, RecoveryRests DEF Live
<1> QED
  BY <1>3, <1>4, <1>5, <1>6, <1>7, <1>8

LEMMA QuoteCheckpointIs ==
  ASSUME RetainedTypeOK, NEW fl \in Nat, fl <= top, NEW c, QuoteCheckpoint(fl, c)
  PROVE  c \in Checkpoints /\ c \in Nat /\ c <= top /\ c >= fl
BY PoolAssumption DEF RetainedTypeOK, QuoteCheckpoint, Larger, Checkpoints

LEMMA WarmHeadKeeps == RetainedInv /\ WarmHead => RetainedInv'
<1> SUFFICES ASSUME RetainedInv, WarmHead PROVE RetainedInv'
  OBVIOUS
<1> USE DEF RetainedInv
<1>1. /\ UNCHANGED <<poolVars, venue, accepted, phase, active, stream, workerVars, retained, confirmed, floor, rejected, failures>>
      /\ QuoteCheckpoint(floor, pinned')
  BY DEF WarmHead, steady
<1>2. pinned' \in Checkpoints /\ pinned' <= top
  BY <1>1, QuoteCheckpointIs, RetainedTypes DEF StreamKept
<1>3. RetainedTypeOK'
  BY <1>1, <1>2 DEF RetainedTypeOK, poolVars, workerVars
<1>4. StreamKept'
  BY <1>1, <1>2 DEF StreamKept, Includes, poolVars
<1>5. Live' = Live
  BY <1>1 DEF Live
<1>6. UNCHANGED <<worker, replay, overflow>> /\ phase' = phase
  BY <1>1 DEF workerVars
<1>7. PoolKept'
  BY <1>1, PoolRests
<1>8. InputsKept'
  BY <1>1, <1>5, InputsRest
<1>9. CaptureKept'
  BY <1>1, <1>6 DEF CaptureKept, poolVars
<1>10. RecoveryKept'
  BY <1>1, <1>5, RecoveryRests
<1> QED
  BY <1>3, <1>4, <1>7, <1>8, <1>9, <1>10

LEMMA WarmCommitKeeps == RetainedInv /\ WarmCommit => RetainedInv'
<1> SUFFICES ASSUME RetainedInv, WarmCommit PROVE RetainedInv'
  OBVIOUS
<1> USE DEF RetainedInv
<1>1. /\ UNCHANGED <<poolVars, venue, active, stream, workerVars, confirmed, floor, rejected, failures>>
      /\ phase = "warm" /\ pinned # NoCp /\ pinned' = NoCp /\ ~active /\ worker.pc = "idle"
  BY DEF WarmCommit, StreamKept, CaptureKept
<1>2. UNCHANGED <<worker, replay, overflow>>
  BY <1>1 DEF workerVars
<1>3. pinned \in Checkpoints /\ pinned \in 0..top
  BY <1>1, PoolAssumption DEF RetainedTypeOK, StreamKept, Checkpoints
<1>4. PoolKept'
  BY <1>1, PoolRests
<1>5. CaptureKept'
  BY <1>1, <1>2 DEF CaptureKept, poolVars
<1>6. CASE WarmRefused
  <2>1. phase' = "closing" /\ UNCHANGED <<retained, accepted>> /\ ~Live'
    BY <1>1, <1>6 DEF WarmCommit, Live
  <2>2. RetainedTypeOK'
    BY <1>1, <1>2, <2>1 DEF RetainedTypeOK, poolVars, workerVars
  <2>3. StreamKept'
    BY <1>1, <2>1, RetainedTypes DEF StreamKept, Includes, poolVars, NoCp
  <2>4. InputsKept' /\ RecoveryKept'
    BY <1>1, <2>1, InputsRest, RecoveryRests
  <2> QED
    BY <1>4, <1>5, <2>2, <2>3, <2>4
<1>7. CASE ~WarmRefused
  <2>1. /\ phase' = "activate" /\ retained' = At(pinned) /\ accepted' = IF Bitmap THEN pinned ELSE accepted
        /\ pinned >= floor /\ pinned >= accepted
    BY <1>1, <1>3, <1>7, RetainedTypes DEF WarmCommit, WarmRefused
  <2>2. /\ At(pinned) \in Inputs /\ Based(At(pinned)) /\ Exact(At(pinned)) /\ At(pinned).baseline = pinned
        /\ \A v \in 1..Len(tx) : tx[v].cp <= pinned => v <= At(pinned).version
    BY <1>3, AtIs
  <2>3. tx' = tx /\ top' = top /\ retained' \in Inputs /\ retained' # NoInputs /\ venue' = venue /\ stream' = stream
    BY <1>1, <2>1, <2>2, SomeInputs DEF poolVars
  <2>4. RetainedTypeOK'
    BY <1>1, <1>2, <1>3, <2>1, <2>3 DEF RetainedTypeOK, poolVars, workerVars
  <2>5. StreamKept'
    BY <1>1, <2>1, RetainedTypes DEF StreamKept, Includes, poolVars, NoCp
  <2>6. InputsKept'
    <3>1. Based(retained)' /\ Exact(retained)'
      BY <2>1, <2>2, <2>3 DEF Based, Exact, Includes, Bitmap
    <3>2. Abreast'
      BY <1>1, <2>3 DEF Abreast, StreamKept
    <3> QED
      BY <2>3, <3>1, <3>2 DEF InputsKept
  <2>7. RecoveryKept'
    BY <1>1, <1>3, <2>1, <2>2, <2>3, RetainedTypes DEF RecoveryKept, Bitmap
  <2> QED
    BY <1>4, <1>5, <2>4, <2>5, <2>6, <2>7
<1> QED
  BY <1>6, <1>7

LEMMA ActivateKeeps == RetainedInv /\ Activate => RetainedInv'
<1> SUFFICES ASSUME RetainedInv, Activate PROVE RetainedInv'
  OBVIOUS
<1> USE DEF RetainedInv
<1>1. /\ UNCHANGED <<poolVars, venue, accepted, stream, pinned, workerVars, retained, confirmed, floor, rejected, failures>>
      /\ phase = "activate" /\ phase' = "run" /\ active' = TRUE /\ worker.pc = "idle" /\ Live
  BY DEF Activate, steady, CaptureKept, Live
<1>2. UNCHANGED <<worker, replay, overflow>>
  BY <1>1 DEF workerVars
<1>3. RetainedTypeOK'
  BY <1>1, <1>2 DEF RetainedTypeOK, poolVars, workerVars
<1>4. PoolKept'
  BY <1>1, PoolRests
<1>5. StreamKept'
  BY <1>1 DEF StreamKept, Includes, poolVars
<1>6. InputsKept'
  BY <1>1, InputsRest
<1>7. CaptureKept'
  BY <1>1, <1>2 DEF CaptureKept, poolVars
<1>8. RecoveryKept'
  BY <1>1, RecoveryRests
<1> QED
  BY <1>3, <1>4, <1>5, <1>6, <1>7, <1>8

LEMMA SessionFailsKeeps == RetainedInv /\ SessionFails => RetainedInv'
<1> SUFFICES ASSUME RetainedInv, SessionFails PROVE RetainedInv'
  OBVIOUS
<1> USE DEF RetainedInv
<1>1. /\ UNCHANGED <<poolVars, venue, accepted, active, stream, workerVars, retained, confirmed, floor, rejected>>
      /\ phase \in {"subscribe", "warm", "run"} /\ phase' = "closing" /\ pinned' = NoCp
      /\ failures < MaxFailures /\ failures' = failures + 1 /\ Live' = Live
  BY DEF SessionFails, steady, Live
<1>2. UNCHANGED <<worker, replay, overflow>> /\ (worker.pc # "idle" => phase = "run")
  BY <1>1 DEF workerVars, CaptureKept
<1>3. RetainedTypeOK'
  <2>1. failures' \in 0..MaxFailures
    BY <1>1, RetainedAssumption DEF RetainedTypeOK
  <2> QED
    BY <1>1, <1>2, <2>1 DEF RetainedTypeOK, poolVars, workerVars
<1>4. PoolKept'
  BY <1>1, PoolRests
<1>5. StreamKept'
  BY <1>1, RetainedTypes DEF StreamKept, Includes, poolVars, NoCp
<1>6. InputsKept' /\ RecoveryKept'
  BY <1>1, InputsRest, RecoveryRests
<1>7. CaptureKept'
  BY <1>1, <1>2 DEF CaptureKept, poolVars
<1> QED
  BY <1>3, <1>4, <1>5, <1>6, <1>7

LEMMA ExitKeeps == RetainedInv /\ Exit => RetainedInv'
<1> SUFFICES ASSUME RetainedInv, Exit PROVE RetainedInv'
  OBVIOUS
<1> USE DEF RetainedInv
<1>1. /\ UNCHANGED <<poolVars, venue, accepted, stream, pinned, replay, overflow, waiting, confirmed, floor, rejected, failures>>
      /\ phase' = "off" /\ active' = FALSE /\ worker' = NoWorker /\ retained' \in {NoInputs, retained} /\ ~Live'
  BY DEF Exit, steady, Live
<1>2. RetainedTypeOK'
  <2>1. 0 \in Checkpoints
    BY PoolAssumption DEF Checkpoints
  <2>2. worker' \in [pc: {"idle", "start", "warm", "done", "failed"}, floor: Checkpoints, cp: Checkpoints]
    BY <1>1, <2>1 DEF NoWorker
  <2> QED
    BY <1>1, <2>2 DEF RetainedTypeOK, poolVars
<1>3. PoolKept'
  BY <1>1, PoolRests
<1>4. StreamKept'
  BY <1>1 DEF StreamKept, Includes, poolVars
<1>5. InputsKept'
  BY <1>1, InputsRest, InputsGone
<1>6. CaptureKept'
  BY <1>1, CaptureIdle, RetainedTypes
<1>7. RecoveryKept'
  BY <1>1, RecoveryRests DEF RecoveryKept, Bitmap
<1> QED
  BY <1>2, <1>3, <1>4, <1>5, <1>6, <1>7

LEMMA ObserveCheckpointKeeps == RetainedInv /\ ObserveCheckpoint => RetainedInv'
<1> SUFFICES ASSUME RetainedInv, ObserveCheckpoint PROVE RetainedInv'
  OBVIOUS
<1> USE DEF RetainedInv
<1>1. /\ UNCHANGED <<poolVars, venue, accepted, sessionVars, workerVars, retained, confirmed, rejected, failures>>
      /\ floor < top /\ floor' = top
  BY DEF ObserveCheckpoint, steady
<1>2. UNCHANGED <<phase, active, stream, pinned, worker, replay, overflow>> /\ Live' = Live
  BY <1>1 DEF sessionVars, workerVars, Live
<1>3. RetainedTypeOK'
  BY <1>1, <1>2 DEF RetainedTypeOK, poolVars, workerVars
<1>4. PoolKept'
  BY <1>1, PoolRests
<1>5. StreamKept'
  BY <1>1, <1>2, RetainedTypes DEF StreamKept, Includes, poolVars
<1>6. InputsKept'
  BY <1>1, <1>2, InputsRest
<1>7. CaptureKept'
  BY <1>1, <1>2 DEF CaptureKept, poolVars
<1>8. RecoveryKept'
  BY <1>1, <1>2, RetainedTypes DEF RecoveryKept, Bitmap
<1> QED
  BY <1>3, <1>4, <1>5, <1>6, <1>7, <1>8

---------------------------------------------------------------------------
\* The stream

\* The transaction to be delivered next, and what a watermark with it can be.
LEMMA NextDelivered ==
  ASSUME RetainedInv, Undelivered, NEW m \in {stream.mark, Covered(stream.sent + 1)}
  PROVE  LET v == stream.sent + 1
         IN /\ v \in 2..Len(tx) /\ v \in 1..Len(tx) /\ v \in Versions /\ tx[v].cp <= top
            /\ tx[v].cp \in Checkpoints /\ tx[v].cp \in Nat
            /\ m \in Checkpoints /\ m \in Nat /\ m <= top /\ Includes(v, m) /\ Includes(v, confirmed)
<1> USE DEF RetainedInv
<1> DEFINE v == stream.sent + 1
<1>1. v \in 2..Len(tx) /\ v \in 1..Len(tx) /\ tx[v].cp <= top /\ v \in Nat /\ stream.sent <= v
  <2>1. stream.sent < Len(tx) /\ tx[v].cp <= top /\ stream.sent \in 1..Len(tx)
    BY DEF Undelivered, StreamKept
  <2> QED
    BY <2>1, PoolTypes
<1>2. v \in Versions /\ tx[v].cp \in Checkpoints /\ tx[v].cp \in Nat
  BY <1>1, PoolTypes, PoolAssumption DEF Versions, Checkpoints, RetainedTypeOK
<1>3. Includes(v, stream.mark) /\ Includes(v, confirmed)
  <2>1. Includes(stream.sent, stream.mark) /\ Includes(stream.sent, confirmed)
    BY DEF StreamKept
  <2> HIDE DEF v
  <2> QED
    BY <1>1, <2>1, RetainedTypes, IncludesMore
<1>4. Covered(v) \in 0..top /\ Includes(v, Covered(v))
  BY <1>1, CoveredIs
<1>5. m \in 0..top /\ Includes(v, m)
  BY <1>3, <1>4, RetainedTypes DEF StreamKept
<1>6. m \in Checkpoints
  BY <1>5, PoolAssumption DEF Checkpoints, RetainedTypeOK
<1> QED
  BY <1>1, <1>2, <1>3, <1>5, <1>6, RetainedTypes

\* The stream after a delivery.
LEMMA DeliveredKeeps ==
  ASSUME RetainedInv, UNCHANGED <<poolVars, active, pinned>>, NEW v \in 1..Len(tx), tx[v].cp <= top,
         NEW m \in Nat, m <= top, Includes(v, m), stream' = [stream EXCEPT !.sent = v, !.mark = m],
         phase = "run", phase' \in {"run", "closing"}, floor' <= top,
         confirmed' \in {confirmed, m}, Includes(v, confirmed)
  PROVE  StreamKept'
<1> USE DEF RetainedInv
<1>1. stream'.since = stream.since /\ stream'.sent = v /\ stream'.mark = m
  BY DEF RetainedTypeOK
<1>2. tx' = tx /\ top' = top
  BY DEF poolVars
<1>3. Includes(stream.sent, stream.mark)' /\ Includes(stream.sent, confirmed)'
  BY <1>1, <1>2 DEF Includes
<1> QED
  BY <1>1, <1>2, <1>3 DEF StreamKept

\* The types after a refusal and that it withdraws what does not include its checkpoint.
LEMMA RefusedKeeps ==
  ASSUME RetainedInv, phase = "run", NEW c \in Checkpoints, c <= top, Refused(c),
         UNCHANGED <<venue, accepted>>
  PROVE  /\ floor' \in Checkpoints /\ floor' <= top /\ rejected' \in Checkpoints
         /\ InputsKept' /\ RecoveryKept'
<1> USE DEF RetainedInv
<1>1. /\ floor' = Larger(floor, c) /\ rejected' = Larger(rejected, c)
      /\ retained' = NoInputs /\ phase' = "closing"
  BY DEF Refused
<1>2. c \in Nat /\ floor <= top
  BY PoolAssumption DEF Checkpoints, StreamKept
<1>3. /\ floor' \in Checkpoints /\ rejected' \in Checkpoints /\ floor' <= top /\ floor' >= rejected'
  BY <1>1, <1>2, RetainedTypes DEF Larger, RetainedTypeOK, RecoveryKept
<1>4. InputsKept'
  BY <1>1, InputsGone
<1>5. RecoveryKept'
  BY <1>1, <1>3 DEF RecoveryKept, Bitmap
<1> QED
  BY <1>3, <1>4, <1>5

\* Live inputs that do not precede the stream include all that was delivered.
LEMMA LiveAbreast ==
  ASSUME RetainedInv, Live, Anchored
  PROVE  retained.version >= stream.sent
<1> USE DEF RetainedInv
<1>1. retained # NoInputs /\ retained \in Inputs /\ Abreast /\ retained.baseline >= stream.since
  BY RetainedTypes DEF Anchored, InputsKept
<1>2. CASE tx[stream.sent].cp <= stream.since
  <2>1. stream.sent \in 1..Len(tx) /\ tx[stream.sent].cp \in Nat
    BY PoolTypes DEF StreamKept
  <2>2. tx[stream.sent].cp <= retained.baseline
    <3>1. retained.baseline \in Nat /\ stream.since \in Nat
      BY <1>1, InputsTypes, RetainedTypes
    <3> QED
      BY <1>1, <1>2, <2>1, <3>1
  <2>3. stream.sent <= retained.version
    BY <1>1, <2>1, <2>2 DEF InputsKept, Based, Includes
  <2> QED
    BY <1>1, <2>3, InputsTypes, RetainedTypes
<1> QED
  BY <1>1, <1>2 DEF Abreast

\* A replay goes on where it began.
LEMMA ReplayKeeps ==
  ASSUME RetainedInv, UNCHANGED <<poolVars, worker, phase>>, phase = "run", NEW v \in Versions, v = stream.sent + 1,
         v <= Len(tx), stream'.sent = v, stream'.since = stream.since, Replay(v)
  PROVE  /\ overflow' \in BOOLEAN /\ replay' \in Seq(Versions) /\ Len(replay') <= ReplayLimit
         /\ CaptureKept'
<1> USE DEF RetainedInv
<1>1. /\ replay \in Seq(Versions) /\ Len(replay) \in Nat /\ Len(replay) <= ReplayLimit /\ ReplayLimit \in Nat
      /\ overflow \in BOOLEAN /\ stream.sent \in Nat
  BY RetainedAssumption, RetainedTypes DEF RetainedTypeOK
<1>2. tx' = tx /\ top' = top /\ worker' = worker /\ phase' = "run"
  BY DEF poolVars
<1>3. CASE worker.pc = "idle" \/ overflow
  <2>1. replay' = replay /\ overflow' = overflow
    BY <1>1, <1>3 DEF Replay
  <2> QED
    BY <1>1, <1>2, <1>3, <2>1 DEF CaptureKept
<1>4. CASE ~(worker.pc = "idle" \/ overflow) /\ Len(replay) >= ReplayLimit
  <2>1. replay' = <<>> /\ overflow' = TRUE
    BY <1>1, <1>4 DEF Replay
  <2> QED
    BY <1>1, <1>2, <2>1 DEF CaptureKept
<1>5. CASE ~(worker.pc = "idle" \/ overflow) /\ ~(Len(replay) >= ReplayLimit)
  <2>1. replay' = Append(replay, v) /\ overflow' = overflow
    BY <1>1, <1>5 DEF Replay
  <2>2. /\ replay' \in Seq(Versions) /\ Len(replay') = Len(replay) + 1
        /\ replay'[Len(replay) + 1] = v /\ \A i \in 1..Len(replay) : replay'[i] = replay[i]
    BY <1>1, <2>1
  <2> DEFINE start == stream.sent - Len(replay)
  <2>3. stream'.sent - Len(replay') = start
    BY <1>1, <2>2
  <2>4. /\ start \in 1..Len(tx) /\ \A i \in 1..Len(replay) : replay[i] = start + i
        /\ worker.pc = "warm" => tx[start].cp <= Larger(worker.floor, stream.since)
        /\ worker.pc = "done" => tx[start].cp <= Larger(worker.cp, stream.since)
    BY <1>5 DEF CaptureKept
  <2>5. v = start + (Len(replay) + 1)
    BY <1>1
  <2>6. ASSUME NEW i \in 1..Len(replay') PROVE replay'[i] = start + i
    <3>1. i \in 1..Len(replay) \/ i = Len(replay) + 1
      BY <1>1, <2>2
    <3> HIDE DEF start
    <3> QED
      BY <2>2, <2>4, <2>5, <3>1
  <2> HIDE DEF start
  <2>7. CaptureKept'
    BY <1>2, <2>3, <2>4, <2>6 DEF CaptureKept
  <2> QED
    BY <1>1, <1>5, <2>1, <2>2, <2>7
<1> QED
  BY <1>3, <1>4, <1>5

LEMMA ReceiveTxKeeps == RetainedInv /\ ReceiveTx => RetainedInv'
<1> SUFFICES ASSUME RetainedInv, ReceiveTx PROVE RetainedInv'
  OBVIOUS
<1> DEFINE v == stream.sent + 1
           next == ApplyTx(retained, v)
<1>1. PICK m \in {stream.mark, Covered(v)} :
         /\ stream' = [stream EXCEPT !.sent = v, !.mark = m]
         /\ IF next = NoInputs THEN Refused(tx[v].cp)
            ELSE /\ retained' = next /\ confirmed' = Progress(next, m)
                 /\ Replay(v) /\ UNCHANGED <<phase, floor, rejected>>
  BY DEF ReceiveTx
<1>2. /\ UNCHANGED <<poolVars, venue, accepted, active, pinned, worker, waiting, failures>>
      /\ phase = "run" /\ Undelivered /\ active /\ Live
  BY DEF ReceiveTx, steady, Live, RetainedInv, StreamKept
<1>3. /\ v \in 2..Len(tx) /\ v \in 1..Len(tx) /\ v \in Versions /\ tx[v].cp <= top
      /\ tx[v].cp \in Checkpoints /\ tx[v].cp \in Nat
      /\ m \in Checkpoints /\ m \in Nat /\ m <= top /\ Includes(v, m) /\ Includes(v, confirmed)
  BY <1>2, NextDelivered
<1>4. PoolKept'
  BY <1>2, PoolRests DEF RetainedInv
<1>5. stream' \in [since: Checkpoints, sent: Versions, mark: Checkpoints] /\ stream'.sent = v /\ stream'.since = stream.since
  BY <1>1, <1>3 DEF RetainedInv, RetainedTypeOK
<1>6. retained # NoInputs /\ retained \in Inputs /\ Based(retained)
  BY <1>2, RetainedTypes DEF RetainedInv, InputsKept
<1> HIDE DEF v
<1>7. CASE next = NoInputs
  <2>1. Refused(tx[v].cp) /\ phase' = "closing" /\ retained' = NoInputs /\ UNCHANGED <<confirmed, replay, overflow>>
    BY <1>1, <1>7 DEF Refused
  <2>2. floor' \in Checkpoints /\ floor' <= top /\ rejected' \in Checkpoints /\ InputsKept' /\ RecoveryKept'
    BY <1>2, <1>3, <2>1, RefusedKeeps
  <2>3. RetainedTypeOK'
    BY <1>2, <1>5, <2>1, <2>2 DEF RetainedInv, RetainedTypeOK, poolVars
  <2>4. StreamKept'
    BY <1>1, <1>2, <1>3, <2>1, <2>2, DeliveredKeeps
  <2>5. CaptureKept'
    BY <1>2, <2>1 DEF RetainedInv, CaptureKept, poolVars
  <2> QED
    BY <1>4, <2>2, <2>3, <2>4, <2>5 DEF RetainedInv
<1>8. CASE next # NoInputs
  <2>1. /\ retained' = next /\ confirmed' = Progress(next, m) /\ Replay(v)
        /\ UNCHANGED <<phase, floor, rejected>> /\ tx' = tx /\ top' = top
    BY <1>1, <1>2, <1>8 DEF poolVars
  <2>2. Applied(retained, v, next)
    BY <1>3, <1>6, <1>8, ApplyTxIs DEF RetainedInv
  <2> HIDE DEF next
  <2>3. /\ next \in Inputs /\ next # NoInputs /\ Based(next) /\ next.baseline = retained.baseline
        /\ next.version >= v
    BY <2>2, SomeInputs DEF Applied
  <2>4. confirmed' \in {confirmed, m}
    BY <2>1 DEF Progress
  <2>5. /\ overflow' \in BOOLEAN /\ replay' \in Seq(Versions) /\ Len(replay') <= ReplayLimit
        /\ CaptureKept'
    <3>1. UNCHANGED <<poolVars, worker, phase>>
      BY <1>2, <2>1
    <3>2. v = stream.sent + 1 /\ v <= Len(tx)
      BY <1>3 DEF v
    <3> QED
      BY <1>2, <1>3, <1>5, <2>1, <3>1, <3>2, ReplayKeeps
  <2>6. RetainedTypeOK'
    BY <1>2, <1>3, <1>5, <2>1, <2>3, <2>4, <2>5 DEF RetainedInv, RetainedTypeOK, poolVars
  <2>7. StreamKept'
    <3>1. floor' <= top
      BY <2>1 DEF RetainedInv, StreamKept
    <3> QED
      BY <1>1, <1>2, <1>3, <2>1, <2>4, <3>1, DeliveredKeeps
  <2>8. InputsKept'
    <3>1. Based(retained)'
      BY <2>1, <2>3 DEF Based, Includes
    <3>2. Anchored' => Exact(next)
      <4> SUFFICES ASSUME Anchored' PROVE Exact(next)
        OBVIOUS
      <4>1. Anchored
        BY <1>5, <1>6, <2>1, <2>3 DEF Anchored
      <4>2. retained.version >= stream.sent
        BY <1>2, <4>1, LiveAbreast
      <4>3. v <= retained.version + 1
        BY <1>6, <4>2, InputsTypes, RetainedTypes DEF RetainedInv, v
      <4> QED
        BY <1>6, <2>2, <4>1, <4>3 DEF Applied, RetainedInv, InputsKept
    <3>3. Exact(next) => Exact(retained)'
      BY <1>2, <2>1 DEF Exact, Bitmap
    <3>4. Abreast'
      BY <1>5, <2>1, <2>3 DEF Abreast
    <3> QED
      BY <2>1, <2>3, <3>1, <3>2, <3>3, <3>4 DEF InputsKept
  <2>9. RecoveryKept'
    BY <1>2, <1>6, <2>1, <2>3 DEF RetainedInv, RecoveryKept, Bitmap
  <2> QED
    BY <1>4, <2>5, <2>6, <2>7, <2>8, <2>9 DEF RetainedInv
<1> QED
  BY <1>7, <1>8

LEMMA ReceiveGarbledKeeps == RetainedInv /\ ReceiveGarbled => RetainedInv'
<1> SUFFICES ASSUME RetainedInv, ReceiveGarbled PROVE RetainedInv'
  OBVIOUS
<1> DEFINE c == tx[stream.sent + 1].cp
<1>1. /\ UNCHANGED <<poolVars, venue, accepted, active, stream, pinned, worker, waiting>>
      /\ phase = "run" /\ Undelivered /\ active /\ Refused(c)
      /\ failures < MaxFailures /\ failures' = failures + 1
  BY DEF ReceiveGarbled, steady, RetainedInv, StreamKept
<1>2. c \in Checkpoints /\ c <= top
  BY <1>1, NextDelivered
<1> HIDE DEF c
<1>3. phase' = "closing" /\ retained' = NoInputs /\ UNCHANGED <<confirmed, replay, overflow>>
  BY <1>1 DEF Refused
<1>4. floor' \in Checkpoints /\ floor' <= top /\ rejected' \in Checkpoints /\ InputsKept' /\ RecoveryKept'
  BY <1>1, <1>2, RefusedKeeps
<1>5. RetainedTypeOK'
  <2>1. failures' \in 0..MaxFailures
    BY <1>1, RetainedAssumption DEF RetainedInv, RetainedTypeOK
  <2> QED
    BY <1>1, <1>3, <1>4, <2>1 DEF RetainedInv, RetainedTypeOK, poolVars
<1>6. PoolKept'
  BY <1>1, PoolRests DEF RetainedInv
<1>7. StreamKept'
  BY <1>1, <1>3, <1>4 DEF RetainedInv, StreamKept, Includes, poolVars
<1>8. CaptureKept'
  BY <1>1, <1>3 DEF RetainedInv, CaptureKept, poolVars
<1> QED
  BY <1>4, <1>5, <1>6, <1>7, <1>8 DEF RetainedInv

LEMMA ReceiveProgressKeeps == RetainedInv /\ ReceiveProgress => RetainedInv'
<1> SUFFICES ASSUME RetainedInv, ReceiveProgress PROVE RetainedInv'
  OBVIOUS
<1>1. PICK m \in Checkpoints :
         /\ m <= Covered(stream.sent) /\ stream' = [stream EXCEPT !.mark = m] /\ confirmed' = Progress(retained, m)
  BY DEF ReceiveProgress
<1>2. /\ UNCHANGED <<poolVars, venue, accepted, phase, active, pinned, workerVars, retained, floor, rejected, failures>>
      /\ phase = "run" /\ stream.sent \in 1..Len(tx) /\ tx[stream.sent].cp <= top /\ Live' = Live
  BY DEF ReceiveProgress, steady, RetainedInv, StreamKept, Live
<1>3. m \in Nat /\ m <= top /\ Includes(stream.sent, m)
  <2>1. Covered(stream.sent) \in 0..top /\ Includes(stream.sent, Covered(stream.sent))
    BY <1>2, CoveredIs DEF RetainedInv
  <2>2. m \in Nat /\ Covered(stream.sent) \in Nat /\ m <= top
    BY <1>1, <2>1, PoolAssumption, RetainedTypes DEF Checkpoints, RetainedInv
  <2>3. Includes(stream.sent, m)
    BY <1>1, <2>1, <2>2, PoolTypes DEF RetainedInv, Includes
  <2> QED
    BY <2>2, <2>3
<1>4. stream'.since = stream.since /\ stream'.sent = stream.sent /\ stream'.mark = m
  BY <1>1 DEF RetainedInv, RetainedTypeOK
<1>5. confirmed' \in {confirmed, m}
  BY <1>1 DEF Progress
<1>6. UNCHANGED <<worker, replay, overflow, waiting>> /\ tx' = tx /\ top' = top
  BY <1>2 DEF workerVars, poolVars
<1>7. RetainedTypeOK'
  BY <1>1, <1>2, <1>5, <1>6 DEF RetainedInv, RetainedTypeOK
<1>8. PoolKept'
  BY <1>2, PoolRests DEF RetainedInv
<1>9. StreamKept'
  BY <1>2, <1>3, <1>4, <1>5, <1>6 DEF RetainedInv, StreamKept, Includes
<1>10. InputsKept'
  BY <1>2, <1>4, <1>6 DEF RetainedInv, InputsKept, Based, Exact, Includes, Anchored, Abreast, Bitmap
<1>11. CaptureKept'
  BY <1>2, <1>4, <1>6 DEF RetainedInv, CaptureKept
<1>12. RecoveryKept'
  BY <1>2, RecoveryRests DEF RetainedInv
<1> QED
  BY <1>7, <1>8, <1>9, <1>10, <1>11, <1>12 DEF RetainedInv

---------------------------------------------------------------------------
\* The capture

LEMMA CaptureStartKeeps == RetainedInv /\ CaptureStart => RetainedInv'
<1> SUFFICES ASSUME RetainedInv, CaptureStart PROVE RetainedInv'
  OBVIOUS
<1>1. /\ UNCHANGED <<poolVars, venue, accepted, phase, active, stream, pinned, waiting, retained, confirmed, floor, rejected, failures>>
      /\ phase = "run" /\ worker' = [NoWorker EXCEPT !.pc = "start"] /\ replay' = <<>> /\ overflow' = FALSE
      /\ Live' = Live
  BY DEF CaptureStart, steady, sessionVars, Live
<1>2. worker'.pc = "start" /\ worker'.floor = 0 /\ worker'.cp = 0 /\ tx' = tx /\ top' = top
  BY <1>1 DEF NoWorker, poolVars
<1>3. RetainedTypeOK'
  <2>1. 0 \in Checkpoints /\ 0 <= ReplayLimit
    BY PoolAssumption, RetainedAssumption DEF Checkpoints
  <2>2. worker' \in [pc: {"idle", "start", "warm", "done", "failed"}, floor: Checkpoints, cp: Checkpoints]
    BY <1>1, <2>1 DEF NoWorker
  <2>3. replay' \in Seq(Versions) /\ Len(replay') <= ReplayLimit
    BY <1>1, <2>1
  <2> QED
    BY <1>1, <1>2, <2>2, <2>3 DEF RetainedInv, RetainedTypeOK
<1>4. PoolKept'
  BY <1>1, PoolRests DEF RetainedInv
<1>5. StreamKept'
  BY <1>1, StreamRests DEF RetainedInv
<1>6. InputsKept'
  BY <1>1, InputsRest DEF RetainedInv
<1>7. CaptureKept'
  <2>1. stream.sent \in 1..Len(tx) /\ Len(replay') = 0 /\ stream.sent - 0 = stream.sent /\ top \in Nat
    BY <1>1, RetainedTypes DEF RetainedInv, StreamKept
  <2> QED
    BY <1>1, <1>2, <2>1 DEF CaptureKept
<1>8. RecoveryKept'
  BY <1>1, RecoveryRests DEF RetainedInv
<1> QED
  BY <1>3, <1>4, <1>5, <1>6, <1>7, <1>8 DEF RetainedInv

\* A step of the worker that stays in the capture.
LEMMA WorkerMoves ==
  ASSUME RetainedInv,
         UNCHANGED <<steady, sessionVars, replay, overflow, waiting, retained, confirmed, floor, rejected>>,
         worker.pc # "idle",
         worker' \in [pc: {"warm", "done", "failed"}, floor: Checkpoints, cp: Checkpoints],
         failures' \in 0..MaxFailures, CaptureKept'
  PROVE  RetainedInv'
<1>1. /\ UNCHANGED <<poolVars, venue, accepted, phase, active, stream, pinned, waiting, retained, confirmed, floor, rejected>>
      /\ UNCHANGED <<replay, overflow>> /\ Live' = Live
  BY DEF steady, sessionVars, Live
<1>2. worker' \in [pc: {"idle", "start", "warm", "done", "failed"}, floor: Checkpoints, cp: Checkpoints]
  OBVIOUS
<1>3. RetainedTypeOK'
  BY <1>1, <1>2 DEF RetainedInv, RetainedTypeOK, poolVars
<1>4. PoolKept'
  BY <1>1, PoolRests DEF RetainedInv
<1>5. StreamKept'
  BY <1>1, StreamRests DEF RetainedInv
<1>6. InputsKept'
  BY <1>1, InputsRest DEF RetainedInv
<1>7. RecoveryKept'
  BY <1>1, RecoveryRests DEF RetainedInv
<1> QED
  BY <1>3, <1>4, <1>5, <1>6, <1>7 DEF RetainedInv

LEMMA WorkerFloorKeeps == RetainedInv /\ WorkerFloor => RetainedInv'
<1> SUFFICES ASSUME RetainedInv, WorkerFloor PROVE RetainedInv'
  OBVIOUS
<1>1. /\ UNCHANGED <<steady, sessionVars, replay, overflow, waiting, retained, confirmed, floor, rejected, failures>>
      /\ worker.pc = "start"
      /\ worker' = IF retained = NoInputs THEN [worker EXCEPT !.pc = "failed"]
                   ELSE [worker EXCEPT !.pc = "warm", !.floor = CaptureFloor]
  BY DEF WorkerFloor
<1>2. /\ worker \in [pc: {"idle", "start", "warm", "done", "failed"}, floor: Checkpoints, cp: Checkpoints]
      /\ failures \in 0..MaxFailures
  BY DEF RetainedInv, RetainedTypeOK
<1>3. tx' = tx /\ top' = top /\ UNCHANGED <<phase, active, stream>>
  BY <1>1 DEF steady, poolVars, sessionVars
<1>4. CASE retained = NoInputs
  <2>1. /\ worker' \in [pc: {"warm", "done", "failed"}, floor: Checkpoints, cp: Checkpoints]
    BY <1>1, <1>2, <1>4
  <2>2. worker'.pc = "failed" /\ worker'.floor = worker.floor /\ worker'.cp = worker.cp
    BY <1>1, <1>2, <1>4
  <2>3. CaptureKept'
    BY <1>1, <1>3, <2>2 DEF RetainedInv, CaptureKept
  <2> QED
    BY <1>1, <1>2, <2>1, <2>3, WorkerMoves
<1>5. CASE retained # NoInputs
  <2>1. retained \in Inputs /\ Based(retained)
    BY <1>5, RetainedTypes DEF RetainedInv, InputsKept
  <2>2. /\ CaptureFloor \in Checkpoints /\ CaptureFloor \in Nat /\ CaptureFloor <= top
        /\ CaptureFloor >= retained.baseline /\ CaptureFloor >= retained.position
    <3>1. /\ retained.baseline \in Nat /\ retained.position \in Nat /\ floor \in Nat /\ top \in Nat /\ top <= MaxTop
          /\ retained.baseline <= top /\ retained.position <= top /\ floor <= top /\ MaxTop \in Nat
      BY <2>1, InputsTypes, RetainedTypes, PoolAssumption DEF RetainedInv, Based, StreamKept, RetainedTypeOK, Checkpoints
    <3> QED
      BY <3>1 DEF CaptureFloor, Larger, Checkpoints
  <2> HIDE DEF CaptureFloor
  <2>3. worker' \in [pc: {"warm", "done", "failed"}, floor: Checkpoints, cp: Checkpoints]
    BY <1>1, <1>2, <1>5, <2>2
  <2>4. worker'.pc = "warm" /\ worker'.floor = CaptureFloor /\ worker'.cp = worker.cp
    BY <1>1, <1>2, <1>5
  <2>5. ASSUME phase = "run", ~overflow
        PROVE  tx[stream.sent - Len(replay)].cp <= Larger(CaptureFloor, stream.since)
    <3> DEFINE start == stream.sent - Len(replay)
    <3> SUFFICES tx[start].cp <= Larger(CaptureFloor, stream.since)
      OBVIOUS
    <3>1. start \in 1..Len(tx) /\ start <= stream.sent /\ stream.sent \in 1..Len(tx) /\ Abreast
      BY <1>1, <1>5, <2>5, RetainedTypes DEF RetainedInv, CaptureKept, StreamKept, InputsKept, Live
    <3> HIDE DEF start
    <3>2. tx[start].cp <= tx[stream.sent].cp /\ tx[start].cp \in Nat /\ tx[stream.sent].cp \in Nat /\ stream.since \in Nat
      BY <3>1, PoolTypes, RetainedTypes DEF RetainedInv, PoolKept
    <3>3. CASE tx[stream.sent].cp <= stream.since
      BY <2>2, <3>2, <3>3 DEF Larger
    <3>4. CASE retained.version >= stream.sent
      <4>1. retained.version \in 1..Len(tx) /\ stream.sent <= retained.version
        BY <2>1, <3>1, <3>4, InputsTypes, PoolTypes DEF RetainedInv, Based
      <4>2. tx[stream.sent].cp <= tx[retained.version].cp /\ tx[retained.version].cp \in Nat
        BY <3>1, <4>1, PoolTypes DEF RetainedInv, PoolKept
      <4>3. tx[retained.version].cp <= CaptureFloor
        BY <2>1, <2>2, <4>2, InputsTypes DEF Based, Larger
      <4> QED
        BY <2>2, <3>2, <4>2, <4>3 DEF Larger
    <3> QED
      BY <3>1, <3>3, <3>4 DEF Abreast
  <2>6. CaptureKept'
    BY <1>1, <1>3, <2>2, <2>4, <2>5 DEF RetainedInv, CaptureKept
  <2> QED
    BY <1>1, <1>2, <2>3, <2>6, WorkerMoves
<1> QED
  BY <1>4, <1>5

LEMMA WorkerWarmKeeps == RetainedInv /\ WorkerWarm => RetainedInv'
<1> SUFFICES ASSUME RetainedInv, WorkerWarm PROVE RetainedInv'
  OBVIOUS
<1>1. PICK c \in Checkpoints : QuoteCheckpoint(worker.floor, c) /\ worker' = [worker EXCEPT !.pc = "done", !.cp = c]
  BY DEF WorkerWarm
<1>2. /\ UNCHANGED <<steady, sessionVars, replay, overflow, waiting, retained, confirmed, floor, rejected, failures>>
      /\ worker.pc = "warm"
  BY DEF WorkerWarm
<1>3. /\ worker \in [pc: {"idle", "start", "warm", "done", "failed"}, floor: Checkpoints, cp: Checkpoints]
      /\ failures \in 0..MaxFailures /\ worker.floor \in Nat /\ worker.floor <= top
  BY RetainedTypes DEF RetainedInv, RetainedTypeOK, CaptureKept
<1>4. tx' = tx /\ top' = top /\ UNCHANGED <<phase, active, stream>>
  BY <1>2 DEF steady, poolVars, sessionVars
<1>5. c \in Nat /\ c <= top /\ c >= worker.floor
  BY <1>1, <1>3, QuoteCheckpointIs DEF RetainedInv
<1>6. worker' \in [pc: {"warm", "done", "failed"}, floor: Checkpoints, cp: Checkpoints]
  BY <1>1, <1>3
<1>7. worker'.pc = "done" /\ worker'.floor = worker.floor /\ worker'.cp = c
  BY <1>1, <1>3
<1>8. CaptureKept'
  <2> DEFINE start == stream.sent - Len(replay)
  <2>1. ASSUME phase = "run", ~overflow
        PROVE  /\ start \in 1..Len(tx) /\ \A i \in 1..Len(replay) : replay[i] = start + i
               /\ tx[start].cp <= Larger(worker.floor, stream.since)
    BY <1>2, <2>1 DEF RetainedInv, CaptureKept
  <2> HIDE DEF start
  <2>2. ASSUME phase = "run", ~overflow PROVE tx[start].cp <= Larger(c, stream.since)
    <3>1. tx[start].cp \in Nat /\ stream.since \in Nat
      BY <2>1, <2>2, PoolTypes, RetainedTypes DEF RetainedInv
    <3> QED
      BY <1>3, <1>5, <2>1, <2>2, <3>1 DEF Larger
  <2> QED
    BY <1>2, <1>3, <1>4, <1>5, <1>7, <2>1, <2>2 DEF RetainedInv, CaptureKept, start
<1> QED
  BY <1>2, <1>3, <1>6, <1>8, WorkerMoves

LEMMA WorkerFailsKeeps == RetainedInv /\ WorkerFails => RetainedInv'
<1> SUFFICES ASSUME RetainedInv, WorkerFails PROVE RetainedInv'
  OBVIOUS
<1>1. /\ UNCHANGED <<steady, sessionVars, replay, overflow, waiting, retained, confirmed, floor, rejected>>
      /\ worker.pc = "warm" /\ worker' = [worker EXCEPT !.pc = "failed"]
      /\ failures < MaxFailures /\ failures' = failures + 1
  BY DEF WorkerFails
<1>2. worker \in [pc: {"idle", "start", "warm", "done", "failed"}, floor: Checkpoints, cp: Checkpoints]
  BY DEF RetainedInv, RetainedTypeOK
<1>3. tx' = tx /\ top' = top /\ UNCHANGED <<phase, active, stream>>
  BY <1>1 DEF steady, poolVars, sessionVars
<1>4. failures' \in 0..MaxFailures
  BY <1>1, RetainedAssumption DEF RetainedInv, RetainedTypeOK
<1>5. worker' \in [pc: {"warm", "done", "failed"}, floor: Checkpoints, cp: Checkpoints]
  BY <1>1, <1>2
<1>6. worker'.pc = "failed" /\ worker'.floor = worker.floor /\ worker'.cp = worker.cp
  BY <1>1, <1>2
<1>7. CaptureKept'
  BY <1>1, <1>3, <1>6 DEF RetainedInv, CaptureKept
<1> QED
  BY <1>1, <1>4, <1>5, <1>7, WorkerMoves

LEMMA InstalledKeeps == RetainedInv /\ Installed => RetainedInv'
<1> SUFFICES ASSUME RetainedInv, Installed PROVE RetainedInv'
  OBVIOUS
<1>1. /\ UNCHANGED <<poolVars, venue, accepted, phase, active, stream, pinned, overflow, confirmed, floor, rejected, failures>>
      /\ phase = "run" /\ retained' = Replayed /\ worker' = NoWorker /\ replay' = <<>> /\ waiting' = FALSE
      /\ active /\ Live /\ Live' = Live
  BY DEF Installed, steady, sessionVars, Live, RetainedInv, StreamKept
<1>2. worker.pc = "done" /\ ~overflow /\ Replayed # NoInputs /\ Replayed.baseline >= retained.baseline
  <2>1. worker.pc = "done" /\ ~overflow /\ Replayed # NoInputs /\ ~Regressed(Replayed)
    BY DEF Installed, Installs
  <2>2. Replayed \in Inputs /\ retained \in Inputs
    BY <1>1, <2>1, ReplayedIs, RetainedTypes DEF RetainedInv, InputsKept
  <2>3. ~(Replayed.baseline < retained.baseline)
    BY <2>1 DEF Regressed
  <2> QED
    BY <2>1, <2>2, <2>3, InputsTypes
<1>3. /\ Replayed \in Inputs /\ Based(Replayed) /\ Replayed.baseline = worker.cp
      /\ Replayed.version >= stream.sent \/ tx[stream.sent].cp <= stream.since
      /\ worker.cp >= stream.since => Exact(Replayed)
  BY <1>1, <1>2, ReplayedIs DEF RetainedInv
<1> HIDE DEF Replayed
<1>4. tx' = tx /\ top' = top
  BY <1>1 DEF poolVars
<1>5. RetainedTypeOK'
  <2>1. 0 \in Checkpoints /\ 0 <= ReplayLimit
    BY PoolAssumption, RetainedAssumption DEF Checkpoints
  <2>2. worker' \in [pc: {"idle", "start", "warm", "done", "failed"}, floor: Checkpoints, cp: Checkpoints]
    BY <1>1, <2>1 DEF NoWorker
  <2>3. replay' \in Seq(Versions) /\ Len(replay') <= ReplayLimit
    BY <1>1, <2>1
  <2> QED
    BY <1>1, <1>3, <1>4, <2>2, <2>3 DEF RetainedInv, RetainedTypeOK
<1>6. PoolKept'
  BY <1>1, PoolRests DEF RetainedInv
<1>7. StreamKept'
  BY <1>1, StreamRests DEF RetainedInv
<1>8. InputsKept'
  <2>1. Based(retained)' /\ (Exact(Replayed) => Exact(retained)')
    BY <1>1, <1>3, <1>4 DEF Based, Exact, Includes, Bitmap
  <2>2. Anchored' => Exact(Replayed)
    BY <1>1, <1>3 DEF Anchored
  <2>3. Abreast'
    BY <1>1, <1>3, <1>4 DEF Abreast
  <2> QED
    BY <1>1, <1>2, <2>1, <2>2, <2>3 DEF InputsKept
<1>9. CaptureKept'
  BY <1>1, CaptureIdle, RetainedTypes DEF RetainedInv
<1>10. RecoveryKept'
  <2>1. retained # NoInputs /\ retained \in Inputs
    BY <1>1, RetainedTypes DEF RetainedInv, InputsKept
  <2>2. retained.baseline >= rejected /\ retained.baseline >= accepted
    BY <1>1, <2>1 DEF RetainedInv, RecoveryKept
  <2>3. Replayed.baseline >= rejected /\ Replayed.baseline >= accepted
    BY <1>2, <1>3, <2>1, <2>2, InputsTypes, RetainedTypes DEF RetainedInv
  <2> QED
    BY <1>1, <2>3 DEF RetainedInv, RecoveryKept, Bitmap
<1> QED
  BY <1>5, <1>6, <1>7, <1>8, <1>9, <1>10 DEF RetainedInv

LEMMA DiscardedKeeps == RetainedInv /\ Discarded => RetainedInv'
<1> SUFFICES ASSUME RetainedInv, Discarded PROVE RetainedInv'
  OBVIOUS
<1>1. /\ UNCHANGED <<poolVars, venue, accepted, phase, active, stream, pinned, overflow, retained, confirmed, floor, rejected, failures>>
      /\ worker' = NoWorker /\ replay' = <<>> /\ waiting' = TRUE /\ Live' = Live
  BY DEF Discarded, steady, sessionVars, Live
<1>2. RetainedTypeOK'
  <2>1. 0 \in Checkpoints /\ 0 <= ReplayLimit
    BY PoolAssumption, RetainedAssumption DEF Checkpoints
  <2>2. worker' \in [pc: {"idle", "start", "warm", "done", "failed"}, floor: Checkpoints, cp: Checkpoints]
    BY <1>1, <2>1 DEF NoWorker
  <2>3. replay' \in Seq(Versions) /\ Len(replay') <= ReplayLimit
    BY <1>1, <2>1
  <2> QED
    BY <1>1, <2>2, <2>3 DEF RetainedInv, RetainedTypeOK, poolVars
<1>3. PoolKept'
  BY <1>1, PoolRests DEF RetainedInv
<1>4. StreamKept'
  BY <1>1, StreamRests DEF RetainedInv
<1>5. InputsKept'
  BY <1>1, InputsRest DEF RetainedInv
<1>6. CaptureKept'
  BY <1>1, CaptureIdle, RetainedTypes DEF RetainedInv
<1>7. RecoveryKept'
  BY <1>1, RecoveryRests DEF RetainedInv
<1> QED
  BY <1>2, <1>3, <1>4, <1>5, <1>6, <1>7 DEF RetainedInv

LEMMA OthersKeep == RetainedInv /\ (DelayPasses \/ UNCHANGED vars) => RetainedInv'
<1> SUFFICES ASSUME RetainedInv, DelayPasses \/ UNCHANGED vars PROVE RetainedInv'
  OBVIOUS
<1>1. /\ UNCHANGED <<poolVars, venue, accepted, phase, active, stream, pinned, worker, replay, overflow,
                     retained, confirmed, floor, rejected, failures>>
      /\ waiting' \in {waiting, FALSE} /\ Live' = Live
  <2>1. CASE DelayPasses
    BY <2>1 DEF DelayPasses, steady, sessionVars, Live
  <2>2. CASE UNCHANGED vars
    BY <2>2 DEF vars, steady, sessionVars, workerVars, Live
  <2> QED
    BY <2>1, <2>2
<1>2. RetainedTypeOK'
  BY <1>1 DEF RetainedInv, RetainedTypeOK, poolVars
<1>3. PoolKept'
  BY <1>1, PoolRests DEF RetainedInv
<1>4. StreamKept'
  BY <1>1, StreamRests DEF RetainedInv
<1>5. InputsKept'
  BY <1>1, InputsRest DEF RetainedInv
<1>6. CaptureKept'
  BY <1>1 DEF RetainedInv, CaptureKept, poolVars
<1>7. RecoveryKept'
  BY <1>1, RecoveryRests DEF RetainedInv
<1> QED
  BY <1>2, <1>3, <1>4, <1>5, <1>6, <1>7 DEF RetainedInv

LEMMA RetainedStep == RetainedInv /\ [Next]_vars => RetainedInv'
<1> SUFFICES ASSUME RetainedInv, [Next]_vars PROVE RetainedInv'
  OBVIOUS
<1> QED
  BY PoolKeeps, RunStartKeeps, SubscribeKeeps, WarmHeadKeeps, WarmCommitKeeps, ActivateKeeps, SessionFailsKeeps,
     ExitKeeps, ObserveCheckpointKeeps, ReceiveTxKeeps, ReceiveGarbledKeeps, ReceiveProgressKeeps,
     CaptureStartKeeps, WorkerFloorKeeps, WorkerWarmKeeps, WorkerFailsKeeps, InstalledKeeps, DiscardedKeeps,
     OthersKeep DEF Next

---------------------------------------------------------------------------
\* What follows

LEMMA ExactCoheres == RetainedInv => Coherent
<1> SUFFICES ASSUME RetainedInv, Anchored PROVE Coherent
  BY DEF Coherent
<1> DEFINE now == tx[retained.version]
<1>1. Exact(retained) /\ retained \in Inputs
  BY RetainedTypes DEF RetainedInv, InputsKept, Anchored
<1>2. CASE ~Bitmap
  BY <1>1, <1>2 DEF Coherent, Exact
<1>3. CASE Bitmap /\ CoverageMissing
  BY <1>1, <1>3 DEF Coherent, Exact
<1>4. CASE Bitmap /\ ~CoverageMissing
  <2>1. ~Missing(retained)
    BY <1>4 DEF CoverageMissing, Anchored
  <2>2. ASSUME NEW t \in TicksIn(Window(retained.word)) PROVE retained.ticks[t] = now.ticks[t]
    <3>1. t \in Ticks /\ Word(t) \in Window(retained.word) /\ t \in TicksIn(retained.words)
      BY <2>1 DEF Missing, TicksIn
    <3>2. retained.ticks[t] \in {0, now.ticks[t]} /\ (t \in retained.bits <=> now.ticks[t] # 0)
      BY <1>1, <1>4, <3>1 DEF Exact
    <3>3. t \in retained.bits => retained.ticks[t] # 0
      BY <2>1, <3>1 DEF Missing
    <3> QED
      BY <3>2, <3>3
  <2>3. retained.word = now.word
    BY <1>1 DEF Exact
  <2> QED
    BY <1>4, <2>2, <2>3 DEF Coherent
<1> QED
  BY <1>2, <1>3, <1>4

LEMMA AbreastConfirms == RetainedInv => ConfirmedCurrent
<1> SUFFICES ASSUME RetainedInv, active, Anchored PROVE retained.version >= VersionAt(confirmed)
  BY DEF ConfirmedCurrent
<1>1. retained.version >= stream.sent
  BY LiveAbreast DEF Live
<1>2. confirmed \in Nat /\ VersionAt(confirmed) \in 1..Len(tx) /\ tx[VersionAt(confirmed)].cp <= confirmed
  BY VersionAtIs, RetainedTypes DEF RetainedInv
<1>3. VersionAt(confirmed) <= stream.sent
  BY <1>2 DEF RetainedInv, StreamKept, Includes
<1>4. retained.version \in Nat /\ stream.sent \in Nat
  BY RetainedTypes, InputsTypes DEF RetainedInv, Anchored
<1> QED
  BY <1>1, <1>2, <1>3, <1>4

LEMMA RecoveryFollows == RetainedInv => RecoveryIncludes
BY DEF RetainedInv, RecoveryKept, RecoveryIncludes, Live

\* The state of the retained inputs stays in its type: the replay within its limit, the
\* inputs known or none.
THEOREM RetainedTypeCorrect == Spec => []RetainedTypeOK
<1>1. RetainedInv => RetainedTypeOK
  BY DEF RetainedInv
<1> QED
  BY <1>1, InitKept, RetainedStep, PTL DEF Spec

\* What is captured, replayed and applied adds up to one state of the pool, however the
\* stream, the capture and the pool interleave.
THEOREM CoherentSafe == Spec => []Coherent
BY InitKept, RetainedStep, ExactCoheres, PTL DEF Spec

\* A confirmed checkpoint is covered by the inputs.
THEOREM ConfirmedCurrentSafe == Spec => []ConfirmedCurrent
BY InitKept, RetainedStep, AbreastConfirms, PTL DEF Spec

\* After a refused transaction, the inputs include its checkpoint.
THEOREM RecoveryIncludesSafe == Spec => []RecoveryIncludes
BY InitKept, RetainedStep, RecoveryFollows, PTL DEF Spec
=============================================================================
