------------------------------ MODULE FeeOracle ------------------------------
(***************************************************************************)
(* The price history from which Aerodrome Slipstream's dynamic fee is      *)
(* computed, and the part of it that a retained pool keeps                 *)
(* (go/venues/aerodrome/slipstream/retained_oracle.go,                     *)
(* retained_oracle_capture.go, retained_quote.go).                         *)
(*                                                                         *)
(* The pool contract keeps observations of its cumulative tick in a ring.  *)
(* A capture reads the newest of them until they cover the window of the   *)
(* fee; the retained copy then follows the pool's events by itself.  The   *)
(* contract is modelled independently, by the list of all observations and *)
(* the places of those it still holds, in unbounded integers; the retained *)
(* copy has the ring, the wrapping times and the wrapping sums of the code.*)
(***************************************************************************)
EXTENDS Integers, Sequences, FiniteSets, FiniteSetsExt

CONSTANTS
    TimeWrap, SumWrap,  \* 2^32 and 2^55 in the code
    ReadBatch,          \* observations per batch of a capture (16 in the code)
    Windows,            \* values of secondsAgo
    Gaps,               \* seconds between two events
    TickSteps,          \* ticks of the pool
    FirstTime, FirstSum,    \* time and sum of the first observation
    RingSizes,          \* values of observationCardinalityNext
    MaxWrites           \* bound: observations

\* The steepest tick for as long as times do not wrap fits a sum: 2^20 * 2^32 < 2^55 in
\* the code.
ASSUME OracleAssumption ==
    /\ {TimeWrap, SumWrap, ReadBatch} \subseteq Nat \ {0}
    /\ {FirstTime, MaxWrites} \subseteq Nat /\ FirstSum \in Int
    /\ Windows \subseteq Nat /\ Gaps \subseteq Nat /\ RingSizes \subseteq Nat
    /\ TickSteps \subseteq Int
    /\ \A tick \in TickSteps : -SumWrap < tick * TimeWrap /\ tick * TimeWrap < SumWrap

VARIABLES
    clock, poolTick,        \* time of the newest block, the pool's tick
    written,            \* every observation of the contract: its time and sum
    ring, place, room,  \* which of them is in each slot (0: none), the newest one's
                        \* slot, observationCardinalityNext
    secondsAgo,
    captured,           \* time of the capture, 0 if there is none
    copy                \* retainedOracle

oracleVars == <<clock, poolTick, written, ring, place, room, secondsAgo, captured, copy>>

-----------------------------------------------------------------------------
(* The contract. *)

Size == Cardinality(DOMAIN ring)
Newest == written[Len(written)]
SumAt(t, last, price) == last.sum + price * (t - last.at)
Cut(a, b) == IF a >= 0 THEN a \div b ELSE -((-a) \div b)

\* observe(secondsAgo): the cumulative tick at a time the held observations cover.
Answer(now, ago, price) ==
    LET t == now - ago
        held == {written[ring[i]] : i \in {j \in DOMAIN ring : ring[j] # 0}}
        before == {o \in held : o.at <= t}
        after == {o \in held : o.at > t}
    IN  IF before = {} THEN [kind |-> "unavailable", sum |-> 0]
        ELSE LET o == CHOOSE x \in before : \A y \in before : x.at >= y.at
             IN  [kind |-> "sum",
                  sum |-> IF after = {} THEN SumAt(t, o, price)
                          ELSE LET n == CHOOSE x \in after : \A y \in after : x.at <= y.at
                               IN  o.sum + Cut(n.sum - o.sum, n.at - o.at) * (t - o.at)]

\* One observation per block; the ring grows when it has been filled.
ContractWrites(t) ==
    IF t = Newest.at THEN UNCHANGED <<written, ring, place>>
    ELSE LET size == IF place = Size - 1 THEN Max({Size, room}) ELSE Size
         IN  /\ written' = Append(written, [at |-> t, sum |-> SumAt(t, Newest, poolTick)])
             /\ place' = (place + 1) % size
             /\ ring' = [i \in 0..(size - 1) |->
                            IF i = place' THEN Len(written')
                            ELSE IF i < Size THEN ring[i] ELSE 0]

-----------------------------------------------------------------------------
(* The retained copy. *)

Wrap(sum) == ((sum + SumWrap) % (2 * SumWrap)) - SumWrap
Since(now, then) == (now - then) % TimeWrap

NoSlot == [at |-> 0, sum |-> 0, initialized |-> FALSE]
NoCopy == [slots |-> <<>>, known |-> {}, index |-> 0, next |-> 0]
Slots(o) == Cardinality(DOMAIN o.slots)

\* Mutant of WriteCopy: the ring grows as soon as it is told to.
WriteCopyGrows(o, t, price) ==
    LET last == o.slots[o.index]
        size == Max({Slots(o), o.next})
        index == (o.index + 1) % size
    IN  IF t = last.at THEN o
        ELSE [o EXCEPT
                !.slots = [i \in 0..(size - 1) |->
                    IF i = index
                    THEN [at |-> t, sum |-> Wrap(last.sum + price * Since(t, last.at)),
                          initialized |-> TRUE]
                    ELSE IF i < Slots(o) THEN o.slots[i] ELSE NoSlot],
                !.known = @ \cup Slots(o)..(size - 1) \cup {index}, !.index = index]

\* write: slots added by growth are known to be uninitialized.
WriteCopy(o, t, price) ==
    LET last == o.slots[o.index]
        size == IF o.index = Slots(o) - 1 THEN Max({Slots(o), o.next}) ELSE Slots(o)
        index == (o.index + 1) % size
    IN  IF t = last.at THEN o
        ELSE [o EXCEPT
                !.slots = [i \in 0..(size - 1) |->
                    IF i = index
                    THEN [at |-> t, sum |-> Wrap(last.sum + price * Since(t, last.at)),
                          initialized |-> TRUE]
                    ELSE IF i < Slots(o) THEN o.slots[i] ELSE NoSlot],
                !.known = @ \cup Slots(o)..(size - 1) \cup {index}, !.index = index]

\* The slot j places before the newest.
Back(o, j) == (o.index - j + Slots(o)) % Slots(o)

\* observe: walk backwards to the first observation that is old enough; those passed on
\* the way must be known.
Observe(o, now, ago, price) ==
    LET latest == o.slots[o.index]
        age == Since(now, latest.at)
        OldEnough(j) == /\ o.slots[Back(o, j)].initialized
                        /\ Since(now, o.slots[Back(o, j)].at) >= ago
        stops == {j \in 1..(Slots(o) - 1) : Back(o, j) \notin o.known \/ OldEnough(j)}
        first == Min(stops)
        passed == {j \in 1..(first - 1) : o.slots[Back(o, j)].initialized}
        older == o.slots[Back(o, first)]
        newer == IF passed = {} THEN latest ELSE o.slots[Back(o, Max(passed))]
        rate == Cut(Wrap(newer.sum - older.sum), Since(newer.at, older.at))
        elapsed == Since(now - ago, older.at)
    IN  CASE ago <= age ->
               [kind |-> "sum", sum |-> Wrap(latest.sum + price * (age - ago))]
          [] ago > age /\ stops = {} -> [kind |-> "unavailable", sum |-> 0]
          [] ago > age /\ stops # {} /\ Back(o, first) \notin o.known ->
               [kind |-> "error", sum |-> 0]
          [] ago > age /\ stops # {} /\ Back(o, first) \in o.known ->
               [kind |-> "sum", sum |-> Wrap(older.sum + rate * elapsed)]

\* captureRetainedOracle: whole batches, newest first, until one reaches the window.
Capture(now, ago) ==
    LET at(j) == (place - j + Size) % Size
        Covers(j) == ring[at(j)] # 0 /\ now - written[ring[at(j)]].at >= ago
        covering == {j \in 0..(Size - 1) : Covers(j)}
        read == IF covering = {} THEN Size
                ELSE (Min(covering) \div ReadBatch + 1) * ReadBatch
        known == {at(j) : j \in 0..(Min({read, Size}) - 1)}
    IN  [slots |-> [i \in DOMAIN ring |->
                        IF i \in known /\ ring[i] # 0
                        THEN [at |-> written[ring[i]].at % TimeWrap,
                              sum |-> Wrap(written[ring[i]].sum), initialized |-> TRUE]
                        ELSE NoSlot],
         known |-> known, index |-> place, next |-> room]

-----------------------------------------------------------------------------
\* The contract's times are comparable within one wrap: no history is longer.
Comparable(t) == t - FirstTime < TimeWrap

OracleInit ==
    /\ clock = FirstTime /\ poolTick \in TickSteps
    /\ written = <<[at |-> FirstTime, sum |-> FirstSum]>>
    /\ ring = [i \in {0} |-> 1] /\ place = 0 /\ room = 1
    /\ secondsAgo \in Windows
    /\ captured = 0 /\ copy = NoCopy

\* A swap that moves the tick, or a position in range: the tick before it is observed.
\* A later event of the same block observes nothing.
PoolEvent ==
    /\ Len(written) < MaxWrites
    /\ \E gap \in Gaps \cup {0}, next \in TickSteps :
          /\ gap = 0 => clock = Newest.at /\ captured < clock
          /\ clock' = clock + gap /\ Comparable(clock')
          /\ poolTick' = next
    /\ ContractWrites(clock')
    /\ copy' = IF captured = 0 THEN copy ELSE WriteCopy(copy, clock' % TimeWrap, poolTick)
    /\ UNCHANGED <<room, secondsAgo, captured>>

\* IncreaseObservationCardinalityNext
RingGrows ==
    /\ \E size \in RingSizes : size > room /\ room' = size
    /\ copy' = IF captured = 0 THEN copy ELSE [copy EXCEPT !.next = room']
    /\ UNCHANGED <<clock, poolTick, written, ring, place, secondsAgo, captured>>

\* SecondsAgoSet, in a block of its own: a window that the copy does not cover ends the
\* session.
WindowSet ==
    /\ \E ago \in Windows, gap \in Gaps :
          /\ ago # secondsAgo
          /\ secondsAgo' = ago
          /\ clock' = clock + gap /\ Comparable(clock')
          /\ IF /\ captured # 0
                /\ Observe(copy, clock' % TimeWrap, ago, poolTick).kind = "error"
             THEN captured' = 0 /\ copy' = NoCopy ELSE UNCHANGED <<captured, copy>>
    /\ Len(written) < MaxWrites
    /\ UNCHANGED <<poolTick, written, ring, place, room>>

\* A capture at the newest block; it becomes the copy.  One that replaces a copy is like
\* a first one, and left out.
CaptureOracle ==
    /\ captured = 0
    /\ captured' = clock
    /\ copy' = Capture(clock, secondsAgo)
    /\ UNCHANGED <<clock, poolTick, written, ring, place, room, secondsAgo>>

OracleNext == PoolEvent \/ RingGrows \/ WindowSet \/ CaptureOracle

OracleSpec == OracleInit /\ [][OracleNext]_oracleVars

-----------------------------------------------------------------------------
(* Properties. *)

\* Whatever has been captured and whatever happened since, the copy answers like the
\* contract for every block to come, up to the wrapping of its sum: history is neither
\* missing nor wrong, the ring has the contract's size, and no time or sum that wraps
\* shows (retainedOracle, "Unknown slots ... cannot satisfy an observation request").
FeeHistoryExact ==
    captured # 0 =>
        /\ Slots(copy) = Size /\ copy.index = place /\ copy.next = room
        /\ \A later \in Gaps \cup {0}, ago \in {0, secondsAgo} :
              LET now == clock + later
                  expected == Answer(now, ago, poolTick)
              IN  Comparable(now) =>
                  Observe(copy, now % TimeWrap, ago, poolTick)
                     = [expected EXCEPT !.sum = Wrap(@)]
=============================================================================
