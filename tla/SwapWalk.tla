------------------------------- MODULE SwapWalk -------------------------------
(***************************************************************************)
(* A quote computed locally over one captured state: the loop of           *)
(* StateCache.quote and the step arithmetic it uses                        *)
(* (go/venues/uniswap/v3/state_cache.go, local_math.go, quote_gross.go).   *)
(* Version "v4" takes calculateStep of go/venues/uniswap/v4/local_math.go, *)
(* which differs in what an incomplete exact input is charged.             *)
(*                                                                         *)
(* 2^96, 2^256, the fee's denominator, the size of a bitmap word and the   *)
(* table of sqrtAtTick are constants.  An iteration of the loop is a step; *)
(* after a quote the same state is quoted once more: without fee, as       *)
(* QuoteGrossPair does, or exactly for the output just quoted.             *)
(***************************************************************************)
EXTENDS Integers, FiniteSetsExt

CONSTANTS
    Q,                  \* 2^96
    MaxUint,            \* 2^256 - 1
    FeeUnit,            \* 1000000
    WordSize,           \* 256
    MaxTick,            \* 887272
    Spacing,            \* the pool's tick spacing
    SqrtAtTick(_),      \* sqrtAtTick
    Positions,          \* bound: the positions a pool may have, [low, high, size]
    QuoteAmounts, Fees       \* bound: requests

MinTick == -MaxTick

ASSUME WalkAssumption ==
    /\ {Q, MaxUint, FeeUnit, WordSize, MaxTick, Spacing} \subseteq Nat \ {0}
    /\ \A t \in MinTick..MaxTick :
          /\ SqrtAtTick(t) \in Nat \ {0}
          /\ t < MaxTick => SqrtAtTick(t) < SqrtAtTick(t + 1)
    /\ QuoteAmounts \subseteq Nat \ {0}
    /\ Fees \subseteq 0..(FeeUnit - 1)

\* The contract mints between two ticks in its range that are multiples of the spacing.
ASSUME PositionsAssumption ==
    /\ IsFiniteSet(Positions)
    /\ \A q \in Positions :
          /\ {q.low, q.high} \subseteq {t \in MinTick..MaxTick : t % Spacing = 0}
          /\ q.low < q.high /\ q.size \in Nat

-----------------------------------------------------------------------------
(* local_math.go. *)

\* Mutant: a remainder is dropped.
FloorDiv(n, d) == n \div d

CeilDiv(n, d) == (n + d - 1) \div d

\* The amount of a token between two prices.
AmountDelta(a, b, l, token0, up) ==
    LET low == IF a < b THEN a ELSE b
        high == IF a < b THEN b ELSE a
        n == IF token0 THEN l * (high - low) * Q ELSE l * (high - low)
        d == IF token0 THEN low * high ELSE Q
    IN  IF up THEN CeilDiv(n, d) ELSE n \div d

NoPrice == 0

\* The price after an amount; with the contract's fallback when 256 bits overflow.
NextPrice(p, l, a, zero, input) ==
    IF zero = input
    THEN LET n == l * Q
             d == IF input THEN n + a * p ELSE n - a * p
         IN  IF d <= 0 THEN NoPrice
             ELSE IF input /\ (a * p > MaxUint \/ d > MaxUint) THEN CeilDiv(n, n \div p + a)
             ELSE CeilDiv(n * p, d)
    ELSE IF input THEN p + (a * Q) \div l
    ELSE IF p > CeilDiv(a * Q, l) THEN p - CeilDiv(a * Q, l) ELSE NoPrice

\* calculateStep.
CalculateStep(version, p, target, l, remaining, fee, input, zero) ==
    LET available == IF input THEN (remaining * (FeeUnit - fee)) \div FeeUnit ELSE remaining
        partial == available < AmountDelta(p, target, l, zero = input, input)
        next == IF partial THEN NextPrice(p, l, available, zero, input) ELSE target
        in == IF version = "v4" /\ input /\ partial
              THEN available ELSE AmountDelta(p, next, l, zero, TRUE)
        out == AmountDelta(p, next, l, ~zero, FALSE)
        capped == ~input /\ IF version = "v4" THEN partial ELSE out > remaining
        rest == input /\ IF version = "v4" THEN partial ELSE next # target
    IN  [price |-> next, in |-> in,
         out |-> IF capped THEN remaining ELSE out,
         fee |-> IF rest THEN remaining - in ELSE CeilDiv(in * fee, FeeUnit - fee)]

-----------------------------------------------------------------------------
(* The captured state. *)

\* positions make the state up, as in the contract: net changes at their ends, and the
\* liquidity of the current tick.  Crossing a tick downwards leaves the price on it.
SizeOf(positions) == MapThenSumSet(LAMBDA q : q.size, positions)
LiquidityAt(positions, tick) == SizeOf({q \in positions : q.low <= tick /\ tick < q.high})
Net(positions, tick) ==
    SizeOf({q \in positions : q.low = tick}) - SizeOf({q \in positions : q.high = tick})
Initialized(positions) == {q.low : q \in positions} \cup {q.high : q \in positions}

\* A request fits 256 bits, and so do the most a swap can take across all prices, a unit
\* of rounding per step and the fees: liquidity is less than 2^128, prices less than 2^160.
ASSUME AmountsAssumption ==
    LET liquidity == SizeOf(Positions)
        steps == 2 * MaxTick + 2
        most == {(liquidity * Q) \div SqrtAtTick(MinTick), (liquidity * SqrtAtTick(MaxTick)) \div Q}
    IN  /\ QuoteAmounts \subseteq 1..MaxUint
        /\ liquidity * Q <= MaxUint
        /\ \A fee \in Fees \cup {0}, amount \in most :
              (amount + steps) * FeeUnit + steps * (FeeUnit - fee) <= MaxUint * (FeeUnit - fee)

\* The prices a swap can leave, and their ticks.
PriceBounds == (SqrtAtTick(MinTick) + 1)..(SqrtAtTick(MaxTick) - 1)
TicksOf(price) ==
    {t \in MinTick..(MaxTick - 1) : SqrtAtTick(t) <= price /\ price <= SqrtAtTick(t + 1)}

VARIABLES
    pool,       \* the captured state: positions, price, tick, and the client's version
    request,    \* amount, zero, input, fee
    walk,       \* the locals of quote: p, l, tick, remaining, result, feeTotal
    outcome,    \* "none" while the loop runs, "quoted", or how it failed
    before      \* the first quote, while and after the second runs

walkVars == <<pool, request, walk, outcome, before>>

NoQuote == [kind |-> "none", amount |-> 0, result |-> 0]

WalkTypeOK ==
    /\ walk.p \in SqrtAtTick(MinTick)..SqrtAtTick(MaxTick)
    /\ walk.tick \in (MinTick - 1)..MaxTick
    /\ walk.l \in Nat /\ walk.remaining \in 0..request.amount
    /\ {walk.result, walk.fees, before.result, before.amount} \subseteq 0..MaxUint
    /\ before.kind \in {"none", "gross", "inverse"}
    /\ outcome \in {"none", "quoted", "negative", "incomplete", "range", "ends", "price"}

Start(amount) ==
    [p |-> pool.price, l |-> LiquidityAt(pool.positions, pool.tick), tick |-> pool.tick,
     remaining |-> amount, result |-> 0, fees |-> 0]

\* Mutant: the second quote is computed on numbers the first one changed in place.
RestartMoved(amount) == [walk EXCEPT !.remaining = amount, !.result = 0, !.fees = 0]

\* quote copies what it changes: the second quote starts where the first one did.
Restart(amount) == Start(amount)

WalkInit ==
    /\ \E positions \in SUBSET Positions, version \in {"v3", "v4"}, price \in PriceBounds :
       \E tick \in TicksOf(price) :
          pool = [positions |-> positions, version |-> version, price |-> price, tick |-> tick]
    /\ \E amount \in QuoteAmounts, zero \in BOOLEAN, input \in BOOLEAN, fee \in Fees :
          request = [amount |-> amount, zero |-> zero, input |-> input, fee |-> fee]
    /\ walk = Start(request.amount)
    /\ outcome = "none"
    /\ before = NoQuote

-----------------------------------------------------------------------------
(* The walk. *)

\* Mutant: division towards zero.
CompressedTruncated(tick) == IF tick < 0 THEN -((-tick) \div Spacing) ELSE tick \div Spacing

\* Go's division with the correction of nextTick: towards minus infinity, as TLA+'s.
Compressed(tick) == tick \div Spacing

\* nextTick: the nearest initialized tick within the bitmap word, or the word's end.
NextTick(tick) ==
    LET first == Compressed(tick) + IF request.zero THEN 0 ELSE 1
        word == (first \div WordSize) * WordSize
        bits == {i \in 0..(WordSize - 1) : (word + i) * Spacing \in Initialized(pool.positions)}
        ahead == {i \in bits : IF request.zero THEN word + i <= first ELSE word + i >= first}
        end == IF request.zero THEN 0 ELSE WordSize - 1
    IN  [tick |-> (word + (IF ahead = {} THEN end
                           ELSE IF request.zero THEN Max(ahead) ELSE Min(ahead))) * Spacing,
         initialized |-> ahead # {}]

Clamp(tick) == IF tick < MinTick THEN MinTick ELSE IF tick > MaxTick THEN MaxTick ELSE tick

\* The price is on the next tick: its liquidity, if it is initialized.
Crossed(next, initialized) ==
    [walk EXCEPT !.l = IF ~initialized THEN @
                       ELSE IF request.zero THEN @ - Net(pool.positions, next)
                       ELSE @ + Net(pool.positions, next),
                 !.tick = IF request.zero THEN next - 1 ELSE next]

\* One iteration of the loop.  Left out are two checks that only end a walk with an error:
\* the budget of 2048 iterations, and liquidity over 128 bits, which the contract's sums of
\* positions do not reach.
Iterate ==
    /\ outcome = "none"
    /\ LET found == NextTick(walk.tick)
           next == Clamp(found.tick)
           limit == SqrtAtTick(IF request.zero THEN MinTick ELSE MaxTick)
                       + IF request.zero THEN 1 ELSE -1
           target == IF IF request.zero THEN SqrtAtTick(next) < limit ELSE SqrtAtTick(next) > limit
                     THEN limit ELSE SqrtAtTick(next)
           step == CalculateStep(pool.version, walk.p, target, walk.l, walk.remaining,
                                 request.fee, request.input, request.zero)
           remaining == walk.remaining - IF request.input THEN step.in + step.fee ELSE step.out
           result == walk.result + IF request.input THEN step.out ELSE step.in + step.fee
           crossed == IF step.price = SqrtAtTick(next) THEN Crossed(next, found.initialized)
                      ELSE walk
       IN IF step.price = NoPrice THEN outcome' = "price" /\ UNCHANGED walk
          ELSE IF remaining < 0 \/ result > MaxUint
               THEN outcome' = "negative" /\ UNCHANGED walk
          ELSE /\ outcome' = IF remaining = 0 THEN "quoted"
                             ELSE IF step.price = limit THEN "ends"
                             ELSE IF step.price # SqrtAtTick(next) THEN "incomplete"
                             ELSE IF crossed.l < 0 THEN "range"
                             ELSE "none"
               /\ walk' = [(IF outcome' \in {"none", "range"} THEN crossed ELSE walk)
                             EXCEPT !.p = step.price, !.remaining = remaining,
                                    !.result = result, !.fees = @ + step.fee]
    /\ UNCHANGED <<pool, request, before>>

\* The calculator without fee quotes the same request.
QuoteGross ==
    /\ outcome = "quoted" /\ before = NoQuote
    /\ before' = [kind |-> "gross", amount |-> request.amount, result |-> walk.result]
    /\ request' = [request EXCEPT !.fee = 0]
    /\ walk' = Restart(request.amount)
    /\ outcome' = "none"
    /\ UNCHANGED pool

\* What an exact output costs is paid as an exact input.
QuoteInverse ==
    /\ outcome = "quoted" /\ before = NoQuote /\ ~request.input
    /\ before' = [kind |-> "inverse", amount |-> request.amount, result |-> walk.result]
    /\ request' = [request EXCEPT !.amount = walk.result, !.input = TRUE]
    /\ walk' = Restart(walk.result)
    /\ outcome' = "none"
    /\ UNCHANGED pool

WalkNext == Iterate \/ QuoteGross \/ QuoteInverse

WalkSpec == WalkInit /\ [][WalkNext]_walkVars

-----------------------------------------------------------------------------
(* Properties. *)

\* The liquidity the walk uses is that of the positions around its tick: no initialized
\* tick is passed over, none is counted twice, in either direction.
LiquidityFollows ==
    outcome = "none" =>
       /\ walk.l = LiquidityAt(pool.positions, walk.tick)
       /\ SqrtAtTick(Clamp(walk.tick)) <= walk.p /\ walk.p <= SqrtAtTick(Clamp(walk.tick + 1))

\* A quote of a consistent state ends with a result or at the end of the liquidity, with
\* every number in its range; the errors amount=out_of_range, incomplete_step and
\* liquidity=out_of_range never occur.
StepsComplete == WalkTypeOK /\ outcome \notin {"negative", "incomplete", "range", "price"}

\* Rounding is for the pool.  An exact output is not underfunded: its cost, paid as an
\* exact input, buys the output (TestExactOutputRequiresSufficientInputBothDirections,
\* here for whole walks).  And the fee never pays the taker: without it the output is no
\* smaller, the cost no larger.
RoundsForPool ==
    /\ before.kind = "inverse" /\ outcome # "none" =>
          outcome = "quoted" /\ walk.result >= before.amount
    /\ before.kind = "gross" /\ outcome = "quoted" =>
          IF request.input THEN walk.result >= before.result ELSE walk.result <= before.result
=============================================================================
