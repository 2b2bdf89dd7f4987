-------------------------- MODULE MCSpreadExecutor --------------------------
(***************************************************************************)
(* What a trade rests on, checked in one run although the parts share      *)
(* nothing: SpreadExecutor with two tokens, a buy and a sell venue and two *)
(* accounts, SwapWalk over a small table of prices, the fee history of     *)
(* FeeOracle, whose times and sums wrap after a few blocks, and the        *)
(* session of SlipstreamRetained that keeps the pool of that history.      *)
(***************************************************************************)
EXTENDS SpreadExecutor, SwapWalk, FeeOracle, SlipstreamRetained, TLC

CONSTANTS t1, t2, v1, v2, a1, a2

SmallAmounts == 0..1
BuyVenues == {v1}
SellVenues == {v1, v2}
Symmetry == Permutations({t1, t2})

\* 16 * 2^(tick/4), rounded up.
MCSqrtAtTick(tick) ==
    IF tick \in -8..8
    THEN <<4, 5, 6, 7, 8, 10, 12, 14, 16, 20, 23, 27, 32, 39, 46, 54, 64>>[tick + 9] ELSE 0

MCPositions == {[low |-> -4, high |-> 4, size |-> 64], [low |-> 0, high |-> 6, size |-> 24],
                [low |-> -6, high |-> -2, size |-> 40]}

MCTickSteps == {-2, 3}

VARIABLE part

WalkIdle ==
    /\ pool = [positions |-> {}, version |-> "v3", price |-> Q, tick |-> 0]
    /\ request = [amount |-> 1, zero |-> TRUE, input |-> TRUE, fee |-> 0]
    /\ walk = Start(1)
    /\ outcome = "none" /\ before = NoQuote

OracleIdle ==
    /\ clock = FirstTime /\ poolTick = 3
    /\ written = <<[at |-> FirstTime, sum |-> FirstSum]>>
    /\ ring = [i \in {0} |-> 1] /\ place = 0 /\ room = 1
    /\ secondsAgo = 2 /\ captured = 0 /\ copy = NoCopy

MCInit ==
    /\ Init
    /\ SlipInit
    /\ \/ part \in {"execute", "slipstream"} /\ WalkIdle /\ OracleIdle
       \/ part = "quote" /\ WalkInit /\ OracleIdle
       \/ part = "oracle" /\ WalkIdle /\ OracleInit

MCNext ==
    /\ UNCHANGED part
    /\ \/ part = "execute" /\ Next /\ UNCHANGED <<walkVars, oracleVars, slipVars>>
       \/ part = "quote" /\ WalkNext /\ UNCHANGED <<vars, oracleVars, slipVars>>
       \/ part = "oracle" /\ OracleNext /\ UNCHANGED <<vars, walkVars, slipVars>>
       \/ part = "slipstream" /\ SlipNext /\ UNCHANGED <<vars, walkVars, oracleVars>>

MCSpec == MCInit /\ [][MCNext]_<<part, vars, walkVars, oracleVars, slipVars>>
=============================================================================
