--------------------------- MODULE SpreadExecutor ---------------------------
(***************************************************************************)
(* The settlement contract (contracts/evm/spread/SpreadExecutor.sol): one  *)
(* transaction buys a base token at one venue and sells it at another with *)
(* the caller's quote tokens, and pays the proceeds back.                  *)
(*                                                                         *)
(* The venue calls are external: while one runs, the venue may use the     *)
(* allowance it was given, anybody may transfer tokens to the contract,    *)
(* and the contract's other functions may be called back.  A transaction   *)
(* takes effect as a whole: a revert restores what was there before it.    *)
(* Tokens transfer the stated amount or fail.                              *)
(***************************************************************************)
EXTENDS Naturals

CONSTANTS
    Tokens, Accounts,
    Venues,             \* venue targets; the selector of a call only decides if it is allowed
    AllowedBuy,         \* allowedBuyCalls
    AllowedSell,        \* allowedSellCalls
    InitialAdmin, InitialPauser,
    Amounts,            \* amounts an execution may name
    MaxBalance          \* bound: tokens the contract may hold of one kind

ASSUME SpreadAssumption ==
    /\ AllowedBuy \subseteq Venues /\ AllowedSell \subseteq Venues
    /\ InitialAdmin \in Accounts /\ InitialPauser \in Accounts
    /\ Amounts \subseteq Nat
    /\ MaxBalance \in Nat

VARIABLES
    bal,            \* balanceOf(contract), by token
    allowance,      \* allowance(contract, venue), by venue and token
    roles,          \* admin, pendingAdmin, pauser
    paused, entered,
    call            \* the execution in progress

vars == <<bal, allowance, roles, paused, entered, call>>

NoAccount == "zero address"
Balances == [Tokens -> Nat]
Allowances == [Venues -> Balances]
Roles == [admin : Accounts, pendingAdmin : Accounts \cup {NoAccount}, pauser : Accounts]

Executions ==
    [base : Tokens, quote : Tokens, buy : Venues, sell : Venues, baseAmount : Amounts,
     maximumQuoteIn : Amounts, minimumQuoteOut : Amounts, minimumQuoteProfit : Amounts,
     expired : BOOLEAN]

\* "saved" is what a revert restores; "returned" the quote paid back (history).
Saved == [bal : Balances, roles : Roles, paused : BOOLEAN]
Calls == [phase : {"buying", "selling", "settling"}, e : Executions, saved : Saved,
          afterBuy : Nat, spent : Nat, returned : Nat]
NoCall == [phase |-> "idle"]

NoAllowance == [v \in Venues |-> [t \in Tokens |-> 0]]

Init ==
    /\ bal = [t \in Tokens |-> 0]
    /\ allowance = NoAllowance
    /\ roles = [admin |-> InitialAdmin, pendingAdmin |-> NoAccount, pauser |-> InitialPauser]
    /\ paused = FALSE
    /\ entered = FALSE
    /\ call = NoCall

TypeOK ==
    /\ bal \in Balances
    /\ allowance \in Allowances
    /\ roles \in Roles
    /\ paused \in BOOLEAN
    /\ entered \in BOOLEAN
    /\ call = NoCall \/ call \in Calls

-----------------------------------------------------------------------------
(* executeSpread *)

Valid(e) ==
    /\ e.base # e.quote
    /\ e.buy # e.sell
    /\ e.baseAmount > 0 /\ e.maximumQuoteIn > 0 /\ e.minimumQuoteOut > 0
    /\ ~e.expired
    /\ e.buy \in AllowedBuy /\ e.sell \in AllowedSell

Approve(v, t, amount) == [allowance EXCEPT ![v][t] = amount]

\* Validation, the initial balances, the caller's quote tokens, the buy allowance,
\* and the venue call begins.
ExecuteBuy(e) ==
    /\ ~entered
    /\ ~paused
    /\ Valid(e)
    /\ bal[e.quote] + e.maximumQuoteIn <= MaxBalance
    /\ entered' = TRUE
    /\ bal' = [bal EXCEPT ![e.quote] = @ + e.maximumQuoteIn]
    /\ allowance' = Approve(e.buy, e.quote, e.maximumQuoteIn)
    /\ call' = [phase |-> "buying", e |-> e,
                saved |-> [bal |-> bal, roles |-> roles, paused |-> paused],
                afterBuy |-> 0, spent |-> 0, returned |-> 0]
    /\ UNCHANGED <<roles, paused>>

InitialBalance(t) == call.saved.bal[t]
BeforeBuy == InitialBalance(call.e.quote) + call.e.maximumQuoteIn

\* The buy returned: what it cost and what it bought, then the sell call begins.
ExecuteSell ==
    /\ call.phase = "buying"
    /\ LET e == call.e IN
          /\ bal[e.quote] <= BeforeBuy
          /\ bal[e.base] >= InitialBalance(e.base) + e.baseAmount
          /\ allowance' = [Approve(e.buy, e.quote, 0) EXCEPT ![e.sell][e.base] = e.baseAmount]
          /\ call' = [call EXCEPT !.phase = "selling", !.afterBuy = bal[e.quote],
                                  !.spent = BeforeBuy - bal[e.quote]]
    /\ UNCHANGED <<bal, roles, paused, entered>>

\* Mutant of SettleQuote: the allowance of the sell is left standing.
SettleQuoteApproved ==
    /\ call.phase = "selling"
    /\ LET e == call.e
           received == bal[e.quote] - call.afterBuy
       IN  /\ bal[e.quote] >= call.afterBuy
           /\ received >= e.minimumQuoteOut
           /\ received >= call.spent
           /\ received - call.spent >= e.minimumQuoteProfit
           /\ bal' = [bal EXCEPT ![e.quote] = InitialBalance(e.quote)]
           /\ call' = [call EXCEPT !.phase = "settling",
                                   !.returned = bal[e.quote] - InitialBalance(e.quote)]
    /\ UNCHANGED <<allowance, roles, paused, entered>>

\* Mutant of SettleQuote: the proceeds are not compared with the cost.
SettleQuoteAtLoss ==
    /\ call.phase = "selling"
    /\ LET e == call.e
           received == bal[e.quote] - call.afterBuy
       IN  /\ bal[e.quote] >= call.afterBuy
           /\ received >= e.minimumQuoteOut
           /\ allowance' = Approve(e.sell, e.base, 0)
           /\ bal' = [bal EXCEPT ![e.quote] = InitialBalance(e.quote)]
           /\ call' = [call EXCEPT !.phase = "settling",
                                   !.returned = bal[e.quote] - InitialBalance(e.quote)]
    /\ UNCHANGED <<roles, paused, entered>>

\* The sell returned: its proceeds pay for the buy with the wanted profit, and the
\* quote tokens above the initial balance go to the caller.
SettleQuote ==
    /\ call.phase = "selling"
    /\ LET e == call.e
           received == bal[e.quote] - call.afterBuy
       IN  /\ bal[e.quote] >= call.afterBuy
           /\ received >= e.minimumQuoteOut
           /\ received >= call.spent
           /\ received - call.spent >= e.minimumQuoteProfit
           /\ allowance' = Approve(e.sell, e.base, 0)
           /\ bal' = [bal EXCEPT ![e.quote] = InitialBalance(e.quote)]
           /\ call' = [call EXCEPT !.phase = "settling",
                                   !.returned = bal[e.quote] - InitialBalance(e.quote)]
    /\ UNCHANGED <<roles, paused, entered>>

\* The base tokens left over go to the caller too, and the transaction ends.
SettleBase ==
    /\ call.phase = "settling"
    /\ LET base == call.e.base IN
          bal' = [bal EXCEPT ![base] = IF @ > InitialBalance(base) THEN InitialBalance(base) ELSE @]
    /\ call' = NoCall
    /\ entered' = FALSE
    /\ UNCHANGED <<allowance, roles, paused>>

\* A check, a venue or a token fails: the whole transaction is undone.
Revert ==
    /\ call.phase # "idle"
    /\ bal' = call.saved.bal
    /\ roles' = call.saved.roles
    /\ paused' = call.saved.paused
    /\ allowance' = NoAllowance
    /\ entered' = FALSE
    /\ call' = NoCall

-----------------------------------------------------------------------------
(* The tokens and venues. *)

VenueTakes(v, t) ==
    \E amount \in 1..allowance[v][t] :
        /\ amount <= bal[t]
        /\ bal' = [bal EXCEPT ![t] = @ - amount]
        /\ allowance' = [allowance EXCEPT ![v][t] = @ - amount]
        /\ UNCHANGED <<roles, paused, entered, call>>

Deposit(t) ==
    /\ bal[t] < MaxBalance
    /\ bal' = [bal EXCEPT ![t] = @ + 1]
    /\ UNCHANGED <<allowance, roles, paused, entered, call>>

-----------------------------------------------------------------------------
(* Administration; callable during a venue call as well, except rescueToken. *)

Administer(newRoles, newPaused) ==
    /\ roles' = newRoles
    /\ paused' = newPaused
    /\ UNCHANGED <<bal, allowance, entered, call>>

Pause(sender) ==
    /\ sender = roles.admin \/ sender = roles.pauser
    /\ ~paused
    /\ Administer(roles, TRUE)

Unpause(sender) ==
    /\ sender = roles.admin
    /\ paused
    /\ Administer(roles, FALSE)

SetPauser(sender, newPauser) ==
    /\ sender = roles.admin
    /\ Administer([roles EXCEPT !.pauser = newPauser], paused)

TransferAdmin(sender, newAdmin) ==
    /\ sender = roles.admin
    /\ newAdmin # roles.admin
    /\ Administer([roles EXCEPT !.pendingAdmin = newAdmin], paused)

\* Mutant of AcceptAdmin: the pending admin is cleared before it is made the admin.
AcceptAdminCleared(sender) ==
    /\ sender = roles.pendingAdmin
    /\ Administer([roles EXCEPT !.admin = NoAccount, !.pendingAdmin = NoAccount], paused)

AcceptAdmin(sender) ==
    /\ sender = roles.pendingAdmin
    /\ Administer([roles EXCEPT !.admin = sender, !.pendingAdmin = NoAccount], paused)

\* Mutant of RescueToken: without nonReentrant.
RescueTokenReentrant(sender, t) ==
    /\ sender = roles.admin
    /\ paused
    /\ \E amount \in 1..bal[t] : bal' = [bal EXCEPT ![t] = @ - amount]
    /\ UNCHANGED <<allowance, roles, paused, entered, call>>

RescueToken(sender, t) ==
    /\ ~entered
    /\ sender = roles.admin
    /\ paused
    /\ \E amount \in 1..bal[t] : bal' = [bal EXCEPT ![t] = @ - amount]
    /\ UNCHANGED <<allowance, roles, paused, entered, call>>

Next ==
    \/ \E e \in Executions : ExecuteBuy(e)
    \/ ExecuteSell \/ SettleQuote \/ SettleBase \/ Revert
    \/ \E v \in Venues, t \in Tokens : VenueTakes(v, t)
    \/ \E t \in Tokens : Deposit(t)
    \/ \E s \in Accounts :
          \/ Pause(s) \/ Unpause(s) \/ AcceptAdmin(s)
          \/ \E a \in Accounts : SetPauser(s, a) \/ TransferAdmin(s, a)
          \/ \E t \in Tokens : RescueToken(s, t)

Spec == Init /\ [][Next]_vars

-----------------------------------------------------------------------------
(* Properties. *)

\* Between transactions no venue can move tokens of the contract, and the reentrancy
\* flag is down (_safeApprove to 0 after each venue call, nonReentrant).
NoAllowanceLeft == call = NoCall => allowance = NoAllowance /\ ~entered

\* An execution that pays out gives the caller back at least the quote tokens it took
\* and the profit it asked for.
ProfitHonoured ==
    call.phase = "settling"
        => call.returned >= call.e.maximumQuoteIn + call.e.minimumQuoteProfit

\* No execution, completed or reverted, leaves the contract with fewer tokens of any
\* kind than it held before, whatever the venues did and whoever called back.
KeepsOwn ==
    [][call # NoCall /\ call' = NoCall => \A t \in Tokens : bal'[t] >= call.saved.bal[t]]_vars
=============================================================================
