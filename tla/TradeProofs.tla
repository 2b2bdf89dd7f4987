---------------------------- MODULE TradeProofs ----------------------------
(***************************************************************************)
(* Theorems about a trade's two ends: SpreadExecutor, the contract that    *)
(* settles it, for all sets of tokens, accounts and venues, all allow      *)
(* lists and all amounts; SwapWalk, the local quote it is decided on, for  *)
(* all pools, prices, tick spacings, fees and requests; and FeeOracle, the *)
(* price history that fixes the fee of a quote, for all histories.         *)
(***************************************************************************)
EXTENDS SpreadExecutor, SwapWalk, FeeOracle, Induction, FiniteSetTheorems, TLAPS

-----------------------------------------------------------------------------
(* The contract. *)

(***************************************************************************)
(* The inductive invariant.  At every moment of an execution at most one   *)
(* allowance is live, and what the contract holds covers what it held      *)
(* before plus that allowance; the quote balance of the sell never falls   *)
(* below what the buy left.                                                *)
(***************************************************************************)
Executing == call.phase # "idle"

Live(v, t) ==
    \/ call.phase = "buying" /\ v = call.e.buy /\ t = call.e.quote
    \/ call.phase = "selling" /\ v = call.e.sell /\ t = call.e.base

OneAllowance == \A v \in Venues, t \in Tokens : allowance[v][t] = 0 \/ Live(v, t)
Locked == entered <=> Executing
Covered ==
    Executing => \A v \in Venues, t \in Tokens : bal[t] >= InitialBalance(t) + allowance[v][t]
Distinct == Executing => call.e.base # call.e.quote
Accounted ==
    call.phase = "selling" =>
        /\ call.afterBuy + call.spent = BeforeBuy
        /\ bal[call.e.quote] >= call.afterBuy
        /\ call.afterBuy >= InitialBalance(call.e.quote)

IInv == OneAllowance /\ Locked /\ Covered /\ Distinct /\ Accounted /\ ProfitHonoured

-----------------------------------------------------------------------------
(* Type correctness. *)

LEMMA CallTyped ==
  ASSUME TypeOK, Executing
  PROVE  /\ call \in Calls
         /\ call.e \in Executions /\ call.saved \in Saved
         /\ call.saved.bal \in Balances
         /\ call.e.base \in Tokens /\ call.e.quote \in Tokens
         /\ call.e.buy \in Venues /\ call.e.sell \in Venues
         /\ call.e.baseAmount \in Nat /\ call.e.maximumQuoteIn \in Nat
         /\ call.e.minimumQuoteOut \in Nat /\ call.e.minimumQuoteProfit \in Nat
         /\ call.afterBuy \in Nat /\ call.spent \in Nat /\ call.returned \in Nat
<1>1. call \in Calls
  BY DEF TypeOK, Executing, NoCall
<1>2. call.e \in Executions /\ call.saved \in Saved
  BY <1>1 DEF Calls
<1>3. Amounts \subseteq Nat
  BY SpreadAssumption
<1> QED
  BY <1>1, <1>2, <1>3 DEF Calls, Executions, Saved

LEMMA IdleCall == ASSUME TypeOK PROVE call = NoCall <=> ~Executing
  BY DEF TypeOK, Executing, NoCall, Calls

LEMMA ApproveTyped ==
  ASSUME NEW a \in Allowances, NEW v \in Venues, NEW t \in Tokens, NEW amount \in Nat
  PROVE  [a EXCEPT ![v][t] = amount] \in Allowances
  BY DEF Allowances, Balances

LEMMA ApproveAt ==
  ASSUME NEW a \in Allowances, NEW v \in Venues, NEW t \in Tokens, NEW amount \in Nat,
         NEW w \in Venues, NEW u \in Tokens
  PROVE  [a EXCEPT ![v][t] = amount][w][u] = IF w = v /\ u = t THEN amount ELSE a[w][u]
  BY DEF Allowances, Balances

LEMMA BalanceAt ==
  ASSUME NEW b \in Balances, NEW t \in Tokens, NEW amount \in Nat
  PROVE  /\ [b EXCEPT ![t] = amount] \in Balances
         /\ \A u \in Tokens : [b EXCEPT ![t] = amount][u] = IF u = t THEN amount ELSE b[u]
  BY DEF Balances

LEMMA NoneTyped == NoAllowance \in Allowances /\ \A v \in Venues, t \in Tokens : NoAllowance[v][t] = 0
  BY DEF NoAllowance, Allowances, Balances

\* During an execution the contract has at least what it held before.
LEMMA Keeps ==
  ASSUME TypeOK, Covered, Executing
  PROVE  \A t \in Tokens : /\ bal[t] \in Nat /\ InitialBalance(t) \in Nat
                            /\ bal[t] >= InitialBalance(t)
<1> SUFFICES ASSUME NEW t \in Tokens
             PROVE  /\ bal[t] \in Nat /\ InitialBalance(t) \in Nat
                    /\ bal[t] >= InitialBalance(t)
  OBVIOUS
<1>1. call.e.buy \in Venues /\ call.saved.bal \in Balances
  BY CallTyped
<1>2. /\ bal[t] \in Nat /\ InitialBalance(t) \in Nat
      /\ allowance[call.e.buy][t] \in Nat
  BY <1>1 DEF TypeOK, Balances, Allowances, InitialBalance
<1>3. bal[t] >= InitialBalance(t) + allowance[call.e.buy][t]
  BY <1>1 DEF Covered
<1> QED
  BY <1>2, <1>3

LEMMA InitType == Init => TypeOK
<1> SUFFICES ASSUME Init PROVE TypeOK
  OBVIOUS
<1>1. bal \in Balances /\ allowance \in Allowances
  BY NoneTyped DEF Init, Balances
<1>2. roles \in Roles
  BY SpreadAssumption DEF Init, Roles
<1> QED
  BY <1>1, <1>2 DEF Init, TypeOK

\* The contract's own steps keep the types.
LEMMA ExecuteBuyType ==
  ASSUME TypeOK, NEW e \in Executions, ExecuteBuy(e)
  PROVE  TypeOK'
<1>1. /\ e.base \in Tokens /\ e.quote \in Tokens /\ e.buy \in Venues /\ e.maximumQuoteIn \in Nat
  BY SpreadAssumption DEF Executions
<1>2. bal[e.quote] + e.maximumQuoteIn \in Nat
  BY <1>1 DEF TypeOK, Balances
<1>3. bal' \in Balances
  <2>1. bal' = [bal EXCEPT ![e.quote] = bal[e.quote] + e.maximumQuoteIn] /\ bal \in Balances
    BY DEF ExecuteBuy, TypeOK
  <2> QED
    BY <1>1, <1>2, <2>1 DEF Balances
<1>4. allowance' \in Allowances
  BY <1>1, ApproveTyped DEF ExecuteBuy, TypeOK, Approve
<1>5. call' \in Calls
  BY DEF ExecuteBuy, TypeOK, Calls, Saved
<1> QED
  BY <1>3, <1>4, <1>5 DEF ExecuteBuy, TypeOK

LEMMA ExecuteSellType ==
  ASSUME TypeOK, ExecuteSell
  PROVE  TypeOK'
<1>1. Executing
  BY DEF ExecuteSell, Executing
<1> USE <1>1, CallTyped
<1>2. bal[call.e.quote] \in Nat /\ BeforeBuy \in Nat /\ 0 \in Nat
  BY DEF TypeOK, Balances, BeforeBuy, InitialBalance
<1>3. BeforeBuy - bal[call.e.quote] \in Nat
  BY <1>2 DEF ExecuteSell
<1>4. call' \in Calls
  BY <1>2, <1>3 DEF ExecuteSell, Calls
<1>5. Approve(call.e.buy, call.e.quote, 0) \in Allowances
  BY <1>2, ApproveTyped DEF TypeOK, Approve
<1>6. allowance' \in Allowances
  BY <1>5, ApproveTyped DEF ExecuteSell
<1> QED
  BY <1>4, <1>6 DEF ExecuteSell, TypeOK

LEMMA SettleQuoteType ==
  ASSUME TypeOK, Covered, SettleQuote
  PROVE  TypeOK'
<1>1. Executing
  BY DEF SettleQuote, Executing
<1> USE <1>1, CallTyped
<1>2. /\ bal[call.e.quote] \in Nat /\ InitialBalance(call.e.quote) \in Nat /\ 0 \in Nat
      /\ allowance[call.e.buy][call.e.quote] \in Nat
  BY DEF TypeOK, Balances, Allowances, InitialBalance
<1>3. bal[call.e.quote] - InitialBalance(call.e.quote) \in Nat
  BY <1>2 DEF Covered
<1>4. call' \in Calls
  BY <1>3 DEF SettleQuote, Calls
<1>5. allowance' \in Allowances
  BY <1>2, ApproveTyped DEF SettleQuote, TypeOK, Approve
<1>6. bal' \in Balances
  BY <1>2, BalanceAt DEF SettleQuote, TypeOK
<1> QED
  BY <1>4, <1>5, <1>6 DEF SettleQuote, TypeOK

LEMMA EndType ==
  ASSUME TypeOK, SettleBase \/ Revert
  PROVE  TypeOK'
<1>1. Executing
  BY DEF SettleBase, Revert, Executing
<1> USE <1>1, CallTyped
<1>2. CASE SettleBase
  <2>1. InitialBalance(call.e.base) \in Nat /\ bal[call.e.base] \in Nat
    BY DEF TypeOK, Balances, InitialBalance
  <2>2. bal' \in Balances
    BY <1>2, <2>1, BalanceAt DEF SettleBase, TypeOK
  <2> QED
    BY <1>2, <2>2 DEF SettleBase, TypeOK
<1>3. CASE Revert
  BY <1>3, NoneTyped DEF Revert, TypeOK, Saved
<1> QED
  BY <1>2, <1>3

\* What the tokens, the venues and the administration may do at any moment.
Outside ==
    \/ \E v \in Venues, t \in Tokens : VenueTakes(v, t)
    \/ \E t \in Tokens : Deposit(t)
    \/ \E s \in Accounts, t \in Tokens : RescueToken(s, t)

Administration ==
    \E s \in Accounts :
        \/ Pause(s) \/ Unpause(s) \/ AcceptAdmin(s)
        \/ \E a \in Accounts : SetPauser(s, a) \/ TransferAdmin(s, a)

LEMMA OutsideType ==
  ASSUME TypeOK, Outside
  PROVE  TypeOK'
<1>1. ASSUME NEW v \in Venues, NEW t \in Tokens, VenueTakes(v, t) PROVE TypeOK'
  <2>1. PICK amount \in 1..allowance[v][t] :
           /\ amount <= bal[t]
           /\ bal' = [bal EXCEPT ![t] = @ - amount]
           /\ allowance' = [allowance EXCEPT ![v][t] = @ - amount]
    BY <1>1 DEF VenueTakes
  <2>2. bal[t] \in Nat /\ allowance[v][t] \in Nat
    BY DEF TypeOK, Balances, Allowances
  <2>3. bal[t] - amount \in Nat /\ allowance[v][t] - amount \in Nat
    BY <2>1, <2>2
  <2>4. bal' \in Balances /\ allowance' \in Allowances
    BY <2>1, <2>3, BalanceAt, ApproveTyped DEF TypeOK
  <2> QED
    BY <1>1, <2>4 DEF VenueTakes, TypeOK
<1>2. ASSUME NEW t \in Tokens, Deposit(t) PROVE TypeOK'
  <2>1. bal[t] + 1 \in Nat
    BY DEF TypeOK, Balances
  <2> QED
    BY <1>2, <2>1, BalanceAt DEF Deposit, TypeOK
<1>3. ASSUME NEW s \in Accounts, NEW t \in Tokens, RescueToken(s, t) PROVE TypeOK'
  <2>1. PICK amount \in 1..bal[t] : bal' = [bal EXCEPT ![t] = @ - amount]
    BY <1>3 DEF RescueToken
  <2>2. bal[t] - amount \in Nat
    BY <2>1 DEF TypeOK, Balances
  <2>3. bal' \in Balances
    BY <2>1, <2>2, BalanceAt DEF TypeOK
  <2> QED
    BY <1>3, <2>3 DEF RescueToken, TypeOK
<1> QED
  BY <1>1, <1>2, <1>3 DEF Outside

LEMMA AdministrationType ==
  ASSUME TypeOK, Administration
  PROVE  TypeOK' /\ UNCHANGED <<bal, allowance, entered, call>>
<1>1. roles' \in Roles /\ paused' \in BOOLEAN /\ UNCHANGED <<bal, allowance, entered, call>>
  BY DEF TypeOK, Administration, Administer, Pause, Unpause, SetPauser, TransferAdmin, AcceptAdmin,
         Roles
<1> QED
  BY <1>1 DEF TypeOK

-----------------------------------------------------------------------------
(* The invariant is inductive. *)

LEMMA InitInv == Init => IInv
  BY NoneTyped DEF Init, IInv, OneAllowance, Locked, Covered, Distinct, Accounted, ProfitHonoured,
                   Executing, NoCall

LEMMA ExecuteBuyInv ==
  ASSUME TypeOK, IInv, NEW e \in Executions, ExecuteBuy(e)
  PROVE  IInv'
<1>1. /\ e.base \in Tokens /\ e.quote \in Tokens /\ e.buy \in Venues /\ e.maximumQuoteIn \in Nat
      /\ e.base # e.quote
  BY SpreadAssumption DEF Executions, ExecuteBuy, Valid
<1>2. ~Executing /\ \A v \in Venues, t \in Tokens : allowance[v][t] = 0
  BY DEF IInv, Locked, ExecuteBuy, OneAllowance, Live, Executing
<1>3. /\ call'.phase = "buying" /\ call'.e = e /\ call'.saved.bal = bal /\ entered'
  BY DEF ExecuteBuy
<1>4. \A v \in Venues, t \in Tokens :
         allowance'[v][t] = IF v = e.buy /\ t = e.quote THEN e.maximumQuoteIn ELSE 0
  BY <1>1, <1>2, ApproveAt DEF ExecuteBuy, TypeOK, Approve
<1>5. bal[e.quote] + e.maximumQuoteIn \in Nat /\ \A t \in Tokens : bal[t] \in Nat
  BY <1>1 DEF TypeOK, Balances
<1>6. \A t \in Tokens : bal'[t] = IF t = e.quote THEN bal[e.quote] + e.maximumQuoteIn ELSE bal[t]
  BY <1>1, <1>5, BalanceAt DEF ExecuteBuy, TypeOK
<1>7. OneAllowance'
  BY <1>3, <1>4 DEF OneAllowance, Live
<1>8. Covered'
  BY <1>1, <1>3, <1>4, <1>5, <1>6 DEF Covered, InitialBalance
<1> QED
  BY <1>1, <1>3, <1>7, <1>8 DEF IInv, Locked, Distinct, Accounted, ProfitHonoured, Executing

LEMMA ExecuteSellInv ==
  ASSUME TypeOK, IInv, ExecuteSell
  PROVE  IInv'
<1>1. Executing
  BY DEF ExecuteSell, Executing
<1> USE <1>1, CallTyped
<1> DEFINE e == call.e
<1>2. /\ call'.phase = "selling" /\ call'.e = e /\ call'.saved = call.saved
      /\ call'.afterBuy = bal[e.quote] /\ call'.spent = BeforeBuy - bal[e.quote]
      /\ bal' = bal /\ entered' = entered
  BY DEF ExecuteSell, Calls
<1>3. e.base # e.quote
  BY DEF IInv, Distinct
<1>4. Approve(e.buy, e.quote, 0) \in Allowances
  BY ApproveTyped DEF Approve, TypeOK
<1>5. ASSUME NEW v \in Venues, NEW t \in Tokens
      PROVE  allowance'[v][t] = IF v = e.sell /\ t = e.base THEN e.baseAmount ELSE 0
  <2>1. allowance'[v][t] = IF v = e.sell /\ t = e.base THEN e.baseAmount
                           ELSE Approve(e.buy, e.quote, 0)[v][t]
    BY <1>4, ApproveAt DEF ExecuteSell
  <2>2. Approve(e.buy, e.quote, 0)[v][t] = IF v = e.buy /\ t = e.quote THEN 0 ELSE allowance[v][t]
    BY ApproveAt DEF Approve, TypeOK
  <2>3. allowance[v][t] = 0 \/ (v = e.buy /\ t = e.quote)
    BY DEF IInv, OneAllowance, Live, ExecuteSell
  <2> QED
    BY <2>1, <2>2, <2>3
<1>6. \A t \in Tokens : bal[t] \in Nat /\ InitialBalance(t) \in Nat
  BY Keeps DEF IInv
<1>7. \A t \in Tokens : bal[t] >= InitialBalance(t)
  BY Keeps DEF IInv
<1>8. OneAllowance'
  BY <1>2, <1>5 DEF OneAllowance, Live
<1>9. Covered'
  BY <1>2, <1>5, <1>6, <1>7 DEF Covered, InitialBalance, ExecuteSell
<1>10. Accounted'
  <2>1. BeforeBuy' = BeforeBuy /\ BeforeBuy \in Nat
    BY <1>2, <1>6 DEF BeforeBuy, InitialBalance
  <2> QED
    BY <1>2, <1>6, <1>7, <2>1 DEF Accounted, InitialBalance
<1> QED
  BY <1>2, <1>3, <1>8, <1>9, <1>10 DEF IInv, Locked, Distinct, ProfitHonoured, Executing

LEMMA SettleQuoteInv ==
  ASSUME TypeOK, IInv, SettleQuote
  PROVE  IInv'
<1>1. Executing
  BY DEF SettleQuote, Executing
<1> USE <1>1, CallTyped
<1> DEFINE e == call.e
<1>2. /\ call'.phase = "settling" /\ call'.e = e /\ call'.saved = call.saved
      /\ call'.returned = bal[e.quote] - InitialBalance(e.quote) /\ entered' = entered
  BY DEF SettleQuote, Calls
<1>3. e.base # e.quote
  BY DEF IInv, Distinct
<1>4. ASSUME NEW v \in Venues, NEW t \in Tokens
      PROVE  allowance'[v][t] = 0
  <2>1. allowance'[v][t] = IF v = e.sell /\ t = e.base THEN 0 ELSE allowance[v][t]
    BY ApproveAt DEF SettleQuote, Approve, TypeOK
  <2>2. allowance[v][t] = 0 \/ (v = e.sell /\ t = e.base)
    BY DEF IInv, OneAllowance, Live, SettleQuote
  <2> QED
    BY <2>1, <2>2
<1>5. \A t \in Tokens : bal[t] \in Nat /\ InitialBalance(t) \in Nat
  BY Keeps DEF IInv
<1>6. \A t \in Tokens : bal[t] >= InitialBalance(t)
  BY Keeps DEF IInv
<1>7. \A t \in Tokens : bal'[t] = IF t = e.quote THEN InitialBalance(e.quote) ELSE bal[t]
  BY <1>5, BalanceAt DEF SettleQuote, TypeOK
<1>8. Covered'
  BY <1>2, <1>4, <1>5, <1>6, <1>7 DEF Covered, InitialBalance
<1>9. ProfitHonoured'
  <2>1. /\ call.afterBuy + call.spent = InitialBalance(e.quote) + e.maximumQuoteIn
        /\ bal[e.quote] >= call.afterBuy
    BY DEF IInv, Accounted, SettleQuote, BeforeBuy
  <2>2. bal[e.quote] - call.afterBuy - call.spent >= e.minimumQuoteProfit
    BY DEF SettleQuote
  <2>3. bal[e.quote] - InitialBalance(e.quote) >= e.maximumQuoteIn + e.minimumQuoteProfit
    BY <1>5, <2>1, <2>2
  <2> QED
    BY <1>2, <2>3 DEF ProfitHonoured
<1>10. OneAllowance'
  BY <1>4 DEF OneAllowance
<1> QED
  BY <1>2, <1>3, <1>8, <1>9, <1>10 DEF IInv, Locked, Distinct, Accounted, Executing

\* An execution that ends, ends without an allowance and with the contract's tokens.
LEMMA EndInv ==
  ASSUME TypeOK, IInv, SettleBase \/ Revert
  PROVE  IInv' /\ \A t \in Tokens : bal'[t] >= InitialBalance(t)
<1>1. Executing
  BY DEF SettleBase, Revert, Executing
<1> USE <1>1, CallTyped
<1>2. call' = NoCall /\ ~entered'
  BY DEF SettleBase, Revert
<1>3. \A v \in Venues, t \in Tokens : allowance'[v][t] = 0
  <2>1. CASE SettleBase
    BY <2>1 DEF SettleBase, IInv, OneAllowance, Live
  <2>2. CASE Revert
    BY <2>2, NoneTyped DEF Revert
  <2> QED
    BY <2>1, <2>2
<1>4. \A t \in Tokens : bal[t] \in Nat /\ InitialBalance(t) \in Nat
  BY Keeps DEF IInv
<1>5. \A t \in Tokens : bal[t] >= InitialBalance(t)
  BY Keeps DEF IInv
<1>6. \A t \in Tokens : bal'[t] >= InitialBalance(t)
  <2>1. CASE SettleBase
    <3>1. \A t \in Tokens : bal'[t] = bal[t] \/ bal'[t] = InitialBalance(t)
      BY <2>1, <1>4 DEF SettleBase, TypeOK, Balances
    <3> QED
      BY <1>4, <1>5, <3>1
  <2>2. CASE Revert
    BY <1>4, <2>2 DEF Revert, InitialBalance
  <2> QED
    BY <2>1, <2>2
<1>7. IInv'
  BY <1>2, <1>3 DEF IInv, OneAllowance, Locked, Covered, Distinct, Accounted, ProfitHonoured,
                    Executing, NoCall
<1> QED
  BY <1>6, <1>7

\* A step that changes neither the execution nor its lock keeps the invariant when the
\* balances still cover the allowances and the quote balance of the sell is safe.
LEMMA OutsideInv ==
  ASSUME TypeOK, IInv, Outside
  PROVE  IInv'
<1>t. \A v \in Venues, t \in Tokens : bal[t] \in Nat /\ allowance[v][t] \in Nat
  BY DEF TypeOK, Balances, Allowances
<1>k. ASSUME UNCHANGED <<call, entered>>, OneAllowance', Covered',
             call.phase = "selling" => bal'[call.e.quote] >= call.afterBuy
      PROVE  IInv'
  BY <1>k DEF IInv, Locked, Distinct, Accounted, ProfitHonoured, Executing, BeforeBuy, InitialBalance
<1>1. ASSUME NEW w \in Venues, NEW u \in Tokens, VenueTakes(w, u) PROVE IInv'
  <2>1. PICK amount \in 1..allowance[w][u] :
           /\ amount <= bal[u]
           /\ bal' = [bal EXCEPT ![u] = @ - amount]
           /\ allowance' = [allowance EXCEPT ![w][u] = @ - amount]
    BY <1>1 DEF VenueTakes
  <2>2. amount \in Nat /\ bal[u] - amount \in Nat /\ allowance[w][u] - amount \in Nat
    BY <1>t, <2>1
  <2>3. \A t \in Tokens : bal'[t] = IF t = u THEN bal[u] - amount ELSE bal[t]
    BY <2>1, <2>2, BalanceAt DEF TypeOK
  <2>4. \A v \in Venues, t \in Tokens :
           allowance'[v][t] = IF v = w /\ t = u THEN allowance[w][u] - amount ELSE allowance[v][t]
    BY <2>1, <2>2, ApproveAt DEF TypeOK
  <2>5. allowance[w][u] # 0 /\ Live(w, u)
    BY <1>t, <2>1, <2>2 DEF IInv, OneAllowance
  <2>6. UNCHANGED <<call, entered>>
    BY <1>1 DEF VenueTakes
  <2>7. OneAllowance'
    BY <2>4, <2>5, <2>6 DEF IInv, OneAllowance, Live
  <2>8. Executing
    BY <2>5 DEF Live, Executing
  <2>9. \A t \in Tokens : InitialBalance(t) \in Nat
    BY <2>8, CallTyped DEF InitialBalance, Balances
  <2>10. ASSUME NEW v \in Venues, NEW t \in Tokens
         PROVE  bal'[t] >= InitialBalance(t) + allowance'[v][t]
    <3>1. /\ bal[t] >= InitialBalance(t) + allowance[v][t]
          /\ bal[u] >= InitialBalance(u) + allowance[w][u]
      BY <2>8 DEF IInv, Covered
    <3>2. v = w \/ t # u \/ allowance[v][t] = 0
      BY <2>5 DEF IInv, OneAllowance, Live
    <3> QED
      BY <1>t, <2>2, <2>3, <2>4, <2>9, <3>1, <3>2
  <2>11. Covered'
    BY <2>6, <2>10 DEF Covered, InitialBalance
  <2>12. call.phase = "selling" => bal'[call.e.quote] >= call.afterBuy
    <3>1. call.phase = "selling" => u # call.e.quote
      BY <2>5, <2>8 DEF Live, IInv, Distinct
    <3> QED
      BY <2>3, <2>8, <3>1, CallTyped DEF IInv, Accounted
  <2> QED
    BY <1>k, <2>6, <2>7, <2>11, <2>12
<1>2. ASSUME NEW u \in Tokens, Deposit(u) PROVE IInv'
  <2>1. \A t \in Tokens : bal'[t] = IF t = u THEN bal[u] + 1 ELSE bal[t]
    BY <1>t, <1>2, BalanceAt DEF Deposit, TypeOK
  <2>2. UNCHANGED <<call, entered, allowance>>
    BY <1>2 DEF Deposit
  <2>3. OneAllowance'
    BY <2>2 DEF IInv, OneAllowance, Live
  <2>4. Executing => \A t \in Tokens : InitialBalance(t) \in Nat
    BY CallTyped DEF InitialBalance, Balances
  <2>5. Covered'
    BY <1>t, <2>1, <2>2, <2>4 DEF IInv, Covered, InitialBalance, Executing
  <2>6. call.phase = "selling" => bal'[call.e.quote] >= call.afterBuy
    BY <1>t, <2>1, CallTyped DEF IInv, Accounted, Executing
  <2> QED
    BY <1>k, <2>2, <2>3, <2>5, <2>6
<1>3. ASSUME NEW s \in Accounts, NEW u \in Tokens, RescueToken(s, u) PROVE IInv'
  <2>1. ~Executing /\ UNCHANGED <<call, entered, allowance>>
    BY <1>3 DEF RescueToken, IInv, Locked
  <2>2. OneAllowance' /\ Covered'
    BY <2>1 DEF IInv, OneAllowance, Covered, Live, Executing
  <2> QED
    BY <1>k, <2>1, <2>2 DEF Executing
<1> QED
  BY <1>1, <1>2, <1>3 DEF Outside

LEMMA NextCases ==
  ASSUME Next
  PROVE  \/ \E e \in Executions : ExecuteBuy(e)
         \/ ExecuteSell \/ SettleQuote \/ SettleBase \/ Revert
         \/ Outside \/ Administration
  BY DEF Next, Outside, Administration

LEMMA SameInv == ASSUME IInv, UNCHANGED <<bal, allowance, entered, call>> PROVE IInv'
  BY DEF IInv, OneAllowance, Live, Locked, Covered, Distinct, Accounted, ProfitHonoured, Executing,
         BeforeBuy, InitialBalance

LEMMA Inductive ==
  ASSUME TypeOK, IInv, [Next]_vars
  PROVE  TypeOK' /\ IInv'
<1>1. ASSUME NEW e \in Executions, ExecuteBuy(e) PROVE TypeOK' /\ IInv'
  BY <1>1, ExecuteBuyType, ExecuteBuyInv
<1>2. CASE ExecuteSell
  BY <1>2, ExecuteSellType, ExecuteSellInv
<1>3. CASE SettleQuote
  BY <1>3, SettleQuoteType, SettleQuoteInv DEF IInv
<1>4. CASE SettleBase \/ Revert
  BY <1>4, EndType, EndInv
<1>5. CASE Outside
  BY <1>5, OutsideType, OutsideInv
<1>6. CASE Administration
  BY <1>6, AdministrationType, SameInv
<1>7. CASE UNCHANGED vars
  BY <1>7, SameInv DEF vars, TypeOK
<1> QED
  BY <1>1, <1>2, <1>3, <1>4, <1>5, <1>6, <1>7, NextCases

-----------------------------------------------------------------------------
(* The theorems. *)

\* The types and the inductive invariant hold in every reachable state.
THEOREM TypeCorrect == Spec => [](TypeOK /\ IInv)
<1>1. Init => TypeOK /\ IInv
  BY InitType, InitInv
<1>2. (TypeOK /\ IInv) /\ [Next]_vars => (TypeOK /\ IInv)'
  BY Inductive
<1> QED
  BY <1>1, <1>2, PTL DEF Spec

\* Whatever the venues and callers do, no allowance outlives the transaction that
\* approved it.
THEOREM AllowanceSafe == Spec => []NoAllowanceLeft
<1>1. TypeOK /\ IInv => NoAllowanceLeft
  <2> SUFFICES ASSUME TypeOK, IInv, call = NoCall PROVE allowance = NoAllowance /\ ~entered
    BY DEF NoAllowanceLeft
  <2>1. ~Executing
    BY IdleCall
  <2>2. \A v \in Venues, t \in Tokens : allowance[v][t] = 0
    BY <2>1 DEF IInv, OneAllowance, Live, Executing
  <2>3. \A v \in Venues : allowance[v] = [t \in Tokens |-> 0]
    BY <2>2 DEF TypeOK, Allowances, Balances
  <2>4. allowance = NoAllowance
    BY <2>3 DEF TypeOK, Allowances, NoAllowance
  <2> QED
    BY <2>1, <2>4 DEF IInv, Locked
<1> QED
  BY <1>1, TypeCorrect, PTL

\* A completed execution returns the quote tokens it took and the profit asked for.
THEOREM ProfitSafe == Spec => []ProfitHonoured
<1>1. TypeOK /\ IInv => ProfitHonoured
  BY DEF IInv
<1> QED
  BY <1>1, TypeCorrect, PTL

\* No execution costs the contract tokens it held before.
THEOREM KeepsOwnSafe == Spec => KeepsOwn
<1>1. (TypeOK /\ IInv) /\ [Next]_vars
        => [call # NoCall /\ call' = NoCall => \A t \in Tokens : bal'[t] >= call.saved.bal[t]]_vars
  <2> SUFFICES ASSUME TypeOK, IInv, Next, call # NoCall, call' = NoCall
               PROVE  \A t \in Tokens : bal'[t] >= call.saved.bal[t]
    OBVIOUS
  <2>1. Executing
    BY IdleCall
  <2>2. call'.phase = "idle"
    BY DEF NoCall
  <2>3. ~(\E e \in Executions : ExecuteBuy(e)) /\ ~ExecuteSell /\ ~SettleQuote
    <3>1. ASSUME NEW e \in Executions, ExecuteBuy(e) PROVE call'.phase = "buying"
      BY <3>1 DEF ExecuteBuy
    <3>2. ASSUME ExecuteSell PROVE call'.phase = "selling"
      BY <2>1, <3>2, CallTyped DEF ExecuteSell, Calls
    <3>3. ASSUME SettleQuote PROVE call'.phase = "settling"
      BY <2>1, <3>3, CallTyped DEF SettleQuote, Calls
    <3> QED
      BY <2>2, <3>1, <3>2, <3>3
  <2>4. ~Outside /\ ~Administration
    BY <2>1, <2>2, AdministrationType DEF Outside, VenueTakes, Deposit, RescueToken, Executing
  <2>5. SettleBase \/ Revert
    BY <2>3, <2>4, NextCases
  <2> QED
    BY <2>5, EndInv DEF InitialBalance
<1> QED
  BY <1>1, TypeCorrect, PTL DEF Spec, KeepsOwn

-----------------------------------------------------------------------------
(* Rounding. *)

\* c is n / d rounded up, f is n / d rounded down.
Ceils(c, n, d) == c \in Nat /\ n <= c * d /\ c * d < n + d
Floors(f, n, d) == f \in Nat /\ f * d <= n /\ n < f * d + d

\* CeilDiv rounds up: mulDivRoundingUp and divRoundingUp.
LEMMA CeilDivCeils == ASSUME NEW n \in Nat, NEW d \in Nat \ {0} PROVE Ceils(CeilDiv(n, d), n, d)
  BY DEF CeilDiv, Ceils

\* Division rounds down: mulDiv.
LEMMA DivFloors == ASSUME NEW n \in Nat, NEW d \in Nat \ {0} PROVE Floors(n \div d, n, d)
  BY DEF Floors

\* Rounding up takes the least number that suffices.
LEMMA CeilsOrder ==
  ASSUME NEW n \in Nat, NEW d \in Nat \ {0}, NEW c, Ceils(c, n, d), NEW x \in Nat
  PROVE  (n <= x * d => c <= x) /\ (x < c => x * d < n) /\ (x * d < n => x < c)
<1>1. ASSUME c <= x - 1 PROVE n <= (x - 1) * d /\ x * d >= n
  BY <1>1 DEF Ceils
<1>2. ASSUME x + 1 <= c PROVE (x + 1) * d <= c * d /\ x * d < n
  BY <1>2 DEF Ceils
<1>3. c = x => n <= x * d
  BY DEF Ceils
<1>4. c \in Nat
  BY DEF Ceils
<1>5. x * d \in Nat
  OBVIOUS
<1> QED
  BY <1>1, <1>2, <1>3, <1>4, <1>5

\* Rounding down takes the largest number that fits.
LEMMA FloorsOrder ==
  ASSUME NEW n \in Nat, NEW d \in Nat \ {0}, NEW f, Floors(f, n, d), NEW x \in Nat
  PROVE  (x * d <= n => x <= f) /\ (x < f => x * d + d <= n) /\ (x <= f => x * d <= n)
<1>1. ASSUME x + 1 <= f PROVE (x + 1) * d <= f * d /\ x * d + d <= n
  BY <1>1 DEF Floors
<1>2. ASSUME f + 1 <= x PROVE f * d + d <= x * d /\ n < x * d
  BY <1>2 DEF Floors
<1>3. f = x => x * d <= n
  BY DEF Floors
<1>4. f \in Nat /\ x * d \in Nat
  BY DEF Floors
<1> QED
  BY <1>1, <1>2, <1>3, <1>4

\* The two roundings of a quotient differ by one at most.
LEMMA CeilsAboveFloor ==
  ASSUME NEW n \in Nat, NEW d \in Nat \ {0}, NEW c, Ceils(c, n, d), NEW f, Floors(f, n, d)
  PROVE  c <= f + 1
<1>1. n <= (f + 1) * d /\ f + 1 \in Nat
  BY DEF Floors
<1> QED
  BY <1>1, CeilsOrder

\* Downwards with an exact input, the price stays short of the target and the amount pays
\* for the way.
LEMMA InZero ==
  ASSUME NEW p \in Nat \ {0}, NEW t \in Nat \ {0}, t <= p, NEW n \in Nat \ {0}, NEW a \in Nat,
         a * (t * p) < n * (p - t), NEW d \in Nat \ {0}, d = n + a * p,
         NEW x, Ceils(x, n * p, d)
  PROVE  t < x /\ x <= p /\ n * (p - x) <= a * (x * p)
<1>0. n * p \in Nat
  OBVIOUS
<1>1. t * d < n * p
  OBVIOUS
<1>2. n * p <= p * d
  OBVIOUS
<1>3. t < x /\ x <= p
  BY <1>0, <1>1, <1>2, CeilsOrder
<1>4. x \in Nat /\ n * p <= x * d
  BY DEF Ceils
<1>5. n * (p - x) <= a * (x * p)
  BY <1>4
<1> QED
  BY <1>3, <1>5

\* The same with the contract's fallback.
LEMMA InZeroFallback ==
  ASSUME NEW p \in Nat \ {0}, NEW t \in Nat \ {0}, t <= p, NEW n \in Nat \ {0}, NEW a \in Nat \ {0},
         a * (t * p) < n * (p - t), NEW d \in Nat \ {0}, d = n + a * p,
         NEW k, Floors(k, n, p), NEW e \in Nat \ {0}, e = k + a,
         NEW x, Ceils(x, n, e)
  PROVE  t < x /\ x <= p /\ n * (p - x) <= a * (x * p)
<1>0. k \in Nat /\ k * p <= n /\ n < k * p + p /\ x \in Nat /\ n <= x * e
  BY DEF Floors, Ceils
<1>1. p * e <= d /\ n <= p * e
  BY <1>0
<1>2. x <= p
  BY <1>1, CeilsOrder
<1>3. n * p <= x * d
  <2>1. n * p <= (x * e) * p
    BY <1>0
  <2>2. (x * e) * p <= x * d
    BY <1>0, <1>1
  <2> QED
    BY <2>1, <2>2, <1>0
<1>4. t * d < n * p
  OBVIOUS
<1>5. t < x
  BY <1>0, <1>3, <1>4
<1>6. n * (p - x) <= a * (x * p)
  BY <1>0, <1>3
<1> QED
  BY <1>2, <1>5, <1>6

\* Upwards with an exact input of token 1, the price stays short of the target and the
\* amount pays for the way.
LEMMA InUp ==
  ASSUME NEW p \in Nat, NEW t \in Nat, p <= t, NEW l \in Nat \ {0}, NEW q \in Nat \ {0}, NEW a \in Nat,
         a * q < l * (t - p), NEW k \in Nat, k * l <= a * q
  PROVE  k \in Nat /\ p + k < t /\ l * k <= a * q
<1>1. k * l < l * (t - p)
  OBVIOUS
<1>2. k < t - p
  BY <1>1
<1> QED
  BY <1>2

\* Downwards with an exact output of token 1, the price stops at or before the target and
\* the way brings the output.
LEMMA OutZero ==
  ASSUME NEW p \in Nat, NEW t \in Nat \ {0}, t <= p, NEW l \in Nat \ {0}, NEW q \in Nat \ {0}, NEW a \in Nat,
         a * q + q <= l * (p - t), NEW k, Ceils(k, a * q, l)
  PROVE  k < p /\ t <= p - k /\ a * q <= l * k
<1>1. p - t \in Nat /\ a * q <= (p - t) * l /\ a * q \in Nat
  OBVIOUS
<1>2. k <= p - t
  BY <1>1, CeilsOrder
<1>3. k \in Nat /\ a * q <= k * l
  BY DEF Ceils
<1> QED
  BY <1>1, <1>2, <1>3

\* Upwards with an exact output of token 0, the divisor of the new price is positive: the
\* output is less than the liquidity up to the target holds.
LEMMA OutUpDivisor ==
  ASSUME NEW p \in Nat \ {0}, NEW t \in Nat \ {0}, NEW n \in Nat \ {0}, NEW a \in Nat,
         a * (p * t) + p * t <= n * (t - p)
  PROVE  n - a * p \in Nat \ {0}
<1>1. (a * p) * t < n * t
  OBVIOUS
<1>2. a * p < n
  BY <1>1
<1> QED
  BY <1>2

\* Upwards with an exact output of token 0, the price stops at or before the target and the
\* way brings the output.
LEMMA OutUp ==
  ASSUME NEW p \in Nat \ {0}, NEW t \in Nat \ {0}, p <= t, NEW n \in Nat \ {0}, NEW a \in Nat,
         a * (p * t) + p * t <= n * (t - p), NEW d \in Nat \ {0}, d = n - a * p,
         NEW x, Ceils(x, n * p, d)
  PROVE  p <= x /\ x <= t /\ a * (p * x) <= n * (x - p)
<1>0. x \in Nat /\ n * p <= x * d /\ n * p \in Nat
  BY DEF Ceils
<1>1. p * d <= n * p
  OBVIOUS
<1>2. n * p <= t * d
  OBVIOUS
<1>3. x <= t
  BY <1>0, <1>2, CeilsOrder
<1>4. p <= x
  BY <1>0, <1>1
<1>5. a * (p * x) <= n * (x - p)
  BY <1>0
<1> QED
  BY <1>3, <1>4, <1>5

\* An input that fits what is left after the fee, and the fee on it, rounded up, are no more
\* than what is left.
LEMMA FeeFits ==
  ASSUME NEW u \in Nat \ {0}, NEW f \in Nat, f < u, NEW r \in Nat, NEW x \in Nat, NEW v,
         Floors(v, r * (u - f), u), x <= v, NEW c, Ceils(c, x * f, u - f)
  PROVE  x + c <= r
<1>1. u - f \in Nat \ {0} /\ r * (u - f) \in Nat /\ x * f \in Nat
  OBVIOUS
<1>2. x * u <= r * (u - f)
  BY <1>1, FloorsOrder
<1>3. x <= r /\ x * f <= (r - x) * (u - f)
  BY <1>2
<1>4. c \in Nat /\ c <= r - x
  <2>1. r - x \in Nat
    BY <1>3
  <2> QED
    BY <1>1, <1>3, <2>1, CeilsOrder DEF Ceils
<1> QED
  BY <1>3, <1>4

\* An input rounded up and its fee exceed the unrounded amount with its fee by two units of
\* rounding at most.
LEMMA FeeBound ==
  ASSUME NEW u \in Nat \ {0}, NEW f \in Nat, f < u, NEW x \in Nat, NEW t \in Nat, x <= t + 1,
         NEW c, Ceils(c, x * f, u - f)
  PROVE  (x + c) * (u - f) <= (t + 1) * u + (u - f)
<1>1. u - f \in Nat \ {0} /\ x * f \in Nat
  OBVIOUS
<1>2. c \in Nat /\ c * (u - f) <= x * f + (u - f)
  BY <1>1 DEF Ceils
<1>3. (x + c) * (u - f) <= x * u + (u - f)
  BY <1>2, <1>1
<1>4. x * u <= (t + 1) * u
  OBVIOUS
<1> QED
  BY <1>2, <1>3, <1>4

\* Amounts of token 1 along a way add up: at most those of the larger liquidity for the
\* whole way.
LEMMA Telescope1 ==
  ASSUME NEW q \in Nat, NEW l \in Nat, NEW m \in Nat, l <= m, NEW s \in Nat, NEW x \in Nat,
         NEW a \in Nat, NEW b \in Nat, s * q <= m * a, x * q <= l * b
  PROVE  (s + x) * q <= m * (a + b)
<1>1. l * b <= m * b
  OBVIOUS
<1> QED
  BY <1>1

\* The same for token 0, whose amount is a difference of inverse prices.
LEMMA Telescope0 ==
  ASSUME NEW m \in Nat, NEW n \in Nat, n <= m, NEW s \in Nat, NEW x \in Nat,
         NEW o \in Nat \ {0}, NEW p \in Nat \ {0}, NEW r \in Nat \ {0}, 
         \/ o <= p /\ p <= r /\ s * (o * p) <= m * (p - o) /\ x * (p * r) <= n * (r - p)
         \/ r <= p /\ p <= o /\ s * (o * p) <= m * (o - p) /\ x * (p * r) <= n * (p - r)
  PROVE  (s + x) * (o * r) <= m * (IF o <= r THEN r - o ELSE o - r)
<1>1. CASE o <= p /\ p <= r /\ s * (o * p) <= m * (p - o) /\ x * (p * r) <= n * (r - p)
  <2>1. x * (p * r) <= m * (r - p)
    BY <1>1
  <2>2. (s * (o * p)) * r <= (m * (p - o)) * r
    BY <1>1
  <2>3. (x * (p * r)) * o <= (m * (r - p)) * o
    BY <1>1, <2>1
  <2>4. ((s + x) * (o * r)) * p <= (m * (r - o)) * p
    BY <1>1, <2>2, <2>3
  <2>5. (s + x) * (o * r) <= m * (r - o)
    <3> DEFINE y == (s + x) * (o * r)
               z == m * (r - o)
    <3>1. y \in Int /\ z \in Int /\ y * p <= z * p
      BY <1>1, <2>4
    <3> HIDE DEF y, z
    <3>2. y <= z
      BY <3>1
    <3> QED
      BY <3>2 DEF y, z
  <2> QED
    BY <1>1, <2>5
<1>2. CASE r <= p /\ p <= o /\ s * (o * p) <= m * (o - p) /\ x * (p * r) <= n * (p - r)
  <2>1. x * (p * r) <= m * (p - r)
    BY <1>2
  <2>2. (s * (o * p)) * r <= (m * (o - p)) * r
    BY <1>2
  <2>3. (x * (p * r)) * o <= (m * (p - r)) * o
    BY <1>2, <2>1
  <2>4. ((s + x) * (o * r)) * p <= (m * (o - r)) * p
    BY <1>2, <2>2, <2>3
  <2>5. (s + x) * (o * r) <= m * (o - r)
    <3> DEFINE y == (s + x) * (o * r)
               z == m * (o - r)
    <3>1. y \in Int /\ z \in Int /\ y * p <= z * p
      BY <1>2, <2>4
    <3> HIDE DEF y, z
    <3>2. y <= z
      BY <3>1
    <3> QED
      BY <3>2 DEF y, z
  <2>6. o <= r => o - r = r - o
    BY <1>2
  <2> QED
    BY <1>2, <2>5, <2>6
<1> QED
  BY <1>1, <1>2

-----------------------------------------------------------------------------
(* The price of a swap step. *)

\* The unrounded amount of a token between two prices is Num / Den.
Gap(a, b) == IF a < b THEN b - a ELSE a - b
Num(a, b, l, token0) == IF token0 THEN l * Gap(a, b) * Q ELSE l * Gap(a, b)
Den(a, b, token0) == IF token0 THEN a * b ELSE Q

\* The unrounded amount between two prices is a quotient of natural numbers.
LEMMA NumDen ==
  ASSUME NEW a \in Nat \ {0}, NEW b \in Nat \ {0}, NEW l \in Nat, NEW token0 \in BOOLEAN
  PROVE  Num(a, b, l, token0) \in Nat /\ Den(a, b, token0) \in Nat \ {0}
<1>0. Q \in Nat \ {0}
  BY WalkAssumption
<1>1. Num(a, b, l, token0) \in Nat
  <2>1. Gap(a, b) \in Nat
    BY DEF Gap
  <2>2. l * Gap(a, b) \in Nat
    BY <2>1
  <2>3. (l * Gap(a, b)) * Q \in Nat
    BY <2>2, <1>0
  <2> QED
    BY <2>2, <2>3 DEF Num
<1>2. Den(a, b, token0) \in Nat \ {0}
  <2>1. a * b \in Nat \ {0}
    OBVIOUS
  <2> QED
    BY <1>0, <2>1 DEF Den
<1> QED
  BY <1>1, <1>2

\* The amount between two prices, rounded.
LEMMA AmountRounds ==
  ASSUME NEW a \in Nat \ {0}, NEW b \in Nat \ {0}, NEW l \in Nat, NEW token0 \in BOOLEAN
  PROVE  /\ Ceils(AmountDelta(a, b, l, token0, TRUE), Num(a, b, l, token0), Den(a, b, token0))
         /\ Floors(AmountDelta(a, b, l, token0, FALSE), Num(a, b, l, token0), Den(a, b, token0))
<1> DEFINE num == Num(a, b, l, token0)
           den == Den(a, b, token0)
<1>1. num \in Nat /\ den \in Nat \ {0}
  BY NumDen
<1>2. /\ AmountDelta(a, b, l, token0, TRUE) = CeilDiv(num, den)
      /\ AmountDelta(a, b, l, token0, FALSE) = num \div den
  <2>1. CASE a < b
    BY <2>1 DEF AmountDelta, Num, Den, Gap
  <2>2. CASE ~(a < b)
    <3>1. b * a = a * b
      OBVIOUS
    <3> QED
      BY <2>2, <3>1 DEF AmountDelta, Num, Den, Gap
  <2> QED
    BY <2>1, <2>2
<1> HIDE DEF num, den
<1>3. Ceils(CeilDiv(num, den), num, den) /\ Floors(num \div den, num, den)
  BY <1>1, CeilDivCeils, DivFloors
<1> QED
  BY <1>2, <1>3 DEF num, den

\* An amount rounded up or down, compared with a number.
LEMMA AmountAgainst ==
  ASSUME NEW a \in Nat \ {0}, NEW b \in Nat \ {0}, NEW l \in Nat, NEW token0 \in BOOLEAN, NEW x \in Nat
  PROVE  /\ AmountDelta(a, b, l, token0, TRUE) \in Nat /\ AmountDelta(a, b, l, token0, FALSE) \in Nat
         /\ Num(a, b, l, token0) <= x * Den(a, b, token0) => AmountDelta(a, b, l, token0, TRUE) <= x
         /\ x * Den(a, b, token0) <= Num(a, b, l, token0) => x <= AmountDelta(a, b, l, token0, FALSE)
<1> DEFINE num == Num(a, b, l, token0)
           den == Den(a, b, token0)
           up == AmountDelta(a, b, l, token0, TRUE)
           down == AmountDelta(a, b, l, token0, FALSE)
<1>1. num \in Nat /\ den \in Nat \ {0}
  BY NumDen
<1>2. Ceils(up, num, den) /\ Floors(down, num, den)
  BY AmountRounds
<1> SUFFICES /\ up \in Nat /\ down \in Nat
             /\ num <= x * den => up <= x
             /\ x * den <= num => x <= down
  OBVIOUS
<1> HIDE DEF num, den, up, down
<1>3. up \in Nat /\ down \in Nat
  BY <1>2 DEF Ceils, Floors
<1>4. num <= x * den => up <= x
  BY <1>1, <1>2, CeilsOrder
<1>5. x * den <= num => x <= down
  BY <1>1, <1>2, FloorsOrder
<1> QED
  BY <1>3, <1>4, <1>5

\* x lies between the price and the target.
Between(p, x, target, zero) ==
  IF zero THEN target <= x /\ x <= p ELSE p <= x /\ x <= target

\* The target does not lie behind the price.
Ahead(p, target, zero) == IF zero THEN target <= p ELSE p <= target

\* x is a price for the amount a: not past the target, short of it with an input, which
\* pays for the way, and far enough for an output.
PriceFits(x, p, target, l, a, zero, input) ==
  /\ x \in Nat \ {0} /\ Between(p, x, target, zero)
  /\ input => /\ x # target
              /\ AmountDelta(p, x, l, zero, TRUE) <= a
  /\ ~input => a <= AmountDelta(p, x, l, ~zero, FALSE)

\* What NextPrice gives for less than the amount up to the target.
LEMMA PriceWithin ==
  ASSUME NEW p \in Nat \ {0}, NEW target \in Nat \ {0}, NEW l \in Nat, NEW a \in Nat,
         NEW zero \in BOOLEAN, NEW input \in BOOLEAN,
         Ahead(p, target, zero), l * Q <= MaxUint,
         a < AmountDelta(p, target, l, zero = input, input),
         NEW x, x = NextPrice(p, l, a, zero, input)
  PROVE  PriceFits(x, p, target, l, a, zero, input)
<1> DEFINE n == l * Q
           token0 == (zero = input)
           num == Num(p, target, l, token0)
           den == Den(p, target, token0)
           most == AmountDelta(p, target, l, token0, input)
<1>0. Q \in Nat \ {0} /\ MaxUint \in Nat \ {0}
  BY WalkAssumption
<1>1. num \in Nat /\ den \in Nat \ {0} /\ token0 \in BOOLEAN
  BY NumDen
<1>11. IF input THEN Ceils(most, num, den) ELSE Floors(most, num, den)
  BY AmountRounds
<1>2. l \in Nat \ {0}
  <2> SUFFICES ASSUME l = 0 PROVE FALSE
    OBVIOUS
  <2>1. num = 0
    <3>1. Gap(p, target) \in Nat
      BY DEF Gap
    <3> QED
      BY <1>0, <3>1 DEF Num
  <2> HIDE DEF num, den, most, token0
  <2>2. num <= 0 * den /\ most \in Nat
    BY <1>1, <1>11, <2>1 DEF Ceils, Floors
  <2>3. most <= 0
    <3>1. CASE input
      BY <1>1, <1>11, <2>2, <3>1, CeilsOrder
    <3>2. CASE ~input
      BY <1>1, <1>11, <2>1, <3>2 DEF Floors
    <3> QED
      BY <3>1, <3>2
  <2> QED
    BY <2>2, <2>3 DEF most, token0
<1>3. n \in Nat \ {0} /\ n <= MaxUint
  BY <1>0, <1>2
<1>4. IF input THEN a * den < num ELSE a * den + den <= num
  <2>1. a < most
    OBVIOUS
  <2> HIDE DEF num, den, most
  <2> QED
    BY <1>1, <1>11, <2>1, CeilsOrder, FloorsOrder
<1> HIDE DEF most
<1>5. CASE zero /\ input
  <2>1. num = n * (p - target) /\ den = target * p
    <3>1. Gap(p, target) = p - target
      BY <1>5 DEF Gap, Ahead
    <3>2. token0
      BY <1>5
    <3>3. num = l * (p - target) * Q /\ den = p * target
      BY <3>1, <3>2 DEF Num, Den
    <3>4. l * (p - target) * Q = (l * Q) * (p - target)
      BY <1>0
    <3>5. p * target = target * p
      OBVIOUS
    <3> QED
      BY <3>3, <3>4, <3>5
  <2>2. a * (target * p) < n * (p - target) /\ target <= p
    BY <1>4, <1>5, <2>1 DEF Ahead
  <2> DEFINE d == n + a * p
  <2>3. d \in Nat \ {0} /\ n * p \in Nat /\ a * p \in Nat
    BY <1>3
  <2>4. target < x /\ x <= p /\ n * (p - x) <= a * (x * p) /\ x \in Nat
    <3>1. CASE a * p > MaxUint \/ d > MaxUint
      <4> DEFINE e == n \div p + a
      <4>1. a \in Nat \ {0}
        <5>1. a = 0 => a * p = 0 /\ d = n
          BY <1>3
        <5> QED
          BY <1>0, <1>3, <3>1, <5>1
      <4>2. e \in Nat \ {0}
        BY <1>3, <4>1, DivFloors DEF Floors
      <4>3. x = CeilDiv(n, e)
        BY <1>5, <2>3, <3>1 DEF NextPrice
      <4> HIDE DEF n
      <4>4. Ceils(x, n, e)
        <5> HIDE DEF e
        <5> QED
          BY <1>3, <4>2, <4>3, CeilDivCeils
      <4>5. e = n \div p + a /\ d = n + a * p /\ Floors(n \div p, n, p)
        BY <1>3, DivFloors
      <4> HIDE DEF e, d
      <4>6. target < x /\ x <= p /\ n * (p - x) <= a * (x * p)
        BY <1>3, <2>2, <2>3, <4>1, <4>2, <4>4, <4>5, InZeroFallback
      <4> QED
        BY <4>4, <4>6 DEF Ceils
    <3>2. CASE ~(a * p > MaxUint \/ d > MaxUint)
      <4>1. x = CeilDiv(n * p, d)
        BY <1>5, <2>3, <3>2 DEF NextPrice
      <4> HIDE DEF n
      <4>2. Ceils(x, n * p, d)
        <5> HIDE DEF d
        <5> QED
          BY <2>3, <4>1, CeilDivCeils
      <4>3. d = n + a * p
        OBVIOUS
      <4> HIDE DEF d
      <4>4. target < x /\ x <= p /\ n * (p - x) <= a * (x * p)
        BY <1>3, <2>2, <2>3, <4>2, <4>3, InZero
      <4> QED
        BY <4>2, <4>4 DEF Ceils
    <3> QED
      BY <3>1, <3>2
  <2>5. AmountDelta(p, x, l, zero, TRUE) <= a
    <3>1. x \in Nat \ {0} /\ Gap(p, x) = p - x
      BY <2>4 DEF Gap
    <3>2. Num(p, x, l, zero) = n * (p - x)
      <4>1. l * (p - x) * Q = (l * Q) * (p - x)
        BY <1>0, <2>4
      <4> QED
        BY <1>5, <3>1, <4>1 DEF Num
    <3>3. Den(p, x, zero) = x * p
      <4>1. p * x = x * p
        BY <2>4
      <4> QED
        BY <1>5, <4>1 DEF Den
    <3>4. Num(p, x, l, zero) <= a * Den(p, x, zero)
      BY <2>4, <3>2, <3>3
    <3> QED
      BY <3>1, <3>4, AmountAgainst
  <2> QED
    <3>0. target <= x /\ x <= p /\ x # target /\ x \in Nat \ {0}
      BY <2>4
    <3>1. Between(p, x, target, zero) /\ x # target /\ x \in Nat \ {0}
      BY <1>5, <3>0 DEF Between
    <3> QED
      BY <1>5, <2>5, <3>1 DEF PriceFits
<1>6. CASE ~zero /\ input
  <2>1. num = l * (target - p) /\ den = Q
    <3>1. Gap(p, target) = target - p
      BY <1>6 DEF Gap, Ahead
    <3>2. ~token0
      BY <1>6
    <3> QED
      BY <3>1, <3>2 DEF Num, Den
  <2>2. a * Q < l * (target - p) /\ p <= target
    BY <1>4, <1>6, <2>1 DEF Ahead
  <2> DEFINE k == (a * Q) \div l
  <2>3. x = p + k
    BY <1>6 DEF NextPrice
  <2>4. k \in Nat /\ k * l <= a * Q
    <3>1. a * Q \in Nat
      BY <1>0
    <3> QED
      BY <1>2, <3>1, DivFloors DEF Floors
  <2> HIDE DEF k
  <2>5. p + k < target /\ l * k <= a * Q
    BY <1>0, <1>2, <2>2, <2>4, InUp
  <2>6. x \in Nat \ {0} /\ p <= x /\ x < target
    BY <2>3, <2>4, <2>5
  <2>7. AmountDelta(p, x, l, zero, TRUE) <= a
    <3>1. Gap(p, x) = k
      BY <2>3, <2>4 DEF Gap
    <3>2. Num(p, x, l, zero) = l * k /\ Den(p, x, zero) = Q
      BY <1>6, <3>1 DEF Num, Den
    <3>4. Num(p, x, l, zero) <= a * Den(p, x, zero)
      BY <2>5, <3>2
    <3> QED
      BY <2>6, <3>4, AmountAgainst
  <2> QED
    <3>0. p <= x /\ x <= target /\ x # target /\ x \in Nat \ {0}
      BY <2>6
    <3>1. Between(p, x, target, zero) /\ x # target /\ x \in Nat \ {0}
      BY <1>6, <3>0 DEF Between
    <3> QED
      BY <1>6, <2>7, <3>1 DEF PriceFits
<1>7. CASE zero /\ ~input
  <2>1. num = l * (p - target) /\ den = Q
    <3>1. Gap(p, target) = p - target
      BY <1>7 DEF Gap, Ahead
    <3>2. ~token0
      BY <1>7
    <3> QED
      BY <3>1, <3>2 DEF Num, Den
  <2>2. a * Q + Q <= l * (p - target) /\ target <= p
    BY <1>4, <1>7, <2>1 DEF Ahead
  <2> DEFINE k == CeilDiv(a * Q, l)
  <2>3. Ceils(k, a * Q, l) /\ k \in Nat
    <3>1. a * Q \in Nat
      BY <1>0
    <3> QED
      BY <1>2, <3>1, CeilDivCeils DEF Ceils
  <2>4. x = IF p > k THEN p - k ELSE NoPrice
    BY <1>7 DEF NextPrice
  <2> HIDE DEF k
  <2>5. k < p /\ target <= p - k /\ a * Q <= l * k
    BY <1>0, <1>2, <2>2, <2>3, OutZero
  <2>6. x = p - k /\ x \in Nat \ {0} /\ target <= x /\ x <= p
    BY <2>3, <2>4, <2>5
  <2>7. a <= AmountDelta(p, x, l, ~zero, FALSE)
    <3>1. Gap(p, x) = k
      BY <2>3, <2>6 DEF Gap
    <3>2. Num(p, x, l, ~zero) = l * k /\ Den(p, x, ~zero) = Q
      BY <1>7, <3>1 DEF Num, Den
    <3>4. a * Den(p, x, ~zero) <= Num(p, x, l, ~zero)
      BY <2>5, <3>2
    <3> QED
      BY <2>6, <3>4, AmountAgainst
  <2> QED
    <3>1. Between(p, x, target, zero) /\ x \in Nat \ {0}
      BY <1>7, <2>6 DEF Between
    <3> QED
      BY <1>7, <2>7, <3>1 DEF PriceFits
<1>8. CASE ~zero /\ ~input
  <2>1. num = n * (target - p) /\ den = p * target
    <3>1. Gap(p, target) = target - p
      BY <1>8 DEF Gap, Ahead
    <3>2. token0
      BY <1>8
    <3>3. num = l * (target - p) * Q /\ den = p * target
      BY <3>1, <3>2 DEF Num, Den
    <3>4. l * (target - p) * Q = (l * Q) * (target - p)
      BY <1>0
    <3> QED
      BY <3>3, <3>4
  <2>2. a * (p * target) + p * target <= n * (target - p) /\ p <= target
    BY <1>4, <1>8, <2>1 DEF Ahead
  <2> DEFINE d == n - a * p
  <2>3. x = IF d <= 0 THEN NoPrice ELSE CeilDiv(n * p, d)
    BY <1>8 DEF NextPrice
  <2>4. d \in Nat \ {0}
    <3> HIDE DEF n
    <3> QED
      BY <1>3, <2>2, OutUpDivisor
  <2>5. x = CeilDiv(n * p, d) /\ n * p \in Nat
    BY <1>3, <2>3, <2>4
  <2>6. Ceils(x, n * p, d) /\ x \in Nat
    <3> HIDE DEF n, d
    <3> QED
      BY <2>4, <2>5, CeilDivCeils DEF Ceils
  <2>7. d = n - a * p
    OBVIOUS
  <2>8. p <= x /\ x <= target /\ a * (p * x) <= n * (x - p)
    <3> HIDE DEF n, d
    <3> QED
      BY <1>3, <2>2, <2>4, <2>6, <2>7, OutUp
  <2>9. a <= AmountDelta(p, x, l, ~zero, FALSE)
    <3>0. x \in Nat \ {0}
      BY <2>6, <2>8
    <3>1. Gap(p, x) = x - p
      BY <2>6, <2>8 DEF Gap
    <3>2. Num(p, x, l, ~zero) = n * (x - p) /\ Den(p, x, ~zero) = p * x
      <4>1. l * (x - p) * Q = (l * Q) * (x - p)
        BY <1>0, <2>6
      <4> QED
        BY <1>8, <3>1, <4>1 DEF Num, Den
    <3>4. a * Den(p, x, ~zero) <= Num(p, x, l, ~zero)
      BY <2>8, <3>2
    <3> QED
      BY <3>0, <3>4, AmountAgainst
  <2> QED
    <3>1. Between(p, x, target, zero) /\ x \in Nat \ {0}
      BY <1>8, <2>6, <2>8 DEF Between
    <3> QED
      BY <1>8, <2>9, <3>1 DEF PriceFits
<1> QED
  BY <1>5, <1>6, <1>7, <1>8

-----------------------------------------------------------------------------
(* A swap step. *)

\* What a step takes from the amount left, and what it adds to the result.
Taken(s, input) == IF input THEN s.in + s.fee ELSE s.out
Given(s, input) == IF input THEN s.out ELSE s.in + s.fee

\* x is at most the amount between the prices and its fee.
Covers(x, p, price, l, token0, fee) ==
  \E t \in Nat : /\ t * Den(p, price, token0) <= Num(p, price, l, token0)
                 /\ x * (FeeUnit - fee) <= (t + 1) * FeeUnit + (FeeUnit - fee)

\* A step ends between its price and its target, takes no more than what is left, and all
\* of it when it ends short of the target; what it gives is covered by the way it went.
StepSound(s, p, target, l, r, fee, input, zero) ==
  /\ s.price \in Nat \ {0} /\ Between(p, s.price, target, zero)
  /\ s.in \in Nat /\ s.out \in Nat /\ s.fee \in Nat
  /\ Taken(s, input) <= r
  /\ s.price # target => Taken(s, input) = r
  /\ Covers(Given(s, input), p, s.price, l, zero # input, fee)

\* The fee on an input is rounded up.
LEMMA FeeRounds ==
  ASSUME NEW x \in Nat, NEW fee \in 0..(FeeUnit - 1)
  PROVE  Ceils(CeilDiv(x * fee, FeeUnit - fee), x * fee, FeeUnit - fee)
<1>1. x * fee \in Nat /\ FeeUnit - fee \in Nat \ {0}
  BY WalkAssumption
<1> QED
  BY <1>1, CeilDivCeils

\* An output, rounded down, is covered by the way to the step's price.
LEMMA OutCovers ==
  ASSUME NEW p \in Nat \ {0}, NEW price \in Nat \ {0}, NEW l \in Nat, NEW token0 \in BOOLEAN,
         NEW fee \in 0..(FeeUnit - 1)
  PROVE  Covers(AmountDelta(p, price, l, token0, FALSE), p, price, l, token0, fee)
<1> DEFINE x == AmountDelta(p, price, l, token0, FALSE)
<1>1. x \in Nat /\ x * Den(p, price, token0) <= Num(p, price, l, token0)
  BY AmountRounds DEF Floors
<1> SUFFICES x * (FeeUnit - fee) <= (x + 1) * FeeUnit + (FeeUnit - fee)
  BY <1>1 DEF Covers
<1> HIDE DEF x
<1> QED
  BY <1>1, WalkAssumption

\* An input, rounded up, with its fee is covered by the way to the step's price.
LEMMA InCovers ==
  ASSUME NEW p \in Nat \ {0}, NEW price \in Nat \ {0}, NEW l \in Nat, NEW token0 \in BOOLEAN,
         NEW fee \in 0..(FeeUnit - 1), NEW c,
         Ceils(c, AmountDelta(p, price, l, token0, TRUE) * fee, FeeUnit - fee)
  PROVE  Covers(AmountDelta(p, price, l, token0, TRUE) + c, p, price, l, token0, fee)
<1> DEFINE x == AmountDelta(p, price, l, token0, TRUE)
           t == AmountDelta(p, price, l, token0, FALSE)
           num == Num(p, price, l, token0)
           den == Den(p, price, token0)
<1>1. num \in Nat /\ den \in Nat \ {0}
  BY NumDen
<1>2. Ceils(x, num, den) /\ Floors(t, num, den)
  BY AmountRounds
<1>3. Ceils(c, x * fee, FeeUnit - fee)
  OBVIOUS
<1> SUFFICES Covers(x + c, p, price, l, token0, fee)
  OBVIOUS
<1> HIDE DEF x, t
<1>4. x \in Nat /\ t \in Nat /\ t * den <= num
  BY <1>2 DEF Ceils, Floors
<1>5. x <= t + 1
  <2> HIDE DEF num, den
  <2> QED
    BY <1>1, <1>2, CeilsAboveFloor
<1>6. FeeUnit \in Nat \ {0} /\ fee \in Nat /\ fee < FeeUnit
  BY WalkAssumption
<1>7. (x + c) * (FeeUnit - fee) <= (t + 1) * FeeUnit + (FeeUnit - fee)
  BY <1>3, <1>4, <1>5, <1>6, FeeBound
<1> QED
  BY <1>4, <1>7 DEF Covers

\* A step of both clients' calculateStep is sound: it does not pass its target, rounds as it
\* should, and leaves nothing over when it stops short of the target.
LEMMA CalculateStepSound ==
  ASSUME NEW p \in Nat \ {0}, NEW target \in Nat \ {0}, NEW l \in Nat, NEW r \in Nat,
         NEW fee \in 0..(FeeUnit - 1), NEW input \in BOOLEAN, NEW zero \in BOOLEAN,
         NEW version, version \in {"v3", "v4"},
         Ahead(p, target, zero), l * Q <= MaxUint
  PROVE  StepSound(CalculateStep(version, p, target, l, r, fee, input, zero),
                   p, target, l, r, fee, input, zero)
<1> DEFINE available == IF input THEN (r * (FeeUnit - fee)) \div FeeUnit ELSE r
           partial == available < AmountDelta(p, target, l, zero = input, input)
           next == IF partial THEN NextPrice(p, l, available, zero, input) ELSE target
           in == IF version = "v4" /\ input /\ partial
                 THEN available ELSE AmountDelta(p, next, l, zero, TRUE)
           out == AmountDelta(p, next, l, ~zero, FALSE)
           capped == ~input /\ IF version = "v4" THEN partial ELSE out > r
           rest == input /\ IF version = "v4" THEN partial ELSE next # target
           tax == CeilDiv(in * fee, FeeUnit - fee)
           s == [price |-> next, in |-> in,
                 out |-> IF capped THEN r ELSE out,
                 fee |-> IF rest THEN r - in ELSE tax]
<1>0. CalculateStep(version, p, target, l, r, fee, input, zero) = s
  BY DEF CalculateStep
<1>1. FeeUnit \in Nat \ {0} /\ FeeUnit - fee \in Nat \ {0} /\ fee \in Nat /\ fee < FeeUnit
  BY WalkAssumption
<1>2. available \in Nat /\ available <= r
      /\ (input => Floors(available, r * (FeeUnit - fee), FeeUnit))
  <2>1. r * (FeeUnit - fee) \in Nat
    BY <1>1
  <2>2. Floors((r * (FeeUnit - fee)) \div FeeUnit, r * (FeeUnit - fee), FeeUnit)
    BY <1>1, <2>1, DivFloors
  <2>3. \A k : Floors(k, r * (FeeUnit - fee), FeeUnit) => k \in Nat /\ k <= r
    <3> SUFFICES ASSUME NEW k, Floors(k, r * (FeeUnit - fee), FeeUnit) PROVE k \in Nat /\ k <= r
      OBVIOUS
    <3>1. k \in Nat /\ k * FeeUnit <= r * (FeeUnit - fee)
      BY DEF Floors
    <3>2. r * (FeeUnit - fee) <= r * FeeUnit
      BY <1>1
    <3>3. r * (FeeUnit - fee) \in Nat /\ r * FeeUnit \in Nat /\ k * FeeUnit \in Nat
      BY <1>1, <2>1, <3>1
    <3>4. k * FeeUnit <= r * FeeUnit
      BY <3>1, <3>2, <3>3
    <3> QED
      BY <1>1, <3>1, <3>4
  <2> QED
    BY <2>2, <2>3
<1> HIDE DEF available
<1>3. partial \in BOOLEAN
  OBVIOUS
<1>4. ASSUME partial
      PROVE  /\ next \in Nat \ {0} /\ Between(p, next, target, zero)
             /\ input => next # target /\ AmountDelta(p, next, l, zero, TRUE) <= available
             /\ ~input => available <= AmountDelta(p, next, l, ~zero, FALSE)
  <2>1. next = NextPrice(p, l, available, zero, input)
    BY <1>4
  <2>2. available < AmountDelta(p, target, l, zero = input, input)
    BY <1>4
  <2> HIDE DEF next, partial
  <2>3. PriceFits(next, p, target, l, available, zero, input)
    BY <1>2, <2>1, <2>2, PriceWithin
  <2> QED
    BY <2>3 DEF PriceFits
<1>5. ASSUME ~partial
      PROVE  /\ next = target /\ Between(p, next, target, zero)
             /\ AmountDelta(p, target, l, zero = input, input) <= available
  <2>1. AmountDelta(p, target, l, zero = input, TRUE) \in Nat
        /\ AmountDelta(p, target, l, zero = input, FALSE) \in Nat
    BY AmountAgainst
  <2>2. AmountDelta(p, target, l, zero = input, input) \in Nat
    BY <2>1
  <2>3. AmountDelta(p, target, l, zero = input, input) <= available
    <3> DEFINE most == AmountDelta(p, target, l, zero = input, input)
    <3>1. most \in Nat /\ ~(available < most)
      BY <1>5, <2>2
    <3> HIDE DEF most
    <3>2. most <= available
      BY <1>2, <3>1
    <3> QED
      BY <3>2 DEF most
  <2>4. p <= p /\ target <= target
    OBVIOUS
  <2> QED
    BY <1>5, <2>3, <2>4 DEF Between, Ahead
<1>6. next \in Nat \ {0} /\ Between(p, next, target, zero)
  BY <1>4, <1>5
<1> HIDE DEF next, partial
<1> DEFINE up == AmountDelta(p, next, l, zero, TRUE)
           down == AmountDelta(p, next, l, ~zero, FALSE)
<1>7. up \in Nat /\ down \in Nat
  BY <1>6, AmountAgainst
<1>8. in \in Nat
  BY <1>2, <1>7
<1>9. Ceils(tax, in * fee, FeeUnit - fee) /\ tax \in Nat
  <2> HIDE DEF in
  <2> QED
    BY <1>8, FeeRounds DEF Ceils
<1>10. CASE input
  <2>1. ~capped /\ s.out = down
    BY <1>10
  <2>2. rest <=> partial
    BY <1>4, <1>5, <1>10
  <2>3. in <= r
    <3>1. CASE partial
      <4>1. up <= available
        BY <1>4, <1>10, <3>1
      <4>2. in = available \/ in = up
        OBVIOUS
      <4> HIDE DEF in, up
      <4> QED
        BY <1>2, <1>7, <4>1, <4>2
    <3>2. CASE ~partial
      <4>1. next = target /\ AmountDelta(p, target, l, zero = input, input) <= available
        BY <1>5, <3>2
      <4>2. (zero = input) = zero /\ input = TRUE
        BY <1>10
      <4>3. up <= available /\ in = up
        BY <3>2, <4>1, <4>2
      <4> HIDE DEF in, up
      <4> QED
        BY <1>2, <1>7, <4>3
    <3> QED
      BY <3>1, <3>2
  <2>4. CASE partial
    <3>1. s.fee = r - in
      BY <2>2, <2>4
    <3>2. s.fee \in Nat /\ in + s.fee = r
      <4> HIDE DEF in, s
      <4> QED
        BY <1>8, <2>3, <3>1
    <3>3. s.in = in /\ s.price = next
      OBVIOUS
    <3>4. Covers(down, p, next, l, ~zero, fee)
      BY <1>6, OutCovers
    <3>5. (zero # input) = ~zero
      BY <1>10
    <3>6. Taken(s, input) = r /\ Given(s, input) = down
      <4> HIDE DEF in, s, down
      <4> QED
        BY <1>10, <2>1, <3>2, <3>3 DEF Taken, Given
    <3>7. Taken(s, input) <= r
      <4> HIDE DEF s
      <4> QED
        BY <3>6
    <3> HIDE DEF in, s, down
    <3> QED
      BY <1>0, <1>6, <1>7, <1>8, <2>1, <3>2, <3>3, <3>4, <3>5, <3>6, <3>7 DEF StepSound
  <2>5. CASE ~partial
    <3>1. s.fee = tax
      BY <2>2, <2>5
    <3>2. in <= available
      <4>1. next = target /\ AmountDelta(p, target, l, zero = input, input) <= available
        BY <1>5, <2>5
      <4>2. (zero = input) = zero /\ input = TRUE
        BY <1>10
      <4> QED
        BY <2>5, <4>1, <4>2
    <3>3. in + tax <= r
      <4> HIDE DEF in, tax
      <4> QED
        BY <1>1, <1>2, <1>8, <1>9, <1>10, <3>2, FeeFits
    <3>4. s.in = in /\ s.price = next /\ next = target
      BY <1>5, <2>5
    <3>5. Covers(down, p, next, l, ~zero, fee)
      BY <1>6, OutCovers
    <3>6. (zero # input) = ~zero
      BY <1>10
    <3>7. Taken(s, input) <= r /\ Given(s, input) = down
      <4> HIDE DEF in, s, down, tax
      <4> QED
        BY <1>10, <2>1, <3>1, <3>3, <3>4 DEF Taken, Given
    <3> HIDE DEF in, s, down, tax
    <3> QED
      BY <1>0, <1>6, <1>7, <1>8, <1>9, <2>1, <3>1, <3>4, <3>5, <3>6, <3>7 DEF StepSound
  <2> QED
    BY <2>4, <2>5
<1>11. CASE ~input
  <2>1. ~rest /\ s.fee = tax /\ in = up /\ s.in = in /\ s.price = next
    BY <1>11
  <2>2. s.out = IF capped THEN r ELSE down
    OBVIOUS
  <2>3. available = r
    BY <1>11 DEF available
  <2>4. s.out \in Nat /\ s.out <= r
    <3>1. CASE capped
      <4>1. s.out = r
        BY <2>2, <3>1
      <4> HIDE DEF s
      <4> QED
        BY <4>1
    <3>2. CASE ~capped
      <4>1. s.out = down
        BY <2>2, <3>2
      <4>2. CASE version = "v4"
        <5>1. ~partial
          BY <1>11, <3>2, <4>2
        <5>2. next = target /\ AmountDelta(p, target, l, zero = input, input) <= available
          BY <1>5, <5>1
        <5>3. (zero = input) = ~zero /\ input = FALSE
          BY <1>11
        <5>4. down <= r
          BY <2>3, <5>2, <5>3
        <5> HIDE DEF s, down
        <5> QED
          BY <1>7, <4>1, <5>4
      <4>3. CASE version # "v4"
        <5>1. ~(down > r)
          BY <1>11, <3>2, <4>3
        <5> HIDE DEF s, down
        <5> QED
          BY <1>7, <4>1, <5>1
      <4> QED
        BY <4>2, <4>3
    <3> QED
      BY <3>1, <3>2
  <2>5. next # target => s.out = r
    <3> SUFFICES ASSUME next # target PROVE s.out = r
      OBVIOUS
    <3>1. partial
      BY <1>5
    <3>2. r <= down
      BY <1>4, <1>11, <2>3, <3>1
    <3>3. CASE capped
      BY <2>2, <3>3
    <3>4. CASE ~capped
      <4>1. s.out = down
        BY <2>2, <3>4
      <4> HIDE DEF s, down
      <4> QED
        BY <1>7, <2>4, <3>2, <4>1
    <3> QED
      BY <3>3, <3>4
  <2>6. Covers(up + tax, p, next, l, zero, fee)
    <3>1. Ceils(tax, up * fee, FeeUnit - fee)
      BY <1>9, <2>1
    <3> HIDE DEF tax
    <3> QED
      BY <1>6, <3>1, InCovers
  <2>7. (zero # input) = zero
    BY <1>11
  <2>8. Taken(s, input) = s.out /\ Given(s, input) = up + tax
    <3> HIDE DEF s, in, up, tax
    <3> QED
      BY <1>11, <2>1 DEF Taken, Given
  <2>9. /\ Taken(s, input) <= r /\ (next # target => Taken(s, input) = r)
        /\ s.in \in Nat /\ s.fee \in Nat
    <3> HIDE DEF s, in, up, tax
    <3> QED
      BY <1>8, <1>9, <2>1, <2>4, <2>5, <2>8
  <2> HIDE DEF s, in, up, tax
  <2> QED
    BY <1>0, <1>6, <2>1, <2>4, <2>6, <2>7, <2>8, <2>9 DEF StepSound
<1> QED
  BY <1>10, <1>11

-----------------------------------------------------------------------------
(* Sums of sizes, by position. *)

\* g adds up the sizes of the sets in D, which has with every set its parts.
Adds(g, D) ==
  \A s \in D : g[s] = IF s = {} THEN 0
                      ELSE (CHOOSE q \in s : TRUE).size + g[s \ {CHOOSE q \in s : TRUE}]

\* CHOOSE picks an element of a nonempty set.
LEMMA ChosenIn == ASSUME NEW s, s # {} PROVE (CHOOSE q \in s : TRUE) \in s
  OBVIOUS

\* A finite set without one of its elements has one element less.
LEMMA OneLess ==
  ASSUME NEW S, IsFiniteSet(S), NEW x \in S, NEW k \in Nat, Cardinality(S) = k + 1
  PROVE  IsFiniteSet(S \ {x}) /\ Cardinality(S \ {x}) = k
<1>1. IsFiniteSet(S \ {x}) /\ Cardinality(S \ {x}) = Cardinality(S) - 1
  BY FS_RemoveElement
<1> QED
  BY <1>1

\* There is a function that adds up the parts of a finite set.
LEMMA AddsExists ==
  ASSUME NEW S, IsFiniteSet(S)
  PROVE  \E g : g = [s \in SUBSET S |-> IF s = {} THEN 0
                        ELSE (CHOOSE q \in s : TRUE).size + g[s \ {CHOOSE q \in s : TRUE}]]
<1> DEFINE Upto(k) == {s \in SUBSET S : Cardinality(s) <= k}
           T == {k \in Nat : \E g : Adds(g, Upto(k))}
<1>0. \A s \in SUBSET S : IsFiniteSet(s) /\ Cardinality(s) \in Nat /\ Cardinality(s) <= Cardinality(S)
  BY FS_Subset, FS_CardinalityType
<1>00. \A s \in SUBSET S : s # {} =>
         /\ (CHOOSE q \in s : TRUE) \in s
         /\ s \ {CHOOSE q \in s : TRUE} \in SUBSET S
         /\ Cardinality(s \ {CHOOSE q \in s : TRUE}) = Cardinality(s) - 1
  BY <1>0, FS_RemoveElement, ChosenIn
<1>1. 0 \in T
  <2> DEFINE g == [s \in SUBSET S |-> 0]
  <2>1. \A s \in Upto(0) : s = {}
    BY <1>0, FS_EmptySet
  <2>2. Adds(g, Upto(0))
    BY <2>1 DEF Adds
  <2> QED
    BY <2>2
<1>2. ASSUME NEW k \in Nat, k \in T PROVE k + 1 \in T
  <2>1. PICK g : Adds(g, Upto(k))
    BY <1>2
  <2> DEFINE h == [s \in SUBSET S |->
                     IF Cardinality(s) <= k THEN g[s]
                     ELSE (CHOOSE q \in s : TRUE).size + g[s \ {CHOOSE q \in s : TRUE}]]
  <2>2. ASSUME NEW s \in Upto(k + 1)
        PROVE  h[s] = IF s = {} THEN 0
                      ELSE (CHOOSE q \in s : TRUE).size + h[s \ {CHOOSE q \in s : TRUE}]
    <3> DEFINE c == CHOOSE q \in s : TRUE
    <3>1. CASE s = {}
      <4>1. s \in Upto(k) /\ h[s] = g[s]
        BY <3>1, <1>0, FS_EmptySet
      <4> QED
        BY <4>1, <3>1, <2>1 DEF Adds
    <3>2. CASE s # {}
      <4>1. s \ {c} \in Upto(k)
        BY <3>2, <1>0, <1>00
      <4>2. h[s \ {c}] = g[s \ {c}]
        BY <4>1
      <4>3. h[s] = c.size + g[s \ {c}]
        <5>1. CASE Cardinality(s) <= k
          <6>1. s \in Upto(k) /\ h[s] = g[s]
            BY <5>1
          <6> HIDE DEF h
          <6> QED
            BY <6>1, <3>2, <2>1 DEF Adds
        <5>2. CASE ~(Cardinality(s) <= k)
          BY <5>2
        <5> QED
          BY <5>1, <5>2
      <4> HIDE DEF h
      <4> QED
        BY <4>2, <4>3, <3>2
    <3> QED
      BY <3>1, <3>2
  <2>3. Adds(h, Upto(k + 1))
    <3> HIDE DEF h
    <3> QED
      BY <2>2 DEF Adds
  <2>4. \E f : Adds(f, Upto(k + 1))
    <3> HIDE DEF h, Upto
    <3> QED
      BY <2>3
  <2> HIDE DEF h, Upto
  <2> QED
    BY <2>4
<1>3. Cardinality(S) \in T
  <2>1. Cardinality(S) \in Nat
    BY <1>0
  <2> HIDE DEF T
  <2> QED
    BY <1>1, <1>2, <2>1, SetInduction
<1>4. PICK g : Adds(g, Upto(Cardinality(S)))
  BY <1>3
<1>5. Upto(Cardinality(S)) = SUBSET S
  BY <1>0
<1> DEFINE h == [s \in SUBSET S |-> g[s]]
<1>6. Adds(g, SUBSET S)
  BY <1>4, <1>5
<1>7. h = [s \in SUBSET S |-> IF s = {} THEN 0
                        ELSE (CHOOSE q \in s : TRUE).size + h[s \ {CHOOSE q \in s : TRUE}]]
  <2>1. ASSUME NEW s \in SUBSET S
        PROVE  h[s] = IF s = {} THEN 0
                      ELSE (CHOOSE q \in s : TRUE).size + h[s \ {CHOOSE q \in s : TRUE}]
    <3>1. h[s] = g[s] /\ h[s \ {CHOOSE q \in s : TRUE}] = g[s \ {CHOOSE q \in s : TRUE}]
      OBVIOUS
    <3> HIDE DEF h
    <3> QED
      BY <3>1, <1>6 DEF Adds
  <2>2. h = [s \in SUBSET S |-> h[s]]
    OBVIOUS
  <2> HIDE DEF h
  <2> QED
    BY <2>1, <2>2
<1> QED
  BY <1>7

\* The sum of a finite set is that of one of those functions.
LEMMA SizeOfAdds ==
  ASSUME NEW S, IsFiniteSet(S)
  PROVE  \E g : Adds(g, SUBSET S) /\ SizeOf(S) = g[S]
<1> DEFINE F(g) == g = [s \in SUBSET S |-> IF s = {} THEN 0
                        ELSE (CHOOSE q \in s : TRUE).size + g[s \ {CHOOSE q \in s : TRUE}]]
           h == CHOOSE g : F(g)
<1>1. \E g : F(g)
  BY AddsExists
<1>2. SizeOf(S) = h[S]
  BY DEF SizeOf, MapThenSumSet, MapThenFoldSet
<1>3. F(h)
  <2> HIDE DEF F
  <2> QED
    BY <1>1
<1>4. Adds(h, SUBSET S)
  <2> HIDE DEF h
  <2> QED
    BY <1>3 DEF Adds
<1> QED
  BY <1>2, <1>4

-----------------------------------------------------------------------------
(* Sums of sizes. *)

\* A finite set of positions with their sizes.
Sized(S) == IsFiniteSet(S) /\ \A q \in S : q.size \in Nat

\* Part of a set of positions with sizes is one.
LEMMA SizedPart == ASSUME NEW S, Sized(S), NEW T \in SUBSET S PROVE Sized(T)
  BY FS_Subset DEF Sized

\* Two functions that add up agree on what both have.
LEMMA AddsAgree ==
  ASSUME NEW S, IsFiniteSet(S), NEW f, NEW g, Adds(f, SUBSET S), Adds(g, SUBSET S)
  PROVE  \A s \in SUBSET S : f[s] = g[s]
<1> DEFINE T == {k \in Nat : \A s \in SUBSET S : Cardinality(s) = k => f[s] = g[s]}
<1>0. \A s \in SUBSET S : IsFiniteSet(s) /\ Cardinality(s) \in Nat
  BY FS_Subset, FS_CardinalityType
<1>1. 0 \in T
  <2>1. \A s \in SUBSET S : Cardinality(s) = 0 => s = {}
    BY <1>0, FS_EmptySet
  <2> QED
    BY <2>1 DEF Adds
<1>2. ASSUME NEW k \in Nat, k \in T PROVE k + 1 \in T
  <2> SUFFICES ASSUME NEW s \in SUBSET S, Cardinality(s) = k + 1 PROVE f[s] = g[s]
    OBVIOUS
  <2>1. s # {}
    <3>1. Cardinality({}) = 0 /\ k + 1 # 0
      BY FS_EmptySet
    <3> QED
      BY <3>1
  <2> DEFINE c == CHOOSE q \in s : TRUE
  <2>2. c \in s
    BY <2>1, ChosenIn
  <2>3. s \ {c} \in SUBSET S /\ Cardinality(s \ {c}) = k
    BY <1>0, <2>2, OneLess
  <2>4. f[s \ {c}] = g[s \ {c}]
    BY <1>2, <2>3
  <2>5. f[s] = c.size + f[s \ {c}] /\ g[s] = c.size + g[s \ {c}]
    BY <2>1 DEF Adds
  <2> QED
    BY <2>4, <2>5
<1>3. Nat \subseteq T
  <2> HIDE DEF T
  <2> QED
    BY <1>1, <1>2, SetInduction
<1> QED
  BY <1>0, <1>3

\* No positions have no liquidity.
LEMMA SizeOfEmpty == SizeOf({}) = 0
<1>1. PICK g : Adds(g, SUBSET {}) /\ SizeOf({}) = g[{}]
  BY SizeOfAdds, FS_EmptySet
<1> QED
  BY <1>1 DEF Adds

\* The sum takes out the chosen element first.
LEMMA SizeOfChosen ==
  ASSUME NEW S, IsFiniteSet(S), S # {}
  PROVE  SizeOf(S) = (CHOOSE q \in S : TRUE).size + SizeOf(S \ {CHOOSE q \in S : TRUE})
<1> DEFINE c == CHOOSE q \in S : TRUE
<1>1. PICK f : Adds(f, SUBSET S) /\ SizeOf(S) = f[S]
  BY SizeOfAdds
<1>2. IsFiniteSet(S \ {c})
  BY FS_Subset
<1>3. PICK g : Adds(g, SUBSET (S \ {c})) /\ SizeOf(S \ {c}) = g[S \ {c}]
  BY SizeOfAdds, <1>2
<1>4. Adds(f, SUBSET (S \ {c}))
  BY <1>1 DEF Adds
<1>5. f[S \ {c}] = g[S \ {c}]
  BY <1>2, <1>3, <1>4, AddsAgree
<1>6. f[S] = c.size + f[S \ {c}]
  BY <1>1 DEF Adds
<1> QED
  BY <1>1, <1>3, <1>5, <1>6

\* The liquidity of positions is a natural number.
LEMMA SizeOfNat == ASSUME NEW S, Sized(S) PROVE SizeOf(S) \in Nat
<1> DEFINE T == {k \in Nat : \A s \in SUBSET S : Cardinality(s) = k => SizeOf(s) \in Nat}
<1>0. \A s \in SUBSET S : IsFiniteSet(s) /\ Cardinality(s) \in Nat
  BY FS_Subset, FS_CardinalityType DEF Sized
<1>1. 0 \in T
  <2>1. \A s \in SUBSET S : Cardinality(s) = 0 => s = {}
    BY <1>0, FS_EmptySet
  <2> QED
    BY <2>1, SizeOfEmpty
<1>2. ASSUME NEW k \in Nat, k \in T PROVE k + 1 \in T
  <2> SUFFICES ASSUME NEW s \in SUBSET S, Cardinality(s) = k + 1 PROVE SizeOf(s) \in Nat
    OBVIOUS
  <2>1. s # {}
    <3>1. Cardinality({}) = 0 /\ k + 1 # 0
      BY FS_EmptySet
    <3> QED
      BY <3>1
  <2> DEFINE c == CHOOSE q \in s : TRUE
  <2>2. c \in s
    BY <2>1, ChosenIn
  <2>3. s \ {c} \in SUBSET S /\ Cardinality(s \ {c}) = k
    BY <1>0, <2>2, OneLess
  <2>4. SizeOf(s \ {c}) \in Nat
    BY <1>2, <2>3
  <2>5. SizeOf(s) = c.size + SizeOf(s \ {c})
    BY <1>0, <2>1, SizeOfChosen
  <2>6. c.size \in Nat
    BY <2>2 DEF Sized
  <2> QED
    BY <2>4, <2>5, <2>6
<1>3. Nat \subseteq T
  <2> HIDE DEF T
  <2> QED
    BY <1>1, <1>2, SetInduction
<1> QED
  BY <1>0, <1>3

\* Any element can be taken out first.
LEMMA SizeOfRemove ==
  ASSUME NEW S, Sized(S), NEW x \in S
  PROVE  SizeOf(S) = x.size + SizeOf(S \ {x})
<1> DEFINE T == {k \in Nat : \A s \in SUBSET S : Cardinality(s) = k =>
                               \A y \in s : SizeOf(s) = y.size + SizeOf(s \ {y})}
<1>0. \A s \in SUBSET S : IsFiniteSet(s) /\ Cardinality(s) \in Nat /\ SizeOf(s) \in Nat
  BY FS_Subset, FS_CardinalityType, SizedPart, SizeOfNat DEF Sized
<1>1. 0 \in T
  <2>1. \A s \in SUBSET S : Cardinality(s) = 0 => s = {}
    BY <1>0, FS_EmptySet
  <2> QED
    BY <2>1
<1>2. ASSUME NEW k \in Nat, k \in T PROVE k + 1 \in T
  <2> SUFFICES ASSUME NEW s \in SUBSET S, Cardinality(s) = k + 1, NEW y \in s
               PROVE  SizeOf(s) = y.size + SizeOf(s \ {y})
    OBVIOUS
  <2> DEFINE c == CHOOSE q \in s : TRUE
  <2>1. c \in s
    BY ChosenIn
  <2>2. SizeOf(s) = c.size + SizeOf(s \ {c})
    BY <1>0, SizeOfChosen
  <2>3. CASE y = c
    BY <2>2, <2>3
  <2>4. CASE y # c
    <3>1. /\ s \ {c} \in SUBSET S /\ s \ {y} \in SUBSET S
          /\ Cardinality(s \ {c}) = k /\ Cardinality(s \ {y}) = k
      <4>1. IsFiniteSet(s)
        BY <1>0
      <4> HIDE DEF c
      <4> QED
        BY <4>1, <2>1, OneLess
    <3>2. y \in s \ {c} /\ c \in s \ {y}
      BY <2>1, <2>4
    <3>3. SizeOf(s \ {c}) = y.size + SizeOf((s \ {c}) \ {y})
      BY <3>1, <3>2, <1>2
    <3>4. SizeOf(s \ {y}) = c.size + SizeOf((s \ {y}) \ {c})
      BY <3>1, <3>2, <1>2
    <3>5. (s \ {c}) \ {y} = (s \ {y}) \ {c}
      OBVIOUS
    <3>6. c.size \in Nat /\ y.size \in Nat
      BY <2>1 DEF Sized
    <3>7. SizeOf((s \ {c}) \ {y}) \in Nat
      BY <1>0
    <3> DEFINE r == SizeOf((s \ {c}) \ {y})
               m == SizeOf(s \ {c})
               n == SizeOf(s \ {y})
               cs == c.size
    <3>8. n = cs + r
      BY <3>4, <3>5
    <3>9. SizeOf(s) = cs + m /\ m = y.size + r /\ cs \in Nat /\ y.size \in Nat /\ r \in Nat
      BY <2>2, <3>3, <3>6, <3>7
    <3> HIDE DEF r, m, n, cs
    <3>10. SizeOf(s) = y.size + n
      BY <3>8, <3>9
    <3> QED
      BY <3>10 DEF n
  <2> QED
    BY <2>3, <2>4
<1>3. Nat \subseteq T
  <2> HIDE DEF T
  <2> QED
    BY <1>1, <1>2, SetInduction
<1> QED
  BY <1>0, <1>3

\* Sums of disjoint sets add up.
LEMMA SizeOfDisjoint ==
  ASSUME NEW S, Sized(S), NEW A \in SUBSET S, NEW B \in SUBSET S, A \cap B = {}
  PROVE  SizeOf(A \cup B) = SizeOf(A) + SizeOf(B)
<1> DEFINE T == {k \in Nat : \A s \in SUBSET B : Cardinality(s) = k =>
                               SizeOf(A \cup s) = SizeOf(A) + SizeOf(s)}
<1>0. \A s \in SUBSET S : Sized(s) /\ IsFiniteSet(s) /\ Cardinality(s) \in Nat /\ SizeOf(s) \in Nat
  BY FS_Subset, FS_CardinalityType, SizedPart, SizeOfNat DEF Sized
<1>1. 0 \in T
  <2>1. \A s \in SUBSET B : Cardinality(s) = 0 => s = {}
    BY <1>0, FS_EmptySet
  <2>2. SizeOf(A \cup {}) = SizeOf(A) + 0
    BY <1>0
  <2> QED
    BY <2>1, <2>2, SizeOfEmpty
<1>2. ASSUME NEW k \in Nat, k \in T PROVE k + 1 \in T
  <2> SUFFICES ASSUME NEW s \in SUBSET B, Cardinality(s) = k + 1
               PROVE  SizeOf(A \cup s) = SizeOf(A) + SizeOf(s)
    OBVIOUS
  <2>1. PICK y \in s : y \in s
    <3>1. Cardinality({}) = 0 /\ k + 1 # 0
      BY FS_EmptySet
    <3>2. s # {}
      BY <3>1
    <3> QED
      BY <3>2
  <2>2. s \ {y} \in SUBSET B /\ Cardinality(s \ {y}) = k
    BY <1>0, <2>1, OneLess
  <2>3. SizeOf(A \cup (s \ {y})) = SizeOf(A) + SizeOf(s \ {y})
    BY <2>2, <1>2
  <2>4. SizeOf(s) = y.size + SizeOf(s \ {y})
    <3>1. Sized(s)
      BY <1>0
    <3> QED
      BY <3>1, <2>1, SizeOfRemove
  <2>5. A \cup s \in SUBSET S /\ y \in A \cup s /\ (A \cup s) \ {y} = A \cup (s \ {y})
    BY <2>1
  <2>6. SizeOf(A \cup s) = y.size + SizeOf(A \cup (s \ {y}))
    BY <1>0, <2>5, SizeOfRemove
  <2>7. y.size \in Nat /\ SizeOf(A) \in Nat /\ SizeOf(s \ {y}) \in Nat
    BY <1>0 DEF Sized
  <2> QED
    BY <2>3, <2>4, <2>6, <2>7
<1>3. Nat \subseteq T
  <2> HIDE DEF T
  <2> QED
    BY <1>1, <1>2, SetInduction
<1> QED
  BY <1>0, <1>3

-----------------------------------------------------------------------------
(* Ticks and bitmap words. *)

\* Integer division rounds towards minus infinity: bitmap words below zero too.
LEMMA Division ==
  ASSUME NEW n \in Int, NEW d \in Nat \ {0}
  PROVE  n \div d \in Int /\ (n \div d) * d <= n /\ n < (n \div d) * d + d
  OBVIOUS

\* A multiple is its quotient times the divisor.
LEMMA Divisible ==
  ASSUME NEW n \in Int, NEW d \in Nat \ {0}, n % d = 0
  PROVE  n = (n \div d) * d
  OBVIOUS

\* A product of integers is an integer.
LEMMA Product == ASSUME NEW a \in Int, NEW b \in Int PROVE a * b \in Int
  OBVIOUS

\* Every multiple of the spacing is the spacing times a compressed tick.
LEMMA Multiples ==
  ASSUME NEW a \in Int, NEW b \in Int, NEW d \in Nat \ {0}
  PROVE  /\ a <= b => a * d <= b * d
         /\ a * d < b * d + d => a <= b
<1>1. ASSUME a <= b PROVE a * d <= b * d
  BY <1>1
<1>2. ASSUME b < a PROVE b * d + d <= a * d
  BY <1>2
<1> QED
  BY <1>1, <1>2, Product

\* A nonempty finite set of integers has a largest element, and Max is it.
LEMMA LargestOf ==
  ASSUME NEW n \in Nat, NEW S, S \subseteq 0..n, S # {}
  PROVE  Max(S) \in S /\ \A i \in S : i <= Max(S)
<1> DEFINE T == {n - i : i \in S}
<1>1. T \subseteq Nat /\ T # {}
  <2>1. \A i \in S : n - i \in Nat
    OBVIOUS
  <2> QED
    BY <2>1
<1>2. PICK m \in T : \A k \in T : m <= k
  BY <1>1, Least
<1>3. PICK x \in S : m = n - x
  OBVIOUS
<1>4. \A i \in S : x >= i
  <2> SUFFICES ASSUME NEW i \in S PROVE x >= i
    OBVIOUS
  <2>1. n - i \in T
    OBVIOUS
  <2>2. n - x <= n - i
    BY <2>1, <1>2, <1>3
  <2> QED
    BY <2>2
<1> QED
  BY <1>4 DEF Max

\* Min of a nonempty finite set of integers is its smallest element.
LEMMA SmallestOf ==
  ASSUME NEW S, S \subseteq Nat, S # {}
  PROVE  Min(S) \in S /\ \A i \in S : Min(S) <= i
<1>1. \E m \in S : \A i \in S : m <= i
  BY Least
<1> QED
  BY <1>1 DEF Min

\* What the positions of a captured state are made of.
LEMMA PositionTicks ==
  ASSUME NEW P \in SUBSET Positions
  PROVE  /\ Sized(P)
         /\ \A q \in P : /\ q.low \in Int /\ q.high \in Int /\ q.low < q.high
                         /\ q.low \in Initialized(P) /\ q.high \in Initialized(P)
         /\ \A i \in Initialized(P) :
               i \in Int /\ i \in MinTick..MaxTick /\ i = (i \div Spacing) * Spacing
<1>0. MaxTick \in Nat /\ MinTick \in Int /\ Spacing \in Nat \ {0}
  BY WalkAssumption DEF MinTick
<1>1. Sized(P)
  BY PositionsAssumption, FS_Subset DEF Sized
<1>2. \A q \in P : q.low \in MinTick..MaxTick /\ q.high \in MinTick..MaxTick
                   /\ q.low % Spacing = 0 /\ q.high % Spacing = 0 /\ q.low < q.high
  BY PositionsAssumption
<1>3. \A i \in Initialized(P) : i \in MinTick..MaxTick /\ i % Spacing = 0
  BY <1>2 DEF Initialized
<1>4. \A q \in P : q.low \in Initialized(P) /\ q.high \in Initialized(P)
  BY DEF Initialized
<1>5. \A i \in Initialized(P) : i \in Int /\ i = (i \div Spacing) * Spacing
  <2> SUFFICES ASSUME NEW i \in Initialized(P) PROVE i \in Int /\ i = (i \div Spacing) * Spacing
    OBVIOUS
  <2>1. i \in Int /\ i % Spacing = 0
    BY <1>0, <1>3
  <2> QED
    BY <1>0, <2>1, Divisible
<1>6. \A q \in P : q.low \in Int /\ q.high \in Int
  BY <1>0, <1>2
<1> QED
  BY <1>1, <1>2, <1>3, <1>4, <1>5, <1>6

\* nextTick passes over no initialized tick, down from tick or up from the one above.
Passes(found, tick, down) ==
  /\ found.tick \in Int /\ found.initialized \in BOOLEAN
  /\ found.initialized => found.tick \in Initialized(pool.positions)
  /\ IF down
     THEN /\ found.tick <= tick
          /\ \A i \in Initialized(pool.positions) :
                found.tick <= i /\ i <= tick => found.initialized /\ i = found.tick
     ELSE /\ tick < found.tick
          /\ \A i \in Initialized(pool.positions) :
                tick < i /\ i <= found.tick => found.initialized /\ i = found.tick

\* NextTick returns what Passes says, whether the word of the bitmap has an initialized
\* tick or the walk goes to the word's end.
LEMMA NextTickPasses ==
  ASSUME pool.positions \in SUBSET Positions, request.zero \in BOOLEAN, NEW tick \in Int
  PROVE  Passes(NextTick(tick), tick, request.zero)
<1> DEFINE here == tick \div Spacing
           first == here + IF request.zero THEN 0 ELSE 1
           word == (first \div WordSize) * WordSize
           bits == {i \in 0..(WordSize - 1) : (word + i) * Spacing \in Initialized(pool.positions)}
           ahead == {i \in bits : IF request.zero THEN word + i <= first ELSE word + i >= first}
           end == IF request.zero THEN 0 ELSE WordSize - 1
           spot == IF ahead = {} THEN end ELSE IF request.zero THEN Max(ahead) ELSE Min(ahead)
<1>0. Spacing \in Nat \ {0} /\ WordSize \in Nat \ {0}
  BY WalkAssumption
<1>1. NextTick(tick) = [tick |-> (word + spot) * Spacing, initialized |-> ahead # {}]
  BY DEF NextTick, Compressed
<1>2. here \in Int /\ here * Spacing <= tick /\ tick < here * Spacing + Spacing
  BY <1>0, Division
<1>3. first \in Int /\ first = IF request.zero THEN here ELSE here + 1
  BY <1>2
<1>4. word \in Int /\ word <= first /\ first <= word + (WordSize - 1)
  <2>1. word \in Int /\ word <= first /\ first < word + WordSize
    <3> HIDE DEF first
    <3>1. first \div WordSize \in Int
      BY <1>0, <1>3, Division
    <3>2. word \in Int
      BY <1>0, <3>1, Product
    <3> QED
      BY <1>0, <1>3, <3>2, Division
  <2> HIDE DEF first, word
  <2> QED
    BY <2>1, <1>0, <1>3
<1>5. ASSUME NEW i \in Initialized(pool.positions)
      PROVE  i \div Spacing \in Int /\ i = (i \div Spacing) * Spacing /\ i \in Int
  BY <1>0, PositionTicks, Division
<1>6. ahead \subseteq 0..(WordSize - 1)
  OBVIOUS
<1>7. ASSUME ahead # {}
      PROVE  /\ spot \in ahead
             /\ IF request.zero THEN \A i \in ahead : i <= spot ELSE \A i \in ahead : spot <= i
  <2>1. WordSize - 1 \in Nat /\ ahead \subseteq Nat
    BY <1>0, <1>6
  <2>2. Max(ahead) \in ahead /\ \A i \in ahead : i <= Max(ahead)
    <3> HIDE DEF ahead
    <3> QED
      BY <2>1, <1>6, <1>7, LargestOf
  <2>3. Min(ahead) \in ahead /\ \A i \in ahead : Min(ahead) <= i
    <3> HIDE DEF ahead
    <3> QED
      BY <2>1, <1>7, SmallestOf
  <2> HIDE DEF ahead
  <2> QED
    BY <2>2, <2>3, <1>7
<1>8. spot \in 0..(WordSize - 1)
  <2>1. end \in 0..(WordSize - 1)
    BY <1>0
  <2>2. ASSUME ahead # {} PROVE spot \in 0..(WordSize - 1)
    <3> HIDE DEF ahead, spot
    <3> QED
      BY <1>6, <1>7, <2>2
  <2>3. ahead = {} => spot = end
    OBVIOUS
  <2> HIDE DEF ahead, spot, end
  <2> QED
    BY <2>1, <2>2, <2>3
<1> DEFINE at == (word + spot) * Spacing
<1>9. at \in Int /\ word + spot \in Int
  <2> HIDE DEF word, spot
  <2>1. word + spot \in Int
    BY <1>4, <1>8
  <2> QED
    BY <1>0, <2>1, Product
<1>10. ahead # {} => at \in Initialized(pool.positions)
  <2>1. ahead # {} => spot \in bits
    <3>1. ahead \subseteq bits
      OBVIOUS
    <3> HIDE DEF ahead, spot, bits
    <3> QED
      BY <1>7, <3>1
  <2> HIDE DEF spot, word
  <2> QED
    BY <2>1
<1>11. ASSUME request.zero
       PROVE  /\ at <= tick
              /\ \A i \in Initialized(pool.positions) :
                    at <= i /\ i <= tick => ahead # {} /\ i = at
  <2>1. first = here /\ end = 0
    BY <1>2, <1>11
  <2>2. word + spot <= here
    <3>1. CASE ahead = {}
      <4>1. spot = 0
        BY <3>1, <1>11
      <4> HIDE DEF spot, word
      <4> QED
        BY <4>1, <1>4, <2>1
    <3>2. CASE ahead # {}
      <4>1. \A i \in ahead : word + i <= first
        BY <1>11
      <4> HIDE DEF ahead, spot, first
      <4> QED
        BY <4>1, <1>7, <3>2, <2>1
    <3> QED
      BY <3>1, <3>2
  <2>3. at <= tick
    <3> HIDE DEF word, spot, here
    <3>1. here * Spacing \in Int
      BY <1>0, <1>2, Product
    <3>2. at <= here * Spacing
      BY <1>0, <1>2, <1>9, <2>2, Multiples
    <3> HIDE DEF at
    <3> QED
      BY <3>1, <3>2, <1>2, <1>9
  <2>4. ASSUME NEW i \in Initialized(pool.positions), at <= i, i <= tick
        PROVE  ahead # {} /\ i = at
    <3> DEFINE n == i \div Spacing
    <3>1. n \in Int /\ i = n * Spacing /\ i \in Int
      BY <1>5
    <3>2. n <= here
      <4> HIDE DEF n, here
      <4>1. n * Spacing < here * Spacing + Spacing
        <5>1. here * Spacing \in Int /\ n * Spacing \in Int
          BY <1>0, <1>2, <3>1, Product
        <5> QED
          BY <1>0, <1>2, <2>4, <3>1, <5>1
      <4> QED
        BY <1>0, <1>2, <3>1, <4>1, Multiples
    <3>3. word + spot <= n
      <4> HIDE DEF n, word, spot
      <4>1. at < n * Spacing + Spacing
        <5> HIDE DEF at
        <5>1. at <= n * Spacing
          BY <2>4, <3>1
        <5>2. n * Spacing \in Int
          BY <3>1
        <5> QED
          BY <1>0, <1>9, <5>1, <5>2
      <4> QED
        BY <1>0, <1>9, <3>1, <4>1, Multiples
    <3>4. n - word \in 0..(WordSize - 1) /\ word + (n - word) = n
      <4> HIDE DEF n, word, spot, first, here
      <4> QED
        BY <1>0, <1>2, <1>4, <1>8, <2>1, <3>1, <3>2, <3>3
    <3>5. n - word \in bits
      <4>1. (word + (n - word)) * Spacing \in Initialized(pool.positions)
        <5> HIDE DEF n, word
        <5> QED
          BY <3>1, <3>4
      <4> HIDE DEF n, word
      <4> QED
        BY <3>4, <4>1
    <3>6. n - word \in ahead
      <4>1. word + (n - word) <= first
        <5> HIDE DEF n, word, first, here
        <5> QED
          BY <2>1, <3>2, <3>4
      <4> HIDE DEF n, word, first, bits
      <4> QED
        BY <1>11, <3>5, <4>1
    <3>7. n - word <= spot
      <4> HIDE DEF n, word, spot, ahead
      <4> QED
        BY <1>7, <1>11, <3>6
    <3>8. n = word + spot
      <4> HIDE DEF n, word, spot, ahead
      <4> QED
        BY <1>4, <1>8, <3>1, <3>3, <3>7
    <3> HIDE DEF n, word, spot, ahead
    <3> QED
      BY <3>1, <3>6, <3>8
  <2> HIDE DEF at, ahead
  <2> QED
    BY <2>3, <2>4
<1>12. ASSUME ~request.zero
       PROVE  /\ tick < at
              /\ \A i \in Initialized(pool.positions) :
                    tick < i /\ i <= at => ahead # {} /\ i = at
  <2>1. first = here + 1 /\ end = WordSize - 1
    BY <1>12
  <2>2. here + 1 <= word + spot
    <3>1. CASE ahead = {}
      <4>1. spot = WordSize - 1
        BY <3>1, <1>12
      <4> HIDE DEF spot, word, first, here
      <4> QED
        BY <4>1, <1>4, <2>1
    <3>2. CASE ahead # {}
      <4>1. \A i \in ahead : word + i >= first
        BY <1>12
      <4> HIDE DEF ahead, spot, word
      <4>2. word + spot >= first
        BY <4>1, <1>7, <3>2
      <4> HIDE DEF first, here
      <4> QED
        BY <4>2, <1>2, <1>3, <1>9, <2>1
    <3> QED
      BY <3>1, <3>2
  <2>3. tick < at
    <3> HIDE DEF word, spot, here
    <3>1. here * Spacing \in Int
      BY <1>0, <1>2, Product
    <3>2. here * Spacing + Spacing <= at
      <4>1. (here + 1) * Spacing <= at
        BY <1>0, <1>2, <1>9, <2>2, Multiples
      <4>2. (here + 1) * Spacing = here * Spacing + Spacing
        BY <1>0, <1>2
      <4> QED
        BY <4>1, <4>2
    <3> HIDE DEF at
    <3> QED
      BY <3>1, <3>2, <1>0, <1>2, <1>9
  <2>4. ASSUME NEW i \in Initialized(pool.positions), tick < i, i <= at
        PROVE  ahead # {} /\ i = at
    <3> DEFINE n == i \div Spacing
    <3>1. n \in Int /\ i = n * Spacing /\ i \in Int
      BY <1>5
    <3>2. here + 1 <= n
      <4> HIDE DEF n, here
      <4>1. here * Spacing \in Int /\ n * Spacing \in Int
        BY <1>0, <1>2, <3>1, Product
      <4>2. ASSUME n <= here PROVE FALSE
        <5>1. n * Spacing <= here * Spacing
          BY <1>0, <1>2, <3>1, <4>2, Multiples
        <5> QED
          BY <1>2, <2>4, <3>1, <4>1, <5>1
      <4> QED
        BY <1>2, <3>1, <4>2
    <3>3. n <= word + spot
      <4> HIDE DEF n, word, spot
      <4>1. n * Spacing < at + Spacing
        <5> HIDE DEF at
        <5> QED
          BY <1>0, <1>9, <2>4, <3>1
      <4> QED
        BY <1>0, <1>9, <3>1, <4>1, Multiples
    <3>4. n - word \in 0..(WordSize - 1) /\ word + (n - word) = n
      <4> HIDE DEF n, word, spot, first, here
      <4> QED
        BY <1>0, <1>2, <1>4, <1>8, <2>1, <3>1, <3>2, <3>3
    <3>5. n - word \in bits
      <4>1. (word + (n - word)) * Spacing \in Initialized(pool.positions)
        <5> HIDE DEF n, word
        <5> QED
          BY <3>1, <3>4
      <4> HIDE DEF n, word
      <4> QED
        BY <3>4, <4>1
    <3>6. n - word \in ahead
      <4>1. word + (n - word) >= first
        <5> HIDE DEF n, word, first, here
        <5> QED
          BY <1>2, <2>1, <3>1, <3>2, <3>4
      <4> HIDE DEF n, word, first, bits
      <4> QED
        BY <1>12, <3>5, <4>1
    <3>7. spot <= n - word
      <4> HIDE DEF n, word, spot, ahead
      <4> QED
        BY <1>7, <1>12, <3>6
    <3>8. n = word + spot
      <4> HIDE DEF n, word, spot, ahead
      <4> QED
        BY <1>4, <1>8, <3>1, <3>3, <3>7
    <3> HIDE DEF n, word, spot, ahead
    <3> QED
      BY <3>1, <3>6, <3>8
  <2> HIDE DEF at, ahead
  <2> QED
    BY <2>3, <2>4
<1>13. NextTick(tick).tick = at /\ NextTick(tick).initialized = (ahead # {})
  <2> HIDE DEF word, spot, ahead
  <2> QED
    BY <1>1
<1> HIDE DEF at, ahead
<1> QED
  BY <1>9, <1>10, <1>11, <1>12, <1>13 DEF Passes

-----------------------------------------------------------------------------
(* The liquidity around a tick. *)

\* It is the same at two ticks with no initialized tick between them.
LEMMA SameLiquidity ==
  ASSUME NEW P \in SUBSET Positions, NEW a \in Int, NEW b \in Int,
         \A i \in Initialized(P) : ~(a < i /\ i <= b) /\ ~(b < i /\ i <= a)
  PROVE  LiquidityAt(P, a) = LiquidityAt(P, b)
<1>1. \A q \in P : (q.low <= a /\ a < q.high) <=> (q.low <= b /\ b < q.high)
  BY PositionTicks
<1>2. {q \in P : q.low <= a /\ a < q.high} = {q \in P : q.low <= b /\ b < q.high}
  BY <1>1
<1> QED
  BY <1>2 DEF LiquidityAt

\* Liquidity in use is a natural number.
LEMMA LiquidityNat ==
  ASSUME NEW P \in SUBSET Positions, NEW t PROVE LiquidityAt(P, t) \in Nat
  BY PositionTicks, SizedPart, SizeOfNat DEF LiquidityAt

\* It changes at a tick by the net of the positions that begin and end there.
LEMMA NetLiquidity ==
  ASSUME NEW P \in SUBSET Positions, NEW t \in Int
  PROVE  LiquidityAt(P, t) = LiquidityAt(P, t - 1) + Net(P, t)
<1> DEFINE in == {q \in P : q.low < t /\ t < q.high}
           starts == {q \in P : q.low = t}
           ends == {q \in P : q.high = t}
<1>1. Sized(P) /\ \A q \in P : q.low \in Int /\ q.high \in Int /\ q.low < q.high
  BY PositionTicks
<1>2. {q \in P : q.low <= t /\ t < q.high} = in \cup starts /\ in \cap starts = {}
  BY <1>1
<1>3. {q \in P : q.low <= t - 1 /\ t - 1 < q.high} = in \cup ends /\ in \cap ends = {}
  BY <1>1
<1>4. in \in SUBSET P /\ starts \in SUBSET P /\ ends \in SUBSET P
  OBVIOUS
<1>5. Net(P, t) = SizeOf(starts) - SizeOf(ends)
  BY DEF Net
<1>6. LiquidityAt(P, t) = SizeOf(in \cup starts) /\ LiquidityAt(P, t - 1) = SizeOf(in \cup ends)
  BY <1>2, <1>3 DEF LiquidityAt
<1> HIDE DEF in, starts, ends
<1>7. SizeOf(in \cup starts) = SizeOf(in) + SizeOf(starts)
      /\ SizeOf(in \cup ends) = SizeOf(in) + SizeOf(ends)
  BY <1>1, <1>2, <1>3, <1>4, SizeOfDisjoint
<1>8. SizeOf(in) \in Nat /\ SizeOf(starts) \in Nat /\ SizeOf(ends) \in Nat
  BY <1>1, <1>4, SizedPart, SizeOfNat
<1> QED
  BY <1>5, <1>6, <1>7, <1>8

-----------------------------------------------------------------------------
(* The walk. *)

\* The captured state and the request.
Captured ==
  /\ pool.positions \in SUBSET Positions /\ pool.tick \in TicksOf(pool.price)
  /\ request.zero \in BOOLEAN /\ "zero" \in DOMAIN request
\* Where the walk is.
Walking ==
  /\ walk.tick \in (MinTick - 1)..MaxTick
  /\ DOMAIN walk = {"p", "l", "tick", "remaining", "result", "fees"}
\* Crossing a tick left liquidity below none: ErrRange.
InRange == outcome # "range"

\* The walk's spot: inductive by itself.
WalkInv == Captured /\ Walking /\ InRange /\ LiquidityFollows

\* Ticks range over as many numbers below zero as above.
LEMMA TickRange == MaxTick \in Nat /\ MinTick \in Int /\ MinTick = -MaxTick /\ MinTick < MaxTick
  BY WalkAssumption DEF MinTick

\* A clamped tick is one.
LEMMA ClampRange == ASSUME NEW t \in Int PROVE Clamp(t) \in MinTick..MaxTick /\ Clamp(t) \in Int
  BY TickRange DEF Clamp

\* What Start makes of a captured state.
Started(w) ==
  /\ w.tick \in (MinTick - 1)..MaxTick
  /\ DOMAIN w = {"p", "l", "tick", "remaining", "result", "fees"}
  /\ w.l = LiquidityAt(pool.positions, w.tick)
  /\ SqrtAtTick(Clamp(w.tick)) <= w.p /\ w.p <= SqrtAtTick(Clamp(w.tick + 1))

\* A walk starts with the liquidity of the pool's tick, on a price of that tick.
LEMMA StartFollows == ASSUME Captured, NEW amount PROVE Started(Start(amount))
<1>1. pool.tick \in MinTick..(MaxTick - 1)
      /\ SqrtAtTick(pool.tick) <= pool.price /\ pool.price <= SqrtAtTick(pool.tick + 1)
  BY DEF Captured, TicksOf
<1>2. Clamp(pool.tick) = pool.tick /\ Clamp(pool.tick + 1) = pool.tick + 1
  BY <1>1, TickRange DEF Clamp
<1>3. pool.tick \in (MinTick - 1)..MaxTick
  BY <1>1, TickRange
<1> DEFINE w == Start(amount)
<1>4. w.tick = pool.tick /\ w.p = pool.price /\ w.l = LiquidityAt(pool.positions, pool.tick)
      /\ DOMAIN w = {"p", "l", "tick", "remaining", "result", "fees"}
  BY DEF Start
<1> HIDE DEF w
<1>5. Started(w)
  BY <1>1, <1>2, <1>3, <1>4 DEF Started
<1> QED
  BY <1>5 DEF w

\* The first walk starts within the invariant.
LEMMA WalkInitInv == WalkInit => WalkInv
<1> SUFFICES ASSUME WalkInit PROVE WalkInv
  OBVIOUS
<1>1. PICK positions \in SUBSET Positions, version \in {"v3", "v4"}, price \in PriceBounds :
        \E tick \in TicksOf(price) :
          pool = [positions |-> positions, version |-> version, price |-> price, tick |-> tick]
  BY DEF WalkInit
<1>2. PICK tick \in TicksOf(price) :
        pool = [positions |-> positions, version |-> version, price |-> price, tick |-> tick]
  BY <1>1
<1>3. pool.positions \in SUBSET Positions /\ pool.tick \in TicksOf(pool.price)
  BY <1>2
<1>4. request.zero \in BOOLEAN /\ "zero" \in DOMAIN request
  BY DEF WalkInit
<1>5. Captured
  BY <1>3, <1>4 DEF Captured
<1>6. walk = Start(request.amount) /\ outcome = "none"
  BY DEF WalkInit
<1>7. Started(walk)
  BY <1>5, <1>6, StartFollows
<1> QED
  BY <1>5, <1>6, <1>7 DEF Started, WalkInv, Walking, InRange, LiquidityFollows

\* So does every further walk, the inverse one included.
LEMMA QuoteAgainInv ==
  ASSUME WalkInv, QuoteGross \/ QuoteInverse
  PROVE  WalkInv'
<1>1. \E amount : walk' = Start(amount)
  BY DEF QuoteGross, QuoteInverse, Restart
<1>2. pool' = pool /\ outcome' = "none"
  BY DEF QuoteGross, QuoteInverse
<1>3. request'.zero = request.zero /\ "zero" \in DOMAIN request'
  BY DEF QuoteGross, QuoteInverse, WalkInv, Captured
<1>4. Captured'
  BY <1>2, <1>3 DEF WalkInv, Captured
<1>5. Started(walk')
  BY <1>1, StartFollows DEF WalkInv
<1> QED
  BY <1>2, <1>4, <1>5 DEF Started, WalkInv, Walking, InRange, LiquidityFollows

\* The walk's place after it crossed the next tick.
LEMMA CrossedFollows ==
  ASSUME WalkInv, outcome = "none", NEW found, Passes(found, walk.tick, request.zero),
         NEW w, w = Crossed(Clamp(found.tick), found.initialized)
  PROVE  /\ w.tick \in (MinTick - 1)..MaxTick
         /\ DOMAIN w = {"p", "l", "tick", "remaining", "result", "fees"}
         /\ w.l = LiquidityAt(pool.positions, w.tick) /\ w.l \in Nat
         /\ SqrtAtTick(Clamp(w.tick)) <= SqrtAtTick(Clamp(found.tick))
         /\ SqrtAtTick(Clamp(found.tick)) <= SqrtAtTick(Clamp(w.tick + 1))
<1> DEFINE next == Clamp(found.tick)
           P == pool.positions
           t == walk.tick
<1>1. /\ P \in SUBSET Positions /\ t \in Int /\ t \in (MinTick - 1)..MaxTick
      /\ DOMAIN walk = {"p", "l", "tick", "remaining", "result", "fees"}
      /\ walk.l = LiquidityAt(P, t)
      /\ request.zero \in BOOLEAN
  BY TickRange DEF WalkInv, Captured, Walking, LiquidityFollows
<1>2. next \in MinTick..MaxTick /\ next \in Int /\ found.tick \in Int /\ found.initialized \in BOOLEAN
  BY ClampRange DEF Passes
<1>3. /\ w.tick = IF request.zero THEN next - 1 ELSE next
      /\ w.l = IF ~found.initialized THEN walk.l
               ELSE IF request.zero THEN walk.l - Net(P, next) ELSE walk.l + Net(P, next)
      /\ DOMAIN w = DOMAIN walk
  BY <1>1 DEF Crossed
<1>4. w.tick \in (MinTick - 1)..MaxTick /\ w.tick \in Int
  BY <1>1, <1>2, <1>3, TickRange
<1>5. found.initialized => next = found.tick /\ next \in Initialized(P)
  BY <1>1, <1>2, PositionTicks, TickRange DEF Passes, Clamp
<1>6. ASSUME NEW i \in Initialized(P) PROVE i \in MinTick..MaxTick /\ i \in Int
  BY <1>1, PositionTicks
<1>7. w.l = LiquidityAt(P, w.tick)
  <2>1. CASE ~found.initialized
    <3>1. \A i \in Initialized(P) : ~(t < i /\ i <= w.tick) /\ ~(w.tick < i /\ i <= t)
      <4>1. CASE request.zero
        <5>1. \A i \in Initialized(P) : ~(found.tick <= i /\ i <= t)
          BY <2>1, <4>1 DEF Passes
        <5>2. found.tick <= t
          BY <4>1 DEF Passes
        <5>3. w.tick = next - 1
          BY <1>3, <4>1
        <5> SUFFICES ASSUME NEW i \in Initialized(P)
                     PROVE  ~(t < i /\ i <= w.tick) /\ ~(w.tick < i /\ i <= t)
          OBVIOUS
        <5>4. i \in Int /\ MinTick <= i /\ i <= MaxTick
          BY <1>6, TickRange
        <5>5. next - 1 < i => found.tick <= i
          BY <1>1, <1>2, <5>2, <5>4, TickRange DEF Clamp
        <5>6. next - 1 <= t
          BY <1>1, <1>2, <5>2, TickRange DEF Clamp
        <5> HIDE DEF t, next, P
        <5>7. ~(w.tick < i /\ i <= t)
          BY <5>1, <5>3, <5>5
        <5>8. ~(t < i /\ i <= w.tick)
          BY <1>1, <1>2, <5>3, <5>4, <5>6
        <5> QED
          BY <5>7, <5>8
      <4>2. CASE ~request.zero
        <5>1. \A i \in Initialized(P) : ~(t < i /\ i <= found.tick)
          BY <2>1, <4>2 DEF Passes
        <5>2. t < found.tick
          BY <4>2 DEF Passes
        <5>3. w.tick = next
          BY <1>3, <4>2
        <5> SUFFICES ASSUME NEW i \in Initialized(P)
                     PROVE  ~(t < i /\ i <= w.tick) /\ ~(w.tick < i /\ i <= t)
          OBVIOUS
        <5>4. i \in Int /\ MinTick <= i /\ i <= MaxTick
          BY <1>6, TickRange
        <5>5. i <= next => i <= found.tick
          BY <1>1, <1>2, <5>2, <5>4, TickRange DEF Clamp
        <5>6. t <= next
          BY <1>1, <1>2, <5>2, TickRange DEF Clamp
        <5> HIDE DEF t, next, P
        <5>7. ~(t < i /\ i <= w.tick)
          BY <5>1, <5>3, <5>5
        <5>8. ~(w.tick < i /\ i <= t)
          BY <1>1, <1>2, <5>3, <5>4, <5>6
        <5> QED
          BY <5>7, <5>8
      <4> QED
        BY <4>1, <4>2
    <3>2. LiquidityAt(P, t) = LiquidityAt(P, w.tick)
      BY <1>1, <1>4, <3>1, SameLiquidity
    <3> QED
      BY <1>1, <1>3, <2>1, <3>2
  <2>2. CASE found.initialized
    <3>1. LiquidityAt(P, next) = LiquidityAt(P, next - 1) + Net(P, next)
      BY <1>1, <1>2, NetLiquidity
    <3>2. LiquidityAt(P, next) \in Nat /\ LiquidityAt(P, next - 1) \in Nat /\ Net(P, next) \in Int
      BY <1>1, LiquidityNat, PositionTicks, SizedPart, SizeOfNat DEF Net
    <3>3. next = found.tick
      BY <1>5, <2>2
    <3>4. CASE request.zero
      <4>1. next <= t /\ \A i \in Initialized(P) : next <= i /\ i <= t => i = next
        BY <3>3, <3>4 DEF Passes
      <4>2. \A i \in Initialized(P) : ~(t < i /\ i <= next) /\ ~(next < i /\ i <= t)
        BY <1>1, <1>2, <1>6, <4>1
      <4>3. LiquidityAt(P, t) = LiquidityAt(P, next)
        BY <1>1, <1>2, <4>2, SameLiquidity
      <4>4. w.l = LiquidityAt(P, next) - Net(P, next) /\ w.tick = next - 1
        BY <1>1, <1>3, <2>2, <3>4, <4>3
      <4> HIDE DEF P, t, next
      <4> QED
        BY <3>1, <3>2, <4>4
    <3>5. CASE ~request.zero
      <4>1. t < next /\ \A i \in Initialized(P) : t < i /\ i <= next => i = next
        BY <3>3, <3>5 DEF Passes
      <4>2. next - 1 \in Int
            /\ \A i \in Initialized(P) : ~(t < i /\ i <= next - 1) /\ ~(next - 1 < i /\ i <= t)
        BY <1>1, <1>2, <1>6, <4>1
      <4>3. LiquidityAt(P, t) = LiquidityAt(P, next - 1)
        BY <1>1, <1>2, <4>2, SameLiquidity
      <4>4. w.l = LiquidityAt(P, next - 1) + Net(P, next) /\ w.tick = next
        BY <1>1, <1>3, <2>2, <3>5, <4>3
      <4> HIDE DEF P, t, next
      <4> QED
        BY <3>1, <3>2, <4>4
    <3> QED
      BY <1>1, <3>4, <3>5
  <2> QED
    BY <1>2, <2>1, <2>2
<1>8. w.l \in Nat
  BY <1>1, <1>7, LiquidityNat
<1>9. \A s \in MinTick..MaxTick : SqrtAtTick(s) \in Nat /\ (s < MaxTick => SqrtAtTick(s) <= SqrtAtTick(s + 1))
  <2> SUFFICES ASSUME NEW s \in MinTick..MaxTick
               PROVE  SqrtAtTick(s) \in Nat /\ (s < MaxTick => SqrtAtTick(s) <= SqrtAtTick(s + 1))
    OBVIOUS
  <2>1. s < MaxTick => s + 1 \in MinTick..MaxTick
    BY TickRange
  <2> QED
    BY <2>1, WalkAssumption
<1>10. SqrtAtTick(Clamp(next - 1)) <= SqrtAtTick(next) /\ SqrtAtTick(next) <= SqrtAtTick(Clamp(next))
  <2> HIDE DEF next
  <2>1. Clamp(next) = next /\ next - 1 \in Int
    BY <1>2, TickRange DEF Clamp
  <2>2. CASE next = MinTick
    <3>1. Clamp(next - 1) = next
      BY <2>2, TickRange DEF Clamp
    <3> QED
      BY <1>2, <1>9, <2>1, <3>1
  <2>3. CASE next # MinTick
    <3>1. Clamp(next - 1) = next - 1 /\ next - 1 \in MinTick..MaxTick /\ next - 1 < MaxTick
          /\ (next - 1) + 1 = next
      BY <1>2, <2>3, TickRange DEF Clamp
    <3> QED
      BY <1>2, <1>9, <2>1, <3>1
  <2> QED
    BY <2>2, <2>3
<1>11. SqrtAtTick(next) <= SqrtAtTick(Clamp(next + 1))
  <2> HIDE DEF next
  <2>2. CASE next = MaxTick
    <3>1. Clamp(next + 1) = next
      BY <2>2, TickRange DEF Clamp
    <3> QED
      BY <1>2, <1>9, <3>1
  <2>3. CASE next # MaxTick
    <3>1. Clamp(next + 1) = next + 1 /\ next < MaxTick
      BY <1>2, <2>3, TickRange DEF Clamp
    <3> QED
      BY <1>2, <1>9, <3>1
  <2> QED
    BY <2>2, <2>3
<1>12. Clamp(next) = next /\ (next - 1) + 1 = next
  <2> HIDE DEF next
  <2> QED
    BY <1>2, TickRange DEF Clamp
<1>13. /\ SqrtAtTick(Clamp(w.tick)) <= SqrtAtTick(next)
       /\ SqrtAtTick(next) <= SqrtAtTick(Clamp(w.tick + 1))
  <2> HIDE DEF next
  <2>1. CASE request.zero
    <3>1. w.tick = next - 1 /\ w.tick + 1 = next
      BY <1>3, <1>12, <2>1
    <3> QED
      BY <1>2, <1>10, <1>12, <3>1
  <2>2. CASE ~request.zero
    <3>1. w.tick = next
      BY <1>3, <2>2
    <3> QED
      BY <1>2, <1>9, <1>11, <1>12, <3>1
  <2> QED
    BY <1>1, <2>1, <2>2
<1> QED
  BY <1>1, <1>3, <1>4, <1>7, <1>8, <1>13

\* A step of the walk keeps the invariant: liquidity is the one of the tick the walk is at,
\* the price is within that tick's bounds, and crossing a tick never leaves less than none.
LEMMA IterateInv ==
  ASSUME WalkInv, Iterate
  PROVE  WalkInv'
<1> DEFINE found == NextTick(walk.tick)
           next == Clamp(found.tick)
           limit == SqrtAtTick(IF request.zero THEN MinTick ELSE MaxTick)
                       + IF request.zero THEN 1 ELSE -1
           target == IF IF request.zero THEN SqrtAtTick(next) < limit ELSE SqrtAtTick(next) > limit
                     THEN limit ELSE SqrtAtTick(next)
           step == CalculateStep(pool.version, walk.p, target, walk.l, walk.remaining,
                                 request.fee, request.input, request.zero)
           remaining == walk.remaining - IF request.input THEN step.in + step.fee ELSE step.out
           result == walk.result + IF request.input THEN step.out ELSE step.in + step.fee
           whole == Crossed(next, found.initialized)
           crossed == IF step.price = SqrtAtTick(next) THEN whole ELSE walk
           moved == [(IF outcome' \in {"none", "range"} THEN crossed ELSE walk)
                             EXCEPT !.p = step.price, !.remaining = remaining,
                                    !.result = result, !.fees = @ + step.fee]
<1>0. /\ Captured /\ walk.tick \in (MinTick - 1)..MaxTick /\ outcome = "none"
      /\ DOMAIN walk = {"p", "l", "tick", "remaining", "result", "fees"}
      /\ pool' = pool /\ request' = request
  BY DEF WalkInv, Walking, Iterate
<1>1. Captured'
  BY <1>0 DEF Captured
<1>2. \/ walk' = walk /\ outcome' \in {"price", "negative"}
      \/ /\ walk' = moved
         /\ outcome' = IF remaining = 0 THEN "quoted"
                       ELSE IF step.price = limit THEN "ends"
                       ELSE IF step.price # SqrtAtTick(next) THEN "incomplete"
                       ELSE IF crossed.l < 0 THEN "range"
                       ELSE "none"
  BY DEF Iterate
<1>3. Passes(found, walk.tick, request.zero)
  <2>1. walk.tick \in Int
    BY <1>0, TickRange
  <2> QED
    BY <1>0, <2>1, NextTickPasses DEF Captured
<1> HIDE DEF found
<1>4. /\ whole.tick \in (MinTick - 1)..MaxTick
      /\ DOMAIN whole = {"p", "l", "tick", "remaining", "result", "fees"}
      /\ whole.l = LiquidityAt(pool.positions, whole.tick) /\ whole.l \in Nat
      /\ SqrtAtTick(Clamp(whole.tick)) <= SqrtAtTick(next)
      /\ SqrtAtTick(next) <= SqrtAtTick(Clamp(whole.tick + 1))
  BY <1>0, <1>3, CrossedFollows
<1> HIDE DEF step, remaining, result, limit, next, target, whole
<1>5. CASE walk' = walk /\ outcome' \in {"price", "negative"}
  BY <1>0, <1>1, <1>5 DEF WalkInv, Walking, InRange, LiquidityFollows
<1>6. CASE /\ walk' = moved
           /\ outcome' = IF remaining = 0 THEN "quoted"
                       ELSE IF step.price = limit THEN "ends"
                       ELSE IF step.price # SqrtAtTick(next) THEN "incomplete"
                       ELSE IF crossed.l < 0 THEN "range"
                       ELSE "none"
  <2> DEFINE base == IF outcome' \in {"none", "range"} THEN crossed ELSE walk
  <2>1. base \in {whole, walk}
    OBVIOUS
  <2>2. DOMAIN base = {"p", "l", "tick", "remaining", "result", "fees"}
        /\ base.tick \in (MinTick - 1)..MaxTick
    <3> HIDE DEF base
    <3> QED
      BY <2>1, <1>0, <1>4
  <2>3. walk' = [base EXCEPT !.p = step.price, !.remaining = remaining,
                             !.result = result, !.fees = @ + step.fee]
    BY <1>6
  <2>4. ASSUME outcome' \in {"none", "range"}
        PROVE  step.price = SqrtAtTick(next) /\ crossed = whole /\ base = whole /\ outcome' = "none"
    <3>1. step.price = SqrtAtTick(next)
      BY <1>6, <2>4
    <3>2. crossed = whole
      BY <3>1
    <3>3. ~(whole.l < 0)
      BY <1>4
    <3>4. outcome' = "none"
      <4> HIDE DEF crossed
      <4> QED
        BY <1>6, <2>4, <3>2, <3>3
    <3>5. base = whole
      BY <2>4, <3>2
    <3> QED
      BY <3>1, <3>2, <3>4, <3>5
  <2>5. DOMAIN walk' = {"p", "l", "tick", "remaining", "result", "fees"}
        /\ walk'.tick = base.tick /\ walk'.l = base.l /\ walk'.p = step.price
    <3> HIDE DEF base
    <3> QED
      BY <2>2, <2>3
  <2>6. Walking'
    <3> HIDE DEF base
    <3>1. walk'.tick \in (MinTick - 1)..MaxTick
      BY <2>2, <2>5
    <3> QED
      BY <2>5, <3>1 DEF Walking
  <2>7. InRange'
    BY <2>4 DEF InRange
  <2>8. LiquidityFollows'
    <3> SUFFICES ASSUME outcome' = "none"
                 PROVE  /\ walk'.l = LiquidityAt(pool'.positions, walk'.tick)
                        /\ SqrtAtTick(Clamp(walk'.tick)) <= walk'.p
                        /\ walk'.p <= SqrtAtTick(Clamp(walk'.tick + 1))
      BY DEF LiquidityFollows
    <3>1. step.price = SqrtAtTick(next) /\ base = whole
      BY <2>4
    <3>2. walk'.tick = whole.tick /\ walk'.l = whole.l /\ walk'.p = SqrtAtTick(next)
      <4> HIDE DEF base
      <4> QED
        BY <2>5, <3>1
    <3> QED
      BY <1>0, <1>4, <3>2
  <2> QED
    BY <1>1, <2>6, <2>7, <2>8 DEF WalkInv
<1> QED
  BY <1>2, <1>5, <1>6

\* Nothing else touches the walk.
LEMMA SameWalk == ASSUME WalkInv, UNCHANGED walkVars PROVE WalkInv'
  BY DEF WalkInv, walkVars, Captured, Walking, InRange, LiquidityFollows, TicksOf

\* Theorem: whatever the pool's positions, price and spacing, the liquidity the walk reckons
\* with is the pool's at the tick it has reached (nextTick jumps over bitmap words, crossing
\* adds the net of a tick: local_math.go), and no tick takes more than there is.
THEOREM LiquiditySafe == WalkSpec => [](LiquidityFollows /\ InRange)
<1>1. WalkInit => WalkInv
  BY WalkInitInv
<1>2. WalkInv /\ [WalkNext]_walkVars => WalkInv'
  BY IterateInv, QuoteAgainInv, SameWalk DEF WalkNext
<1>3. WalkInv => LiquidityFollows /\ InRange
  BY DEF WalkInv
<1> QED
  BY <1>1, <1>2, <1>3, PTL DEF WalkSpec

-----------------------------------------------------------------------------
(* The amounts of a walk. *)

\* What can be asked, and the quote remembered for the inverse one.
Requests == [amount : 0..MaxUint, zero : BOOLEAN, input : BOOLEAN, fee : Fees \cup {0}]
Quotes == [kind : {"none", "gross", "inverse"}, amount : 0..MaxUint, result : 0..MaxUint]

\* All there could be in use at once; which token is reckoned; how far the tick moved.
AllLiquidity == SizeOf(Positions)
Token0 == request.zero # request.input
Steps == IF request.zero THEN pool.tick - walk.tick ELSE walk.tick - pool.tick

\* The amount moved so far, of the token that is reckoned, is at most all liquidity's between
\* the prices; the result at most that with fees and a unit per step.
Reckoned(amount, steps, price, result) ==
  /\ amount * Den(pool.price, price, Token0) <= Num(pool.price, price, AllLiquidity, Token0)
  /\ result * (FeeUnit - request.fee) <=
       (amount + steps) * FeeUnit + steps * (FeeUnit - request.fee)

\* The state and the request of the walk.
Asked == /\ request \in Requests /\ before \in Quotes
         /\ pool.price \in PriceBounds /\ pool.version \in {"v3", "v4"}
\* The amounts fit.
Counted == /\ walk.p \in PriceBounds /\ walk.l \in Nat
           /\ walk.remaining \in 0..request.amount
           /\ walk.result \in 0..MaxUint /\ walk.fees \in Nat
           /\ walk.fees <= IF request.input THEN request.amount - walk.remaining ELSE walk.result
\* No error has ended the walk.
Ended == outcome \in {"none", "quoted", "ends"}
\* While it lasts, its result is reckoned.
Moved == outcome = "none" =>
           /\ Steps \in Nat
           /\ Ahead(pool.price, walk.p, request.zero)
           /\ \E amount \in Nat : Reckoned(amount, Steps, walk.p, walk.result)

\* The walk's amounts: inductive with WalkInv.
AmountsInv == Asked /\ Counted /\ Ended /\ Moved

-----------------------------------------------------------------------------
\* A higher tick has no lower price.
LEMMA SqrtMonotone ==
  ASSUME NEW a \in MinTick..MaxTick, NEW b \in MinTick..MaxTick, a <= b
  PROVE  SqrtAtTick(a) \in Nat \ {0} /\ SqrtAtTick(b) \in Nat \ {0} /\ SqrtAtTick(a) <= SqrtAtTick(b)
<1> DEFINE T == {k \in Nat : a + k <= MaxTick => SqrtAtTick(a) <= SqrtAtTick(a + k)}
<1>0. a \in Int /\ b \in Int /\ \A t \in MinTick..MaxTick : SqrtAtTick(t) \in Nat \ {0}
  BY WalkAssumption, TickRange
<1>1. 0 \in T
  <2>1. a + 0 = a
    BY <1>0
  <2> QED
    BY <2>1, <1>0
<1>2. ASSUME NEW k \in Nat, k \in T PROVE k + 1 \in T
  <2> SUFFICES ASSUME a + (k + 1) <= MaxTick PROVE SqrtAtTick(a) <= SqrtAtTick(a + (k + 1))
    OBVIOUS
  <2>1. a + k \in MinTick..MaxTick /\ a + k < MaxTick /\ (a + k) + 1 = a + (k + 1)
        /\ a + (k + 1) \in MinTick..MaxTick
    BY <1>0, TickRange
  <2>2. SqrtAtTick(a) <= SqrtAtTick(a + k)
    BY <1>2, <2>1
  <2>3. SqrtAtTick(a + k) < SqrtAtTick((a + k) + 1)
    BY <2>1, WalkAssumption
  <2>4. SqrtAtTick(a + k) < SqrtAtTick(a + (k + 1))
    BY <2>1, <2>3
  <2>5. SqrtAtTick(a) \in Nat /\ SqrtAtTick(a + k) \in Nat /\ SqrtAtTick(a + (k + 1)) \in Nat
    BY <1>0, <2>1
  <2> QED
    BY <2>2, <2>4, <2>5
<1>3. Nat \subseteq T
  <2> HIDE DEF T
  <2> QED
    BY <1>1, <1>2, SetInduction
<1>4. b - a \in Nat /\ a + (b - a) = b /\ b <= MaxTick
  BY <1>0, TickRange
<1>5. SqrtAtTick(a) <= SqrtAtTick(b)
  BY <1>3, <1>4
<1> QED
  BY <1>0, <1>5

\* A pool's price lies between the prices of the outermost ticks.
LEMMA PriceRange ==
  ASSUME NEW p \in PriceBounds
  PROVE  /\ p \in Nat \ {0} /\ SqrtAtTick(MinTick) + 1 <= p /\ p <= SqrtAtTick(MaxTick) - 1
         /\ p \in SqrtAtTick(MinTick)..SqrtAtTick(MaxTick)
<1>1. SqrtAtTick(MinTick) \in Nat \ {0} /\ SqrtAtTick(MaxTick) \in Nat \ {0}
  <2>1. MinTick \in MinTick..MaxTick /\ MaxTick \in MinTick..MaxTick
    BY TickRange
  <2> QED
    BY <2>1, WalkAssumption
<1> QED
  BY <1>1 DEF PriceBounds

\* Liquidity in use is at most that of all positions, and fits the contract's arithmetic.
LEMMA LiquidityAtMost ==
  ASSUME NEW P \in SUBSET Positions, NEW t
  PROVE  /\ LiquidityAt(P, t) \in Nat /\ AllLiquidity \in Nat
         /\ LiquidityAt(P, t) <= AllLiquidity /\ LiquidityAt(P, t) * Q <= MaxUint
<1> DEFINE A == {q \in P : q.low <= t /\ t < q.high}
<1>1. Sized(Positions) /\ A \in SUBSET Positions /\ Positions \ A \in SUBSET Positions
      /\ A \cap (Positions \ A) = {} /\ A \cup (Positions \ A) = Positions
  BY PositionTicks
<1>2. LiquidityAt(P, t) = SizeOf(A)
  BY DEF LiquidityAt
<1> HIDE DEF A
<1>3. SizeOf(Positions) = SizeOf(A) + SizeOf(Positions \ A)
  BY <1>1, SizeOfDisjoint
<1>4. SizeOf(A) \in Nat /\ SizeOf(Positions \ A) \in Nat /\ SizeOf(Positions) \in Nat
  BY <1>1, SizedPart, SizeOfNat
<1>5. LiquidityAt(P, t) <= AllLiquidity /\ LiquidityAt(P, t) \in Nat /\ AllLiquidity \in Nat
  BY <1>2, <1>3, <1>4 DEF AllLiquidity
<1>6. AllLiquidity * Q <= MaxUint /\ Q \in Nat /\ MaxUint \in Nat
  BY AmountsAssumption, WalkAssumption DEF AllLiquidity
<1>7. LiquidityAt(P, t) * Q <= AllLiquidity * Q
  BY <1>5, <1>6
<1>8. LiquidityAt(P, t) * Q \in Nat /\ AllLiquidity * Q \in Nat
  BY <1>5, <1>6
<1> QED
  BY <1>5, <1>6, <1>7, <1>8

\* What was reckoned up to a price and what is reckoned from there on add up.
LEMMA ReckonNext ==
  ASSUME NEW o \in Nat \ {0}, NEW p \in Nat \ {0}, NEW x \in Nat \ {0}, NEW m \in Nat, NEW l \in Nat,
         l <= m, NEW token0 \in BOOLEAN, NEW zero \in BOOLEAN, Ahead(o, p, zero), Ahead(p, x, zero),
         NEW s \in Nat, NEW t \in Nat, s * Den(o, p, token0) <= Num(o, p, m, token0),
         t * Den(p, x, token0) <= Num(p, x, l, token0)
  PROVE  (s + t) * Den(o, x, token0) <= Num(o, x, m, token0)
<1>0. Q \in Nat \ {0} /\ m * Q \in Nat /\ l * Q \in Nat /\ l * Q <= m * Q
  <2>1. Q \in Nat \ {0}
    BY WalkAssumption
  <2> QED
    BY <2>1
<1>1. \/ /\ o <= p /\ p <= x /\ Gap(o, p) = p - o /\ Gap(p, x) = x - p /\ Gap(o, x) = x - o
      \/ /\ x <= p /\ p <= o /\ Gap(o, p) = o - p /\ Gap(p, x) = p - x /\ Gap(o, x) = o - x
  BY DEF Ahead, Gap
<1>2. CASE token0
  <2>1. /\ Den(o, p, token0) = o * p /\ Den(p, x, token0) = p * x /\ Den(o, x, token0) = o * x
        /\ Num(o, p, m, token0) = m * Gap(o, p) * Q /\ Num(p, x, l, token0) = l * Gap(p, x) * Q
        /\ Num(o, x, m, token0) = m * Gap(o, x) * Q
    BY <1>2 DEF Den, Num
  <2>2. Gap(o, p) \in Nat /\ Gap(p, x) \in Nat /\ Gap(o, x) \in Nat
    BY DEF Gap
  <2>3. /\ m * Gap(o, p) * Q = (m * Q) * Gap(o, p) /\ l * Gap(p, x) * Q = (l * Q) * Gap(p, x)
        /\ m * Gap(o, x) * Q = (m * Q) * Gap(o, x)
    BY <1>0, <2>2
  <2>4. s * (o * p) <= (m * Q) * Gap(o, p) /\ t * (p * x) <= (l * Q) * Gap(p, x)
    BY <2>1, <2>3
  <2>5. (s + t) * (o * x) <= (m * Q) * (IF o <= x THEN x - o ELSE o - x)
    <3> DEFINE mq == m * Q
               lq == l * Q
    <3>1. mq \in Nat /\ lq \in Nat /\ lq <= mq
          /\ s * (o * p) <= mq * Gap(o, p) /\ t * (p * x) <= lq * Gap(p, x)
      BY <1>0, <2>4
    <3> HIDE DEF mq, lq
    <3>2. \/ o <= p /\ p <= x /\ s * (o * p) <= mq * (p - o) /\ t * (p * x) <= lq * (x - p)
          \/ x <= p /\ p <= o /\ s * (o * p) <= mq * (o - p) /\ t * (p * x) <= lq * (p - x)
      BY <1>1, <3>1
    <3>3. (s + t) * (o * x) <= mq * (IF o <= x THEN x - o ELSE o - x)
      BY <3>1, <3>2, Telescope0
    <3> QED
      BY <3>3 DEF mq
  <2>6. Gap(o, x) = IF o <= x THEN x - o ELSE o - x
    BY DEF Gap
  <2> QED
    BY <2>1, <2>3, <2>5, <2>6
<1>3. CASE ~token0
  <2>1. /\ Den(o, p, token0) = Q /\ Den(p, x, token0) = Q /\ Den(o, x, token0) = Q
        /\ Num(o, p, m, token0) = m * Gap(o, p) /\ Num(p, x, l, token0) = l * Gap(p, x)
        /\ Num(o, x, m, token0) = m * Gap(o, x)
    BY <1>3 DEF Den, Num
  <2>2. Gap(o, p) \in Nat /\ Gap(p, x) \in Nat /\ Gap(o, x) = Gap(o, p) + Gap(p, x)
    BY <1>1 DEF Gap
  <2>3. s * Q <= m * Gap(o, p) /\ t * Q <= l * Gap(p, x)
    BY <2>1
  <2>4. (s + t) * Q <= m * (Gap(o, p) + Gap(p, x))
    BY <1>0, <2>2, <2>3, Telescope1
  <2> QED
    BY <2>1, <2>2, <2>4
<1> QED
  BY <1>2, <1>3

\* Token 0 between two prices: at most all of the liquidity at the least price.
LEMMA AmountLimit0 ==
  ASSUME NEW o \in Nat \ {0}, NEW x \in Nat \ {0}, NEW low \in Nat \ {0}, low <= o, low <= x,
         NEW n \in Nat, NEW s \in Nat, s * (o * x) <= n * Gap(o, x)
  PROVE  s * low <= n
<1>1. CASE o < x
  <2>1. s * (o * x) <= n * (x - o)
    BY <1>1 DEF Gap
  <2>2. (s * o) * x <= n * x
    BY <2>1
  <2>3. s * o <= n
    <3> DEFINE y == s * o
    <3>1. y \in Nat /\ y * x <= n * x
      BY <2>2
    <3> HIDE DEF y
    <3>2. y <= n
      BY <3>1
    <3> QED
      BY <3>2 DEF y
  <2>4. s * low <= s * o
    OBVIOUS
  <2> QED
    BY <2>3, <2>4
<1>2. CASE ~(o < x)
  <2>1. s * (o * x) <= n * (o - x)
    BY <1>2 DEF Gap
  <2>2. (s * x) * o <= n * o
    BY <2>1
  <2>3. s * x <= n
    <3> DEFINE y == s * x
    <3>1. y \in Nat /\ y * o <= n * o
      BY <2>2
    <3> HIDE DEF y
    <3>2. y <= n
      BY <3>1
    <3> QED
      BY <3>2 DEF y
  <2>4. s * low <= s * x
    OBVIOUS
  <2> QED
    BY <2>3, <2>4
<1> QED
  BY <1>1, <1>2

\* Token 1 between two prices: at most all of the liquidity at the highest price.
LEMMA AmountLimit1 ==
  ASSUME NEW o \in Nat \ {0}, NEW x \in Nat \ {0}, NEW high \in Nat, o <= high, x <= high,
         NEW n \in Nat, NEW q \in Nat, NEW s \in Nat, s * q <= n * Gap(o, x)
  PROVE  s * q <= n * high
<1>1. Gap(o, x) \in Nat /\ Gap(o, x) <= high
  BY DEF Gap
<1>2. n * Gap(o, x) <= n * high
  BY <1>1
<1> QED
  BY <1>1, <1>2

\* A bound on the scaled result bounds the result.
LEMMA ScaledLimit ==
  ASSUME NEW u \in Nat \ {0}, NEW v \in Nat \ {0}, NEW a \in Nat, NEW b \in Nat, a <= b,
         NEW i \in Nat, NEW k \in Nat, i <= k, NEW r \in Nat, NEW w \in Nat,
         r * v <= (a + i) * u + i * v, (b + k) * u + k * v <= w * v
  PROVE  r <= w
<1>1. (a + i) * u <= (b + k) * u /\ i * v <= k * v
  OBVIOUS
<1>2. r * v <= w * v
  <2>1. (a + i) * u \in Nat /\ (b + k) * u \in Nat /\ i * v \in Nat /\ k * v \in Nat /\ r * v \in Nat /\ w * v \in Nat
    OBVIOUS
  <2> QED
    BY <1>1, <2>1
<1> QED
  BY <1>2

\* What is reckoned fits.
LEMMA ReckonedFits ==
  ASSUME Asked, NEW price \in PriceBounds, NEW amount \in Nat, NEW steps \in 0..(2 * MaxTick + 2),
         NEW result \in Nat, Reckoned(amount, steps, price, result)
  PROVE  result <= MaxUint
<1> DEFINE o == pool.price
           m == AllLiquidity
           least == SqrtAtTick(MinTick)
           top == SqrtAtTick(MaxTick)
           fee == request.fee
           all == 2 * MaxTick + 2
<1>0. /\ o \in PriceBounds /\ fee \in Fees \cup {0} /\ Token0 \in BOOLEAN
      /\ Q \in Nat \ {0} /\ FeeUnit \in Nat \ {0} /\ FeeUnit - fee \in Nat \ {0} /\ MaxUint \in Nat
      /\ all \in Nat /\ steps \in Nat /\ steps <= all
  <2>1. o \in PriceBounds /\ fee \in Fees \cup {0}
    BY DEF Asked, Requests
  <2>2. Token0 \in BOOLEAN
    BY DEF Token0
  <2>3. fee \in 0..(FeeUnit - 1) /\ FeeUnit \in Nat \ {0}
    <3>1. FeeUnit \in Nat \ {0} /\ Fees \subseteq 0..(FeeUnit - 1)
      BY WalkAssumption
    <3>2. 0 \in 0..(FeeUnit - 1)
      BY <3>1
    <3> HIDE DEF fee
    <3> QED
      BY <2>1, <3>1, <3>2
  <2>4. FeeUnit - fee \in Nat \ {0}
    <3> HIDE DEF fee
    <3> QED
      BY <2>3
  <2>5. Q \in Nat \ {0} /\ MaxUint \in Nat /\ all \in Nat
    BY WalkAssumption
  <2>6. steps \in Nat /\ steps <= all
    <3> HIDE DEF all
    <3> QED
      BY <2>5 DEF all
  <2> QED
    BY <2>1, <2>2, <2>3, <2>4, <2>5, <2>6
<1>1. /\ o \in Nat \ {0} /\ price \in Nat \ {0} /\ least <= o /\ least <= price
      /\ o <= top /\ price <= top /\ least \in Nat \ {0} /\ top \in Nat \ {0}
  <2>1. least \in Nat \ {0} /\ top \in Nat \ {0}
    <3>1. MinTick \in MinTick..MaxTick /\ MaxTick \in MinTick..MaxTick
      BY TickRange
    <3> QED
      BY <3>1, WalkAssumption
  <2> HIDE DEF least, top, o
  <2>2. o \in Nat \ {0} /\ price \in Nat \ {0} /\ least + 1 <= o /\ least + 1 <= price
        /\ o <= top - 1 /\ price <= top - 1
    BY <1>0, PriceRange DEF least, top
  <2> QED
    BY <2>1, <2>2
<1>2. m \in Nat /\ m * Q \in Nat /\ m * top \in Nat
  <2>1. m \in Nat
    BY LiquidityAtMost
  <2> HIDE DEF m
  <2> QED
    BY <1>0, <1>1, <2>1
<1>3. amount <= (m * Q) \div least \/ amount <= (m * top) \div Q
  <2>1. amount * Den(o, price, Token0) <= Num(o, price, m, Token0)
    BY DEF Reckoned
  <2> HIDE DEF o, m, least, top
  <2>2. CASE Token0
    <3>1. amount * (o * price) <= m * Gap(o, price) * Q
      BY <2>1, <2>2 DEF Den, Num
    <3>2. Gap(o, price) \in Nat
      BY <1>1 DEF Gap
    <3>3. m * Gap(o, price) * Q = (m * Q) * Gap(o, price)
      BY <1>0, <1>2, <3>2
    <3>4. amount * least <= m * Q
      BY <1>1, <1>2, <3>1, <3>3, AmountLimit0
    <3>5. Floors((m * Q) \div least, m * Q, least)
      BY <1>1, <1>2, DivFloors
    <3> QED
      BY <1>1, <1>2, <3>4, <3>5, FloorsOrder
  <2>3. CASE ~Token0
    <3>1. amount * Q <= m * Gap(o, price)
      BY <2>1, <2>3 DEF Den, Num
    <3>2. amount * Q <= m * top
      BY <1>0, <1>1, <1>2, <3>1, AmountLimit1
    <3>3. Floors((m * top) \div Q, m * top, Q)
      BY <1>0, <1>2, DivFloors
    <3> QED
      BY <1>0, <1>2, <3>2, <3>3, FloorsOrder
  <2> QED
    BY <2>2, <2>3
<1>4. ASSUME NEW most \in {(m * Q) \div least, (m * top) \div Q}
      PROVE  most \in Nat /\ (most + all) * FeeUnit + all * (FeeUnit - fee) <= MaxUint * (FeeUnit - fee)
  <2>1. most \in Nat
    <3> HIDE DEF least, top, m
    <3> QED
      BY <1>0, <1>1, <1>2, DivFloors DEF Floors
  <2>2. (most + all) * FeeUnit + all * (FeeUnit - fee) <= MaxUint * (FeeUnit - fee)
    BY <1>0, AmountsAssumption DEF AllLiquidity
  <2> QED
    BY <2>1, <2>2
<1>5. result * (FeeUnit - fee) <= (amount + steps) * FeeUnit + steps * (FeeUnit - fee)
  BY DEF Reckoned
<1>6. PICK most \in {(m * Q) \div least, (m * top) \div Q} : amount <= most
  BY <1>3
<1>7. most \in Nat /\ (most + all) * FeeUnit + all * (FeeUnit - fee) <= MaxUint * (FeeUnit - fee)
  BY <1>4
<1> HIDE DEF all, fee
<1> QED
  BY <1>0, <1>5, <1>6, <1>7, ScaledLimit

\* The step's target lies ahead of the price, between the ends.
LEMMA TargetAhead ==
  ASSUME WalkInv, AmountsInv, outcome = "none", NEW found, Passes(found, walk.tick, request.zero),
         NEW next, next = Clamp(found.tick),
         NEW limit, limit = SqrtAtTick(IF request.zero THEN MinTick ELSE MaxTick)
                               + IF request.zero THEN 1 ELSE -1,
         NEW target, target = IF IF request.zero THEN SqrtAtTick(next) < limit
                                 ELSE SqrtAtTick(next) > limit
                              THEN limit ELSE SqrtAtTick(next)
  PROVE  target \in PriceBounds /\ Ahead(walk.p, target, request.zero)
<1> DEFINE t == walk.tick
<1>0. /\ t \in (MinTick - 1)..MaxTick /\ t \in Int /\ request.zero \in BOOLEAN
      /\ SqrtAtTick(Clamp(t)) <= walk.p /\ walk.p <= SqrtAtTick(Clamp(t + 1))
      /\ walk.p \in PriceBounds /\ found.tick \in Int
  BY TickRange DEF WalkInv, AmountsInv, Captured, Walking, LiquidityFollows, Counted, Passes
<1>1. /\ next \in MinTick..MaxTick /\ next \in Int
      /\ Clamp(t) \in MinTick..MaxTick /\ Clamp(t + 1) \in MinTick..MaxTick
      /\ MinTick \in MinTick..MaxTick /\ MaxTick \in MinTick..MaxTick
  <2>1. t + 1 \in Int
    BY <1>0
  <2>2. MinTick \in MinTick..MaxTick /\ MaxTick \in MinTick..MaxTick
    BY TickRange
  <2> QED
    BY <1>0, <2>1, <2>2, ClampRange
<1> DEFINE low == SqrtAtTick(MinTick)
           high == SqrtAtTick(MaxTick)
           at == SqrtAtTick(next)
<1>2. /\ low \in Nat \ {0} /\ high \in Nat \ {0} /\ at \in Nat \ {0} /\ low <= at /\ at <= high
  <2>1. MinTick <= next /\ next <= MaxTick
    BY <1>1, TickRange
  <2> QED
    BY <1>1, <2>1, SqrtMonotone
<1>3. walk.p \in Nat \ {0} /\ low + 1 <= walk.p /\ walk.p <= high - 1
  BY <1>0, PriceRange
<1>4. CASE request.zero
  <2>1. next <= Clamp(t)
    BY <1>0, <1>4, TickRange DEF Passes, Clamp
  <2>2. at <= SqrtAtTick(Clamp(t)) /\ SqrtAtTick(Clamp(t)) \in Nat
    BY <1>1, <2>1, SqrtMonotone
  <2>3. at <= walk.p
    <3> HIDE DEF at, t
    <3> QED
      BY <1>0, <1>2, <1>3, <2>2
  <2>4. limit = low + 1 /\ target = IF at < limit THEN limit ELSE at
    BY <1>4
  <2> HIDE DEF low, high, at
  <2>5. target \in Nat /\ low + 1 <= target /\ target <= walk.p /\ target <= high - 1
    BY <1>2, <1>3, <2>3, <2>4
  <2>6. target \in PriceBounds
    BY <1>2, <2>5 DEF PriceBounds, low, high
  <2> QED
    BY <1>4, <2>5, <2>6 DEF Ahead
<1>5. CASE ~request.zero
  <2>1. Clamp(t + 1) <= next
    BY <1>0, <1>5, TickRange DEF Passes, Clamp
  <2>2. SqrtAtTick(Clamp(t + 1)) <= at /\ SqrtAtTick(Clamp(t + 1)) \in Nat
    BY <1>1, <2>1, SqrtMonotone
  <2>3. walk.p <= at
    <3> HIDE DEF at, t
    <3> QED
      BY <1>0, <1>2, <1>3, <2>2
  <2>4. limit = high + -1 /\ target = IF at > limit THEN limit ELSE at
    BY <1>5
  <2> HIDE DEF low, high, at
  <2>5. target \in Nat /\ low + 1 <= target /\ walk.p <= target /\ target <= high - 1
    BY <1>2, <1>3, <2>3, <2>4
  <2>6. target \in PriceBounds
    BY <1>2, <2>5 DEF PriceBounds, low, high
  <2> QED
    BY <1>5, <2>5, <2>6 DEF Ahead
<1> QED
  BY <1>0, <1>4, <1>5

\* A price on the next tick is short of the ends: the walk's tick moves on.
LEMMA TickMoves ==
  ASSUME WalkInv, AmountsInv, outcome = "none", NEW found, Passes(found, walk.tick, request.zero),
         NEW next, next = Clamp(found.tick), SqrtAtTick(next) \in PriceBounds
  PROVE  IF request.zero THEN next <= walk.tick ELSE walk.tick < next
<1> DEFINE t == walk.tick
<1>0. t \in (MinTick - 1)..MaxTick /\ t \in Int /\ request.zero \in BOOLEAN /\ found.tick \in Int
  BY TickRange DEF WalkInv, Captured, Walking, Passes
<1>1. next \in MinTick..MaxTick /\ next # MinTick /\ next # MaxTick
  <2>1. SqrtAtTick(next) \in Nat /\ SqrtAtTick(MinTick) \in Nat /\ SqrtAtTick(MaxTick) \in Nat
        /\ SqrtAtTick(MinTick) + 1 <= SqrtAtTick(next) /\ SqrtAtTick(next) <= SqrtAtTick(MaxTick) - 1
    <3>1. MinTick \in MinTick..MaxTick /\ MaxTick \in MinTick..MaxTick
      BY TickRange
    <3> QED
      BY <3>1, PriceRange, WalkAssumption
  <2>2. next # MinTick /\ next # MaxTick
    BY <2>1
  <2> QED
    BY <1>0, <2>2, ClampRange
<1>2. next = found.tick
  BY <1>0, <1>1, TickRange DEF Clamp
<1> QED
  BY <1>0, <1>2 DEF Passes

\* What Start makes of a request.
StartCounts(w, req) ==
  /\ w.p = pool.price /\ w.p \in PriceBounds /\ w.l \in Nat /\ w.tick = pool.tick
  /\ pool.tick - w.tick = 0 /\ w.tick - pool.tick = 0
  /\ w.remaining \in 0..req.amount /\ req.amount - w.remaining = 0
  /\ w.result = 0 /\ w.fees = 0 /\ 0 \in 0..MaxUint /\ 0 \in Nat /\ 0 <= 0
  /\ pool.price <= w.p /\ w.p <= pool.price
  /\ 0 * Den(pool.price, w.p, req.zero # req.input)
       <= Num(pool.price, w.p, AllLiquidity, req.zero # req.input)
  /\ 0 * (FeeUnit - req.fee) <= (0 + 0) * FeeUnit + 0 * (FeeUnit - req.fee)

\* A walk starts with nothing moved and everything left.
LEMMA StartNumbers ==
  ASSUME Captured, pool.price \in PriceBounds, NEW req \in Requests
  PROVE  StartCounts(Start(req.amount), req)
<1> DEFINE o == pool.price
           w == Start(req.amount)
           token0 == (req.zero # req.input)
<1>0. /\ o \in PriceBounds /\ req.amount \in 0..MaxUint /\ pool.positions \in SUBSET Positions
      /\ req.fee \in Fees \cup {0} /\ pool.tick \in MinTick..(MaxTick - 1)
  BY DEF Requests, Captured, TicksOf
<1>1. /\ w.p = o /\ w.l = LiquidityAt(pool.positions, pool.tick) /\ w.tick = pool.tick
      /\ w.remaining = req.amount /\ w.result = 0 /\ w.fees = 0
  BY DEF Start
<1> HIDE DEF w
<1>2. o \in Nat \ {0} /\ MaxUint \in Nat /\ pool.tick \in Int /\ o <= o
  <2>1. o \in Nat \ {0}
    BY <1>0, PriceRange
  <2> HIDE DEF o
  <2> QED
    BY <1>0, <2>1, TickRange, WalkAssumption
<1>3. w.l \in Nat
  BY <1>0, <1>1, LiquidityAtMost
<1>4. req.amount \in 0..req.amount /\ req.amount - req.amount = 0 /\ 0 \in 0..MaxUint /\ 0 <= 0
  BY <1>0, <1>2
<1>5. pool.tick - pool.tick = 0
  BY <1>2
<1>6. 0 * Den(o, o, token0) <= Num(o, o, AllLiquidity, token0)
  <2>1. token0 \in BOOLEAN /\ AllLiquidity \in Nat
    BY <1>0, LiquidityAtMost
  <2> DEFINE x == Den(o, o, token0)
             y == Num(o, o, AllLiquidity, token0)
  <2>2. y \in Nat /\ x \in Nat
    <3> HIDE DEF o, token0
    <3> QED
      BY <1>2, <2>1, NumDen
  <2> HIDE DEF x, y
  <2>3. 0 * x <= y
    BY <2>2
  <2> QED
    BY <2>3 DEF x, y
<1>7. 0 * (FeeUnit - req.fee) <= (0 + 0) * FeeUnit + 0 * (FeeUnit - req.fee)
  <2>1. FeeUnit \in Nat /\ Fees \subseteq 0..(FeeUnit - 1)
    BY WalkAssumption
  <2> DEFINE fee == req.fee
  <2>2. fee \in Fees \cup {0}
    BY <1>0
  <2> HIDE DEF fee
  <2>3. fee \in Int
    BY <2>1, <2>2
  <2>4. 0 * (FeeUnit - fee) <= (0 + 0) * FeeUnit + 0 * (FeeUnit - fee)
    BY <2>1, <2>3
  <2> QED
    BY <2>4 DEF fee
<1> QED
  BY <1>0, <1>1, <1>2, <1>3, <1>4, <1>5, <1>6, <1>7 DEF StartCounts, w

\* The first walk starts within the bounds on amounts.
LEMMA InitNumbers == WalkInit => AmountsInv
<1> SUFFICES ASSUME WalkInit PROVE AmountsInv
  OBVIOUS
<1>1. PICK positions \in SUBSET Positions, version \in {"v3", "v4"}, price \in PriceBounds :
        \E tick \in TicksOf(price) :
          pool = [positions |-> positions, version |-> version, price |-> price, tick |-> tick]
  BY DEF WalkInit
<1>2. pool.price \in PriceBounds /\ pool.version \in {"v3", "v4"}
  BY <1>1
<1>3. PICK amount \in QuoteAmounts, zero \in BOOLEAN, input \in BOOLEAN, fee \in Fees :
        request = [amount |-> amount, zero |-> zero, input |-> input, fee |-> fee]
  BY DEF WalkInit
<1>4. amount \in 0..MaxUint
  <2>1. QuoteAmounts \subseteq 1..MaxUint /\ MaxUint \in Nat
    BY AmountsAssumption, WalkAssumption
  <2> QED
    BY <2>1
<1>5. request \in Requests
  BY <1>3, <1>4 DEF Requests
<1>6. before = NoQuote /\ NoQuote \in Quotes
  BY WalkAssumption DEF WalkInit, NoQuote, Quotes
<1>7. Asked
  BY <1>2, <1>5, <1>6 DEF Asked
<1>8. Captured
  BY WalkInitInv DEF WalkInv
<1>9. walk = Start(request.amount) /\ outcome = "none"
  BY DEF WalkInit
<1>10. StartCounts(walk, request)
  BY <1>5, <1>2, <1>8, <1>9, StartNumbers
<1>11. Counted
  BY <1>10 DEF StartCounts, Counted
<1>12. Moved
  BY <1>10 DEF StartCounts, Moved, Steps, Ahead, Reckoned, Token0
<1> QED
  BY <1>7, <1>9, <1>11, <1>12 DEF AmountsInv, Ended

\* So does every further walk: its amount was the request or the result of the walk before.
LEMMA QuoteAgainNumbers ==
  ASSUME WalkInv, AmountsInv, QuoteGross \/ QuoteInverse
  PROVE  AmountsInv'
<1>0. /\ request \in Requests /\ request.amount \in 0..MaxUint
      /\ walk.result \in 0..MaxUint /\ pool' = pool /\ outcome' = "none"
  BY DEF AmountsInv, Asked, Requests, Counted, QuoteGross, QuoteInverse
<1>1. request' \in Requests
  BY <1>0 DEF QuoteGross, QuoteInverse, Requests
<1>2. before' \in Quotes
  BY <1>0 DEF QuoteGross, QuoteInverse, Quotes
<1>3. Asked'
  BY <1>0, <1>1, <1>2 DEF AmountsInv, Asked
<1>4. walk' = Start(request'.amount)
  BY <1>0 DEF QuoteGross, QuoteInverse, Restart, Requests
<1>5. Captured /\ pool.price \in PriceBounds
  BY DEF WalkInv, AmountsInv, Asked
<1>6. StartCounts(walk', request')
  BY <1>1, <1>4, <1>5, StartNumbers
<1>7. Counted'
  BY <1>0, <1>6 DEF StartCounts, Counted
<1>8. Moved'
  BY <1>0, <1>6 DEF StartCounts, Moved, Steps, Ahead, Reckoned, Token0
<1> QED
  BY <1>0, <1>3, <1>7, <1>8 DEF AmountsInv, Ended

\* A step of the walk keeps the bounds: it takes no more than what is left, what it gives is
\* reckoned with the amount between its prices, the tick moves on with every further step, so
\* there are never more units of rounding than ticks, and no error is possible.
LEMMA IterateNumbers ==
  ASSUME WalkInv, AmountsInv, Iterate
  PROVE  AmountsInv'
<1> DEFINE found == NextTick(walk.tick)
           next == Clamp(found.tick)
           limit == SqrtAtTick(IF request.zero THEN MinTick ELSE MaxTick)
                       + IF request.zero THEN 1 ELSE -1
           target == IF IF request.zero THEN SqrtAtTick(next) < limit ELSE SqrtAtTick(next) > limit
                     THEN limit ELSE SqrtAtTick(next)
           step == CalculateStep(pool.version, walk.p, target, walk.l, walk.remaining,
                                 request.fee, request.input, request.zero)
           remaining == walk.remaining - IF request.input THEN step.in + step.fee ELSE step.out
           result == walk.result + IF request.input THEN step.out ELSE step.in + step.fee
           whole == Crossed(next, found.initialized)
           crossed == IF step.price = SqrtAtTick(next) THEN whole ELSE walk
           base == IF outcome' \in {"none", "range"} THEN crossed ELSE walk
           moved == [base EXCEPT !.p = step.price, !.remaining = remaining,
                                 !.result = result, !.fees = @ + step.fee]
           D == Steps
           o == pool.price
<1>9. \/ walk' = walk /\ outcome' = "price" /\ step.price = NoPrice
      \/ /\ walk' = walk /\ outcome' = "negative" /\ (remaining < 0 \/ result > MaxUint)
      \/ /\ walk' = moved
         /\ outcome' = IF remaining = 0 THEN "quoted"
                       ELSE IF step.price = limit THEN "ends"
                       ELSE IF step.price # SqrtAtTick(next) THEN "incomplete"
                       ELSE IF crossed.l < 0 THEN "range"
                       ELSE "none"
  BY DEF Iterate
<1>0. /\ Captured /\ outcome = "none" /\ pool' = pool /\ request' = request /\ before' = before
      /\ walk.tick \in (MinTick - 1)..MaxTick /\ walk.tick \in Int
      /\ DOMAIN walk = {"p", "l", "tick", "remaining", "result", "fees"}
      /\ walk.l = LiquidityAt(pool.positions, walk.tick)
  BY TickRange DEF WalkInv, Walking, LiquidityFollows, Iterate
<1>1. /\ request.zero \in BOOLEAN /\ request.input \in BOOLEAN /\ request.amount \in 0..MaxUint
      /\ request.fee \in Fees \cup {0} /\ pool.version \in {"v3", "v4"} /\ o \in PriceBounds
      /\ pool.positions \in SUBSET Positions
  BY <1>0 DEF AmountsInv, Asked, Requests, Captured
<1>2. /\ walk.p \in PriceBounds /\ walk.remaining \in 0..request.amount /\ walk.result \in 0..MaxUint
      /\ walk.fees \in Nat
      /\ walk.fees <= IF request.input THEN request.amount - walk.remaining ELSE walk.result
      /\ D \in Nat /\ Ahead(o, walk.p, request.zero)
  BY <1>0 DEF AmountsInv, Counted, Moved
<1>3. PICK amount \in Nat : Reckoned(amount, D, walk.p, walk.result)
  BY <1>0 DEF AmountsInv, Moved
<1>4. Passes(found, walk.tick, request.zero)
  BY <1>0, <1>1, NextTickPasses
<1> HIDE DEF found
<1>5. target \in PriceBounds /\ Ahead(walk.p, target, request.zero)
  BY <1>0, <1>4, TargetAhead
<1>6. walk.l \in Nat /\ walk.l * Q <= MaxUint /\ walk.l <= AllLiquidity /\ AllLiquidity \in Nat
  BY <1>0, <1>1, LiquidityAtMost
<1>7. request.fee \in 0..(FeeUnit - 1) /\ request.fee \in Nat /\ FeeUnit \in Nat \ {0}
      /\ FeeUnit - request.fee \in Nat \ {0} /\ MaxUint \in Nat
  <2>1. FeeUnit \in Nat \ {0} /\ Fees \subseteq 0..(FeeUnit - 1) /\ MaxUint \in Nat
    BY WalkAssumption
  <2>2. 0 \in 0..(FeeUnit - 1)
    BY <2>1
  <2>3. request.fee \in 0..(FeeUnit - 1)
    BY <1>1, <2>1, <2>2
  <2> QED
    BY <2>1, <2>3
<1>8. StepSound(step, walk.p, target, walk.l, walk.remaining, request.fee, request.input, request.zero)
  <2>1. walk.p \in Nat \ {0} /\ target \in Nat \ {0}
    <3> HIDE DEF target
    <3> QED
      BY <1>2, <1>5, PriceRange
  <2>2. walk.remaining \in Nat
    BY <1>1, <1>2, <1>7
  <2> DEFINE p == walk.p
             l == walk.l
             r == walk.remaining
             fee == request.fee
             input == request.input
             zero == request.zero
             version == pool.version
  <2>3. /\ p \in Nat \ {0} /\ target \in Nat \ {0} /\ l \in Nat /\ r \in Nat
        /\ fee \in 0..(FeeUnit - 1) /\ input \in BOOLEAN /\ zero \in BOOLEAN
        /\ version \in {"v3", "v4"} /\ Ahead(p, target, zero) /\ l * Q <= MaxUint
    BY <1>1, <1>5, <1>6, <1>7, <2>1, <2>2
  <2>4. step = CalculateStep(version, p, target, l, r, fee, input, zero)
    OBVIOUS
  <2> HIDE DEF target, p, l, r, fee, input, zero, version, step
  <2>5. StepSound(CalculateStep(version, p, target, l, r, fee, input, zero),
                  p, target, l, r, fee, input, zero)
    BY <2>3, CalculateStepSound
  <2> QED
    BY <2>4, <2>5 DEF p, l, r, fee, input, zero
<1> HIDE DEF step
<1>10. /\ step.price \in Nat \ {0} /\ Between(walk.p, step.price, target, request.zero)
       /\ step.in \in Nat /\ step.out \in Nat /\ step.fee \in Nat
       /\ Taken(step, request.input) <= walk.remaining
       /\ step.price # target => Taken(step, request.input) = walk.remaining
       /\ Covers(Given(step, request.input), walk.p, step.price, walk.l, Token0, request.fee)
  BY <1>8 DEF StepSound, Token0
<1> DEFINE taken == Taken(step, request.input)
           given == Given(step, request.input)
<1>11. /\ remaining = walk.remaining - taken /\ result = walk.result + given
       /\ taken \in Nat /\ given \in Nat
       /\ IF request.input THEN taken = step.in + step.fee ELSE given = step.in + step.fee
  <2>1. step.in + step.fee \in Nat
    BY <1>10
  <2> QED
    BY <1>10, <2>1 DEF Taken, Given
<1> HIDE DEF remaining, result, taken, given
<1>12. remaining \in 0..walk.remaining /\ remaining \in 0..request.amount /\ remaining \in Nat
  BY <1>1, <1>2, <1>7, <1>10, <1>11 DEF taken
<1>13. step.price \in PriceBounds /\ Ahead(walk.p, step.price, request.zero)
       /\ Ahead(o, step.price, request.zero)
  <2> DEFINE low == SqrtAtTick(MinTick) + 1
             high == SqrtAtTick(MaxTick) - 1
             p == walk.p
             x == step.price
  <2>1. low \in Int /\ high \in Int
    <3>1. MinTick \in MinTick..MaxTick /\ MaxTick \in MinTick..MaxTick
      BY TickRange
    <3> QED
      BY <3>1, WalkAssumption
  <2>2. PriceBounds = low..high
    BY DEF PriceBounds
  <2> HIDE DEF low, high, target, o, p, x
  <2>3. target \in low..high /\ p \in low..high /\ o \in low..high /\ x \in Nat
        /\ Between(p, x, target, request.zero) /\ Ahead(o, p, request.zero)
    BY <1>1, <1>2, <1>5, <1>10, <2>2 DEF p, x
  <2>4. CASE request.zero
    <3>1. target <= x /\ x <= p /\ p <= o
      BY <2>3, <2>4 DEF Between, Ahead
    <3>2. x \in low..high /\ x <= p /\ x <= o
      BY <2>1, <2>3, <3>1
    <3> QED
      BY <2>2, <2>4, <3>2 DEF Ahead, p, x
  <2>5. CASE ~request.zero
    <3>1. p <= x /\ x <= target /\ o <= p
      BY <2>3, <2>5 DEF Between, Ahead
    <3>2. x \in low..high /\ p <= x /\ o <= x
      BY <2>1, <2>3, <3>1
    <3> QED
      BY <2>2, <2>5, <3>2 DEF Ahead, p, x
  <2> QED
    BY <1>1, <2>4, <2>5
<1>14. \E sum \in Nat : Reckoned(sum, D + 1, step.price, result)
  <2>1. PICK t \in Nat :
          /\ t * Den(walk.p, step.price, Token0) <= Num(walk.p, step.price, walk.l, Token0)
          /\ given * (FeeUnit - request.fee) <= (t + 1) * FeeUnit + (FeeUnit - request.fee)
    BY <1>10 DEF Covers, given
  <2>2. /\ amount * Den(o, walk.p, Token0) <= Num(o, walk.p, AllLiquidity, Token0)
        /\ walk.result * (FeeUnit - request.fee) <=
             (amount + D) * FeeUnit + D * (FeeUnit - request.fee)
    BY <1>3 DEF Reckoned
  <2>3. Token0 \in BOOLEAN
    BY DEF Token0
  <2>4. o \in Nat \ {0} /\ walk.p \in Nat \ {0} /\ step.price \in Nat \ {0}
    BY <1>1, <1>2, <1>10, PriceRange
  <2>5. (amount + t) * Den(o, step.price, Token0) <= Num(o, step.price, AllLiquidity, Token0)
    <3> DEFINE p == walk.p
               x == step.price
               m == AllLiquidity
               l == walk.l
               zero == request.zero
               token0 == Token0
    <3>1. /\ o \in Nat \ {0} /\ p \in Nat \ {0} /\ x \in Nat \ {0} /\ m \in Nat /\ l \in Nat /\ l <= m
          /\ token0 \in BOOLEAN /\ zero \in BOOLEAN /\ Ahead(o, p, zero) /\ Ahead(p, x, zero)
          /\ amount * Den(o, p, token0) <= Num(o, p, m, token0)
          /\ t * Den(p, x, token0) <= Num(p, x, l, token0)
      BY <1>1, <1>2, <1>6, <1>13, <2>1, <2>2, <2>3, <2>4
    <3> HIDE DEF o, D, p, x, m, l, zero, token0
    <3>2. (amount + t) * Den(o, x, token0) <= Num(o, x, m, token0)
      BY <3>1, ReckonNext
    <3> QED
      BY <3>2 DEF x, m, token0
  <2>6. result * (FeeUnit - request.fee) <=
             ((amount + t) + (D + 1)) * FeeUnit + (D + 1) * (FeeUnit - request.fee)
    <3> DEFINE v == FeeUnit - request.fee
               u == FeeUnit
               r == walk.result
    <3>1. /\ v \in Nat /\ u \in Nat /\ r \in Nat /\ D \in Nat /\ result = r + given /\ given \in Nat
          /\ r * v <= (amount + D) * u + D * v /\ given * v <= (t + 1) * u + v
      BY <1>2, <1>7, <1>11, <2>1, <2>2
    <3> HIDE DEF v, u, r, D
    <3>2. result * v <= ((amount + t) + (D + 1)) * u + (D + 1) * v
      BY <3>1
    <3> QED
      BY <3>2 DEF v, u
  <2>7. amount + t \in Nat
    OBVIOUS
  <2> HIDE DEF D, o
  <2> QED
    BY <2>5, <2>6, <2>7 DEF Reckoned, o
<1>15. result \in 0..MaxUint
  <2>1. result \in Nat
    BY <1>2, <1>7, <1>11
  <2>2. D + 1 \in 0..(2 * MaxTick + 2)
    <3>1. pool.tick \in MinTick..(MaxTick - 1)
      BY <1>0 DEF Captured, TicksOf
    <3> QED
      BY <1>0, <1>1, <1>2, <3>1, TickRange DEF Steps
  <2>3. Asked
    BY DEF AmountsInv
  <2>4. PICK sum \in Nat : Reckoned(sum, D + 1, step.price, result)
    BY <1>14
  <2> HIDE DEF D
  <2>5. result <= MaxUint
    BY <1>13, <2>1, <2>2, <2>3, <2>4, ReckonedFits
  <2> QED
    BY <1>7, <2>1, <2>5
<1>16. /\ walk' = moved
       /\ outcome' = IF remaining = 0 THEN "quoted"
                     ELSE IF step.price = limit THEN "ends"
                     ELSE IF step.price # SqrtAtTick(next) THEN "incomplete"
                     ELSE IF crossed.l < 0 THEN "range"
                     ELSE "none"
  <2>1. step.price # NoPrice
    BY <1>10 DEF NoPrice
  <2>2. ~(remaining < 0) /\ ~(result > MaxUint)
    BY <1>7, <1>12, <1>15
  <2> HIDE DEF moved, limit, next, crossed
  <2> QED
    BY <1>9, <2>1, <2>2
<1>17. WalkInv'
  BY IterateInv
<1>18. outcome' # "incomplete"
  <2>1. remaining = 0 \/ step.price = target
    <3>1. step.price # target => taken = walk.remaining
      BY <1>10 DEF taken
    <3> HIDE DEF target
    <3> QED
      BY <1>1, <1>2, <1>7, <1>11, <3>1
  <2>2. target = limit \/ target = SqrtAtTick(next)
    OBVIOUS
  <2> HIDE DEF target, limit, next, moved, crossed
  <2> QED
    BY <1>16, <2>1, <2>2
<1>19. outcome' \in {"none", "quoted", "ends"}
  <2>1. outcome' # "range"
    BY <1>17 DEF WalkInv, InRange
  <2> HIDE DEF limit, next, moved, crossed
  <2> QED
    BY <1>16, <1>18, <2>1
<1>20. base \in {walk, whole}
  OBVIOUS
<1>21. /\ DOMAIN base = {"p", "l", "tick", "remaining", "result", "fees"}
       /\ base.fees = walk.fees /\ base.l \in Nat
  <2>1. DOMAIN whole = DOMAIN walk /\ whole.fees = walk.fees
    BY <1>0 DEF Crossed
  <2>2. whole.l \in Nat
    BY <1>0, <1>4, CrossedFollows
  <2> HIDE DEF base, whole
  <2> QED
    BY <1>0, <1>6, <1>20, <2>1, <2>2
<1>22. walk' = [base EXCEPT !.p = step.price, !.remaining = remaining,
                           !.result = result, !.fees = @ + step.fee]
  BY <1>16
<1> HIDE DEF moved, base
<1>23. /\ walk'.p = step.price /\ walk'.remaining = remaining /\ walk'.result = result
       /\ walk'.fees = walk.fees + step.fee /\ walk'.l = base.l /\ walk'.tick = base.tick
  BY <1>21, <1>22
<1>24. Counted'
  <2>1. walk.fees + step.fee \in Nat
    BY <1>2, <1>10
  <2>2. walk.fees + step.fee <= IF request.input THEN request.amount - remaining ELSE result
    <3> DEFINE fees == walk.fees
               fee == step.fee
               left == walk.remaining
               had == walk.result
               all == request.amount
    <3>1. fees \in Nat /\ fee \in Nat /\ step.in \in Nat /\ left \in Int /\ had \in Int /\ all \in Int
      BY <1>1, <1>2, <1>10
    <3>2. CASE request.input
      <4>1. fees <= all - left /\ taken = step.in + fee /\ remaining = left - taken
        BY <1>2, <1>11, <3>2
      <4> HIDE DEF fees, fee, left, had, all
      <4>2. fees + fee <= all - remaining
        BY <3>1, <4>1
      <4> QED
        BY <3>2, <4>2 DEF fees, fee, all
    <3>3. CASE ~request.input
      <4>1. fees <= had /\ given = step.in + fee /\ result = had + given
        BY <1>2, <1>11, <3>3
      <4> HIDE DEF fees, fee, left, had, all
      <4>2. fees + fee <= result
        BY <3>1, <4>1
      <4> QED
        BY <3>3, <4>2 DEF fees, fee
    <3> QED
      BY <3>2, <3>3
  <2> QED
    BY <1>0, <1>12, <1>13, <1>15, <1>21, <1>23, <2>1, <2>2 DEF Counted
<1>25. Moved'
  <2> SUFFICES ASSUME outcome' = "none"
               PROVE  /\ Steps' \in Nat /\ Ahead(o, step.price, request.zero)
                      /\ \E sum \in Nat : /\ sum * Den(o, step.price, Token0) <= Num(o, step.price, AllLiquidity, Token0)
                                          /\ result * (FeeUnit - request.fee) <=
                                               (sum + Steps') * FeeUnit + Steps' * (FeeUnit - request.fee)
    BY <1>0, <1>23 DEF Moved, Reckoned, Token0
  <2>1. step.price = SqrtAtTick(next)
    <3> HIDE DEF limit, next, crossed
    <3> QED
      BY <1>16
  <2>2. base = whole
    BY <2>1 DEF base
  <2>3. walk'.tick = IF request.zero THEN next - 1 ELSE next
    <3>1. whole.tick = IF request.zero THEN next - 1 ELSE next
      BY <1>0 DEF Crossed
    <3> HIDE DEF whole, next
    <3> QED
      BY <1>23, <2>2, <3>1
  <2>4. IF request.zero THEN next <= walk.tick ELSE walk.tick < next
    <3>1. SqrtAtTick(next) \in PriceBounds
      BY <1>13, <2>1
    <3> QED
      BY <1>0, <1>4, <3>1, TickMoves
  <2>5. next \in Int
    <3>1. found.tick \in Int
      BY <1>4 DEF Passes
    <3> QED
      BY <3>1, ClampRange
  <2> HIDE DEF next
  <2>6. Steps' \in Nat /\ D + 1 <= Steps'
    <3>1. pool.tick \in Int
      BY <1>0, TickRange DEF Captured, TicksOf
    <3>2. CASE request.zero
      <4>1. Steps' = pool.tick - (next - 1) /\ D = pool.tick - walk.tick /\ next <= walk.tick
        BY <1>0, <2>3, <2>4, <3>2 DEF Steps
      <4> HIDE DEF D
      <4> QED
        BY <1>0, <1>2, <2>5, <3>1, <4>1 DEF D
    <3>3. CASE ~request.zero
      <4>1. Steps' = next - pool.tick /\ D = walk.tick - pool.tick /\ walk.tick < next
        BY <1>0, <2>3, <2>4, <3>3 DEF Steps
      <4> HIDE DEF D
      <4> QED
        BY <1>0, <1>2, <2>5, <3>1, <4>1 DEF D
    <3> QED
      BY <3>2, <3>3
  <2>7. PICK sum \in Nat : Reckoned(sum, D + 1, step.price, result)
    BY <1>14
  <2>8. result * (FeeUnit - request.fee) <= (sum + Steps') * FeeUnit + Steps' * (FeeUnit - request.fee)
    <3> DEFINE v == FeeUnit - request.fee
               u == FeeUnit
               n == Steps'
               d == D + 1
    <3>1. result * v <= (sum + d) * u + d * v
      BY <2>7 DEF Reckoned
    <3>2. v \in Nat /\ u \in Nat /\ n \in Nat /\ d \in Nat /\ d <= n /\ result \in Nat
      BY <1>2, <1>7, <1>15, <2>6
    <3> HIDE DEF v, u, n, d
    <3>3. (sum + d) * u <= (sum + n) * u /\ d * v <= n * v
      BY <3>2
    <3>4. /\ result * v \in Nat /\ (sum + d) * u \in Nat /\ (sum + n) * u \in Nat
          /\ d * v \in Nat /\ n * v \in Nat
      BY <3>2
    <3>5. result * v <= (sum + n) * u + n * v
      BY <3>1, <3>3, <3>4
    <3> QED
      BY <3>5 DEF v, u, n
  <2>9. sum * Den(o, step.price, Token0) <= Num(o, step.price, AllLiquidity, Token0)
    BY <2>7 DEF Reckoned
  <2> QED
    BY <1>13, <2>6, <2>8, <2>9
<1>26. Asked'
  BY <1>0 DEF AmountsInv, Asked
<1> QED
  BY <1>19, <1>24, <1>25, <1>26 DEF AmountsInv, Ended

\* Nothing else touches the amounts.
LEMMA SameNumbers == ASSUME AmountsInv, UNCHANGED walkVars PROVE AmountsInv'
  BY DEF AmountsInv, walkVars, Asked, Counted, Ended, Moved, Steps, Reckoned, Token0

\* The bounds on amounts and the walk's place say that its steps are complete.
LEMMA NumbersComplete == WalkInv /\ AmountsInv => StepsComplete
<1> SUFFICES ASSUME WalkInv, AmountsInv PROVE StepsComplete
  OBVIOUS
<1>1. walk.p \in SqrtAtTick(MinTick)..SqrtAtTick(MaxTick)
  BY PriceRange DEF AmountsInv, Counted
<1>2. walk.tick \in (MinTick - 1)..MaxTick
  BY DEF WalkInv, Walking
<1>3. walk.fees \in 0..MaxUint
  <2>1. /\ walk.fees \in Nat /\ walk.remaining \in 0..request.amount /\ request.amount \in 0..MaxUint
        /\ walk.result \in 0..MaxUint /\ MaxUint \in Nat
        /\ walk.fees <= IF request.input THEN request.amount - walk.remaining ELSE walk.result
    BY WalkAssumption DEF AmountsInv, Counted, Asked, Requests
  <2>2. CASE request.input
    <3>1. walk.fees <= request.amount - walk.remaining
      BY <2>1, <2>2
    <3> QED
      BY <2>1, <3>1
  <2>3. CASE ~request.input
    <3>1. walk.fees <= walk.result
      BY <2>1, <2>3
    <3> QED
      BY <2>1, <3>1
  <2> QED
    BY <2>2, <2>3
<1>4. before.kind \in {"none", "gross", "inverse"} /\ before.amount \in 0..MaxUint /\ before.result \in 0..MaxUint
  BY DEF AmountsInv, Asked, Quotes
<1>5. /\ walk.l \in Nat /\ walk.remaining \in 0..request.amount /\ walk.result \in 0..MaxUint
      /\ outcome \in {"none", "quoted", "ends"}
  BY DEF AmountsInv, Counted, Ended
<1>6. WalkTypeOK
  BY <1>1, <1>2, <1>3, <1>4, <1>5 DEF WalkTypeOK
<1> QED
  BY <1>5, <1>6 DEF StepsComplete

\* Theorem: no step of a local quote passes its target or an end of the prices, and what it
\* takes and gives is consistent: amounts and fees fit 256 bits, none is negative, and a walk
\* stops for no reason other than that it is done or at an end, whatever is asked of it.
THEOREM StepsCompleteSafe == WalkSpec => []StepsComplete
<1>1. WalkInit => WalkInv /\ AmountsInv
  BY WalkInitInv, InitNumbers
<1>2. WalkInv /\ AmountsInv /\ [WalkNext]_walkVars => WalkInv' /\ AmountsInv'
  BY IterateInv, QuoteAgainInv, SameWalk, IterateNumbers, QuoteAgainNumbers, SameNumbers DEF WalkNext
<1>3. WalkInv /\ AmountsInv => StepsComplete
  BY NumbersComplete
<1> QED
  BY <1>1, <1>2, <1>3, PTL DEF WalkSpec

-----------------------------------------------------------------------------
(* How rounded amounts and prices grow along a way. *)

\* Further along the way, the amount is no smaller: token 0, whose amounts are n times the
\* gap by the product of the prices.
LEMMA FurtherDown ==
  ASSUME NEW p \in Nat \ {0}, NEW x \in Nat \ {0}, NEW y \in Nat \ {0}, y <= x, x <= p,
         NEW n \in Nat, NEW c \in Nat
  PROVE  /\ n * (p - y) <= c * (p * y) => n * (p - x) <= c * (p * x)
         /\ c * (p * x) <= n * (p - x) => c * (p * y) <= n * (p - y)
<1>1. c * (p * y) <= c * (p * x)
  <2>1. p * y <= p * x /\ p * y \in Nat /\ p * x \in Nat
    OBVIOUS
  <2> QED
    BY <2>1
<1>2. n * (p - x) <= n * (p - y)
  OBVIOUS
<1>3. c * (p * y) \in Nat /\ c * (p * x) \in Nat /\ n * (p - x) \in Nat /\ n * (p - y) \in Nat
  OBVIOUS
<1> QED
  BY <1>1, <1>2, <1>3

\* The same upwards.
LEMMA FurtherUp ==
  ASSUME NEW p \in Nat \ {0}, NEW x \in Nat \ {0}, NEW y \in Nat \ {0}, p <= x, x <= y,
         NEW n \in Nat, NEW c \in Nat
  PROVE  /\ n * (y - p) <= c * (p * y) => n * (x - p) <= c * (p * x)
         /\ c * (p * x) <= n * (x - p) => c * (p * y) <= n * (y - p)
<1>1. n * ((x - p) * y) <= n * ((y - p) * x)
  <2>1. (x - p) * y <= (y - p) * x /\ (x - p) * y \in Nat /\ (y - p) * x \in Nat
    OBVIOUS
  <2> QED
    BY <2>1
<1>2. n * (x - p) \in Nat /\ n * (y - p) \in Nat /\ c * (p * x) \in Nat /\ c * (p * y) \in Nat
  OBVIOUS
<1>3. n * ((x - p) * y) = (n * (x - p)) * y /\ n * ((y - p) * x) = (n * (y - p)) * x
      /\ (c * (p * x)) * y = (c * (p * y)) * x
  OBVIOUS
<1> DEFINE a == n * (x - p)
           b == n * (y - p)
           d == c * (p * x)
           e == c * (p * y)
<1>4. a \in Nat /\ b \in Nat /\ d \in Nat /\ e \in Nat /\ a * y <= b * x /\ d * y = e * x
  BY <1>1, <1>2, <1>3
<1> HIDE DEF a, b, d, e
<1>5. b <= e => a <= d
  <2> SUFFICES ASSUME b <= e PROVE a <= d
    OBVIOUS
  <2>1. b * x <= e * x
    BY <1>4
  <2>2. a * y <= d * y
    BY <1>4, <2>1
  <2> QED
    BY <1>4, <2>2
<1>6. d <= a => e <= b
  <2> SUFFICES ASSUME d <= a PROVE e <= b
    OBVIOUS
  <2>1. d * y <= a * y
    BY <1>4
  <2>2. e * x <= b * x
    BY <1>4, <2>1
  <2> QED
    BY <1>4, <2>2
<1> QED
  BY <1>5, <1>6 DEF a, b, d, e

\* Further along the way, both roundings of the amount are no smaller.
LEMMA FurtherMore ==
  ASSUME NEW p \in Nat \ {0}, NEW x \in Nat \ {0}, NEW y \in Nat \ {0}, NEW zero \in BOOLEAN,
         Between(p, x, y, zero), NEW l \in Nat, NEW token0 \in BOOLEAN, NEW up \in BOOLEAN
  PROVE  AmountDelta(p, x, l, token0, up) <= AmountDelta(p, y, l, token0, up)
<1> DEFINE nx == Num(p, x, l, token0)
           dx == Den(p, x, token0)
           ny == Num(p, y, l, token0)
           dy == Den(p, y, token0)
<1>1. nx \in Nat /\ dx \in Nat \ {0} /\ ny \in Nat /\ dy \in Nat \ {0}
  BY NumDen
<1>2. ASSUME NEW c \in Nat
      PROVE  (ny <= c * dy => nx <= c * dx) /\ (c * dx <= nx => c * dy <= ny)
  <2>0. Q \in Nat \ {0} /\ Gap(p, x) \in Nat /\ Gap(p, y) \in Nat
        /\ Gap(p, x) <= Gap(p, y)
    BY WalkAssumption DEF Gap, Between
  <2>1. CASE token0
    <3> DEFINE n == l * Q
    <3>1. n \in Nat
      BY <2>0
    <3>2. nx = n * Gap(p, x) /\ ny = n * Gap(p, y) /\ dx = p * x /\ dy = p * y
      <4>1. l * Gap(p, x) * Q = (l * Q) * Gap(p, x) /\ l * Gap(p, y) * Q = (l * Q) * Gap(p, y)
        BY <2>0
      <4> QED
        BY <2>1, <4>1 DEF Num, Den
    <3> HIDE DEF n, nx, ny, dx, dy
    <3>3. CASE zero
      <4>1. y <= x /\ x <= p /\ Gap(p, x) = p - x /\ Gap(p, y) = p - y
        BY <3>3 DEF Gap, Between
      <4> QED
        BY <3>1, <3>2, <4>1, FurtherDown
    <3>4. CASE ~zero
      <4>1. p <= x /\ x <= y /\ Gap(p, x) = x - p /\ Gap(p, y) = y - p
        BY <3>4 DEF Gap, Between
      <4> QED
        BY <3>1, <3>2, <4>1, FurtherUp
    <3> QED
      BY <3>3, <3>4
  <2>2. CASE ~token0
    <3>1. nx = l * Gap(p, x) /\ ny = l * Gap(p, y) /\ dx = Q /\ dy = Q
      BY <2>2 DEF Num, Den
    <3>2. nx <= ny
      BY <2>0, <3>1
    <3> HIDE DEF nx, ny, dx, dy
    <3>3. dx = dy
      BY <3>1
    <3> QED
      BY <1>1, <3>2, <3>3
  <2> QED
    BY <2>1, <2>2
<1>3. CASE up
  <2>1. AmountDelta(p, x, l, token0, TRUE) \in Nat /\ AmountDelta(p, y, l, token0, TRUE) \in Nat
    BY AmountAgainst
  <2> DEFINE c == AmountDelta(p, y, l, token0, TRUE)
  <2>2. ny <= c * dy
    BY AmountRounds DEF Ceils
  <2>3. nx <= c * dx
    <3> HIDE DEF nx, ny, dx, dy, c
    <3> QED
      BY <1>2, <2>1, <2>2 DEF c
  <2>4. AmountDelta(p, x, l, token0, TRUE) <= c
    <3>1. c \in Nat
      BY <2>1
    <3> HIDE DEF c
    <3> QED
      BY <2>3, <3>1, AmountAgainst
  <2> QED
    BY <1>3, <2>4
<1>4. CASE ~up
  <2>1. AmountDelta(p, x, l, token0, FALSE) \in Nat /\ AmountDelta(p, y, l, token0, FALSE) \in Nat
    BY AmountAgainst
  <2> DEFINE c == AmountDelta(p, x, l, token0, FALSE)
  <2>2. c * dx <= nx
    BY AmountRounds DEF Floors
  <2>3. c * dy <= ny
    <3> HIDE DEF nx, ny, dx, dy, c
    <3> QED
      BY <1>2, <2>1, <2>2 DEF c
  <2>4. c <= AmountDelta(p, y, l, token0, FALSE)
    <3>1. c \in Nat
      BY <2>1
    <3> HIDE DEF c
    <3> QED
      BY <2>3, <3>1, AmountAgainst
  <2> QED
    BY <1>4, <2>4
<1> QED
  BY <1>3, <1>4

\* More of an input moves the price at least as far: token 0, exactly or with the contract's
\* fallback.
LEMMA InputFurther0 ==
  ASSUME NEW p \in Nat \ {0}, NEW n \in Nat \ {0}, NEW a \in Nat, NEW b \in Nat, a < b,
         NEW k, Floors(k, n, p), NEW x, Ceils(x, n * p, n + a * p),
         NEW y, Ceils(y, n * p, n + b * p) \/ Ceils(y, n, k + b)
  PROVE  y <= x
<1>0. k \in Nat /\ k * p <= n /\ n < k * p + p /\ x \in Nat /\ n * p <= x * (n + a * p)
  BY DEF Floors, Ceils
<1>1. n * p \in Nat /\ n + b * p \in Nat \ {0} /\ n + a * p \in Nat \ {0} /\ k + b \in Nat \ {0}
  BY <1>0
<1>2. CASE Ceils(y, n * p, n + b * p)
  <2>1. n + a * p <= n + b * p
    OBVIOUS
  <2>2. n * p <= x * (n + b * p)
    <3> DEFINE d == n + a * p
               e == n + b * p
               m == n * p
    <3>1. d \in Nat /\ e \in Nat /\ d <= e /\ m \in Nat /\ m <= x * d
      BY <1>0, <1>1, <2>1
    <3> HIDE DEF d, e, m
    <3>2. m <= x * e
      BY <1>0, <3>1
    <3> QED
      BY <3>2 DEF e, m
  <2> QED
    BY <1>0, <1>1, <1>2, <2>2, CeilsOrder
<1>3. CASE Ceils(y, n, k + b)
  <2>1. n + a * p <= (k + b) * p
    <3>1. (k + 1 + a) * p <= (k + b) * p
      BY <1>0
    <3> QED
      BY <1>0, <3>1
  <2>2. n * p <= (x * (k + b)) * p
    <3> DEFINE d == n + a * p
               e == (k + b) * p
               m == n * p
    <3>1. d \in Nat /\ e \in Nat /\ d <= e /\ m \in Nat /\ m <= x * d
      BY <1>0, <1>1, <2>1
    <3>2. x * e = (x * (k + b)) * p
      BY <1>0
    <3> HIDE DEF d, e, m
    <3>3. m <= x * e
      BY <1>0, <3>1
    <3> QED
      BY <3>2, <3>3 DEF m
  <2>3. n <= x * (k + b)
    <3> DEFINE e == x * (k + b)
    <3>1. e \in Nat /\ n * p <= e * p
      BY <1>0, <2>2
    <3> HIDE DEF e
    <3>2. n <= e
      BY <3>1
    <3> QED
      BY <3>2 DEF e
  <2> QED
    BY <1>0, <1>1, <1>3, <2>3, CeilsOrder
<1> QED
  BY <1>2, <1>3

\* The fallback alone: more of the input, and the price is no higher.
LEMMA FallbackFurther ==
  ASSUME NEW n \in Nat \ {0}, NEW k \in Nat, NEW a \in Nat, NEW b \in Nat, a <= b, k + a # 0,
         NEW x, Ceils(x, n, k + a), NEW y, Ceils(y, n, k + b)
  PROVE  y <= x
<1>1. x \in Nat /\ n <= x * (k + a)
  BY DEF Ceils
<1>2. x * (k + a) <= x * (k + b)
  BY <1>1
<1>3. n <= x * (k + b) /\ k + b \in Nat \ {0}
  BY <1>1, <1>2
<1> QED
  BY <1>1, <1>3, CeilsOrder

\* The other token moves the price up by what it is worth.
LEMMA InputFurther1 ==
  ASSUME NEW p \in Nat, NEW l \in Nat \ {0}, NEW q \in Nat, NEW a \in Nat, NEW b \in Nat, a <= b
  PROVE  p + (a * q) \div l <= p + (b * q) \div l
<1>1. a * q \in Nat /\ b * q \in Nat /\ a * q <= b * q
  OBVIOUS
<1>2. Floors((a * q) \div l, a * q, l) /\ Floors((b * q) \div l, b * q, l)
  BY <1>1, DivFloors
<1>3. ((a * q) \div l) * l <= b * q /\ (a * q) \div l \in Nat /\ (b * q) \div l \in Nat
  BY <1>1, <1>2 DEF Floors
<1>4. (a * q) \div l <= (b * q) \div l
  BY <1>1, <1>2, <1>3, FloorsOrder
<1> QED
  BY <1>3, <1>4

\* What NextPrice makes of an input.
LEMMA PriceOfInput ==
  ASSUME NEW p \in Nat \ {0}, NEW l \in Nat \ {0}, NEW a \in Nat, NEW zero \in BOOLEAN
  PROVE  LET n == l * Q
             x == NextPrice(p, l, a, zero, TRUE)
         IN  /\ zero => /\ ~(a * p > MaxUint \/ n + a * p > MaxUint) => Ceils(x, n * p, n + a * p)
                        /\ (a * p > MaxUint \/ n + a * p > MaxUint) /\ n \div p + a # 0 =>
                             Ceils(x, n, n \div p + a)
             /\ ~zero => x = p + (a * Q) \div l
<1> DEFINE n == l * Q
           d == n + a * p
           e == n \div p + a
           x == NextPrice(p, l, a, zero, TRUE)
           over == a * p > MaxUint \/ d > MaxUint
<1>1. Q \in Nat \ {0} /\ n \in Nat \ {0} /\ d \in Nat \ {0} /\ n * p \in Nat
  <2>1. Q \in Nat \ {0} /\ n \in Nat \ {0}
    BY WalkAssumption
  <2>2. a * p \in Nat
    OBVIOUS
  <2> HIDE DEF n
  <2> QED
    BY <2>1, <2>2
<1>2. n \div p \in Nat /\ e \in Nat
  BY <1>1
<1>3. ~(d <= 0)
  BY <1>1
<1>4. CASE zero
  <2>1. x = IF over THEN CeilDiv(n, e) ELSE CeilDiv(n * p, d)
    BY <1>3, <1>4 DEF NextPrice
  <2>2. ~over => Ceils(x, n * p, d)
    BY <1>1, <2>1, CeilDivCeils
  <2>3. over => (e # 0 => Ceils(x, n, e))
    <3> SUFFICES ASSUME over, e # 0 PROVE Ceils(x, n, e)
      OBVIOUS
    <3>1. e \in Nat \ {0} /\ n \in Nat
      BY <1>1, <1>2
    <3>2. x = CeilDiv(n, e)
      BY <2>1
    <3> HIDE DEF x, n, e
    <3> QED
      BY <3>1, <3>2, CeilDivCeils
  <2> QED
    BY <1>4, <2>2, <2>3
<1>5. CASE ~zero
  BY <1>5 DEF NextPrice
<1> QED
  BY <1>4, <1>5

\* More of an input moves the price at least as far.
LEMMA InputFurther ==
  ASSUME NEW p \in Nat \ {0}, NEW l \in Nat \ {0}, NEW a \in Nat, NEW b \in Nat, a <= b,
         l * Q <= MaxUint, NEW zero \in BOOLEAN
  PROVE  Ahead(NextPrice(p, l, a, zero, TRUE), NextPrice(p, l, b, zero, TRUE), zero)
<1> DEFINE n == l * Q
           k == n \div p
           x == NextPrice(p, l, a, zero, TRUE)
           y == NextPrice(p, l, b, zero, TRUE)
           overa == a * p > MaxUint \/ n + a * p > MaxUint
           overb == b * p > MaxUint \/ n + b * p > MaxUint
<1>1. Q \in Nat \ {0} /\ n \in Nat \ {0} /\ MaxUint \in Nat \ {0} /\ n <= MaxUint
  BY WalkAssumption
<1>2. Floors(k, n, p) /\ k \in Nat
  BY <1>1, DivFloors DEF Floors
<1>3. a * p \in Nat /\ b * p \in Nat /\ a * p <= b * p
  OBVIOUS
<1>4. overa => overb /\ a # 0
  BY <1>1, <1>3
<1>5. overb => b # 0
  BY <1>1, <1>3
<1>6. zero => /\ ~overa => Ceils(x, n * p, n + a * p)
              /\ ~overb => Ceils(y, n * p, n + b * p)
              /\ overa => (k + a # 0 => Ceils(x, n, k + a))
              /\ overb => (k + b # 0 => Ceils(y, n, k + b))
  BY PriceOfInput
<1>7. ~zero => x = p + (a * Q) \div l /\ y = p + (b * Q) \div l
  BY PriceOfInput
<1>8. (a # 0 => k + a # 0) /\ (b # 0 => k + b # 0)
  BY <1>2
<1>9. CASE a = b
  <2>1. x = y /\ (zero => x \in Nat) /\ (~zero => x \in Nat)
    <3>1. zero => x \in Nat
      BY <1>4, <1>6, <1>8 DEF Ceils
    <3>2. ~zero => x \in Nat
      <4>1. a * Q \in Nat
        BY <1>1
      <4>2. Floors((a * Q) \div l, a * Q, l)
        BY <4>1, DivFloors
      <4>3. p + (a * Q) \div l \in Nat
        BY <4>2 DEF Floors
      <4> QED
        BY <1>7, <4>3
    <3> QED
      BY <1>9, <3>1, <3>2
  <2> HIDE DEF x, y
  <2>2. x <= y /\ y <= x
    BY <2>1
  <2> QED
    BY <2>2 DEF Ahead, x, y
<1>10. CASE a < b /\ zero
  <2> HIDE DEF n, k, x, y, overa, overb
  <2>1. CASE overa
    <3>1. Ceils(x, n, k + a) /\ Ceils(y, n, k + b)
      BY <1>4, <1>5, <1>6, <1>8, <1>10, <2>1
    <3>2. k + a # 0 /\ k \in Nat
      BY <1>2, <1>4, <1>8, <2>1
    <3>3. y <= x
      BY <1>1, <3>1, <3>2, FallbackFurther
    <3> QED
      BY <1>10, <3>3 DEF Ahead, x, y
  <2>2. CASE ~overa
    <3>1. Ceils(x, n * p, n + a * p) /\ (Ceils(y, n * p, n + b * p) \/ Ceils(y, n, k + b))
      BY <1>5, <1>6, <1>8, <1>10, <2>2
    <3>2. y <= x
      BY <1>1, <1>2, <1>10, <3>1, InputFurther0
    <3> QED
      BY <1>10, <3>2 DEF Ahead, x, y
  <2> QED
    BY <2>1, <2>2
<1>11. CASE ~zero
  <2>1. p + (a * Q) \div l <= p + (b * Q) \div l
    BY <1>1, InputFurther1
  <2> QED
    BY <1>7, <1>11, <2>1 DEF Ahead
<1>12. a = b \/ a < b
  OBVIOUS
<1> QED
  BY <1>9, <1>10, <1>11, <1>12, Zenon

\* An input that pays for the way to a price reaches it, unless 256 bits overflow.
LEMMA InputReaches ==
  ASSUME NEW p \in Nat \ {0}, NEW x \in Nat \ {0}, NEW l \in Nat \ {0}, NEW a \in Nat,
         NEW zero \in BOOLEAN, Ahead(p, x, zero), AmountDelta(p, x, l, zero, TRUE) <= a,
         zero => l * Q + a * p <= MaxUint
  PROVE  Ahead(x, NextPrice(p, l, a, zero, TRUE), zero)
<1> DEFINE n == l * Q
           c == AmountDelta(p, x, l, zero, TRUE)
           y == NextPrice(p, l, a, zero, TRUE)
<1>1. Q \in Nat \ {0} /\ n \in Nat \ {0} /\ MaxUint \in Nat
  BY WalkAssumption
<1>2. c \in Nat /\ Ceils(c, Num(p, x, l, zero), Den(p, x, zero))
  BY AmountRounds DEF Ceils
<1>3. Num(p, x, l, zero) <= a * Den(p, x, zero)
  <2> DEFINE d == Den(p, x, zero)
             m == Num(p, x, l, zero)
  <2>1. d \in Nat \ {0} /\ m \in Nat /\ m <= c * d
    BY <1>2, NumDen DEF Ceils
  <2>2. c <= a
    OBVIOUS
  <2> HIDE DEF c, d, m
  <2>3. m <= a * d
    BY <1>2, <2>1, <2>2
  <2> QED
    BY <2>3 DEF d, m
<1>4. CASE zero
  <2>1. x <= p /\ Gap(p, x) = p - x
    BY <1>4 DEF Ahead, Gap
  <2>2. l * (p - x) * Q = n * (p - x)
    BY <1>1, <2>1
  <2>3. n * (p - x) <= a * (p * x)
    BY <1>3, <1>4, <2>1, <2>2 DEF Num, Den
  <2> HIDE DEF n
  <2>4. n * p <= x * (n + a * p)
    BY <1>1, <2>1, <2>3
  <2>5. a * p \in Nat /\ ~(a * p > MaxUint \/ n + a * p > MaxUint)
    <3>1. a * p \in Nat /\ n + a * p <= MaxUint
      BY <1>4 DEF n
    <3> QED
      BY <1>1, <3>1
  <2>6. Ceils(y, n * p, n + a * p)
    BY <1>4, <2>5, PriceOfInput DEF n
  <2>7. n * p \in Nat /\ n + a * p \in Nat \ {0}
    BY <1>1, <2>5
  <2> HIDE DEF y
  <2>8. y <= x
    BY <2>4, <2>6, <2>7, CeilsOrder
  <2> QED
    BY <1>4, <2>8 DEF Ahead, y
<1>5. CASE ~zero
  <2>1. p <= x /\ Gap(p, x) = x - p
    BY <1>5 DEF Ahead, Gap
  <2>2. (x - p) * l <= a * Q
    BY <1>3, <1>5, <2>1 DEF Num, Den
  <2>3. a * Q \in Nat /\ x - p \in Nat
    BY <1>1, <2>1
  <2>4. Floors((a * Q) \div l, a * Q, l) /\ (a * Q) \div l \in Nat
    BY <2>3, DivFloors DEF Floors
  <2>5. x - p <= (a * Q) \div l
    BY <2>2, <2>3, <2>4, FloorsOrder
  <2>6. y = p + (a * Q) \div l
    BY <1>5, PriceOfInput
  <2> HIDE DEF y
  <2>7. x <= y
    BY <2>4, <2>5, <2>6
  <2> QED
    BY <1>5, <2>7 DEF Ahead, y
<1> QED
  BY <1>4, <1>5

-----------------------------------------------------------------------------
(* The three ends of a step. *)

\* What is left of an input after its fee, and the fee of an input.
Available(r, fee, input) == IF input THEN (r * (FeeUnit - fee)) \div FeeUnit ELSE r
Tax(x, fee) == CeilDiv(x * fee, FeeUnit - fee)

\* The amount does not suffice for the way to the target.
Partial(p, target, l, r, fee, input, zero) ==
  Available(r, fee, input) < AmountDelta(p, target, l, zero = input, input)

\* The three ends of a step: at its target, short of it with an input, or with an output.
Whole(s, p, target, l, fee, zero) ==
  /\ s.price = target /\ s.in = AmountDelta(p, target, l, zero, TRUE)
  /\ s.out = AmountDelta(p, target, l, ~zero, FALSE) /\ s.fee = Tax(s.in, fee)
ShortIn(s, p, target, l, r, fee, zero) ==
  /\ s.price = NextPrice(p, l, Available(r, fee, TRUE), zero, TRUE) /\ s.price # target
  /\ s.out = AmountDelta(p, s.price, l, ~zero, FALSE) /\ s.in + s.fee = r
ShortOut(s, p, l, r, fee, zero) ==
  /\ s.price = NextPrice(p, l, r, zero, FALSE) /\ s.out = r
  /\ s.in = AmountDelta(p, s.price, l, zero, TRUE) /\ s.fee = Tax(s.in, fee)
  /\ r <= AmountDelta(p, s.price, l, ~zero, FALSE)

\* What is available is no more than what is left, and is rounded down.
LEMMA AvailableLess ==
  ASSUME NEW r \in Nat, NEW fee \in 0..(FeeUnit - 1), NEW input \in BOOLEAN
  PROVE  /\ Available(r, fee, input) \in Nat /\ Available(r, fee, input) <= r
         /\ input => Floors(Available(r, fee, input), r * (FeeUnit - fee), FeeUnit)
<1>0. FeeUnit \in Nat \ {0} /\ FeeUnit - fee \in Nat \ {0} /\ fee \in Nat
  BY WalkAssumption
<1>1. r * (FeeUnit - fee) \in Nat /\ r * (FeeUnit - fee) <= r * FeeUnit
  BY <1>0
<1> DEFINE k == (r * (FeeUnit - fee)) \div FeeUnit
           m == r * (FeeUnit - fee)
<1>2. Floors(k, m, FeeUnit)
  BY <1>0, <1>1, DivFloors
<1>3. m \in Nat /\ m <= r * FeeUnit
  BY <1>1
<1> HIDE DEF k, m
<1>4. k \in Nat /\ k * FeeUnit <= r * FeeUnit
  BY <1>0, <1>2, <1>3 DEF Floors
<1>5. k <= r
  BY <1>0, <1>4
<1> QED
  BY <1>2, <1>4, <1>5 DEF Available, k, m

\* calculateStep ends in one of the three ways: v3 and v4 agree on them.
LEMMA StepParts ==
  ASSUME NEW p \in Nat \ {0}, NEW target \in Nat \ {0}, NEW l \in Nat, NEW r \in Nat,
         NEW fee \in 0..(FeeUnit - 1), NEW input \in BOOLEAN, NEW zero \in BOOLEAN,
         NEW version, version \in {"v3", "v4"},
         Ahead(p, target, zero), l * Q <= MaxUint,
         NEW s, s = CalculateStep(version, p, target, l, r, fee, input, zero)
  PROVE  /\ ~Partial(p, target, l, r, fee, input, zero) => Whole(s, p, target, l, fee, zero)
         /\ Partial(p, target, l, r, fee, input, zero) =>
              IF input THEN ShortIn(s, p, target, l, r, fee, zero)
              ELSE ShortOut(s, p, l, r, fee, zero)
<1> DEFINE available == Available(r, fee, input)
           partial == Partial(p, target, l, r, fee, input, zero)
           next == IF partial THEN NextPrice(p, l, available, zero, input) ELSE target
           in == IF version = "v4" /\ input /\ partial
                 THEN available ELSE AmountDelta(p, next, l, zero, TRUE)
           out == AmountDelta(p, next, l, ~zero, FALSE)
           capped == ~input /\ IF version = "v4" THEN partial ELSE out > r
           rest == input /\ IF version = "v4" THEN partial ELSE next # target
           tax == Tax(in, fee)
<1>0. s = [price |-> next, in |-> in, out |-> IF capped THEN r ELSE out,
           fee |-> IF rest THEN r - in ELSE tax]
  BY DEF CalculateStep, Partial, Available, Tax
<1>1. /\ s.price = next /\ s.in = in /\ s.out = (IF capped THEN r ELSE out)
      /\ s.fee = (IF rest THEN r - in ELSE tax)
  BY <1>0
<1>2. available \in Nat /\ available <= r
  BY AvailableLess
<1>3. ASSUME partial PROVE PriceFits(next, p, target, l, available, zero, input)
  <2>1. next = NextPrice(p, l, available, zero, input)
    BY <1>3
  <2>2. available < AmountDelta(p, target, l, zero = input, input)
    BY <1>3 DEF Partial
  <2> HIDE DEF next, partial, available
  <2> QED
    BY <1>2, <2>1, <2>2, PriceWithin
<1>4. CASE ~partial
  <2>1. next = target /\ ~rest /\ in = AmountDelta(p, target, l, zero, TRUE)
    BY <1>4
  <2>2. ~capped
    <3> SUFFICES ASSUME ~input PROVE ~(out > r)
      BY <1>4
    <3>1. available = r
      BY DEF Available
    <3>2. (zero = input) = ~zero /\ input = FALSE
      OBVIOUS
    <3>3. ~(r < AmountDelta(p, target, l, ~zero, FALSE))
      BY <1>4, <3>1, <3>2 DEF Partial
    <3>4. out = AmountDelta(p, target, l, ~zero, FALSE)
      BY <2>1
    <3>5. AmountDelta(p, target, l, ~zero, FALSE) \in Nat
      BY AmountAgainst
    <3> HIDE DEF out
    <3> QED
      BY <3>3, <3>4, <3>5
  <2>3. s.price = target /\ s.in = in /\ s.out = out /\ s.fee = tax
    BY <1>1, <2>1, <2>2
  <2> QED
    BY <1>4, <2>1, <2>3 DEF Whole
<1>5. CASE partial /\ input
  <2>1. next = NextPrice(p, l, available, zero, TRUE) /\ ~capped
    BY <1>5
  <2>2. next # target /\ next \in Nat \ {0} /\ AmountDelta(p, next, l, zero, TRUE) <= available
    BY <1>3, <1>5 DEF PriceFits
  <2>3. rest
    BY <1>5, <2>2
  <2>4. in \in Int
    <3>1. AmountDelta(p, next, l, zero, TRUE) \in Nat
      <4> HIDE DEF next
      <4> QED
        BY <2>2, AmountAgainst
    <3> DEFINE up == AmountDelta(p, next, l, zero, TRUE)
    <3>2. in = IF version = "v4" /\ input /\ partial THEN available ELSE up
      OBVIOUS
    <3>3. up \in Nat
      BY <3>1
    <3> HIDE DEF in, up, available, partial
    <3> QED
      BY <1>2, <3>2, <3>3
  <2>5. s.in + s.fee = r
    <3>1. s.in = in /\ s.fee = r - in
      BY <1>1, <2>3
    <3> HIDE DEF in
    <3> QED
      BY <2>4, <3>1
  <2>6. s.price = next /\ s.out = out /\ available = Available(r, fee, TRUE)
    BY <1>1, <1>5, <2>1
  <2>7. ShortIn(s, p, target, l, r, fee, zero)
    <3> HIDE DEF next, available
    <3> QED
      BY <2>1, <2>2, <2>5, <2>6 DEF ShortIn
  <2> QED
    BY <1>5, <2>7
<1>6. CASE partial /\ ~input
  <2>1. next = NextPrice(p, l, r, zero, FALSE) /\ ~rest /\ in = AmountDelta(p, next, l, zero, TRUE)
    BY <1>6 DEF Available
  <2>2. next \in Nat \ {0} /\ r <= out
    BY <1>3, <1>6 DEF PriceFits, Available
  <2>3. out \in Nat
    <3> HIDE DEF next
    <3> QED
      BY <2>2, AmountAgainst
  <2>4. s.out = r
    <3>1. capped \/ ~(out > r)
      BY <1>6
    <3>2. s.out = r \/ (s.out = out /\ ~(out > r))
      BY <1>1, <1>6
    <3> HIDE DEF out
    <3> QED
      BY <2>2, <2>3, <3>2
  <2>5. s.price = next /\ s.in = in /\ s.fee = tax
    BY <1>1, <2>1
  <2>6. ShortOut(s, p, l, r, fee, zero)
    <3>1. s.in = AmountDelta(p, s.price, l, zero, TRUE) /\ s.fee = Tax(s.in, fee)
      BY <2>1, <2>5
    <3>2. out = AmountDelta(p, s.price, l, ~zero, FALSE)
      BY <2>5
    <3> HIDE DEF next, out, in, tax
    <3> QED
      BY <2>1, <2>2, <2>4, <2>5, <3>1, <3>2 DEF ShortOut
  <2> QED
    BY <1>6, <2>6
<1> QED
  BY <1>4, <1>5, <1>6

\* Where a step starts and what it may reach.
StepAt(version, p, target, l, zero) ==
  /\ version \in {"v3", "v4"} /\ zero \in BOOLEAN
  /\ p \in Nat \ {0} /\ target \in Nat \ {0} /\ Ahead(p, target, zero)
  /\ l \in Nat /\ l * Q <= MaxUint

\* The fee is rounded up.
LEMMA TaxCeils ==
  ASSUME NEW x \in Nat, NEW fee \in 0..(FeeUnit - 1)
  PROVE  Tax(x, fee) \in Nat /\ Ceils(Tax(x, fee), x * fee, FeeUnit - fee)
  BY FeeRounds DEF Tax, Ceils

\* Without a fee nothing is charged.
LEMMA TaxNone == ASSUME NEW x \in Nat PROVE Tax(x, 0) = 0
<1>1. FeeUnit \in Nat \ {0} /\ 0 \in 0..(FeeUnit - 1)
  BY WalkAssumption
<1>2. Tax(x, 0) \in Nat /\ Ceils(Tax(x, 0), x * 0, FeeUnit - 0)
  BY <1>1, TaxCeils
<1> DEFINE c == Tax(x, 0)
<1>3. c \in Nat /\ c * FeeUnit < FeeUnit
  BY <1>1, <1>2 DEF Ceils
<1> HIDE DEF c
<1>4. c = 0
  BY <1>1, <1>3
<1> QED
  BY <1>4 DEF c

\* More is charged for more.
LEMMA TaxMore ==
  ASSUME NEW x \in Nat, NEW y \in Nat, x <= y, NEW fee \in 0..(FeeUnit - 1)
  PROVE  Tax(x, fee) <= Tax(y, fee)
<1> DEFINE c == Tax(x, fee)
           d == Tax(y, fee)
           v == FeeUnit - fee
<1>1. v \in Nat \ {0} /\ fee \in Nat
  BY WalkAssumption
<1>2. c \in Nat /\ d \in Nat /\ Ceils(c, x * fee, v) /\ Ceils(d, y * fee, v)
  BY TaxCeils
<1> HIDE DEF c, d, v
<1>3. x * fee <= y * fee /\ x * fee \in Nat /\ y * fee \in Nat
  BY <1>1
<1>4. y * fee <= d * v /\ d * v \in Nat
  BY <1>1, <1>2 DEF Ceils
<1>5. x * fee <= d * v
  BY <1>3, <1>4
<1>6. c <= d
  BY <1>1, <1>2, <1>3, <1>5, CeilsOrder
<1> QED
  BY <1>6 DEF c, d

\* An input that was left with its fee is available.
LEMMA TaxCovered ==
  ASSUME NEW x \in Nat, NEW r \in Nat, NEW fee \in 0..(FeeUnit - 1), x + Tax(x, fee) <= r
  PROVE  x <= Available(r, fee, TRUE)
<1> DEFINE c == Tax(x, fee)
           v == FeeUnit - fee
           a == Available(r, fee, TRUE)
<1>1. v \in Nat \ {0} /\ fee \in Nat /\ FeeUnit \in Nat \ {0} /\ FeeUnit = v + fee
  BY WalkAssumption
<1>2. c \in Nat /\ Ceils(c, x * fee, v) /\ Floors(a, r * v, FeeUnit) /\ a \in Nat
  BY TaxCeils, AvailableLess
<1>3. x + c <= r
  OBVIOUS
<1> HIDE DEF c, v, a
<1>4. x * fee <= c * v
  BY <1>2 DEF Ceils
<1>5. (x + c) * v <= r * v
  BY <1>1, <1>2, <1>3
<1>6. x * FeeUnit <= r * v /\ r * v \in Nat
  BY <1>1, <1>2, <1>4, <1>5
<1>7. x <= a
  BY <1>1, <1>2, <1>6, FloorsOrder
<1> QED
  BY <1>7 DEF a

\* Without a fee all of an input is available.
LEMMA AvailableAll == ASSUME NEW r \in Nat PROVE Available(r, 0, TRUE) = r
<1>1. FeeUnit \in Nat \ {0} /\ 0 \in 0..(FeeUnit - 1)
  BY WalkAssumption
<1> DEFINE a == Available(r, 0, TRUE)
<1>2. a \in Nat /\ a <= r /\ Floors(a, r * (FeeUnit - 0), FeeUnit)
  BY <1>1, AvailableLess
<1> HIDE DEF a
<1>3. r * FeeUnit \in Nat /\ r * FeeUnit <= r * (FeeUnit - 0) /\ r * (FeeUnit - 0) \in Nat
  BY <1>1
<1>4. r <= a
  BY <1>1, <1>2, <1>3, FloorsOrder
<1>5. a = r
  BY <1>2, <1>4
<1> QED
  BY <1>5 DEF a

\* Amounts are numbers.
LEMMA AmountNat ==
  ASSUME NEW p \in Nat \ {0}, NEW x \in Nat \ {0}, NEW l \in Nat, NEW token0 \in BOOLEAN
  PROVE  AmountDelta(p, x, l, token0, TRUE) \in Nat /\ AmountDelta(p, x, l, token0, FALSE) \in Nat
  BY AmountRounds DEF Ceils, Floors

\* Without liquidity there is no amount.
LEMMA NoAmount ==
  ASSUME NEW p \in Nat \ {0}, NEW x \in Nat \ {0}, NEW token0 \in BOOLEAN
  PROVE  AmountDelta(p, x, 0, token0, TRUE) = 0 /\ AmountDelta(p, x, 0, token0, FALSE) = 0
<1> DEFINE num == Num(p, x, 0, token0)
           den == Den(p, x, token0)
           c == AmountDelta(p, x, 0, token0, TRUE)
           f == AmountDelta(p, x, 0, token0, FALSE)
<1>1. num \in Nat /\ den \in Nat \ {0}
  BY NumDen
<1>2. c \in Nat /\ f \in Nat /\ Ceils(c, num, den) /\ Floors(f, num, den)
  BY AmountRounds DEF Ceils, Floors
<1>3. num = 0
  <2>1. Q \in Nat /\ Gap(p, x) \in Nat
    BY WalkAssumption DEF Gap
  <2> QED
    BY <2>1 DEF Num
<1> HIDE DEF num, den, c, f
<1>4. c = 0 /\ f = 0
  BY <1>1, <1>2, <1>3 DEF Ceils, Floors
<1> QED
  BY <1>4 DEF c, f

\* Either rounding of an amount: given something, there was a way, and it costs something.
LEMMA SomeWay ==
  ASSUME NEW p \in Nat \ {0}, NEW x \in Nat \ {0}, NEW l \in Nat, NEW token0 \in BOOLEAN
  PROVE  /\ AmountDelta(p, x, l, token0, FALSE) \in Nat
         /\ 0 < AmountDelta(p, x, l, token0, FALSE) => 0 < l * Gap(p, x)
         /\ 0 < l * Gap(p, x) => 0 < AmountDelta(p, x, l, token0, TRUE)
<1> DEFINE num == Num(p, x, l, token0)
           den == Den(p, x, token0)
           c == AmountDelta(p, x, l, token0, TRUE)
           f == AmountDelta(p, x, l, token0, FALSE)
           g == Gap(p, x)
<1>1. num \in Nat /\ den \in Nat \ {0}
  BY NumDen
<1>2. c \in Nat /\ f \in Nat /\ Ceils(c, num, den) /\ Floors(f, num, den)
  BY AmountRounds DEF Ceils, Floors
<1>3. Q \in Nat \ {0} /\ g \in Nat
  BY WalkAssumption DEF Gap
<1>4. 0 < num <=> 0 < l * g
  <2>1. num = (IF token0 THEN l * g * Q ELSE l * g)
    BY DEF Num
  <2> HIDE DEF g, num
  <2>2. l * g \in Nat /\ (0 < l * g * Q <=> 0 < l * g)
    BY <1>3
  <2> QED
    BY <2>1, <2>2
<1> HIDE DEF num, den, c, f, g
<1>5. 0 < num => 0 < c
  BY <1>1, <1>2 DEF Ceils
<1>6. 0 < f => 0 < num
  BY <1>1, <1>2 DEF Floors
<1> QED
  BY <1>2, <1>4, <1>5, <1>6 DEF c, f, g

\* StepSound and StepParts together.
LEMMA StepEnds ==
  ASSUME NEW version, NEW p, NEW target, NEW l, NEW zero, StepAt(version, p, target, l, zero),
         NEW r \in Nat, NEW fee \in 0..(FeeUnit - 1), NEW input \in BOOLEAN,
         NEW s, s = CalculateStep(version, p, target, l, r, fee, input, zero)
  PROVE  /\ s.price \in Nat \ {0} /\ Between(p, s.price, target, zero)
         /\ s.in \in Nat /\ s.out \in Nat /\ s.fee \in Nat /\ Taken(s, input) <= r
         /\ ~Partial(p, target, l, r, fee, input, zero) => Whole(s, p, target, l, fee, zero)
         /\ Partial(p, target, l, r, fee, input, zero) =>
              /\ l # 0
              /\ input => ShortIn(s, p, target, l, r, fee, zero)
              /\ ~input => ShortOut(s, p, l, r, fee, zero)
<1>0. /\ p \in Nat \ {0} /\ target \in Nat \ {0} /\ l \in Nat /\ zero \in BOOLEAN
      /\ version \in {"v3", "v4"} /\ Ahead(p, target, zero) /\ l * Q <= MaxUint
  BY DEF StepAt
<1>1. StepSound(s, p, target, l, r, fee, input, zero)
  BY <1>0, CalculateStepSound
<1>2. /\ ~Partial(p, target, l, r, fee, input, zero) => Whole(s, p, target, l, fee, zero)
      /\ Partial(p, target, l, r, fee, input, zero) =>
              IF input THEN ShortIn(s, p, target, l, r, fee, zero)
              ELSE ShortOut(s, p, l, r, fee, zero)
  BY <1>0, StepParts
<1>3. Partial(p, target, l, r, fee, input, zero) => l # 0
  <2> SUFFICES ASSUME l = 0 PROVE ~Partial(p, target, l, r, fee, input, zero)
    OBVIOUS
  <2> DEFINE a == Available(r, fee, input)
             token0 == (zero = input)
             up == AmountDelta(p, target, l, token0, TRUE)
             down == AmountDelta(p, target, l, token0, FALSE)
  <2>1. token0 \in BOOLEAN /\ a \in Nat
    BY AvailableLess
  <2>2. up = 0 /\ down = 0
    <3> HIDE DEF token0
    <3>1. up = AmountDelta(p, target, 0, token0, TRUE) /\ down = AmountDelta(p, target, 0, token0, FALSE)
      OBVIOUS
    <3> HIDE DEF up, down
    <3> QED
      BY <1>0, <2>1, <3>1, NoAmount
  <2>3. Partial(p, target, l, r, fee, input, zero) => a < up \/ a < down
    BY DEF Partial
  <2> HIDE DEF a, up, down
  <2> QED
    BY <2>1, <2>2, <2>3
<1> QED
  BY <1>1, <1>2, <1>3, Zenon DEF StepSound

-----------------------------------------------------------------------------
(* Two steps from one spot: without fee, or paying what the other costs. *)

\* A step u like s without fee; one from no less; one that pays what s costs.
CostsNoMore(s, u) == u.price = s.price /\ u.out = s.out /\ u.in + u.fee <= s.in + s.fee
BuysNoLess(s, u, partial) == s.out <= u.out /\ (~partial => CostsNoMore(s, u))
BuysBack(s, u, r, paid, partial) ==
  /\ ~partial => u.price = s.price /\ u.out = s.out /\ u.in + u.fee = s.in + s.fee
  /\ s.out = r /\ paid = s.in + s.fee => r <= u.out /\ u.in + u.fee = paid

\* An output costs no more without a fee, and brings the step to the same price.
LEMMA OutputWithoutFee ==
  ASSUME NEW version, NEW p, NEW target, NEW l, NEW zero, StepAt(version, p, target, l, zero),
         NEW r \in Nat, NEW fee \in 0..(FeeUnit - 1),
         NEW s, s = CalculateStep(version, p, target, l, r, fee, FALSE, zero),
         NEW u, u = CalculateStep(version, p, target, l, r, 0, FALSE, zero)
  PROVE  CostsNoMore(s, u)
<1>0. 0 \in 0..(FeeUnit - 1) /\ FALSE \in BOOLEAN
  BY WalkAssumption
<1> DEFINE partial == Partial(p, target, l, r, fee, FALSE, zero)
<1>1. /\ s.in \in Nat /\ s.fee \in Nat
      /\ ~partial => Whole(s, p, target, l, fee, zero)
      /\ partial => ShortOut(s, p, l, r, fee, zero)
  BY <1>0, StepEnds
<1>2. partial <=> Partial(p, target, l, r, 0, FALSE, zero)
  BY DEF Partial, Available
<1>3. /\ u.in \in Nat /\ u.fee \in Nat
      /\ ~partial => Whole(u, p, target, l, 0, zero)
      /\ partial => ShortOut(u, p, l, r, 0, zero)
  BY <1>0, <1>2, StepEnds
<1> HIDE DEF partial
<1>4. u.price = s.price /\ u.out = s.out /\ u.in = s.in /\ u.fee = Tax(u.in, 0)
  BY <1>1, <1>3 DEF Whole, ShortOut
<1>5. u.fee = 0
  BY <1>3, <1>4, TaxNone
<1>6. u.in + u.fee <= s.in + s.fee
  <2> DEFINE si == s.in
             sf == s.fee
             ui == u.in
             uf == u.fee
  <2>1. si \in Nat /\ sf \in Nat /\ ui = si /\ uf = 0
    BY <1>1, <1>4, <1>5
  <2> HIDE DEF si, sf, ui, uf
  <2>2. ui + uf <= si + sf
    BY <2>1
  <2> QED
    BY <2>2 DEF si, sf, ui, uf
<1> QED
  BY <1>4, <1>6 DEF CostsNoMore

\* An input that is no less buys no less without a fee.
LEMMA InputWithoutFee ==
  ASSUME NEW version, NEW p, NEW target, NEW l, NEW zero, StepAt(version, p, target, l, zero),
         NEW r \in Nat, NEW more \in Nat, r <= more, NEW fee \in 0..(FeeUnit - 1),
         NEW s, s = CalculateStep(version, p, target, l, r, fee, TRUE, zero),
         NEW u, u = CalculateStep(version, p, target, l, more, 0, TRUE, zero)
  PROVE  BuysNoLess(s, u, Partial(p, target, l, r, fee, TRUE, zero))
<1>0. 0 \in 0..(FeeUnit - 1) /\ TRUE \in BOOLEAN
  BY WalkAssumption
<1>00. p \in Nat \ {0} /\ target \in Nat \ {0} /\ l \in Nat /\ zero \in BOOLEAN /\ l * Q <= MaxUint
  BY DEF StepAt
<1> DEFINE partial == Partial(p, target, l, r, fee, TRUE, zero)
           partialu == Partial(p, target, l, more, 0, TRUE, zero)
           a == Available(r, fee, TRUE)
           b == Available(more, 0, TRUE)
           most == AmountDelta(p, target, l, zero, TRUE)
<1>1. /\ s.in \in Nat /\ s.fee \in Nat /\ s.out \in Nat
      /\ s.price \in Nat \ {0} /\ Between(p, s.price, target, zero)
      /\ ~partial => Whole(s, p, target, l, fee, zero)
      /\ partial => l # 0 /\ ShortIn(s, p, target, l, r, fee, zero)
  BY <1>0, StepEnds
<1>2. /\ u.in \in Nat /\ u.fee \in Nat /\ u.out \in Nat
      /\ u.price \in Nat \ {0} /\ Between(p, u.price, target, zero)
      /\ ~partialu => Whole(u, p, target, l, 0, zero)
      /\ partialu => l # 0 /\ ShortIn(u, p, target, l, more, 0, zero)
  BY <1>0, StepEnds
<1>3. a \in Nat /\ b \in Nat /\ a <= b /\ b = more
  <2>1. a \in Nat /\ a <= r /\ b = more
    BY <1>0, AvailableLess, AvailableAll
  <2> HIDE DEF a, b
  <2> QED
    BY <2>1
<1>4. (partial <=> a < most) /\ (partialu <=> b < most) /\ most \in Nat
  <2>1. (zero = TRUE) = zero
    BY <1>00
  <2>2. most \in Nat
    BY <1>00, AmountNat
  <2> QED
    BY <2>1, <2>2 DEF Partial
<1>5. partialu => partial
  <2> HIDE DEF partial, partialu, a, b, most
  <2> QED
    BY <1>3, <1>4
<1>6. s.out = AmountDelta(p, s.price, l, ~zero, FALSE)
  <2> HIDE DEF partial
  <2> QED
    BY <1>1 DEF Whole, ShortIn
<1>7. u.out = AmountDelta(p, u.price, l, ~zero, FALSE)
  <2> HIDE DEF partialu
  <2> QED
    BY <1>2 DEF Whole, ShortIn
<1>8. Between(p, s.price, u.price, zero)
  <2>1. CASE ~partialu
    <3>1. u.price = target
      BY <1>2, <2>1 DEF Whole
    <3> QED
      BY <1>1, <3>1
  <2>2. CASE partialu
    <3>1. l \in Nat \ {0} /\ s.price = NextPrice(p, l, a, zero, TRUE)
          /\ u.price = NextPrice(p, l, b, zero, TRUE)
      BY <1>00, <1>1, <1>2, <1>5, <2>2 DEF ShortIn
    <3>2. Ahead(s.price, u.price, zero)
      <4> HIDE DEF a, b
      <4>1. Ahead(NextPrice(p, l, a, zero, TRUE), NextPrice(p, l, b, zero, TRUE), zero)
        BY <1>00, <1>3, <3>1, InputFurther
      <4> QED
        BY <3>1, <4>1
    <3> QED
      BY <1>1, <3>2 DEF Ahead, Between
  <2> QED
    BY <2>1, <2>2
<1>9. s.out <= u.out
  <2>1. (~zero) \in BOOLEAN
    OBVIOUS
  <2>2. AmountDelta(p, s.price, l, ~zero, FALSE) <= AmountDelta(p, u.price, l, ~zero, FALSE)
    <3> DEFINE token0 == ~zero
    <3>1. token0 \in BOOLEAN
      OBVIOUS
    <3> HIDE DEF token0
    <3>2. AmountDelta(p, s.price, l, token0, FALSE) <= AmountDelta(p, u.price, l, token0, FALSE)
      BY <1>0, <1>00, <1>1, <1>2, <1>8, <3>1, FurtherMore
    <3> QED
      BY <3>2 DEF token0
  <2> QED
    BY <1>6, <1>7, <2>2
<1>10. ASSUME ~partial PROVE u.price = s.price /\ u.out = s.out /\ u.in + u.fee <= s.in + s.fee
  <2>1. Whole(s, p, target, l, fee, zero) /\ Whole(u, p, target, l, 0, zero)
    BY <1>1, <1>2, <1>5, <1>10
  <2>2. u.price = s.price /\ u.out = s.out /\ u.in = s.in /\ u.fee = Tax(u.in, 0)
    BY <2>1 DEF Whole
  <2>3. u.fee = 0
    BY <1>2, <2>2, TaxNone
  <2>4. u.in + u.fee <= s.in + s.fee
    <3> DEFINE si == s.in
               sf == s.fee
               ui == u.in
               uf == u.fee
    <3>1. si \in Nat /\ sf \in Nat /\ ui = si /\ uf = 0
      BY <1>1, <2>2, <2>3
    <3> HIDE DEF si, sf, ui, uf
    <3>2. ui + uf <= si + sf
      BY <3>1
    <3> QED
      BY <3>2 DEF si, sf, ui, uf
  <2> QED
    BY <2>2, <2>4
<1> QED
  BY <1>9, <1>10 DEF BuysNoLess, CostsNoMore

\* What an exact output costs buys it, paid as an exact input, unless 256 bits overflow.
LEMMA CostBuys ==
  ASSUME NEW version, NEW p, NEW target, NEW l, NEW zero, StepAt(version, p, target, l, zero),
         NEW r \in Nat, NEW paid \in Nat, NEW fee \in 0..(FeeUnit - 1),
         NEW s, s = CalculateStep(version, p, target, l, r, fee, FALSE, zero),
         NEW u, u = CalculateStep(version, p, target, l, paid, fee, TRUE, zero),
         s.in + s.fee <= paid, zero => l * Q + paid * p <= MaxUint
  PROVE  BuysBack(s, u, r, paid, Partial(p, target, l, r, fee, FALSE, zero))
<1>0. FALSE \in BOOLEAN /\ TRUE \in BOOLEAN
  OBVIOUS
<1>00. /\ p \in Nat \ {0} /\ target \in Nat \ {0} /\ l \in Nat /\ zero \in BOOLEAN
       /\ Ahead(p, target, zero) /\ l * Q <= MaxUint
  BY DEF StepAt
<1> DEFINE partial == Partial(p, target, l, r, fee, FALSE, zero)
           partialu == Partial(p, target, l, paid, fee, TRUE, zero)
           a == Available(paid, fee, TRUE)
<1>1. /\ s.in \in Nat /\ s.fee \in Nat /\ s.out \in Nat
      /\ s.price \in Nat \ {0} /\ Between(p, s.price, target, zero)
      /\ ~partial => Whole(s, p, target, l, fee, zero)
      /\ partial => l # 0 /\ ShortOut(s, p, l, r, fee, zero)
  BY <1>0, StepEnds
<1>2. /\ u.in \in Nat /\ u.fee \in Nat /\ u.out \in Nat
      /\ u.price \in Nat \ {0} /\ Between(p, u.price, target, zero)
      /\ Taken(u, TRUE) <= paid
      /\ ~partialu => Whole(u, p, target, l, fee, zero)
      /\ partialu => l # 0 /\ ShortIn(u, p, target, l, paid, fee, zero)
  BY <1>0, StepEnds
<1>3. s.in = AmountDelta(p, s.price, l, zero, TRUE) /\ s.fee = Tax(s.in, fee)
  <2> HIDE DEF partial
  <2> QED
    BY <1>1 DEF Whole, ShortOut
<1>4. s.in <= a /\ a \in Nat /\ a <= paid
  <2>1. s.in + Tax(s.in, fee) <= paid
    BY <1>3
  <2> QED
    BY <1>0, <1>1, <2>1, TaxCovered, AvailableLess
<1>5. partialu => a < AmountDelta(p, target, l, zero, TRUE)
  <2>1. (zero = TRUE) = zero
    BY <1>00
  <2> QED
    BY <2>1 DEF Partial
<1>6. ~partial => ~partialu
  <2> SUFFICES ASSUME ~partial PROVE ~partialu
    OBVIOUS
  <2> DEFINE most == AmountDelta(p, target, l, zero, TRUE)
  <2>1. s.in = most
    BY <1>1 DEF Whole
  <2>2. most <= a /\ most \in Nat /\ a \in Nat
    BY <1>1, <1>4, <2>1
  <2>3. partialu => a < most
    BY <1>5
  <2> HIDE DEF partialu, a, most
  <2> QED
    BY <2>2, <2>3
<1>7. ASSUME ~partial PROVE u.price = s.price /\ u.out = s.out /\ u.in + u.fee = s.in + s.fee
  <2>1. Whole(s, p, target, l, fee, zero) /\ Whole(u, p, target, l, fee, zero)
    BY <1>1, <1>2, <1>6, <1>7
  <2> QED
    BY <2>1 DEF Whole
<1>8. ASSUME s.out = r, paid = s.in + s.fee PROVE r <= u.out /\ u.in + u.fee = paid
  <2>1. CASE ~partial
    <3>1. u.out = r /\ u.in + u.fee = paid
      BY <1>7, <1>8, <2>1
    <3>2. r <= r
      OBVIOUS
    <3> QED
      BY <3>1, <3>2, Zenon
  <2>2. CASE partial
    <3>1. r <= AmountDelta(p, s.price, l, ~zero, FALSE) /\ l \in Nat \ {0}
      BY <1>00, <1>1, <2>2 DEF ShortOut
    <3>2. Between(p, s.price, u.price, zero)
      <4>1. CASE ~partialu
        <5>1. u.price = target
          BY <1>2, <4>1 DEF Whole
        <5> QED
          BY <1>1, <5>1
      <4>2. CASE partialu
        <5>1. u.price = NextPrice(p, l, a, zero, TRUE)
          BY <1>2, <4>2 DEF ShortIn
        <5>2. Ahead(p, s.price, zero)
          BY <1>1 DEF Between, Ahead
        <5>3. zero => l * Q + a * p <= MaxUint
          <6>1. Q \in Nat /\ MaxUint \in Nat
            BY WalkAssumption
          <6> HIDE DEF a
          <6>2. a * p <= paid * p /\ a * p \in Nat /\ paid * p \in Nat /\ l * Q \in Nat
            BY <1>00, <1>4, <6>1
          <6> QED
            BY <6>1, <6>2
        <5>4. Ahead(s.price, u.price, zero)
          <6> HIDE DEF a
          <6>1. AmountDelta(p, s.price, l, zero, TRUE) <= a
            BY <1>3, <1>4
          <6>2. Ahead(s.price, NextPrice(p, l, a, zero, TRUE), zero)
            BY <1>00, <1>1, <1>4, <3>1, <5>2, <5>3, <6>1, InputReaches
          <6> QED
            BY <5>1, <6>2
        <5> QED
          BY <1>1, <5>4 DEF Between, Ahead
      <4> QED
        BY <4>1, <4>2
    <3>3. u.out = AmountDelta(p, u.price, l, ~zero, FALSE)
      <4> HIDE DEF partialu
      <4> QED
        BY <1>2 DEF Whole, ShortIn
    <3>4. r <= u.out
      <4> DEFINE token0 == ~zero
                 x == s.price
                 y == u.price
                 f == AmountDelta(p, x, l, token0, FALSE)
                 g == AmountDelta(p, y, l, token0, FALSE)
      <4>1. token0 \in BOOLEAN /\ x \in Nat \ {0} /\ y \in Nat \ {0} /\ Between(p, x, y, zero)
        BY <1>1, <1>2, <3>2
      <4>2. r <= f /\ u.out = g
        BY <3>1, <3>3
      <4> HIDE DEF token0, x, y
      <4>3. f <= g
        BY <1>0, <1>00, <4>1, FurtherMore
      <4>4. f \in Nat /\ g \in Nat
        BY <1>00, <4>1, AmountNat
      <4> DEFINE uo == u.out
      <4>5. uo = g
        BY <4>2
      <4> HIDE DEF f, g, uo
      <4>6. r <= uo
        BY <4>2, <4>3, <4>4, <4>5
      <4> QED
        BY <4>6 DEF uo
    <3>5. u.in + u.fee = paid
      <4>1. CASE partialu
        BY <1>2, <4>1 DEF ShortIn
      <4>2. CASE ~partialu
        <5>1. u.price = target /\ u.in = AmountDelta(p, target, l, zero, TRUE)
              /\ u.fee = Tax(u.in, fee)
          BY <1>2, <4>2 DEF Whole
        <5>2. s.in <= u.in
          <6>1. AmountDelta(p, s.price, l, zero, TRUE) <= AmountDelta(p, target, l, zero, TRUE)
            <7> DEFINE x == s.price
            <7>1. x \in Nat \ {0} /\ Between(p, x, target, zero)
              BY <1>1
            <7> HIDE DEF x
            <7>2. AmountDelta(p, x, l, zero, TRUE) <= AmountDelta(p, target, l, zero, TRUE)
              BY <1>0, <1>00, <7>1, FurtherMore
            <7> QED
              BY <7>2 DEF x
          <6> QED
            BY <1>3, <5>1, <6>1
        <5>3. s.fee <= u.fee
          BY <1>1, <1>2, <1>3, <5>1, <5>2, TaxMore
        <5>4. u.in + u.fee <= paid
          BY <1>2 DEF Taken
        <5> DEFINE si == s.in
                   sf == s.fee
                   ui == u.in
                   uf == u.fee
        <5>5. /\ si \in Nat /\ sf \in Nat /\ ui \in Nat /\ uf \in Nat /\ si <= ui /\ sf <= uf
              /\ ui + uf <= paid /\ paid = si + sf
          BY <1>1, <1>2, <1>8, <5>2, <5>3, <5>4
        <5> HIDE DEF si, sf, ui, uf
        <5>6. ui + uf = paid
          BY <5>5
        <5> QED
          BY <5>6 DEF ui, uf
      <4> QED
        BY <4>1, <4>2
    <3> QED
      BY <3>4, <3>5
  <2> QED
    BY <2>1, <2>2
<1> QED
  BY <1>7, <1>8 DEF BuysBack

\* An output costs something.
LEMMA OutputCosts ==
  ASSUME NEW version, NEW p, NEW target, NEW l, NEW zero, StepAt(version, p, target, l, zero),
         NEW r \in Nat, NEW fee \in 0..(FeeUnit - 1),
         NEW s, s = CalculateStep(version, p, target, l, r, fee, FALSE, zero), s.out # 0
  PROVE  s.in # 0
<1> DEFINE partial == Partial(p, target, l, r, fee, FALSE, zero)
<1>0. FALSE \in BOOLEAN /\ p \in Nat \ {0} /\ l \in Nat /\ zero \in BOOLEAN
  BY DEF StepAt
<1>1. /\ s.in \in Nat /\ s.out \in Nat /\ s.price \in Nat \ {0}
      /\ ~partial => Whole(s, p, target, l, fee, zero)
      /\ partial => ShortOut(s, p, l, r, fee, zero)
  BY <1>0, StepEnds
<1> DEFINE token0 == ~zero
           z == zero
           x == s.price
           f == AmountDelta(p, x, l, token0, FALSE)
           si == s.in
           so == s.out
<1>2. si = AmountDelta(p, x, l, z, TRUE) /\ (so = f \/ (so = r /\ r <= f))
  <2> HIDE DEF partial
  <2> QED
    BY <1>1 DEF Whole, ShortOut
<1>3. so \in Nat /\ so # 0
  BY <1>1
<1>4. p \in Nat \ {0} /\ x \in Nat \ {0} /\ l \in Nat /\ token0 \in BOOLEAN /\ z \in BOOLEAN
  BY <1>0, <1>1
<1> HIDE DEF token0, z, x, si, so
<1>5. f \in Nat /\ (0 < f => 0 < l * Gap(p, x))
  BY <1>4, SomeWay
<1>6. 0 < l * Gap(p, x) => 0 < AmountDelta(p, x, l, z, TRUE)
  BY <1>4, SomeWay
<1>7. 0 < f
  <2> HIDE DEF f
  <2> QED
    BY <1>2, <1>3, <1>5
<1>8. 0 < si
  BY <1>2, <1>5, <1>6, <1>7
<1>9. si # 0
  BY <1>8
<1> QED
  BY <1>9 DEF si

-----------------------------------------------------------------------------
(* Two walks over one captured state. *)

\* The names of Iterate's locals: for a walk at tick t, and a walk w.
NextOf(t) == Clamp(NextTick(t).tick)
Limit == SqrtAtTick(IF request.zero THEN MinTick ELSE MaxTick) + IF request.zero THEN 1 ELSE -1
TargetOf(t) ==
  IF IF request.zero THEN SqrtAtTick(NextOf(t)) < Limit ELSE SqrtAtTick(NextOf(t)) > Limit
  THEN Limit ELSE SqrtAtTick(NextOf(t))
StepOf(w, req) ==
  CalculateStep(pool.version, w.p, TargetOf(w.tick), w.l, w.remaining, req.fee, req.input,
                request.zero)
CrossedL(w) ==
  IF ~NextTick(w.tick).initialized THEN w.l
  ELSE IF request.zero THEN w.l - Net(pool.positions, NextOf(w.tick))
  ELSE w.l + Net(pool.positions, NextOf(w.tick))
CrossedTick(w) == IF request.zero THEN NextOf(w.tick) - 1 ELSE NextOf(w.tick)

\* What a step s of the walk w leaves to do and has done.
Counts(w) == w.remaining \in Nat /\ w.result \in Nat
Fits(w) == StepAt(pool.version, w.p, TargetOf(w.tick), w.l, request.zero)
\* Price and place after a step that reached its tick.
Arrived(s, v, w) ==
  /\ s.price = SqrtAtTick(NextOf(v.tick)) /\ s.price # Limit
  /\ w.p = s.price /\ w.l = CrossedL(v) /\ w.tick = CrossedTick(v)

\* Iterate, said with these names: the step taken fits, its amounts are those of the
\* walk's next state, and how the loop goes on depends on the price and on what is left.
LEMMA IterateStep ==
  ASSUME WalkInv, AmountsInv, Iterate, NEW s, s = StepOf(walk, request)
  PROVE  /\ Fits(walk) /\ Counts(walk) /\ outcome = "none"
         /\ request.fee \in 0..(FeeUnit - 1) /\ request.input \in BOOLEAN
         /\ pool' = pool /\ request' = request /\ before' = before
         /\ walk'.remaining = walk.remaining - Taken(s, request.input)
         /\ walk'.result = walk.result + Given(s, request.input)
         /\ outcome' \in {"none", "quoted", "ends"}
         /\ outcome' = "quoted" <=> walk'.remaining = 0
         /\ outcome' = "none" => Arrived(s, walk, walk')
         /\ walk'.remaining # 0 /\ s.price = SqrtAtTick(NextOf(walk.tick)) /\ s.price # Limit =>
              outcome' = "none"
<1> DEFINE found == NextTick(walk.tick)
           next == NextOf(walk.tick)
           limit == Limit
           target == TargetOf(walk.tick)
           remaining == walk.remaining - IF request.input THEN s.in + s.fee ELSE s.out
           result == walk.result + IF request.input THEN s.out ELSE s.in + s.fee
           whole == Crossed(next, found.initialized)
           crossed == IF s.price = SqrtAtTick(next) THEN whole ELSE walk
           base == IF outcome' \in {"none", "range"} THEN crossed ELSE walk
           moved == [base EXCEPT !.p = s.price, !.remaining = remaining,
                                 !.result = result, !.fees = @ + s.fee]
<1>1. \/ outcome' = "price"
      \/ outcome' = "negative"
      \/ /\ walk' = moved
         /\ outcome' = IF remaining = 0 THEN "quoted"
                       ELSE IF s.price = limit THEN "ends"
                       ELSE IF s.price # SqrtAtTick(next) THEN "incomplete"
                       ELSE IF crossed.l < 0 THEN "range"
                       ELSE "none"
  BY DEF Iterate, NextOf, Limit, TargetOf, StepOf
<1>2. /\ outcome = "none" /\ pool' = pool /\ request' = request /\ before' = before
  BY DEF Iterate
<1>3. AmountsInv'
  BY IterateNumbers
<1>4. outcome' \in {"none", "quoted", "ends"}
  BY <1>3 DEF AmountsInv, Ended
<1>5. walk' = moved
      /\ (remaining = 0 => outcome' = "quoted")
      /\ (remaining # 0 => outcome' # "quoted")
      /\ (remaining # 0 /\ s.price = limit => outcome' = "ends")
      /\ (outcome' = "none" => s.price = SqrtAtTick(next) /\ s.price # limit)
      /\ (remaining # 0 /\ s.price = SqrtAtTick(next) /\ s.price # limit => outcome' = "none")
  <2> HIDE DEF remaining, limit, next, crossed, moved
  <2> QED
    BY <1>1, <1>4
<1>6. /\ request.zero \in BOOLEAN /\ request.input \in BOOLEAN /\ request.amount \in 0..MaxUint
      /\ request.fee \in Fees \cup {0} /\ pool.version \in {"v3", "v4"}
      /\ pool.positions \in SUBSET Positions
      /\ walk.tick \in (MinTick - 1)..MaxTick /\ walk.tick \in Int
      /\ DOMAIN walk = {"p", "l", "tick", "remaining", "result", "fees"}
      /\ walk.l = LiquidityAt(pool.positions, walk.tick)
  BY <1>2, TickRange DEF WalkInv, AmountsInv, Asked, Requests, Captured, Walking, LiquidityFollows
<1>7. /\ walk.p \in PriceBounds /\ walk.remaining \in 0..request.amount /\ walk.result \in 0..MaxUint
  BY DEF AmountsInv, Counted
<1>8. Counts(walk)
  BY <1>6, <1>7, WalkAssumption DEF Counts
<1>9. request.fee \in 0..(FeeUnit - 1)
  <2>1. FeeUnit \in Nat \ {0} /\ Fees \subseteq 0..(FeeUnit - 1)
    BY WalkAssumption
  <2>2. 0 \in 0..(FeeUnit - 1)
    BY <2>1
  <2> QED
    BY <1>6, <2>1, <2>2
<1>10. Passes(found, walk.tick, request.zero)
  BY <1>6, NextTickPasses DEF WalkInv
<1>11. Fits(walk)
  <2>1. target \in PriceBounds /\ Ahead(walk.p, target, request.zero)
    <3> HIDE DEF found
    <3>1. next = Clamp(found.tick)
      BY DEF NextOf, found
    <3>2. /\ limit = SqrtAtTick(IF request.zero THEN MinTick ELSE MaxTick)
                               + IF request.zero THEN 1 ELSE -1
          /\ target = IF IF request.zero THEN SqrtAtTick(next) < limit
                                 ELSE SqrtAtTick(next) > limit
                              THEN limit ELSE SqrtAtTick(next)
      BY DEF Limit, TargetOf
    <3> HIDE DEF next, limit, target
    <3> QED
      BY <1>2, <1>10, <3>1, <3>2, TargetAhead
  <2>2. walk.l \in Nat /\ walk.l * Q <= MaxUint
    BY <1>6, LiquidityAtMost
  <2>3. walk.p \in Nat \ {0} /\ target \in Nat \ {0}
    <3> HIDE DEF target
    <3> QED
      BY <1>7, <2>1, PriceRange
  <2> QED
    BY <1>6, <2>1, <2>2, <2>3 DEF Fits, StepAt
<1>12. base \in {walk, whole} /\ (outcome' = "none" => base = whole)
  <2>1. outcome' = "none" => crossed = whole
    <3> HIDE DEF limit, next, whole, moved, remaining
    <3> QED
      BY <1>5
  <2> QED
    BY <2>1
<1>13. /\ DOMAIN whole = DOMAIN walk
       /\ whole.l = CrossedL(walk) /\ whole.tick = CrossedTick(walk)
  BY <1>6 DEF Crossed, CrossedL, CrossedTick
<1>14. DOMAIN base = {"p", "l", "tick", "remaining", "result", "fees"}
  BY <1>6, <1>12, <1>13
<1>15. walk' = [base EXCEPT !.p = s.price, !.remaining = remaining,
                           !.result = result, !.fees = @ + s.fee]
  BY <1>5
<1> HIDE DEF moved, base, whole
<1>16. /\ walk'.p = s.price /\ walk'.remaining = remaining /\ walk'.result = result
       /\ walk'.l = base.l /\ walk'.tick = base.tick
  BY <1>14, <1>15
<1>17. outcome' = "none" => Arrived(s, walk, walk')
  BY <1>5, <1>12, <1>13, <1>16 DEF Arrived
<1>18. remaining = walk.remaining - Taken(s, request.input)
       /\ result = walk.result + Given(s, request.input)
  BY DEF Taken, Given
<1> HIDE DEF remaining, result, limit, next
<1>19. outcome' = "quoted" <=> walk'.remaining = 0
  BY <1>5, <1>16
<1>20. walk'.remaining # 0 /\ s.price = SqrtAtTick(next) /\ s.price # limit => outcome' = "none"
  BY <1>5, <1>16
<1> QED
  BY <1>2, <1>4, <1>6, <1>8, <1>9, <1>11, <1>16, <1>17, <1>18, <1>19, <1>20 DEF next, limit

\* v is followed by w: the step of the request from v reaches its tick and leaves something.
Passed(v, w, req) ==
  LET s == StepOf(v, req)
  IN  /\ ~Partial(v.p, TargetOf(v.tick), v.l, v.remaining, req.fee, req.input, request.zero)
      /\ Arrived(s, v, w)
      /\ w.remaining = v.remaining - Taken(s, req.input) /\ w.remaining # 0
      /\ w.result = v.result + Given(s, req.input)

\* The step of the request from v is the last: it leaves nothing, and the result is this.
Last(v, result, req) ==
  LET s == StepOf(v, req)
  IN  /\ Taken(s, req.input) = v.remaining
      /\ result \in Nat /\ result = v.result + Given(s, req.input)
      /\ ~req.input => v.result < result

\* The request's walk so far, step by step: h[0], ..., h[k].
Trodden(k, h, req) ==
  /\ h[0] = Start(req.amount)
  /\ \A i \in 0..k : Counts(h[i]) /\ h[i].remaining # 0 /\ h[i].result <= h[k].result
  /\ \A i \in 0..(k - 1) : Passed(h[i], h[i + 1], req)

-----------------------------------------------------------------------------
\* All of this depends on the captured state and the direction, which no step changes.
LEMMA SameNext ==
  ASSUME pool' = pool, request'.zero = request.zero, NEW CONSTANT t
  PROVE  NextTick(t)' = NextTick(t)
  BY DEF NextTick

\* Next tick, target and limit are those of the state.
LEMMA SameLeg ==
  ASSUME pool' = pool, request'.zero = request.zero, NEW CONSTANT t
  PROVE  NextOf(t)' = NextOf(t) /\ TargetOf(t)' = TargetOf(t) /\ Limit' = Limit
<1>1. NextTick(t)' = NextTick(t)
  BY SameNext
<1>2. NextOf(t)' = NextOf(t)
  BY <1>1 DEF NextOf
<1>3. Limit' = Limit
  BY DEF Limit
<1> QED
  BY <1>2, <1>3 DEF TargetOf

\* So are the steps.
LEMMA SameStep ==
  ASSUME pool' = pool, request'.zero = request.zero, NEW CONSTANT v, NEW CONSTANT w, NEW CONSTANT req
  PROVE  StepOf(v, req)' = StepOf(v, req) /\ (Passed(v, w, req)' <=> Passed(v, w, req))
<1> DEFINE t == v.tick
<1>1. NextOf(t)' = NextOf(t) /\ TargetOf(t)' = TargetOf(t) /\ Limit' = Limit
  BY SameLeg
<1>2. NextTick(t)' = NextTick(t)
  BY SameNext
<1>3. StepOf(v, req)' = StepOf(v, req)
  BY <1>1 DEF StepOf
<1>4. CrossedL(v)' = CrossedL(v) /\ CrossedTick(v)' = CrossedTick(v)
  BY <1>1, <1>2 DEF CrossedL, CrossedTick
<1> DEFINE s == StepOf(v, req)
<1>5. Arrived(s, v, w)' <=> Arrived(s, v, w)
  BY <1>1, <1>3, <1>4 DEF Arrived
<1>6. Passed(v, w, req)' <=> Passed(v, w, req)
  BY <1>1, <1>3, <1>5 DEF Passed
<1> QED
  BY <1>3, <1>6

\* So is the last step.
LEMMA SameLast ==
  ASSUME pool' = pool, request'.zero = request.zero,
         NEW CONSTANT v, NEW CONSTANT result, NEW CONSTANT req
  PROVE  Last(v, result, req)' <=> Last(v, result, req)
<1>1. StepOf(v, req)' = StepOf(v, req)
  BY SameStep
<1> QED
  BY <1>1 DEF Last

\* And so is the way of a walk.
LEMMA SameTrodden ==
  ASSUME pool' = pool, request'.zero = request.zero,
         NEW CONSTANT k, NEW CONSTANT h, NEW CONSTANT req
  PROVE  Trodden(k, h, req)' <=> Trodden(k, h, req)
<1>1. Start(req.amount)' = Start(req.amount)
  BY DEF Start
<1>2. \A i \in 0..(k - 1) : Passed(h[i], h[i + 1], req)' <=> Passed(h[i], h[i + 1], req)
  <2> TAKE i \in 0..(k - 1)
  <2> QED
    BY SameStep
<1> QED
  BY <1>1, <1>2 DEF Trodden, Counts

\* What a step takes and gives.
LEMMA StepGives ==
  ASSUME NEW v, NEW req, Fits(v), Counts(v), req.fee \in 0..(FeeUnit - 1), req.input \in BOOLEAN,
         NEW s, s = StepOf(v, req)
  PROVE  /\ s.in \in Nat /\ s.out \in Nat /\ s.fee \in Nat
         /\ Taken(s, req.input) \in Nat /\ Taken(s, req.input) <= v.remaining
         /\ Given(s, req.input) \in Nat
         /\ Partial(v.p, TargetOf(v.tick), v.l, v.remaining, req.fee, req.input, request.zero) =>
              Taken(s, req.input) = v.remaining
         /\ ~req.input /\ Taken(s, req.input) # 0 => Given(s, req.input) # 0
<1> DEFINE version == pool.version
           p == v.p
           target == TargetOf(v.tick)
           l == v.l
           zero == request.zero
           r == v.remaining
           fee == req.fee
           input == req.input
           partial == Partial(p, target, l, r, fee, input, zero)
           si == s.in
           so == s.out
           sf == s.fee
<1>1. /\ StepAt(version, p, target, l, zero) /\ r \in Nat /\ fee \in 0..(FeeUnit - 1)
      /\ input \in BOOLEAN /\ s = CalculateStep(version, p, target, l, r, fee, input, zero)
  BY DEF Fits, Counts, StepOf
<1> HIDE DEF version, p, target, l, zero, r, fee, input
<1>2. /\ s.in \in Nat /\ s.out \in Nat /\ s.fee \in Nat /\ Taken(s, input) <= r
      /\ (partial => /\ l # 0
                     /\ input => ShortIn(s, p, target, l, r, fee, zero)
                     /\ ~input => ShortOut(s, p, l, r, fee, zero))
  BY <1>1, StepEnds
<1>3. partial => Taken(s, input) = r
  <2>1. partial /\ input => s.in + s.fee = r
    BY <1>2 DEF ShortIn
  <2>2. partial /\ ~input => s.out = r
    BY <1>2 DEF ShortOut
  <2> HIDE DEF partial
  <2> QED
    BY <1>1, <2>1, <2>2, Zenon DEF Taken
<1>4. Taken(s, input) = (IF input THEN si + sf ELSE so) /\ Given(s, input) = (IF input THEN so ELSE si + sf)
  BY DEF Taken, Given
<1>5. si \in Nat /\ so \in Nat /\ sf \in Nat
  BY <1>2
<1>6. ~input /\ s.out # 0 => s.in # 0
  <2> SUFFICES ASSUME ~input, s.out # 0 PROVE s.in # 0
    OBVIOUS
  <2>1. input = FALSE
    BY <1>1
  <2>2. s = CalculateStep(version, p, target, l, r, fee, FALSE, zero)
    BY <1>1, <2>1
  <2> QED
    BY <1>1, <2>2, OutputCosts
<1>7. ~input /\ so # 0 => si # 0
  BY <1>6
<1> HIDE DEF si, so, sf
<1>8. Taken(s, input) \in Nat /\ Given(s, input) \in Nat
  BY <1>1, <1>4, <1>5
<1>9. ~input /\ Taken(s, input) # 0 => Given(s, input) # 0
  BY <1>1, <1>4, <1>5, <1>7
<1> HIDE DEF partial
<1>10. /\ s.in \in Nat /\ s.out \in Nat /\ s.fee \in Nat
       /\ Taken(s, input) \in Nat /\ Taken(s, input) <= r
       /\ Given(s, input) \in Nat
       /\ (partial => Taken(s, input) = r)
       /\ (~input /\ Taken(s, input) # 0 => Given(s, input) # 0)
  BY <1>2, <1>3, <1>8, <1>9
<1> QED
  BY <1>10, Zenon DEF partial, p, target, l, zero, r, fee, input

\* One step more.
LEMMA TroddenOn ==
  ASSUME NEW k \in Nat, NEW h, NEW req, Trodden(k, h, req),
         NEW w, Counts(w), w.remaining # 0, Passed(h[k], w, req), h[k].result <= w.result
  PROVE  \E g : Trodden(k + 1, g, req) /\ g[k + 1] = w
<1> DEFINE g == [i \in 0..(k + 1) |-> IF i = k + 1 THEN w ELSE h[i]]
<1>1. g[k + 1] = w /\ \A i \in 0..k : g[i] = h[i]
  BY DEF g
<1> HIDE DEF g
<1>2. /\ h[0] = Start(req.amount)
      /\ \A i \in 0..k : Counts(h[i]) /\ h[i].remaining # 0 /\ h[i].result <= h[k].result
      /\ \A i \in 0..(k - 1) : Passed(h[i], h[i + 1], req)
  BY DEF Trodden
<1>3. g[0] = Start(req.amount)
  BY <1>1, <1>2
<1>4. ASSUME NEW i \in 0..(k + 1)
      PROVE  Counts(g[i]) /\ g[i].remaining # 0 /\ g[i].result <= g[k + 1].result
  <2>1. CASE i = k + 1
    <3>1. w.result \in Nat
      BY DEF Counts
    <3> QED
      BY <1>1, <2>1, <3>1
  <2>2. CASE i # k + 1
    <3>1. i \in 0..k /\ k \in 0..k
      BY <2>2
    <3>2. /\ g[i] = h[i] /\ Counts(h[i]) /\ h[i].remaining # 0 /\ h[i].result <= h[k].result
          /\ Counts(h[k])
      BY <1>1, <1>2, <3>1
    <3> DEFINE a == h[i].result
               b == h[k].result
               c == w.result
    <3>3. a \in Nat /\ b \in Nat /\ c \in Nat /\ a <= b /\ b <= c
      BY <3>2 DEF Counts
    <3> HIDE DEF a, b, c
    <3>4. a <= c
      BY <3>3
    <3> QED
      BY <1>1, <3>2, <3>4 DEF a, c
  <2> QED
    BY <2>1, <2>2
<1>5. ASSUME NEW i \in 0..((k + 1) - 1) PROVE Passed(g[i], g[i + 1], req)
  <2>1. i \in 0..k /\ g[i] = h[i]
    BY <1>1
  <2>2. CASE i = k
    BY <1>1, <2>1, <2>2
  <2>3. CASE i # k
    <3>1. i \in 0..(k - 1) /\ i + 1 \in 0..k
      BY <2>1, <2>3
    <3> QED
      BY <1>1, <1>2, <2>1, <3>1
  <2> QED
    BY <2>2, <2>3
<1>6. Trodden(k + 1, g, req)
  BY <1>3, <1>4, <1>5 DEF Trodden
<1> QED
  BY <1>1, <1>6

\* The second walk is where the first one was at v.
Along(v) ==
  /\ walk.p = v.p /\ walk.l = v.l /\ walk.tick = v.tick
  /\ IF before.kind = "gross"
     THEN IF request.input THEN walk.result = v.result /\ v.remaining <= walk.remaining
          ELSE walk.remaining = v.remaining /\ walk.result <= v.result
     ELSE /\ walk.remaining + v.result = before.result
          /\ walk.result + v.remaining = before.amount

\* A step of the walk and one of the request from v, when they agree in price, end at the
\* same spot.
LEMMA SamePlace ==
  ASSUME WalkInv, AmountsInv, Iterate, NEW CONSTANT v, NEW CONSTANT w,
         walk.l = v.l, walk.tick = v.tick,
         NEW s, NEW u, u = StepOf(walk, request), u.price = s.price, Arrived(s, v, w),
         walk'.remaining # 0
  PROVE  outcome' = "none" /\ walk'.p = w.p /\ walk'.l = w.l /\ walk'.tick = w.tick
<1>1. s.price = SqrtAtTick(NextOf(v.tick)) /\ s.price # Limit
      /\ w.p = s.price /\ w.l = CrossedL(v) /\ w.tick = CrossedTick(v)
  BY DEF Arrived
<1>2. u.price = SqrtAtTick(NextOf(walk.tick)) /\ u.price # Limit
  BY <1>1
<1>3. outcome' = "none" /\ Arrived(u, walk, walk')
  BY <1>2, IterateStep
<1>4. CrossedL(v) = CrossedL(walk) /\ CrossedTick(v) = CrossedTick(walk)
  BY DEF CrossedL, CrossedTick
<1> QED
  BY <1>1, <1>3, <1>4 DEF Arrived

\* The walk without fee follows that of an exact input, with no less left, and gives no less.
LEMMA GrossInputFollows ==
  ASSUME WalkInv, AmountsInv, Iterate, before.kind = "gross", request.input = TRUE, request.fee = 0,
         NEW CONSTANT req, req.input = TRUE, req.fee \in 0..(FeeUnit - 1),
         NEW CONSTANT v, Counts(v), Along(v)
  PROVE  /\ \A w : Passed(v, w, req) => outcome' = "none" /\ Along(w)'
         /\ Last(v, before.result, req) => before.result <= walk'.result
<1> DEFINE s == StepOf(v, req)
           u == StepOf(walk, request)
           version == pool.version
           p == walk.p
           target == TargetOf(walk.tick)
           l == walk.l
           zero == request.zero
           r == v.remaining
           more == walk.remaining
           fee == req.fee
<1>1. /\ walk.p = v.p /\ walk.l = v.l /\ walk.tick = v.tick
      /\ walk.result = v.result /\ v.remaining <= walk.remaining
  BY DEF Along
<1>2. /\ Fits(walk) /\ Counts(walk) /\ before' = before /\ request' = request
      /\ walk'.remaining = walk.remaining - Taken(u, TRUE)
      /\ walk'.result = walk.result + Given(u, TRUE)
  BY IterateStep
<1>3. Fits(v)
  BY <1>1, <1>2 DEF Fits
<1>4. s.in \in Nat /\ s.out \in Nat /\ s.fee \in Nat /\ s.in + s.fee <= v.remaining
  BY <1>3, StepGives DEF Taken
<1>5. 0 \in 0..(FeeUnit - 1) /\ TRUE \in BOOLEAN
  BY WalkAssumption
<1>6. u.in \in Nat /\ u.out \in Nat /\ u.fee \in Nat
  BY <1>2, <1>5, StepGives
<1>7. /\ StepAt(version, p, target, l, zero) /\ r \in Nat /\ more \in Nat /\ r <= more
      /\ fee \in 0..(FeeUnit - 1)
      /\ s = CalculateStep(version, p, target, l, r, fee, TRUE, zero)
      /\ u = CalculateStep(version, p, target, l, more, 0, TRUE, zero)
  BY <1>1, <1>2 DEF Fits, Counts, StepOf
<1> DEFINE partial == Partial(p, target, l, r, fee, TRUE, zero)
<1>8. /\ s.out <= u.out
      /\ (~partial => u.price = s.price /\ u.out = s.out /\ u.in + u.fee <= s.in + s.fee)
  <2>1. BuysNoLess(s, u, partial)
    <3> HIDE DEF s, u, version, p, target, l, zero, r, more, fee
    <3> QED
      BY <1>7, InputWithoutFee
  <2> HIDE DEF partial
  <2> QED
    BY <2>1 DEF BuysNoLess, CostsNoMore
<1>9. ASSUME NEW CONSTANT w, Passed(v, w, req) PROVE outcome' = "none" /\ Along(w)'
  <2>1. /\ ~Partial(v.p, TargetOf(v.tick), v.l, v.remaining, req.fee, req.input, request.zero)
        /\ Arrived(s, v, w)
        /\ w.remaining = v.remaining - (s.in + s.fee) /\ w.remaining # 0
        /\ w.result = v.result + s.out
    BY <1>9 DEF Passed, Taken, Given
  <2>2. ~partial
    BY <1>1, <2>1
  <2>3. u.price = s.price /\ u.out = s.out /\ u.in + u.fee <= s.in + s.fee
    BY <1>8, <2>2
  <2>4. walk'.remaining # 0 /\ w.remaining <= walk'.remaining /\ walk'.result = w.result
    <3> DEFINE si == s.in
               so == s.out
               sf == s.fee
               ui == u.in
               uo == u.out
               uf == u.fee
               left == walk'.remaining
               wr == w.remaining
               done == walk'.result
               wd == w.result
               vd == v.result
               had == walk.result
    <3>1. /\ left = more - (ui + uf) /\ done = had + uo
          /\ wr = r - (si + sf) /\ wr # 0 /\ wd = vd + so /\ had = vd
          /\ ui + uf <= si + sf /\ uo = so /\ si + sf <= r /\ r <= more
          /\ si \in Nat /\ sf \in Nat /\ ui \in Nat /\ uf \in Nat /\ r \in Nat /\ more \in Nat
      BY <1>1, <1>2, <1>4, <1>6, <1>7, <2>1, <2>3 DEF Taken, Given
    <3> HIDE DEF si, so, sf, ui, uo, uf, left, wr, done, wd, vd, had, r, more
    <3>2. left # 0 /\ wr <= left /\ done = wd
      BY <3>1
    <3> QED
      BY <3>2 DEF left, wr, done, wd
  <2>5. outcome' = "none" /\ walk'.p = w.p /\ walk'.l = w.l /\ walk'.tick = w.tick
    <3> HIDE DEF s, u
    <3>1. u = StepOf(walk, request)
      BY DEF u
    <3> QED
      BY <1>1, <2>1, <2>3, <2>4, <3>1, SamePlace
  <2>6. before'.kind = "gross" /\ request'.input
    BY <1>2
  <2> QED
    BY <2>4, <2>5, <2>6 DEF Along
<1>10. ASSUME Last(v, before.result, req) PROVE before.result <= walk'.result
  <2>1. before.result = v.result + s.out
    BY <1>10 DEF Last, Given
  <2> DEFINE so == s.out
             uo == u.out
             done == walk'.result
             vd == v.result
             all == before.result
  <2>2. all = vd + so /\ done = vd + uo /\ so <= uo /\ so \in Nat /\ uo \in Nat /\ vd \in Nat
    BY <1>1, <1>2, <1>4, <1>6, <1>8, <2>1 DEF Given, Counts
  <2> HIDE DEF so, uo, done, vd, all
  <2>3. all <= done
    BY <2>2
  <2> QED
    BY <2>3 DEF all, done
<1> QED
  BY <1>9, <1>10

\* The walk without fee follows that of an exact output, with the same left, and costs no more.
LEMMA GrossOutputFollows ==
  ASSUME WalkInv, AmountsInv, Iterate, before.kind = "gross", request.input = FALSE, request.fee = 0,
         NEW CONSTANT req, req.input = FALSE, req.fee \in 0..(FeeUnit - 1),
         NEW CONSTANT v, Counts(v), Along(v)
  PROVE  /\ \A w : Passed(v, w, req) => outcome' = "none" /\ Along(w)'
         /\ Last(v, before.result, req) => outcome' = "quoted" /\ walk'.result <= before.result
<1> DEFINE s == StepOf(v, req)
           u == StepOf(walk, request)
           version == pool.version
           p == walk.p
           target == TargetOf(walk.tick)
           l == walk.l
           zero == request.zero
           r == walk.remaining
           fee == req.fee
<1>1. /\ walk.p = v.p /\ walk.l = v.l /\ walk.tick = v.tick
      /\ walk.remaining = v.remaining /\ walk.result <= v.result
  BY DEF Along
<1>2. /\ Fits(walk) /\ Counts(walk) /\ before' = before /\ request' = request
      /\ walk'.remaining = walk.remaining - u.out
      /\ walk'.result = walk.result + (u.in + u.fee)
      /\ (outcome' = "quoted" <=> walk'.remaining = 0)
  BY IterateStep DEF Taken, Given
<1>3. Fits(v)
  BY <1>1, <1>2 DEF Fits
<1>4. s.in \in Nat /\ s.out \in Nat /\ s.fee \in Nat
  BY <1>3, StepGives
<1>5. 0 \in 0..(FeeUnit - 1) /\ FALSE \in BOOLEAN
  BY WalkAssumption
<1>6. u.in \in Nat /\ u.out \in Nat /\ u.fee \in Nat
  BY <1>2, <1>5, StepGives
<1>7. /\ StepAt(version, p, target, l, zero) /\ r \in Nat
      /\ fee \in 0..(FeeUnit - 1)
      /\ s = CalculateStep(version, p, target, l, r, fee, FALSE, zero)
      /\ u = CalculateStep(version, p, target, l, r, 0, FALSE, zero)
  BY <1>1, <1>2 DEF Fits, Counts, StepOf
<1>8. u.price = s.price /\ u.out = s.out /\ u.in + u.fee <= s.in + s.fee
  <2>1. CostsNoMore(s, u)
    <3> HIDE DEF s, u, version, p, target, l, zero, r, fee
    <3> QED
      BY <1>7, OutputWithoutFee
  <2> QED
    BY <2>1 DEF CostsNoMore
<1>9. ASSUME NEW d, d = v.result + (s.in + s.fee) PROVE walk'.result <= d
  <2> DEFINE si == s.in
             sf == s.fee
             ui == u.in
             uf == u.fee
             done == walk'.result
             vd == v.result
             had == walk.result
  <2>1. /\ done = had + (ui + uf) /\ d = vd + (si + sf) /\ had <= vd /\ had \in Nat /\ vd \in Nat
        /\ ui + uf <= si + sf /\ si \in Nat /\ sf \in Nat /\ ui \in Nat /\ uf \in Nat
    BY <1>1, <1>2, <1>4, <1>6, <1>8, <1>9 DEF Counts
  <2> HIDE DEF si, sf, ui, uf, done, vd, had
  <2>2. done <= d
    BY <2>1
  <2> QED
    BY <2>2 DEF done
<1>10. ASSUME NEW CONSTANT w, Passed(v, w, req) PROVE outcome' = "none" /\ Along(w)'
  <2>1. /\ Arrived(s, v, w)
        /\ w.remaining = v.remaining - s.out /\ w.remaining # 0
        /\ w.result = v.result + (s.in + s.fee)
    BY <1>10 DEF Passed, Taken, Given
  <2>2. walk'.remaining = w.remaining /\ walk'.remaining # 0
    BY <1>1, <1>2, <1>8, <2>1
  <2>3. walk'.result <= w.result
    BY <1>9, <2>1
  <2>4. outcome' = "none" /\ walk'.p = w.p /\ walk'.l = w.l /\ walk'.tick = w.tick
    <3> HIDE DEF s, u
    <3>1. u = StepOf(walk, request)
      BY DEF u
    <3> QED
      BY <1>1, <1>8, <2>1, <2>2, <3>1, SamePlace
  <2>5. before'.kind = "gross" /\ request'.input = FALSE
    BY <1>2
  <2> QED
    BY <2>2, <2>3, <2>4, <2>5 DEF Along
<1>11. ASSUME Last(v, before.result, req) PROVE outcome' = "quoted" /\ walk'.result <= before.result
  <2>1. before.result = v.result + (s.in + s.fee) /\ s.out = v.remaining
    BY <1>11 DEF Last, Given, Taken
  <2>2. walk'.result <= before.result
    BY <1>9, <2>1
  <2>3. walk'.remaining = r - r
    BY <1>1, <1>2, <1>8, <2>1
  <2>4. walk'.remaining = 0
    <3> HIDE DEF r
    <3> QED
      BY <1>7, <2>3
  <2> QED
    BY <1>2, <2>2, <2>4
<1> QED
  BY <1>10, <1>11

\* No product of the contract's arithmetic overflows 256 bits while the cost is paid.
ProductsFit ==
  outcome = "none" /\ before.kind = "inverse" /\ request.zero =>
     walk.l * Q + walk.remaining * walk.p <= MaxUint

\* The cost of an exact output, paid, follows its walk, and buys it.
LEMMA InverseFollows ==
  ASSUME WalkInv, AmountsInv, Iterate, ProductsFit, before.kind = "inverse", request.input = TRUE,
         NEW CONSTANT req, req.input = FALSE, req.fee = request.fee,
         NEW CONSTANT v, Counts(v), Along(v)
  PROVE  /\ \A w : Passed(v, w, req) /\ w.result < before.result => outcome' = "none" /\ Along(w)'
         /\ Last(v, before.result, req) => outcome' = "quoted" /\ before.amount <= walk'.result
<1> DEFINE s == StepOf(v, req)
           u == StepOf(walk, request)
           version == pool.version
           p == walk.p
           target == TargetOf(walk.tick)
           l == walk.l
           zero == request.zero
           r == v.remaining
           paid == walk.remaining
           fee == request.fee
           si == s.in
           so == s.out
           sf == s.fee
           ui == u.in
           uo == u.out
           uf == u.fee
           left == walk'.remaining
           done == walk'.result
           had == walk.result
           vd == v.result
           cost == before.result
           all == before.amount
<1>1. /\ walk.p = v.p /\ walk.l = v.l /\ walk.tick = v.tick
      /\ paid + vd = cost /\ had + r = all
  BY DEF Along
<1>2. /\ Fits(walk) /\ Counts(walk) /\ before' = before /\ request' = request
      /\ outcome = "none" /\ request.fee \in 0..(FeeUnit - 1)
      /\ left = paid - (ui + uf) /\ done = had + uo
      /\ (outcome' = "quoted" <=> left = 0)
  BY IterateStep DEF Taken, Given
<1>3. Fits(v)
  BY <1>1, <1>2 DEF Fits
<1>4. si \in Nat /\ so \in Nat /\ sf \in Nat
  BY <1>2, <1>3, StepGives
<1>6. ui \in Nat /\ uo \in Nat /\ uf \in Nat
  BY <1>2, StepGives
<1>7. /\ StepAt(version, p, target, l, zero) /\ r \in Nat /\ paid \in Nat
      /\ fee \in 0..(FeeUnit - 1)
      /\ s = CalculateStep(version, p, target, l, r, fee, FALSE, zero)
      /\ u = CalculateStep(version, p, target, l, paid, fee, TRUE, zero)
      /\ (zero => l * Q + paid * p <= MaxUint)
      /\ had \in Nat /\ vd \in Nat
  BY <1>1, <1>2 DEF Fits, Counts, StepOf, ProductsFit
<1> DEFINE partial == Partial(p, target, l, r, fee, FALSE, zero)
<1>8. ASSUME s.in + s.fee <= paid
      PROVE  /\ ~partial => u.price = s.price /\ u.out = s.out /\ u.in + u.fee = s.in + s.fee
             /\ s.out = r /\ paid = s.in + s.fee => r <= u.out /\ u.in + u.fee = paid
  <2>1. BuysBack(s, u, r, paid, partial)
    <3> HIDE DEF s, u, version, p, target, l, zero, r, paid, fee
    <3> QED
      BY <1>7, <1>8, CostBuys
  <2> HIDE DEF partial
  <2> QED
    BY <2>1 DEF BuysBack
<1>10. ASSUME NEW CONSTANT w, Passed(v, w, req), w.result < before.result
       PROVE  outcome' = "none" /\ Along(w)'
  <2> DEFINE wr == w.remaining
             wd == w.result
  <2>1. /\ Arrived(s, v, w)
        /\ wr = r - so /\ wr # 0 /\ wd = vd + (si + sf) /\ wd < cost
        /\ ~Partial(v.p, TargetOf(v.tick), v.l, v.remaining, req.fee, req.input, request.zero)
    BY <1>10 DEF Passed, Taken, Given
  <2>2. ~partial
    BY <1>1, <2>1
  <2>3. si + sf <= paid
    <3> HIDE DEF si, sf, vd, wd, paid, cost
    <3> QED
      BY <1>1, <1>4, <1>7, <2>1
  <2>4. u.price = s.price /\ uo = so /\ ui + uf = si + sf
    <3> HIDE DEF partial
    <3> QED
      BY <1>8, <2>2, <2>3
  <2>5. left # 0 /\ left + wd = cost /\ done + wr = all
    <3> HIDE DEF si, so, sf, ui, uo, uf, left, done, had, vd, cost, all, wr, wd, r, paid
    <3> QED
      BY <1>1, <1>2, <1>4, <1>6, <1>7, <2>1, <2>4
  <2>6. outcome' = "none" /\ walk'.p = w.p /\ walk'.l = w.l /\ walk'.tick = w.tick
    <3> HIDE DEF s, u
    <3>1. u = StepOf(walk, request) /\ walk'.remaining # 0
      BY <2>5 DEF u
    <3> QED
      BY <1>1, <2>1, <2>4, <3>1, SamePlace
  <2>7. before'.kind = "inverse"
    BY <1>2
  <2>8. walk'.remaining + w.result = before'.result /\ walk'.result + w.remaining = before'.amount
    BY <1>2, <2>5
  <2> QED
    BY <2>6, <2>7, <2>8 DEF Along
<1>11. ASSUME Last(v, before.result, req) PROVE outcome' = "quoted" /\ before.amount <= walk'.result
  <2>1. cost = vd + (si + sf) /\ so = r
    BY <1>11 DEF Last, Given, Taken
  <2>2. si + sf <= paid /\ paid = si + sf
    <3> HIDE DEF si, sf, vd, paid, cost
    <3> QED
      BY <1>1, <1>4, <1>7, <2>1
  <2>3. r <= uo /\ ui + uf = paid
    <3> HIDE DEF partial, r, paid
    <3> QED
      BY <1>8, <2>1, <2>2
  <2>4. left = 0 /\ all <= done
    <3> HIDE DEF si, so, sf, ui, uo, uf, left, done, had, vd, cost, all, r, paid
    <3> QED
      BY <1>1, <1>2, <1>4, <1>6, <1>7, <2>3
  <2> QED
    BY <1>2, <2>4
<1> QED
  BY <1>10, <1>11

-----------------------------------------------------------------------------
(* The second walk follows the first: the invariant of RoundsForPool. *)

\* The first walk, while it lasts, is at the end of a way of its own; quoted, it made the last step.
FirstAt(k, h) ==
  /\ Trodden(k, h, request)
  /\ outcome = "none" => h[k] = walk
  /\ outcome = "quoted" => Last(h[k], walk.result, request)
FirstWalk == before.kind = "none" => \E h : \E k \in Nat : FirstAt(k, h)

\* What the second request has of the first.
Pairs(kind, req) ==
  /\ req.fee \in 0..(FeeUnit - 1) /\ req.input \in BOOLEAN
  /\ kind = "gross" => request.input = req.input /\ request.fee = 0
  /\ kind = "inverse" => req.input = FALSE /\ request.input = TRUE /\ req.fee = request.fee

\* The second walk follows the first one's way, or has all it needs; ended, it rounds for the pool.
SecondAt(kind, req, k, h) ==
  /\ Pairs(kind, req) /\ Trodden(k, h, req) /\ Last(h[k], before.result, req)
  /\ outcome = "none" =>
        \/ \E i \in 0..k : Along(h[i])
        \/ kind = "gross" /\ request.input = TRUE /\ before.result <= walk.result
  /\ outcome # "none" => RoundsForPool
SecondWalk(kind) == before.kind = kind => \E req, h : \E k \in Nat : SecondAt(kind, req, k, h)

-----------------------------------------------------------------------------
\* A walk starts at the start of its way.
LEMMA InitFirst == WalkInit => FirstWalk
<1> SUFFICES ASSUME WalkInit PROVE FirstWalk
  OBVIOUS
<1> DEFINE h == [i \in {0} |-> walk]
<1>1. /\ walk = Start(request.amount) /\ outcome = "none" /\ request.amount \in QuoteAmounts
  BY DEF WalkInit
<1>2. walk.remaining = request.amount /\ walk.result = 0
  BY <1>1 DEF Start
<1>3. request.amount \in Nat /\ request.amount # 0
  BY <1>1, WalkAssumption
<1>4. Counts(walk) /\ walk.remaining # 0
  BY <1>2, <1>3 DEF Counts
<1>5. h[0] = walk
  OBVIOUS
<1> HIDE DEF h
<1>6. \A i \in 0..0 : Counts(h[i]) /\ h[i].remaining # 0 /\ h[i].result <= h[0].result
  <2> SUFFICES ASSUME NEW i \in 0..0
               PROVE  Counts(h[i]) /\ h[i].remaining # 0 /\ h[i].result <= h[0].result
    OBVIOUS
  <2>1. i = 0
    OBVIOUS
  <2> QED
    BY <1>2, <1>4, <1>5, <2>1
<1>7. 0..(0 - 1) = {}
  OBVIOUS
<1>8. Trodden(0, h, request)
  BY <1>1, <1>5, <1>6, <1>7 DEF Trodden
<1>9. FirstAt(0, h)
  BY <1>1, <1>5, <1>8 DEF FirstAt
<1> QED
  BY <1>9 DEF FirstWalk

\* A step of the first walk is one step more of its way, or its last.
LEMMA IterateFirst ==
  ASSUME WalkInv, AmountsInv, FirstWalk, Iterate
  PROVE  FirstWalk'
<1> SUFFICES ASSUME before'.kind = "none" PROVE \E h, k : k \in Nat /\ FirstAt(k, h)'
  BY DEF FirstWalk
<1> DEFINE s == StepOf(walk, request)
<1>1. /\ Fits(walk) /\ Counts(walk) /\ outcome = "none"
      /\ request.fee \in 0..(FeeUnit - 1) /\ request.input \in BOOLEAN
      /\ pool' = pool /\ request' = request /\ before' = before
      /\ walk'.remaining = walk.remaining - Taken(s, request.input)
      /\ walk'.result = walk.result + Given(s, request.input)
      /\ outcome' \in {"none", "quoted", "ends"}
      /\ (outcome' = "quoted" <=> walk'.remaining = 0)
      /\ (outcome' = "none" => Arrived(s, walk, walk'))
  BY IterateStep
<1>2. PICK h, k : k \in Nat /\ FirstAt(k, h)
  BY <1>1 DEF FirstWalk
<1>3. Trodden(k, h, request) /\ h[k] = walk
  BY <1>1, <1>2 DEF FirstAt
<1>4. PICK req : req = request
  OBVIOUS
<1>5. PICK w : w = walk'
  OBVIOUS
<1>6. PICK v : v = walk
  OBVIOUS
<1>7. s = StepOf(v, req)
  BY <1>4, <1>6
<1>8. /\ Taken(s, req.input) \in Nat /\ Given(s, req.input) \in Nat
      /\ (Partial(v.p, TargetOf(v.tick), v.l, v.remaining, req.fee, req.input, request.zero) =>
            Taken(s, req.input) = v.remaining)
      /\ (~req.input /\ Taken(s, req.input) # 0 => Given(s, req.input) # 0)
  <2>1. Fits(v) /\ Counts(v) /\ req.fee \in 0..(FeeUnit - 1) /\ req.input \in BOOLEAN
    BY <1>1, <1>4, <1>6
  <2> HIDE DEF s
  <2> QED
    BY <1>7, <2>1, StepGives
<1>9. Trodden(k, h, req) /\ h[k] = v /\ v.remaining # 0
  <2>1. k \in 0..k
    BY <1>2
  <2> QED
    BY <1>3, <1>4, <1>6, <2>1 DEF Trodden
<1> DEFINE t == Taken(s, req.input)
           g == Given(s, req.input)
           vr == v.remaining
           vd == v.result
           wr == w.remaining
           wd == w.result
<1>10. /\ wr = vr - t /\ wd = vd + g /\ vr \in Nat /\ vr # 0 /\ vd \in Nat /\ t \in Nat /\ g \in Nat
       /\ wr \in Nat
  <2>1. Counted'
    BY IterateNumbers DEF AmountsInv
  <2>2. walk'.remaining \in 0..request.amount
    BY <1>1, <2>1 DEF Counted
  <2>3. walk'.remaining \in Nat
    <3>1. request.amount \in 0..MaxUint /\ MaxUint \in Nat
      BY WalkAssumption DEF AmountsInv, Asked, Requests
    <3> QED
      BY <2>2, <3>1
  <2> QED
    BY <1>1, <1>4, <1>5, <1>6, <1>8, <1>9, <2>3 DEF Counts
<1>11. CASE outcome' = "none"
  <2>1. wr # 0
    BY <1>1, <1>5, <1>11
  <2>2. t # vr /\ vd <= wd /\ wd \in Nat
    <3> HIDE DEF t, g, vr, vd, wr, wd
    <3> QED
      BY <1>10, <2>1
  <2>3. Arrived(s, v, w)
    BY <1>1, <1>5, <1>6, <1>11
  <2>4. Passed(v, w, req)
    <3> HIDE DEF s
    <3> QED
      BY <1>7, <1>8, <1>10, <2>1, <2>2, <2>3 DEF Passed
  <2>5. Counts(w)
    BY <1>10, <2>2 DEF Counts
  <2>6. PICK f : Trodden(k + 1, f, req) /\ f[k + 1] = w
    <3> HIDE DEF s, t, g
    <3> QED
      BY <1>2, <1>9, <2>1, <2>2, <2>4, <2>5, TroddenOn
  <2>7. Trodden(k + 1, f, req)'
    BY <1>1, <2>6, SameTrodden
  <2>8. FirstAt(k + 1, f)'
    BY <1>1, <1>4, <1>5, <1>11, <2>6, <2>7 DEF FirstAt
  <2>9. k + 1 \in Nat
    BY <1>2
  <2> QED
    BY <2>8, <2>9
<1>12. CASE outcome' = "quoted"
  <2>1. wr = 0
    BY <1>1, <1>5, <1>12
  <2>2. t = vr /\ wd \in Nat /\ (g # 0 => vd < wd) /\ t # 0
    <3> HIDE DEF t, g, vr, vd, wr, wd
    <3> QED
      BY <1>10, <2>1
  <2>3. ~req.input => vd < wd
    BY <1>8, <2>2
  <2>4. Last(v, wd, req)
    <3> HIDE DEF s
    <3> QED
      BY <1>7, <1>10, <2>2, <2>3 DEF Last
  <2>5. Last(v, wd, req)' /\ Trodden(k, h, req)'
    BY <1>1, <1>9, <2>4, SameLast, SameTrodden
  <2>6. FirstAt(k, h)'
    BY <1>1, <1>4, <1>5, <1>9, <1>12, <2>5 DEF FirstAt
  <2> QED
    BY <1>2, <2>6
<1>13. CASE outcome' = "ends"
  <2>1. Trodden(k, h, req)'
    BY <1>1, <1>9, SameTrodden
  <2>2. FirstAt(k, h)'
    BY <1>1, <1>4, <1>13, <2>1 DEF FirstAt
  <2> QED
    BY <1>2, <2>2
<1> QED
  BY <1>1, <1>11, <1>12, <1>13

\* A second walk starts where the first one did.
LEMMA QuoteAgainSecond ==
  ASSUME WalkInv, AmountsInv, FirstWalk, QuoteGross \/ QuoteInverse, NEW kind \in {"gross", "inverse"}
  PROVE  FirstWalk' /\ SecondWalk(kind)'
<1>1. /\ outcome = "quoted" /\ before = NoQuote /\ outcome' = "none" /\ pool' = pool
      /\ before'.amount = request.amount /\ before'.result = walk.result
      /\ before'.kind \in {"gross", "inverse"}
  BY DEF QuoteGross, QuoteInverse
<1>2. /\ request \in Requests /\ request.fee \in 0..(FeeUnit - 1) /\ request.input \in BOOLEAN
  <2>1. request \in Requests
    BY DEF AmountsInv, Asked
  <2>2. Fees \subseteq 0..(FeeUnit - 1) /\ FeeUnit \in Nat \ {0}
    BY WalkAssumption
  <2>3. 0 \in 0..(FeeUnit - 1)
    BY <2>2
  <2> QED
    BY <2>1, <2>2, <2>3 DEF Requests
<1>3. request'.zero = request.zero
  BY <1>2 DEF QuoteGross, QuoteInverse, Requests
<1>4. FirstWalk'
  BY <1>1 DEF FirstWalk
<1>5. PICK h, k : k \in Nat /\ FirstAt(k, h)
  BY <1>1 DEF FirstWalk, NoQuote
<1>6. PICK req : req = request
  OBVIOUS
<1>7. Trodden(k, h, req) /\ Last(h[k], before'.result, req)
  BY <1>1, <1>5, <1>6 DEF FirstAt
<1>8. PICK result : result = before'.result
  OBVIOUS
<1>9. Trodden(k, h, req)' /\ Last(h[k], result, req)'
  <2>1. PICK v : v = h[k]
    OBVIOUS
  <2>2. Last(v, result, req)
    BY <1>7, <1>8, <2>1
  <2>3. Last(v, result, req)'
    BY <1>1, <1>3, <2>2, SameLast
  <2> QED
    BY <1>1, <1>3, <1>7, <2>1, <2>3, SameTrodden
<1>10. h[0] = Start(req.amount) /\ 0 \in 0..k
  BY <1>5, <1>7 DEF Trodden
<1>11. /\ h[0].p = pool.price /\ h[0].l = LiquidityAt(pool.positions, pool.tick)
       /\ h[0].tick = pool.tick /\ h[0].remaining = request.amount /\ h[0].result = 0
  BY <1>6, <1>10 DEF Start
<1>12. ASSUME QuoteGross PROVE Pairs("gross", req)' /\ Along(h[0])' /\ before'.kind = "gross"
  <2>1. /\ request'.input = request.input /\ request'.fee = 0
        /\ walk' = Start(request.amount) /\ before'.kind = "gross"
    BY <1>2, <1>12 DEF QuoteGross, Restart, Requests
  <2>2. Pairs("gross", req)'
    BY <1>2, <1>6, <2>1 DEF Pairs
  <2>3. /\ walk'.p = h[0].p /\ walk'.l = h[0].l /\ walk'.tick = h[0].tick
        /\ walk'.remaining = h[0].remaining /\ walk'.result = h[0].result
    BY <1>11, <2>1 DEF Start
  <2>4. h[0].remaining \in Nat
    BY <1>7, <1>10 DEF Trodden, Counts
  <2>5. h[0].remaining <= h[0].remaining /\ h[0].result <= h[0].result
    BY <1>11, <2>4
  <2>6. Along(h[0])'
    BY <2>1, <2>3, <2>5 DEF Along
  <2> QED
    BY <2>1, <2>2, <2>6
<1>13. ASSUME QuoteInverse PROVE Pairs("inverse", req)' /\ Along(h[0])' /\ before'.kind = "inverse"
  <2>1. /\ ~request.input /\ request'.input = TRUE /\ request'.fee = request.fee
        /\ walk' = Start(walk.result) /\ before'.kind = "inverse"
    BY <1>2, <1>13 DEF QuoteInverse, Restart, Requests
  <2>2. Pairs("inverse", req)'
    BY <1>2, <1>6, <2>1 DEF Pairs
  <2>3. /\ walk'.p = h[0].p /\ walk'.l = h[0].l /\ walk'.tick = h[0].tick
        /\ walk'.remaining = before'.result /\ walk'.result = 0
    BY <1>1, <1>11, <2>1 DEF Start
  <2>4. before'.result \in Nat /\ before'.amount = h[0].remaining /\ h[0].remaining \in Nat
    <3>1. before'.result \in Nat
      BY <1>7 DEF Last
    <3> QED
      BY <1>1, <1>7, <1>10, <1>11, <3>1 DEF Trodden, Counts
  <2>5. walk'.remaining + h[0].result = before'.result /\ walk'.result + h[0].remaining = before'.amount
    BY <1>11, <2>3, <2>4
  <2>6. Along(h[0])'
    BY <2>1, <2>3, <2>5 DEF Along
  <2> QED
    BY <2>1, <2>2, <2>6
<1>14. before'.kind = kind => Pairs(kind, req)' /\ Along(h[0])'
  BY <1>12, <1>13
<1>15. before'.kind = kind => SecondAt(kind, req, k, h)'
  BY <1>1, <1>8, <1>9, <1>10, <1>14 DEF SecondAt
<1> QED
  BY <1>4, <1>5, <1>15 DEF SecondWalk

\* The second walk without fee: every step follows the first walk, or has given enough.
LEMMA IterateGross ==
  ASSUME WalkInv, AmountsInv, SecondWalk("gross"), Iterate
  PROVE  SecondWalk("gross")'
<1> SUFFICES ASSUME before'.kind = "gross"
             PROVE  \E req, h, k : k \in Nat /\ SecondAt("gross", req, k, h)'
  BY DEF SecondWalk
<1> DEFINE u == StepOf(walk, request)
<1>1. /\ Fits(walk) /\ Counts(walk) /\ outcome = "none"
      /\ request.fee \in 0..(FeeUnit - 1) /\ request.input \in BOOLEAN
      /\ pool' = pool /\ request' = request /\ before' = before
      /\ walk'.result = walk.result + Given(u, request.input)
      /\ outcome' \in {"none", "quoted", "ends"}
  BY IterateStep
<1>2. PICK req, h, k : k \in Nat /\ SecondAt("gross", req, k, h)
  BY <1>1 DEF SecondWalk
<1>3. /\ req.fee \in 0..(FeeUnit - 1) /\ req.input \in BOOLEAN
      /\ request.input = req.input /\ request.fee = 0
      /\ Trodden(k, h, req) /\ Last(h[k], before.result, req)
      /\ \/ \E i \in 0..k : Along(h[i])
         \/ request.input = TRUE /\ before.result <= walk.result
  BY <1>1, <1>2 DEF SecondAt, Pairs
<1>4. Pairs("gross", req)'
  BY <1>1, <1>3 DEF Pairs
<1>5. Trodden(k, h, req)' /\ Last(h[k], before.result, req)'
  <2>1. PICK v, result : v = h[k] /\ result = before.result
    OBVIOUS
  <2>2. Last(v, result, req)'
    BY <1>1, <1>3, <2>1, SameLast
  <2>3. Last(h[k], before.result, req)'
    BY <1>1, <2>1, <2>2
  <2> QED
    BY <1>1, <1>3, <2>3, SameTrodden
<1>6. ASSUME request.input = TRUE, before.result <= walk'.result
      PROVE  SecondAt("gross", req, k, h)'
  <2>1. outcome' # "none" => RoundsForPool'
    BY <1>1, <1>6 DEF RoundsForPool
  <2> QED
    BY <1>1, <1>4, <1>5, <1>6, <2>1 DEF SecondAt
<1>7. ASSUME outcome' = "none", NEW j \in 0..k, Along(h[j])'
      PROVE  SecondAt("gross", req, k, h)'
  BY <1>1, <1>4, <1>5, <1>7 DEF SecondAt
<1>8. CASE request.input = TRUE /\ before.result <= walk.result
  <2>1. Given(u, request.input) \in Nat
    BY <1>1, StepGives
  <2> DEFINE done == walk'.result
             had == walk.result
             g == Given(u, request.input)
             all == before.result
  <2>2. done = had + g /\ g \in Nat /\ had \in Nat /\ all \in Nat /\ all <= had
    BY <1>1, <1>3, <1>8, <2>1 DEF Counts, Last
  <2> HIDE DEF done, had, g, all
  <2>3. all <= done
    BY <2>2
  <2> QED
    BY <1>2, <1>6, <1>8, <2>3 DEF all, done
<1>9. ASSUME NEW i \in 0..k, Along(h[i]) PROVE SecondAt("gross", req, k, h)'
  <2>1. PICK v : v = h[i]
    OBVIOUS
  <2>2. Counts(v) /\ Along(v)
    BY <1>3, <1>9, <2>1 DEF Trodden
  <2>3. CASE i = k
    <3>1. Last(v, before.result, req)
      BY <1>3, <2>1, <2>3
    <3>2. CASE request.input = TRUE
      <4>1. before.result <= walk'.result
        BY <1>1, <1>3, <2>2, <3>1, <3>2, GrossInputFollows
      <4> QED
        BY <1>6, <3>2, <4>1
    <3>3. CASE request.input = FALSE
      <4>1. outcome' = "quoted" /\ walk'.result <= before.result
        BY <1>1, <1>3, <2>2, <3>1, <3>3, GrossOutputFollows
      <4>2. RoundsForPool'
        BY <1>1, <3>3, <4>1 DEF RoundsForPool
      <4> QED
        BY <1>4, <1>5, <4>1, <4>2 DEF SecondAt
    <3> QED
      BY <1>1, <3>2, <3>3
  <2>4. CASE i # k
    <3>1. i \in 0..(k - 1) /\ i + 1 \in 0..k
      BY <1>2, <2>4
    <3>2. PICK w : w = h[i + 1]
      OBVIOUS
    <3>3. Passed(v, w, req)
      BY <1>3, <2>1, <3>1, <3>2 DEF Trodden
    <3>4. outcome' = "none" /\ Along(w)'
      <4>1. CASE request.input = TRUE
        BY <1>1, <1>3, <2>2, <3>3, <4>1, GrossInputFollows
      <4>2. CASE request.input = FALSE
        BY <1>1, <1>3, <2>2, <3>3, <4>2, GrossOutputFollows
      <4> QED
        BY <1>1, <4>1, <4>2
    <3>5. Along(h[i + 1])'
      BY <3>2, <3>4
    <3> QED
      BY <1>7, <3>1, <3>4, <3>5
  <2> QED
    BY <2>3, <2>4
<1> QED
  BY <1>2, <1>3, <1>8, <1>9

\* The second walk paying the cost: every step takes what the first walk's did, and the last
\* buys what was left.
LEMMA IterateInverse ==
  ASSUME WalkInv, AmountsInv, ProductsFit, SecondWalk("inverse"), Iterate
  PROVE  SecondWalk("inverse")'
<1> SUFFICES ASSUME before'.kind = "inverse"
             PROVE  \E req, h, k : k \in Nat /\ SecondAt("inverse", req, k, h)'
  BY DEF SecondWalk
<1>1. /\ outcome = "none" /\ request.fee \in 0..(FeeUnit - 1)
      /\ pool' = pool /\ request' = request /\ before' = before
  BY IterateStep
<1>2. PICK req, h, k : k \in Nat /\ SecondAt("inverse", req, k, h)
  BY <1>1 DEF SecondWalk
<1>3. /\ req.fee \in 0..(FeeUnit - 1) /\ req.input = FALSE
      /\ request.input = TRUE /\ req.fee = request.fee
      /\ Trodden(k, h, req) /\ Last(h[k], before.result, req)
      /\ \E i \in 0..k : Along(h[i])
  BY <1>1, <1>2 DEF SecondAt, Pairs
<1>4. Pairs("inverse", req)'
  BY <1>1, <1>3 DEF Pairs
<1>5. Trodden(k, h, req)' /\ Last(h[k], before.result, req)'
  <2>1. PICK v, result : v = h[k] /\ result = before.result
    OBVIOUS
  <2>2. Last(v, result, req)'
    BY <1>1, <1>3, <2>1, SameLast
  <2>3. Last(h[k], before.result, req)'
    BY <1>1, <2>1, <2>2
  <2> QED
    BY <1>1, <1>3, <2>3, SameTrodden
<1>6. PICK i \in 0..k : Along(h[i])
  BY <1>3
<1>7. PICK v : v = h[i]
  OBVIOUS
<1>8. Counts(v) /\ Along(v)
  BY <1>3, <1>6, <1>7 DEF Trodden
<1>9. CASE i = k
  <2>1. outcome' = "quoted" /\ before.amount <= walk'.result
    BY <1>1, <1>3, <1>7, <1>8, <1>9, InverseFollows
  <2>2. before.amount \in Int /\ walk'.result \in Int
    <3>1. Counted' /\ MaxUint \in Nat
      BY IterateNumbers, WalkAssumption DEF AmountsInv
    <3>2. before.amount \in 0..MaxUint
      BY DEF AmountsInv, Asked, Quotes
    <3> QED
      BY <3>1, <3>2 DEF Counted
  <2>3. RoundsForPool'
    BY <1>1, <2>1, <2>2 DEF RoundsForPool
  <2>4. SecondAt("inverse", req, k, h)'
    BY <1>4, <1>5, <2>1, <2>3 DEF SecondAt
  <2> QED
    BY <1>2, <2>4
<1>10. CASE i # k
  <2>1. i \in 0..(k - 1) /\ i + 1 \in 0..k /\ k \in 0..k
    BY <1>2, <1>10
  <2>2. PICK w : w = h[i + 1]
    OBVIOUS
  <2>3. Passed(v, w, req)
    BY <1>3, <1>7, <2>1, <2>2 DEF Trodden
  <2>4. w.result < before.result
    <3> DEFINE a == w.result
               b == h[k].result
               c == before.result
    <3>1. a \in Nat /\ b \in Nat /\ a <= b /\ b < c /\ c \in Nat
      BY <1>3, <2>1, <2>2 DEF Trodden, Counts, Last
    <3> HIDE DEF a, b, c
    <3>2. a < c
      BY <3>1
    <3> QED
      BY <3>2 DEF a, c
  <2>5. outcome' = "none" /\ Along(w)'
    BY <1>1, <1>3, <1>8, <2>3, <2>4, InverseFollows
  <2>6. Along(h[i + 1])'
    BY <2>2, <2>5
  <2>7. SecondAt("inverse", req, k, h)'
    BY <1>4, <1>5, <2>1, <2>5, <2>6 DEF SecondAt
  <2> QED
    BY <1>2, <2>7
<1> QED
  BY <1>9, <1>10

\* Nothing else touches the ways.
LEMMA SameWays ==
  ASSUME UNCHANGED walkVars, NEW kind
  PROVE  (FirstWalk => FirstWalk') /\ (SecondWalk(kind) => SecondWalk(kind)')
<1>1. pool' = pool /\ request' = request /\ walk' = walk /\ outcome' = outcome /\ before' = before
  BY DEF walkVars
<1>2. request'.zero = request.zero
  BY <1>1
<1>3. ASSUME FirstWalk PROVE FirstWalk'
  <2> SUFFICES ASSUME before'.kind = "none" PROVE \E h, k : k \in Nat /\ FirstAt(k, h)'
    BY DEF FirstWalk
  <2>1. PICK h, k : k \in Nat /\ FirstAt(k, h)
    BY <1>1, <1>3 DEF FirstWalk
  <2>2. PICK req, v, result : req = request /\ v = h[k] /\ result = walk.result
    OBVIOUS
  <2>3. Trodden(k, h, req)' /\ (Last(v, result, req)' <=> Last(v, result, req))
    BY <1>1, <1>2, <2>1, <2>2, SameTrodden, SameLast DEF FirstAt
  <2>4. FirstAt(k, h)'
    BY <1>1, <2>1, <2>2, <2>3 DEF FirstAt
  <2> QED
    BY <2>1, <2>4
<1>4. ASSUME SecondWalk(kind) PROVE SecondWalk(kind)'
  <2> SUFFICES ASSUME before'.kind = kind
               PROVE  \E req, h, k : k \in Nat /\ SecondAt(kind, req, k, h)'
    BY DEF SecondWalk
  <2>1. PICK req, h, k : k \in Nat /\ SecondAt(kind, req, k, h)
    BY <1>1, <1>4 DEF SecondWalk
  <2>2. PICK v, result : v = h[k] /\ result = before.result
    OBVIOUS
  <2>3. Trodden(k, h, req)' /\ Last(v, result, req)'
    BY <1>1, <1>2, <2>1, <2>2, SameTrodden, SameLast DEF SecondAt
  <2>4. SecondAt(kind, req, k, h)'
    BY <1>1, <2>1, <2>2, <2>3 DEF SecondAt, Pairs, Along, RoundsForPool
  <2> QED
    BY <2>1, <2>4
<1> QED
  BY <1>3, <1>4

\* Without a second quote before it there is none to follow.
LEMMA InitSecond == ASSUME WalkInit, NEW kind \in {"gross", "inverse"} PROVE SecondWalk(kind)
  BY DEF WalkInit, NoQuote, SecondWalk

\* The ways are kept by every step; that of an inverse quote while the products fit.
LEMMA WaysNext ==
  ASSUME WalkInv, AmountsInv, FirstWalk, [WalkNext]_walkVars, NEW kind \in {"gross", "inverse"},
         SecondWalk(kind), kind = "inverse" => ProductsFit
  PROVE  FirstWalk' /\ SecondWalk(kind)'
<1>1. CASE Iterate
  <2>1. kind = "gross" => SecondWalk("gross")'
    BY <1>1, IterateGross
  <2>2. kind = "inverse" => SecondWalk("inverse")'
    BY <1>1, IterateInverse
  <2> QED
    BY <1>1, <2>1, <2>2, IterateFirst
<1>2. CASE QuoteGross \/ QuoteInverse
  BY <1>2, QuoteAgainSecond
<1>3. CASE UNCHANGED walkVars
  BY <1>3, SameWays
<1> QED
  BY <1>1, <1>2, <1>3 DEF WalkNext

\* The ended second walk rounds for the pool.
FeeForPool ==
  before.kind = "gross" /\ outcome = "quoted" =>
     IF request.input THEN walk.result >= before.result ELSE walk.result <= before.result

\* Both theorems follow from the ways of the walks.
LEMMA SecondRounds ==
  /\ SecondWalk("gross") => FeeForPool
  /\ SecondWalk("gross") /\ SecondWalk("inverse") => RoundsForPool
<1>1. SecondWalk("gross") /\ before.kind = "gross" /\ outcome # "none" => RoundsForPool
  BY DEF SecondWalk, SecondAt
<1>2. SecondWalk("inverse") /\ before.kind = "inverse" /\ outcome # "none" => RoundsForPool
  BY DEF SecondWalk, SecondAt
<1>3. (before.kind = "gross" /\ outcome # "none") \/ (before.kind = "inverse" /\ outcome # "none")
        \/ RoundsForPool
  BY DEF RoundsForPool
<1>4. RoundsForPool => FeeForPool
  BY DEF RoundsForPool, FeeForPool
<1>5. (before.kind = "gross" /\ outcome # "none") \/ FeeForPool
  BY DEF FeeForPool
<1> QED
  BY <1>1, <1>2, <1>3, <1>4, <1>5

\* Theorem: the fee never pays the taker.  Over the state a quote was made on, the same request
\* without fee (QuoteGrossPair) gives no less of an exact input, costs no more of an exact output.
THEOREM FeeForPoolSafe == WalkSpec => []FeeForPool
<1> DEFINE Inv == WalkInv /\ AmountsInv /\ FirstWalk /\ SecondWalk("gross")
<1>1. WalkInit => Inv
  BY WalkInitInv, InitNumbers, InitFirst, InitSecond
<1>2. Inv /\ [WalkNext]_walkVars => Inv'
  <2> SUFFICES ASSUME Inv, [WalkNext]_walkVars PROVE Inv'
    OBVIOUS
  <2>1. WalkInv' /\ AmountsInv'
    BY IterateInv, QuoteAgainInv, SameWalk, IterateNumbers, QuoteAgainNumbers, SameNumbers DEF WalkNext
  <2>2. FirstWalk' /\ SecondWalk("gross")'
    BY WaysNext
  <2> QED
    BY <2>1, <2>2
<1>3. Inv => FeeForPool
  BY SecondRounds
<1> QED
  BY <1>1, <1>2, <1>3, PTL DEF WalkSpec

\* Theorem: rounding is for the pool.  The fee never pays the taker, and what an exact output
\* costs, paid as an exact input over the same state, is spent to the end and buys at least that
\* output, as long as no product of nextPrice leaves the 256 bits it is computed with.
THEOREM RoundsForPoolSafe == WalkSpec /\ []ProductsFit => []RoundsForPool
<1> DEFINE Inv == WalkInv /\ AmountsInv /\ FirstWalk /\ SecondWalk("gross") /\ SecondWalk("inverse")
<1>1. WalkInit => Inv
  BY WalkInitInv, InitNumbers, InitFirst, InitSecond
<1>2. Inv /\ ProductsFit /\ [WalkNext]_walkVars => Inv'
  <2> SUFFICES ASSUME Inv, ProductsFit, [WalkNext]_walkVars PROVE Inv'
    OBVIOUS
  <2>1. WalkInv' /\ AmountsInv'
    BY IterateInv, QuoteAgainInv, SameWalk, IterateNumbers, QuoteAgainNumbers, SameNumbers DEF WalkNext
  <2>2. FirstWalk' /\ SecondWalk("gross")' /\ SecondWalk("inverse")'
    BY WaysNext
  <2> QED
    BY <2>1, <2>2
<1>3. Inv => RoundsForPool
  BY SecondRounds
<1> QED
  BY <1>1, <1>2, <1>3, PTL DEF WalkSpec
-----------------------------------------------------------------------------
(* The price history: remainders, and sums and times that wrap. *)

\* A number is its remainder when it is in range.
LEMMA SmallRemainder ==
  ASSUME NEW m \in Nat \ {0}, NEW r \in 0..(m - 1) PROVE r % m = r
  OBVIOUS

\* Whole multiples do not change a remainder.
LEMMA Remainder ==
  ASSUME NEW m \in Nat \ {0}, NEW x \in Int, NEW k \in Int
  PROVE  (x + k * m) % m = (x % m) /\ (x % m) \in 0..(m - 1)
<1>1. x = m * (x \div m) + (x % m) /\ (x % m) \in 0..(m - 1) /\ x \div m \in Int
  OBVIOUS
<1>2. ASSUME NEW y \in Int PROVE y = m * (y \div m) + (y % m) /\ (y % m) \in 0..(m - 1) /\ y \div m \in Int
  OBVIOUS
<1> DEFINE y == x + k * m
           a == x \div m
           b == y \div m
<1>3. y \in Int /\ a \in Int /\ b \in Int /\ k * m \in Int
  BY <1>1
<1>4. y = m * b + (y % m) /\ (y % m) \in 0..(m - 1)
  BY <1>2, <1>3
<1> HIDE DEF y, a, b
<1>5. m * (b - a - k) = (x % m) - (y % m)
  <2>1. x + k * m = m * b + (y % m)
    BY <1>4 DEF y
  <2>2. x = m * a + (x % m)
    BY <1>1 DEF a
  <2>3. m * (b - a - k) = m * b - m * a - k * m
    BY <1>3
  <2>4. m * b \in Int /\ m * a \in Int /\ k * m \in Int
    BY <1>3
  <2> QED
    BY <2>1, <2>2, <2>3, <2>4, <1>1, <1>4
<1>6. b - a - k = 0
  <2> DEFINE d == b - a - k
  <2>1. d \in Int
    BY <1>3
  <2>2. m * d < m /\ -m < m * d
    BY <1>5, <1>4, <1>1
  <2> HIDE DEF d
  <2>3. ~(d >= 1) /\ ~(d <= -1)
    BY <2>1, <2>2
  <2>4. d = 0
    BY <2>1, <2>3
  <2> QED
    BY <2>4 DEF d
<1>7. (x % m) = (y % m)
  BY <1>5, <1>6, <1>1, <1>4
<1> QED
  BY <1>7, <1>1 DEF y

\* Two numbers whose difference is a multiple have the same remainder.
LEMMA SameRemainder ==
  ASSUME NEW m \in Nat \ {0}, NEW x \in Int, NEW y \in Int, NEW k \in Int, y = x + k * m
  PROVE  y % m = x % m
BY Remainder

\* A number is the same as its remainder up to whole multiples.
LEMMA Multiple ==
  ASSUME NEW m \in Nat \ {0}, NEW x \in Int
  PROVE  \E k \in Int : (x % m) = x + k * m /\ k * m \in Int
<1>1. x = m * (x \div m) + (x % m) /\ x \div m \in Int
  OBVIOUS
<1> DEFINE k == -(x \div m)
<1>2. k \in Int /\ k * m = -(m * (x \div m)) /\ k * m \in Int
  BY <1>1
<1>3. (x % m) = x + k * m
  BY <1>1, <1>2
<1> QED
  BY <1>2, <1>3

\* A sum that wraps: in range, and right up to whole wraps.
LEMMA WrapOf ==
  ASSUME NEW s \in Int
  PROVE  /\ Wrap(s) \in Int /\ -SumWrap <= Wrap(s) /\ Wrap(s) < SumWrap
         /\ \E k \in Int : Wrap(s) = s + k * (2 * SumWrap) /\ k * (2 * SumWrap) \in Int
<1>1. SumWrap \in Nat \ {0} /\ 2 * SumWrap \in Nat \ {0}
  BY OracleAssumption
<1>2. s + SumWrap \in Int
  BY <1>1
<1>3. (s + SumWrap) % (2 * SumWrap) \in 0..(2 * SumWrap - 1)
  BY <1>1, <1>2, Remainder, 0 \in Int
<1>4. PICK k \in Int : /\ (s + SumWrap) % (2 * SumWrap) = (s + SumWrap) + k * (2 * SumWrap)
                       /\ k * (2 * SumWrap) \in Int
  BY <1>1, <1>2, Multiple
<1>5. Wrap(s) = s + k * (2 * SumWrap)
  BY <1>1, <1>4 DEF Wrap
<1>6. Wrap(s) \in Int /\ -SumWrap <= Wrap(s) /\ Wrap(s) < SumWrap
  BY <1>1, <1>3 DEF Wrap
<1> QED
  BY <1>4, <1>5, <1>6

\* Sums that differ by whole wraps wrap to the same.
LEMMA WrapSame ==
  ASSUME NEW s \in Int, NEW r \in Int, NEW k \in Int, r = s + k * (2 * SumWrap)
  PROVE  Wrap(r) = Wrap(s)
<1>1. SumWrap \in Nat \ {0} /\ 2 * SumWrap \in Nat \ {0}
  BY OracleAssumption
<1>2. k * (2 * SumWrap) \in Int
  BY <1>1
<1>3. s + SumWrap \in Int /\ r + SumWrap \in Int /\ r + SumWrap = (s + SumWrap) + k * (2 * SumWrap)
  BY <1>1, <1>2
<1>4. (r + SumWrap) % (2 * SumWrap) = (s + SumWrap) % (2 * SumWrap)
  BY <1>1, <1>3, SameRemainder
<1> QED
  BY <1>4 DEF Wrap

\* A sum in range does not wrap.
LEMMA WrapSmall ==
  ASSUME NEW s \in Int, -SumWrap <= s, s < SumWrap PROVE Wrap(s) = s
<1>1. SumWrap \in Nat \ {0} /\ 2 * SumWrap \in Nat \ {0}
  BY OracleAssumption
<1>2. s + SumWrap \in 0..(2 * SumWrap - 1)
  BY <1>1
<1>3. (s + SumWrap) % (2 * SumWrap) = s + SumWrap
  BY <1>1, <1>2, SmallRemainder
<1> QED
  BY <1>1, <1>3 DEF Wrap

\* What is added to a wrapped sum, and wrapped again, is added to the sum.
LEMMA WrapAdds ==
  ASSUME NEW s \in Int, NEW x \in Int PROVE Wrap(Wrap(s) + x) = Wrap(s + x)
<1>1. SumWrap \in Nat \ {0}
  BY OracleAssumption
<1>2. Wrap(s) \in Int
  BY WrapOf
<1>3. PICK k \in Int : Wrap(s) = s + k * (2 * SumWrap) /\ k * (2 * SumWrap) \in Int
  BY WrapOf
<1>4. Wrap(s) + x = (s + x) + k * (2 * SumWrap) /\ s + x \in Int /\ Wrap(s) + x \in Int
  BY <1>2, <1>3
<1> QED
  BY <1>4, WrapSame

\* The difference of two wrapped sums is theirs, if that is in range.
LEMMA WrapDiffers ==
  ASSUME NEW a \in Int, NEW b \in Int, -SumWrap <= a - b, a - b < SumWrap
  PROVE  Wrap(Wrap(a) - Wrap(b)) = a - b
<1>1. SumWrap \in Nat \ {0}
  BY OracleAssumption
<1>2. Wrap(a) \in Int /\ Wrap(b) \in Int
  BY WrapOf
<1>3. PICK k \in Int : Wrap(a) = a + k * (2 * SumWrap) /\ k * (2 * SumWrap) \in Int
  BY WrapOf
<1>4. PICK n \in Int : Wrap(b) = b + n * (2 * SumWrap) /\ n * (2 * SumWrap) \in Int
  BY WrapOf
<1>5. (k - n) * (2 * SumWrap) = k * (2 * SumWrap) - n * (2 * SumWrap)
  BY <1>1
<1>6. Wrap(a) - Wrap(b) = (a - b) + (k - n) * (2 * SumWrap)
  BY <1>2, <1>3, <1>4, <1>5
<1>7. Wrap(Wrap(a) - Wrap(b)) = Wrap(a - b)
  <2>1. k - n \in Int /\ a - b \in Int /\ Wrap(a) - Wrap(b) \in Int
    BY <1>2
  <2> QED
    BY <2>1, <1>6, WrapSame
<1> QED
  BY <1>7, WrapSmall

\* The time between two times of one history does not show the wrap.
LEMMA SinceExact ==
  ASSUME NEW now \in Int, NEW then \in Int, then <= now, now - then < TimeWrap, NEW ago \in Int,
         0 <= now - ago - then, now - ago - then < TimeWrap
  PROVE  /\ Since(now % TimeWrap, then % TimeWrap) = now - then
         /\ Since((now % TimeWrap) - ago, then % TimeWrap) = now - ago - then
<1>1. TimeWrap \in Nat \ {0}
  BY OracleAssumption
<1>2. PICK k \in Int : (now % TimeWrap) = now + k * TimeWrap /\ k * TimeWrap \in Int
  BY <1>1, Multiple
<1>3. PICK n \in Int : (then % TimeWrap) = then + n * TimeWrap /\ n * TimeWrap \in Int
  BY <1>1, Multiple
<1>4. (k - n) * TimeWrap = k * TimeWrap - n * TimeWrap /\ k - n \in Int
  BY <1>1
<1>5. ASSUME NEW x \in Int, 0 <= now - x - then, now - x - then < TimeWrap
      PROVE  ((now % TimeWrap) - x - (then % TimeWrap)) % TimeWrap = now - x - then
  <2>1. (now % TimeWrap) - x - (then % TimeWrap) = (now - x - then) + (k - n) * TimeWrap
    BY <1>2, <1>3, <1>4
  <2>2. now - x - then \in Int /\ (now % TimeWrap) - x - (then % TimeWrap) \in Int
    BY <1>2, <1>3
  <2>3. ((now % TimeWrap) - x - (then % TimeWrap)) % TimeWrap = (now - x - then) % TimeWrap
    <3> DEFINE p == now - x - then
               q == (now % TimeWrap) - x - (then % TimeWrap)
               d == k - n
    <3>1. p \in Int /\ q \in Int /\ d \in Int /\ q = p + d * TimeWrap
      BY <2>1, <2>2, <1>4
    <3> HIDE DEF p, q, d
    <3>2. q % TimeWrap = p % TimeWrap
      BY <3>1, <1>1, SameRemainder
    <3> QED
      BY <3>2 DEF p, q
  <2>4. now - x - then \in 0..(TimeWrap - 1)
    BY <1>1, <1>5
  <2> QED
    BY <2>3, <2>4, <1>1, SmallRemainder
<1>6. ((now % TimeWrap) - 0 - (then % TimeWrap)) % TimeWrap = now - 0 - then
  BY <1>5
<1>7. (now % TimeWrap) - 0 - (then % TimeWrap) = (now % TimeWrap) - (then % TimeWrap)
  BY <1>2, <1>3
<1> QED
  BY <1>5, <1>6, <1>7 DEF Since

-----------------------------------------------------------------------------
(* The price history: the contract's ring and the copy of a part of it. *)

\* The slot j places behind the newest one, how far behind it slot i is, and how many
\* observations the ring holds: all slots, or those up to the newest.
Slot(j) == (place - j + Size) % Size
Behind(i) == IF i <= place THEN place - i ELSE place - i + Size
Held == IF ring[Size - 1] = 0 THEN place + 1 ELSE Size

\* The j-th observation before the newest.
Past(j) == written[Len(written) - j]

\* Times rise within one wrap; between two observations the sum has risen by a tick a second.
HistoryOK ==
  /\ clock \in Int /\ FirstTime <= clock /\ Comparable(clock) /\ poolTick \in TickSteps
  /\ written \in Seq([at : Int, sum : Int]) /\ Len(written) \in Nat \ {0}
  /\ \A i \in 1..Len(written) : FirstTime <= written[i].at /\ written[i].at <= clock
  /\ \A i, k \in 1..Len(written) : i < k => written[i].at < written[k].at
  /\ \A i \in 1..(Len(written) - 1) : \E tick \in TickSteps :
        written[i + 1].sum - written[i].sum = tick * (written[i + 1].at - written[i].at)

\* The ring holds the newest observations in their order.
RingOK ==
  /\ Size \in Nat \ {0} /\ DOMAIN ring = 0..(Size - 1)
  /\ place \in 0..(Size - 1) /\ room \in Nat /\ Size <= room
  /\ Held <= Len(written)
  /\ \A i \in 0..(Size - 1) :
        ring[i] = IF Behind(i) < Held THEN Len(written) - Behind(i) ELSE 0

\* The retained copy of the ring, of which some slots are known.
Image(o) == [at |-> o.at % TimeWrap, sum |-> Wrap(o.sum), initialized |-> TRUE]
CopyOf(known) ==
  [slots |-> [i \in DOMAIN ring |-> IF i \in known /\ ring[i] # 0
                                    THEN Image(written[ring[i]]) ELSE NoSlot],
   known |-> known, index |-> place, next |-> room]

\* The known slots are all, or those back to one that is older than the window.
Reaches(known, now, ago) ==
  \/ DOMAIN ring \subseteq known
  \/ \E c \in 0..(Size - 1) :
        /\ ring[Slot(c)] # 0 /\ now - written[ring[Slot(c)]].at >= ago
        /\ \A j \in 0..c : Slot(j) \in known

\* The copy is the contract's ring, as far back as the window of the fee.
CopyOK ==
  captured # 0 =>
    /\ copy = CopyOf(copy.known)
    /\ copy.known \subseteq DOMAIN ring /\ place \in copy.known
    /\ Reaches(copy.known, clock, secondsAgo)

OracleInv == HistoryOK /\ RingOK /\ secondsAgo \in Windows /\ CopyOK

-----------------------------------------------------------------------------
(* The ring, from its newest observation backwards. *)

\* Backwards in a ring of m from its place p.
LEMMA Backwards ==
  ASSUME NEW m \in Nat \ {0}, NEW p \in 0..(m - 1), NEW j \in 0..(m - 1)
  PROVE  (p - j + m) % m = IF j <= p THEN p - j ELSE p - j + m
<1>1. CASE j <= p
  <2>1. p - j \in 0..(m - 1) /\ p - j + m = (p - j) + 1 * m /\ p - j \in Int /\ 1 \in Int
    BY <1>1
  <2>2. (p - j + m) % m = (p - j) % m
    BY <2>1, Remainder
  <2> QED
    BY <1>1, <2>1, <2>2, SmallRemainder
<1>2. CASE j > p
  <2>1. p - j + m \in 0..(m - 1)
    BY <1>2
  <2> QED
    BY <1>2, <2>1, SmallRemainder
<1> QED
  BY <1>1, <1>2

\* Slots and places behind the newest correspond.
LEMMA SlotBehind ==
  ASSUME RingOK
  PROVE  /\ \A j \in 0..(Size - 1) :
               /\ Slot(j) = IF j <= place THEN place - j ELSE place - j + Size
               /\ Slot(j) \in 0..(Size - 1) /\ Behind(Slot(j)) = j
         /\ \A i \in 0..(Size - 1) : Behind(i) \in 0..(Size - 1) /\ Slot(Behind(i)) = i
<1>0. Size \in Nat \ {0} /\ place \in 0..(Size - 1)
  BY DEF RingOK
<1>1. ASSUME NEW j \in 0..(Size - 1)
      PROVE  /\ Slot(j) = IF j <= place THEN place - j ELSE place - j + Size
             /\ Slot(j) \in 0..(Size - 1)
  <2>1. Slot(j) = IF j <= place THEN place - j ELSE place - j + Size
    BY <1>0, Backwards DEF Slot
  <2> QED
    BY <1>0, <2>1
<1>2. ASSUME NEW j \in 0..(Size - 1) PROVE Behind(Slot(j)) = j
  BY <1>0, <1>1 DEF Behind
<1>3. ASSUME NEW i \in 0..(Size - 1) PROVE Behind(i) \in 0..(Size - 1) /\ Slot(Behind(i)) = i
  <2>1. Behind(i) \in 0..(Size - 1)
    BY <1>0 DEF Behind
  <2>2. Slot(Behind(i)) = IF Behind(i) <= place THEN place - Behind(i) ELSE place - Behind(i) + Size
    BY <2>1, <1>1
  <2> QED
    BY <2>1, <2>2, <1>0 DEF Behind
<1> QED
  BY <1>1, <1>2, <1>3

\* The slots behind the newest hold the observations before it, as many as are held.
LEMMA RingBackwards ==
  ASSUME RingOK, HistoryOK
  PROVE  /\ Held \in 1..Size /\ Held \in 1..Len(written)
         /\ \A j \in 0..(Size - 1) :
               ring[Slot(j)] = IF j < Held THEN Len(written) - j ELSE 0
         /\ Slot(0) = place /\ 0 \in 0..(Size - 1)
         /\ \A j \in 0..(Held - 1) : /\ j \in 0..(Size - 1) /\ Len(written) - j \in 1..Len(written)
                                     /\ ring[Slot(j)] # 0 /\ written[ring[Slot(j)]] = Past(j)
         /\ Past(0) = Newest
<1>0. Size \in Nat \ {0} /\ place \in 0..(Size - 1) /\ Held <= Len(written) /\ Len(written) \in Nat
  BY DEF RingOK, HistoryOK
<1>1. Held \in 1..Size /\ Held \in 1..Len(written)
  BY <1>0 DEF Held
<1>2. \A j \in 0..(Size - 1) : ring[Slot(j)] = IF j < Held THEN Len(written) - j ELSE 0
  BY SlotBehind DEF RingOK
<1>3. Slot(0) = place /\ 0 \in 0..(Size - 1)
  BY <1>0, SlotBehind
<1>4. \A j \in 0..(Held - 1) : /\ j \in 0..(Size - 1) /\ Len(written) - j \in 1..Len(written)
                               /\ ring[Slot(j)] # 0 /\ written[ring[Slot(j)]] = Past(j)
  BY <1>0, <1>1, <1>2 DEF Past
<1>5. Past(0) = Newest
  BY <1>0 DEF Past, Newest
<1> QED
  BY <1>1, <1>2, <1>3, <1>4, <1>5

\* Every observation is a record.
LEMMA Recorded ==
  ASSUME HistoryOK, NEW i \in 1..Len(written) PROVE written[i] \in [at : Int, sum : Int]
<1> DEFINE S == [at : Int, sum : Int]
<1>1. written \in Seq(S)
  BY DEF HistoryOK
<1> HIDE DEF S
<1>2. written[i] \in S
  BY <1>1
<1> QED
  BY <1>2 DEF S

\* An earlier observation has an earlier time; the sum has risen by a tick a second since.
LEMMA PastRises ==
  ASSUME RingOK, HistoryOK
  PROVE  /\ \A j \in 0..(Held - 1) : /\ Past(j).at \in Int /\ Past(j).sum \in Int
                                     /\ FirstTime <= Past(j).at /\ Past(j).at <= clock
         /\ \A j, k \in 0..(Held - 1) : j < k => Past(k).at < Past(j).at
         /\ \A j \in 1..(Held - 1) : \E tick \in TickSteps :
               Past(j - 1).sum - Past(j).sum = tick * (Past(j - 1).at - Past(j).at)
<1>0. Held \in 1..Len(written) /\ Len(written) \in Nat
  BY RingBackwards DEF HistoryOK
<1>1. ASSUME NEW j \in 0..(Held - 1)
      PROVE  /\ Past(j).at \in Int /\ Past(j).sum \in Int
             /\ FirstTime <= Past(j).at /\ Past(j).at <= clock
  <2>1. Len(written) - j \in 1..Len(written)
    BY <1>0
  <2>2. written[Len(written) - j] \in [at : Int, sum : Int]
    BY <2>1, Recorded
  <2> QED
    BY <2>1, <2>2 DEF HistoryOK, Past
<1>2. ASSUME NEW j \in 0..(Held - 1), NEW k \in 0..(Held - 1), j < k PROVE Past(k).at < Past(j).at
  <2>1. Len(written) - j \in 1..Len(written) /\ Len(written) - k \in 1..Len(written)
        /\ Len(written) - k < Len(written) - j
    BY <1>0, <1>2
  <2> QED
    BY <2>1 DEF HistoryOK, Past
<1>3. ASSUME NEW j \in 1..(Held - 1)
      PROVE  \E tick \in TickSteps :
               Past(j - 1).sum - Past(j).sum = tick * (Past(j - 1).at - Past(j).at)
  <2>1. Len(written) - j \in 1..(Len(written) - 1) /\ Len(written) - j + 1 = Len(written) - (j - 1)
    BY <1>0
  <2> QED
    BY <2>1 DEF HistoryOK, Past
<1> QED
  BY <1>1, <1>2, <1>3

\* A tick a second within one wrap of the time stays in the range of a sum.
LEMMA RiseFits ==
  ASSUME NEW tick \in TickSteps, NEW gap \in Int, 0 <= gap, gap < TimeWrap
  PROVE  tick * gap \in Int /\ -SumWrap < tick * gap /\ tick * gap < SumWrap
<1>1. tick \in Int /\ TimeWrap \in Nat \ {0} /\ SumWrap \in Nat \ {0}
      /\ -SumWrap < tick * TimeWrap /\ tick * TimeWrap < SumWrap
  BY OracleAssumption
<1>2. CASE tick >= 0
  <2>1. 0 <= tick * gap /\ tick * gap <= tick * TimeWrap
    BY <1>1, <1>2
  <2> QED
    BY <1>1, <2>1
<1>3. CASE tick < 0
  <2>1. tick * gap <= 0 /\ tick * TimeWrap <= tick * gap
    BY <1>1, <1>3
  <2> QED
    BY <1>1, <2>1
<1> QED
  BY <1>1, <1>2, <1>3

-----------------------------------------------------------------------------
(* What the contract answers. *)

\* The contract's observations are the newest and those before it, as many as are held.
LEMMA HeldPast ==
  ASSUME RingOK, HistoryOK
  PROVE  {written[ring[i]] : i \in {j \in DOMAIN ring : ring[j] # 0}} = {Past(j) : j \in 0..(Held - 1)}
<1> DEFINE A == {written[ring[i]] : i \in {j \in DOMAIN ring : ring[j] # 0}}
           B == {Past(j) : j \in 0..(Held - 1)}
<1>0. DOMAIN ring = 0..(Size - 1) /\ Size \in Nat /\ Held \in Nat
  BY RingBackwards DEF RingOK
<1>1. ASSUME NEW i \in DOMAIN ring, ring[i] # 0 PROVE written[ring[i]] \in B
  <2>1. Behind(i) \in 0..(Size - 1) /\ Slot(Behind(i)) = i
    BY <1>0, SlotBehind
  <2>2. Behind(i) < Held
    BY <2>1, <1>1, RingBackwards
  <2>3. Behind(i) \in 0..(Held - 1)
    BY <1>0, <2>1, <2>2
  <2>4. written[ring[i]] = Past(Behind(i))
    BY <2>1, <2>3, RingBackwards
  <2> QED
    BY <2>3, <2>4
<1>2. ASSUME NEW j \in 0..(Held - 1) PROVE Past(j) \in A
  <2>1. Slot(j) \in DOMAIN ring /\ ring[Slot(j)] # 0 /\ written[ring[Slot(j)]] = Past(j)
    BY <1>0, RingBackwards, SlotBehind
  <2> QED
    BY <2>1
<1> QED
  BY <1>1, <1>2

\* Of the observations, those up to the j-th before the newest are too new and the others
\* old enough: then the j-th and the one after it are the two next to the window's start.
LEMMA NextTo ==
  ASSUME RingOK, HistoryOK, NEW t \in Int, NEW j \in 0..(Held - 1),
         Past(j).at <= t, j > 0 => t < Past(j - 1).at
  PROVE  LET held == {Past(k) : k \in 0..(Held - 1)}
             older == {o \in held : o.at <= t}
             newer == {o \in held : o.at > t}
         IN  /\ older # {} /\ (CHOOSE x \in older : \A y \in older : x.at >= y.at) = Past(j)
             /\ IF j = 0 THEN newer = {}
                ELSE newer # {} /\ (CHOOSE x \in newer : \A y \in newer : x.at <= y.at) = Past(j - 1)
<1> DEFINE held == {Past(k) : k \in 0..(Held - 1)}
           older == {o \in held : o.at <= t}
           newer == {o \in held : o.at > t}
<1>0. Held \in Nat
  BY RingBackwards
<1>1. ASSUME NEW k \in 0..(Held - 1) PROVE Past(k).at \in Int
  BY PastRises
<1>2. ASSUME NEW k \in 0..(Held - 1), k < j
      PROVE  Past(k).at > t /\ Past(j - 1).at <= Past(k).at /\ (k # j - 1 => Past(j - 1).at < Past(k).at)
  <2>1. j - 1 \in 0..(Held - 1) /\ t < Past(j - 1).at /\ Past(j - 1).at \in Int
    BY <1>0, <1>1, <1>2
  <2>2. k # j - 1 => Past(j - 1).at < Past(k).at
    <3>1. k # j - 1 => k < j - 1
      BY <1>0, <1>2
    <3> QED
      BY <2>1, <3>1, PastRises
  <2> QED
    BY <1>1, <2>1, <2>2
<1>3. ASSUME NEW k \in 0..(Held - 1), k >= j
      PROVE  Past(k).at <= t /\ (k # j => Past(k).at < Past(j).at)
  <2>1. k # j => k > j
    BY <1>0, <1>3
  <2>2. k # j => Past(k).at < Past(j).at
    BY <2>1, PastRises
  <2> QED
    BY <1>1, <2>2
<1>4. \A o \in older : \E k \in 0..(Held - 1) : o = Past(k) /\ k >= j
  <2> SUFFICES ASSUME NEW k \in 0..(Held - 1), Past(k).at <= t PROVE k >= j
    OBVIOUS
  <2>1. ~(k < j)
    BY <1>1, <1>2
  <2> QED
    BY <1>0, <2>1
<1>5. \A o \in newer : \E k \in 0..(Held - 1) : o = Past(k) /\ k < j
  <2> SUFFICES ASSUME NEW k \in 0..(Held - 1), Past(k).at > t PROVE k < j
    OBVIOUS
  <2>1. ~(k >= j)
    BY <1>1, <1>3
  <2> QED
    BY <1>0, <2>1
<1>6. Past(j) \in older
  OBVIOUS
<1>7. \A y \in older : Past(j).at >= y.at /\ (y.at >= Past(j).at => y = Past(j))
  <2> SUFFICES ASSUME NEW k \in 0..(Held - 1), k >= j
               PROVE  Past(j).at >= Past(k).at /\ (Past(k).at >= Past(j).at => Past(k) = Past(j))
    BY <1>4
  <2> QED
    BY <1>1, <1>3
<1>8. (CHOOSE x \in older : \A y \in older : x.at >= y.at) = Past(j)
  BY <1>6, <1>7
<1>9. CASE j = 0
  <2>1. newer = {}
    BY <1>0, <1>5, <1>9
  <2> QED
    BY <1>6, <1>8, <1>9, <2>1
<1>10. CASE j # 0
  <2>1. j - 1 \in 0..(Held - 1) /\ t < Past(j - 1).at /\ Past(j - 1).at \in Int
    BY <1>0, <1>1, <1>10
  <2>2. Past(j - 1) \in newer
    BY <2>1
  <2>3. \A y \in newer : Past(j - 1).at <= y.at /\ (y.at <= Past(j - 1).at => y = Past(j - 1))
    <3> SUFFICES ASSUME NEW k \in 0..(Held - 1), k < j
                 PROVE  /\ Past(j - 1).at <= Past(k).at
                        /\ Past(k).at <= Past(j - 1).at => Past(k) = Past(j - 1)
      BY <1>5
    <3> QED
      BY <1>1, <1>2, <2>1
  <2>4. (CHOOSE x \in newer : \A y \in newer : x.at <= y.at) = Past(j - 1)
    BY <2>2, <2>3
  <2> QED
    BY <1>6, <1>8, <1>10, <2>2, <2>4
<1> QED
  BY <1>9, <1>10

\* A window that starts after the newest observation is answered from it.
LEMMA AnswerNewest ==
  ASSUME RingOK, HistoryOK, NEW now \in Int, NEW ago \in Nat, NEW price \in Int,
         now - Newest.at >= ago
  PROVE  Answer(now, ago, price) =
           [kind |-> "sum", sum |-> Newest.sum + price * (now - Newest.at - ago)]
<1> DEFINE t == now - ago
           held == {Past(k) : k \in 0..(Held - 1)}
           older == {o \in held : o.at <= t}
           newer == {o \in held : o.at > t}
<1>0. Past(0) = Newest /\ 0 \in 0..(Held - 1) /\ Past(0).at \in Int
  BY RingBackwards, PastRises
<1>1. t \in Int /\ Past(0).at <= t /\ t - Newest.at = now - Newest.at - ago
  BY <1>0
<1>2. /\ older # {} /\ (CHOOSE x \in older : \A y \in older : x.at >= y.at) = Past(0)
      /\ newer = {}
  <2> HIDE DEF t
  <2> QED
    BY <1>0, <1>1, NextTo
<1>3. Answer(now, ago, price) = [kind |-> "sum", sum |-> SumAt(t, Newest, price)]
  <2>1. {written[ring[i]] : i \in {k \in DOMAIN ring : ring[k] # 0}} = held
    BY HeldPast
  <2> HIDE DEF held
  <2> QED
    BY <2>1, <1>0, <1>2 DEF Answer
<1> QED
  BY <1>1, <1>3 DEF SumAt

\* An older one by the two observations next to its start.
LEMMA AnswerBetween ==
  ASSUME RingOK, HistoryOK, NEW now \in Int, NEW ago \in Nat, NEW price \in Int,
         NEW j \in 1..(Held - 1), now - Past(j).at >= ago, now - Past(j - 1).at < ago
  PROVE  Answer(now, ago, price) =
           [kind |-> "sum",
            sum |-> Past(j).sum
                      + Cut(Past(j - 1).sum - Past(j).sum, Past(j - 1).at - Past(j).at)
                          * (now - ago - Past(j).at)]
<1> DEFINE t == now - ago
           held == {Past(k) : k \in 0..(Held - 1)}
           older == {o \in held : o.at <= t}
           newer == {o \in held : o.at > t}
<1>0. j \in 0..(Held - 1) /\ j - 1 \in 0..(Held - 1) /\ j # 0 /\ Past(j).at \in Int /\ Past(j - 1).at \in Int
  <2>1. Held \in Nat
    BY RingBackwards
  <2>2. j \in 0..(Held - 1) /\ j - 1 \in 0..(Held - 1) /\ j # 0
    BY <2>1
  <2> QED
    BY <2>2, PastRises
<1>1. t \in Int /\ Past(j).at <= t /\ t < Past(j - 1).at
  BY <1>0
<1>2. /\ older # {} /\ (CHOOSE x \in older : \A y \in older : x.at >= y.at) = Past(j)
      /\ newer # {} /\ (CHOOSE x \in newer : \A y \in newer : x.at <= y.at) = Past(j - 1)
  <2> HIDE DEF t
  <2> QED
    BY <1>0, <1>1, NextTo
<1>3. {written[ring[i]] : i \in {k \in DOMAIN ring : ring[k] # 0}} = held
  BY HeldPast
<1> HIDE DEF held
<1> QED
  BY <1>2, <1>3 DEF Answer

\* A window that starts before all of them has no answer.
LEMMA AnswerNone ==
  ASSUME RingOK, HistoryOK, NEW now \in Int, NEW ago \in Nat, NEW price \in Int,
         \A j \in 0..(Held - 1) : now - Past(j).at < ago
  PROVE  Answer(now, ago, price) = [kind |-> "unavailable", sum |-> 0]
<1> DEFINE t == now - ago
           held == {Past(k) : k \in 0..(Held - 1)}
           older == {o \in held : o.at <= t}
<1>1. older = {}
  <2> SUFFICES ASSUME NEW k \in 0..(Held - 1) PROVE ~(Past(k).at <= t)
    OBVIOUS
  <2>1. Past(k).at \in Int /\ now - Past(k).at < ago
    BY PastRises
  <2> QED
    BY <2>1
<1>2. {written[ring[i]] : i \in {k \in DOMAIN ring : ring[k] # 0}} = held
  BY HeldPast
<1> HIDE DEF held
<1> QED
  BY <1>1, <1>2 DEF Answer

-----------------------------------------------------------------------------
(* What the copy answers. *)

\* What the copy is made of.
LEMMA CopyFacts ==
  ASSUME RingOK, HistoryOK, NEW known, known \subseteq DOMAIN ring, place \in known,
         NEW o, o = CopyOf(known)
  PROVE  /\ Slots(o) = Size /\ o.index = place /\ o.next = room /\ o.known = known
         /\ DOMAIN o.slots = DOMAIN ring /\ o.slots[place] = Image(Newest)
         /\ \A j \in 0..(Size - 1) :
               /\ Back(o, j) = Slot(j)
               /\ o.slots[Slot(j)] = IF Slot(j) \in known /\ j < Held THEN Image(Past(j)) ELSE NoSlot
<1>1. /\ o.index = place /\ o.next = room /\ o.known = known
      /\ o.slots = [i \in DOMAIN ring |-> IF i \in known /\ ring[i] # 0
                                          THEN Image(written[ring[i]]) ELSE NoSlot]
  BY DEF CopyOf
<1>2. Slots(o) = Size /\ DOMAIN o.slots = DOMAIN ring
  BY <1>1 DEF Slots, Size
<1>3. ASSUME NEW j \in 0..(Size - 1) PROVE Back(o, j) = Slot(j)
  BY <1>1, <1>2 DEF Back, Slot
<1>4. ASSUME NEW j \in 0..(Size - 1)
      PROVE  o.slots[Slot(j)] = IF Slot(j) \in known /\ j < Held THEN Image(Past(j)) ELSE NoSlot
  <2>1. Slot(j) \in DOMAIN ring
    BY SlotBehind DEF RingOK
  <2>2. o.slots[Slot(j)] = IF Slot(j) \in known /\ ring[Slot(j)] # 0
                           THEN Image(written[ring[Slot(j)]]) ELSE NoSlot
    BY <1>1, <2>1
  <2>3. CASE j < Held
    <3>1. j \in 0..(Held - 1)
      BY <2>3, RingBackwards
    <3>2. ring[Slot(j)] # 0 /\ written[ring[Slot(j)]] = Past(j)
      BY <3>1, RingBackwards
    <3> QED
      BY <2>2, <2>3, <3>2
  <2>4. CASE ~(j < Held)
    <3>1. ring[Slot(j)] = 0
      BY <2>4, RingBackwards
    <3> QED
      BY <2>2, <2>4, <3>1
  <2> QED
    BY <2>3, <2>4
<1>5. o.slots[place] = Image(Newest)
  <2>1. Slot(0) = place /\ 0 \in 0..(Size - 1) /\ 0 < Held /\ Past(0) = Newest
    BY RingBackwards
  <2>2. o.slots[Slot(0)] = Image(Past(0))
    BY <2>1, <1>4
  <2> QED
    BY <2>1, <2>2
<1> QED
  BY <1>1, <1>2, <1>3, <1>4, <1>5

\* The wrapped times tell how long ago an observation is.
LEMMA AgeExact ==
  ASSUME RingOK, HistoryOK, NEW now \in Int, clock <= now, Comparable(now), NEW j \in 0..(Held - 1)
  PROVE  /\ Since(now % TimeWrap, Image(Past(j)).at) = now - Past(j).at
         /\ 0 <= now - Past(j).at /\ now - Past(j).at < TimeWrap
<1>1. Past(j).at \in Int /\ FirstTime <= Past(j).at /\ Past(j).at <= clock /\ clock \in Int
  BY PastRises DEF HistoryOK
<1>2. now - FirstTime < TimeWrap /\ FirstTime \in Int /\ TimeWrap \in Int
  BY OracleAssumption DEF Comparable
<1>3. 0 <= now - Past(j).at /\ now - Past(j).at < TimeWrap /\ Past(j).at <= now
  BY <1>1, <1>2
<1>4. Since(now % TimeWrap, Past(j).at % TimeWrap) = now - Past(j).at
  BY <1>1, <1>3, SinceExact, 0 \in Int
<1> QED
  BY <1>3, <1>4 DEF Image

\* Parts of observe: the age of the newest observation, the places at which the walk
\* stops, and the answer from the observation at place f.
AgeOf(o, now) == Since(now, o.slots[o.index].at)
OldAt(o, now, ago, j) ==
  /\ o.slots[Back(o, j)].initialized
  /\ Since(now, o.slots[Back(o, j)].at) >= ago
Stops(o, now, ago) ==
  {j \in 1..(Slots(o) - 1) : Back(o, j) \notin o.known \/ OldAt(o, now, ago, j)}
PassedTo(o, f) == {j \in 1..(f - 1) : o.slots[Back(o, j)].initialized}
NewerThan(o, f) ==
  IF PassedTo(o, f) = {} THEN o.slots[o.index] ELSE o.slots[Back(o, Max(PassedTo(o, f)))]
Interpolated(o, now, ago, f) ==
  LET older == o.slots[Back(o, f)]
      newer == NewerThan(o, f)
  IN  Wrap(older.sum + Cut(Wrap(newer.sum - older.sum), Since(newer.at, older.at))
                         * Since(now - ago, older.at))

\* The branches of observe.
LEMMA ObserveCases ==
  ASSUME NEW o, NEW now, NEW ago \in Int, NEW price, AgeOf(o, now) \in Int
  PROVE  LET stops == Stops(o, now, ago)
             first == Min(stops)
         IN  Observe(o, now, ago, price) =
               IF ago <= AgeOf(o, now)
               THEN [kind |-> "sum",
                     sum |-> Wrap(o.slots[o.index].sum + price * (AgeOf(o, now) - ago))]
               ELSE IF stops = {} THEN [kind |-> "unavailable", sum |-> 0]
               ELSE IF Back(o, first) \notin o.known THEN [kind |-> "error", sum |-> 0]
               ELSE [kind |-> "sum", sum |-> Interpolated(o, now, ago, first)]
<1> DEFINE age == AgeOf(o, now)
           stops == Stops(o, now, ago)
           first == Min(stops)
           a == [kind |-> "sum", sum |-> Wrap(o.slots[o.index].sum + price * (age - ago))]
           d == [kind |-> "sum", sum |-> Interpolated(o, now, ago, first)]
<1>1. Observe(o, now, ago, price) =
        CASE ago <= age -> a
          [] ago > age /\ stops = {} -> [kind |-> "unavailable", sum |-> 0]
          [] ago > age /\ stops # {} /\ Back(o, first) \notin o.known -> [kind |-> "error", sum |-> 0]
          [] ago > age /\ stops # {} /\ Back(o, first) \in o.known -> d
  BY Zenon DEF Observe, AgeOf, OldAt, Stops, PassedTo, NewerThan, Interpolated
<1>2. age \in Int
  OBVIOUS
<1> HIDE DEF age, stops, first, a, d
<1>3. (ago <= age \/ ago > age) /\ ~(ago <= age /\ ago > age)
  BY <1>2
<1>4. Observe(o, now, ago, price) =
        IF ago <= age THEN a
        ELSE IF stops = {} THEN [kind |-> "unavailable", sum |-> 0]
        ELSE IF Back(o, first) \notin o.known THEN [kind |-> "error", sum |-> 0]
        ELSE d
  BY <1>1, <1>2, <1>3
<1> QED
  BY <1>4 DEF age, stops, first, a, d

\* A window that starts after the newest observation is answered as by the contract.
LEMMA ObserveNewest ==
  ASSUME RingOK, HistoryOK, NEW known, known \subseteq DOMAIN ring, place \in known,
         NEW now \in Int, clock <= now, Comparable(now), NEW ago \in Nat, NEW price \in Int,
         now - Newest.at >= ago
  PROVE  Observe(CopyOf(known), now % TimeWrap, ago, price) =
           [kind |-> "sum", sum |-> Wrap(Newest.sum + price * (now - Newest.at - ago))]
<1> DEFINE o == CopyOf(known)
           age == Since(now % TimeWrap, o.slots[o.index].at)
<1>1. 0 \in 0..(Held - 1) /\ Past(0) = Newest
  BY RingBackwards
<1>2. Newest.at \in Int /\ Newest.sum \in Int
  BY <1>1, PastRises
<1>3. o.slots[o.index] = Image(Newest)
  BY CopyFacts
<1>4. age = now - Newest.at
  BY <1>1, <1>3, AgeExact
<1>5. Observe(o, now % TimeWrap, ago, price)
        = [kind |-> "sum", sum |-> Wrap(o.slots[o.index].sum + price * (age - ago))]
  <2>1. ago <= age /\ age \in Int
    BY <1>2, <1>4
  <2> HIDE DEF o
  <2> QED
    BY <2>1, ObserveCases DEF AgeOf
<1>6. Wrap(Wrap(Newest.sum) + price * (age - ago)) = Wrap(Newest.sum + price * (now - Newest.at - ago))
  <2>1. price * (now - Newest.at - ago) \in Int
    BY <1>2
  <2> QED
    BY <1>2, <1>4, <2>1, WrapAdds
<1>7. o.slots[o.index].sum = Wrap(Newest.sum)
  BY <1>3 DEF Image
<1> QED
  BY <1>5, <1>6, <1>7

\* The walk stops where the copy does not know and at observations that are old enough.
LEMMA StopsAt ==
  ASSUME RingOK, HistoryOK, NEW known, known \subseteq DOMAIN ring, place \in known,
         NEW now \in Int, clock <= now, Comparable(now), NEW ago \in Nat
  PROVE  Stops(CopyOf(known), now % TimeWrap, ago) =
           {j \in 1..(Size - 1) : Slot(j) \notin known \/ (j < Held /\ now - Past(j).at >= ago)}
<1> DEFINE o == CopyOf(known)
           Old(j) == Slot(j) \notin known \/ (j < Held /\ now - Past(j).at >= ago)
<1>0. Size \in Nat /\ Held \in Nat
  BY RingBackwards DEF RingOK
<1>1. /\ Slots(o) = Size /\ o.known = known
      /\ \A j \in 0..(Size - 1) :
            /\ Back(o, j) = Slot(j)
            /\ o.slots[Slot(j)] = IF Slot(j) \in known /\ j < Held THEN Image(Past(j)) ELSE NoSlot
  BY CopyFacts
<1> HIDE DEF o
<1>2. ASSUME NEW j \in 1..(Size - 1)
      PROVE  (Back(o, j) \notin o.known \/ OldAt(o, now % TimeWrap, ago, j)) <=> Old(j)
  <2>1. j \in 0..(Size - 1)
    BY <1>0
  <2>2. CASE Slot(j) \notin known
    BY <1>1, <2>1, <2>2
  <2>3. CASE Slot(j) \in known /\ j < Held
    <3>1. j \in 0..(Held - 1)
      BY <1>0, <2>3
    <3>2. o.slots[Back(o, j)] = Image(Past(j))
      BY <1>1, <2>1, <2>3
    <3>3. Since(now % TimeWrap, o.slots[Back(o, j)].at) = now - Past(j).at
      BY <3>1, <3>2, AgeExact
    <3>4. o.slots[Back(o, j)].initialized
      BY <3>2 DEF Image
    <3>5. OldAt(o, now % TimeWrap, ago, j) <=> now - Past(j).at >= ago
      BY <3>3, <3>4 DEF OldAt
    <3> QED
      BY <3>5, <1>1, <2>1, <2>3
  <2>4. CASE Slot(j) \in known /\ ~(j < Held)
    <3>1. o.slots[Back(o, j)] = NoSlot
      BY <1>1, <2>1, <2>4
    <3>2. ~OldAt(o, now % TimeWrap, ago, j)
      BY <3>1 DEF OldAt, NoSlot
    <3> QED
      BY <3>2, <1>1, <2>1, <2>4
  <2> QED
    BY <2>2, <2>3, <2>4
<1>3. Stops(o, now % TimeWrap, ago)
        = {j \in 1..(Size - 1) : Back(o, j) \notin o.known \/ OldAt(o, now % TimeWrap, ago, j)}
  BY <1>1 DEF Stops
<1>4. Stops(o, now % TimeWrap, ago) = {j \in 1..(Size - 1) : Old(j)}
  <2> HIDE DEF Old
  <2> QED
    BY <1>2, <1>3
<1> QED
  BY <1>4 DEF o

\* Division towards zero gives an integer.
LEMMA CutInt == ASSUME NEW a \in Int, NEW b \in Nat \ {0} PROVE Cut(a, b) \in Int
  BY DEF Cut

\* Between two known observations the copy reckons as the contract, up to the wrap.
LEMMA BetweenExact ==
  ASSUME RingOK, HistoryOK, NEW known, known \subseteq DOMAIN ring, place \in known,
         NEW now \in Int, clock <= now, Comparable(now), NEW ago \in Nat,
         NEW f \in 1..(Held - 1), now - Past(f).at >= ago, \A j \in 0..f : Slot(j) \in known
  PROVE  Interpolated(CopyOf(known), now % TimeWrap, ago, f) =
           Wrap(Past(f).sum
                  + Cut(Past(f - 1).sum - Past(f).sum, Past(f - 1).at - Past(f).at)
                      * (now - ago - Past(f).at))
<1> DEFINE o == CopyOf(known)
           rise == Past(f - 1).sum - Past(f).sum
           gap == Past(f - 1).at - Past(f).at
           elapsed == now - ago - Past(f).at
<1>0. Held \in 1..Size /\ Size \in Nat /\ f \in 0..(Held - 1) /\ f - 1 \in 0..(Held - 1)
  BY RingBackwards DEF RingOK
<1>1. /\ o.slots[o.index] = Image(Past(0))
      /\ \A j \in 0..f : o.slots[Back(o, j)] = Image(Past(j))
  <2>1. Past(0) = Newest
    BY RingBackwards
  <2>2. \A j \in 0..f : j \in 0..(Size - 1) /\ j < Held
    BY <1>0
  <2> QED
    BY <2>1, <2>2, CopyFacts
<1>2. NewerThan(o, f) = Image(Past(f - 1))
  <2>1. PassedTo(o, f) = 1..(f - 1)
    <3>1. \A j \in 1..(f - 1) : j \in 0..f
      BY <1>0
    <3>2. ASSUME NEW j \in 1..(f - 1) PROVE o.slots[Back(o, j)].initialized
      <4>1. o.slots[Back(o, j)] = Image(Past(j))
        BY <3>1, <1>1
      <4> QED
        BY <4>1 DEF Image
    <3> QED
      BY <3>2 DEF PassedTo
  <2>2. CASE f = 1
    <3>1. PassedTo(o, f) = {} /\ f - 1 = 0
      BY <2>1, <2>2
    <3> QED
      BY <3>1, <1>1 DEF NewerThan
  <2>3. CASE f # 1
    <3> DEFINE S == 1..(f - 1)
    <3>1. f - 1 \in S /\ S \subseteq 0..(f - 1) /\ f - 1 \in Nat
      BY <1>0, <2>3
    <3>2. Max(S) \in S /\ f - 1 <= Max(S)
      <4> HIDE DEF S
      <4> QED
        BY <3>1, LargestOf
    <3>3. Max(S) = f - 1
      BY <3>1, <3>2
    <3>4. NewerThan(o, f) = o.slots[Back(o, f - 1)]
      BY <2>1, <3>1, <3>3 DEF NewerThan
    <3>5. f - 1 \in 0..f
      BY <1>0
    <3> QED
      BY <3>4, <3>5, <1>1
  <2> QED
    BY <2>2, <2>3
<1>3. /\ Past(f).at \in Int /\ Past(f).sum \in Int /\ Past(f - 1).at \in Int /\ Past(f - 1).sum \in Int
      /\ Past(f).at < Past(f - 1).at /\ Past(f - 1).at <= clock /\ FirstTime <= Past(f).at
  <2>1. f - 1 < f
    BY <1>0
  <2> QED
    BY <1>0, <2>1, PastRises
<1>4. now - FirstTime < TimeWrap /\ FirstTime \in Int /\ TimeWrap \in Int /\ clock \in Int
  BY OracleAssumption DEF Comparable, HistoryOK
<1>5. gap \in Nat \ {0} /\ gap < TimeWrap /\ 0 <= elapsed /\ elapsed < TimeWrap
      /\ elapsed \in Int /\ rise \in Int /\ now - Past(f).at < TimeWrap /\ Past(f).at <= now
  BY <1>3, <1>4
<1>6. Since(Past(f - 1).at % TimeWrap, Past(f).at % TimeWrap) = gap
  BY <1>3, <1>5, SinceExact, 0 \in Int
<1>7. Since((now % TimeWrap) - ago, Past(f).at % TimeWrap) = elapsed
  BY <1>3, <1>5, SinceExact
<1>8. Wrap(Wrap(Past(f - 1).sum) - Wrap(Past(f).sum)) = rise
  <2>1. PICK tick \in TickSteps : rise = tick * gap
    BY PastRises
  <2>2. -SumWrap < tick * gap /\ tick * gap < SumWrap
    BY <1>5, RiseFits
  <2>3. SumWrap \in Nat
    BY OracleAssumption
  <2> QED
    BY <2>1, <2>2, <2>3, <1>3, <1>5, WrapDiffers
<1>9. Interpolated(o, now % TimeWrap, ago, f) = Wrap(Wrap(Past(f).sum) + Cut(rise, gap) * elapsed)
  <2>1. o.slots[Back(o, f)] = Image(Past(f))
    BY <1>0, <1>1
  <2> HIDE DEF o
  <2> QED
    BY <2>1, <1>2, <1>6, <1>7, <1>8 DEF Interpolated, Image
<1>10. Cut(rise, gap) * elapsed \in Int
  BY <1>5, CutInt
<1> QED
  BY <1>3, <1>9, <1>10, WrapAdds

\* A copy that reaches back to the window's start answers like the contract.
LEMMA ObserveAnswers ==
  ASSUME RingOK, HistoryOK, NEW known, known \subseteq DOMAIN ring, place \in known,
         NEW now \in Int, clock <= now, Comparable(now), NEW ago \in Nat, NEW price \in Int,
         ago <= now - Newest.at \/ Reaches(known, now, ago)
  PROVE  Observe(CopyOf(known), now % TimeWrap, ago, price)
           = [Answer(now, ago, price) EXCEPT !.sum = Wrap(@)]
<1> DEFINE o == CopyOf(known)
           stops == Stops(o, now % TimeWrap, ago)
           Old(j) == now - Past(j).at >= ago
<1>0. /\ Held \in 1..Size /\ Size \in Nat /\ DOMAIN ring = 0..(Size - 1)
      /\ Past(0) = Newest /\ 0 \in 0..(Held - 1) /\ Slot(0) = place
  BY RingBackwards DEF RingOK
<1>1. \A j \in 0..(Held - 1) : Past(j).at \in Int
  BY PastRises
<1>2. CASE Old(0)
  <2>1. now - Newest.at >= ago
    BY <1>0, <1>2
  <2>2. Observe(o, now % TimeWrap, ago, price) =
           [kind |-> "sum", sum |-> Wrap(Newest.sum + price * (now - Newest.at - ago))]
    BY <2>1, ObserveNewest
  <2>3. Answer(now, ago, price) =
           [kind |-> "sum", sum |-> Newest.sum + price * (now - Newest.at - ago)]
    BY <2>1, AnswerNewest
  <2> QED
    BY <2>2, <2>3
<1>3. CASE ~Old(0)
  <2>0. AgeOf(o, now % TimeWrap) = now - Newest.at /\ AgeOf(o, now % TimeWrap) \in Int
        /\ ~(ago <= AgeOf(o, now % TimeWrap)) /\ Reaches(known, now, ago)
    <3>1. o.slots[o.index] = Image(Past(0))
      BY <1>0, CopyFacts
    <3>2. AgeOf(o, now % TimeWrap) = now - Past(0).at
      BY <1>0, <3>1, AgeExact DEF AgeOf
    <3>3. now - Past(0).at \in Int /\ ~(ago <= now - Past(0).at)
      BY <1>0, <1>1, <1>3
    <3> QED
      BY <1>0, <3>2, <3>3
  <2>1. stops = {j \in 1..(Size - 1) : Slot(j) \notin known \/ (j < Held /\ Old(j))}
    BY StopsAt
  <2>2. o.known = known /\ \A j \in 0..(Size - 1) : Back(o, j) = Slot(j)
    BY CopyFacts
  <2>3. Observe(o, now % TimeWrap, ago, price) =
           IF stops = {} THEN [kind |-> "unavailable", sum |-> 0]
           ELSE IF Back(o, Min(stops)) \notin known THEN [kind |-> "error", sum |-> 0]
           ELSE [kind |-> "sum", sum |-> Interpolated(o, now % TimeWrap, ago, Min(stops))]
    BY <2>0, <2>2, ObserveCases
  <2>4. CASE \A j \in 0..(Held - 1) : ~Old(j)
    <3>1. DOMAIN ring \subseteq known
      <4> SUFFICES ASSUME NEW c \in 0..(Size - 1), ring[Slot(c)] # 0,
                          now - written[ring[Slot(c)]].at >= ago
                   PROVE  FALSE
        BY <2>0 DEF Reaches
      <4>1. c < Held
        BY RingBackwards
      <4>2. c \in 0..(Held - 1)
        BY <1>0, <4>1
      <4>3. Old(c)
        BY <4>2, RingBackwards
      <4> QED
        BY <2>4, <4>2, <4>3
    <3>2. stops = {}
      <4> SUFFICES ASSUME NEW j \in 1..(Size - 1), Slot(j) \notin known \/ (j < Held /\ Old(j))
                   PROVE  FALSE
        BY <2>1
      <4>1. j \in 0..(Size - 1) /\ (j < Held => j \in 0..(Held - 1))
        BY <1>0
      <4>2. Slot(j) \in known
        BY <3>1, <4>1, <1>0, SlotBehind
      <4> QED
        BY <2>4, <4>1, <4>2
    <3>3. Answer(now, ago, price) = [kind |-> "unavailable", sum |-> 0]
      <4>1. \A j \in 0..(Held - 1) : now - Past(j).at < ago
        BY <1>1, <2>4
      <4> QED
        BY <4>1, AnswerNone
    <3>4. Wrap(0) = 0
      BY OracleAssumption, WrapSmall
    <3> QED
      BY <2>3, <3>2, <3>3, <3>4
  <2>5. CASE \E j \in 0..(Held - 1) : Old(j)
    <3> DEFINE T == {j \in 0..(Held - 1) : Old(j)}
    <3>1. T \subseteq Nat /\ T # {}
      BY <1>0, <2>5
    <3>2. PICK f \in T : \A j \in T : f <= j
      BY <3>1, Least
    <3>3. f \in 1..(Held - 1) /\ f \in 1..(Size - 1) /\ Old(f)
      BY <1>0, <1>3, <3>2
    <3>4. \A j \in 0..(Held - 1) : j < f => ~Old(j)
      BY <3>2, <3>3
    <3>5. \A j \in 0..f : Slot(j) \in known
      <4>1. \A j \in 0..f : j \in 0..(Size - 1)
        BY <1>0, <3>3
      <4>2. CASE DOMAIN ring \subseteq known
        BY <4>1, <4>2, <1>0, SlotBehind
      <4>3. CASE ~(DOMAIN ring \subseteq known)
        <5>1. PICK c \in 0..(Size - 1) : /\ ring[Slot(c)] # 0
                                         /\ now - written[ring[Slot(c)]].at >= ago
                                         /\ \A j \in 0..c : Slot(j) \in known
          BY <2>0, <4>3 DEF Reaches
        <5>2. c < Held
          BY <5>1, RingBackwards
        <5>3. c \in 0..(Held - 1)
          BY <1>0, <5>2
        <5>4. Old(c)
          BY <5>1, <5>3, RingBackwards
        <5>5. f <= c
          BY <3>2, <5>3, <5>4
        <5>6. \A j \in 0..f : j \in 0..c
          BY <3>3, <5>3, <5>5
        <5> QED
          BY <5>1, <5>6
      <4> QED
        BY <4>2, <4>3
    <3>6. Min(stops) = f /\ stops # {}
      <4>1. f \in stops
        <5>1. f < Held
          BY <1>0, <3>3
        <5> QED
          BY <2>1, <3>3, <5>1
      <4>2. ASSUME NEW j \in stops PROVE f <= j
        <5>1. j \in 1..(Size - 1) /\ (Slot(j) \notin known \/ (j < Held /\ Old(j)))
          BY <2>1, <4>2
        <5>2. CASE j \in 0..f
          <6>1. j < Held /\ Old(j)
            BY <3>5, <5>1, <5>2
          <6>2. j \in T
            BY <1>0, <5>1, <6>1
          <6> QED
            BY <3>2, <6>2
        <5>3. CASE j \notin 0..f
          BY <3>3, <5>1, <5>3
        <5> QED
          BY <5>2, <5>3
      <4>3. stops \subseteq Nat
        BY <2>1
      <4> HIDE DEF stops
      <4>4. Min(stops) \in stops /\ Min(stops) <= f
        BY <4>1, <4>3, SmallestOf
      <4>5. f <= Min(stops) /\ Min(stops) \in Nat
        BY <4>2, <4>3, <4>4
      <4> QED
        BY <4>1, <4>4, <4>5, <3>3
    <3>7. Back(o, f) \in known
      <4>1. f \in 0..f /\ f \in 0..(Size - 1)
        BY <3>3
      <4> QED
        BY <2>2, <3>5, <4>1
    <3>8. f - 1 \in 0..(Held - 1) /\ f - 1 < f
      BY <1>0, <3>3
    <3>9. now - Past(f).at >= ago /\ now - Past(f - 1).at < ago
      <4>1. ~Old(f - 1)
        BY <3>4, <3>8
      <4> QED
        BY <1>1, <3>3, <3>8, <4>1
    <3> DEFINE sum == Past(f).sum
                        + Cut(Past(f - 1).sum - Past(f).sum, Past(f - 1).at - Past(f).at)
                            * (now - ago - Past(f).at)
    <3>10. Answer(now, ago, price) = [kind |-> "sum", sum |-> sum]
      BY <3>3, <3>9, AnswerBetween
    <3>11. Interpolated(o, now % TimeWrap, ago, f) = Wrap(sum)
      BY <3>3, <3>5, <3>9, BetweenExact
    <3> HIDE DEF sum, stops, o
    <3>12. Observe(o, now % TimeWrap, ago, price) = [kind |-> "sum", sum |-> Wrap(sum)]
      BY <2>3, <3>6, <3>7, <3>11
    <3>13. [Answer(now, ago, price) EXCEPT !.sum = Wrap(@)] = [kind |-> "sum", sum |-> Wrap(sum)]
      BY <3>10
    <3> QED
      BY <3>12, <3>13 DEF o
  <2> QED
    BY <2>4, <2>5
<1> QED
  BY <1>2, <1>3

\* If observe finds no gap in what is known, the copy reaches back to the window's start.
LEMMA ObserveReaches ==
  ASSUME RingOK, HistoryOK, NEW known, known \subseteq DOMAIN ring, place \in known,
         NEW now \in Int, clock <= now, Comparable(now), NEW ago \in Nat, NEW price \in Int,
         Observe(CopyOf(known), now % TimeWrap, ago, price).kind # "error"
  PROVE  Reaches(known, now, ago)
<1> DEFINE o == CopyOf(known)
           stops == Stops(o, now % TimeWrap, ago)
           Old(j) == now - Past(j).at >= ago
<1>0. /\ Held \in 1..Size /\ Size \in Nat /\ DOMAIN ring = 0..(Size - 1)
      /\ Past(0) = Newest /\ 0 \in 0..(Held - 1) /\ Slot(0) = place
  BY RingBackwards DEF RingOK
<1>1. \A j \in 0..(Held - 1) : Past(j).at \in Int
  BY PastRises
<1>2. ASSUME NEW c \in 0..(Held - 1), Old(c), \A j \in 0..c : Slot(j) \in known
      PROVE  Reaches(known, now, ago)
  <2>1. c \in 0..(Size - 1) /\ ring[Slot(c)] # 0 /\ written[ring[Slot(c)]] = Past(c)
    BY RingBackwards
  <2> QED
    BY <1>2, <2>1 DEF Reaches
<1>3. CASE Old(0)
  <2>1. \A j \in 0..0 : Slot(j) \in known
    BY <1>0
  <2> QED
    BY <1>0, <1>2, <1>3, <2>1
<1>4. CASE ~Old(0)
  <2>0. AgeOf(o, now % TimeWrap) \in Int /\ ~(ago <= AgeOf(o, now % TimeWrap))
    <3>1. o.slots[o.index] = Image(Past(0))
      BY <1>0, CopyFacts
    <3>2. AgeOf(o, now % TimeWrap) = now - Past(0).at
      BY <1>0, <3>1, AgeExact DEF AgeOf
    <3>3. now - Past(0).at \in Int /\ ~(ago <= now - Past(0).at)
      BY <1>0, <1>1, <1>4
    <3> QED
      BY <3>2, <3>3
  <2>1. stops = {j \in 1..(Size - 1) : Slot(j) \notin known \/ (j < Held /\ Old(j))}
    BY StopsAt
  <2>2. o.known = known /\ \A j \in 0..(Size - 1) : Back(o, j) = Slot(j)
    BY CopyFacts
  <2>3. stops = {} \/ Back(o, Min(stops)) \in known
    <3> HIDE DEF stops
    <3>1. ASSUME stops # {}, Back(o, Min(stops)) \notin known PROVE FALSE
      <4>1. Observe(o, now % TimeWrap, ago, price) = [kind |-> "error", sum |-> 0]
        BY <2>0, <2>2, <3>1, ObserveCases DEF stops
      <4> QED
        BY <4>1
    <3> QED
      BY <3>1
  <2>4. CASE stops = {}
    <3>1. ASSUME NEW i \in DOMAIN ring PROVE i \in known
      <4>1. Behind(i) \in 0..(Size - 1) /\ Slot(Behind(i)) = i
        BY <1>0, SlotBehind
      <4>2. CASE Behind(i) = 0
        BY <1>0, <4>1, <4>2
      <4>3. CASE Behind(i) # 0
        <5>1. Behind(i) \in 1..(Size - 1)
          BY <1>0, <4>1, <4>3
        <5> QED
          BY <2>1, <2>4, <4>1, <5>1
      <4> QED
        BY <4>2, <4>3
    <3> QED
      BY <3>1 DEF Reaches
  <2>5. CASE stops # {} /\ Back(o, Min(stops)) \in known
    <3> DEFINE f == Min(stops)
    <3>1. stops \subseteq Nat
      BY <2>1
    <3>2. f \in stops /\ \A j \in stops : f <= j
      <4> HIDE DEF stops
      <4> QED
        BY <2>5, <3>1, SmallestOf
    <3> HIDE DEF f
    <3>3. f \in 1..(Size - 1) /\ (Slot(f) \notin known \/ (f < Held /\ Old(f)))
      BY <2>1, <3>2
    <3>4. f \in 0..(Size - 1)
      BY <3>3
    <3>5. Slot(f) \in known
      BY <2>2, <2>5, <3>4 DEF f
    <3>6. f \in 0..(Held - 1) /\ Old(f)
      BY <1>0, <3>3, <3>5
    <3>7. ASSUME NEW j \in 0..f PROVE Slot(j) \in known
      <4>1. CASE j = 0
        BY <1>0, <4>1
      <4>2. CASE j = f
        BY <3>5, <4>2
      <4>3. CASE j # 0 /\ j # f
        <5>1. j \in 1..(Size - 1) /\ ~(f <= j)
          BY <1>0, <3>3, <4>3
        <5>2. j \notin stops
          BY <3>2, <5>1
        <5> QED
          BY <2>1, <5>1, <5>2
      <4> QED
        BY <4>1, <4>2, <4>3
    <3> QED
      BY <3>6, <3>7, <1>2
  <2> QED
    BY <2>3, <2>4, <2>5
<1> QED
  BY <1>3, <1>4

-----------------------------------------------------------------------------
(* The steps. *)

\* The contract starts with one observation and no copy.
LEMMA InitOracle == OracleInit => OracleInv
<1> SUFFICES ASSUME OracleInit PROVE OracleInv
  OBVIOUS
<1>0. /\ TimeWrap \in Nat \ {0} /\ FirstTime \in Nat /\ FirstSum \in Int
  BY OracleAssumption
<1>1. /\ clock = FirstTime /\ poolTick \in TickSteps /\ secondsAgo \in Windows /\ captured = 0
      /\ written = <<[at |-> FirstTime, sum |-> FirstSum]>>
      /\ ring = [i \in {0} |-> 1] /\ place = 0 /\ room = 1
  BY DEF OracleInit
<1>2. DOMAIN ring = 0..0 /\ Size = 1 /\ ring[0] = 1
  <2>1. DOMAIN ring = 0..0
    BY <1>1
  <2>2. Cardinality(0..0) = IF 0 > 0 THEN 0 ELSE 0 - 0 + 1
    <3> 0 \in Int
      OBVIOUS
    <3> QED
      BY FS_Interval
  <2> QED
    BY <1>1, <2>1, <2>2 DEF Size
<1>3. Held = 1 /\ Behind(0) = 0 /\ Len(written) = 1 /\ written[1] = [at |-> FirstTime, sum |-> FirstSum]
  BY <1>1, <1>2 DEF Held, Behind
<1>4. RingOK
  BY <1>1, <1>2, <1>3 DEF RingOK
<1>5. HistoryOK
  <2>1. written \in Seq([at : Int, sum : Int])
    <3>1. [at |-> FirstTime, sum |-> FirstSum] \in [at : Int, sum : Int]
      BY <1>0
    <3> QED
      BY <1>1, <3>1
  <2>2. Comparable(clock)
    BY <1>0, <1>1 DEF Comparable
  <2> QED
    BY <1>0, <1>1, <1>3, <2>1, <2>2 DEF HistoryOK
<1> QED
  BY <1>1, <1>4, <1>5 DEF OracleInv, CopyOK

\* The larger of the ring's size and what it may grow to is the latter.
LEMMA GrownSize ==
  ASSUME RingOK PROVE Max({Size, room}) = room
<1>1. Size \in Nat /\ room \in Nat /\ Size <= room
  BY DEF RingOK
<1> QED
  BY <1>1 DEF Max

\* The size of the ring after the next observation.
NextSize == IF place = Size - 1 THEN room ELSE Size

\* What an observation in a new block changes.
LEMMA Writes ==
  ASSUME RingOK, HistoryOK, NEW t \in Int, t # Newest.at, ContractWrites(t)
  PROVE  /\ NextSize \in Nat \ {0} /\ Size <= NextSize /\ Size' = NextSize
         /\ DOMAIN ring' = 0..(NextSize - 1) /\ place' \in 0..(NextSize - 1)
         /\ place' = (place + 1) % NextSize
         /\ place' = IF place < Size - 1 \/ Size < NextSize THEN place + 1 ELSE 0
         /\ ring'[place'] = Len(written) + 1
         /\ \A i \in 0..(NextSize - 1) :
               i # place' => ring'[i] = IF i < Size THEN ring[i] ELSE 0
         /\ written' = Append(written, [at |-> t, sum |-> SumAt(t, Newest, poolTick)])
<1>0. /\ Size \in Nat \ {0} /\ place \in 0..(Size - 1) /\ room \in Nat /\ Size <= room
  BY DEF RingOK
<1>1. NextSize \in Nat \ {0} /\ Size <= NextSize
  BY <1>0 DEF NextSize
<1>2. /\ written' = Append(written, [at |-> t, sum |-> SumAt(t, Newest, poolTick)])
      /\ place' = (place + 1) % NextSize
      /\ ring' = [i \in 0..(NextSize - 1) |->
                    IF i = place' THEN Len(written') ELSE IF i < Size THEN ring[i] ELSE 0]
  BY GrownSize DEF ContractWrites, NextSize
<1>3. DOMAIN ring' = 0..(NextSize - 1)
  BY <1>2
<1>4. Size' = NextSize
  <2>1. Cardinality(0..(NextSize - 1)) = NextSize
    BY <1>1, FS_Interval, 0 \in Int, NextSize - 1 \in Int
  <2> QED
    BY <1>3, <2>1 DEF Size
<1>5. place' = IF place < Size - 1 \/ Size < NextSize THEN place + 1 ELSE 0
  <2>1. CASE place < Size - 1 \/ Size < NextSize
    <3>1. place + 1 \in 0..(NextSize - 1)
      BY <1>0, <1>1, <2>1
    <3> QED
      BY <1>1, <1>2, <2>1, <3>1, SmallRemainder
  <2>2. CASE ~(place < Size - 1 \/ Size < NextSize)
    <3> DEFINE m == NextSize
    <3>1. m \in Nat \ {0} /\ place + 1 = 0 + 1 * m /\ 0 \in 0..(m - 1) /\ 0 + 1 * m \in Int
      BY <1>0, <1>1, <2>2
    <3> HIDE DEF m
    <3>2. (0 + 1 * m) % m = 0 % m /\ 0 % m = 0
      BY <3>1, Remainder, SmallRemainder, 0 \in Int, 1 \in Int
    <3> QED
      BY <1>2, <2>2, <3>1, <3>2 DEF m
  <2> QED
    BY <2>1, <2>2
<1>6. place' \in 0..(NextSize - 1)
  BY <1>0, <1>1, <1>5
<1>7. Len(written') = Len(written) + 1
  BY <1>2 DEF HistoryOK
<1> QED
  BY <1>1, <1>2, <1>3, <1>4, <1>5, <1>6, <1>7

\* The list of observations stays a history.
LEMMA HistoryGrows ==
  ASSUME RingOK, HistoryOK, NEW t \in Int, clock <= t, Comparable(t), clock' = t,
         poolTick' \in TickSteps, ContractWrites(t)
  PROVE  HistoryOK' /\ Newest.at <= t
<1>0. /\ clock \in Int /\ FirstTime <= clock /\ FirstTime \in Int /\ Len(written) \in Nat \ {0}
      /\ poolTick \in Int /\ poolTick \in TickSteps
  BY OracleAssumption DEF HistoryOK
<1>1. Newest \in [at : Int, sum : Int] /\ Newest.at <= clock
  <2>1. Len(written) \in 1..Len(written)
    BY <1>0
  <2> QED
    BY <2>1, Recorded DEF Newest, HistoryOK
<1>2. CASE t = Newest.at
  <2>1. UNCHANGED written
    BY <1>2 DEF ContractWrites
  <2>2. clock = t
    BY <1>0, <1>1, <1>2
  <2> QED
    BY <1>1, <1>2, <2>1, <2>2 DEF HistoryOK
<1>3. CASE t # Newest.at
  <2> DEFINE o == [at |-> t, sum |-> SumAt(t, Newest, poolTick)]
             n == Len(written)
  <2>1. o.at = t /\ o.sum = Newest.sum + poolTick * (t - Newest.at) /\ o \in [at : Int, sum : Int]
    BY <1>0, <1>1 DEF SumAt
  <2>2. written' = Append(written, o)
    BY <1>3, Writes
  <2>3. Newest.at < t
    BY <1>0, <1>1, <1>3
  <2> HIDE DEF o
  <2>4. written' \in Seq([at : Int, sum : Int])
    BY <2>1, <2>2 DEF HistoryOK
  <2>5. Len(written') = n + 1 /\ written'[n + 1] = o /\ \A i \in 1..n : written'[i] = written[i]
    BY <2>2, <1>0 DEF HistoryOK
  <2>6. \A i \in 1..n : FirstTime <= written[i].at /\ written[i].at <= clock /\ written[i].at \in Int
    BY Recorded DEF HistoryOK
  <2>7. ASSUME NEW i \in 1..(n + 1)
        PROVE  FirstTime <= written'[i].at /\ written'[i].at <= t
    <3>1. CASE i = n + 1
      BY <2>1, <2>5, <3>1, <1>0
    <3>2. CASE i # n + 1
      <4>1. i \in 1..n
        BY <1>0, <3>2
      <4> QED
        BY <2>5, <2>6, <4>1, <1>0
    <3> QED
      BY <3>1, <3>2
  <2>8. ASSUME NEW i \in 1..(n + 1), NEW k \in 1..(n + 1), i < k
        PROVE  written'[i].at < written'[k].at
    <3>1. i \in 1..n
      BY <1>0, <2>8
    <3>2. CASE k = n + 1
      <4>1. written[i].at <= Newest.at
        <5>1. CASE i = n
          BY <1>1, <5>1 DEF Newest
        <5>2. CASE i # n
          <6>1. i < n /\ n \in 1..n
            BY <1>0, <3>1, <5>2
          <6>2. written[i].at < written[n].at
            BY <3>1, <6>1 DEF HistoryOK
          <6> QED
            BY <6>2, <1>1, <2>6, <3>1 DEF Newest
        <5> QED
          BY <5>1, <5>2
      <4> QED
        BY <2>1, <2>3, <2>5, <2>6, <3>1, <3>2, <4>1, <1>1
    <3>3. CASE k # n + 1
      <4>1. k \in 1..n
        BY <1>0, <3>3
      <4> QED
        BY <2>5, <2>8, <3>1, <4>1 DEF HistoryOK
    <3> QED
      BY <3>2, <3>3
  <2>9. ASSUME NEW i \in 1..n
        PROVE  \E tick \in TickSteps :
                  written'[i + 1].sum - written'[i].sum = tick * (written'[i + 1].at - written'[i].at)
    <3>1. CASE i = n
      <4>1. written'[i] = Newest /\ written'[i + 1] = o
        BY <2>5, <3>1, <1>0 DEF Newest
      <4>2. o.sum - Newest.sum = poolTick * (o.at - Newest.at)
        <5>1. poolTick * (t - Newest.at) \in Int
          BY <1>0, <1>1
        <5> QED
          BY <2>1, <1>1, <5>1
      <4> QED
        BY <4>1, <4>2, <1>0
    <3>2. CASE i # n
      <4>1. i \in 1..(n - 1) /\ i + 1 \in 1..n
        BY <1>0, <3>2
      <4>2. written'[i] = written[i] /\ written'[i + 1] = written[i + 1]
        BY <2>5, <4>1
      <4> QED
        BY <4>1, <4>2 DEF HistoryOK
    <3> QED
      BY <3>1, <3>2
  <2>10. n + 1 \in Nat \ {0} /\ n + 1 - 1 = n /\ FirstTime <= t
    BY <1>0
  <2>11. /\ \A i \in 1..Len(written') : FirstTime <= written'[i].at /\ written'[i].at <= t
         /\ \A i, k \in 1..Len(written') : i < k => written'[i].at < written'[k].at
         /\ \A i \in 1..(Len(written') - 1) : \E tick \in TickSteps :
              written'[i + 1].sum - written'[i].sum = tick * (written'[i + 1].at - written'[i].at)
    BY <2>5, <2>7, <2>8, <2>9, <2>10
  <2>12. /\ clock' \in Int /\ FirstTime <= clock' /\ Comparable(clock')
         /\ Len(written') \in Nat \ {0}
    BY <2>5, <2>10
  <2>13. \A i \in 1..Len(written') : FirstTime <= written'[i].at /\ written'[i].at <= clock'
    BY <2>11
  <2>14. HistoryOK'
    BY ONLY <2>4, <2>11, <2>12, <2>13, poolTick' \in TickSteps, Zenon DEF HistoryOK, Comparable
  <2> QED
    BY <1>1, <2>3, <2>14
<1> QED
  BY <1>2, <1>3

\* The ring goes on holding the newest observations in their order.
LEMMA RingFollows ==
  ASSUME RingOK, HistoryOK, NEW t \in Int, t # Newest.at, ContractWrites(t), room' = room
  PROVE  RingOK'
<1> DEFINE n == Len(written)
           s == Size
           p == place
           h == Held
           z == NextSize
<1>0. /\ s \in Nat \ {0} /\ p \in 0..(s - 1) /\ room \in Nat /\ s <= room /\ n \in Nat \ {0}
      /\ h \in 1..s /\ h <= n
  BY RingBackwards DEF RingOK, HistoryOK
<1>1. /\ z \in Nat \ {0} /\ s <= z /\ Size' = z /\ DOMAIN ring' = 0..(z - 1) /\ place' \in 0..(z - 1)
      /\ place' = IF p < s - 1 \/ s < z THEN p + 1 ELSE 0
      /\ ring'[place'] = n + 1
      /\ \A i \in 0..(z - 1) : i # place' => ring'[i] = IF i < s THEN ring[i] ELSE 0
  BY Writes
<1>15. z = IF p = s - 1 THEN room ELSE s
  BY DEF NextSize
<1>2. Len(written') = n + 1
  <2>1. written' = Append(written, [at |-> t, sum |-> SumAt(t, Newest, poolTick)])
    BY Writes
  <2> QED
    BY <2>1 DEF HistoryOK
<1>3. \A i \in 0..(s - 1) : ring[i] = IF i <= p
                                      THEN (IF p - i < h THEN n - (p - i) ELSE 0)
                                      ELSE (IF p - i + s < h THEN n - (p - i + s) ELSE 0)
  BY DEF RingOK, Behind
<1>4. h = IF ring[s - 1] = 0 THEN p + 1 ELSE s
  BY DEF Held
<1>5. Held' = IF ring'[z - 1] = 0 THEN place' + 1 ELSE z
  BY <1>1 DEF Held
<1>6. Behind(0)' = Behind(0)' /\ \A i \in 0..(z - 1) :
         Behind(i)' = IF i <= place' THEN place' - i ELSE place' - i + z
  BY <1>1 DEF Behind
<1> HIDE DEF n, s, p, h, z
<1>7. s - 1 \in 0..(s - 1) /\ z - 1 \in 0..(z - 1)
  BY <1>0, <1>1
\* The slots below the newest are filled; above it all are, or none.
<1>8. h = p + 1 \/ h = s
  BY <1>4
<1>9. p = s - 1 => h = s
  BY <1>0, <1>8
<1>10. Held' = IF p < s - 1 THEN (IF h = s \/ p + 1 = s - 1 THEN s ELSE p + 2)
               ELSE IF s < z THEN s + 1 ELSE s
  <2>1. CASE p < s - 1
    <3>1. z = s /\ place' = p + 1
      BY <1>0, <1>1, <1>15, <2>1
    <3>2. CASE p + 1 = s - 1
      <4>1. ring'[z - 1] = n + 1
        BY <1>1, <3>1, <3>2
      <4> QED
        BY <1>0, <1>5, <2>1, <3>1, <3>2, <4>1
    <3>3. CASE p + 1 # s - 1
      <4>1. ring'[z - 1] = ring[s - 1]
        <5>1. z - 1 # place' /\ z - 1 < s
          BY <1>0, <3>1, <3>3
        <5> QED
          BY <1>1, <1>7, <3>1, <5>1
      <4>2. (ring[s - 1] = 0) <=> (h # s)
        BY <1>0, <1>4, <2>1
      <4> QED
        BY <1>0, <1>5, <2>1, <3>1, <3>3, <4>1, <4>2
    <3> QED
      BY <3>2, <3>3
  <2>2. CASE p = s - 1 /\ s < z
    <3>1. place' = s
      BY <1>0, <1>1, <2>2
    <3>2. CASE z = s + 1
      <4>1. ring'[z - 1] = n + 1
        BY <1>0, <1>1, <3>1, <3>2
      <4> QED
        BY <1>0, <1>5, <2>2, <3>1, <3>2, <4>1
    <3>3. CASE z # s + 1
      <4>1. z - 1 # place' /\ ~(z - 1 < s)
        BY <1>0, <1>1, <2>2, <3>1, <3>3
      <4>2. ring'[z - 1] = 0
        BY <1>1, <1>7, <4>1
      <4> QED
        BY <1>0, <1>5, <2>2, <3>1, <4>2
    <3> QED
      BY <3>2, <3>3
  <2>3. CASE p = s - 1 /\ ~(s < z)
    <3>1. place' = 0 /\ z = s
      BY <1>0, <1>1, <2>3
    <3>2. CASE s = 1
      <4>1. ring'[z - 1] = n + 1
        BY <1>0, <1>1, <3>1, <3>2
      <4> QED
        BY <1>0, <1>5, <2>3, <3>1, <3>2, <4>1
    <3>3. CASE s # 1
      <4>1. z - 1 # place' /\ z - 1 < s
        BY <1>0, <3>1, <3>3
      <4>2. ring'[z - 1] = ring[s - 1]
        BY <1>1, <1>7, <3>1, <4>1
      <4>3. ring[s - 1] = n
        BY <1>0, <1>3, <1>7, <1>9, <2>3
      <4> QED
        BY <1>0, <1>5, <2>3, <3>1, <4>2, <4>3
    <3> QED
      BY <3>2, <3>3
  <2> QED
    BY <1>0, <2>1, <2>2, <2>3
<1>11. Held' <= n + 1
  BY <1>0, <1>1, <1>8, <1>9, <1>10
<1>12. z <= room /\ room' \in Nat /\ z <= room'
  BY <1>0, <1>15
<1>13. ASSUME NEW i \in 0..(z - 1)
       PROVE  ring'[i] = IF Behind(i)' < Held' THEN (n + 1) - Behind(i)' ELSE 0
  <2>1. Behind(i)' = IF i <= place' THEN place' - i ELSE place' - i + z
    BY <1>6
  <2>2. CASE i = place'
    <3>1. Behind(i)' = 0 /\ 0 < Held'
      BY <1>0, <1>1, <1>10, <2>1, <2>2
    <3> QED
      BY <1>0, <1>1, <2>2, <3>1
  <2>3. CASE i # place' /\ p < s - 1
    <3>1. z = s /\ place' = p + 1 /\ ring'[i] = ring[i] /\ i \in 0..(s - 1)
      BY <1>0, <1>1, <1>15, <2>3
    <3>2. CASE i <= p
      <4>1. ring[i] = n - (p - i)
        BY <1>0, <1>3, <1>8, <3>1, <3>2, <2>3
      <4> QED
        BY <1>0, <1>8, <1>10, <2>1, <2>3, <3>1, <3>2, <4>1
    <3>3. CASE i > p
      <4>1. ring[i] = IF p - i + s < h THEN n - (p - i + s) ELSE 0
        BY <1>0, <1>3, <3>1, <3>3
      <4>2. Behind(i)' = p + 1 - i + s
        BY <1>0, <2>1, <2>3, <3>1, <3>3
      <4> QED
        BY <1>0, <1>8, <1>10, <2>3, <3>1, <3>3, <4>1, <4>2
    <3> QED
      BY <1>0, <3>1, <3>2, <3>3
  <2>4. CASE i # place' /\ p = s - 1 /\ s < z
    <3>1. place' = s
      BY <1>0, <1>1, <2>4
    <3>2. CASE i < s
      <4>1. ring'[i] = ring[i] /\ i \in 0..(s - 1) /\ i <= p
        BY <1>0, <1>1, <2>4, <3>2
      <4>2. ring[i] = n - (p - i)
        BY <1>0, <1>3, <1>9, <2>4, <4>1
      <4> QED
        BY <1>0, <1>10, <2>1, <2>4, <3>1, <3>2, <4>1, <4>2
    <3>3. CASE ~(i < s)
      <4>1. ring'[i] = 0
        BY <1>1, <2>4, <3>3
      <4> QED
        BY <1>0, <1>1, <1>10, <2>1, <2>4, <3>1, <3>3, <4>1
    <3> QED
      BY <3>2, <3>3
  <2>5. CASE i # place' /\ p = s - 1 /\ ~(s < z)
    <3>1. place' = 0 /\ z = s
      BY <1>0, <1>1, <2>5
    <3>2. ring'[i] = ring[i] /\ i \in 0..(s - 1) /\ i <= p /\ i > 0
      BY <1>0, <1>1, <2>5, <3>1
    <3>3. ring[i] = n - (p - i)
      BY <1>0, <1>3, <1>9, <2>5, <3>2
    <3> QED
      BY <1>0, <1>10, <2>1, <2>5, <3>1, <3>2, <3>3
  <2> QED
    BY <1>0, <2>2, <2>3, <2>4, <2>5
<1>14. /\ Size' \in Nat \ {0} /\ DOMAIN ring' = 0..(Size' - 1)
       /\ place' \in 0..(Size' - 1) /\ room' \in Nat /\ Size' <= room'
       /\ Held' <= Len(written')
       /\ \A i \in 0..(Size' - 1) :
             ring'[i] = IF Behind(i)' < Held' THEN Len(written') - Behind(i)' ELSE 0
  BY <1>1, <1>2, <1>11, <1>12, <1>13
<1> QED
  BY <1>14 DEF RingOK

\* Places behind the newest move on by one with it.
LEMMA SlotsFollow ==
  ASSUME RingOK, HistoryOK, NEW t \in Int, t # Newest.at, ContractWrites(t), room' = room,
         NEW j \in 0..(Size - 1), j + 1 <= NextSize - 1
  PROVE  (Slot(j + 1))' = Slot(j)
<1>0. /\ Size \in Nat \ {0} /\ place \in 0..(Size - 1) /\ RingOK'
  BY RingFollows DEF RingOK
<1>1. /\ NextSize = IF place = Size - 1 THEN room ELSE Size
      /\ NextSize \in Nat \ {0} /\ Size <= NextSize /\ Size' = NextSize
      /\ place' = IF place < Size - 1 \/ Size < NextSize THEN place + 1 ELSE 0
  BY Writes DEF NextSize
<1>2. j + 1 \in 0..(NextSize - 1)
  BY <1>1
<1>3. (Slot(j + 1))' = (place' - (j + 1) + NextSize) % NextSize
  BY <1>1 DEF Slot
<1>4. (Slot(j + 1))' = IF j + 1 <= place' THEN place' - (j + 1) ELSE place' - (j + 1) + NextSize
  <2>1. place' \in 0..(NextSize - 1)
    BY Writes
  <2> HIDE DEF NextSize
  <2> QED
    BY <1>1, <1>2, <1>3, <2>1, Backwards
<1>5. Slot(j) = IF j <= place THEN place - j ELSE place - j + Size
  BY SlotBehind
<1> HIDE DEF NextSize
<1> QED
  BY <1>0, <1>1, <1>4, <1>5

\* What the copy knows after the next observation: that, and the slots the ring grew by.
KnownNext(known) == known \cup Size..(NextSize - 1) \cup {place'}

\* The copy writes what the contract writes.
LEMMA CopyWrites ==
  ASSUME RingOK, HistoryOK, NEW t \in Int, clock <= t, Comparable(t), t # Newest.at,
         ContractWrites(t), room' = room,
         NEW known, known \subseteq DOMAIN ring, place \in known
  PROVE  WriteCopy(CopyOf(known), t % TimeWrap, poolTick) =
           [slots |-> [i \in DOMAIN ring' |-> IF i \in KnownNext(known) /\ ring'[i] # 0
                                              THEN Image(written'[ring'[i]]) ELSE NoSlot],
            known |-> KnownNext(known), index |-> place', next |-> room']
<1> DEFINE o == CopyOf(known)
           new == [at |-> t, sum |-> SumAt(t, Newest, poolTick)]
           last == Image(Newest)
           K == KnownNext(known)
           S == [i \in DOMAIN ring' |-> IF i \in K /\ ring'[i] # 0
                                        THEN Image(written'[ring'[i]]) ELSE NoSlot]
<1>0. /\ Size \in Nat \ {0} /\ DOMAIN ring = 0..(Size - 1) /\ Len(written) \in Nat \ {0}
      /\ Past(0) = Newest /\ 0 \in 0..(Held - 1)
  BY RingBackwards DEF RingOK, HistoryOK
<1>1. /\ NextSize \in Nat \ {0} /\ Size <= NextSize
      /\ DOMAIN ring' = 0..(NextSize - 1) /\ place' \in 0..(NextSize - 1)
      /\ place' = (place + 1) % NextSize
      /\ ring'[place'] = Len(written) + 1
      /\ \A i \in 0..(NextSize - 1) :
            i # place' => ring'[i] = IF i < Size THEN ring[i] ELSE 0
      /\ written' = Append(written, new)
  BY Writes
<1>2. /\ Slots(o) = Size /\ o.index = place /\ o.next = room /\ o.known = known
      /\ o.slots[place] = last
      /\ \A i \in DOMAIN ring : o.slots[i] = IF i \in known /\ ring[i] # 0
                                             THEN Image(written[ring[i]]) ELSE NoSlot
  <2>1. Slots(o) = Size /\ o.index = place /\ o.next = room /\ o.known = known
        /\ o.slots[place] = last
    BY CopyFacts
  <2>2. o.slots = [i \in DOMAIN ring |-> IF i \in known /\ ring[i] # 0
                                         THEN Image(written[ring[i]]) ELSE NoSlot]
    BY DEF CopyOf
  <2> QED
    BY <2>1, <2>2
<1>3. Newest.at \in Int /\ Newest.sum \in Int /\ poolTick \in Int
  BY <1>0, PastRises, OracleAssumption DEF HistoryOK
<1>4. Since(t % TimeWrap, last.at) = t - Newest.at /\ t - Newest.at # 0
  BY <1>0, <1>3, AgeExact
<1>5. t % TimeWrap # last.at
  <2>1. ASSUME t % TimeWrap = last.at PROVE FALSE
    <3> DEFINE a == t % TimeWrap
    <3>1. a \in Int /\ TimeWrap \in Nat \ {0}
      BY OracleAssumption, Remainder, 0 \in Int
    <3>2. Since(a, a) = 0 % TimeWrap
      <4> HIDE DEF a
      <4> QED
        BY <3>1 DEF Since
    <3>3. 0 % TimeWrap = 0
      BY <3>1, SmallRemainder, 0 \in 0..(TimeWrap - 1)
    <3> QED
      BY <2>1, <3>2, <3>3, <1>4
  <2> QED
    BY <2>1
<1>6. Image(new) = [at |-> t % TimeWrap, sum |-> Wrap(last.sum + poolTick * Since(t % TimeWrap, last.at)),
                    initialized |-> TRUE]
  <2>1. poolTick * (t - Newest.at) \in Int
    BY <1>3
  <2>2. Wrap(Wrap(Newest.sum) + poolTick * (t - Newest.at)) = Wrap(Newest.sum + poolTick * (t - Newest.at))
    BY <1>3, <2>1, WrapAdds
  <2>3. last.sum = Wrap(Newest.sum)
    BY DEF Image
  <2> QED
    BY <1>4, <2>2, <2>3 DEF Image, SumAt
<1>7. (IF o.index = Slots(o) - 1 THEN Max({Slots(o), o.next}) ELSE Slots(o)) = NextSize
  BY <1>2, GrownSize DEF NextSize
<1> DEFINE T == [i \in 0..(NextSize - 1) |->
                   IF i = place' THEN Image(new)
                   ELSE IF i < Size THEN o.slots[i] ELSE NoSlot]
<1>8. T = S
  <2>1. ASSUME NEW i \in 0..(NextSize - 1)
        PROVE  (IF i = place' THEN Image(new) ELSE IF i < Size THEN o.slots[i] ELSE NoSlot)
                 = IF i \in K /\ ring'[i] # 0 THEN Image(written'[ring'[i]]) ELSE NoSlot
    <3>1. CASE i = place'
      <4>1. i \in K /\ ring'[i] # 0
        BY <1>0, <1>1, <3>1 DEF KnownNext
      <4>2. written'[ring'[i]] = new
        <5> HIDE DEF new
        <5>1. written'[Len(written) + 1] = new
          BY <1>1 DEF HistoryOK
        <5> QED
          BY <5>1, <1>1, <3>1
      <4> QED
        BY <3>1, <4>1, <4>2
    <3>2. CASE i # place' /\ i < Size
      <4>1. i \in DOMAIN ring /\ ring'[i] = ring[i]
        BY <1>0, <1>1, <3>2
      <4>2. i \in K <=> i \in known
        BY <1>0, <1>1, <3>2 DEF KnownNext
      <4>3. ASSUME ring[i] # 0 PROVE written'[ring[i]] = written[ring[i]]
        <5>1. ring[i] \in 1..Len(written)
          <6>1. Behind(i) \in 0..(Size - 1) /\ Slot(Behind(i)) = i
            BY <1>0, <4>1, SlotBehind
          <6>2. ring[i] = IF Behind(i) < Held THEN Len(written) - Behind(i) ELSE 0
            BY <6>1, RingBackwards
          <6>3. Held \in 1..Len(written)
            BY RingBackwards
          <6> QED
            BY <4>3, <6>1, <6>2, <6>3, <1>0
        <5> HIDE DEF new
        <5> QED
          BY <1>1, <5>1 DEF HistoryOK
      <4> QED
        BY <1>2, <3>2, <4>1, <4>2, <4>3
    <3>3. CASE i # place' /\ ~(i < Size)
      <4>1. ring'[i] = 0
        BY <1>1, <3>3
      <4> QED
        BY <3>3, <4>1
    <3> QED
      BY <3>1, <3>2, <3>3
  <2> HIDE DEF K, o, new
  <2> QED
    BY <2>1, <1>1
<1>9. WriteCopy(o, t % TimeWrap, poolTick)
        = [o EXCEPT !.slots = T, !.known = @ \cup Size..(NextSize - 1) \cup {place'}, !.index = place']
  <2> HIDE DEF o, new, last
  <2>1. o.slots[o.index] = last
    BY <1>2
  <2>2. (o.index + 1) % NextSize = place'
    BY <1>1, <1>2
  <2> QED
    BY <1>2, <1>5, <1>6, <1>7, <2>1, <2>2 DEF WriteCopy
<1>10. [o EXCEPT !.slots = T, !.known = @ \cup Size..(NextSize - 1) \cup {place'}, !.index = place']
         = [slots |-> T, known |-> K, index |-> place', next |-> room']
  <2> DEFINE s == [i \in DOMAIN ring |-> IF i \in known /\ ring[i] # 0
                                         THEN Image(written[ring[i]]) ELSE NoSlot]
  <2>1. o = [slots |-> s, known |-> known, index |-> place, next |-> room]
    BY DEF CopyOf
  <2>2. K = known \cup Size..(NextSize - 1) \cup {place'}
    BY DEF KnownNext
  <2> HIDE DEF T, s, o, K
  <2>3. o.known = known
    BY <2>1
  <2> DEFINE k == known \cup Size..(NextSize - 1) \cup {place'}
  <2>4. [o EXCEPT !.slots = T, !.known = @ \cup Size..(NextSize - 1) \cup {place'}, !.index = place']
          = [o EXCEPT !.slots = T, !.known = k, !.index = place']
    BY <2>3
  <2> HIDE DEF k
  <2>5. [o EXCEPT !.slots = T, !.known = k, !.index = place']
          = [slots |-> T, known |-> k, index |-> place', next |-> room]
    <3> DEFINE q == [slots |-> T, known |-> known, index |-> place, next |-> room]
               r == [slots |-> T, known |-> k, index |-> place, next |-> room]
    <3>1. [o EXCEPT !.slots = T] = q
      BY <2>1
    <3>2. [q EXCEPT !.known = k] = r
      OBVIOUS
    <3>3. [r EXCEPT !.index = place'] = [slots |-> T, known |-> k, index |-> place', next |-> room]
      OBVIOUS
    <3> HIDE DEF q, r
    <3> QED
      BY <3>1, <3>2, <3>3
  <2> QED
    BY <2>2, <2>4, <2>5 DEF k
<1> HIDE DEF T, S, o, K
<1>11. WriteCopy(o, t % TimeWrap, poolTick) = [slots |-> S, known |-> K, index |-> place', next |-> room']
  BY <1>8, <1>9, <1>10
<1> QED
  BY <1>11 DEF S, o, K

\* It still reaches back as far.
LEMMA ReachesOn ==
  ASSUME RingOK, HistoryOK, NEW t \in Int, clock <= t, Comparable(t), t # Newest.at,
         ContractWrites(t), room' = room, clock' = t, poolTick' \in TickSteps,
         NEW known, known \subseteq DOMAIN ring, place \in known,
         secondsAgo \in Nat, secondsAgo' = secondsAgo,
         Reaches(known, clock, secondsAgo), copy'.known = KnownNext(known)
  PROVE  Reaches(copy.known, clock, secondsAgo)'
<1> DEFINE K == KnownNext(known)
<1>0. /\ Size \in Nat \ {0} /\ DOMAIN ring = 0..(Size - 1) /\ place \in 0..(Size - 1)
      /\ Len(written) \in Nat \ {0} /\ clock \in Int
  BY DEF RingOK, HistoryOK
<1>1. /\ NextSize \in Nat \ {0} /\ Size <= NextSize /\ Size' = NextSize
      /\ DOMAIN ring' = 0..(NextSize - 1) /\ place' \in 0..(NextSize - 1)
      /\ \A i \in 0..(NextSize - 1) :
            i # place' => ring'[i] = IF i < Size THEN ring[i] ELSE 0
      /\ written' = Append(written, [at |-> t, sum |-> SumAt(t, Newest, poolTick)])
  BY Writes
<1>2. CASE DOMAIN ring \subseteq known
  <2>1. DOMAIN ring' \subseteq K
    BY <1>0, <1>1, <1>2 DEF KnownNext
  <2> QED
    BY <2>1 DEF Reaches
<1>3. CASE ~(DOMAIN ring \subseteq known)
  <2>1. PICK c \in 0..(Size - 1) : /\ ring[Slot(c)] # 0
                                   /\ clock - written[ring[Slot(c)]].at >= secondsAgo
                                   /\ \A j \in 0..c : Slot(j) \in known
    BY <1>3 DEF Reaches
  <2>2. c < Size - 1
    <3>1. CASE c = Size - 1
      <4>1. ASSUME NEW i \in DOMAIN ring PROVE i \in known
        <5>1. Behind(i) \in 0..c /\ Slot(Behind(i)) = i
          BY <1>0, <3>1, SlotBehind
        <5> QED
          BY <2>1, <5>1
      <4> QED
        BY <1>3, <4>1
    <3> QED
      BY <1>0, <3>1
  <2>3. c + 1 \in 0..(NextSize - 1) /\ \A j \in 0..c : j \in 0..(Size - 1) /\ j + 1 <= NextSize - 1
    BY <1>0, <1>1, <2>2
  <2>4. \A j \in 0..c : (Slot(j + 1))' = Slot(j) /\ Slot(j) \in 0..(Size - 1)
    BY <2>3, SlotsFollow, SlotBehind
  <2>5. (Slot(0))' = place'
    <3> DEFINE m == NextSize
               p == place'
    <3>1. (Slot(0))' = (p - 0 + m) % m
      BY <1>1 DEF Slot
    <3>2. m \in Nat \ {0} /\ p \in 0..(m - 1)
      BY <1>1
    <3> HIDE DEF m, p
    <3>3. 0 \in 0..(m - 1) /\ 0 <= p /\ p - 0 = p
      BY <3>2
    <3>4. (p - 0 + m) % m = p
      BY <3>2, <3>3, Backwards
    <3> QED
      BY <3>1, <3>4 DEF p
  <2>6. Slot(c) # place'
    <3> DEFINE m == NextSize
               p == place'
               j == c + 1
    <3>1. (Slot(c + 1))' = (p - j + m) % m
      BY <1>1 DEF Slot
    <3>2. m \in Nat \ {0} /\ p \in 0..(m - 1) /\ j \in 0..(m - 1) /\ j \in 1..(m - 1)
      BY <1>1, <2>1, <2>3
    <3>3. c \in 0..c
      BY <2>1
    <3>4. (Slot(c + 1))' = Slot(c)
      BY <2>4, <3>3
    <3> HIDE DEF m, p, j
    <3>5. (p - j + m) % m = IF j <= p THEN p - j ELSE p - j + m
      BY <3>2, Backwards
    <3>6. (p - j + m) % m # p
      BY <3>2, <3>5
    <3> QED
      BY <3>1, <3>4, <3>6 DEF p
  <2>7. ring'[Slot(c)] = ring[Slot(c)] /\ c \in 0..c
    BY <1>0, <1>1, <2>1, <2>4, <2>6
  <2>8. written'[ring[Slot(c)]] = written[ring[Slot(c)]] /\ written[ring[Slot(c)]].at \in Int
    <3>1. c < Held
      BY <2>1, RingBackwards
    <3>2. c \in 0..(Held - 1)
      BY <2>1, <3>1, RingBackwards
    <3>3. ring[Slot(c)] \in 1..Len(written)
      BY <2>1, <3>1, <3>2, RingBackwards
    <3>4. written[ring[Slot(c)]] \in [at : Int, sum : Int]
      BY <3>3, Recorded
    <3> DEFINE new == [at |-> t, sum |-> SumAt(t, Newest, poolTick)]
    <3>5. written' = Append(written, new)
      BY <1>1
    <3> HIDE DEF new
    <3>6. written'[ring[Slot(c)]] = written[ring[Slot(c)]]
      BY <3>3, <3>5 DEF HistoryOK
    <3> QED
      BY <3>4, <3>6
  <2>9. t - written[ring[Slot(c)]].at >= secondsAgo
    BY <1>0, <2>1, <2>8
  <2>10. ASSUME NEW j \in 0..(c + 1) PROVE (Slot(j))' \in K
    <3>1. CASE j = 0
      BY <2>5, <3>1 DEF KnownNext
    <3>2. CASE j # 0
      <4>1. j - 1 \in 0..c /\ (j - 1) + 1 = j
        BY <2>1, <3>2
      <4>2. (Slot((j - 1) + 1))' = Slot(j - 1)
        BY <2>4, <4>1
      <4> QED
        BY <2>1, <4>1, <4>2 DEF KnownNext
    <3> QED
      BY <3>1, <3>2
  <2>11. (Slot(c + 1))' = Slot(c)
    BY <2>4, <2>7
  <2>12. /\ c + 1 \in 0..(Size' - 1)
         /\ ring'[(Slot(c + 1))'] # 0 /\ clock' - written'[ring'[(Slot(c + 1))']].at >= secondsAgo'
         /\ \A j \in 0..(c + 1) : (Slot(j))' \in copy'.known
    BY <1>1, <2>1, <2>3, <2>7, <2>8, <2>9, <2>10, <2>11
  <2> QED
    BY <2>12 DEF Reaches
<1> QED
  BY <1>2, <1>3

\* The windows are natural numbers, the ticks integers.
LEMMA Inputs ==
  ASSUME OracleInv PROVE secondsAgo \in Nat /\ poolTick \in Int /\ clock \in Int
BY OracleAssumption DEF OracleInv, HistoryOK

\* An event of the pool: both rings write the same, or neither does.
LEMMA PoolEventOracle == ASSUME OracleInv, PoolEvent PROVE OracleInv'
<1>0. RingOK /\ HistoryOK /\ CopyOK /\ secondsAgo \in Windows /\ secondsAgo \in Nat
      /\ poolTick \in Int /\ clock \in Int
  BY Inputs DEF OracleInv
<1>1. /\ ContractWrites(clock') /\ Comparable(clock') /\ poolTick' \in TickSteps
      /\ copy' = IF captured = 0 THEN copy ELSE WriteCopy(copy, clock' % TimeWrap, poolTick)
      /\ room' = room /\ secondsAgo' = secondsAgo /\ captured' = captured
  BY DEF PoolEvent
<1>2. clock' \in Int /\ clock <= clock'
  <2>1. PICK gap \in Gaps \cup {0} : clock' = clock + gap
    BY DEF PoolEvent
  <2>2. gap \in Nat
    BY OracleAssumption
  <2> QED
    BY <1>0, <2>1, <2>2
<1>3. HistoryOK' /\ Newest.at <= clock'
  BY <1>0, <1>1, <1>2, HistoryGrows
<1>4. CASE clock' = Newest.at
  <2>1. UNCHANGED <<written, ring, place>>
    BY <1>1, <1>4 DEF ContractWrites
  <2>2. RingOK'
    BY <1>0, <1>1, <2>1 DEF RingOK, Size, Held, Behind
  <2>3. CopyOK'
    <3> SUFFICES ASSUME captured # 0 PROVE CopyOK'
      BY <1>1 DEF CopyOK
    <3>1. /\ copy = CopyOf(copy.known) /\ copy.known \subseteq DOMAIN ring /\ place \in copy.known
          /\ Reaches(copy.known, clock, secondsAgo)
      BY <1>0 DEF CopyOK
    <3>2. copy' = WriteCopy(copy, clock' % TimeWrap, poolTick)
      BY <1>1
    <3>3. copy.slots[copy.index] = Image(Newest)
      BY <1>0, <3>1, CopyFacts
    <3>4. clock' % TimeWrap = copy.slots[copy.index].at
      BY <1>4, <3>3 DEF Image
    <3>5. copy' = copy
      BY <3>2, <3>4 DEF WriteCopy
    <3>6. clock' = clock
      <4>1. Newest.at <= clock /\ Newest.at \in Int
        <5>1. Past(0) = Newest /\ 0 \in 0..(Held - 1)
          BY <1>0, RingBackwards
        <5> QED
          BY <1>0, <5>1, PastRises
      <4> QED
        BY <1>0, <1>2, <1>4, <4>1
    <3>7. CopyOf(copy.known)' = CopyOf(copy.known)
      BY <1>1, <2>1, <3>5 DEF CopyOf
    <3>8. Reaches(copy.known, clock, secondsAgo)' = Reaches(copy.known, clock, secondsAgo)
      BY <1>1, <2>1, <3>5, <3>6 DEF Reaches, Slot, Size
    <3> QED
      BY <3>1, <3>5, <3>7, <3>8, <2>1 DEF CopyOK
  <2> QED
    BY <1>0, <1>1, <1>3, <2>2, <2>3 DEF OracleInv
<1>5. CASE clock' # Newest.at
  <2>1. RingOK'
    BY <1>0, <1>1, <1>2, <1>5, RingFollows
  <2>2. CopyOK'
    <3> SUFFICES ASSUME captured # 0 PROVE CopyOK'
      BY <1>1 DEF CopyOK
    <3> DEFINE known == copy.known
    <3>1. /\ copy = CopyOf(known) /\ known \subseteq DOMAIN ring /\ place \in known
          /\ Reaches(known, clock, secondsAgo)
      BY <1>0 DEF CopyOK
    <3>2. copy' = WriteCopy(copy, clock' % TimeWrap, poolTick)
      BY <1>1
    <3> HIDE DEF known
    <3>3. copy' = [slots |-> [i \in DOMAIN ring' |-> IF i \in KnownNext(known) /\ ring'[i] # 0
                                                     THEN Image(written'[ring'[i]]) ELSE NoSlot],
                   known |-> KnownNext(known), index |-> place', next |-> room']
      BY <1>0, <1>1, <1>2, <1>5, <3>1, <3>2, CopyWrites
    <3>4. copy'.known = KnownNext(known)
      BY <3>3
    <3>5. copy' = CopyOf(copy.known)'
      BY <3>3, <3>4 DEF CopyOf
    <3>6. Reaches(copy.known, clock, secondsAgo)'
      BY <1>0, <1>1, <1>2, <1>5, <3>1, <3>4, ReachesOn
    <3>7. copy'.known \subseteq DOMAIN ring' /\ place' \in copy'.known
      <4>1. DOMAIN ring' = 0..(NextSize - 1) /\ place' \in 0..(NextSize - 1)
            /\ Size \in Nat /\ Size <= NextSize /\ NextSize \in Nat
        BY <1>0, <1>1, <1>2, <1>5, Writes DEF RingOK
      <4>2. DOMAIN ring = 0..(Size - 1)
        BY <1>0 DEF RingOK
      <4>3. known \subseteq 0..(NextSize - 1)
        BY <3>1, <4>1, <4>2
      <4>4. Size..(NextSize - 1) \subseteq 0..(NextSize - 1)
        BY <4>1
      <4> QED
        BY <3>4, <4>1, <4>3, <4>4 DEF KnownNext
    <3> QED
      BY <3>5, <3>6, <3>7 DEF CopyOK
  <2> QED
    BY <1>0, <1>1, <1>3, <2>1, <2>2 DEF OracleInv
<1> QED
  BY <1>4, <1>5

\* A larger ring is announced.
LEMMA RingGrowsOracle == ASSUME OracleInv, RingGrows PROVE OracleInv'
<1>0. RingOK /\ HistoryOK /\ CopyOK /\ secondsAgo \in Windows
  BY DEF OracleInv
<1>1. /\ copy' = IF captured = 0 THEN copy ELSE [copy EXCEPT !.next = room']
      /\ UNCHANGED <<clock, poolTick, written, ring, place, secondsAgo, captured>>
  BY DEF RingGrows
<1>2. room' \in Nat /\ room <= room'
  <2>1. PICK size \in RingSizes : size > room /\ room' = size
    BY DEF RingGrows
  <2>2. size \in Nat /\ room \in Nat
    BY <1>0, OracleAssumption DEF RingOK
  <2> QED
    BY <2>1, <2>2
<1>3. RingOK'
  <2>1. Size' = Size /\ Held' = Held /\ \A i \in 0..(Size - 1) : Behind(i)' = Behind(i)
    BY <1>1 DEF Size, Held, Behind
  <2>2. Size <= room' /\ place' = place /\ ring' = ring /\ written' = written
    BY <1>0, <1>1, <1>2 DEF RingOK
  <2> QED
    BY <1>0, <1>2, <2>1, <2>2 DEF RingOK
<1>4. HistoryOK'
  BY <1>0, <1>1 DEF HistoryOK
<1>5. CopyOK'
  <2> SUFFICES ASSUME captured # 0 PROVE CopyOK'
    BY <1>1 DEF CopyOK
  <2> DEFINE known == copy.known
             s == [i \in DOMAIN ring |-> IF i \in known /\ ring[i] # 0
                                         THEN Image(written[ring[i]]) ELSE NoSlot]
  <2>1. /\ copy = [slots |-> s, known |-> known, index |-> place, next |-> room]
        /\ known \subseteq DOMAIN ring /\ place \in known
        /\ Reaches(known, clock, secondsAgo)
    BY <1>0 DEF CopyOK, CopyOf
  <2> HIDE DEF known, s
  <2>2. copy' = [slots |-> s, known |-> known, index |-> place, next |-> room']
    <3>1. copy' = [copy EXCEPT !.next = room']
      BY <1>1
    <3> DEFINE q == room'
    <3> HIDE DEF q
    <3>2. [copy EXCEPT !.next = q] = [slots |-> s, known |-> known, index |-> place, next |-> q]
      BY <2>1
    <3> QED
      BY <3>1, <3>2 DEF q
  <2>3. copy'.known = known
    BY <2>2
  <2>4. copy' = CopyOf(copy.known)'
    BY <1>1, <2>2, <2>3 DEF CopyOf, s
  <2>5. Reaches(copy.known, clock, secondsAgo)'
    BY <1>1, <2>1, <2>3 DEF Reaches, Slot, Size
  <2> QED
    BY <1>1, <2>1, <2>3, <2>4, <2>5 DEF CopyOK
<1> QED
  BY <1>0, <1>1, <1>3, <1>4, <1>5 DEF OracleInv

\* Another window: the copy reaches as far, or the session ends.
LEMMA WindowSetOracle == ASSUME OracleInv, WindowSet PROVE OracleInv'
<1>0. RingOK /\ HistoryOK /\ CopyOK /\ poolTick \in Int /\ clock \in Int
  BY Inputs DEF OracleInv
<1>1. UNCHANGED <<poolTick, written, ring, place, room>>
  BY DEF WindowSet
<1>2. PICK ago \in Windows, gap \in Gaps :
        /\ secondsAgo' = ago /\ clock' = clock + gap /\ Comparable(clock')
        /\ IF captured # 0 /\ Observe(copy, clock' % TimeWrap, ago, poolTick).kind = "error"
           THEN captured' = 0 /\ copy' = NoCopy ELSE UNCHANGED <<captured, copy>>
  BY DEF WindowSet
<1>3. clock' \in Int /\ clock <= clock' /\ ago \in Nat
  BY <1>0, <1>2, OracleAssumption
<1>4. RingOK'
  BY <1>0, <1>1 DEF RingOK, Size, Held, Behind
<1>5. HistoryOK'
  <2>1. Len(written) \in Nat /\ FirstTime \in Int
    BY <1>0, OracleAssumption DEF HistoryOK
  <2>2. \A i \in 1..Len(written) : written[i].at \in Int
    BY <1>0, Recorded
  <2>3. \A i \in 1..Len(written) : FirstTime <= written[i].at /\ written[i].at <= clock'
    BY <1>0, <1>3, <2>1, <2>2 DEF HistoryOK
  <2>4. FirstTime <= clock'
    BY <1>0, <1>3, <2>1 DEF HistoryOK
  <2> QED
    BY <1>0, <1>1, <1>2, <1>3, <2>3, <2>4 DEF HistoryOK, Comparable
<1>6. CopyOK'
  <2> SUFFICES ASSUME captured' # 0 PROVE CopyOK'
    BY DEF CopyOK
  <2>1. captured' = captured /\ copy' = copy /\ captured # 0
        /\ Observe(copy, clock' % TimeWrap, ago, poolTick).kind # "error"
    BY <1>2
  <2>2. copy = CopyOf(copy.known) /\ copy.known \subseteq DOMAIN ring /\ place \in copy.known
    BY <1>0, <2>1 DEF CopyOK
  <2>3. Reaches(copy.known, clock', ago)
    <3> DEFINE known == copy.known
               now == clock'
    <3>1. /\ Observe(CopyOf(known), now % TimeWrap, ago, poolTick).kind # "error"
          /\ known \subseteq DOMAIN ring /\ place \in known
          /\ now \in Int /\ clock <= now /\ Comparable(now)
      BY <1>2, <1>3, <2>1, <2>2
    <3> HIDE DEF known, now
    <3>2. Reaches(known, now, ago)
      BY <1>0, <1>3, <3>1, ObserveReaches
    <3> QED
      BY <3>2 DEF known, now
  <2>4. Reaches(copy.known, clock, secondsAgo)'
    BY <1>1, <1>2, <2>1, <2>3 DEF Reaches, Slot, Size
  <2>5. copy' = CopyOf(copy.known)'
    BY <1>1, <2>1, <2>2 DEF CopyOf
  <2> QED
    BY <1>1, <2>1, <2>2, <2>4, <2>5 DEF CopyOK
<1> QED
  BY <1>2, <1>4, <1>5, <1>6 DEF OracleInv

\* A capture reads back to the window's start, or everything.
LEMMA CaptureOracleOracle == ASSUME OracleInv, CaptureOracle PROVE OracleInv'
<1>0. RingOK /\ HistoryOK /\ secondsAgo \in Windows /\ secondsAgo \in Nat /\ clock \in Int
  BY Inputs DEF OracleInv
<1>1. copy' = Capture(clock, secondsAgo)
      /\ UNCHANGED <<clock, poolTick, written, ring, place, room, secondsAgo>>
  BY DEF CaptureOracle
<1>2. RingOK' /\ HistoryOK'
  BY <1>0, <1>1 DEF RingOK, HistoryOK, Size, Held, Behind
<1> DEFINE Old(j) == ring[Slot(j)] # 0 /\ clock - written[ring[Slot(j)]].at >= secondsAgo
           covering == {j \in 0..(Size - 1) : Old(j)}
           read == IF covering = {} THEN Size ELSE (Min(covering) \div ReadBatch + 1) * ReadBatch
           count == Min({read, Size})
           known == {Slot(j) : j \in 0..(count - 1)}
<1>3. Capture(clock, secondsAgo) = CopyOf(known)
  BY Zenon DEF Capture, CopyOf, Slot, Image
<1>4. Size \in Nat \ {0} /\ DOMAIN ring = 0..(Size - 1) /\ ReadBatch \in Nat \ {0} /\ Slot(0) = place
  BY <1>0, RingBackwards, OracleAssumption DEF RingOK
<1>5. CASE covering = {}
  <2>1. read = Size
    BY <1>5
  <2> HIDE DEF read
  <2>2. count = Size
    BY <1>4, <2>1 DEF Min
  <2>3. known = DOMAIN ring
    <3> HIDE DEF count
    <3>1. ASSUME NEW i \in DOMAIN ring PROVE i \in known
      <4>1. Behind(i) \in 0..(Size - 1) /\ Slot(Behind(i)) = i
        BY <1>0, <1>4, SlotBehind
      <4> QED
        BY <2>2, <4>1
    <3>2. known \subseteq DOMAIN ring
      BY <1>0, <1>4, <2>2, SlotBehind
    <3> QED
      BY <3>1, <3>2
  <2>4. place \in known /\ known \subseteq DOMAIN ring /\ Reaches(known, clock, secondsAgo)
    BY <1>0, <2>3 DEF Reaches, RingOK
  <2> HIDE DEF known, count
  <2>5. copy' = CopyOf(known) /\ copy'.known = known
    BY <1>1, <1>3 DEF CopyOf
  <2>6. CopyOK'
    BY <1>1, <2>4, <2>5 DEF CopyOK, CopyOf, Reaches, Slot, Size
  <2> QED
    BY <1>0, <1>1, <1>2, <2>6 DEF OracleInv
<1>6. CASE covering # {}
  <2> DEFINE c == Min(covering)
  <2>1. covering \subseteq Nat
    BY <1>4
  <2>2. c \in covering
    <3> HIDE DEF covering
    <3> QED
      BY <1>6, <2>1, SmallestOf
  <2>3. c \in 0..(Size - 1) /\ Old(c)
    BY <2>2
  <2>4. read = (c \div ReadBatch + 1) * ReadBatch
    BY <1>6
  <2> HIDE DEF c, covering, Old
  <2>5. read \in Int /\ c < read
    <3>1. c \in Int /\ c \div ReadBatch \in Int
      BY <1>4, <2>3
    <3>2. c = ReadBatch * (c \div ReadBatch) + (c % ReadBatch) /\ c % ReadBatch \in 0..(ReadBatch - 1)
      BY <1>4, <3>1
    <3> DEFINE q == c \div ReadBatch
    <3>3. (q + 1) * ReadBatch = ReadBatch * q + ReadBatch /\ ReadBatch * q \in Int
      BY <1>4, <3>1
    <3> QED
      BY <1>4, <2>4, <3>1, <3>2, <3>3
  <2> HIDE DEF read
  <2>6. c + 1 <= count /\ count <= Size /\ count \in Nat
    <3>1. count = IF read <= Size THEN read ELSE Size
      BY <1>4, <2>5 DEF Min
    <3> QED
      BY <1>4, <2>3, <2>5, <3>1
  <2> HIDE DEF count
  <2>7. \A j \in 0..c : Slot(j) \in known
    BY <2>3, <2>6
  <2>8. known \subseteq DOMAIN ring
    <3>1. \A j \in 0..(count - 1) : j \in 0..(Size - 1)
      BY <1>4, <2>6
    <3> QED
      BY <1>0, <1>4, <3>1, SlotBehind
  <2>9. place \in known
    BY <1>4, <2>3, <2>7
  <2>10. Reaches(known, clock, secondsAgo)
    BY <2>3, <2>7 DEF Reaches, Old
  <2> HIDE DEF known
  <2>11. copy' = CopyOf(known) /\ copy'.known = known
    BY <1>1, <1>3 DEF CopyOf
  <2>12. CopyOK'
    BY <1>1, <2>8, <2>9, <2>10, <2>11 DEF CopyOK, CopyOf, Reaches, Slot, Size
  <2> QED
    BY <1>0, <1>1, <1>2, <2>12 DEF OracleInv
<1> QED
  BY <1>5, <1>6

\* A step that changes nothing.
LEMMA SameOracle == ASSUME OracleInv, UNCHANGED oracleVars PROVE OracleInv'
BY DEF OracleInv, HistoryOK, RingOK, CopyOK, CopyOf, Reaches, Size, Slot, Held, Behind, oracleVars

\* The invariant says that the copy answers like the contract.
LEMMA InvExact == ASSUME OracleInv PROVE FeeHistoryExact
<1>0. RingOK /\ HistoryOK /\ CopyOK /\ secondsAgo \in Nat /\ poolTick \in Int /\ clock \in Int
  BY Inputs DEF OracleInv
<1> SUFFICES ASSUME captured # 0 PROVE FeeHistoryExact
  BY DEF FeeHistoryExact
<1> DEFINE known == copy.known
<1>1. /\ copy = CopyOf(known) /\ known \subseteq DOMAIN ring /\ place \in known
      /\ Reaches(known, clock, secondsAgo)
  BY <1>0 DEF CopyOK
<1> HIDE DEF known
<1>2. Slots(copy) = Size /\ copy.index = place /\ copy.next = room
  BY <1>0, <1>1, CopyFacts
<1>3. ASSUME NEW later \in Gaps \cup {0}, NEW ago \in {0, secondsAgo}, Comparable(clock + later)
      PROVE  Observe(copy, (clock + later) % TimeWrap, ago, poolTick)
               = [Answer(clock + later, ago, poolTick) EXCEPT !.sum = Wrap(@)]
  <2> DEFINE now == clock + later
  <2>1. now \in Int /\ clock <= now /\ Comparable(now) /\ ago \in Nat
    BY <1>0, <1>3, OracleAssumption
  <2>2. ago <= now - Newest.at \/ Reaches(known, now, ago)
    <3>1. CASE ago = 0
      <4>1. Past(0) = Newest /\ 0 \in 0..(Held - 1)
        BY <1>0, RingBackwards
      <4>2. Newest.at <= clock /\ Newest.at \in Int
        BY <1>0, <4>1, PastRises
      <4> QED
        BY <1>0, <2>1, <3>1, <4>2
    <3>2. CASE ago = secondsAgo
      <4>1. CASE DOMAIN ring \subseteq known
        BY <4>1 DEF Reaches
      <4>2. CASE ~(DOMAIN ring \subseteq known)
        <5>1. PICK c \in 0..(Size - 1) : /\ ring[Slot(c)] # 0
                                         /\ clock - written[ring[Slot(c)]].at >= secondsAgo
                                         /\ \A j \in 0..c : Slot(j) \in known
          BY <1>1, <4>2 DEF Reaches
        <5>2. c < Held
          BY <1>0, <5>1, RingBackwards
        <5>3. c \in 0..(Held - 1) /\ written[ring[Slot(c)]] = Past(c)
          BY <1>0, <5>1, <5>2, RingBackwards
        <5>4. Past(c).at \in Int
          BY <1>0, <5>3, PastRises
        <5>5. now - written[ring[Slot(c)]].at >= ago
          BY <1>0, <2>1, <3>2, <5>1, <5>3, <5>4
        <5> QED
          BY <5>1, <5>5 DEF Reaches
      <4> QED
        BY <4>1, <4>2
    <3> QED
      BY <3>1, <3>2
  <2> HIDE DEF now
  <2>3. Observe(copy, now % TimeWrap, ago, poolTick)
          = [Answer(now, ago, poolTick) EXCEPT !.sum = Wrap(@)]
    BY <1>0, <1>1, <2>1, <2>2, ObserveAnswers
  <2> QED
    BY <2>3 DEF now
<1> QED
  BY <1>2, <1>3, Zenon DEF FeeHistoryExact

\* Whatever has been captured and whatever happened since, the retained copy of the price
\* history answers like the contract (retainedOracle, write, observe,
\* captureRetainedOracle).
THEOREM FeeHistorySafe == OracleSpec => []FeeHistoryExact
<1>1. OracleInit => OracleInv
  BY InitOracle
<1>2. OracleInv /\ [OracleNext]_oracleVars => OracleInv'
  BY PoolEventOracle, RingGrowsOracle, WindowSetOracle, CaptureOracleOracle, SameOracle DEF OracleNext
<1>3. OracleInv => FeeHistoryExact
  BY InvExact
<1> QED
  BY <1>1, <1>2, <1>3, PTL DEF OracleSpec
=============================================================================
