------------------------------ MODULE Balances ------------------------------
(***************************************************************************)
(* The tokens the contract holds and the internal balances users withdraw  *)
(* from (balances.rs, storage.rs), with the breaker's pause in front of    *)
(* them (circuit_breaker.rs).  Stakes come in and refunds go out without   *)
(* passing the balances (bets.rs); payouts are credited to the balances    *)
(* (lib.rs).  Nothing here compares a refund or a payout with the stakes:  *)
(* what a market may pay is the markets' own matter (Market), so any       *)
(* amount may come.  Only the Stellar asset has balances.  A transfer the  *)
(* token refuses fails the call.                                           *)
(***************************************************************************)
EXTENDS Integers, FiniteSets, Sums

CONSTANTS
  Depositors, \* users
  Tokens,     \* tokens each user begins with
  Transfers,  \* amounts a call may name, some of them refused
  MaxDeposit, \* i128::MAX / 2
  MaxShortfall, \* bound on how far the balances exceed the tokens held
  MaxPauses   \* bound on the pauses

ASSUME BalancesAssumption ==
  /\ IsFiniteSet(Depositors)
  /\ Tokens \in Nat
  /\ Transfers \subseteq Int
  /\ MaxDeposit \in Nat
  /\ MaxShortfall \in Nat
  /\ MaxPauses \in Nat

VARIABLES
  purse,    \* the token contract's balance of each user
  held,     \* its balance of this contract
  credited, \* the internal balance of each user
  staked,   \* history: stakes taken less refunds and payouts, below zero when
            \* more went out than came in
  spent,    \* history: what each user staked less what came back to the user
  gate,     \* the breaker: its state, the scope and permission of the pause
  pauses    \* history: pauses

stakeVars == <<staked, spent>>

balanceVars == <<purse, held, credited, stakeVars, gate, pauses>>

moneyOnly == <<purse, held, credited, stakeVars>>

Gates ==
  [state : {"Closed", "Open", "HalfOpen"}, scope : {"BettingOnly", "Full"},
   withdrawals : BOOLEAN]

BalancesTypeOK ==
  /\ purse \in [Depositors -> Nat]
  /\ held \in Nat
  /\ credited \in [Depositors -> Nat]
  /\ staked \in Int
  /\ spent \in [Depositors -> Int]
  /\ gate \in Gates
  /\ pauses \in 0..MaxPauses

BalancesInit ==
  /\ purse = [u \in Depositors |-> Tokens]
  /\ held = 0
  /\ credited = [u \in Depositors |-> 0]
  /\ staked = 0
  /\ spent = [u \in Depositors |-> 0]
  /\ gate = [state |-> "Closed", scope |-> "BettingOnly", withdrawals |-> FALSE]
  /\ pauses = 0

-----------------------------------------------------------------------------
(* The breaker, as far as the balances ask it.                             *)

(* is_operation_allowed.  In a half-open trial the call may be admitted or *)
(* not, as CircuitBreaker decides.                                         *)
WriteAllowed(operation) ==
  gate.state = "Open" => gate.scope = "BettingOnly" /\ operation # "betting"

AreWithdrawalsAllowed == gate.state = "Open" => gate.withdrawals

PauseBalances(scope, withdrawals) ==
  /\ gate.state # "Open"
  /\ pauses < MaxPauses
  /\ pauses' = pauses + 1
  /\ gate' = [state |-> "Open", scope |-> scope, withdrawals |-> withdrawals]
  /\ UNCHANGED moneyOnly

GateTo(g) == gate' = g /\ UNCHANGED <<moneyOnly, pauses>>

(* request_resume, or the recovery timeout.                                *)
ResumeBalances ==
  gate.state = "Open" /\ GateTo([gate EXCEPT !.state = "HalfOpen"])

(* The trial succeeds; the pause's scope and permission stay.              *)
SettleGate ==
  gate.state = "HalfOpen" /\ GateTo([gate EXCEPT !.state = "Closed"])

(* The error rate, or a failed trial, opens the breaker with the scope and *)
(* permission of whatever pause came before.                               *)
TripGate ==
  gate.state # "Open" /\ GateTo([gate EXCEPT !.state = "Open"])

(* circuit_breaker_recovery resets them.                                   *)
RecoverGate ==
  /\ gate.state # "Closed"
  /\ GateTo([state |-> "Closed", scope |-> "BettingOnly", withdrawals |-> FALSE])

-----------------------------------------------------------------------------
(* The tokens.                                                             *)

TransferIn(u, amount) ==
  /\ amount <= purse[u]
  /\ purse' = [purse EXCEPT ![u] = @ - amount]
  /\ held' = held + amount

TransferOut(u, amount) ==
  /\ amount <= held
  /\ purse' = [purse EXCEPT ![u] = @ + amount]
  /\ held' = held - amount

(* BalanceStorage: checked_add_balance and checked_sub_balance.            *)
AddBalance(u, amount) ==
  /\ amount > 0
  /\ credited' = [credited EXCEPT ![u] = @ + amount]

SubBalance(u, amount) ==
  /\ amount > 0
  /\ amount <= credited[u]
  /\ credited' = [credited EXCEPT ![u] = @ - amount]

Deposit(u, amount) ==
  /\ WriteAllowed("deposit")
  /\ amount <= MaxDeposit
  /\ TransferIn(u, amount)
  /\ AddBalance(u, amount)
  /\ UNCHANGED <<stakeVars, gate, pauses>>

(* Seeded fault: the balance is compared but not lowered to what is left.  *)
WithdrawUndebited(u, amount) ==
  /\ WriteAllowed("withdraw") /\ AreWithdrawalsAllowed
  /\ amount > 0 /\ amount <= credited[u]
  /\ TransferOut(u, amount)
  /\ UNCHANGED <<credited, stakeVars, gate, pauses>>

(* withdraw: both gates are asked; the lowered balance is stored last.     *)
Withdraw(u, amount) ==
  /\ WriteAllowed("withdraw") /\ AreWithdrawalsAllowed
  /\ SubBalance(u, amount)
  /\ TransferOut(u, amount)
  /\ UNCHANGED <<stakeVars, gate, pauses>>

(* A stake, or with a negative amount a refund or a payout.                *)
Stakes(u, amount) ==
  /\ staked' = staked + amount
  /\ spent' = [spent EXCEPT ![u] = @ + amount]

(* The bound on the shortfall.                                             *)
WithinShortfall == SumOver(credited', Depositors) <= held' + MaxShortfall

(* lock_funds, of a vote, which asks no breaker, and of a bet.             *)
LockFunds(u, amount, operation) ==
  /\ operation = "betting" => WriteAllowed(operation)
  /\ amount >= 0
  /\ TransferIn(u, amount)
  /\ Stakes(u, amount)
  /\ UNCHANGED <<credited, gate, pauses>>

(* unlock_funds, of a bet cancelled or refunded.                           *)
UnlockFunds(u, amount) ==
  /\ amount >= 0
  /\ TransferOut(u, amount)
  /\ Stakes(u, 0 - amount)
  /\ UNCHANGED <<credited, gate, pauses>>
  /\ WithinShortfall

(* The credit a claim, a distribution or a sweep makes.                    *)
CreditPayout(u, amount) ==
  /\ AddBalance(u, amount)
  /\ Stakes(u, 0 - amount)
  /\ UNCHANGED <<purse, held, gate, pauses>>
  /\ WithinShortfall

BalancesNext ==
  \/ \E u \in Depositors, a \in Transfers :
       \/ Deposit(u, a)
       \/ Withdraw(u, a)
       \/ \E op \in {"vote", "betting"} : LockFunds(u, a, op)
       \/ UnlockFunds(u, a)
       \/ CreditPayout(u, a)
  \/ \E scope \in {"BettingOnly", "Full"}, w \in BOOLEAN : PauseBalances(scope, w)
  \/ ResumeBalances \/ SettleGate \/ TripGate \/ RecoverGate

BalancesSpec == BalancesInit /\ [][BalancesNext]_balanceVars

-----------------------------------------------------------------------------
(* The internal balances go beyond the tokens the contract holds by        *)
(* exactly what refunds and payouts went beyond the stakes: deposits,      *)
(* withdrawals and refusals add nothing to it, so while the markets pay no *)
(* more than they took every user can withdraw, whoever withdrew before.   *)
(* No token is lost, and no user's tokens and balance change but by what   *)
(* that user staked, was refunded or was paid (deposit, withdraw,          *)
(* lock_funds; docs/contracts/BALANCES.md).                                *)
BalancesCovered ==
  /\ SumOver(credited, Depositors) + staked = held
  /\ SumOver(purse, Depositors) + held = Tokens * Cardinality(Depositors)
  /\ \A u \in Depositors : purse[u] + credited[u] + spent[u] = Tokens

=============================================================================
