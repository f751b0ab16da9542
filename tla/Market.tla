------------------------------- MODULE Market -------------------------------
(***************************************************************************)
(* One prediction market of the Predictify contract, from the first stake  *)
(* to the last payout: voting, betting, cancellation, resolution, payouts, *)
(* claims, the sweep of unclaimed winnings, refunds and fee collection     *)
(* (lib.rs, bets.rs, fees.rs), over the two places the contract keeps a    *)
(* market: persistent storage and the read cache in instance storage       *)
(* (markets.rs).                                                           *)
(*                                                                         *)
(* A contract call is atomic: it commits, or it fails and leaves no trace, *)
(* so a call that fails is no step at all.  The one failure that leaves a  *)
(* trace is a failure the caller swallows (`let _ = distribute_payouts`).  *)
(* Markets share nothing but balances and the fee vault, so one market is  *)
(* enough.  The circuit breaker may refuse any call; only the refusal that *)
(* the resolve entry points swallow is visible here.                       *)
(***************************************************************************)
EXTENDS Integers, Sequences, FiniteSets, Sums

CONSTANTS
  Users,             \* users, as numbers: maps iterate in key order
  Outcomes,          \* the outcomes a market may have
  None,              \* no outcome, no time, no summary
  NoMarket,          \* an empty cache entry
  Treasury,          \* the treasury's account
  VoteStakes,        \* stakes a vote may carry (no minimum in the code)
  BetAmounts,        \* amounts a bet may carry
  BetDeadline,       \* market.bet_deadline; 0 when unset
  EndTime,           \* market.end_time
  DisputeWindow,     \* market.dispute_window_seconds
  ResolutionTimeout, \* market.resolution_timeout
  ClaimPeriod,       \* effective claim period of the market
  FeePercent,        \* config fees.platform_fee_percentage, of 100
  InitialFee,        \* "platform_fee" key when the market opens, of 10000
  PlatformFees,      \* what set_platform_fee may store there later
  ScheduleFee,       \* the fee configuration of the first bet, of 100
  FeeThreshold,      \* FEE_COLLECTION_THRESHOLD
  MinFeeAmount,      \* MIN_FEE_AMOUNT
  CheckEvery,        \* entries between two budget checks (10 in the code)
  BudgetAborts,      \* whether a distribution may run out of its budget
  MaxTime,           \* bound on the clock
  MaxPool,           \* bound on the stakes taken
  MaxStakings,       \* bound on the calls that take a stake
  MaxReads,          \* bound on read-only calls that leave the cache filled
  MaxResolutions     \* bound on the calls that set winning outcomes

ASSUME UsersAssumption == Users \subseteq Nat /\ IsFiniteSet(Users)

ASSUME AmountsAssumption ==
  /\ VoteStakes \subseteq Nat
  /\ BetAmounts \subseteq Nat \ {0}
  /\ MaxPool \in Nat
  /\ FeePercent \in 0..1000
  /\ InitialFee \in 0..1000
  /\ PlatformFees \subseteq 0..1000
  /\ ScheduleFee \in Nat
  /\ MinFeeAmount \in Nat

ASSUME TimesAssumption ==
  /\ EndTime \in Nat
  /\ BetDeadline \in 0..EndTime
  /\ DisputeWindow \in Nat
  /\ ResolutionTimeout \in Nat
  /\ ClaimPeriod \in Nat
  /\ MaxTime \in Nat
  /\ MaxStakings \in Nat
  /\ MaxReads \in Nat
  /\ MaxResolutions \in Nat
  /\ CheckEvery \in Nat \ {0}

ASSUME NamesAssumption == None \notin Outcomes /\ Treasury \notin Users

VARIABLES
  now,         \* ledger time
  platformFee, \* the "platform_fee" key
  market,      \* the market in persistent storage
  cache,       \* the market in the read cache, or NoMarket
  bets,        \* bet record of each user
  registry,    \* users with a bet record, in order of their first bet
  stats,       \* BetStats.outcome_totals
  summary,     \* ResolvedOutcomeSummary of the last resolution, or None
  claimStart,  \* start of the claim window, or None
  balance,     \* what the market credited to each internal balance
  vault,       \* fees collected ("tot_fees")
  custody,     \* tokens taken in for this market and not refunded
  escrow,      \* history: what each user's bets locked less what they returned
  payments,    \* history: how many credits each user had from this market
  stakings,    \* history: calls that took a stake
  resolutions, \* history: calls that set winning outcomes
  reads        \* history: read-only calls that left the cache filled

marketVars == <<market, cache>>
betVars    == <<bets, registry, stats>>
moneyVars  == <<balance, vault, custody>>
resultVars == <<summary, claimStart>>
counters   == <<stakings, resolutions, reads>>
history    == <<escrow, payments, counters>>
vars == <<now, platformFee, market, cache, bets, registry, stats, summary,
          claimStart, balance, vault, custody, escrow, payments, stakings,
          resolutions, reads>>

Accounts == Users \cup {Treasury}

MarketStates == {"Active", "Resolved", "Closed", "Cancelled"}

BetStatuses == {"NoBet", "Active", "Won", "Lost", "Refunded", "Cancelled"}

Markets ==
  [state : MarketStates, votes : [Users -> Outcomes \cup {None}],
   stakes : [Users -> Nat], total : Int, winners : SUBSET Outcomes,
   oracle : BOOLEAN, claimed : SUBSET Users, swept : BOOLEAN,
   feeCollected : BOOLEAN]

Bets == [status : BetStatuses, outcome : Outcomes \cup {None}, amount : Nat]

Summaries == [winningTotal : Nat, totalPool : Int]

TypeOK ==
  /\ now \in 0..MaxTime
  /\ platformFee \in 0..1000
  /\ market \in Markets
  /\ cache \in Markets \cup {NoMarket}
  /\ bets \in [Users -> Bets]
  /\ registry \in Seq(Users)
  /\ stats \in [Outcomes -> Nat]
  /\ summary \in Summaries \cup {None}
  /\ claimStart \in Nat \cup {None}
  /\ balance \in [Accounts -> Nat]
  /\ vault \in Nat
  /\ custody \in Nat
  /\ escrow \in [Users -> Int]
  /\ payments \in [Users -> Nat]
  /\ stakings \in 0..MaxStakings
  /\ resolutions \in 0..MaxResolutions
  /\ reads \in 0..MaxReads

NoBet == [status |-> "NoBet", outcome |-> None, amount |-> 0]

NewMarket ==
  [state |-> "Active", votes |-> [u \in Users |-> None],
   stakes |-> [u \in Users |-> 0], total |-> 0, winners |-> {},
   oracle |-> FALSE, claimed |-> {}, swept |-> FALSE, feeCollected |-> FALSE]

Init ==
  /\ now = 0
  /\ platformFee = InitialFee
  /\ market = NewMarket
  /\ cache = NoMarket
  /\ bets = [u \in Users |-> NoBet]
  /\ registry = <<>>
  /\ stats = [o \in Outcomes |-> 0]
  /\ summary = None
  /\ claimStart = None
  /\ balance = [a \in Accounts |-> 0]
  /\ vault = 0
  /\ custody = 0
  /\ escrow = [u \in Users |-> 0]
  /\ payments = [u \in Users |-> 0]
  /\ stakings = 0
  /\ resolutions = 0
  /\ reads = 0

-----------------------------------------------------------------------------
(* Storage.                                                                *)

(* MarketStateManager::get_market: the cached copy if there is one.        *)
GetMarket == IF cache # NoMarket THEN cache ELSE market

(* MarketStateManager::update_market: write, then drop the cached copy.    *)
UpdateMarket(m) == market' = m /\ cache' = NoMarket

(* env.storage().persistent().set(&market_id, ..): the cache keeps what it *)
(* had.                                                                    *)
SetMarket(m) == market' = m /\ UNCHANGED cache

Cutoff == IF BetDeadline > 0 THEN BetDeadline ELSE EndTime

VoterKeys(m) == {u \in Users : m.votes[u] # None}

Bettors == {registry[i] : i \in 1..Len(registry)}

Registered(u) == IF u \in Bettors THEN registry ELSE Append(registry, u)

(* Seeded fault: the stake is recorded but total_staked is not raised.     *)
WithStakeUncounted(m, u, o, a) ==
  [m EXCEPT !.votes[u] = o, !.stakes[u] = a]

WithStake(m, u, o, a) ==
  [m EXCEPT !.votes[u] = o, !.stakes[u] = a, !.total = @ + a]

(* Seeded fault: the stake is removed but total_staked is not lowered.     *)
WithoutBetsUncounted(m, S) ==
  [m EXCEPT !.votes = [u \in Users |-> IF u \in S THEN None ELSE @[u]],
            !.stakes = [u \in Users |-> IF u \in S THEN 0 ELSE @[u]]]

(* market.total_staked.saturating_sub, votes.remove, stakes.remove.        *)
WithoutBets(m, S) ==
  [m EXCEPT !.votes = [u \in Users |-> IF u \in S THEN None ELSE @[u]],
            !.stakes = [u \in Users |-> IF u \in S THEN 0 ELSE @[u]],
            !.total = @ - SumOver([u \in Users |-> bets[u].amount], S)]

(* Claim records for the users in S.                                       *)
WithClaims(m, S) == [m EXCEPT !.claimed = @ \cup S]

WithWinners(m, ws) == [m EXCEPT !.winners = ws, !.state = "Resolved"]

WithOracleResult(m) == [m EXCEPT !.oracle = TRUE]

Overridden(m) == [m EXCEPT !.oracle = TRUE, !.state = "Resolved"]

Swept(m) == [m EXCEPT !.swept = TRUE]

Cancelled(m) == [m EXCEPT !.state = "Cancelled"]

(* mark_fees_collected, and the transition of a Resolved market to Closed. *)
WithFeesCollected(m) ==
  [m EXCEPT !.feeCollected = TRUE,
            !.state = IF @ = "Resolved" THEN "Closed" ELSE @]

ActiveBettors == {u \in Bettors : bets[u].status = "Active"}

-----------------------------------------------------------------------------
(* Staking.                                                                *)

(* The model's bounds; the code has none.                                  *)
TakesStake(m, a) ==
  /\ stakings < MaxStakings
  /\ m.total + a <= MaxPool
  /\ stakings' = stakings + 1
  /\ UNCHANGED <<resolutions, reads>>

Vote(u, o, a) ==
  /\ market.state = "Active"
  /\ now < Cutoff
  /\ market.votes[u] = None
  /\ TakesStake(market, a)
  /\ SetMarket(WithStake(market, u, o, a))
  /\ custody' = custody + a
  /\ UNCHANGED <<now, platformFee, betVars, resultVars, balance, vault,
                 escrow, payments>>

(* Seeded fault: the market's state is not checked.                        *)
OpenInAnyState(m) == now < Cutoff /\ m.winners = {}

OpenForBetting(m) ==
  /\ m.state = "Active"
  /\ now < Cutoff
  /\ m.winners = {}

MayBet(u) == bets[u].status \in {"NoBet", "Cancelled"}

ActiveBet(o, a) == [status |-> "Active", outcome |-> o, amount |-> a]

PlaceBet(u, o, a) ==
  LET m == GetMarket IN
  /\ OpenForBetting(m)
  /\ MayBet(u)
  /\ TakesStake(m, a)
  /\ bets' = [bets EXCEPT ![u] = ActiveBet(o, a)]
  /\ registry' = Registered(u)
  /\ stats' = [stats EXCEPT ![o] = @ + a]
  /\ UpdateMarket(WithStake(m, u, o, a))
  /\ custody' = custody + a
  /\ escrow' = [escrow EXCEPT ![u] = @ + a]
  /\ UNCHANGED <<now, platformFee, resultVars, balance, vault, payments>>

(* Seeded fault: the batch's statistics count its first entry only.        *)
PlaceBetsHalfCounted(u, o1, a1, o2, a2) ==
  LET m == GetMarket IN
  /\ OpenForBetting(m)
  /\ MayBet(u)
  /\ TakesStake(m, a1 + a2)
  /\ bets' = [bets EXCEPT ![u] = ActiveBet(o2, a2)]
  /\ registry' = Registered(u)
  /\ stats' = [stats EXCEPT ![o1] = @ + a1]
  /\ UpdateMarket(WithStake(m, u, o2, a2))
  /\ custody' = custody + a1 + a2
  /\ escrow' = [escrow EXCEPT ![u] = @ + a1 + a2]
  /\ UNCHANGED <<now, platformFee, resultVars, balance, vault, payments>>

(* A batch that names this market twice.  Both entries are checked before  *)
(* either is stored, and both are applied to the market as it was read, so *)
(* the second overwrites the first everywhere but in the statistics.  A    *)
(* batch that names each market once is a PlaceBet on each.                *)
PlaceBets(u, o1, a1, o2, a2) ==
  LET m == GetMarket IN
  /\ OpenForBetting(m)
  /\ MayBet(u)
  /\ TakesStake(m, a1 + a2)
  /\ bets' = [bets EXCEPT ![u] = ActiveBet(o2, a2)]
  /\ registry' = Registered(u)
  /\ stats' = [[stats EXCEPT ![o1] = @ + a1] EXCEPT ![o2] = @ + a2]
  /\ UpdateMarket(WithStake(m, u, o2, a2))
  /\ custody' = custody + a1 + a2
  /\ escrow' = [escrow EXCEPT ![u] = @ + a1 + a2]
  /\ UNCHANGED <<now, platformFee, resultVars, balance, vault, payments>>

FloorSub(x, y) == IF x > y THEN x - y ELSE 0

(* Seeded fault: the refunded bet stays Active.                            *)
CancelBetUnmarked(u) ==
  LET b == bets[u] IN
  /\ b.status = "Active"
  /\ now < EndTime
  /\ custody >= b.amount
  /\ stats' = [stats EXCEPT ![b.outcome] = FloorSub(@, b.amount)]
  /\ UpdateMarket(WithoutBets(GetMarket, {u}))
  /\ custody' = custody - b.amount
  /\ escrow' = [escrow EXCEPT ![u] = @ - b.amount]
  /\ UNCHANGED <<now, platformFee, bets, registry, resultVars, balance, vault,
                 payments, counters>>

CancelBet(u) ==
  LET b == bets[u] IN
  /\ b.status = "Active"
  /\ now < EndTime
  /\ custody >= b.amount
  /\ bets' = [bets EXCEPT ![u].status = "Cancelled"]
  /\ stats' = [stats EXCEPT ![b.outcome] = FloorSub(@, b.amount)]
  /\ UpdateMarket(WithoutBets(GetMarket, {u}))
  /\ custody' = custody - b.amount
  /\ escrow' = [escrow EXCEPT ![u] = @ - b.amount]
  /\ UNCHANGED <<now, platformFee, registry, resultVars, balance, vault,
                 payments, counters>>

-----------------------------------------------------------------------------
(* Payout arithmetic and distribution.                                     *)

(* Seeded fault: the winning side is summed over the voters alone.         *)
RefreshVotersOnly(m, bs) ==
  [winningTotal |-> SumOver(m.stakes, {u \in VoterKeys(m) :
                                         m.votes[u] \in m.winners}),
   totalPool |-> m.total]

(* ResolutionOutcomeCache::refresh: the stakes on the winning side, voters *)
(* first, then registered bettors who have no vote.                        *)
Refresh(m, bs) ==
  LET voters  == {u \in VoterKeys(m) : m.votes[u] \in m.winners}
      bettors == {u \in Bettors \ VoterKeys(m) : bs[u].outcome \in m.winners}
  IN [winningTotal |-> SumOver(m.stakes, voters)
                       + SumOver([u \in Users |-> bs[u].amount], bettors),
      totalPool |-> m.total]

(* stake less the fee, as a share of the pool, rounded down twice.         *)
Payout(stake, fee, denominator, s) ==
  (((stake * (denominator - fee)) \div denominator) * s.totalPool)
    \div s.winningTotal

(* Two settings decide the fee of a payout: the configuration for claims    *)
(* and the sweep, the "platform_fee" key for distributions.                *)
ClaimPayout(stake, s) == Payout(stake, FeePercent, 100, s)

DistributionPayout(stake, s) == Payout(stake, platformFee, 10000, s)

(* How far a distribution got: the voters and the bettors it has handled.  *)
Whole(m) == <<Cardinality(VoterKeys(m)), Len(registry)>>

Checkpoints(m) ==
  LET v == Cardinality(VoterKeys(m)) IN
  {<<n, 0>> : n \in {i \in 1..v : i % CheckEvery = 0}}
    \cup {<<v, k>> : k \in {i \in 1..Len(registry) : i % CheckEvery = 0}}
    \cup {Whole(m)}

FirstVoters(m, n) ==
  {u \in VoterKeys(m) : Cardinality({v \in VoterKeys(m) : v <= u}) <= n}

FirstBettors(k) == {registry[i] : i \in 1..k}

PaidVoters(m, s, at) ==
  {u \in FirstVoters(m, at[1]) : /\ m.votes[u] \in m.winners
                                 /\ u \notin m.claimed
                                 /\ m.stakes[u] > 0
                                 /\ DistributionPayout(m.stakes[u], s) >= 0}

PaidBettors(m, bs, s, at) ==
  {u \in FirstBettors(at[2]) : /\ bs[u].outcome \in m.winners
                               /\ u \notin m.claimed \cup PaidVoters(m, s, at)
                               /\ bs[u].amount > 0
                               /\ DistributionPayout(bs[u].amount, s) > 0}

(* The market holds winners nobody has paid, and a winning side to share.  *)
Distributable(m, bs, s) ==
  /\ m.winners # {}
  /\ s # None
  /\ s.winningTotal # 0
  /\ \E u \in Users \ m.claimed :
       \/ m.votes[u] \in m.winners
       \/ u \in Bettors /\ bs[u].outcome \in m.winners

(* The body of distribute_payouts up to the point `at`.  Credits and bet   *)
(* statuses are written as it goes, the claim records only at the end.     *)
Distribute(m, bs, s, at) ==
  LET voters  == PaidVoters(m, s, at)
      bettors == PaidBettors(m, bs, s, at)
      credit  == [u \in Users |->
                    CASE u \in voters  -> DistributionPayout(m.stakes[u], s)
                      [] u \in bettors -> DistributionPayout(bs[u].amount, s)
                      [] OTHER -> 0]
      settled == m.claimed \cup voters \cup bettors
  IN /\ bets' = [u \in Users |->
           CASE u \notin FirstBettors(at[2]) -> bs[u]
             [] bs[u].outcome \in m.winners /\ u \in settled
                  -> [bs[u] EXCEPT !.status = "Won"]
             [] bs[u].outcome \notin m.winners /\ bs[u].status = "Active"
                  -> [bs[u] EXCEPT !.status = "Lost"]
             [] OTHER -> bs[u]]
     /\ balance' = [a \in Accounts |-> IF a \in Users
                                       THEN balance[a] + credit[a]
                                       ELSE balance[a]]
     /\ payments' = [u \in Users |-> IF credit[u] > 0 THEN payments[u] + 1
                                                      ELSE payments[u]]

Claimants(m, bs, s) ==
  PaidVoters(m, s, Whole(m)) \cup PaidBettors(m, bs, s, Whole(m))

(* The public entry point: a failure rolls everything back.                *)
DistributePayouts ==
  /\ Distributable(market, bets, summary)
  /\ Distribute(market, bets, summary, Whole(market))
  /\ SetMarket(WithClaims(market, Claimants(market, bets, summary)))
  /\ UNCHANGED <<now, platformFee, registry, stats, resultVars, vault,
                 custody, escrow, counters>>

-----------------------------------------------------------------------------
(* Resolution.                                                             *)

(* resolve_market_bets: every registered bet, whatever its status.         *)
ResolveMarketBets(ws) ==
  [u \in Users |->
     IF u \notin Bettors THEN bets[u]
     ELSE [bets[u] EXCEPT !.status = IF bets[u].outcome \in ws THEN "Won"
                                                               ELSE "Lost"]]

(* The common body of the resolve entry points.  The distribution that     *)
(* ends it may be refused, may run to its end, or may give up at a budget  *)
(* check; its result is ignored, so what it wrote by then stays.           *)
Resolve(ws) ==
  LET m  == WithWinners(market, ws)
      bs == ResolveMarketBets(ws)
      s  == Refresh(m, bs)
  IN /\ resolutions < MaxResolutions
     /\ resolutions' = resolutions + 1
     /\ summary' = s
     /\ claimStart' = IF claimStart = None THEN now ELSE claimStart
     /\ \/ /\ bets' = bs
           /\ SetMarket(m)
           /\ UNCHANGED <<balance, payments>>
        \/ /\ Distributable(m, bs, s)
           /\ Distribute(m, bs, s, Whole(m))
           /\ SetMarket(WithClaims(m, Claimants(m, bs, s)))
        \/ /\ BudgetAborts
           /\ Distributable(m, bs, s)
           /\ \E at \in Checkpoints(m) : Distribute(m, bs, s, at)
           /\ SetMarket(m)
     /\ UNCHANGED <<now, platformFee, registry, stats, vault, custody, escrow,
                    stakings, reads>>

ResolveMarketManual(o) == now >= EndTime /\ Resolve({o})

ResolveMarketWithTies(ws) == now >= EndTime /\ Resolve(ws)

ForceResolveMarket(ws) == Resolve(ws)

(* fetch_oracle_result: records the oracle's answer, resolves nothing.     *)
FetchOracleResult ==
  /\ ~market.oracle
  /\ now >= EndTime
  /\ now < EndTime + ResolutionTimeout
  /\ SetMarket(WithOracleResult(market))
  /\ UNCHANGED <<now, platformFee, betVars, resultVars, moneyVars, history>>

(* admin_override_verification: Resolved, with no winning outcome set.     *)
AdminOverrideVerification ==
  /\ UpdateMarket(Overridden(GetMarket))
  /\ UNCHANGED <<now, platformFee, betVars, resultVars, moneyVars, history>>

-----------------------------------------------------------------------------
(* Claims and the sweep.                                                   *)

(* Seeded fault: claims close when the dispute window does.                *)
ClaimsOpenDuringDisputes ==
  /\ market.winners # {}
  /\ DisputeWindow > 0 => now < EndTime + DisputeWindow

ClaimsOpen ==
  /\ market.winners # {}
  /\ DisputeWindow > 0 => now >= EndTime + DisputeWindow

IsWinner(u) == market.votes[u] \in market.winners

(* Seeded fault: an earlier claim is not looked up.                        *)
ClaimWinningsAgain(u) ==
  /\ ClaimsOpen
  /\ IsWinner(u)
  /\ summary # None
  /\ summary.winningTotal > 0
  /\ LET p == ClaimPayout(market.stakes[u], summary) IN
       /\ p > 0
       /\ balance' = [balance EXCEPT ![u] = @ + p]
  /\ payments' = [payments EXCEPT ![u] = @ + 1]
  /\ SetMarket(WithClaims(market, {u}))
  /\ UNCHANGED <<now, platformFee, betVars, resultVars, vault, custody,
                 escrow, counters>>

(* Seeded fault: the claim is paid and its record replaces the others.     *)
ClaimWinningsForgets(u) ==
  /\ u \notin market.claimed
  /\ ClaimsOpen
  /\ IsWinner(u)
  /\ summary # None
  /\ summary.winningTotal > 0
  /\ LET p == ClaimPayout(market.stakes[u], summary) IN
       /\ p > 0
       /\ balance' = [balance EXCEPT ![u] = @ + p]
  /\ payments' = [payments EXCEPT ![u] = @ + 1]
  /\ SetMarket([market EXCEPT !.claimed = {u}])
  /\ UNCHANGED <<now, platformFee, betVars, resultVars, vault, custody,
                 escrow, counters>>

(* claim_winnings, by a winner: the credit must be positive.               *)
ClaimWinnings(u) ==
  /\ u \notin market.claimed
  /\ ClaimsOpen
  /\ IsWinner(u)
  /\ summary # None
  /\ summary.winningTotal > 0
  /\ LET p == ClaimPayout(market.stakes[u], summary) IN
       /\ p > 0
       /\ balance' = [balance EXCEPT ![u] = @ + p]
  /\ payments' = [payments EXCEPT ![u] = @ + 1]
  /\ SetMarket(WithClaims(market, {u}))
  /\ UNCHANGED <<now, platformFee, betVars, resultVars, vault, custody,
                 escrow, counters>>

(* claim_winnings, by a loser: recorded so that it is not tried again.     *)
ClaimNothing(u) ==
  /\ u \notin market.claimed
  /\ ClaimsOpen
  /\ market.votes[u] # None
  /\ ~IsWinner(u) \/ (summary # None /\ summary.winningTotal <= 0)
  /\ SetMarket(WithClaims(market, {u}))
  /\ UNCHANGED <<now, platformFee, betVars, resultVars, moneyVars, history>>

ClaimWindowExpired ==
  now >= (IF claimStart = None THEN EndTime ELSE claimStart) + ClaimPeriod

Unclaimed ==
  LET voters  == {u \in Users \ market.claimed :
                    IsWinner(u) /\ market.stakes[u] > 0}
      bettors == {u \in Bettors \ (market.claimed \cup VoterKeys(market)) :
                    bets[u].outcome \in market.winners /\ bets[u].amount > 0}
  IN voters \cup bettors

SweptAmount(u) ==
  ClaimPayout(IF u \in VoterKeys(market) THEN market.stakes[u]
                                         ELSE bets[u].amount, summary)

SweepUnclaimedWinnings(burn) ==
  /\ market.winners # {}
  /\ ClaimWindowExpired
  /\ ~market.swept
  /\ FeePercent <= 100
  /\ summary # None
  /\ summary.winningTotal > 0
  /\ LET swept == SumOver([u \in Users |-> SweptAmount(u)], Unclaimed) IN
       balance' = IF burn THEN balance
                  ELSE [balance EXCEPT ![Treasury] = @ + swept]
  /\ SetMarket(Swept(WithClaims(market, Unclaimed)))
  /\ UNCHANGED <<now, platformFee, betVars, resultVars, vault, custody,
                 history>>

-----------------------------------------------------------------------------
(* Cancellation and refunds.                                               *)

(* Store the market as Cancelled, then refund_market_bets, which reads it  *)
(* through the cache and writes back what it read.                         *)
CancelAndRefund ==
  LET read == IF cache # NoMarket THEN cache
              ELSE Cancelled(market)
      refund == [u \in Users |-> IF u \in ActiveBettors THEN bets[u].amount
                                                        ELSE 0]
      total == SumOver(refund, Users)
  IN /\ custody >= total
     /\ bets' = [u \in Users |->
                   IF u \in ActiveBettors
                   THEN [bets[u] EXCEPT !.status = "Refunded"]
                   ELSE bets[u]]
     /\ UpdateMarket(WithoutBets(read, ActiveBettors))
     /\ custody' = custody - total
     /\ escrow' = [u \in Users |-> escrow[u] - refund[u]]
     /\ UNCHANGED <<now, platformFee, registry, stats, resultVars, balance,
                    vault, payments, counters>>

CancelEvent == market.state = "Active" /\ CancelAndRefund

RefundOnOracleFailure(byAdmin) ==
  /\ market.state # "Cancelled"
  /\ market.winners = {}
  /\ ~market.oracle
  /\ now >= EndTime
  /\ byAdmin \/ now >= EndTime + ResolutionTimeout
  /\ CancelAndRefund

-----------------------------------------------------------------------------
(* Fees.                                                                   *)

(* calculate_platform_fee_with_env: by the fee configuration in force when *)
(* the market's first bet was placed (FeeConfig), of 100 like the claims.  *)
PlatformFee(m) == (m.total * ScheduleFee) \div 100

(* Seeded fault: the idempotency guard is missing.                         *)
CollectFeesAgain ==
  LET m == GetMarket IN
  /\ m.winners # {}
  /\ m.total >= FeeThreshold
  /\ m.total > 0
  /\ PlatformFee(m) >= MinFeeAmount
  /\ PlatformFee(m) <= m.total
  /\ m.state \in {"Resolved", "Cancelled", "Closed"}
  /\ vault' = vault + PlatformFee(m)
  /\ UpdateMarket(WithFeesCollected(m))
  /\ UNCHANGED <<now, platformFee, betVars, resultVars, balance, custody,
                 history>>

(* FeeManager::collect_fees.  The fee moves to the vault's account, not    *)
(* out of the contract; a Resolved market becomes Closed.                  *)
CollectFees ==
  LET m == GetMarket IN
  /\ ~m.feeCollected
  /\ m.winners # {}
  /\ m.total >= FeeThreshold
  /\ m.total > 0
  /\ PlatformFee(m) >= MinFeeAmount
  /\ PlatformFee(m) <= m.total
  /\ m.state \in {"Resolved", "Cancelled", "Closed"}
  /\ vault' = vault + PlatformFee(m)
  /\ UpdateMarket(WithFeesCollected(m))
  /\ UNCHANGED <<now, platformFee, betVars, resultVars, balance, custody,
                 history>>

(* set_platform_fee: at any time, resolved markets included.               *)
SetPlatformFee(fee) ==
  /\ platformFee' = fee
  /\ UNCHANGED <<now, marketVars, betVars, resultVars, moneyVars, history>>

-----------------------------------------------------------------------------
(* A call that commits after nothing but get_market: compress_market_data, *)
(* the storage reports, set_market_claim_period, a repeated collect_fees.  *)
ReadThroughCache ==
  /\ reads < MaxReads
  /\ reads' = reads + 1
  /\ cache = NoMarket
  /\ cache' = market
  /\ UNCHANGED <<now, platformFee, market, betVars, resultVars, moneyVars,
                 escrow, payments, stakings, resolutions>>

Tick ==
  /\ now < MaxTime
  /\ now' = now + 1
  /\ UNCHANGED <<platformFee, marketVars, betVars, resultVars, moneyVars,
                 history>>

Staking(u) ==
  \/ \E o \in Outcomes : \E a \in VoteStakes : Vote(u, o, a)
  \/ \E o \in Outcomes : \E a \in BetAmounts : PlaceBet(u, o, a)
  \/ \E o1, o2 \in Outcomes : \E a1, a2 \in BetAmounts :
       PlaceBets(u, o1, a1, o2, a2)
  \/ CancelBet(u)

Resolving ==
  \/ \E o \in Outcomes : ResolveMarketManual(o)
  \/ \E ws \in (SUBSET Outcomes) \ {{}} : ResolveMarketWithTies(ws)
  \/ \E ws \in (SUBSET Outcomes) \ {{}} : ForceResolveMarket(ws)
  \/ FetchOracleResult
  \/ AdminOverrideVerification

Settling ==
  \/ DistributePayouts
  \/ \E u \in Users : ClaimWinnings(u) \/ ClaimNothing(u)
  \/ \E burn \in BOOLEAN : SweepUnclaimedWinnings(burn)

Refunding ==
  \/ CancelEvent
  \/ \E byAdmin \in BOOLEAN : RefundOnOracleFailure(byAdmin)

Next ==
  \/ \E u \in Users : Staking(u)
  \/ Resolving
  \/ Settling
  \/ Refunding
  \/ CollectFees
  \/ \E fee \in PlatformFees : SetPlatformFee(fee)
  \/ ReadThroughCache
  \/ Tick

Spec == Init /\ [][Next]_vars

(* The ledger's clock advances, and a winner keeps trying to claim.        *)
FairSpec ==
  Spec /\ WF_vars(Tick) /\ \A u \in Users : WF_vars(ClaimWinnings(u))

-----------------------------------------------------------------------------
(* Properties that hold whatever the cache does.                           *)

ActiveAmounts ==
  [u \in Users |-> IF bets[u].status = "Active" THEN bets[u].amount ELSE 0]

(* Each amount a bet locked is returned at most once: whatever sequence of *)
(* bets, batches, cancellations and refunds a user goes through, the       *)
(* contract still owes the amount of the active bet (bets.rs cancel_bet,   *)
(* refund_market_bets).                                                    *)
EscrowCoversBet == \A u \in Users : escrow[u] >= ActiveAmounts[u]

(* total_staked, in storage and in any copy a later call may write back,   *)
(* lies between what it must give back and what it can: it covers every    *)
(* bet that can still be refunded from it, and the tokens taken in cover   *)
(* it, so no payout is computed from a pool that is not there.             *)
PoolSound ==
  \A m \in {market, GetMarket} :
    /\ m.total >= SumOver(ActiveAmounts, Users)
    /\ custody >= m.total

(* BetStats.outcome_totals never falls below the bets still active on an   *)
(* outcome, though a duplicate batch and a cancellation touch it out of    *)
(* step with the bet records.                                              *)
StatsCoverActiveBets ==
  \A o \in Outcomes :
    stats[o] >= SumOver(ActiveAmounts, {u \in Users : bets[u].outcome = o})

(* No bet is left Active, so refundable, on a market that has winners or   *)
(* was cancelled: the bet records and the market cannot disagree on        *)
(* whether the money is still the bettor's.                                *)
ActiveBetsOnlyWhileOpen ==
  (\E u \in Users : bets[u].status = "Active")
    => market.winners = {} /\ market.state # "Cancelled"

(* Fees are collected at most once: once fee_collected is set no step      *)
(* unsets it or adds to the vault, stale copies notwithstanding            *)
(* (fees.rs collect_fees, "Idempotency guard").                            *)
FeesCollectedOnce ==
  [][market.feeCollected => market'.feeCollected /\ vault' = vault]_vars

-----------------------------------------------------------------------------
(* Properties of a market nobody reads through the cache (MaxReads = 0).   *)

Ledger == INSTANCE ClaimLedger WITH claimed <- market.claimed

(* Claim records are permanent and come with at most one payment: the      *)
(* market implements the claim ledger (docs/claims/CLAIM_IDEMPOTENCY.md),  *)
(* provided no distribution runs out of budget.                            *)
LedgerSpec == Ledger!Spec

(* "Double Payout Prevention: Users who already claimed are skipped"       *)
(* (lib.rs, distribute_payouts): nobody is credited twice.                 *)
PaidOnce == \A u \in Users : payments[u] <= 1

(* "Once set, claim record cannot be changed" (CLAIM_IDEMPOTENCY.md).      *)
ClaimsAreForever == [][market.claimed \subseteq market'.claimed]_vars

(* What claims would still pay to the winners nobody has paid.             *)
StillOwed ==
  IF market.winners = {} \/ summary.winningTotal = 0 THEN 0
  ELSE SumOver([u \in Users |-> SweptAmount(u)], Unclaimed)

(* A user's vote, if there is one beside a bet record, is that bet.  Voting *)
(* after cancelling a bet is what breaks this.                             *)
OnePosition(u) ==
  market.votes[u] # None /\ bets[u].status # "NoBet"
    => market.votes[u] = bets[u].outcome /\ market.stakes[u] = bets[u].amount

(* No fee a payout is charged, by the configuration or by any value of the *)
(* "platform_fee" key, is below the rate at which the vault collects.      *)
FeesCoverCollection ==
  /\ FeePercent >= ScheduleFee
  /\ \A fee \in PlatformFees \cup {InitialFee} : fee >= 100 * ScheduleFee

(* What was credited to internal balances and what is still owed to        *)
(* winners never exceed the tokens the market took in                      *)
(* (docs/contracts/BALANCES.md, "Total Internal Balances <= Total Contract *)
(* Token Balance"), nor does what the fee vault claims beside them if no   *)
(* payout is charged less than the vault collects; whichever of            *)
(* distribution, claim and sweep settles each winner, each with its own    *)
(* fee, rounding included, as long as no user holds a vote beside a        *)
(* different bet record: the payout total counts the vote, and             *)
(* distribute_payouts pays the bet.                                        *)
Solvent ==
  (\A u \in Users : OnePosition(u))
    => SumOver(balance, Accounts) + StillOwed
         + (IF FeesCoverCollection THEN vault ELSE 0) <= custody

(* A winner whose claim would pay something.                               *)
Owed(u) == /\ market.winners # {}
           /\ IsWinner(u)
           /\ u \notin market.claimed
           /\ summary.winningTotal > 0
           /\ ClaimPayout(market.stakes[u], summary) > 0

(* Every winner who is owed money is eventually settled, paid or swept.    *)
OwedIsSettled == \A u \in Users : Owed(u) ~> u \in market.claimed

=============================================================================
