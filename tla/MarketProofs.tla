---------------------------- MODULE MarketProofs ----------------------------
(***************************************************************************)
(* What holds of a market for any users, outcomes, amounts, times and      *)
(* fees, with the stale read cache and the aborted distributions included  *)
(* unless a theorem says otherwise, and of its removal at any age.         *)
(***************************************************************************)
EXTENDS Removal, SumsProofs, SequenceTheorems, TLAPS

-----------------------------------------------------------------------------
(* Operators.                                                              *)

(* A sum over users is a number.                                           *)
LEMMA SumIsNat ==
  ASSUME NEW f, NEW S \in SUBSET Users, \A u \in S : f[u] \in Int
  PROVE  SumOver(f, S) \in Nat
  <1>1. IsFiniteSet(S)
    BY UsersAssumption, FS_Subset
  <1> QED BY <1>1, UnitsFinite

(* A payout is a whole number.                                             *)
LEMMA PayoutIsInt ==
  ASSUME NEW stake \in Nat, NEW fee \in Int, NEW d \in Nat \ {0},
         NEW s \in Summaries, s.winningTotal # 0
  PROVE  Payout(stake, fee, d, s) \in Int
  <1>1. s.winningTotal \in Nat \ {0} /\ s.totalPool \in Int
    BY DEF Summaries
  <1>2. \A x, y \in Int : x * y \in Int
    OBVIOUS
  <1>3. \A x \in Int : \A y \in Nat \ {0} : x \div y \in Int
    OBVIOUS
  <1>4. stake * (d - fee) \in Int
    BY <1>2
  <1>5. (stake * (d - fee)) \div d \in Int
    BY <1>3, <1>4
  <1>6. ((stake * (d - fee)) \div d) * s.totalPool \in Int
    BY <1>1, <1>2, <1>5
  <1> QED BY <1>1, <1>3, <1>6 DEF Payout

LEMMA DistributionPayoutIsInt ==
  ASSUME platformFee \in 0..1000, NEW stake \in Nat, NEW s \in Summaries, s.winningTotal # 0
  PROVE  DistributionPayout(stake, s) \in Int
  BY PayoutIsInt DEF DistributionPayout

LEMMA ClaimPayoutIsInt ==
  ASSUME NEW stake \in Nat, NEW s \in Summaries, s.winningTotal # 0
  PROVE  ClaimPayout(stake, s) \in Int
  BY PayoutIsInt, AmountsAssumption DEF ClaimPayout

(* What the updates of a market leave in it.                               *)
LEMMA WithStakeIsMarket ==
  ASSUME NEW m \in Markets, NEW u \in Users, NEW o \in Outcomes, NEW a \in Nat
  PROVE  /\ WithStake(m, u, o, a) \in Markets
         /\ WithStake(m, u, o, a).claimed = m.claimed
         /\ WithStake(m, u, o, a).feeCollected = m.feeCollected
  <1>1. PICK t \in Int : t = m.total + a
    BY DEF Markets
  <1>2. PICK votes \in [Users -> Outcomes \cup {None}] :
          votes = [m.votes EXCEPT ![u] = o]
    BY DEF Markets
  <1>3. PICK stakes \in [Users -> Nat] : stakes = [m.stakes EXCEPT ![u] = a]
    BY DEF Markets
  <1>4. WithStake(m, u, o, a)
          = [m EXCEPT !.votes = votes, !.stakes = stakes, !.total = t]
    BY <1>1, <1>2, <1>3 DEF WithStake, Markets
  <1> QED BY <1>1, <1>2, <1>3, <1>4 DEF Markets

LEMMA WithoutBetsIsMarket ==
  ASSUME bets \in [Users -> Bets], NEW m \in Markets, NEW S \in SUBSET Users
  PROVE  /\ WithoutBets(m, S) \in Markets
         /\ WithoutBets(m, S).claimed = m.claimed
         /\ WithoutBets(m, S).feeCollected = m.feeCollected
  <1>1. PICK n \in Nat : n = SumOver([u \in Users |-> bets[u].amount], S)
    <2>1. \A u \in S : [v \in Users |-> bets[v].amount][u] \in Int
      BY DEF Bets
    <2> QED BY <2>1, SumIsNat
  <1>2. m.total - n \in Int
    BY DEF Markets
  <1> QED BY <1>1, <1>2 DEF Markets, WithoutBets

LEMMA WithClaimsIsMarket ==
  ASSUME NEW m \in Markets, NEW S \in SUBSET Users
  PROVE  /\ WithClaims(m, S) \in Markets
         /\ WithClaims(m, S).claimed = m.claimed \cup S
         /\ WithClaims(m, S).feeCollected = m.feeCollected
  BY DEF Markets, WithClaims

LEMMA WithWinnersIsMarket ==
  ASSUME NEW m \in Markets, NEW ws \in SUBSET Outcomes
  PROVE  /\ WithWinners(m, ws) \in Markets
         /\ WithWinners(m, ws).claimed = m.claimed
         /\ WithWinners(m, ws).feeCollected = m.feeCollected
  BY DEF Markets, MarketStates, WithWinners

LEMMA OracleResultIsMarket ==
  ASSUME NEW m \in Markets
  PROVE  /\ WithOracleResult(m) \in Markets
         /\ WithOracleResult(m).claimed = m.claimed
         /\ WithOracleResult(m).feeCollected = m.feeCollected
  BY DEF Markets, WithOracleResult

LEMMA OverriddenIsMarket ==
  ASSUME NEW m \in Markets
  PROVE  /\ Overridden(m) \in Markets
         /\ Overridden(m).claimed = m.claimed
         /\ Overridden(m).feeCollected = m.feeCollected
  BY DEF Markets, MarketStates, Overridden

LEMMA SweptIsMarket ==
  ASSUME NEW m \in Markets
  PROVE  /\ Swept(m) \in Markets
         /\ Swept(m).claimed = m.claimed
         /\ Swept(m).feeCollected = m.feeCollected
  BY DEF Markets, Swept

LEMMA CancelledIsMarket ==
  ASSUME NEW m \in Markets
  PROVE  /\ Cancelled(m) \in Markets
         /\ Cancelled(m).claimed = m.claimed
         /\ Cancelled(m).feeCollected = m.feeCollected
  BY DEF Markets, MarketStates, Cancelled

LEMMA FeesCollectedIsMarket ==
  ASSUME NEW m \in Markets
  PROVE  /\ WithFeesCollected(m) \in Markets
         /\ WithFeesCollected(m).claimed = m.claimed
         /\ WithFeesCollected(m).feeCollected = TRUE
  BY DEF Markets, WithFeesCollected, MarketStates

LEMMA GetMarketIsMarket ==
  ASSUME TypeOK
  PROVE  GetMarket \in Markets
  BY DEF TypeOK, GetMarket

LEMMA RegisteredAreUsers ==
  ASSUME registry \in Seq(Users)
  PROVE  Bettors \in SUBSET Users
  BY ElementOfSeq DEF Bettors

LEMMA RefreshIsSummary ==
  ASSUME NEW m \in Markets, NEW bs \in [Users -> Bets],
         registry \in Seq(Users)
  PROVE  Refresh(m, bs) \in Summaries
  <1> DEFINE voters  == {u \in VoterKeys(m) : m.votes[u] \in m.winners}
             bettors == {u \in Bettors \ VoterKeys(m) : bs[u].outcome \in m.winners}
  <1>1. voters \in SUBSET Users /\ bettors \in SUBSET Users
    BY RegisteredAreUsers DEF VoterKeys
  <1>2. PICK v \in Nat : v = SumOver(m.stakes, voters)
    <2>1. \A u \in voters : m.stakes[u] \in Int
      BY DEF Markets, VoterKeys
    <2> QED BY <1>1, <2>1, SumIsNat
  <1>3. PICK b \in Nat : b = SumOver([u \in Users |-> bs[u].amount], bettors)
    <2>1. \A u \in bettors : [w \in Users |-> bs[w].amount][u] \in Int
      BY <1>1 DEF Bets
    <2> QED BY <1>1, <2>1, SumIsNat
  <1>4. Refresh(m, bs) = [winningTotal |-> v + b, totalPool |-> m.total]
    BY <1>2, <1>3 DEF Refresh
  <1> QED BY <1>4 DEF Summaries, Markets

(* The bet b became c: what it is on and the amount stay, it was not       *)
(* activated, and its record was not lost.                                 *)
NotActivated(b, c) ==
  /\ c.amount = b.amount
  /\ c.outcome = b.outcome
  /\ c.status = "Active" => b.status = "Active"
  /\ b.status # "NoBet" => c.status # "NoBet"

LEMMA NotActivatedIsTransitive ==
  ASSUME NEW b, NEW c, NEW d, NotActivated(b, c), NotActivated(c, d)
  PROVE  NotActivated(b, d)
  BY DEF NotActivated

LEMMA ResolvedBetsAreBets ==
  ASSUME bets \in [Users -> Bets], NEW ws
  PROVE  /\ ResolveMarketBets(ws) \in [Users -> Bets]
         /\ \A u \in Users : NotActivated(bets[u], ResolveMarketBets(ws)[u])
  <1>1. /\ ResolveMarketBets(ws) \in [Users -> Bets]
        /\ \A u \in Users : ResolveMarketBets(ws)[u].amount = bets[u].amount
        /\ \A u \in Users : ResolveMarketBets(ws)[u].outcome = bets[u].outcome
        /\ \A u \in Users : ResolveMarketBets(ws)[u].status = "Active"
                           => bets[u].status = "Active"
        /\ \A u \in Users : bets[u].status # "NoBet"
                           => ResolveMarketBets(ws)[u].status # "NoBet"
    BY DEF ResolveMarketBets, Bets, BetStatuses
  <1>2. ASSUME NEW u \in Users
        PROVE  NotActivated(bets[u], ResolveMarketBets(ws)[u])
    BY <1>1 DEF NotActivated
  <1> QED BY <1>1, <1>2

(* The winners a distribution handles are users without a claim record.    *)
LEMMA PaidAreUnclaimed ==
  ASSUME NEW m \in Markets, NEW bs, NEW s, NEW at
  PROVE  /\ PaidVoters(m, s, at) \in SUBSET (Users \ m.claimed)
         /\ PaidBettors(m, bs, s, at) \cap m.claimed = {}
  BY DEF PaidVoters, PaidBettors, FirstVoters, VoterKeys

LEMMA ClaimantsAreUnclaimed ==
  ASSUME NEW m \in Markets, NEW bs, NEW s, registry \in Seq(Users)
  PROVE  Claimants(m, bs, s) \in SUBSET (Users \ m.claimed)
  <1>1. FirstBettors(Whole(m)[2]) = Bettors
    BY DEF FirstBettors, Whole, Bettors
  <1>2. PaidBettors(m, bs, s, Whole(m)) \in SUBSET Users
    BY <1>1, RegisteredAreUsers DEF PaidBettors
  <1> QED BY <1>2, PaidAreUnclaimed DEF Claimants

(* A distribution credits whole amounts, at most once each and only users  *)
(* without a claim record; it changes nothing of a bet but its status, and *)
(* activates none.                                                         *)
LEMMA DistributeCredits ==
  ASSUME TypeOK, NEW m \in Markets, NEW bs \in [Users -> Bets],
         NEW s \in Summaries, s.winningTotal # 0, NEW at,
         Distribute(m, bs, s, at)
  PROVE  /\ bets' \in [Users -> Bets]
         /\ \A u \in Users : NotActivated(bs[u], bets'[u])
         /\ balance' \in [Accounts -> Nat]
         /\ \E C \in SUBSET Users :
              /\ C \subseteq PaidVoters(m, s, at) \cup PaidBettors(m, bs, s, at)
              /\ payments' = [u \in Users |-> IF u \in C THEN payments[u] + 1
                                                       ELSE payments[u]]
  <1> DEFINE voters  == PaidVoters(m, s, at)
             bettors == PaidBettors(m, bs, s, at)
             credit  == [u \in Users |->
                    CASE u \in voters  -> DistributionPayout(m.stakes[u], s)
                      [] u \in bettors -> DistributionPayout(bs[u].amount, s)
                      [] OTHER -> 0]
             settled == m.claimed \cup voters \cup bettors
  <1>1. /\ bets' = [u \in Users |->
              CASE u \notin FirstBettors(at[2]) -> bs[u]
                [] bs[u].outcome \in m.winners /\ u \in settled
                     -> [bs[u] EXCEPT !.status = "Won"]
                [] bs[u].outcome \notin m.winners /\ bs[u].status = "Active"
                     -> [bs[u] EXCEPT !.status = "Lost"]
                [] OTHER -> bs[u]]
        /\ balance' = [a \in Accounts |-> IF a \in Users
                                          THEN balance[a] + credit[a]
                                          ELSE balance[a]]
        /\ payments' = [u \in Users |-> IF credit[u] > 0 THEN payments[u] + 1
                                                        ELSE payments[u]]
    BY DEF Distribute
  <1>2. ASSUME NEW u \in Users
        PROVE  bets'[u] \in Bets /\ NotActivated(bs[u], bets'[u])
    <2>1. bets'[u] \in {bs[u], [bs[u] EXCEPT !.status = "Won"],
                        [bs[u] EXCEPT !.status = "Lost"]}
      BY <1>1
    <2>2. bs[u] \in Bets
      OBVIOUS
    <2>3. /\ [bs[u] EXCEPT !.status = "Won"] \in Bets
          /\ [bs[u] EXCEPT !.status = "Lost"] \in Bets
          /\ [bs[u] EXCEPT !.status = "Won"].amount = bs[u].amount
          /\ [bs[u] EXCEPT !.status = "Lost"].amount = bs[u].amount
          /\ [bs[u] EXCEPT !.status = "Won"].outcome = bs[u].outcome
          /\ [bs[u] EXCEPT !.status = "Lost"].outcome = bs[u].outcome
          /\ [bs[u] EXCEPT !.status = "Won"].status = "Won"
          /\ [bs[u] EXCEPT !.status = "Lost"].status = "Lost"
      BY <2>2 DEF Bets, BetStatuses
    <2>4. /\ bets'[u] \in Bets /\ bets'[u].amount = bs[u].amount
          /\ bets'[u].outcome = bs[u].outcome
      BY <2>1, <2>2, <2>3
    <2>5. /\ bets'[u].status = "Active" => bs[u].status = "Active"
          /\ bs[u].status # "NoBet" => bets'[u].status # "NoBet"
      BY <2>1, <2>3
    <2> QED BY <2>4, <2>5 DEF NotActivated
  <1>3. ASSUME NEW u \in Users
        PROVE  /\ credit[u] \in Nat
               /\ credit[u] > 0 => u \in voters \cup bettors
    <2>1. CASE u \in voters
      <3>1. m.stakes[u] \in Nat
        BY DEF Markets
      <3>2. DistributionPayout(m.stakes[u], s) \in Int
        BY <3>1, DistributionPayoutIsInt, SMTT(60) DEF TypeOK
      <3>3. DistributionPayout(m.stakes[u], s) >= 0
        BY <2>1 DEF PaidVoters
      <3>4. u \notin bettors
        BY <2>1 DEF PaidBettors
      <3>5. credit[u] = DistributionPayout(m.stakes[u], s)
        BY <2>1, <3>4
      <3> QED BY <2>1, <3>2, <3>3, <3>5
    <2>2. CASE u \in bettors
      <3>1. bs[u].amount \in Nat
        BY DEF Bets
      <3>2. DistributionPayout(bs[u].amount, s) \in Int
        BY <3>1, DistributionPayoutIsInt, SMTT(60) DEF TypeOK
      <3>3. DistributionPayout(bs[u].amount, s) > 0 /\ u \notin voters
        BY <2>2 DEF PaidBettors
      <3>4. credit[u] = DistributionPayout(bs[u].amount, s)
        BY <2>2, <3>3
      <3> QED BY <2>2, <3>2, <3>3, <3>4
    <2>3. CASE u \notin voters \cup bettors
      <3>1. credit[u] = 0
        BY <2>3
      <3> QED BY <3>1, <2>3
    <2> QED BY <2>1, <2>2, <2>3
  <1>4. bets' \in [Users -> Bets]
    BY <1>1, <1>2
  <1> HIDE DEF credit, voters, bettors
  <1>5. balance' \in [Accounts -> Nat]
    <2>1. ASSUME NEW a \in Accounts PROVE balance'[a] \in Nat
      BY <1>1, <1>3, SMTT(60) DEF TypeOK
    <2> QED BY <1>1, <2>1
  <1>6. \E C \in SUBSET Users :
          /\ C \subseteq voters \cup bettors
          /\ payments' = [u \in Users |-> IF u \in C THEN payments[u] + 1
                                                   ELSE payments[u]]
    <2> DEFINE C == {u \in Users : credit[u] > 0}
    <2>1. C \in SUBSET Users /\ C \subseteq voters \cup bettors
      BY <1>3
    <2>2. payments' = [u \in Users |-> IF u \in C THEN payments[u] + 1
                                              ELSE payments[u]]
      BY <1>1
    <2> QED BY <2>1, <2>2
  <1> QED BY <1>2, <1>4, <1>5, <1>6 DEF voters, bettors

-----------------------------------------------------------------------------
(* Type correctness.                                                       *)

LEMMA RegisteredIsSeq ==
  ASSUME registry \in Seq(Users), NEW u \in Users
  PROVE  Registered(u) \in Seq(Users)
  BY AppendProperties DEF Registered

LEMMA InitTypeOK == Init => TypeOK
  <1> SUFFICES ASSUME Init PROVE TypeOK
    OBVIOUS
  <1>1. market \in Markets
    BY DEF Init, NewMarket, Markets, MarketStates
  <1>2. bets \in [Users -> Bets]
    BY DEF Init, NoBet, Bets, BetStatuses
  <1> QED BY <1>1, <1>2, TimesAssumption, AmountsAssumption DEF Init, TypeOK

(* A step takes the market to a market, through storage or through the     *)
(* cache, and every claim record and the fee flag come along.              *)
StoresMarket ==
  /\ market' \in Markets
  /\ cache' = cache
  /\ market.claimed \subseteq market'.claimed
  /\ market'.feeCollected = market.feeCollected

WritesBackMarket ==
  /\ market' \in Markets
  /\ cache' = NoMarket
  /\ market'.claimed = GetMarket.claimed
  /\ market'.feeCollected = GetMarket.feeCollected

CollectsFees ==
  /\ ~GetMarket.feeCollected
  /\ market' \in Markets
  /\ cache' = NoMarket
  /\ market'.claimed = GetMarket.claimed
  /\ market'.feeCollected

LEMMA VoteTypeOK ==
  ASSUME TypeOK, NEW u \in Users, NEW o \in Outcomes, NEW a \in VoteStakes,
         Vote(u, o, a)
  PROVE  TypeOK' /\ StoresMarket /\ vault' = vault
  <1>1. a \in Nat /\ market \in Markets
    BY AmountsAssumption DEF TypeOK
  <1>2. market' = WithStake(market, u, o, a) /\ cache' = cache
    BY DEF Vote, SetMarket
  <1>3. StoresMarket
    BY <1>1, <1>2, WithStakeIsMarket DEF StoresMarket
  <1>4. stakings' \in 0..MaxStakings /\ resolutions' = resolutions /\ reads' = reads
    BY TimesAssumption DEF Vote, TakesStake, TypeOK
  <1>5. custody' \in Nat
    BY <1>1 DEF Vote, TypeOK
  <1>6. UNCHANGED <<now, platformFee, betVars, resultVars, balance, vault,
                    escrow, payments>>
    BY DEF Vote
  <1> QED BY <1>2, <1>3, <1>4, <1>5, <1>6
          DEF TypeOK, StoresMarket, betVars, resultVars

(* Both ways of placing bets record one bet, count some amounts in the     *)
(* statistics and write the market back with that bet.                     *)
LEMMA PlacedTypeOK ==
  ASSUME TypeOK, NEW u \in Users, NEW o \in Outcomes, NEW a \in Nat,
         NEW taken \in Nat,
         stakings' \in 0..MaxStakings, resolutions' = resolutions, reads' = reads,
         bets' = [bets EXCEPT ![u] = ActiveBet(o, a)],
         registry' = Registered(u),
         stats' \in [Outcomes -> Nat],
         UpdateMarket(WithStake(GetMarket, u, o, a)),
         custody' = custody + taken,
         escrow' = [escrow EXCEPT ![u] = @ + taken],
         UNCHANGED <<now, platformFee, resultVars, balance, vault, payments>>
  PROVE  TypeOK' /\ WritesBackMarket
  <1>1. market' = WithStake(GetMarket, u, o, a) /\ cache' = NoMarket
    BY DEF UpdateMarket
  <1>2. WritesBackMarket
    BY <1>1, GetMarketIsMarket, WithStakeIsMarket DEF WritesBackMarket
  <1>3. ActiveBet(o, a) \in Bets
    BY DEF ActiveBet, Bets, BetStatuses
  <1>4. bets' \in [Users -> Bets]
    BY <1>3 DEF TypeOK
  <1>5. registry' \in Seq(Users)
    BY RegisteredIsSeq DEF TypeOK
  <1>6. custody' \in Nat /\ escrow' \in [Users -> Int]
    BY SMTT(60) DEF TypeOK
  <1> QED BY <1>1, <1>2, <1>4, <1>5, <1>6, SMTT(60) DEF TypeOK, WritesBackMarket, resultVars

LEMMA PlaceBetTypeOK ==
  ASSUME TypeOK, NEW u \in Users, NEW o \in Outcomes, NEW a \in BetAmounts,
         PlaceBet(u, o, a)
  PROVE  TypeOK' /\ WritesBackMarket /\ vault' = vault
  <1>1. a \in Nat
    BY AmountsAssumption
  <1>2. stakings' \in 0..MaxStakings /\ resolutions' = resolutions /\ reads' = reads
    BY TimesAssumption DEF PlaceBet, TakesStake, TypeOK
  <1>3. stats' \in [Outcomes -> Nat]
    BY <1>1, SMTT(60) DEF PlaceBet, TypeOK
  <1>4. /\ bets' = [bets EXCEPT ![u] = ActiveBet(o, a)]
        /\ registry' = Registered(u)
        /\ UpdateMarket(WithStake(GetMarket, u, o, a))
        /\ custody' = custody + a
        /\ escrow' = [escrow EXCEPT ![u] = @ + a]
        /\ UNCHANGED <<now, platformFee, resultVars, balance, vault, payments>>
    BY DEF PlaceBet
  <1> QED BY <1>1, <1>2, <1>3, <1>4, PlacedTypeOK

LEMMA PlaceBetsTypeOK ==
  ASSUME TypeOK, NEW u \in Users, NEW o1 \in Outcomes, NEW o2 \in Outcomes,
         NEW a1 \in BetAmounts, NEW a2 \in BetAmounts,
         PlaceBets(u, o1, a1, o2, a2)
  PROVE  TypeOK' /\ WritesBackMarket /\ vault' = vault
  <1>1. a1 \in Nat /\ a2 \in Nat
    BY AmountsAssumption
  <1>2. stakings' \in 0..MaxStakings /\ resolutions' = resolutions /\ reads' = reads
    BY TimesAssumption DEF PlaceBets, TakesStake, TypeOK
  <1>3. stats' \in [Outcomes -> Nat]
    <2> DEFINE f == [stats EXCEPT ![o1] = @ + a1]
    <2>1. f \in [Outcomes -> Nat]
      BY <1>1, SMTT(60) DEF TypeOK
    <2>2. stats' = [f EXCEPT ![o2] = @ + a2]
      BY DEF PlaceBets
    <2> HIDE DEF f
    <2> QED BY <1>1, <2>1, <2>2
  <1>4. /\ bets' = [bets EXCEPT ![u] = ActiveBet(o2, a2)]
        /\ registry' = Registered(u)
        /\ UpdateMarket(WithStake(GetMarket, u, o2, a2))
        /\ custody' = custody + a1 + a2
        /\ escrow' = [escrow EXCEPT ![u] = @ + a1 + a2]
        /\ UNCHANGED <<now, platformFee, resultVars, balance, vault, payments>>
    BY DEF PlaceBets
  <1>5. PICK taken \in Nat : taken = a1 + a2
    BY <1>1
  <1>6. custody' = custody + taken
    BY <1>1, <1>4, <1>5 DEF TypeOK
  <1>7. escrow' = [escrow EXCEPT ![u] = @ + taken]
    <2>1. escrow[u] \in Int
      BY DEF TypeOK
    <2>2. escrow[u] + a1 + a2 = escrow[u] + taken
      BY <1>1, <1>5, <2>1
    <2> QED BY <1>4, <2>2
  <1> QED BY <1>1, <1>2, <1>3, <1>4, <1>5, <1>6, <1>7, PlacedTypeOK

LEMMA CancelBetTypeOK ==
  ASSUME TypeOK, NEW u \in Users, CancelBet(u)
  PROVE  TypeOK' /\ WritesBackMarket /\ vault' = vault
  <1>1. market' = WithoutBets(GetMarket, {u}) /\ cache' = NoMarket
    BY DEF CancelBet, UpdateMarket
  <1>2. WritesBackMarket
    BY <1>1, GetMarketIsMarket, WithoutBetsIsMarket DEF WritesBackMarket, TypeOK
  <1>3. bets[u] \in Bets /\ bets[u].amount \in Nat
    BY DEF TypeOK, Bets
  <1>4. [bets[u] EXCEPT !.status = "Cancelled"] \in Bets
    BY <1>3 DEF Bets, BetStatuses
  <1>5. bets' \in [Users -> Bets]
    BY <1>4 DEF CancelBet, TypeOK
  <1>6. stats' \in [Outcomes -> Nat]
    <2>1. /\ stats \in [Outcomes -> Nat]
          /\ stats' = [stats EXCEPT ![bets[u].outcome] =
                         FloorSub(stats[bets[u].outcome], bets[u].amount)]
      <3>1. stats \in [Outcomes -> Nat]
        BY DEF TypeOK
      <3> QED BY <3>1 DEF CancelBet
    <2>2. \A o \in Outcomes : FloorSub(stats[o], bets[u].amount) \in Nat
      BY <1>3, <2>1 DEF FloorSub
    <2> QED BY <2>1, <2>2
  <1>7. custody' \in Nat /\ escrow' \in [Users -> Int]
    <2>1. custody \in Nat /\ escrow \in [Users -> Int]
      BY DEF TypeOK
    <2>2. custody' \in Nat
      BY <1>3, <2>1 DEF CancelBet
    <2>3. escrow' = [escrow EXCEPT ![u] = @ - bets[u].amount]
      BY DEF CancelBet
    <2> QED BY <1>3, <2>1, <2>2, <2>3
  <1>8. UNCHANGED <<now, platformFee, registry, resultVars, balance, vault,
                    payments, counters>>
    BY DEF CancelBet
  <1> QED BY <1>1, <1>2, <1>5, <1>6, <1>7, <1>8, SMTT(60)
          DEF TypeOK, WritesBackMarket, resultVars, counters

LEMMA DistributePayoutsTypeOK ==
  ASSUME TypeOK, DistributePayouts
  PROVE  TypeOK' /\ StoresMarket /\ vault' = vault
  <1>1. /\ summary \in Summaries /\ summary.winningTotal # 0
        /\ market \in Markets /\ bets \in [Users -> Bets]
        /\ registry \in Seq(Users)
    BY DEF DistributePayouts, Distributable, TypeOK
  <1>2. PICK X \in SUBSET Users : X = Claimants(market, bets, summary)
    BY <1>1, ClaimantsAreUnclaimed
  <1>3. market' = WithClaims(market, X) /\ cache' = cache
    BY <1>2 DEF DistributePayouts, SetMarket
  <1>4. StoresMarket
    BY <1>1, <1>3, WithClaimsIsMarket DEF StoresMarket
  <1>5. Distribute(market, bets, summary, Whole(market))
    BY DEF DistributePayouts
  <1>6. /\ bets' \in [Users -> Bets]
        /\ balance' \in [Accounts -> Nat]
        /\ payments' \in [Users -> Nat]
    <2>1. /\ bets' \in [Users -> Bets]
          /\ balance' \in [Accounts -> Nat]
          /\ \E C \in SUBSET Users :
               payments' = [u \in Users |-> IF u \in C THEN payments[u] + 1
                                                   ELSE payments[u]]
      BY <1>1, <1>5, DistributeCredits
    <2> QED BY <2>1 DEF TypeOK
  <1>7. UNCHANGED <<now, platformFee, registry, stats, resultVars, vault,
                    custody, escrow, counters>>
    BY DEF DistributePayouts
  <1> QED BY <1>3, <1>4, <1>6, <1>7
          DEF TypeOK, StoresMarket, resultVars, counters

LEMMA ResolveTypeOK ==
  ASSUME TypeOK, NEW ws \in SUBSET Outcomes, Resolve(ws)
  PROVE  TypeOK' /\ StoresMarket /\ vault' = vault
  <1>1. PICK m \in Markets :
          /\ m = WithWinners(market, ws)
          /\ m.claimed = market.claimed /\ m.feeCollected = market.feeCollected
    BY WithWinnersIsMarket DEF TypeOK
  <1>2. PICK bs \in [Users -> Bets] : bs = ResolveMarketBets(ws)
    BY ResolvedBetsAreBets DEF TypeOK
  <1>3. PICK s \in Summaries : s = Refresh(m, bs)
    BY RefreshIsSummary DEF TypeOK
  <1>4. /\ resolutions < MaxResolutions /\ resolutions' = resolutions + 1
        /\ summary' = s
        /\ claimStart' = IF claimStart = None THEN now ELSE claimStart
        /\ UNCHANGED <<now, platformFee, registry, stats, vault, custody,
                       escrow, stakings, reads>>
    BY <1>1, <1>2, <1>3 DEF Resolve
  <1>5. \/ /\ bets' = bs
           /\ SetMarket(m)
           /\ UNCHANGED <<balance, payments>>
        \/ /\ Distributable(m, bs, s)
           /\ \E at : Distribute(m, bs, s, at)
           /\ SetMarket(m) \/ SetMarket(WithClaims(m, Claimants(m, bs, s)))
    BY <1>1, <1>2, <1>3 DEF Resolve
  <1>6. PICK X \in SUBSET Users : X = Claimants(m, bs, s)
    BY ClaimantsAreUnclaimed DEF TypeOK
  <1>7. StoresMarket
    <2>1. cache' = cache /\ market' \in {m, WithClaims(m, X)}
      BY <1>5, <1>6 DEF SetMarket
    <2> QED BY <1>1, <2>1, WithClaimsIsMarket DEF StoresMarket
  <1>8. /\ bets' \in [Users -> Bets]
        /\ balance' \in [Accounts -> Nat]
        /\ payments' \in [Users -> Nat]
    <2>1. CASE bets' = bs /\ UNCHANGED <<balance, payments>>
      BY <2>1 DEF TypeOK
    <2>2. CASE Distributable(m, bs, s) /\ \E at : Distribute(m, bs, s, at)
      <3>1. s.winningTotal # 0
        BY <2>2 DEF Distributable
      <3>2. PICK at : Distribute(m, bs, s, at)
        BY <2>2
      <3>3. /\ bets' \in [Users -> Bets]
            /\ balance' \in [Accounts -> Nat]
            /\ \E C \in SUBSET Users :
                 payments' = [u \in Users |-> IF u \in C THEN payments[u] + 1
                                                     ELSE payments[u]]
        BY <3>1, <3>2, DistributeCredits
      <3> QED BY <3>3 DEF TypeOK
    <2> QED BY <1>5, <2>1, <2>2
  <1>9. resolutions' \in 0..MaxResolutions /\ claimStart' \in Nat \cup {None}
    BY <1>4, TimesAssumption DEF TypeOK
  <1> QED BY <1>4, <1>7, <1>8, <1>9 DEF TypeOK, StoresMarket

LEMMA FetchOracleResultTypeOK ==
  ASSUME TypeOK, FetchOracleResult
  PROVE  TypeOK' /\ StoresMarket /\ vault' = vault
  <1>1. market' = WithOracleResult(market) /\ cache' = cache
    BY DEF FetchOracleResult, SetMarket
  <1>2. StoresMarket
    BY <1>1, OracleResultIsMarket DEF StoresMarket, TypeOK
  <1>3. UNCHANGED <<now, platformFee, betVars, resultVars, moneyVars, history>>
    BY DEF FetchOracleResult
  <1> QED BY <1>1, <1>2, <1>3
          DEF TypeOK, StoresMarket, betVars, resultVars, moneyVars, history, counters

LEMMA AdminOverrideTypeOK ==
  ASSUME TypeOK, AdminOverrideVerification
  PROVE  TypeOK' /\ WritesBackMarket /\ vault' = vault
  <1>1. market' = Overridden(GetMarket) /\ cache' = NoMarket
    BY DEF AdminOverrideVerification, UpdateMarket
  <1>2. WritesBackMarket
    BY <1>1, GetMarketIsMarket, OverriddenIsMarket DEF WritesBackMarket
  <1>3. UNCHANGED <<now, platformFee, betVars, resultVars, moneyVars, history>>
    BY DEF AdminOverrideVerification
  <1> QED BY <1>1, <1>2, <1>3
          DEF TypeOK, WritesBackMarket, betVars, resultVars, moneyVars, history,
              counters

LEMMA ClaimWinningsTypeOK ==
  ASSUME TypeOK, NEW u \in Users, ClaimWinnings(u)
  PROVE  TypeOK' /\ StoresMarket /\ vault' = vault
  <1>1. market' = WithClaims(market, {u}) /\ cache' = cache
    BY DEF ClaimWinnings, SetMarket
  <1>2. StoresMarket
    <2>1. market \in Markets
      BY DEF TypeOK
    <2> QED BY <1>1, <2>1, WithClaimsIsMarket DEF StoresMarket
  <1>3. summary \in Summaries /\ summary.winningTotal # 0 /\ market.stakes[u] \in Nat
    BY DEF ClaimWinnings, TypeOK, Markets, Summaries
  <1>4. PICK p \in Int : p = ClaimPayout(market.stakes[u], summary)
    BY <1>3, ClaimPayoutIsInt
  <1>5. p > 0 /\ balance' = [balance EXCEPT ![u] = @ + p]
    BY <1>4 DEF ClaimWinnings
  <1>6. balance' \in [Accounts -> Nat]
    BY <1>5 DEF TypeOK, Accounts
  <1>7. payments' \in [Users -> Nat]
    BY DEF ClaimWinnings, TypeOK
  <1>8. UNCHANGED <<now, platformFee, betVars, resultVars, vault, custody,
                    escrow, counters>>
    BY DEF ClaimWinnings
  <1> QED BY <1>1, <1>2, <1>6, <1>7, <1>8, ZenonT(60)
          DEF TypeOK, StoresMarket, betVars, resultVars, counters

LEMMA ClaimNothingTypeOK ==
  ASSUME TypeOK, NEW u \in Users, ClaimNothing(u)
  PROVE  TypeOK' /\ StoresMarket /\ vault' = vault
  <1>1. market' = WithClaims(market, {u}) /\ cache' = cache
    BY DEF ClaimNothing, SetMarket
  <1>2. StoresMarket
    <2>1. market \in Markets
      BY DEF TypeOK
    <2> QED BY <1>1, <2>1, WithClaimsIsMarket DEF StoresMarket
  <1>3. UNCHANGED <<now, platformFee, betVars, resultVars, moneyVars, history>>
    BY DEF ClaimNothing
  <1> QED BY <1>1, <1>2, <1>3, ZenonT(60)
          DEF TypeOK, StoresMarket, betVars, resultVars, moneyVars, history, counters

LEMMA UnclaimedAreUsers ==
  ASSUME registry \in Seq(Users)
  PROVE  Unclaimed \in SUBSET (Users \ market.claimed)
  BY RegisteredAreUsers DEF Unclaimed

LEMMA SweepTypeOK ==
  ASSUME TypeOK, NEW burn \in BOOLEAN, SweepUnclaimedWinnings(burn)
  PROVE  TypeOK' /\ StoresMarket /\ vault' = vault
  <1>1. Unclaimed \in SUBSET Users
    BY UnclaimedAreUsers DEF TypeOK
  <1>2. market' = Swept(WithClaims(market, Unclaimed)) /\ cache' = cache
    BY DEF SweepUnclaimedWinnings, SetMarket
  <1>3. StoresMarket
    <2>1. market \in Markets
      BY DEF TypeOK
    <2>2. /\ WithClaims(market, Unclaimed) \in Markets
          /\ WithClaims(market, Unclaimed).claimed = market.claimed \cup Unclaimed
          /\ WithClaims(market, Unclaimed).feeCollected = market.feeCollected
      BY <1>1, <2>1, WithClaimsIsMarket
    <2> QED BY <1>2, <2>2, SweptIsMarket DEF StoresMarket
  <1>4. PICK n \in Nat : n = SumOver([u \in Users |-> SweptAmount(u)], Unclaimed)
    <2>1. summary \in Summaries /\ summary.winningTotal # 0
      BY DEF SweepUnclaimedWinnings, TypeOK, Summaries
    <2>2. ASSUME NEW u \in Users PROVE SweptAmount(u) \in Int
      <3>1. market.stakes[u] \in Nat /\ bets[u].amount \in Nat
        BY DEF TypeOK, Markets, Bets
      <3> QED BY <2>1, <3>1, ClaimPayoutIsInt DEF SweptAmount
    <2> QED BY <1>1, <2>2, SumIsNat
  <1>5. balance' = IF burn THEN balance ELSE [balance EXCEPT ![Treasury] = @ + n]
    BY <1>4 DEF SweepUnclaimedWinnings
  <1>6. balance' \in [Accounts -> Nat]
    BY <1>5 DEF TypeOK, Accounts
  <1>7. UNCHANGED <<now, platformFee, betVars, resultVars, vault, custody,
                    history>>
    BY DEF SweepUnclaimedWinnings
  <1> QED BY <1>2, <1>3, <1>6, <1>7
          DEF TypeOK, StoresMarket, betVars, resultVars, history, counters

(* The market the refunds are applied to comes from the cache if it holds  *)
(* one, and is otherwise the one just stored as Cancelled.                 *)
LEMMA CancelAndRefundTypeOK ==
  ASSUME TypeOK, CancelAndRefund
  PROVE  TypeOK' /\ WritesBackMarket /\ vault' = vault
  <1>1. PICK read \in Markets :
          /\ read = IF cache # NoMarket THEN cache ELSE Cancelled(market)
          /\ read.claimed = GetMarket.claimed
          /\ read.feeCollected = GetMarket.feeCollected
    BY CancelledIsMarket DEF TypeOK, GetMarket
  <1>2. ActiveBettors \in SUBSET Users
    BY RegisteredAreUsers DEF TypeOK, ActiveBettors
  <1>3. market' = WithoutBets(read, ActiveBettors) /\ cache' = NoMarket
    BY <1>1 DEF CancelAndRefund, UpdateMarket
  <1>4. WritesBackMarket
    BY <1>1, <1>2, <1>3, WithoutBetsIsMarket DEF WritesBackMarket, TypeOK
  <1> DEFINE refund == [u \in Users |-> IF u \in ActiveBettors THEN bets[u].amount
                                                             ELSE 0]
  <1>5. refund \in [Users -> Nat]
    BY DEF TypeOK, Bets
  <1>6. PICK n \in Nat : n = SumOver(refund, Users)
    <2>1. \A u \in Users : refund[u] \in Int
      BY <1>5
    <2> QED BY <2>1, SumIsNat
  <1>7. /\ custody >= n /\ custody' = custody - n
        /\ escrow' = [u \in Users |-> escrow[u] - refund[u]]
        /\ bets' = [u \in Users |->
                      IF u \in ActiveBettors
                      THEN [bets[u] EXCEPT !.status = "Refunded"]
                      ELSE bets[u]]
    BY <1>6 DEF CancelAndRefund
  <1>8. custody' \in Nat /\ escrow' \in [Users -> Int]
    BY <1>5, <1>6, <1>7 DEF TypeOK
  <1>9. bets' \in [Users -> Bets]
    <2>1. \A u \in Users : bets[u] \in Bets
      BY DEF TypeOK
    <2>2. \A b \in Bets : [b EXCEPT !.status = "Refunded"] \in Bets
      BY DEF Bets, BetStatuses
    <2> QED BY <1>7, <2>1, <2>2
  <1>10. UNCHANGED <<now, platformFee, registry, stats, resultVars, balance,
                     vault, payments, counters>>
    BY DEF CancelAndRefund
  <1> QED BY <1>3, <1>4, <1>8, <1>9, <1>10
          DEF TypeOK, WritesBackMarket, resultVars, counters

LEMMA CollectFeesTypeOK ==
  ASSUME TypeOK, CollectFees
  PROVE  TypeOK' /\ CollectsFees
  <1>1. GetMarket \in Markets /\ GetMarket.total \in Int
    BY GetMarketIsMarket DEF Markets
  <1>2. market' = WithFeesCollected(GetMarket) /\ cache' = NoMarket
    BY DEF CollectFees, UpdateMarket
  <1>3. CollectsFees
    BY <1>1, <1>2, FeesCollectedIsMarket DEF CollectFees, CollectsFees
  <1>4. PlatformFee(GetMarket) \in Int
    <2>1. PICK n \in Int : n = GetMarket.total * ScheduleFee
      BY <1>1, AmountsAssumption
    <2> QED BY <2>1 DEF PlatformFee
  <1>5. vault' \in Nat
    <2>1. /\ PlatformFee(GetMarket) >= MinFeeAmount
          /\ vault' = vault + PlatformFee(GetMarket)
      BY DEF CollectFees
    <2>2. vault \in Nat /\ MinFeeAmount \in Nat
      BY AmountsAssumption DEF TypeOK
    <2> QED BY <1>4, <2>1, <2>2
  <1>6. UNCHANGED <<now, platformFee, betVars, resultVars, balance, custody,
                    history>>
    BY DEF CollectFees
  <1> QED BY <1>2, <1>3, <1>5, <1>6
          DEF TypeOK, CollectsFees, betVars, resultVars, history, counters

ReadsMarket ==
  /\ reads < MaxReads
  /\ cache = NoMarket /\ cache' = market
  /\ market' = market

(* Every step keeps the types, and touches the market in one of five ways. *)
LEMMA Steps ==
  ASSUME TypeOK, [Next]_vars
  PROVE  /\ TypeOK'
         /\ \/ UNCHANGED <<market, cache, vault>>
            \/ StoresMarket /\ vault' = vault
            \/ WritesBackMarket /\ vault' = vault
            \/ CollectsFees
            \/ ReadsMarket /\ vault' = vault
  <1> DEFINE G == /\ TypeOK'
                  /\ \/ UNCHANGED <<market, cache, vault>>
                     \/ StoresMarket /\ vault' = vault
                     \/ WritesBackMarket /\ vault' = vault
                     \/ CollectsFees
                     \/ ReadsMarket /\ vault' = vault
  <1>1. ASSUME NEW u \in Users, Staking(u) PROVE G
    BY <1>1, VoteTypeOK, PlaceBetTypeOK, PlaceBetsTypeOK, CancelBetTypeOK
       DEF Staking
  <1>2. ASSUME Resolving PROVE G
    <2>1. ASSUME NEW ws \in SUBSET Outcomes, Resolve(ws) PROVE G
      BY <2>1, ResolveTypeOK
    <2>2. ASSUME NEW o \in Outcomes, ResolveMarketManual(o) PROVE G
      BY <2>1, <2>2 DEF ResolveMarketManual
    <2>3. ASSUME NEW ws \in SUBSET Outcomes, ResolveMarketWithTies(ws) PROVE G
      BY <2>1, <2>3 DEF ResolveMarketWithTies
    <2>4. ASSUME NEW ws \in SUBSET Outcomes, ForceResolveMarket(ws) PROVE G
      BY <2>1, <2>4 DEF ForceResolveMarket
    <2>5. ASSUME FetchOracleResult PROVE G
      BY <2>5, FetchOracleResultTypeOK
    <2>6. ASSUME AdminOverrideVerification PROVE G
      BY <2>6, AdminOverrideTypeOK
    <2> QED BY <1>2, <2>2, <2>3, <2>4, <2>5, <2>6 DEF Resolving
  <1>3. ASSUME Settling PROVE G
    BY <1>3, DistributePayoutsTypeOK, ClaimWinningsTypeOK, ClaimNothingTypeOK,
       SweepTypeOK DEF Settling
  <1>4. ASSUME Refunding PROVE G
    BY <1>4, CancelAndRefundTypeOK DEF Refunding, CancelEvent, RefundOnOracleFailure
  <1>5. ASSUME CollectFees PROVE G
    BY <1>5, CollectFeesTypeOK
  <1>6. ASSUME ReadThroughCache PROVE G
    <2>1. /\ reads < MaxReads /\ reads' = reads + 1
          /\ cache = NoMarket /\ cache' = market
          /\ UNCHANGED <<now, platformFee, market, betVars, resultVars,
                         moneyVars, escrow, payments, stakings, resolutions>>
      BY <1>6 DEF ReadThroughCache
    <2>2. reads' \in 0..MaxReads
      BY <2>1, TimesAssumption DEF TypeOK
    <2> QED BY <2>1, <2>2
            DEF TypeOK, ReadsMarket, betVars, resultVars, moneyVars
  <1>7. ASSUME Tick PROVE G
    <2>1. now' \in 0..MaxTime
      BY <1>7, TimesAssumption DEF Tick, TypeOK
    <2>2. UNCHANGED <<platformFee, marketVars, betVars, resultVars, moneyVars,
                      history>>
      BY <1>7 DEF Tick
    <2> QED BY <2>1, <2>2
            DEF TypeOK, marketVars, betVars, resultVars, moneyVars, history, counters
  <1>8. ASSUME NEW fee \in PlatformFees, SetPlatformFee(fee) PROVE G
    <2>1. platformFee' \in 0..1000
      BY <1>8, AmountsAssumption DEF SetPlatformFee
    <2>2. UNCHANGED <<now, marketVars, betVars, resultVars, moneyVars, history>>
      BY <1>8 DEF SetPlatformFee
    <2> QED BY <2>1, <2>2
            DEF TypeOK, marketVars, betVars, resultVars, moneyVars, history, counters
  <1>9. CASE UNCHANGED vars
    BY <1>9 DEF vars, TypeOK
  <1> QED BY <1>1, <1>2, <1>3, <1>4, <1>5, <1>6, <1>7, <1>8, <1>9 DEF Next

(* All state keeps its type: no internal balance, custody or vault goes    *)
(* negative, and every market written is a well-formed market, in          *)
(* whatever order users stake, cancel, resolve, claim, sweep and refund.   *)
THEOREM TypeCorrect == Spec => []TypeOK
  <1>1. TypeOK /\ [Next]_vars => TypeOK'
    BY Steps
  <1> QED BY <1>1, InitTypeOK, PTL DEF Spec

-----------------------------------------------------------------------------
(* Fees.                                                                   *)

(* A copy in the cache may be stale, but not about the fees: whoever sets  *)
(* fee_collected drops the copy.                                           *)
FeesAgree ==
  cache # NoMarket => cache.feeCollected = market.feeCollected

LEMMA FeesStep ==
  ASSUME TypeOK, FeesAgree, [Next]_vars
  PROVE  /\ FeesAgree'
         /\ market.feeCollected => market'.feeCollected /\ vault' = vault
  <1>1. GetMarket.feeCollected = market.feeCollected
    BY DEF FeesAgree, GetMarket
  <1> QED BY <1>1, Steps
          DEF FeesAgree, StoresMarket, WritesBackMarket, CollectsFees, ReadsMarket

(* Platform fees are collected at most once per market, although           *)
(* collect_fees decides on a copy that may be stale (fees.rs collect_fees, *)
(* "Idempotency guard").                                                   *)
THEOREM FeesOnce == Spec => FeesCollectedOnce
  <1>1. Init => TypeOK /\ FeesAgree
    BY InitTypeOK DEF Init, FeesAgree
  <1>2. (TypeOK /\ FeesAgree) /\ [Next]_vars => (TypeOK /\ FeesAgree)'
    BY Steps, FeesStep
  <1>3. (TypeOK /\ FeesAgree) /\ [Next]_vars
          => [market.feeCollected => market'.feeCollected /\ vault' = vault]_vars
    BY FeesStep
  <1> QED BY <1>1, <1>2, <1>3, PTL DEF Spec, FeesCollectedOnce

-----------------------------------------------------------------------------
(* Escrow.                                                                 *)

LEMMA NoneActivatedKeepsEscrow ==
  ASSUME TypeOK, EscrowCoversBet, escrow' = escrow,
         \A u \in Users : NotActivated(bets[u], bets'[u])
  PROVE  EscrowCoversBet'
  <1> SUFFICES ASSUME NEW u \in Users
               PROVE  escrow'[u] >= IF bets'[u].status = "Active"
                                    THEN bets'[u].amount ELSE 0
    BY DEF EscrowCoversBet, ActiveAmounts
  <1>1. escrow[u] \in Int /\ bets[u].amount \in Nat
    BY DEF TypeOK, Bets
  <1>2. escrow[u] >= IF bets[u].status = "Active" THEN bets[u].amount ELSE 0
    BY DEF EscrowCoversBet, ActiveAmounts
  <1> QED BY <1>1, <1>2 DEF NotActivated

(* One user's escrow and bet change together.                              *)
LEMMA OneBetKeepsEscrow ==
  ASSUME TypeOK, EscrowCoversBet, NEW u \in Users, NEW b \in Bets, NEW n \in Int,
         bets' = [bets EXCEPT ![u] = b], escrow' = [escrow EXCEPT ![u] = n],
         n >= IF b.status = "Active" THEN b.amount ELSE 0
  PROVE  EscrowCoversBet'
  <1> SUFFICES ASSUME NEW v \in Users
               PROVE  escrow'[v] >= IF bets'[v].status = "Active"
                                    THEN bets'[v].amount ELSE 0
    BY DEF EscrowCoversBet, ActiveAmounts
  <1>1. CASE v = u
    <2>1. escrow'[v] = n /\ bets'[v] = b
      BY <1>1 DEF TypeOK
    <2> QED BY <2>1
  <1>2. CASE v # u
    <2>1. escrow'[v] = escrow[v] /\ bets'[v] = bets[v]
      BY <1>2 DEF TypeOK
    <2> QED BY <2>1 DEF EscrowCoversBet, ActiveAmounts
  <1> QED BY <1>1, <1>2

LEMMA PlacedKeepsEscrow ==
  ASSUME TypeOK, EscrowCoversBet, NEW u \in Users, NEW o \in Outcomes,
         NEW a \in Nat, NEW n \in Nat, MayBet(u), n >= a,
         bets' = [bets EXCEPT ![u] = ActiveBet(o, a)],
         escrow' = [escrow EXCEPT ![u] = escrow[u] + n]
  PROVE  EscrowCoversBet'
  <1>1. escrow[u] \in Int /\ escrow[u] >= 0
    BY DEF TypeOK, EscrowCoversBet, ActiveAmounts, MayBet
  <1>2. PICK e \in Int : e = escrow[u] + n
    BY <1>1
  <1>3. ActiveBet(o, a) \in Bets /\ ActiveBet(o, a).amount = a
    BY DEF ActiveBet, Bets, BetStatuses
  <1>4. e >= IF ActiveBet(o, a).status = "Active" THEN ActiveBet(o, a).amount
                                                 ELSE 0
    BY <1>1, <1>2, <1>3
  <1> QED BY <1>2, <1>3, <1>4, OneBetKeepsEscrow

LEMMA EscrowStep ==
  ASSUME TypeOK, EscrowCoversBet, [Next]_vars
  PROVE  EscrowCoversBet'
  <1>1. ASSUME NEW u \in Users, NEW o \in Outcomes, NEW a \in VoteStakes,
               Vote(u, o, a)
        PROVE  EscrowCoversBet'
    BY <1>1, NoneActivatedKeepsEscrow DEF Vote, betVars, NotActivated
  <1>2. ASSUME NEW u \in Users, NEW o \in Outcomes, NEW a \in BetAmounts,
               PlaceBet(u, o, a)
        PROVE  EscrowCoversBet'
    <2>1. a \in Nat /\ a >= a
      BY AmountsAssumption
    <2>2. /\ MayBet(u)
          /\ bets' = [bets EXCEPT ![u] = ActiveBet(o, a)]
          /\ escrow' = [escrow EXCEPT ![u] = escrow[u] + a]
      BY <1>2 DEF PlaceBet
    <2> QED BY <2>1, <2>2, PlacedKeepsEscrow
  <1>3. ASSUME NEW u \in Users, NEW o1 \in Outcomes, NEW o2 \in Outcomes,
               NEW a1 \in BetAmounts, NEW a2 \in BetAmounts,
               PlaceBets(u, o1, a1, o2, a2)
        PROVE  EscrowCoversBet'
    <2>1. a1 \in Nat /\ a2 \in Nat
      BY AmountsAssumption
    <2>2. PICK n \in Nat : n = a1 + a2 /\ n >= a2
      BY <2>1
    <2>3. escrow[u] \in Int
      BY DEF TypeOK
    <2>4. escrow[u] + a1 + a2 = escrow[u] + n
      BY <2>1, <2>2, <2>3
    <2>5. /\ MayBet(u)
          /\ bets' = [bets EXCEPT ![u] = ActiveBet(o2, a2)]
          /\ escrow' = [escrow EXCEPT ![u] = escrow[u] + n]
      BY <1>3, <2>4 DEF PlaceBets
    <2> QED BY <2>1, <2>2, <2>5, PlacedKeepsEscrow
  <1>4. ASSUME NEW u \in Users, CancelBet(u) PROVE EscrowCoversBet'
    <2>1. bets[u] \in Bets /\ escrow[u] \in Int
      BY DEF TypeOK
    <2>2. bets[u].amount \in Nat /\ bets[u].status = "Active"
      BY <1>4, <2>1 DEF CancelBet, Bets
    <2>3. escrow[u] >= bets[u].amount
      BY <2>2 DEF EscrowCoversBet, ActiveAmounts
    <2> DEFINE c == bets[u]
               d == [c EXCEPT !.status = "Cancelled"]
    <2>a. c \in Bets
      BY <2>1
    <2> HIDE DEF c
    <2>b. d \in Bets /\ d.status = "Cancelled"
      BY <2>a DEF Bets, BetStatuses
    <2> USE DEF c
    <2> HIDE DEF d
    <2>4. PICK b \in Bets : b = d /\ b.status = "Cancelled"
      BY <2>b
    <2>5. PICK n \in Int : n = escrow[u] - bets[u].amount /\ n >= 0
      BY <2>1, <2>2, <2>3
    <2>6. /\ bets' = [bets EXCEPT ![u] = b]
          /\ escrow' = [escrow EXCEPT ![u] = n]
      BY <1>4, <2>4, <2>5 DEF CancelBet, d
    <2> QED BY <2>4, <2>5, <2>6, OneBetKeepsEscrow
  <1>5. ASSUME NEW ws \in SUBSET Outcomes, Resolve(ws) PROVE EscrowCoversBet'
    <2>1. PICK m \in Markets : m = WithWinners(market, ws)
      BY WithWinnersIsMarket DEF TypeOK
    <2>2. PICK bs \in [Users -> Bets] :
            /\ bs = ResolveMarketBets(ws)
            /\ \A u \in Users : NotActivated(bets[u], bs[u])
      BY ResolvedBetsAreBets DEF TypeOK
    <2>3. PICK s \in Summaries : s = Refresh(m, bs)
      BY RefreshIsSummary DEF TypeOK
    <2>4. /\ escrow' = escrow
          /\ \/ bets' = bs
             \/ Distributable(m, bs, s) /\ \E at : Distribute(m, bs, s, at)
      BY <1>5, <2>1, <2>2, <2>3 DEF Resolve
    <2>e. escrow' = escrow
      BY <2>4
    <2>5. CASE bets' = bs
      <3>1. \A u \in Users : NotActivated(bets[u], bets'[u])
        BY <2>2, <2>5
      <3> QED BY <2>e, <3>1, NoneActivatedKeepsEscrow
    <2>6. CASE Distributable(m, bs, s) /\ \E at : Distribute(m, bs, s, at)
      <3>1. s.winningTotal # 0
        BY <2>6 DEF Distributable
      <3>2. PICK at : Distribute(m, bs, s, at)
        BY <2>6
      <3>3. \A u \in Users : NotActivated(bs[u], bets'[u])
        BY <3>1, <3>2, DistributeCredits
      <3>4. ASSUME NEW u \in Users PROVE NotActivated(bets[u], bets'[u])
        BY <2>2, <3>3, NotActivatedIsTransitive
      <3> QED BY <2>e, <3>4, NoneActivatedKeepsEscrow
    <2> QED BY <2>4, <2>5, <2>6
  <1>6. ASSUME DistributePayouts PROVE EscrowCoversBet'
    <2>1. /\ summary \in Summaries /\ summary.winningTotal # 0
          /\ market \in Markets /\ bets \in [Users -> Bets]
          /\ Distribute(market, bets, summary, Whole(market))
          /\ escrow' = escrow
      BY <1>6 DEF DistributePayouts, Distributable, TypeOK
    <2>2. \A u \in Users : NotActivated(bets[u], bets'[u])
      BY <2>1, DistributeCredits
    <2> QED BY <2>1, <2>2, NoneActivatedKeepsEscrow
  <1>7. ASSUME CancelAndRefund PROVE EscrowCoversBet'
    <2> SUFFICES ASSUME NEW u \in Users
                 PROVE  escrow'[u] >= IF bets'[u].status = "Active"
                                      THEN bets'[u].amount ELSE 0
      BY DEF EscrowCoversBet, ActiveAmounts
    <2>1. bets[u] \in Bets /\ bets[u].amount \in Nat /\ escrow[u] \in Int
      BY DEF TypeOK, Bets
    <2>2. escrow[u] >= IF bets[u].status = "Active" THEN bets[u].amount ELSE 0
      BY DEF EscrowCoversBet, ActiveAmounts
    <2>3. CASE u \in ActiveBettors
      <3>1. bets'[u] = [bets[u] EXCEPT !.status = "Refunded"]
        BY <1>7, <2>3 DEF CancelAndRefund
      <3>2. bets'[u].status # "Active"
        BY <2>1, <3>1 DEF Bets
      <3>3. escrow'[u] = escrow[u] - bets[u].amount
        BY <1>7, <2>3 DEF CancelAndRefund
      <3>4. bets[u].status = "Active"
        BY <2>3 DEF ActiveBettors
      <3> QED BY <2>1, <2>2, <3>2, <3>3, <3>4
    <2>4. CASE u \notin ActiveBettors
      <3>1. bets'[u] = bets[u] /\ escrow'[u] = escrow[u] - 0
        BY <1>7, <2>4 DEF CancelAndRefund
      <3> QED BY <2>1, <2>2, <3>1
    <2> QED BY <2>3, <2>4
  <1>8. ASSUME UNCHANGED <<bets, escrow>> PROVE EscrowCoversBet'
    BY <1>8, NoneActivatedKeepsEscrow DEF NotActivated
  <1>9. ASSUME NEW u \in Users, Staking(u) PROVE EscrowCoversBet'
    BY <1>1, <1>2, <1>3, <1>4, <1>9 DEF Staking
  <1>10. ASSUME Resolving PROVE EscrowCoversBet'
    <2>1. \/ \E ws \in SUBSET Outcomes : Resolve(ws)
          \/ UNCHANGED <<bets, escrow>>
      <3>1. ASSUME NEW o \in Outcomes, ResolveMarketManual(o)
            PROVE  \E ws \in SUBSET Outcomes : Resolve(ws)
        BY <3>1 DEF ResolveMarketManual
      <3> QED BY <1>10, <3>1
              DEF Resolving, ResolveMarketWithTies, ForceResolveMarket,
                  FetchOracleResult, AdminOverrideVerification, betVars, history
    <2> QED BY <1>5, <1>8, <2>1
  <1>11. ASSUME Settling PROVE EscrowCoversBet'
    BY <1>6, <1>8, <1>11
       DEF Settling, ClaimWinnings, ClaimNothing, SweepUnclaimedWinnings, betVars,
           history
  <1>12. ASSUME Refunding PROVE EscrowCoversBet'
    BY <1>7, <1>12 DEF Refunding, CancelEvent, RefundOnOracleFailure
  <1>13. ASSUME CollectFees \/ ReadThroughCache \/ Tick PROVE EscrowCoversBet'
    BY <1>8, <1>13 DEF CollectFees, ReadThroughCache, Tick, betVars, history
  <1>14. ASSUME NEW fee \in PlatformFees, SetPlatformFee(fee)
         PROVE  EscrowCoversBet'
    BY <1>8, <1>14 DEF SetPlatformFee, betVars, history
  <1>15. CASE UNCHANGED vars
    BY <1>8, <1>15 DEF vars
  <1> QED BY <1>9, <1>10, <1>11, <1>12, <1>13, <1>14, <1>15 DEF Next

(* No sequence of bets, batches, cancellations and refunds returns an      *)
(* amount twice: what a user's bets locked, less what came back, always    *)
(* covers the bet that is still active (bets.rs).                          *)
THEOREM EscrowKept == Spec => []EscrowCoversBet
  <1>1. Init => EscrowCoversBet
    BY DEF Init, EscrowCoversBet, ActiveAmounts, NoBet
  <1>2. (TypeOK /\ EscrowCoversBet) /\ [Next]_vars => EscrowCoversBet'
    BY EscrowStep
  <1> QED BY <1>1, <1>2, TypeCorrect, PTL DEF Spec

-----------------------------------------------------------------------------
(* Settled markets.                                                        *)

(* What the state and the winners of a stored or cached market tell of the *)
(* bets and of its fees.                                                   *)
Tells(m, bs) ==
  /\ (\E u \in Users : bs[u].status = "Active")
       => m.winners = {} /\ m.state # "Cancelled"
  /\ m.state = "Closed" => m.winners # {} /\ m.feeCollected

(* Both copies tell the truth, and a copy that says Closed is a copy of a  *)
(* market that still has winners: whoever could take them away, by writing *)
(* an older copy back, drops the copy.                                     *)
CopiesTell ==
  /\ \A u \in Users : bets[u].status = "Active" => u \in Bettors
  /\ Tells(market, bets)
  /\ cache # NoMarket => Tells(cache, bets)
  /\ cache # NoMarket /\ cache.state = "Closed" => market.winners # {}

LEMMA GetMarketTells ==
  ASSUME CopiesTell
  PROVE  Tells(GetMarket, bets)
  BY DEF CopiesTell, GetMarket

(* A step that activates no bet and does not touch what the market tells.  *)
LEMMA QuietKeepsTelling ==
  ASSUME CopiesTell, registry' = registry, cache' = cache,
         \A u \in Users : NotActivated(bets[u], bets'[u]),
         market'.winners = market.winners, market'.state = market.state,
         market'.feeCollected = market.feeCollected
  PROVE  CopiesTell'
  BY DEF CopiesTell, Tells, Bettors, NotActivated

(* A step that writes a truthful market back through the cache.            *)
LEMMA WriteBackTells ==
  ASSUME \A u \in Users : bets'[u].status = "Active" => u \in Bettors',
         Tells(market', bets'), cache' = NoMarket
  PROVE  CopiesTell'
  BY DEF CopiesTell, Tells

LEMMA PlacedTells ==
  ASSUME TypeOK, CopiesTell, NEW u \in Users, NEW o \in Outcomes, NEW a \in Nat,
         OpenForBetting(GetMarket),
         bets' = [bets EXCEPT ![u] = ActiveBet(o, a)],
         registry' = Registered(u),
         UpdateMarket(WithStake(GetMarket, u, o, a))
  PROVE  CopiesTell'
  <1>1. /\ market' = WithStake(GetMarket, u, o, a) /\ cache' = NoMarket
        /\ GetMarket \in Markets
    BY GetMarketIsMarket DEF UpdateMarket
  <1>2. market'.state = "Active" /\ market'.winners = {}
    BY <1>1 DEF WithStake, Markets, OpenForBetting
  <1>3. \A v \in Users : v \in Bettors \/ v = u => v \in Bettors'
    <2>1. registry \in Seq(Users)
      BY DEF TypeOK
    <2>2. CASE u \in Bettors
      BY <2>2 DEF Registered, Bettors
    <2>3. CASE u \notin Bettors
      <3>1. registry' = Append(registry, u)
        BY <2>3 DEF Registered
      <3>2. /\ Len(registry') = Len(registry) + 1
            /\ \A i \in 1..Len(registry) : registry'[i] = registry[i]
            /\ registry'[Len(registry) + 1] = u
            /\ Len(registry) \in Nat
        BY <2>1, <3>1, AppendProperties, LenProperties
      <3> QED BY <3>2 DEF Bettors
    <2> QED BY <2>2, <2>3
  <1>4. \A v \in Users : bets'[v].status = "Active" => v \in Bettors'
    BY <1>3 DEF CopiesTell, TypeOK
  <1>5. Tells(market', bets')
    BY <1>2 DEF Tells
  <1> QED BY <1>1, <1>4, <1>5, WriteBackTells

(* A resolution leaves no bet Active.                                      *)
LEMMA ResolvedAreNotActive ==
  ASSUME TypeOK, CopiesTell, NEW ws
  PROVE  \A u \in Users : ResolveMarketBets(ws)[u].status # "Active"
  <1> SUFFICES ASSUME NEW u \in Users
               PROVE  ResolveMarketBets(ws)[u].status # "Active"
    OBVIOUS
  <1>1. bets[u] \in Bets
    BY DEF TypeOK
  <1>2. CASE u \in Bettors
    BY <1>1, <1>2 DEF ResolveMarketBets, Bets
  <1>3. CASE u \notin Bettors
    BY <1>3 DEF ResolveMarketBets, CopiesTell
  <1> QED BY <1>2, <1>3

LEMMA ResolveTells ==
  ASSUME TypeOK, CopiesTell, NEW ws \in SUBSET Outcomes, ws # {}, Resolve(ws)
  PROVE  CopiesTell'
  <1>1. PICK m \in Markets :
          /\ m = WithWinners(market, ws)
          /\ m.winners = ws /\ m.state = "Resolved"
    BY WithWinnersIsMarket, ZenonT(60) DEF TypeOK, Markets, WithWinners
  <1>2. PICK bs \in [Users -> Bets] :
          /\ bs = ResolveMarketBets(ws)
          /\ \A u \in Users : bs[u].status # "Active"
    BY ResolvedBetsAreBets, ResolvedAreNotActive DEF TypeOK
  <1>3. PICK s \in Summaries : s = Refresh(m, bs)
    BY RefreshIsSummary DEF TypeOK
  <1>4. PICK X \in SUBSET Users : X = Claimants(m, bs, s)
    BY ClaimantsAreUnclaimed DEF TypeOK
  <1>5. /\ registry' = registry
        /\ \/ bets' = bs /\ SetMarket(m)
           \/ /\ Distributable(m, bs, s)
              /\ \E at : Distribute(m, bs, s, at)
              /\ SetMarket(m) \/ SetMarket(WithClaims(m, X))
    BY <1>1, <1>2, <1>3, <1>4 DEF Resolve
  <1>6. cache' = cache /\ market'.winners = ws /\ market'.state = "Resolved"
    BY <1>1, <1>5 DEF SetMarket, WithClaims, Markets
  <1>7. \A u \in Users : bets'[u].status # "Active"
    <2>1. CASE bets' = bs
      BY <1>2, <2>1
    <2>2. CASE Distributable(m, bs, s) /\ \E at : Distribute(m, bs, s, at)
      <3>1. s.winningTotal # 0
        BY <2>2 DEF Distributable
      <3>2. PICK at : Distribute(m, bs, s, at)
        BY <2>2
      <3>3. \A u \in Users : NotActivated(bs[u], bets'[u])
        BY <3>1, <3>2, DistributeCredits
      <3> QED BY <1>2, <3>3 DEF NotActivated
    <2> QED BY <1>5, <2>1, <2>2
  <1> QED BY <1>6, <1>7 DEF CopiesTell, Tells

LEMMA DistributePayoutsTells ==
  ASSUME TypeOK, CopiesTell, DistributePayouts
  PROVE  CopiesTell'
  <1>1. /\ summary \in Summaries /\ summary.winningTotal # 0
        /\ market \in Markets /\ bets \in [Users -> Bets]
        /\ Distribute(market, bets, summary, Whole(market))
        /\ registry' = registry
    BY DEF DistributePayouts, Distributable, TypeOK
  <1>2. \A u \in Users : NotActivated(bets[u], bets'[u])
    BY <1>1, DistributeCredits
  <1>3. /\ market' = WithClaims(market, Claimants(market, bets, summary))
        /\ cache' = cache
    BY DEF DistributePayouts, SetMarket
  <1>4. /\ market'.winners = market.winners /\ market'.state = market.state
        /\ market'.feeCollected = market.feeCollected
    BY <1>1, <1>3 DEF WithClaims, Markets
  <1> QED BY <1>1, <1>2, <1>3, <1>4, QuietKeepsTelling

LEMMA CancelBetTells ==
  ASSUME TypeOK, CopiesTell, NEW u \in Users, CancelBet(u)
  PROVE  CopiesTell'
  <1>1. GetMarket \in Markets /\ Tells(GetMarket, bets)
    BY GetMarketIsMarket, GetMarketTells
  <1>2. market' = WithoutBets(GetMarket, {u}) /\ cache' = NoMarket
    BY DEF CancelBet, UpdateMarket
  <1>3. /\ market'.winners = GetMarket.winners /\ market'.state = GetMarket.state
        /\ market'.feeCollected = GetMarket.feeCollected
    BY <1>1, <1>2 DEF WithoutBets, Markets
  <1>4. /\ registry' = registry
        /\ bets' = [bets EXCEPT ![u].status = "Cancelled"]
        /\ bets \in [Users -> Bets]
    BY DEF CancelBet, TypeOK
  <1>5. \A v \in Users : bets'[v].status = "Active" => bets[v].status = "Active"
    BY <1>4 DEF Bets
  <1>6. Tells(market', bets')
    BY <1>1, <1>3, <1>5 DEF Tells
  <1>7. \A v \in Users : bets'[v].status = "Active" => v \in Bettors'
    BY <1>4, <1>5 DEF CopiesTell, Bettors
  <1> QED BY <1>2, <1>6, <1>7, WriteBackTells

(* Whatever copy the refunds are applied to, no bet stays Active, and what *)
(* it says of winners and fees was true.                                   *)
LEMMA CancelAndRefundTells ==
  ASSUME TypeOK, CopiesTell, CancelAndRefund
  PROVE  CopiesTell'
  <1>1. PICK read \in Markets :
          /\ read = IF cache # NoMarket THEN cache ELSE Cancelled(market)
          /\ read.state = "Closed" => read.winners # {} /\ read.feeCollected
    <2>1. CASE cache # NoMarket
      BY <2>1 DEF CopiesTell, Tells, TypeOK
    <2>2. CASE cache = NoMarket
      <3>1. Cancelled(market) \in Markets /\ Cancelled(market).state = "Cancelled"
        BY CancelledIsMarket, ZenonT(60) DEF TypeOK, Cancelled, Markets
      <3> QED BY <2>2, <3>1
    <2> QED BY <2>1, <2>2
  <1>2. market' = WithoutBets(read, ActiveBettors) /\ cache' = NoMarket
    BY <1>1 DEF CancelAndRefund, UpdateMarket
  <1>3. /\ market'.winners = read.winners /\ market'.state = read.state
        /\ market'.feeCollected = read.feeCollected
    BY <1>1, <1>2 DEF WithoutBets, Markets
  <1>4. ASSUME NEW v \in Users PROVE bets'[v].status # "Active"
    <2>1. bets[v] \in Bets
      BY DEF TypeOK
    <2>2. CASE v \in ActiveBettors
      <3>1. bets'[v] = [bets[v] EXCEPT !.status = "Refunded"]
        BY <2>2 DEF CancelAndRefund
      <3> QED BY <2>1, <3>1 DEF Bets
    <2>3. CASE v \notin ActiveBettors
      <3>1. bets'[v] = bets[v]
        BY <2>3 DEF CancelAndRefund
      <3> QED BY <2>3, <3>1 DEF ActiveBettors, CopiesTell
    <2> QED BY <2>2, <2>3
  <1>5. Tells(market', bets')
    BY <1>1, <1>3, <1>4 DEF Tells
  <1> QED BY <1>2, <1>4, <1>5, WriteBackTells

LEMMA CollectFeesTells ==
  ASSUME TypeOK, CopiesTell, CollectFees
  PROVE  CopiesTell'
  <1>1. GetMarket \in Markets /\ Tells(GetMarket, bets)
    BY GetMarketIsMarket, GetMarketTells
  <1>2. /\ market' = WithFeesCollected(GetMarket) /\ cache' = NoMarket
        /\ GetMarket.winners # {}
        /\ bets' = bets /\ registry' = registry
    BY DEF CollectFees, UpdateMarket, betVars
  <1>3. market'.winners = GetMarket.winners /\ market'.feeCollected
    BY <1>1, <1>2 DEF WithFeesCollected, Markets
  <1>4. Tells(market', bets')
    BY <1>1, <1>2, <1>3 DEF Tells
  <1> QED BY <1>2, <1>4, WriteBackTells DEF CopiesTell, Bettors

LEMMA AdminOverrideTells ==
  ASSUME TypeOK, CopiesTell, AdminOverrideVerification
  PROVE  CopiesTell'
  <1>1. GetMarket \in Markets /\ Tells(GetMarket, bets)
    BY GetMarketIsMarket, GetMarketTells
  <1>2. /\ market' = Overridden(GetMarket) /\ cache' = NoMarket
        /\ bets' = bets /\ registry' = registry
    BY DEF AdminOverrideVerification, UpdateMarket, betVars
  <1>3. market'.winners = GetMarket.winners /\ market'.state = "Resolved"
    BY <1>1, <1>2 DEF Overridden, Markets
  <1>4. Tells(market', bets')
    BY <1>1, <1>2, <1>3 DEF Tells
  <1> QED BY <1>2, <1>4, WriteBackTells DEF CopiesTell, Bettors

(* The steps that store the market as it is but for stakes, claims, the    *)
(* oracle's answer and the sweep.                                          *)
LEMMA QuietSteps ==
  ASSUME TypeOK, CopiesTell,
         \/ \E u \in Users, o \in Outcomes, a \in VoteStakes : Vote(u, o, a)
         \/ FetchOracleResult
         \/ \E u \in Users : ClaimWinnings(u) \/ ClaimNothing(u)
         \/ \E burn \in BOOLEAN : SweepUnclaimedWinnings(burn)
  PROVE  CopiesTell'
  <1>1. market \in Markets
    BY DEF TypeOK
  <1>2. /\ \/ \E u \in Users, o \in Outcomes, a \in VoteStakes :
                market' = WithStake(market, u, o, a)
           \/ market' = WithOracleResult(market)
           \/ \E u \in Users : market' = WithClaims(market, {u})
           \/ market' = Swept(WithClaims(market, Unclaimed))
        /\ cache' = cache /\ bets' = bets /\ registry' = registry
    BY DEF Vote, FetchOracleResult, ClaimWinnings, ClaimNothing,
           SweepUnclaimedWinnings, SetMarket, betVars
  <1>3. /\ market'.winners = market.winners /\ market'.state = market.state
        /\ market'.feeCollected = market.feeCollected
    BY <1>1, <1>2 DEF WithStake, WithOracleResult, WithClaims, Swept, Markets
  <1> QED BY <1>2, <1>3, QuietKeepsTelling DEF NotActivated

LEMMA TellingStep ==
  ASSUME TypeOK, CopiesTell, [Next]_vars
  PROVE  CopiesTell'
  <1>1. ASSUME NEW u \in Users, Staking(u) PROVE CopiesTell'
    <2>1. ASSUME NEW o \in Outcomes, NEW a \in BetAmounts, PlaceBet(u, o, a)
          PROVE  CopiesTell'
      <3>1. a \in Nat
        BY AmountsAssumption
      <3> QED BY <2>1, <3>1, PlacedTells DEF PlaceBet
    <2>2. ASSUME NEW o1 \in Outcomes, NEW o2 \in Outcomes, NEW a1 \in BetAmounts,
                 NEW a2 \in BetAmounts, PlaceBets(u, o1, a1, o2, a2)
          PROVE  CopiesTell'
      <3>1. a2 \in Nat
        BY AmountsAssumption
      <3> QED BY <2>2, <3>1, PlacedTells DEF PlaceBets
    <2> QED BY <1>1, <2>1, <2>2, CancelBetTells, QuietSteps DEF Staking
  <1>2. ASSUME Resolving PROVE CopiesTell'
    <2>1. ASSUME NEW o \in Outcomes, ResolveMarketManual(o) PROVE CopiesTell'
      <3>1. {o} \in SUBSET Outcomes /\ {o} # {} /\ Resolve({o})
        BY <2>1 DEF ResolveMarketManual
      <3> QED BY <3>1, ResolveTells
    <2>2. ASSUME NEW ws \in (SUBSET Outcomes) \ {{}},
                 ResolveMarketWithTies(ws) \/ ForceResolveMarket(ws)
          PROVE  CopiesTell'
      BY <2>2, ResolveTells DEF ResolveMarketWithTies, ForceResolveMarket
    <2> QED BY <1>2, <2>1, <2>2, QuietSteps, AdminOverrideTells DEF Resolving
  <1>3. ASSUME Settling PROVE CopiesTell'
    BY <1>3, DistributePayoutsTells, QuietSteps DEF Settling
  <1>4. ASSUME Refunding PROVE CopiesTell'
    BY <1>4, CancelAndRefundTells DEF Refunding, CancelEvent, RefundOnOracleFailure
  <1>5. ASSUME ReadThroughCache PROVE CopiesTell'
    <2>1. cache' = market /\ market' = market /\ bets' = bets /\ registry' = registry
      BY <1>5 DEF ReadThroughCache, betVars
    <2> QED BY <2>1 DEF CopiesTell, Tells, Bettors
  <1>6. ASSUME UNCHANGED <<marketVars, bets, registry>> PROVE CopiesTell'
    BY <1>6, QuietKeepsTelling DEF marketVars, NotActivated
  <1>7. ASSUME Tick \/ \E fee \in PlatformFees : SetPlatformFee(fee)
        PROVE  CopiesTell'
    BY <1>6, <1>7 DEF Tick, SetPlatformFee, betVars
  <1>8. CASE UNCHANGED vars
    BY <1>6, <1>8 DEF vars, marketVars
  <1> QED BY <1>1, <1>2, <1>3, <1>4, <1>5, <1>7, <1>8, CollectFeesTells DEF Next

LEMMA InitTells == Init => CopiesTell
  BY DEF Init, CopiesTell, Tells, NoBet, NewMarket

(* No bet is left Active on a market that has winners or was cancelled,    *)
(* although placing, cancelling and refunding work on a copy that may be   *)
(* stale and resolving does not.                                           *)
THEOREM BetsAndMarketAgree == Spec => []ActiveBetsOnlyWhileOpen
  <1>1. (TypeOK /\ CopiesTell) /\ [Next]_vars => CopiesTell'
    BY TellingStep
  <1>2. CopiesTell => ActiveBetsOnlyWhileOpen
    BY DEF CopiesTell, Tells, ActiveBetsOnlyWhileOpen
  <1> QED BY <1>1, <1>2, InitTells, TypeCorrect, PTL DEF Spec

-----------------------------------------------------------------------------
(* The removal of the market.                                              *)

LEMMA RemovalTypedStep ==
  ASSUME RemovalTypeOK, [RemovalNext]_<<vars, removalVars>>
  PROVE  RemovalTypeOK'
  <1>1. CASE WhileStored
    BY <1>1, Steps DEF RemovalTypeOK, WhileStored, removalVars
  <1>2. CASE CleanupOldMarketData
    <2>1. TypeOK'
      BY <1>2 DEF RemovalTypeOK, CleanupOldMarketData, TypeOK, betVars, resultVars,
                  moneyVars, history, counters
    <2>2. archived' \in Markets /\ removed' = TRUE /\ threshold' = threshold
      BY <1>2, GetMarketIsMarket DEF RemovalTypeOK, CleanupOldMarketData
    <2> QED BY <2>1, <2>2 DEF RemovalTypeOK
  <1>3. ASSUME NEW days \in Thresholds, UpdateStorageConfig(days)
        PROVE  RemovalTypeOK'
    <2>1. TypeOK'
      BY <1>3, Steps DEF RemovalTypeOK, UpdateStorageConfig
    <2> QED BY <1>3, <2>1, RemovalAssumption DEF RemovalTypeOK, UpdateStorageConfig
  <1>4. CASE UNCHANGED <<vars, removalVars>>
    BY <1>4, Steps DEF RemovalTypeOK, removalVars
  <1> QED BY <1>1, <1>2, <1>3, <1>4 DEF RemovalNext

(* The records keep their types through the removal, the archived copy     *)
(* included.                                                               *)
THEOREM RemovalTyped == RemovalSpec => []RemovalTypeOK
  <1>1. RemovalInit => RemovalTypeOK
    BY InitTypeOK, RemovalAssumption DEF RemovalInit, RemovalTypeOK
  <1> QED BY <1>1, RemovalTypedStep, PTL DEF RemovalSpec

LEMMA StrandedStep ==
  ASSUME RemovalTypeOK, CopiesTell, NoBetStranded,
         [RemovalNext]_<<vars, removalVars>>
  PROVE  CopiesTell' /\ NoBetStranded'
  <1> USE DEF RemovalTypeOK
  <1>1. CASE WhileStored
    BY <1>1, TellingStep DEF WhileStored, removalVars, NoBetStranded
  <1>2. CASE CleanupOldMarketData
    <2>1. /\ archived' = GetMarket /\ GetMarket.state = "Closed"
          /\ cache' = NoMarket
          /\ UNCHANGED <<market, bets, registry>>
      BY <1>2 DEF CleanupOldMarketData, Removable, betVars
    <2>2. Tells(GetMarket, bets) /\ market.winners # {}
      BY <2>1, GetMarketTells DEF CopiesTell, Tells, GetMarket
    <2>3. NoBetStranded'
      BY <2>1, <2>2 DEF Tells, NoBetStranded
    <2>4. CopiesTell'
      BY <2>1 DEF CopiesTell, Tells, Bettors
    <2> QED BY <2>3, <2>4
  <1>3. ASSUME NEW days \in Thresholds, UpdateStorageConfig(days)
        PROVE  CopiesTell' /\ NoBetStranded'
    <2>1. UNCHANGED <<vars, market, bets, removed, archived>>
      BY <1>3 DEF UpdateStorageConfig, vars
    <2> QED BY <2>1, TellingStep DEF NoBetStranded
  <1>4. CASE UNCHANGED <<vars, removalVars>>
    <2>1. UNCHANGED <<vars, market, bets, removed, archived>>
      BY <1>4 DEF removalVars, vars
    <2> QED BY <2>1, TellingStep DEF NoBetStranded
  <1> QED BY <1>1, <1>2, <1>3, <1>4 DEF RemovalNext

(* A market that anybody had removed had winners and its fees collected,   *)
(* and none of its bets could be refunded any more, although the removal   *)
(* trusts a copy of the state that may be stale.                           *)
THEOREM RemovalStrandsNoBet == RemovalSpec => []NoBetStranded
  <1>1. RemovalInit => CopiesTell /\ NoBetStranded
    BY InitTells DEF RemovalInit, NoBetStranded
  <1>2. RemovalTypeOK /\ (CopiesTell /\ NoBetStranded)
          /\ [RemovalNext]_<<vars, removalVars>>
        => (CopiesTell /\ NoBetStranded)'
    BY StrandedStep
  <1> QED BY <1>1, <1>2, RemovalTyped, PTL DEF RemovalSpec

(* Whole days older than a threshold are a day more than the threshold.    *)
LEMMA AgeInWholeDays ==
  ASSUME NEW t \in Nat, NEW n \in Nat, t \div Day > n
  PROVE  t >= (n + 1) * Day
  <1>1. Day \in Nat \ {0}
    BY RemovalAssumption
  <1>2. PICK q \in Nat : q = t \div Day /\ t >= q * Day
    BY <1>1
  <1>3. q * Day >= (n + 1) * Day
    BY <1>1, <1>2
  <1> QED BY <1>1, <1>2, <1>3

LEMMA WindowStep ==
  ASSUME RemovalTypeOK, CleanupOldMarketData, claimStart # None,
         claimStart + ClaimPeriod <= EndTime + (threshold + 1) * Day
  PROVE  ClaimWindowExpired
  <1>1. /\ now \in Nat /\ claimStart \in Nat /\ threshold \in Nat
        /\ EndTime \in Nat /\ ClaimPeriod \in Nat /\ Day \in Nat
    BY TimesAssumption, RemovalAssumption DEF RemovalTypeOK, TypeOK
  <1>2. now - EndTime \in Nat /\ (now - EndTime) \div Day > threshold
    BY <1>1 DEF CleanupOldMarketData, OldEnough
  <1>3. now - EndTime >= (threshold + 1) * Day
    BY <1>1, <1>2, AgeInWholeDays
  <1>4. PICK d \in Nat : d = (threshold + 1) * Day
    BY <1>1
  <1>5. now >= claimStart + ClaimPeriod
    BY <1>1, <1>3, <1>4
  <1> QED BY <1>5 DEF ClaimWindowExpired

(* Whoever has a market removed, and whatever threshold was stored before: *)
(* a claim window that is over by the day the market is old enough is over *)
(* when it is removed.                                                     *)
THEOREM RemovalSparesEarlyWindows == RemovalSpec => WindowSurvives
  <1>1. RemovalTypeOK /\ [RemovalNext]_<<vars, removalVars>>
        => [/\ ~removed /\ removed'
            /\ claimStart # None
            /\ claimStart + ClaimPeriod <= EndTime + (threshold + 1) * Day
            => ClaimWindowExpired]_<<vars, removalVars>>
    <2>1. ASSUME [RemovalNext]_<<vars, removalVars>>, ~removed, removed'
          PROVE  CleanupOldMarketData
      BY <2>1 DEF RemovalNext, WhileStored, UpdateStorageConfig,
                  removalVars
    <2> QED BY <2>1, WindowStep
  <1> QED BY <1>1, RemovalTyped, PTL DEF RemovalSpec, WindowSurvives

=============================================================================
