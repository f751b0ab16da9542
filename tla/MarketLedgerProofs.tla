------------------------- MODULE MarketLedgerProofs -------------------------
(***************************************************************************)
(* The money of a market.  Its pool and its statistics are sound whatever  *)
(* the read cache holds.  It implements the claim ledger as long as no     *)
(* stale copy of it is in the cache and every distribution runs to its     *)
(* end, and stays solvent if it is also resolved once only.  All three are *)
(* needed: the runs stale_cache, budget_abort and reresolution show what   *)
(* happens without each.                                                   *)
(***************************************************************************)
EXTENDS MarketProofs

-----------------------------------------------------------------------------
(* The pool.                                                               *)

(* What the active bets among bs would return.                             *)
ActiveOf(bs) ==
  [u \in Users |-> IF bs[u].status = "Active" THEN bs[u].amount ELSE 0]

LEMMA ActiveIsAmounts ==
  ASSUME NEW bs \in [Users -> Bets], NEW S \in SUBSET Users
  PROVE  Amounts(ActiveOf(bs), S)
  <1>1. IsFiniteSet(S)
    BY UsersAssumption, FS_Subset
  <1>2. \A u \in S : ActiveOf(bs)[u] \in Nat
    BY DEF ActiveOf, Bets
  <1> QED BY <1>1, <1>2 DEF Amounts

LEMMA ActiveShrinks ==
  ASSUME NEW bs \in [Users -> Bets], NEW cs \in [Users -> Bets],
         \A u \in Users : NotActivated(bs[u], cs[u]), NEW S \in SUBSET Users
  PROVE  SumOver(ActiveOf(cs), S) <= SumOver(ActiveOf(bs), S)
  <1>1. Amounts(ActiveOf(bs), S) /\ Amounts(ActiveOf(cs), S)
    BY ActiveIsAmounts
  <1>2. ASSUME NEW u \in S PROVE ActiveOf(cs)[u] <= ActiveOf(bs)[u]
    <2>1. bs[u].amount \in Nat
      BY DEF Bets
    <2> QED BY <2>1 DEF ActiveOf, NotActivated
  <1> QED BY <1>1, <1>2, SumGrows

LEMMA ActiveChanges ==
  ASSUME NEW bs \in [Users -> Bets], NEW cs \in [Users -> Bets], NEW u \in Users,
         \A v \in Users \ {u} : cs[v] = bs[v]
  PROVE  SumOver(ActiveOf(cs), Users)
           = SumOver(ActiveOf(bs), Users) - ActiveOf(bs)[u] + ActiveOf(cs)[u]
  <1>1. Amounts(ActiveOf(bs), Users) /\ Amounts(ActiveOf(cs), Users)
    BY ActiveIsAmounts
  <1>2. \A v \in Users \ {u} : ActiveOf(cs)[v] = ActiveOf(bs)[v]
    BY DEF ActiveOf
  <1> QED BY <1>1, <1>2, SumChanges

(* The step moves no stake: it activates no bet, and the markets a later   *)
(* call may read have the totals they had.                                 *)
LeavesPool ==
  /\ \A u \in Users : NotActivated(bets[u], bets'[u])
  /\ registry' = registry /\ stats' = stats /\ custody' = custody
  /\ market'.total \in {market.total, GetMarket.total}
  /\ cache' \in {cache, NoMarket, market}

(* Which steps do move one.                                                *)
MovesStake ==
  \/ \E u \in Users, o \in Outcomes, a \in VoteStakes : Vote(u, o, a)
  \/ \E u \in Users, o \in Outcomes, a \in BetAmounts : PlaceBet(u, o, a)
  \/ \E u \in Users, o1, o2 \in Outcomes, a1, a2 \in BetAmounts :
       PlaceBets(u, o1, a1, o2, a2)
  \/ \E u \in Users : CancelBet(u)
  \/ CancelAndRefund

LEMMA ResolveLeavesPool ==
  ASSUME TypeOK, NEW ws \in SUBSET Outcomes, Resolve(ws)
  PROVE  LeavesPool
  <1>1. PICK m \in Markets : /\ m = WithWinners(market, ws)
                            /\ m.total = market.total
    BY WithWinnersIsMarket, ZenonT(60) DEF TypeOK, Markets, WithWinners
  <1>2. PICK bs \in [Users -> Bets] :
          /\ bs = ResolveMarketBets(ws)
          /\ \A u \in Users : NotActivated(bets[u], bs[u])
    BY ResolvedBetsAreBets DEF TypeOK
  <1>3. PICK s \in Summaries : s = Refresh(m, bs)
    BY RefreshIsSummary DEF TypeOK
  <1>4. PICK X \in SUBSET Users : X = Claimants(m, bs, s)
    BY ClaimantsAreUnclaimed DEF TypeOK
  <1>5. /\ registry' = registry /\ stats' = stats /\ custody' = custody
        /\ \/ bets' = bs /\ SetMarket(m)
           \/ /\ Distributable(m, bs, s)
              /\ \E at : Distribute(m, bs, s, at)
              /\ SetMarket(m) \/ SetMarket(WithClaims(m, X))
    BY <1>1, <1>2, <1>3, <1>4 DEF Resolve
  <1>6. cache' = cache /\ market'.total = market.total
    BY <1>1, <1>5 DEF SetMarket, WithClaims, Markets
  <1>7. \A u \in Users : NotActivated(bets[u], bets'[u])
    <2>1. CASE bets' = bs
      BY <1>2, <2>1
    <2>2. CASE Distributable(m, bs, s) /\ \E at : Distribute(m, bs, s, at)
      <3>1. s.winningTotal # 0
        BY <2>2 DEF Distributable
      <3>2. PICK at : Distribute(m, bs, s, at)
        BY <2>2
      <3>3. \A u \in Users : NotActivated(bs[u], bets'[u])
        BY <3>1, <3>2, DistributeCredits
      <3> QED BY <1>2, <3>3, NotActivatedIsTransitive
    <2> QED BY <1>5, <2>1, <2>2
  <1> QED BY <1>5, <1>6, <1>7 DEF LeavesPool

LEMMA StakeSteps ==
  ASSUME TypeOK, [Next]_vars
  PROVE  LeavesPool \/ MovesStake
  <1> DEFINE G == LeavesPool \/ MovesStake
  <1>0. market \in Markets /\ GetMarket \in Markets
    BY GetMarketIsMarket DEF TypeOK
  <1>a. (bets' = bets) => \A u \in Users : NotActivated(bets[u], bets'[u])
    BY DEF NotActivated
  <1>1. ASSUME NEW u \in Users, Staking(u) PROVE G
    BY <1>1 DEF Staking, MovesStake
  <1>2. ASSUME Resolving PROVE G
    <2>1. ASSUME NEW o \in Outcomes, ResolveMarketManual(o) PROVE G
      BY <2>1, ResolveLeavesPool DEF ResolveMarketManual
    <2>2. ASSUME NEW ws \in SUBSET Outcomes,
                 ResolveMarketWithTies(ws) \/ ForceResolveMarket(ws)
          PROVE  G
      BY <2>2, ResolveLeavesPool DEF ResolveMarketWithTies, ForceResolveMarket
    <2>3. ASSUME FetchOracleResult PROVE G
      <3>1. WithOracleResult(market).total = market.total
        BY <1>0 DEF WithOracleResult, Markets
      <3> QED BY <1>a, <2>3, <3>1
              DEF FetchOracleResult, SetMarket, LeavesPool, betVars, moneyVars
    <2>4. ASSUME AdminOverrideVerification PROVE G
      <3>1. Overridden(GetMarket).total = GetMarket.total
        BY <1>0 DEF Overridden, Markets
      <3> QED BY <1>a, <2>4, <3>1
              DEF AdminOverrideVerification, UpdateMarket, LeavesPool, betVars,
                  moneyVars
    <2> QED BY <1>2, <2>1, <2>2, <2>3, <2>4 DEF Resolving
  <1>3. ASSUME Settling PROVE G
    <2>1. ASSUME DistributePayouts PROVE G
      <3>1. /\ summary \in Summaries /\ summary.winningTotal # 0
            /\ bets \in [Users -> Bets]
            /\ Distribute(market, bets, summary, Whole(market))
        BY <2>1 DEF DistributePayouts, Distributable, TypeOK
      <3>2. \A u \in Users : NotActivated(bets[u], bets'[u])
        BY <1>0, <3>1, DistributeCredits
      <3>3. /\ market' = WithClaims(market, Claimants(market, bets, summary))
            /\ cache' = cache /\ registry' = registry
            /\ stats' = stats /\ custody' = custody
        BY <2>1 DEF DistributePayouts, SetMarket
      <3>4. market'.total = market.total
        BY <1>0, <3>3 DEF WithClaims, Markets
      <3> QED BY <3>2, <3>3, <3>4 DEF LeavesPool
    <2>2. ASSUME NEW u \in Users, ClaimWinnings(u) \/ ClaimNothing(u) PROVE G
      <3>1. WithClaims(market, {u}).total = market.total
        BY <1>0 DEF WithClaims, Markets
      <3> QED BY <1>a, <2>2, <3>1
              DEF ClaimWinnings, ClaimNothing, SetMarket, LeavesPool, betVars,
                  moneyVars
    <2>3. ASSUME NEW burn \in BOOLEAN, SweepUnclaimedWinnings(burn) PROVE G
      <3>1. Swept(WithClaims(market, Unclaimed)).total = market.total
        BY <1>0 DEF Swept, WithClaims, Markets
      <3> QED BY <1>a, <2>3, <3>1
              DEF SweepUnclaimedWinnings, SetMarket, LeavesPool, betVars
    <2> QED BY <1>3, <2>1, <2>2, <2>3 DEF Settling
  <1>4. ASSUME Refunding PROVE G
    BY <1>4 DEF Refunding, CancelEvent, RefundOnOracleFailure, MovesStake
  <1>5. ASSUME CollectFees PROVE G
    <2>1. WithFeesCollected(GetMarket).total = GetMarket.total
      BY <1>0 DEF WithFeesCollected, Markets
    <2> QED BY <1>a, <1>5, <2>1 DEF CollectFees, UpdateMarket, LeavesPool, betVars
  <1>6. ASSUME ReadThroughCache PROVE G
    BY <1>a, <1>6 DEF ReadThroughCache, LeavesPool, betVars, moneyVars
  <1>7. ASSUME \/ Tick
               \/ \E fee \in PlatformFees : SetPlatformFee(fee)
               \/ UNCHANGED vars
        PROVE  G
    BY <1>a, <1>7 DEF Tick, SetPlatformFee, vars, LeavesPool, marketVars, betVars,
                     moneyVars
  <1> QED BY <1>1, <1>2, <1>3, <1>4, <1>5, <1>6, <1>7 DEF Next

(* The market m pays for what may be refunded from it, and is paid for.    *)
PoolOf(m, bs, held) ==
  m.total >= SumOver(ActiveOf(bs), Users) /\ held >= m.total

LEMMA PoolSoundIs ==
  /\ PoolSound <=> PoolOf(market, bets, custody) /\ PoolOf(GetMarket, bets, custody)
  /\ PoolSound' <=> /\ PoolOf(market', bets', custody')
                    /\ PoolOf(GetMarket', bets', custody')
  BY DEF PoolSound, PoolOf, ActiveAmounts, ActiveOf

LEMMA PoolOfWritten ==
  ASSUME cache' = NoMarket, PoolOf(market', bets', custody')
  PROVE  PoolSound'
  BY PoolSoundIs DEF GetMarket

LEMMA LeavesPoolSound ==
  ASSUME TypeOK, TypeOK', PoolSound, LeavesPool
  PROVE  PoolSound'
  <1>1. SumOver(ActiveOf(bets'), Users) <= SumOver(ActiveOf(bets), Users)
    BY ActiveShrinks, ZenonT(60) DEF TypeOK, LeavesPool
  <1>2. /\ SumOver(ActiveOf(bets'), Users) \in Nat
        /\ SumOver(ActiveOf(bets), Users) \in Nat
    BY ActiveIsAmounts, SumIsAmount, ZenonT(60) DEF TypeOK
  <1>3. /\ market.total \in Int /\ GetMarket.total \in Int
        /\ market'.total \in Int /\ GetMarket'.total \in Int
    BY GetMarketIsMarket, SMTT(60) DEF TypeOK, Markets, GetMarket
  <1>4. GetMarket'.total \in {market.total, GetMarket.total}
    BY DEF LeavesPool, GetMarket
  <1>5. \A m : m.total \in {market.total, GetMarket.total}
                 => PoolOf(m, bets', custody')
    BY <1>1, <1>2, <1>3, PoolSoundIs DEF PoolOf, LeavesPool
  <1> QED BY <1>4, <1>5, PoolSoundIs DEF LeavesPool

LEMMA VotePoolSound ==
  ASSUME TypeOK, PoolSound, NEW u \in Users, NEW o \in Outcomes,
         NEW a \in VoteStakes, Vote(u, o, a)
  PROVE  PoolSound'
  <1>1. a \in Nat /\ market \in Markets /\ custody \in Nat
    BY AmountsAssumption DEF TypeOK
  <1>2. /\ market' = WithStake(market, u, o, a) /\ cache' = cache
        /\ bets' = bets /\ custody' = custody + a
    BY DEF Vote, SetMarket, betVars
  <1>3. market'.total = market.total + a /\ market.total \in Int
    BY <1>1, <1>2 DEF WithStake, Markets
  <1>4. SumOver(ActiveOf(bets), Users) \in Nat
    BY ActiveIsAmounts, SumIsAmount DEF TypeOK
  <1>5. PoolOf(market', bets', custody')
    BY <1>1, <1>2, <1>3, <1>4, PoolSoundIs DEF PoolOf
  <1>6. GetMarket.total \in Int
    BY GetMarketIsMarket DEF Markets
  <1>7. PoolOf(GetMarket, bets', custody')
    BY <1>1, <1>2, <1>6, PoolSoundIs DEF PoolOf
  <1>8. GetMarket' \in {market', GetMarket}
    BY <1>2 DEF GetMarket
  <1> QED BY <1>5, <1>7, <1>8, PoolSoundIs

(* One user's bet takes the place of none, or of one that is not active.   *)
LEMMA PlacedPoolSound ==
  ASSUME TypeOK, TypeOK', PoolSound, NEW u \in Users, NEW o \in Outcomes,
         NEW a \in Nat, NEW taken \in Nat, taken >= a, MayBet(u),
         bets' = [bets EXCEPT ![u] = ActiveBet(o, a)],
         UpdateMarket(WithStake(GetMarket, u, o, a)),
         custody' = custody + taken
  PROVE  PoolSound'
  <1>1. /\ GetMarket \in Markets /\ custody \in Nat
        /\ bets \in [Users -> Bets] /\ bets' \in [Users -> Bets]
    BY GetMarketIsMarket, SMTT(60) DEF TypeOK
  <1>2. /\ market' = WithStake(GetMarket, u, o, a) /\ cache' = NoMarket
    BY DEF UpdateMarket
  <1>3. market'.total = GetMarket.total + a /\ GetMarket.total \in Int
    BY <1>1, <1>2 DEF WithStake, Markets
  <1>4. Amounts(ActiveOf(bets), Users) /\ Amounts(ActiveOf(bets'), Users)
    BY <1>1, ActiveIsAmounts
  <1>5. ActiveOf(bets)[u] = 0 /\ ActiveOf(bets')[u] = a
    BY <1>1 DEF ActiveOf, ActiveBet, MayBet
  <1>6. SumOver(ActiveOf(bets'), Users)
          = SumOver(ActiveOf(bets), Users) - ActiveOf(bets)[u] + ActiveOf(bets')[u]
    <2>1. \A v \in Users \ {u} : bets'[v] = bets[v]
      BY <1>1
    <2> QED BY <1>1, <2>1, ActiveChanges
  <1>7. SumOver(ActiveOf(bets), Users) \in Nat
    BY <1>4, SumIsAmount
  <1>8. PoolOf(market', bets', custody')
    BY <1>1, <1>3, <1>5, <1>6, <1>7, PoolSoundIs DEF PoolOf
  <1> QED BY <1>2, <1>8, PoolOfWritten

LEMMA CancelBetPoolSound ==
  ASSUME TypeOK, TypeOK', PoolSound, NEW u \in Users, CancelBet(u)
  PROVE  PoolSound'
  <1>1. /\ GetMarket \in Markets /\ custody \in Nat
        /\ bets \in [Users -> Bets] /\ bets' \in [Users -> Bets]
    BY GetMarketIsMarket, SMTT(60) DEF TypeOK
  <1>2. /\ market' = WithoutBets(GetMarket, {u}) /\ cache' = NoMarket
        /\ bets' = [bets EXCEPT ![u].status = "Cancelled"]
        /\ custody' = custody - bets[u].amount /\ bets[u].status = "Active"
    BY DEF CancelBet, UpdateMarket
  <1>3. PICK n \in Nat : n = bets[u].amount
    BY <1>1 DEF Bets
  <1>4. SumOver([v \in Users |-> bets[v].amount], {u}) = n
    BY <1>3, SumOfOne
  <1>5. market'.total = GetMarket.total - n /\ GetMarket.total \in Int
    BY <1>1, <1>2, <1>4 DEF WithoutBets, Markets
  <1>6. Amounts(ActiveOf(bets), Users) /\ Amounts(ActiveOf(bets'), Users)
    BY <1>1, ActiveIsAmounts
  <1>7. ActiveOf(bets)[u] = n /\ ActiveOf(bets')[u] = 0
    BY <1>1, <1>2, <1>3 DEF ActiveOf, Bets
  <1>8. SumOver(ActiveOf(bets'), Users)
          = SumOver(ActiveOf(bets), Users) - ActiveOf(bets)[u] + ActiveOf(bets')[u]
    <2>1. \A v \in Users \ {u} : bets'[v] = bets[v]
      BY <1>1, <1>2
    <2> QED BY <1>1, <2>1, ActiveChanges
  <1>9. SumOver(ActiveOf(bets), Users) \in Nat
    BY <1>6, SumIsAmount
  <1>10. PoolOf(market', bets', custody')
    BY <1>1, <1>2, <1>3, <1>5, <1>7, <1>8, <1>9, PoolSoundIs DEF PoolOf
  <1> QED BY <1>2, <1>10, PoolOfWritten

(* The refund returns every active bet, so whatever copy it is taken from  *)
(* has nothing left to return, and still what the votes put in.            *)
LEMMA CancelAndRefundPoolSound ==
  ASSUME TypeOK, TypeOK', CopiesTell, CopiesTell', PoolSound, CancelAndRefund
  PROVE  PoolSound'
  <1>1. PICK read \in Markets :
          /\ read = IF cache # NoMarket THEN cache ELSE Cancelled(market)
          /\ read.total = GetMarket.total
    BY CancelledIsMarket, ZenonT(60) DEF TypeOK, GetMarket, Cancelled, Markets
  <1>2. /\ market' = WithoutBets(read, ActiveBettors) /\ cache' = NoMarket
    BY <1>1 DEF CancelAndRefund, UpdateMarket
  <1>3. /\ bets \in [Users -> Bets] /\ custody \in Nat
        /\ ActiveBettors \in SUBSET Users
    BY RegisteredAreUsers, SMTT(60) DEF TypeOK, ActiveBettors
  <1> DEFINE refund == [u \in Users |-> IF u \in ActiveBettors THEN bets[u].amount
                                                             ELSE 0]
             amounts == [u \in Users |-> bets[u].amount]
             active == SumOver(ActiveOf(bets), Users)
  <1>4. \A u \in Users : refund[u] = ActiveOf(bets)[u]
    BY <1>3 DEF ActiveBettors, ActiveOf, CopiesTell
  <1>5. SumOver(refund, Users) = active
    BY <1>4, SumOfSame
  <1>6. SumOver(amounts, ActiveBettors) = active
    <2>1. Amounts(ActiveOf(bets), Users)
      BY <1>3, ActiveIsAmounts
    <2>2. active = SumOver(ActiveOf(bets), ActiveBettors)
      <3>1. \A u \in Users \ ActiveBettors : ActiveOf(bets)[u] = 0
        BY DEF ActiveBettors, ActiveOf, CopiesTell
      <3> QED BY <1>3, <2>1, <3>1, SumOfNonzero
    <2>3. \A u \in ActiveBettors : amounts[u] = ActiveOf(bets)[u]
      BY <1>3 DEF ActiveBettors, ActiveOf
    <2> QED BY <2>2, <2>3, SumOfSame
  <1>7. market'.total = read.total - active /\ read.total \in Int
    BY <1>1, <1>2, <1>6 DEF WithoutBets, Markets
  <1>8. custody' = custody - active
    BY <1>5 DEF CancelAndRefund
  <1>9. SumOver(ActiveOf(bets'), Users) = 0
    <2>1. ASSUME NEW v \in Users PROVE ActiveOf(bets')[v] = 0
      <3>1. CASE v \in ActiveBettors
        <4>1. bets'[v] = [bets[v] EXCEPT !.status = "Refunded"]
          BY <3>1 DEF CancelAndRefund
        <4>2. bets'[v].status = "Refunded"
          BY <1>3, <4>1 DEF Bets
        <4> QED BY <4>2 DEF ActiveOf
      <3>2. CASE v \notin ActiveBettors
        <4>1. bets'[v] = bets[v]
          BY <3>2 DEF CancelAndRefund
        <4> QED BY <3>2, <4>1 DEF ActiveOf, ActiveBettors, CopiesTell
      <3> QED BY <3>1, <3>2
    <2> QED BY <2>1, SumOfZeros
  <1>10. active \in Nat
    BY <1>3, ActiveIsAmounts, SumIsAmount
  <1> HIDE DEF active
  <1>11. PoolOf(market', bets', custody')
    <2>1. GetMarket.total >= active /\ custody >= GetMarket.total
      BY PoolSoundIs DEF PoolOf, active
    <2> QED BY <1>1, <1>3, <1>7, <1>8, <1>9, <1>10, <2>1 DEF PoolOf
  <1> QED BY <1>2, <1>11, PoolOfWritten

LEMMA PoolStep ==
  ASSUME TypeOK, CopiesTell, PoolSound, [Next]_vars
  PROVE  PoolSound'
  <1>1. TypeOK' /\ CopiesTell'
    BY Steps, TellingStep
  <1>2. ASSUME NEW u \in Users, NEW o \in Outcomes, NEW a \in BetAmounts,
               PlaceBet(u, o, a)
        PROVE  PoolSound'
    <2>1. a \in Nat /\ a >= a
      BY AmountsAssumption
    <2> QED BY <1>1, <1>2, <2>1, PlacedPoolSound DEF PlaceBet
  <1>3. ASSUME NEW u \in Users, NEW o1 \in Outcomes, NEW o2 \in Outcomes,
               NEW a1 \in BetAmounts, NEW a2 \in BetAmounts,
               PlaceBets(u, o1, a1, o2, a2)
        PROVE  PoolSound'
    <2>1. a1 \in Nat /\ a2 \in Nat /\ custody \in Nat
      BY AmountsAssumption DEF TypeOK
    <2>2. PICK n \in Nat : n = a1 + a2 /\ n >= a2
      BY <2>1
    <2>3. /\ MayBet(u)
          /\ bets' = [bets EXCEPT ![u] = ActiveBet(o2, a2)]
          /\ UpdateMarket(WithStake(GetMarket, u, o2, a2))
          /\ custody' = custody + n
      BY <1>3, <2>1, <2>2 DEF PlaceBets
    <2> QED BY <1>1, <2>1, <2>2, <2>3, PlacedPoolSound
  <1> QED BY <1>1, <1>2, <1>3, StakeSteps, LeavesPoolSound, VotePoolSound,
             CancelBetPoolSound, CancelAndRefundPoolSound DEF MovesStake

(* No payout is computed from a pool that is not there, and no refund      *)
(* taken from a total that lacks it: total_staked, in storage and in the   *)
(* copy a call may write back, covers the bets still active and is covered *)
(* by the tokens taken in (lib.rs vote, bets.rs, refund_market_bets).      *)
THEOREM PoolIsSound == Spec => []PoolSound
  <1>1. Init => PoolSound
    <2> SUFFICES ASSUME Init PROVE PoolSound
      OBVIOUS
    <2>1. \A u \in Users : ActiveOf(bets)[u] = 0
      BY DEF Init, NoBet, ActiveOf
    <2>2. SumOver(ActiveOf(bets), Users) = 0
      BY <2>1, SumOfZeros
    <2> QED BY <2>2, PoolSoundIs DEF Init, NewMarket, GetMarket, PoolOf
  <1>2. (TypeOK /\ CopiesTell /\ PoolSound) /\ [Next]_vars
          => (CopiesTell /\ PoolSound)'
    BY PoolStep, TellingStep
  <1> QED BY <1>1, <1>2, InitTells, TypeCorrect, PTL DEF Spec

-----------------------------------------------------------------------------
(* The statistics.                                                         *)

(* The amounts of the active bets on the outcome o.                        *)
ActiveOn(bs, o) ==
  [u \in Users |-> IF bs[u].status = "Active" /\ bs[u].outcome = o
                   THEN bs[u].amount ELSE 0]

LEMMA ActiveOnIsAmounts ==
  ASSUME NEW bs \in [Users -> Bets], NEW o
  PROVE  Amounts(ActiveOn(bs, o), Users) /\ SumOver(ActiveOn(bs, o), Users) \in Nat
  <1>1. Amounts(ActiveOn(bs, o), Users)
    BY UsersAssumption DEF Amounts, ActiveOn, Bets
  <1> QED BY <1>1, SumIsAmount

(* One user's bet changed: the totals of the others stay.                  *)
LEMMA ActiveOnChanges ==
  ASSUME NEW bs \in [Users -> Bets], NEW cs \in [Users -> Bets], NEW u \in Users,
         NEW o, \A v \in Users \ {u} : cs[v] = bs[v]
  PROVE  SumOver(ActiveOn(cs, o), Users)
           = SumOver(ActiveOn(bs, o), Users) - ActiveOn(bs, o)[u]
             + ActiveOn(cs, o)[u]
  <1>1. Amounts(ActiveOn(bs, o), Users) /\ Amounts(ActiveOn(cs, o), Users)
    BY ActiveOnIsAmounts
  <1>2. \A v \in Users \ {u} : ActiveOn(cs, o)[v] = ActiveOn(bs, o)[v]
    BY DEF ActiveOn
  <1> QED BY <1>1, <1>2, SumChanges

LEMMA ActiveOnShrinks ==
  ASSUME NEW bs \in [Users -> Bets], NEW cs \in [Users -> Bets], NEW o,
         \A u \in Users : NotActivated(bs[u], cs[u])
  PROVE  SumOver(ActiveOn(cs, o), Users) <= SumOver(ActiveOn(bs, o), Users)
  <1>1. Amounts(ActiveOn(bs, o), Users) /\ Amounts(ActiveOn(cs, o), Users)
    BY ActiveOnIsAmounts
  <1>2. ASSUME NEW u \in Users PROVE ActiveOn(cs, o)[u] <= ActiveOn(bs, o)[u]
    <2>1. bs[u].amount \in Nat
      BY DEF Bets
    <2> QED BY <2>1 DEF ActiveOn, NotActivated
  <1> QED BY <1>1, <1>2, SumGrows

(* The counts cover the active bets on each outcome.                        *)
StatsOf(counts, bs) ==
  \A o \in Outcomes : counts[o] >= SumOver(ActiveOn(bs, o), Users)

LEMMA StatsCoverIs ==
  ASSUME NEW bs \in [Users -> Bets], NEW o
  PROVE  SumOver(ActiveOf(bs), {u \in Users : bs[u].outcome = o})
           = SumOver(ActiveOn(bs, o), Users)
  <1> DEFINE S == {u \in Users : bs[u].outcome = o}
  <1>1. Amounts(ActiveOn(bs, o), Users) /\ S \in SUBSET Users
    BY ActiveOnIsAmounts
  <1>2. \A u \in Users \ S : ActiveOn(bs, o)[u] = 0
    BY DEF ActiveOn
  <1>3. SumOver(ActiveOn(bs, o), Users) = SumOver(ActiveOn(bs, o), S)
    BY <1>1, <1>2, SumOfNonzero
  <1>4. \A u \in S : ActiveOf(bs)[u] = ActiveOn(bs, o)[u]
    BY DEF ActiveOf, ActiveOn
  <1> QED BY <1>3, <1>4, SumOfSame

LEMMA StatsIs ==
  TypeOK => (StatsCoverActiveBets <=> StatsOf(stats, bets))
  BY StatsCoverIs, ZenonT(60) DEF TypeOK, StatsCoverActiveBets, StatsOf, ActiveAmounts, ActiveOf

LEMMA LeavesPoolStats ==
  ASSUME TypeOK, TypeOK', StatsOf(stats, bets), stats' = stats,
         \A u \in Users : NotActivated(bets[u], bets'[u])
  PROVE  StatsOf(stats', bets')
  <1> SUFFICES ASSUME NEW o \in Outcomes
               PROVE  stats'[o] >= SumOver(ActiveOn(bets', o), Users)
    BY DEF StatsOf
  <1>1. /\ SumOver(ActiveOn(bets', o), Users) <= SumOver(ActiveOn(bets, o), Users)
        /\ SumOver(ActiveOn(bets', o), Users) \in Nat
        /\ SumOver(ActiveOn(bets, o), Users) \in Nat
    BY ActiveOnShrinks, ActiveOnIsAmounts, ZenonT(60) DEF TypeOK
  <1> QED BY <1>1, SMTT(60) DEF StatsOf, TypeOK

LEMMA PlacedStats ==
  ASSUME TypeOK, TypeOK', StatsOf(stats, bets), NEW u \in Users,
         NEW o \in Outcomes, NEW a \in Nat, MayBet(u),
         bets' = [bets EXCEPT ![u] = ActiveBet(o, a)],
         \A p \in Outcomes : stats'[p] >= stats[p] + (IF p = o THEN a ELSE 0)
  PROVE  StatsOf(stats', bets')
  <1> SUFFICES ASSUME NEW p \in Outcomes
               PROVE  stats'[p] >= SumOver(ActiveOn(bets', p), Users)
    BY DEF StatsOf
  <1>1. bets \in [Users -> Bets] /\ bets' \in [Users -> Bets]
    BY SMTT(60) DEF TypeOK
  <1>2. /\ ActiveOn(bets, p)[u] = 0
        /\ ActiveOn(bets', p)[u] = IF p = o THEN a ELSE 0
    BY <1>1 DEF ActiveOn, ActiveBet, MayBet
  <1>3. \A v \in Users \ {u} : bets'[v] = bets[v]
    BY <1>1
  <1>4. SumOver(ActiveOn(bets', p), Users)
          = SumOver(ActiveOn(bets, p), Users) - ActiveOn(bets, p)[u]
            + ActiveOn(bets', p)[u]
    <2>1. \A bs, cs \in [Users -> Bets] :
            (\A v \in Users \ {u} : cs[v] = bs[v])
              => SumOver(ActiveOn(cs, p), Users)
                   = SumOver(ActiveOn(bs, p), Users) - ActiveOn(bs, p)[u]
                     + ActiveOn(cs, p)[u]
      BY ActiveOnChanges
    <2> QED BY <1>1, <1>3, <2>1, Zenon
  <1>5. PICK n \in Nat : n = SumOver(ActiveOn(bets, p), Users)
    BY <1>1, ActiveOnIsAmounts
  <1>6. stats[p] >= n /\ stats[p] \in Nat /\ stats'[p] \in Nat
    BY <1>5 DEF StatsOf, TypeOK
  <1> QED BY <1>2, <1>4, <1>5, <1>6

LEMMA CancelBetStats ==
  ASSUME TypeOK, TypeOK', StatsOf(stats, bets), NEW u \in Users, CancelBet(u)
  PROVE  StatsOf(stats', bets')
  <1> SUFFICES ASSUME NEW p \in Outcomes
               PROVE  stats'[p] >= SumOver(ActiveOn(bets', p), Users)
    BY DEF StatsOf
  <1>1. bets \in [Users -> Bets] /\ bets' \in [Users -> Bets]
        /\ stats \in [Outcomes -> Nat]
    BY SMTT(60) DEF TypeOK
  <1>2. PICK a \in Nat : a = bets[u].amount
    BY <1>1 DEF Bets
  <1>3. /\ bets[u].status = "Active"
        /\ bets' = [bets EXCEPT ![u].status = "Cancelled"]
        /\ stats' = [stats EXCEPT ![bets[u].outcome] =
                       FloorSub(stats[bets[u].outcome], a)]
    BY <1>2 DEF CancelBet
  <1>4. /\ ActiveOn(bets, p)[u] = IF bets[u].outcome = p THEN a ELSE 0
        /\ ActiveOn(bets', p)[u] = 0
    BY <1>1, <1>2, <1>3 DEF ActiveOn, Bets
  <1>5. \A v \in Users \ {u} : bets'[v] = bets[v]
    BY <1>1, <1>3
  <1>6. SumOver(ActiveOn(bets', p), Users)
          = SumOver(ActiveOn(bets, p), Users) - ActiveOn(bets, p)[u]
            + ActiveOn(bets', p)[u]
    BY <1>1, <1>5, ActiveOnChanges
  <1>7. PICK n \in Nat, k \in Nat : /\ n = SumOver(ActiveOn(bets, p), Users)
                                   /\ k = SumOver(ActiveOn(bets', p), Users)
    BY <1>1, ActiveOnIsAmounts
  <1>8. stats[p] >= n /\ stats[p] \in Nat
    BY <1>1, <1>7 DEF StatsOf
  <1>9. stats'[p] = IF bets[u].outcome = p THEN FloorSub(stats[p], a) ELSE stats[p]
    BY <1>1, <1>3
  <1> QED BY <1>4, <1>6, <1>7, <1>8, <1>9 DEF FloorSub

LEMMA CancelAndRefundStats ==
  ASSUME TypeOK, TypeOK', CopiesTell, CancelAndRefund
  PROVE  StatsOf(stats', bets')
  <1>1. stats' = stats /\ stats \in [Outcomes -> Nat] /\ bets \in [Users -> Bets]
    BY DEF CancelAndRefund, TypeOK
  <1>2. ASSUME NEW v \in Users PROVE bets'[v].status # "Active"
    <2>1. CASE v \in ActiveBettors
      <3>1. bets'[v] = [bets[v] EXCEPT !.status = "Refunded"]
        BY <2>1 DEF CancelAndRefund
      <3> QED BY <1>1, <3>1 DEF Bets
    <2>2. CASE v \notin ActiveBettors
      <3>1. bets'[v] = bets[v]
        BY <2>2 DEF CancelAndRefund
      <3> QED BY <2>2, <3>1 DEF ActiveBettors, CopiesTell
    <2> QED BY <2>1, <2>2
  <1>3. ASSUME NEW o \in Outcomes PROVE SumOver(ActiveOn(bets', o), Users) = 0
    <2>1. \A v \in Users : ActiveOn(bets', o)[v] = 0
      BY <1>2 DEF ActiveOn
    <2> QED BY <2>1, SumOfZeros
  <1> QED BY <1>1, <1>3 DEF StatsOf

LEMMA StatsStep ==
  ASSUME TypeOK, CopiesTell, StatsOf(stats, bets), [Next]_vars
  PROVE  StatsOf(stats', bets')
  <1>0. stats \in [Outcomes -> Nat] /\ TypeOK'
    BY Steps, SMTT(60) DEF TypeOK
  <1>1. ASSUME NEW u \in Users, NEW o \in Outcomes, NEW a \in VoteStakes,
               Vote(u, o, a)
        PROVE  StatsOf(stats', bets')
    BY <1>1 DEF Vote, betVars
  <1>2. ASSUME NEW u \in Users, NEW o \in Outcomes, NEW a \in BetAmounts,
               PlaceBet(u, o, a)
        PROVE  StatsOf(stats', bets')
    <2>1. a \in Nat
      BY AmountsAssumption
    <2>2. stats' = [stats EXCEPT ![o] = @ + a]
      BY <1>2 DEF PlaceBet
    <2>3. \A p \in Outcomes : stats'[p] >= stats[p] + (IF p = o THEN a ELSE 0)
      BY <1>0, <2>1, <2>2
    <2> QED BY <1>0, <1>2, <2>1, <2>3, PlacedStats DEF PlaceBet
  <1>3. ASSUME NEW u \in Users, NEW o1 \in Outcomes, NEW o2 \in Outcomes,
               NEW a1 \in BetAmounts, NEW a2 \in BetAmounts,
               PlaceBets(u, o1, a1, o2, a2)
        PROVE  StatsOf(stats', bets')
    <2>1. a1 \in Nat /\ a2 \in Nat
      BY AmountsAssumption
    <2> DEFINE first == [stats EXCEPT ![o1] = @ + a1]
    <2>2. first \in [Outcomes -> Nat]
          /\ \A p \in Outcomes : first[p] >= stats[p]
      BY <1>0, <2>1
    <2>3. stats' = [first EXCEPT ![o2] = @ + a2]
      BY <1>3 DEF PlaceBets
    <2> HIDE DEF first
    <2>4. \A p \in Outcomes : stats'[p] >= stats[p] + (IF p = o2 THEN a2 ELSE 0)
      BY <1>0, <2>1, <2>2, <2>3
    <2> QED BY <1>0, <1>3, <2>1, <2>4, PlacedStats DEF PlaceBets
  <1> QED BY <1>0, <1>1, <1>2, <1>3, StakeSteps, LeavesPoolStats, CancelBetStats,
             CancelAndRefundStats DEF MovesStake, LeavesPool

(* The statistics never fall below the bets still active on an outcome,    *)
(* though a batch that names the market twice counts a bet it overwrites   *)
(* and a cancellation stops at zero (bets.rs).                             *)
THEOREM StatsAreCovering == Spec => []StatsCoverActiveBets
  <1> DEFINE Inv == CopiesTell /\ StatsOf(stats, bets)
  <1>1. Init => Inv
    <2> SUFFICES ASSUME Init PROVE StatsOf(stats, bets)
      BY InitTells
    <2>1. ASSUME NEW o \in Outcomes PROVE SumOver(ActiveOn(bets, o), Users) = 0
      <3>1. \A u \in Users : ActiveOn(bets, o)[u] = 0
        BY DEF Init, NoBet, ActiveOn
      <3> QED BY <3>1, SumOfZeros
    <2> QED BY <2>1 DEF Init, StatsOf
  <1>2. (TypeOK /\ Inv) /\ [Next]_vars => Inv'
    BY StatsStep, TellingStep
  <1>3. TypeOK /\ Inv => StatsCoverActiveBets
    BY StatsIs
  <1> QED BY <1>1, <1>2, <1>3, TypeCorrect, PTL DEF Spec

-----------------------------------------------------------------------------
(* The claim ledger.                                                       *)

(* The claims of some users without a record are recorded, and some of     *)
(* them are credited once.                                                 *)
Settles ==
  \E S \in SUBSET (Users \ market.claimed) : \E C \in SUBSET S :
    /\ market'.claimed = market.claimed \cup S
    /\ payments' = [u \in Users |-> IF u \in C THEN payments[u] + 1
                                              ELSE payments[u]]

LEMMA UnpaidStep ==
  ASSUME TypeOK, cache = NoMarket, payments' = payments,
         \/ UNCHANGED market
         \/ StoresMarket
         \/ WritesBackMarket
         \/ CollectsFees
  PROVE  Settles
  <1>1. GetMarket = market
    BY DEF GetMarket
  <1>2. /\ market.claimed \subseteq market'.claimed
        /\ market'.claimed \subseteq Users
    BY <1>1 DEF StoresMarket, WritesBackMarket, CollectsFees, TypeOK, Markets
  <1> DEFINE S == market'.claimed \ market.claimed
  <1>3. /\ S \in SUBSET (Users \ market.claimed)
        /\ market'.claimed = market.claimed \cup S
        /\ {} \in SUBSET S
    BY <1>2
  <1>4. payments' = [u \in Users |-> IF u \in {} THEN payments[u] + 1
                                                ELSE payments[u]]
    BY DEF TypeOK
  <1> QED BY <1>3, <1>4 DEF Settles

(* A distribution that reaches its end credits only the users whose claims *)
(* it then records.                                                        *)
LEMMA DistributionSettles ==
  ASSUME TypeOK, NEW m \in Markets, m.claimed = market.claimed,
         NEW bs \in [Users -> Bets], NEW s \in Summaries, s.winningTotal # 0,
         Distribute(m, bs, s, Whole(m)),
         market' = WithClaims(m, Claimants(m, bs, s))
  PROVE  Settles
  <1>1. PICK S \in SUBSET (Users \ market.claimed) : S = Claimants(m, bs, s)
    BY ClaimantsAreUnclaimed DEF TypeOK
  <1>2. PICK C \in SUBSET Users :
          /\ C \subseteq PaidVoters(m, s, Whole(m))
                           \cup PaidBettors(m, bs, s, Whole(m))
          /\ payments' = [u \in Users |-> IF u \in C THEN payments[u] + 1
                                                   ELSE payments[u]]
    BY DistributeCredits
  <1>3. C \in SUBSET S
    BY <1>1, <1>2 DEF Claimants
  <1>4. market'.claimed = market.claimed \cup S
    BY <1>1, WithClaimsIsMarket
  <1> QED BY <1>2, <1>3, <1>4 DEF Settles

LEMMA ResolveSettles ==
  ASSUME TypeOK, cache = NoMarket, BudgetAborts = FALSE,
         NEW ws \in SUBSET Outcomes, Resolve(ws)
  PROVE  Settles
  <1>1. PICK m \in Markets : /\ m = WithWinners(market, ws)
                            /\ m.claimed = market.claimed
    BY WithWinnersIsMarket DEF TypeOK
  <1>2. PICK bs \in [Users -> Bets] : bs = ResolveMarketBets(ws)
    BY ResolvedBetsAreBets DEF TypeOK
  <1>3. PICK s \in Summaries : s = Refresh(m, bs)
    BY RefreshIsSummary DEF TypeOK
  <1>4. \/ payments' = payments
        \/ /\ Distributable(m, bs, s)
           /\ Distribute(m, bs, s, Whole(m))
           /\ SetMarket(WithClaims(m, Claimants(m, bs, s)))
    BY <1>1, <1>2, <1>3 DEF Resolve
  <1>5. CASE payments' = payments
    BY <1>5, ResolveTypeOK, UnpaidStep
  <1>6. CASE /\ Distributable(m, bs, s)
             /\ Distribute(m, bs, s, Whole(m))
             /\ SetMarket(WithClaims(m, Claimants(m, bs, s)))
    <2>1. s.winningTotal # 0
      BY <1>6 DEF Distributable
    <2>2. market' = WithClaims(m, Claimants(m, bs, s))
      BY <1>6 DEF SetMarket
    <2> QED BY <1>1, <1>6, <2>1, <2>2, DistributionSettles
  <1> QED BY <1>4, <1>5, <1>6

LEMMA DistributePayoutsSettles ==
  ASSUME TypeOK, DistributePayouts
  PROVE  Settles
  <1>1. /\ summary \in Summaries /\ summary.winningTotal # 0
        /\ market \in Markets /\ bets \in [Users -> Bets]
    BY DEF DistributePayouts, Distributable, TypeOK
  <1>2. /\ Distribute(market, bets, summary, Whole(market))
        /\ market' = WithClaims(market, Claimants(market, bets, summary))
    BY DEF DistributePayouts, SetMarket
  <1> QED BY <1>1, <1>2, DistributionSettles

LEMMA ClaimWinningsSettles ==
  ASSUME TypeOK, NEW u \in Users, ClaimWinnings(u)
  PROVE  Settles
  <1>1. /\ u \notin market.claimed
        /\ market' = WithClaims(market, {u})
        /\ payments' = [payments EXCEPT ![u] = @ + 1]
    BY DEF ClaimWinnings, SetMarket
  <1>2. market'.claimed = market.claimed \cup {u}
    <2>1. market \in Markets
      BY DEF TypeOK
    <2> QED BY <1>1, <2>1, WithClaimsIsMarket
  <1>3. payments' = [v \in Users |-> IF v \in {u} THEN payments[v] + 1
                                                 ELSE payments[v]]
    BY <1>1 DEF TypeOK
  <1>4. {u} \in SUBSET (Users \ market.claimed) /\ {u} \in SUBSET {u}
    BY <1>1
  <1> QED BY <1>2, <1>3, <1>4 DEF Settles

(* Without reads that leave the cache filled, no stale copy is ever        *)
(* written back, and every step settles some claims, often none.           *)
LEMMA LedgerStep ==
  ASSUME TypeOK, cache = NoMarket, MaxReads = 0, BudgetAborts = FALSE,
         [Next]_vars
  PROVE  cache' = NoMarket /\ Settles
  <1>1. ~ReadsMarket
    BY DEF ReadsMarket, TypeOK
  <1>2. cache' = NoMarket
    BY <1>1, Steps DEF StoresMarket, WritesBackMarket, CollectsFees
  <1>3. \/ UNCHANGED market
        \/ StoresMarket
        \/ WritesBackMarket
        \/ CollectsFees
    BY <1>1, Steps
  <1>4. ASSUME payments' = payments PROVE Settles
    BY <1>3, <1>4, UnpaidStep
  <1>5. ASSUME NEW u \in Users, Staking(u) PROVE payments' = payments
    BY <1>5 DEF Staking, Vote, PlaceBet, PlaceBets, CancelBet
  <1>6. ASSUME Resolving PROVE Settles
    <2>1. ASSUME NEW o \in Outcomes, ResolveMarketManual(o) PROVE Settles
      BY <2>1, ResolveSettles DEF ResolveMarketManual
    <2>2. ASSUME NEW ws \in SUBSET Outcomes,
                 ResolveMarketWithTies(ws) \/ ForceResolveMarket(ws)
          PROVE  Settles
      BY <2>2, ResolveSettles DEF ResolveMarketWithTies, ForceResolveMarket
    <2>3. ASSUME FetchOracleResult \/ AdminOverrideVerification
          PROVE  payments' = payments
      BY <2>3 DEF FetchOracleResult, AdminOverrideVerification, history
    <2> QED BY <1>4, <1>6, <2>1, <2>2, <2>3 DEF Resolving
  <1>7. ASSUME Settling PROVE Settles
    <2>1. ASSUME NEW u \in Users, ClaimNothing(u) PROVE payments' = payments
      BY <2>1 DEF ClaimNothing, history
    <2>2. ASSUME NEW burn \in BOOLEAN, SweepUnclaimedWinnings(burn)
          PROVE  payments' = payments
      BY <2>2 DEF SweepUnclaimedWinnings, history
    <2> QED BY <1>4, <1>7, <2>1, <2>2, DistributePayoutsSettles,
               ClaimWinningsSettles DEF Settling
  <1>8. ASSUME Refunding PROVE payments' = payments
    BY <1>8 DEF Refunding, CancelEvent, RefundOnOracleFailure, CancelAndRefund
  <1>9. ASSUME CollectFees \/ ReadThroughCache \/ Tick \/ UNCHANGED vars
        PROVE  payments' = payments
    BY <1>9 DEF CollectFees, ReadThroughCache, Tick, vars, history
  <1>10. ASSUME NEW fee \in PlatformFees, SetPlatformFee(fee)
         PROVE  payments' = payments
    BY <1>10 DEF SetPlatformFee, history
  <1>11. Settles
    BY <1>4, <1>5, <1>6, <1>7, <1>8, <1>9, <1>10 DEF Next
  <1> QED BY <1>2, <1>11

(* The market, with its many ways to pay or to record a claim, implements  *)
(* the claim ledger: a record is permanent, and every credit comes with    *)
(* the first record of that user's claim (lib.rs claim_winnings,           *)
(* distribute_payouts and sweep_unclaimed_winnings).                       *)
THEOREM ImplementsLedger ==
  ASSUME MaxReads = 0, BudgetAborts = FALSE
  PROVE  Spec => LedgerSpec
  <1>1. Init => TypeOK /\ cache = NoMarket /\ Ledger!Init
    BY InitTypeOK DEF Init, NewMarket, Ledger!Init
  <1>2. TypeOK /\ cache = NoMarket /\ [Next]_vars
          => (TypeOK /\ cache = NoMarket)' /\ [Ledger!Next]_(Ledger!vars)
    <2> SUFFICES ASSUME TypeOK, cache = NoMarket, [Next]_vars
                 PROVE  /\ (TypeOK /\ cache = NoMarket)'
                        /\ [Ledger!Next]_(Ledger!vars)
      OBVIOUS
    <2>1. TypeOK' /\ cache' = NoMarket /\ Settles
      BY Steps, LedgerStep
    <2>2. Ledger!Next
      BY <2>1 DEF Settles, Ledger!Next, Ledger!Settle
    <2> QED BY <2>1, <2>2
  <1> QED BY <1>1, <1>2, PTL DEF Spec, LedgerSpec, Ledger!Spec

(* The inductive form: a user is credited only with a claim record, which  *)
(* is what a second credit would need to be missing.                       *)
PaidWithRecord ==
  \A u \in Users : payments[u] <= (IF u \in market.claimed THEN 1 ELSE 0)

LEMMA PaidStep ==
  ASSUME TypeOK, PaidWithRecord, Settles
  PROVE  PaidWithRecord'
  <1>0. PICK S \in SUBSET (Users \ market.claimed) : \E C \in SUBSET S :
          /\ market'.claimed = market.claimed \cup S
          /\ payments' = [u \in Users |-> IF u \in C THEN payments[u] + 1
                                                    ELSE payments[u]]
    BY DEF Settles
  <1>1. PICK C \in SUBSET S :
          /\ market'.claimed = market.claimed \cup S
          /\ payments' = [u \in Users |-> IF u \in C THEN payments[u] + 1
                                                    ELSE payments[u]]
    BY <1>0
  <1>2. ASSUME NEW u \in Users
        PROVE  payments'[u] <= (IF u \in market'.claimed THEN 1 ELSE 0)
    <2>1. payments[u] \in Nat
      BY DEF TypeOK
    <2>2. payments[u] <= (IF u \in market.claimed THEN 1 ELSE 0)
      BY DEF PaidWithRecord
    <2>3. CASE u \in C
      <3>1. u \notin market.claimed /\ u \in market'.claimed
        BY <1>1, <2>3
      <3>2. payments'[u] = payments[u] + 1
        BY <1>1, <2>3
      <3> QED BY <2>1, <2>2, <3>1, <3>2
    <2>4. CASE u \notin C
      <3>1. payments'[u] = payments[u]
        BY <1>1, <2>4
      <3>2. u \in market.claimed => u \in market'.claimed
        BY <1>1
      <3> QED BY <2>1, <2>2, <3>1, <3>2
    <2> QED BY <2>3, <2>4
  <1> QED BY <1>2 DEF PaidWithRecord

(* Nobody is credited twice, whichever of the distribution after a         *)
(* resolution, a later distribution, a claim and a sweep comes first       *)
(* (lib.rs distribute_payouts, "Double Payout Prevention").                *)
THEOREM EveryoneIsPaidOnce ==
  ASSUME MaxReads = 0, BudgetAborts = FALSE
  PROVE  Spec => []PaidOnce
  <1> DEFINE Inv == TypeOK /\ cache = NoMarket /\ PaidWithRecord
  <1>1. Init => Inv
    BY InitTypeOK DEF Init, NewMarket, PaidWithRecord
  <1>2. Inv /\ [Next]_vars => Inv'
    BY Steps, LedgerStep, PaidStep
  <1>3. Inv => PaidOnce
    BY DEF PaidWithRecord, PaidOnce, TypeOK
  <1> QED BY <1>1, <1>2, <1>3, PTL DEF Spec

-----------------------------------------------------------------------------
(* Solvency.                                                               *)

(* What the payout of a stake is reckoned from, and whose.                 *)
Position(m, bs) ==
  [u \in Users |-> IF u \in VoterKeys(m) THEN m.stakes[u] ELSE bs[u].amount]

Winning(m, bs) ==
  {u \in VoterKeys(m) : m.votes[u] \in m.winners}
    \cup {u \in Bettors \ VoterKeys(m) : bs[u].outcome \in m.winners}

(* What share of the pool, of 100, the payouts may come to.                *)
Rate == IF FeesCoverCollection THEN 100 - ScheduleFee ELSE 100

(* The amount b is no more than the share of the pool of s that the        *)
(* positions of the users in S have.                                       *)
IsShare(s, b, positions, S) ==
  (100 * s.winningTotal) * b <= (Rate * s.totalPool) * SumOver(positions, S)

LEMMA RateIs ==
  /\ Rate \in 0..100
  /\ FeesCoverCollection => Rate = 100 - ScheduleFee /\ ScheduleFee <= 10
  BY AmountsAssumption, SMTT(60) DEF Rate, FeesCoverCollection

LEMMA FloorTimes ==
  ASSUME NEW x \in Int, NEW y \in Nat \ {0}
  PROVE  (x \div y) \in Int /\ y * (x \div y) <= x
  OBVIOUS

LEMMA TimesGrows ==
  ASSUME NEW a \in Int, NEW b \in Int, NEW c \in Nat, a <= b
  PROVE  a * c \in Int /\ b * c \in Int /\ a * c <= b * c
  OBVIOUS

LEMMA TimesAssociates ==
  \A a, b, c \in Int : a * b \in Int /\ a * b = b * a /\ (a * b) * c = a * (b * c)
  OBVIOUS

LEMMA CancelsFactor ==
  ASSUME NEW w \in Nat \ {0}, NEW x \in Nat, NEW y \in Nat,
         (100 * w) * x <= y * w
  PROVE  100 * x <= y
  <1>1. SUFFICES ASSUME y + 1 <= 100 * x PROVE FALSE
    OBVIOUS
  <1>2. (y + 1) * w <= (100 * x) * w
    BY <1>1, TimesGrows
  <1>3. (y + 1) * w = y * w + w /\ (100 * x) * w = (100 * w) * x
        /\ y * w \in Nat
    BY TimesAssociates
  <1> QED BY <1>2, <1>3

(* Neither rounding nor a fee above the rate makes a payout exceed the     *)
(* share of its stake.                                                     *)
LEMMA PayoutIsShare ==
  ASSUME NEW stake \in Nat, NEW fee \in Nat, NEW d \in {100, 10000},
         100 * (d - fee) <= Rate * d,
         NEW s \in Summaries, s.winningTotal # 0, s.totalPool \in Nat
  PROVE  (100 * s.winningTotal) * Payout(stake, fee, d, s)
           <= (Rate * s.totalPool) * stake
  <1>1. PICK W \in Nat \ {0}, T \in Nat : W = s.winningTotal /\ T = s.totalPool
    BY DEF Summaries
  <1>2. PICK r \in Nat : r = Rate
    BY RateIs
  <1>3. PICK k \in Int : k = d - fee /\ 100 * k <= r * d
    BY <1>2
  <1>4. PICK x \in Int : x = stake * k
    BY <1>3
  <1>5. PICK q \in Int : q = x \div d /\ d * q <= x
    BY <1>4, FloorTimes
  <1>6. PICK y \in Int : y = r * stake
    BY <1>2
  <1>7. 100 * q <= y
    <2>1. (100 * k) * stake <= (r * d) * stake
      BY <1>3, TimesGrows
    <2>2. (100 * k) * stake = 100 * x /\ (r * d) * stake = d * y
      BY <1>4, <1>6, TimesAssociates
    <2>3. 100 * x <= d * y
      BY <2>1, <2>2
    <2> QED BY <1>5, <2>3
  <1>8. PICK z \in Int : z = q * T
    BY <1>1
  <1>9. PICK p \in Int : p = z \div W /\ W * p <= z
    <2>1. W \in Nat \ {0} /\ z \in Int
      OBVIOUS
    <2>2. (z \div W) \in Int /\ W * (z \div W) <= z
      BY <2>1, FloorTimes
    <2> QED BY <2>2
  <1>10. Payout(stake, fee, d, s) = p
    BY <1>1, <1>3, <1>4, <1>5, <1>8, <1>9 DEF Payout
  <1>11. (100 * q) * T <= y * T
    BY <1>1, <1>7, TimesGrows
  <1>12. (100 * q) * T = 100 * z /\ y * T = (r * T) * stake
    BY <1>1, <1>6, <1>8, TimesAssociates
  <1>13. 100 * (W * p) <= 100 * z /\ 100 * (W * p) = (100 * W) * p
    BY <1>1, <1>9, TimesAssociates
  <1> QED BY <1>1, <1>2, <1>10, <1>11, <1>12, <1>13

LEMMA ClaimIsShare ==
  ASSUME NEW stake \in Nat, NEW s \in Summaries, s.winningTotal # 0,
         s.totalPool \in Nat
  PROVE  (100 * s.winningTotal) * ClaimPayout(stake, s)
           <= (Rate * s.totalPool) * stake
  <1>1. FeePercent \in Nat
    BY AmountsAssumption
  <1>2. 100 * (100 - FeePercent) <= Rate * 100
    BY <1>1, AmountsAssumption DEF Rate, FeesCoverCollection
  <1>3. 100 \in {100, 10000}
    OBVIOUS
  <1> QED BY <1>1, <1>2, <1>3, PayoutIsShare DEF ClaimPayout

(* The key holds one of the fees it may be given.                          *)
FeeIsSet == platformFee \in PlatformFees \cup {InitialFee}

LEMMA DistributionIsShare ==
  ASSUME FeeIsSet, NEW stake \in Nat, NEW s \in Summaries, s.winningTotal # 0,
         s.totalPool \in Nat
  PROVE  (100 * s.winningTotal) * DistributionPayout(stake, s)
           <= (Rate * s.totalPool) * stake
  <1>1. platformFee \in Nat
    BY AmountsAssumption, SMTT(60) DEF FeeIsSet
  <1>2. 100 * (10000 - platformFee) <= Rate * 10000
    <2>1. ScheduleFee \in Nat
      BY AmountsAssumption
    <2>2. CASE FeesCoverCollection
      <3>1. platformFee >= 100 * ScheduleFee /\ Rate = 100 - ScheduleFee
        BY <2>2, RateIs DEF FeesCoverCollection, FeeIsSet
      <3> QED BY <1>1, <2>1, <3>1
    <2>3. CASE ~FeesCoverCollection
      <3>1. Rate = 100
        BY <2>3 DEF Rate
      <3> QED BY <1>1, <3>1
    <2> QED BY <2>2, <2>3
  <1>3. 10000 \in {100, 10000}
    OBVIOUS
  <1> QED BY <1>1, <1>2, <1>3, PayoutIsShare DEF DistributionPayout

(* The total of the winning side is that of the winning positions.         *)
LEMMA WinningIs ==
  ASSUME NEW m \in Markets, NEW bs \in [Users -> Bets], registry \in Seq(Users)
  PROVE  /\ Winning(m, bs) \in SUBSET Users
         /\ Amounts(Position(m, bs), Users)
         /\ \A S \in SUBSET Users : Amounts(Position(m, bs), S)
         /\ Refresh(m, bs).winningTotal = SumOver(Position(m, bs), Winning(m, bs))
         /\ Refresh(m, bs).totalPool = m.total
  <1> DEFINE voters  == {u \in VoterKeys(m) : m.votes[u] \in m.winners}
             bettors == {u \in Bettors \ VoterKeys(m) : bs[u].outcome \in m.winners}
             pos == Position(m, bs)
  <1>1. voters \in SUBSET Users /\ bettors \in SUBSET Users
    BY RegisteredAreUsers DEF VoterKeys
  <1>2. \A u \in Users : pos[u] \in Nat
    BY DEF Position, Markets, Bets
  <1>3. \A S \in SUBSET Users : Amounts(pos, S)
    BY <1>2, UsersAssumption, FS_Subset DEF Amounts
  <1>4. SumOver(m.stakes, voters) = SumOver(pos, voters)
    <2>1. \A u \in voters : m.stakes[u] = pos[u]
      BY DEF Position, VoterKeys
    <2> QED BY <2>1, SumOfSame
  <1>5. SumOver([u \in Users |-> bs[u].amount], bettors) = SumOver(pos, bettors)
    <2>1. \A u \in bettors : [v \in Users |-> bs[v].amount][u] = pos[u]
      BY <1>1 DEF Position
    <2> QED BY <2>1, SumOfSame
  <1>6. voters \cap bettors = {}
    OBVIOUS
  <1>7. SumOver(pos, voters \cup bettors)
          = SumOver(pos, voters) + SumOver(pos, bettors)
    BY <1>1, <1>3, <1>6, SumOfDisjoint
  <1>8. Winning(m, bs) = voters \cup bettors
    BY DEF Winning
  <1>9. Refresh(m, bs).winningTotal
          = SumOver(m.stakes, voters) + SumOver([u \in Users |-> bs[u].amount], bettors)
    BY DEF Refresh
  <1>10. Refresh(m, bs).totalPool = m.total
    BY DEF Refresh
  <1>11. Refresh(m, bs).winningTotal = SumOver(pos, Winning(m, bs))
    <2> HIDE DEF voters, bettors, pos
    <2> QED BY <1>4, <1>5, <1>7, <1>8, <1>9
  <1> QED BY <1>1, <1>3, <1>8, <1>10, <1>11

(* Shares of different users add up.                                       *)
LEMMA SharesAdd ==
  ASSUME NEW s \in Summaries, s.totalPool \in Nat, NEW positions,
         NEW Z, Amounts(positions, Z), NEW S \in SUBSET Z, NEW X \in SUBSET Z,
         S \cap X = {}, NEW b \in Nat, NEW c \in Nat,
         IsShare(s, b, positions, S), IsShare(s, c, positions, X)
  PROVE  IsShare(s, b + c, positions, Z)
  <1>1. PICK W \in Nat, T \in Nat : /\ W = 100 * s.winningTotal
                                   /\ T = Rate * s.totalPool
    BY RateIs DEF Summaries
  <1>2. \A Y \in SUBSET Z : Amounts(positions, Y)
    BY FS_Subset DEF Amounts
  <1>3. Amounts(positions, S) /\ Amounts(positions, X)
        /\ Amounts(positions, S \cup X)
    <2>1. S \cup X \in SUBSET Z
      OBVIOUS
    <2> QED BY <1>2, <2>1
  <1>4. PICK x \in Nat, y \in Nat, z \in Nat :
          /\ x = SumOver(positions, S) /\ y = SumOver(positions, X)
          /\ z = SumOver(positions, Z)
    BY <1>3, SumIsAmount
  <1>5. SumOver(positions, S \cup X) = x + y
    BY <1>3, <1>4, SumOfDisjoint
  <1>6. SumOver(positions, S \cup X) <= z
    <2>1. S \cup X \subseteq Z /\ \A u \in S \cup X : positions[u] <= positions[u]
      BY <1>3 DEF Amounts
    <2> QED BY <1>3, <1>4, <2>1, SumGrows
  <1>7. W * b <= T * x /\ W * c <= T * y
    BY <1>1, <1>4 DEF IsShare
  <1>8. W * (b + c) = W * b + W * c /\ T * (x + y) = T * x + T * y
    OBVIOUS
  <1>9. T * (x + y) <= T * z
    BY <1>5, <1>6, TimesGrows, TimesAssociates
  <1>10. W * (b + c) <= T * z
    BY <1>7, <1>8, <1>9
  <1> QED BY <1>1, <1>4, <1>10 DEF IsShare

(* Amounts no larger than the share of each position are together no       *)
(* larger than the share of all.                                           *)
LEMMA SharesOfAll ==
  ASSUME NEW s \in Summaries, s.totalPool \in Nat, NEW positions, NEW amounts,
         NEW S, Amounts(positions, S), Amounts(amounts, S),
         \A u \in S : (100 * s.winningTotal) * amounts[u]
                        <= (Rate * s.totalPool) * positions[u]
  PROVE  IsShare(s, SumOver(amounts, S), positions, S)
  <1>1. (100 * s.winningTotal) \in Nat /\ (Rate * s.totalPool) \in Nat
    BY RateIs DEF Summaries
  <1> QED BY <1>1, SumOfShares DEF IsShare


(* What a step leaves of a settled market: the positions, the outcomes     *)
(* that won and the pool.                                                  *)
Keeps(m, bs) ==
  /\ market'.votes = m.votes /\ market'.stakes = m.stakes
  /\ market'.winners = m.winners /\ market'.total = m.total
  /\ registry' = registry
  /\ \A u \in Users : NotActivated(bs[u], bets'[u])

(* No user holds a vote beside a different bet record.                     *)
OnePositions(m, bs) ==
  \A u \in Users : m.votes[u] # None /\ bs[u].status # "NoBet"
                     => m.votes[u] = bs[u].outcome /\ m.stakes[u] = bs[u].amount

LEMMA KeptPositions ==
  ASSUME NEW m \in Markets, NEW bs \in [Users -> Bets], registry \in Seq(Users),
         Keeps(m, bs)
  PROVE  /\ Position(market, bets)' = Position(m, bs)
         /\ Winning(market, bets)' = Winning(m, bs)
         /\ Refresh(market, bets)' = Refresh(m, bs)
         /\ OnePositions(market, bets)' => OnePositions(m, bs)
  <1>1. /\ VoterKeys(market)' = VoterKeys(m) /\ Bettors' = Bettors
        /\ Bettors \in SUBSET Users
    BY RegisteredAreUsers DEF Keeps, VoterKeys, Bettors
  <1>2. \A u \in Users : bets'[u].amount = bs[u].amount
                         /\ bets'[u].outcome = bs[u].outcome
    BY DEF Keeps, NotActivated
  <1>3. Position(market, bets)' = Position(m, bs)
    BY <1>1, <1>2 DEF Position, Keeps
  <1>4. Winning(market, bets)' = Winning(m, bs)
    BY <1>1, <1>2 DEF Winning, Keeps
  <1>5. Refresh(market, bets)' = Refresh(m, bs)
    <2>1. [u \in Users |-> bets'[u].amount] = [u \in Users |-> bs[u].amount]
      BY <1>2
    <2>2. {u \in VoterKeys(market)' : market'.votes[u] \in market'.winners}
            = {u \in VoterKeys(m) : m.votes[u] \in m.winners}
      BY <1>1 DEF Keeps
    <2>3. {u \in Bettors' \ VoterKeys(market)' : bets'[u].outcome \in market'.winners}
            = {u \in Bettors \ VoterKeys(m) : bs[u].outcome \in m.winners}
      BY <1>1, <1>2 DEF Keeps
    <2>4. market'.stakes = m.stakes /\ market'.total = m.total
      BY DEF Keeps
    <2> QED BY <2>1, <2>2, <2>3, <2>4 DEF Refresh
  <1>6. OnePositions(market, bets)' => OnePositions(m, bs)
    BY <1>2 DEF OnePositions, Keeps, NotActivated
  <1> QED BY <1>3, <1>4, <1>5, <1>6

(* Some users are recorded as settled, and the winners among them gain at  *)
(* most their share.                                                       *)
Gains(m, bs, s) ==
  \E S \in SUBSET (Users \ m.claimed) : \E C \in SUBSET S : \E c \in Nat :
      /\ market'.claimed = m.claimed \cup S
      /\ SumOver(balance', Accounts) = SumOver(balance, Accounts) + c
      /\ s.winningTotal = 0 => c = 0
      /\ OnePositions(m, bs)
           => C \subseteq Winning(m, bs) /\ IsShare(s, c, Position(m, bs), C)

(* What a market with winners has credited so far.                         *)
PaidUpTo(m, bs, s, b) ==
  /\ s.winningTotal = 0 => b = 0
  /\ OnePositions(m, bs)
       => IsShare(s, b, Position(m, bs), Winning(m, bs) \cap m.claimed)

LEMMA NoShareIsShare ==
  ASSUME NEW s \in Summaries, s.totalPool \in Nat, NEW positions, NEW S,
         Amounts(positions, S)
  PROVE  IsShare(s, 0, positions, S)
  <1>1. SumOver(positions, S) \in Nat
    BY SumIsAmount
  <1>2. (100 * s.winningTotal) \in Nat /\ (Rate * s.totalPool) \in Nat
    BY RateIs DEF Summaries
  <1>3. \A a, b, c \in Nat : a * 0 <= b * c
    OBVIOUS
  <1> QED BY <1>1, <1>2, <1>3 DEF IsShare

LEMMA AccountsFinite == IsFiniteSet(Accounts)
  <1>1. IsFiniteSet({Treasury})
    BY FS_Singleton
  <1> QED BY <1>1, UsersAssumption, FS_Union DEF Accounts

LEMMA BalanceIsAmount ==
  ASSUME TypeOK
  PROVE  Amounts(balance, Accounts) /\ SumOver(balance, Accounts) \in Nat
  <1>1. Amounts(balance, Accounts)
    BY AccountsFinite DEF TypeOK, Amounts
  <1> QED BY <1>1, SumIsAmount

LEMMA GainsArePaid ==
  ASSUME TypeOK, NEW m \in Markets, NEW bs \in [Users -> Bets],
         NEW s \in Summaries, s.totalPool \in Nat,
         PaidUpTo(m, bs, s, SumOver(balance, Accounts)),
         Gains(m, bs, s), Keeps(m, bs)
  PROVE  PaidUpTo(market, bets, s, SumOver(balance, Accounts))'
  <1>1. PICK S \in SUBSET (Users \ m.claimed), C \in SUBSET Users, c \in Nat :
          /\ C \subseteq S
          /\ market'.claimed = m.claimed \cup S
          /\ SumOver(balance', Accounts) = SumOver(balance, Accounts) + c
          /\ s.winningTotal = 0 => c = 0
          /\ OnePositions(m, bs)
               => C \subseteq Winning(m, bs) /\ IsShare(s, c, Position(m, bs), C)
    BY DEF Gains
  <1>2. PICK b \in Nat : b = SumOver(balance, Accounts)
    BY BalanceIsAmount
  <1>3. /\ Position(market, bets)' = Position(m, bs)
        /\ Winning(market, bets)' = Winning(m, bs)
        /\ OnePositions(market, bets)' => OnePositions(m, bs)
    BY KeptPositions DEF TypeOK
  <1>4. ASSUME OnePositions(m, bs)
        PROVE  IsShare(s, b + c, Position(m, bs), Winning(m, bs) \cap market'.claimed)
    <2> DEFINE Z == Winning(m, bs) \cap market'.claimed
    <2>1. Amounts(Position(m, bs), Z)
      <3>1. Z \in SUBSET Users
        BY WinningIs DEF TypeOK
      <3> QED BY <3>1, WinningIs DEF TypeOK
    <2>2. IsShare(s, b, Position(m, bs), Winning(m, bs) \cap m.claimed)
      BY <1>2, <1>4 DEF PaidUpTo
    <2>3. IsShare(s, c, Position(m, bs), C)
      BY <1>1, <1>4
    <2>4. Winning(m, bs) \cap m.claimed \in SUBSET Z /\ C \in SUBSET Z
          /\ (Winning(m, bs) \cap m.claimed) \cap C = {}
      BY <1>1
    <2> HIDE DEF Z
    <2> QED BY <2>1, <2>2, <2>3, <2>4, SharesAdd DEF Z
  <1>5. s.winningTotal = 0 => b + c = 0
    BY <1>1, <1>2 DEF PaidUpTo
  <1>6. SumOver(balance, Accounts)' = b + c
    BY <1>1, <1>2
  <1> QED BY <1>3, <1>4, <1>5, <1>6 DEF PaidUpTo


(* Nobody is paid for a bet that a vote of the same user does not repeat.  *)
LEMMA PaidBettorsDidNotVote ==
  ASSUME TypeOK, NEW m \in Markets, NEW bs \in [Users -> Bets],
         NEW s \in Summaries, s.winningTotal # 0, OnePositions(m, bs),
         \A u \in Bettors : bs[u].status # "NoBet",
         NEW u \in PaidBettors(m, bs, s, Whole(m))
  PROVE  u \in Bettors \ VoterKeys(m)
  <1>1. u \in Bettors /\ u \in Users
    BY RegisteredAreUsers DEF PaidBettors, FirstBettors, Whole, Bettors, TypeOK
  <1>2. /\ bs[u].outcome \in m.winners /\ u \notin m.claimed
        /\ u \notin PaidVoters(m, s, Whole(m))
        /\ bs[u].amount > 0 /\ DistributionPayout(bs[u].amount, s) > 0
    BY DEF PaidBettors
  <1>3. ASSUME u \in VoterKeys(m) PROVE FALSE
    <2>1. m.votes[u] = bs[u].outcome /\ m.stakes[u] = bs[u].amount
      BY <1>1, <1>3 DEF OnePositions, VoterKeys
    <2>2. u \in FirstVoters(m, Cardinality(VoterKeys(m)))
      <3>1. IsFiniteSet(VoterKeys(m))
        BY UsersAssumption, FS_Subset DEF VoterKeys
      <3>2. {v \in VoterKeys(m) : v <= u} \subseteq VoterKeys(m)
        OBVIOUS
      <3> HIDE DEF VoterKeys
      <3>3. Cardinality({v \in VoterKeys(m) : v <= u}) <= Cardinality(VoterKeys(m))
        BY <3>1, <3>2, FS_Subset
      <3> QED BY <1>3, <3>3 DEF FirstVoters
    <2>3. DistributionPayout(m.stakes[u], s) >= 0 /\ m.stakes[u] > 0
      <3>1. DistributionPayout(m.stakes[u], s) \in Int
        BY <1>1, DistributionPayoutIsInt DEF TypeOK, Markets
      <3> QED BY <1>2, <2>1, <3>1
    <2> QED BY <1>2, <2>1, <2>2, <2>3 DEF PaidVoters, Whole
  <1> QED BY <1>1, <1>3

(* A distribution that reaches its end pays each winner it handles a share *)
(* and records the claim.                                                  *)
LEMMA DistributionGains ==
  ASSUME TypeOK, FeeIsSet, NEW m \in Markets, NEW bs \in [Users -> Bets],
         NEW s \in Summaries, s.winningTotal # 0, s.totalPool \in Nat,
         \A u \in Bettors : bs[u].status # "NoBet",
         Distribute(m, bs, s, Whole(m)),
         market' = WithClaims(m, Claimants(m, bs, s))
  PROVE  Gains(m, bs, s)
  <1> DEFINE voters  == PaidVoters(m, s, Whole(m))
             bettors == PaidBettors(m, bs, s, Whole(m))
             credit  == [u \in Users |->
                    CASE u \in voters  -> DistributionPayout(m.stakes[u], s)
                      [] u \in bettors -> DistributionPayout(bs[u].amount, s)
                      [] OTHER -> 0]
             gain == [a \in Accounts |-> IF a \in Users THEN credit[a] ELSE 0]
             pos == Position(m, bs)
             paid == Claimants(m, bs, s)
  <1>1. balance' = [a \in Accounts |-> IF a \in Users THEN balance[a] + credit[a]
                                                     ELSE balance[a]]
    BY DEF Distribute
  <1>2. paid = voters \cup bettors /\ paid \in SUBSET (Users \ m.claimed)
    BY ClaimantsAreUnclaimed DEF Claimants, TypeOK
  <1>3. voters \cap bettors = {} /\ voters \subseteq VoterKeys(m)
    BY DEF PaidBettors, PaidVoters, FirstVoters
  <1>4. ASSUME NEW u \in Users
        PROVE  /\ credit[u] \in Nat
               /\ u \notin paid => credit[u] = 0
               /\ u \in voters => credit[u] = DistributionPayout(m.stakes[u], s)
               /\ u \in bettors => credit[u] = DistributionPayout(bs[u].amount, s)
    <2>1. /\ u \in voters => credit[u] = DistributionPayout(m.stakes[u], s)
          /\ u \in bettors => credit[u] = DistributionPayout(bs[u].amount, s)
          /\ u \notin paid => credit[u] = 0
      BY <1>2, <1>3
    <2>2. /\ DistributionPayout(m.stakes[u], s) \in Int
          /\ DistributionPayout(bs[u].amount, s) \in Int
      BY DistributionPayoutIsInt DEF TypeOK, Markets, Bets
    <2>3. /\ u \in voters => DistributionPayout(m.stakes[u], s) >= 0
          /\ u \in bettors => DistributionPayout(bs[u].amount, s) > 0
      BY DEF PaidVoters, PaidBettors
    <2> HIDE DEF credit, voters, bettors, paid
    <2> QED BY <1>2, <2>1, <2>2, <2>3
  <1> HIDE DEF credit, voters, bettors, paid
  <1>5. Amounts(gain, Accounts) /\ Amounts(balance, Accounts)
    BY <1>4, AccountsFinite, BalanceIsAmount DEF Amounts
  <1>6. SumOver(balance', Accounts) = SumOver(balance, Accounts) + SumOver(gain, Accounts)
    <2>1. \A a \in Accounts : balance'[a] = balance[a] + gain[a]
      BY <1>1, <1>5 DEF Amounts
    <2> HIDE DEF gain
    <2> QED BY <1>5, <2>1, SumOfSums
  <1>7. SumOver(gain, Accounts) = SumOver(gain, paid) /\ Amounts(gain, paid)
    <2>1. paid \in SUBSET Accounts /\ \A a \in Accounts \ paid : gain[a] = 0
      BY <1>2, <1>4 DEF Accounts
    <2> HIDE DEF gain
    <2> QED BY <1>5, <2>1, SumOfNonzero, FS_Subset DEF Amounts
  <1>8. SumOver(gain, paid) \in Nat
    BY <1>7, SumIsAmount
  <1>9. ASSUME OnePositions(m, bs)
        PROVE  paid \subseteq Winning(m, bs)
               /\ IsShare(s, SumOver(gain, paid), pos, paid)
    <2>1. ASSUME NEW u \in voters
          PROVE  u \in Winning(m, bs) /\ gain[u] = DistributionPayout(pos[u], s)
      <3>1. u \in Users /\ u \in VoterKeys(m) /\ u \in Accounts
        BY <1>2, <1>3 DEF Accounts
      <3>2. m.votes[u] \in m.winners
        BY DEF voters, PaidVoters
      <3> QED BY <1>4, <3>1, <3>2 DEF Winning, Position
    <2>2. ASSUME NEW u \in bettors
          PROVE  u \in Winning(m, bs) /\ gain[u] = DistributionPayout(pos[u], s)
      <3>1. u \in Users /\ u \in Accounts /\ u \in Bettors \ VoterKeys(m)
        BY <1>2, <1>9, PaidBettorsDidNotVote DEF Accounts, bettors
      <3>2. bs[u].outcome \in m.winners
        BY DEF bettors, PaidBettors
      <3> QED BY <1>4, <3>1, <3>2 DEF Winning, Position
    <2>3. ASSUME NEW u \in paid
          PROVE  (100 * s.winningTotal) * gain[u] <= (Rate * s.totalPool) * pos[u]
      <3>1. pos[u] \in Nat
        BY <1>2 DEF Position, Markets, Bets
      <3>2. gain[u] = DistributionPayout(pos[u], s)
        BY <1>2, <2>1, <2>2
      <3> HIDE DEF gain, pos
      <3> QED BY <3>1, <3>2, DistributionIsShare
    <2>4. Amounts(pos, paid)
      BY <1>2, WinningIs, SMTT(60) DEF TypeOK
    <2> HIDE DEF gain, pos
    <2> QED BY <1>2, <1>7, <2>1, <2>2, <2>3, <2>4, SharesOfAll
  <1>10. market'.claimed = m.claimed \cup paid
    BY WithClaimsIsMarket, <1>2 DEF paid
  <1> HIDE DEF gain, pos
  <1> QED BY <1>2, <1>6, <1>7, <1>8, <1>9, <1>10 DEF Gains, pos

(* What a sweep would pay.                                                 *)
LEMMA SweptIsShare ==
  ASSUME TypeOK, summary \in Summaries, summary.winningTotal # 0,
         summary.totalPool \in Nat
  PROVE  LET swept == SumOver([u \in Users |-> SweptAmount(u)], Unclaimed) IN
         /\ Unclaimed \subseteq Winning(market, bets) \ market.claimed
         /\ swept \in Nat
         /\ IsShare(summary, swept, Position(market, bets), Unclaimed)
  <1> DEFINE pos == Position(market, bets)
             amount == [u \in Users |-> SweptAmount(u)]
             whole == [u \in Users |-> IF amount[u] > 0 THEN amount[u] ELSE 0]
  <1>1. Unclaimed \subseteq Winning(market, bets) /\ Unclaimed \in SUBSET (Users \ market.claimed)
    <2>1. None \notin market.winners
      BY NamesAssumption DEF TypeOK, Markets
    <2> QED BY <2>1, UnclaimedAreUsers
            DEF Unclaimed, Winning, IsWinner, VoterKeys, TypeOK
  <1>2. ASSUME NEW u \in Users
        PROVE  /\ pos[u] \in Nat /\ amount[u] = ClaimPayout(pos[u], summary)
               /\ amount[u] \in Int
    <2>1. pos[u] \in Nat
      BY DEF Position, TypeOK, Markets, Bets
    <2>2. amount[u] = ClaimPayout(pos[u], summary)
      BY DEF SweptAmount, Position
    <2> QED BY <2>1, <2>2, ClaimPayoutIsInt
  <1>3. Amounts(pos, Unclaimed)
    BY <1>1, <1>2, UsersAssumption, FS_Subset DEF Amounts
  <1> HIDE DEF pos, amount
  <1>4. SumOver(amount, Unclaimed) = SumOver(whole, Unclaimed)
    <2>1. \A u \in Unclaimed : amount[u] \in Int
      BY <1>1, <1>2
    <2>2. \A u \in Unclaimed : whole[u] = IF amount[u] > 0 THEN amount[u] ELSE 0
      BY <1>1
    <2> HIDE DEF whole
    <2> QED BY <2>1, <2>2, SumOfPositive
  <1>5. ASSUME NEW u \in Unclaimed
        PROVE  /\ whole[u] \in Nat
               /\ (100 * summary.winningTotal) * whole[u]
                    <= (Rate * summary.totalPool) * pos[u]
    <2>1. /\ (100 * summary.winningTotal) * amount[u]
               <= (Rate * summary.totalPool) * pos[u]
          /\ pos[u] \in Nat /\ amount[u] \in Int
      BY <1>1, <1>2, ClaimIsShare
    <2>2. (100 * summary.winningTotal) \in Nat /\ (Rate * summary.totalPool) \in Nat
      BY RateIs DEF Summaries
    <2>3. \A a, b, c \in Nat : a * 0 <= b * c
      OBVIOUS
    <2>4. (whole[u] = amount[u] /\ amount[u] > 0) \/ whole[u] = 0
      BY <1>1
    <2> HIDE DEF whole
    <2> QED BY <2>1, <2>2, <2>3, <2>4
  <1>6. Amounts(whole, Unclaimed)
    BY <1>3, <1>5 DEF Amounts
  <1> HIDE DEF whole
  <1>7. IsShare(summary, SumOver(whole, Unclaimed), pos, Unclaimed)
    BY <1>3, <1>5, <1>6, SharesOfAll
  <1>8. SumOver(whole, Unclaimed) \in Nat
    BY <1>6, SumIsAmount
  <1> QED BY <1>1, <1>4, <1>7, <1>8 DEF pos, amount


(* Whoever is registered has a bet record.                                 *)
RecordsKept == \A u \in Bettors : bets[u].status # "NoBet"

(* Nothing is paid or collected before there are winners.                  *)
NothingPaidEarly ==
  market.winners = {} => SumOver(balance, Accounts) = 0 /\ vault = 0

(* The fee is collected at most once, and is no more than the rate allows. *)
FeeBounded ==
  /\ ~market.feeCollected => vault = 0
  /\ 100 * vault <= market.total * ScheduleFee

(* Once there are winners the positions stand still, the summary is the    *)
(* one they were resolved with, and what was paid is their share of it.    *)
PaidFairly ==
  market.winners # {} =>
    /\ market.state # "Active"
    /\ resolutions >= 1
    /\ summary = Refresh(market, bets)
    /\ PaidUpTo(market, bets, summary, SumOver(balance, Accounts))

(* The inductive form of solvency, of a market that is resolved at most    *)
(* once and of which no stale copy is ever written back.                   *)
Backed ==
  /\ cache = NoMarket
  /\ FeeIsSet
  /\ RecordsKept
  /\ NothingPaidEarly
  /\ FeeBounded
  /\ PaidFairly

LEMMA FeeSetStep ==
  ASSUME FeeIsSet, [Next]_vars
  PROVE  FeeIsSet'
  <1>1. ASSUME NEW fee \in PlatformFees, SetPlatformFee(fee) PROVE FeeIsSet'
    BY <1>1 DEF SetPlatformFee, FeeIsSet
  <1>2. ASSUME platformFee' = platformFee PROVE FeeIsSet'
    BY <1>2 DEF FeeIsSet
  <1>3. ASSUME NEW u \in Users, Staking(u) PROVE platformFee' = platformFee
    BY <1>3 DEF Staking, Vote, PlaceBet, PlaceBets, CancelBet
  <1>4. ASSUME Resolving PROVE platformFee' = platformFee
    BY <1>4 DEF Resolving, ResolveMarketManual, ResolveMarketWithTies,
                ForceResolveMarket, Resolve, FetchOracleResult,
                AdminOverrideVerification
  <1>5. ASSUME Settling PROVE platformFee' = platformFee
    BY <1>5 DEF Settling, DistributePayouts, ClaimWinnings, ClaimNothing,
                SweepUnclaimedWinnings
  <1>6. ASSUME Refunding PROVE platformFee' = platformFee
    BY <1>6 DEF Refunding, CancelEvent, RefundOnOracleFailure, CancelAndRefund
  <1>7. ASSUME CollectFees \/ ReadThroughCache \/ Tick \/ UNCHANGED vars
        PROVE  platformFee' = platformFee
    BY <1>7 DEF CollectFees, ReadThroughCache, Tick, vars
  <1> QED BY <1>1, <1>2, <1>3, <1>4, <1>5, <1>6, <1>7 DEF Next

(* A stake is recorded for the user who is registered with it, and a       *)
(* record is never lost.                                                   *)
LEMMA RecordsStep ==
  ASSUME TypeOK, RecordsKept, [Next]_vars
  PROVE  RecordsKept'
  <1>0. registry \in Seq(Users) /\ bets \in [Users -> Bets]
        /\ Bettors \in SUBSET Users
    BY RegisteredAreUsers DEF TypeOK
  <1>1. ASSUME registry' = registry, \A u \in Bettors : bets'[u].status # "NoBet"
        PROVE  RecordsKept'
    BY <1>1 DEF RecordsKept, Bettors
  <1>2. ASSUME LeavesPool PROVE RecordsKept'
    BY <1>0, <1>1, <1>2 DEF LeavesPool, NotActivated, RecordsKept
  <1>3. ASSUME NEW u \in Users, NEW o \in Outcomes, NEW a \in VoteStakes,
               Vote(u, o, a)
        PROVE  RecordsKept'
    BY <1>1, <1>3 DEF Vote, betVars, RecordsKept
  <1>4. ASSUME NEW u \in Users, NEW o, NEW a,
               bets' = [bets EXCEPT ![u] = ActiveBet(o, a)],
               registry' = Registered(u)
        PROVE  RecordsKept'
    <2>1. Bettors' \subseteq Bettors \cup {u}
      <3>1. \A i \in 1..Len(registry') : registry'[i] \in Bettors \cup {u}
        BY <1>0, <1>4, AppendProperties DEF Registered, Bettors
      <3> QED BY <3>1 DEF Bettors
    <2>2. bets'[u].status = "Active" /\ \A v \in Users \ {u} : bets'[v] = bets[v]
      BY <1>0, <1>4 DEF ActiveBet
    <2> QED BY <1>0, <2>1, <2>2 DEF RecordsKept
  <1>5. ASSUME NEW u \in Users, CancelBet(u) PROVE RecordsKept'
    <2>1. bets' = [bets EXCEPT ![u].status = "Cancelled"] /\ registry' = registry
      BY <1>5 DEF CancelBet
    <2>2. \A v \in Users : bets[v].status # "NoBet" => bets'[v].status # "NoBet"
      BY <1>0, <2>1 DEF Bets
    <2> QED BY <1>0, <1>1, <2>1, <2>2 DEF RecordsKept
  <1>6. ASSUME CancelAndRefund PROVE RecordsKept'
    <2>1. registry' = registry
      BY <1>6 DEF CancelAndRefund
    <2>2. \A v \in Users : bets[v].status # "NoBet" => bets'[v].status # "NoBet"
      BY <1>0, <1>6 DEF CancelAndRefund, Bets
    <2> QED BY <1>0, <1>1, <2>1, <2>2 DEF RecordsKept
  <1> QED BY <1>2, <1>3, <1>4, <1>5, <1>6, StakeSteps
          DEF MovesStake, PlaceBet, PlaceBets

LEMMA WithoutBetsWinners ==
  ASSUME NEW m \in Markets, NEW S
  PROVE  WithoutBets(m, S).winners = m.winners
  BY DEF WithoutBets, Markets

(* Before there are winners only a resolution makes them, and nothing else *)
(* pays.                                                                   *)
LEMMA UnsettledStep ==
  ASSUME TypeOK, cache = NoMarket, MaxReads = 0, market.winners = {}, [Next]_vars
  PROVE  \/ balance' = balance /\ vault' = vault /\ market'.winners = {}
         \/ \E ws \in (SUBSET Outcomes) \ {{}} : Resolve(ws)
  <1> DEFINE G == \/ balance' = balance /\ vault' = vault /\ market'.winners = {}
                  \/ \E ws \in (SUBSET Outcomes) \ {{}} : Resolve(ws)
  <1>0. GetMarket = market /\ market \in Markets
    BY DEF GetMarket, TypeOK
  <1>1. ASSUME NEW u \in Users, Staking(u) PROVE G
    <2>1. ASSUME NEW o, NEW a
          PROVE  WithStake(market, u, o, a).winners = market.winners
      BY <1>0 DEF WithStake, Markets
    <2>2. WithoutBets(market, {u}).winners = market.winners
      BY <1>0, WithoutBetsWinners
    <2>3. ASSUME NEW o, NEW a, Vote(u, o, a) PROVE G
      BY <2>1, <2>3 DEF Vote, SetMarket
    <2>4. ASSUME NEW o, NEW a, UpdateMarket(WithStake(GetMarket, u, o, a)),
                 UNCHANGED <<balance, vault>>
          PROVE  G
      BY <1>0, <2>1, <2>4 DEF UpdateMarket
    <2>5. ASSUME CancelBet(u) PROVE G
      BY <1>0, <2>2, <2>5 DEF CancelBet, UpdateMarket
    <2> HIDE DEF G
    <2> QED BY <1>1, <2>3, <2>4, <2>5 DEF Staking, PlaceBet, PlaceBets
  <1>2. ASSUME Resolving PROVE G
    <2>1. ASSUME NEW o \in Outcomes, ResolveMarketManual(o) PROVE G
      <3>1. {o} \in (SUBSET Outcomes) \ {{}}
        OBVIOUS
      <3> QED BY <2>1, <3>1 DEF ResolveMarketManual
    <2>2. ASSUME FetchOracleResult \/ AdminOverrideVerification PROVE G
      <3>1. /\ WithOracleResult(market).winners = market.winners
            /\ Overridden(market).winners = market.winners
        BY <1>0 DEF WithOracleResult, Overridden, Markets
      <3> QED BY <1>0, <2>2, <3>1
              DEF FetchOracleResult, AdminOverrideVerification, SetMarket,
                  UpdateMarket, moneyVars
    <2> QED BY <1>2, <2>1, <2>2
            DEF Resolving, ResolveMarketWithTies, ForceResolveMarket
  <1>3. ASSUME Settling PROVE FALSE
    BY <1>3 DEF Settling, DistributePayouts, Distributable, ClaimWinnings,
                ClaimNothing, ClaimsOpen, SweepUnclaimedWinnings
  <1>4. ASSUME Refunding PROVE G
    <2>1. CancelAndRefund
      BY <1>4 DEF Refunding, CancelEvent, RefundOnOracleFailure
    <2>2. WithoutBets(Cancelled(market), ActiveBettors).winners = market.winners
      <3>1. Cancelled(market) \in Markets /\ Cancelled(market).winners = market.winners
        BY <1>0, CancelledIsMarket DEF Cancelled, Markets
      <3> QED BY <3>1, WithoutBetsWinners
    <2> QED BY <2>1, <2>2 DEF CancelAndRefund, UpdateMarket
  <1>5. ~CollectFees
    BY <1>0 DEF CollectFees
  <1>6. ~ReadThroughCache
    BY DEF ReadThroughCache, TypeOK
  <1>7. ASSUME \/ Tick
               \/ \E fee \in PlatformFees : SetPlatformFee(fee)
               \/ UNCHANGED vars
        PROVE  G
    BY <1>7 DEF Tick, SetPlatformFee, vars, marketVars, moneyVars
  <1> QED BY <1>1, <1>2, <1>3, <1>4, <1>5, <1>6, <1>7 DEF Next


(* Once there are winners no stake moves and nothing is resolved again:    *)
(* a step settles claims, or collects the fee.                             *)
Continues ==
  /\ Keeps(market, bets)
  /\ market'.state # "Active"
  /\ summary' = summary /\ resolutions' = resolutions

CollectsOnce ==
  /\ ~market.feeCollected /\ market'.feeCollected
  /\ vault' = vault + PlatformFee(market)
  /\ market'.claimed = market.claimed /\ balance' = balance

Pays ==
  /\ market'.feeCollected = market.feeCollected /\ vault' = vault
  /\ Gains(market, bets, summary)

LEMMA NoGain ==
  ASSUME TypeOK, summary \in Summaries, summary.totalPool \in Nat,
         market.claimed \subseteq market'.claimed, market'.claimed \subseteq Users,
         balance' = balance
  PROVE  Gains(market, bets, summary)
  <1> DEFINE S == market'.claimed \ market.claimed
  <1>1. S \in SUBSET (Users \ market.claimed) /\ market'.claimed = market.claimed \cup S
    OBVIOUS
  <1>2. SumOver(balance', Accounts) = SumOver(balance, Accounts) + 0
    BY BalanceIsAmount
  <1>3. IsShare(summary, 0, Position(market, bets), {})
    <2>1. Amounts(Position(market, bets), {})
      BY FS_EmptySet DEF Amounts
    <2> QED BY <2>1, NoShareIsShare
  <1>4. {} \in SUBSET S /\ {} \subseteq Winning(market, bets) /\ 0 \in Nat
    OBVIOUS
  <1> QED BY <1>1, <1>2, <1>3, <1>4 DEF Gains

LEMMA CreditChanges ==
  ASSUME NEW f \in [Accounts -> Nat], NEW g \in [Accounts -> Nat],
         NEW a \in Accounts, \A b \in Accounts \ {a} : g[b] = f[b]
  PROVE  SumOver(g, Accounts) = SumOver(f, Accounts) - f[a] + g[a]
  <1>1. Amounts(f, Accounts) /\ Amounts(g, Accounts)
    BY AccountsFinite DEF Amounts
  <1> QED BY <1>1, SumChanges

LEMMA CreditAdds ==
  ASSUME NEW f \in [Accounts -> Nat], NEW a \in Accounts, NEW p \in Nat
  PROVE  SumOver([f EXCEPT ![a] = @ + p], Accounts) = SumOver(f, Accounts) + p
  <1> DEFINE g == [f EXCEPT ![a] = @ + p]
  <1>1. /\ g \in [Accounts -> Nat] /\ g[a] = f[a] + p /\ f[a] \in Nat
        /\ \A b \in Accounts \ {a} : g[b] = f[b]
    OBVIOUS
  <1>2. SumOver(f, Accounts) \in Nat
    <2>1. Amounts(f, Accounts)
      BY AccountsFinite DEF Amounts
    <2> QED BY <2>1, SumIsAmount
  <1> HIDE DEF g
  <1>3. SumOver(g, Accounts) = SumOver(f, Accounts) - f[a] + g[a]
    BY <1>1, CreditChanges
  <1>4. SumOver(g, Accounts) = SumOver(f, Accounts) + p
    BY <1>1, <1>2, <1>3
  <1> QED BY <1>4 DEF g

LEMMA ClaimPays ==
  ASSUME TypeOK, summary \in Summaries, summary.totalPool \in Nat,
         NEW u \in Users, ClaimWinnings(u)
  PROVE  Gains(market, bets, summary)
  <1> DEFINE p == ClaimPayout(market.stakes[u], summary)
             pos == Position(market, bets)
  <1>1. /\ summary.winningTotal # 0 /\ market.stakes[u] \in Nat
        /\ market \in Markets /\ u \in Accounts
    BY DEF ClaimWinnings, TypeOK, Markets, Accounts
  <1>2. p \in Nat /\ p > 0
    BY <1>1, ClaimPayoutIsInt DEF ClaimWinnings
  <1>3. balance' = [balance EXCEPT ![u] = @ + p]
        /\ market' = WithClaims(market, {u}) /\ u \notin market.claimed
    BY DEF ClaimWinnings, SetMarket
  <1>4. u \in VoterKeys(market) /\ market.votes[u] \in market.winners
    BY <1>1, NamesAssumption DEF ClaimWinnings, IsWinner, VoterKeys, Markets
  <1>5. u \in Winning(market, bets) /\ pos[u] = market.stakes[u]
    BY <1>4 DEF Winning, Position
  <1> HIDE DEF p, pos
  <1>6. SumOver(balance', Accounts) = SumOver(balance, Accounts) + p
    BY <1>1, <1>2, <1>3, CreditAdds, ZenonT(60) DEF TypeOK
  <1>7. IsShare(summary, p, pos, {u})
    <2>1. SumOver(pos, {u}) = pos[u]
      BY <1>1, <1>5, SumOfOne
    <2>2. (100 * summary.winningTotal) * p <= (Rate * summary.totalPool) * pos[u]
      BY <1>1, <1>5, ClaimIsShare DEF p
    <2> QED BY <2>1, <2>2 DEF IsShare
  <1>8. market'.claimed = market.claimed \cup {u}
    BY <1>1, <1>3, WithClaimsIsMarket
  <1>9. {u} \in SUBSET (Users \ market.claimed) /\ {u} \in SUBSET {u}
        /\ {u} \subseteq Winning(market, bets)
    BY <1>3, <1>5
  <1> QED BY <1>1, <1>2, <1>6, <1>7, <1>8, <1>9 DEF Gains, pos

LEMMA SweepPays ==
  ASSUME TypeOK, summary \in Summaries, summary.totalPool \in Nat,
         NEW burn \in BOOLEAN, SweepUnclaimedWinnings(burn)
  PROVE  Gains(market, bets, summary)
  <1> DEFINE swept == SumOver([u \in Users |-> SweptAmount(u)], Unclaimed)
  <1>1. summary.winningTotal # 0 /\ market \in Markets
    BY DEF SweepUnclaimedWinnings, TypeOK
  <1>2. /\ Unclaimed \subseteq Winning(market, bets) \ market.claimed
        /\ Unclaimed \in SUBSET (Users \ market.claimed)
        /\ swept \in Nat
        /\ IsShare(summary, swept, Position(market, bets), Unclaimed)
    BY <1>1, SweptIsShare, UnclaimedAreUsers DEF TypeOK
  <1>3. /\ balance' = IF burn THEN balance
                      ELSE [balance EXCEPT ![Treasury] = @ + swept]
        /\ market' = Swept(WithClaims(market, Unclaimed))
    BY DEF SweepUnclaimedWinnings, SetMarket
  <1> HIDE DEF swept
  <1>4. market'.claimed = market.claimed \cup Unclaimed
    BY <1>1, <1>2, <1>3, WithClaimsIsMarket, SweptIsMarket
  <1>5. CASE burn
    <2>1. balance' = balance /\ market'.claimed \subseteq Users
      BY <1>1, <1>2, <1>3, <1>4, <1>5 DEF Markets
    <2> QED BY <1>4, <2>1, NoGain
  <1>6. CASE ~burn
    <2>1. balance' = [balance EXCEPT ![Treasury] = @ + swept] /\ Treasury \in Accounts
      BY <1>3, <1>6 DEF Accounts
    <2>2. SumOver(balance', Accounts) = SumOver(balance, Accounts) + swept
      BY <1>2, <2>1, CreditAdds, ZenonT(60) DEF TypeOK
    <2>3. Unclaimed \in SUBSET Unclaimed /\ Unclaimed \subseteq Winning(market, bets)
      BY <1>2
    <2> QED BY <1>1, <1>2, <1>4, <2>2, <2>3 DEF Gains
  <1> QED BY <1>5, <1>6


LEMMA SettledStep ==
  ASSUME TypeOK, CopiesTell, Backed, MaxReads = 0, BudgetAborts = FALSE,
         MaxResolutions <= 1, summary \in Summaries, summary.totalPool \in Nat,
         market.winners # {}, [Next]_vars
  PROVE  Continues /\ (Pays \/ CollectsOnce)
  <1> DEFINE G == Continues /\ (Pays \/ CollectsOnce)
  <1>0. /\ GetMarket = market /\ market \in Markets /\ cache = NoMarket
        /\ market.state # "Active" /\ bets \in [Users -> Bets]
        /\ registry \in Seq(Users)
    BY DEF GetMarket, TypeOK, Backed, PaidFairly
  <1>a. ASSUME NEW n \in Markets, market' = n,
               n.votes = market.votes, n.stakes = market.stakes,
               n.winners = market.winners, n.total = market.total,
               n.state # "Active", n.feeCollected = market.feeCollected,
               registry' = registry, summary' = summary, resolutions' = resolutions,
               \A u \in Users : NotActivated(bets[u], bets'[u]),
               vault' = vault, Gains(market, bets, summary)
        PROVE  G
    BY <1>a DEF Continues, Keeps, Pays
  <1>b. \A u \in Users : NotActivated(bets[u], bets[u])
    BY DEF NotActivated
  <1>c. ASSUME NEW n \in Markets, market' = n, n.claimed = market.claimed,
               n.votes = market.votes, n.stakes = market.stakes,
               n.winners = market.winners, n.total = market.total,
               n.state # "Active", n.feeCollected = market.feeCollected,
               registry' = registry, summary' = summary, resolutions' = resolutions,
               bets' = bets, vault' = vault, balance' = balance
        PROVE  G
    <2>1. Gains(market, bets, summary)
      <3>1. market'.claimed \subseteq Users /\ market.claimed \subseteq market'.claimed
        BY <1>c DEF Markets
      <3> QED BY <1>c, <3>1, NoGain
    <2> QED BY <1>a, <1>b, <1>c, <2>1
  <1>1. ASSUME NEW u \in Users, Staking(u) PROVE FALSE
    <2>1. ~OpenForBetting(GetMarket)
      BY <1>0 DEF OpenForBetting
    <2>2. bets[u].status # "Active"
      BY DEF CopiesTell, Tells
    <2> QED BY <1>0, <1>1, <2>1, <2>2 DEF Staking, Vote, PlaceBet, PlaceBets, CancelBet
  <1>2. ASSUME Resolving PROVE G
    <2>1. ASSUME NEW ws, Resolve(ws) PROVE FALSE
      BY <2>1, TimesAssumption DEF Resolve, Backed, PaidFairly, TypeOK
    <2>2. ASSUME FetchOracleResult PROVE G
      <3>1. market' = WithOracleResult(market) /\ WithOracleResult(market) \in Markets
        BY <1>0, <2>2, OracleResultIsMarket DEF FetchOracleResult, SetMarket
      <3>2. /\ WithOracleResult(market).votes = market.votes
            /\ WithOracleResult(market).stakes = market.stakes
            /\ WithOracleResult(market).winners = market.winners
            /\ WithOracleResult(market).total = market.total
            /\ WithOracleResult(market).claimed = market.claimed
            /\ WithOracleResult(market).state # "Active"
            /\ WithOracleResult(market).feeCollected = market.feeCollected
        BY <1>0 DEF WithOracleResult, Markets
      <3>3. /\ registry' = registry /\ summary' = summary /\ resolutions' = resolutions
            /\ bets' = bets /\ vault' = vault /\ balance' = balance
        BY <2>2 DEF FetchOracleResult, betVars, resultVars, moneyVars, history, counters
      <3> QED BY <1>c, <3>1, <3>2, <3>3
    <2>3. ASSUME AdminOverrideVerification PROVE G
      <3>1. market' = Overridden(market) /\ Overridden(market) \in Markets
        BY <1>0, <2>3, OverriddenIsMarket DEF AdminOverrideVerification, UpdateMarket
      <3>2. /\ Overridden(market).votes = market.votes
            /\ Overridden(market).stakes = market.stakes
            /\ Overridden(market).winners = market.winners
            /\ Overridden(market).total = market.total
            /\ Overridden(market).claimed = market.claimed
            /\ Overridden(market).state # "Active"
            /\ Overridden(market).feeCollected = market.feeCollected
        BY <1>0 DEF Overridden, Markets
      <3>3. /\ registry' = registry /\ summary' = summary /\ resolutions' = resolutions
            /\ bets' = bets /\ vault' = vault /\ balance' = balance
        BY <2>3 DEF AdminOverrideVerification, betVars, resultVars, moneyVars,
                    history, counters
      <3> QED BY <1>c, <3>1, <3>2, <3>3
    <2> QED BY <1>2, <2>1, <2>2, <2>3
            DEF Resolving, ResolveMarketManual, ResolveMarketWithTies,
                ForceResolveMarket
  <1>d. ASSUME NEW S \in SUBSET Users
        PROVE  /\ WithClaims(market, S) \in Markets
               /\ WithClaims(market, S).votes = market.votes
               /\ WithClaims(market, S).stakes = market.stakes
               /\ WithClaims(market, S).winners = market.winners
               /\ WithClaims(market, S).total = market.total
               /\ WithClaims(market, S).state # "Active"
               /\ WithClaims(market, S).feeCollected = market.feeCollected
    BY <1>0 DEF WithClaims, Markets
  <1>3. ASSUME Settling PROVE G
    <2>1. ASSUME DistributePayouts PROVE G
      <3>1. /\ summary.winningTotal # 0
            /\ Distribute(market, bets, summary, Whole(market))
            /\ market' = WithClaims(market, Claimants(market, bets, summary))
            /\ Claimants(market, bets, summary) \in SUBSET Users
            /\ registry' = registry /\ summary' = summary
            /\ resolutions' = resolutions /\ vault' = vault
        BY <1>0, <2>1, ClaimantsAreUnclaimed
           DEF DistributePayouts, Distributable, SetMarket, resultVars, counters
      <3>2. \A u \in Users : NotActivated(bets[u], bets'[u])
        BY <1>0, <3>1, DistributeCredits
      <3>3. Gains(market, bets, summary)
        BY <1>0, <3>1, DistributionGains DEF Backed, RecordsKept
      <3> QED BY <1>a, <1>d, <3>1, <3>2, <3>3
    <2>2. ASSUME NEW u \in Users, ClaimWinnings(u) PROVE G
      <3>1. /\ market' = WithClaims(market, {u}) /\ bets' = bets
            /\ registry' = registry /\ summary' = summary
            /\ resolutions' = resolutions /\ vault' = vault
        BY <2>2 DEF ClaimWinnings, SetMarket, betVars, resultVars, counters
      <3>2. Gains(market, bets, summary)
        BY <2>2, ClaimPays
      <3> QED BY <1>a, <1>b, <1>d, <3>1, <3>2
    <2>3. ASSUME NEW u \in Users, ClaimNothing(u) PROVE G
      <3>1. /\ market' = WithClaims(market, {u}) /\ bets' = bets
            /\ registry' = registry /\ summary' = summary
            /\ resolutions' = resolutions /\ vault' = vault /\ balance' = balance
        BY <2>3 DEF ClaimNothing, SetMarket, betVars, resultVars, moneyVars,
                    history, counters
      <3>2. Gains(market, bets, summary)
        <4>1. market'.claimed = market.claimed \cup {u}
          BY <1>0, <3>1, WithClaimsIsMarket
        <4>2. market.claimed \subseteq Users
          BY <1>0 DEF Markets
        <4> QED BY <3>1, <4>1, <4>2, NoGain
      <3> QED BY <1>a, <1>b, <1>d, <3>1, <3>2
    <2>4. ASSUME NEW burn \in BOOLEAN, SweepUnclaimedWinnings(burn) PROVE G
      <3>1. /\ market' = Swept(WithClaims(market, Unclaimed)) /\ bets' = bets
            /\ registry' = registry /\ summary' = summary
            /\ resolutions' = resolutions /\ vault' = vault
        BY <2>4 DEF SweepUnclaimedWinnings, SetMarket, betVars, resultVars,
                    history, counters
      <3>2. Gains(market, bets, summary)
        BY <2>4, SweepPays
      <3>3. PICK n \in Markets :
              /\ n = WithClaims(market, Unclaimed)
              /\ n.votes = market.votes /\ n.stakes = market.stakes
              /\ n.winners = market.winners /\ n.total = market.total
              /\ n.state # "Active" /\ n.feeCollected = market.feeCollected
        <4>1. Unclaimed \in SUBSET Users
          BY <1>0, UnclaimedAreUsers
        <4> QED BY <1>d, <4>1
      <3>4. /\ Swept(n) \in Markets
            /\ Swept(n).votes = market.votes /\ Swept(n).stakes = market.stakes
            /\ Swept(n).winners = market.winners /\ Swept(n).total = market.total
            /\ Swept(n).state # "Active"
            /\ Swept(n).feeCollected = market.feeCollected
        BY <3>3 DEF Swept, Markets
      <3> QED BY <1>a, <1>b, <3>1, <3>2, <3>3, <3>4
    <2> QED BY <1>3, <2>1, <2>2, <2>3, <2>4 DEF Settling
  <1>4. ~Refunding
    BY <1>0 DEF Refunding, CancelEvent, RefundOnOracleFailure
  <1>5. ASSUME CollectFees PROVE G
    <2>1. /\ market' = WithFeesCollected(market) /\ ~market.feeCollected
          /\ vault' = vault + PlatformFee(market)
          /\ bets' = bets /\ registry' = registry /\ summary' = summary
          /\ resolutions' = resolutions /\ balance' = balance
      BY <1>0, <1>5 DEF CollectFees, UpdateMarket, betVars, resultVars, history, counters
    <2>2. /\ WithFeesCollected(market).votes = market.votes
          /\ WithFeesCollected(market).stakes = market.stakes
          /\ WithFeesCollected(market).winners = market.winners
          /\ WithFeesCollected(market).total = market.total
          /\ WithFeesCollected(market).claimed = market.claimed
          /\ WithFeesCollected(market).state # "Active"
          /\ WithFeesCollected(market).feeCollected
      BY <1>0 DEF WithFeesCollected, Markets
    <2> QED BY <1>b, <2>1, <2>2 DEF Continues, Keeps, CollectsOnce
  <1>6. ~ReadThroughCache
    BY DEF ReadThroughCache, TypeOK
  <1>7. ASSUME \/ Tick
               \/ \E fee \in PlatformFees : SetPlatformFee(fee)
               \/ UNCHANGED vars
        PROVE  G
    <2>1. /\ market' = market /\ registry' = registry /\ summary' = summary
          /\ resolutions' = resolutions
          /\ bets' = bets /\ vault' = vault /\ balance' = balance
      BY <1>7 DEF Tick, SetPlatformFee, vars, marketVars, betVars, resultVars,
                  moneyVars, history, counters
    <2> QED BY <1>0, <1>c, <2>1
  <1> HIDE DEF G
  <1>8. G
    BY <1>1, <1>2, <1>3, <1>4, <1>5, <1>6, <1>7 DEF Next
  <1> QED BY <1>8 DEF G


(* The resolution finds a market that has paid nothing.                    *)
LEMMA ResolutionStep ==
  ASSUME TypeOK, Backed, PoolSound, BudgetAborts = FALSE, market.winners = {},
         NEW ws \in (SUBSET Outcomes) \ {{}}, Resolve(ws)
  PROVE  /\ PaidFairly'
         /\ market'.winners # {} /\ market'.total = market.total
         /\ market'.feeCollected = market.feeCollected /\ vault' = vault
  <1>1. PICK m \in Markets : /\ m = WithWinners(market, ws)
                            /\ m.claimed = market.claimed /\ m.winners = ws
                            /\ m.total = market.total /\ m.state = "Resolved"
                            /\ m.feeCollected = market.feeCollected
    <2>1. market \in Markets
      BY DEF TypeOK
    <2>2. WithWinners(market, ws) \in Markets
      BY <2>1, WithWinnersIsMarket
    <2> QED BY <2>1, <2>2 DEF WithWinners, Markets
  <1>2. PICK bs \in [Users -> Bets] :
          /\ bs = ResolveMarketBets(ws)
          /\ \A u \in Users : NotActivated(bets[u], bs[u])
    BY ResolvedBetsAreBets DEF TypeOK
  <1>3. PICK s \in Summaries : s = Refresh(m, bs)
    BY RefreshIsSummary DEF TypeOK
  <1>4. PICK X \in SUBSET (Users \ m.claimed) : X = Claimants(m, bs, s)
    BY ClaimantsAreUnclaimed DEF TypeOK
  <1>5. /\ registry' = registry /\ summary' = s /\ resolutions' = resolutions + 1
        /\ vault' = vault
        /\ \/ bets' = bs /\ SetMarket(m) /\ balance' = balance
           \/ /\ Distributable(m, bs, s)
              /\ Distribute(m, bs, s, Whole(m))
              /\ SetMarket(WithClaims(m, X))
    BY <1>1, <1>2, <1>3, <1>4 DEF Resolve
  <1>6. s.totalPool \in Nat
    <2>1. s.totalPool = market.total /\ market.total \in Int
      BY <1>1, <1>3 DEF Refresh, Markets
    <2>2. market.total >= SumOver(ActiveOf(bets), Users)
          /\ SumOver(ActiveOf(bets), Users) \in Nat
      BY PoolSoundIs, ActiveIsAmounts, SumIsAmount DEF PoolOf, TypeOK
    <2> QED BY <2>1, <2>2
  <1>7. /\ market'.votes = m.votes /\ market'.stakes = m.stakes
        /\ market'.winners = m.winners /\ market'.total = m.total
        /\ market'.state = m.state /\ market'.feeCollected = m.feeCollected
    BY <1>5 DEF SetMarket, WithClaims, Markets
  <1>8. Keeps(m, bs) /\ Gains(m, bs, s)
    <2>1. CASE bets' = bs /\ SetMarket(m) /\ balance' = balance
      <3>1. \A u \in Users : NotActivated(bs[u], bets'[u])
        BY <2>1 DEF NotActivated
      <3>2. Gains(m, bs, s)
        <4>1. market'.claimed = m.claimed \cup {}
          BY <2>1 DEF SetMarket
        <4>2. SumOver(balance', Accounts) = SumOver(balance, Accounts) + 0
          BY <2>1, BalanceIsAmount
        <4>3. IsShare(s, 0, Position(m, bs), {})
          <5>1. Amounts(Position(m, bs), {})
            BY FS_EmptySet DEF Amounts
          <5> QED BY <1>6, <5>1, NoShareIsShare
        <4>4. {} \in SUBSET (Users \ m.claimed) /\ {} \in SUBSET {} /\ 0 \in Nat
              /\ {} \subseteq Winning(m, bs)
          OBVIOUS
        <4> QED BY <4>1, <4>2, <4>3, <4>4 DEF Gains
      <3> QED BY <1>5, <1>7, <3>1, <3>2 DEF Keeps
    <2>2. CASE /\ Distributable(m, bs, s)
               /\ Distribute(m, bs, s, Whole(m))
               /\ SetMarket(WithClaims(m, X))
      <3>1. s.winningTotal # 0 /\ market' = WithClaims(m, Claimants(m, bs, s))
        BY <1>4, <2>2 DEF Distributable, SetMarket
      <3>2. \A u \in Users : NotActivated(bs[u], bets'[u])
        BY <2>2, <3>1, DistributeCredits
      <3>3. \A u \in Bettors : bs[u].status # "NoBet"
        BY <1>2, RegisteredAreUsers DEF Backed, RecordsKept, NotActivated, TypeOK
      <3>4. Gains(m, bs, s)
        BY <1>6, <2>2, <3>1, <3>3, DistributionGains DEF Backed
      <3> QED BY <1>5, <1>7, <3>2, <3>4 DEF Keeps
    <2> QED BY <1>5, <2>1, <2>2
  <1>9. PaidUpTo(m, bs, s, SumOver(balance, Accounts))
    <2>1. SumOver(balance, Accounts) = 0
      BY DEF Backed, NothingPaidEarly
    <2>2. Winning(m, bs) \cap m.claimed \in SUBSET Users
      BY WinningIs DEF TypeOK
    <2>3. Amounts(Position(m, bs), Winning(m, bs) \cap m.claimed)
      BY <2>2, WinningIs DEF TypeOK
    <2> QED BY <1>6, <2>1, <2>3, NoShareIsShare DEF PaidUpTo
  <1>10. PaidUpTo(market, bets, s, SumOver(balance, Accounts))'
    BY <1>6, <1>8, <1>9, GainsArePaid
  <1>11. PaidUpTo(market, bets, summary, SumOver(balance, Accounts))'
    BY <1>5, <1>10
  <1>12. summary' = Refresh(market, bets)'
    BY <1>3, <1>5, <1>8, KeptPositions DEF TypeOK
  <1>13. resolutions' >= 1
    BY <1>5 DEF TypeOK
  <1> QED BY <1>1, <1>5, <1>7, <1>11, <1>12, <1>13 DEF PaidFairly

LEMMA BackedStep ==
  ASSUME TypeOK, CopiesTell, PoolSound, Backed, MaxReads = 0,
         BudgetAborts = FALSE, MaxResolutions <= 1, [Next]_vars
  PROVE  Backed'
  <1>1. TypeOK' /\ PoolSound' /\ cache' = NoMarket
    BY Steps, PoolStep, LedgerStep DEF Backed
  <1>2. FeeIsSet' /\ RecordsKept'
    BY FeeSetStep, RecordsStep DEF Backed
  <1>3. market.total \in Nat /\ market'.total \in Nat
    <2>1. PICK n \in Nat, k \in Nat : n = SumOver(ActiveOf(bets), Users)
                                     /\ k = SumOver(ActiveOf(bets'), Users)
      BY <1>1, ActiveIsAmounts, SumIsAmount, ZenonT(60) DEF TypeOK
    <2>2. market.total \in Int /\ market'.total \in Int
      BY <1>1 DEF TypeOK, Markets
    <2> QED BY <1>1, <2>1, <2>2, PoolSoundIs DEF PoolOf
  <1>4. vault \in Nat /\ vault' \in Nat /\ ScheduleFee \in Nat
    BY <1>1, AmountsAssumption DEF TypeOK
  <1>5. \A a, b \in Nat : a * b \in Nat
    OBVIOUS
  <1>6. CASE /\ market.winners = {}
             /\ balance' = balance /\ vault' = vault /\ market'.winners = {}
    <2>1. NothingPaidEarly' /\ PaidFairly'
      BY <1>6 DEF Backed, NothingPaidEarly, PaidFairly
    <2>2. vault' = 0
      BY <1>6 DEF Backed, NothingPaidEarly
    <2>3. FeeBounded'
      BY <1>3, <1>4, <1>5, <2>2 DEF FeeBounded
    <2> QED BY <1>1, <1>2, <2>1, <2>3 DEF Backed
  <1>7. ASSUME market.winners = {}, NEW ws \in (SUBSET Outcomes) \ {{}}, Resolve(ws)
        PROVE  Backed'
    <2>1. /\ PaidFairly'
          /\ market'.winners # {} /\ market'.total = market.total
          /\ market'.feeCollected = market.feeCollected /\ vault' = vault
      BY <1>7, ResolutionStep
    <2>2. NothingPaidEarly' /\ FeeBounded'
      BY <2>1 DEF NothingPaidEarly, FeeBounded, Backed
    <2> QED BY <1>1, <1>2, <2>1, <2>2 DEF Backed
  <1>8. CASE market.winners # {}
    <2>1. summary = Refresh(market, bets) /\ summary \in Summaries
          /\ summary.totalPool = market.total
      <3>1. summary = Refresh(market, bets)
        BY <1>8 DEF Backed, PaidFairly
      <3> QED BY <3>1, RefreshIsSummary, WinningIs DEF TypeOK
    <2>2. Continues /\ (Pays \/ CollectsOnce)
      BY <1>3, <1>8, <2>1, SettledStep
    <2>3. market'.winners # {}
      BY <1>8, <2>2 DEF Continues, Keeps
    <2>4. PaidUpTo(market, bets, summary, SumOver(balance, Accounts))
      BY <1>8 DEF Backed, PaidFairly
    <2>5. summary' = Refresh(market, bets)'
      BY <2>1, <2>2, KeptPositions DEF Continues, TypeOK
    <2>6. Gains(market, bets, summary)
      <3>1. CASE CollectsOnce
        <4>1. market'.claimed \subseteq Users
          BY <1>1 DEF TypeOK, Markets
        <4> QED BY <1>3, <2>1, <3>1, <4>1, NoGain DEF CollectsOnce
      <3> QED BY <2>2, <3>1 DEF Pays
    <2>7. PaidUpTo(market, bets, summary, SumOver(balance, Accounts))'
      <3>1. PICK s \in Summaries : s = summary
        BY <2>1
      <3>2. PaidUpTo(market, bets, s, SumOver(balance, Accounts))'
        <4>1. Keeps(market, bets) /\ market \in Markets /\ bets \in [Users -> Bets]
          BY <2>2 DEF Continues, TypeOK
        <4> QED BY <1>3, <2>1, <2>4, <2>6, <3>1, <4>1, GainsArePaid
      <3>3. summary' = s
        BY <2>2, <3>1 DEF Continues
      <3> QED BY <3>2, <3>3
    <2>8. PaidFairly'
      BY <1>8, <2>2, <2>5, <2>7 DEF PaidFairly, Backed, Continues
    <2>9. FeeBounded'
      <3>1. CASE Pays
        BY <2>2, <3>1 DEF Pays, FeeBounded, Backed, Continues, Keeps
      <3>2. CASE CollectsOnce
        <4>1. vault' = PlatformFee(market) /\ market'.feeCollected
          BY <1>3, <1>4, <3>2 DEF CollectsOnce, Backed, FeeBounded, PlatformFee
        <4>2. market'.total = market.total
          BY <2>2 DEF Continues, Keeps
        <4>3. 100 * PlatformFee(market) <= market.total * ScheduleFee
          <5>1. PICK x \in Nat : x = market.total * ScheduleFee
            BY <1>3, <1>4, <1>5
          <5> QED BY <5>1 DEF PlatformFee
        <4> QED BY <4>1, <4>2, <4>3 DEF FeeBounded
      <3> QED BY <2>2, <3>1, <3>2
    <2>10. NothingPaidEarly'
      BY <2>3 DEF NothingPaidEarly
    <2> QED BY <1>1, <1>2, <2>8, <2>9, <2>10 DEF Backed
  <1>9. cache = NoMarket
    BY DEF Backed
  <1> QED BY <1>6, <1>7, <1>8, <1>9, UnsettledStep

(* What is paid, what is owed and the fee are backed together: the shares  *)
(* of the winning positions come to the pool at most, less the fee's rate. *)
LEMMA BackedIsSolvent ==
  ASSUME TypeOK, PoolSound, Backed
  PROVE  Solvent
  <1>1. market.total \in Nat /\ custody \in Nat /\ market.total <= custody
        /\ vault \in Nat /\ ScheduleFee \in Nat
    <2>1. PICK n \in Nat : n = SumOver(ActiveOf(bets), Users)
      BY ActiveIsAmounts, SumIsAmount DEF TypeOK
    <2>2. market.total \in Int /\ custody \in Nat /\ vault \in Nat
      BY DEF TypeOK, Markets
    <2> QED BY <2>1, <2>2, PoolSoundIs, AmountsAssumption DEF PoolOf
  <1>2. PICK fee \in Nat : fee = IF FeesCoverCollection THEN vault ELSE 0
    BY <1>1
  <1>3. 100 * fee <= market.total * (100 - Rate)
    <2>1. CASE FeesCoverCollection
      <3>1. 100 - Rate = ScheduleFee /\ fee = vault
        BY <1>1, <1>2, <2>1, RateIs
      <3> QED BY <3>1 DEF Backed, FeeBounded
    <2>2. CASE ~FeesCoverCollection
      <3>1. 100 - Rate = 0 /\ fee = 0
        BY <1>2, <2>2 DEF Rate
      <3>2. \A a \in Nat : 100 * 0 <= a * 0
        OBVIOUS
      <3> QED BY <1>1, <3>1, <3>2
    <2> QED BY <2>1, <2>2
  <1>4. PICK T \in Nat, r \in 0..100 : T = market.total /\ r = Rate
    BY <1>1, RateIs
  <1>5. fee <= T
    <2>1. T * (100 - r) + T * r = T * 100 /\ T * r >= 0
      OBVIOUS
    <2>2. T * (100 - r) \in Int /\ T * r \in Int
      OBVIOUS
    <2> QED BY <1>3, <1>4, <2>1, <2>2
  <1> SUFFICES ASSUME \A u \in Users : OnePosition(u)
               PROVE  SumOver(balance, Accounts) + StillOwed + fee <= custody
    BY <1>2 DEF Solvent
  <1>6. OnePositions(market, bets)
    BY DEF OnePositions, OnePosition
  <1>7. CASE market.winners = {}
    <2>1. SumOver(balance, Accounts) = 0 /\ fee = 0 /\ StillOwed = 0
      BY <1>2, <1>7 DEF Backed, NothingPaidEarly, StillOwed
    <2> QED BY <1>1, <2>1
  <1>8. CASE market.winners # {} /\ summary.winningTotal = 0
    <2>1. SumOver(balance, Accounts) = 0 /\ StillOwed = 0
      BY <1>8 DEF Backed, PaidFairly, PaidUpTo, StillOwed
    <2> QED BY <1>1, <1>4, <1>5, <2>1
  <1>9. CASE market.winners # {} /\ summary.winningTotal # 0
    <2> DEFINE pos == Position(market, bets)
               wins == Winning(market, bets)
               done == wins \cap market.claimed
    <2>1. /\ summary \in Summaries /\ summary.totalPool = T
          /\ summary.winningTotal = SumOver(pos, wins)
          /\ Amounts(pos, wins)
          /\ PaidUpTo(market, bets, summary, SumOver(balance, Accounts))
      <3>1. summary = Refresh(market, bets)
            /\ PaidUpTo(market, bets, summary, SumOver(balance, Accounts))
        BY <1>9 DEF Backed, PaidFairly
      <3>2. Winning(market, bets) \in SUBSET Users
        BY WinningIs, SMTT(60) DEF TypeOK
      <3> QED BY <1>4, <3>1, <3>2, RefreshIsSummary, WinningIs DEF TypeOK
    <2>2. PICK W \in Nat \ {0} : W = summary.winningTotal
      BY <1>9, <2>1 DEF Summaries
    <2>3. PICK b \in Nat : b = SumOver(balance, Accounts)
      BY BalanceIsAmount
    <2>4. PICK o \in Nat :
            /\ o = StillOwed /\ Unclaimed \subseteq wins \ market.claimed
            /\ IsShare(summary, o, pos, Unclaimed)
      BY <1>4, <1>9, <2>1, SweptIsShare DEF StillOwed
    <2>5. IsShare(summary, b, pos, done)
      BY <1>6, <2>1, <2>3 DEF PaidUpTo
    <2>6. done \in SUBSET wins /\ Unclaimed \in SUBSET wins /\ done \cap Unclaimed = {}
      BY <2>4
    <2>7. IsShare(summary, b + o, pos, wins)
      <3> HIDE DEF pos, wins, done
      <3> QED BY <1>4, <2>1, <2>4, <2>5, <2>6, SharesAdd
    <2>8. (100 * W) * (b + o) <= (r * T) * W
      BY <1>4, <2>1, <2>2, <2>7 DEF IsShare
    <2>9. 100 * (b + o) <= r * T
      BY <2>2, <2>8, CancelsFactor
    <2>10. 100 * fee <= T * (100 - r)
      BY <1>3, <1>4
    <2>11. r * T + T * (100 - r) = 100 * T
      OBVIOUS
    <2>12. 100 * (b + o) + 100 * fee <= 100 * T
      BY <2>9, <2>10, <2>11
    <2>13. b + o + fee <= T
      BY <2>12
    <2> QED BY <1>1, <1>4, <2>3, <2>4, <2>13
  <1> QED BY <1>7, <1>8, <1>9

(* What the market credited, what it still owes its winners and the fee it *)
(* collected never exceed the tokens it took in, whichever of the          *)
(* distribution, the claims and the sweep settles each winner (lib.rs      *)
(* distribute_payouts, claim_winnings, sweep_unclaimed_winnings; fees.rs   *)
(* collect_fees).  The run reresolution shows what a second resolution     *)
(* does.                                                                   *)
THEOREM MarketIsSolvent ==
  ASSUME MaxReads = 0, BudgetAborts = FALSE, MaxResolutions <= 1
  PROVE  Spec => []Solvent
  <1> DEFINE Inv == TypeOK /\ CopiesTell /\ PoolSound /\ Backed
  <1>1. Init => Backed
    <2> SUFFICES ASSUME Init PROVE Backed
      OBVIOUS
    <2>1. SumOver(balance, Accounts) = 0
      <3>1. \A a \in Accounts : balance[a] = 0
        BY DEF Init
      <3> QED BY <3>1, SumOfZeros
    <2>2. Bettors = {}
      BY DEF Init, Bettors
    <2>3. 100 * 0 <= 0 * ScheduleFee
      BY AmountsAssumption
    <2> QED BY <2>1, <2>2, <2>3
            DEF Init, NewMarket, Backed, FeeIsSet, RecordsKept, NothingPaidEarly,
                FeeBounded, PaidFairly
  <1>2. (TypeOK /\ CopiesTell /\ PoolSound /\ Backed) /\ [Next]_vars => Backed'
    BY BackedStep
  <1>3. TypeOK /\ PoolSound /\ Backed => Solvent
    BY BackedIsSolvent
  <1>4. CopiesTell /\ TypeOK /\ [Next]_vars => CopiesTell'
    BY TellingStep
  <1> QED BY <1>1, <1>2, <1>3, <1>4, InitTells, TypeCorrect, PoolIsSound, PTL DEF Spec

=============================================================================
