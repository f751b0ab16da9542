--------------------------- MODULE MCOracleRefund ---------------------------
(***************************************************************************)
(* Market with a history of refund_on_oracle_failure, for TLC.  The only   *)
(* ways to resolve left here are the ones that wait for the market's end:  *)
(* force_resolve_market, which is documented to resolve whatever the state *)
(* (lib.rs), is taken out.                                                 *)
(***************************************************************************)
EXTENDS Market, TLC

VARIABLE refunded \* history: users whose bets went back after an oracle failure

HInit == Init /\ refunded = {}

Ordinary ==
  \/ \E u \in Users : Staking(u)
  \/ \E o \in Outcomes : ResolveMarketManual(o)
  \/ \E ws \in (SUBSET Outcomes) \ {{}} : ResolveMarketWithTies(ws)
  \/ FetchOracleResult
  \/ Settling
  \/ CancelEvent
  \/ CollectFees
  \/ Tick

HNext ==
  \/ /\ \E byAdmin \in BOOLEAN : RefundOnOracleFailure(byAdmin)
     /\ refunded' = refunded \cup ActiveBettors
  \/ Ordinary /\ UNCHANGED refunded

HSpec == HInit /\ [][HNext]_<<vars, refunded>>

(* "Marks market as cancelled and prevents further resolution" (lib.rs,    *)
(* refund_on_oracle_failure): a bet refunded because the oracle failed is  *)
(* never won or lost afterwards.                                           *)
RefundIsFinal == \A u \in refunded : bets[u].status = "Refunded"

=============================================================================
