------------------------------- MODULE Removal -------------------------------
(***************************************************************************)
(* The end of a market's record: a year after the market ended, anybody    *)
(* may have it archived and removed (storage.rs cleanup_old_market_data,   *)
(* markets.rs remove_market), while winners may still have to claim.  The  *)
(* record the other calls work on is the one of module Market.             *)
(*                                                                         *)
(* Once it is removed every call that names the market fails, so the model *)
(* follows it no further: market and bets keep, for the properties only,   *)
(* what they were at the removal.                                          *)
(***************************************************************************)
EXTENDS Market

CONSTANTS
  Day,              \* units of time in a day
  InitialThreshold, \* default cleanup_threshold_days
  Thresholds        \* what update_storage_config may store there

ASSUME RemovalAssumption ==
  /\ Day \in Nat \ {0}
  /\ InitialThreshold \in Nat
  /\ Thresholds \subseteq Nat

VARIABLES
  threshold, \* StorageConfig.cleanup_threshold_days
  removed,   \* whether the record is gone from storage
  archived   \* DataKey::ArchivedMarket, or NoMarket

removalVars == <<threshold, removed, archived>>

(* The types of the record's end.                                          *)
RemovalTypeOK ==
  /\ TypeOK
  /\ threshold \in Nat
  /\ removed \in BOOLEAN
  /\ archived \in Markets \cup {NoMarket}

RemovalInit ==
  /\ Init
  /\ threshold = InitialThreshold
  /\ removed = FALSE
  /\ archived = NoMarket

(* update_storage_config: any value, by anybody.                           *)
UpdateStorageConfig(days) ==
  /\ threshold' = days
  /\ UNCHANGED <<vars, removed, archived>>

(* Whole days since the market ended.  Before its end the difference would *)
(* be negative, and the call fails.                                        *)
OldEnough == (now - EndTime) \div Day > threshold

(* Seeded fault: only the final transition is looked at.                   *)
RemovableIfMayClose(m) == m.state # "Cancelled"

(* Closed and cancelled markets pass the first check; remove_market then   *)
(* wants a legal transition to Closed, and Cancelled is a final state.     *)
Removable(m) ==
  /\ m.state \in {"Closed", "Cancelled"}
  /\ m.state # "Closed" => m.state \in {"Active", "Resolved"}

(* The market is read, and archived, as the cache has it.                  *)
CleanupOldMarketData ==
  /\ ~removed
  /\ now >= EndTime
  /\ OldEnough
  /\ Removable(GetMarket)
  /\ archived' = GetMarket
  /\ removed' = TRUE
  /\ cache' = NoMarket
  /\ UNCHANGED <<threshold, now, platformFee, market, betVars, resultVars,
                 moneyVars, history>>

(* Every call that names the market needs its record.                      *)
WhileStored == ~removed /\ Next /\ UNCHANGED removalVars

RemovalNext ==
  \/ WhileStored
  \/ CleanupOldMarketData
  \/ \E days \in Thresholds : UpdateStorageConfig(days)

RemovalSpec == RemovalInit /\ [][RemovalNext]_<<vars, removalVars>>

-----------------------------------------------------------------------------
(* No bet that could still be cancelled or refunded is cut off from its    *)
(* money by the removal of its market, although the removal trusts a       *)
(* cached copy of the state: a removed market had winners, its bets were   *)
(* resolved with it and its fees collected (storage.rs                     *)
(* cleanup_old_market_data, "Only cleanup closed or cancelled markets").   *)
NoBetStranded ==
  removed => /\ archived.feeCollected
             /\ market.winners # {}
             /\ \A u \in Users : bets[u].status # "Active"

(* A removal leaves a claim window alone if the window was over by the     *)
(* last moment at which the market cannot be old enough: the age counts    *)
(* whole days from the end of the market, the window seconds from its      *)
(* first resolution (storage.rs cleanup_old_market_data, recovery.rs       *)
(* is_claim_window_expired).                                               *)
WindowSurvives ==
  [][/\ ~removed /\ removed'
     /\ claimStart # None
     /\ claimStart + ClaimPeriod <= EndTime + (threshold + 1) * Day
     => ClaimWindowExpired]_<<vars, removalVars>>

=============================================================================
