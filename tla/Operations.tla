---------------------------- MODULE Operations ----------------------------
(***************************************************************************)
(* The components beside the market's money, checked on one instance.      *)
(* They are kept under storage keys of their own and call each other       *)
(* nowhere; what they share is the ledger's time.  A behaviour is one of   *)
(* the component chosen by subject, while the others stay as they began,   *)
(* so the state space is the sum of theirs and not the product.            *)
(***************************************************************************)
EXTENDS Disputes, DisputeTimeouts, DisputeMultiSig, FeeVault, FeeConfig, Admins,
        RateLimiter, Upgrades, Recovery, Archive, Oracles,
        Standings, MarketIds, Listing, Balances, Journals, MedianOracle

CONSTANT Until  \* the time until which each component is followed

VARIABLE subject  \* the component followed

Subjects == {"disputes", "timeouts", "multisig", "vault", "fees", "admins",
             "rates", "upgrades", "recovery", "archive", "oracles",
             "standings", "ids", "listing", "balances", "journals", "median"}

ASSUME OperationsAssumption ==
  Until \in [Subjects -> StartTime..MaxTime]

OperationsInit ==
  /\ subject \in Subjects
  /\ DisputesInit /\ TimeoutsInit /\ MultiSigInit
  /\ VaultInit /\ FeeConfigInit
  /\ AdminsInit /\ RateInit /\ UpgradesInit
  /\ RecoveryInit /\ ArchiveInit /\ OraclesInit
  /\ StandingsInit /\ MarketIdsInit /\ ListingInit
  /\ BalancesInit /\ JournalsInit /\ MedianInit

Others(s) ==
  /\ s # "disputes" => UNCHANGED disputesVars
  /\ s # "timeouts" => UNCHANGED timeoutVars
  /\ s # "multisig" => UNCHANGED multisigVars
  /\ s # "vault" => UNCHANGED vaultVars
  /\ s # "fees" => UNCHANGED feeConfigVars
  /\ s # "admins" => UNCHANGED adminsVars
  /\ s # "rates" => UNCHANGED rateVars
  /\ s # "upgrades" => UNCHANGED upgradesVars
  /\ s # "recovery" => UNCHANGED recoveryVars
  /\ s # "archive" => UNCHANGED archiveVars
  /\ s # "oracles" => UNCHANGED oracleVars
  /\ s # "standings" => UNCHANGED standingsVars
  /\ s # "ids" => UNCHANGED idsVars
  /\ s # "listing" => UNCHANGED listingVars
  /\ s # "balances" => UNCHANGED balanceVars
  /\ s # "journals" => UNCHANGED journalVars
  /\ s # "median" => UNCHANGED medianVars

ComponentStep ==
  \/ subject = "disputes" /\ DisputesNext
  \/ subject = "timeouts" /\ TimeoutsNext
  \/ subject = "multisig" /\ MultiSigNext /\ UNCHANGED now
  \/ subject = "vault" /\ VaultNext
  \/ subject = "fees" /\ FeeConfigNext
  \/ subject = "admins" /\ AdminsNext
  \/ subject = "rates" /\ RateNext
  \/ subject = "upgrades" /\ UpgradesNext /\ UNCHANGED now
  \/ subject = "recovery" /\ RecoveryNext /\ UNCHANGED now
  \/ subject = "archive" /\ ArchiveNext
  \/ subject = "oracles" /\ OraclesNext
  \/ subject = "standings" /\ StandingsNext /\ UNCHANGED now
  \/ subject = "ids" /\ MarketIdsNext /\ UNCHANGED now
  \/ subject = "listing" /\ ListingNext /\ UNCHANGED now
  \/ subject = "balances" /\ BalancesNext /\ UNCHANGED now
  \/ subject = "journals" /\ JournalsNext /\ UNCHANGED now
  \/ subject = "median" /\ MedianNext

OperationsNext ==
  /\ UNCHANGED subject
  /\ Others(subject)
  /\ ComponentStep
  /\ now' <= Until[subject]

operationsVars ==
  <<now, subject, disputesVars, timeoutVars, multisigVars, vaultVars,
    feeConfigVars, adminsVars, rateVars, upgradesVars, recoveryVars,
    archiveVars, oracleVars, standingsVars, idsVars, listingVars,
    balanceVars, journalVars, medianVars>>

OperationsSpec == OperationsInit /\ [][OperationsNext]_operationsVars

-----------------------------------------------------------------------------
(* Every record of the component followed has the shape its code gives it; *)
(* an amount or a count, though stored with a sign, is never negative.     *)
OperationsTypeOK ==
  /\ subject = "disputes" => DisputesTypeOK
  /\ subject = "timeouts" => TimeoutsTypeOK
  /\ subject = "multisig" => MultiSigTypeOK
  /\ subject = "vault" => VaultTypeOK
  /\ subject = "fees" => FeeConfigTypeOK
  /\ subject = "admins" => AdminsTypeOK
  /\ subject = "rates" => RateTypeOK
  /\ subject = "upgrades" => UpgradesTypeOK
  /\ subject = "recovery" => RecoveryTypeOK
  /\ subject = "archive" => ArchiveTypeOK
  /\ subject = "oracles" => OraclesTypeOK
  /\ subject = "standings" => StandingsTypeOK
  /\ subject = "ids" => MarketIdsTypeOK
  /\ subject = "listing" => ListingTypeOK
  /\ subject = "balances" => BalancesTypeOK
  /\ subject = "journals" => JournalsTypeOK
  /\ subject = "median" => MedianTypeOK

=============================================================================
