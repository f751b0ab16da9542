------------------------------ MODULE FeeConfig ------------------------------
(***************************************************************************)
(* Changes of the fee configuration (fees.rs): committed and, after a      *)
(* delay, revealed; or queued for a later time; and the configuration that *)
(* was in force at an earlier time, which bets placed then are charged.    *)
(* Ledger sequence numbers and times advance together.                     *)
(***************************************************************************)
EXTENDS Clock, Sequences

CONSTANTS
  FeeConfigs,      \* configurations
  ValidConfigs,    \* those validate_fee_config accepts
  DefaultConfig,   \* the one in force when none was stored
  NoFeeConfig,     \* nothing is committed or queued
  RevealDelay,     \* MIN_DELAY_LEDGERS
  QueueDelays,     \* how far ahead an update is queued
  MaxChanges       \* bound on the changes

ASSUME FeeConfigAssumption ==
  /\ ValidConfigs \subseteq FeeConfigs
  /\ DefaultConfig \in ValidConfigs
  /\ NoFeeConfig \notin FeeConfigs
  /\ RevealDelay \in Nat \ {0}
  /\ QueueDelays \subseteq Nat
  /\ MaxChanges \in Nat

VARIABLES
  feeConfig,   \* fee_cfg
  feeHistory,  \* fc_hist: what was replaced, and when
  feeCommit,   \* fc_cmt: the hash committed, and when
  feeQueue,    \* the queued update and the time it may be applied
  announced,   \* history: what was announced, and from when it may apply
  feeChanges   \* history: each configuration and when it came into force

feeConfigVars == <<feeConfig, feeHistory, feeCommit, feeQueue, announced,
                   feeChanges>>

FeeConfigTypeOK ==
  /\ now \in StartTime..MaxTime
  /\ feeConfig \in ValidConfigs
  /\ feeHistory \in Seq([config : ValidConfigs, replacedAt : Nat])
  /\ feeCommit \in [hash : FeeConfigs, at : Nat] \cup {NoFeeConfig}
  /\ feeQueue \in [config : ValidConfigs, eta : Nat] \cup {NoFeeConfig}
  /\ announced \subseteq [config : FeeConfigs, from : Nat]
  /\ feeChanges \in Seq([config : ValidConfigs, at : Nat, queued : BOOLEAN])

FeeConfigInit ==
  /\ now = StartTime
  /\ feeConfig = DefaultConfig
  /\ feeHistory = <<>>
  /\ feeCommit = NoFeeConfig
  /\ feeQueue = NoFeeConfig
  /\ announced = {}
  /\ feeChanges = <<>>

(* commit_fee_config: in place of an earlier commitment, by its hash, so   *)
(* even of a configuration that will be refused.                           *)
CommitFeeConfig(c) ==
  /\ feeCommit' = [hash |-> c, at |-> now]
  /\ announced' = announced \cup {[config |-> c, from |-> now + RevealDelay]}
  /\ UNCHANGED <<now, feeConfig, feeHistory, feeQueue, feeChanges>>

Change(c, queued) ==
  /\ Len(feeChanges) < MaxChanges
  /\ feeConfig' = c
  /\ feeChanges' = Append(feeChanges,
                          [config |-> c, at |-> now, queued |-> queued])

(* Seeded fault: the preimage is not compared with the commitment.         *)
RevealWithoutPreimage(c) ==
  /\ feeCommit # NoFeeConfig
  /\ now >= feeCommit.at + RevealDelay
  /\ c \in ValidConfigs
  /\ feeHistory' = Append(feeHistory, [config |-> feeConfig, replacedAt |-> now])
  /\ Change(c, FALSE)
  /\ feeCommit' = NoFeeConfig
  /\ UNCHANGED <<now, feeQueue, announced>>

(* Seeded fault: the history is given the new configuration.               *)
RevealRecordsNew(c) ==
  /\ feeCommit # NoFeeConfig
  /\ now >= feeCommit.at + RevealDelay
  /\ c = feeCommit.hash
  /\ c \in ValidConfigs
  /\ feeHistory' = Append(feeHistory, [config |-> c, replacedAt |-> now])
  /\ Change(c, FALSE)
  /\ feeCommit' = NoFeeConfig
  /\ UNCHANGED <<now, feeQueue, announced>>

(* update_fee_config, by anyone who knows the preimage.                    *)
RevealFeeConfig(c) ==
  /\ feeCommit # NoFeeConfig
  /\ now >= feeCommit.at + RevealDelay
  /\ c = feeCommit.hash
  /\ c \in ValidConfigs
  /\ feeHistory' = Append(feeHistory, [config |-> feeConfig, replacedAt |-> now])
  /\ Change(c, FALSE)
  /\ feeCommit' = NoFeeConfig
  /\ UNCHANGED <<now, feeQueue, announced>>

(* queue_update: in place of an update queued before.                      *)
QueueUpdate(c, delay) ==
  /\ c \in ValidConfigs
  /\ delay > 0
  /\ feeQueue' = [config |-> c, eta |-> now + delay]
  /\ announced' = announced \cup {[config |-> c, from |-> now + delay]}
  /\ UNCHANGED <<now, feeConfig, feeHistory, feeCommit, feeChanges>>

(* apply_update: what it replaces does not enter the history.              *)
ApplyUpdate ==
  /\ feeQueue # NoFeeConfig
  /\ now >= feeQueue.eta
  /\ Change(feeQueue.config, TRUE)
  /\ feeQueue' = NoFeeConfig
  /\ UNCHANGED <<now, feeHistory, feeCommit, announced>>

(* cancel_queued_update.                                                   *)
CancelQueuedUpdate ==
  /\ feeQueue' = NoFeeConfig
  /\ UNCHANGED <<now, feeConfig, feeHistory, feeCommit, announced, feeChanges>>

(* get_fee_config_for_timestamp: the first entry replaced after t, or the  *)
(* configuration in force.                                                 *)
FeeConfigAt(t) ==
  LET later == {i \in 1..Len(feeHistory) : feeHistory[i].replacedAt > t} IN
  IF later = {} THEN feeConfig
  ELSE feeHistory[CHOOSE i \in later : \A j \in later : i <= j].config

FeeConfigNext ==
  \/ \E c \in FeeConfigs : CommitFeeConfig(c) \/ RevealFeeConfig(c)
  \/ \E c \in FeeConfigs, d \in QueueDelays : QueueUpdate(c, d)
  \/ ApplyUpdate
  \/ CancelQueuedUpdate
  \/ Tick /\ UNCHANGED feeConfigVars

FeeConfigSpec == FeeConfigInit /\ [][FeeConfigNext]_<<now, feeConfigVars>>

-----------------------------------------------------------------------------
(* No configuration takes effect that was not announced a full delay       *)
(* before, whatever was committed, queued, replaced or cancelled meanwhile *)
(* (update_fee_config, apply_update).                                      *)
ChangesWereAnnounced ==
  \A i \in 1..Len(feeChanges) :
    \E a \in announced : /\ a.config = feeChanges[i].config
                         /\ a.from <= feeChanges[i].at

(* What was in force at time t: the last change up to t.                   *)
InForceAt(t) ==
  LET past == {i \in 1..Len(feeChanges) : feeChanges[i].at <= t} IN
  IF past = {} THEN DefaultConfig
  ELSE feeChanges[CHOOSE i \in past : \A j \in past : j <= i].config

(* The configuration looked up for a time is the one that was in force     *)
(* then, as long as every change was revealed and none was queued, since   *)
(* apply_update leaves no trace in the history                             *)
(* (get_fee_config_for_timestamp; a bet is charged what it was placed      *)
(* under).                                                                 *)
FeeConfigRemembered ==
  (\A i \in 1..Len(feeChanges) : ~feeChanges[i].queued)
    => \A t \in StartTime..now : FeeConfigAt(t) = InForceAt(t)

=============================================================================
