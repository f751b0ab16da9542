------------------------ MODULE AdministrationProofs ------------------------
(***************************************************************************)
(* What the administrators decide: the schedule of withdrawals and the     *)
(* changes of the fee configuration, for any amounts, timelocks, shares    *)
(* and times; who they are, what several of them approve, the contract's   *)
(* code and its version, for any addresses, delays, codes and versions.    *)
(***************************************************************************)
EXTENDS FeeVault, FeeConfig, Admins, Upgrades, FiniteSetTheorems,
        SequenceTheorems, WellFoundedInduction, TLAPS

-----------------------------------------------------------------------------
(* The vault.                                                              *)

(* The last withdrawal is the one the timelock runs from, the schedule in  *)
(* force is at least as slow as that of every withdrawal, and one that was *)
(* never stored is the default.                                            *)
SlowerSinceDrawn ==
  /\ lastDrawn = IF draws = <<>> THEN 0 ELSE draws[Len(draws)].at
  /\ \A i \in 1..Len(draws) : /\ draws[i].timelock <= schedule.timelock
                              /\ draws[i].at > 0
  /\ ~scheduled => schedule = [timelock |-> MinTimelock, share |-> Whole]

VaultInv == VaultTypeOK /\ SlowerSinceDrawn /\ DrawsApart

LEMMA DivisionFacts ==
  ASSUME NEW a \in Nat
  PROVE  a \div Denominator \in Nat /\ (a >= Denominator => a \div Denominator >= 1)
  BY DEF Denominator

(* A withdrawal that finds something takes something, and no more than     *)
(* there is: a cap rounded down to nothing is raised to one unit.          *)
LEMMA DrawIsOfTheVault ==
  ASSUME VaultTypeOK, vault > 0, NEW request \in Nat
  PROVE  DrawAmount(request) \in 1..vault
  <1> USE VaultAssumption
  <1>1. schedule.share \in 1..Whole /\ vault \in Nat
    BY DEF VaultTypeOK
  <1>2. vault * schedule.share \in Nat
    BY <1>1
  <1>3. schedule.share = Whole => vault * schedule.share >= Denominator
    <2>1. ASSUME schedule.share = Whole PROVE vault * Whole >= Whole
      BY <1>1, <2>1
    <2> QED BY <1>1, <2>1 DEF Denominator
  <1>4. (vault * schedule.share) \div Denominator \in Nat
        /\ (schedule.share = Whole
              => (vault * schedule.share) \div Denominator >= 1)
    BY <1>2, <1>3, DivisionFacts
  <1>5. DrawCap \in Nat /\ DrawCap >= 1
    BY <1>1, <1>4 DEF DrawCap, CheckedBpsFloor
  <1> QED BY <1>1, <1>5 DEF DrawAmount, Least

LEMMA VaultInvInit == VaultInit => VaultInv
  <1> SUFFICES ASSUME VaultInit PROVE VaultInv
    OBVIOUS
  <1> USE ClockAssumption, VaultAssumption DEF VaultInit
  <1>1. draws \in Seq([at : Nat, timelock : Nat, amount : Nat, of : Nat])
        /\ Len(draws) = 0
    BY EmptySeq
  <1>2. schedule \in [timelock : Nat, share : 1..Whole]
        /\ schedule.timelock >= MinTimelock
    OBVIOUS
  <1>3. scheduled \in BOOLEAN
    OBVIOUS
  <1>7. now \in StartTime..MaxTime /\ vault \in 0..MaxVault /\ lastDrawn \in Nat
    OBVIOUS
  <1>4. VaultTypeOK
    <2> HIDE DEF VaultInit
    <2> QED BY <1>1, <1>2, <1>3, <1>7 DEF VaultTypeOK
  <1>5. SlowerSinceDrawn
    BY <1>1 DEF SlowerSinceDrawn
  <1>6. DrawsApart
    BY <1>1 DEF DrawsApart
  <1> QED BY <1>4, <1>5, <1>6 DEF VaultInv

LEMMA WithdrawKeeps ==
  ASSUME VaultInv, NEW request \in Requests, WithdrawFees(request)
  PROVE  VaultInv'
  <1> DEFINE d == [at |-> now, timelock |-> schedule.timelock,
                   amount |-> DrawAmount(request), of |-> vault]
  <1> USE VaultAssumption, ClockAssumption
  <1>1. vault \in Nat /\ now \in Nat /\ now > 0 /\ schedule.timelock \in Nat
    BY DEF VaultInv, VaultTypeOK
  <1>2. DrawAmount(request) \in 1..vault
    BY <1>1, DrawIsOfTheVault DEF VaultInv, WithdrawFees
  <1>3. d \in [at : Nat, timelock : Nat, amount : Nat, of : Nat]
    BY <1>1, <1>2
  <1>4. /\ draws' \in Seq([at : Nat, timelock : Nat, amount : Nat, of : Nat])
        /\ Len(draws') = Len(draws) + 1
        /\ \A i \in 1..Len(draws) : draws'[i] = draws[i]
        /\ draws'[Len(draws')] = d
    BY <1>3, AppendProperties DEF VaultInv, VaultTypeOK, WithdrawFees
  <1>5. VaultTypeOK'
    BY <1>1, <1>2, <1>4 DEF VaultInv, VaultTypeOK, WithdrawFees
  <1>6. Len(draws) \in Nat
    BY DEF VaultInv, VaultTypeOK
  <1>7. SlowerSinceDrawn'
    <2>1. draws' # <<>> /\ lastDrawn' = draws'[Len(draws')].at
      BY <1>4, <1>6 DEF WithdrawFees
    <2>2. schedule' = schedule /\ scheduled' = scheduled
      BY DEF WithdrawFees
    <2>3. ASSUME NEW i \in 1..Len(draws')
          PROVE  draws'[i].timelock <= schedule.timelock /\ draws'[i].at > 0
      <3>1. CASE i \in 1..Len(draws)
        BY <3>1, <1>4 DEF VaultInv, SlowerSinceDrawn
      <3>2. CASE i = Len(draws')
        BY <3>2, <1>1, <1>4, SMTT(60)
      <3> QED BY <1>4, <1>6, <3>1, <3>2
    <2> QED BY <2>1, <2>2, <2>3 DEF SlowerSinceDrawn, VaultInv
  <1>8. DrawsApart'
    <2>1. ASSUME NEW i \in 1..Len(draws') PROVE draws'[i].amount \in 1..draws'[i].of
      <3>1. CASE i \in 1..Len(draws)
        BY <3>1, <1>4 DEF VaultInv, DrawsApart
      <3>2. CASE i = Len(draws')
        BY <3>2, <1>2, <1>4
      <3> QED BY <1>4, <1>6, <3>1, <3>2
    <2>2. ASSUME NEW i \in 1..(Len(draws') - 1)
          PROVE  draws'[i + 1].at >= draws'[i].at + draws'[i].timelock
      <3>1. CASE i < Len(draws)
        <4>1. i \in 1..(Len(draws) - 1) /\ i + 1 \in 1..Len(draws)
              /\ i \in 1..Len(draws)
          BY <3>1, <1>4, <1>6
        <4> QED BY <4>1, <1>4 DEF VaultInv, DrawsApart
      <3>2. CASE i = Len(draws)
        <4>1. draws'[i + 1] = d /\ draws'[i] = draws[i] /\ i \in 1..Len(draws)
          BY <3>2, <1>4, <1>6
        <4>2. lastDrawn = draws[i].at /\ draws[i].at > 0
              /\ draws[i].timelock <= schedule.timelock
          BY <3>2, <4>1 DEF VaultInv, SlowerSinceDrawn
        <4>3. draws[i] \in [at : Nat, timelock : Nat, amount : Nat, of : Nat]
          BY <4>1, ElementOfSeq DEF VaultInv, VaultTypeOK
        <4>4. now >= lastDrawn + schedule.timelock
          BY <4>2, <4>3, <1>1, SMTT(60) DEF WithdrawFees, Timelocked
        <4> QED BY <4>1, <4>2, <4>3, <4>4, <1>1, SMTT(60)
      <3> QED BY <1>4, <1>6, <3>1, <3>2
    <2> QED BY <2>1, <2>2 DEF DrawsApart
  <1> QED BY <1>5, <1>7, <1>8 DEF VaultInv

LEMMA VaultInvStep ==
  ASSUME VaultInv, [VaultNext]_<<now, vaultVars>>
  PROVE  VaultInv'
  <1> USE VaultAssumption, ClockAssumption
  <1>1. ASSUME NEW a \in FeeAmounts, RecordFeeCollection(a) PROVE VaultInv'
    BY <1>1 DEF RecordFeeCollection, VaultInv, VaultTypeOK, SlowerSinceDrawn,
                DrawsApart
  <1>2. ASSUME NEW a \in Requests, WithdrawCollectedFees(a) PROVE VaultInv'
    <2>1. vault' \in 0..MaxVault
      BY <1>2 DEF WithdrawCollectedFees, VaultInv, VaultTypeOK
    <2> QED BY <1>2, <2>1 DEF WithdrawCollectedFees, VaultInv, VaultTypeOK,
                              SlowerSinceDrawn, DrawsApart
  <1>3. ASSUME NEW t \in VaultTimelocks, NEW s \in VaultShares, SetSchedule(t, s)
        PROVE  VaultInv'
    <2>1. VaultTypeOK' /\ scheduled'
      BY <1>3 DEF SetSchedule, VaultInv, VaultTypeOK
    <2>2. schedule'.timelock >= schedule.timelock
      BY <1>3 DEF SetSchedule, VaultInv, VaultTypeOK, SlowerSinceDrawn
    <2>3. \A i \in 1..Len(draws) : draws[i].timelock \in Nat
      <3> SUFFICES ASSUME NEW i \in 1..Len(draws) PROVE draws[i].timelock \in Nat
        OBVIOUS
      <3>1. draws[i] \in [at : Nat, timelock : Nat, amount : Nat, of : Nat]
        BY ElementOfSeq DEF VaultInv, VaultTypeOK
      <3> QED BY <3>1
    <2>4. SlowerSinceDrawn'
      <3>1. draws' = draws /\ lastDrawn' = lastDrawn
        BY <1>3 DEF SetSchedule
      <3>2. schedule.timelock \in Nat /\ schedule'.timelock \in Nat
        BY <2>1 DEF VaultInv, VaultTypeOK
      <3>3. \A i \in 1..Len(draws) :
              /\ draws[i].timelock <= schedule'.timelock
              /\ draws[i].at > 0
        BY <2>2, <2>3, <3>2 DEF VaultInv, SlowerSinceDrawn
      <3> QED BY <2>1, <3>1, <3>3 DEF VaultInv, SlowerSinceDrawn
    <2> QED BY <1>3, <2>1, <2>4 DEF SetSchedule, VaultInv, DrawsApart
  <1>4. CASE Tick /\ UNCHANGED vaultVars
    BY <1>4 DEF Tick, vaultVars, VaultInv, VaultTypeOK, SlowerSinceDrawn,
                DrawsApart
  <1>5. CASE UNCHANGED <<now, vaultVars>>
    BY <1>5 DEF vaultVars, VaultInv, VaultTypeOK, SlowerSinceDrawn, DrawsApart
  <1> QED BY <1>1, <1>2, <1>3, <1>4, <1>5, WithdrawKeeps DEF VaultNext

(* Scheduled withdrawals are at least the timelock apart that was in force *)
(* at the first of them and each takes something of what there was,        *)
(* whatever is collected, withdrawn past the schedule and rescheduled      *)
(* (withdraw_fees, set_schedule).                                          *)
THEOREM WithdrawalsApart == VaultSpec => [](VaultTypeOK /\ DrawsApart)
  <1>1. VaultSpec => []VaultInv
    BY VaultInvInit, VaultInvStep, PTL DEF VaultSpec
  <1>2. VaultInv => VaultTypeOK /\ DrawsApart
    BY DEF VaultInv
  <1> QED BY <1>1, <1>2, PTL

-----------------------------------------------------------------------------
(* The fee configuration.                                                  *)

(* What is committed or queued was announced for the time it may apply.    *)
CommitmentsAnnounced ==
  /\ feeCommit # NoFeeConfig =>
       [config |-> feeCommit.hash, from |-> feeCommit.at + RevealDelay] \in announced
  /\ feeQueue # NoFeeConfig =>
       [config |-> feeQueue.config, from |-> feeQueue.eta] \in announced

(* As long as nothing was queued and applied, the history has an entry for *)
(* every change, of what it replaced and of when; changes are in order of  *)
(* time, and the last one is in force.                                     *)
ChangesRecorded ==
  (\A i \in 1..Len(feeChanges) : ~feeChanges[i].queued) =>
    /\ Len(feeHistory) = Len(feeChanges)
    /\ \A i \in 1..Len(feeChanges) :
         /\ feeHistory[i].replacedAt = feeChanges[i].at
         /\ feeHistory[i].config = IF i = 1 THEN DefaultConfig
                                            ELSE feeChanges[i - 1].config
    /\ feeConfig = IF feeChanges = <<>> THEN DefaultConfig
                   ELSE feeChanges[Len(feeChanges)].config

ChangesInOrder ==
  /\ \A i \in 1..Len(feeChanges) : feeChanges[i].at <= now
  /\ \A i, j \in 1..Len(feeChanges) : i < j => feeChanges[i].at <= feeChanges[j].at

FeeConfigInv == /\ FeeConfigTypeOK
                /\ CommitmentsAnnounced
                /\ ChangesWereAnnounced
                /\ ChangesInOrder
                /\ ChangesRecorded

FeeChange == [config : ValidConfigs, at : Nat, queued : BOOLEAN]

FeeRecord == [config : ValidConfigs, replacedAt : Nat]

LEMMA FeeConfigInvInit == FeeConfigInit => FeeConfigInv
  <1> SUFFICES ASSUME FeeConfigInit PROVE FeeConfigInv
    OBVIOUS
  <1> USE ClockAssumption, FeeConfigAssumption DEF FeeConfigInit
  <1>1. feeChanges \in Seq(FeeChange) /\ Len(feeChanges) = 0
        /\ feeHistory \in Seq(FeeRecord) /\ Len(feeHistory) = 0
    BY EmptySeq
  <1>2. FeeConfigTypeOK
    BY <1>1 DEF FeeConfigTypeOK, FeeChange, FeeRecord
  <1>3. CommitmentsAnnounced
    BY DEF CommitmentsAnnounced
  <1>4. ChangesWereAnnounced /\ ChangesInOrder /\ ChangesRecorded
    BY <1>1 DEF ChangesWereAnnounced, ChangesInOrder, ChangesRecorded
  <1> QED BY <1>2, <1>3, <1>4 DEF FeeConfigInv

(* What a change appends.                                                  *)
LEMMA ChangeAppends ==
  ASSUME FeeConfigInv, NEW c \in ValidConfigs, NEW queued \in BOOLEAN,
         Change(c, queued)
  PROVE  LET d == [config |-> c, at |-> now, queued |-> queued] IN
         /\ feeChanges' \in Seq(FeeChange)
         /\ Len(feeChanges) \in Nat
         /\ Len(feeChanges') = Len(feeChanges) + 1
         /\ \A i \in 1..Len(feeChanges) : feeChanges'[i] = feeChanges[i]
         /\ feeChanges'[Len(feeChanges')] = d
         /\ feeChanges' # <<>>
  <1> DEFINE d == [config |-> c, at |-> now, queued |-> queued]
  <1>1. now \in Nat
    BY ClockAssumption DEF FeeConfigInv, FeeConfigTypeOK
  <1>2. d \in FeeChange /\ feeChanges \in Seq(FeeChange)
    BY <1>1 DEF FeeChange, FeeConfigInv, FeeConfigTypeOK
  <1>3. feeChanges' = Append(feeChanges, d)
    BY DEF Change
  <1> QED BY <1>2, <1>3, AppendProperties

(* A change of what was announced in time keeps the announcements and the  *)
(* order.                                                                  *)
LEMMA ChangeKeepsOrder ==
  ASSUME FeeConfigInv, NEW c \in ValidConfigs, NEW queued \in BOOLEAN,
         Change(c, queued), now' = now, announced' = announced,
         \E a \in announced : a.config = c /\ a.from <= now
  PROVE  ChangesWereAnnounced' /\ ChangesInOrder'
  <1>0. /\ feeChanges' \in Seq(FeeChange)
        /\ Len(feeChanges) \in Nat
        /\ Len(feeChanges') = Len(feeChanges) + 1
        /\ \A i \in 1..Len(feeChanges) : feeChanges'[i] = feeChanges[i]
        /\ feeChanges'[Len(feeChanges')] = [config |-> c, at |-> now, queued |-> queued]
        /\ feeChanges' # <<>>
    BY ChangeAppends
  <1>1. now \in Nat
    BY ClockAssumption DEF FeeConfigInv, FeeConfigTypeOK
  <1>2. ASSUME NEW i \in 1..Len(feeChanges')
        PROVE  /\ feeChanges'[i].at <= now
               /\ \E a \in announced : /\ a.config = feeChanges'[i].config
                                       /\ a.from <= feeChanges'[i].at
    <2>1. CASE i \in 1..Len(feeChanges)
      BY <2>1, <1>0
         DEF FeeConfigInv, ChangesWereAnnounced, ChangesInOrder
    <2>2. CASE i = Len(feeChanges')
      BY <2>2, <1>1, <1>0
    <2> QED BY <2>1, <2>2, <1>0
  <1>3. ASSUME NEW i \in 1..Len(feeChanges'), NEW j \in 1..Len(feeChanges'), i < j
        PROVE  feeChanges'[i].at <= feeChanges'[j].at
    <2>1. i \in 1..Len(feeChanges)
      BY <1>3, <1>0
    <2>2. CASE j \in 1..Len(feeChanges)
      BY <2>1, <2>2, <1>3, <1>0 DEF FeeConfigInv, ChangesInOrder
    <2>3. CASE j = Len(feeChanges')
      BY <2>1, <2>3, <1>0 DEF FeeConfigInv, ChangesInOrder
    <2> QED BY <2>2, <2>3, <1>0
  <1> QED BY <1>2, <1>3 DEF ChangesWereAnnounced, ChangesInOrder

LEMMA RevealKeeps ==
  ASSUME FeeConfigInv, NEW c \in FeeConfigs, RevealFeeConfig(c)
  PROVE  FeeConfigInv'
  <1> USE FeeConfigAssumption
  <1>1. now \in Nat /\ now' = now /\ c \in ValidConfigs /\ Change(c, FALSE)
        /\ announced' = announced /\ feeQueue' = feeQueue
        /\ feeCommit' = NoFeeConfig /\ feeConfig' = c
    BY ClockAssumption
       DEF FeeConfigInv, FeeConfigTypeOK, RevealFeeConfig, Change
  <1>0. /\ feeChanges' \in Seq(FeeChange)
        /\ Len(feeChanges) \in Nat
        /\ Len(feeChanges') = Len(feeChanges) + 1
        /\ \A i \in 1..Len(feeChanges) : feeChanges'[i] = feeChanges[i]
        /\ feeChanges'[Len(feeChanges')] = [config |-> c, at |-> now, queued |-> FALSE]
        /\ feeChanges' # <<>>
    BY <1>1, ChangeAppends
  <1>2. \E a \in announced : a.config = c /\ a.from <= now
    BY DEF FeeConfigInv, CommitmentsAnnounced, RevealFeeConfig
  <1>3. ChangesWereAnnounced' /\ ChangesInOrder'
    BY <1>1, <1>2, ChangeKeepsOrder
  <1>4. CommitmentsAnnounced'
    BY <1>1 DEF FeeConfigInv, CommitmentsAnnounced
  <1> DEFINE r == [config |-> feeConfig, replacedAt |-> now]
  <1>5. /\ feeHistory' \in Seq(FeeRecord)
        /\ Len(feeHistory) \in Nat
        /\ Len(feeHistory') = Len(feeHistory) + 1
        /\ \A i \in 1..Len(feeHistory) : feeHistory'[i] = feeHistory[i]
        /\ feeHistory'[Len(feeHistory')] = r
    <2>1. r \in FeeRecord /\ feeHistory \in Seq(FeeRecord)
      BY <1>1 DEF FeeRecord, FeeConfigInv, FeeConfigTypeOK
    <2>2. feeHistory' = Append(feeHistory, r)
      BY DEF RevealFeeConfig
    <2> QED BY <2>1, <2>2, AppendProperties
  <1>6. FeeConfigTypeOK'
    BY <1>1, <1>5, <1>0
       DEF FeeConfigInv, FeeConfigTypeOK, FeeRecord, FeeChange
  <1>7. ChangesRecorded'
    <2> SUFFICES ASSUME \A i \in 1..Len(feeChanges') : ~feeChanges'[i].queued
                 PROVE  /\ Len(feeHistory') = Len(feeChanges')
                        /\ \A i \in 1..Len(feeChanges') :
                             /\ feeHistory'[i].replacedAt = feeChanges'[i].at
                             /\ feeHistory'[i].config =
                                  IF i = 1 THEN DefaultConfig
                                  ELSE feeChanges'[i - 1].config
                        /\ feeConfig' = feeChanges'[Len(feeChanges')].config
      BY <1>1, <1>0 DEF ChangesRecorded
    <2>1. \A i \in 1..Len(feeChanges) : ~feeChanges[i].queued
      BY <1>1, <1>0
    <2>2. Len(feeHistory') = Len(feeChanges')
      BY <2>1, <1>1, <1>5, <1>0 DEF FeeConfigInv, ChangesRecorded
    <2>3. feeConfig' = feeChanges'[Len(feeChanges')].config
      BY <1>1, <1>0
    <2>4. ASSUME NEW i \in 1..Len(feeChanges')
          PROVE  /\ feeHistory'[i].replacedAt = feeChanges'[i].at
                 /\ feeHistory'[i].config = IF i = 1 THEN DefaultConfig
                                            ELSE feeChanges'[i - 1].config
      <3>1. CASE i \in 1..Len(feeChanges)
        <4>1. /\ feeHistory[i].replacedAt = feeChanges[i].at
              /\ feeHistory[i].config = IF i = 1 THEN DefaultConfig
                                        ELSE feeChanges[i - 1].config
              /\ Len(feeHistory) = Len(feeChanges)
          BY <3>1, <2>1 DEF FeeConfigInv, ChangesRecorded
        <4>2. feeHistory'[i] = feeHistory[i] /\ feeChanges'[i] = feeChanges[i]
          BY <3>1, <4>1, <1>1, <1>5, <1>0
        <4>3. i # 1 => feeChanges'[i - 1] = feeChanges[i - 1]
          BY <3>1, <1>1, <1>0
        <4> QED BY <4>1, <4>2, <4>3
      <3>2. CASE i = Len(feeChanges')
        <4>1. feeHistory'[i] = r /\ feeChanges'[i].at = now
          BY <3>2, <2>2, <1>1, <1>5, <1>0
        <4>2. feeConfig = IF i = 1 THEN DefaultConfig
                          ELSE feeChanges'[i - 1].config
          <5>1. feeConfig = IF feeChanges = <<>> THEN DefaultConfig
                            ELSE feeChanges[Len(feeChanges)].config
            BY <2>1 DEF FeeConfigInv, ChangesRecorded
          <5>2. feeChanges \in Seq(FeeChange)
            BY DEF FeeConfigInv, FeeConfigTypeOK, FeeChange
          <5>3. CASE feeChanges = <<>>
            BY <5>1, <5>3, <3>2, <1>1, <1>0
          <5>4. CASE feeChanges # <<>>
            <6>1. Len(feeChanges) \in 1..Len(feeChanges) /\ i - 1 = Len(feeChanges)
                  /\ i # 1
              BY <5>2, <5>4, <3>2, <1>1, EmptySeq, <1>0
            <6> QED BY <5>1, <5>4, <6>1, <1>1, <1>0
          <5> QED BY <5>3, <5>4
        <4> QED BY <4>1, <4>2
      <3> QED BY <3>1, <3>2, <1>1, <1>0
    <2> QED BY <2>2, <2>3, <2>4
  <1> QED BY <1>3, <1>4, <1>6, <1>7 DEF FeeConfigInv

LEMMA ApplyKeeps ==
  ASSUME FeeConfigInv, ApplyUpdate
  PROVE  FeeConfigInv'
  <1> USE FeeConfigAssumption
  <1> DEFINE c == feeQueue.config
  <1>1. now \in Nat /\ now' = now /\ c \in ValidConfigs /\ Change(c, TRUE)
        /\ announced' = announced /\ feeHistory' = feeHistory
        /\ feeCommit' = feeCommit /\ feeQueue' = NoFeeConfig /\ feeConfig' = c
    BY ClockAssumption DEF FeeConfigInv, FeeConfigTypeOK, ApplyUpdate, Change
  <1> HIDE DEF c
  <1>0. /\ feeChanges' \in Seq(FeeChange)
        /\ Len(feeChanges) \in Nat
        /\ Len(feeChanges') = Len(feeChanges) + 1
        /\ \A i \in 1..Len(feeChanges) : feeChanges'[i] = feeChanges[i]
        /\ feeChanges'[Len(feeChanges')] = [config |-> c, at |-> now, queued |-> TRUE]
        /\ feeChanges' # <<>>
    BY <1>1, ChangeAppends
  <1>2. \E a \in announced : a.config = c /\ a.from <= now
    BY DEF FeeConfigInv, CommitmentsAnnounced, ApplyUpdate, c
  <1>3. ChangesWereAnnounced' /\ ChangesInOrder'
    BY <1>1, <1>2, ChangeKeepsOrder
  <1>4. CommitmentsAnnounced'
    BY <1>1 DEF FeeConfigInv, CommitmentsAnnounced
  <1>5. FeeConfigTypeOK'
    BY <1>1, <1>0 DEF FeeConfigInv, FeeConfigTypeOK, FeeChange
  <1>6. feeChanges'[Len(feeChanges')].queued
        /\ Len(feeChanges') \in 1..Len(feeChanges')
    BY <1>1, <1>0
  <1>7. ChangesRecorded'
    BY <1>6 DEF ChangesRecorded
  <1> QED BY <1>3, <1>4, <1>5, <1>7 DEF FeeConfigInv

LEMMA FeeConfigInvStep ==
  ASSUME FeeConfigInv, [FeeConfigNext]_<<now, feeConfigVars>>
  PROVE  FeeConfigInv'
  <1> USE FeeConfigAssumption, ClockAssumption
  <1>1. ASSUME NEW c \in FeeConfigs, CommitFeeConfig(c) PROVE FeeConfigInv'
    <2>1. FeeConfigTypeOK'
      BY <1>1 DEF CommitFeeConfig, FeeConfigInv, FeeConfigTypeOK
    <2>2. CommitmentsAnnounced' /\ ChangesWereAnnounced' /\ ChangesInOrder'
          /\ ChangesRecorded'
      BY <1>1 DEF CommitFeeConfig, FeeConfigInv, CommitmentsAnnounced,
                  ChangesWereAnnounced, ChangesInOrder, ChangesRecorded
    <2> QED BY <2>1, <2>2 DEF FeeConfigInv
  <1>2. ASSUME NEW c \in FeeConfigs, NEW d \in QueueDelays, QueueUpdate(c, d)
        PROVE  FeeConfigInv'
    <2>1. FeeConfigTypeOK'
      BY <1>2 DEF QueueUpdate, FeeConfigInv, FeeConfigTypeOK
    <2>2. CommitmentsAnnounced' /\ ChangesWereAnnounced' /\ ChangesInOrder'
          /\ ChangesRecorded'
      BY <1>2 DEF QueueUpdate, FeeConfigInv, CommitmentsAnnounced,
                  ChangesWereAnnounced, ChangesInOrder, ChangesRecorded
    <2> QED BY <2>1, <2>2 DEF FeeConfigInv
  <1>3. CASE CancelQueuedUpdate
    BY <1>3 DEF CancelQueuedUpdate, FeeConfigInv, FeeConfigTypeOK,
                CommitmentsAnnounced, ChangesWereAnnounced, ChangesInOrder,
                ChangesRecorded
  <1>4. CASE Tick /\ UNCHANGED feeConfigVars
    <2>1. now \in Nat /\ \A i \in 1..Len(feeChanges) : feeChanges[i].at \in Nat
      <3> SUFFICES ASSUME NEW i \in 1..Len(feeChanges)
                   PROVE  feeChanges[i].at \in Nat
        BY DEF FeeConfigInv, FeeConfigTypeOK
      <3>1. feeChanges[i] \in FeeChange
        BY ElementOfSeq DEF FeeConfigInv, FeeConfigTypeOK, FeeChange
      <3> QED BY <3>1 DEF FeeChange
    <2>2. FeeConfigTypeOK'
      BY <1>4 DEF Tick, feeConfigVars, FeeConfigInv, FeeConfigTypeOK
    <2>3. ChangesInOrder'
      BY <1>4, <2>1 DEF Tick, feeConfigVars, FeeConfigInv, ChangesInOrder
    <2> QED BY <1>4, <2>2, <2>3 DEF Tick, feeConfigVars, FeeConfigInv,
               CommitmentsAnnounced, ChangesWereAnnounced, ChangesRecorded
  <1>5. CASE UNCHANGED <<now, feeConfigVars>>
    BY <1>5 DEF feeConfigVars, FeeConfigInv, FeeConfigTypeOK,
                CommitmentsAnnounced, ChangesWereAnnounced, ChangesInOrder,
                ChangesRecorded
  <1> QED BY <1>1, <1>2, <1>3, <1>4, <1>5, RevealKeeps, ApplyKeeps
          DEF FeeConfigNext

(* No configuration comes into force that was not announced a full delay   *)
(* before, through commitments and queued updates that are replaced,       *)
(* cancelled and interleaved (update_fee_config, apply_update).            *)
THEOREM NoUnannouncedChange ==
  FeeConfigSpec => [](FeeConfigTypeOK /\ ChangesWereAnnounced)
  <1>1. FeeConfigSpec => []FeeConfigInv
    BY FeeConfigInvInit, FeeConfigInvStep, PTL DEF FeeConfigSpec
  <1>2. FeeConfigInv => FeeConfigTypeOK /\ ChangesWereAnnounced
    BY DEF FeeConfigInv
  <1> QED BY <1>1, <1>2, PTL

-----------------------------------------------------------------------------
(* A set of natural numbers that is not empty has a least one, and one     *)
(* that is bounded a greatest one.                                         *)
LEMMA LeastIndex ==
  ASSUME NEW n \in Nat, NEW S \in SUBSET (1..n), S # {}
  PROVE  \E i \in S : \A j \in S : i <= j
  <1> DEFINE R == {p \in Nat \X Nat : p[1] < p[2]}
  <1>1. IsWellFoundedOn(R, Nat)
    BY NatLessThanWellFounded DEF OpToRel
  <1>2. \A i, j \in S : i < j => <<i, j>> \in R
    OBVIOUS
  <1>3. S \subseteq Nat
    OBVIOUS
  <1> HIDE DEF R
  <1>4. PICK i \in S : \A j \in S : ~(<<j, i>> \in R)
    BY <1>1, <1>3, WFMin
  <1>5. \A j \in S : ~(j < i)
    BY <1>2, <1>4
  <1> QED BY <1>3, <1>5

LEMMA GreatestIndex ==
  ASSUME NEW n \in Nat, NEW S \in SUBSET (1..n), S # {}
  PROVE  \E i \in S : \A j \in S : j <= i
  <1> DEFINE T == {n + 1 - i : i \in S}
  <1>1. T \subseteq 1..n /\ T # {}
    <2>1. \A i \in S : i \in 1..n /\ n + 1 - i \in 1..n
      OBVIOUS
    <2> QED BY <2>1
  <1>2. PICK k \in T : \A j \in T : k <= j
    BY <1>1, LeastIndex
  <1>3. PICK i \in S : k = n + 1 - i
    BY <1>2
  <1>4. ASSUME NEW j \in S PROVE j <= i
    <2>1. k <= n + 1 - j
      BY <1>2
    <2> QED BY <1>3, <2>1
  <1> QED BY <1>4

(* The configuration the history gives for a time is the one that was in   *)
(* force then.                                                             *)
LEMMA HistoryAnswers ==
  ASSUME FeeConfigInv
  PROVE  FeeConfigRemembered
  <1> SUFFICES ASSUME \A i \in 1..Len(feeChanges) : ~feeChanges[i].queued,
                      NEW t \in StartTime..now
               PROVE  FeeConfigAt(t) = InForceAt(t)
    BY DEF FeeConfigRemembered
  <1> DEFINE n == Len(feeChanges)
             later == {i \in 1..Len(feeHistory) : feeHistory[i].replacedAt > t}
             past == {i \in 1..n : feeChanges[i].at <= t}
  <1>1. n \in Nat /\ feeChanges \in Seq(FeeChange)
    BY LenProperties DEF FeeConfigInv, FeeConfigTypeOK, FeeChange
  <1>2. ASSUME NEW i \in 1..n PROVE feeChanges[i].at \in Nat
    <2>1. feeChanges[i] \in FeeChange
      BY <1>1, ElementOfSeq
    <2> QED BY <2>1 DEF FeeChange
  <1>3. /\ Len(feeHistory) = n
        /\ \A i \in 1..n :
             /\ feeHistory[i].replacedAt = feeChanges[i].at
             /\ feeHistory[i].config = IF i = 1 THEN DefaultConfig
                                                ELSE feeChanges[i - 1].config
        /\ feeConfig = IF feeChanges = <<>> THEN DefaultConfig
                       ELSE feeChanges[n].config
    BY DEF FeeConfigInv, ChangesRecorded
  <1>4. t \in Nat
    BY ClockAssumption DEF FeeConfigInv, FeeConfigTypeOK
  <1>5. later = {i \in 1..n : feeChanges[i].at > t}
    BY <1>3
  <1>6. \A i, j \in 1..n : i < j => feeChanges[i].at <= feeChanges[j].at
    BY DEF FeeConfigInv, ChangesInOrder
  <1>7. CASE later = {}
    <2>1. FeeConfigAt(t) = feeConfig
      BY <1>7 DEF FeeConfigAt
    <2>2. past = 1..n
      BY <1>2, <1>4, <1>5, <1>7
    <2>3. CASE n = 0
      BY <2>1, <2>2, <2>3, <1>1, <1>3, EmptySeq DEF InForceAt
    <2>4. CASE n # 0
      <3>1. n \in past /\ \A i \in past : (\A j \in past : j <= i) <=> i = n
        BY <2>2, <2>4, <1>1
      <3>2. (CHOOSE i \in past : \A j \in past : j <= i) = n
        BY <3>1
      <3>3. InForceAt(t) = feeChanges[n].config
        BY <3>1, <3>2 DEF InForceAt
      <3>4. feeChanges # <<>>
        BY <2>4, <1>1
      <3> QED BY <2>1, <3>3, <3>4, <1>3
    <2> QED BY <2>3, <2>4
  <1>8. CASE later # {}
    <2>1. PICK k \in later : \A j \in later : k <= j
      <3>1. later \in SUBSET (1..n)
        BY <1>5
      <3> HIDE DEF later
      <3> QED BY <3>1, <1>1, <1>8, LeastIndex
    <2>2. k \in 1..n /\ feeChanges[k].at > t
      BY <1>5, <2>1
    <2>3. \A i \in later : (\A j \in later : i <= j) <=> i = k
      BY <2>1, <1>3, <1>1
    <2>4. (CHOOSE i \in later : \A j \in later : i <= j) = k
      BY <2>1, <2>3
    <2>5. FeeConfigAt(t) = IF k = 1 THEN DefaultConfig ELSE feeChanges[k - 1].config
      BY <2>2, <2>4, <1>3, <1>8 DEF FeeConfigAt
    <2>6. past = 1..(k - 1)
      <3>1. ASSUME NEW i \in 1..n, i < k PROVE feeChanges[i].at <= t
        <4>1. i \notin later
          BY <3>1, <2>1, <2>2, <1>1
        <4> QED BY <4>1, <1>2, <1>4, <1>5
      <3>2. ASSUME NEW i \in 1..n, k <= i PROVE ~(feeChanges[i].at <= t)
        <4>1. feeChanges[k].at <= feeChanges[i].at
          BY <3>2, <2>2, <1>1, <1>2, <1>6
        <4> QED BY <4>1, <2>2, <1>2, <1>4
      <3> QED BY <3>1, <3>2, <2>2, <1>1
    <2>7. CASE k = 1
      BY <2>5, <2>6, <2>7 DEF InForceAt
    <2>8. CASE k # 1
      <3>1. k - 1 \in past /\ \A i \in past : (\A j \in past : j <= i) <=> i = k - 1
        <4>1. PICK l \in Nat \ {0} : l = k - 1
          BY <2>2, <2>8, <1>1
        <4>2. l \in 1..l /\ \A i \in 1..l : (\A j \in 1..l : j <= i) <=> i = l
          OBVIOUS
        <4> HIDE DEF past
        <4> QED BY <2>6, <4>1, <4>2
      <3>2. (CHOOSE i \in past : \A j \in past : j <= i) = k - 1
        BY <3>1
      <3>3. InForceAt(t) = feeChanges[k - 1].config
        BY <3>1, <3>2 DEF InForceAt
      <3> QED BY <2>5, <2>8, <3>3
    <2> QED BY <2>7, <2>8
  <1> QED BY <1>7, <1>8

(* What get_fee_config_for_timestamp answers for any past time is what was *)
(* in force then, as long as every change was revealed and none queued     *)
(* (update_fee_config writes the history, apply_update does not).          *)
THEOREM HistoryIsTrue == FeeConfigSpec => []FeeConfigRemembered
  <1>1. FeeConfigSpec => []FeeConfigInv
    BY FeeConfigInvInit, FeeConfigInvStep, PTL DEF FeeConfigSpec
  <1> QED BY <1>1, HistoryAnswers, PTL

-----------------------------------------------------------------------------
(* The administrators and their roles.                                     *)

LEMMA HoldersChange ==
  ASSUME roles \in [Addresses -> Assignments \cup {NoRecord}],
         NEW a \in Addresses
  PROVE  /\ \A n \in Assignments : roles' = [roles EXCEPT ![a] = n]
              => /\ roles' \in [Addresses -> Assignments \cup {NoRecord}]
                 /\ Holders' = Holders \cup {a}
         /\ roles' = [roles EXCEPT ![a] = NoRecord]
              => /\ roles' \in [Addresses -> Assignments \cup {NoRecord}]
                 /\ Holders' = Holders \ {a}
  BY NoRecordAssumption DEF Holders

(* Whoever is listed, the list is finite.                                  *)
LEMMA ListsFinite == \A S \in SUBSET Addresses : IsFiniteSet(S)
  BY FS_Subset, AdminsAssumption

(* Two roles make an assignment each way.                                  *)
LEMMA AssignmentsMade ==
  /\ \A r \in AdminRoles, b \in BOOLEAN : [role |-> r, active |-> b] \in Assignments
  /\ \A n \in Assignments, r \in AdminRoles :
       [n EXCEPT !.role = r] \in Assignments
  /\ \A n \in Assignments, b \in BOOLEAN :
       [n EXCEPT !.active = b] \in Assignments
  BY DEF Assignments

LEMMA FirstRoleChanges ==
  /\ \A a \in Addresses, r \in AdminRoles :
       [admin |-> a, role |-> r, active |-> TRUE]
         \in [admin : Addresses, role : AdminRoles, active : BOOLEAN]
  /\ \A f \in [admin : Addresses, role : AdminRoles, active : BOOLEAN] :
       [f EXCEPT !.active = FALSE]
         \in [admin : Addresses, role : AdminRoles, active : BOOLEAN]
  OBVIOUS

RosterTypeOK ==
  /\ primary \in Addresses
  /\ firstRole \in [admin : Addresses, role : AdminRoles, active : BOOLEAN]
  /\ roles \in [Addresses -> Assignments \cup {NoRecord}]
  /\ roster \subseteq Addresses
  /\ rosterCount \in Nat \cup {NoRecord}
  /\ migrations \in 0..MaxMigrations
  /\ orphaned \in BOOLEAN
  /\ changes \in 0..MaxRosterChanges

RosterInv == RosterTypeOK /\ RosterCounted

LEMMA RosterFinite ==
  ASSUME RosterInv, NEW a
  PROVE  IsFiniteSet(roster) /\ IsFiniteSet(roster \ {a})
  BY ListsFinite DEF RosterInv, RosterTypeOK

LEMMA ChangesCounted ==
  ASSUME RosterTypeOK, RosterChange
  PROVE  changes' \in 0..MaxRosterChanges
  BY AdminsAssumption DEF RosterTypeOK, RosterChange

(* A change of the list that follows the assignments keeps what they agree *)
(* on.                                                                     *)
LEMMA MigrateKeeps ==
  ASSUME RosterInv, MigrateToMultiAdmin
  PROVE  RosterInv'
  <1> USE AdminsAssumption, NoRecordAssumption
  <1> DEFINE n == [role |-> "SuperAdmin", active |-> TRUE]
  <1>1. n \in Assignments
    BY DEF Assignments, AdminRoles
  <1>2. /\ migrations' \in 0..MaxMigrations
        /\ orphaned' \in BOOLEAN
        /\ ~orphaned' => Holders \subseteq {primary}
        /\ roles' = [roles EXCEPT ![primary] = n]
        /\ roster' = {primary} /\ rosterCount' = 1
        /\ UNCHANGED <<primary, firstRole, changes>>
    <2>1. orphaned' = (orphaned \/ ~(Holders \subseteq {primary}))
      BY DEF MigrateToMultiAdmin
    <2>2. orphaned' \in BOOLEAN /\ (~orphaned' => Holders \subseteq {primary})
      BY <2>1, ZenonT(20)
    <2>3. migrations' \in 0..MaxMigrations
      BY DEF MigrateToMultiAdmin, RosterInv, RosterTypeOK
    <2> QED BY <2>2, <2>3 DEF MigrateToMultiAdmin
  <1> HIDE DEF n
  <1>3. /\ roles' \in [Addresses -> Assignments \cup {NoRecord}]
        /\ Holders' = Holders \cup {primary}
    BY <1>1, <1>2, HoldersChange DEF RosterInv, RosterTypeOK
  <1>4. RosterTypeOK'
    BY <1>2, <1>3 DEF RosterInv, RosterTypeOK
  <1>5. Cardinality({primary}) = 1
    BY FS_Singleton
  <1>6. roster' \subseteq Holders' /\ (~orphaned' => roster' = Holders')
    BY <1>2, <1>3
  <1>7. Stored(rosterCount)' = 1
    BY <1>2 DEF Stored
  <1>8. RosterCounted'
    BY <1>2, <1>5, <1>6, <1>7 DEF RosterCounted
  <1> QED BY <1>4, <1>8 DEF RosterInv

LEMMA AddAdminKeeps ==
  ASSUME RosterInv, NEW by \in Addresses, NEW a \in Addresses,
         NEW r \in AdminRoles, AddAdmin(by, a, r)
  PROVE  RosterInv'
  <1> USE AdminsAssumption, NoRecordAssumption
  <1> DEFINE n == [role |-> r, active |-> TRUE]
             c == Stored(rosterCount) + 1
  <1>1. n \in Assignments
    BY DEF Assignments
  <1>2. Stored(rosterCount) \in Nat /\ c \in Nat /\ Stored(c) = c
    BY DEF RosterInv, RosterTypeOK, Stored
  <1>3. /\ changes' \in 0..MaxRosterChanges
        /\ a \notin Holders
        /\ roles' = [roles EXCEPT ![a] = n]
        /\ roster' = roster \cup {a} /\ rosterCount' = c
        /\ UNCHANGED <<primary, firstRole, migrations, orphaned>>
    BY ChangesCounted DEF AddAdmin, IsAdmin, Holders, RosterInv
  <1> HIDE DEF n, c
  <1>4. /\ roles' \in [Addresses -> Assignments \cup {NoRecord}]
        /\ Holders' = Holders \cup {a}
    BY <1>1, <1>3, HoldersChange DEF RosterInv, RosterTypeOK
  <1>5. RosterTypeOK'
    BY <1>2, <1>3, <1>4 DEF RosterInv, RosterTypeOK
  <1>6. /\ Cardinality(roster \cup {a}) = Cardinality(roster) + 1
        /\ Cardinality(roster) \in Nat
    <2>1. a \notin roster
      BY <1>3 DEF RosterInv, RosterCounted
    <2> QED BY <2>1, RosterFinite, FS_AddElement, FS_CardinalityType
  <1>7. Stored(rosterCount)' = Stored(rosterCount) + 1
    BY <1>2, <1>3 DEF c
  <1>8. roster' \subseteq Holders' /\ (~orphaned' => roster' = Holders')
    BY <1>3, <1>4 DEF RosterInv, RosterCounted
  <1>9. /\ Stored(rosterCount) <= Cardinality(roster)
        /\ ~orphaned => Stored(rosterCount) = Cardinality(roster)
    BY DEF RosterInv, RosterCounted
  <1>10. RosterCounted'
    BY <1>2, <1>3, <1>6, <1>7, <1>8, <1>9 DEF RosterCounted
  <1> QED BY <1>5, <1>10 DEF RosterInv

LEMMA RemoveAdminKeeps ==
  ASSUME RosterInv, NEW by \in Addresses, NEW a \in Addresses,
         RemoveAdmin(by, a)
  PROVE  RosterInv'
  <1> USE AdminsAssumption, NoRecordAssumption
  <1> DEFINE c == IF Stored(rosterCount) > 0 THEN rosterCount - 1
                  ELSE rosterCount
  <1>1. /\ changes' \in 0..MaxRosterChanges
        /\ a \in Holders
        /\ roles' = [roles EXCEPT ![a] = NoRecord]
        /\ roster' = roster \ {a} /\ rosterCount' = c
        /\ UNCHANGED <<primary, firstRole, migrations, orphaned>>
    BY ChangesCounted DEF RemoveAdmin, Holders, RosterInv
  <1>2. c \in Nat \cup {NoRecord}
    BY DEF RosterInv, RosterTypeOK, Stored
  <1>3. /\ Stored(rosterCount) > 0 => Stored(c) = Stored(rosterCount) - 1
        /\ ~(Stored(rosterCount) > 0) => Stored(c) = 0
        /\ Stored(rosterCount) \in Nat
    BY DEF RosterInv, RosterTypeOK, Stored
  <1> HIDE DEF c
  <1>4. /\ roles' \in [Addresses -> Assignments \cup {NoRecord}]
        /\ Holders' = Holders \ {a}
    BY <1>1, HoldersChange DEF RosterInv, RosterTypeOK
  <1>5. RosterTypeOK'
    BY <1>1, <1>2, <1>4 DEF RosterInv, RosterTypeOK
  <1>6. /\ Cardinality(roster) \in Nat /\ Cardinality(roster \ {a}) \in Nat
        /\ a \in roster => /\ Cardinality(roster) > 0
                           /\ Cardinality(roster \ {a}) = Cardinality(roster) - 1
        /\ a \notin roster => roster \ {a} = roster
    <2>1. /\ IsFiniteSet(roster) /\ Cardinality(roster) \in Nat
          /\ Cardinality(roster \ {a}) \in Nat
      BY RosterFinite, FS_CardinalityType
    <2>2. ASSUME a \in roster
          PROVE  Cardinality(roster) > 0 /\ Cardinality(roster \ {a}) = Cardinality(roster) - 1
      <3>1. Cardinality(roster \ {a}) = Cardinality(roster) - 1
        BY <2>1, <2>2, FS_RemoveElement
      <3> QED BY <2>1, <3>1
    <2>3. a \notin roster => roster \ {a} = roster
      OBVIOUS
    <2> QED BY <2>1, <2>2, <2>3
  <1>7. Stored(rosterCount)' = Stored(c)
    BY <1>1 DEF Stored
  <1>8. roster' \subseteq Holders' /\ (~orphaned' => roster' = Holders')
    BY <1>1, <1>4 DEF RosterInv, RosterCounted
  <1>9. /\ Stored(rosterCount) <= Cardinality(roster)
        /\ ~orphaned => a \in roster /\ Stored(rosterCount) = Cardinality(roster)
    BY <1>1 DEF RosterInv, RosterCounted
  <1>10. Stored(c) <= Cardinality(roster \ {a})
    <2>1. CASE Stored(rosterCount) > 0
      <3>1. Cardinality(roster \ {a}) >= Cardinality(roster) - 1
        BY <1>6
      <3>2. Stored(c) = Stored(rosterCount) - 1
        BY <1>3, <2>1
      <3> QED BY <1>3, <1>6, <1>9, <3>1, <3>2
    <2>2. CASE ~(Stored(rosterCount) > 0)
      <3>1. Stored(c) = 0
        BY <1>3, <2>2
      <3> QED BY <1>6, <3>1
    <2> QED BY <2>1, <2>2
  <1>11. ~orphaned => Stored(c) = Cardinality(roster \ {a})
    BY <1>3, <1>6, <1>9
  <1>12. RosterCounted'
    BY <1>1, <1>7, <1>8, <1>10, <1>11 DEF RosterCounted
  <1> QED BY <1>5, <1>12 DEF RosterInv

(* A change of one holder's assignment leaves the holders.                 *)
LEMMA AssignmentKeeps ==
  ASSUME RosterInv, NEW a \in Addresses, NEW n \in Assignments,
         roles[a] # NoRecord,
         roles' = [roles EXCEPT ![a] = n],
         changes' \in 0..MaxRosterChanges,
         UNCHANGED <<primary, firstRole, roster, rosterCount, migrations,
                     orphaned>>
  PROVE  RosterInv'
  <1>1. /\ roles' \in [Addresses -> Assignments \cup {NoRecord}]
        /\ Holders' = Holders \cup {a}
    BY HoldersChange DEF RosterInv, RosterTypeOK
  <1>2. Holders' = Holders
    BY <1>1 DEF Holders
  <1> QED BY <1>1, <1>2 DEF RosterInv, RosterTypeOK, RosterCounted, Stored

LEMMA RosterInvStep ==
  ASSUME RosterInv, RosterStep
  PROVE  RosterInv'
  <1>1. ASSUME NEW by \in Addresses, NEW a \in Addresses, NEW r \in AdminRoles,
               AssignRole(by, a, r)
        PROVE  RosterInv'
    BY <1>1, ChangesCounted, FirstRoleChanges
       DEF AssignRole, RosterInv, RosterTypeOK, RosterCounted, Holders
  <1>2. ASSUME NEW by \in Addresses, NEW a \in Addresses, NEW r \in AdminRoles,
               UpdateAdminRole(by, a, r)
        PROVE  RosterInv'
    <2> DEFINE n == [roles[a] EXCEPT !.role = r]
    <2>1. roles[a] \in Assignments
      BY <1>2 DEF UpdateAdminRole, RosterInv, RosterTypeOK
    <2>2. n \in Assignments /\ roles' = [roles EXCEPT ![a] = n]
      BY <1>2, <2>1, AssignmentsMade DEF UpdateAdminRole
    <2> HIDE DEF n
    <2> QED BY <1>2, <2>2, AssignmentKeeps, ChangesCounted
            DEF UpdateAdminRole, RosterInv
  <1>3. ASSUME NEW by \in Addresses, NEW a \in Addresses, NEW b \in BOOLEAN,
               SetActive(by, a, b)
        PROVE  RosterInv'
    <2> DEFINE n == [roles[a] EXCEPT !.active = b]
    <2>1. roles[a] \in Assignments
      BY <1>3 DEF SetActive, RosterInv, RosterTypeOK
    <2>2. n \in Assignments /\ roles' = [roles EXCEPT ![a] = n]
      BY <1>3, <2>1, AssignmentsMade DEF SetActive
    <2> HIDE DEF n
    <2> QED BY <1>3, <2>2, AssignmentKeeps, ChangesCounted
            DEF SetActive, RosterInv
  <1>4. ASSUME NEW by \in Addresses, DeactivateRole(by)
        PROVE  RosterInv'
    BY <1>4, ChangesCounted, FirstRoleChanges
       DEF DeactivateRole, RosterInv, RosterTypeOK, RosterCounted, Holders
  <1>5. ASSUME NEW a \in Addresses, TransferAdmin(a)
        PROVE  RosterInv'
    BY <1>5, ChangesCounted
       DEF TransferAdmin, RosterInv, RosterTypeOK, RosterCounted, Holders
  <1> QED BY <1>1, <1>2, <1>3, <1>4, <1>5, MigrateKeeps, AddAdminKeeps,
             RemoveAdminKeeps
          DEF RosterStep

-----------------------------------------------------------------------------
(* What several administrators approve.                                    *)

ApprovalTypeOK ==
  /\ now \in StartTime..MaxTime
  /\ threshold \in Nat \ {0}
  /\ proposal \in Proposals \cup {NoRecord}
  /\ proposals \in 0..MaxProposals
  /\ pending \in [Actions -> PendingActions \cup {NoRecord}]
  /\ rotations \in Seq([to : Nat \ {0}, at : Nat, applied : Nat])
  /\ executions \in Seq([action : Actions, of : Nat \ {0}])

(* Approvers, as an operator of the actions stored.                        *)
ApproversIn(p, x) == {p[x].approvals[i] : i \in 1..Len(p[x].approvals)}

LEMMA ApproversRead ==
  /\ \A x \in Actions : Approvers(x) = ApproversIn(pending, x)
  /\ \A x \in Actions : Approvers(x)' = ApproversIn(pending', x)
  /\ \A p, q, x : p[x] = q[x] => ApproversIn(p, x) = ApproversIn(q, x)
  BY DEF Approvers, ApproversIn

(* An action's approvals are as many as its approvers.                     *)
ApprovedOnce ==
  \A x \in Actions : pending[x] # NoRecord =>
    /\ IsFiniteSet(Approvers(x))
    /\ Cardinality(Approvers(x)) = Len(pending[x].approvals)

(* What was executed is still stored, as executed.                         *)
ExecutedStored ==
  \A i \in 1..Len(executions) :
    /\ pending[executions[i].action] # NoRecord
    /\ pending[executions[i].action].executed

ApprovalInv == /\ ApprovalTypeOK
               /\ ApprovedOnce
               /\ ExecutedStored
               /\ ExecutedOnApproval
               /\ ThresholdWaited

(* The list and the count never bear on what was executed.                 *)
LEMMA AdminsInvInit == AdminsInit => RosterInv /\ ApprovalInv
  <1> SUFFICES ASSUME AdminsInit PROVE RosterInv /\ ApprovalInv
    OBVIOUS
  <1> USE AdminsAssumption, ClockAssumption
  <1>1. Holders = {}
    BY DEF AdminsInit, Holders
  <1>2. RosterInv
    <2>1. RosterTypeOK
      <3>1. firstRole \in [admin : Addresses, role : AdminRoles, active : BOOLEAN]
        BY DEF AdminsInit, AdminRoles
      <3>2. roles \in [Addresses -> Assignments \cup {NoRecord}]
        BY DEF AdminsInit
      <3>3. /\ primary \in Addresses /\ roster \subseteq Addresses
            /\ rosterCount \in Nat \cup {NoRecord} /\ orphaned \in BOOLEAN
        BY DEF AdminsInit
      <3>4. migrations \in 0..MaxMigrations /\ changes \in 0..MaxRosterChanges
        BY DEF AdminsInit
      <3> QED BY <3>1, <3>2, <3>3, <3>4 DEF RosterTypeOK
    <2>2. roster = {} /\ Stored(rosterCount) = 0 /\ Cardinality({}) = 0
      BY FS_EmptySet DEF AdminsInit, Stored
    <2>3. RosterCounted
      BY <1>1, <2>2 DEF RosterCounted
    <2> QED BY <2>1, <2>3 DEF RosterInv
  <1>3. Len(executions) = 0 /\ Len(rotations) = 0
    BY DEF AdminsInit
  <1>4. ApprovalTypeOK
    BY DEF AdminsInit, ApprovalTypeOK
  <1>5. ApprovedOnce /\ ThresholdWaited
    BY <1>3 DEF AdminsInit, ApprovedOnce, ThresholdWaited
  <1>6. ExecutedStored /\ ExecutedOnApproval
    BY <1>3 DEF ExecutedStored, ExecutedOnApproval
  <1> QED BY <1>2, <1>4, <1>5, <1>6 DEF ApprovalInv

(* Approvers of an action are addresses, and unchanged with it.            *)
LEMMA ApproversOf ==
  ASSUME ApprovalTypeOK, NEW x \in Actions, pending[x] # NoRecord
  PROVE  /\ pending[x] \in PendingActions
         /\ pending[x].approvals \in Seq(Addresses)
  BY DEF ApprovalTypeOK, PendingActions

LEMMA ExecutionsOf ==
  ASSUME ApprovalTypeOK, NEW i \in 1..Len(executions)
  PROVE  executions[i].action \in Actions /\ executions[i].of \in Nat
  <1>1. executions[i] \in [action : Actions, of : Nat \ {0}]
    BY ElementOfSeq, ZenonT(60) DEF ApprovalTypeOK
  <1> QED BY <1>1

LEMMA CreateKeeps ==
  ASSUME ApprovalInv, NEW by \in Addresses, NEW x \in Actions,
         CreatePendingAction(by, x)
  PROVE  ApprovalInv'
  <1> USE AdminsAssumption, ClockAssumption, NoRecordAssumption
  <1> DEFINE e == now + ActionLife
             l == <<by>>
             n == [approvals |-> l, expires |-> e, executed |-> FALSE]
  <1>1. /\ pending[x] = NoRecord
        /\ pending' = [pending EXCEPT ![x] = n]
        /\ UNCHANGED <<now, threshold, proposal, proposals, rotations, executions>>
    BY DEF CreatePendingAction
  <1>2. /\ e \in Nat
        /\ l \in Seq(Addresses) /\ Len(l) = 1 /\ l[1] = by
    BY DEF ApprovalInv, ApprovalTypeOK
  <1> HIDE DEF e, l
  <1>3. n \in PendingActions /\ n # NoRecord /\ n.approvals = l
    <2>1. n \in PendingActions /\ n.approvals = l
      BY <1>2 DEF PendingActions
    <2> HIDE DEF n
    <2> QED BY <2>1
  <1> HIDE DEF n
  <1>4. pending' \in [Actions -> PendingActions \cup {NoRecord}]
        /\ pending'[x] = n /\ \A y \in Actions : y # x => pending'[y] = pending[y]
    BY <1>1, <1>3 DEF ApprovalInv, ApprovalTypeOK
  <1>5. Approvers(x)' = {by}
    <2>1. Approvers(x)' = {l[i] : i \in 1..1}
      BY <1>2, <1>3, <1>4 DEF Approvers
    <2>2. {l[i] : i \in 1..1} = {l[1]}
      OBVIOUS
    <2> QED BY <1>2, <2>1, <2>2
  <1>6. \A y \in Actions : y # x => Approvers(y)' = Approvers(y)
    BY <1>4 DEF Approvers
  <1>7. ApprovedOnce'
    <2>1. ASSUME NEW y \in Actions, pending'[y] # NoRecord
          PROVE  /\ IsFiniteSet(Approvers(y)')
                 /\ Cardinality(Approvers(y)') = Len(pending'[y].approvals)
      <3>1. CASE y = x
        <4>1. IsFiniteSet({by}) /\ Cardinality({by}) = 1
          BY FS_Singleton
        <4>2. Len(pending'[x].approvals) = 1
          BY <1>2, <1>3, <1>4
        <4> QED BY <3>1, <4>1, <4>2, <1>5
      <3>2. CASE y # x
        BY <2>1, <3>2, <1>4, <1>6 DEF ApprovalInv, ApprovedOnce
      <3> QED BY <3>1, <3>2
    <2> QED BY <2>1 DEF ApprovedOnce
  <1>8. \A i \in 1..Len(executions) :
          executions[i].action \in Actions /\ executions[i].action # x
    BY <1>1, ExecutionsOf DEF ApprovalInv, ExecutedStored
  <1>9. ExecutedStored' /\ ExecutedOnApproval'
    BY <1>1, <1>4, <1>6, <1>8 DEF ApprovalInv, ExecutedStored, ExecutedOnApproval
  <1>10. ApprovalTypeOK' /\ ThresholdWaited'
    BY <1>1, <1>4 DEF ApprovalInv, ApprovalTypeOK, ThresholdWaited
  <1> QED BY <1>7, <1>9, <1>10 DEF ApprovalInv

LEMMA ApproveActionKeeps ==
  ASSUME ApprovalInv, NEW by \in Addresses, NEW x \in Actions,
         ApproveAction(by, x)
  PROVE  ApprovalInv'
  <1> USE AdminsAssumption, ClockAssumption, NoRecordAssumption
  <1> DEFINE l == Append(pending[x].approvals, by)
             n == [pending[x] EXCEPT !.approvals = l]
  <1>1. /\ pending[x] # NoRecord /\ ~pending[x].executed
        /\ by \notin Approvers(x)
        /\ pending' = [pending EXCEPT ![x] = n]
        /\ UNCHANGED <<now, threshold, proposal, proposals, rotations, executions>>
    BY DEF ApproveAction
  <1>2. pending[x] \in PendingActions /\ pending[x].approvals \in Seq(Addresses)
    BY <1>1, ApproversOf DEF ApprovalInv
  <1>3. /\ l \in Seq(Addresses) /\ Len(l) = Len(pending[x].approvals) + 1
        /\ l[Len(l)] = by /\ Len(pending[x].approvals) \in Nat
        /\ \A i \in 1..Len(pending[x].approvals) : l[i] = pending[x].approvals[i]
    BY <1>2, AppendProperties
  <1> HIDE DEF l
  <1>4. n \in PendingActions /\ n # NoRecord /\ n.approvals = l
    BY <1>2, <1>3 DEF PendingActions
  <1> HIDE DEF n
  <1>5. pending' \in [Actions -> PendingActions \cup {NoRecord}]
        /\ pending'[x] = n /\ \A y \in Actions : y # x => pending'[y] = pending[y]
    BY <1>1, <1>4 DEF ApprovalInv, ApprovalTypeOK
  <1>6. Approvers(x)' = Approvers(x) \cup {by}
    <2> DEFINE P == pending[x].approvals
    <2>1. 1..Len(l) = (1..Len(P)) \cup {Len(l)}
      BY <1>3
    <2>2. Approvers(x)' = {l[i] : i \in 1..Len(l)}
      BY <1>4, <1>5 DEF Approvers
    <2>3. Approvers(x) = {P[i] : i \in 1..Len(P)}
      BY DEF Approvers
    <2>4. l[Len(l)] = by /\ \A i \in 1..Len(P) : l[i] = P[i]
      BY <1>3
    <2> HIDE DEF P
    <2>5. {l[i] : i \in 1..Len(l)} = {P[i] : i \in 1..Len(P)} \cup {by}
      BY <2>1, <2>4
    <2> QED BY <2>2, <2>3, <2>5
  <1>7. \A y \in Actions : y # x => Approvers(y)' = Approvers(y)
    BY <1>5 DEF Approvers
  <1>8. /\ IsFiniteSet(Approvers(x)')
        /\ Cardinality(Approvers(x)') = Cardinality(Approvers(x)) + 1
        /\ Cardinality(Approvers(x)) = Len(pending[x].approvals)
    BY <1>1, <1>6, FS_AddElement DEF ApprovalInv, ApprovedOnce
  <1>9. ApprovedOnce'
    BY <1>3, <1>4, <1>5, <1>7, <1>8 DEF ApprovalInv, ApprovedOnce
  <1>10. \A i \in 1..Len(executions) :
           executions[i].action \in Actions /\ executions[i].action # x
    BY <1>1, ExecutionsOf DEF ApprovalInv, ExecutedStored
  <1>11. ExecutedStored' /\ ExecutedOnApproval'
    BY <1>1, <1>5, <1>7, <1>10
       DEF ApprovalInv, ExecutedStored, ExecutedOnApproval
  <1>12. ApprovalTypeOK' /\ ThresholdWaited'
    BY <1>1, <1>5 DEF ApprovalInv, ApprovalTypeOK, ThresholdWaited
  <1> QED BY <1>9, <1>11, <1>12 DEF ApprovalInv

LEMMA ExecuteKeeps ==
  ASSUME ApprovalInv, NEW x \in Actions, ExecuteAction(x)
  PROVE  ApprovalInv'
  <1> USE AdminsAssumption, ClockAssumption, NoRecordAssumption
  <1> DEFINE n == [pending[x] EXCEPT !.executed = TRUE]
             e == [action |-> x, of |-> threshold]
             N == Len(executions)
  <1>1. /\ pending[x] # NoRecord /\ ~pending[x].executed
        /\ Len(pending[x].approvals) >= threshold
        /\ pending' = [pending EXCEPT ![x] = n]
        /\ executions' = Append(executions, e)
        /\ UNCHANGED <<now, threshold, proposal, proposals, rotations>>
    BY DEF ExecuteAction
  <1>2. pending[x] \in PendingActions
    BY <1>1, ApproversOf DEF ApprovalInv
  <1>3. /\ n \in PendingActions /\ n # NoRecord /\ n.executed
        /\ n.approvals = pending[x].approvals
    BY <1>2 DEF PendingActions
  <1> HIDE DEF n
  <1>4. pending' \in [Actions -> PendingActions \cup {NoRecord}]
        /\ pending'[x] = n /\ \A y \in Actions : y # x => pending'[y] = pending[y]
    BY <1>1, <1>3 DEF ApprovalInv, ApprovalTypeOK
  <1>5. \A y \in Actions : Approvers(y)' = Approvers(y)
    BY <1>3, <1>4 DEF Approvers
  <1>6. e \in [action : Actions, of : Nat \ {0}] /\ e.action = x /\ e.of = threshold
    BY DEF ApprovalInv, ApprovalTypeOK
  <1> HIDE DEF e
  <1>7. /\ executions' \in Seq([action : Actions, of : Nat \ {0}])
        /\ N \in Nat /\ Len(executions') = N + 1 /\ executions'[N + 1] = e
        /\ \A i \in 1..N : executions'[i] = executions[i]
    BY <1>1, <1>6, AppendProperties, SMTT(60) DEF ApprovalInv, ApprovalTypeOK
  <1>8. \A i \in 1..N : /\ executions[i].action \in Actions
                        /\ executions[i].action # x
    BY <1>1, ExecutionsOf DEF ApprovalInv, ExecutedStored
  <1>9. \A i \in 1..(N + 1) : i = N + 1 \/ i \in 1..N
    BY <1>7
  <1>10. ApprovedOnce'
    <2>1. ASSUME NEW y \in Actions, pending'[y] # NoRecord
          PROVE  /\ IsFiniteSet(Approvers(y)')
                 /\ Cardinality(Approvers(y)') = Len(pending'[y].approvals)
      <3>1. /\ pending[y] # NoRecord
            /\ pending'[y].approvals = pending[y].approvals
        BY <2>1, <1>1, <1>3, <1>4
      <3> QED BY <3>1, <1>5 DEF ApprovalInv, ApprovedOnce
    <2> QED BY <2>1 DEF ApprovedOnce
  <1>11. ExecutedStored'
    BY <1>3, <1>4, <1>6, <1>7, <1>8, <1>9 DEF ApprovalInv, ExecutedStored
  <1>12. Cardinality(Approvers(x)) >= threshold
    BY <1>1 DEF ApprovalInv, ApprovedOnce
  <1>13. ExecutedOnApproval'
    <2>1. ASSUME NEW i \in 1..(N + 1)
          PROVE  Cardinality(ApproversIn(pending', executions'[i].action))
                   >= executions'[i].of
      <3>1. CASE i = N + 1
        BY <3>1, <1>5, <1>6, <1>7, <1>12, ApproversRead
      <3>2. CASE i \in 1..N
        <4> DEFINE y == executions[i].action
        <4>1. y \in Actions /\ executions'[i] = executions[i]
          BY <3>2, <1>7, <1>8
        <4>2. Cardinality(Approvers(y)) >= executions[i].of
          BY <3>2 DEF ApprovalInv, ExecutedOnApproval
        <4>3. ApproversIn(pending', y) = Approvers(y)
          BY <4>1, <1>5, ApproversRead
        <4> QED BY <4>1, <4>2, <4>3
      <3> QED BY <3>1, <3>2, <1>9
    <2>2. ASSUME NEW i \in 1..(N + 1), NEW j \in 1..(N + 1),
                 executions'[i].action = executions'[j].action
          PROVE  i = j
      <3>1. CASE i = N + 1 \/ j = N + 1
        BY <2>2, <3>1, <1>6, <1>7, <1>8, <1>9
      <3>2. CASE i \in 1..N /\ j \in 1..N
        BY <2>2, <3>2, <1>7 DEF ApprovalInv, ExecutedOnApproval
      <3> QED BY <3>1, <3>2, <1>9
    <2> QED BY <1>7, <2>1, <2>2, ZenonT(60) DEF ExecutedOnApproval, Approvers, ApproversIn
  <1>14. ApprovalTypeOK' /\ ThresholdWaited'
    BY <1>1, <1>4, <1>7 DEF ApprovalInv, ApprovalTypeOK, ThresholdWaited
  <1> QED BY <1>10, <1>11, <1>13, <1>14 DEF ApprovalInv

LEMMA ConfirmKeeps ==
  ASSUME ApprovalInv, ConfirmThreshold
  PROVE  ApprovalInv'
  <1> USE AdminsAssumption, ClockAssumption
  <1> DEFINE e == [to |-> proposal.to, at |-> proposal.at, applied |-> now]
             N == Len(rotations)
  <1>1. /\ proposal # NoRecord /\ now >= proposal.at + RotationDelay
        /\ threshold' = proposal.to /\ proposal' = NoRecord
        /\ rotations' = Append(rotations, e)
        /\ UNCHANGED <<now, proposals, pending, executions>>
    BY DEF ConfirmThreshold
  <1>2. /\ proposal.to \in Nat \ {0} /\ proposal.at \in Nat /\ now \in Nat
    BY <1>1 DEF ApprovalInv, ApprovalTypeOK, Proposals
  <1>3. /\ e \in [to : Nat \ {0}, at : Nat, applied : Nat]
        /\ e.to = proposal.to /\ e.at = proposal.at /\ e.applied = now
    BY <1>2
  <1> HIDE DEF e
  <1>4. /\ rotations' \in Seq([to : Nat \ {0}, at : Nat, applied : Nat])
        /\ N \in Nat /\ Len(rotations') = N + 1 /\ rotations'[N + 1] = e
        /\ \A i \in 1..N : rotations'[i] = rotations[i]
        /\ rotations' # <<>>
    <2>1. rotations \in Seq([to : Nat \ {0}, at : Nat, applied : Nat])
      BY DEF ApprovalInv, ApprovalTypeOK
    <2> QED BY <1>1, <1>3, <2>1, AppendProperties
  <1>5. \A i \in 1..(N + 1) : i = N + 1 \/ i \in 1..N
    BY <1>4
  <1>6. ThresholdWaited'
    BY <1>1, <1>3, <1>4, <1>5 DEF ApprovalInv, ThresholdWaited
  <1>7. ApprovalTypeOK'
    BY <1>1, <1>2, <1>4 DEF ApprovalInv, ApprovalTypeOK
  <1>8. ApprovedOnce' /\ ExecutedStored' /\ ExecutedOnApproval'
    <2>1. pending' = pending /\ executions' = executions
      BY <1>1
    <2>2. ApprovedOnce'
      BY <2>1 DEF ApprovalInv, ApprovedOnce, Approvers
    <2>3. ExecutedStored'
      BY <2>1 DEF ApprovalInv, ExecutedStored
    <2>4. ExecutedOnApproval'
      BY <2>1 DEF ApprovalInv, ExecutedOnApproval, Approvers
    <2> QED BY <2>2, <2>3, <2>4
  <1> QED BY <1>6, <1>7, <1>8 DEF ApprovalInv

(* Steps that neither approve nor execute.                                 *)
LEMMA OtherApprovalSteps ==
  ASSUME ApprovalInv, ApprovalTypeOK',
         UNCHANGED <<threshold, pending, rotations, executions>>
  PROVE  ApprovalInv'
  BY DEF ApprovalInv, ApprovedOnce, ExecutedStored, ExecutedOnApproval,
         ThresholdWaited, Approvers

LEMMA AdminsInvStep ==
  ASSUME RosterInv /\ ApprovalInv, [AdminsNext]_<<now, adminsVars>>
  PROVE  (RosterInv /\ ApprovalInv)'
  <1> USE AdminsAssumption, ClockAssumption
  <1>1. UNCHANGED rosterVars => RosterInv'
    BY DEF rosterVars, RosterInv, RosterTypeOK, RosterCounted, Holders, Stored
  <1>2. UNCHANGED <<now, approvalVars>> => ApprovalInv'
    BY OtherApprovalSteps DEF approvalVars, ApprovalInv, ApprovalTypeOK
  <1>3. CASE RosterStep
    <2>1. UNCHANGED <<now, approvalVars>>
      BY <1>3 DEF RosterStep, MigrateToMultiAdmin, AssignRole, AddAdmin,
                  RemoveAdmin, UpdateAdminRole, SetActive, DeactivateRole,
                  TransferAdmin
    <2> QED BY <1>2, <1>3, <2>1, RosterInvStep
  <1>4. CASE ApprovalStep
    <2>1. UNCHANGED rosterVars
      BY <1>4 DEF ApprovalStep, ProposeThreshold, ConfirmThreshold,
                  CancelThresholdProposal, CreatePendingAction, ApproveAction,
                  ExecuteAction
    <2>2. ASSUME NEW by \in Addresses, NEW n \in 1..Cardinality(Addresses),
                 ProposeThreshold(by, n)
          PROVE  ApprovalInv'
      <3> DEFINE e == [to |-> n, at |-> now]
      <3>1. proposal' = e /\ proposals' \in 0..MaxProposals
            /\ UNCHANGED <<now, threshold, pending, rotations, executions>>
        BY <2>2 DEF ProposeThreshold, ApprovalInv, ApprovalTypeOK
      <3>2. n \in Nat \ {0} /\ now \in Nat
        BY FS_CardinalityType DEF ApprovalInv, ApprovalTypeOK
      <3>3. e \in Proposals
        BY <3>2 DEF Proposals
      <3> QED BY <3>1, <3>3, OtherApprovalSteps DEF ApprovalInv, ApprovalTypeOK
    <2>3. ASSUME NEW by \in Addresses, CancelThresholdProposal(by)
          PROVE  ApprovalInv'
      BY <2>3, OtherApprovalSteps
         DEF CancelThresholdProposal, ApprovalInv, ApprovalTypeOK
    <2> QED BY <1>1, <1>4, <2>1, <2>2, <2>3, CreateKeeps, ApproveActionKeeps,
               ExecuteKeeps, ConfirmKeeps
            DEF ApprovalStep
  <1>5. CASE Tick /\ UNCHANGED adminsVars
    <2>1. now' \in StartTime..MaxTime
      BY <1>5 DEF Tick, ApprovalInv, ApprovalTypeOK
    <2>2. ApprovalInv'
      BY <1>5, <2>1, OtherApprovalSteps
         DEF adminsVars, approvalVars, ApprovalInv, ApprovalTypeOK
    <2> QED BY <1>1, <1>5, <2>2 DEF adminsVars
  <1>6. CASE UNCHANGED <<now, adminsVars>>
    BY <1>1, <1>2, <1>6 DEF adminsVars
  <1> QED BY <1>3, <1>4, <1>5, <1>6 DEF AdminsNext

LEMMA AdminsInvHolds == AdminsSpec => [](RosterInv /\ ApprovalInv)
  <1>1. AdminsInit => RosterInv /\ ApprovalInv
    BY AdminsInvInit
  <1>2. (RosterInv /\ ApprovalInv) /\ [AdminsNext]_<<now, adminsVars>>
          => (RosterInv /\ ApprovalInv)'
    BY AdminsInvStep
  <1> QED BY <1>1, <1>2, PTL DEF AdminsSpec

(* Every record of the administrators keeps its type, for any addresses,   *)
(* delays and bounds; the count of administrators is never negative.       *)
THEOREM AdminsTyped == AdminsSpec => []AdminsTypeOK
  <1>1. RosterInv /\ ApprovalInv => AdminsTypeOK
    BY DEF RosterInv, RosterTypeOK, ApprovalInv, ApprovalTypeOK, AdminsTypeOK
  <1> QED BY <1>1, AdminsInvHolds, PTL

(* The list, the count and the assignments agree until a repeated          *)
(* migration drops an administrator off the list (add_admin, remove_admin).*)
THEOREM RosterAgrees == AdminsSpec => []RosterCounted
  <1>1. RosterInv /\ ApprovalInv => RosterCounted
    BY DEF RosterInv
  <1> QED BY <1>1, AdminsInvHolds, PTL

(* What was executed was approved by as many addresses as the threshold    *)
(* then asked for, and once (approve_action, execute_action).              *)
THEOREM ActionsWereApproved == AdminsSpec => []ExecutedOnApproval
  <1>1. RosterInv /\ ApprovalInv => ExecutedOnApproval
    BY DEF ApprovalInv
  <1> QED BY <1>1, AdminsInvHolds, PTL

(* No threshold applies before its proposal has waited the full delay      *)
(* (propose_threshold, confirm_threshold).                                 *)
THEOREM ThresholdsWait == AdminsSpec => []ThresholdWaited
  <1>1. RosterInv /\ ApprovalInv => ThresholdWaited
    BY DEF ApprovalInv
  <1> QED BY <1>1, AdminsInvHolds, PTL

-----------------------------------------------------------------------------
(* The contract's code.                                                    *)

CodeRecords == [previous : Hashes, new : Codes, rolledBack : BOOLEAN]

CodeTypeOK ==
  /\ code \in Hashes
  /\ records \in Seq(CodeRecords)
  /\ installed \in Seq(Codes)

(* The record names the j-th code installed and the one before it.         *)
Replaced(r, ran, j) ==
  /\ r.new = ran[j]
  /\ r.previous = IF j = 1 THEN ZeroHash ELSE ran[j - 1]

RecordsReplace ==
  \A i \in 1..Len(records) :
    \E j \in 1..Len(installed) : Replaced(records[i], installed, j)

(* Until a rollback the latest record is of the code that is running.      *)
ChainReachesCode ==
  (\A i \in 1..Len(records) : ~records[i].rolledBack) =>
    /\ ChainVerifies
    /\ code = IF Len(records) = 0 THEN ZeroHash ELSE records[Len(records)].new

CodeInv == /\ CodeTypeOK
           /\ code = Running
           /\ RecordsReplace
           /\ ChainReachesCode

LEMMA CodeInvInit == UpgradesInit => CodeInv
  <1> SUFFICES ASSUME UpgradesInit PROVE CodeInv
    OBVIOUS
  <1>1. Len(records) = 0 /\ Len(installed) = 0
    BY DEF UpgradesInit
  <1>2. CodeTypeOK /\ code = Running
    BY DEF UpgradesInit, CodeTypeOK, Hashes, Running
  <1>3. RecordsReplace
    BY <1>1 DEF RecordsReplace
  <1>4. ChainReachesCode
    BY <1>1 DEF UpgradesInit, ChainReachesCode, ChainVerifies
  <1> QED BY <1>2, <1>3, <1>4 DEF CodeInv

(* What was replaced stays so when one more code is installed.             *)
LEMMA InstallKeeps ==
  ASSUME CodeTypeOK, RecordsReplace, NEW new \in Codes,
         installed' = Append(installed, new)
  PROVE  /\ installed' \in Seq(Codes)
         /\ Len(installed) \in Nat /\ Len(installed') = Len(installed) + 1
         /\ installed'[Len(installed) + 1] = new
         /\ \A j \in 1..Len(installed) : installed'[j] = installed[j]
         /\ Running' = new
         /\ \A i \in 1..Len(records) :
              \E j \in 1..Len(installed') : Replaced(records[i], installed', j)
  <1>1. /\ installed' \in Seq(Codes)
        /\ Len(installed) \in Nat /\ Len(installed') = Len(installed) + 1
        /\ installed'[Len(installed) + 1] = new
        /\ \A j \in 1..Len(installed) : installed'[j] = installed[j]
    BY AppendProperties DEF CodeTypeOK
  <1>2. installed' # <<>>
    BY <1>1
  <1>3. Running' = new
    BY <1>1, <1>2 DEF Running
  <1>4. ASSUME NEW i \in 1..Len(records)
        PROVE  \E j \in 1..Len(installed') : Replaced(records[i], installed', j)
    <2>1. PICK j \in 1..Len(installed) : Replaced(records[i], installed, j)
      BY DEF RecordsReplace
    <2>2. j \in 1..Len(installed') /\ (j # 1 => j - 1 \in 1..Len(installed))
      BY <1>1
    <2>3. Replaced(records[i], installed', j)
      BY <1>1, <2>1, <2>2 DEF Replaced
    <2> QED BY <2>2, <2>3
  <1> QED BY <1>1, <1>3, <1>4

LEMMA UpgradeKeeps ==
  ASSUME CodeInv, NEW new \in Codes, NEW expected \in Hashes,
         UpgradeContract(new, expected)
  PROVE  CodeInv'
  <1> DEFINE r == [previous |-> code, new |-> new, rolledBack |-> FALSE]
             N == Len(records)
             M == Len(installed)
  <1>1. /\ installed' = Append(installed, new) /\ code' = new
        /\ records' = Append(records, r)
    BY DEF UpgradeContract
  <1>2. /\ r \in CodeRecords /\ r.previous = code /\ r.new = new
        /\ r.rolledBack = FALSE
    BY DEF CodeRecords, CodeInv, CodeTypeOK
  <1> HIDE DEF r
  <1>3. /\ records' \in Seq(CodeRecords)
        /\ N \in Nat /\ Len(records') = N + 1 /\ records'[N + 1] = r
        /\ \A i \in 1..N : records'[i] = records[i]
    BY <1>1, <1>2, AppendProperties DEF CodeInv, CodeTypeOK
  <1>4. /\ installed' \in Seq(Codes) /\ M \in Nat /\ Len(installed') = M + 1
        /\ installed'[M + 1] = new
        /\ \A j \in 1..M : installed'[j] = installed[j]
        /\ Running' = new
        /\ \A i \in 1..N :
             \E j \in 1..Len(installed') : Replaced(records[i], installed', j)
    BY <1>1, InstallKeeps DEF CodeInv
  <1>5. CodeTypeOK' /\ code' = Running'
    BY <1>1, <1>3, <1>4 DEF CodeTypeOK, Hashes
  <1>6. Replaced(r, installed', M + 1)
    <2>1. CASE M = 0
      <3>1. installed = <<>>
        BY <2>1, EmptySeq DEF CodeInv, CodeTypeOK
      <3> QED BY <2>1, <3>1, <1>2, <1>4 DEF Replaced, CodeInv, Running
    <2>2. CASE M # 0
      <3>1. /\ M \in 1..M /\ M + 1 # 1 /\ (M + 1) - 1 = M
            /\ installed # <<>>
        BY <2>2, <1>4
      <3> QED BY <3>1, <1>2, <1>4 DEF Replaced, CodeInv, Running
    <2> QED BY <2>1, <2>2
  <1>7. \A i \in 1..(N + 1) : i = N + 1 \/ i \in 1..N
    BY <1>3
  <1>8. RecordsReplace'
    <2>1. M + 1 \in 1..Len(installed')
      BY <1>4
    <2>2. ASSUME NEW i \in 1..(N + 1)
          PROVE  \E j \in 1..Len(installed') : Replaced(records'[i], installed', j)
      BY <2>1, <1>3, <1>4, <1>6, <1>7
    <2> QED BY <2>2, <1>3 DEF RecordsReplace, Replaced
  <1>9. ChainReachesCode'
    <2>1. SUFFICES ASSUME \A i \in 1..(N + 1) : ~records'[i].rolledBack
                   PROVE  /\ ChainVerifies'
                          /\ code' = records'[N + 1].new
      BY <1>3 DEF ChainReachesCode
    <2>2. /\ ChainVerifies
          /\ code = IF N = 0 THEN ZeroHash ELSE records[N].new
      BY <2>1, <1>3 DEF CodeInv, ChainReachesCode
    <2>3. ASSUME NEW i \in 1..(N + 1)
          PROVE  records'[i].previous
                   = IF i = 1 THEN ZeroHash ELSE records'[i - 1].new
      <3>1. CASE i \in 1..N
        BY <3>1, <2>2, <1>3, SMTT(60) DEF ChainVerifies
      <3>2. CASE i = N + 1
        BY <3>2, <2>2, <1>2, <1>3
      <3> QED BY <3>1, <3>2, <1>7
    <2>4. ChainVerifies'
      BY <2>3, <1>3 DEF ChainVerifies
    <2> QED BY <2>4, <1>1, <1>2, <1>3
  <1> QED BY <1>5, <1>8, <1>9 DEF CodeInv

LEMMA RollbackKeeps ==
  ASSUME CodeInv, NEW hash \in Codes, RollbackUpgrade(hash)
  PROVE  CodeInv'
  <1> DEFINE N == Len(records)
             r == [records[N] EXCEPT !.rolledBack = TRUE]
  <1>1. /\ installed' = Append(installed, hash) /\ code' = hash
        /\ records' = Append(records, r) /\ InChain(hash)
    BY DEF RollbackUpgrade
  <1>2. N \in Nat /\ N \in 1..N
    BY <1>1 DEF InChain, CodeInv, CodeTypeOK
  <1>3. records[N] \in CodeRecords
    BY <1>2, ElementOfSeq DEF CodeInv, CodeTypeOK
  <1>4. /\ r \in CodeRecords /\ r.previous = records[N].previous
        /\ r.new = records[N].new /\ r.rolledBack
    BY <1>3 DEF CodeRecords
  <1> HIDE DEF r
  <1>5. /\ records' \in Seq(CodeRecords)
        /\ Len(records') = N + 1 /\ records'[N + 1] = r
        /\ \A i \in 1..N : records'[i] = records[i]
    BY <1>1, <1>4, AppendProperties DEF CodeInv, CodeTypeOK
  <1>6. /\ installed' \in Seq(Codes) /\ Running' = hash
        /\ \A i \in 1..N :
             \E j \in 1..Len(installed') : Replaced(records[i], installed', j)
    BY <1>1, InstallKeeps DEF CodeInv
  <1>7. CodeTypeOK' /\ code' = Running'
    BY <1>1, <1>5, <1>6 DEF CodeTypeOK, Hashes
  <1>8. RecordsReplace'
    <2>1. \E j \in 1..Len(installed') : Replaced(r, installed', j)
      BY <1>2, <1>4, <1>6 DEF Replaced
    <2>2. ASSUME NEW i \in 1..(N + 1)
          PROVE  \E j \in 1..Len(installed') : Replaced(records'[i], installed', j)
      BY <2>1, <1>2, <1>5, <1>6
    <2> QED BY <2>2, <1>5 DEF RecordsReplace, Replaced
  <1>9. ChainReachesCode'
    <2>1. N + 1 \in 1..Len(records') /\ records'[N + 1].rolledBack
      BY <1>2, <1>4, <1>5
    <2> QED BY <2>1 DEF ChainReachesCode
  <1> QED BY <1>7, <1>8, <1>9 DEF CodeInv

(* The code an upgrade is compared with is the code that runs, through any *)
(* upgrades and rollbacks; the records name codes of which one replaced    *)
(* the other, and verify until a rollback (upgrade_contract,               *)
(* rollback_upgrade, verify_upgrade_chain).                                *)
THEOREM RecordsAreTrue == UpgradesSpec => [](CodeTypeOK /\ RecordsMatchCode)
  <1>1. CodeInv /\ [UpgradesNext]_upgradesVars => CodeInv'
    <2> SUFFICES ASSUME CodeInv, [UpgradesNext]_upgradesVars PROVE CodeInv'
      OBVIOUS
    <2>1. UNCHANGED <<code, records, installed>> => CodeInv'
      BY DEF CodeInv, CodeTypeOK, Running, RecordsReplace, ChainReachesCode,
             ChainVerifies
    <2>2. ASSUME NEW v, NEW l, TrackContractVersion(v) \/ UpgradeToVersion(v, l)
                                 \/ RollbackToVersion(v)
          PROVE  CodeInv'
      BY <2>1, <2>2 DEF TrackContractVersion, UpgradeToVersion,
                        RollbackToVersion, versionOnly
    <2>3. CASE UNCHANGED upgradesVars
      BY <2>1, <2>3 DEF upgradesVars
    <2> QED BY <2>2, <2>3, UpgradeKeeps, RollbackKeeps DEF UpgradesNext
  <1>2. CodeInv => CodeTypeOK /\ RecordsMatchCode
    BY DEF CodeInv, RecordsMatchCode, RecordsReplace, Replaced, ChainReachesCode
  <1>3. UpgradesSpec => []CodeInv
    BY <1>1, CodeInvInit, PTL DEF UpgradesSpec
  <1> QED BY <1>2, <1>3, PTL

-----------------------------------------------------------------------------
(* The version.                                                            *)

VersionTypeOK ==
  /\ version \in Versions
  /\ versions \in Seq(Versions)
  /\ upgraded \in Seq(Upgraded)

VersionInv == VersionTypeOK /\ UpgradesInOrder

Ascends(old, new) ==
  /\ new.major = old.major
  /\ \/ new.minor > old.minor
     \/ new.minor = old.minor /\ new.patch > old.patch

Overflows(old, new, listed) ==
  /\ new.major < old.major
  /\ listed
  /\ new.minor >= Part \/ new.patch >= Part

(* Parts below p make less than the next one.                              *)
LEMMA PartsFit ==
  ASSUME NEW p \in Nat, NEW y \in Nat, NEW z \in Nat, y < p, z < p
  PROVE  y * p + z < p * p
  <1>1. PICK d \in Nat : p = y + 1 + d
    <2>1. p - y - 1 \in Nat /\ p = y + 1 + (p - y - 1)
      OBVIOUS
    <2> QED BY <2>1
  <1>2. p * p = (y + 1 + d) * p
    BY <1>1
  <1>3. (y + 1 + d) * p = y * p + p + d * p
    BY <1>1
  <1>4. d * p \in Nat /\ y * p \in Nat /\ p * p \in Nat
    BY <1>1
  <1> QED BY <1>2, <1>3, <1>4

(* A whole number of units below another is a unit below it at least.      *)
LEMMA UnitBelow ==
  ASSUME NEW k \in Nat, NEW a \in Nat, NEW b \in Nat, a < b
  PROVE  a * k + k <= b * k
  <1>1. PICK d \in Nat : b = a + 1 + d
    <2>1. b - a - 1 \in Nat /\ b = a + 1 + (b - a - 1)
      OBVIOUS
    <2> QED BY <2>1
  <1>2. b * k = (a + 1 + d) * k
    BY <1>1
  <1>3. (a + 1 + d) * k = a * k + k + d * k
    BY <1>1
  <1>4. d * k \in Nat /\ a * k \in Nat /\ b * k \in Nat
    BY <1>1
  <1> QED BY <1>2, <1>3, <1>4

(* A version of a lower major version has the higher number only by a part *)
(* that runs over.                                                         *)
LEMMA HigherByOverflow ==
  ASSUME NEW old \in Versions, NEW new \in Versions, new.major < old.major,
         VersionNumber(new) > VersionNumber(old)
  PROVE  new.minor >= Part \/ new.patch >= Part
  <1> SUFFICES ASSUME new.minor < Part, new.patch < Part PROVE FALSE
    <2>1. new.minor \in Nat /\ new.patch \in Nat /\ Part \in Nat
      BY UpgradesAssumption DEF Versions
    <2> QED BY <2>1
  <1>1. PICK p \in Nat : p = Part
    BY UpgradesAssumption
  <1>2. PICK a \in Nat, y \in Nat, z \in Nat :
          a = new.major /\ y = new.minor /\ z = new.patch
    BY DEF Versions
  <1>3. PICK b \in Nat, v \in Nat, w \in Nat :
          b = old.major /\ v = old.minor /\ w = old.patch
    BY DEF Versions
  <1>4. PICK k \in Nat : k = p * p
    BY <1>1
  <1>5. y * p + z < k
    BY <1>1, <1>2, <1>4, PartsFit
  <1>6. a * k + k <= b * k
    BY <1>2, <1>3, <1>4, UnitBelow
  <1>7. a * k + y * p + z > b * k + v * p + w
    BY <1>1, <1>2, <1>3, <1>4 DEF VersionNumber
  <1>8. PICK yp \in Nat, vp \in Nat, ak \in Nat, bk \in Nat :
          yp = y * p /\ vp = v * p /\ ak = a * k /\ bk = b * k
    BY <1>1, <1>2, <1>3, <1>4
  <1>9. yp + z < k /\ ak + k <= bk /\ ak + yp + z > bk + vp + w
    BY <1>5, <1>6, <1>7, <1>8
  <1> QED BY <1>9

(* An upgrade that is allowed ascends within its major version, or runs    *)
(* over, whatever a part is multiplied by.                                 *)
LEMMA AllowedInOrder ==
  ASSUME NEW old \in Versions, NEW new \in Versions, NEW listed \in BOOLEAN,
         UpgradeAllowed(old, new, listed)
  PROVE  Ascends(old, new) \/ Overflows(old, new, listed)
  <1>1. /\ old.major \in Nat /\ old.minor \in Nat /\ old.patch \in Nat
        /\ new.major \in Nat /\ new.minor \in Nat /\ new.patch \in Nat
    BY DEF Versions
  <1>2. VersionNumber(new) > VersionNumber(old)
    BY DEF UpgradeAllowed
  <1>3. CASE new.major = old.major
    <2>1. new.minor >= old.minor
      BY <1>3 DEF UpgradeAllowed, Compatible
    <2>2. CASE new.minor = old.minor
      <3> DEFINE x == old.major * (Part * Part) + old.minor * Part
      <3>1. x \in Nat
        BY <1>1, UpgradesAssumption
      <3>2. VersionNumber(new) = x + new.patch /\ VersionNumber(old) = x + old.patch
        BY <1>3, <2>2 DEF VersionNumber
      <3> HIDE DEF x
      <3>3. new.patch > old.patch
        BY <1>1, <1>2, <3>1, <3>2
      <3> QED BY <1>3, <2>2, <3>3 DEF Ascends
    <2>3. CASE new.minor # old.minor
      BY <1>1, <1>3, <2>1, <2>3 DEF Ascends
    <2> QED BY <2>2, <2>3
  <1>4. CASE new.major # old.major
    <2>1. new.major < old.major
      BY <1>1, <1>4 DEF UpgradeAllowed
    <2>2. listed
      BY <1>1, <1>4, <2>1 DEF UpgradeAllowed, Compatible
    <2> QED BY <1>2, <2>1, <2>2, HigherByOverflow DEF Overflows
  <1> QED BY <1>3, <1>4

(* Upgrades go up in the order of versions within a major version, though  *)
(* numbers are compared, and reach a lower one only by a listing version   *)
(* that runs over (upgrade_to_version, version_number).                    *)
THEOREM VersionsInOrder == UpgradesSpec => [](VersionTypeOK /\ UpgradesInOrder)
  <1>1. UpgradesInit => VersionInv
    BY DEF UpgradesInit, VersionInv, VersionTypeOK, UpgradesInOrder, Versions,
           Initial
  <1>2. VersionInv /\ [UpgradesNext]_upgradesVars => VersionInv'
    <2> SUFFICES ASSUME VersionInv, [UpgradesNext]_upgradesVars
                 PROVE  VersionInv'
      OBVIOUS
    <2>1. UNCHANGED <<version, versions, upgraded>> => VersionInv'
      BY DEF VersionInv, VersionTypeOK, UpgradesInOrder
    <2>2. ASSUME NEW v \in Versions, WithVersion(v)
          PROVE  version' \in Versions /\ versions' \in Seq(Versions)
      BY <2>2, AppendProperties DEF WithVersion, VersionInv, VersionTypeOK
    <2>3. ASSUME NEW v \in Versions,
                 TrackContractVersion(v) \/ RollbackToVersion(v)
          PROVE  VersionInv'
      BY <2>2, <2>3 DEF TrackContractVersion, RollbackToVersion, VersionInv,
                        VersionTypeOK, UpgradesInOrder
    <2>4. ASSUME NEW v \in Versions, NEW l \in BOOLEAN, UpgradeToVersion(v, l)
          PROVE  VersionInv'
      <3> DEFINE u == [from |-> version, to |-> v, listed |-> l]
                 Fine(x) == Ascends(x.from, x.to) \/ Overflows(x.from, x.to, x.listed)
                 N == Len(upgraded)
      <3>1. u \in Upgraded /\ u.from = version /\ u.to = v /\ u.listed = l
        BY DEF VersionInv, VersionTypeOK, Upgraded
      <3>2. Fine(u) /\ upgraded' = Append(upgraded, u)
        <4>1. Ascends(version, v) \/ Overflows(version, v, l)
          BY <2>4, AllowedInOrder DEF UpgradeToVersion, VersionInv, VersionTypeOK
        <4> QED BY <2>4, <3>1, <4>1 DEF UpgradeToVersion
      <3> HIDE DEF u
      <3>3. /\ upgraded' \in Seq(Upgraded)
            /\ N \in Nat /\ Len(upgraded') = N + 1 /\ upgraded'[N + 1] = u
            /\ \A i \in 1..N : upgraded'[i] = upgraded[i]
        BY <3>1, <3>2, AppendProperties DEF VersionInv, VersionTypeOK
      <3>4. \A i \in 1..N : Fine(upgraded[i])
        BY DEF VersionInv, UpgradesInOrder, Ascends, Overflows
      <3>5. \A i \in 1..(N + 1) : i = N + 1 \/ i \in 1..N
        BY <3>3
      <3> HIDE DEF Fine
      <3>6. \A i \in 1..(N + 1) : Fine(upgraded'[i])
        BY <3>2, <3>3, <3>4, <3>5
      <3>7. UpgradesInOrder'
        BY <3>3, <3>6 DEF Fine, UpgradesInOrder, Ascends, Overflows
      <3>8. VersionTypeOK'
        BY <2>2, <2>4, <3>3 DEF UpgradeToVersion, VersionTypeOK
      <3> QED BY <3>7, <3>8 DEF VersionInv
    <2>5. \A x \in Majors, y \in Minors, z \in Patches, m \in BOOLEAN :
            [major |-> x, minor |-> y, patch |-> z, migrates |-> m] \in Versions
      BY UpgradesAssumption DEF Versions
    <2>6. CASE UNCHANGED upgradesVars
      BY <2>1, <2>6 DEF upgradesVars
    <2>7. ASSUME NEW c \in Codes, NEW e \in Hashes,
                 UpgradeContract(c, e)
          PROVE  VersionInv'
      BY <2>1, <2>7 DEF UpgradeContract, codeOnly
    <2>8. ASSUME NEW c \in Codes, RollbackUpgrade(c)
          PROVE  VersionInv'
      BY <2>1, <2>8 DEF RollbackUpgrade, codeOnly
    <2> QED BY <2>3, <2>4, <2>5, <2>6, <2>7, <2>8 DEF UpgradesNext
  <1>3. UpgradesSpec => []VersionInv
    BY <1>1, <1>2, PTL DEF UpgradesSpec
  <1>4. VersionInv => VersionTypeOK /\ UpgradesInOrder
    BY DEF VersionInv
  <1> QED BY <1>3, <1>4, PTL

=============================================================================
