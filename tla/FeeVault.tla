------------------------------ MODULE FeeVault ------------------------------
(***************************************************************************)
(* The fees collected and how they leave the vault (fees.rs, lib.rs): the  *)
(* scheduled withdrawals, and the entry point that lowers the total with   *)
(* no schedule.  The transfer of a scheduled withdrawal is assumed to      *)
(* succeed: when it fails the call has no effect.                          *)
(***************************************************************************)
EXTENDS Clock, Sequences

CONSTANTS
  MinTimelock,   \* DEFAULT_FEE_WITHDRAWAL_TIMELOCK_SECONDS
  Whole,         \* 10_000 basis points
  VaultTimelocks, \* timelocks the administrator asks for
  VaultShares,   \* shares of the vault, of Whole, the administrator asks for
  FeeAmounts,    \* fees collected at once
  Requests,      \* amounts asked for, negative ones too
  MaxVault,      \* bound on the vault
  MaxDraws       \* bound on the scheduled withdrawals

(* A withdrawal at time 0 would read as none: ledger times are positive.   *)
ASSUME VaultAssumption ==
  /\ StartTime > 0
  /\ MinTimelock \in Nat \ {0}
  /\ Whole \in Nat /\ Whole >= 100
  /\ VaultTimelocks \subseteq Nat
  /\ VaultShares \subseteq Nat
  /\ FeeAmounts \subseteq Nat \ {0}
  /\ Requests \subseteq Int
  /\ MaxVault \in Nat
  /\ MaxDraws \in Nat

VARIABLES
  vault,       \* tot_fees
  schedule,    \* the FeeWithdrawalSchedule in force
  scheduled,   \* whether one was stored
  lastDrawn,   \* wd_last; 0 is never
  draws        \* history: the scheduled withdrawals

vaultVars == <<vault, schedule, scheduled, lastDrawn, draws>>

VaultTypeOK ==
  /\ now \in StartTime..MaxTime
  /\ vault \in 0..MaxVault
  /\ schedule \in [timelock : Nat, share : 1..Whole]
  /\ schedule.timelock >= MinTimelock
  /\ scheduled \in BOOLEAN
  /\ lastDrawn \in Nat
  /\ draws \in Seq([at : Nat, timelock : Nat, amount : Nat, of : Nat])

VaultInit ==
  /\ now = StartTime
  /\ vault = 0
  /\ schedule = [timelock |-> MinTimelock, share |-> Whole]
  /\ scheduled = FALSE
  /\ lastDrawn = 0
  /\ draws = <<>>

(* record_fee_collection.                                                  *)
RecordFeeCollection(a) ==
  /\ vault + a <= MaxVault
  /\ vault' = vault + a
  /\ UNCHANGED <<now, schedule, scheduled, lastDrawn, draws>>

(* withdraw_collected_fees: 0 or too much takes all, a negative amount     *)
(* adds to the total, and no token moves.                                  *)
WithdrawCollectedFees(a) ==
  /\ vault # 0
  /\ vault' = IF a = 0 \/ a > vault THEN 0 ELSE vault - a
  /\ vault' <= MaxVault
  /\ UNCHANGED <<now, schedule, scheduled, lastDrawn, draws>>

(* Seeded fault: a stored schedule may be loosened.                        *)
SetScheduleFreely(timelock, share) ==
  /\ timelock >= MinTimelock
  /\ share > 0 /\ share <= Whole
  /\ schedule' = [timelock |-> timelock, share |-> share]
  /\ scheduled' = TRUE
  /\ UNCHANGED <<now, vault, lastDrawn, draws>>

(* set_schedule: a stored schedule is only ever tightened.                 *)
SetSchedule(timelock, share) ==
  /\ timelock >= MinTimelock
  /\ share > 0 /\ share <= Whole
  /\ scheduled => timelock >= schedule.timelock /\ share <= schedule.share
  /\ schedule' = [timelock |-> timelock, share |-> share]
  /\ scheduled' = TRUE
  /\ UNCHANGED <<now, vault, lastDrawn, draws>>

Denominator == 100  \* PERCENTAGE_DENOMINATOR, which checked_bps_floor divides
                    \* basis points by

(* checked_mul_div_floor by the denominator of a percentage.               *)
CheckedBpsFloor(amount, bps) == (amount * bps) \div Denominator

(* What one withdrawal may take: the share, rounded down, but one unit if  *)
(* that is nothing.  A share in basis points is divided as a percentage,   *)
(* so the cap exceeds the vault unless the share is below one percent.     *)
DrawCap == LET cap == CheckedBpsFloor(vault, schedule.share) IN
           IF schedule.share < Whole /\ cap = 0 THEN 1 ELSE cap

Least(a, b) == IF a < b THEN a ELSE b

DrawAmount(request) ==
  Least(IF request = 0 THEN vault ELSE Least(request, vault), DrawCap)

Timelocked == lastDrawn # 0 /\ now < lastDrawn + schedule.timelock

(* withdraw_fees; a withdrawal that finds the vault empty or timelocked    *)
(* reports zero and changes nothing.                                       *)
WithdrawFees(request) ==
  /\ request >= 0
  /\ vault > 0
  /\ ~Timelocked
  /\ Len(draws) < MaxDraws
  /\ vault' = vault - DrawAmount(request)
  /\ lastDrawn' = now
  /\ draws' = Append(draws, [at |-> now, timelock |-> schedule.timelock,
                             amount |-> DrawAmount(request), of |-> vault])
  /\ UNCHANGED <<now, schedule, scheduled>>

VaultNext ==
  \/ \E a \in FeeAmounts : RecordFeeCollection(a)
  \/ \E a \in Requests : WithdrawCollectedFees(a) \/ WithdrawFees(a)
  \/ \E t \in VaultTimelocks, s \in VaultShares : SetSchedule(t, s)
  \/ Tick /\ UNCHANGED vaultVars

VaultSpec == VaultInit /\ [][VaultNext]_<<now, vaultVars>>

-----------------------------------------------------------------------------
(* After a scheduled withdrawal the next one waits for at least the        *)
(* timelock that was in force at the first, however the schedule changed   *)
(* in between (set_schedule), and none takes nothing or more than there is.*)
DrawsApart ==
  /\ \A i \in 1..Len(draws) : draws[i].amount \in 1..draws[i].of
  /\ \A i \in 1..(Len(draws) - 1) :
       draws[i + 1].at >= draws[i].at + draws[i].timelock

=============================================================================
