------------------------------ MODULE Recovery ------------------------------
(***************************************************************************)
(* Recovery of a market (recovery.rs): refunds that only book, the         *)
(* reconstruction of the total, and the records of both, the one in work   *)
(* and the history of those finished.  A vote and a bet stand for all that *)
(* changes stakes; of the integrity checks only the sign of the total can  *)
(* fail on a market the contract created.                                  *)
(***************************************************************************)
EXTENDS Integers, Sequences, FiniteSets, Sums

CONSTANTS
  Stakers,        \* users with stakes
  StakeAmounts,   \* what they stake
  RefundLists,    \* lists of users to refund; a user may be listed twice
  NoRecovery,     \* nothing is recorded
  MaxHistory,     \* MAX_RECOVERY_HISTORY_PER_MARKET
  MaxPrune,       \* MAX_RECOVERY_PRUNE_BATCH
  PruneCounts,    \* how many records a prune asks for
  MaxRecoverySteps \* bound on stakes, refunds and recoveries

ASSUME RecoveryAssumption ==
  /\ IsFiniteSet(Stakers)
  /\ StakeAmounts \subseteq Nat \ {0}
  /\ RefundLists \subseteq Seq(Stakers)
  /\ MaxHistory \in Nat
  /\ MaxPrune \in Nat
  /\ PruneCounts \subseteq Nat
  /\ MaxRecoverySteps \in Nat

ASSUME NoRecoveryAssumption ==
  /\ NoRecovery \notin [recovered : BOOLEAN, refunds : Nat]
  /\ NoRecovery \notin {"pending", "recovered"}

VARIABLES
  booked,      \* the market: total_staked, stakes, claimed, and whether it
               \* is closed or cancelled
  inWork,      \* the record under rec_active, or NoRecovery
  finished,    \* the market's history of records
  status,      \* the market's entry of the status map, or NoRecovery
  shadowed,    \* history: stakes a later bet wrote over, since the total was
               \* last reconstructed
  refunded,    \* history: refunds booked since then
  refundedEver, \* history: all refunds booked
  recoverySteps \* how many steps were taken

recoveryVars == <<booked, inWork, finished, status, shadowed, refunded,
                  refundedEver, recoverySteps>>

RecoveryRecords == [recovered : BOOLEAN, refunds : Nat]

RecoveryTypeOK ==
  /\ booked \in [total : Int, stakes : [Stakers -> Nat],
                 claimed : SUBSET Stakers, closed : BOOLEAN]
  /\ inWork \in RecoveryRecords \cup {NoRecovery}
  /\ finished \in Seq(RecoveryRecords)
  /\ Len(finished) <= MaxHistory
  /\ status \in {"pending", "recovered", NoRecovery}
  /\ shadowed \in Nat
  /\ refunded \in Nat
  /\ refundedEver \in Nat
  /\ recoverySteps \in 0..MaxRecoverySteps

RecoveryInit ==
  /\ booked = [total |-> 0, stakes |-> [u \in Stakers |-> 0], claimed |-> {},
               closed |-> FALSE]
  /\ inWork = NoRecovery
  /\ finished = <<>>
  /\ status = NoRecovery
  /\ shadowed = 0
  /\ refunded = 0
  /\ refundedEver = 0
  /\ recoverySteps = 0

RecoveryStep == recoverySteps < MaxRecoverySteps
                /\ recoverySteps' = recoverySteps + 1

StakedOf(stakes) == SumOver(stakes, Stakers)

-----------------------------------------------------------------------------
(* The market.                                                             *)

(* vote, once; place_bet writes over the stake of a vote.                  *)
BookStake(u, s) ==
  /\ ~booked.closed
  /\ RecoveryStep
  /\ booked' = [booked EXCEPT !.total = @ + s, !.stakes[u] = s]
  /\ shadowed' = shadowed + booked.stakes[u]
  /\ UNCHANGED <<inWork, finished, status, refunded, refundedEver>>

(* The market is closed or cancelled.                                      *)
CloseBooked ==
  /\ ~booked.closed
  /\ booked' = [booked EXCEPT !.closed = TRUE]
  /\ UNCHANGED <<inWork, finished, status, shadowed, refunded, refundedEver,
                 recoverySteps>>

-----------------------------------------------------------------------------
(* The records.                                                            *)
(* Seeded fault: the history is not trimmed.                               *)
TrimmedNever(h) == h

(* trim_market_history: the oldest record goes.                            *)
Trimmed(h) == IF Len(h) > MaxHistory THEN SubSeq(h, 2, Len(h)) ELSE h

(* RecoveryStorage::save.                                                  *)
Saved(r) ==
  /\ inWork' = IF r.recovered THEN NoRecovery ELSE r
  /\ finished' = IF r.recovered THEN Trimmed(Append(finished, r)) ELSE finished
  /\ status' = IF r.recovered THEN "recovered" ELSE "pending"

(* RecoveryStorage::load, or a new record.                                 *)
Loaded == IF inWork # NoRecovery THEN inWork
          ELSE IF finished # <<>> THEN finished[Len(finished)]
          ELSE [recovered |-> FALSE, refunds |-> 0]

(* validate_market_state_integrity.                                        *)
Sound == booked.total >= 0

(* recover_market_state: a sound market gets a record nonetheless, which   *)
(* stays pending and takes the place of one in work; a closed one none.    *)
RecoverMarketState ==
  /\ RecoveryStep
  /\ \/ /\ Sound
        /\ Saved([recovered |-> FALSE, refunds |-> 0])
        /\ UNCHANGED <<booked, shadowed, refunded, refundedEver>>
     \/ /\ ~Sound
        /\ ~booked.closed
        /\ booked' = [booked EXCEPT !.total = StakedOf(booked.stakes)]
        /\ Saved([recovered |-> TRUE, refunds |-> 0])
        /\ shadowed' = 0
        /\ refunded' = 0
        /\ UNCHANGED refundedEver

(* What a list of users gets: each entry is the user's whole stake.        *)
RefundOf(users) ==
  SumOver([i \in 1..Len(users) |-> booked.stakes[users[i]]], 1..Len(users))

(* Seeded fault: the total keeps what was refunded.                        *)
RefundKeepsTotal(users) ==
  LET refund == RefundOf(users) IN
  /\ RecoveryStep
  /\ booked' = [booked EXCEPT
       !.claimed = @ \cup {u \in Stakers : /\ booked.stakes[u] > 0
                                           /\ \E i \in 1..Len(users) :
                                                users[i] = u}]
  /\ Saved([Loaded EXCEPT !.refunds = @ + refund])
  /\ refunded' = refunded + refund
  /\ refundedEver' = refundedEver + refund
  /\ UNCHANGED shadowed

(* partial_refund_mechanism: no token moves, the stakes stay, and nobody   *)
(* is refused who was refunded or paid before.                             *)
PartialRefundMechanism(users) ==
  LET refund == RefundOf(users) IN
  /\ RecoveryStep
  /\ booked' = [booked EXCEPT
       !.total = @ - refund,
       !.claimed = @ \cup {u \in Stakers : /\ booked.stakes[u] > 0
                                           /\ \E i \in 1..Len(users) :
                                                users[i] = u}]
  /\ Saved([Loaded EXCEPT !.refunds = @ + refund])
  /\ refunded' = refunded + refund
  /\ refundedEver' = refundedEver + refund
  /\ UNCHANGED shadowed

Lesser(a, b) == IF a < b THEN a ELSE b

(* prune_history: the oldest records.                                      *)
PruneHistory(count) ==
  /\ finished' = SubSeq(finished,
                        Lesser(Lesser(count, MaxPrune), Len(finished)) + 1,
                        Len(finished))
  /\ UNCHANGED <<booked, inWork, status, shadowed, refunded, refundedEver,
                 recoverySteps>>

RecoveryNext ==
  \/ \E u \in Stakers, s \in StakeAmounts : BookStake(u, s)
  \/ CloseBooked
  \/ RecoverMarketState
  \/ \E users \in RefundLists : PartialRefundMechanism(users)
  \/ \E count \in PruneCounts : PruneHistory(count)

RecoverySpec == RecoveryInit /\ [][RecoveryNext]_recoveryVars

-----------------------------------------------------------------------------
(* The total is what is staked, less what was refunded since it was last   *)
(* reconstructed, however often and whomever the refunds name; what a      *)
(* record reports was refunded; and the status says pending exactly while  *)
(* a record is in work (partial_refund_mechanism, recover_market_state,    *)
(* save).                                                                  *)
RefundsAccounted ==
  /\ booked.total = StakedOf(booked.stakes) + shadowed - refunded
  /\ Loaded.refunds <= refundedEver
  /\ status = "pending" <=> inWork # NoRecovery

=============================================================================
