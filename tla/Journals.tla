------------------------------ MODULE Journals ------------------------------
(***************************************************************************)
(* What the contract writes down about itself: the chain of audit records  *)
(* (audit_trail.rs) and the queue of alerts (monitoring.rs), which holds   *)
(* the latest ones and says when it dropped one.                           *)
(***************************************************************************)
EXTENDS Integers, Sequences

CONSTANTS
  AuditActions, \* what is recorded
  Alerts,       \* what is alerted
  QueueCap,     \* MONITOR_QUEUE_CAP
  MaxRecords,   \* bound on the records
  MaxAlerts,    \* bound on the alerts
  MaxClears     \* bound on the resets of the overflow flag

ASSUME JournalsAssumption ==
  /\ QueueCap \in Nat \ {0}
  /\ MaxRecords \in Nat
  /\ MaxAlerts \in Nat
  /\ MaxClears \in Nat

VARIABLES
  head,     \* AuditTrailHead
  trail,    \* the audit records by their index, from 1
  queue,    \* MON_QUEUE
  overflow, \* MON_OVERFLOWED
  raised,   \* history: all alerts
  dropped,  \* history: whether one was dropped since the flag was reset
  clears    \* history: resets

journalVars == <<head, trail, queue, overflow, raised, dropped, clears>>

alertVars == <<queue, overflow, raised, dropped, clears>>

(* The digest of a record is taken not to collide: what it commits to is   *)
(* the action and the digest before it, so it stands for all the actions   *)
(* so far.  The first record follows the digest of nothing.                *)
Digest(r) == Append(r.previous, r.action)

AuditRecords ==
  [index : Nat, action : AuditActions, previous : Seq(AuditActions)]

JournalsTypeOK ==
  /\ head \in [index : Nat, digest : Seq(AuditActions)]
  /\ trail \in Seq(AuditRecords)
  /\ queue \in Seq(Alerts)
  /\ overflow \in BOOLEAN
  /\ raised \in Seq(Alerts)
  /\ dropped \in BOOLEAN
  /\ clears \in 0..MaxClears

JournalsInit ==
  /\ head = [index |-> 0, digest |-> <<>>]
  /\ trail = <<>>
  /\ queue = <<>>
  /\ overflow = FALSE
  /\ raised = <<>>
  /\ dropped = FALSE
  /\ clears = 0

-----------------------------------------------------------------------------
(* The audit trail.                                                        *)

(* append_record, by every administrative call.                            *)
AppendRecord(action) ==
  LET r == [index |-> head.index + 1, action |-> action,
            previous |-> head.digest]
  IN /\ Len(trail) < MaxRecords
     /\ trail' = Append(trail, r)
     /\ head' = [index |-> r.index, digest |-> Digest(r)]
     /\ UNCHANGED alertVars

(* get_latest_records: from the head backwards.                            *)
LatestRecords(limit) ==
  [k \in 1..(IF limit < head.index THEN limit ELSE head.index) |->
     trail[head.index - k + 1]]

(* verify_integrity: each record has the digest the one after it names,    *)
(* and the last one the digest in the head.                                *)
VerifyIntegrity(depth) ==
  \A k \in 0..((IF depth < head.index THEN depth ELSE head.index) - 1) :
    LET i == head.index - k IN
    /\ i \in DOMAIN trail
    /\ Digest(trail[i]) = IF k = 0 THEN head.digest ELSE trail[i + 1].previous

-----------------------------------------------------------------------------
(* The alerts.                                                             *)

(* Seeded fault: off by one, the flag is set when the queue is full again. *)
StoreAlertLate(a) ==
  LET full == Len(queue) >= QueueCap IN
  /\ Len(raised) < MaxAlerts
  /\ queue' = Append(IF full THEN Tail(queue) ELSE queue, a)
  /\ overflow' = (overflow \/ Len(queue) > QueueCap)
  /\ raised' = Append(raised, a)
  /\ dropped' = (dropped \/ full)
  /\ UNCHANGED <<head, trail, clears>>

(* store_alert: the oldest makes way.                                      *)
StoreAlert(a) ==
  LET full == Len(queue) >= QueueCap IN
  /\ Len(raised) < MaxAlerts
  /\ queue' = Append(IF full THEN Tail(queue) ELSE queue, a)
  /\ overflow' = (overflow \/ full)
  /\ raised' = Append(raised, a)
  /\ dropped' = (dropped \/ full)
  /\ UNCHANGED <<head, trail, clears>>

(* clear_overflow leaves the queue as full as it was.                      *)
ClearOverflow ==
  /\ clears < MaxClears
  /\ clears' = clears + 1
  /\ overflow' = FALSE
  /\ dropped' = FALSE
  /\ UNCHANGED <<head, trail, queue, raised>>

JournalsNext ==
  \/ \E a \in AuditActions : AppendRecord(a)
  \/ \E a \in Alerts : StoreAlert(a)
  \/ ClearOverflow

JournalsSpec == JournalsInit /\ [][JournalsNext]_journalVars

-----------------------------------------------------------------------------
(* Nothing is lost without a trace: the queue holds the latest alerts in   *)
(* order, and if it is missing one that was dropped since the flag was     *)
(* last reset, the flag says so; the audit trail verifies at every depth   *)
(* and every record can be read back (append_record, store_alert).         *)
NothingLostSilently ==
  /\ Len(queue) <= QueueCap
  /\ queue = SubSeq(raised, Len(raised) - Len(queue) + 1, Len(raised))
  /\ dropped => overflow
  /\ overflow => Len(queue) < Len(raised)
  /\ \A depth \in 0..(head.index + 1) : VerifyIntegrity(depth)
  /\ Len(LatestRecords(head.index + 1)) = Len(trail)

=============================================================================
