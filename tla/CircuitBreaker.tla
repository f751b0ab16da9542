--------------------------- MODULE CircuitBreaker ---------------------------
(***************************************************************************)
(* The circuit breaker every write of the contract passes                  *)
(* (circuit_breaker.rs): pause, resume, the half-open trial with its       *)
(* admission window, recovery and the automatic trigger.                   *)
(*                                                                         *)
(* A call the breaker refuses fails, and its failure undoes whatever the   *)
(* refusal wrote; only the distribution inside a resolve call is refused   *)
(* without failing (lib.rs, `let _ = distribute_payouts`).  Calls made     *)
(* while the breaker is Closed or Open change nothing here.  The           *)
(* configuration is fixed.  Counters and times that no decision reads      *)
(* (failure_count, last_failure_time, last_success_time,                   *)
(* window.completed) are left out.                                         *)
(***************************************************************************)
EXTENDS Integers, Sequences

CONSTANTS
  Quota,           \* half_open_quota.calls_per_minute (3 in the code)
  Window,          \* half_open_quota.evaluation_window_s (60)
  RecoveryTimeout, \* recovery_timeout (300)
  MaxProbes,       \* half_open_max_requests (3)
  MaxErrorRate,    \* max_error_rate, of 100 (10)
  StartTime,       \* ledger time at which the contract is set up
  MaxTime,         \* bound on the clock
  MaxRequests      \* bound on the outcomes recorded

(* validate_config refuses a zero quota, window, timeout or probe count.   *)
ASSUME ConfigAssumption ==
  /\ Quota \in Nat \ {0}
  /\ Window \in Nat \ {0}
  /\ RecoveryTimeout \in Nat \ {0}
  /\ MaxProbes \in Nat \ {0}
  /\ MaxErrorRate \in 0..100

ASSUME TimeAssumption ==
  /\ StartTime \in Nat
  /\ MaxTime \in Nat
  /\ StartTime <= MaxTime
  /\ MaxRequests \in Nat

VARIABLES
  now,     \* ledger time
  breaker, \* the breaker's state in instance storage
  window,  \* the half-open admission window in temporary storage
  admits,  \* history: when each call of this half-open trial was admitted
  probes   \* history: successes of this trial recorded after its cooldown

vars == <<now, breaker, window, admits, probes>>

Breakers ==
  [state : {"Closed", "Open", "HalfOpen"}, openedTime : Nat,
   scope : {"BettingOnly", "Full"}, allowWithdrawals : BOOLEAN,
   halfOpenRequests : Nat, halfOpenSince : Nat, totalRequests : Nat,
   errorCount : Nat]

Windows == [admitted : Nat, failures : Nat, start : Nat]

TypeOK ==
  /\ now \in StartTime..MaxTime
  /\ breaker \in Breakers
  /\ breaker.halfOpenRequests < MaxProbes
  /\ breaker.totalRequests <= MaxRequests
  /\ breaker.errorCount <= breaker.totalRequests
  /\ window \in Windows
  /\ window.admitted <= Quota
  /\ admits \in Seq(Nat)
  /\ probes \in Nat

ClearWindow == [admitted |-> 0, failures |-> 0, start |-> 0]

Init ==
  /\ now = StartTime
  /\ breaker = [state |-> "Closed", openedTime |-> 0, scope |-> "BettingOnly",
                allowWithdrawals |-> FALSE, halfOpenRequests |-> 0,
                halfOpenSince |-> 0, totalRequests |-> 0, errorCount |-> 0]
  /\ window = ClearWindow
  /\ admits = <<>>
  /\ probes = 0

-----------------------------------------------------------------------------
(* Seeded fault: the admission window survives the end of the trial.       *)
UpdateStateKeepsWindow(b, w) ==
  /\ breaker' = b
  /\ window' = w
  /\ admits' = IF b.state # "HalfOpen" THEN <<>> ELSE admits

(* update_state, on a window w: leaving HalfOpen clears the window.        *)
UpdateState(b, w) ==
  /\ breaker' = b
  /\ window' = IF b.state # "HalfOpen" THEN ClearWindow ELSE w
  /\ admits' = IF b.state # "HalfOpen" THEN <<>> ELSE admits

(* What the breaker becomes.                                               *)
Paused(b, scope, allow) ==
  [b EXCEPT !.state = "Open", !.openedTime = now, !.scope = scope,
            !.allowWithdrawals = allow]

HalfOpened(b) ==
  [b EXCEPT !.state = "HalfOpen", !.halfOpenRequests = 0, !.halfOpenSince = now]

Recovered(b) ==
  [b EXCEPT !.state = "Closed", !.halfOpenRequests = 0, !.halfOpenSince = 0,
            !.scope = "BettingOnly", !.allowWithdrawals = FALSE]

Tripped(b) == [b EXCEPT !.state = "Open", !.openedTime = now]

Settled(b, state) == [b EXCEPT !.state = state, !.halfOpenRequests = 0]

Counted(b, errors) ==
  [b EXCEPT !.totalRequests = @ + 1, !.errorCount = @ + errors]

Probed(b) == [b EXCEPT !.halfOpenRequests = @ + 1]

Unprobed(b, state) ==
  [b EXCEPT !.state = state, !.halfOpenRequests = 0, !.halfOpenSince = 0]

PauseWithOptions(scope, allow) ==
  /\ breaker.state # "Open"
  /\ UpdateState(Paused(breaker, scope, allow), window)
  /\ probes' = 0
  /\ UNCHANGED now

RequestResume ==
  /\ breaker.state = "Open"
  /\ UpdateState(HalfOpened(breaker), window)
  /\ probes' = 0
  /\ UNCHANGED now

CircuitBreakerRecovery ==
  /\ breaker.state # "Closed"
  /\ UpdateState(Recovered(breaker), window)
  /\ probes' = 0
  /\ UNCHANGED now

(* automatic_circuit_breaker_trigger: auto-recovery first, then, on        *)
(* HighErrorRate, the error rate since the contract was set up, which      *)
(* nothing ever resets.                                                    *)
AutomaticTrigger(highErrorRate) ==
  LET recovers == /\ breaker.state = "Open"
                  /\ now - breaker.openedTime >= RecoveryTimeout
      b == IF recovers THEN HalfOpened(breaker) ELSE breaker
      trips == /\ highErrorRate
               /\ b.totalRequests > 0
               /\ (b.errorCount * 100) \div b.totalRequests >= MaxErrorRate
               /\ b.state # "Open"
  IN /\ recovers \/ trips
     /\ UpdateState(IF trips THEN Tripped(b) ELSE b, window)
     /\ probes' = 0
     /\ UNCHANGED now

-----------------------------------------------------------------------------
(* The half-open trial.                                                    *)

(* Seeded fault: the length of the window is not added to its start.      *)
CurrentWindowPoint ==
  IF now >= window.start
  THEN [admitted |-> 0, failures |-> 0, start |-> now]
  ELSE window

(* The window an admission is decided in: restarted once it has expired.   *)
CurrentWindow ==
  IF now >= window.start + Window
  THEN [admitted |-> 0, failures |-> 0, start |-> now]
  ELSE window

Admitting(w, n) == [w EXCEPT !.admitted = @ + n]

(* A call that asks n times (place_bet and place_bets ask twice, the other *)
(* writes once) and is admitted each time.                                 *)
Admit(n) ==
  /\ breaker.state = "HalfOpen"
  /\ CurrentWindow.admitted + n <= Quota
  /\ window' = Admitting(CurrentWindow, n)
  /\ admits' = admits \o [i \in 1..n |-> now]
  /\ UNCHANGED <<now, breaker, probes>>

(* The distribution inside a resolve call finds the quota used up: with no *)
(* failure in the window the breaker closes, else it opens again.          *)
QuotaExhausted ==
  /\ breaker.state = "HalfOpen"
  /\ CurrentWindow.admitted >= Quota
  /\ UpdateState(IF CurrentWindow.failures = 0
                 THEN Settled(breaker, "Closed")
                 ELSE Settled(Tripped(breaker), "Open"), window)
  /\ probes' = 0
  /\ UNCHANGED now

(* record_success.  Before the cooldown is over a probe does not count.    *)
RecordSuccess ==
  LET b == Counted(breaker, 0)
      counts == /\ breaker.state = "HalfOpen"
                /\ now >= breaker.halfOpenSince + RecoveryTimeout
      last == breaker.halfOpenRequests + 1 >= MaxProbes
  IN /\ breaker.totalRequests < MaxRequests
     /\ UpdateState(CASE ~counts -> b
                      [] counts /\ ~last -> Probed(b)
                      [] counts /\ last -> Unprobed(b, "Closed"), window)
     /\ probes' = CASE ~counts -> probes
                    [] counts /\ ~last -> probes + 1
                    [] counts /\ last -> 0
     /\ UNCHANGED now

(* record_failure.  The failure noted in the window is cleared with it,    *)
(* because a failure in HalfOpen opens the breaker.                        *)
RecordFailure ==
  LET halfOpen == breaker.state = "HalfOpen" IN
  /\ breaker.totalRequests < MaxRequests
  /\ UpdateState(IF halfOpen THEN Unprobed(Tripped(Counted(breaker, 1)), "Open")
                             ELSE Counted(breaker, 1),
                 IF halfOpen THEN [window EXCEPT !.failures = @ + 1] ELSE window)
  /\ probes' = IF halfOpen THEN 0 ELSE probes
  /\ UNCHANGED now

Tick ==
  /\ now < MaxTime
  /\ now' = now + 1
  /\ UNCHANGED <<breaker, window, admits, probes>>

Next ==
  \/ \E scope \in {"BettingOnly", "Full"} : \E allow \in BOOLEAN :
       PauseWithOptions(scope, allow)
  \/ RequestResume
  \/ CircuitBreakerRecovery
  \/ \E high \in BOOLEAN : AutomaticTrigger(high)
  \/ \E n \in 1..2 : Admit(n)
  \/ QuotaExhausted
  \/ RecordSuccess
  \/ RecordFailure
  \/ Tick

Spec == Init /\ [][Next]_vars

-----------------------------------------------------------------------------
(* The window counts the calls of this trial alone, admitted since it      *)
(* began, and none of them has failed: pausing, resuming and reopening in  *)
(* any order never carry an admission or a failure into the next trial, so *)
(* the "reopen" branch of half_open_admit is never taken.                  *)
WindowIsFresh ==
  /\ window.failures = 0
  /\ window.admitted <= Len(admits)
  /\ \A i \in 1..Len(admits) :
       i > Len(admits) - window.admitted <=> admits[i] >= window.start

(* The probes counted towards closing are successes of this trial recorded *)
(* after its cooldown, never those of an earlier one ("consecutive         *)
(* successes", request_resume).                                            *)
ProbesAreOfThisTrial ==
  breaker.state = "HalfOpen" => breaker.halfOpenRequests = probes

(* Nothing left over from an earlier trial decides this one: neither its   *)
(* admissions nor its probes (update_state, request_resume).               *)
TrialIsFresh == WindowIsFresh /\ ProbesAreOfThisTrial

(* A trial admits at most two quotas of calls in any span shorter than the *)
(* evaluation window, however calls fall around the ends of the windows    *)
(* (half_open_admit).                                                      *)
BurstBounded ==
  \A i \in 1..Len(admits) :
    i + 2 * Quota <= Len(admits) => admits[i + 2 * Quota] >= admits[i] + Window

=============================================================================
