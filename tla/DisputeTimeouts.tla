-------------------------- MODULE DisputeTimeouts --------------------------
(***************************************************************************)
(* The timeout of a dispute (disputes.rs): set by the administrator,       *)
(* extended once, settled by anyone when it has expired.  Settling closes  *)
(* the dispute history of the market the timeout names, which is always    *)
(* the empty name, so no market's history.                                 *)
(***************************************************************************)
EXTENDS Clock

CONSTANTS
  TimeoutHours,      \* hours a timeout may be set to
  MaxTimeoutHours,   \* 720
  ExtensionHours,    \* hours an extension may ask for
  MaxExtensionHours, \* 168
  NoTimeout,         \* no timeout is stored
  MaxTimeoutsSet     \* bound on the timeouts set

ASSUME TimeoutsAssumption ==
  /\ TimeoutHours \subseteq Nat
  /\ MaxTimeoutHours \in Nat
  /\ ExtensionHours \subseteq Nat
  /\ MaxExtensionHours \in Nat
  /\ MaxTimeoutsSet \in Nat

VARIABLES
  timeout,     \* the DisputeTimeout record, or NoTimeout
  timeoutsSet  \* how many were set

timeoutVars == <<timeout, timeoutsSet>>

Timeouts ==
  [hours : Nat, created : Nat, expires : Nat, added : Nat,
   status : {"Active", "Extended", "AutoResolved"}]

TimeoutsTypeOK ==
  /\ now \in StartTime..MaxTime
  /\ timeout \in Timeouts \cup {NoTimeout}
  /\ timeoutsSet \in 0..MaxTimeoutsSet

TimeoutsInit ==
  /\ now = StartTime
  /\ timeout = NoTimeout
  /\ timeoutsSet = 0

(* set_dispute_timeout: in place of any timeout, settled or not.           *)
SetDisputeTimeout(h) ==
  /\ h > 0 /\ h <= MaxTimeoutHours
  /\ timeoutsSet < MaxTimeoutsSet
  /\ timeoutsSet' = timeoutsSet + 1
  /\ timeout' = [hours |-> h, created |-> now, expires |-> now + h,
                 added |-> 0, status |-> "Active"]
  /\ UNCHANGED now

(* Seeded fault: the timeout does not remember that it was extended.       *)
ExtendAgain(h) ==
  /\ h > 0 /\ h <= MaxExtensionHours
  /\ timeout # NoTimeout
  /\ timeout.status = "Active"
  /\ timeout' = [timeout EXCEPT !.added = @ + h, !.expires = @ + h]
  /\ UNCHANGED <<now, timeoutsSet>>

(* extend_dispute_timeout: an active timeout, expired or not.              *)
ExtendDisputeTimeout(h) ==
  /\ h > 0 /\ h <= MaxExtensionHours
  /\ timeout # NoTimeout
  /\ timeout.status = "Active"
  /\ timeout' = [timeout EXCEPT !.added = @ + h, !.expires = @ + h,
                                !.status = "Extended"]
  /\ UNCHANGED <<now, timeoutsSet>>

Expired == timeout # NoTimeout /\ now >= timeout.expires

(* auto_resolve_dispute_on_timeout; it may be repeated.                    *)
AutoResolveDisputeOnTimeout ==
  /\ Expired
  /\ timeout' = [timeout EXCEPT !.status = "AutoResolved"]
  /\ UNCHANGED <<now, timeoutsSet>>

TimeoutsNext ==
  \/ \E h \in TimeoutHours : SetDisputeTimeout(h)
  \/ \E h \in ExtensionHours : ExtendDisputeTimeout(h)
  \/ AutoResolveDisputeOnTimeout
  \/ Tick /\ UNCHANGED timeoutVars

TimeoutsSpec == TimeoutsInit /\ [][TimeoutsNext]_<<now, timeoutVars>>

-----------------------------------------------------------------------------
(* However it is extended, a timeout expires within the longest timeout    *)
(* and one extension of when it was set (extend_dispute_timeout extends an *)
(* Active timeout only, and then it is Extended), and it is not settled    *)
(* before it expires.                                                      *)
TimeoutBounded ==
  timeout # NoTimeout =>
    /\ timeout.expires <= timeout.created + MaxTimeoutHours + MaxExtensionHours
    /\ timeout.status = "AutoResolved" => now >= timeout.expires

=============================================================================
