------------------------------- MODULE Clock -------------------------------
(***************************************************************************)
(* The ledger's time (env.ledger().timestamp()), shared by the components  *)
(* that compare times.                                                     *)
(***************************************************************************)
EXTENDS Integers

CONSTANTS
  StartTime, \* ledger time at which the contract is set up
  MaxTime    \* bound on the clock

ASSUME ClockAssumption ==
  /\ StartTime \in Nat
  /\ MaxTime \in Nat
  /\ StartTime <= MaxTime

VARIABLE now

(* Times a record can hold; a deadline may lie beyond the clock's bound.   *)
Times == Nat

Tick == now < MaxTime /\ now' = now + 1

=============================================================================
