---------------------------- MODULE ClaimLedger ----------------------------
(***************************************************************************)
(* What the contract promises about claims on one market, with nothing of  *)
(* how it keeps the promise (docs/claims/CLAIM_IDEMPOTENCY.md): a user's    *)
(* claim is recorded once and for ever, and a payment is only ever made    *)
(* together with the record.  A loser's claim, and a winner whose money is *)
(* swept, are recorded without a payment.                                  *)
(***************************************************************************)
EXTENDS Naturals

CONSTANT Users

VARIABLES claimed,   \* users with a claim record
          payments   \* how many times each user was credited

vars == <<claimed, payments>>

TypeOK == /\ claimed \in SUBSET Users
          /\ payments \in [Users -> Nat]

Init == /\ claimed = {}
        /\ payments = [u \in Users |-> 0]

(* Record the claims of the users in S, crediting those in C.              *)
Settle(S, C) ==
  /\ claimed' = claimed \cup S
  /\ payments' = [u \in Users |-> IF u \in C THEN payments[u] + 1
                                             ELSE payments[u]]

Next == \E S \in SUBSET (Users \ claimed) : \E C \in SUBSET S : Settle(S, C)

Spec == Init /\ [][Next]_vars

(* Nobody is credited twice, and nobody is credited without a record.      *)
PaidOnce == \A u \in Users : payments[u] <= (IF u \in claimed THEN 1 ELSE 0)

=============================================================================
