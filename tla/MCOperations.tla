---------------------------- MODULE MCOperations ----------------------------
(* The values of Operations' constants that a configuration cannot write.  *)
EXTENDS Operations

(* All lists of at most two signers, with repetitions, and of three.       *)
SignerListsUpTo3 ==
  UNION {[1..n -> Signers] : n \in 1..2}
    \cup {l \in [1..3 -> Signers] : l[1] # l[2] /\ l[2] # l[3] /\ l[1] # l[3]}

(* Refunds name one user, or one twice, or both.                           *)
RefundListsUpTo2 == UNION {[1..n -> Stakers] : n \in 1..2}

RequestsAround0 == {-1, 0, 1, 2}

(* What an edit may set the outcomes to.                                   *)
OutcomePairs == {{"x", "y"}, {"y", "z"}}

(* How far each component is followed.                                     *)
UntilTimes ==
  [s \in Subjects |-> IF s \in {"admins", "oracles"} THEN 2
                     ELSE IF s \in {"fees", "vault", "archive"} THEN 3 ELSE 4]

=============================================================================
