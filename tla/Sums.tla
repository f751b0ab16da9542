-------------------------------- MODULE Sums --------------------------------
(***************************************************************************)
(* Totals of amounts.  A total is the number of units in it, as a sum by   *)
(* recursion or by a fold is out of reach of the proofs about the totals   *)
(* of the contract (SumsProofs).                                           *)
(***************************************************************************)
EXTENDS Integers, FiniteSets

(* The units of the amounts f[x] of the x in S, each counted once.         *)
Units(f, S) == UNION {{x} \X (1..f[x]) : x \in S}

(* The sum of the amounts f[x] over the x in S.                            *)
SumOver(f, S) == Cardinality(Units(f, S))

=============================================================================
