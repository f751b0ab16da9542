------------------------------ MODULE MCMarket ------------------------------
(* Small instances of Market for TLC.                                      *)
EXTENDS Market, TLC

OutcomeSymmetry == Permutations(Outcomes)

=============================================================================
