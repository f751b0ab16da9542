---------------------------- MODULE MCGovernance ----------------------------
(* Small instances of Governance for TLC.                                  *)
EXTENDS Governance, TLC

MCDecay == [floorBps |-> 7500, halvingSeconds |-> 1]

MCDecays == {MCDecay}

VoterSymmetry == Permutations(Voters)

=============================================================================
