SPECIFICATION Spec
CONSTANTS
  Voters = {a, b, c}
  Proposals = {p}
  Watched = p
  None = None
  Unopenable = Unopenable
  Periods = {2}
  Quorums = {1}
  Decays <- MCDecays
  InitialPeriod = 1
  InitialQuorum = 4
  InitialDecay <- MCDecay
  MaxIncoming = 1
  MaxTime = 3
  MaxSettings = 1
SYMMETRY VoterSymmetry
INVARIANT OneVoicePerVoter
CHECK_DEADLOCK FALSE
