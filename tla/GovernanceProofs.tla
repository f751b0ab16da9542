-------------------------- MODULE GovernanceProofs --------------------------
(***************************************************************************)
(* What holds of governance for any voters, proposals, periods, quorums    *)
(* and decay configurations.                                               *)
(***************************************************************************)
EXTENDS Governance, FiniteSetTheorems, TLAPS

-----------------------------------------------------------------------------
(* Operators.                                                              *)

LEMMA TalliedIs ==
  ASSUME NEW r \in ProposalRecords, NEW s \in Supports, NEW w \in Nat
  PROVE  /\ Tallied(r, s, w) \in ProposalRecords
         /\ Tallied(r, s, w).startTime = r.startTime
         /\ Tallied(r, s, w).endTime = r.endTime
         /\ Tallied(r, s, w).executed = r.executed
         /\ s = "for" => /\ Tallied(r, s, w).forVotes = r.forVotes + w
                         /\ Tallied(r, s, w).againstVotes = r.againstVotes
         /\ s = "against" =>
              /\ Tallied(r, s, w).forVotes = r.forVotes
              /\ Tallied(r, s, w).againstVotes = r.againstVotes + w
  BY DEF Tallied, ProposalRecords, Supports

LEMMA NewProposalIs ==
  ASSUME TypeOK
  PROVE  /\ NewProposal \in ProposalRecords
         /\ NewProposal.startTime = now /\ NewProposal.endTime = now + period
         /\ NewProposal.forVotes = 0 /\ NewProposal.againstVotes = 0
         /\ NewProposal.executed = FALSE
  <1>1. now \in Nat /\ now + period \in Nat
    BY BoundsAssumption DEF TypeOK
  <1> QED BY <1>1 DEF NewProposal, ProposalRecords

(* A proposal that exists is a record.                                     *)
LEMMA ExistsIs ==
  ASSUME TypeOK, NEW p \in Proposals
  PROVE  Exists(p) <=> proposal[p] \in ProposalRecords
  BY NotAProposal DEF TypeOK, Exists

LEMMA WeightIs ==
  ASSUME TypeOK, NEW v \in Voters
  PROVE  /\ Weight(v) \in Nat
         /\ 1 <= Weight(v) /\ Weight(v) <= 1 + MaxIncoming
  <1>1. delegateCount[v] \in 0..MaxIncoming
    BY DEF TypeOK
  <1> QED BY <1>1, BoundsAssumption DEF Weight

(* A larger number has no smaller quotient.                                *)
LEMMA QuotientGrows ==
  ASSUME NEW x \in Nat, NEW y \in Nat, NEW k \in Nat \ {0}, x <= y
  PROVE  /\ x \div k \in Nat /\ y \div k \in Nat
         /\ x \div k <= y \div k
  <1> DEFINE q == x \div k
             r == y \div k
  <1>1. /\ q \in Int /\ k * q <= x /\ x < k * q + k
        /\ r \in Int /\ k * r <= y /\ y < k * r + k
    OBVIOUS
  <1>2. q >= 0 /\ r >= 0
    OBVIOUS
  <1>3. ASSUME q > r PROVE FALSE
    <2>1. q >= r + 1
      BY <1>1, <1>3
    <2>2. k * q >= k * (r + 1)
      BY <1>1, <2>1
    <2>3. k * (r + 1) = k * r + k
      BY <1>1
    <2> QED BY <1>1, <2>2, <2>3
  <1> HIDE DEF q, r
  <1> QED BY <1>1, <1>2, <1>3 DEF q, r

-----------------------------------------------------------------------------
(* Types.                                                                  *)

(* The ways a step may leave the proposals.                                *)
Creates(p) == ~Exists(p) /\ proposal' = [proposal EXCEPT ![p] = NewProposal]

Counts(p, v, s) == VotingOpen(p) /\ ~HasVoted(p, v) /\ CountVote(p, v, s)

Executes(p) ==
  /\ Passed(p)
  /\ ~proposal[p].executed
  /\ proposal' = [proposal EXCEPT ![p].executed = TRUE]

LEMMA InitTypeOK == Init => TypeOK
  <1> SUFFICES ASSUME Init PROVE TypeOK
    OBVIOUS
  <1>1. 0 \in 0..MaxTime /\ 0 \in 0..MaxIncoming /\ 0 \in 0..MaxSettings
    BY BoundsAssumption
  <1> QED BY <1>1, ConfigAssumption DEF Init, TypeOK, Supports

LEMMA ExecutesType ==
  ASSUME TypeOK, NEW p \in Proposals, Executes(p)
  PROVE  /\ proposal' \in [Proposals -> ProposalRecords \cup {None}]
         /\ proposal'[p] = [proposal[p] EXCEPT !.executed = TRUE]
         /\ proposal'[p] \in ProposalRecords
  <1>1. proposal[p] \in ProposalRecords
    BY ExistsIs DEF Executes, Passed
  <1>2. [proposal[p] EXCEPT !.executed = TRUE] \in ProposalRecords
    BY <1>1 DEF ProposalRecords
  <1> QED BY <1>2 DEF Executes, TypeOK

LEMMA CountsType ==
  ASSUME TypeOK, NEW p \in Proposals, NEW v \in Voters, NEW s \in Supports,
         Counts(p, v, s)
  PROVE  /\ proposal' \in [Proposals -> ProposalRecords \cup {None}]
         /\ ballot' \in [Proposals -> [Voters -> Supports \cup {"none"}]]
         /\ proposal[p] \in ProposalRecords
         /\ proposal'[p] = Tallied(proposal[p], s, Weight(v))
         /\ proposal'[p] \in ProposalRecords
         /\ ballot'[p] = [ballot[p] EXCEPT ![v] = s]
  <1>1. proposal[p] \in ProposalRecords /\ Weight(v) \in Nat
    BY ExistsIs, WeightIs DEF Counts, VotingOpen
  <1>2. Tallied(proposal[p], s, Weight(v)) \in ProposalRecords
    BY <1>1, TalliedIs
  <1> QED BY <1>1, <1>2 DEF Counts, CountVote, TypeOK

LEMMA TypeStep == TypeOK /\ [Next]_vars => TypeOK'
  <1> SUFFICES ASSUME TypeOK, [Next]_vars PROVE TypeOK'
    OBVIOUS
  <1>1. ASSUME NEW p \in Proposals, CreateProposal(p) PROVE TypeOK'
    <2>1. proposal' \in [Proposals -> ProposalRecords \cup {None}]
      BY <1>1, NewProposalIs DEF CreateProposal, TypeOK
    <2> QED BY <1>1, <2>1 DEF CreateProposal, TypeOK, configVars, delegationVars
  <1>2. ASSUME NEW p \in Proposals, ExecuteProposal(p) PROVE TypeOK'
    <2>1. proposal' \in [Proposals -> ProposalRecords \cup {None}]
      BY <1>2, ExecutesType DEF ExecuteProposal, Executes
    <2> QED BY <1>2, <2>1 DEF ExecuteProposal, TypeOK, configVars, delegationVars
  <1>3. ASSUME NEW p \in Proposals, NEW v \in Voters, NEW s \in Supports,
               Vote(p, v, s)
        PROVE  TypeOK'
    <2>1. /\ proposal' \in [Proposals -> ProposalRecords \cup {None}]
          /\ ballot' \in [Proposals -> [Voters -> Supports \cup {"none"}]]
      BY <1>3, CountsType DEF Vote, Counts
    <2> QED BY <1>3, <2>1 DEF Vote, TypeOK, configVars, delegationVars
  <1>4. ASSUME NEW p \in Proposals, NEW v \in Voters, NEW s \in Supports,
               RevealVote(p, v, s)
        PROVE  TypeOK'
    <2>1. /\ proposal' \in [Proposals -> ProposalRecords \cup {None}]
          /\ ballot' \in [Proposals -> [Voters -> Supports \cup {"none"}]]
      BY <1>4, CountsType DEF RevealVote, Counts
    <2>2. commitment' \in [Proposals -> [Voters -> Supports \cup {Unopenable, None}]]
      BY <1>4 DEF RevealVote, TypeOK
    <2> QED BY <1>4, <2>1, <2>2 DEF RevealVote, TypeOK, configVars, delegationVars
  <1>5. ASSUME NEW p \in Proposals, NEW v \in Voters,
               NEW c \in Supports \cup {Unopenable}, CommitVote(p, v, c)
        PROVE  TypeOK'
    <2>1. commitment' \in [Proposals -> [Voters -> Supports \cup {Unopenable, None}]]
      BY <1>5 DEF CommitVote, TypeOK
    <2> QED BY <1>5, <2>1 DEF CommitVote, TypeOK, configVars, delegationVars
  <1>6. ASSUME NEW v \in Voters, NEW d \in Voters, SetDelegate(v, d)
        PROVE  TypeOK'
    <2>1. delegateCount[d] + 1 \in 0..MaxIncoming
      BY <1>6, BoundsAssumption DEF SetDelegate, TypeOK
    <2>2. /\ delegateCount' \in [Voters -> 0..MaxIncoming]
          /\ delegate' \in [Voters -> Voters \cup {None}]
      BY <1>6, <2>1 DEF SetDelegate, TypeOK
    <2> QED BY <1>6, <2>2 DEF SetDelegate, TypeOK, configVars, voteVars
  <1>7. ASSUME NEW v \in Voters, UnsetDelegate(v) PROVE TypeOK'
    <2>1. \A n \in 0..MaxIncoming : Decremented(n) \in 0..MaxIncoming
      BY BoundsAssumption DEF Decremented
    <2>2. /\ delegateCount' \in [Voters -> 0..MaxIncoming]
          /\ delegate' \in [Voters -> Voters \cup {None}]
      BY <1>7, <2>1 DEF UnsetDelegate, TypeOK
    <2> QED BY <1>7, <2>2 DEF UnsetDelegate, TypeOK, configVars, voteVars
  <1>8. ASSUME Administering PROVE TypeOK'
    <2>1. /\ Setting
          /\ period' \in Nat \ {0} /\ quorum' \in Nat \ {0}
          /\ decay' \in DecayConfigs \cup {None}
      BY <1>8, ConfigAssumption
         DEF Administering, SetVotingPeriod, SetQuorum, SetQuorumDecay, TypeOK
    <2>2. settings' \in 0..MaxSettings
      BY <2>1, BoundsAssumption DEF Setting, TypeOK
    <2> QED BY <2>1, <2>2 DEF Setting, TypeOK, voteVars, delegationVars
  <1>9. ASSUME Tick PROVE TypeOK'
    <2>1. now' \in 0..MaxTime
      BY <1>9, BoundsAssumption DEF Tick, TypeOK
    <2> QED BY <1>9, <2>1 DEF Tick, TypeOK, configVars, voteVars, delegationVars
  <1>10. CASE UNCHANGED vars
    BY <1>10 DEF vars, TypeOK
  <1> QED BY <1>1, <1>2, <1>3, <1>4, <1>5, <1>6, <1>7, <1>8, <1>9, <1>10
          DEF Next, Voting, Delegating

(* Counters and tallies stay natural numbers, and no voter has more        *)
(* incoming delegations than the cap (set_delegate, unset_delegate).       *)
THEOREM TypeCorrect == Spec => []TypeOK
  BY InitTypeOK, TypeStep, PTL DEF Spec

-----------------------------------------------------------------------------
(* What a step may do to the delegations, and to the proposals.            *)

LEMMA DelegationSteps ==
  ASSUME [Next]_vars
  PROVE  \/ UNCHANGED delegationVars
         \/ \E v, d \in Voters : SetDelegate(v, d)
         \/ \E v \in Voters : UnsetDelegate(v)
  <1>1. ASSUME NEW p \in Proposals, CreateProposal(p) \/ ExecuteProposal(p)
        PROVE  UNCHANGED delegationVars
    BY <1>1 DEF CreateProposal, ExecuteProposal
  <1>2. ASSUME NEW p \in Proposals, NEW v \in Voters, Voting(p, v)
        PROVE  UNCHANGED delegationVars
    BY <1>2 DEF Voting, Vote, RevealVote, CommitVote
  <1>3. ASSUME Administering PROVE UNCHANGED delegationVars
    BY <1>3 DEF Administering, SetVotingPeriod, SetQuorum, SetQuorumDecay, Setting
  <1>4. ASSUME Tick \/ UNCHANGED vars PROVE UNCHANGED delegationVars
    BY <1>4 DEF Tick, vars, delegationVars
  <1> QED BY <1>1, <1>2, <1>3, <1>4 DEF Next, Delegating

(* The proposals and the ballots change together, and not with the clock.  *)
LEMMA ProposalSteps ==
  ASSUME TypeOK, [Next]_vars
  PROVE  \/ UNCHANGED <<proposal, ballot>> /\ now' \in Nat /\ now' >= now
         \/ /\ UNCHANGED <<now, ballot>>
            /\ \E p \in Proposals : Creates(p) \/ Executes(p)
         \/ /\ UNCHANGED now
            /\ \E p \in Proposals : \E v \in Voters : \E s \in Supports :
                 Counts(p, v, s)
  <1>1. ASSUME NEW p \in Proposals, CreateProposal(p) \/ ExecuteProposal(p)
        PROVE  UNCHANGED <<now, ballot>> /\ (Creates(p) \/ Executes(p))
    BY <1>1 DEF CreateProposal, ExecuteProposal, Creates, Executes
  <1>2. ASSUME NEW p \in Proposals, NEW v \in Voters, NEW s \in Supports,
               Vote(p, v, s) \/ RevealVote(p, v, s)
        PROVE  UNCHANGED now /\ Counts(p, v, s)
    BY <1>2 DEF Vote, RevealVote, Counts
  <1>3. now \in Nat
    BY BoundsAssumption DEF TypeOK
  <1>4. ASSUME NEW p \in Proposals, NEW v \in Voters,
               NEW c \in Supports \cup {Unopenable}, CommitVote(p, v, c)
        PROVE  UNCHANGED <<proposal, ballot, now>>
    BY <1>4 DEF CommitVote
  <1>5. ASSUME NEW v \in Voters, Delegating(v)
        PROVE  UNCHANGED <<proposal, ballot, now>>
    BY <1>5 DEF Delegating, SetDelegate, UnsetDelegate, voteVars
  <1>6. ASSUME Administering PROVE UNCHANGED <<proposal, ballot, now>>
    BY <1>6 DEF Administering, SetVotingPeriod, SetQuorum, SetQuorumDecay,
                Setting, voteVars
  <1>7. ASSUME Tick PROVE UNCHANGED <<proposal, ballot>> /\ now' = now + 1
    BY <1>7 DEF Tick, voteVars
  <1>8. ASSUME UNCHANGED vars PROVE UNCHANGED <<proposal, ballot, now>>
    BY <1>8 DEF vars
  <1> QED BY <1>1, <1>2, <1>3, <1>4, <1>5, <1>6, <1>7, <1>8 DEF Next, Voting

-----------------------------------------------------------------------------
(* Delegations.                                                            *)

LEMMA MutualStep ==
  TypeOK /\ NoMutualDelegation /\ [Next]_vars => NoMutualDelegation'
  <1> SUFFICES ASSUME TypeOK, NoMutualDelegation, [Next]_vars
               PROVE  NoMutualDelegation'
    OBVIOUS
  <1>1. CASE UNCHANGED delegationVars
    BY <1>1 DEF delegationVars, NoMutualDelegation
  <1>2. ASSUME NEW v \in Voters, NEW d \in Voters, SetDelegate(v, d)
        PROVE  NoMutualDelegation'
    <2>1. delegate' = [delegate EXCEPT ![v] = d] /\ v # d /\ delegate[d] # v
      BY <1>2 DEF SetDelegate
    <2> QED BY <2>1, BoundsAssumption DEF NoMutualDelegation, TypeOK
  <1>3. ASSUME NEW v \in Voters, UnsetDelegate(v) PROVE NoMutualDelegation'
    <2>1. delegate' = [delegate EXCEPT ![v] = None]
      BY <1>3 DEF UnsetDelegate
    <2> QED BY <2>1, BoundsAssumption DEF NoMutualDelegation, TypeOK
  <1> QED BY <1>1, <1>2, <1>3, DelegationSteps

(* However many voters delegate and in whatever order, no two ever         *)
(* delegate to each other (set_delegate's check for a two-hop cycle).      *)
THEOREM NobodyDelegatesBack == Spec => []NoMutualDelegation
  <1>1. Init => NoMutualDelegation
    BY DEF Init, NoMutualDelegation
  <1> QED BY <1>1, MutualStep, TypeCorrect, PTL DEF Spec

LEMMA IncomingIsFinite ==
  ASSUME NEW d
  PROVE  IsFiniteSet(Incoming(d)) /\ Cardinality(Incoming(d)) \in Nat
  <1>1. Incoming(d) \subseteq Voters
    BY DEF Incoming
  <1> QED BY <1>1, BoundsAssumption, FS_Subset, FS_CardinalityType

LEMMA CountedStep ==
  TypeOK /\ DelegationsCounted /\ [Next]_vars => DelegationsCounted'
  <1> SUFFICES ASSUME TypeOK, DelegationsCounted, [Next]_vars
               PROVE  DelegationsCounted'
    OBVIOUS
  <1>1. CASE UNCHANGED delegationVars
    BY <1>1 DEF delegationVars, DelegationsCounted, Incoming
  <1>2. ASSUME NEW v \in Voters, NEW d \in Voters, SetDelegate(v, d)
        PROVE  DelegationsCounted'
    <2>1. /\ delegate' = [delegate EXCEPT ![v] = d]
          /\ delegateCount' = [delegateCount EXCEPT ![d] = @ + 1]
          /\ delegate[v] = None /\ None \notin Voters
      BY <1>2, BoundsAssumption DEF SetDelegate
    <2>2. Incoming(d)' = Incoming(d) \cup {v} /\ v \notin Incoming(d)
      BY <2>1 DEF Incoming, TypeOK
    <2>3. Cardinality(Incoming(d)') = Cardinality(Incoming(d)) + 1
      BY <2>2, IncomingIsFinite, FS_AddElement
    <2>4. ASSUME NEW e \in Voters, e # d PROVE Incoming(e)' = Incoming(e)
      BY <2>1, <2>4 DEF Incoming, TypeOK
    <2>5. delegateCount'[d] = Cardinality(Incoming(d)')
      BY <2>1, <2>3 DEF DelegationsCounted, TypeOK
    <2>6. \A e \in Voters : e # d => delegateCount'[e] = delegateCount[e]
      BY <2>1 DEF TypeOK
    <2>7. ASSUME NEW e \in Voters
          PROVE  delegateCount'[e] = Cardinality(Incoming(e)')
      BY <2>4, <2>5, <2>6 DEF DelegationsCounted
    <2> QED BY <2>7 DEF DelegationsCounted
  <1>3. ASSUME NEW v \in Voters, UnsetDelegate(v) PROVE DelegationsCounted'
    <2>0. PICK d \in Voters : d = delegate[v]
      BY <1>3 DEF UnsetDelegate, TypeOK
    <2>1. /\ delegate' = [delegate EXCEPT ![v] = None]
          /\ delegateCount' = [delegateCount EXCEPT ![d] = Decremented(@)]
          /\ None \notin Voters
      BY <1>3, <2>0, BoundsAssumption DEF UnsetDelegate
    <2>2. Incoming(d)' = Incoming(d) \ {v} /\ v \in Incoming(d)
      <3>1. \A u \in Voters : delegate'[u] = IF u = v THEN None ELSE delegate[u]
        BY <2>1 DEF TypeOK
      <3>2. v \in Incoming(d)
        BY <2>0 DEF Incoming
      <3>3. \A u \in Voters : delegate'[u] = d <=> delegate[u] = d /\ u # v
        BY <2>1, <3>1
      <3> QED BY <3>2, <3>3 DEF Incoming
    <2>3. /\ Cardinality(Incoming(d)') = Cardinality(Incoming(d)) - 1
          /\ Cardinality(Incoming(d)) > 0
      <3>1. Cardinality(Incoming(d) \ {v}) = Cardinality(Incoming(d)) - 1
        BY <2>2, IncomingIsFinite, FS_RemoveElement
      <3>2. Cardinality(Incoming(d)) # 0
        BY <2>2, IncomingIsFinite, FS_EmptySet
      <3>3. Cardinality(Incoming(d)) \in Nat
        BY IncomingIsFinite
      <3> QED BY <2>2, <3>1, <3>2, <3>3
    <2>4. ASSUME NEW e \in Voters, e # d PROVE Incoming(e)' = Incoming(e)
      <3>1. \A u \in Voters : delegate'[u] = IF u = v THEN None ELSE delegate[u]
        BY <2>1 DEF TypeOK
      <3>2. \A u \in Voters : delegate'[u] = e <=> delegate[u] = e
        BY <2>0, <2>1, <2>4, <3>1
      <3> QED BY <3>2 DEF Incoming
    <2>5. delegateCount'[d] = Decremented(delegateCount[d])
      BY <2>1 DEF TypeOK
    <2>6. delegateCount'[d] = Cardinality(Incoming(d)')
      BY <2>1, <2>3, <2>5 DEF DelegationsCounted, Decremented
    <2>7. \A e \in Voters : e # d => delegateCount'[e] = delegateCount[e]
      BY <2>1 DEF TypeOK
    <2>8. ASSUME NEW e \in Voters
          PROVE  delegateCount'[e] = Cardinality(Incoming(e)')
      <3>1. CASE e = d
        BY <2>6, <3>1
      <3>2. CASE e # d
        BY <2>4, <2>7, <3>2 DEF DelegationsCounted
      <3> QED BY <3>1, <3>2
    <2> QED BY <2>8 DEF DelegationsCounted
  <1> QED BY <1>1, <1>2, <1>3, DelegationSteps

(* The weight of a vote is one plus the number of voters who delegate to   *)
(* the voter at that moment: the counter never drifts from the delegations *)
(* it counts, and unset_delegate never finds it at zero.                   *)
THEOREM WeightsAreDelegations == Spec => []DelegationsCounted
  <1>1. Init => DelegationsCounted
    <2> SUFFICES ASSUME Init, NEW d \in Voters
                 PROVE  delegateCount[d] = Cardinality(Incoming(d))
      BY DEF DelegationsCounted
    <2>1. Incoming(d) = {}
      BY BoundsAssumption DEF Init, Incoming
    <2> QED BY <2>1, FS_EmptySet DEF Init
  <1> QED BY <1>1, CountedStep, TypeCorrect, PTL DEF Spec

(* Counters and delegations agree, and no two voters delegate to each      *)
(* other (set_delegate, unset_delegate).                                   *)
THEOREM DelegationsAreSound == Spec => []DelegationsSound
  <1>1. DelegationsCounted /\ NoMutualDelegation => DelegationsSound
    BY DEF DelegationsSound
  <1> QED BY <1>1, NobodyDelegatesBack, WeightsAreDelegations, PTL

-----------------------------------------------------------------------------
(* Tallies.                                                                *)

(* Nobody has voted on a proposal that does not exist.                     *)
BallotsHaveProposals ==
  \A p \in Proposals : ~Exists(p) => \A v \in Voters : ballot[p][v] = "none"

(* The tally of one proposal.                                              *)
TallyOf(p) ==
  Exists(p) =>
    /\ proposal[p].forVotes \in
         Cardinality(Ballots(p, "for"))
           .. (1 + MaxIncoming) * Cardinality(Ballots(p, "for"))
    /\ proposal[p].againstVotes \in
         Cardinality(Ballots(p, "against"))
           .. (1 + MaxIncoming) * Cardinality(Ballots(p, "against"))

LEMMA BoundGrows ==
  ASSUME NEW n, NEW k \in Nat, NEW w \in Nat,
         n \in k .. (1 + MaxIncoming) * k, 1 <= w, w <= 1 + MaxIncoming
  PROVE  n + w \in (k + 1) .. (1 + MaxIncoming) * (k + 1)
  <1>1. MaxIncoming \in Nat
    BY BoundsAssumption
  <1>2. /\ (1 + MaxIncoming) * (k + 1) = (1 + MaxIncoming) * k + (1 + MaxIncoming)
        /\ (1 + MaxIncoming) * k \in Nat
    BY <1>1
  <1> QED BY <1>1, <1>2

LEMMA BallotsAreFinite ==
  ASSUME NEW p, NEW s
  PROVE  IsFiniteSet(Ballots(p, s)) /\ Cardinality(Ballots(p, s)) \in Nat
  <1>1. Ballots(p, s) \subseteq Voters
    BY DEF Ballots
  <1> QED BY <1>1, BoundsAssumption, FS_Subset, FS_CardinalityType

LEMMA CountedTally ==
  ASSUME TypeOK, TallyMatchesBallots, NEW p \in Proposals, NEW v \in Voters,
         NEW s \in Supports, Counts(p, v, s)
  PROVE  TallyOf(p)'
  <1>1. /\ proposal[p] \in ProposalRecords
        /\ proposal'[p] = Tallied(proposal[p], s, Weight(v))
        /\ ballot'[p] = [ballot[p] EXCEPT ![v] = s]
        /\ ballot[p] \in [Voters -> Supports \cup {"none"}]
        /\ ballot[p][v] = "none"
    BY CountsType DEF TypeOK, Counts, HasVoted
  <1>2. TallyOf(p) /\ Exists(p)
    BY <1>1, ExistsIs DEF TallyMatchesBallots, TallyOf
  <1>3. /\ Weight(v) \in Nat /\ 1 <= Weight(v) /\ Weight(v) <= 1 + MaxIncoming
    BY WeightIs
  <1>4. /\ Ballots(p, s)' = Ballots(p, s) \cup {v} /\ v \notin Ballots(p, s)
        /\ \A t \in Supports : t # s => Ballots(p, t)' = Ballots(p, t)
    BY <1>1 DEF Ballots, Supports
  <1>5. Cardinality(Ballots(p, s)') = Cardinality(Ballots(p, s)) + 1
    BY <1>4, BallotsAreFinite, FS_AddElement
  <1>6. /\ Cardinality(Ballots(p, s)) \in Nat
    BY BallotsAreFinite
  <1>7. CASE s = "for"
    <2>1. /\ proposal'[p].forVotes = proposal[p].forVotes + Weight(v)
          /\ proposal'[p].againstVotes = proposal[p].againstVotes
      BY <1>1, <1>3, <1>7, TalliedIs
    <2>2. proposal'[p].forVotes \in Cardinality(Ballots(p, "for")')
            .. (1 + MaxIncoming) * Cardinality(Ballots(p, "for")')
      BY <1>2, <1>3, <1>5, <1>6, <1>7, <2>1, BoundGrows DEF TallyOf
    <2>3. Ballots(p, "against")' = Ballots(p, "against")
      BY <1>4, <1>7 DEF Supports
    <2> QED BY <1>2, <2>1, <2>2, <2>3 DEF TallyOf
  <1>8. CASE s = "against"
    <2>1. /\ proposal'[p].againstVotes = proposal[p].againstVotes + Weight(v)
          /\ proposal'[p].forVotes = proposal[p].forVotes
      BY <1>1, <1>3, <1>8, TalliedIs
    <2>2. proposal'[p].againstVotes \in Cardinality(Ballots(p, "against")')
            .. (1 + MaxIncoming) * Cardinality(Ballots(p, "against")')
      BY <1>2, <1>3, <1>5, <1>6, <1>8, <2>1, BoundGrows DEF TallyOf
    <2>3. Ballots(p, "for")' = Ballots(p, "for")
      BY <1>4, <1>8 DEF Supports
    <2> QED BY <1>2, <2>1, <2>2, <2>3 DEF TallyOf
  <1> QED BY <1>7, <1>8 DEF Supports

TallyInv == TypeOK /\ BallotsHaveProposals /\ TallyMatchesBallots

LEMMA TallyStep == TallyInv /\ [Next]_vars => TallyInv'
  <1> SUFFICES ASSUME TallyInv, [Next]_vars PROVE TallyInv'
    OBVIOUS
  <1> USE DEF TallyInv
  <1>1. TypeOK /\ TypeOK'
    BY TypeStep
  <1>2. CASE UNCHANGED <<proposal, ballot>>
    BY <1>1, <1>2
       DEF BallotsHaveProposals, TallyMatchesBallots, Exists, Ballots
  <1>3. ASSUME NEW p \in Proposals, Creates(p), UNCHANGED ballot
        PROVE  BallotsHaveProposals' /\ TallyMatchesBallots'
    <2>1. /\ proposal'[p] = NewProposal
          /\ \A q \in Proposals : q # p => proposal'[q] = proposal[q]
      BY <1>1, <1>3 DEF Creates, TypeOK
    <2>2. \A s \in Supports : Ballots(p, s)' = {}
      BY <1>3 DEF Ballots, BallotsHaveProposals, Creates, Supports
    <2>3. \A s \in Supports : Cardinality(Ballots(p, s)') = 0
      BY <2>2, FS_EmptySet
    <2>4. TallyOf(p)'
      <3>1. 0 \in 0 .. (1 + MaxIncoming) * 0
        BY BoundsAssumption
      <3> QED BY <1>1, <2>1, <2>3, <3>1, NewProposalIs DEF TallyOf, Supports
    <2>5. ASSUME NEW q \in Proposals, q # p PROVE TallyOf(q)'
      BY <1>3, <2>1, <2>5 DEF TallyOf, TallyMatchesBallots, Exists, Ballots
    <2>6. BallotsHaveProposals'
      BY <1>3, <2>1, NotAProposal DEF BallotsHaveProposals, Exists, Creates
    <2> QED BY <2>4, <2>5, <2>6 DEF TallyMatchesBallots, TallyOf
  <1>4. ASSUME NEW p \in Proposals, Executes(p), UNCHANGED ballot
        PROVE  BallotsHaveProposals' /\ TallyMatchesBallots'
    <2>1. /\ proposal[p] \in ProposalRecords
          /\ proposal'[p] = [proposal[p] EXCEPT !.executed = TRUE]
          /\ \A q \in Proposals : q # p => proposal'[q] = proposal[q]
      BY <1>1, <1>4, ExecutesType, ExistsIs DEF Executes, Passed, TypeOK
    <2>2. /\ proposal'[p].forVotes = proposal[p].forVotes
          /\ proposal'[p].againstVotes = proposal[p].againstVotes
          /\ Exists(p)
      BY <1>1, <2>1, ExistsIs DEF ProposalRecords
    <2>3. ASSUME NEW q \in Proposals PROVE TallyOf(q)'
      <3>1. CASE q = p
        BY <1>4, <2>2, <3>1 DEF TallyOf, TallyMatchesBallots, Ballots
      <3>2. CASE q # p
        BY <1>4, <2>1, <3>2 DEF TallyOf, TallyMatchesBallots, Exists, Ballots
      <3> QED BY <3>1, <3>2
    <2>4. BallotsHaveProposals'
      <3>1. \A q \in Proposals : Exists(q) => Exists(q)'
        BY <1>1, <2>1, NotAProposal, ExecutesType, <1>4 DEF Exists
      <3> QED BY <1>4, <3>1 DEF BallotsHaveProposals
    <2> QED BY <2>3, <2>4 DEF TallyMatchesBallots, TallyOf
  <1>5. ASSUME NEW p \in Proposals, NEW v \in Voters, NEW s \in Supports,
               Counts(p, v, s)
        PROVE  BallotsHaveProposals' /\ TallyMatchesBallots'
    <2>1. /\ \A q \in Proposals : q # p => /\ proposal'[q] = proposal[q]
                                          /\ ballot'[q] = ballot[q]
          /\ proposal'[p] \in ProposalRecords
      BY <1>1, <1>5, CountsType DEF Counts, CountVote, TypeOK
    <2>2. TallyOf(p)'
      BY <1>5, CountedTally
    <2>3. ASSUME NEW q \in Proposals, q # p PROVE TallyOf(q)'
      BY <2>1, <2>3 DEF TallyOf, TallyMatchesBallots, Exists, Ballots
    <2>4. BallotsHaveProposals'
      BY <2>1, NotAProposal DEF BallotsHaveProposals, Exists
    <2> QED BY <2>2, <2>3, <2>4 DEF TallyMatchesBallots, TallyOf
  <1> QED BY <1>1, <1>2, <1>3, <1>4, <1>5, ProposalSteps

(* Direct and revealed votes together are each counted once, on their own  *)
(* side, with a weight between one and the cap (vote, reveal_vote).        *)
THEOREM VotesCountOnce == Spec => []TallyMatchesBallots
  <1>1. Init => TallyInv
    <2> SUFFICES ASSUME Init PROVE TallyInv
      OBVIOUS
    <2>1. \A p \in Proposals : ~Exists(p)
      BY DEF Init, Exists
    <2>2. BallotsHaveProposals
      BY DEF Init, BallotsHaveProposals
    <2> QED BY <2>1, <2>2, InitTypeOK DEF TallyInv, TallyMatchesBallots
  <1>2. TallyInv => TallyMatchesBallots
    BY DEF TallyInv
  <1> QED BY <1>1, <1>2, TallyStep, PTL DEF Spec

-----------------------------------------------------------------------------
(* Passing.                                                                *)

LEMMA ConfigIs ==
  ASSUME NEW d \in DecayConfigs
  PROVE  d.floorBps \in BasisPoints /\ d.halvingSeconds \in Nat \ {0}
  BY DEF DecayConfigs

LEMMA FloorIs ==
  ASSUME NEW base \in Nat, NEW d \in DecayConfigs
  PROVE  Floor(base, d) \in Nat /\ Floor(base, d) <= base
  <1> DEFINE b == d.floorBps
  <1>1. b \in BasisPoints
    BY ConfigIs
  <1>2. Floor(base, d) = (base * b) \div 10000
    BY DEF Floor
  <1> HIDE DEF b
  <1>3. /\ base * b \in Nat /\ base * 10000 \in Nat
        /\ base * b <= base * 10000
    BY <1>1 DEF BasisPoints
  <1>4. (base * 10000) \div 10000 = base
    OBVIOUS
  <1> QED BY <1>2, <1>3, <1>4, QuotientGrows

(* The comment in the code: "monotone non-increasing with respect to       *)
(* elapsed".                                                               *)
LEMMA QuorumDecays ==
  ASSUME NEW base \in Nat, NEW d \in DecayConfigs \cup {None},
         NEW e \in Nat, NEW f \in Nat, e <= f
  PROVE  /\ EffectiveQuorum(base, d, e) \in Nat
         /\ EffectiveQuorum(base, d, f) <= EffectiveQuorum(base, d, e)
  <1>1. CASE d = None
    BY <1>1 DEF EffectiveQuorum
  <1>2. CASE d # None
    <2> DEFINE full == 2 * d.halvingSeconds
               drop == base - Floor(base, d)
    <2>1. d \in DecayConfigs
      BY <1>2
    <2>2. full \in Nat \ {0}
      <3> DEFINE h == d.halvingSeconds
      <3>1. h \in Nat \ {0}
        BY <2>1, ConfigIs
      <3> HIDE DEF h
      <3>2. 2 * h \in Nat \ {0}
        BY <3>1
      <3> QED BY <3>2, Zenon DEF h, full
    <2>3. drop \in Nat /\ Floor(base, d) \in Nat
      BY <2>1, FloorIs
    <2>4. /\ EffectiveQuorum(base, d, e) =
               IF e >= full THEN Floor(base, d) ELSE base - (drop * e) \div full
          /\ EffectiveQuorum(base, d, f) =
               IF f >= full THEN Floor(base, d) ELSE base - (drop * f) \div full
      BY <1>2 DEF EffectiveQuorum, DecayedQuorum
    <2>5. base = drop + Floor(base, d)
      BY <2>3
    <2> HIDE DEF full, drop
    <2>6. ASSUME NEW x \in Nat, x <= full
          PROVE  (drop * x) \div full \in Nat /\ (drop * x) \div full <= drop
      <3>1. /\ drop * x \in Nat /\ drop * full \in Nat
            /\ drop * x <= drop * full
        BY <2>2, <2>3, <2>6
      <3>2. (drop * full) \div full = drop
        BY <2>2, <2>3
      <3> QED BY <2>2, <3>1, <3>2, QuotientGrows
    <2>7. CASE f < full
      <3>1. /\ drop * e \in Nat /\ drop * f \in Nat
            /\ drop * e <= drop * f
        BY <2>3
      <3>2. (drop * e) \div full <= (drop * f) \div full
        BY <2>2, <3>1, QuotientGrows
      <3>3. e < full /\ ~(e >= full) /\ ~(f >= full)
        BY <2>2, <2>7
      <3>4. /\ (drop * e) \div full \in Nat /\ (drop * f) \div full \in Nat
            /\ (drop * e) \div full <= drop
        BY <2>2, <2>6, <2>7, <3>3
      <3> DEFINE qe == (drop * e) \div full
                 qf == (drop * f) \div full
      <3>5. /\ EffectiveQuorum(base, d, e) = base - qe
            /\ EffectiveQuorum(base, d, f) = base - qf
        BY <2>4, <3>3
      <3> HIDE DEF qe, qf
      <3>6. qe \in Nat /\ qf \in Nat /\ qe <= qf /\ qe <= drop
        BY <3>2, <3>4 DEF qe, qf
      <3> QED BY <2>3, <2>5, <3>5, <3>6
    <2>8. CASE ~(f < full)
      <3>1. EffectiveQuorum(base, d, f) = Floor(base, d)
        BY <2>2, <2>4, <2>8
      <3>2. CASE e >= full
        BY <2>3, <2>4, <3>1, <3>2
      <3>3. CASE ~(e >= full)
        <4> DEFINE qe == (drop * e) \div full
        <4>1. EffectiveQuorum(base, d, e) = base - qe
          BY <2>4, <3>3
        <4>2. qe \in Nat /\ qe <= drop
          BY <2>2, <2>6, <3>3
        <4> HIDE DEF qe
        <4> QED BY <2>3, <2>5, <3>1, <4>1, <4>2
      <3> QED BY <3>2, <3>3
    <2> QED BY <2>7, <2>8
  <1> QED BY <1>1, <1>2

(* Every proposal opened in the past.                                      *)
OpenedBefore ==
  \A p \in Proposals : Exists(p) => proposal[p].startTime <= now

(* No step but the clock's, or a change of the quorum, concerns a proposal *)
(* that has passed.                                                        *)
LEMMA PassedKept ==
  ASSUME TypeOK, TypeOK', OpenedBefore, [Next]_vars,
         NEW p \in Proposals, Passed(p), UNCHANGED <<quorum, decay>>
  PROVE  Passed(p)'
  <1>1. proposal[p] \in ProposalRecords /\ Exists(p)
    BY ExistsIs DEF Passed
  <1>2. now \in Nat /\ now' \in Nat
    BY BoundsAssumption DEF TypeOK
  <1>3. ASSUME proposal'[p] \in ProposalRecords, now' >= now,
               proposal'[p].startTime = proposal[p].startTime,
               proposal'[p].endTime = proposal[p].endTime,
               proposal'[p].forVotes = proposal[p].forVotes,
               proposal'[p].againstVotes = proposal[p].againstVotes
        PROVE  Passed(p)'
    <2> DEFINE e == now - proposal[p].startTime
               f == now' - proposal[p].startTime
    <2>1. /\ proposal[p].startTime \in Nat /\ proposal[p].startTime <= now
          /\ proposal[p].endTime \in Nat /\ proposal[p].forVotes \in Nat
      BY <1>1 DEF OpenedBefore, ProposalRecords
    <2>2. e \in Nat /\ f \in Nat /\ e <= f
      BY <1>2, <1>3, <2>1
    <2>3. quorum \in Nat /\ decay \in DecayConfigs \cup {None}
      BY DEF TypeOK
    <2>4. /\ EffectiveQuorum(quorum, decay, f) <= EffectiveQuorum(quorum, decay, e)
          /\ EffectiveQuorum(quorum, decay, e) \in Nat
          /\ EffectiveQuorum(quorum, decay, f) \in Nat
      <3> HIDE DEF e, f
      <3>1. f <= f
        BY <2>2
      <3> QED BY ONLY <2>2, <2>3, <3>1, QuorumDecays
    <2>5. proposal[p].forVotes >= EffectiveQuorum(quorum, decay, e)
      BY DEF Passed
    <2>6. proposal'[p].forVotes >= EffectiveQuorum(quorum, decay, f)
      <3> HIDE DEF e, f
      <3> QED BY <1>3, <2>1, <2>4, <2>5
    <2>7. EffectiveQuorum(quorum, decay, now - proposal[p].startTime)' =
            EffectiveQuorum(quorum, decay, f)
      BY <1>3 DEF EffectiveQuorum, DecayedQuorum, Floor
    <2>8. Exists(p)'
      BY <1>3, NotAProposal DEF Exists
    <2>9. now' >= proposal'[p].endTime /\ proposal'[p].forVotes > proposal'[p].againstVotes
      BY <1>2, <1>3, <2>1 DEF Passed
    <2> QED BY <2>6, <2>7, <2>8, <2>9 DEF Passed
  <1>4. CASE UNCHANGED <<proposal, ballot>> /\ now' \in Nat /\ now' >= now
    BY <1>1, <1>3, <1>4
  <1>5. ASSUME NEW q \in Proposals, Creates(q), UNCHANGED now
        PROVE  Passed(p)'
    <2>1. q # p /\ proposal'[p] = proposal[p]
      BY <1>1, <1>5 DEF Creates, TypeOK
    <2> QED BY <1>1, <1>2, <1>3, <1>5, <2>1
  <1>6. ASSUME NEW q \in Proposals, Executes(q), UNCHANGED now
        PROVE  Passed(p)'
    <2>1. CASE q = p
      <3>1. /\ proposal'[p] = [proposal[p] EXCEPT !.executed = TRUE]
            /\ proposal'[p] \in ProposalRecords
        BY <1>6, <2>1, ExecutesType
      <3> QED BY <1>1, <1>2, <1>3, <1>6, <3>1 DEF ProposalRecords
    <2>2. CASE q # p
      <3>1. proposal'[p] = proposal[p]
        BY <1>6, <2>2 DEF Executes, TypeOK
      <3> QED BY <1>1, <1>2, <1>3, <1>6, <3>1
    <2> QED BY <2>1, <2>2
  <1>7. ASSUME NEW q \in Proposals, NEW v \in Voters, NEW s \in Supports,
               Counts(q, v, s), UNCHANGED now
        PROVE  Passed(p)'
    <2>1. q # p
      BY <1>1, <1>2, <1>7 DEF Counts, VotingOpen, Passed, ProposalRecords
    <2>2. proposal'[p] = proposal[p]
      BY <1>7, <2>1 DEF Counts, CountVote, TypeOK
    <2> QED BY <1>1, <1>2, <1>3, <1>7, <2>2
  <1> QED BY <1>4, <1>5, <1>6, <1>7, ProposalSteps

LEMMA OpenedStep ==
  TypeOK /\ OpenedBefore /\ [Next]_vars => OpenedBefore'
  <1> SUFFICES ASSUME TypeOK, OpenedBefore, [Next]_vars PROVE OpenedBefore'
    OBVIOUS
  <1>1. now \in Nat /\ now' \in Nat
    BY TypeStep, BoundsAssumption DEF TypeOK
  <1>2. \A p \in Proposals : Exists(p) => proposal[p].startTime \in Nat
    BY ExistsIs DEF ProposalRecords
  <1>3. CASE UNCHANGED <<proposal, ballot>> /\ now' \in Nat /\ now' >= now
    BY <1>1, <1>2, <1>3 DEF OpenedBefore, Exists
  <1>4. ASSUME NEW q \in Proposals, Creates(q), UNCHANGED now
        PROVE  OpenedBefore'
    <2>1. /\ proposal'[q].startTime = now
          /\ \A p \in Proposals : p # q => proposal'[p] = proposal[p]
      BY <1>4, NewProposalIs DEF Creates, TypeOK
    <2> QED BY <1>1, <1>4, <2>1 DEF OpenedBefore, Exists
  <1>5. ASSUME NEW q \in Proposals, Executes(q), UNCHANGED now
        PROVE  OpenedBefore'
    <2>1. /\ proposal'[q].startTime = proposal[q].startTime /\ Exists(q)
          /\ \A p \in Proposals : p # q => proposal'[p] = proposal[p]
      BY <1>5, ExecutesType, ExistsIs
         DEF Executes, Passed, TypeOK, ProposalRecords
    <2> QED BY <1>5, <2>1 DEF OpenedBefore, Exists
  <1>6. ASSUME NEW q \in Proposals, NEW v \in Voters, NEW s \in Supports,
               Counts(q, v, s), UNCHANGED now
        PROVE  OpenedBefore'
    <2>1. /\ proposal'[q].startTime = proposal[q].startTime /\ Exists(q)
      <3>1. /\ proposal[q] \in ProposalRecords /\ Exists(q)
            /\ proposal'[q] = Tallied(proposal[q], s, Weight(v))
            /\ Weight(v) \in Nat
        BY <1>6, CountsType, ExistsIs, WeightIs
      <3> QED BY <3>1, TalliedIs
    <2>2. \A p \in Proposals : p # q => proposal'[p] = proposal[p]
      BY <1>6 DEF Counts, CountVote, TypeOK
    <2> QED BY <1>6, <2>1, <2>2 DEF OpenedBefore, Exists
  <1> QED BY <1>3, <1>4, <1>5, <1>6, ProposalSteps

(* Until an administrator changes the quorum, a proposal that may be       *)
(* executed stays so: its votes are final and the quorum only decays       *)
(* (validate_proposal, compute_effective_quorum).                          *)
THEOREM PassingIsFinal == Spec => PassedStaysPassed
  <1>1. Init => OpenedBefore
    BY DEF Init, OpenedBefore, Exists
  <1>2. TypeOK /\ TypeOK' /\ OpenedBefore /\ [Next]_vars =>
          [\A p \in Proposals :
             Passed(p) /\ UNCHANGED <<quorum, decay>> => Passed(p)']_vars
    BY PassedKept
  <1> QED BY <1>1, <1>2, OpenedStep, TypeCorrect, PTL DEF Spec, PassedStaysPassed

-----------------------------------------------------------------------------
(* Referenda.                                                              *)

ExecutedClosed ==
  \A p \in Proposals :
    Exists(p) /\ proposal[p].executed => now >= proposal[p].endTime

LEMMA ExecutedStep ==
  TypeOK /\ ExecutedClosed /\ [Next]_vars => ExecutedClosed'
  <1> SUFFICES ASSUME TypeOK, ExecutedClosed, [Next]_vars PROVE ExecutedClosed'
    OBVIOUS
  <1>1. now \in Nat
    BY BoundsAssumption DEF TypeOK
  <1>2. \A p \in Proposals : Exists(p) => proposal[p].endTime \in Nat
    BY ExistsIs DEF ProposalRecords
  <1>3. CASE UNCHANGED <<proposal, ballot>> /\ now' \in Nat /\ now' >= now
    BY <1>1, <1>2, <1>3 DEF ExecutedClosed, Exists
  <1>4. ASSUME NEW q \in Proposals, Creates(q), UNCHANGED now
        PROVE  ExecutedClosed'
    <2>1. /\ proposal'[q].executed = FALSE
          /\ \A p \in Proposals : p # q => proposal'[p] = proposal[p]
      BY <1>4, NewProposalIs DEF Creates, TypeOK
    <2> QED BY <1>4, <2>1 DEF ExecutedClosed, Exists
  <1>5. ASSUME NEW q \in Proposals, Executes(q), UNCHANGED now
        PROVE  ExecutedClosed'
    <2>1. /\ proposal'[q].endTime = proposal[q].endTime
          /\ now >= proposal[q].endTime
          /\ \A p \in Proposals : p # q => proposal'[p] = proposal[p]
      BY <1>5, ExecutesType, ExistsIs
         DEF Executes, Passed, TypeOK, ProposalRecords
    <2> QED BY <1>5, <2>1 DEF ExecutedClosed, Exists
  <1>6. ASSUME NEW q \in Proposals, NEW v \in Voters, NEW s \in Supports,
               Counts(q, v, s), UNCHANGED now
        PROVE  ExecutedClosed'
    <2>1. /\ proposal[q] \in ProposalRecords /\ Exists(q)
          /\ proposal'[q] = Tallied(proposal[q], s, Weight(v))
          /\ Weight(v) \in Nat
      BY <1>6, CountsType, ExistsIs, WeightIs
    <2>2. /\ proposal'[q].endTime = proposal[q].endTime
          /\ proposal'[q].executed = proposal[q].executed
      BY <2>1, TalliedIs
    <2>3. \A p \in Proposals : p # q => proposal'[p] = proposal[p]
      BY <1>6 DEF Counts, CountVote, TypeOK
    <2> QED BY <1>6, <2>1, <2>2, <2>3 DEF ExecutedClosed, Exists
  <1> QED BY <1>3, <1>4, <1>5, <1>6, ProposalSteps

LEMMA ReferendumStep ==
  TypeOK /\ ExecutedClosed /\ [Next]_vars => [Referenda!Next]_(Referenda!vars)
  <1> SUFFICES ASSUME TypeOK, ExecutedClosed, [Next]_vars
               PROVE  Referenda!Next \/ UNCHANGED <<Phase, Yes, No>>
    BY DEF Referenda!vars
  <1> DEFINE w == Watched
  <1>1. w \in Proposals /\ now \in Nat
    BY BoundsAssumption DEF TypeOK
  <1>2. ASSUME Exists(w)
        PROVE  /\ proposal[w] \in ProposalRecords
               /\ proposal[w].endTime \in Nat /\ proposal[w].executed \in BOOLEAN
               /\ proposal[w].forVotes \in Nat /\ proposal[w].againstVotes \in Nat
               /\ Yes = proposal[w].forVotes /\ No = proposal[w].againstVotes
    BY <1>1, <1>2, ExistsIs DEF ProposalRecords, Yes, No
  <1>3. ASSUME proposal'[w] = proposal[w], now' = now
        PROVE  UNCHANGED <<Phase, Yes, No>>
    BY <1>3 DEF Phase, Yes, No, Exists
  <1>4. CASE UNCHANGED <<proposal, ballot>> /\ now' \in Nat /\ now' >= now
    <2>1. UNCHANGED <<Yes, No>>
      BY <1>4 DEF Yes, No, Exists
    <2>2. CASE Exists(w) /\ ~proposal[w].executed /\ now < proposal[w].endTime
               /\ now' >= proposal[w].endTime
      <3>1. Phase = "open" /\ Phase' = "closed"
        BY <1>1, <1>2, <1>4, <2>2 DEF Phase, Exists
      <3> QED BY <2>1, <3>1 DEF Referenda!Next, Referenda!Close
    <2>3. CASE ~(Exists(w) /\ ~proposal[w].executed /\ now < proposal[w].endTime
                 /\ now' >= proposal[w].endTime)
      <3>1. Phase' = Phase
        BY <1>1, <1>2, <1>4, <2>3 DEF Phase, Exists
      <3> QED BY <2>1, <3>1
    <2> QED BY <2>2, <2>3
  <1>5. ASSUME NEW q \in Proposals, Creates(q), UNCHANGED now
        PROVE  Referenda!Next \/ UNCHANGED <<Phase, Yes, No>>
    <2>1. CASE q = w
      <3>1. ~Exists(w) /\ proposal'[w] = NewProposal
        BY <1>1, <1>5, <2>1 DEF Creates, TypeOK
      <3>2. /\ Exists(w)' /\ proposal'[w].endTime = now + period
            /\ proposal'[w].forVotes = 0 /\ proposal'[w].againstVotes = 0
            /\ proposal'[w].executed = FALSE
        BY <3>1, NewProposalIs, NotAProposal DEF Exists
      <3>3. period \in Nat \ {0}
        BY DEF TypeOK
      <3>4. Phase = "none" /\ Phase' = "open"
        BY <1>1, <1>5, <3>1, <3>2, <3>3 DEF Phase
      <3>5. UNCHANGED <<Yes, No>>
        BY <3>1, <3>2 DEF Yes, No
      <3> QED BY <3>4, <3>5 DEF Referenda!Next, Referenda!Open
    <2>2. CASE q # w
      BY <1>1, <1>3, <1>5, <2>2 DEF Creates, TypeOK
    <2> QED BY <2>1, <2>2
  <1>6. ASSUME NEW q \in Proposals, Executes(q), UNCHANGED now
        PROVE  Referenda!Next \/ UNCHANGED <<Phase, Yes, No>>
    <2>1. CASE q = w
      <3>1. /\ proposal'[w] = [proposal[w] EXCEPT !.executed = TRUE]
            /\ proposal'[w] \in ProposalRecords
        BY <1>6, <2>1, ExecutesType
      <3>2. Exists(w) /\ Exists(w)'
        BY <1>6, <2>1, <3>1, NotAProposal DEF Exists, Executes, Passed
      <3>3. /\ proposal'[w].executed = TRUE
            /\ proposal'[w].forVotes = proposal[w].forVotes
            /\ proposal'[w].againstVotes = proposal[w].againstVotes
        BY <1>2, <3>1, <3>2 DEF ProposalRecords
      <3>4. Phase = "closed" /\ Phase' = "executed"
        BY <1>6, <2>1, <3>2, <3>3 DEF Phase, Executes, Passed
      <3>5. UNCHANGED <<Yes, No>> /\ Yes > No
        BY <1>2, <1>6, <2>1, <3>2, <3>3 DEF Yes, No, Executes, Passed
      <3> QED BY <3>4, <3>5 DEF Referenda!Next, Referenda!Execute
    <2>2. CASE q # w
      BY <1>1, <1>3, <1>6, <2>2 DEF Executes, TypeOK
    <2> QED BY <2>1, <2>2
  <1>7. ASSUME NEW q \in Proposals, NEW v \in Voters, NEW s \in Supports,
               Counts(q, v, s), UNCHANGED now
        PROVE  Referenda!Next \/ UNCHANGED <<Phase, Yes, No>>
    <2>1. CASE q = w
      <3>1. /\ proposal'[w] = Tallied(proposal[w], s, Weight(v))
            /\ proposal'[w] \in ProposalRecords /\ Exists(w)
            /\ Weight(v) \in Nat /\ 1 <= Weight(v)
        BY <1>7, <2>1, CountsType, ExistsIs, WeightIs
      <3>2. Exists(w)'
        BY <3>1, NotAProposal DEF Exists
      <3>3. /\ proposal'[w].endTime = proposal[w].endTime
            /\ proposal'[w].executed = proposal[w].executed
            /\ s = "for" =>
                 /\ proposal'[w].forVotes = proposal[w].forVotes + Weight(v)
                 /\ proposal'[w].againstVotes = proposal[w].againstVotes
            /\ s = "against" =>
                 /\ proposal'[w].forVotes = proposal[w].forVotes
                 /\ proposal'[w].againstVotes = proposal[w].againstVotes + Weight(v)
        <4>1. proposal[w] \in ProposalRecords
          BY <1>2, <3>1
        <4> HIDE DEF w
        <4> QED BY <3>1, <4>1, TalliedIs
      <3>4. now < proposal[w].endTime
        BY <1>7, <2>1 DEF Counts, VotingOpen
      <3>5. ~proposal[w].executed
        BY <1>1, <1>2, <3>1, <3>4 DEF ExecutedClosed
      <3>6. Phase = "open" /\ Phase' = "open"
        BY <1>1, <1>2, <1>7, <3>1, <3>2, <3>3, <3>4, <3>5 DEF Phase
      <3>7. Yes' = proposal'[w].forVotes /\ No' = proposal'[w].againstVotes
        BY <3>2 DEF Yes, No
      <3>8. \/ Yes' > Yes /\ No' = No
            \/ No' > No /\ Yes' = Yes
        BY <1>2, <3>1, <3>3, <3>7 DEF Supports
      <3> QED BY <3>6, <3>8 DEF Referenda!Next, Referenda!Count
    <2>2. CASE q # w
      BY <1>1, <1>3, <1>7, <2>2 DEF Counts, CountVote, TypeOK
    <2> QED BY <2>1, <2>2
  <1> QED BY <1>4, <1>5, <1>6, <1>7, ProposalSteps

(* Whatever is voted, delegated and configured, a proposal is a            *)
(* referendum: its tally only grows, and only before its end; it is        *)
(* executed after its end, by a majority, and once (vote, reveal_vote,     *)
(* execute_proposal).                                                      *)
THEOREM ProposalsAreReferenda == Spec => ReferendumSpec
  <1>1. Init => Referenda!Init
    BY BoundsAssumption DEF Init, Referenda!Init, Phase, Yes, No, Exists
  <1>2. Init => ExecutedClosed
    BY DEF Init, ExecutedClosed, Exists
  <1> QED BY <1>1, <1>2, ExecutedStep, ReferendumStep, TypeCorrect, PTL
          DEF Spec, ReferendumSpec, Referenda!Spec

=============================================================================
