----------------------------- MODULE Governance -----------------------------
(***************************************************************************)
(* Governance (governance.rs): proposals, direct and commit-reveal votes,  *)
(* delegation, the decaying quorum and execution.                          *)
(*                                                                         *)
(* A call that fails leaves no trace and is no step.  A commitment is      *)
(* sha256(salt ++ support) and is modelled by the one support it can be    *)
(* opened with, or by Unopenable.  The function a proposal calls on its    *)
(* target belongs to another contract: if it fails, so does the execution. *)
(***************************************************************************)
EXTENDS Integers, FiniteSets

CONSTANTS
  Voters,         \* addresses
  Proposals,      \* proposal identifiers
  Watched,        \* any one of them, of which ReferendumSpec speaks
  None,           \* no delegate, no commitment, no decay, no proposal
  Unopenable,     \* a commitment that no salt opens
  Periods,        \* voting periods the administrator may set
  Quorums,        \* quorums the administrator may set
  Decays,         \* decay configurations the administrator may set
  InitialPeriod,
  InitialQuorum,
  InitialDecay,   \* a member of Decays, or None
  MaxIncoming,    \* MAX_INCOMING_DELEGATIONS (50 in the code)
  MaxTime,        \* bound on the clock
  MaxSettings     \* bound on the administrator's changes

BasisPoints == 0..10000

DecayConfigs == [floorBps : BasisPoints, halvingSeconds : Nat \ {0}]

(* What initialize and the setters accept.                                 *)
ASSUME ConfigAssumption ==
  /\ Periods \subseteq Nat \ {0} /\ InitialPeriod \in Nat \ {0}
  /\ Quorums \subseteq Nat \ {0} /\ InitialQuorum \in Nat \ {0}
  /\ Decays \subseteq DecayConfigs
  /\ InitialDecay \in Decays \cup {None}
  /\ None \notin DecayConfigs

ASSUME BoundsAssumption ==
  /\ IsFiniteSet(Voters) /\ None \notin Voters
  /\ Watched \in Proposals
  /\ MaxIncoming \in Nat
  /\ MaxTime \in Nat /\ MaxSettings \in Nat

VARIABLES
  now,           \* ledger time
  period,        \* VotingPeriod
  quorum,        \* QuorumVotes
  decay,         \* QuorumDecay, or None
  proposal,      \* the proposal of each identifier, or None
  ballot,        \* Vote(id, voter): "none", "for" or "against"
  commitment,    \* VoteCommitment(id, voter), or None
  delegate,      \* Delegate(voter), or None
  delegateCount, \* DelegateCount(voter)
  settings       \* history: changes the administrator made

configVars == <<period, quorum, decay>>
delegationVars == <<delegate, delegateCount>>
voteVars == <<proposal, ballot, commitment>>
vars == <<now, period, quorum, decay, proposal, ballot, commitment, delegate,
          delegateCount, settings>>

ProposalRecords ==
  [startTime : Nat, endTime : Nat, forVotes : Nat, againstVotes : Nat,
   executed : BOOLEAN]

(* NotAProposal separates the records from None for the provers.           *)
ASSUME NotAProposal == None \notin ProposalRecords

Supports == {"for", "against"}

TypeOK ==
  /\ now \in 0..MaxTime
  /\ period \in Nat \ {0}
  /\ quorum \in Nat \ {0}
  /\ decay \in DecayConfigs \cup {None}
  /\ proposal \in [Proposals -> ProposalRecords \cup {None}]
  /\ ballot \in [Proposals -> [Voters -> Supports \cup {"none"}]]
  /\ commitment \in [Proposals -> [Voters -> Supports \cup {Unopenable, None}]]
  /\ delegate \in [Voters -> Voters \cup {None}]
  /\ delegateCount \in [Voters -> 0..MaxIncoming]
  /\ settings \in 0..MaxSettings

Init ==
  /\ now = 0
  /\ period = InitialPeriod
  /\ quorum = InitialQuorum
  /\ decay = InitialDecay
  /\ proposal = [p \in Proposals |-> None]
  /\ ballot = [p \in Proposals |-> [v \in Voters |-> "none"]]
  /\ commitment = [p \in Proposals |-> [v \in Voters |-> None]]
  /\ delegate = [v \in Voters |-> None]
  /\ delegateCount = [v \in Voters |-> 0]
  /\ settings = 0

-----------------------------------------------------------------------------
(* Quorum.                                                                 *)

Floor(base, d) == (base * d.floorBps) \div 10000

(* Seeded fault: the decay applies to the quorum's distance from zero, and *)
(* the floor only once the decay is complete.                              *)
DecayedQuorumUndershoots(base, d, elapsed) ==
  LET full == 2 * d.halvingSeconds IN
  IF elapsed >= full THEN Floor(base, d)
  ELSE base - (base * elapsed) \div full

(* compute_effective_quorum, with a decay configured.                      *)
DecayedQuorum(base, d, elapsed) ==
  LET full == 2 * d.halvingSeconds IN
  IF elapsed >= full THEN Floor(base, d)
  ELSE base - ((base - Floor(base, d)) * elapsed) \div full

EffectiveQuorum(base, d, elapsed) ==
  IF d = None THEN base ELSE DecayedQuorum(base, d, elapsed)

Exists(p) == proposal[p] # None

(* validate_proposal answers "passed".                                     *)
Passed(p) ==
  /\ Exists(p)
  /\ now >= proposal[p].endTime
  /\ proposal[p].forVotes
       >= EffectiveQuorum(quorum, decay, now - proposal[p].startTime)
  /\ proposal[p].forVotes > proposal[p].againstVotes

-----------------------------------------------------------------------------
(* Proposals and votes.                                                    *)

NewProposal ==
  [startTime |-> now, endTime |-> now + period, forVotes |-> 0,
   againstVotes |-> 0, executed |-> FALSE]

CreateProposal(p) ==
  /\ ~Exists(p)
  /\ proposal' = [proposal EXCEPT ![p] = NewProposal]
  /\ UNCHANGED <<now, configVars, ballot, commitment, delegationVars, settings>>

(* Seeded fault: the end of the window is open.                            *)
VotingHasStarted(p) == Exists(p) /\ now >= proposal[p].startTime

VotingOpen(p) ==
  /\ Exists(p)
  /\ now >= proposal[p].startTime
  /\ now < proposal[p].endTime

HasVoted(p, v) == ballot[p][v] # "none"

Weight(v) == 1 + delegateCount[v]

Tallied(r, support, weight) ==
  IF support = "for" THEN [r EXCEPT !.forVotes = @ + weight]
                     ELSE [r EXCEPT !.againstVotes = @ + weight]

(* The vote is recorded and its weight added to the tally.                 *)
CountVote(p, v, support) ==
  /\ ballot' = [ballot EXCEPT ![p][v] = support]
  /\ proposal' = [proposal EXCEPT ![p] = Tallied(@, support, Weight(v))]

(* vote does not ask whether the voter has committed to a vote.            *)
Vote(p, v, support) ==
  /\ VotingOpen(p)
  /\ ~proposal[p].executed
  /\ ~HasVoted(p, v)
  /\ CountVote(p, v, support)
  /\ UNCHANGED <<now, configVars, commitment, delegationVars, settings>>

CommitVote(p, v, c) ==
  /\ VotingOpen(p)
  /\ ~HasVoted(p, v)
  /\ commitment[p][v] = None
  /\ commitment' = [commitment EXCEPT ![p][v] = c]
  /\ UNCHANGED <<now, configVars, proposal, ballot, delegationVars, settings>>

(* Seeded fault: a reveal does not ask whether the voter has voted.        *)
RevealVoteAgain(p, v, support) ==
  /\ commitment[p][v] = support
  /\ VotingOpen(p)
  /\ CountVote(p, v, support)
  /\ commitment' = [commitment EXCEPT ![p][v] = None]
  /\ UNCHANGED <<now, configVars, delegationVars, settings>>

RevealVote(p, v, support) ==
  /\ commitment[p][v] = support
  /\ VotingOpen(p)
  /\ ~HasVoted(p, v)
  /\ CountVote(p, v, support)
  /\ commitment' = [commitment EXCEPT ![p][v] = None]
  /\ UNCHANGED <<now, configVars, delegationVars, settings>>

ExecuteProposal(p) ==
  /\ Passed(p)
  /\ ~proposal[p].executed
  /\ proposal' = [proposal EXCEPT ![p].executed = TRUE]
  /\ UNCHANGED <<now, configVars, ballot, commitment, delegationVars, settings>>

-----------------------------------------------------------------------------
(* Delegation.                                                             *)

(* Seeded fault: the check for a delegation back is missing.               *)
SetDelegateBack(v, d) ==
  /\ v # d
  /\ delegate[v] = None
  /\ delegateCount[d] < MaxIncoming
  /\ delegate' = [delegate EXCEPT ![v] = d]
  /\ delegateCount' = [delegateCount EXCEPT ![d] = @ + 1]
  /\ UNCHANGED <<now, configVars, voteVars, settings>>

SetDelegate(v, d) ==
  /\ v # d
  /\ delegate[d] # v
  /\ delegate[v] = None
  /\ delegateCount[d] < MaxIncoming
  /\ delegate' = [delegate EXCEPT ![v] = d]
  /\ delegateCount' = [delegateCount EXCEPT ![d] = @ + 1]
  /\ UNCHANGED <<now, configVars, voteVars, settings>>

Decremented(n) == IF n > 0 THEN n - 1 ELSE n

UnsetDelegate(v) ==
  /\ delegate[v] # None
  /\ delegateCount' = [delegateCount EXCEPT ![delegate[v]] = Decremented(@)]
  /\ delegate' = [delegate EXCEPT ![v] = None]
  /\ UNCHANGED <<now, configVars, voteVars, settings>>

-----------------------------------------------------------------------------
(* The administrator's settings.                                           *)

(* The model's bound; the code has none.                                   *)
Setting == /\ settings < MaxSettings
           /\ settings' = settings + 1
           /\ UNCHANGED <<now, voteVars, delegationVars>>

SetVotingPeriod(t) == Setting /\ period' = t /\ UNCHANGED <<quorum, decay>>

SetQuorum(q) == Setting /\ quorum' = q /\ UNCHANGED <<period, decay>>

SetQuorumDecay(d) == Setting /\ decay' = d /\ UNCHANGED <<period, quorum>>

Tick ==
  /\ now < MaxTime
  /\ now' = now + 1
  /\ UNCHANGED <<configVars, voteVars, delegationVars, settings>>

Voting(p, v) ==
  \/ \E s \in Supports : Vote(p, v, s) \/ RevealVote(p, v, s)
  \/ \E c \in Supports \cup {Unopenable} : CommitVote(p, v, c)

Delegating(v) == UnsetDelegate(v) \/ \E d \in Voters : SetDelegate(v, d)

Administering ==
  \/ \E t \in Periods : SetVotingPeriod(t)
  \/ \E q \in Quorums : SetQuorum(q)
  \/ \E d \in Decays \cup {None} : SetQuorumDecay(d)

Next ==
  \/ \E p \in Proposals : CreateProposal(p) \/ ExecuteProposal(p)
  \/ \E p \in Proposals : \E v \in Voters : Voting(p, v)
  \/ \E v \in Voters : Delegating(v)
  \/ Administering
  \/ Tick

Spec == Init /\ [][Next]_vars

-----------------------------------------------------------------------------
Ballots(p, support) == {v \in Voters : ballot[p][v] = support}

Incoming(d) == {v \in Voters : delegate[v] = d}

(* The counter a vote's weight is taken from is exactly the number of      *)
(* voters who delegate to the voter, however delegations were set, removed *)
(* and set again (set_delegate, unset_delegate).                           *)
DelegationsCounted ==
  \A d \in Voters : delegateCount[d] = Cardinality(Incoming(d))

(* No two voters delegate to each other ("two-hop cycles (A->B while B->A  *)
(* exists) are rejected", set_delegate), whichever came first.             *)
NoMutualDelegation ==
  \A v \in Voters : delegate[v] # None => delegate[delegate[v]] # v

(* A vote weighs what was delegated to it and nothing goes round in a      *)
(* circle of two (set_delegate, unset_delegate, vote).                     *)
DelegationsSound == DelegationsCounted /\ NoMutualDelegation

(* Every ballot is counted once, on its own side, with a weight of one     *)
(* voter and at most the cap of delegations: direct and revealed votes     *)
(* together neither lose a vote nor count one twice (vote, reveal_vote).   *)
TallyMatchesBallots ==
  \A p \in Proposals : Exists(p) =>
    /\ proposal[p].forVotes \in
         Cardinality(Ballots(p, "for"))
           .. (1 + MaxIncoming) * Cardinality(Ballots(p, "for"))
    /\ proposal[p].againstVotes \in
         Cardinality(Ballots(p, "against"))
           .. (1 + MaxIncoming) * Cardinality(Ballots(p, "against"))

(* A proposal that passes goes on passing until the quorum is changed:     *)
(* votes no longer move, and the passage of time only lowers the quorum    *)
(* ("guaranteed monotone non-increasing", compute_effective_quorum).       *)
PassedStaysPassed ==
  [][\A p \in Proposals :
       Passed(p) /\ UNCHANGED <<quorum, decay>> => Passed(p)']_vars

Phase == IF ~Exists(Watched) THEN "none"
         ELSE IF proposal[Watched].executed THEN "executed"
         ELSE IF now >= proposal[Watched].endTime THEN "closed"
         ELSE "open"

Yes == IF Exists(Watched) THEN proposal[Watched].forVotes ELSE 0

No == IF Exists(Watched) THEN proposal[Watched].againstVotes ELSE 0

Referenda == INSTANCE Referendum WITH phase <- Phase, yes <- Yes, no <- No

(* Every proposal is a referendum: its tally is final once its window ends *)
(* and before it can be executed (commit_vote and reveal_vote do not ask   *)
(* whether it was executed), and it is executed at most once.              *)
ReferendumSpec == Referenda!Spec

(* "Each (proposal_id, voter) pair contributes at most one vote to the     *)
(* tally" (docs/contracts/GOVERNANCE.md): a tally never exceeds the number *)
(* of voters.                                                              *)
OneVoicePerVoter ==
  \A p \in Proposals : Exists(p) =>
    proposal[p].forVotes + proposal[p].againstVotes <= Cardinality(Voters)

=============================================================================
