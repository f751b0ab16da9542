------------------------------ MODULE Disputes ------------------------------
(***************************************************************************)
(* A disputed market (disputes.rs): who disputes the oracle's answer and   *)
(* when, the vote on the dispute, the verdict, and what each of them does  *)
(* to the market's end time, which the administrator moves as well         *)
(* (extensions.rs).                                                        *)
(*                                                                         *)
(* One market; the dispute bears its identifier.  Its record is in storage *)
(* and, after a call that only read it, in the read cache too.  Stakes of  *)
(* the market's own votes are kept as totals by outcome.  Left out:        *)
(* calculate_dispute_outcome, distribute_dispute_fees,                     *)
(* claim_dispute_winnings and escalate_dispute never succeed, as nothing   *)
(* sets a vote to Completed and get_dispute_votes returns an empty list.   *)
(***************************************************************************)
EXTENDS Clock, FiniteSetsExt

CONSTANTS
  Disputants,      \* users who dispute and vote on disputes
  Outcomes,        \* outcomes of the market
  None,            \* no answer, no winner, no record
  Unlisted,        \* an answer that is not one of the outcomes
  EndTime,         \* end_time the market was created with
  Day,             \* a day, which is also DISPUTE_EXTENSION_HOURS
  DisputeWindow,   \* dispute_window_seconds; 0 is no limit
  MinDisputeStake, \* MIN_DISPUTE_STAKE
  DisputeAmounts,  \* stakes users offer
  Floors,          \* anti-grief floors the administrator sets
  StakeCaps,       \* caps set on a disputant's stake; 0 is none
  HistoryCaps,     \* caps set on the history; 0 is none
  ExtensionDays,   \* days an extension asks for
  MaxExtensionDays, \* max_extension_days of a market
  MaxExtensions,   \* MAX_TOTAL_EXTENSIONS
  ExtensionCaps,   \* values of cum_ext_cap
  MaxCommunity,    \* bound on what is voted on the market
  MaxBallots,      \* bound on the votes on the dispute
  MaxConfigs       \* bound on the changes of the configuration

ASSUME DisputesAssumption ==
  /\ IsFiniteSet(Disputants)
  /\ None \notin Outcomes
  /\ Unlisted \notin Outcomes \cup {None}
  /\ EndTime \in Nat
  /\ Day \in Nat \ {0}
  /\ DisputeWindow \in Nat
  /\ MinDisputeStake \in Nat \ {0}
  /\ DisputeAmounts \subseteq Nat
  /\ Floors \subseteq Nat
  /\ StakeCaps \subseteq Nat
  /\ HistoryCaps \subseteq Nat
  /\ ExtensionDays \subseteq Nat
  /\ MaxExtensionDays \in Nat
  /\ MaxExtensions \in Nat
  /\ ExtensionCaps \subseteq Nat
  /\ MaxCommunity \in Nat
  /\ MaxBallots \in Nat
  /\ MaxConfigs \in Nat

VARIABLES
  disputed,  \* the market's record in persistent storage
  cached,    \* the copy in the read cache, or None
  extended,  \* MarketExtensionTotal, kept beside the record
  history,   \* DisputeHistory of the market, each record with its place
  ballot,    \* the DisputeVoting record, or None
  ballots,   \* the vote stored under each user, or None
  disputeHeld, \* tokens taken for disputes and votes on them
  limits     \* the administrator's configuration

disputesVars == <<disputed, cached, extended, history, ballot, ballots,
                  disputeHeld, limits>>

DisputedMarkets ==
  [endTime : Nat, totalDays : Nat, extensions : Nat,
   state : {"Active", "Resolved"},
   oracle : Outcomes \cup {Unlisted, None}, winner : Outcomes \cup {None},
   stakes : [Disputants -> Nat], community : [Outcomes -> Nat]]

DisputeRecords ==
  [user : Disputants, stake : Nat, at : Nat, place : Nat,
   status : {"Active", "Resolved"}]

DisputeVotings ==
  [start : Nat, end : Nat, votes : Nat, support : Nat, against : Nat]

ASSUME NoVotingAssumption == None \notin DisputeVotings

DisputesTypeOK ==
  /\ now \in StartTime..MaxTime
  /\ disputed \in DisputedMarkets
  /\ cached \in DisputedMarkets \cup {None}
  /\ extended \in Nat
  /\ history \subseteq DisputeRecords
  /\ ballot \in DisputeVotings \cup {None}
  /\ ballots \in [Disputants -> [vote : BOOLEAN, stake : Nat] \cup {None}]
  /\ disputeHeld \in Nat
  /\ limits \in [floor : Nat, historyCap : Nat, caps : [Disputants -> Nat],
                 cumulativeCaps : [Disputants -> Nat], extensionCap : Nat,
                 changes : 0..MaxConfigs]

DisputesInit ==
  /\ now = StartTime
  /\ disputed = [endTime |-> EndTime, totalDays |-> 0, extensions |-> 0,
                 state |-> "Active", oracle |-> None, winner |-> None,
                 stakes |-> [u \in Disputants |-> 0],
                 community |-> [o \in Outcomes |-> 0]]
  /\ cached = None
  /\ extended = 0
  /\ history = {}
  /\ ballot = None
  /\ ballots = [u \in Disputants |-> None]
  /\ disputeHeld = 0
  /\ limits = [floor |-> 0, historyCap |-> 0,
               caps |-> [u \in Disputants |-> 0],
               cumulativeCaps |-> [u \in Disputants |-> 0],
               extensionCap |-> 0, changes |-> 0]

-----------------------------------------------------------------------------
(* Storage: get_market, update_market and a direct write of the record.    *)
Fetched == IF cached # None THEN cached ELSE disputed

Written(m) == disputed' = m /\ cached' = None

WrittenRaw(m) == disputed' = m /\ UNCHANGED cached

-----------------------------------------------------------------------------
(* Opening a dispute.                                                      *)

Disputers(m) == {u \in Disputants : m.stakes[u] > 0}

MarketDisputable(m) ==
  /\ now >= m.endTime
  /\ DisputeWindow > 0 => now < m.endTime + DisputeWindow
  /\ m.winner = None
  /\ m.oracle # None

(* Both caps look at what the user staked on this market alone.            *)
StakeAcceptable(m, u, s) ==
  /\ s >= limits.floor
  /\ s >= MinDisputeStake
  /\ u \notin Disputers(m)
  /\ limits.caps[u] > 0 => m.stakes[u] + s <= limits.caps[u]
  /\ limits.cumulativeCaps[u] > 0
       => m.stakes[u] + s <= limits.cumulativeCaps[u]

(* add_dispute_to_market and extend_market_for_dispute.                    *)
WithDispute(m, u, s) ==
  [m EXCEPT !.stakes[u] = @ + s, !.endTime = @ + Day]

NewVoting == [start |-> now, end |-> now + Day, votes |-> 0, support |-> 0,
              against |-> 0]

(* get_dispute_voting: a vote nobody stored yet starts now.                *)
Voting == IF ballot = None THEN NewVoting ELSE ballot

(* add_vote_to_dispute: counted, and the user's last vote kept.            *)
CountBallot(u, vote, s) ==
  /\ ballot' = [Voting EXCEPT !.votes = @ + 1,
                              !.support = @ + (IF vote THEN s ELSE 0),
                              !.against = @ + (IF vote THEN 0 ELSE s)]
  /\ ballots' = [ballots EXCEPT ![u] = [vote |-> vote, stake |-> s]]

Closed(h) == {d \in h : d.status = "Resolved"}

Over(h) == IF limits.historyCap > 0 THEN Cardinality(h) - limits.historyCap
                                    ELSE 0

(* Seeded fault: the oldest records go, whatever their status.             *)
EvictedOldest(h) ==
  {d \in h : Cardinality({e \in h : e.place < d.place}) >= Over(h)}

(* apply_eviction: while the history is over its cap, the oldest closed    *)
(* record goes; when all are active it stays over its cap.                 *)
Evicted(h) ==
  {d \in h : d \in Closed(h)
      => Cardinality({e \in Closed(h) : e.place < d.place}) >= Over(h)}

NewDispute(m, u, s) ==
  [user |-> u, stake |-> s, at |-> now, place |-> Cardinality(Disputers(m)),
   status |-> "Active"]

(* Seeded fault: the dispute's stake is not counted as support.            *)
ProcessDisputeUncounted(u, s) ==
  /\ MarketDisputable(Fetched)
  /\ StakeAcceptable(Fetched, u, s)
  /\ disputeHeld' = disputeHeld + s
  /\ Written(WithDispute(Fetched, u, s))
  /\ history' = Evicted(history \cup {NewDispute(Fetched, u, s)})
  /\ CountBallot(u, TRUE, 0)
  /\ UNCHANGED <<now, extended, limits>>

ProcessDispute(u, s) ==
  /\ MarketDisputable(Fetched)
  /\ StakeAcceptable(Fetched, u, s)
  /\ disputeHeld' = disputeHeld + s
  /\ Written(WithDispute(Fetched, u, s))
  /\ history' = Evicted(history \cup {NewDispute(Fetched, u, s)})
  /\ CountBallot(u, TRUE, s)
  /\ UNCHANGED <<now, extended, limits>>

-----------------------------------------------------------------------------
(* The vote on a dispute.  Whether the caller opened it is looked up in    *)
(* the market the call names, which may be another one; whether the caller *)
(* voted is looked up in a list that is always empty.                      *)
VoteOnDispute(u, vote, s, elsewhere) ==
  /\ elsewhere \/ u \notin Disputers(Fetched)
  /\ Voting.start <= now /\ now <= Voting.end
  /\ Voting.votes < MaxBallots
  /\ disputeHeld' = disputeHeld + s
  /\ cached' = IF elsewhere THEN cached ELSE Fetched
  /\ CountBallot(u, vote, s)
  /\ UNCHANGED <<now, disputed, extended, history, limits>>

-----------------------------------------------------------------------------
(* The verdict.                                                            *)

TotalOf(f) == MapThenSumSet(LAMBDA x : f[x], DOMAIN f)

(* calculate_dispute_impact: a percentage of what is staked on the market. *)
Impact(m) == LET staked == TotalOf(m.community) IN
             IF staked = 0 THEN 0 ELSE (TotalOf(m.stakes) * 100) \div staked

(* calculate_community_consensus, with confidence above 70: one outcome at *)
(* most.                                                                   *)
Consensus(m) == {o \in Outcomes : /\ m.community[o] > 0
                                  /\ (m.community[o] * 100)
                                       \div TotalOf(m.community) > 70}

(* determine_final_outcome_with_disputes.                                  *)
Verdict(m) == IF Impact(m) > 30 /\ Consensus(m) # {}
              THEN CHOOSE o \in Consensus(m) : TRUE
              ELSE m.oracle

(* resolve_dispute; the vote on the dispute has no part in it.             *)
ResolveDispute ==
  /\ Fetched.winner = None
  /\ Disputers(Fetched) # {}
  /\ Fetched.oracle # None
  /\ Verdict(Fetched) \in Outcomes
  /\ Written([Fetched EXCEPT !.winner = Verdict(Fetched)])
  /\ history' = Evicted({[d EXCEPT !.status = "Resolved"] : d \in history})
  /\ UNCHANGED <<now, extended, ballot, ballots, disputeHeld, limits>>

-----------------------------------------------------------------------------
(* The market around the dispute.                                          *)

(* vote: open on an active market until its end time.                      *)
CommunityVote(o) ==
  /\ disputed.state = "Active"
  /\ now < disputed.endTime
  /\ TotalOf(disputed.community) < MaxCommunity
  /\ WrittenRaw([disputed EXCEPT !.community[o] = @ + 1])
  /\ UNCHANGED <<now, extended, history, ballot, ballots, disputeHeld, limits>>

(* fetch_oracle_result.                                                    *)
OracleAnswers(o) ==
  /\ disputed.oracle = None
  /\ now >= disputed.endTime
  /\ WrittenRaw([disputed EXCEPT !.oracle = o])
  /\ UNCHANGED <<now, extended, history, ballot, ballots, disputeHeld, limits>>

(* admin_override_verification, with any answer at all.                    *)
OverrideAnswer(o) ==
  /\ Written([Fetched EXCEPT !.oracle = o, !.state = "Resolved"])
  /\ UNCHANGED <<now, extended, history, ballot, ballots, disputeHeld, limits>>

(* force_resolve_market, which looks at no dispute; under one key, once.   *)
ForceResolve(o) ==
  /\ disputed.winner = None
  /\ WrittenRaw([disputed EXCEPT !.winner = o, !.state = "Resolved"])
  /\ UNCHANGED <<now, extended, history, ballot, ballots, disputeHeld, limits>>

(* Seeded fault: the market's total is not brought up to date.             *)
WithDaysUncounted(m, days) ==
  [m EXCEPT !.endTime = @ + days * Day, !.extensions = @ + 1]

WithDays(m, days) ==
  [m EXCEPT !.endTime = @ + days * Day, !.totalDays = @ + days,
            !.extensions = @ + 1]

(* validate_extension_conditions, check_extension_limits.                  *)
Extendable(m, days) ==
  /\ days > 0
  /\ m.state = "Active"
  /\ now < m.endTime
  /\ m.oracle = None
  /\ m.totalDays + days <= MaxExtensionDays
  /\ m.extensions < MaxExtensions

(* check_cumulative_cap.                                                   *)
WithinExtensionCap(days) ==
  limits.extensionCap > 0 => extended + days <= limits.extensionCap

ExtendMarketDuration(days) ==
  /\ Extendable(Fetched, days)
  /\ WithinExtensionCap(days)
  /\ Written(WithDays(Fetched, days))
  /\ extended' = extended + days
  /\ UNCHANGED <<now, history, ballot, ballots, disputeHeld, limits>>

-----------------------------------------------------------------------------
(* The administrator's configuration.                                      *)
Configure(l) ==
  /\ limits.changes < MaxConfigs
  /\ limits' = [l EXCEPT !.changes = @ + 1]
  /\ UNCHANGED <<now, disputed, cached, extended, history, ballot, ballots,
                 disputeHeld>>

SetAntiGriefFloor(f) == Configure([limits EXCEPT !.floor = f])

SetHistoryCap(c) == Configure([limits EXCEPT !.historyCap = c])

SetDisputeStakeCap(u, c) == Configure([limits EXCEPT !.caps[u] = c])

SetDisputeCumulativeStakeCap(u, c) ==
  Configure([limits EXCEPT !.cumulativeCaps[u] = c])

SetCumulativeExtensionCap(c) == Configure([limits EXCEPT !.extensionCap = c])

-----------------------------------------------------------------------------
DisputesNext ==
  \/ \E u \in Disputants, s \in DisputeAmounts : ProcessDispute(u, s)
  \/ \E u \in Disputants, s \in DisputeAmounts, v, e \in BOOLEAN :
       VoteOnDispute(u, v, s, e)
  \/ ResolveDispute
  \/ \E o \in Outcomes : CommunityVote(o) \/ OracleAnswers(o) \/ ForceResolve(o)
  \/ \E o \in Outcomes \cup {Unlisted} : OverrideAnswer(o)
  \/ \E days \in ExtensionDays : ExtendMarketDuration(days)
  \/ \E f \in Floors : SetAntiGriefFloor(f)
  \/ \E c \in HistoryCaps : SetHistoryCap(c)
  \/ \E u \in Disputants, c \in StakeCaps :
       SetDisputeStakeCap(u, c) \/ SetDisputeCumulativeStakeCap(u, c)
  \/ \E c \in ExtensionCaps : SetCumulativeExtensionCap(c)
  \/ Tick /\ UNCHANGED disputesVars

DisputesSpec == DisputesInit /\ [][DisputesNext]_<<now, disputesVars>>

-----------------------------------------------------------------------------
(* The tokens taken for a dispute are the two sides of the vote, and no    *)
(* disputer's stake is missing from the supporting side (process_dispute   *)
(* stakes and votes at once; vote_on_dispute stakes again).                *)
DisputeStakesBacked ==
  /\ disputeHeld = (IF ballot = None THEN 0 ELSE ballot.support + ballot.against)
  /\ \A u \in Disputers(disputed) :
       ballot # None /\ disputed.stakes[u] <= ballot.support

(* Until a verdict the history holds every dispute of the market, open,    *)
(* with its stake: eviction, caps and stale copies lose none of them       *)
(* (apply_eviction drops closed records only).                             *)
OpenDisputesRecorded ==
  disputed.winner = None =>
    {[user |-> d.user, stake |-> d.stake] : d \in history \ Closed(history)}
      = {[user |-> u, stake |-> disputed.stakes[u]] : u \in Disputers(disputed)}

(* The market's end has moved by the days granted and a day for every      *)
(* dispute, in whatever order they came and through whatever stale copy,   *)
(* and the total kept beside the market agrees (extend_market_duration,    *)
(* increment_extension_total, extend_market_for_dispute).                  *)
EndTimeAccounted ==
  /\ disputed.endTime =
       EndTime + Day * (disputed.totalDays + Cardinality(Disputers(disputed)))
  /\ extended = disputed.totalDays

(* A market is disputed once in each extension: by the time it has n       *)
(* disputes, n - 1 extensions have passed since it was due to end.         *)
OneDisputePerExtension ==
  Disputers(disputed) # {}
    => now >= EndTime + Day * (Cardinality(Disputers(disputed)) - 1)

(* The end of a disputed market can be explained by its extensions and its *)
(* disputes, one a day (extend_market_for_dispute, process_dispute).       *)
ExtensionsExplained == EndTimeAccounted /\ OneDisputePerExtension

=============================================================================
