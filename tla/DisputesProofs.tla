--------------------------- MODULE DisputesProofs ---------------------------
(***************************************************************************)
(* A disputed market, the timeout of a dispute and the approval of its     *)
(* outcome, for any users, outcomes, stakes, caps, delays and times.       *)
(***************************************************************************)
EXTENDS Disputes, DisputeTimeouts, DisputeMultiSig, SequenceTheorems,
        FiniteSetTheorems, TLAPS

-----------------------------------------------------------------------------
(* The disputed market.                                                    *)

(* A copy in the cache may be stale in its votes, answer, winners and      *)
(* state, all written past it, but not in what a dispute or an extension   *)
(* changes.                                                                *)
CopyAgrees ==
  cached # None => /\ cached.endTime = disputed.endTime
                   /\ cached.totalDays = disputed.totalDays
                   /\ cached.stakes = disputed.stakes

(* Records of open disputes, as users and stakes.                          *)
OpenRecords(h) == {[user |-> d.user, stake |-> d.stake] : d \in h \ Closed(h)}

StakesOf(m) == {[user |-> u, stake |-> m.stakes[u]] : u \in Disputers(m)}

(* Once a dispute was resolved the market keeps a winner, in the cache too;*)
(* until then the open records are the disputes, even when winners set     *)
(* past the cache are undone by a stale copy.                              *)
RecordedUntilVerdict ==
  \/ /\ disputed.winner # None
     /\ cached # None => cached.winner # None
  \/ OpenRecords(history) = StakesOf(disputed)

DisputesInv == /\ DisputesTypeOK
               /\ CopyAgrees
               /\ EndTimeAccounted
               /\ OneDisputePerExtension
               /\ DisputeStakesBacked
               /\ RecordedUntilVerdict

LEMMA FetchedAgrees ==
  ASSUME DisputesTypeOK, CopyAgrees
  PROVE  /\ Fetched \in DisputedMarkets
         /\ Fetched.endTime = disputed.endTime
         /\ Fetched.totalDays = disputed.totalDays
         /\ Fetched.stakes = disputed.stakes
         /\ Disputers(Fetched) = Disputers(disputed)
  BY DEF DisputesTypeOK, CopyAgrees, Fetched, Disputers

LEMMA DisputersFinite ==
  ASSUME NEW m
  PROVE  IsFiniteSet(Disputers(m)) /\ Cardinality(Disputers(m)) \in Nat
  BY DisputesAssumption, FS_Subset, FS_CardinalityType DEF Disputers

(* A market with one more dispute: its stakes, its disputers and its end.  *)
LEMMA OneMoreDispute ==
  ASSUME NEW m \in DisputedMarkets, NEW u \in Disputants, NEW s \in Nat,
         s > 0, u \notin Disputers(m)
  PROVE  LET w == WithDispute(m, u, s) IN
         /\ w \in DisputedMarkets
         /\ w.winner = m.winner
         /\ w.endTime = m.endTime + Day
         /\ w.totalDays = m.totalDays
         /\ w.stakes[u] = s
         /\ \A v \in Disputants : v # u => w.stakes[v] = m.stakes[v]
         /\ Disputers(w) = Disputers(m) \cup {u}
         /\ Cardinality(Disputers(w)) = Cardinality(Disputers(m)) + 1
  <1> DEFINE w == WithDispute(m, u, s)
  <1>1. m.stakes \in [Disputants -> Nat] /\ m.endTime \in Nat
    BY DEF DisputedMarkets
  <1>2. m.stakes[u] = 0
    BY <1>1 DEF Disputers
  <1>3. /\ w.winner = m.winner
        /\ w.endTime = m.endTime + Day
        /\ w.totalDays = m.totalDays
        /\ w.stakes = [m.stakes EXCEPT ![u] = @ + s]
    BY DEF WithDispute, DisputedMarkets
  <1>4. w \in DisputedMarkets
    <2>1. [m.stakes EXCEPT ![u] = @ + s] \in [Disputants -> Nat]
      BY <1>1
    <2>2. m.endTime + Day \in Nat
      BY <1>1, DisputesAssumption
    <2>3. w = [m EXCEPT !.stakes = [m.stakes EXCEPT ![u] = @ + s],
                        !.endTime = m.endTime + Day]
      BY DEF WithDispute, DisputedMarkets
    <2> DEFINE f == [m.stakes EXCEPT ![u] = @ + s]
               e == m.endTime + Day
    <2> HIDE DEF f, e
    <2>4. f \in [Disputants -> Nat] /\ e \in Nat
          /\ w = [m EXCEPT !.stakes = f, !.endTime = e]
      BY <2>1, <2>2, <2>3 DEF f, e
    <2> HIDE DEF w
    <2> QED BY <2>4 DEF DisputedMarkets
  <1>5. w.stakes[u] = s /\ \A v \in Disputants : v # u => w.stakes[v] = m.stakes[v]
    BY <1>1, <1>2, <1>3
  <1>6. Disputers(w) = Disputers(m) \cup {u}
    BY <1>5 DEF Disputers
  <1>7. Cardinality(Disputers(w)) = Cardinality(Disputers(m)) + 1
    BY <1>6, DisputersFinite, FS_AddElement
  <1> QED BY <1>3, <1>4, <1>5, <1>6, <1>7

(* Eviction drops no open record.                                          *)
LEMMA EvictionKeepsOpen ==
  ASSUME NEW h
  PROVE  /\ Evicted(h) \subseteq h
         /\ OpenRecords(Evicted(h)) = OpenRecords(h)
  <1>1. Evicted(h) \subseteq h /\ \A d \in h : d.status # "Resolved" => d \in Evicted(h)
    BY DEF Evicted, Closed
  <1>2. Evicted(h) \ Closed(Evicted(h)) = h \ Closed(h)
    BY <1>1 DEF Closed
  <1> QED BY <1>1, <1>2 DEF OpenRecords

LEMMA DisputesInvInit == DisputesInit => DisputesInv
  <1> SUFFICES ASSUME DisputesInit PROVE DisputesInv
    OBVIOUS
  <1> USE ClockAssumption, DisputesAssumption
  <1>1. DisputesTypeOK
    BY DEF DisputesInit, DisputesTypeOK, DisputedMarkets
  <1>2. Disputers(disputed) = {}
    BY DEF DisputesInit, Disputers
  <1>3. Cardinality(Disputers(disputed)) = 0
    BY <1>2, FS_EmptySet
  <1>4. EndTimeAccounted
    BY <1>3 DEF DisputesInit, EndTimeAccounted
  <1>5. OpenRecords(history) = {} /\ StakesOf(disputed) = {}
    BY <1>2 DEF DisputesInit, OpenRecords, StakesOf
  <1> QED BY <1>1, <1>2, <1>4, <1>5
          DEF DisputesInit, DisputesInv, CopyAgrees, OneDisputePerExtension,
              DisputeStakesBacked, RecordedUntilVerdict

(* Counting a vote keeps the records' types and adds to one side.          *)
LEMMA BallotCounted ==
  ASSUME DisputesTypeOK, NEW u \in Disputants, NEW vote \in BOOLEAN, NEW s \in Nat,
         CountBallot(u, vote, s)
  PROVE  /\ ballot' \in DisputeVotings
         /\ ballots' \in [Disputants -> [vote : BOOLEAN, stake : Nat] \cup {None}]
         /\ ballot'.support + ballot'.against
              = s + (IF ballot = None THEN 0 ELSE ballot.support + ballot.against)
         /\ ballot # None => ballot'.support >= ballot.support
         /\ vote => ballot'.support >= s
  <1> USE ClockAssumption, DisputesAssumption
  <1>1. now \in Nat
    BY DEF DisputesTypeOK
  <1>2. Voting \in DisputeVotings
        /\ Voting.support = (IF ballot = None THEN 0 ELSE ballot.support)
        /\ Voting.against = (IF ballot = None THEN 0 ELSE ballot.against)
    BY <1>1 DEF Voting, NewVoting, DisputeVotings, DisputesTypeOK
  <1> DEFINE for == IF vote THEN s ELSE 0
             not == IF vote THEN 0 ELSE s
  <1>3. for \in Nat /\ not \in Nat /\ for + not = s /\ (vote => for = s)
    OBVIOUS
  <1> HIDE DEF for, not
  <1>4. ballot' = [Voting EXCEPT !.votes = @ + 1, !.support = @ + for,
                                 !.against = @ + not]
        /\ ballots' = [ballots EXCEPT ![u] = [vote |-> vote, stake |-> s]]
    BY DEF CountBallot, for, not
  <1>5. /\ ballot' \in DisputeVotings
        /\ ballot'.support = Voting.support + for
        /\ ballot'.against = Voting.against + not
    <2> DEFINE V == Voting
               n == V.votes + 1
               p == V.support + for
               q == V.against + not
    <2>1. V \in DisputeVotings
      BY <1>2
    <2>2. V.votes \in Nat /\ V.support \in Nat /\ V.against \in Nat
      BY <2>1 DEF DisputeVotings
    <2>3. n \in Nat /\ p \in Nat /\ q \in Nat
      BY <2>2, <1>3
    <2>4. ballot' = [V EXCEPT !.votes = n, !.support = p, !.against = q]
      BY <1>4, <2>1 DEF DisputeVotings
    <2> HIDE DEF V, n, p, q
    <2>5. ballot' \in DisputeVotings /\ ballot'.support = p /\ ballot'.against = q
      BY <2>1, <2>3, <2>4 DEF DisputeVotings
    <2> QED BY <2>5 DEF V, p, q
  <1>6. ballots' \in [Disputants -> [vote : BOOLEAN, stake : Nat] \cup {None}]
    BY <1>4 DEF DisputesTypeOK
  <1>7. Voting.support \in Nat /\ Voting.against \in Nat
    BY <1>2 DEF DisputeVotings
  <1> QED BY <1>2, <1>3, <1>5, <1>6, <1>7

LEMMA ProcessDisputeKeeps ==
  ASSUME DisputesInv, NEW u \in Disputants, NEW s \in DisputeAmounts,
         ProcessDispute(u, s)
  PROVE  DisputesInv'
  <1> USE ClockAssumption, DisputesAssumption
  <1> DEFINE m == Fetched
             w == WithDispute(m, u, s)
             n == Cardinality(Disputers(disputed))
  <1>1. /\ m \in DisputedMarkets
        /\ m.endTime = disputed.endTime
        /\ m.totalDays = disputed.totalDays
        /\ m.stakes = disputed.stakes
        /\ Disputers(m) = Disputers(disputed)
    BY FetchedAgrees DEF DisputesInv
  <1>2. /\ s \in Nat /\ s > 0 /\ u \notin Disputers(m)
        /\ now >= m.endTime /\ m.winner = None
    BY DEF ProcessDispute, StakeAcceptable, MarketDisputable
  <1>3. /\ disputed' = w /\ cached' = None /\ extended' = extended
        /\ now' = now /\ limits' = limits
        /\ disputeHeld' = disputeHeld + s
        /\ history' = Evicted(history \cup {NewDispute(m, u, s)})
        /\ CountBallot(u, TRUE, s)
    BY DEF ProcessDispute, Written
  <1>4. /\ w \in DisputedMarkets
        /\ w.winner = None
        /\ w.endTime = disputed.endTime + Day
        /\ w.totalDays = disputed.totalDays
        /\ w.stakes[u] = s
        /\ \A v \in Disputants : v # u => w.stakes[v] = disputed.stakes[v]
        /\ Disputers(w) = Disputers(disputed) \cup {u}
        /\ Cardinality(Disputers(w)) = n + 1
    BY <1>1, <1>2, OneMoreDispute
  <1>5. n \in Nat /\ now \in Nat
    BY DisputersFinite DEF DisputesInv, DisputesTypeOK
  <1>6. /\ ballot' \in DisputeVotings
        /\ ballots' \in [Disputants -> [vote : BOOLEAN, stake : Nat] \cup {None}]
        /\ ballot'.support + ballot'.against
             = s + (IF ballot = None THEN 0 ELSE ballot.support + ballot.against)
        /\ ballot # None => ballot'.support >= ballot.support
        /\ ballot'.support >= s
    BY <1>2, <1>3, BallotCounted DEF DisputesInv
  <1>7. NewDispute(m, u, s) \in DisputeRecords
    BY <1>1, <1>2, <1>5 DEF NewDispute, DisputeRecords
  <1>8. history' \subseteq DisputeRecords
    BY <1>3, <1>7, EvictionKeepsOpen DEF DisputesInv, DisputesTypeOK
  <1> HIDE DEF m, w, n
  <1>9. DisputesTypeOK'
    <2>1. disputeHeld' \in Nat
      BY <1>2, <1>3 DEF DisputesInv, DisputesTypeOK
    <2> QED BY <1>3, <1>4, <1>6, <1>8, <2>1 DEF DisputesInv, DisputesTypeOK
  <1>10. EndTimeAccounted'
    <2>1. disputed.totalDays \in Nat /\ disputed.endTime \in Nat
      BY DEF DisputesInv, DisputesTypeOK, DisputedMarkets
    <2>2. disputed.endTime = EndTime + Day * (disputed.totalDays + n)
          /\ extended = disputed.totalDays
      BY DEF DisputesInv, EndTimeAccounted, n
    <2>3. EndTime + Day * (disputed.totalDays + (n + 1))
            = EndTime + Day * (disputed.totalDays + n) + Day
      BY <1>5, <2>1
    <2> QED BY <1>3, <1>4, <2>2, <2>3 DEF EndTimeAccounted
  <1>11. OneDisputePerExtension'
    <2>1. disputed.totalDays \in Nat
      BY DEF DisputesInv, DisputesTypeOK, DisputedMarkets
    <2>2. now >= EndTime + Day * (disputed.totalDays + n)
      BY <1>1, <1>2 DEF DisputesInv, EndTimeAccounted, n
    <2>3. Day * (disputed.totalDays + n) = Day * disputed.totalDays + Day * n
          /\ Day * disputed.totalDays \in Nat /\ Day * n \in Nat
      BY <1>5, <2>1
    <2>4. now >= EndTime + Day * n
      BY <1>5, <2>2, <2>3
    <2>5. (n + 1) - 1 = n
      BY <1>5
    <2> QED BY <1>3, <1>4, <2>4, <2>5 DEF OneDisputePerExtension
  <1>12. DisputeStakesBacked'
    <2>1. ballot' # None => disputeHeld' = ballot'.support + ballot'.against
      BY <1>2, <1>3, <1>6 DEF DisputesInv, DisputesTypeOK, DisputeVotings,
                              DisputeStakesBacked
    <2>2. ballot' # None
      BY <1>6, NoVotingAssumption
    <2>3. ASSUME NEW v \in Disputers(w) PROVE w.stakes[v] <= ballot'.support
      <3>1. CASE v = u
        BY <3>1, <1>4, <1>6
      <3>2. CASE v # u
        <4>1. v \in Disputers(disputed) /\ v \in Disputants
          BY <3>2, <2>3, <1>4 DEF Disputers
        <4>2. w.stakes[v] <= ballot.support /\ ballot # None
          BY <3>2, <4>1, <1>4 DEF DisputesInv, DisputeStakesBacked
        <4>3. ballot.support \in Nat /\ ballot'.support \in Nat /\ w.stakes[v] \in Nat
          BY <4>1, <4>2, <1>4, <1>6
             DEF DisputesInv, DisputesTypeOK, DisputeVotings, DisputedMarkets
        <4> QED BY <4>2, <4>3, <1>6
      <3> QED BY <3>1, <3>2
    <2> QED BY <1>3, <2>1, <2>2, <2>3 DEF DisputeStakesBacked
  <1>13. RecordedUntilVerdict'
    <2>1. OpenRecords(history) = StakesOf(disputed)
      BY <1>2 DEF DisputesInv, RecordedUntilVerdict, Fetched, m
    <2> DEFINE d == NewDispute(m, u, s)
    <2>2. OpenRecords(history \cup {d})
            = OpenRecords(history) \cup {[user |-> u, stake |-> s]}
      <3>1. d.status = "Active" /\ d.user = u /\ d.stake = s
        BY DEF NewDispute
      <3> HIDE DEF d
      <3>2. (history \cup {d}) \ Closed(history \cup {d})
              = (history \ Closed(history)) \cup {d}
        BY <3>1 DEF Closed
      <3> QED BY <3>1, <3>2 DEF OpenRecords
    <2>3. StakesOf(w) = StakesOf(disputed) \cup {[user |-> u, stake |-> s]}
      BY <1>1, <1>2, <1>4 DEF StakesOf, Disputers
    <2>4. OpenRecords(history') = StakesOf(disputed')
      BY <1>3, <2>1, <2>2, <2>3, EvictionKeepsOpen
    <2> QED BY <2>4 DEF RecordedUntilVerdict
  <1> QED BY <1>3, <1>9, <1>10, <1>11, <1>12, <1>13 DEF DisputesInv, CopyAgrees

LEMMA VoteOnDisputeKeeps ==
  ASSUME DisputesInv, NEW u \in Disputants, NEW s \in DisputeAmounts,
         NEW vote \in BOOLEAN, NEW e \in BOOLEAN, VoteOnDispute(u, vote, s, e)
  PROVE  DisputesInv'
  <1> USE ClockAssumption, DisputesAssumption
  <1>1. /\ Fetched \in DisputedMarkets
        /\ Fetched.endTime = disputed.endTime
        /\ Fetched.totalDays = disputed.totalDays
        /\ Fetched.stakes = disputed.stakes
    BY FetchedAgrees DEF DisputesInv
  <1>2. /\ now' = now /\ disputed' = disputed /\ extended' = extended
        /\ history' = history /\ limits' = limits
        /\ disputeHeld' = disputeHeld + s
        /\ cached' \in {cached, Fetched}
        /\ CountBallot(u, vote, s)
        /\ s \in Nat
    BY DEF VoteOnDispute
  <1>3. /\ ballot' \in DisputeVotings
        /\ ballots' \in [Disputants -> [vote : BOOLEAN, stake : Nat] \cup {None}]
        /\ ballot'.support + ballot'.against
             = s + (IF ballot = None THEN 0 ELSE ballot.support + ballot.against)
        /\ ballot # None => ballot'.support >= ballot.support
    BY <1>2, BallotCounted DEF DisputesInv
  <1>4. DisputesTypeOK'
    BY <1>1, <1>2, <1>3 DEF DisputesInv, DisputesTypeOK
  <1>5. CopyAgrees'
    BY <1>1, <1>2 DEF DisputesInv, CopyAgrees
  <1>6. EndTimeAccounted' /\ OneDisputePerExtension'
    BY <1>2 DEF DisputesInv, EndTimeAccounted, OneDisputePerExtension
  <1>7. DisputeStakesBacked'
    <2>1. ballot' # None => disputeHeld' = ballot'.support + ballot'.against
      BY <1>2, <1>3 DEF DisputesInv, DisputesTypeOK, DisputeVotings,
                        DisputeStakesBacked
    <2>2. ballot' # None
      BY <1>3, NoVotingAssumption
    <2>3. ASSUME NEW v \in Disputers(disputed)
          PROVE  disputed.stakes[v] <= ballot'.support
      <3>1. disputed.stakes[v] <= ballot.support /\ ballot # None
        BY <2>3 DEF DisputesInv, DisputeStakesBacked
      <3>2. ballot.support \in Nat /\ ballot'.support \in Nat
            /\ disputed.stakes[v] \in Nat
        BY <3>1, <1>3 DEF DisputesInv, DisputesTypeOK, DisputeVotings,
                          DisputedMarkets, Disputers
      <3> QED BY <3>1, <3>2, <1>3
    <2> QED BY <1>2, <2>1, <2>2, <2>3 DEF DisputeStakesBacked
  <1>8. RecordedUntilVerdict'
    BY <1>2 DEF DisputesInv, RecordedUntilVerdict, Fetched
  <1> QED BY <1>4, <1>5, <1>6, <1>7, <1>8 DEF DisputesInv

LEMMA ResolveDisputeKeeps ==
  ASSUME DisputesInv, ResolveDispute
  PROVE  DisputesInv'
  <1> USE ClockAssumption, DisputesAssumption
  <1> DEFINE v == Verdict(Fetched)
  <1>1. /\ Fetched \in DisputedMarkets
        /\ Fetched.endTime = disputed.endTime
        /\ Fetched.totalDays = disputed.totalDays
        /\ Fetched.stakes = disputed.stakes
    BY FetchedAgrees DEF DisputesInv
  <1>2. /\ v \in Outcomes
        /\ disputed' = [Fetched EXCEPT !.winner = v]
        /\ cached' = None
        /\ history' = Evicted({[d EXCEPT !.status = "Resolved"] : d \in history})
        /\ UNCHANGED <<now, extended, ballot, ballots, disputeHeld, limits>>
    BY DEF ResolveDispute, Written
  <1> HIDE DEF v
  <1>3. /\ disputed' \in DisputedMarkets
        /\ disputed'.endTime = disputed.endTime
        /\ disputed'.totalDays = disputed.totalDays
        /\ disputed'.stakes = disputed.stakes
        /\ disputed'.winner = v
    BY <1>1, <1>2 DEF DisputedMarkets
  <1>4. Disputers(disputed') = Disputers(disputed)
    BY <1>3 DEF Disputers
  <1>5. {[d EXCEPT !.status = "Resolved"] : d \in history} \subseteq DisputeRecords
    BY DEF DisputesInv, DisputesTypeOK, DisputeRecords
  <1>6. DisputesTypeOK'
    BY <1>2, <1>3, <1>5, EvictionKeepsOpen DEF DisputesInv, DisputesTypeOK
  <1>7. EndTimeAccounted' /\ OneDisputePerExtension' /\ DisputeStakesBacked'
    BY <1>2, <1>3, <1>4
       DEF DisputesInv, EndTimeAccounted, OneDisputePerExtension,
           DisputeStakesBacked
  <1>8. RecordedUntilVerdict' /\ CopyAgrees'
    BY <1>2, <1>3 DEF RecordedUntilVerdict, CopyAgrees
  <1> QED BY <1>6, <1>7, <1>8 DEF DisputesInv

(* A write past the cache, of no more than votes, answer, winner and state.*)
LEMMA RawWriteKeeps ==
  ASSUME DisputesInv, NEW m \in DisputedMarkets, WrittenRaw(m),
         m.endTime = disputed.endTime, m.totalDays = disputed.totalDays,
         m.stakes = disputed.stakes, disputed.winner # None => m.winner # None,
         UNCHANGED <<now, extended, history, ballot, ballots, disputeHeld, limits>>
  PROVE  DisputesInv'
  <1>1. disputed' = m /\ cached' = cached
    BY DEF WrittenRaw
  <1>2. Disputers(disputed') = Disputers(disputed)
        /\ StakesOf(disputed') = StakesOf(disputed)
    BY <1>1 DEF Disputers, StakesOf
  <1>3. DisputesTypeOK' /\ CopyAgrees'
    BY <1>1 DEF DisputesInv, DisputesTypeOK, CopyAgrees
  <1>4. EndTimeAccounted' /\ OneDisputePerExtension' /\ DisputeStakesBacked'
    BY <1>1, <1>2 DEF DisputesInv, EndTimeAccounted, OneDisputePerExtension,
                      DisputeStakesBacked
  <1>5. RecordedUntilVerdict'
    BY <1>1, <1>2 DEF DisputesInv, RecordedUntilVerdict
  <1> QED BY <1>3, <1>4, <1>5 DEF DisputesInv

LEMMA AroundKeeps ==
  ASSUME DisputesInv, NEW o \in Outcomes,
         CommunityVote(o) \/ OracleAnswers(o) \/ ForceResolve(o)
  PROVE  DisputesInv'
  <1> USE DisputesAssumption
  <1>1. disputed \in DisputedMarkets
    BY DEF DisputesInv, DisputesTypeOK
  <1>2. CASE CommunityVote(o)
    <2> DEFINE m == [disputed EXCEPT !.community[o] = @ + 1]
    <2>1. m \in DisputedMarkets /\ m.endTime = disputed.endTime
          /\ m.totalDays = disputed.totalDays /\ m.stakes = disputed.stakes
          /\ m.winner = disputed.winner
      BY <1>1 DEF DisputedMarkets
    <2> QED BY <1>2, <2>1, RawWriteKeeps DEF CommunityVote
  <1>3. CASE OracleAnswers(o)
    <2> DEFINE m == [disputed EXCEPT !.oracle = o]
    <2>1. m \in DisputedMarkets /\ m.endTime = disputed.endTime
          /\ m.totalDays = disputed.totalDays /\ m.stakes = disputed.stakes
          /\ m.winner = disputed.winner
      BY <1>1 DEF DisputedMarkets
    <2> QED BY <1>3, <2>1, RawWriteKeeps DEF OracleAnswers
  <1>4. CASE ForceResolve(o)
    <2> DEFINE m == [disputed EXCEPT !.winner = o, !.state = "Resolved"]
    <2>1. m \in DisputedMarkets /\ m.endTime = disputed.endTime
          /\ m.totalDays = disputed.totalDays /\ m.stakes = disputed.stakes
          /\ m.winner # None
      BY <1>1 DEF DisputedMarkets
    <2> QED BY <1>4, <2>1, RawWriteKeeps DEF ForceResolve
  <1> QED BY <1>2, <1>3, <1>4

(* A write of the fetched copy: stakes unchanged, and the end time moved   *)
(* with the days.                                                          *)
LEMMA CopyWriteKeeps ==
  ASSUME DisputesInv, NEW m \in DisputedMarkets, NEW days \in Nat, Written(m),
         m.endTime = disputed.endTime + Day * days,
         m.totalDays = disputed.totalDays + days,
         m.stakes = disputed.stakes, m.winner = Fetched.winner,
         extended' = extended + days,
         UNCHANGED <<now, history, ballot, ballots, disputeHeld, limits>>
  PROVE  DisputesInv'
  <1> USE DisputesAssumption
  <1>1. disputed' = m /\ cached' = None
    BY DEF Written
  <1>2. Disputers(disputed') = Disputers(disputed)
        /\ StakesOf(disputed') = StakesOf(disputed)
    BY <1>1 DEF Disputers, StakesOf
  <1>3. DisputesTypeOK' /\ CopyAgrees'
    BY <1>1 DEF DisputesInv, DisputesTypeOK, CopyAgrees
  <1>4. EndTimeAccounted'
    <2> DEFINE n == Cardinality(Disputers(disputed))
    <2>1. n \in Nat /\ disputed.totalDays \in Nat
      BY DisputersFinite DEF DisputesInv, DisputesTypeOK, DisputedMarkets
    <2>2. disputed.endTime = EndTime + Day * (disputed.totalDays + n)
          /\ extended = disputed.totalDays
      BY DEF DisputesInv, EndTimeAccounted
    <2> HIDE DEF n
    <2>3. Day * (disputed.totalDays + n) + Day * days
            = Day * ((disputed.totalDays + days) + n)
      BY <2>1
    <2>4. Day * (disputed.totalDays + n) \in Nat /\ Day * days \in Nat
      BY <2>1
    <2> QED BY <1>1, <1>2, <2>2, <2>3, <2>4 DEF EndTimeAccounted, n
  <1>5. OneDisputePerExtension' /\ DisputeStakesBacked'
    BY <1>1, <1>2 DEF DisputesInv, OneDisputePerExtension, DisputeStakesBacked
  <1>6. RecordedUntilVerdict'
    BY <1>1, <1>2 DEF DisputesInv, RecordedUntilVerdict, Fetched
  <1> QED BY <1>3, <1>4, <1>5, <1>6 DEF DisputesInv

LEMMA AdministratorKeeps ==
  ASSUME DisputesInv,
         \/ \E o \in Outcomes \cup {Unlisted} : OverrideAnswer(o)
         \/ \E days \in ExtensionDays : ExtendMarketDuration(days)
  PROVE  DisputesInv'
  <1> USE DisputesAssumption
  <1>1. /\ Fetched \in DisputedMarkets
        /\ Fetched.endTime = disputed.endTime
        /\ Fetched.totalDays = disputed.totalDays
        /\ Fetched.stakes = disputed.stakes
    BY FetchedAgrees DEF DisputesInv
  <1>2. ASSUME NEW o \in Outcomes \cup {Unlisted}, OverrideAnswer(o)
        PROVE  DisputesInv'
    <2> DEFINE m == [Fetched EXCEPT !.oracle = o, !.state = "Resolved"]
    <2>1. /\ m \in DisputedMarkets
          /\ m.endTime = disputed.endTime /\ m.totalDays = disputed.totalDays
          /\ m.stakes = disputed.stakes /\ m.winner = Fetched.winner
      BY <1>1 DEF DisputedMarkets
    <2>2. Written(m) /\ extended' = extended
          /\ UNCHANGED <<now, history, ballot, ballots, disputeHeld, limits>>
      BY <1>2 DEF OverrideAnswer
    <2>3. /\ m.endTime = disputed.endTime + Day * 0
          /\ m.totalDays = disputed.totalDays + 0
          /\ extended = extended + 0
      BY <2>1 DEF DisputedMarkets, DisputesInv, DisputesTypeOK
    <2> HIDE DEF m
    <2> QED BY <2>1, <2>2, <2>3, CopyWriteKeeps
  <1>3. ASSUME NEW days \in ExtensionDays, ExtendMarketDuration(days)
        PROVE  DisputesInv'
    <2> DEFINE m == WithDays(Fetched, days)
    <2>1. /\ m \in DisputedMarkets
          /\ m.endTime = disputed.endTime + days * Day
          /\ m.totalDays = disputed.totalDays + days
          /\ m.stakes = disputed.stakes /\ m.winner = Fetched.winner
      <3>1. days * Day \in Nat
        OBVIOUS
      <3> DEFINE F == Fetched
                 e == F.endTime + days * Day
                 t == F.totalDays + days
                 x == F.extensions + 1
      <3>2. /\ F \in DisputedMarkets
            /\ F.endTime \in Nat /\ F.totalDays \in Nat /\ F.extensions \in Nat
        BY <1>1 DEF DisputedMarkets
      <3>3. e \in Nat /\ t \in Nat /\ x \in Nat
        BY <3>1, <3>2
      <3>4. m = [F EXCEPT !.endTime = e, !.totalDays = t, !.extensions = x]
        BY <3>2 DEF WithDays, DisputedMarkets
      <3>5. e = disputed.endTime + days * Day /\ t = disputed.totalDays + days
        BY <1>1
      <3> HIDE DEF m, F, e, t, x
      <3>6. /\ m \in DisputedMarkets /\ m.endTime = e /\ m.totalDays = t
            /\ m.stakes = F.stakes /\ m.winner = F.winner
        BY <3>2, <3>3, <3>4 DEF DisputedMarkets
      <3> QED BY <3>5, <3>6, <1>1 DEF F
    <2>2. Written(m) /\ extended' = extended + days
          /\ UNCHANGED <<now, history, ballot, ballots, disputeHeld, limits>>
      BY <1>3 DEF ExtendMarketDuration
    <2>3. days * Day = Day * days /\ days \in Nat
      OBVIOUS
    <2> HIDE DEF m
    <2> QED BY <2>1, <2>2, <2>3, CopyWriteKeeps
  <1> QED BY <1>2, <1>3

LEMMA ConfigureKeeps ==
  ASSUME DisputesInv, NEW l \in [floor : Nat, historyCap : Nat,
                                 caps : [Disputants -> Nat],
                                 cumulativeCaps : [Disputants -> Nat],
                                 extensionCap : Nat, changes : 0..MaxConfigs],
         Configure(l), l.changes = limits.changes
  PROVE  DisputesInv'
  <1> USE DisputesAssumption
  <1>1. limits' \in [floor : Nat, historyCap : Nat, caps : [Disputants -> Nat],
                     cumulativeCaps : [Disputants -> Nat], extensionCap : Nat,
                     changes : 0..MaxConfigs]
        /\ UNCHANGED <<now, disputed, cached, extended, history, ballot, ballots,
                       disputeHeld>>
    BY DEF Configure
  <1>2. DisputesTypeOK'
    BY <1>1 DEF DisputesInv, DisputesTypeOK
  <1> QED BY <1>1, <1>2 DEF DisputesInv, CopyAgrees, EndTimeAccounted,
             OneDisputePerExtension, DisputeStakesBacked, RecordedUntilVerdict

LEMMA DisputesInvStep ==
  ASSUME DisputesInv, [DisputesNext]_<<now, disputesVars>>
  PROVE  DisputesInv'
  <1> USE DisputesAssumption, ClockAssumption
  <1>1. ASSUME NEW f \in Floors, SetAntiGriefFloor(f) PROVE DisputesInv'
    BY <1>1, ConfigureKeeps DEF SetAntiGriefFloor, DisputesInv, DisputesTypeOK
  <1>2. ASSUME NEW c \in HistoryCaps, SetHistoryCap(c) PROVE DisputesInv'
    BY <1>2, ConfigureKeeps DEF SetHistoryCap, DisputesInv, DisputesTypeOK
  <1>3. ASSUME NEW u \in Disputants, NEW c \in StakeCaps,
               SetDisputeStakeCap(u, c) \/ SetDisputeCumulativeStakeCap(u, c)
        PROVE  DisputesInv'
    BY <1>3, ConfigureKeeps
       DEF SetDisputeStakeCap, SetDisputeCumulativeStakeCap, DisputesInv,
           DisputesTypeOK
  <1>4. ASSUME NEW c \in ExtensionCaps, SetCumulativeExtensionCap(c)
        PROVE  DisputesInv'
    BY <1>4, ConfigureKeeps DEF SetCumulativeExtensionCap, DisputesInv,
                                DisputesTypeOK
  <1>5. CASE Tick /\ UNCHANGED disputesVars
    <2>1. now \in Nat /\ now' = now + 1 /\ now' \in StartTime..MaxTime
      BY <1>5 DEF Tick, DisputesInv, DisputesTypeOK
    <2>2. UNCHANGED <<disputed, cached, extended, history, ballot, ballots,
                      disputeHeld, limits>>
      BY <1>5 DEF disputesVars
    <2>3. DisputesTypeOK'
      BY <2>1, <2>2 DEF DisputesInv, DisputesTypeOK
    <2>4. OneDisputePerExtension'
      <3> DEFINE due == EndTime + Day * (Cardinality(Disputers(disputed)) - 1)
      <3>1. due \in Int
        BY DisputersFinite
      <3>2. Disputers(disputed) # {} => now >= due
        BY DEF DisputesInv, OneDisputePerExtension
      <3> HIDE DEF due
      <3>3. Disputers(disputed) # {} => now' >= due
        BY <2>1, <3>1, <3>2
      <3> QED BY <2>2, <3>3 DEF OneDisputePerExtension, due
    <2> QED BY <2>2, <2>3, <2>4 DEF DisputesInv, CopyAgrees, EndTimeAccounted,
               DisputeStakesBacked, RecordedUntilVerdict
  <1>6. CASE UNCHANGED <<now, disputesVars>>
    BY <1>6 DEF disputesVars, DisputesInv, DisputesTypeOK, CopyAgrees,
                EndTimeAccounted, OneDisputePerExtension, DisputeStakesBacked,
                RecordedUntilVerdict
  <1> QED BY <1>1, <1>2, <1>3, <1>4, <1>5, <1>6, ProcessDisputeKeeps,
             VoteOnDisputeKeeps, ResolveDisputeKeeps, AroundKeeps,
             AdministratorKeeps
          DEF DisputesNext

(* Records, votes, configuration and both copies of the market keep their  *)
(* types for any users, stakes, caps and times.                            *)
THEOREM DisputesTyped == DisputesSpec => []DisputesTypeOK
  <1>1. DisputesSpec => []DisputesInv
    BY DisputesInvInit, DisputesInvStep, PTL DEF DisputesSpec
  <1>2. DisputesInv => DisputesTypeOK
    BY DEF DisputesInv
  <1> QED BY <1>1, <1>2, PTL

(* The end of a disputed market is accounted for by the days granted and   *)
(* the disputes, which are a day apart at least (extend_market_duration,   *)
(* extend_market_for_dispute), stale copies included.                      *)
THEOREM EndTimeExplained == DisputesSpec => []ExtensionsExplained
  <1>1. DisputesSpec => []DisputesInv
    BY DisputesInvInit, DisputesInvStep, PTL DEF DisputesSpec
  <1>2. DisputesInv => ExtensionsExplained
    BY DEF DisputesInv, ExtensionsExplained
  <1> QED BY <1>1, <1>2, PTL

(* The tokens taken for a dispute are the sides of its vote, and each      *)
(* disputer's stake is on the supporting side (process_dispute,            *)
(* vote_on_dispute).                                                       *)
THEOREM StakesAreBacked == DisputesSpec => []DisputeStakesBacked
  <1>1. DisputesSpec => []DisputesInv
    BY DisputesInvInit, DisputesInvStep, PTL DEF DisputesSpec
  <1>2. DisputesInv => DisputeStakesBacked
    BY DEF DisputesInv
  <1> QED BY <1>1, <1>2, PTL

(* Until there is a winner the history holds the market's disputes, open,  *)
(* whatever is evicted from it and however stale the copies written back   *)
(* are (apply_eviction).                                                   *)
THEOREM NoOpenDisputeIsLost == DisputesSpec => []OpenDisputesRecorded
  <1>1. DisputesSpec => []DisputesInv
    BY DisputesInvInit, DisputesInvStep, PTL DEF DisputesSpec
  <1>2. DisputesInv => OpenDisputesRecorded
    BY DEF DisputesInv, RecordedUntilVerdict, OpenDisputesRecorded, OpenRecords,
           StakesOf
  <1> QED BY <1>1, <1>2, PTL

-----------------------------------------------------------------------------
(* The timeout of a dispute.                                               *)

(* A timeout yet to be extended leaves room for the extension.             *)
TimeoutsInv ==
  /\ TimeoutsTypeOK
  /\ TimeoutBounded
  /\ timeout # NoTimeout /\ timeout.status = "Active"
       => timeout.expires <= timeout.created + MaxTimeoutHours

LEMMA TimeoutsInvInit == TimeoutsInit => TimeoutsInv
  BY ClockAssumption, TimeoutsAssumption
     DEF TimeoutsInit, TimeoutsInv, TimeoutsTypeOK, TimeoutBounded

LEMMA TimeoutsInvStep ==
  ASSUME TimeoutsInv, [TimeoutsNext]_<<now, timeoutVars>>
  PROVE  TimeoutsInv'
  <1> USE ClockAssumption, TimeoutsAssumption
  <1>1. /\ now \in Nat
        /\ timeout # NoTimeout =>
             /\ timeout \in Timeouts
             /\ timeout.created \in Nat /\ timeout.expires \in Nat
    BY DEF TimeoutsInv, TimeoutsTypeOK, Timeouts
  <1>2. ASSUME NEW h \in TimeoutHours, SetDisputeTimeout(h)
        PROVE  TimeoutsInv'
    <2> DEFINE e == now + h
    <2>1. h \in Nat /\ e \in Nat /\ e <= now + MaxTimeoutHours
      BY <1>1, <1>2 DEF SetDisputeTimeout
    <2>2. timeout' = [hours |-> h, created |-> now, expires |-> e,
                      added |-> 0, status |-> "Active"]
          /\ now' = now
      BY <1>2 DEF SetDisputeTimeout
    <2>3. timeoutsSet' \in 0..MaxTimeoutsSet
      BY <1>2 DEF SetDisputeTimeout, TimeoutsInv, TimeoutsTypeOK
    <2> HIDE DEF e
    <2>4. TimeoutsTypeOK'
      BY <1>1, <2>1, <2>2, <2>3 DEF TimeoutsInv, TimeoutsTypeOK, Timeouts
    <2>5. timeout'.created = now /\ timeout'.expires = e
          /\ timeout'.status = "Active"
      BY <2>2
    <2>6. e <= now + MaxTimeoutHours + MaxExtensionHours
      BY <1>1, <2>1
    <2> QED BY <2>1, <2>4, <2>5, <2>6 DEF TimeoutsInv, TimeoutBounded
  <1>3. ASSUME NEW h \in ExtensionHours, ExtendDisputeTimeout(h)
        PROVE  TimeoutsInv'
    <2> DEFINE e == timeout.expires + h
               a == timeout.added + h
    <2>1. /\ h \in Nat /\ h <= MaxExtensionHours
          /\ timeout # NoTimeout /\ timeout.status = "Active"
          /\ UNCHANGED <<now, timeoutsSet>>
          /\ timeout' = [timeout EXCEPT !.added = a, !.expires = e,
                                        !.status = "Extended"]
      BY <1>3, <1>1 DEF ExtendDisputeTimeout, Timeouts
    <2>2. e \in Nat /\ a \in Nat
          /\ e <= timeout.created + MaxTimeoutHours + MaxExtensionHours
      BY <1>1, <2>1 DEF TimeoutsInv, Timeouts
    <2> HIDE DEF e, a
    <2>3. timeout' \in Timeouts /\ timeout'.created = timeout.created
          /\ timeout'.expires = e /\ timeout'.status = "Extended"
      BY <1>1, <2>1, <2>2 DEF Timeouts
    <2> QED BY <2>1, <2>2, <2>3
            DEF TimeoutsInv, TimeoutsTypeOK, TimeoutBounded
  <1>4. CASE AutoResolveDisputeOnTimeout
    <2>1. timeout # NoTimeout /\ now >= timeout.expires
          /\ UNCHANGED <<now, timeoutsSet>>
          /\ timeout' = [timeout EXCEPT !.status = "AutoResolved"]
      BY <1>4 DEF AutoResolveDisputeOnTimeout, Expired
    <2>2. timeout' \in Timeouts /\ timeout'.created = timeout.created
          /\ timeout'.expires = timeout.expires
          /\ timeout'.status = "AutoResolved"
      BY <1>1, <2>1 DEF Timeouts
    <2> QED BY <2>1, <2>2 DEF TimeoutsInv, TimeoutsTypeOK, TimeoutBounded
  <1>5. CASE Tick /\ UNCHANGED timeoutVars
    BY <1>1, <1>5 DEF Tick, timeoutVars, TimeoutsInv, TimeoutsTypeOK,
                      TimeoutBounded
  <1>6. CASE UNCHANGED <<now, timeoutVars>>
    BY <1>6 DEF timeoutVars, TimeoutsInv, TimeoutsTypeOK, TimeoutBounded
  <1> QED BY <1>2, <1>3, <1>4, <1>5, <1>6 DEF TimeoutsNext

(* Whatever timeouts are set and whenever they are extended, one expires   *)
(* within the longest timeout and one extension of when it was set, and is *)
(* settled no sooner (extend_dispute_timeout,                              *)
(* auto_resolve_dispute_on_timeout).                                       *)
THEOREM TimeoutsEnd == TimeoutsSpec => [](TimeoutsTypeOK /\ TimeoutBounded)
  <1>1. TimeoutsSpec => []TimeoutsInv
    BY TimeoutsInvInit, TimeoutsInvStep, PTL DEF TimeoutsSpec
  <1>2. TimeoutsInv => TimeoutsTypeOK /\ TimeoutBounded
    BY DEF TimeoutsInv
  <1> QED BY <1>1, <1>2, PTL

-----------------------------------------------------------------------------
(* The approval of an outcome.                                             *)

(* The approvals stored are one of each signer who approved since the last *)
(* configuration, all of them signers of it.                               *)
ApprovalsAreConsents ==
  multisig # Unconfigured =>
    /\ consents = Listed(multisig.approvals)
    /\ consents \subseteq Listed(multisig.signers)
    /\ IsFiniteSet(consents)
    /\ Cardinality(consents) = Len(multisig.approvals)

MultiSigInv == MultiSigTypeOK /\ ApprovalsAreConsents /\ ApprovedByThreshold

(* One more entry lists one more signer.                                   *)
LEMMA ListedAppend ==
  ASSUME NEW l \in Seq(Signers), NEW s \in Signers
  PROVE  Listed(Append(l, s)) = Listed(l) \cup {s}
  <1> DEFINE k == Append(l, s)
  <1>1. /\ Len(l) \in Nat /\ Len(k) = Len(l) + 1 /\ k[Len(l) + 1] = s
        /\ \A i \in 1..Len(l) : k[i] = l[i]
    BY AppendProperties
  <1> HIDE DEF k
  <1>2. 1..Len(k) = (1..Len(l)) \cup {Len(l) + 1}
    BY <1>1
  <1>3. Listed(k) = Listed(l) \cup {s}
    BY <1>1, <1>2 DEF Listed
  <1> QED BY <1>3 DEF k

LEMMA MultiSigInvInit == MultiSigInit => MultiSigInv
  BY SignersAssumption
     DEF MultiSigInit, MultiSigInv, MultiSigTypeOK, ApprovalsAreConsents,
         ApprovedByThreshold

LEMMA ConfigureSignersKeeps ==
  ASSUME MultiSigInv, NEW signers \in SignerLists, NEW n \in 0..Len(signers),
         ConfigureSigners(signers, n)
  PROVE  MultiSigInv'
  <1> USE SignersAssumption
  <1>1. signers \in Seq(Signers) /\ Len(signers) \in Nat /\ n \in Nat
    BY LenProperties
  <1>2. multisig' = [threshold |-> n, signers |-> signers, approvals |-> <<>>]
        /\ n \in 1..Len(signers) /\ consents' = {} /\ approved' = approved
        /\ configured' \in 0..MaxConfigured
    BY <1>1 DEF ConfigureSigners, MultiSigInv, MultiSigTypeOK
  <1>3. MultiSigTypeOK'
    BY <1>1, <1>2 DEF MultiSigInv, MultiSigTypeOK
  <1>4. Listed(<<>>) = {} /\ Cardinality({}) = 0 /\ IsFiniteSet({})
    BY FS_EmptySet DEF Listed
  <1>5. ApprovalsAreConsents'
    BY <1>2, <1>4 DEF ApprovalsAreConsents
  <1> QED BY <1>2, <1>3, <1>5 DEF MultiSigInv, ApprovedByThreshold

LEMMA ApproveOutcomeKeeps ==
  ASSUME MultiSigInv, NEW s \in Signers, ApproveOutcome(s)
  PROVE  MultiSigInv'
  <1> USE SignersAssumption
  <1> DEFINE m == multisig
             l == Append(m.approvals, s)
             by == consents \cup {s}
             a == [by |-> by, threshold |-> m.threshold, signers |-> m.signers]
  <1>1. /\ m # Unconfigured
        /\ m \in [threshold : Nat, signers : SignerLists,
                  approvals : Seq(Signers)]
        /\ m.threshold \in 1..Len(m.signers)
        /\ s \in Listed(m.signers) /\ s \notin Listed(m.approvals)
    BY DEF ApproveOutcome, MultiSigInv, MultiSigTypeOK
  <1>2. /\ m.approvals \in Seq(Signers) /\ m.signers \in Seq(Signers)
        /\ m.signers \in SignerLists /\ m.threshold \in Nat
    BY <1>1
  <1>3. /\ by = Listed(l) /\ by \subseteq Listed(m.signers) /\ by \subseteq Signers
        /\ IsFiniteSet(by) /\ Cardinality(by) = Len(l) /\ l \in Seq(Signers)
    <2>1. Listed(l) = Listed(m.approvals) \cup {s}
      BY <1>2, ListedAppend
    <2>2. /\ consents = Listed(m.approvals) /\ consents \subseteq Listed(m.signers)
          /\ IsFiniteSet(consents) /\ Cardinality(consents) = Len(m.approvals)
          /\ consents \subseteq Signers
      BY <1>1 DEF MultiSigInv, MultiSigTypeOK, ApprovalsAreConsents
    <2>3. IsFiniteSet(by) /\ Cardinality(by) = Cardinality(consents) + 1
      BY <1>1, <2>2, FS_AddElement
    <2>4. l \in Seq(Signers) /\ Len(l) = Len(m.approvals) + 1
      BY <1>2, AppendProperties
    <2> QED BY <1>1, <2>1, <2>2, <2>3, <2>4
  <1>4. CASE Len(l) >= m.threshold
    <2>1. multisig' = Unconfigured /\ consents' = {} /\ configured' = configured
          /\ approved' = approved \cup {a}
      BY <1>4 DEF ApproveOutcome
    <2>2. a \in [by : SUBSET Signers, threshold : Nat, signers : SignerLists]
      BY <1>2, <1>3
    <2>3. a.by \subseteq Listed(a.signers) /\ Cardinality(a.by) >= a.threshold
      BY <1>3, <1>4
    <2> HIDE DEF a
    <2>4. MultiSigTypeOK' /\ ApprovalsAreConsents'
      BY <2>1, <2>2 DEF MultiSigInv, MultiSigTypeOK, ApprovalsAreConsents
    <2>5. ApprovedByThreshold'
      BY <2>1, <2>3 DEF MultiSigInv, ApprovedByThreshold
    <2> QED BY <2>4, <2>5 DEF MultiSigInv
  <1>5. CASE ~(Len(l) >= m.threshold)
    <2>1. multisig' = [m EXCEPT !.approvals = l] /\ consents' = by
          /\ configured' = configured /\ approved' = approved
      BY <1>5 DEF ApproveOutcome
    <2> HIDE DEF l, by
    <2>2. /\ multisig' \in [threshold : Nat, signers : SignerLists,
                            approvals : Seq(Signers)]
          /\ multisig'.threshold = m.threshold /\ multisig'.signers = m.signers
          /\ multisig'.approvals = l
      BY <1>1, <1>3, <2>1
    <2>3. MultiSigTypeOK'
      BY <1>1, <1>3, <2>1, <2>2 DEF MultiSigInv, MultiSigTypeOK
    <2>4. ApprovalsAreConsents'
      BY <1>3, <2>1, <2>2 DEF ApprovalsAreConsents
    <2> QED BY <2>1, <2>3, <2>4 DEF MultiSigInv, ApprovedByThreshold
  <1> QED BY <1>4, <1>5

(* Whatever is configured while approvals are collected, an outcome is     *)
(* approved by the threshold of its own configuration, in different        *)
(* signers of it (configure, approve).                                     *)
THEOREM ApprovalsReachThreshold ==
  MultiSigSpec => [](MultiSigTypeOK /\ ApprovedByThreshold)
  <1>1. MultiSigInv /\ [MultiSigNext]_multisigVars => MultiSigInv'
    <2> SUFFICES ASSUME MultiSigInv, [MultiSigNext]_multisigVars
                 PROVE  MultiSigInv'
      OBVIOUS
    <2>1. CASE UNCHANGED multisigVars
      BY <2>1 DEF multisigVars, MultiSigInv, MultiSigTypeOK,
                  ApprovalsAreConsents, ApprovedByThreshold
    <2> QED BY <2>1, ConfigureSignersKeeps, ApproveOutcomeKeeps DEF MultiSigNext
  <1>2. MultiSigInv => MultiSigTypeOK /\ ApprovedByThreshold
    BY DEF MultiSigInv
  <1>3. MultiSigSpec => []MultiSigInv
    BY <1>1, MultiSigInvInit, PTL DEF MultiSigSpec
  <1> QED BY <1>2, <1>3, PTL

=============================================================================
