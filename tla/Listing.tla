------------------------------ MODULE Listing ------------------------------
(***************************************************************************)
(* The terms of one market: its description, outcomes, category and tags,  *)
(* which the administrator may edit until somebody bets (lib.rs), and the  *)
(* bets and votes made under them.  Edits and votes read and write         *)
(* persistent storage; bets and refunds go through the read cache          *)
(* (markets.rs), which an edit leaves as it was.  A bet or a vote carries  *)
(* one amount here; how much they are worth is Market's.                   *)
(***************************************************************************)
EXTENDS Integers, FiniteSets

CONSTANTS
  Punters,     \* users
  Questions,   \* descriptions
  Options,     \* names an outcome may have
  OutcomeSets, \* lists of outcomes; at least two (new_outcomes.len() >= 2)
  Labels,      \* categories, and lists of tags
  NoCopy,      \* nothing is cached
  NoChoice,    \* no bet, no vote
  FreeVotes,   \* whether a vote may carry no stake: nothing forbids it
  MaxTurnover, \* bound on the bets and votes
  MaxEdits,    \* bound on the edits
  MaxPeeks     \* bound on the reads that fill the cache

ASSUME ListingAssumption ==
  /\ IsFiniteSet(Punters)
  /\ Questions # {} /\ OutcomeSets # {} /\ Labels # {}
  /\ \A s \in OutcomeSets : s \subseteq Options /\ Cardinality(s) >= 2
  /\ NoChoice \notin Options
  /\ FreeVotes \in BOOLEAN
  /\ MaxTurnover \in Nat
  /\ MaxEdits \in Nat
  /\ MaxPeeks \in Nat

VARIABLES
  phase,    \* 0 until bet_deadline, 1 until end_time, 2 after it
  market,   \* the market in persistent storage
  copy,     \* the market in the read cache, or NoCopy
  bets,     \* the bet of each user; its terms are history
  betCount, \* BetStats.total_bets
  turnover, \* history: bets and votes
  edits,    \* history: edits
  peeks     \* history: reads that filled the cache

listingVars == <<phase, market, copy, bets, betCount, turnover, edits, peeks>>

Terms == [question : Questions, outcomes : OutcomeSets]

(* The commitment is a digest of the terms, and stands here for them.      *)
Listings ==
  [terms : Terms, commitment : Terms, category : Labels, tags : Labels,
   state : {"Active", "Cancelled"}, total : Nat,
   votes : [Punters -> Options \cup {NoChoice}], stakes : [Punters -> {0, 1}]]

ListedBets ==
  [status : {"Active", "Cancelled", "Refunded"}, choice : Options, terms : Terms]

ListingTypeOK ==
  /\ phase \in 0..2
  /\ market \in Listings
  /\ copy \in Listings \cup {NoCopy}
  /\ bets \in [Punters -> ListedBets \cup {NoChoice}]
  /\ betCount \in Nat
  /\ turnover \in 0..MaxTurnover
  /\ edits \in 0..MaxEdits
  /\ peeks \in 0..MaxPeeks

(* What the market is created with: which terms they are makes no odds.    *)
FirstTerms == CHOOSE t \in Terms : TRUE

FirstLabel == CHOOSE l \in Labels : TRUE

ListingInit ==
  /\ phase = 0
  /\ market = [terms |-> FirstTerms, commitment |-> FirstTerms,
               category |-> FirstLabel, tags |-> FirstLabel,
               state |-> "Active", total |-> 0,
               votes |-> [u \in Punters |-> NoChoice],
               stakes |-> [u \in Punters |-> 0]]
  /\ copy = NoCopy
  /\ bets = [u \in Punters |-> NoChoice]
  /\ betCount = 0
  /\ turnover = 0 /\ edits = 0 /\ peeks = 0

-----------------------------------------------------------------------------
(* Markets as they are read and written.                                   *)

(* get_market fills the cache; update_market clears it.                    *)
ReadMarket == IF copy = NoCopy THEN market ELSE copy

StoreThrough(m) == market' = m /\ copy' = NoCopy

StoreDirectly(m) == market' = m /\ copy' = copy

WithVote(m, u, c, stake) ==
  [m EXCEPT !.votes[u] = c, !.stakes[u] = stake, !.total = @ + stake]

(* saturating_sub, and the entries of the maps removed.                    *)
WithoutBet(m, u) ==
  [m EXCEPT !.votes[u] = NoChoice, !.stakes[u] = 0,
            !.total = IF @ > 0 THEN @ - 1 ELSE 0]

IsActive(u) == bets[u] # NoChoice /\ bets[u].status = "Active"

-----------------------------------------------------------------------------
(* Bets and votes.                                                         *)

(* vote: one vote for each user.                                           *)
VoteListed(u, c, stake) ==
  /\ market.state = "Active" /\ phase = 0
  /\ c \in market.terms.outcomes
  /\ market.votes[u] = NoChoice
  /\ turnover < MaxTurnover
  /\ turnover' = turnover + 1
  /\ StoreDirectly(WithVote(market, u, c, stake))
  /\ UNCHANGED <<phase, bets, betCount, edits, peeks>>

(* Seeded fault: the bet is checked against the copy and added to the      *)
(* market as stored.                                                       *)
BetListedFresh(u, c) ==
  LET m == ReadMarket IN
  /\ m.state = "Active" /\ phase = 0
  /\ c \in m.terms.outcomes
  /\ bets[u] # NoChoice => bets[u].status = "Cancelled"
  /\ turnover < MaxTurnover
  /\ turnover' = turnover + 1
  /\ bets' = [bets EXCEPT ![u] = [status |-> "Active", choice |-> c,
                                  terms |-> m.terms]]
  /\ betCount' = betCount + 1
  /\ StoreThrough(WithVote(market, u, c, 1))
  /\ UNCHANGED <<phase, edits, peeks>>

(* place_bet: a user may bet again after cancelling.                       *)
BetListed(u, c) ==
  LET m == ReadMarket IN
  /\ m.state = "Active" /\ phase = 0
  /\ c \in m.terms.outcomes
  /\ bets[u] # NoChoice => bets[u].status = "Cancelled"
  /\ turnover < MaxTurnover
  /\ turnover' = turnover + 1
  /\ bets' = [bets EXCEPT ![u] = [status |-> "Active", choice |-> c,
                                  terms |-> m.terms]]
  /\ betCount' = betCount + 1
  /\ StoreThrough(WithVote(m, u, c, 1))
  /\ UNCHANGED <<phase, edits, peeks>>

(* cancel_bet: until the end, whatever the market's state.                 *)
CancelListedBet(u) ==
  /\ IsActive(u)
  /\ phase < 2
  /\ bets' = [bets EXCEPT ![u].status = "Cancelled"]
  /\ betCount' = IF betCount > 0 THEN betCount - 1 ELSE 0
  /\ StoreThrough(WithoutBet(ReadMarket, u))
  /\ UNCHANGED <<phase, turnover, edits, peeks>>

(* cancel_event stores the market as cancelled; refund_market_bets then    *)
(* reads it through the cache and stores it again.                         *)
CancelListing ==
  LET stored == [market EXCEPT !.state = "Cancelled"]
      m == IF copy = NoCopy THEN stored ELSE copy
      gone == {u \in Punters : IsActive(u)}
      n == Cardinality(gone)
  IN /\ market.state = "Active"
     /\ bets' = [u \in Punters |-> IF u \in gone
                                   THEN [bets[u] EXCEPT !.status = "Refunded"]
                                   ELSE bets[u]]
     /\ StoreThrough([m EXCEPT
          !.votes = [u \in Punters |-> IF u \in gone THEN NoChoice ELSE @[u]],
          !.stakes = [u \in Punters |-> IF u \in gone THEN 0 ELSE @[u]],
          !.total = IF @ > n THEN @ - n ELSE 0])
     /\ UNCHANGED <<phase, betCount, turnover, edits, peeks>>

-----------------------------------------------------------------------------
(* Edits.                                                                  *)

(* No bet and no stake; a vote without a stake does not count.             *)
Editable ==
  /\ market.state = "Active"
  /\ betCount = 0
  /\ market.total = 0

Edit(m) ==
  /\ Editable
  /\ edits < MaxEdits
  /\ edits' = edits + 1
  /\ StoreDirectly(m)
  /\ UNCHANGED <<phase, bets, betCount, turnover, peeks>>

(* refresh_metadata_commitment                                             *)
Committed(m) == [m EXCEPT !.commitment = m.terms]

UpdateEventDescription(q) ==
  Edit(Committed([market EXCEPT !.terms.question = q]))

UpdateEventOutcomes(s) ==
  Edit(Committed([market EXCEPT !.terms.outcomes = s]))

UpdateEventCategory(l) == Edit([market EXCEPT !.category = l])

UpdateEventTags(l) == Edit([market EXCEPT !.tags = l])

(* A read-only call that leaves the market in the cache.                   *)
Peek ==
  /\ copy = NoCopy
  /\ peeks < MaxPeeks
  /\ peeks' = peeks + 1
  /\ copy' = market
  /\ UNCHANGED <<phase, market, bets, betCount, turnover, edits>>

Pass ==
  /\ phase < 2
  /\ phase' = phase + 1
  /\ UNCHANGED <<market, copy, bets, betCount, turnover, edits, peeks>>

ListingNext ==
  \/ \E u \in Punters, c \in Options :
       \/ BetListed(u, c)
       \/ \E stake \in IF FreeVotes THEN {0, 1} ELSE {1} : VoteListed(u, c, stake)
  \/ \E u \in Punters : CancelListedBet(u)
  \/ CancelListing
  \/ \E q \in Questions : UpdateEventDescription(q)
  \/ \E s \in OutcomeSets : UpdateEventOutcomes(s)
  \/ \E l \in Labels : UpdateEventCategory(l) \/ UpdateEventTags(l)
  \/ Peek
  \/ Pass

ListingSpec == ListingInit /\ [][ListingNext]_listingVars

-----------------------------------------------------------------------------
(* Whatever was edited, cached and written back, the market says what each *)
(* active bet was placed on: the terms are the ones the bettor was checked *)
(* against, the bet's outcome is one of them, and the commitment is theirs *)
(* (the edits' two guards, and bets that only go through the cache).       *)
TermsKept ==
  /\ market.commitment = market.terms
  /\ \A u \in Punters : IsActive(u) =>
       /\ bets[u].terms = market.terms
       /\ bets[u].choice \in market.terms.outcomes

=============================================================================
