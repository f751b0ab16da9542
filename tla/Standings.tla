----------------------------- MODULE Standings -----------------------------
(***************************************************************************)
(* The statistics of the platform and of each player (statistics.rs) and   *)
(* the two leaderboards of bounded size they feed (leaderboard.rs).        *)
(***************************************************************************)
EXTENDS Integers, Sequences, FiniteSets

CONSTANTS
  Players,        \* users that bet and claim
  BetSizes,       \* amounts of bets
  Prizes,         \* payouts of claims
  BoardSize,      \* MAX_CAPACITY, 50 entries
  MaxBetsCounted, \* bound on the bets counted
  MaxClaims,      \* bound on the claims counted
  MaxListed       \* bound on the markets counted

ASSUME StandingsAssumption ==
  /\ BetSizes \subseteq Nat
  /\ Prizes \subseteq Nat
  /\ BoardSize \in Nat \ {0}
  /\ MaxBetsCounted \in Nat
  /\ MaxClaims \in Nat
  /\ MaxListed \in Nat

VARIABLES
  platform, \* PlatformStatistics
  record,   \* UserStatistics of each player
  boards,   \* the two boards, in the order of their storage
  claims    \* history: claims counted

standingsVars == <<platform, record, boards, claims>>

Boards == {"winnings", "rate"}

Records ==
  [bets : Nat, wagered : Nat, winnings : Nat, won : Nat, rate : 0..10000]

(* UserLeaderboardEntryV1, the fields the boards are ordered by.           *)
BoardEntries == [user : Players, winnings : Nat, rate : 0..10000, bets : Nat]

StandingsTypeOK ==
  /\ platform \in [created : Nat, bets : Nat, volume : Nat, fees : Nat,
                   open : Nat]
  /\ record \in [Players -> Records]
  /\ boards \in [Boards -> Seq(BoardEntries)]
  /\ claims \in 0..MaxClaims

StandingsInit ==
  /\ platform = [created |-> 0, bets |-> 0, volume |-> 0, fees |-> 0,
                 open |-> 0]
  /\ record = [p \in Players |-> [bets |-> 0, wagered |-> 0, winnings |-> 0,
                                  won |-> 0, rate |-> 0]]
  /\ boards = [b \in Boards |-> <<>>]
  /\ claims = 0

-----------------------------------------------------------------------------
(* The boards.                                                             *)

(* key_winnings, and key_win_rate: the rate first, then the bets.          *)
Above(by, e, f) ==
  IF by = "winnings" THEN e.winnings > f.winnings
  ELSE \/ e.rate > f.rate
       \/ e.rate = f.rate /\ e.bets > f.bets

Ranked(board) == {board[i].user : i \in 1..Len(board)}

PlaceOf(board, p) == CHOOSE i \in 1..Len(board) : board[i].user = p

(* min_index: the first of the lowest entries.                             *)
Lowest(by, board) ==
  CHOOSE i \in 1..Len(board) :
    \A j \in 1..Len(board) : /\ ~Above(by, board[i], board[j])
                             /\ j < i => Above(by, board[j], board[i])

(* Seeded fault: the entry last added makes way, not the lowest.           *)
UpsertLast(by, board, e) ==
  CASE e.user \in Ranked(board) -> [board EXCEPT ![PlaceOf(board, e.user)] = e]
    [] e.user \notin Ranked(board) /\ Len(board) < BoardSize -> Append(board, e)
    [] OTHER -> IF Above(by, e, board[BoardSize])
                THEN [board EXCEPT ![BoardSize] = e] ELSE board

(* upsert: an entry the board has is replaced where it is, a new one takes *)
(* a free place, or the place of the lowest if it is above it.             *)
Upsert(by, board, e) ==
  CASE e.user \in Ranked(board) -> [board EXCEPT ![PlaceOf(board, e.user)] = e]
    [] e.user \notin Ranked(board) /\ Len(board) < BoardSize -> Append(board, e)
    [] OTHER -> LET low == Lowest(by, board) IN
                IF Above(by, e, board[low]) THEN [board EXCEPT ![low] = e]
                                            ELSE board

(* sorted_top: the rank an insertion sort gives, entries with equal keys   *)
(* in the order of their storage.                                          *)
RankOf(by, board, i) ==
  1 + Cardinality({j \in 1..Len(board) :
                     \/ Above(by, board[j], board[i])
                     \/ j < i /\ ~Above(by, board[i], board[j])})

(* top_by_winnings and top_by_win_rate.                                    *)
Top(by, limit) ==
  LET board == boards[by]
      size == IF limit < Len(board) THEN limit ELSE Len(board)
  IN [r \in 1..size |->
        board[CHOOSE i \in 1..Len(board) : RankOf(by, board, i) = r]]

-----------------------------------------------------------------------------
(* What is counted.                                                        *)

RecordMarketCreated ==
  /\ platform.created < MaxListed
  /\ platform' = [platform EXCEPT !.created = @ + 1, !.open = @ + 1]
  /\ UNCHANGED <<record, boards, claims>>

(* The deprecated resolve_market does nothing else, and may be called for  *)
(* a market already counted: the count stops at 0.                         *)
RecordMarketResolved ==
  /\ platform' = [platform EXCEPT !.open = IF @ > 0 THEN @ - 1 ELSE 0]
  /\ UNCHANGED <<record, boards, claims>>

RecordBetPlaced(p, amount) ==
  /\ platform.bets < MaxBetsCounted
  /\ platform' = [platform EXCEPT !.bets = @ + 1, !.volume = @ + amount]
  /\ record' = [record EXCEPT ![p].bets = @ + 1, ![p].wagered = @ + amount]
  /\ UNCHANGED <<boards, claims>>

(* Winners who voted without a bet claim too, so a player may have won     *)
(* more often than it bet, or without a bet: the rate is then left alone.  *)
WinRate(r) ==
  LET rate == (r.won * 10000) \div r.bets IN
  IF r.bets = 0 THEN r.rate ELSE IF rate < 10000 THEN rate ELSE 10000

AfterClaim(r, prize) ==
  LET counted == [r EXCEPT !.winnings = @ + prize, !.won = @ + 1] IN
  [counted EXCEPT !.rate = WinRate(counted)]

EntryOf(p, r) ==
  [user |-> p, winnings |-> r.winnings, rate |-> r.rate, bets |-> r.bets]

(* record_winnings_claimed and record_fees_collected, called in turn by    *)
(* claim_winnings.                                                         *)
RecordWinningsClaimed(p, prize, fee) ==
  LET r == AfterClaim(record[p], prize) IN
  /\ claims < MaxClaims
  /\ record' = [record EXCEPT ![p] = r]
  /\ boards' = [by \in Boards |-> Upsert(by, boards[by], EntryOf(p, r))]
  /\ platform' = [platform EXCEPT !.fees = @ + fee]
  /\ claims' = claims + 1

StandingsNext ==
  \/ RecordMarketCreated
  \/ RecordMarketResolved
  \/ \E p \in Players, a \in BetSizes : RecordBetPlaced(p, a)
  \/ \E p \in Players, a \in Prizes, fee \in {0, 1} :
       RecordWinningsClaimed(p, a, fee)

StandingsSpec == StandingsInit /\ [][StandingsNext]_standingsVars

-----------------------------------------------------------------------------

Winners == {p \in Players : record[p].won > 0}

(* Although an entry dropped from the board of winnings is forgotten, the  *)
(* board always shows the best: winners up to its size, each once and with *)
(* what was claimed so far, and nobody left out is above anybody on it.    *)
(* The query returns them in order (leaderboard.rs).                       *)
WinningsBoardIsTop ==
  LET board == boards["winnings"]
      top == Top("winnings", BoardSize)
  IN /\ \A i, j \in 1..Len(board) :
          board[i].user = board[j].user => i = j
     /\ \A i \in 1..Len(board) :
          board[i].winnings = record[board[i].user].winnings
     /\ Len(board) = BoardSize \/ Ranked(board) = Winners
     /\ \A p \in Winners \ Ranked(board), q \in Ranked(board) :
          record[p].winnings <= record[q].winnings
     /\ Ranked(top) = Ranked(board)
     /\ \A i \in 1..(Len(top) - 1) : top[i].winnings >= top[i + 1].winnings

=============================================================================
