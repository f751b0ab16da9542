---------------------------- MODULE MedianOracle ----------------------------
(***************************************************************************)
(* Resolution of a market by the weighted median of three price feeds      *)
(* (resolution.rs): quotes that stray too far from the plain median are    *)
(* dropped, the others are weighed by their confidence.  Prices and        *)
(* confidences are within 64 bits.                                         *)
(***************************************************************************)
EXTENDS Clock, Sequences, FiniteSets

CONSTANTS
  Prices,        \* prices a feed may answer, some of them refused
  Confidences,   \* confidence intervals
  NoConfidence,  \* a feed without one
  Thresholds,    \* thresholds of the market's oracle_config
  Comparisons,   \* its comparisons
  MinSources,    \* min_sources of the configurations
  MaxDeviations, \* max_deviation_bps of the configurations
  NoMedian,      \* no configuration, no result
  FeedEnd,       \* end_time of the market
  FeedTimeout    \* resolution_timeout of the market

ASSUME MedianAssumption ==
  /\ Prices \subseteq Int
  /\ Confidences \subseteq Int
  /\ NoConfidence \notin Int
  /\ Thresholds \subseteq Int
  /\ Comparisons \subseteq {"gt", "lt", "eq"}
  /\ MinSources \subseteq Nat
  /\ MaxDeviations \subseteq Nat
  /\ FeedEnd \in Nat
  /\ FeedTimeout \in Nat

VARIABLES
  medianConfig, \* the MedianOracleConfig, or NoMedian
  strike,       \* threshold and comparison of the market's oracle_config
  ruling        \* the oracle_result of the market, or NoMedian, and from what

medianVars == <<medianConfig, strike, ruling>>

Feeds == 1..3  \* pyth, reflector, band_protocol

Quotes == [price : Nat, weight : 0..10000, included : BOOLEAN]

Strikes == [price : Thresholds, comparison : Comparisons]

MedianConfigs == [sources : MinSources, deviation : MaxDeviations]

MedianTypeOK ==
  /\ now \in StartTime..MaxTime
  /\ medianConfig \in MedianConfigs \cup {NoMedian}
  /\ strike \in Strikes
  /\ \/ ruling = NoMedian
     \/ ruling \in [quotes : [Feeds -> Quotes], price : Nat,
                    outcome : {"yes", "no"}, config : MedianConfigs,
                    answered : [Feeds -> Quotes]]

MedianInit ==
  /\ now = StartTime
  /\ medianConfig = NoMedian
  /\ strike \in Strikes
  /\ ruling = NoMedian

-----------------------------------------------------------------------------
(* Quotes.                                                                 *)

Least1(x) == IF x < 1 THEN 1 ELSE x

(* confidence_to_weight, of a positive price.                              *)
WeightOf(price, confidence) ==
  IF confidence = NoConfidence THEN 5000
  ELSE IF confidence <= 0 THEN 10000
  ELSE Least1((price * 10000) \div (price + confidence))

(* fetch_quote: a feed that fails or answers no positive price is left out.*)
QuoteOf(answer) ==
  IF answer.price > 0
  THEN [price |-> answer.price, included |-> TRUE,
        weight |-> WeightOf(answer.price, answer.confidence)]
  ELSE [price |-> 0, weight |-> 0, included |-> FALSE]

Included(q) == {f \in Feeds : q[f].included}

(* The feeds by price, those of equal price in their order: both sorts are *)
(* stable.                                                                 *)
Rank(q, f) ==
  Cardinality({g \in Included(q) :
                 \/ q[g].price < q[f].price
                 \/ q[g].price = q[f].price /\ g <= f})

Nth(q, n) == CHOOSE f \in Included(q) : Rank(q, f) = n

(* simple_median, rounded down.                                            *)
SimpleMedian(q) ==
  LET n == Cardinality(Included(q))
      At(i) == q[Nth(q, i)].price
  IN CASE n = 0 -> 0
       [] n \in {1, 3} -> At((n + 1) \div 2)
       [] n = 2 -> (At(1) \div 2) + (At(2) \div 2) + (((At(1) % 2) + (At(2) % 2)) \div 2)

Deviation(price, median) ==
  ((IF price > median THEN price - median ELSE median - price) * 10000) \div median

(* Quotes too far from the plain median are left out.                      *)
Filtered(q, bps) ==
  LET m == SimpleMedian(q) IN
  [f \in Feeds |->
     [q[f] EXCEPT !.included = @ /\ (m > 0 => Deviation(q[f].price, m) <= bps)]]

WeightSum(q, fs) ==
  LET w == [f \in Feeds |-> IF f \in fs THEN Least1(q[f].weight) ELSE 0]
  IN w[1] + w[2] + w[3]

(* The weight of the feeds up to the nth by price.                         *)
Cumulative(q, n) == WeightSum(q, {f \in Included(q) : Rank(q, f) <= n})

(* Seeded fault: the order of the answers and not of the prices is used.   *)
WeightedMedianUnsorted(q) ==
  LET half == (WeightSum(q, Included(q)) + 1) \div 2
      Upto(f) == WeightSum(q, {g \in Included(q) : g <= f})
      at == CHOOSE f \in Included(q) :
              /\ Upto(f) >= half
              /\ \A g \in Included(q) : g < f => Upto(g) < half
  IN q[at].price

(* weighted_median: the first price, in order, that reaches half.          *)
WeightedMedian(q) ==
  LET half == (WeightSum(q, Included(q)) + 1) \div 2
      n == CHOOSE i \in 1..Cardinality(Included(q)) :
             /\ Cumulative(q, i) >= half
             /\ \A j \in 1..(i - 1) : Cumulative(q, j) < half
  IN q[Nth(q, n)].price

(* compare_prices                                                          *)
Met(price) ==
  \/ strike.comparison = "gt" /\ price > strike.price
  \/ strike.comparison = "lt" /\ price < strike.price
  \/ strike.comparison = "eq" /\ price = strike.price

OutcomeOf(price) == IF Met(price) THEN "yes" ELSE "no"

-----------------------------------------------------------------------------

SetMedianConfig(c) ==
  /\ medianConfig' = c
  /\ UNCHANGED <<now, strike, ruling>>

(* validate_market_for_oracle_resolution, and the timeout before it.       *)
Resolvable ==
  /\ now < FeedEnd + FeedTimeout
  /\ ruling = NoMedian
  /\ now >= FeedEnd

Answers == [price : Prices, confidence : Confidences \cup {NoConfidence}]

(* Enough feeds answered, and enough were kept.                            *)
FeedsRule(answers) ==
  /\ LET asked == [f \in Feeds |-> QuoteOf(answers[f])]
         kept == Filtered(asked, medianConfig.deviation)
     IN /\ Cardinality(Included(asked)) >= medianConfig.sources
        /\ Cardinality(Included(kept)) >= medianConfig.sources
        /\ Included(kept) # {}
        /\ ruling' = [quotes |-> kept, price |-> WeightedMedian(kept),
                      outcome |-> OutcomeOf(WeightedMedian(kept)),
                      config |-> medianConfig, answered |-> asked]
  /\ UNCHANGED <<now, medianConfig, strike>>

(* resolve_with_median                                                     *)
ResolveWithMedian ==
  /\ Resolvable
  /\ medianConfig # NoMedian
  /\ \E answers \in [Feeds -> Answers] : FeedsRule(answers)

MedianNext ==
  \/ \E c \in MedianConfigs : SetMedianConfig(c)
  \/ ResolveWithMedian
  \/ Tick /\ UNCHANGED medianVars

MedianSpec == MedianInit /\ [][MedianNext]_<<now, medianVars>>

-----------------------------------------------------------------------------
(* The price ruled by is one a feed that was kept quoted, and the feeds    *)
(* below it, like those above it, weigh no more than half: the rounding of *)
(* the half, the weight of at least 1 and the two sorts leave no feed that *)
(* outweighs the others and yet loses.  Enough feeds were kept, and where  *)
(* they agree on the outcome it is the one ruled (weighted_median,         *)
(* resolve_with_median).                                                   *)
MedianSplits ==
  ruling # NoMedian =>
    LET q == ruling.quotes
        kept == Included(q)
        Weighs(fs) == 2 * WeightSum(q, fs) <= WeightSum(q, kept)
    IN /\ \E f \in kept : q[f].price = ruling.price
       /\ Weighs({f \in kept : q[f].price < ruling.price})
       /\ Weighs({f \in kept : q[f].price > ruling.price})
       /\ Cardinality(kept) >= ruling.config.sources
       /\ (\A f \in kept : Met(q[f].price)) => ruling.outcome = "yes"
       /\ (\A f \in kept : ~Met(q[f].price)) => ruling.outcome = "no"

=============================================================================
