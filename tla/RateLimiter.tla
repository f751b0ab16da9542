---------------------------- MODULE RateLimiter ----------------------------
(***************************************************************************)
(* The limit on how often one caller may make one kind of call             *)
(* (rate_limiter.rs): the votes of a user on a market, the disputes, the   *)
(* oracle calls, the bets, an administrator's events.  Each has an entry   *)
(* of its own in temporary storage; the model follows one of them.         *)
(***************************************************************************)
EXTENDS Clock, Sequences, FiniteSets

CONSTANTS
  RateLimits,    \* limits an administrator sets
  MaxRateLimit,  \* the highest limit validation accepts
  RateWindows,   \* windows an administrator sets
  ShortestWindow, \* 60 seconds, the shortest window validation accepts
  LongestWindow, \* 30 days
  Optional,      \* whether limit 0 is accepted and means none: bets and
                 \* events, not votes, disputes and oracle calls
  EntryLife,     \* 86400, what an entry lives beyond the window
  NoEntry,       \* nothing is stored
  MaxCalls       \* bound on the calls admitted

ASSUME RateLimiterAssumption ==
  /\ RateLimits \subseteq Nat
  /\ MaxRateLimit \in Nat \ {0}
  /\ RateWindows \subseteq Nat
  /\ ShortestWindow \in Nat \ {0}
  /\ LongestWindow \in Nat
  /\ Optional \in BOOLEAN
  /\ EntryLife \in Nat
  /\ NoEntry \notin [count : Nat, start : Nat, expires : Nat]
  /\ MaxCalls \in Nat

VARIABLES
  rateConfig,  \* RateLimiterData::Config, or NoEntry
  bucket,      \* the RateLimit counted against, or NoEntry
  admitted     \* history: the times of the calls that were counted

rateVars == <<rateConfig, bucket, admitted>>

RateConfigs ==
  [limit : (IF Optional THEN 0 ELSE 1)..MaxRateLimit,
   window : ShortestWindow..LongestWindow]

RateTypeOK ==
  /\ now \in StartTime..MaxTime
  /\ rateConfig \in RateConfigs \cup {NoEntry}
  /\ bucket \in [count : Nat, start : Nat, expires : Nat] \cup {NoEntry}
  /\ admitted \in Seq(Nat)

RateInit ==
  /\ now = StartTime
  /\ rateConfig = NoEntry
  /\ bucket = NoEntry
  /\ admitted = <<>>

(* init_rate_limiter and update_rate_limits: nothing counted so far is     *)
(* touched.                                                                *)
UpdateRateLimits(limit, window) ==
  /\ [limit |-> limit, window |-> window] \in RateConfigs
  /\ rateConfig' = [limit |-> limit, window |-> window]
  /\ UNCHANGED <<now, bucket, admitted>>

(* get_or_create_limit.                                                    *)
Bucket == IF bucket = NoEntry THEN [count |-> 0, start |-> now, expires |-> 0]
          ELSE bucket

(* Seeded fault: one call too many is admitted.                            *)
UnderLimitLoosely == Bucket.count <= rateConfig.limit

(* check_limit: against the count of a window that may be over.            *)
UnderLimit == Bucket.count < rateConfig.limit

Later(a, b) == IF a < b THEN b ELSE a

(* update_limit: a window that is over starts again with this call.        *)
Counted ==
  LET expires == Later(Bucket.expires, now + rateConfig.window + EntryLife)
  IN  IF now >= Bucket.start + rateConfig.window
      THEN [count |-> 1, start |-> now, expires |-> expires]
      ELSE [count |-> Bucket.count + 1, start |-> Bucket.start,
            expires |-> expires]

(* rate_limit_voting, rate_limit_disputes, rate_limit_oracle_calls,        *)
(* rate_limit_bets and rate_limit_admin_events; a call that is not limited *)
(* changes nothing.                                                        *)
AdmitCall ==
  /\ rateConfig # NoEntry
  /\ rateConfig.limit > 0
  /\ UnderLimit
  /\ Len(admitted) < MaxCalls
  /\ bucket' = Counted
  /\ admitted' = Append(admitted, now)
  /\ UNCHANGED <<now, rateConfig>>

(* The ledger drops an entry some time after it expires; ledgers close no  *)
(* faster than once a second.                                              *)
DropEntry ==
  /\ bucket # NoEntry
  /\ now > bucket.expires
  /\ bucket' = NoEntry
  /\ UNCHANGED <<now, rateConfig, admitted>>

RateNext ==
  \/ \E l \in RateLimits, w \in RateWindows : UpdateRateLimits(l, w)
  \/ AdmitCall
  \/ DropEntry
  \/ Tick /\ UNCHANGED rateVars

RateSpec == RateInit /\ [][RateNext]_<<now, rateVars>>

-----------------------------------------------------------------------------
(* However calls bunch around the end of a window, and however the limits  *)
(* are changed meanwhile, a caller gets through less than twice the        *)
(* highest limit in any span as long as the shortest window (check_limit,  *)
(* update_limit).                                                          *)
RateBounded ==
  \A i \in 1..Len(admitted) :
    Cardinality({j \in 1..Len(admitted) :
                   /\ admitted[j] >= admitted[i]
                   /\ admitted[j] < admitted[i] + ShortestWindow})
      < 2 * MaxRateLimit

(* A window that is over does not keep a caller out: "After a full         *)
(* time-window elapses the bucket must reset to 0 and accept new requests  *)
(* up to capacity again" (rate_limiter_invariants.rs).                     *)
WindowReopens ==
  (/\ bucket # NoEntry
   /\ rateConfig.limit > 0
   /\ now >= bucket.start + rateConfig.window) => UnderLimit

=============================================================================
