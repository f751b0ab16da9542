----------------------------- MODULE MarketIds -----------------------------
(***************************************************************************)
(* The identifiers of markets and events (market_id_generator.rs), as they *)
(* are created (lib.rs).  An identifier is a hash and the administrator's  *)
(* counter.  The hash is short and what goes into it, the nonce of all     *)
(* administrators included, does not keep it from repeating: here any hash *)
(* may come out.  A creation that fails leaves no trace.                   *)
(***************************************************************************)
EXTENDS Integers, Sequences

CONSTANTS
  Creators,   \* the addresses that are the primary administrator over time
  Digests,    \* the values of the hash
  MaxCounter, \* MAX_COUNTER, 999999
  MaxRetries, \* MAX_RETRIES, 10
  MaxIssued   \* bound on the markets and events created

ASSUME MarketIdsAssumption ==
  /\ MaxCounter \in Nat
  /\ MaxRetries \in Nat \ {0}
  /\ MaxIssued \in Nat

VARIABLES
  counters,  \* the counter of each administrator
  sealed,    \* whether the seed is sealed
  marketIds, \* keys under which a market is stored
  eventIds,  \* identifiers under which an event is stored, apart from markets
  issued     \* the registry of identifiers; kind is history

idsVars == <<counters, sealed, marketIds, eventIds, issued>>

Ids == Digests \X Nat

Registrations == [id : Ids, by : Creators, kind : {"market", "event"}]

MarketIdsTypeOK ==
  /\ counters \in [Creators -> 0..(MaxCounter + 1)]
  /\ sealed \in BOOLEAN
  /\ marketIds \subseteq Ids
  /\ eventIds \subseteq Ids
  /\ issued \in Seq(Registrations)

MarketIdsInit ==
  /\ counters = [c \in Creators |-> 0]
  /\ sealed = FALSE
  /\ marketIds = {}
  /\ eventIds = {}
  /\ issued = <<>>

-----------------------------------------------------------------------------

(* check_market_id_collision looks for a market, not for an event.         *)
Collides(id) == id \in marketIds

(* Seeded fault: the counters of the attempts that failed are not used up. *)
GenerateIdReusing(c, kind, attempt, digest) ==
  LET used == counters[c] + attempt IN
  /\ ~sealed
  /\ used <= MaxCounter
  /\ \A k \in 0..(attempt - 1) : \E d \in Digests : Collides(<<d, counters[c] + k>>)
  /\ ~Collides(<<digest, used>>)
  /\ Len(issued) < MaxIssued
  /\ counters' = [counters EXCEPT ![c] = @ + 1]
  /\ issued' = Append(issued, [id |-> <<digest, used>>, by |-> c, kind |-> kind])

(* generate_market_id: each attempt whose identifier is taken moves on to  *)
(* the next counter; with none left to try the creation fails.             *)
GenerateId(c, kind, attempt, digest) ==
  LET used == counters[c] + attempt IN
  /\ ~sealed
  /\ used <= MaxCounter
  /\ \A k \in 0..(attempt - 1) : \E d \in Digests : Collides(<<d, counters[c] + k>>)
  /\ ~Collides(<<digest, used>>)
  /\ Len(issued) < MaxIssued
  /\ counters' = [counters EXCEPT ![c] = used + 1]
  /\ issued' = Append(issued, [id |-> <<digest, used>>, by |-> c, kind |-> kind])

CreateMarket(c, attempt, digest) ==
  /\ GenerateId(c, "market", attempt, digest)
  /\ marketIds' = marketIds \cup {<<digest, counters[c] + attempt>>}
  /\ UNCHANGED <<sealed, eventIds>>

CreateEvent(c, attempt, digest) ==
  /\ GenerateId(c, "event", attempt, digest)
  /\ eventIds' = eventIds \cup {<<digest, counters[c] + attempt>>}
  /\ UNCHANGED <<sealed, marketIds>>

(* seal_seed: once, and no identifier is made after it.                    *)
SealSeed ==
  /\ ~sealed
  /\ sealed' = TRUE
  /\ UNCHANGED <<counters, marketIds, eventIds, issued>>

MarketIdsNext ==
  \/ \E c \in Creators, attempt \in 0..(MaxRetries - 1), d \in Digests :
       CreateMarket(c, attempt, d) \/ CreateEvent(c, attempt, d)
  \/ SealSeed

MarketIdsSpec == MarketIdsInit /\ [][MarketIdsNext]_idsVars

-----------------------------------------------------------------------------
(* Even when every hash is the same, no market is stored over another, no  *)
(* identifier of a market is given to an event later, and an administrator *)
(* never has the same identifier twice (generate_market_id).  The one pair *)
(* the code leaves out is an event of one administrator and whatever       *)
(* another creates after it.                                               *)
NoMarketReplaced ==
  \A i, j \in 1..Len(issued) :
    /\ i < j
    /\ issued[i].kind = "market" \/ issued[i].by = issued[j].by
    => issued[i].id # issued[j].id

=============================================================================
