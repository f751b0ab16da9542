------------------------------ MODULE Oracles ------------------------------
(***************************************************************************)
(* The oracle whitelist, the verification of a market's result by the      *)
(* whitelisted sources, and the callbacks oracles make (oracles.rs).  A    *)
(* source answers "yes" or "no" or fails: an unhealthy oracle, a stale     *)
(* quote, one too wide or too far off, and an unreasonable price all count *)
(* as no answer.  Only a callback's oracle, nonce and timestamp are kept.  *)
(***************************************************************************)
EXTENDS Clock, Sequences, FiniteSets

CONSTANTS
  Sources,           \* addresses of oracle contracts
  Curators,          \* addresses that may become whitelist administrators
  NoMetadata,        \* an oracle without metadata
  NoVerdict,         \* no result is stored
  MarketEnd,         \* end_time of the market to verify
  CallbackInterval,  \* MIN_CALLBACK_INTERVAL
  MaxDeviation,      \* MAX_TIMESTAMP_DEVIATION
  Nonces,            \* nonces a callback carries; not 0
  MaxCallbacks       \* bound on the callbacks processed

ASSUME OraclesAssumption ==
  /\ NoMetadata \notin BOOLEAN
  /\ NoVerdict \notin [by : {"sources", "administrator"}, outcome : {"yes", "no"},
                       agreed : Nat, answered : Nat]
  /\ IsFiniteSet(Sources)
  /\ MarketEnd \in Nat
  /\ CallbackInterval \in Nat \ {0}
  /\ MaxDeviation \in Nat
  /\ MaxCallbacks \in Nat

VARIABLES
  curators,      \* WhitelistAdmin entries
  listed,        \* OracleList
  whitelisted,   \* WhitelistedOracle entries
  active,        \* OracleMetadata entries: is_active
  verdict,       \* OracleResult; how many oracles agreed, of how many that
                 \* answered, is history
  usedNonces,    \* OracleNonce entries
  lastCallback,  \* OracleRateLimit entries; 0 when there is none
  processed      \* history: the callbacks processed, in order

whitelistVars == <<curators, listed, whitelisted, active>>
callbackVars == <<usedNonces, lastCallback, processed>>
oracleVars == <<whitelistVars, verdict, callbackVars>>

Outcome == {"yes", "no"}

Verdicts == [by : {"sources", "administrator"}, outcome : Outcome,
             agreed : Nat, answered : Nat]

Callbacks == [source : Sources, nonce : Nonces, at : Nat]

OraclesTypeOK ==
  /\ now \in StartTime..MaxTime
  /\ curators \subseteq Curators
  /\ listed \in Seq(Sources)
  /\ whitelisted \subseteq Sources
  /\ active \in [Sources -> BOOLEAN \cup {NoMetadata}]
  /\ verdict \in Verdicts \cup {NoVerdict}
  /\ usedNonces \subseteq Sources \X Nonces
  /\ lastCallback \in [Sources -> Nat]
  /\ processed \in Seq(Callbacks)
  /\ Len(processed) <= MaxCallbacks

OraclesInit ==
  /\ now = StartTime
  /\ curators = {}
  /\ listed = <<>>
  /\ whitelisted = {}
  /\ active = [s \in Sources |-> NoMetadata]
  /\ verdict = NoVerdict
  /\ usedNonces = {}
  /\ lastCallback = [s \in Sources |-> 0]
  /\ processed = <<>>

-----------------------------------------------------------------------------
(* The whitelist.                                                          *)

(* initialize may be called again, by anyone not yet an administrator.     *)
InitializeWhitelist(a) ==
  /\ a \notin curators
  /\ curators' = curators \cup {a}
  /\ UNCHANGED <<now, listed, whitelisted, active, verdict, callbackVars>>

(* require_admin: any of the curators calls.                               *)
ByCurator == curators # {}

AddCurator(a) ==
  /\ ByCurator
  /\ curators' = curators \cup {a}
  /\ UNCHANGED <<now, listed, whitelisted, active, verdict, callbackVars>>

(* By another of them.                                                     *)
RemoveCurator(a) ==
  /\ curators \ {a} # {}
  /\ curators' = curators \ {a}
  /\ UNCHANGED <<now, listed, whitelisted, active, verdict, callbackVars>>

(* Seeded fault: an oracle already whitelisted is added again.             *)
AddSourceAgain(s) ==
  /\ ByCurator
  /\ Len(listed) <= Cardinality(Sources)
  /\ whitelisted' = whitelisted \cup {s}
  /\ active' = [active EXCEPT ![s] = TRUE]
  /\ listed' = Append(listed, s)
  /\ UNCHANGED <<now, curators, verdict, callbackVars>>

(* add_oracle_to_whitelist: three entries are written.                     *)
AddSource(s) ==
  /\ ByCurator
  /\ s \notin whitelisted
  /\ whitelisted' = whitelisted \cup {s}
  /\ active' = [active EXCEPT ![s] = TRUE]
  /\ listed' = Append(listed, s)
  /\ UNCHANGED <<now, curators, verdict, callbackVars>>

(* The list without an oracle, the others in their order.                  *)
OtherEntries(s) == {i \in 1..Len(listed) : listed[i] # s}

ListWithout(s) ==
  [k \in 1..Cardinality(OtherEntries(s)) |->
     listed[CHOOSE i \in OtherEntries(s) :
              Cardinality({j \in OtherEntries(s) : j <= i}) = k]]

RemoveSource(s) ==
  /\ ByCurator
  /\ s \in whitelisted
  /\ whitelisted' = whitelisted \ {s}
  /\ active' = [active EXCEPT ![s] = NoMetadata]
  /\ listed' = ListWithout(s)
  /\ UNCHANGED <<now, curators, verdict, callbackVars>>

(* deactivate_oracle, reactivate_oracle                                    *)
SwitchSource(s, on) ==
  /\ ByCurator
  /\ active[s] # NoMetadata
  /\ active' = [active EXCEPT ![s] = on]
  /\ UNCHANGED <<now, curators, listed, whitelisted, verdict, callbackVars>>

(* validate_oracle_contract, is_oracle_authorized                          *)
Authorized(s) == s \in whitelisted /\ active[s] = TRUE

-----------------------------------------------------------------------------
(* The verification of a result.                                           *)

(* get_active_oracle_sources: the entries of the list that may be asked.   *)
ActiveEntries == {i \in 1..Len(listed) : Authorized(listed[i])}

Asked == {listed[i] : i \in ActiveEntries}

(* How many of them answered so.                                           *)
Count(answers, outcome) ==
  Cardinality({i \in ActiveEntries : answers[listed[i]] = outcome})

ConsensusThreshold == 66  \* DEFAULT_CONSENSUS_THRESHOLD, in percent

(* determine_consensus_outcome: a tie is a yes, though never a consensus.  *)
Favoured(answers) ==
  IF Count(answers, "yes") >= Count(answers, "no") THEN "yes" ELSE "no"

SourcesAgree(answers) ==
  LET total == Count(answers, "yes") + Count(answers, "no")
  IN  /\ total > 0
      /\ (Count(answers, Favoured(answers)) * 100) \div total >= ConsensusThreshold

(* The answers of the sources make the verdict.                            *)
SourcesRule(answers) ==
  /\ SourcesAgree(answers)
  /\ LET heard(a) == {s \in Asked : answers[s] = a}
     IN  verdict' = [by |-> "sources", outcome |-> Favoured(answers),
                     agreed |-> Cardinality(heard(Favoured(answers))),
                     answered |-> Cardinality(heard("yes") \cup heard("no"))]
  /\ UNCHANGED <<now, whitelistVars, callbackVars>>

(* verify_result, and an attempt of verify_result_with_retry               *)
VerifyResult ==
  /\ now >= MarketEnd
  /\ verdict = NoVerdict
  /\ \E answers \in [Asked -> Outcome \cup {"none"}] : SourcesRule(answers)

(* admin_override_result: also before the end and over any verdict.        *)
OverrideResult(outcome) ==
  /\ ByCurator
  /\ verdict' = [by |-> "administrator", outcome |-> outcome,
                 agreed |-> 0, answered |-> 0]
  /\ UNCHANGED <<now, whitelistVars, callbackVars>>

-----------------------------------------------------------------------------
(* The callbacks.                                                          *)

(* validate_callback_data: the timestamp is near the ledger's, either way. *)
Timely(stamp) == now - stamp <= MaxDeviation /\ stamp - now <= MaxDeviation

(* prevent_replay_attack: an oracle's nonce is new, and is remembered.     *)
NewNonce(s, n) ==
  /\ <<s, n>> \notin usedNonces
  /\ usedNonces' = usedNonces \cup {<<s, n>>}

(* enforce_rate_limiting                                                   *)
Rested(s) ==
  /\ now >= lastCallback[s] + CallbackInterval
  /\ lastCallback' = [lastCallback EXCEPT ![s] = now]

(* Seeded fault: the nonce is remembered and not looked up.                *)
CallbackReplayed(s, n, stamp) ==
  /\ Len(processed) < MaxCallbacks
  /\ Authorized(s)
  /\ Timely(stamp)
  /\ usedNonces' = usedNonces \cup {<<s, n>>}
  /\ Rested(s)
  /\ processed' = Append(processed, [source |-> s, nonce |-> n, at |-> now])
  /\ UNCHANGED <<now, whitelistVars, verdict>>

(* authenticate_and_process: a refusal for the rate comes after the nonce  *)
(* is stored and, being an error, undoes that.                             *)
ProcessCallback(s, n, stamp) ==
  /\ Len(processed) < MaxCallbacks
  /\ Authorized(s)
  /\ Timely(stamp)
  /\ NewNonce(s, n)
  /\ Rested(s)
  /\ processed' = Append(processed, [source |-> s, nonce |-> n, at |-> now])
  /\ UNCHANGED <<now, whitelistVars, verdict>>

OraclesNext ==
  \/ \E a \in Curators : InitializeWhitelist(a)
  \/ \E a \in Curators : AddCurator(a) \/ RemoveCurator(a)
  \/ \E s \in Sources :
       \/ AddSource(s)
       \/ RemoveSource(s)
       \/ \E on \in BOOLEAN : SwitchSource(s, on)
  \/ VerifyResult
  \/ \E o \in Outcome : OverrideResult(o)
  \/ \E s \in Sources, n \in Nonces, stamp \in {now, now + MaxDeviation + 1} :
       ProcessCallback(s, n, stamp)
  \/ Tick /\ UNCHANGED oracleVars

OraclesSpec == OraclesInit /\ [][OraclesNext]_<<now, oracleVars>>

-----------------------------------------------------------------------------
(* A verdict the sources gave is that of nearly two thirds of the distinct *)
(* oracles that answered, however oracles were added, removed, switched    *)
(* off and added again before: no oracle counts twice (verify_result asks  *)
(* OracleList entry by entry).                                             *)
VerdictByMajority ==
  verdict # NoVerdict /\ verdict.by = "sources" =>
    /\ verdict.agreed > 0
    /\ verdict.agreed * 100 >= ConsensusThreshold * verdict.answered

(* An oracle's callbacks are processed once for each nonce and an interval *)
(* apart, also when it is removed from the whitelist and added again, and  *)
(* whatever timestamps they carry (prevent_replay_attack and               *)
(* enforce_rate_limiting keep their entries apart from the whitelist).     *)
CallbacksOnce ==
  \A i, j \in 1..Len(processed) :
    i < j /\ processed[i].source = processed[j].source =>
      /\ processed[i].nonce # processed[j].nonce
      /\ processed[i].at + CallbackInterval <= processed[j].at

=============================================================================
