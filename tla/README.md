# Predictify contracts: TLA+ models, checks and proofs

Predictify is a Soroban (Stellar) smart contract for prediction markets:
`contracts/predictify-hybrid`. Users stake tokens on the outcome of a market by
voting or betting, the market is resolved by an administrator or an oracle, and
the winners share the pool. This directory holds TLA+ models of the contract,
the TLC configurations that check them, and TLAPS proofs about them.

All paths below are relative to `contracts/predictify-hybrid/src/` unless they
start with `docs/`.

## 1. The system

One contract keeps all state in its own storage, and everything happens in
calls to its entry points (`lib.rs`). A call is atomic: when it returns an error
or panics, every write it made is undone. So what is hard here is not threads
but **orders of calls by different actors** (voters, bettors, administrators,
signers, oracles, anyone who may call a public entry point), **state kept in two
places** (the persistent record of a market and a read cache in instance
storage; a list, a count and the records they count; an index and what it
indexes), **errors that a caller swallows**, which turn a failed step into a
partial commit, and **time**: end times, dispute windows, claim windows,
timelocks, cooldowns, rate windows.

| Component | State | Operations | Hard behaviour | What makes it correct |
|---|---|---|---|---|
| Market storage (`markets.rs`, `storage.rs`) | market record; read cache | `get_market`, `update_market`, direct `persistent().set`, `cleanup_old_market_data` | a cached copy served to a writer, and to whoever decides that an old market may go | both copies agree on what matters when one is written back; a removal strands no refund |
| Market identifiers (`market_id_generator.rs`) | counters, registry, seed | create a market or an event, seal the seed | short hashes repeat; retries use up counters | no market is stored over another |
| Edits of a market (`lib.rs`) | description, outcomes, tags, commitment | four edits | edits go past the cache, bets through it | a bet keeps the terms it was placed on |
| Voting (`lib.rs`) | `votes`, `stakes`, `total_staked` | `vote` | mixes with bets in the same maps | stakes are covered by the pool |
| Bets (`bets.rs`) | bet record per user, registry, `BetStats` | `place_bet`, `place_bets`, `cancel_bet`, `resolve_market_bets`, `refund_market_bets` | duplicate entries of a batch, cancel then bet again, refund after resolution | an amount is returned at most once; statistics cover the active bets |
| Resolution (`lib.rs`, `resolution.rs`) | `winning_outcomes`, `state`, oracle result, resolved summary, claim start | `resolve_market_manual`, `resolve_market_with_ties`, `force_resolve_market`, `fetch_oracle_result`, `admin_override_verification`, `resolve_with_median` | repeated or late resolution; resolution of a cancelled market | one set of winners per pool |
| Payouts and claims (`lib.rs`, `recovery.rs`) | claim records, internal balances, sweep flag | `distribute_payouts`, `claim_winnings`, `sweep_unclaimed_winnings` | three ways to settle one winner; a distribution that gives up half-way | everyone is paid once, out of what was taken in, and eventually |
| Cancellation (`lib.rs`, `bets.rs`) | market state, bet records | `cancel_event`, `refund_on_oracle_failure` | the refund writes back the market it read | bets are refunded once and the market stays cancelled |
| Disputes (`disputes.rs`) | history, votes, stakes, answer, end time | dispute, vote, resolve, caps, eviction | moves the end time; eviction and stale copies | no open dispute is lost; stakes are where the vote says |
| Timeouts of disputes (`disputes.rs`) | one timeout record | set, extend, settle | repeated extension; settling early | it ends, within one extension |
| Approval of outcomes (`dispute_multisig.rs`) | signers, threshold, approvals | configure, approve | reconfiguration between approvals; a signer listed twice | as many signers as the threshold asks |
| Extensions (`extensions.rs`) | total and cumulative days, end time | `extend_market_duration` | together with disputes, on stale copies | every day of the end time is explained |
| Fees of a market (`fees.rs`) | `fee_collected`, `tot_fees`, platform fee | `collect_fees`, `set_platform_fee` | repeated collection from a stale copy; three settings of a fee | fees are collected once, out of the pool |
| Fee vault (`fees.rs`) | total, schedule, last withdrawal | scheduled withdrawal, `withdraw_collected_fees` | the schedule changes between withdrawals | withdrawals stay a timelock apart |
| Fee configuration (`fees.rs`) | configuration, history, commitment, queue | commit and reveal, queue and apply | replaced and cancelled announcements | nothing takes effect unannounced; the past is remembered |
| Administrators (`admin.rs`) | primary, roles, list, count, threshold, actions | add, remove, roles, hand over, migrate, propose, approve, execute | list, count and roles are stored apart; the threshold changes under a pending action | executed means approved, once |
| Upgrades and versions (`upgrade_manager.rs`, `versioning.rs`) | code hash, records, version history | upgrade, rollback, track, `upgrade_to_version` | rollback rewrites a record; arithmetic of version numbers | the records say what ran |
| Rate limiter (`rate_limiter.rs`) | configuration, entry per caller | check, update, expiry | calls bunch around the end of a window; the limits change | a bounded number of calls gets through |
| Circuit breaker (`circuit_breaker.rs`) | breaker state, half-open window | pause, resume, recovery, admission, outcome recording | what one trial leaves to the next; transitions undone by the refusal that made them | a trial starts clean and admits a bounded load |
| Budget guard (`budget_guard.rs`) | none | checks between loop iterations | aborts inside a swallowed call | no partial effect survives |
| Internal balances (`balances.rs`) | balance per user | `deposit`, `withdraw` | two breaker gates per withdrawal; stakes and balances in one purse | every balance and stake is backed by a token |
| Governance (`governance.rs`) | proposals, votes, commitments, delegations | propose, commit, reveal, delegate, execute | commits and reveals around the end of the period | one voice per voter, executed once |
| Oracles (`oracles.rs`) | whitelist, verdict, nonces, callback times | add, remove, deactivate, verify, override, callback | removed and added again between verification and callbacks | nearly two thirds of distinct oracles; no replay |
| Median of oracles (`resolution.rs`) | configuration, ruling | `resolve_with_median` | rounding, weights, dropped quotes | no feed that outweighs the others loses |
| Recovery (`recovery.rs`) | total, claims, record in work, history | refund, recover, save, prune | refunds that only book, repeated | what is reported was done, and the total says so |
| Archive (`event_archive.rs`) | times, sorted index | archive, prune by cursor | old cursors, archiving again | index and archive agree |
| Audit trail and alerts (`audit_trail.rs`, `monitoring.rs`) | chain of records; bounded queue with a flag | append, verify; alert, clear | overflow between two resets of the flag | nothing is lost silently |
| Statistics and boards (`statistics.rs`, `leaderboard.rs`) | figures per player, two bounded boards | count a bet, a claim, a market | an entry dropped is forgotten | the board shows the best |

How they interact: every entry point goes through the circuit breaker; voting,
betting, resolution, claims, refunds, disputes, edits and fees all read and
write the *same market record*, some through the cache and some past it;
payouts, claims and the sweep share the claim records and credit the internal
balances; a resolve call runs a whole distribution and ignores its result; fees
move a number within the contract, not tokens out of it. Most other components
keep records under storage keys of their own, call each other nowhere, and share
only the ledger's time. Events are written by all and read by no decision.

`PROJECT.json` lists every component, also those not modelled, and, under
`hazards`, the places where this code is hard to test, with the properties
that watch each of them.

## 2. The modules

| Module | What it is |
|---|---|
| `Market` | one market from the first stake to the last payout: storage and cache, votes, bets, resolution, payouts, claims, sweep, cancellation, refunds, fees |
| `ClaimLedger` | abstract specification: claim records are permanent, and a payment is made only with the record |
| `MCMarket` | instance of `Market` for TLC: symmetry |
| `Sums` | the sum of amounts over a finite set, in a form that can be proved about |
| `Removal` | extends `Market`: an old market is archived and its record removed |
| `MCRemoval` | instance of `Removal` for TLC |
| `MCOracleRefund` | `Market` with a history of the bets an oracle failure gave back, for TLC |
| `CircuitBreaker` | the breaker and its half-open trials |
| `Governance` | proposals, direct and commit-reveal votes, delegation, the decaying quorum, execution |
| `Referendum` | abstract specification: a tally grows only while the vote is open, and is acted on once, after it closed |
| `MCGovernance` | instance of `Governance` for TLC: symmetry and decay configurations |
| `Clock` | the ledger's time, which the modules below share |
| `Disputes` | a disputed market: disputes, votes on them, verdicts, extensions |
| `DisputeTimeouts` | the timeout of a dispute |
| `DisputeMultiSig` | the approval of an outcome by several signers |
| `FeeVault`, `FeeConfig` | the fees collected and their withdrawal; changes of the fee configuration |
| `Admins` | administrators, roles, thresholds and approved actions |
| `RateLimiter` | the limit on one caller's calls of one kind |
| `Upgrades` | the code, its upgrades and rollbacks, the version history |
| `Recovery` | recovery and partial refund of a market, with their records |
| `Archive`, `Journals` | the archive and its index; the audit trail and the queue of alerts |
| `Oracles`, `MedianOracle` | whitelist, verification and callbacks; the weighted median |
| `Standings` | statistics and leaderboards |
| `MarketIds`, `Listing` | identifiers of markets and events; edits of a listed market |
| `Balances` | tokens, internal balances and stakes, behind the breaker's pause |
| `Operations` | composition of the seventeen modules over `Clock` or beside it |
| `MCOperations` | values of `Operations`' constants for TLC |
| `SumsProofs` | sums: splitting, change of one amount, bounds, sums of sums, sums of shares |
| `MarketProofs` | type correctness, fees, escrow, agreement of bets and market, the removal |
| `MarketLedgerProofs` | the money of a market: pool, statistics, `Market` implements `ClaimLedger`, nobody is paid twice, solvency |
| `CircuitBreakerProofs`, `GovernanceProofs` | the breaker's invariants; governance's invariants, its action property, and that it implements `Referendum` |
| `DisputesProofs` | invariants of disputes, timeouts and approvals |
| `AdministrationProofs` | invariants of the vault, the fee configuration, administrators, upgrades and versions |
| `OperationsProofs` | invariants of the other components of `Operations`; the composition implements every component |

In every module a call that fails is no step, because it leaves no trace, and
one action is a whole handler with all the calls it makes that change state.
Definitions headed "Seeded fault" stand beside the handler they misstate: no
specification uses them; they are there to see that a property notices.

### Market

*State.* `market` is the `Market` record under its identifier in persistent
storage and `cache` the copy `get_market` may have left in instance storage.
`bets`, `registry`, `stats` are the bet records, `BetStorage`'s registry and
`BetStats`. `summary` is the `ResolvedOutcomeSummary`, `claimStart` the start of
the claim window, `platformFee` the value under the `platform_fee` key. `balance`
holds what this market credited to internal balances, `vault` the fee total,
`custody` the tokens the market took in and did not refund. `escrow`,
`payments`, `stakings`, `resolutions` and `reads` are history: the first two
serve properties, the others bounds.

*Actions.* One per entry point, with the whole handler: `ResolveMarketManual`
includes the update of every bet, the refresh of the summary, the start of the
claim window and the distribution. Two conventions carry the contract's
execution model:

* the distribution inside a resolve call has three outcomes: refused at once
  (the breaker, or nothing to distribute), run to its end, or given up at one
  of the budget checks (`Checkpoints`), in which case the credits it made stay
  and the claim records, written last, do not;
* `SetMarket` stores the market and leaves the cache alone, `UpdateMarket` also
  drops the cached copy, and `GetMarket` prefers the cached copy, each used
  where the code uses it. `ReadThroughCache` is any call that commits after
  nothing but `get_market`, such as the storage reports.

*Three settings of one fee.* The code takes its fee from three places: claims
and the sweep from the stored configuration, in percent (`FeePercent`);
distributions from the `platform_fee` key, in parts of 10000 (`platformFee`,
changed by `SetPlatformFee`); `collect_fees` from the fee configuration in force
at the market's first bet, in percent (`ScheduleFee`), which is refused when it
asks for more than the pool. They are kept apart in the model because nothing in
the code keeps them equal.

*Abstractions.* Amounts, times and fees are constants; identifiers, reasons and
metadata are left out; a batch that names several markets is one bet on each,
one that names this market twice is `PlaceBets`. `ResolutionOutcomeCache` is
used by `lib.rs` and absent from the source tree: `Refresh` is
modelled from the uses and marked external. Token transfers are the custody
they move.

### Removal

*State.* The market's, and `threshold` (`cleanup_threshold_days`), `removed`
(the record is gone from storage) and `archived` (the archived copy).

*Actions.* Those of `Market` while the record is stored; `UpdateStorageConfig`,
which anybody may call with any value; `CleanupOldMarketData`, which reads
the market through the cache, asks for whole days since the end, archives
what it read and removes the record. `Removable` joins the two checks of the
state: the one of the handler and the transition that `remove_market` asks for.
After the removal every call that names the market fails, so the model stops
there, and market and bets show what was lost.

### CircuitBreaker

*State.* `breaker` is the `CircuitBreakerState` in instance storage, `window` the
`HalfOpenWindow` in temporary storage; `admits` and `probes` are the history of
the current trial.

*Actions.* Pause, resume, recovery, the automatic trigger, an admitted call
(which asks once or twice), the recorded outcomes, and `QuotaExhausted`: the
refusal that closes or reopens the breaker, which commits only where its error
is swallowed, in the distribution inside a resolve call. Calls in the Closed or
Open state change nothing and are no steps. Configuration is fixed.

### Governance

*State.* One variable per kind of `StorageKey`: `proposal`, `ballot` (`Vote`),
`commitment` (`VoteCommitment`), `delegate`, `delegateCount`, and the settings
`period`, `quorum`, `decay`. `settings` bounds the administrator's changes.

*Actions.* `CreateProposal`, `Vote`, `CommitVote`, `RevealVote`,
`SetDelegate`, `UnsetDelegate`, `ExecuteProposal`, the three setters and the
clock. `validate_proposal` changes nothing and is the predicate `Passed`;
`compute_effective_quorum` is `EffectiveQuorum`, with the code's integer
divisions.

*Abstractions.* A commitment is the hash of a salt and one byte, so it can be
opened with one support or with none: it is modelled by that support, or by
`Unopenable`. Titles and the list of proposals are read by no decision. The
function a proposal invokes belongs to another contract; if it fails, so does
the execution, and the host does not let it call back into this contract.

*Refinement.* `Referendum` knows neither voters nor quorums: a proposal
(`Watched`, any one) is none, open, closed or executed, with a count on each
side. The mapping reads the phase off the clock, so the step from open to
closed is one of `Tick`.

### Disputes, timeouts, approvals

`Disputes` follows one market from its end on. `disputed` and `cached` are its two
copies; `extended` is the total of extension days kept under a key of its own;
`history`, `ballot`, `ballots` are `DisputeHistory`, `DisputeVoting` and the votes
stored under each user; `disputeHeld` the tokens taken; `limits` the
administrator's floor and caps. `ProcessDispute` is the whole handler: stake,
end time, history with its eviction, and the disputer's own vote.
`ResolveDispute` computes the verdict from the dispute stakes and the market's
community votes; the vote on the dispute has no part in it. The market's own
votes are kept as totals by outcome. `distribute_dispute_fees`,
`claim_dispute_winnings` and `escalate_dispute` never succeed in this code,
because `get_dispute_votes` returns an empty list and nothing sets a vote to
Completed, so they have no action. `ExtendMarketDuration` is `extensions.rs`
with its two limits and the cumulative cap.

`DisputeTimeouts` is the record of one timeout: set, extended, settled. No entry
point of `lib.rs` reaches it. `DisputeMultiSig` is the state of one market's
approval; `consents` and `approved` are history.

### Fees

`FeeVault` holds the fee total, the withdrawal schedule and the time of the last
scheduled withdrawal; `draws` is the history of those. `CheckedBpsFloor` divides
basis points as the code does, by the denominator of a percentage.
`FeeConfig` holds the configuration in force, the history of replaced ones, the
commitment and the queue; `announced` and `feeChanges` are history. A
configuration is a model value, valid or not; its hash is itself.

### Administrators, upgrades

`Admins` has the roster (`primary`, the role before the migration, assignments,
list, count) and the approvals (threshold, proposed threshold, pending actions).
The two halves meet in `HasEmergency`, `ActiveAdmins` and `ExecuteAction`. One
role without the Emergency permission stands for the four the code has.
`Upgrades` has the code's hash with the records of upgrades, and the version
history, which the code keeps apart; `installed` is what the host was told to
run. Versions keep the code's arithmetic: parts are added into one number. All
versions have the same text in the code, so the list of compatible versions that
the caller of `upgrade_to_version` fills in either has every version or none: the
parameter `listed`.

### Rate limiter, archive, journals

`RateLimiter` follows one entry of temporary storage: `AdmitCall` is check and
update together, as the callers make them, and `DropEntry` the entry's expiry.
`Archive` has the time stored for each market, the sorted index, and every
cursor a caller may still hold. `Journals` has the audit chain, whose digest is
the sequence of actions it commits to (no collisions), and the queue of alerts.

### Oracles, median

`Oracles` has the whitelist's three entries for each oracle, the verdict, and per
oracle the nonces and the last callback. A source answers yes, no, or fails in
any way. `ListWithout` rebuilds the list entry by entry as the code does, stated as
which entry comes where. `MedianOracle` computes with the code's integers: plain median, filter
by deviation, weights by confidence, weighted median with its rounded half.

### Standings, identifiers, edits, balances, recovery

`Standings` has the figures of the platform and of each player and the two boards
in storage order; ranking is a query. `MarketIds` lets any short hash come out,
the same one always included; the helpers missing from the source file are
modelled from their uses and marked external. `Listing` is the same market as
`Market` seen from its terms: edits and votes go past the cache, bets through it.
`Balances` has purses, the contract's tokens and internal balances, as history the
stakes less what was refunded and paid (in all, and of each user), and of the
breaker only what a withdrawal asks. A refund needs tokens and a credit needs
nothing: neither is compared with the stakes, here as in the code, so the balances
may exceed the tokens. `Recovery` has the
market's total and claims, the record in work, the bounded history and the
status.

### Operations

Seventeen modules that keep their records under storage keys of their own and
call each other nowhere are composed in `Operations`. They share the clock. A
behaviour follows the component `subject` names; the others stay as they began;
each is followed until its own time (`Until`). The state space is therefore the
sum and not the product of theirs, and what is found of each is what an
instance of its own would show. That sharing the clock disturbs none of them is
not assumed but proved (`OperationsImplementsEach`).

What the composition leaves out on purpose: components that do interact are one
module (`Market`, `Disputes`, `Admins`), or are modelled where they meet
(`Balances` with the breaker's gates, `Listing` with bets and the cache).

## 3. What is checked

Every run is exhaustive within its bounds.

| Run | Shows |
|---|---|
| `market_full` | everything that may go wrong is allowed, stale copies and aborted distributions included; still an amount a bet locked is returned at most once (`EscrowCoversBet`), the pool covers every refundable bet, in storage and in the copy a call may write back, and tokens cover the pool (`PoolSound`), the statistics cover the active bets (`StatsCoverActiveBets`), no bet is refundable on a market that has winners or was cancelled (`ActiveBetsOnlyWhileOpen`), and fees are collected once (`FeesCollectedOnce`) |
| `market_settlement` | one resolution, no stale copy, no aborted distribution: whichever of distribution, claim and sweep settles a winner, what was credited and what is still owed stay within the tokens, and with the vault's part too where the fee taken from winners is at least the fee collected (`Solvent`), nobody is paid twice (`PaidOnce`), the market implements the claim ledger (`LedgerSpec`), and every winner who is owed money is settled, paid or swept (`OwedIsSettled`) |
| `removal` | an old market may be removed by anybody, on a stale copy, between two resolutions, around every cancellation and refund, with the age changed on the way: no bet that could still be refunded loses its market (`NoBetStranded`) |
| `circuit_breaker` | nothing of an earlier trial decides this one (`TrialIsFresh`), and a trial admits at most two quotas in any span shorter than the window (`BurstBounded`) |
| `governance` | the weight of a vote is the number of delegations held and nobody delegates back (`DelegationsSound`), direct and revealed ballots are counted once each, on their side (`TallyMatchesBallots`), a proposal that passes keeps passing until the quorum is changed (`PassedStaysPassed`), and every proposal is a referendum: its tally is final at the end and it is executed once (`ReferendumSpec`) |
| `operations` | what each of the seventeen components promises, in any order of calls; the table below |
| `reresolution` | *violated*: `Solvent` when a market may be resolved twice |
| `budget_abort` | *violated*: `PaidOnce` when a distribution may give up |
| `stale_cache` | *violated*: `ClaimsAreForever` when a stale copy may be written back |
| `cancelled_market` | *violated*: `RefundIsFinal`: a bet, the market's end, `refund_on_oracle_failure` gives the bet back, `resolve_market_manual` succeeds and marks the refunded bet as won. `force_resolve_market`, which is documented to resolve whatever the state, is not in this run |
| `governance_voices` | *violated*: `OneVoicePerVoter`, because a voter may vote and then delegate |
| `rate_window` | *violated*: `WindowReopens`, because the count is compared before the window is restarted |

| Property of `operations` | Component | Says |
|---|---|---|
| `OperationsTypeOK` | all | every record has its shape; no amount or count goes negative |
| `DisputeStakesBacked` | `Disputes` | tokens taken are the two sides of the vote; no disputer's stake is missing from the supporting side |
| `OpenDisputesRecorded` | `Disputes` | until a verdict the history holds every dispute, open, with its stake, whatever was evicted or written back stale |
| `ExtensionsExplained` | `Disputes` | the end time is the days granted and one for each dispute; a market is disputed once in each extension |
| `TimeoutBounded` | `DisputeTimeouts` | a timeout ends within its longest span and one extension, and is not settled sooner |
| `ApprovedByThreshold` | `DisputeMultiSig` | as many different signers of the same configuration as its threshold |
| `DrawsApart` | `FeeVault` | scheduled withdrawals are a timelock apart, however the schedule changes |
| `ChangesWereAnnounced` | `FeeConfig` | nothing takes effect that was not announced a full delay before |
| `FeeConfigRemembered` | `FeeConfig` | the configuration looked up for a past time is the one then in force, as long as none was queued |
| `ExecutedOnApproval` | `Admins` | executed means approved by as many different addresses as the threshold, once |
| `RosterCounted` | `Admins` | the list names administrators with an assignment and the count never exceeds it, also after a repeated migration; until one drops somebody off the list the three agree |
| `RateBounded` | `RateLimiter` | less than twice the highest limit in any span as long as the shortest window |
| `RecordsMatchCode` | `Upgrades` | the stored hash is the running code's; the chain verifies until a rollback |
| `UpgradesInOrder` | `Upgrades` | upgrades go up within one major version although numbers overflow their part, and never raise it; only a version whose caller lists others, and one of whose parts overflows, goes down to a lower major one |
| `RefundsAccounted` | `Recovery` | the total is stakes less refunds; reports are of what was done |
| `IndexMatchesArchive` | `Archive` | the index lists exactly the archived markets, in order, through pruning with old cursors |
| `NothingLostSilently` | `Journals` | the queue holds the latest alerts or its flag says otherwise; the audit chain verifies |
| `VerdictByMajority` | `Oracles` | nearly two thirds of the distinct oracles that answered |
| `CallbacksOnce` | `Oracles` | one callback for each nonce, an interval apart, through removal and addition |
| `MedianSplits` | `MedianOracle` | no feed that outweighs the others loses; enough feeds were kept |
| `WinningsBoardIsTop` | `Standings` | the board shows the best although dropped entries are forgotten |
| `NoMarketReplaced` | `MarketIds` | no market is stored over another even when every hash is the same |
| `TermsKept` | `Listing` | an active bet's market still says what it was placed on |
| `BalancesCovered` | `Balances` | the balances exceed the tokens held by exactly what was refunded and paid beyond the stakes; no token is lost; no user's share changes for another's |

The type invariants of `Market`, `CircuitBreaker` and `Governance` are proved, and
not repeated as properties of their runs.

The six violated runs are disagreements between the code and what its comments,
tests or documents say; `PROJECT.json` quotes both under `findings`. The first
three are also the reason for the assumptions of `market_settlement` and of the
theorems about the ledger: each assumption has a run that shows it is needed.
`Solvent` has one more: no user holds a vote beside a different bet record
(`OnePosition`). A user who cancels a bet and then votes holds both; the winning
total counts the vote, and `distribute_payouts` may pay on the other, larger
amount.

### Bounds, and why they are enough

* *Users* are two: every rule concerns one user or one user against the rest,
  and the maps that order users (`Users` are numbers, because the code iterates
  in key order) have two orders of first bets. *Outcomes* are two: winning and
  losing, and both for a tie.
* `MaxStakings` is 2 or 3: bet, cancel, bet again by one user with a second
  user beside, or a bet, a vote and a batch. `MaxPool` bounds what is staked in
  all; it is large enough for every combination of amounts in its run, up to
  three stakings of 7 and 10 that total 24.
* Amounts 7 and 10 are chosen so that shares round: 10% of 7 does not divide,
  nor do the shares of 7 in 24. `market_full` uses 0 and 10: a vote has no
  minimum and an empty stake is a real state.
* *Fees of a market.* The settlement run distributes at 5%, claims at 10% and
  collects 5%: each winner's fee is at least the fee collected, and distribution
  and claim differ. `market_full` and `removal` start with 10% for all three
  and let the distribution's fee become 5% on the way. Elsewhere the three are 10%.
* *Times.* The end time is 1 and windows are 0 or 1, so every order of a call
  and a boundary occurs: before, at and after. `MaxTime` lies past all of them.
* `MaxReads` and `MaxResolutions` are 1 where they are not the subject: one
  stale copy and one resolution. Fairness aside, more reads only refill the cache.
* *Removal.* A day is two units, so that hours are cut off the age; the threshold
  is a day or none, and time goes on to the first moment an old market may go.
  One user, two bets, two resolutions and one read: a copy made before either of
  them may be what the removal looks at. The proofs have no such bounds.
* `CheckEvery` is 1 where the code has 10: with two users, a distribution must be
  able to give up between them.
* Breaker: quota, window, timeout and probe count 2, so that a quota can be
  used in part, a window can end between two calls, and a trial can end one probe
  early; time 7 covers a pause, a cooldown and a trial with two windows.
* Governance: three voters, so that one can delegate to a second while a third
  votes or delegates, and a cap of one delegation, so that the cap is met.
  One proposal: proposals share only the delegations and the settings. Periods
  1 and 2 and time 3 give a clock before, at and after each end. The quorum is 4
  with a floor of 3 (75%): the decay passes through a point between, and three
  voters can meet the floor only with a delegated vote. One change of settings
  falls before, during or after the vote.
* Disputes: two users who dispute one after the other, in the extension the first
  one caused; a history cap of 1, so that eviction has to choose; a floor above the
  stakes offered, which refuses them, and caps that let just them through; one
  change of the configuration at any moment; an end time of 2, a day of 1, a window of 2 and time
  up to 4. Timeouts of up to 2 hours with extensions of 1; 3 and 2 are refused.
* Approvals: three signers in every list of one or two, repetitions included, and in
  every order of all three, configured twice. Three addresses and one action for the administrators, with
  thresholds up to the number of them, two proposals, two changes of the roster and
  two migrations.
* Fees: a vault of up to 4, three scheduled withdrawals, timelocks 0 (refused), 1
  and 2, shares of none, below, at and above a whole of 200, which stands for 10000;
  50 is one whose cap binds; requests of -1, 0, within and beyond. Two changes
  among two valid configurations and one that is refused, with replaced,
  cancelled and overtaken announcements.
* Rate limits of 0 (none) to 2, windows of 2 and 3, the neighbours of each refused,
  and 5 calls: two bursts and one more. Entries live no longer than their window
  (`EntryLife` 0) where the question is how much gets through, and longer in
  `rate_window`, whose question is when it opens again.
* Versions: `Part` is 2 where the code has 1000, with parts 0 to 2, so that a part
  overflows. Three upgrades or rollbacks of two codes, so that one goes back to a
  code that was left.
* Archive: three markets, room for two, pages of at most two, three prunes.
  Journals: a queue of two with five alerts and two resets of the flag.
* Oracles: three sources, so that two of three reach the threshold and one of two
  does not; two callbacks. Prices 0 (refused), 100, 103 and 200 around a threshold of
  101, with and without confidence, with a deviation of 2% and of everything.
* Standings: boards of two with three players and four claims, so that one who was
  dropped comes back. Identifiers: two hashes, counters up to 4 and three
  attempts, so that both limits are met.
* Listing: two users, two edits, one read that fills the cache. Balances: two
  users with three tokens each, one pause, and payouts that take the balances one
  token beyond the tokens held (`MaxShortfall`). Recovery: two users, lists of refunds
  that name one of them twice, five steps, a history of one record.

Deadlock is not checked: a settled market, or time at its bound, has no step.

### Fairness

`FairSpec` asks that the clock advances, which the ledger does on its own, and
that a winner who may claim eventually claims (`WF` of each user's
`ClaimWinnings`). The second is a promise of users, not of the code: the
property says that the code never blocks such a winner for ever, although
claims wait for the dispute window and others may sweep, refund or
distribute meanwhile. It is checked without symmetry. The other components
promise nothing by themselves: what they do waits for a call nobody has to make.

## 4. What is proved

For every value of the constants allowed by the `ASSUME`s of the
modules, any number of users, outcomes, signers, addresses, codes and feeds, any
amounts, times and fees:

| Theorem | Statement |
|---|---|
| `MarketProofs!TypeCorrect` | `Spec => []TypeOK`: in particular no balance, custody or vault becomes negative |
| `MarketProofs!FeesOnce`, `EscrowKept` | `FeesCollectedOnce`, `EscrowCoversBet` |
| `MarketProofs!BetsAndMarketAgree` | `ActiveBetsOnlyWhileOpen` |
| `MarketProofs!RemovalTyped`, `RemovalStrandsNoBet` | the type invariant of `Removal`, `NoBetStranded` |
| `MarketProofs!RemovalSparesEarlyWindows` | `WindowSurvives`: a claim window that is over by the last moment at which the market cannot be old enough is over when it is removed |
| `MarketLedgerProofs!PoolIsSound`, `StatsAreCovering` | `PoolSound`, `StatsCoverActiveBets`, stale copies and aborted distributions included |
| `MarketLedgerProofs!ImplementsLedger` | `Spec => LedgerSpec`, if `MaxReads = 0` and `BudgetAborts = FALSE` |
| `MarketLedgerProofs!EveryoneIsPaidOnce` | `Spec => []PaidOnce`, under the same assumptions |
| `MarketLedgerProofs!MarketIsSolvent` | `Spec => []Solvent`, if moreover `MaxResolutions <= 1` |
| `CircuitBreakerProofs!TypeCorrect`, `TrialsAreFresh`, `BurstsAreBounded` | the type invariant and the invariants of the run |
| `GovernanceProofs!TypeCorrect`, `WeightsAreDelegations`, `NobodyDelegatesBack`, `DelegationsAreSound` | the type invariant, and delegations |
| `GovernanceProofs!VotesCountOnce`, `PassingIsFinal`, `ProposalsAreReferenda` | `TallyMatchesBallots`, `PassedStaysPassed`, `ReferendumSpec` |
| `DisputesProofs!DisputesTyped`, `EndTimeExplained`, `StakesAreBacked`, `NoOpenDisputeIsLost` | the type invariant and the three invariants of `Disputes` |
| `DisputesProofs!TimeoutsEnd`, `ApprovalsReachThreshold` | `TimeoutBounded`, `ApprovedByThreshold`, with their types |
| `AdministrationProofs!WithdrawalsApart`, `NoUnannouncedChange`, `HistoryIsTrue` | `DrawsApart`, `ChangesWereAnnounced`, `FeeConfigRemembered` |
| `AdministrationProofs!AdminsTyped`, `RosterAgrees`, `ActionsWereApproved`, `ThresholdsWait` | the type invariant, `RosterCounted`, `ExecutedOnApproval`, and that a threshold applies a full delay after its own proposal |
| `AdministrationProofs!RecordsAreTrue`, `VersionsInOrder` | `RecordsMatchCode`, `UpgradesInOrder` |
| `OperationsProofs!CallbacksAreNotReplayed` | `CallbacksOnce` |
| `OperationsProofs!BalancesAreCovered`, `RefundsAreAccounted` | `BalancesCovered`, `RefundsAccounted` |
| `OperationsProofs!IdentifiersStayApart`, `TermsAreKept` | `NoMarketReplaced`, `TermsKept` |
| `OperationsProofs!NothingIsLostSilently`, `IndexIsTheArchive` | `NothingLostSilently`, `IndexMatchesArchive` |
| `OperationsProofs!RateIsBounded` | `RateBounded` |
| `OperationsProofs!VerdictIsMajority`, `MedianIsFair` | `VerdictByMajority`, `MedianSplits` |
| `OperationsProofs!BoardShowsTheBest` | `WinningsBoardIsTop` |
| `OperationsProofs!OperationsImplementsEach` | the composition implements the specification of every component |
| `OperationsProofs!OperationsTyped`, `OperationsSafe` | so the type invariants and all else that is proved of a component hold in the composition |

Every invariant and every action property of a passing run, and both refinements,
are among these.

*Assumptions.* The `ASSUME`s say that the sets of people are finite, that amounts,
times and limits are natural numbers, and that model values are not records;
no more is used. Three are stated for the proofs: a recovery
record is not the value for "none" (`NoRecoveryAssumption`), a rate entry is not
`NoEntry`, and a market has a question, outcomes and labels to be created with
(`ListingAssumption`). Three theorems have hypotheses of their own, on what the
cache, the budget and a second resolution may do. Each is needed: `stale_cache` shows
a claim record undone by a stale copy, `budget_abort` a winner paid twice,
`reresolution` a market that owes more than it has.

*The market.* Type correctness goes action by action and needs that a payout is
an integer whatever the fees, that a sum over amounts is a natural number, and
that every update of a market is a market. `FeesOnce` needs an invariant
beside the type: the cached copy, if there is one, agrees with storage on
`fee_collected`, because no direct write touches that flag and every write
through the cache drops the copy; without it a stale copy would let the fee be
taken twice. `EscrowKept` splits the steps in two: those that activate no bet
and leave the escrow alone, and those that change one user's bet, by exactly what
they move. `BetsAndMarketAgree` needs `CopiesTell`: what `ActiveBetsOnlyWhileOpen`
says of the stored record holds of the cached copy too, and both say that
a closed market has winners and its fees collected. A copy that is
stale may still be behind on votes and amounts; it is never behind on a resolution
or a cancellation while a bet is `Active`. So what the removal reads from the
cache is enough to decide on (`RemovalStrandsNoBet`). `WindowSurvives` comes down to
whole days: older than `threshold` days means `threshold + 1` days at least.
The ledger theorems show that every step of the market settles a set
of users without a record and credits some of them (`Settles`), which is the
abstract next-state relation; `PaidOnce` follows from the ledger's own
invariant (`PaidWithRecord`) with an empty cache.


*Sums.* The provers cannot do induction over a set of users, so a total is not
defined by recursion or as a fold: `SumOver(f, S)` is the number of pairs of an
element and one of its units (`Sums`), and the library's facts on cardinalities
of disjoint unions give all that is needed. Where a fact compares two sums term
by term and would be proved by induction, `LeastAtFault` replaces it: among the
subsets of `S` for which the fact fails there would be a smallest one, and the
fact holds of it with any one element taken away, and so of it. TLC computes the same
definition on the small amounts of the runs.

*The pool and the statistics.* A step either activates no bet, and leaves
custody, registry and statistics alone (`LeavesPool`), or is one of the four that
move a stake. The invariant speaks of storage and of the copy `get_market` would
return, because that copy may be written back.

*Solvency.* `Backed` says where a market stands: nothing was credited before there
are winners; from then on the summary is that of the stored market, and the
credits are at most the winners' shares of the pool, less the fee, for those who
have a record. A share is rounded down, so what counts is the product: `IsShare(s, a,
pos, S)` says that `100 * a * winningTotal` is at most the rate times the pool times
the positions of `S`. Such bounds add over disjoint sets of winners (`SharesAdd`),
which makes the order of distribution, claim and sweep irrelevant: those with a
record and those still owed are disjoint and within the winners, whose positions
add up to the winning total (this is what `OnePosition` and a summary
taken once are for). The fee collected is the rest of the pool at most.

*The breaker.* The invariant adds `WindowsApart`: outside a trial there is no
window, and a call admitted a quota or more before the current window began lies
a whole window before it. `BurstBounded` alone is not inductive, because it says
nothing of where the window starts.

*Governance* rests on two lemmas about its steps (`DelegationSteps`,
`ProposalSteps`): a step leaves the delegations, or sets or removes one; it
leaves the proposals and ballots, or creates, counts or executes, and then the
clock stands still. `TallyMatchesBallots` needs that nobody has voted on a
proposal that does not exist (`BallotsHaveProposals`). `PassedStaysPassed` needs
that proposals opened in the past (`OpenedBefore`) and that the effective quorum
never grows with time (`QuorumDecays`), which comes down to the monotonicity of
integer division. The refinement needs that what was executed had closed
(`ExecutedClosed`).

*Disputes.* None of the three invariants survives a stale write on its own. What
saves them is `CopyAgrees`: a copy in the cache may be stale in votes, answer,
winner and state, which are written past it, but never in end time, days,
extensions and dispute stakes, which are only written through it. Beside it
stands `RecordedUntilVerdict`: a dispute's resolution leaves a winner in both
copies, and until then the open records are the disputes, even after a stale
copy undid a winner that was forced. For approvals, `ApprovalsAreConsents`: the
list of approvals names each consenting signer once.

*Fees and administrators.* `DrawsApart` needs that the schedule in force is at
least as slow as that of every earlier withdrawal (`SlowerSinceDrawn`), which the
tightening-only guard keeps once one is stored. `FeeConfigRemembered` needs that
history and changes run in step in the order of time, and that the first later
entry is well defined (`LeastIndex`). `ExecutedOnApproval` needs that approvals
never repeat (`ApprovedOnce`) and that an executed action stays stored as executed
(`ExecutedStored`), so that it is not approved again or executed again.
`RecordsMatchCode` needs that every hash in the chain was run
(`ChainReachesCode`). `VersionsInOrder` is arithmetic: a higher number with a lower
major part has a part that overflows (`HigherByOverflow`), and the remaining cases
of the compatibility check follow (`AllowedInOrder`). `RosterCounted` needs, after a
migration that drops somebody, that a removal lowers the count whether or not it
shortens the list. `CallbacksOnce` needs that every processed callback left
its nonce and its time, or a later one, in entries the whitelist does not touch
(`ProcessedRemembered`).

*Balances and recovery* are about sums again: what a handler moves into one user's
purse, balance and stakes comes to nothing (`MoneyMoves`), or it lowers one stake
by what it books. Nothing is assumed of the amounts: `BalancesCovered` tells by how
much the balances are short after a market paid more than it took, and `Solvent`
when a market does not (`reresolution` and `budget_abort` show that it may). A list of users that
names one twice is summed by position, not by user, because each entry books the
user's whole stake; no record, in work or in the history, reports more than was
ever booked, also when the oldest are trimmed or pruned (`RecordsBounded`).

*Identifiers, edits, journals, archive.* `NoMarketReplaced` needs that the registry
remembers every identifier issued and that each administrator's counter is past
those it was used for (`IssuedRemembered`). `TermsKept` needs that a copy agrees with
storage on the terms as long as somebody holds an active bet (`TermsCopyAgrees`),
and that the bet count covers the active bets, since it is the count that refuses
an edit. `NothingLostSilently` needs that the queue is the end of the alerts raised
and how its flag relates to its length (`QueueIsLatest`), and that each audit record
names the digest of the one before (`ChainHolds`).
`IndexMatchesArchive` compares neighbours; the invariant compares any two entries
(`IndexInOrder`). Inserting needs that the place the code looks for is the only one
that keeps the order; pruning, that a page is a run of the index and that the
entries before and after it stay.

*The rate limiter.* The invariant says that the admitted calls split into windows:
some function tells for each call the first one of its window, such that windows
begin a shortest window apart at least and none holds more than the highest limit
(`Windows`), and the stored entry counts the last one (`CountsLast`). A span as long
as the shortest window meets at most two windows, and not the whole of both.

*Places in an order.* A finite set in a total order can be numbered without gaps or
repetitions (`PlacesAreAll`): the place of an element is the number of those not
after it. This stands for the induction by which one would sort. It gives the list
without one oracle (`ListedInOrder`, used by `VerdictByMajority`: an oracle that is
listed twice would vote twice), the ranks of feeds by price (`RanksByKey`), and the
order of a leaderboard.

*The median.* The weights of the feeds are natural numbers whose sums split, so the
weight below a price grows with the price. The first feed at which the running
weight reaches half of the total, with the code's rounding (`HalfIsReached`), has
at most half below it because it is the first, and at most half above it because
it is reached (`MedianIsBetween`).

*The leaderboard.* A board that forgets cannot be compared with the players
directly. `SoundBoard` says that every entry shows what its player won to date, that
no player is listed twice, that before the board is full every winner is on it, and
that no winner who is not on it won more than one who is. A player who was dropped
returns only with more than the lowest entry, and then with the whole of what they
won, because the figures are kept per player and not per board.

*The composition.* For each component, a step of `Operations` is one of its own,
or leaves its variables while the clock stands or ticks, which its specification
allows in every state.

*Only model-checked.* `OwedIsSettled` is liveness under fairness, which this prover
does not handle. The six violated properties are refuted by their runs.
Induction over data is out of the provers' reach as well, because the library's
induction theorems take an operator as a parameter: no theorem rests on what a
recursive definition computes, and where one would use induction, a smallest counterexample or the
places of an order take its place.

## 5. What is not modelled, and why

* *Reentrancy guard.* A call sets its lock, works and clears it before it ends,
  and a failed call is undone with its lock: between two calls no lock is set.
* *Batch operations, the older voting manager, the updates of `ConfigManager`,
  `MarketPauseManager`.* No entry point of `lib.rs` calls them. The entry points that
  replaced them are modelled.
* *Graceful degradation.* Its oracle call is disabled: it always fails and
  stores nothing.
* *The gate on implausible prices* inside one verification, and the providers'
  protocols: a source answers or fails.
* *Storage reports, compression and format migrations* (`storage.rs`) change no
  market; `AdminFunctions::close_market`, which also removes one, is called by no
  entry point.
* *The fee calculators' tiers and the creation fee*: how much is paid, not when.
* *Configuration, validation and error codes* hold no protocol state: the models
  take the inputs they accept. *Events, queries and analytics* are read by no
  decision. Together with tests they are well over half of the source's lines.
* *Tokens, allow lists and tooling*; `contracts/hello-world` is a template.

## 6. Discrepancies noticed

Beyond the findings, and met while reading. None of them is needed to
understand the models, which follow the code.

*Fees.*
* `PERCENTAGE_DENOMINATOR` is 100 (`config.rs`:45), while `lib.rs` and `fees.rs` use
  a `crate::PERCENTAGE_DENOMINATOR` no file defines and
  `docs/gas/GAS_COST_ANALYSIS.md`:138 gives 10000. With 100 and the default fee of
  200, `collect_fees` asks for more than the pool and claims, distributions by
  configuration and the sweep compute negative payouts, all refused. The models
  take 100 and fees for which the code does something.
* Basis points of the fee vault are divided by 100 (`fees.rs`:1720), so a cap on a
  withdrawal of one percent or more never binds.
* `apply_update` and `ConfigManager`'s updates write no history.
  `withdraw_collected_fees` with a negative amount adds to the total.
* `claim_winnings`, `distribute_payouts` and `collect_fees` take the fee from three
  settings that nothing keeps equal (section 2).

*Disputes and resolution.*
* A second vote on a dispute is looked for in a list that is always empty
  (`disputes.rs`:1453, 2802): users may vote again. The market whose disputers may
  not vote is the one the caller names.
* `update_dispute_thresholds` marks fees collected and closes a resolved market, and
  keeps one threshold for all markets; no entry point calls it.
* Nothing sets `MarketState::Ended`; `resolve_market` of `lib.rs` only counts.
  Parts of `resolution.rs` and `market_id_generator.rs` do not parse as they stand:
  pieces of other functions are spliced into them.
* `resolve_with_median`, `set_median_config`, `seal_seed`, the timeouts, the oracle
  whitelist with its callbacks and the rate limiter's configuration have no entry
  point; `verify_result` of `lib.rs` always answers that the oracle is unavailable.

*Administrators and upgrades.*
* A repeated migration drops administrators off the list but keeps their
  assignments; `transfer_admin` leaves the role with the previous administrator; a
  super administrator can never be demoted or remove itself, because only one is ever
  counted; an expired action can still be executed.
* `rollback_upgrade` stores the latest record again, after which
  `verify_upgrade_chain` fails for good.
* `Version::to_string` gives every version the same text (`versioning.rs`:150), so a
  version that lists that text is compatible with all: 0.2000.0 may follow 1.0.0.

*Oracles.*
* A callback's signature check accepts any 64 bytes; callbacks may be processed
  out of the order of their timestamps; a tie counts as a yes but is never a
  consensus; the whitelist's `initialize` may be called by anyone not yet an
  administrator of it.
* The gate on implausible prices takes the upper middle of an even number of
  quotes, and a refused quote still takes the place of the oldest one.

*Markets, balances, the rest.*
* An edit is undone by a bet that went through a stale cached copy, and a
  cancellation by the refunds that follow it (`bets.rs`:694). Of a batch that names one
  market twice, the first entry's stake is taken and recorded nowhere.
* A vote without a
  stake does not keep a market from being edited. An event of one administrator may
  have the identifier of another's.
* An automatic trip opens the breaker with the scope and permission of the last
  pause, and a Full pause refuses withdrawals even when it allows them.
  `withdraw` stores the lowered balance after the transfer.
* `cancel_event` refunds bets and no votes; a winner whose payout rounds to zero
  cannot claim; the board of win rates may differ from the true order, because a
  later bet changes a rate and not the board.
* `cleanup_old_market_data` and `update_storage_config` need no authorization. A
  cancelled market passes the handler's check (`storage.rs`:418), but
  `remove_market` refuses its transition to Closed: it is never removed. The age
  counts from `end_time` and the claim window from the resolution
  (`docs/operations/INCIDENT_RESPONSE.md`:36), so a market resolved late may be
  removed while its winners may claim; how late is what `WindowSurvives` says.
* The pause of single markets is
  stored under the market's own key; `get_all_market_ids` is always empty; nothing
  writes market metadata.

## 7. Plan

Done: the modules above with their runs and theorems. Left, in this order:

1. `Market` composed with `Disputes` and `Balances` on one record, abstracting each
   to what the others read of it.
2. An abstract specification of the internal balances (an account book whose total
   is conserved up to what markets pay beyond their stakes), which `Balances` and
   the credits of `Market` implement.
3. The gate on implausible prices and the pause of single markets, should entry
   points come to call them.
