# Formal models of Called It / Rumble

The repository runs group bets on football claims. A claim ("Spain win this")
becomes a *market* with two sides, *Back* and *Doubt*; a live score feed decides
it; the stakes are settled parimutuel at the odds fixed when the market opened.
Money is held either by the on-chain escrow program (Solana, Rust) or, in the
older custodial mode, by the engine's own ledger. This directory holds TLA+
models of the parts that decide and move money - the escrow program, the reducer
that decides a market from the feed, the loop that settles and pays custodial
markets, the path of an escrow market's result through the oracle signers, the
relayer that brings escrow transactions to the chain, and the custodial
treasury's deposits and withdrawals - with TLC configurations and TLAPS proofs.

`PROJECT.json` is the machine-readable index: components, runs, mutants, the
map from definitions to source lines, findings, hazards and theorems.

## 1. Inventory

| Component | State | Operations | Interacts with |
|---|---|---|---|
| Escrow program, `programs/calledit-escrow` | protocol config, oracle sets, one market account and vault per claim, a position per wallet, lots per position | 21 instructions: configure, pause, rotate; initialize, freeze, unfreeze; place, activate, invalidate; settle, calculate, void, timeout void; claim, close | relayer submits, oracle signers attest, indexer reads |
| Market reducer, `packages/market-engine` (`reduce.ts`, `evaluate.ts`) | status, settlement candidate, positions, goal ledger, freeze reason, cutoff flag, cursor | `reduceMarket(state, event)`, `checkDebounce(state, now)` | called by the settler, the reconciler and the escrow event workflow |
| Compiler and pricing, `packages/market-engine` | none | claim to specification, odds to probability | reads the fixture row |
| Feed, `packages/txline` | last phase, score and seq per event id; odds suspension flag | SSE streams to normalised match events | settler, event workflow |
| Settlement loop, `apps/engine/src/settle` | cached market states, feed events and settlements in the database | on event, tick, hydrate, apply effects; reconciler; leased settlement jobs | database, wager ledger, Telegram |
| Wager ledger, `apps/engine/src/wager` | balances, positions, pots, deposits, withdrawals | stake, settle, sweep | settlement loop, Solana |
| Escrow engine, `apps/engine/src/escrow` | relayer jobs, attestation requests, placement sessions, projections | lease, sign, broadcast, confirm, retry; schedule freeze / settle requests; index finalized accounts | chain, oracle signer, database |
| Oracle signer, `apps/oracle-signer` | journal of signed attestations | verify evidence, sign | attestation worker |
| Telegram, bot, pipeline, points, proofs, cron, API | durable inbox and outbox, claims, offers, points, proof jobs | commands and callbacks, leased workers | all of the above |
| Web, concierge, agent, mockline, recovery tool | - | user interface, staging, operations | engine API |

What is hard in this system, and what makes each part correct:

- **Escrow**: every instruction is atomic, but a market's life is dozens of
  transactions by mutually independent parties. Settlement is two-phase (one
  transaction per position), races with an oracle void and a permissionless
  timeout, and rounds per position. Correct means: the vault covers every claim
  in any order, the staged result equals the one-pass reference, stakes taken
  in play do not survive an event they were placed ahead of, a resubmitted
  placement is paid once, and no stake is ever stuck.
- **Reducer**: the feed trails the pitch, retracts goals, raises doubts (VAR,
  possible events, suspended odds) and repeats frames, while a candidate
  outcome waits out a debounce window. Correct means: a market settles only on
  facts that can no longer change, never during a VAR check, staking closes for
  good at the cutoff, taps made in hindsight do not count, and full time ends
  every market.
- **Settlement loop**: five kinds of task of one process share a cache and a database and
  interleave at every await. Events are stored before they are reduced, a
  restart loses the reducer's scratch, and the money moves in a tail of single
  calls, each of which may be the last. Correct means: whoever gets there, one
  outcome is paid, out of the stakes, completely, and closed stays closed.
- **Relayer**: a broadcast may succeed without an answer, a blockhash expires, a
  lease runs out under its worker, two engines overlap in a deploy. Correct
  means: one economic effect per job, and a completed job has it.
- **Treasury**: the same for withdrawals (paid once or refunded once), plus a
  deposit scan whose cursor must leave nothing behind.
- **Escrow event workflow and oracle signer**: the reducer's state lives in
  memory, a settlement request is stored when its candidate is armed and is not
  withdrawn when the goal is, and each of several signers judges it at another
  moment against a snapshot that moves on. Correct means: at most one verdict
  ever carries a threshold of signatures, it is one that the newest record gave,
  and a finished match gets its verdict on the chain.

## 2. Modules

| Module | Models | 
|---|---|
| `EscrowMath` | `math.rs`: floor division with the u64 range, odds ratio, matched pots, forfeits, winnings |
| `EscrowMarket` | all instructions that change accounts; properties |
| `EscrowAccounting` | `settle_positions`, the reference settlement, and properties that sum over owners or lots |
| `MCEscrow` | instances |
| `EscrowMarket_proofs` | theorems: types, ledger and solvency; what holds of a whole run; the books as a whole |
| `FiniteSums` | lemmas about sums, for all proofs |
| `MarketEvaluate` | `evaluate.ts`: the settlement predicate |
| `MarketReducer` | `reduce.ts`: `reduceMarket` and `checkDebounce` as functions |
| `MarketReducer_proofs` | lemmas on what they return |
| `MatchFeed` | a match (environment) and the score stream `normalize-scores.ts` makes of it |
| `MarketFeed` | one market driven by the match, the odds stream, the tick and taps; properties |
| `MCMarket` | instances |
| `MarketFeed_proofs` | theorems: the reducer on the stream |
| `WagerPot` | `wager/pot.ts`: matched pots and the credits of a settlement |
| `SettlementLoop` | settler, debounce tick, reconciler, void sweep and wager sweeper over one cache and one database, with faults; composes `MarketReducer` and `WagerPot`; properties |
| `MCSettlement` | an overturned and an abandoned match, and one with a VAR check |
| `SettlementLoop_proofs` | theorems |
| `RelayedEffect` | abstract: what a relayer job promises |
| `RelayerJob` | the job row and its database functions, the workers, the chain; implements `RelayedEffect` |
| `MCRelayer` | two engines |
| `Relayer_proofs` | theorems and the refinement |
| `WithdrawalPromise` | abstract: what a withdrawal promises |
| `WagerTreasury` | deposit watcher, withdrawal outbox, chain; implements `WithdrawalPromise` |
| `MCTreasury` | instance |
| `Treasury_proofs` | theorems and the refinement |
| `OracleDecision` | abstract: what a threshold of oracle signers promises |
| `EventWorkflow` | scheduler, attestation requests and their worker, oracle signers, the settling transaction; uses `MarketReducer`, implements `OracleDecision` |
| `MCEventWorkflow` | four short matches, and one decided before its end |
| `EventWorkflow_proofs` | theorems and the refinement |

### Escrow

A variable is an account field of the same name (`active_total` is
`Market.active_total_*`, `lot[o][n]` is the `PositionLot` PDA of owner `o` and
nonce `n`); per-side fields are functions on `{"Back", "Doubt"}`. An action is
one instruction handler: its `require!`s are the guard, and a failing
instruction changes nothing, so it is simply not a step. `SignIntent` is the
wallet signing `PlacePositionArgs`; a signed intent may land late, or be
submitted again. Keys, PDAs, hashes, rent and events are left out; a threshold
of the pinned oracle set may attest anything at any time. Slots and unix
seconds are one clock. `signed`, `deposited`, `received`, `dust` and
`epoch_since` are history, read by properties only.

### Market reducer

`reduceMarket` returns the next state and the effects, step by step in the
order of the code; each numbered comment block of `reduce.ts` is an operator.
Thresholds are counted in halves, `late` stands for minute 85 or more, phases
that no predicate tells apart are merged. The reprice hint, and the replay
clock of the snipe guard, are left out. `MatchFeed` is the world: goals (own
goals too), corrections, VAR checks, cards, lineups, extra time, abandonment.
What the normaliser adds to it is in the events: the running score, its
90-minute split or its absence, `confirmed`, and `reversesSeq` resolved to the
last sequence number of the event id, if it has seen one. `match` is the truth
now; `known` is the truth as of the last delivered event, which is what the
reducer can be held to.

`Gaps` is what the normaliser may miss of a record: the number of the goal a
correction is about (`seqByEventId` is lost in a restart, and gap-fill starts an
empty one for each record), its data (an amend without a scorer overwrites the
scorer with nobody, a goal is published before its scorer is known), or both and
the kind of the original event, so that a correction passes for an ordinary
update. A goal whose last word was not placed under its own number, or named no
scorer, is `untold`: the ledger may be wrong about it and about no other. `masked`
records that another doubt was delivered during the open VAR check, and so
replaced it in `freezeReason`. Both are history that properties read.

### Settlement loop

Each task is a record of where it is and what it has read; an action is the code
between two awaits. The stream handles one frame at a time and the reconciler
keeps its calls apart; `Settler.tick`, the void sweep and the wager sweeper are
bare intervals, so that the next call may start under the last one: `Ticks`,
`Voiders` and `Sweepers` are the calls that may be under way at once. `Receive`,
`UpdateFixture`, `Reduce` are `Settler.onEvent`; `Capture` and `Check` are
`Settler.tick`, which takes the cached states before the row; `ApplyEffects` and
`Keep` are their common end. `StoreSnapshot` and `Reconcile` .. `PersistFixture`
are the reconciler, `VoidAbandoned` the cron job. All end in one tail,
`MarkTerminal` .. `MarkApplied`, which the sweeper enters at `ReadSettlement`.
`Refresh` is the supervisor, which starts and stops the source of the fixture
once a minute; what is published in between is still received. `Fail` is any
call that throws, `Crash` a restart: the cache, the reconciler's set and the
tasks are gone, the rows stay. Settlement jobs of the durable worker are left
out because production passes no journal to the settler (`main.ts:336`).
`overlapped` is history: two tasks were under way at once. Not modelled here:
more than one market per fixture, replays, a stake tap in two steps, the odds
stream.

### Relayer job

`job` is the row of `escrow_relayer_jobs`; `raw` its signed transaction, a
number. The ten job kinds fall into three: placements (the user's bytes, never
re-signed), recovery jobs (re-armed when enqueued again) and control jobs (whose
effect is overtaken by the next epoch). A worker's step is the code between two
awaits; a database function that finds another lease owner changes nothing. The
chain lands a transaction at any time before its last valid height, or not; the
finalized height trails the tip; a node may answer `isBlockhashValid` from ahead
of the finalized height. `superseded` is another sender moving the market on: to
the same effect; to another one, which the finality verifier answers with a
mismatch; in `quiet`, where it answers pending although the job's transaction
landed (a lot or a market that was closed since, a frozen market settled within
its epoch); or, for a recovery job, `gone`, the market account closed, which
confirms every operation. `Unrecognised` is the state of a job that did its work
and whose verifier can no longer tell.

The refinement maps landed transactions to `effects`, the row's terminal states
to `outcome`. `RelayedEffect` allows one effect, completion only with the effect,
somebody else's equal one or the market gone, giving up at any time, and re-arming what was
given up. It is more than `LiveTransactionIsOnTheRow`: two transactions of a job
can both be live only if the first is forgotten, but they can also land one
after the other, when the first lands between the two reads of the worker that
gives it up. What saves the job then is that `Prepare` looks for the effect
before signing.

### Treasury

`watcher` and `outbox` are the two cron jobs; both hold an in-memory lock, so
each runs once at a time. `AfterTransfer` and `OnTo` are the nested loops over
signatures and their transfers. The withdrawal's bytes exist on the row before
they are sent; `getSigStatus` and `isBlockheightExceeded` are two reads with an
await between them. The refinement counts confirmed transfers and refund
entries. `Fork` is the chain switching to another fork above its finalized
height: what was executed, with success or without, is then executed otherwise
or not at all.

Two answers are final for the outbox and not for the chain. Unlike the relayer
it does not look again before it signs, so a transfer that lands after it was
read as absent is paid twice if its window closes before the height is read;
nothing in the code bounds the pause between the two reads. And it refunds on a
failure at any commitment, which a fork may turn into a payment. `slips` counts
these two events. `WithdrawalPromise` allows one payment too many for each of
them, and none without them.

### Event workflow

`feed` is what the provider's snapshot shows, `cursor` how far the scheduler has
been handed it, `mem` the scheduler's cached market state. `OnEvent` is `run` and
`reduce` for one live event: hydrate, drop what is stale, reduce, store a request
for a terminal effect or for a new candidate. The scheduler may see the last
record again (`OnEventAgain`), fail on one and go on (`OnEventFails`), or see a
market as open that the chain has closed, because the projection lags. A freeze
an earlier record asked for may finalise between loading the market and storing
the request, whose epoch is then wrong: the request is refused and the cached
state stays as it was. `RowStatus` is the status the market row was created with.

A member of `rows` is a row of `escrow_attestation_requests`. `held` is a live
lease, `linked` that the row knows its relayer job; the job itself is
`RelayerJob`'s and here lands or dies. The worker asks the signers one after the
other. A signer's answer is two steps, because it reads the snapshot before it
writes its journal and signs: `Ask` is the verification, a member of `inflight`
is what was verified and not yet signed, `Answer` the journal and the signature,
which counts even when the worker has stopped waiting. A hash is what it hashes;
the decision a journal holds is everything in an attestation but its lifetime,
so the same decision may be signed again in a newer envelope. A signer allows
`Skew` for its clock (`Timely`), the program nothing (`Valid`). `Crash` is a
restart, after a moment or after longer than an attestation lives.

The refinement maps `decided` to the decisions a threshold of signers has signed,
delivered or not, and `said` to the verdicts that followed from a record while it
was the newest. The journal is what makes it hold: three signers of which two
suffice can be split by a correction between two of their answers, and then no
verdict gets a quorum until the timeout.

## 3. Runs

| Run | Shows |
|---|---|
| `escrow_prematch` | three owners, two stakes, three odds, any sides: solvency in every order of settlement, claims and closing (`ClaimsCovered`, `VaultCoversAllClaims`); staged result equals the reference (`MatchesReference`); what an owner is owed does not depend on who claims first (`ClaimAmountStable`); a closed market leaves rounding dust only (`CloseLeavesDustOnly`) (807,248 states) |
| `escrow_lots` | two in-play lots, three event epochs: `NoStakeActiveThroughEvent`, `NoDuplicatePlacement`, `TotalsMatchLots`, `TypeOK` |
| `escrow_liveness` | settle, void and timeout race with freezes, invalidations and claims: `SettlementCanProceed`, `PaidInFull`; `EveryPositionPaid`, `MarketCloses`, with a u64 small enough that one settlement has winners and losers and another overflows for good (264,168) |
| `market_facts` | eight claims of all kinds, every match of up to five events, goals corrected twice, corrections the normaliser cannot place, complete or tell from an update: `SettledOnTheFacts`, `LedgerIsTheMatch`, `TypeOK` (1,607,069) |
| `market_var` | VAR checks, verdicts, possible events during a check and the cutoff: `NeverSettlesUnderVar`, `CutoffIsPermanent`; `FullTimeResolves` for a claim that full time may leave undecidable (151,663) |
| `market_snipe` | one tap, a feed that trails by one tick, three undelivered events, red cards and odds suspensions: `SnipedNeverCounts` (2,149,070) |
| `relayer` | two engines, any job kind, two transactions, two faults: `OneEffectPerJob` (refinement), `LiveTransactionIsOnTheRow`, `CompleteIsFinal`, `SignedJobIsResolved`, `RelayerTypeOK` (1,164,756) |
| `settlement` | an overturned and an abandoned match, two tasks at a time, two of them possibly ticks, one crash or failed call: `OneOutcome`, `EscrowCoversCredits`, `AppliedPaysEveryone`, `TerminalStatusIsFinal`, `LoopTypeOK` (2,287,054) |
| `settlement_liveness` | one task at a time, one fault: `SettledIsPaid` (37,827) |
| `treasury` | two signatures, two transfers in one of them, one withdrawal, two faults or forks: `PaidOrRefunded` (refinement), `TreasuryCoversLedger`, `CursorLeavesNothingBehind`, `WithdrawalEnds`, `DepositIsCredited`, `TreasuryTypeOK` (181,697) |
| `attestation` | four matches, three signers of which two suffice, one crash, lost call or failed step: `DecidedOnceOnTheFacts` (refinement), `WhistleSettles`, `WorkflowTypeOK` (122,047) |
| `settlement_taken` | violation, section 7 |

Every property of a passing run has a mutant: a small edit of one mapped
definition, as a bug would make it, under which TLC reports the property
violated. The mutants are defined beside the definition they replace.

### Bounds

- Escrow: `U64Max` is a parameter because no overflow can be reached at 2^64
  with small stakes; the liveness run sets it to 3 so that it is: at ratio 300 a
  Doubt stake of 1 is matched against a Back stake (1000/300 is 3), two overflow.
  Three owners
  are the fewest with two on one side and rounding between them; two lots the
  fewest for the lot nonce to matter; three epochs are freeze, unfreeze,
  freeze. Stakes of 2 and 3 at ratios 700, 1000 and 1500 make every floor
  inexact. The pre-match run needs no clock (`MaxTime = 0`); it also lets the
  authorities pause, change limits and rotate the oracle set once.
- Market: a match needs three phase events to reach full time and four to end
  in extra time, which leaves two or three events for goals, corrections and
  checks; thresholds are set so that one or two goals decide. `MaxBacklog`
  is 1 where nothing depends on delay and 3 in the snipe run: one event arms a
  candidate, one settles it, and the third is what the tap had seen. The debounce
  and the feed delay are one tick each where they matter, so windows of 1 and 2
  ticks overlap in every way. `MaxReversals = 2` in the run about corrections is
  a chain: the second one names the first, which the reducer never stored. The
  market runs turn deadlock checking off: the bounded clock may end before a match
  begins, or with the match still on.

- Relayer: two transactions are the fewest for a second effect, two engines for a
  lost lease, two faults for a lost lease and a failed call together. Blockhash
  life and finality lag are one block each; `MaxHeight` leaves room to see both
  transactions expire, and nothing is signed that the bounded chain could not.
  `MaxAttempts = 2` is reached and passed by signed work.
- Settlement: in one match a goal that decides the claim is taken back by the
  record that also ends the match, the other is abandoned. Tasks are two ticks and
  one of each of the others (any finite sets in the theorems). Two stakes of 3 and 2 at ratio 3/2 make the pots unequal and the
  rounding real. `MaxBusy = 2` tasks overlap. The clock runs beyond `MaxTime`
  only while a candidate waits, so no candidate is stuck at the bound.
- Treasury: two transfers in one signature, one of them below the minimum, and
  one signature without any; two signed transfers, so that re-signing happens.
  Two faults are enough for a fork and a crash, or two forks, at any point.
- Event workflow: the matches are goalless, a goal at full time that is taken back,
  coverage lost and found, and abandoned. Three signers with threshold 2 are the fewest
  that can be split. `Skew = 1` lets a signer sign what has just expired.
  `TTL = 2` exceeds the debounce of 1; a renewed envelope and
  `Deadline = 3` are reached through a crash that outlasts the attestation.
  `MaxTime = 0` because the clock runs by itself until a request is due.
  `MaxAttempts = 2` is reached by a request that is refused.

### Fairness

- Escrow: the clock, `timeout_void`, `calculate_position_entitlement`,
  `claim_position_for`, closing. All are permissionless, the relayer submits
  them for every terminal market, and anyone else can. Nothing is assumed of
  the oracle, the feed operator, the authorities or the wallets.
- Market: the stream delivers what was published (the SSE loop reconnects), the
  cron ticks, time passes, the match is played to its end and VAR checks end
  before it does. Nothing obliges the feed to publish after full time.
- Settlement: each task is a stream loop or a cron job of the engine and is run
  again and again; the match goes on and time passes. Nothing is assumed of the
  people tapping, and a fault may hit any step.
- Relayer: blocks are produced, leases run out, the lifecycle timer runs every
  worker's cycle and some worker leases what is due. Landing is not fair: a
  transaction may never land.
- Treasury: both cron jobs tick, blocks are produced, and a transfer that was
  sent is executed or fails while it can; whether a user ever links a wallet or
  withdraws is open.
- Event workflow: the match is played, events reach the scheduler, the cron job
  runs the worker, the relayer works, an asked signer answers, time passes.
  Nothing is assumed of redelivery. `WhistleSettles` is about behaviours without a
  fault: one lost event or one signer out of reach at the wrong moment leaves the
  market to the timeout void.

## 4. Proofs

Everything below holds for every value of the constants: any number of owners,
wallets, engines, signers, positions and matches, any stakes, odds and bounds.
The assumptions are the named `ASSUME`s of the modules. Most are types (natural
amounts and bounds, well-typed term sheets and records, finitely many
positions). Those that say more:

- `WorkflowAssumption`: the threshold is more than half of the signers; the
  program accepts exactly two of three (`admin.rs:314-322`);
- `FeedAssumption`: sequence numbers in a snapshot increase; `verifier.ts:297-298`
  refuses any other snapshot;
- `ScriptsAssumption`: a script tells the match from kickoff on; what comes
  before it (line-ups) decides no claim;
- `TreasuryAssumption`: transfers are listed in the order of their signatures;
- `ClaimsAssumption`: a claim is one of the six types the compiler makes, with a
  team where the predicate reads one, and its market is minted before the first
  event;
- `RowAssumption`: only a player claim waits for a lineup (`claims.ts:333-347`);
- `TasksAssumption`: at any time finitely many calls of an interval are under way.

No theorem has a hypothesis of its own. Where the code breaks the plain form of
a property, the property names the exception by what happened on the way there
(`untold`, `Misread`, `masked`, `slips`, `overlapped`), the runs reach it, and
section 7 shows the plain form failing.

| Module | Theorems |
|---|---|
| `EscrowMarket_proofs` | `TypeCorrect`, `LedgerInvariant`, `Solvency`, `SettlementProgress`, `NothingPaidTwice`, `AntiSnipe`, `EveryoneGetsTheirDue`, `OwedNeverChanges`, `ClosingLeavesDustOnly`, `BooksInvariant`, `BooksBalance`, `VaultCoversEveryone`, `StagesMatchReference` |
| `MarketFeed_proofs` | `MarketFeedInvariant`, `MarketTypeCorrect`, `StakingStaysClosed`, `LedgerFollowsTheMatch`, `VarHoldsSettlement`, `SettlesOnFacts`, `HindsightNeverCounts` |
| `Relayer_proofs` | `RelayerInvariant`, `RelayerTypes`, `RelayerRecordsBeforeItSends`, `RelayerCompletesOnFinality`, `RelayerKeepsPromise` (refinement) |
| `Treasury_proofs` | `TreasuryInvariant`, `TreasuryTypes`, `CursorIsSafe`, `TreasuryIsSolvent`, `WithdrawalKeepsPromise` (refinement) |
| `EventWorkflow_proofs` | `WorkflowInvariant`, `WorkflowTypes`, `OracleKeepsPromise` (refinement) |
| `SettlementLoop_proofs` | `LoopInvariant`, `LoopTypes`, `OneOutcomePays`, `ClosedStaysClosed`, `CreditsAreCovered`, `AppliedMeansPaid` |
| `MarketReducer_proofs` | lemmas on what a reduction returns, field by field, used by the three modules about the reducer |
| `FiniteSums` | lemmas on sums and on least counterexamples |

**Escrow.** `TypeCorrect` is more than typing: every u64 subtraction of the
program is shown not to go below zero. `ClaimsCovered` is not inductive: it says
each claim fits the vault, and paying one says nothing about the next. `Ledger`
says where the vault's content comes from. While a market runs, and when it is
voided, the vault is exactly the sum of what each position is owed plus the
forfeits collected so far. Once it is settled, the vault is the sum of the base
entitlements and a rest `r`, with

    final_forfeited * (active stake of unpaid winners) <= r * active_total[winning side]

Paying a winner of stake `a` takes `floor(final_forfeited * a / total)` from the
rest and `a` from the unpaid stake, so the inequality survives; and it implies
that the rest covers the next winner, whoever it is. The counters are tied to
sums of 0/1 functions in the same way, which shows that a Settling market still
has a position to calculate.

The history theorems each add a strengthening of their own. The placement a
wallet has signed is used up, its nonce taken, or still fits into what the
wallet signed for (`WithinSigned`). An active in-play lot has waited out its
delay, so a freeze from now on cannot fall inside it (`DelayServed`). An
entitlement contains what was never at risk, for a winner the whole principal
(`Entitlements`). For the dust there are three: a terminal market counts its
open accounts; a pot is matched only against stakes of the other side, so a
forfeited stake has somebody to go to and somebody it came from; and the rest in
a settled vault exceeds the exact share of the unpaid winners by less than one
unit for each winner already paid (`AccountsCounted`, `PotsMeet`, `RestIsDust`).

The properties of `EscrowAccounting` add up over all owners or lots with the
library's fold. `LotsAddUp` and `StakesAddUp` say that the buckets of a position
are sums over its lots and the vault of a running market a sum over the
positions; `BooksBalance` is those sums turned into folds. `VaultCoversEveryone`
is stronger than `Solvency`, which is about one claim at a time: that all of the
floors together fit the rest, and how little they leave of it, follows from
bounding each winner's share from both sides and adding up. The agreement with
`settle_positions` is not inductive either, because the reference reads all
stakes at once and the program one position per transaction, while accounts are
closed behind it. `AsReference` says what survives: the matched pots are fixed
when settlement begins, every calculated entitlement is the reference's own, the
forfeited pot is the sum over the positions calculated so far, and, as long as no
account is closed, the frozen totals are still sums over the accounts. TLC checked
`AsReference` on both escrow runs before it was proved.

**Market reducer.** `MarketFeedInvariant` has two halves. `FeedOK` is about the
stream: the match as the market knows it, each undelivered record and the match
now form a chain in which every record follows from the one before it by its
event (a goal adds one, a discard removes the one it names, a phase moves on).
`MarketOK` is about the reducer: its state is well formed, a candidate waits
exactly in the settling status, staking is not open past the cutoff, and its
cursor is the last delivered event, so that a replayed frame is dropped. Both
rest on lemmas that say field by field what `reduceMarket` returns, in five ways
a running market can leave an event: held, waiting, armed, voided, settled.
On top of it:

- the ledger holds the goals of the delivered record that were told in full, each
  as it stands, and nothing else under their numbers (`LedgerOf`,
  `LedgerFollowsTheMatch`). What makes it inductive is that a goal never corrected
  has exactly one entry, so that a correction that names it is placed, and that no
  number is both the first of one goal and the last of another, so that one that
  is misplaced hits nothing that was right;
- while a check is open on the delivered feed and nothing has masked it, the market
  is frozen for it (`UnderCheck`), so no candidate waits that an event or a tick
  could settle;
- a waiting candidate is decided by the delivered facts, and its evidence stands
  (`CandidateOK`). A player claim is judged on the ledger, hence on goals told in
  full; the others on the score, which a correction changes even if it cannot be
  placed. This is where the predicate meets the goals: the running score
  and its 90-minute split are the counts of the standing goals, counts only grow
  until a correction, a correction drops the candidate, and a period that is
  over stays over. It is proved for all six claim types, any threshold, any
  comparator;
- `TapsOK` ties taps, clock, candidate and stream together: nothing undelivered
  is older than the assumed delay, undelivered records are numbered on from the
  last delivered one, and a candidate was decided by a delivered one. So a tap made
  in hindsight is within its window when the event it had seen comes, and the
  guard voids it before that event can settle the market; and whatever settles
  the market earlier was decided by a record before it.

**Relayer.** A worker acts on what it read several awaits ago. The invariant ties
the place of each worker to the row: one that still holds the lease of an
unsigned row finds it unsigned, and one that has lost it can change nothing
(`LeaseIsCurrent`). Whatever may land, or a worker is about to send, is on the row
or has expired (`LiveIsRecorded`); so at most one transaction ever lands, and by
the time it is off the row it is final (`LandedOnce`).
The refinement of `RelayedEffect` follows.

**Treasury.** The deposit half ties the scan in progress to the cursor: what it
has passed is on file. The withdrawal half counts: the transfers other than the
last signed one that may still be paid, and a refund made on a failure that is one
no more, are together no more than the answers the chain has belied; and where the
outbox is about to sign anew, every transfer that may still be paid is one of them
(`ExtraIsBelied`). Only two steps can add to the left-hand side, a window that
closes between the two reads and a fork that undoes the failure refunded on, and
each adds a slip.

**Event workflow.** Two facts carry the refinement. What a record said while it
was the newest does not change when a later one arrives, although the goals that
stand are recomputed from the whole snapshot; so a verdict that was right when a
signer read the snapshot is still one that was said when it signs. And a signer's
journal agrees with every signature it has made, so that two quorums, which
share a signer, carry one decision.

**Settlement loop.** A task carries positions, a verdict and credits from one
await to the next, while others write the same rows. The money part of the
invariant says that what a settled market owes (`Due`) is a function of rows that
nothing changes any more. Whatever is in a task's hands or posted is due
(`OnlyTheDue`), and as long as tasks have not overlapped, what is due is posted
or in the hands of the one task there is (`AllOfTheDue`). Overlapping tasks can
disturb the rows only through taps that were made in play
(`OnlyInPlayWaits`), hence the two cases of `EscrowCoversCredits`. That the pots
add up - forfeits on one side cover the winnings on the other, with a lamport of
rounding each - is a lemma about `computePots` for any finite set of stakes.

**Sums and folds.** The library's induction theorems take an operator, which the
provers cannot instantiate. `FiniteSums` argues instead about a least
counterexample: a non-empty set of naturals has a least element
(`LeastNatural`), and a finite family of sets a minimal member
(`MinimalSubset`). That gives what the proofs need of `SumFunctionOnSet` and of
the recursive functions of the models. Sums over `1..n` are the predicate
`HasSum(n, f, total)`, "some sequence of partial sums leads from 0 to `total`".

Only model-checked, because liveness, fairness and `ENABLED` are out of the proof
system's reach: `EveryPositionPaid`, `MarketCloses`, `FullTimeResolves`,
`SignedJobIsResolved`, `SettledIsPaid`, `WithdrawalEnds`, `DepositIsCredited`,
`WhistleSettles`. Every safety property of a run, invariant or action property,
is stated by a theorem, and so are the three refinements. The violation run's
property (`FinishedIsSettled`) is a counterexample and has nothing to prove.

## 5. Correspondence notes

- `CloseVault`, `TransferClaim` and `TransferPrincipal` cover the SOL and the
  USDC branch: both move the same amount between the same parties.
- A market's own `Tick` maps `Settler.tick`, which runs `checkDebounce` only
  while a candidate waits: taps mature on the next event otherwise.
- `Redeliver` is a frame the reducer sees twice. The live settler absorbs most
  by a database key first; replays and the escrow workflow do not have it.

## 6. Hazards

`PROJECT.json` lists each hazard at its line, with the properties that cover it.
A hazard with a note is covered under the condition the note names, or states a
property that does not hold (section 7), or belongs to the plan (section 8).

## 7. Findings

- **An event is taken** (`settlement_taken`). During a match the reconciler stores
  the whole snapshot and reduces nothing; the settler drops every event that is
  on file. If the end of a VAR check is taken that way, full time is reduced
  under the open doubt, the fixture leaves the live set, and neither the stream
  nor the reconciler looks at the market again: it stays frozen for ever.

Properties that are stated in the modules and do not hold beyond the bounds of
the runs, or at all, and are not runs:

| Property | How to see it | What happens |
|---|---|---|
| `LedgerIsTheMatch` about all goals, not only those told in full | `MCMarketFacts.cfg`, also with `Gaps = {}` | a correction names the last record of its event id, the reducer knows goals by their first: a second amend, or the discard of an amended goal, corrects nothing. With `"seq"` in `Gaps` neither does one whose goal the normaliser has not seen (`reduce.ts:325`), and an amend without data erases the scorer |
| `SettledOnTheFacts` for player claims without `untold = {}` | `MCMarketFacts.cfg` | the ledger still has a discarded goal, or an erased scorer, and decides the claim |
| `SettledOnTheFacts` without `~Misread` | `MCMarketFacts.cfg` | a correction taken for an ordinary update lowers the score and, as any confirmed record does, settles the candidate it overturns |
| `DoubtHoldsSettlement` | as PROPERTY in `MCMarketVar.cfg` | `freezeReason` is both the reason of the latest freeze and the only record of an open doubt: a possible event during a VAR check replaces `var` (`reduce.ts:491`), and the next confirmed event resolves it, and with it the check (`reduce.ts:523` means to settle "never under an open VAR/possible-event doubt"). An unconfirmed goal or suspended odds do the same |
| `SnipedNeverCounts` as "is never activated" | `MCMarketSnipe.cfg` | three undelivered events: a phase change arms a candidate, any confirmed record settles it and activates the waiting taps, and the goal one of them was made in hindsight of is the third; `reduce.ts:263` takes it that "remaining pending taps at settlement beat every deciding moment" |
| `SuspensionLifts` | as INVARIANT in `MCMarketVar.cfg` with `"odds_suspension"` in `Kinds` | the live source publishes only the transition into suspension |
| `FullTimeResolves` | `MCMarketVar.cfg` with `"odds_suspension"` in `Kinds` | odds suspended after the final whistle cancel the candidate, and no further score event is due |
| `LapsedMeansNothingMoved` | as INVARIANT in `MCRelayer.cfg` | a timeout while a placement is verified again is taken for an invalid signature; the transaction is in flight and lands |
| `ClosedIsPaid` | as PROPERTY in `MCSettlementLiveness.cfg` | a crash between the status and the settlement row: the sweeper finds the market, but no outcome |
| `FinishedSettles` | as PROPERTY in `MCEventWorkflow.cfg` with `Scripts <- DecidedEarly` | a claim decided in the first half: the next record settles the cached state, its request names a record that is not final and the signers refuse it until its attempts run out; full time is then ignored, and only the timeout void ends the market |
| `WhistleSettles` without `RowStatus = "open"` | `MCEventWorkflow.cfg` with a player claim and `RowStatus = "pending_lineup"` | the player is in no lineup: the reducer voids the market as undecidable, the signers refuse it |
| at most one payment, or a payment or a refund, without `slips` | `Cardinality(PaidForGood) + refunds <= 1` as INVARIANT in `MCTreasury.cfg` | absent when read, lands in its last block, window closed when the height is read: signed again, paid twice (`withdrawals.ts:17-20` calls expiry "the one case a fresh signature cannot double-send"); or failed on a fork that is abandoned, refunded and paid |
| `TreasuryCoversLedger` without `slips` | `MCTreasury.cfg` | the same two |
| `SignedJobIsResolved` without `Unrecognised` | `MCRelayer.cfg` | the transaction lands, the lot or the market is closed before it is read as final, or a frozen market is settled within its epoch: the verifier says pending and the row is leased for ever |
| a completed recovery job has had its effect | `job.state = "complete" /\ superseded = "gone" => FinalLanded # {}` as INVARIANT in `MCRelayer.cfg` | a closed market account confirms every operation (`recovery-finality.ts:24`), one that never happened too |
| `TerminalStatusIsFinal`, `AppliedPaysEveryone`, without `~overlapped` | `MCSettlement.cfg` | `updateMarketStatus` has no guard: a task that reduced before another one closed the market writes its status after; the market it reopens takes a stake after the credits were computed |
| `EscrowCoversCredits`, with in-play stakes and overlap | `MCSettlement.cfg` | one task refunds a waiting tap and fails, an older reduction then activates it, and the sweeper pays it |

## 8. Plan

Done: escrow program; reducer, predicate and feed; settlement loop; relayer job,
treasury and the terminal part of the event workflow with the promises they
implement; the theorems of section 4, which cover every safety property.

1. The rest of `EventWorkflow`: freeze, unfreeze and invalidation requests with
   the epoch part of `EscrowMarket` (a price-moving event freezes the chain before
   the lots it concerns activate), replays, and the terminal orchestrator that
   enqueues entitlements, claims and closing.
2. The settlement loop with the odds stream (whose sequence numbers block the
   fixture row) and a stake tap in two steps; two engines on one treasury.

## Not modelled

- Pricing (floating point), claim parsing and language-model front ends, byte
  encodings and signatures, presentation, HTTP routing, the web client: data or
  pure I/O, with no state the properties speak of.
- The durable settlement worker: not wired in production.
- The escrow indexer and the solvency monitor: they read; the inequality the
  monitor watches is `TreasuryCoversLedger`.
- Telegram inbox and outbox, proof jobs, group points: they follow settlements
  and move no money.
- The scripts, tests, generated clients and staging tools, which are most of the
  repository's lines.
