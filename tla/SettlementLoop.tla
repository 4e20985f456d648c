--------------------------- MODULE SettlementLoop ---------------------------
(***************************************************************************)
(* How a custodial market is settled and paid.  One engine process runs    *)
(* five kinds of task that share a cache and a database and interleave at  *)
(* every await: the score stream (Settler.onEvent), the debounce cron      *)
(* (Settler.tick), the snapshot reconciler, the abandoned-market sweep and *)
(* the wager sweeper.  All of them end in the same tail: status, settlement *)
(* row, refunds, payouts, marker.  The stream handles a frame at a time and *)
(* the reconciler keeps its own calls apart; the other three are bare      *)
(* intervals, whose next call may start while one is still under way.      *)
(*                                                                         *)
(* The reducer is MarketReducer's, the pot WagerPot's.  The match is one   *)
(* of a few scripts, published event by event.  The market is open, legacy *)
(* custody, in a wager asset and not a replay.  Reads a task makes back to *)
(* back are one step, and so are the non-terminal effects of one reduction *)
(* and the rows of one snapshot.                                           *)
(***************************************************************************)
EXTENDS MarketReducer, WagerPot

CONSTANTS
    Claim,      \* the market's MarketSpec
    Scripts,    \* the matches: sequences of feed events without time stamps
    Ticks,      \* the calls of Settler.tick that may be under way at once
    Voiders,    \* the calls of voidAbandonedMarkets
    Sweepers,   \* the calls of SettlementSweeper.tick
    MaxTime,    \* bound on the clock
    MaxBusy,    \* bound on the tasks under way at once
    MaxFaults   \* bound on crashes and failed database calls

ASSUME LoopBounds == MaxTime \in Nat /\ MaxBusy \in Nat /\ MaxFaults \in Nat

ASSUME TasksAssumption ==
    /\ IsFiniteSet(Ticks) /\ IsFiniteSet(Voiders) /\ IsFiniteSet(Sweepers)
    /\ {"stream", "reconciler"} \cap (Ticks \cup Voiders \cup Sweepers) = {}
    /\ Ticks \cap Voiders = {} /\ Ticks \cap Sweepers = {} /\ Voiders \cap Sweepers = {}

\* A script tells the match from kickoff on: what the feed carries before it
\* (line-ups) decides no claim.
ASSUME ScriptsAssumption ==
    /\ Scripts \subseteq Seq(FeedRecords)
    /\ \A s \in Scripts : \A i \in DOMAIN s : s[i].phase # "NS"

VARIABLES
    script,     \* the match being played, chosen once
    feed,       \* the events published so far, stamped
    now,        \* the wall clock
    source,     \* IngestSupervisor.liveSources has the fixture's stream
    market,     \* markets.status
    positions,  \* the positions rows
    settlement, \* settlements.outcome, NoOutcome without a row
    applied,    \* wager_settlements_applied
    ledger,     \* wager_ledger_entries: lamports by kind and position
    stored,     \* feed_events: the sequence numbers on file
    fixture,    \* fixtures: phase and last_seq
    cursor,     \* stream_cursors: frames the stream has handled
    cache,      \* Settler.states, NoState without an entry
    reconciled, \* SettlementReconciler.reconciledMarketIds has the market
    task,       \* what each task is doing
    faults,     \* what went wrong so far
    overlapped  \* history: two tasks have been under way at once

engineVars == <<script, feed, now, source, market, positions, settlement, applied, ledger,
                stored, fixture, cursor, cache, reconciled, task, faults>>
vars == <<engineVars, overlapped>>
worldVars == <<script, feed, now, source, faults>>
envVars == <<worldVars, reconciled>>
moneyVars == <<settlement, applied, ledger>>
feedRows == <<stored, fixture, cursor>>

Tasks == {"stream", "reconciler"} \cup Ticks \cup Voiders \cup Sweepers
Statuses == {"pending_lineup", "open", "frozen", "settling", "settled", "voided"}
Outcomes == {NoOutcome, "claim_won", "claim_lost", "void"}
Terminal == {"settled", "voided"}
LIVE_PHASES == {"H1", "HT", "H2", "ET1", "HTET", "ET2", "PE", "INT"}

NoPosition == [state |-> "none", placedAt |-> 0, inPlay |-> FALSE]
NoState == [status |-> "none", pending |-> NoCandidate, positions |-> <<>>,
            scratch |-> initialScratch(Claim)]
NoCredits == [refunds |-> {}, payouts |-> {}, voidedPending |-> {}]

\* row: the status read with the market; outcome: the verdict being persisted.
Idle == [at |-> "idle", event |-> 0, upTo |-> 0, nowMs |-> 0, row |-> "none", state |-> NoState,
         fx |-> NoEffects, outcome |-> NoOutcome, credits |-> NoCredits]

LoopInit ==
    /\ script \in Scripts
    /\ feed = <<>> /\ now = 0 /\ source = FALSE /\ faults = 0
    /\ market = "open"
    /\ positions = [p \in Positions |-> NoPosition]
    /\ settlement = NoOutcome /\ applied = FALSE
    /\ ledger = [refund |-> [p \in Positions |-> 0], payout |-> [p \in Positions |-> 0]]
    /\ stored = {} /\ fixture = [phase |-> "NS", seq |-> 0] /\ cursor = 0
    /\ cache = NoState /\ reconciled = FALSE
    /\ task = [t \in Tasks |-> Idle]
    /\ overlapped = FALSE

-----------------------------------------------------------------------------
(* The match, the clock and the people tapping. *)

PublishNext ==
    /\ Len(feed) < Len(script)
    /\ feed' = Append(feed, [script[Len(feed) + 1] EXCEPT !.ts = now, !.rcv = now])
    /\ UNCHANGED <<script, now, source, faults, market, positions, moneyVars, feedRows, cache, reconciled, task>>

\* Bound: beyond MaxTime the clock runs only until a waiting candidate is due.
PassTime ==
    /\ now < MaxTime \/ now < cache.pending.until
    /\ now' = now + 1
    /\ UNCHANGED <<script, feed, source, faults, market, positions, moneyVars, feedRows, cache, reconciled, task>>

\* wager_stake: the row is checked and the position inserted in one transaction.
Place(p) ==
    /\ positions[p] = NoPosition
    /\ market \in {"pending_lineup", "open"}
    /\ positions' = [positions EXCEPT ![p] =
         LET inPlay == fixture.phase # "NS"
         IN  [state |-> IF inPlay THEN "pending" ELSE "active", placedAt |-> now, inPlay |-> inPlay]]
    /\ UNCHANGED <<envVars, market, moneyVars, feedRows, cache, task>>

-----------------------------------------------------------------------------
(* Rows. *)

At(t, step) == task[t].at = step
Busy == {t \in Tasks : ~At(t, "idle")}
Ready(t) == At(t, "idle") /\ Cardinality(Busy) < MaxBusy
Go(t, step) == task' = [task EXCEPT ![t].at = step]
End(t) == task' = [task EXCEPT ![t] = Idle]

\* LiveSource advances the cursor once the handler is back, failed or not.
Return(t) == End(t) /\ cursor' = IF t = "stream" THEN task[t].event ELSE cursor

\* Mutation: the state of a closed market is kept.
PersistClosed(t, result) ==
    task' = [task EXCEPT ![t] =
      [task[t] EXCEPT !.at = "effects", !.row = market, !.fx = result.effects,
                !.state = result.state, !.outcome = result.effects.terminal.outcome]]

\* A reduction is done; its effects are next.  The state of a closed market is
\* not kept, its verdict is.
Persist(t, result) ==
    task' = [task EXCEPT ![t] =
      [task[t] EXCEPT !.at = "effects", !.row = market, !.fx = result.effects,
                !.state = IF Closed(result.state) THEN NoState ELSE result.state,
                !.outcome = result.effects.terminal.outcome]]

\* insertFeedEvent ignores a duplicate; updateFixtureFromEvent never goes back.
updateFixture(f, ev) == IF f.seq <= ev.seq THEN [phase |-> ev.phase, seq |-> ev.seq] ELSE f

\* Mutation: a plain upsert.
InsertSettlementLastWins(outcome) == settlement' = outcome

\* insertSettlement: the first outcome written wins.
insertSettlement(outcome) ==
    settlement' = IF settlement = NoOutcome THEN outcome ELSE settlement

\* Mutation: no idempotency key.
PostAgain(kind, credit) ==
    ledger' = [ledger EXCEPT ![kind][credit.pos] = @ + credit.amount]

\* postWagerLedger: an idempotency key is credited once.
postWagerLedger(kind, credit) ==
    ledger' = IF ledger[kind][credit.pos] > 0 THEN ledger
              ELSE [ledger EXCEPT ![kind][credit.pos] = credit.amount]

setPositionStates(chosen, state) == Mark(positions, chosen, state)

\* liveFixtures: in play, or about to kick off.
LiveFixture == fixture.phase \in LIVE_PHASES \cup {"NS"}

-----------------------------------------------------------------------------
(* Settler.onEvent, one call for each frame of the stream. *)

\* IngestSupervisor.refresh: between two calls a source runs on after the end of
\* its match, and one that is wanted is missing.
Refresh ==
    /\ source # LiveFixture
    /\ source' = LiveFixture
    /\ UNCHANGED <<script, feed, now, faults, market, positions, moneyVars, feedRows, cache, reconciled, task>>

Event(i) == [feed[i] EXCEPT !.rcv = now]

\* A frame already on file is dropped, whoever stored it.
Receive ==
    LET i == cursor + 1
    IN  /\ Ready("stream") /\ source
        /\ i \in DOMAIN feed
        /\ stored' = stored \cup {feed[i].seq}
        /\ IF feed[i].seq \in stored
           THEN cursor' = i /\ UNCHANGED task
           ELSE task' = [task EXCEPT !["stream"] = [Idle EXCEPT !.at = "fixture", !.event = i]]
                /\ UNCHANGED cursor
        /\ UNCHANGED <<envVars, market, positions, moneyVars, fixture, cache>>

UpdateFixture ==
    /\ At("stream", "fixture")
    /\ fixture' = updateFixture(fixture, feed[task["stream"].event])
    /\ Go("stream", "reduce")
    /\ UNCHANGED <<envVars, market, positions, moneyVars, stored, cursor, cache>>

\* A state made from the rows alone: no candidate, no scratch.
fresh == [status |-> market, pending |-> NoCandidate, positions |-> positions,
          scratch |-> initialScratch(Claim)]

hydrate == IF cache # NoState THEN [cache EXCEPT !.positions = positions] ELSE fresh

\* A market that is no longer open is not loaded.
Reduce ==
    LET ev == Event(task["stream"].event)
    IN  /\ At("stream", "reduce")
        /\ \/ /\ market \in Terminal
              /\ Return("stream") /\ UNCHANGED cache
           \/ /\ market \notin Terminal
              /\ cache' = hydrate /\ UNCHANGED cursor
              /\ \E result \in {reduceMarket(Claim, hydrate, ev)} : Persist("stream", result)
        /\ UNCHANGED <<envVars, market, positions, moneyVars, stored, fixture>>

-----------------------------------------------------------------------------
(* Settler.tick. *)

\* The states and the clock are read first, the row after an await.
Capture(t) ==
    /\ Ready(t)
    /\ cache.pending # NoCandidate
    /\ task' = [task EXCEPT ![t] = [Idle EXCEPT !.at = "check", !.state = cache, !.nowMs = now]]
    /\ UNCHANGED <<envVars, market, positions, moneyVars, feedRows, cache>>

\* Mutation: the row is not looked at.
CheckBlindly(t) ==
    /\ At(t, "check")
    /\ \E result \in {checkDebounce(task[t].state, task[t].nowMs)} : Persist(t, result)
    /\ UNCHANGED <<envVars, market, positions, moneyVars, feedRows, cache>>

\* A market another task has closed is dropped from the cache.
Check(t) ==
    /\ At(t, "check")
    /\ \/ market \in Terminal /\ cache' = NoState /\ End(t)
       \/ /\ market \notin Terminal /\ UNCHANGED cache
          /\ \E result \in {checkDebounce(task[t].state, task[t].nowMs)} : Persist(t, result)
    /\ UNCHANGED <<envVars, market, positions, moneyVars, feedRows>>

-----------------------------------------------------------------------------
(* Settler.applyEffects, for the stream and for the tick. *)

SettlerTasks == {"stream"} \cup Ticks

\* The effects but the terminal one, then any other status move.
ApplyEffects(t) ==
    LET job == task[t]
        moved == job.fx.freeze # NoReason \/ job.fx.unfreeze \/ job.fx.activateMarket
    IN  /\ At(t, "effects")
        /\ positions' = Mark(Mark(positions, job.fx.voids, "void"), job.fx.activates, "active")
        /\ market' = IF job.fx.terminal # NoTerminal
                     THEN (IF moved THEN "frozen" ELSE market)
                     ELSE IF moved \/ job.state.status # job.row THEN job.state.status ELSE market
        /\ task' = [task EXCEPT ![t].fx = NoEffects, ![t].row = "none",
                      ![t].at = IF job.fx.terminal = NoTerminal THEN "keep" ELSE "status"]
        /\ UNCHANGED <<envVars, moneyVars, feedRows, cache>>

\* states.set, or states.delete once the market is closed.
Keep(t) ==
    /\ At(t, "keep")
    /\ cache' = task[t].state
    /\ Return(t)
    /\ UNCHANGED <<envVars, market, positions, moneyVars, stored, fixture>>

-----------------------------------------------------------------------------
(* SettlementReconciler.tick. *)

Finished == \E i \in DOMAIN feed : feed[i].phase \in TERMINAL_PHASES \cup VOID_PHASES

Watched ==
    /\ LiveFixture /\ market \notin Terminal
    /\ Placed(positions) # {}
    /\ feed # <<>>

\* A match in progress: the events are stored and nothing is reduced.
StoreSnapshot ==
    /\ Ready("reconciler") /\ Watched /\ ~Finished
    /\ stored' = stored \cup {feed[i].seq : i \in DOMAIN feed}
    /\ fixture' = updateFixture(fixture, feed[Len(feed)])
    /\ UNCHANGED <<envVars, market, positions, moneyVars, cursor, cache, task>>

\* A finished one: the market is reduced afresh over the whole snapshot.
Reconcile ==
    /\ Ready("reconciler") /\ Watched /\ Finished /\ ~reconciled
    /\ task' = [task EXCEPT !["reconciler"] =
         [Idle EXCEPT !.at = "replay", !.event = 1, !.upTo = Len(feed), !.state = fresh]]
    /\ UNCHANGED <<envVars, market, positions, moneyVars, feedRows, cache>>

\* The event that decided, and how.
Verdict(i, outcome) == [Idle EXCEPT !.at = "fixture", !.event = i, !.outcome = outcome]

\* One event is stored and reduced; the first terminal effect is persisted.
ReplayEvent ==
    LET job == task["reconciler"]
    IN  /\ At("reconciler", "replay") /\ job.event <= job.upTo
        /\ stored' = stored \cup {feed[job.event].seq}
        /\ \E result \in {reduceMarket(Claim, job.state, Event(job.event))} :
             task' = [task EXCEPT !["reconciler"] =
               IF result.effects.terminal # NoTerminal THEN Verdict(job.event, result.effects.terminal.outcome)
               ELSE [job EXCEPT !.event = job.event + 1, !.state = result.state]]
        /\ UNCHANGED <<envVars, market, positions, moneyVars, fixture, cursor, cache>>

\* The match is over: a candidate need not wait for its debounce window.
ReplayDebounce ==
    LET job == task["reconciler"]
        terminal == checkDebounce(job.state, now + SETTLEMENT_DEBOUNCE).effects.terminal
    IN  /\ At("reconciler", "replay") /\ job.event > job.upTo
        /\ task' = [task EXCEPT !["reconciler"] =
             IF terminal = NoTerminal THEN Idle
             ELSE Verdict(CHOOSE i \in 1..job.upTo : feed[i].seq = terminal.decidingSeq,
                          terminal.outcome)]
        /\ UNCHANGED <<envVars, market, positions, moneyVars, feedRows, cache>>

\* persistTerminal, up to the tail all tasks share.
PersistFixture ==
    /\ At("reconciler", "fixture")
    /\ fixture' = updateFixture(fixture, feed[task["reconciler"].event])
    /\ task' = [task EXCEPT !["reconciler"].at = "status", !["reconciler"].event = 0]
    /\ UNCHANGED <<envVars, market, positions, moneyVars, stored, cursor, cache>>

-----------------------------------------------------------------------------
(* voidAbandonedMarkets: nobody has called by kickoff. *)

VoidAbandoned(t) ==
    /\ Ready(t)
    /\ market \notin Terminal /\ fixture.phase # "NS"
    /\ \A p \in Positions : positions[p].state \in {"none", "void"}
    /\ task' = [task EXCEPT ![t] = [Idle EXCEPT !.at = "status", !.outcome = "void"]]
    /\ UNCHANGED <<envVars, market, positions, moneyVars, feedRows, cache>>

-----------------------------------------------------------------------------
(* The tail: the terminal status, the settlement row, then applySettlement. *)

MarkTerminal(t) ==
    /\ At(t, "status")
    /\ market' = IF task[t].outcome = "void" THEN "voided" ELSE "settled"
    /\ Go(t, "settlement")
    /\ UNCHANGED <<envVars, positions, moneyVars, feedRows, cache>>

InsertSettlement(t) ==
    /\ At(t, "settlement")
    /\ insertSettlement(task[t].outcome)
    /\ task' = [task EXCEPT ![t].at = "read", ![t].outcome = NoOutcome]
    /\ UNCHANGED <<envVars, market, positions, applied, ledger, feedRows, cache>>

\* The settler still has to drop its state; the other tasks are done.
AfterApply(t) ==
    /\ reconciled' = (reconciled \/ t = "reconciler")
    /\ IF t \in SettlerTasks
       THEN task' = [task EXCEPT ![t].at = "keep", ![t].outcome = NoOutcome, ![t].credits = NoCredits]
       ELSE End(t)

\* applySettlement: without an outcome there is nothing to apply yet.
ReadSettlement(t) ==
    /\ At(t, "read")
    /\ IF applied \/ settlement = NoOutcome THEN AfterApply(t)
       ELSE /\ task' = [task EXCEPT ![t].at = "refund",
                                    ![t].credits = settlementCredits(positions, settlement)]
            /\ UNCHANGED reconciled
    /\ UNCHANGED <<worldVars, market, positions, moneyVars, feedRows, cache>>

\* One credit after the other, in the order of the rows.
Refund(t) ==
    /\ At(t, "refund")
    /\ task[t].credits.refunds # {}
    /\ LET credit == CHOOSE c \in task[t].credits.refunds : TRUE IN
         /\ postWagerLedger("refund", credit)
         /\ task' = [task EXCEPT ![t].credits.refunds = @ \ {credit}]
    /\ UNCHANGED <<envVars, market, positions, settlement, applied, feedRows, cache>>

\* Taps that were still waiting are void once they are refunded.
VoidPending(t) ==
    /\ At(t, "refund") /\ task[t].credits.refunds = {}
    /\ positions' = setPositionStates(task[t].credits.voidedPending, "void")
    /\ Go(t, "pay")
    /\ UNCHANGED <<envVars, market, moneyVars, feedRows, cache>>

Pay(t) ==
    /\ At(t, "pay")
    /\ task[t].credits.payouts # {}
    /\ LET credit == CHOOSE c \in task[t].credits.payouts : TRUE IN
         /\ postWagerLedger("payout", credit)
         /\ task' = [task EXCEPT ![t].credits.payouts = @ \ {credit}]
    /\ UNCHANGED <<envVars, market, positions, settlement, applied, feedRows, cache>>

\* Mutation: the marker is set as soon as the refunds are posted.
MarkAppliedEarly(t) ==
    /\ At(t, "refund") /\ task[t].credits.refunds = {}
    /\ applied' = TRUE
    /\ AfterApply(t)
    /\ UNCHANGED <<worldVars, market, positions, settlement, ledger, feedRows, cache>>

MarkApplied(t) ==
    /\ At(t, "pay") /\ task[t].credits.payouts = {}
    /\ applied' = TRUE
    /\ AfterApply(t)
    /\ UNCHANGED <<worldVars, market, positions, settlement, ledger, feedRows, cache>>

\* Mutation: only settled markets are swept.
SweepSettled(t) ==
    /\ Ready(t)
    /\ market = "settled" /\ ~applied
    /\ settlement # NoOutcome
    /\ Go(t, "read")
    /\ UNCHANGED <<envVars, market, positions, moneyVars, feedRows, cache>>

\* settledWagerMarketsMissingApplied: closed markets without the marker.
Sweep(t) ==
    /\ Ready(t)
    /\ market \in Terminal /\ ~applied
    /\ settlement # NoOutcome \* with no row the pass changes nothing
    /\ Go(t, "read")
    /\ UNCHANGED <<envVars, market, positions, moneyVars, feedRows, cache>>

-----------------------------------------------------------------------------
(* Faults. *)

\* A call fails: the task logs it and ends, the stream moves on to the next frame.
Fail(t) ==
    /\ faults < MaxFaults /\ faults' = faults + 1
    /\ task[t].at \notin {"idle", "keep"}
    /\ Return(t)
    /\ UNCHANGED <<script, feed, now, source, market, positions, moneyVars, stored, fixture, cache, reconciled>>

\* The process dies and starts again: only the database survives.
Crash ==
    /\ faults < MaxFaults /\ faults' = faults + 1
    /\ cache' = NoState /\ reconciled' = FALSE /\ source' = FALSE
    /\ task' = [t \in Tasks |-> Idle]
    /\ UNCHANGED <<script, feed, now, market, positions, moneyVars, feedRows>>

-----------------------------------------------------------------------------
CloseAndPay(t) ==
    \/ MarkTerminal(t) \/ InsertSettlement(t) \/ ReadSettlement(t) \/ Refund(t)
    \/ VoidPending(t) \/ Pay(t) \/ MarkApplied(t)

StreamTask == Receive \/ UpdateFixture \/ Reduce \/ ApplyEffects("stream") \/ Keep("stream") \/ CloseAndPay("stream")
TickTask(t) == Capture(t) \/ Check(t) \/ ApplyEffects(t) \/ Keep(t) \/ CloseAndPay(t)
ReconcilerTask ==
    \/ StoreSnapshot \/ Reconcile \/ ReplayEvent \/ ReplayDebounce \/ PersistFixture
    \/ CloseAndPay("reconciler")
VoiderTask(t) == VoidAbandoned(t) \/ CloseAndPay(t)
SweeperTask(t) == Sweep(t) \/ CloseAndPay(t)

EngineStep ==
    \/ PublishNext \/ PassTime \/ \E p \in Positions : Place(p)
    \/ Refresh \/ StreamTask \/ ReconcilerTask
    \/ \E t \in Ticks : TickTask(t)
    \/ \E t \in Voiders : VoiderTask(t)
    \/ \E t \in Sweepers : SweeperTask(t)
    \/ \E t \in Tasks : Fail(t)
    \/ Crash

LoopNext == EngineStep /\ overlapped' = (overlapped \/ Cardinality(Busy') > 1)

LoopSpec == LoopInit /\ [][LoopNext]_vars

-----------------------------------------------------------------------------
(* Properties. *)

\* Rows and cache keep their types; a closed market is never cached.
LoopTypeOK ==
    /\ market \in Statuses /\ settlement \in Outcomes /\ applied \in BOOLEAN
    /\ \A p \in Positions : positions[p].state \in {"none", "pending", "active", "void"}
    /\ ledger \in [{"refund", "payout"} -> [Positions -> Nat]]
    /\ stored \subseteq {feed[i].seq : i \in DOMAIN feed} /\ cursor \in 0..Len(feed)
    /\ cache.status \in (Statuses \cup {"none"}) \ Terminal
    /\ \A t \in Tasks : task[t].outcome \in Outcomes

Credited(p) == ledger["refund"][p] + ledger["payout"][p]
TotalCredited == SumFunctionOnSet([p \in Positions |-> Credited(p)], Positions)
TotalStaked == StakesOf(Placed(positions))

\* Every payout ever posted is one of the outcome on file, however the tasks
\* overlap, fail and repeat each other (applySettlement reads the row back).
OneOutcome ==
    \A p \in Positions : ledger["payout"][p] > 0 =>
        settlement = IF p \in Backers THEN "claim_won" ELSE "claim_lost"

\* A market never credits more than was staked on it (settlement.ts: "payouts
\* can never exceed escrow"): with stakes made before kickoff whatever overlaps,
\* with in-play ones as long as no two tasks do.
EscrowCoversCredits ==
    ~overlapped \/ (\A p \in Positions : ~positions[p].inPlay) => TotalCredited <= TotalStaked

\* Behind the applied marker nobody is left unpaid: the credits are the stakes
\* but for the rounding of at most a lamport for each position.
AppliedPaysEveryone ==
    applied /\ ~overlapped => TotalCredited + Cardinality(Placed(positions)) >= TotalStaked

\* Failures and restarts never reopen a closed market while tasks do not overlap
\* (updateMarketStatus has no guard of its own).
TerminalStatusIsFinal == [][(market \in Terminal) /\ ~overlapped' => (market' \in Terminal)]_vars

\* A recorded outcome is paid in the end, whatever failed on the way (the sweeper).
SettledIsPaid == settlement # NoOutcome ~> applied \/ overlapped

\* The header of wager/settlement.ts: the sweeper "re-runs any settled/voided sol
\* market missing the marker, closing the settle() crash window".
ClosedIsPaid == market \in Terminal ~> applied \/ overlapped

\* A match that is over settles the markets people have staked on, when nothing
\* fails: each event is reduced once (settler.ts, onEvent) or reconciled.
FinishedIsSettled ==
    Finished /\ Placed(positions) # {} ~> settlement # NoOutcome \/ overlapped \/ faults > 0

\* Every task is a loop or a cron job that is called again and again; the match
\* goes on and time passes.
Fairness ==
    /\ WF_engineVars(PublishNext) /\ WF_engineVars(PassTime)
    /\ WF_engineVars(Refresh) /\ WF_engineVars(StreamTask) /\ WF_engineVars(ReconcilerTask)
    /\ \A t \in Ticks : WF_engineVars(TickTask(t))
    /\ \A t \in Voiders : WF_engineVars(VoiderTask(t))
    /\ \A t \in Sweepers : WF_engineVars(SweeperTask(t))

FairLoopSpec == LoopSpec /\ Fairness
=============================================================================
