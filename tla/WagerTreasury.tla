--------------------------- MODULE WagerTreasury ---------------------------
(***************************************************************************)
(* Money in and out of the custodial treasury (apps/engine/src/wager): the *)
(* deposit watcher, which credits finalized transfers, and the withdrawal  *)
(* outbox, the only code that sends from the treasury.  Both are cron jobs *)
(* of one process, whose locks live in memory; every await is a step.      *)
(*                                                                         *)
(* One user with one wallet, one asset, one withdrawal.  Signatures of the *)
(* treasury's history are numbered from the oldest.  The RPC answers with  *)
(* the chain as it is, or fails.  The chain may switch to another fork     *)
(* above its finalized height: what was executed there, with or without    *)
(* success, is then executed otherwise or not at all, while the outbox     *)
(* takes a failure for final at any commitment.                            *)
(***************************************************************************)
EXTENDS Integers, Sequences, FiniteSetsExt, Functions

CONSTANTS
    Sigs,        \* bound: signatures that touch the treasury
    Transfers,   \* incoming transfers, oldest first: [sig, amount]
    MinDeposit,  \* smaller ones are stored, never credited
    Amount,      \* what the user withdraws
    Window,      \* blocks a signed transfer stays valid
    FinalityLag, \* blocks by which the finalized height trails the tip
    MaxTxs,      \* bound: transfers signed for the withdrawal
    MaxFaults    \* bound: crashes, failed calls, lost broadcasts and forks

ASSUME TreasuryAssumption ==
    /\ Transfers \in Seq([sig : 1..Sigs, amount : Nat])
    /\ \A i, j \in DOMAIN Transfers : i < j => Transfers[i].sig <= Transfers[j].sig
    /\ {Sigs, MinDeposit, Amount, Window, FinalityLag, MaxFaults} \subseteq Nat
    /\ MaxTxs \in Nat \ {0}

VARIABLES
    history,    \* finalized signatures
    linked,     \* wager_wallet_links: the sender's wallet is linked
    deposits,   \* wager_deposits: transfers on file
    credits,    \* wager_ledger_entries of kind deposit, by transfer
    attributed, \* deposits with credited_at
    cursor,     \* the watcher's stream cursor
    watcher,    \* where DepositWatcher.tick is
    tip,        \* height of the chain
    txs,        \* the transfers signed for the withdrawal
    row,        \* wager_withdrawals; its debit is posted with it
    refunds,    \* wager_ledger_entries of kind withdrawal_refund
    outbox,     \* where the outbox tick is
    slips,      \* history: how often the chain belied what the outbox acts on
    faults      \* what went wrong so far

depositVars == <<history, linked, deposits, credits, attributed, cursor, watcher>>
withdrawalVars == <<tip, txs, row, refunds, outbox, slips>>
vars == <<depositVars, withdrawalVars, faults>>

Indexes == DOMAIN Transfers
NoTx == 0
Off == [at |-> "off", upTo |-> 0, i |-> 0]
Resting == [at |-> "off", tx |-> NoTx, lastValid |-> 0]

TreasuryInit ==
    /\ history = 0 /\ linked = FALSE /\ deposits = {} /\ attributed = {}
    /\ credits = [i \in Indexes |-> 0]
    /\ cursor = 0 /\ watcher = Off
    /\ tip = 0 /\ txs = <<>> /\ row = [state |-> "none", tx |-> NoTx, valid |-> TRUE] /\ refunds = 0
    /\ outbox = Resting /\ slips = 0 /\ faults = 0

AmountOf(i) == Transfers[i].amount
Received ==
    SumFunctionOnSet([i \in Indexes |-> AmountOf(i)], {i \in Indexes : Transfers[i].sig <= history})
Paid == {t \in DOMAIN txs : txs[t].state \in {"processed", "confirmed"}}
PaidForGood == {t \in DOMAIN txs : txs[t].state = "confirmed"}

\* balanceLamports and totalLedgerLamports: the sum of the entries.
Balance ==
    SumFunctionOnSet([i \in Indexes |-> credits[i] * AmountOf(i)], Indexes)
    + Amount * (refunds - (IF row.state = "none" THEN 0 ELSE 1))

Trouble == faults < MaxFaults /\ faults' = faults + 1

-----------------------------------------------------------------------------
(* DepositWatcher.tick. *)

FinalizeSignature ==
    /\ history < Sigs /\ history' = history + 1
    /\ UNCHANGED <<linked, deposits, credits, attributed, cursor, watcher, withdrawalVars, faults>>

LinkWallet ==
    /\ ~linked /\ linked' = TRUE
    /\ UNCHANGED <<history, deposits, credits, attributed, cursor, watcher, withdrawalVars, faults>>

\* Transfers of the scan after the given one.
Ahead(w, i) == {j \in Indexes : j > i /\ Transfers[j].sig > cursor /\ Transfers[j].sig <= w.upTo}

OnTo(w, todo) ==
    watcher' = IF todo = {} THEN [w EXCEPT !.at = "newest"]
               ELSE [w EXCEPT !.at = "store", !.i = Min(todo)]

\* fetchIncomingTransfers: everything newer than the cursor, oldest first.
Scan ==
    /\ watcher = Off /\ history > cursor
    /\ LET w == [Off EXCEPT !.upTo = history] IN OnTo(w, Ahead(w, 0))
    /\ UNCHANGED <<history, linked, deposits, credits, attributed, cursor, withdrawalVars, faults>>

\* Mutation: the cursor moves on with the first transfer of a signature.
AfterFirstTransfer(w) == watcher' = [w EXCEPT !.at = "cursor"]

\* The cursor moves only when every transfer of the signature is on file.
AfterTransfer(w) ==
    LET more == {j \in Ahead(w, w.i) : Transfers[j].sig = Transfers[w.i].sig}
    IN  IF more = {} THEN watcher' = [w EXCEPT !.at = "cursor"] ELSE OnTo(w, more)

\* Mutation: a transfer that is on file already is passed over.
UpsertNewOnly ==
    /\ watcher.at = "store"
    /\ deposits' = deposits \cup {watcher.i}
    /\ IF AmountOf(watcher.i) < MinDeposit \/ watcher.i \in deposits THEN AfterTransfer(watcher)
       ELSE watcher' = [watcher EXCEPT !.at = "link"]
    /\ UNCHANGED <<history, linked, credits, attributed, cursor, withdrawalVars, faults>>

\* processTransfer: stored first, so that a crash leaves a row to go on from.
upsertDeposit ==
    /\ watcher.at = "store"
    /\ deposits' = deposits \cup {watcher.i}
    /\ IF AmountOf(watcher.i) < MinDeposit THEN AfterTransfer(watcher)
       ELSE watcher' = [watcher EXCEPT !.at = "link"]
    /\ UNCHANGED <<history, linked, credits, attributed, cursor, withdrawalVars, faults>>

\* A transfer from nobody we know is left to the operators, for good.
getWalletLink ==
    /\ watcher.at = "link"
    /\ IF linked THEN watcher' = [watcher EXCEPT !.at = "credit"] ELSE AfterTransfer(watcher)
    /\ UNCHANGED <<history, linked, deposits, credits, attributed, cursor, withdrawalVars, faults>>

\* Mutation: no idempotency key.
CreditAgain ==
    /\ watcher.at = "credit"
    /\ credits' = [credits EXCEPT ![watcher.i] = @ + 1]
    /\ watcher' = [watcher EXCEPT !.at = "mark"]
    /\ UNCHANGED <<history, linked, deposits, attributed, cursor, withdrawalVars, faults>>

\* postWagerLedger under the key of the transfer.
creditTransfer ==
    /\ watcher.at = "credit"
    /\ credits' = [credits EXCEPT ![watcher.i] = 1]
    /\ watcher' = [watcher EXCEPT !.at = "mark"]
    /\ UNCHANGED <<history, linked, deposits, attributed, cursor, withdrawalVars, faults>>

markDepositCredited ==
    /\ watcher.at = "mark"
    /\ attributed' = attributed \cup {watcher.i}
    /\ AfterTransfer(watcher)
    /\ UNCHANGED <<history, linked, deposits, credits, cursor, withdrawalVars, faults>>

setCursor ==
    /\ watcher.at = "cursor"
    /\ cursor' = Transfers[watcher.i].sig
    /\ OnTo(watcher, {j \in Ahead(watcher, watcher.i) : Transfers[j].sig > Transfers[watcher.i].sig})
    /\ UNCHANGED <<history, linked, deposits, credits, attributed, withdrawalVars, faults>>

\* Trailing signatures without a transfer are never scanned again.
setCursorToNewest ==
    /\ watcher.at = "newest"
    /\ cursor' = watcher.upTo /\ watcher' = Off
    /\ UNCHANGED <<history, linked, deposits, credits, attributed, withdrawalVars, faults>>

WatcherStep ==
    \/ Scan \/ upsertDeposit \/ getWalletLink \/ creditTransfer \/ markDepositCredited
    \/ setCursor \/ setCursorToNewest

\* Any call fails: the tick ends.
WatcherFails ==
    /\ Trouble /\ watcher # Off /\ watcher' = Off
    /\ UNCHANGED <<history, linked, deposits, credits, attributed, cursor, withdrawalVars>>

-----------------------------------------------------------------------------
(* The chain, as far as the withdrawal is concerned. *)

Finalized == tip - FinalityLag

\* Bound: the window of the last transfer that may be signed never closes; the
\* others are followed until the outbox sees that they have expired.
Horizon ==
    txs[Len(txs)].lastValid + (IF Len(txs) = MaxTxs THEN 0 ELSE FinalityLag + 1)

\* The finalized height passes the end of a window while the outbox, which has
\* read that the transfer is absent, is about to ask for that height.
ClosesBetweenReads == outbox.at = "expiry" /\ Finalized = txs[outbox.tx].lastValid

NextBlock ==
    /\ txs # <<>> /\ tip < Horizon
    /\ tip' = tip + 1
    /\ slips' = IF ClosesBetweenReads THEN slips + 1 ELSE slips
    /\ UNCHANGED <<depositVars, txs, row, refunds, outbox, faults>>

\* A transfer that was sent is executed while its window is open.
Land(t, state) ==
    /\ txs[t].state = "sent" /\ tip <= txs[t].lastValid
    /\ txs' = [txs EXCEPT ![t].state = state]
    /\ UNCHANGED <<depositVars, tip, row, refunds, outbox, slips, faults>>

\* What was executed is confirmed, a payment or a failure.
Confirm(t) ==
    /\ txs[t].state \in {"processed", "failed"}
    /\ txs' = [txs EXCEPT ![t].state = IF @ = "failed" THEN "rejected" ELSE "confirmed"]
    /\ UNCHANGED <<depositVars, tip, row, refunds, outbox, slips, faults>>

\* The outbox refunds, or has refunded, on what it read of the transfer.
Committed == refunds = 1 \/ outbox.at \in {"refund", "fail"}

\* Above the finalized height the chain switches to another fork, on which the
\* transfer was executed otherwise or not at all.
Fork(t, state) ==
    /\ Trouble /\ txs[t].state \in {"sent", "processed", "failed"} \ {state}
    /\ Finalized < txs[t].lastValid
    /\ txs' = [txs EXCEPT ![t].state = state]
    /\ slips' = IF txs[t].state = "failed" /\ Committed /\ t = Len(txs) THEN slips + 1 ELSE slips
    /\ UNCHANGED <<depositVars, tip, row, refunds, outbox>>

-----------------------------------------------------------------------------
(* The withdrawal: /withdraw, then the ticks of the outbox. *)

\* Mutation: the balance is not checked again in the transaction.
RequestUnchecked ==
    /\ row.state = "none" /\ linked
    /\ \E valid \in BOOLEAN : row' = [row EXCEPT !.state = "debited", !.valid = valid]
    /\ UNCHANGED <<depositVars, tip, txs, refunds, outbox, slips, faults>>

\* wager_request_withdrawal checks the balance, inserts the row and debits it
\* in one transaction.  The linked destination may turn out not to be payable.
requestWithdrawal ==
    /\ row.state = "none" /\ linked /\ Balance >= Amount
    /\ \E valid \in BOOLEAN : row' = [row EXCEPT !.state = "debited", !.valid = valid]
    /\ UNCHANGED <<depositVars, tip, txs, refunds, outbox, slips, faults>>

Rest == outbox' = Resting
OutboxGo(at) == outbox' = [outbox EXCEPT !.at = at]

StartTick ==
    /\ outbox = Resting /\ row.state \in {"debited", "submitted"}
    /\ outbox' = [Resting EXCEPT !.at = IF row.state = "debited" THEN "build" ELSE "status",
                                 !.tx = row.tx]
    /\ UNCHANGED <<depositVars, tip, txs, row, refunds, slips, faults>>

\* buildTransfer: signed with a fresh blockhash, or refused for good because
\* of the destination.
BuildTransfer ==
    /\ outbox.at = "build" /\ row.valid /\ Len(txs) < MaxTxs
    /\ outbox' = [outbox EXCEPT !.at = "persist", !.lastValid = tip + Window]
    /\ UNCHANGED <<depositVars, tip, txs, row, refunds, slips, faults>>

BuildImpossible ==
    /\ outbox.at = "build" /\ ~row.valid
    /\ OutboxGo("refund")
    /\ UNCHANGED <<depositVars, tip, txs, row, refunds, slips, faults>>

RESIGNABLE_WITHDRAWAL_STATES == {"debited", "submitted"}

\* markWithdrawalSubmitted, before the first broadcast: until then the bytes
\* exist in memory only.  The update cannot miss, nobody else ends the row.
markWithdrawalSubmitted ==
    /\ outbox.at = "persist" /\ row.state \in RESIGNABLE_WITHDRAWAL_STATES
    /\ txs' = Append(txs, [lastValid |-> outbox.lastValid, state |-> "signed"])
    /\ row' = [row EXCEPT !.state = "submitted", !.tx = Len(txs')]
    /\ outbox' = [outbox EXCEPT !.at = "broadcast", !.tx = Len(txs')]
    /\ UNCHANGED <<depositVars, tip, refunds, slips, faults>>

\* The bytes reach the chain, with or without an answer.
broadcastRawTx ==
    /\ outbox.at = "broadcast"
    /\ txs' = [txs EXCEPT ![outbox.tx].state = IF @ = "signed" THEN "sent" ELSE @]
    /\ Rest
    /\ UNCHANGED <<depositVars, tip, row, refunds, slips, faults>>

\* getSigStatus with the full history: failed, paid, still confirming, absent.
getSigStatus ==
    /\ outbox.at = "status"
    /\ outbox' = CASE txs[outbox.tx].state \in {"failed", "rejected"} -> [outbox EXCEPT !.at = "refund"]
                   [] txs[outbox.tx].state = "confirmed" -> [outbox EXCEPT !.at = "confirm"]
                   [] txs[outbox.tx].state = "processed" -> Resting
                   [] OTHER -> [outbox EXCEPT !.at = "expiry"]
    /\ UNCHANGED <<depositVars, tip, txs, row, refunds, slips, faults>>

\* Mutation: expiry is judged by the tip of the chain.
ExpiredAtTip(t) == tip > txs[t].lastValid

Expired(t) == Finalized > txs[t].lastValid

\* Mutation: the same bytes are sent for ever.
NeverSignAgain ==
    /\ outbox.at = "expiry" /\ OutboxGo("broadcast")
    /\ UNCHANGED <<depositVars, tip, txs, row, refunds, slips, faults>>

\* isBlockheightExceeded: only a closed window makes a fresh signature safe;
\* until then the same bytes are sent again.
isBlockheightExceeded ==
    /\ outbox.at = "expiry"
    /\ OutboxGo(IF Expired(outbox.tx) THEN "build" ELSE "broadcast")
    /\ UNCHANGED <<depositVars, tip, txs, row, refunds, slips, faults>>

\* refundAndFail: the credit first, under the key of the withdrawal.
postRefund ==
    /\ outbox.at = "refund"
    /\ refunds' = 1 /\ OutboxGo("fail")
    /\ UNCHANGED <<depositVars, tip, txs, row, slips, faults>>

markWithdrawalFailed ==
    /\ outbox.at = "fail" /\ row.state \in RESIGNABLE_WITHDRAWAL_STATES
    /\ row' = [row EXCEPT !.state = "failed"]
    /\ Rest
    /\ UNCHANGED <<depositVars, tip, txs, refunds, slips, faults>>

markWithdrawalConfirmed ==
    /\ outbox.at = "confirm" /\ row.state = "submitted"
    /\ row' = [row EXCEPT !.state = "confirmed"]
    /\ Rest
    /\ UNCHANGED <<depositVars, tip, txs, refunds, slips, faults>>

OutboxStep ==
    \/ StartTick \/ BuildTransfer \/ BuildImpossible \/ markWithdrawalSubmitted \/ broadcastRawTx
    \/ getSigStatus \/ isBlockheightExceeded \/ postRefund \/ markWithdrawalFailed
    \/ markWithdrawalConfirmed

\* Any call fails, a broadcast included: the row stays as it is for the next tick.
OutboxFails ==
    /\ Trouble /\ outbox # Resting /\ Rest
    /\ UNCHANGED <<depositVars, tip, txs, row, refunds, slips>>

\* The process dies; its locks die with it.
Crash ==
    /\ Trouble /\ watcher' = Off /\ Rest
    /\ UNCHANGED <<history, linked, deposits, credits, attributed, cursor, tip, txs, row, refunds, slips>>

-----------------------------------------------------------------------------
Landing == \E t \in DOMAIN txs : Confirm(t) \/ \E state \in {"processed", "failed"} : Land(t, state)

TreasuryNext ==
    \/ FinalizeSignature \/ LinkWallet \/ WatcherStep \/ WatcherFails
    \/ NextBlock \/ Landing
    \/ \E t \in DOMAIN txs, state \in {"sent", "processed", "failed"} : Fork(t, state)
    \/ requestWithdrawal \/ OutboxStep \/ OutboxFails \/ Crash

TreasurySpec == TreasuryInit /\ [][TreasuryNext]_vars

\* The cron jobs tick, blocks are produced, and what was sent is executed while
\* it can be.
TreasuryFairness ==
    WF_vars(WatcherStep) /\ WF_vars(OutboxStep) /\ WF_vars(NextBlock) /\ WF_vars(Landing)

FairTreasurySpec == TreasurySpec /\ TreasuryFairness

-----------------------------------------------------------------------------
(* Properties. *)

\* Rows and ticks keep their types; a submitted row always has its bytes.
TreasuryTypeOK ==
    /\ deposits \subseteq Indexes /\ attributed \subseteq deposits
    /\ credits \in [Indexes -> Nat] /\ refunds \in Nat
    /\ cursor \in 0..history /\ watcher.upTo \in 0..history
    /\ row.state \in {"none", "debited", "submitted", "confirmed", "failed"}
    /\ row.tx \in 0..Len(txs) /\ (row.state = "submitted" => row.tx # NoTx)
    /\ Balance >= 0

\* The treasury holds at least what the ledger owes (solvency.ts), whatever is
\* credited again, sent again or refunded after a failure, but for one
\* withdrawal for each time the chain belied what the outbox acts on.
TreasuryCoversLedger ==
    Received - Amount * Cardinality(Paid) >= Balance - Amount * slips

\* Whatever the watcher will never scan again is on file (deposits.ts: "the
\* cursor only advances after every instruction of a signature is persisted").
CursorLeavesNothingBehind ==
    \A i \in Indexes : Transfers[i].sig <= cursor => i \in deposits

Promise == INSTANCE WithdrawalPromise WITH
    paid     <- Cardinality(PaidForGood),
    refunded <- refunds,
    outcome  <- IF row.state \in {"confirmed", "failed"} THEN row.state ELSE "open"

\* The outbox keeps the promise of WithdrawalPromise through crashes, lost
\* answers, forks and expiry: it never pays twice, nor pays and refunds, unless a
\* window closes between its two reads or a fork undoes a failure it refunds on.
PaidOrRefunded == Promise!PromiseSpec

\* Every withdrawal ends: paid, or refunded.
WithdrawalEnds == row.state = "debited" ~> row.state \in {"confirmed", "failed"}

\* A creditable transfer that is new to the watcher when the wallet is linked
\* reaches the balance.
DepositIsCredited ==
    \A i \in Indexes :
        (linked /\ AmountOf(i) >= MinDeposit /\ Transfers[i].sig <= history /\ i \notin deposits)
        ~> credits[i] > 0

=============================================================================
