---------------------------- MODULE Treasury_proofs ----------------------------
(***************************************************************************)
(* Theorems about WagerTreasury for every list of transfers, every amount, *)
(* window, number of signed transfers and faults: its types, that the      *)
(* cursor leaves nothing behind, that the treasury covers the ledger and   *)
(* that a withdrawal implements WithdrawalPromise.                         *)
(***************************************************************************)
EXTENDS WagerTreasury, FiniteSums

SigOf(i) == Transfers[i].sig

-----------------------------------------------------------------------------
(* The inductive invariant *)

TxStates == {"signed", "sent", "processed", "confirmed", "failed", "rejected"}
WatcherSteps == {"off", "store", "link", "credit", "mark", "cursor", "newest"}
OutboxSteps == {"off", "build", "persist", "broadcast", "status", "expiry", "refund", "fail", "confirm"}

TxRecords == [lastValid : Nat, state : TxStates]
RowRecords == [state : {"none", "debited", "submitted", "confirmed", "failed"}, tx : Nat, valid : BOOLEAN]
OutboxRecords == [at : OutboxSteps, tx : Nat, lastValid : Nat]

DepositTypes ==
    /\ history \in Nat /\ linked \in BOOLEAN /\ cursor \in Nat /\ cursor <= history
    /\ deposits \subseteq Indexes /\ attributed \subseteq deposits
    /\ credits \in [Indexes -> {0, 1}]
    /\ watcher \in [at : WatcherSteps, upTo : Nat, i : Nat] /\ watcher.upTo <= history

WithdrawalTypes ==
    /\ tip \in Nat /\ txs \in Seq(TxRecords) /\ row \in RowRecords /\ refunds \in {0, 1}
    /\ outbox \in OutboxRecords /\ slips \in Nat

\* Only finalized transfers are on file, and only those on file are credited.
OnFileIsFinal ==
    /\ \A i \in deposits : SigOf(i) <= history
    /\ \A i \in Indexes : credits[i] = 1 => i \in deposits

\* The transfer the watcher works on is new to the cursor.
InScan ==
    watcher.at \in {"store", "link", "credit", "mark", "cursor"} =>
        /\ watcher.i \in Indexes
        /\ cursor < SigOf(watcher.i) /\ SigOf(watcher.i) <= watcher.upTo

\* What the watcher has passed is on file.
PassedIsOnFile ==
    /\ watcher.at = "store" => \A j \in Indexes : j < watcher.i => j \in deposits
    /\ watcher.at \in {"link", "credit", "mark"} => \A j \in Indexes : j <= watcher.i => j \in deposits
    /\ watcher.at = "cursor" => \A j \in Indexes : SigOf(j) <= SigOf(watcher.i) => j \in deposits
    /\ watcher.at = "newest" => \A j \in Indexes : SigOf(j) <= watcher.upTo => j \in deposits

\* A deposit is credited while its row is on file.
Credited == SumFunctionOnSet([i \in Indexes |-> credits[i] * AmountOf(i)], Indexes)

\* The debit was covered when it was posted, and credits are never taken back.
DebitIsCovered == row.state # "none" => Credited >= Amount

\* The row and the outbox agree on where the withdrawal is.
RowIsCurrent ==
    /\ row.tx = Len(txs)
    /\ row.state \in {"none", "debited"} => txs = <<>>
    /\ row.state = "submitted" => txs # <<>>
    /\ ~row.valid => txs = <<>>
    /\ row.state \in {"none", "confirmed", "failed"} => outbox.at = "off"
    /\ outbox.at \in {"status", "expiry", "confirm", "broadcast"} =>
          outbox.tx = row.tx /\ row.state = "submitted"
    /\ outbox.at = "persist" => row.valid
    /\ row.state = "none" => refunds = 0

\* The transfer on the row failed, or none could ever be signed.
Refundable ==
    (~row.valid /\ txs = <<>>) \/ (txs # <<>> /\ txs[Len(txs)].state \in {"failed", "rejected"})

RefundIsDue ==
    /\ Committed => txs # <<>> \/ ~row.valid
    /\ outbox.at = "fail" \/ row.state = "failed" => refunds = 1
    /\ outbox.at = "confirm" \/ row.state = "confirmed" => txs # <<>> /\ txs[Len(txs)].state = "confirmed"

\* The transfer will never be executed: its failure is confirmed, or no block of
\* its window can change any more.
DeadTransfer(t) ==
    \/ txs[t].state = "rejected"
    \/ txs[t].state \in {"signed", "sent", "failed"} /\ Finalized > txs[t].lastValid

Live == {t \in DOMAIN txs : ~DeadTransfer(t)}
Older == {t \in Live : t # Len(txs)}

\* One if the outbox refunds, or has refunded, on a failure that is one no more.
Belied == IF Committed /\ ~Refundable THEN 1 ELSE 0

\* Another transfer is about to be signed, or will be once the height is read.
MustBeDead ==
    \/ row.valid /\ outbox.at \in {"build", "persist"}
    \/ outbox.at = "expiry" /\ Finalized > txs[Len(txs)].lastValid

\* Whatever can still be paid beside the transfer on the row, or beside a refund,
\* the chain has belied an answer for.
ExtraIsBelied ==
    /\ Cardinality(Older) + Belied <= slips
    /\ MustBeDead => Cardinality(Live) + refunds <= slips

DInv == DepositTypes /\ OnFileIsFinal /\ InScan /\ PassedIsOnFile /\ CursorLeavesNothingBehind
WInv == WithdrawalTypes /\ RowIsCurrent /\ RefundIsDue /\ ExtraIsBelied
IInv == DInv /\ WInv /\ DebitIsCovered

LEMMA Constants ==
    /\ Indexes = 1..Len(Transfers) /\ IsFiniteSet(Indexes) /\ Indexes \subseteq Nat
    /\ \A i \in Indexes : i \in Nat /\ i >= 1 /\ SigOf(i) \in Nat /\ SigOf(i) >= 1 /\ AmountOf(i) \in Nat
    /\ \A i, j \in Indexes : i < j => SigOf(i) <= SigOf(j)
    /\ Sigs \in Nat /\ Amount \in Nat /\ Window \in Nat /\ FinalityLag \in Nat
    /\ MaxTxs \in Nat /\ MaxTxs >= 1 /\ MaxFaults \in Nat
<1>1. Transfers \in Seq([sig : 1..Sigs, amount : Nat]) /\ Sigs \in Nat
  BY TreasuryAssumption
<1>2. Indexes = 1..Len(Transfers) /\ Len(Transfers) \in Nat
  BY <1>1 DEF Indexes
<1>3. IsFiniteSet(Indexes)
  BY <1>2, FS_Interval
<1>4. \A i \in Indexes : Transfers[i] \in [sig : 1..Sigs, amount : Nat]
  <2> DEFINE R == [sig : 1..Sigs, amount : Nat]
  <2>1. Transfers \in Seq(R)
    BY <1>1
  <2> HIDE DEF R
  <2>2. \A i \in Indexes : Transfers[i] \in R
    BY <2>1, <1>2
  <2> QED
    BY <2>2 DEF R
<1>5. \A i \in Indexes : i \in Nat /\ i >= 1 /\ SigOf(i) \in Nat /\ SigOf(i) >= 1 /\ AmountOf(i) \in Nat
  BY <1>1, <1>2, <1>4 DEF SigOf, AmountOf
<1>6. \A i, j \in Indexes : i < j => SigOf(i) <= SigOf(j)
  BY TreasuryAssumption DEF SigOf, Indexes
<1> QED
  BY <1>2, <1>3, <1>5, <1>6, TreasuryAssumption

LEMMA InitIInv == TreasuryInit => IInv
<1> SUFFICES ASSUME TreasuryInit PROVE IInv
  OBVIOUS
<1>1. DepositTypes
  <2>1. linked \in BOOLEAN
    BY DEF TreasuryInit
  <2>2. watcher \in [at : WatcherSteps, upTo : Nat, i : Nat] /\ watcher.upTo = 0
    BY DEF TreasuryInit, Off, WatcherSteps
  <2> QED
    BY <2>1, <2>2 DEF TreasuryInit, DepositTypes
<1>2. OnFileIsFinal /\ InScan /\ PassedIsOnFile
  BY DEF TreasuryInit, OnFileIsFinal, InScan, PassedIsOnFile, Off
<1>3. CursorLeavesNothingBehind
  <2>1. \A i \in Indexes : Transfers[i].sig >= 1 /\ Transfers[i].sig \in Nat
    BY Constants DEF SigOf
  <2> QED
    BY <2>1 DEF TreasuryInit, CursorLeavesNothingBehind
<1>4. WithdrawalTypes
  <2>1. row \in RowRecords
    BY DEF TreasuryInit, RowRecords, NoTx
  <2>2. outbox \in OutboxRecords
    BY DEF TreasuryInit, OutboxRecords, OutboxSteps, Resting, NoTx
  <2> QED
    BY <2>1, <2>2 DEF TreasuryInit, WithdrawalTypes
<1>5. RowIsCurrent /\ RefundIsDue /\ DebitIsCovered
  BY DEF TreasuryInit, RowIsCurrent, RefundIsDue, Committed, DebitIsCovered, Resting, NoTx
<1>6. ExtraIsBelied
  <2>1. Older = {} /\ Cardinality(Older) = 0
    BY FS_EmptySet DEF TreasuryInit, Older, Live
  <2>2. ~Committed /\ outbox.at = "off" /\ slips = 0
    BY DEF TreasuryInit, Committed, Resting
  <2> QED
    BY <2>1, <2>2 DEF ExtraIsBelied, Belied, MustBeDead
<1> QED
  BY <1>1, <1>2, <1>3, <1>4, <1>5, <1>6 DEF IInv, DInv, WInv

-----------------------------------------------------------------------------
(* The deposit watcher *)

WatcherRecords == [at : WatcherSteps, upTo : Nat, i : Nat]

\* Where OnTo sends the watcher.
LEMMA OnToFacts ==
    ASSUME NEW w \in WatcherRecords, NEW todo, todo \subseteq Indexes, OnTo(w, todo)
    PROVE  /\ watcher' \in WatcherRecords /\ watcher'.upTo = w.upTo
           /\ \/ todo = {} /\ watcher'.at = "newest"
              \/ /\ watcher'.at = "store" /\ watcher'.i \in todo
                 /\ \A j \in todo : watcher'.i <= j
<1>1. CASE todo = {}
  BY <1>1 DEF OnTo, WatcherRecords, WatcherSteps
<1>2. CASE todo # {}
  <2>1. todo \subseteq Nat
    BY Constants
  <2>2. \E m \in todo : \A j \in todo : m <= j
    BY <1>2, <2>1, LeastNatural
  <2>3. Min(todo) \in todo /\ \A j \in todo : Min(todo) <= j
    BY <2>2 DEF Min
  <2>4. watcher' = [w EXCEPT !.at = "store", !.i = Min(todo)]
    BY <1>2 DEF OnTo
  <2> QED
    BY <2>1, <2>3, <2>4 DEF WatcherRecords, WatcherSteps
<1> QED
  BY <1>1, <1>2

\* The parts of the invariant that speak of the watcher's position.
Position == watcher \in WatcherRecords /\ watcher.upTo <= history /\ InScan /\ PassedIsOnFile

\* A transfer that is on file with all before it: the watcher goes on to the next
\* one of the signature, or to the cursor.
LEMMA AfterTransferStep ==
    ASSUME DInv, watcher.at \in {"store", "link", "mark"}, AfterTransfer(watcher),
           UNCHANGED <<history, cursor>>,
           \A j \in Indexes : j <= watcher.i => j \in deposits'
    PROVE  Position'
<1> USE Constants
<1>0. watcher \in WatcherRecords /\ watcher.upTo <= history /\ cursor \in Nat
  BY DEF DInv, DepositTypes, WatcherRecords
<1> DEFINE i == watcher.i
           more == {j \in Ahead(watcher, i) : Transfers[j].sig = Transfers[i].sig}
<1>1. i \in Indexes /\ cursor < SigOf(i) /\ SigOf(i) <= watcher.upTo
  BY DEF DInv, InScan
<1>2. \A j : j \in more <=> j \in Indexes /\ j > i /\ SigOf(j) = SigOf(i)
  BY <1>0, <1>1 DEF Ahead, SigOf
<1>3. CASE more = {}
  <2>1. watcher' = [watcher EXCEPT !.at = "cursor"]
    BY <1>3 DEF AfterTransfer
  <2>2. watcher' \in WatcherRecords /\ watcher'.at = "cursor" /\ watcher'.i = i
        /\ watcher'.upTo = watcher.upTo
    BY <1>0, <2>1 DEF WatcherRecords, WatcherSteps
  <2>3. \A j \in Indexes : SigOf(j) <= SigOf(i) => j <= i
    BY <1>1, <1>2, <1>3, SMTT(30)
  <2> QED
    BY <1>0, <1>1, <2>2, <2>3 DEF Position, InScan, PassedIsOnFile
<1>4. CASE more # {}
  <2>1. OnTo(watcher, more)
    BY <1>4 DEF AfterTransfer
  <2>2. more \subseteq Indexes
    BY <1>2
  <2> HIDE DEF more, i
  <2>3. /\ watcher' \in WatcherRecords /\ watcher'.upTo = watcher.upTo
        /\ watcher'.at = "store" /\ watcher'.i \in more /\ \A j \in more : watcher'.i <= j
    BY <1>0, <1>4, <2>1, <2>2, OnToFacts
  <2>4. \A j \in Indexes : j < watcher'.i => j <= i
    <3> SUFFICES ASSUME NEW j \in Indexes, j < watcher'.i, ~(j <= i) PROVE FALSE
      OBVIOUS
    <3>1. watcher'.i \in Indexes /\ SigOf(watcher'.i) = SigOf(i) /\ i \in Indexes
      BY <1>1, <1>2, <2>3
    <3>2. SigOf(i) <= SigOf(j) /\ SigOf(j) <= SigOf(watcher'.i)
      BY <3>1
    <3>3. SigOf(j) = SigOf(i)
      BY <3>1, <3>2
    <3>4. j \in more
      BY <1>2, <3>1, <3>3
    <3>5. watcher'.i <= j
      BY <2>3, <3>4
    <3> QED
      BY <3>1, <3>5
  <2>5. watcher'.i \in Indexes /\ SigOf(watcher'.i) = SigOf(i)
    BY <1>2, <2>3
  <2>6. InScan'
    BY <1>1, <2>3, <2>5 DEF InScan
  <2>7. PassedIsOnFile'
    BY <2>3, <2>4 DEF PassedIsOnFile, i
  <2> QED
    BY <1>0, <2>3, <2>6, <2>7 DEF Position
<1> QED
  BY <1>3, <1>4

\* What a step must keep beside the watcher's position.
LEMMA DepositStep ==
    ASSUME DInv, Position', history' = history, linked' \in BOOLEAN, cursor' = cursor,
           deposits' = deposits \/ (deposits' = deposits \cup {watcher.i} /\ watcher.at = "store"),
           attributed' = attributed \/ (attributed' = attributed \cup {watcher.i} /\ watcher.at = "mark"),
           credits' = credits \/ (credits' = [credits EXCEPT ![watcher.i] = 1] /\ watcher.at = "credit")
    PROVE  DInv'
<1> USE Constants
<1>0. /\ watcher \in WatcherRecords /\ watcher.upTo <= history /\ cursor \in Nat /\ history \in Nat
      /\ deposits \subseteq Indexes /\ attributed \subseteq deposits /\ credits \in [Indexes -> {0, 1}]
      /\ watcher.upTo \in Nat /\ cursor <= history
  BY DEF DInv, DepositTypes, WatcherRecords
<1>1. /\ watcher.at \in {"store", "credit", "mark"} => watcher.i \in Indexes /\ SigOf(watcher.i) <= history
      /\ watcher.at \in {"credit", "mark"} => watcher.i \in deposits
  BY <1>0 DEF DInv, InScan, PassedIsOnFile
<1>2. deposits' \subseteq Indexes /\ deposits \subseteq deposits' /\ attributed' \subseteq deposits'
  BY <1>0, <1>1
<1>3. credits' \in [Indexes -> {0, 1}]
  BY <1>0, <1>1
<1>4. DepositTypes'
  BY <1>0, <1>2, <1>3 DEF DepositTypes, Position, WatcherRecords
<1>5. OnFileIsFinal'
  BY <1>0, <1>1, <1>2, <1>3 DEF DInv, OnFileIsFinal
<1>6. CursorLeavesNothingBehind'
  BY <1>2 DEF DInv, CursorLeavesNothingBehind
<1> QED
  BY <1>4, <1>5, <1>6 DEF DInv, Position

\* The watcher leaves the row of the transfer and goes to another step about it.
LEMMA WithinTransferStep ==
    ASSUME DInv, UNCHANGED <<history, cursor>>, deposits \subseteq deposits',
           NEW at \in {"link", "credit", "mark"}, watcher' = [watcher EXCEPT !.at = at],
           watcher.at \in {"store", "link", "credit"}, watcher.at = "store" => watcher.i \in deposits'
    PROVE  Position'
<1> USE Constants
<1>0. watcher \in WatcherRecords /\ watcher.upTo <= history
  BY DEF DInv, DepositTypes, WatcherRecords
<1>1. /\ watcher' \in WatcherRecords /\ watcher'.at = at /\ watcher'.i = watcher.i
      /\ watcher'.upTo = watcher.upTo
  BY <1>0 DEF WatcherRecords, WatcherSteps
<1>2. watcher.i \in Indexes
  BY DEF DInv, InScan
<1>3. \A j \in Indexes : j <= watcher.i => j \in deposits'
  BY <1>2 DEF DInv, PassedIsOnFile
<1>4. InScan'
  BY <1>0, <1>1 DEF DInv, InScan
<1>5. PassedIsOnFile'
  BY <1>1, <1>3 DEF PassedIsOnFile
<1> QED
  BY <1>0, <1>1, <1>4, <1>5 DEF Position

\* The tick ends, or another history is scanned.
LEMMA WatcherRests == watcher' = Off /\ history' \in Nat => Position'
  BY DEF Off, Position, InScan, PassedIsOnFile, WatcherRecords, WatcherSteps

LEMMA ScanStep ==
    ASSUME DInv, Scan
    PROVE  Position'
<1> USE Constants
<1> DEFINE w == [Off EXCEPT !.upTo = history]
           todo == Ahead(w, 0)
<1>0. cursor \in Nat /\ history \in Nat /\ UNCHANGED <<history, cursor, deposits>>
  BY DEF DInv, DepositTypes, Scan
<1>1. w \in WatcherRecords /\ w.upTo = history
  BY <1>0 DEF Off, WatcherRecords, WatcherSteps
<1>2. OnTo(w, todo)
  BY DEF Scan
<1> HIDE DEF w
<1>3. \A j : j \in todo <=> j \in Indexes /\ SigOf(j) > cursor /\ SigOf(j) <= history
  BY <1>1 DEF Ahead, SigOf
<1>4. todo \subseteq Indexes
  BY <1>3
<1> HIDE DEF todo
<1>5. /\ watcher' \in WatcherRecords /\ watcher'.upTo = history
      /\ \/ todo = {} /\ watcher'.at = "newest"
         \/ watcher'.at = "store" /\ watcher'.i \in todo /\ \A j \in todo : watcher'.i <= j
  BY <1>1, <1>2, <1>4, OnToFacts
<1>6. \A j \in Indexes : SigOf(j) <= cursor => j \in deposits
  BY DEF DInv, CursorLeavesNothingBehind, SigOf
<1>7. CASE todo = {} /\ watcher'.at = "newest"
  <2>1. \A j \in Indexes : SigOf(j) <= history => j \in deposits
    BY <1>0, <1>3, <1>6, <1>7
  <2> QED
    BY <1>0, <1>5, <1>7, <2>1 DEF Position, InScan, PassedIsOnFile
<1>8. CASE watcher'.at = "store" /\ watcher'.i \in todo /\ \A j \in todo : watcher'.i <= j
  <2>1. watcher'.i \in Indexes /\ cursor < SigOf(watcher'.i) /\ SigOf(watcher'.i) <= history
    BY <1>3, <1>8
  <2>2. \A j \in Indexes : j < watcher'.i => j \in deposits
    <3> SUFFICES ASSUME NEW j \in Indexes, j < watcher'.i, j \notin deposits PROVE FALSE
      OBVIOUS
    <3>1. SigOf(j) > cursor
      BY <1>0, <1>6
    <3>2. SigOf(j) <= SigOf(watcher'.i) /\ SigOf(j) \in Nat /\ SigOf(watcher'.i) \in Nat
      BY <2>1
    <3>5. SigOf(j) <= history
      BY <1>0, <2>1, <3>2
    <3>3. j \in todo
      BY <1>3, <3>1, <3>5
    <3>4. watcher'.i <= j /\ watcher'.i \in Nat /\ j \in Nat
      BY <1>8, <2>1, <3>3
    <3> QED
      BY <3>4
  <2>3. InScan'
    BY <1>0, <1>5, <2>1 DEF InScan
  <2>4. PassedIsOnFile'
    BY <1>0, <1>8, <2>2 DEF PassedIsOnFile
  <2> QED
    BY <1>0, <1>5, <2>3, <2>4 DEF Position
<1> QED
  BY <1>5, <1>7, <1>8

\* The cursor moves over one signature, then over the rest of the scan.
LEMMA SetCursorStep ==
    ASSUME DInv, setCursor
    PROVE  DInv'
<1> USE Constants
<1>0. /\ watcher \in WatcherRecords /\ watcher.upTo <= history /\ watcher.upTo \in Nat
      /\ cursor \in Nat /\ history \in Nat
  BY DEF DInv, DepositTypes, WatcherRecords
<1>a. UNCHANGED <<history, linked, deposits, credits, attributed>>
  BY DEF setCursor
<1> DEFINE i == watcher.i
           todo == {j \in Ahead(watcher, i) : Transfers[j].sig > Transfers[i].sig}
<1>1. i \in Indexes /\ cursor < SigOf(i) /\ SigOf(i) <= watcher.upTo
  BY DEF DInv, InScan, setCursor
<1>2. \A j \in Indexes : SigOf(j) <= SigOf(i) => j \in deposits
  BY DEF DInv, PassedIsOnFile, setCursor
<1>3. cursor' = SigOf(i) /\ OnTo(watcher, todo)
  BY DEF setCursor, SigOf
<1>4. \A j : j \in todo <=> j \in Indexes /\ SigOf(j) > SigOf(i) /\ SigOf(j) <= watcher.upTo
  <2> SUFFICES ASSUME NEW j \in Indexes, SigOf(j) > SigOf(i), SigOf(j) <= watcher.upTo
               PROVE  j \in todo
    BY DEF Ahead, SigOf
  <2>1. j > i /\ SigOf(j) > cursor
    BY <1>0, <1>1
  <2> QED
    BY <2>1 DEF Ahead, SigOf
<1>5. todo \subseteq Indexes
  BY <1>4
<1> HIDE DEF todo, i
<1>6. /\ watcher' \in WatcherRecords /\ watcher'.upTo = watcher.upTo
      /\ \/ todo = {} /\ watcher'.at = "newest"
         \/ watcher'.at = "store" /\ watcher'.i \in todo /\ \A j \in todo : watcher'.i <= j
  BY <1>0, <1>3, <1>5, OnToFacts
<1>7. InScan' /\ PassedIsOnFile'
  <2>1. CASE todo = {} /\ watcher'.at = "newest"
    <3>1. ASSUME NEW j \in Indexes, SigOf(j) <= watcher.upTo PROVE j \in deposits
      <4>1. ~(SigOf(j) > SigOf(i))
        BY <1>4, <2>1, <3>1
      <4>2. SigOf(j) \in Nat /\ SigOf(i) \in Nat
        BY <1>1
      <4>3. SigOf(j) <= SigOf(i)
        BY <4>1, <4>2
      <4> QED
        BY <1>2, <4>3
    <3> QED
      BY <1>6, <1>a, <2>1, <3>1 DEF InScan, PassedIsOnFile
  <2>2. CASE watcher'.at = "store" /\ watcher'.i \in todo /\ \A j \in todo : watcher'.i <= j
    <3>1. watcher'.i \in Indexes /\ SigOf(i) < SigOf(watcher'.i) /\ SigOf(watcher'.i) <= watcher.upTo
      BY <1>1, <1>4, <2>2
    <3>2. \A j \in Indexes : j < watcher'.i => j \in deposits
      <4> SUFFICES ASSUME NEW j \in Indexes, j < watcher'.i, j \notin deposits PROVE FALSE
        OBVIOUS
      <4>1. SigOf(j) > SigOf(i)
        BY <1>1, <1>2
      <4>2. SigOf(j) <= SigOf(watcher'.i) /\ SigOf(j) \in Nat /\ SigOf(watcher'.i) \in Nat
        BY <3>1
      <4>3. j \in todo
        BY <1>0, <1>4, <3>1, <4>1, <4>2
      <4>4. watcher'.i <= j /\ watcher'.i \in Nat /\ j \in Nat
        BY <2>2, <3>1, <4>3
      <4> QED
        BY <4>4
    <3> QED
      BY <1>3, <1>6, <1>a, <2>2, <3>1, <3>2 DEF InScan, PassedIsOnFile
  <2> QED
    BY <1>6, <2>1, <2>2
<1>8. cursor' \in Nat /\ cursor' <= history
  BY <1>0, <1>1, <1>3
<1>9. DepositTypes'
  BY <1>0, <1>6, <1>8, <1>a DEF DInv, DepositTypes, WatcherRecords
<1>10. OnFileIsFinal' /\ CursorLeavesNothingBehind'
  BY <1>2, <1>3, <1>a DEF DInv, OnFileIsFinal, CursorLeavesNothingBehind, SigOf
<1> QED
  BY <1>7, <1>9, <1>10 DEF DInv

LEMMA SetCursorToNewestStep ==
    ASSUME DInv, setCursorToNewest
    PROVE  DInv'
<1>0. watcher \in WatcherRecords /\ watcher.upTo <= history /\ watcher.upTo \in Nat /\ history \in Nat
  BY DEF DInv, DepositTypes, WatcherRecords
<1>1. /\ UNCHANGED <<history, linked, deposits, credits, attributed>>
      /\ cursor' = watcher.upTo /\ watcher' = Off
  BY DEF setCursorToNewest
<1>2. Position'
  BY <1>0, <1>1, WatcherRests
<1>3. DepositTypes'
  BY <1>0, <1>1, <1>2 DEF DInv, DepositTypes, Position, WatcherRecords
<1>4. OnFileIsFinal' /\ CursorLeavesNothingBehind'
  BY <1>1 DEF DInv, OnFileIsFinal, CursorLeavesNothingBehind, PassedIsOnFile, setCursorToNewest, SigOf
<1> QED
  BY <1>2, <1>3, <1>4 DEF DInv, Position

LEMMA FinalizeStep ==
    ASSUME DInv, FinalizeSignature
    PROVE  DInv'
<1> USE Constants
<1>1. /\ history' = history + 1
      /\ UNCHANGED <<linked, deposits, credits, attributed, cursor, watcher>>
  BY DEF FinalizeSignature
<1>2. /\ history \in Nat /\ cursor \in Nat /\ cursor <= history /\ watcher \in WatcherRecords
      /\ watcher.upTo \in Nat /\ watcher.upTo <= history /\ deposits \subseteq Indexes
  BY DEF DInv, DepositTypes, WatcherRecords
<1>3. DepositTypes'
  <2>1. history' \in Nat /\ cursor <= history' /\ watcher.upTo <= history'
    BY <1>1, <1>2
  <2> QED
    BY <1>1, <2>1 DEF DInv, DepositTypes
<1>4. OnFileIsFinal'
  <2>1. \A i \in deposits : SigOf(i) <= history'
    BY <1>1, <1>2 DEF DInv, OnFileIsFinal
  <2> QED
    BY <1>1, <2>1 DEF DInv, OnFileIsFinal
<1>5. InScan' /\ PassedIsOnFile' /\ CursorLeavesNothingBehind'
  BY <1>1 DEF DInv, InScan, PassedIsOnFile, CursorLeavesNothingBehind
<1> QED
  BY <1>3, <1>4, <1>5 DEF DInv

\* No other step touches what the watcher and the ledger keep of the deposits.
LEMMA UntouchedStep ==
    ASSUME DInv, UNCHANGED <<history, deposits, credits, attributed, cursor>>, linked' \in BOOLEAN,
           watcher' = watcher \/ watcher' = Off
    PROVE  DInv'
<1>1. history \in Nat
  BY DEF DInv, DepositTypes
<1>2. CASE watcher' = Off
  <2>1. Position'
    BY <1>1, <1>2, WatcherRests
  <2> QED
    BY <2>1, DepositStep
<1>3. CASE watcher' = watcher
  <2>1. Position'
    BY <1>3 DEF DInv, DepositTypes, Position, InScan, PassedIsOnFile, WatcherRecords
  <2> QED
    BY <2>1, DepositStep
<1> QED
  BY <1>2, <1>3
LEMMA WatcherStepDInv ==
    ASSUME DInv, WatcherStep
    PROVE  DInv'
<1> USE Constants
<1>l. linked \in BOOLEAN
  BY DEF DInv, DepositTypes
<1>1. CASE Scan
  BY <1>1, <1>l, ScanStep, DepositStep DEF Scan
<1>2. CASE upsertDeposit
  <2>0. watcher.at = "store" /\ deposits' = deposits \cup {watcher.i}
        /\ UNCHANGED <<history, linked, credits, attributed, cursor>>
    BY <1>2 DEF upsertDeposit
  <2>1. watcher.i \in Indexes /\ \A j \in Indexes : j <= watcher.i => j \in deposits'
    BY <2>0 DEF DInv, InScan, PassedIsOnFile
  <2>2. CASE AfterTransfer(watcher)
    BY <1>l, <2>0, <2>1, <2>2, AfterTransferStep, DepositStep
  <2>3. CASE watcher' = [watcher EXCEPT !.at = "link"]
    <3>1. deposits \subseteq deposits' /\ watcher.i \in deposits'
      BY <2>0
    <3>2. Position'
      BY <2>0, <2>3, <3>1, WithinTransferStep
    <3> QED
      BY <1>l, <2>0, <3>2, DepositStep
  <2> QED
    BY <1>2, <2>2, <2>3 DEF upsertDeposit
<1>3. CASE getWalletLink
  <2>0. watcher.at = "link" /\ UNCHANGED <<history, linked, deposits, credits, attributed, cursor>>
    BY <1>3 DEF getWalletLink
  <2>1. \A j \in Indexes : j <= watcher.i => j \in deposits'
    BY <2>0 DEF DInv, PassedIsOnFile
  <2>2. CASE AfterTransfer(watcher)
    BY <1>l, <2>0, <2>1, <2>2, AfterTransferStep, DepositStep
  <2>3. CASE watcher' = [watcher EXCEPT !.at = "credit"]
    <3>1. Position'
      BY <2>0, <2>3, WithinTransferStep
    <3> QED
      BY <1>l, <2>0, <3>1, DepositStep
  <2> QED
    BY <1>3, <2>2, <2>3 DEF getWalletLink
<1>4. CASE creditTransfer
  <2>0. /\ watcher.at = "credit" /\ UNCHANGED <<history, linked, deposits, attributed, cursor>>
        /\ credits' = [credits EXCEPT ![watcher.i] = 1] /\ watcher' = [watcher EXCEPT !.at = "mark"]
    BY <1>4 DEF creditTransfer
  <2>1. Position'
    BY <2>0, WithinTransferStep
  <2> QED
    BY <1>l, <2>0, <2>1, DepositStep
<1>5. CASE markDepositCredited
  <2>0. /\ watcher.at = "mark" /\ UNCHANGED <<history, linked, deposits, credits, cursor>>
        /\ attributed' = attributed \cup {watcher.i} /\ AfterTransfer(watcher)
    BY <1>5 DEF markDepositCredited
  <2>1. \A j \in Indexes : j <= watcher.i => j \in deposits'
    BY <2>0 DEF DInv, PassedIsOnFile
  <2>2. Position'
    BY <2>0, <2>1, AfterTransferStep
  <2> QED
    BY <1>l, <2>0, <2>2, DepositStep
<1>6. CASE setCursor \/ setCursorToNewest
  BY <1>6, SetCursorStep, SetCursorToNewestStep
<1> QED
  BY <1>1, <1>2, <1>3, <1>4, <1>5, <1>6 DEF WatcherStep

\* The chain switches forks.
Forking == \E t \in DOMAIN txs, state \in {"sent", "processed", "failed"} : Fork(t, state)

\* The steps of the withdrawal.
WithdrawalStep ==
    \/ NextBlock \/ Landing \/ Forking
    \/ requestWithdrawal \/ OutboxStep \/ OutboxFails

LEMMA WithdrawalLeavesDeposits == WithdrawalStep => UNCHANGED depositVars
  BY DEF WithdrawalStep, NextBlock, Landing, Confirm, Land, Forking, Fork, requestWithdrawal, OutboxStep,
     OutboxFails, StartTick, BuildTransfer, BuildImpossible, markWithdrawalSubmitted, broadcastRawTx,
     getSigStatus, isBlockheightExceeded, postRefund, markWithdrawalFailed, markWithdrawalConfirmed

LEMMA NextDInv == DInv /\ [TreasuryNext]_vars => DInv'
<1> SUFFICES ASSUME DInv, [TreasuryNext]_vars PROVE DInv'
  OBVIOUS
<1>l. linked \in BOOLEAN
  BY DEF DInv, DepositTypes
<1>1. CASE UNCHANGED vars
  BY <1>1, <1>l, UntouchedStep DEF vars, depositVars
<1>2. CASE FinalizeSignature
  BY <1>2, FinalizeStep
<1>3. CASE LinkWallet \/ WatcherFails \/ Crash
  BY <1>3, <1>l, UntouchedStep DEF LinkWallet, WatcherFails, Crash
<1>4. CASE WatcherStep
  BY <1>4, WatcherStepDInv
<1>5. CASE WithdrawalStep
  BY <1>5, <1>l, UntouchedStep, WithdrawalLeavesDeposits DEF depositVars
<1> QED
  BY <1>1, <1>2, <1>3, <1>4, <1>5 DEF TreasuryNext, WithdrawalStep, Forking

-----------------------------------------------------------------------------
(* The withdrawal outbox *)

\* The invariant speaks of the withdrawal's variables only.
LEMMA UntouchedWithdrawal == WInv /\ UNCHANGED withdrawalVars => WInv'
<1> SUFFICES ASSUME WInv, UNCHANGED withdrawalVars PROVE WInv'
  OBVIOUS
<1>1. WithdrawalTypes' /\ RowIsCurrent' /\ RefundIsDue'
  BY DEF WInv, withdrawalVars, WithdrawalTypes, RowIsCurrent, RefundIsDue, Committed
<1>2. Older' = Older /\ Live' = Live
  BY DEF withdrawalVars, Older, Live, DeadTransfer, Finalized
<1>3. Belied' = Belied /\ MustBeDead' = MustBeDead
  BY DEF withdrawalVars, Belied, Committed, Refundable, MustBeDead, Finalized
<1> QED
  BY <1>1, <1>2, <1>3 DEF WInv, ExtraIsBelied, withdrawalVars

\* What the types say of the sequence of transfers.
LEMMA WithdrawalFacts ==
    ASSUME WithdrawalTypes
    PROVE  /\ Len(txs) \in Nat /\ DOMAIN txs = 1..Len(txs) /\ (txs = <<>> <=> Len(txs) = 0)
           /\ \A t \in DOMAIN txs : txs[t] \in TxRecords /\ txs[t].lastValid \in Nat
                                    /\ txs[t].state \in TxStates
           /\ txs # <<>> => Len(txs) \in DOMAIN txs
<1>1. txs \in Seq(TxRecords)
  BY DEF WithdrawalTypes
<1>2. Len(txs) \in Nat /\ DOMAIN txs = 1..Len(txs) /\ (txs = <<>> <=> Len(txs) = 0)
      /\ \A t \in DOMAIN txs : txs[t] \in TxRecords
  BY <1>1
<1>3. \A t \in DOMAIN txs : txs[t].lastValid \in Nat /\ txs[t].state \in TxStates
  BY <1>2 DEF TxRecords
<1> QED
  BY <1>2, <1>3

\* The counts behind ExtraIsBelied.
Counts ==
    /\ IsFiniteSet(Live) /\ IsFiniteSet(Older)
    /\ Cardinality(Live) \in Nat /\ Cardinality(Older) \in Nat
    /\ Cardinality(Older) <= Cardinality(Live) /\ Cardinality(Live) <= Cardinality(Older) + 1
    /\ Len(txs) \notin Live => Live = Older

LEMMA LiveCounts == WithdrawalTypes => Counts
<1> SUFFICES ASSUME WithdrawalTypes PROVE Counts
  OBVIOUS
<1> USE DEF Counts
<1>1. IsFiniteSet(DOMAIN txs)
  BY WithdrawalFacts, FS_Interval
<1>2. IsFiniteSet(Live) /\ Live \subseteq DOMAIN txs
  BY <1>1, FS_Subset DEF Live
<1>3. Older \subseteq Live
  BY DEF Older
<1>4. IsFiniteSet(Older) /\ Cardinality(Older) <= Cardinality(Live)
  BY <1>2, <1>3, FS_Subset
<1>5. Cardinality(Live) \in Nat /\ Cardinality(Older) \in Nat
  BY <1>2, <1>4, FS_CardinalityType
<1>6. CASE Len(txs) \in Live
  <2>1. Older = Live \ {Len(txs)}
    BY DEF Older
  <2>2. Cardinality(Older) = Cardinality(Live) - 1
    BY <1>2, <1>6, <2>1, FS_RemoveElement
  <2> QED
    BY <1>2, <1>4, <1>5, <1>6, <2>2
<1>7. CASE Len(txs) \notin Live
  <2>1. Live = Older
    BY <1>7 DEF Older
  <2> QED
    BY <1>2, <1>4, <1>5, <2>1
<1> QED
  BY <1>6, <1>7

LEMMA LiveCountsNext == WithdrawalTypes' => Counts'
  BY LiveCounts, PTL

\* No dead transfer comes back: the counts only fall while none is signed.
LEMMA FewerLive ==
    ASSUME WithdrawalTypes, WithdrawalTypes', Live' \subseteq Live, Len(txs') = Len(txs)
    PROVE  Cardinality(Live') <= Cardinality(Live) /\ Cardinality(Older') <= Cardinality(Older)
<1>1. Older' \subseteq Older
  BY DEF Older
<1> QED
  BY <1>1, LiveCounts, FS_Subset DEF Counts

\* A transfer changes its state on the chain, a dead one only to have its failure
\* confirmed.
LEMMA ChainStep ==
    ASSUME WInv, NEW t \in DOMAIN txs, NEW s \in TxStates, DeadTransfer(t) => s = "rejected",
           txs[t].state \notin {"confirmed", "rejected"}, txs' = [txs EXCEPT ![t].state = s],
           UNCHANGED <<tip, row, refunds, outbox>>, slips' \in Nat, slips <= slips',
           t = Len(txs) /\ Committed /\ txs[t].state = "failed" =>
               s \in {"failed", "rejected"} \/ slips' = slips + 1
    PROVE  WInv'
<1> USE WithdrawalFacts DEF WInv
<1>1. Len(txs') = Len(txs) /\ DOMAIN txs' = DOMAIN txs /\ txs' \in Seq(TxRecords)
  <2>1. [txs[t] EXCEPT !.state = s] \in TxRecords
    BY DEF TxRecords
  <2>2. txs' = [txs EXCEPT ![t] = [txs[t] EXCEPT !.state = s]] /\ txs \in Seq(TxRecords)
    BY DEF WithdrawalTypes
  <2> QED
    BY <2>1, <2>2
<1>2. /\ txs'[t].lastValid = txs[t].lastValid /\ txs'[t].state = s
      /\ \A u \in DOMAIN txs : u # t => txs'[u] = txs[u]
  BY DEF TxRecords
<1>3. txs' = <<>> <=> txs = <<>>
  BY <1>1
<1>4. Live' \subseteq Live
  <2> SUFFICES ASSUME NEW u \in DOMAIN txs, DeadTransfer(u) PROVE DeadTransfer(u)'
    BY <1>1 DEF Live
  <2> QED
    BY <1>2 DEF DeadTransfer, Finalized
<1>6. WithdrawalTypes'
  BY <1>1 DEF WithdrawalTypes
<1>7. RowIsCurrent'
  BY <1>1, <1>3 DEF RowIsCurrent
<1>8. RefundIsDue'
  BY <1>1, <1>2, <1>3 DEF RefundIsDue, Committed
<1>9. Belied' <= Belied \/ (Belied' = 1 /\ Belied = 0 /\ slips' = slips + 1)
  <2>1. Committed' = Committed
    BY DEF Committed
  <2>2. Refundable => Refundable' \/ (t = Len(txs) /\ txs[t].state = "failed" /\ s \notin {"failed", "rejected"})
    BY <1>1, <1>2, <1>3 DEF Refundable
  <2> QED
    BY <2>1, <2>2 DEF Belied
<1>10. MustBeDead' => MustBeDead
  <2>1. outbox.at = "expiry" => Len(txs) \in DOMAIN txs
    BY DEF RowIsCurrent
  <2>2. outbox.at = "expiry" => txs'[Len(txs)].lastValid = txs[Len(txs)].lastValid
    BY <1>2, <2>1
  <2> QED
    BY <1>1, <2>2 DEF MustBeDead, Finalized
<1>11. /\ Cardinality(Live') <= Cardinality(Live) /\ Cardinality(Older') <= Cardinality(Older)
       /\ Cardinality(Live') \in Nat /\ Cardinality(Older') \in Nat
       /\ Cardinality(Live) \in Nat /\ Cardinality(Older) \in Nat
  BY <1>1, <1>4, <1>6, FewerLive, LiveCounts, LiveCountsNext DEF Counts
<1>12. Belied \in Nat /\ Belied' \in Nat /\ refunds \in Nat /\ slips \in Nat
  BY DEF Belied, WithdrawalTypes
<1>13. ExtraIsBelied'
  <2>1. Cardinality(Older') + Belied' <= slips'
    BY <1>9, <1>11, <1>12 DEF ExtraIsBelied
  <2>2. MustBeDead' => Cardinality(Live') + refunds <= slips'
    BY <1>10, <1>11, <1>12 DEF ExtraIsBelied
  <2> QED
    BY <2>1, <2>2 DEF ExtraIsBelied
<1> QED
  BY <1>6, <1>7, <1>8, <1>13

LEMMA LandingStep ==
    ASSUME WInv, Landing
    PROVE  WInv'
<1> USE Constants
<1>0. tip \in Nat /\ slips \in Nat /\ \A t \in DOMAIN txs : txs[t].lastValid \in Nat
  BY WithdrawalFacts DEF WInv, WithdrawalTypes
<1>1. ASSUME NEW t \in DOMAIN txs, Confirm(t)
      PROVE  WInv'
  <2> DEFINE s == IF txs[t].state = "failed" THEN "rejected" ELSE "confirmed"
  <2>1. txs[t].state \in {"processed", "failed"} /\ UNCHANGED <<tip, row, refunds, outbox, slips>>
        /\ txs' = [txs EXCEPT ![t].state = s]
    BY <1>1 DEF Confirm
  <2>2. /\ s \in TxStates /\ (txs[t].state = "failed" => s \in {"failed", "rejected"})
        /\ DeadTransfer(t) => s = "rejected"
    BY <2>1 DEF TxStates, DeadTransfer
  <2> HIDE DEF s
  <2>3. slips' \in Nat /\ slips <= slips' /\ txs[t].state \notin {"confirmed", "rejected"}
    BY <1>0, <2>1
  <2> QED
    BY <2>1, <2>2, <2>3, ChainStep
<1>2. ASSUME NEW t \in DOMAIN txs, NEW s \in {"processed", "failed"}, Land(t, s)
      PROVE  WInv'
  <2>1. txs[t].state = "sent" /\ tip <= txs[t].lastValid /\ UNCHANGED <<tip, row, refunds, outbox, slips>>
        /\ txs' = [txs EXCEPT ![t].state = s]
    BY <1>2 DEF Land
  <2>2. ~DeadTransfer(t)
    BY <1>0, <2>1 DEF DeadTransfer, Finalized
  <2>3. s \in TxStates /\ slips' \in Nat /\ slips <= slips'
    BY <1>0, <2>1 DEF TxStates
  <2> QED
    BY <2>1, <2>2, <2>3, ChainStep
<1> QED
  BY <1>1, <1>2 DEF Landing

\* Only a fork above the end of no finalized window brings a failure back, and it
\* is counted when the outbox acts on that failure.
LEMMA ForkStep ==
    ASSUME WInv, Forking
    PROVE  WInv'
<1> USE Constants
<1>0. tip \in Nat /\ slips \in Nat /\ \A t \in DOMAIN txs : txs[t].lastValid \in Nat
  BY WithdrawalFacts DEF WInv, WithdrawalTypes
<1>1. PICK t \in DOMAIN txs, s \in {"sent", "processed", "failed"} : Fork(t, s)
  BY DEF Forking
<1>2. /\ txs[t].state \in {"sent", "processed", "failed"} /\ Finalized < txs[t].lastValid
      /\ txs' = [txs EXCEPT ![t].state = s] /\ UNCHANGED <<tip, row, refunds, outbox>>
      /\ slips' = IF txs[t].state = "failed" /\ Committed /\ t = Len(txs) THEN slips + 1 ELSE slips
  BY <1>1 DEF Fork
<1>3. ~DeadTransfer(t)
  BY <1>0, <1>2 DEF DeadTransfer, Finalized
<1>4. s \in TxStates /\ slips' \in Nat /\ slips <= slips'
  BY <1>0, <1>2 DEF TxStates
<1> QED
  BY <1>2, <1>3, <1>4, ChainStep

LEMMA NextBlockStep ==
    ASSUME WInv, NextBlock
    PROVE  WInv'
<1> USE Constants, WithdrawalFacts DEF WInv
<1>1. /\ UNCHANGED <<txs, row, refunds, outbox>> /\ tip' = tip + 1 /\ tip \in Nat /\ tip' \in Nat
      /\ slips \in Nat /\ slips' = IF ClosesBetweenReads THEN slips + 1 ELSE slips
      /\ refunds \in {0, 1} /\ slips' \in Nat
  BY DEF NextBlock, WithdrawalTypes
<1>2. WithdrawalTypes' /\ RowIsCurrent' /\ RefundIsDue'
  BY <1>1 DEF WithdrawalTypes, RowIsCurrent, RefundIsDue, Committed
<1>3. Live' \subseteq Live
  BY <1>1 DEF Live, DeadTransfer, Finalized
<1>4. /\ Cardinality(Live') <= Cardinality(Live) /\ Cardinality(Older') <= Cardinality(Older)
      /\ Cardinality(Live') \in Nat /\ Cardinality(Older') \in Nat
      /\ Cardinality(Live) \in Nat /\ Cardinality(Older) \in Nat
      /\ Cardinality(Live') <= Cardinality(Older') + 1 /\ (Len(txs) \notin Live' => Live' = Older')
  BY <1>1, <1>2, <1>3, FewerLive, LiveCounts, LiveCountsNext DEF Counts
<1>5. Belied' = Belied /\ Belied \in {0, 1}
  BY <1>1 DEF Belied, Committed, Refundable
<1>6. Cardinality(Older') + Belied' <= slips'
  BY <1>1, <1>4, <1>5 DEF ExtraIsBelied
<1>7. ASSUME MustBeDead' PROVE Cardinality(Live') + refunds <= slips'
  <2>1. CASE MustBeDead
    BY <1>1, <1>4, <2>1 DEF ExtraIsBelied
  <2>2. CASE ~MustBeDead
    <3>1. /\ outbox.at = "expiry" /\ txs # <<>> /\ outbox.tx = Len(txs) /\ Len(txs) \in DOMAIN txs
          /\ txs[Len(txs)].lastValid \in Nat
      BY <1>1, <1>7, <2>2 DEF MustBeDead, RowIsCurrent
    <3>2. Finalized = txs[Len(txs)].lastValid /\ Finalized' > txs[Len(txs)].lastValid
      BY <1>1, <1>7, <2>2, <3>1 DEF MustBeDead, Finalized
    <3>3. slips' = slips + 1
      BY <1>1, <3>1, <3>2 DEF ClosesBetweenReads
    <3>4. CASE refunds = 1 /\ Refundable
      <4>1. Len(txs) \notin Live'
        BY <1>1, <3>1, <3>2, <3>4 DEF Refundable, Live, DeadTransfer
      <4> QED
        BY <1>1, <1>4, <1>5, <3>3, <4>1 DEF ExtraIsBelied
    <3>5. CASE refunds = 1 /\ ~Refundable
      <4>1. Belied = 1
        BY <3>5 DEF Belied, Committed
      <4> QED
        BY <1>1, <1>4, <3>3, <3>5, <4>1 DEF ExtraIsBelied
    <3>6. CASE refunds = 0
      BY <1>1, <1>4, <1>5, <3>3, <3>6 DEF ExtraIsBelied
    <3> QED
      BY <1>1, <3>4, <3>5, <3>6
  <2> QED
    BY <2>1, <2>2
<1>8. ExtraIsBelied'
  BY <1>1, <1>6, <1>7 DEF ExtraIsBelied
<1> QED
  BY <1>2, <1>8

\* A step of the outbox that leaves the chain and the refund alone: no answer is
\* belied by it, and before another transfer is signed this one must be dead.
LEMMA OutboxOnly ==
    ASSUME WInv, WithdrawalTypes', RowIsCurrent', RefundIsDue', UNCHANGED <<tip, txs, refunds, slips>>,
           Committed' => Committed \/ Refundable', Refundable => Refundable',
           MustBeDead' => MustBeDead \/ Cardinality(Live) + refunds <= slips
    PROVE  WInv'
<1>1. Live' = Live /\ Older' = Older
  BY DEF Live, Older, DeadTransfer, Finalized
<1>2. Belied' <= Belied /\ Belied \in Nat /\ Belied' \in Nat
  BY DEF Belied
<1>3. Cardinality(Older) \in Nat /\ slips \in Nat
  BY LiveCounts DEF WInv, WithdrawalTypes, Counts
<1>4. Cardinality(Older') + Belied' <= slips'
  <2>1. Cardinality(Older) + Belied <= slips
    BY DEF WInv, ExtraIsBelied
  <2> QED
    BY <1>1, <1>2, <1>3, <2>1
<1>5. ExtraIsBelied'
  BY <1>1, <1>4 DEF WInv, ExtraIsBelied
<1> QED
  BY <1>5 DEF WInv

LEMMA RequestStep ==
    ASSUME WInv, requestWithdrawal
    PROVE  WInv'
<1> USE DEF WInv
<1>1. UNCHANGED <<tip, txs, refunds, outbox, slips>> /\ row.state = "none" /\ txs = <<>> /\ refunds = 0
      /\ outbox.at = "off"
  BY DEF requestWithdrawal, RowIsCurrent
<1>2. PICK valid \in BOOLEAN : row' = [row EXCEPT !.state = "debited", !.valid = valid]
  BY DEF requestWithdrawal
<1>3. row' \in RowRecords /\ row'.state = "debited" /\ row'.tx = row.tx
  BY <1>2 DEF WithdrawalTypes, RowRecords
<1>4. WithdrawalTypes' /\ RowIsCurrent' /\ RefundIsDue'
  BY <1>1, <1>3 DEF WithdrawalTypes, RowIsCurrent, RefundIsDue, Committed
<1>5. Live' = Live /\ Older' = Older
  BY <1>1 DEF Live, Older, DeadTransfer, Finalized
<1>6. Belied = 0 /\ Belied' = 0 /\ ~MustBeDead'
  BY <1>1 DEF Belied, Committed, MustBeDead
<1>7. ExtraIsBelied'
  BY <1>1, <1>5, <1>6 DEF ExtraIsBelied
<1> QED
  BY <1>4, <1>7

\* The tick ends without another write.
LEMMA RestStep ==
    ASSUME WInv, outbox' = Resting, UNCHANGED <<tip, txs, row, refunds, slips>>
    PROVE  WInv'
<1>1. outbox' \in OutboxRecords /\ outbox'.at = "off"
  BY DEF Resting, OutboxRecords, OutboxSteps, NoTx
<1>2. WithdrawalTypes' /\ RowIsCurrent' /\ RefundIsDue'
  BY <1>1 DEF WInv, WithdrawalTypes, RowIsCurrent, RefundIsDue, Committed
<1>3. (Committed' => Committed) /\ (Refundable => Refundable') /\ ~MustBeDead'
  BY <1>1 DEF Committed, Refundable, MustBeDead
<1> QED
  BY <1>2, <1>3, OutboxOnly

LEMMA StartTickStep ==
    ASSUME WInv, StartTick
    PROVE  WInv'
<1> USE WithdrawalFacts DEF WInv
<1>0. /\ UNCHANGED <<tip, txs, row, refunds, slips>> /\ row.state \in {"debited", "submitted"}
      /\ row \in RowRecords /\ refunds \in {0, 1} /\ slips \in Nat
  BY DEF StartTick, WithdrawalTypes
<1>1. /\ outbox' \in OutboxRecords /\ outbox'.tx = row.tx
      /\ outbox'.at = IF row.state = "debited" THEN "build" ELSE "status"
  BY <1>0 DEF StartTick, Resting, OutboxRecords, OutboxSteps, NoTx, RowRecords
<1>2. WithdrawalTypes' /\ RowIsCurrent' /\ RefundIsDue'
  BY <1>0, <1>1 DEF WithdrawalTypes, RowIsCurrent, RefundIsDue, Committed
<1>3. (Committed' => Committed) /\ (Refundable => Refundable')
  BY <1>0, <1>1 DEF Committed, Refundable
<1>4. ASSUME MustBeDead' PROVE Cardinality(Live) + refunds <= slips
  <2>1. row.valid /\ row.state = "debited" /\ txs = <<>>
    BY <1>0, <1>1, <1>4 DEF MustBeDead, RowIsCurrent
  <2>2. refunds = 0
    BY <1>0, <2>1 DEF RefundIsDue, Committed
  <2>3. Live = {}
    BY <2>1 DEF Live
  <2>4. Cardinality(Live) = 0
    BY <2>3, FS_EmptySet
  <2> QED
    BY <1>0, <2>2, <2>4
<1> QED
  BY <1>0, <1>2, <1>3, <1>4, OutboxOnly

LEMMA BuildStep ==
    ASSUME WInv, BuildTransfer \/ BuildImpossible
    PROVE  WInv'
<1> USE Constants DEF WInv
<1>0. /\ UNCHANGED <<tip, txs, row, refunds, slips>> /\ outbox.at = "build"
      /\ row.state \in {"debited", "submitted"} /\ outbox \in OutboxRecords /\ tip \in Nat /\ row \in RowRecords
  BY DEF BuildTransfer, BuildImpossible, WithdrawalTypes, RowIsCurrent, RowRecords
<1>1. /\ outbox' \in OutboxRecords
      /\ \/ outbox'.at = "persist" /\ row.valid
         \/ outbox'.at = "refund" /\ ~row.valid
  <2>1. CASE BuildTransfer
    <3>1. tip + Window \in Nat
      BY <1>0
    <3>2. outbox' = [outbox EXCEPT !.at = "persist", !.lastValid = tip + Window] /\ row.valid
      BY <2>1 DEF BuildTransfer
    <3> QED
      BY <1>0, <3>1, <3>2 DEF OutboxRecords, OutboxSteps
  <2>2. CASE BuildImpossible
    BY <1>0, <2>2 DEF BuildImpossible, OutboxGo, OutboxRecords, OutboxSteps
  <2> QED
    BY <2>1, <2>2
<1>2. WithdrawalTypes' /\ RowIsCurrent'
  BY <1>0, <1>1 DEF WithdrawalTypes, RowIsCurrent
<1>3. RefundIsDue'
  BY <1>0, <1>1 DEF RefundIsDue, Committed
<1>4. /\ Committed' => Committed \/ Refundable'
      /\ Refundable => Refundable'
      /\ MustBeDead' => MustBeDead
  BY <1>0, <1>1 DEF Committed, Refundable, MustBeDead, RowIsCurrent
<1> QED
  BY <1>0, <1>2, <1>3, <1>4, OutboxOnly

\* The only step that signs: whatever can still be paid then is accounted for.
LEMMA SubmitStep ==
    ASSUME WInv, markWithdrawalSubmitted
    PROVE  WInv'
<1> USE Constants, WithdrawalFacts DEF WInv
<1>0. /\ UNCHANGED <<tip, refunds, slips>> /\ outbox.at = "persist" /\ row.valid
      /\ row.state \in {"debited", "submitted"} /\ refunds \in {0, 1} /\ slips \in Nat
      /\ outbox \in OutboxRecords /\ tip \in Nat /\ row \in RowRecords /\ txs \in Seq(TxRecords)
  BY DEF markWithdrawalSubmitted, WithdrawalTypes, RowIsCurrent, RESIGNABLE_WITHDRAWAL_STATES
<1> DEFINE new == [lastValid |-> outbox.lastValid, state |-> "signed"]
<1>1. new \in TxRecords
  BY <1>0 DEF TxRecords, TxStates, OutboxRecords
<1>2. txs' = Append(txs, new)
  BY DEF markWithdrawalSubmitted
<1> HIDE DEF new
<1>3. /\ Len(txs') = Len(txs) + 1 /\ DOMAIN txs' = 1..(Len(txs) + 1) /\ txs' \in Seq(TxRecords)
      /\ txs'[Len(txs')] = new /\ \A t \in DOMAIN txs : txs'[t] = txs[t]
  BY <1>0, <1>1, <1>2
<1>4. txs' # <<>>
  BY <1>3
<1>5. row' \in RowRecords /\ row'.state = "submitted" /\ row'.tx = Len(txs') /\ row'.valid
  <2>1. row' = [row EXCEPT !.state = "submitted", !.tx = Len(txs')] /\ Len(txs') \in Nat
    BY <1>3 DEF markWithdrawalSubmitted
  <2> QED
    BY <1>0, <2>1 DEF RowRecords
<1>6. outbox' \in OutboxRecords /\ outbox'.at = "broadcast" /\ outbox'.tx = Len(txs')
  <2>1. outbox' = [outbox EXCEPT !.at = "broadcast", !.tx = Len(txs')] /\ Len(txs') \in Nat
    BY <1>3 DEF markWithdrawalSubmitted
  <2> QED
    BY <1>0, <2>1 DEF OutboxRecords, OutboxSteps
<1>7. WithdrawalTypes'
  BY <1>0, <1>3, <1>5, <1>6 DEF WithdrawalTypes
<1>8. RowIsCurrent'
  BY <1>0, <1>4, <1>5, <1>6 DEF RowIsCurrent
<1>9. RefundIsDue'
  BY <1>0, <1>4, <1>5, <1>6 DEF RefundIsDue
<1>10. ExtraIsBelied'
  <2>1. Cardinality(Live) + refunds <= slips
    BY <1>0 DEF ExtraIsBelied, MustBeDead
  <2>2. Older' \subseteq Live
    <3> SUFFICES ASSUME NEW t \in Older' PROVE t \in Live
      OBVIOUS
    <3>1. t \in DOMAIN txs' /\ t # Len(txs') /\ ~DeadTransfer(t)'
      BY DEF Older, Live
    <3>2. t \in DOMAIN txs
      BY <1>3, <3>1
    <3> QED
      BY <1>0, <1>3, <3>1, <3>2 DEF Live, DeadTransfer, Finalized
  <2>3. Cardinality(Older') <= Cardinality(Live)
    BY <2>2, LiveCounts, FS_Subset DEF Counts
  <2>4. Cardinality(Older') \in Nat /\ Cardinality(Live) \in Nat
    BY <1>7, LiveCounts, LiveCountsNext DEF Counts
  <2>5. Belied' \in {0, 1} /\ Belied' <= refunds
    BY <1>0, <1>6 DEF Belied, Committed
  <2>6. Cardinality(Older') + Belied' <= slips'
    BY <1>0, <2>1, <2>3, <2>4, <2>5
  <2> QED
    BY <1>6, <2>6 DEF ExtraIsBelied, MustBeDead
<1> QED
  BY <1>7, <1>8, <1>9, <1>10

LEMMA BroadcastStep ==
    ASSUME WInv, broadcastRawTx
    PROVE  WInv'
<1> USE Constants, WithdrawalFacts DEF WInv
<1>0. /\ UNCHANGED <<tip, row, refunds, slips>> /\ outbox.at = "broadcast" /\ outbox' = Resting
      /\ outbox.tx = Len(txs) /\ row.state = "submitted" /\ txs # <<>> /\ txs \in Seq(TxRecords)
      /\ slips \in Nat
  BY DEF broadcastRawTx, RowIsCurrent, Rest, WithdrawalTypes
<1> DEFINE t == Len(txs)
           s == IF txs[t].state = "signed" THEN "sent" ELSE txs[t].state
<1>1. t \in DOMAIN txs /\ s \in TxStates
  BY <1>0 DEF TxStates
<1>2. txs' = [txs EXCEPT ![t] = [txs[t] EXCEPT !.state = s]]
  BY <1>0, <1>1 DEF broadcastRawTx
<1>3. [txs[t] EXCEPT !.state = s] \in TxRecords
  BY <1>1 DEF TxRecords
<1>s. /\ s = "confirmed" <=> txs[t].state = "confirmed"
      /\ s = "rejected" <=> txs[t].state = "rejected"
      /\ s = "failed" <=> txs[t].state = "failed"
      /\ s \in {"signed", "sent"} <=> txs[t].state \in {"signed", "sent"}
  OBVIOUS
<1> HIDE DEF t, s
<1>4. Len(txs') = Len(txs) /\ DOMAIN txs' = DOMAIN txs /\ txs' \in Seq(TxRecords)
  BY <1>0, <1>1, <1>2, <1>3
<1>5. txs'[t].lastValid = txs[t].lastValid /\ txs'[t].state = s /\ \A u \in DOMAIN txs : u # t => txs'[u] = txs[u]
  BY <1>1, <1>2 DEF TxRecords
<1>6. outbox' \in OutboxRecords /\ outbox'.at = "off"
  BY <1>0 DEF Resting, OutboxRecords, OutboxSteps, NoTx
<1>7. WithdrawalTypes'
  BY <1>0, <1>4, <1>6 DEF WithdrawalTypes
<1>8. RowIsCurrent'
  BY <1>0, <1>4, <1>6 DEF RowIsCurrent
<1>9. RefundIsDue'
  BY <1>0, <1>4, <1>5, <1>6, <1>s DEF RefundIsDue, Committed, t
<1>10. Live' = Live /\ Older' = Older
  <2>1. \A u \in DOMAIN txs : DeadTransfer(u)' <=> DeadTransfer(u)
    BY <1>0, <1>5, <1>s DEF DeadTransfer, Finalized
  <2> QED
    BY <1>4, <2>1 DEF Live, Older
<1>11. Belied' <= Belied /\ Belied \in Nat /\ Belied' \in Nat /\ ~MustBeDead'
  <2>1. txs' # <<>> /\ (Refundable => Refundable')
    BY <1>0, <1>4, <1>5, <1>s DEF Refundable, t
  <2>2. (Committed' => Committed) /\ ~MustBeDead'
    BY <1>0, <1>6 DEF Committed, MustBeDead
  <2> QED
    BY <2>1, <2>2 DEF Belied
<1>12. ExtraIsBelied'
  <2>1. Cardinality(Older) \in Nat /\ Cardinality(Older) + Belied <= slips
    BY LiveCounts DEF ExtraIsBelied, Counts
  <2>2. Cardinality(Older') + Belied' <= slips'
    BY <1>0, <1>10, <1>11, <2>1
  <2> QED
    BY <1>11, <2>2 DEF ExtraIsBelied
<1> QED
  BY <1>7, <1>8, <1>9, <1>12

\* A status read while the finalized height is past the window is final.
LEMMA StatusStep ==
    ASSUME WInv, getSigStatus
    PROVE  WInv'
<1> USE Constants, WithdrawalFacts DEF WInv
<1>0. /\ UNCHANGED <<tip, txs, row, refunds, slips>> /\ outbox.at = "status" /\ outbox.tx = Len(txs)
      /\ row.state = "submitted" /\ txs # <<>> /\ outbox \in OutboxRecords /\ tip \in Nat
      /\ refunds \in {0, 1} /\ slips \in Nat
  BY DEF getSigStatus, RowIsCurrent, WithdrawalTypes
<1> DEFINE t == Len(txs)
<1>t. t \in DOMAIN txs /\ txs[t].state \in TxStates /\ txs[t].lastValid \in Nat
  BY <1>0
<1>1. outbox' \in OutboxRecords /\ outbox'.tx \in {Len(txs), NoTx}
  BY <1>0 DEF getSigStatus, Resting, OutboxRecords, OutboxSteps, NoTx
<1>2. \/ outbox'.at = "refund" /\ txs[t].state \in {"failed", "rejected"} /\ outbox'.tx = t
      \/ outbox'.at = "confirm" /\ txs[t].state = "confirmed" /\ outbox'.tx = t
      \/ outbox'.at = "off"
      \/ outbox'.at = "expiry" /\ txs[t].state \in {"signed", "sent"} /\ outbox'.tx = t
  BY <1>0, <1>t DEF getSigStatus, Resting, OutboxRecords, TxStates
<1>3. WithdrawalTypes' /\ RowIsCurrent'
  BY <1>0, <1>1, <1>2 DEF WithdrawalTypes, RowIsCurrent
<1>4. RefundIsDue'
  BY <1>0, <1>2 DEF RefundIsDue, Committed
<1>5. (Committed' => Committed \/ Refundable') /\ (Refundable => Refundable')
  BY <1>0, <1>2 DEF Committed, Refundable
<1>6. ASSUME MustBeDead' PROVE Cardinality(Live) + refunds <= slips
  <2>1. txs[t].state \in {"signed", "sent"} /\ Finalized > txs[t].lastValid
    BY <1>0, <1>2, <1>6 DEF MustBeDead, Finalized
  <2>2. Live = Older
    BY <2>1, LiveCounts DEF Live, DeadTransfer, Counts
  <2>3. refunds <= Belied /\ Belied \in {0, 1}
    BY <1>0, <2>1 DEF Belied, Committed, Refundable
  <2>4. Cardinality(Older) \in Nat /\ Cardinality(Older) + Belied <= slips
    BY LiveCounts DEF ExtraIsBelied, Counts
  <2> QED
    BY <1>0, <2>2, <2>3, <2>4
<1> QED
  BY <1>0, <1>3, <1>4, <1>5, <1>6, OutboxOnly

\* The finalized height is past the window: the status was read after that, or
\* the chain has been counted as belying it.
LEMMA ExpiryStep ==
    ASSUME WInv, isBlockheightExceeded
    PROVE  WInv'
<1> USE Constants, WithdrawalFacts DEF WInv
<1>0. /\ UNCHANGED <<tip, txs, row, refunds, slips>> /\ outbox.at = "expiry" /\ outbox.tx = Len(txs)
      /\ row.state = "submitted" /\ txs # <<>> /\ outbox \in OutboxRecords /\ tip \in Nat
  BY DEF isBlockheightExceeded, RowIsCurrent, WithdrawalTypes
<1> DEFINE t == Len(txs)
<1>1. /\ outbox' \in OutboxRecords /\ outbox'.tx = outbox.tx
      /\ \/ outbox'.at = "build" /\ Expired(t)
         \/ outbox'.at = "broadcast"
  BY <1>0 DEF isBlockheightExceeded, OutboxGo, OutboxRecords, OutboxSteps
<1>2. WithdrawalTypes' /\ RowIsCurrent'
  BY <1>0, <1>1 DEF WithdrawalTypes, RowIsCurrent
<1>3. RefundIsDue'
  BY <1>0, <1>1 DEF RefundIsDue, Committed
<1>4. (Committed' => Committed) /\ (Refundable => Refundable') /\ (MustBeDead' => MustBeDead)
  BY <1>0, <1>1 DEF Committed, Refundable, MustBeDead, Expired
<1> QED
  BY <1>0, <1>2, <1>3, <1>4, OutboxOnly

LEMMA RefundStep ==
    ASSUME WInv, postRefund
    PROVE  WInv'
<1> USE DEF WInv
<1>0. UNCHANGED <<tip, txs, row, slips>> /\ outbox.at = "refund" /\ refunds' = 1 /\ outbox \in OutboxRecords
  BY DEF postRefund, WithdrawalTypes
<1>1. outbox' \in OutboxRecords /\ outbox'.at = "fail"
  BY <1>0 DEF postRefund, OutboxGo, OutboxRecords, OutboxSteps
<1>2. WithdrawalTypes' /\ RowIsCurrent'
  BY <1>0, <1>1 DEF WithdrawalTypes, RowIsCurrent
<1>3. RefundIsDue'
  BY <1>0, <1>1 DEF RefundIsDue, Committed
<1>4. Live' = Live /\ Older' = Older
  BY <1>0 DEF Live, Older, DeadTransfer, Finalized
<1>5. Belied' = Belied /\ ~MustBeDead'
  BY <1>0, <1>1 DEF Belied, Committed, Refundable, MustBeDead
<1>6. ExtraIsBelied'
  BY <1>0, <1>4, <1>5 DEF ExtraIsBelied
<1> QED
  BY <1>2, <1>3, <1>6

LEMMA ReportStep ==
    ASSUME WInv, markWithdrawalFailed \/ markWithdrawalConfirmed
    PROVE  WInv'
<1> USE DEF WInv
<1>0. UNCHANGED <<tip, txs, refunds, slips>> /\ outbox' = Resting /\ row \in RowRecords
  BY DEF markWithdrawalFailed, markWithdrawalConfirmed, WithdrawalTypes, Rest
<1>1. /\ row' \in RowRecords /\ row'.tx = row.tx /\ row'.valid = row.valid
      /\ \/ outbox.at = "fail" /\ row'.state = "failed"
         \/ outbox.at = "confirm" /\ row'.state = "confirmed"
  BY <1>0 DEF markWithdrawalFailed, markWithdrawalConfirmed, RowRecords
<1>2. outbox' \in OutboxRecords /\ outbox'.at = "off"
  BY <1>0 DEF Resting, OutboxRecords, OutboxSteps, NoTx
<1>3. WithdrawalTypes' /\ RowIsCurrent'
  BY <1>0, <1>1, <1>2 DEF WithdrawalTypes, RowIsCurrent
<1>4. RefundIsDue'
  BY <1>0, <1>1, <1>2 DEF RefundIsDue, Committed
<1>5. (Committed' => Committed) /\ (Refundable => Refundable') /\ ~MustBeDead'
  BY <1>0, <1>1, <1>2 DEF Committed, Refundable, MustBeDead
<1> QED
  BY <1>0, <1>3, <1>4, <1>5, OutboxOnly

LEMMA NextWInv == WInv /\ [TreasuryNext]_vars => WInv'
<1> SUFFICES ASSUME WInv, [TreasuryNext]_vars PROVE WInv'
  OBVIOUS
<1>1. CASE UNCHANGED withdrawalVars
  BY <1>1, UntouchedWithdrawal
<1>2. CASE NextBlock
  BY <1>2, NextBlockStep
<1>3. CASE Landing \/ Forking
  BY <1>3, LandingStep, ForkStep
<1>4. CASE requestWithdrawal
  BY <1>4, RequestStep
<1>5. CASE OutboxFails \/ Crash
  BY <1>5, RestStep DEF OutboxFails, Crash, Rest
<1>6. CASE OutboxStep
  BY <1>6, StartTickStep, BuildStep, SubmitStep, BroadcastStep, StatusStep, ExpiryStep, RefundStep,
     ReportStep DEF OutboxStep
<1>7. FinalizeSignature \/ LinkWallet \/ WatcherStep \/ WatcherFails => UNCHANGED withdrawalVars
  BY DEF FinalizeSignature, LinkWallet, WatcherStep, WatcherFails, Scan, upsertDeposit, getWalletLink,
     creditTransfer, markDepositCredited, setCursor, setCursorToNewest
<1> QED
  BY <1>1, <1>2, <1>3, <1>4, <1>5, <1>6, <1>7 DEF TreasuryNext, Forking, vars
-----------------------------------------------------------------------------
(* The ledger *)

\* Credits are zero or one of each transfer: their sum is a natural number, no
\* more than what was received, and never falls.
LEMMA CreditFacts ==
    ASSUME DInv
    PROVE  Credited \in Nat /\ Received \in Nat /\ Credited <= Received
<1> USE Constants
<1> DEFINE f == [i \in Indexes |-> credits[i] * AmountOf(i)]
           a == [i \in Indexes |-> AmountOf(i)]
           fin == {i \in Indexes : Transfers[i].sig <= history}
<1>1. \A i \in Indexes : f[i] \in Nat /\ a[i] \in Nat
  <2> SUFFICES ASSUME NEW i \in Indexes PROVE f[i] \in Nat
    OBVIOUS
  <2>1. credits[i] \in {0, 1}
    BY DEF DInv, DepositTypes
  <2>2. AmountOf(i) \in Nat /\ 0 * AmountOf(i) = 0 /\ 1 * AmountOf(i) = AmountOf(i)
    OBVIOUS
  <2> QED
    BY <2>1, <2>2
<1>2. IsFiniteSet(fin) /\ fin \subseteq Indexes
  BY FS_Subset
<1>3. SumFunctionOnSet(f, Indexes) \in Nat /\ SumFunctionOnSet(a, fin) \in Nat
  BY <1>1, <1>2, SumOnUnfold
<1>4. \A i \in Indexes : i \notin fin => f[i] = 0
  <2> SUFFICES ASSUME NEW i \in Indexes, i \notin fin PROVE f[i] = 0
    OBVIOUS
  <2>1. i \notin deposits
    BY DEF DInv, OnFileIsFinal, SigOf
  <2>2. credits[i] = 0
    BY <2>1 DEF DInv, DepositTypes, OnFileIsFinal
  <2> QED
    BY <2>2
<1>5. \A i \in fin : f[i] <= a[i]
  <2> SUFFICES ASSUME NEW i \in fin PROVE f[i] <= a[i]
    OBVIOUS
  <2>1. credits[i] \in {0, 1} /\ i \in Indexes
    BY DEF DInv, DepositTypes
  <2>2. AmountOf(i) \in Nat /\ 0 * AmountOf(i) = 0 /\ 1 * AmountOf(i) = AmountOf(i)
    BY <2>1
  <2> QED
    BY <2>1, <2>2
<1>6. SumFunctionOnSet(f, fin) <= SumFunctionOnSet(a, fin)
  BY <1>1, <1>2, <1>5, SumOnMono
<1>7. SumFunctionOnSet(f, Indexes) = SumFunctionOnSet(f, fin)
  BY <1>1, <1>2, <1>4, SumOnZeros
<1> QED
  BY <1>3, <1>6, <1>7 DEF Credited, Received

\* A credit is never taken back.
LEMMA CreditsGrow ==
    ASSUME DInv, DInv', [TreasuryNext]_vars
    PROVE  Credited <= Credited' /\ Credited' \in Nat
<1> USE Constants
<1>1. UNCHANGED credits \/ (watcher.i \in Indexes /\ credits' = [credits EXCEPT ![watcher.i] = 1])
  <2>1. CASE creditTransfer
    BY <2>1 DEF creditTransfer, DInv, InScan
  <2>2. CASE UNCHANGED vars \/ WithdrawalStep
    BY <2>2, WithdrawalLeavesDeposits DEF vars, depositVars
  <2>3. CASE FinalizeSignature \/ LinkWallet \/ WatcherFails \/ Crash
    BY <2>3 DEF FinalizeSignature, LinkWallet, WatcherFails, Crash
  <2>4. CASE WatcherStep /\ ~creditTransfer
    BY <2>4 DEF WatcherStep, Scan, upsertDeposit, getWalletLink, markDepositCredited, setCursor,
       setCursorToNewest
  <2> QED
    BY <2>1, <2>2, <2>3, <2>4 DEF TreasuryNext, WithdrawalStep, Forking
<1> DEFINE f == [i \in Indexes |-> credits[i] * AmountOf(i)]
           g == [i \in Indexes |-> credits'[i] * AmountOf(i)]
<1>2. \A i \in Indexes : f[i] \in Nat /\ g[i] \in Nat /\ f[i] <= g[i]
  <2> SUFFICES ASSUME NEW i \in Indexes PROVE f[i] \in Nat /\ g[i] \in Nat /\ f[i] <= g[i]
    OBVIOUS
  <2>1. credits[i] \in {0, 1} /\ credits'[i] \in {0, 1} /\ (credits[i] = 1 => credits'[i] = 1)
    BY <1>1 DEF DInv, DepositTypes
  <2>2. AmountOf(i) \in Nat /\ 0 * AmountOf(i) = 0 /\ 1 * AmountOf(i) = AmountOf(i)
    OBVIOUS
  <2> QED
    BY <2>1, <2>2
<1>3. SumFunctionOnSet(f, Indexes) <= SumFunctionOnSet(g, Indexes)
      /\ SumFunctionOnSet(g, Indexes) \in Nat
  BY <1>2, SumOnMono, SumOnUnfold
<1>4. Credited = SumFunctionOnSet(f, Indexes)
  BY DEF Credited
<1>5. Credited' = SumFunctionOnSet(g, Indexes)
  BY DEF Credited, AmountOf, Indexes
<1> QED
  BY <1>3, <1>4, <1>5

LEMMA BalanceIs ==
    ASSUME DInv, WInv
    PROVE  /\ row.state = "none" => Balance = Credited
           /\ row.state # "none" => Balance = IF refunds = 1 THEN Credited ELSE Credited - Amount
<1>1. Credited \in Nat /\ Amount \in Nat
  BY CreditFacts, Constants
<1>2. refunds \in {0, 1} /\ (row.state = "none" => refunds = 0)
  BY DEF WInv, WithdrawalTypes, RowIsCurrent
<1>3. Balance = Credited + Amount * (refunds - (IF row.state = "none" THEN 0 ELSE 1))
  BY DEF Balance, Credited
<1>4. CASE row.state = "none"
  <2>1. Amount * (0 - 0) = 0
    BY <1>1
  <2> QED
    BY <1>1, <1>2, <1>3, <1>4, <2>1
<1>5. CASE row.state # "none" /\ refunds = 1
  <2>1. Amount * (1 - 1) = 0
    BY <1>1
  <2> QED
    BY <1>1, <1>3, <1>5, <2>1
<1>6. CASE row.state # "none" /\ refunds = 0
  <2>1. Amount * (0 - 1) = 0 - Amount
    BY <1>1
  <2> QED
    BY <1>1, <1>3, <1>6, <2>1
<1> QED
  BY <1>2, <1>4, <1>5, <1>6

LEMMA NextIInv == IInv /\ [TreasuryNext]_vars => IInv'
<1> SUFFICES ASSUME IInv, [TreasuryNext]_vars PROVE IInv'
  OBVIOUS
<1>1. DInv' /\ WInv'
  BY NextDInv, NextWInv DEF IInv
<1>2. Credited <= Credited' /\ Credited' \in Nat /\ Credited \in Nat /\ Amount \in Nat
  BY <1>1, CreditsGrow, CreditFacts, Constants DEF IInv
<1>4. row.state = "none" /\ row'.state # "none" => Credited >= Amount
  <2>1. row.state = "none" /\ row'.state # "none" => requestWithdrawal
    <3>1. CASE OutboxStep
      BY <3>1 DEF OutboxStep, StartTick, BuildTransfer, BuildImpossible, markWithdrawalSubmitted,
         broadcastRawTx, getSigStatus, isBlockheightExceeded, postRefund, markWithdrawalFailed,
         markWithdrawalConfirmed, RESIGNABLE_WITHDRAWAL_STATES
    <3>2. CASE UNCHANGED withdrawalVars
      BY <3>2 DEF withdrawalVars
    <3>3. FinalizeSignature \/ LinkWallet \/ WatcherStep \/ WatcherFails => UNCHANGED withdrawalVars
      BY DEF FinalizeSignature, LinkWallet, WatcherStep, WatcherFails, Scan, upsertDeposit, getWalletLink,
         creditTransfer, markDepositCredited, setCursor, setCursorToNewest
    <3>4. CASE NextBlock \/ Landing \/ Forking \/ OutboxFails \/ Crash
      BY <3>4 DEF NextBlock, Landing, Confirm, Land, Forking, Fork, OutboxFails, Crash
    <3> QED
      BY <3>1, <3>2, <3>3, <3>4 DEF TreasuryNext, Forking, vars
  <2>2. requestWithdrawal => Balance >= Amount /\ row.state = "none"
    BY DEF requestWithdrawal
  <2> QED
    BY <2>1, <2>2, BalanceIs DEF IInv
<1>5. DebitIsCovered'
  BY <1>2, <1>4 DEF IInv, DebitIsCovered
<1> QED
  BY <1>1, <1>5 DEF IInv
\* The invariant holds in every state: deposits, blocks, forks, crashes and the
\* outbox's two reads interleave freely.
THEOREM TreasuryInvariant == TreasurySpec => []IInv
  BY InitIInv, NextIInv, PTL DEF TreasurySpec

\* Rows and ticks keep their types, a submitted row has its bytes, and the user's
\* balance is never negative: wager_request_withdrawal checks it in the
\* transaction that debits it, and credits are never taken back.
THEOREM TreasuryTypes == TreasurySpec => []TreasuryTypeOK
<1>1. IInv => TreasuryTypeOK
  <2> SUFFICES ASSUME IInv PROVE TreasuryTypeOK
    OBVIOUS
  <2>1. /\ deposits \subseteq Indexes /\ attributed \subseteq deposits
        /\ credits \in [Indexes -> Nat] /\ cursor \in 0..history /\ watcher.upTo \in 0..history
    BY DEF IInv, DInv, DepositTypes
  <2>2. /\ refunds \in Nat /\ row.state \in {"none", "debited", "submitted", "confirmed", "failed"}
        /\ row.tx \in 0..Len(txs) /\ (row.state = "submitted" => row.tx # NoTx)
    BY WithdrawalFacts DEF IInv, WInv, WithdrawalTypes, RowRecords, RowIsCurrent, NoTx
  <2>3. Balance >= 0
    BY BalanceIs, CreditFacts, Constants DEF IInv, DebitIsCovered
  <2> QED
    BY <2>1, <2>2, <2>3 DEF TreasuryTypeOK
<1> QED
  BY <1>1, TreasuryInvariant, PTL

\* Whatever the watcher will never scan again is on file, wherever a tick of
\* DepositWatcher is cut short.
THEOREM CursorIsSafe == TreasurySpec => []CursorLeavesNothingBehind
<1>1. IInv => CursorLeavesNothingBehind
  BY DEF IInv, DInv
<1> QED
  BY <1>1, TreasuryInvariant, PTL

\* What went out, counted with the refund: one, and one more for each answer that
\* the chain has belied.
WentOut ==
    /\ IsFiniteSet(Paid) /\ Cardinality(Paid) \in Nat /\ refunds \in {0, 1} /\ slips \in Nat
    /\ Cardinality(Paid) + refunds <= 1 + slips
    /\ row.state = "none" => Paid = {} /\ refunds = 0

LEMMA PaidFacts == IInv => WentOut
<1> SUFFICES ASSUME IInv PROVE WentOut
  OBVIOUS
<1> USE WithdrawalFacts DEF WentOut
<1>0. WithdrawalTypes /\ RowIsCurrent /\ ExtraIsBelied /\ refunds \in {0, 1} /\ slips \in Nat
  BY DEF IInv, WInv, WithdrawalTypes
<1>1. Paid \subseteq Live
  BY <1>0 DEF Paid, Live, DeadTransfer
<1>2. IsFiniteSet(Paid) /\ Cardinality(Paid) <= Cardinality(Live) /\ Cardinality(Paid) \in Nat
  BY <1>0, <1>1, LiveCounts, FS_Subset, FS_CardinalityType DEF Counts
<1>3. /\ Cardinality(Older) \in Nat /\ Cardinality(Live) \in Nat /\ Belied \in {0, 1}
      /\ Cardinality(Live) <= Cardinality(Older) + 1 /\ Cardinality(Older) + Belied <= slips
  BY <1>0, LiveCounts DEF Belied, ExtraIsBelied, Counts
<1>4. CASE Len(txs) \in Paid
  <2>1. ~Refundable
    BY <1>0, <1>4 DEF Paid, Refundable
  <2>2. refunds <= Belied
    BY <1>0, <2>1 DEF Belied, Committed
  <2> QED
    BY <1>0, <1>2, <1>3, <2>2 DEF RowIsCurrent, Paid
<1>5. CASE Len(txs) \notin Paid
  <2>1. Paid \subseteq Older
    BY <1>1, <1>5 DEF Older
  <2>2. Cardinality(Paid) <= Cardinality(Older)
    BY <1>0, <2>1, LiveCounts, FS_Subset DEF Counts
  <2>3. row.state = "none" => Paid = {} /\ refunds = 0
    BY <1>0 DEF RowIsCurrent, Paid
  <2> QED
    BY <1>0, <1>2, <1>3, <2>2, <2>3
<1> QED
  BY <1>4, <1>5

LEMMA PaidFactsNext == IInv' => WentOut'
  BY PaidFacts, PTL

\* The treasury holds what the ledger owes (solvency.ts), but for one withdrawal
\* for each answer of the chain that was belied: a window that closed between the
\* two reads of the outbox, a failure undone by a fork after it was refunded.  With
\* none of those a withdrawal is never paid twice, nor paid and refunded.
THEOREM TreasuryIsSolvent == TreasurySpec => []TreasuryCoversLedger
<1>1. IInv => TreasuryCoversLedger
  <2> SUFFICES ASSUME IInv PROVE TreasuryCoversLedger
    OBVIOUS
  <2> DEFINE n == Cardinality(Paid)
  <2>1. Credited \in Nat /\ Received \in Nat /\ Credited <= Received /\ Amount \in Nat
    BY CreditFacts, Constants DEF IInv
  <2>2. n \in Nat /\ refunds \in {0, 1} /\ slips \in Nat /\ n + refunds <= 1 + slips
        /\ (row.state = "none" => Paid = {} /\ refunds = 0)
    BY PaidFacts DEF WentOut
  <2>3. CASE row.state = "none"
    <3>1. n = 0 /\ Balance = Credited
      BY <2>2, <2>3, BalanceIs, FS_EmptySet DEF IInv
    <3>2. Amount * 0 = 0 /\ Amount * slips >= 0 /\ Amount * slips \in Int
      BY <2>1, <2>2
    <3> QED
      BY <2>1, <3>1, <3>2 DEF TreasuryCoversLedger
  <2>4. CASE row.state # "none"
    <3>1. Balance = IF refunds = 1 THEN Credited ELSE Credited - Amount
      BY <2>4, BalanceIs DEF IInv
    <3> HIDE DEF n
    <3>2. CASE refunds = 1
      <4>1. n <= slips /\ Balance = Credited
        BY <2>2, <3>1, <3>2
      <4>2. Amount * n <= Amount * slips /\ Amount * n \in Int /\ Amount * slips \in Int
        BY <2>1, <2>2, <4>1
      <4> QED
        BY <2>1, <4>1, <4>2 DEF TreasuryCoversLedger, n
    <3>3. CASE refunds = 0
      <4>1. n <= slips + 1 /\ Balance = Credited - Amount
        BY <2>2, <3>1, <3>3
      <4>2. Amount * n <= Amount * (slips + 1) /\ Amount * n \in Int /\ Amount * slips \in Int
        BY <2>1, <2>2, <4>1
      <4>3. Amount * (slips + 1) = Amount * slips + Amount
        BY <2>1, <2>2
      <4> QED
        BY <2>1, <4>1, <4>2, <4>3 DEF TreasuryCoversLedger, n
    <3> QED
      BY <2>2, <3>2, <3>3
  <2> QED
    BY <2>3, <2>4
<1> QED
  BY <1>1, TreasuryInvariant, PTL

-----------------------------------------------------------------------------
(* The withdrawal implements WithdrawalPromise. *)

Outcome == IF row.state \in {"confirmed", "failed"} THEN row.state ELSE "open"

LEMMA RefinesInit == TreasuryInit => Promise!PromiseInit
<1> SUFFICES ASSUME TreasuryInit PROVE Promise!PromiseInit
  OBVIOUS
<1>1. PaidForGood = {}
  BY DEF TreasuryInit, PaidForGood
<1>2. Cardinality(PaidForGood) = 0
  BY <1>1, FS_EmptySet
<1> QED
  BY <1>2 DEF TreasuryInit, Promise!PromiseInit

\* A step that leaves the promise's variables alone, or belies an answer.
LEMMA Stutters ==
    ASSUME PaidForGood' = PaidForGood, refunds' = refunds, Outcome' = Outcome,
           slips' = slips \/ slips' = slips + 1
    PROVE  [Promise!PromiseNext]_(Promise!promiseVars)
  BY DEF Promise!promiseVars, Promise!PromiseNext, Promise!Slip, Outcome

\* Transfers that keep their confirmations keep PaidForGood.
LEMMA SamePaid ==
    ASSUME DOMAIN txs' = DOMAIN txs,
           \A t \in DOMAIN txs : txs'[t].state = "confirmed" <=> txs[t].state = "confirmed"
    PROVE  PaidForGood' = PaidForGood
  BY DEF PaidForGood

LEMMA RefinesNext ==
    ASSUME IInv, IInv', [TreasuryNext]_vars
    PROVE  [Promise!PromiseNext]_(Promise!promiseVars)
<1> USE WithdrawalFacts
<1>0. WithdrawalTypes /\ RowIsCurrent /\ RefundIsDue
  BY DEF IInv, WInv
<1>a. PaidForGood \subseteq Paid
  BY DEF Paid, PaidForGood
<1>b. IsFiniteSet(PaidForGood) /\ Cardinality(PaidForGood) \in Nat
  BY <1>a, PaidFacts, FS_Subset, FS_CardinalityType DEF WentOut
<1>c. /\ Cardinality(PaidForGood') \in Nat /\ refunds' \in {0, 1} /\ slips' \in Nat
      /\ Cardinality(PaidForGood') + refunds' <= 1 + slips'
  <2>1. /\ IsFiniteSet(Paid') /\ Cardinality(Paid') \in Nat /\ refunds' \in {0, 1} /\ slips' \in Nat
        /\ Cardinality(Paid') + refunds' <= 1 + slips'
    BY PaidFactsNext DEF WentOut
  <2>2. PaidForGood' \subseteq Paid'
    BY DEF Paid, PaidForGood
  <2>3. Cardinality(PaidForGood') <= Cardinality(Paid') /\ Cardinality(PaidForGood') \in Nat
    BY <2>1, <2>2, FS_Subset, FS_CardinalityType
  <2> QED
    BY <2>1, <2>3
<1>u. ASSUME UNCHANGED <<txs, refunds>>, Outcome' = Outcome, slips' = slips \/ slips' = slips + 1
      PROVE  [Promise!PromiseNext]_(Promise!promiseVars)
  BY <1>u, Stutters DEF PaidForGood
<1>1. CASE UNCHANGED withdrawalVars
  BY <1>1, <1>u DEF withdrawalVars, Outcome
<1>2. CASE NextBlock \/ OutboxFails \/ Crash
  BY <1>2, <1>u DEF NextBlock, OutboxFails, Crash, Outcome
<1>3. CASE requestWithdrawal
  <2>1. row'.state = "debited"
    BY <1>0, <1>3 DEF requestWithdrawal, WithdrawalTypes, RowRecords
  <2> QED
    BY <1>3, <1>u, <2>1 DEF requestWithdrawal, Outcome
<1>4. CASE StartTick \/ BuildTransfer \/ BuildImpossible \/ getSigStatus \/ isBlockheightExceeded
  BY <1>4, <1>u DEF StartTick, BuildTransfer, BuildImpossible, getSigStatus, isBlockheightExceeded, Outcome
<1>5. ASSUME NEW t \in DOMAIN txs, NEW s \in {"processed", "failed"}, Land(t, s)
      PROVE  [Promise!PromiseNext]_(Promise!promiseVars)
  <2>1. /\ DOMAIN txs' = DOMAIN txs
        /\ \A u \in DOMAIN txs : txs'[u].state = "confirmed" <=> txs[u].state = "confirmed"
    BY <1>0, <1>5 DEF Land, TxRecords
  <2> QED
    BY <1>5, <2>1, SamePaid, Stutters DEF Land, Outcome
<1>6. ASSUME NEW t \in DOMAIN txs, NEW s \in {"sent", "processed", "failed"}, Fork(t, s)
      PROVE  [Promise!PromiseNext]_(Promise!promiseVars)
  <2>1. /\ DOMAIN txs' = DOMAIN txs
        /\ \A u \in DOMAIN txs : txs'[u].state = "confirmed" <=> txs[u].state = "confirmed"
    BY <1>0, <1>6 DEF Fork, TxRecords
  <2> QED
    BY <1>6, <2>1, SamePaid, Stutters DEF Fork, Outcome
<1>7. ASSUME NEW t \in DOMAIN txs, Confirm(t)
      PROVE  [Promise!PromiseNext]_(Promise!promiseVars)
  <2>0. /\ txs[t].state \in {"processed", "failed"} /\ UNCHANGED <<row, refunds, slips>>
        /\ txs' = [txs EXCEPT ![t].state = IF txs[t].state = "failed" THEN "rejected" ELSE "confirmed"]
    BY <1>7 DEF Confirm
  <2>1. /\ DOMAIN txs' = DOMAIN txs /\ \A u \in DOMAIN txs : u # t => txs'[u] = txs[u]
        /\ txs'[t].state = IF txs[t].state = "failed" THEN "rejected" ELSE "confirmed"
    BY <1>0, <2>0 DEF TxRecords
  <2>2. CASE txs[t].state = "failed"
    <3>1. \A u \in DOMAIN txs : txs'[u].state = "confirmed" <=> txs[u].state = "confirmed"
      BY <2>1, <2>2
    <3> QED
      BY <2>0, <2>1, <3>1, SamePaid, Stutters DEF Outcome
  <2>3. CASE txs[t].state = "processed"
    <3>1. t \notin PaidForGood
      BY <2>3 DEF PaidForGood
    <3>2. PaidForGood' = PaidForGood \cup {t}
      BY <2>1, <2>3 DEF PaidForGood
    <3>3. Cardinality(PaidForGood') = Cardinality(PaidForGood) + 1
      BY <1>b, <3>1, <3>2, FS_AddElement
    <3>4. Cardinality(PaidForGood) + refunds <= slips
      BY <1>b, <1>c, <2>0, <3>3
    <3> QED
      BY <2>0, <3>3, <3>4 DEF Promise!PromiseNext, Promise!PayOut
  <2> QED
    BY <2>0, <2>2, <2>3
<1>8. CASE markWithdrawalSubmitted
  <2>0. UNCHANGED <<refunds, slips>> /\ row.state \in {"debited", "submitted"}
        /\ row' = [row EXCEPT !.state = "submitted", !.tx = Len(txs')]
    BY <1>8 DEF markWithdrawalSubmitted, RESIGNABLE_WITHDRAWAL_STATES
  <2>1. row'.state = "submitted"
    BY <1>0, <2>0 DEF WithdrawalTypes, RowRecords
  <2> DEFINE new == [lastValid |-> outbox.lastValid, state |-> "signed"]
  <2>2. txs' = Append(txs, new) /\ txs \in Seq(TxRecords) /\ new.state = "signed" /\ new \in TxRecords
    BY <1>0, <1>8 DEF markWithdrawalSubmitted, WithdrawalTypes, OutboxRecords, TxRecords, TxStates
  <2> HIDE DEF new
  <2>3. /\ DOMAIN txs' = 1..(Len(txs) + 1) /\ txs'[Len(txs) + 1] = new
        /\ \A u \in DOMAIN txs : txs'[u] = txs[u]
    BY <2>2
  <2>4. PaidForGood' = PaidForGood
    BY <1>0, <2>2, <2>3 DEF PaidForGood
  <2> QED
    BY <2>0, <2>1, <2>4, Stutters DEF Outcome
<1>9. CASE broadcastRawTx
  <2>0. outbox.tx \in DOMAIN txs /\ UNCHANGED <<row, refunds, slips>>
    BY <1>0, <1>9 DEF broadcastRawTx, RowIsCurrent
  <2>1. /\ DOMAIN txs' = DOMAIN txs
        /\ \A u \in DOMAIN txs : txs'[u].state = "confirmed" <=> txs[u].state = "confirmed"
    BY <1>0, <1>9, <2>0 DEF broadcastRawTx, TxRecords
  <2> QED
    BY <2>0, <2>1, SamePaid, Stutters DEF Outcome
<1>10. CASE postRefund
  <2>0. UNCHANGED <<txs, row, slips>> /\ refunds' = 1 /\ outbox.at = "refund" /\ refunds \in {0, 1}
    BY <1>0, <1>10 DEF postRefund, WithdrawalTypes
  <2>1. CASE refunds = 1
    BY <1>u, <2>0, <2>1 DEF Outcome
  <2>2. CASE refunds = 0
    <3>1. PaidForGood' = PaidForGood
      BY <2>0 DEF PaidForGood
    <3>2. Cardinality(PaidForGood) <= slips
      BY <1>b, <1>c, <2>0, <3>1
    <3> QED
      BY <2>0, <2>2, <3>1, <3>2 DEF Promise!PromiseNext, Promise!GiveBack
  <2> QED
    BY <2>0, <2>1, <2>2
<1>11. CASE markWithdrawalFailed
  <2>0. /\ UNCHANGED <<txs, refunds, slips>> /\ outbox.at = "fail" /\ row' = [row EXCEPT !.state = "failed"]
        /\ row.state \in {"debited", "submitted"}
    BY <1>11 DEF markWithdrawalFailed, RESIGNABLE_WITHDRAWAL_STATES
  <2>1. row'.state = "failed" /\ refunds = 1
    BY <1>0, <2>0 DEF RefundIsDue, WithdrawalTypes, RowRecords
  <2>2. Cardinality(PaidForGood') = Cardinality(PaidForGood)
    BY <2>0 DEF PaidForGood
  <2> QED
    BY <2>0, <2>1, <2>2 DEF Promise!PromiseNext, Promise!ReportFailed
<1>12. CASE markWithdrawalConfirmed
  <2>0. /\ UNCHANGED <<txs, refunds, slips>> /\ outbox.at = "confirm" /\ row' = [row EXCEPT !.state = "confirmed"]
        /\ row.state = "submitted"
    BY <1>12 DEF markWithdrawalConfirmed
  <2>1. row'.state = "confirmed" /\ txs # <<>> /\ txs[Len(txs)].state = "confirmed"
    BY <1>0, <2>0 DEF RefundIsDue, WithdrawalTypes, RowRecords
  <2>2. PaidForGood # {}
    BY <1>0, <2>1 DEF PaidForGood
  <2>3. Cardinality(PaidForGood) > 0
    BY <1>b, <2>2, FS_EmptySet
  <2>4. Cardinality(PaidForGood') = Cardinality(PaidForGood)
    BY <2>0 DEF PaidForGood
  <2> QED
    BY <2>0, <2>1, <2>3, <2>4 DEF Promise!PromiseNext, Promise!ReportPaid
<1>13. FinalizeSignature \/ LinkWallet \/ WatcherStep \/ WatcherFails => UNCHANGED withdrawalVars
  BY DEF FinalizeSignature, LinkWallet, WatcherStep, WatcherFails, Scan, upsertDeposit, getWalletLink,
     creditTransfer, markDepositCredited, setCursor, setCursorToNewest
<1> QED
  BY <1>1, <1>2, <1>3, <1>4, <1>5, <1>6, <1>7, <1>8, <1>9, <1>10, <1>11, <1>12, <1>13
     DEF TreasuryNext, OutboxStep, Landing, Forking, vars

\* A withdrawal is paid once or refunded once, never both, and its row says which
\* only afterwards: for every number of crashes, lost answers and signed transfers,
\* and with one exception for each answer of the chain that forks or a window that
\* closes between the outbox's two reads have belied.
THEOREM WithdrawalKeepsPromise == TreasurySpec => PaidOrRefunded
<1>1. IInv /\ IInv' /\ [TreasuryNext]_vars => [Promise!PromiseNext]_(Promise!promiseVars)
  BY RefinesNext
<1> QED
  BY <1>1, TreasuryInvariant, RefinesInit, PTL DEF TreasurySpec, PaidOrRefunded, Promise!PromiseSpec

=============================================================================
