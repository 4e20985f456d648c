---------------------------- MODULE Relayer_proofs ----------------------------
(***************************************************************************)
(* Theorems about RelayerJob for every number of workers, transactions,    *)
(* attempts, blocks and faults: its types, that a live transaction is on   *)
(* the row, that a complete row is final, and that the job implements      *)
(* RelayedEffect.                                                          *)
(***************************************************************************)
EXTENDS RelayerJob, FiniteSums, FiniteSetTheorems, TLAPS

\* What the bounds give the proofs.
LEMMA Bounds ==
    /\ MaxAttempts \in Nat /\ MaxAttempts >= 1 /\ MaxTxs \in Nat /\ MaxTxs >= 1
    /\ BlockhashLife \in Nat /\ FinalityLag \in Nat /\ MaxHeight \in Nat /\ MaxFaults \in Nat
    /\ 1 \in Txs /\ NoTx \notin Txs /\ NoWorker \notin Workers /\ Txs \subseteq Nat
  BY RelayerBounds, WorkersAssumption DEF Txs, NoTx

USE DEF othersVars

-----------------------------------------------------------------------------
(* The inductive invariant *)

JobRecords == [state : JobStates, attempts : 0..MaxAttempts, owner : Workers \cup {NoWorker},
               raw : Txs \cup {NoTx}, lapsed : BOOLEAN]
WorkerRecords == [at : Steps, tx : Txs \cup {NoTx}]
TxRecords == [status : {"unsigned", "signed", "flying", "landed", "failed"},
              lastValid : Nat, at : Nat]

\* The steps a worker takes before its transaction is on the row.
Early == {"idle", "precheck", "record"}

\* The transaction can never land any more.
Expiry(t) == height > tx[t].lastValid

\* A row that nobody has enqueued has neither workers nor transactions.
NotYet ==
    job.state = "none" =>
        /\ job.raw = NoTx
        /\ \A w \in Workers : worker[w].at = "idle"
        /\ \A t \in Txs : tx[t].status = "unsigned"

\* A row that has ended has no lease.
EndedIsFree == job.state \in {"none", "complete", "dead"} => job.owner = NoWorker

\* A worker that still holds the lease of an unsigned row finds it unsigned.
LeaseIsCurrent ==
    \A w \in Workers :
        worker[w].at \in {"precheck", "record"} /\ job.owner = w => job.raw = NoTx

\* Whatever is on the row or in a worker's hands has been signed.
HeldIsSigned ==
    /\ job.raw # NoTx => tx[job.raw].status # "unsigned"
    /\ \A w \in Workers : worker[w].at \notin {"idle", "precheck"} =>
          worker[w].tx \in Txs /\ tx[worker[w].tx].status # "unsigned"

\* The user's bytes are the only transaction of a placement.
OneUserTransaction ==
    kind = "placement" =>
        /\ job.state # "none" => tx[1].status # "unsigned"
        /\ \A t \in Txs : t # 1 => tx[t].status = "unsigned"

\* A transaction that may land, or that a worker is about to send, is on the row
\* unless it has expired.
LiveIsRecorded ==
    /\ \A t \in Txs : tx[t].status = "flying" => job.raw = t \/ Expiry(t)
    /\ \A w \in Workers : worker[w].at \notin Early => job.raw = worker[w].tx \/ Expiry(worker[w].tx)

\* At most one transaction has landed; once it is off the row it is final; and
\* while others leave the market alone the row never holds another one beside it.
LandedOnce ==
    /\ \A t \in Landed : tx[t].at <= tx[t].lastValid /\ (job.raw = t \/ tx[t].at <= Finalized)
    /\ \A t, u \in Landed : t = u
    /\ superseded = "no" =>
          /\ \A t \in Landed : job.raw # NoTx => job.raw = t
          /\ \A w \in Workers : worker[w].at = "record" /\ job.owner = w =>
                \A t \in Landed : t = worker[w].tx

\* What the verifiers take for the effect has been recorded.
ElsewhereIsKnown ==
    /\ superseded \in {"same", "gone"} => elsewhere
    /\ superseded = "no" => ~elsewhere

IInv ==
    /\ RelayerTypeOK
    /\ NotYet /\ EndedIsFree /\ LeaseIsCurrent /\ HeldIsSigned /\ OneUserTransaction
    /\ LiveIsRecorded /\ LandedOnce /\ ElsewhereIsKnown /\ CompleteIsFinal

LEMMA TypeFacts ==
    ASSUME RelayerTypeOK
    PROVE  /\ job \in JobRecords /\ worker \in [Workers -> WorkerRecords]
           /\ tx \in [Txs -> TxRecords] /\ height \in Nat /\ Finalized \in Nat /\ Finalized <= height
  BY Bounds DEF RelayerTypeOK, JobRecords, WorkerRecords, TxRecords, Finalized

LEMMA InitIInv == RelayerInit => IInv
<1> SUFFICES ASSUME RelayerInit PROVE IInv
  OBVIOUS
<1>1. RelayerTypeOK
  <2>1. kind \in Kinds /\ height \in 0..MaxHeight /\ faults \in 0..MaxFaults
    BY Bounds DEF RelayerInit
  <2>5. leaseLive \in BOOLEAN /\ superseded \in Overtakings /\ elsewhere \in BOOLEAN
    BY DEF RelayerInit, Overtakings
  <2>2. job \in JobRecords
    BY Bounds DEF RelayerInit, JobRecords, JobStates
  <2>3. worker \in [Workers -> WorkerRecords]
    BY DEF RelayerInit, WorkerRecords, Steps
  <2>4. tx \in [Txs -> TxRecords]
    BY DEF RelayerInit, TxRecords
  <2> QED
    BY <2>1, <2>2, <2>3, <2>4, <2>5 DEF RelayerTypeOK, JobRecords, WorkerRecords, TxRecords
<1>2. NotYet /\ EndedIsFree /\ LeaseIsCurrent /\ HeldIsSigned /\ OneUserTransaction
      /\ ElsewhereIsKnown /\ CompleteIsFinal
  BY Bounds DEF RelayerInit, ElsewhereIsKnown, NotYet, EndedIsFree, LeaseIsCurrent, HeldIsSigned, OneUserTransaction,
     CompleteIsFinal
<1>3. LiveIsRecorded /\ LandedOnce
  BY DEF RelayerInit, LiveIsRecorded, LandedOnce, Landed, Early
<1> QED
  BY <1>1, <1>2, <1>3 DEF IInv

-----------------------------------------------------------------------------
(* Steps that write the row, or are refused, and end the worker's cycle. *)

\* What every mutation of the row keeps: it gives the lease back, and it drops a
\* transaction only when that has expired for good.
MayWrite(row) ==
    /\ row \in JobRecords
    /\ row.owner = NoWorker /\ row.state # "none"
    /\ row.raw # job.raw => row.raw = NoTx /\ Finalized > tx[job.raw].lastValid
    /\ row.state = "complete" => FinalLanded # {} \/ elsewhere

LEMMA RowStep ==
    ASSUME IInv, NEW w \in Workers,
           worker[w].at # "idle",
           UNCHANGED <<kind, tx, height, superseded, elsewhere>>, faults' \in 0..MaxFaults,
           Stop(w), leaseLive' \in BOOLEAN,
           \/ UNCHANGED job
           \/ job.owner = w /\ MayWrite(job')
    PROVE  IInv'
<1> USE Bounds
<1>0. job \in JobRecords /\ worker \in [Workers -> WorkerRecords]
      /\ tx \in [Txs -> TxRecords] /\ height \in Nat /\ Finalized \in Nat /\ Finalized <= height
  BY TypeFacts DEF IInv
<1>a. job' \in JobRecords /\ worker' \in [Workers -> WorkerRecords]
  BY <1>0 DEF MayWrite, Stop, WorkerRecords, Steps
<1>b. \A v \in Workers : v # w => worker'[v] = worker[v]
  BY <1>0 DEF Stop
<1>c. worker'[w].at = "idle" /\ worker'[w].tx = NoTx
  BY <1>0 DEF Stop
<1>d. job.state # "none"
  BY DEF IInv, NotYet
<1>e. job'.state # "none"
  BY <1>d DEF MayWrite
<1>f. Finalized' = Finalized /\ Landed' = Landed /\ FinalLanded' = FinalLanded
  BY DEF Finalized, Landed, FinalLanded
<1>g. \A t \in Txs : Expiry(t)' <=> Expiry(t)
  BY DEF Expiry
<1>1. RelayerTypeOK'
  BY <1>a DEF IInv, RelayerTypeOK, JobRecords, WorkerRecords
<1>2. NotYet' /\ OneUserTransaction'
  BY <1>d, <1>e DEF IInv, NotYet, OneUserTransaction
<1>3. EndedIsFree' /\ CompleteIsFinal' /\ ElsewhereIsKnown'
  BY <1>f DEF IInv, EndedIsFree, CompleteIsFinal, ElsewhereIsKnown, MayWrite
<1>4. LeaseIsCurrent'
  BY <1>b, <1>c DEF IInv, LeaseIsCurrent, MayWrite
<1>5. HeldIsSigned'
  BY <1>b, <1>c DEF IInv, HeldIsSigned, MayWrite
<1>6. LiveIsRecorded'
  <2>1. \A t \in Txs : job.raw = t => job'.raw = t \/ Expiry(t)
    BY <1>0 DEF MayWrite, Expiry, TxRecords
  <2>2. \A v \in Workers : worker[v].at \notin Early => worker[v].tx \in Txs
    BY DEF IInv, HeldIsSigned, Early
  <2> QED
    BY <2>1, <2>2, <1>b, <1>c, <1>g DEF IInv, LiveIsRecorded, Early
<1>7. LandedOnce'
  <2>1. \A t \in Landed : tx[t].at <= tx[t].lastValid /\ (job.raw = t \/ tx[t].at <= Finalized)
    BY DEF IInv, LandedOnce
  <2>2. \A t \in Landed : t \in Txs /\ tx[t] \in TxRecords
    BY <1>0 DEF Landed
  <2>3. \A t \in Landed : job'.raw = t \/ tx[t].at <= Finalized
    BY <2>1, <2>2, <1>0 DEF MayWrite, TxRecords
  <2>4. superseded = "no" => \A t \in Landed : job'.raw # NoTx => job'.raw = t
    BY DEF IInv, LandedOnce, MayWrite
  <2> QED
    BY <1>b, <1>c, <1>f, <2>1, <2>3, <2>4 DEF IInv, LandedOnce, MayWrite
<1> QED
  BY <1>1, <1>2, <1>3, <1>4, <1>5, <1>6, <1>7 DEF IInv

LEMMA MutateStep ==
    ASSUME IInv, NEW w \in Workers, worker[w].at # "idle",
           NEW allowed, NEW row, NEW live \in BOOLEAN, Mutate(w, allowed, row, live),
           job.owner = w /\ allowed => MayWrite(row)
    PROVE  IInv'
<1>1. leaseLive' \in BOOLEAN /\ faults' \in 0..MaxFaults
  BY DEF Mutate, IInv, RelayerTypeOK
<1>2. UNCHANGED job \/ (job.owner = w /\ MayWrite(job'))
  BY DEF Mutate
<1> QED
  BY <1>1, <1>2, RowStep DEF Mutate

LEMMA RetryUnknownStep ==
    ASSUME IInv, NEW w \in Workers, worker[w].at # "idle", retryUnknown(w)
    PROVE  IInv'
<1> DEFINE row == [job EXCEPT !.state = "unknown", !.owner = NoWorker]
<1>1. MayWrite(row)
  BY TypeFacts DEF IInv, MayWrite, JobRecords, JobStates
<1> HIDE DEF row
<1> QED
  BY <1>1, MutateStep DEF retryUnknown, row

LEMMA RetryUnsignedStep ==
    ASSUME IInv, NEW w \in Workers, worker[w].at # "idle", retryUnsigned(w)
    PROVE  IInv'
<1> DEFINE row == [job EXCEPT !.state = "retry_wait", !.owner = NoWorker, !.raw = NoTx]
           allowed == /\ job.state \in {"leased", "signed"}
                      /\ job.raw # NoTx => Finalized > tx[job.raw].lastValid
<1>1. allowed => MayWrite(row)
  BY TypeFacts DEF IInv, MayWrite, JobRecords, JobStates
<1>2. Mutate(w, allowed, row, FALSE)
  BY DEF retryUnsigned
<1> HIDE DEF row, allowed
<1> QED
  BY <1>1, <1>2, MutateStep

LEMMA CompleteStep ==
    ASSUME IInv, NEW w \in Workers, worker[w].at # "idle", completeRelayerJob(w),
           confirm = "confirmed"
    PROVE  IInv'
<1> DEFINE row == [job EXCEPT !.state = "complete", !.owner = NoWorker]
<1>1. FinalLanded # {} \/ elsewhere
  BY KindsAssumption DEF IInv, RelayerTypeOK, ElsewhereIsKnown, JobKinds, Overtakings, confirm, confirmControl, confirmRecovery,
     confirmPlacement, ownEffect
<1>2. MayWrite(row)
  BY TypeFacts, <1>1 DEF IInv, MayWrite, JobRecords, JobStates
<1> HIDE DEF row
<1> QED
  BY <1>2, MutateStep DEF completeRelayerJob, row

LEMMA DeadStep ==
    ASSUME IInv, NEW w \in Workers, worker[w].at # "idle", NEW lapsed \in BOOLEAN, dead(w, lapsed)
    PROVE  IInv'
<1> DEFINE row == [job EXCEPT !.state = "dead", !.owner = NoWorker, !.lapsed = lapsed]
<1>1. MayWrite(row)
  BY TypeFacts DEF IInv, MayWrite, JobRecords, JobStates
<1> HIDE DEF row
<1> QED
  BY <1>1, MutateStep DEF dead, row

-----------------------------------------------------------------------------
(* Steps that leave the row alone and work on a recorded transaction. *)

\* sendRawTransaction, or no broadcast at all; the worker goes on or ends.
LEMMA BroadcastStep ==
    ASSUME IInv, NEW w \in Workers, worker[w].at \notin Early,
           broadcast(worker[w].tx) \/ UNCHANGED tx,
           Stop(w) \/ \E step \in Steps \ Early : Goto(w, step),
           UNCHANGED <<kind, job, leaseLive, height, superseded, elsewhere, faults>>
    PROVE  IInv'
<1> USE Bounds
<1>0. job \in JobRecords /\ worker \in [Workers -> WorkerRecords]
      /\ tx \in [Txs -> TxRecords] /\ height \in Nat /\ Finalized \in Nat /\ Finalized <= height
  BY TypeFacts DEF IInv
<1> DEFINE t == worker[w].tx
<1>t. t \in Txs /\ (job.raw = t \/ Expiry(t))
  BY DEF IInv, HeldIsSigned, LiveIsRecorded, Early
<1> HIDE DEF t
<1>a. tx' \in [Txs -> TxRecords]
  BY <1>0, <1>t DEF broadcast, TxRecords, t
<1>b. worker' \in [Workers -> WorkerRecords]
  BY <1>0 DEF Stop, Goto, WorkerRecords, Steps
<1>c. \A v \in Workers : v # w => worker'[v] = worker[v]
  BY <1>0 DEF Stop, Goto
<1>d. worker'[w].at = "idle" \/ (worker'[w].at \notin Early /\ worker'[w].tx = t)
  BY <1>0 DEF Stop, Goto, WorkerRecords, t
<1>e. \A u \in Txs : /\ tx'[u].lastValid = tx[u].lastValid /\ tx'[u].at = tx[u].at
                     /\ tx'[u].status = tx[u].status
                        \/ (u = t /\ tx[u].status = "signed" /\ tx'[u].status = "flying")
  BY <1>0, <1>t DEF broadcast, TxRecords, t
<1>f. Finalized' = Finalized /\ Landed' = Landed /\ FinalLanded' = FinalLanded
  BY <1>e DEF Finalized, Landed, FinalLanded
<1>g. \A u \in Txs : Expiry(u)' <=> Expiry(u)
  BY <1>e DEF Expiry
<1>1. RelayerTypeOK'
  BY <1>a, <1>b DEF IInv, RelayerTypeOK, TxRecords, WorkerRecords
<1>2. NotYet' /\ OneUserTransaction'
  <2>1. job.state # "none"
    BY DEF IInv, NotYet, Early
  <2> QED
    BY <2>1, <1>e DEF IInv, NotYet, OneUserTransaction
<1>3. EndedIsFree' /\ CompleteIsFinal' /\ ElsewhereIsKnown'
  BY <1>f DEF IInv, EndedIsFree, CompleteIsFinal, ElsewhereIsKnown
<1>4. LeaseIsCurrent'
  BY <1>c, <1>d DEF IInv, LeaseIsCurrent, Early
<1>5. HeldIsSigned'
  <2>1. \A u \in Txs : tx[u].status # "unsigned" => tx'[u].status # "unsigned"
    BY <1>e
  <2>2. job.raw # NoTx => job.raw \in Txs
    BY <1>0 DEF JobRecords
  <2>3. tx[t].status # "unsigned"
    BY DEF IInv, HeldIsSigned, Early, t
  <2> QED
    BY <2>1, <2>2, <2>3, <1>t, <1>c, <1>d DEF IInv, HeldIsSigned
<1>6. LiveIsRecorded'
  <2>1. \A u \in Txs : tx'[u].status = "flying" => job.raw = u \/ Expiry(u)
    BY <1>e, <1>t DEF IInv, LiveIsRecorded
  <2>2. \A v \in Workers : worker'[v].at \notin Early =>
            worker'[v].tx \in Txs /\ (job.raw = worker'[v].tx \/ Expiry(worker'[v].tx))
    BY <1>c, <1>d, <1>t DEF IInv, LiveIsRecorded, HeldIsSigned, Early
  <2> QED
    BY <2>1, <2>2, <1>g DEF LiveIsRecorded
<1>7. LandedOnce'
  <2>1. \A u \in Landed : u \in Txs
    BY DEF Landed
  <2>2. \A u \in Landed : /\ tx'[u].at <= tx'[u].lastValid
                          /\ job'.raw = u \/ tx'[u].at <= Finalized'
    BY <2>1, <1>e, <1>f DEF IInv, LandedOnce
  <2>3. \A v \in Workers : worker'[v].at = "record" => v # w
    BY <1>d DEF Early
  <2>4. superseded = "no" => \A v \in Workers : worker'[v].at = "record" /\ job'.owner = v =>
            \A u \in Landed : u = worker'[v].tx
    BY <2>3, <1>c DEF IInv, LandedOnce
  <2> QED
    BY <2>2, <2>4, <1>f DEF IInv, LandedOnce
<1> QED
  BY <1>1, <1>2, <1>3, <1>4, <1>5, <1>6, <1>7 DEF IInv

LEMMA GotoStep ==
    ASSUME IInv, NEW w \in Workers, worker[w].at \notin Early,
           NEW step \in Steps \ Early, Goto(w, step),
           UNCHANGED <<kind, job, leaseLive, chainVars, faults>>
    PROVE  IInv'
  BY BroadcastStep DEF chainVars

-----------------------------------------------------------------------------
(* The other steps, one lemma for each action. *)

LEMMA LandStep ==
    ASSUME IInv, NEW t \in Txs, Land(t)
    PROVE  IInv'
<1> USE Bounds
<1>0. job \in JobRecords /\ worker \in [Workers -> WorkerRecords]
      /\ tx \in [Txs -> TxRecords] /\ height \in Nat /\ Finalized \in Nat /\ Finalized <= height
  BY TypeFacts DEF IInv
<1>1. tx[t].status = "flying" /\ height <= tx[t].lastValid /\ tx[t].lastValid \in Nat
  BY <1>0 DEF Land, TxRecords
<1>2. job.raw = t /\ job.raw # NoTx
  BY <1>0, <1>1 DEF IInv, LiveIsRecorded, Expiry
<1>3. t \notin Landed /\ (superseded = "no" => Landed = {})
  BY <1>1, <1>2 DEF IInv, LandedOnce, Landed
<1>a. tx' \in [Txs -> TxRecords]
  BY <1>0 DEF Land, TxRecords
<1>b. \A u \in Txs : /\ tx'[u].lastValid = tx[u].lastValid
                     /\ u # t => tx'[u] = tx[u]
  BY <1>0 DEF Land, TxRecords
<1>c. tx'[t].at = height /\ tx'[t].status \in {"landed", "failed"}
  BY <1>0 DEF Land, TxRecords
<1>d. UNCHANGED <<kind, job, leaseLive, worker, height, superseded, elsewhere, faults>> /\ Finalized' = Finalized
  BY DEF Land, Finalized
<1>e. /\ Landed' \subseteq Landed \cup {t} /\ Landed \subseteq Landed'
      /\ superseded # "no" => Landed' = Landed
  <2>1. superseded # "no" => tx'[t].status = "failed"
    BY <1>0 DEF Land, TxRecords
  <2> QED
    BY <2>1, <1>3, <1>b DEF Landed
<1>4. RelayerTypeOK'
  BY <1>a, <1>d DEF IInv, RelayerTypeOK, TxRecords
<1>5. NotYet' /\ OneUserTransaction'
  BY <1>1, <1>b, <1>c, <1>d DEF IInv, NotYet, OneUserTransaction
<1>6. EndedIsFree' /\ LeaseIsCurrent'
  BY <1>d DEF IInv, EndedIsFree, LeaseIsCurrent
<1>7. HeldIsSigned'
  <2>1. \A u \in Txs : tx[u].status # "unsigned" => tx'[u].status # "unsigned"
    BY <1>b, <1>c
  <2> QED
    BY <2>1, <1>2, <1>d DEF IInv, HeldIsSigned
<1>8. LiveIsRecorded'
  <2>1. \A u \in Txs : Expiry(u)' <=> Expiry(u)
    BY <1>b, <1>d DEF Expiry
  <2>2. \A u \in Txs : tx'[u].status = "flying" => tx[u].status = "flying"
    BY <1>b, <1>c
  <2>3. \A w \in Workers : worker[w].at \notin Early => worker[w].tx \in Txs
    BY DEF IInv, HeldIsSigned, Early
  <2> QED
    BY <2>1, <2>2, <2>3, <1>d DEF IInv, LiveIsRecorded
<1>9. LandedOnce'
  <2>1. \A w \in Workers : ~(worker[w].at = "record" /\ job.owner = w)
    BY <1>2 DEF IInv, LeaseIsCurrent
  <2>2. \A u \in Landed' : /\ tx'[u].at <= tx'[u].lastValid
                           /\ job.raw = u \/ tx'[u].at <= Finalized
    <3> SUFFICES ASSUME NEW u \in Landed'
                 PROVE  tx'[u].at <= tx'[u].lastValid /\ (job.raw = u \/ tx'[u].at <= Finalized)
      OBVIOUS
    <3>1. CASE u = t
      BY <3>1, <1>1, <1>2, <1>b, <1>c
    <3>2. CASE u # t
      <4>1. u \in Landed /\ u \in Txs /\ tx'[u] = tx[u]
        BY <3>2, <1>b, <1>e DEF Landed
      <4> QED
        BY <4>1 DEF IInv, LandedOnce
    <3> QED
      BY <3>1, <3>2
  <2>3. \A u, v \in Landed' : u = v
    BY <1>3, <1>e DEF IInv, LandedOnce
  <2>4. superseded = "no" => \A u \in Landed' : job.raw = u
    BY <1>2, <1>3, <1>e
  <2> QED
    BY <2>1, <2>2, <2>3, <2>4, <1>d DEF LandedOnce
<1>10. CompleteIsFinal' /\ ElsewhereIsKnown'
  <2>1. FinalLanded \subseteq FinalLanded'
    BY <1>3, <1>b, <1>d, <1>e DEF FinalLanded, Landed
  <2> QED
    BY <2>1, <1>d DEF IInv, CompleteIsFinal, ElsewhereIsKnown
<1> QED
  BY <1>4, <1>5, <1>6, <1>7, <1>8, <1>9, <1>10 DEF IInv

LEMMA TickStep ==
    ASSUME IInv, Tick
    PROVE  IInv'
<1> USE Bounds
<1>0. job \in JobRecords /\ worker \in [Workers -> WorkerRecords]
      /\ tx \in [Txs -> TxRecords] /\ height \in Nat /\ Finalized \in Nat /\ Finalized <= height
  BY TypeFacts DEF IInv
<1>1. height' = height + 1 /\ UNCHANGED <<kind, job, leaseLive, worker, tx, superseded, elsewhere, faults>>
  BY DEF Tick
<1>2. Finalized' \in Nat /\ Finalized <= Finalized'
  BY <1>0, <1>1 DEF Finalized
<1>3. \A t \in Txs : Expiry(t) => Expiry(t)'
  BY <1>0, <1>1 DEF Expiry, TxRecords
<1>4. Landed' = Landed
  BY <1>1 DEF Landed
<1>5. \A t \in Landed : t \in Txs /\ tx[t].at \in Nat
  BY <1>0 DEF Landed, TxRecords
<1>6. \A t \in FinalLanded : t \in FinalLanded'
  BY <1>0, <1>1, <1>2, <1>4, <1>5 DEF FinalLanded
<1>7. RelayerTypeOK'
  BY <1>1 DEF IInv, RelayerTypeOK, Tick
<1>8. NotYet' /\ EndedIsFree' /\ LeaseIsCurrent' /\ HeldIsSigned' /\ OneUserTransaction'
  BY <1>1 DEF IInv, NotYet, EndedIsFree, LeaseIsCurrent, HeldIsSigned, OneUserTransaction
<1>9. LiveIsRecorded'
  <2>1. \A w \in Workers : worker[w].at \notin Early => worker[w].tx \in Txs
    BY DEF IInv, HeldIsSigned, Early
  <2> QED
    BY <2>1, <1>1, <1>3 DEF IInv, LiveIsRecorded
<1>10. LandedOnce'
  <2>1. \A t \in Landed : tx[t].at <= Finalized => tx[t].at <= Finalized'
    BY <1>0, <1>2, <1>5
  <2> QED
    BY <2>1, <1>1, <1>4 DEF IInv, LandedOnce
<1>11. CompleteIsFinal' /\ ElsewhereIsKnown'
  BY <1>1, <1>6 DEF IInv, CompleteIsFinal, ElsewhereIsKnown
<1> QED
  BY <1>7, <1>8, <1>9, <1>10, <1>11 DEF IInv

\* Neither the row's transaction nor any worker's place depends on leaseLive,
\* on other senders or on the number of faults.
LEMMA SupersedeStep ==
    ASSUME IInv, Supersede \/ LeaseExpires
    PROVE  IInv'
<1>1. UNCHANGED <<kind, job, worker, tx, height>>
  BY DEF Supersede, LeaseExpires
<1>2. /\ superseded' \in Overtakings /\ elsewhere' \in BOOLEAN
      /\ superseded' = "no" => superseded = "no"
      /\ elsewhere => elsewhere'
      /\ ElsewhereIsKnown'
  <2>0. superseded \in Overtakings /\ elsewhere \in BOOLEAN /\ ElsewhereIsKnown
    BY DEF IInv, RelayerTypeOK
  <2>1. CASE LeaseExpires
    BY <2>0, <2>1 DEF LeaseExpires, ElsewhereIsKnown
  <2>2. CASE Supersede
    <3>1. superseded' \in Overtakings /\ superseded' # "no"
      BY <2>2 DEF Supersede, Overtakes
    <3>2. elsewhere' = (elsewhere \/ superseded' \in {"same", "gone"})
      BY <2>2 DEF Supersede
    <3> QED
      BY <2>0, <3>1, <3>2 DEF ElsewhereIsKnown
  <2> QED
    BY <2>1, <2>2
<1>3. leaseLive' \in BOOLEAN
  BY DEF Supersede, LeaseExpires, IInv, RelayerTypeOK
<1>4. faults' \in 0..MaxFaults
  BY Bounds DEF Supersede, LeaseExpires, IInv, RelayerTypeOK
<1>5. Finalized' = Finalized /\ Landed' = Landed /\ FinalLanded' = FinalLanded
  BY <1>1 DEF Finalized, Landed, FinalLanded
<1>6. RelayerTypeOK'
  BY <1>1, <1>2, <1>3, <1>4 DEF IInv, RelayerTypeOK
<1>7. NotYet' /\ EndedIsFree' /\ LeaseIsCurrent' /\ HeldIsSigned' /\ OneUserTransaction'
  BY <1>1 DEF IInv, NotYet, EndedIsFree, LeaseIsCurrent, HeldIsSigned, OneUserTransaction
<1>8. LiveIsRecorded' /\ LandedOnce' /\ CompleteIsFinal' /\ ElsewhereIsKnown'
  BY <1>1, <1>2, <1>5 DEF IInv, LiveIsRecorded, LandedOnce, CompleteIsFinal, ElsewhereIsKnown, Expiry
<1> QED
  BY <1>6, <1>7, <1>8 DEF IInv

LEMMA EnqueueStep ==
    ASSUME IInv, Enqueue
    PROVE  IInv'
<1> USE Bounds
<1>0. job \in JobRecords /\ worker \in [Workers -> WorkerRecords]
      /\ tx \in [Txs -> TxRecords] /\ height \in Nat /\ Finalized \in Nat /\ Finalized <= height
  BY TypeFacts DEF IInv
<1>1. UNCHANGED <<kind, worker, height, superseded, elsewhere, faults>> /\ leaseLive' = FALSE
  BY DEF Enqueue
<1>2. Finalized' = Finalized
  BY <1>1 DEF Finalized
<1>3. /\ job' \in JobRecords /\ job'.state = "pending" /\ job'.owner = NoWorker
      /\ job'.raw = NoTx /\ job.raw = NoTx
  <2>1. job.state = "none" => job.raw = NoTx /\ job.owner = NoWorker
    BY DEF IInv, NotYet, EndedIsFree
  <2>2. CASE job.state = "none" /\ job' = [job EXCEPT !.state = "pending"]
    BY <1>0, <2>1, <2>2 DEF JobRecords, JobStates
  <2>3. CASE job.raw = NoTx
             /\ job' = [job EXCEPT !.state = "pending", !.attempts = 0, !.owner = NoWorker]
    <3>1. 0 \in 0..MaxAttempts
      OBVIOUS
    <3>2. job' \in JobRecords
      BY <3>1, <1>0, <2>3 DEF JobRecords, JobStates
    <3> QED
      BY <3>2, <1>0, <2>3 DEF JobRecords
  <2> QED
    BY <2>2, <2>3 DEF Enqueue
<1>4. CASE UNCHANGED tx
  <2>1. Landed' = Landed /\ \A t \in Txs : Expiry(t)' <=> Expiry(t)
    BY <1>1, <1>4 DEF Landed, Expiry
  <2>2. RelayerTypeOK'
    BY <1>1, <1>3, <1>4 DEF IInv, RelayerTypeOK, JobRecords
  <2>3. NotYet' /\ EndedIsFree' /\ LeaseIsCurrent' /\ HeldIsSigned' /\ CompleteIsFinal' /\ ElsewhereIsKnown'
    BY <1>1, <1>3, <1>4
       DEF IInv, NotYet, EndedIsFree, LeaseIsCurrent, HeldIsSigned, CompleteIsFinal, ElsewhereIsKnown
  <2>4. OneUserTransaction'
    <3>1. kind = "placement" => job.state # "none"
      <4> SUFFICES ASSUME kind = "placement", job.state = "none" PROVE FALSE
        OBVIOUS
      <4>1. tx' = [tx EXCEPT ![1] = [@ EXCEPT !.status = "signed", !.lastValid = FreshLastValid]]
        BY DEF Enqueue
      <4>2. tx[1].status = "unsigned" /\ tx'[1].status = "signed"
        BY <1>0, <4>1 DEF IInv, NotYet, TxRecords
      <4> QED
        BY <4>2, <1>4
    <3> QED
      BY <3>1, <1>1, <1>4 DEF IInv, OneUserTransaction
  <2>5. LiveIsRecorded' /\ LandedOnce'
    <3>1. \A w \in Workers : worker[w].at \notin Early => worker[w].tx \in Txs
      BY DEF IInv, HeldIsSigned, Early
    <3> QED
      BY <3>1, <2>1, <1>1, <1>2, <1>3, <1>4 DEF IInv, LiveIsRecorded, LandedOnce
  <2> QED
    BY <2>2, <2>3, <2>4, <2>5 DEF IInv
<1>5. CASE ~(UNCHANGED tx)
  <2>1. /\ job.state = "none" /\ kind = "placement"
        /\ tx' = [tx EXCEPT ![1] = [@ EXCEPT !.status = "signed", !.lastValid = FreshLastValid]]
    BY <1>5 DEF Enqueue
  <2>2. /\ \A w \in Workers : worker[w].at = "idle"
        /\ \A t \in Txs : tx[t].status = "unsigned"
    BY <2>1 DEF IInv, NotYet
  <2>3. tx' \in [Txs -> TxRecords]
    <3>1. FreshLastValid \in Nat
      BY <1>0 DEF FreshLastValid
    <3>2. [tx[1] EXCEPT !.status = "signed", !.lastValid = FreshLastValid] \in TxRecords
      BY <3>1, <1>0 DEF TxRecords
    <3> QED
      BY <3>2, <2>1, <1>0
  <2>4. \A t \in Txs : tx'[t].status = IF t = 1 THEN "signed" ELSE "unsigned"
    BY <2>1, <2>2, <1>0 DEF TxRecords
  <2>5. Landed' = {}
    BY <2>4 DEF Landed
  <2>6. RelayerTypeOK'
    BY <1>1, <1>3, <2>3 DEF IInv, RelayerTypeOK, JobRecords, TxRecords
  <2>7. NotYet' /\ EndedIsFree' /\ LeaseIsCurrent' /\ HeldIsSigned' /\ CompleteIsFinal' /\ ElsewhereIsKnown'
    BY <1>1, <1>3, <2>2
       DEF IInv, NotYet, EndedIsFree, LeaseIsCurrent, HeldIsSigned, CompleteIsFinal, ElsewhereIsKnown
  <2>8. OneUserTransaction' /\ LiveIsRecorded' /\ LandedOnce'
    BY <1>1, <1>3, <2>2, <2>4, <2>5 DEF OneUserTransaction, LiveIsRecorded, LandedOnce, Early
  <2> QED
    BY <2>6, <2>7, <2>8 DEF IInv
<1> QED
  BY <1>4, <1>5

LEMMA LeaseStep ==
    ASSUME IInv, NEW w \in Workers, Lease(w)
    PROVE  IInv'
<1> USE Bounds
<1>0. job \in JobRecords /\ worker \in [Workers -> WorkerRecords]
      /\ tx \in [Txs -> TxRecords] /\ height \in Nat /\ Finalized \in Nat /\ Finalized <= height
  BY TypeFacts DEF IInv
<1>1. UNCHANGED <<kind, tx, height, superseded, elsewhere, faults>> /\ leaseLive' = TRUE
  BY DEF Lease, LeaseAs
<1>2. /\ job' \in JobRecords /\ job'.state = "leased" /\ job'.owner = w /\ job'.raw = job.raw
      /\ job.state \in {"pending", "retry_wait", "submitted", "unknown", "leased", "signed"}
  <2> DEFINE attempts == IF job.attempts < MaxAttempts THEN job.attempts + 1 ELSE job.attempts
  <2>1. attempts \in 0..MaxAttempts
    BY <1>0 DEF JobRecords
  <2>2. job' = [job EXCEPT !.state = "leased", !.owner = w, !.attempts = attempts]
    BY DEF Lease, LeaseAs
  <2> HIDE DEF attempts
  <2>3. job.state \in {"pending", "retry_wait", "submitted", "unknown", "leased", "signed"}
    BY DEF Lease, LeaseAs
  <2> QED
    BY <1>0, <2>1, <2>2, <2>3 DEF JobRecords, JobStates
<1>3. worker' = [worker EXCEPT ![w] = [at |-> IF job.raw = NoTx THEN "precheck" ELSE "status",
                                        tx |-> job.raw]]
  BY DEF Lease, LeaseAs
<1>4. worker' \in [Workers -> WorkerRecords]
  BY <1>0, <1>3 DEF WorkerRecords, Steps, JobRecords
<1>5. \A v \in Workers : v # w => worker'[v] = worker[v]
  BY <1>0, <1>3
<1>6. /\ worker'[w].at = IF job.raw = NoTx THEN "precheck" ELSE "status"
      /\ worker'[w].tx = job.raw
  BY <1>0, <1>3
<1>7. Finalized' = Finalized /\ Landed' = Landed /\ FinalLanded' = FinalLanded
  BY <1>1 DEF Finalized, Landed, FinalLanded
<1>8. \A t \in Txs : Expiry(t)' <=> Expiry(t)
  BY <1>1 DEF Expiry
<1>9. RelayerTypeOK'
  BY <1>1, <1>2, <1>4 DEF IInv, RelayerTypeOK, JobRecords, WorkerRecords
<1>10. NotYet' /\ EndedIsFree' /\ CompleteIsFinal' /\ ElsewhereIsKnown' /\ OneUserTransaction'
  BY <1>1, <1>2 DEF IInv, NotYet, EndedIsFree, CompleteIsFinal, ElsewhereIsKnown, OneUserTransaction
<1>11. LeaseIsCurrent'
  BY <1>2, <1>5, <1>6 DEF IInv, LeaseIsCurrent
<1>12. HeldIsSigned'
  BY <1>0, <1>1, <1>2, <1>5, <1>6 DEF IInv, HeldIsSigned, JobRecords
<1>13. LiveIsRecorded'
  <2>1. \A v \in Workers : worker[v].at \notin Early => worker[v].tx \in Txs
    BY DEF IInv, HeldIsSigned, Early
  <2> QED
    BY <2>1, <1>1, <1>2, <1>5, <1>6, <1>8 DEF IInv, LiveIsRecorded
<1>14. LandedOnce'
  BY <1>1, <1>2, <1>5, <1>6, <1>7 DEF IInv, LandedOnce
<1> QED
  BY <1>9, <1>10, <1>11, <1>12, <1>13, <1>14 DEF IInv

\* There is a first unsigned transaction.
LEMMA LeastUnsigned ==
    ASSUME Unsigned # {}
    PROVE  (CHOOSE t \in Unsigned : \A u \in Unsigned : t <= u) \in Unsigned
<1>1. Unsigned \subseteq Nat
  BY Bounds DEF Unsigned
<1>2. \E t \in Unsigned : \A u \in Unsigned : t <= u
  BY <1>1, LeastNatural
<1> QED
  BY <1>2

\* The builder signs a transaction that has not been signed before.  No other
\* one has landed, or the worker has lost its lease.
LEMMA SignStep ==
    ASSUME IInv, NEW w \in Workers, NEW t \in Unsigned, Sign(w, t),
           worker[w].at = "precheck", kind # "placement", confirm = "pending"
    PROVE  IInv'
<1> USE Bounds
<1>0. job \in JobRecords /\ worker \in [Workers -> WorkerRecords]
      /\ tx \in [Txs -> TxRecords] /\ height \in Nat /\ Finalized \in Nat /\ Finalized <= height
  BY TypeFacts DEF IInv
<1>1. UNCHANGED <<kind, job, leaseLive, height, superseded, elsewhere, faults>> /\ Finalized' = Finalized
  BY DEF Sign, Finalized
<1>2. t \in Txs /\ tx[t].status = "unsigned"
  BY DEF Unsigned
<1>3. job.state # "none"
  BY DEF IInv, NotYet
<1>4. tx' \in [Txs -> TxRecords]
  <2>1. FreshLastValid \in Nat
    BY <1>0 DEF FreshLastValid
  <2>2. [tx[t] EXCEPT !.status = "signed", !.lastValid = FreshLastValid] \in TxRecords
    BY <2>1, <1>0, <1>2 DEF TxRecords
  <2> QED
    BY <2>2, <1>0, <1>2 DEF Sign
<1>5. tx'[t].status = "signed" /\ \A u \in Txs : u # t => tx'[u] = tx[u]
  BY <1>0, <1>2 DEF Sign, TxRecords
<1>6. worker' \in [Workers -> WorkerRecords]
  BY <1>0, <1>2 DEF Sign, WorkerRecords, Steps
<1>7. /\ worker'[w].at = "record" /\ worker'[w].tx = t
      /\ \A v \in Workers : v # w => worker'[v] = worker[v]
  BY <1>0 DEF Sign
<1>8. Landed' = Landed /\ \A u \in Landed : u \in Txs /\ u # t
  BY <1>2, <1>5 DEF Landed
<1>9. FinalLanded' = FinalLanded
  BY <1>1, <1>5, <1>8 DEF FinalLanded
<1>10. superseded = "no" => FinalLanded = {}
  BY KindsAssumption DEF IInv, RelayerTypeOK, JobKinds, confirm, confirmControl, confirmRecovery,
     ownEffect
<1>11. superseded = "no" /\ job.owner = w => Landed = {}
  <2>1. job.owner = w => job.raw = NoTx
    BY DEF IInv, LeaseIsCurrent
  <2> QED
    BY <2>1, <1>8, <1>10 DEF IInv, LandedOnce, FinalLanded
<1>12. \A v \in Workers : worker[v].at \notin {"idle", "precheck"} => worker[v].tx \in Txs /\ worker[v].tx # t
  BY <1>2 DEF IInv, HeldIsSigned
<1>13. job.raw # t
  BY <1>2 DEF IInv, HeldIsSigned
<1>14. RelayerTypeOK'
  BY <1>1, <1>4, <1>6 DEF IInv, RelayerTypeOK, TxRecords, WorkerRecords
<1>15. NotYet' /\ EndedIsFree' /\ LeaseIsCurrent' /\ OneUserTransaction' /\ CompleteIsFinal' /\ ElsewhereIsKnown'
  BY <1>1, <1>3, <1>7, <1>9
     DEF IInv, NotYet, EndedIsFree, LeaseIsCurrent, OneUserTransaction, CompleteIsFinal, ElsewhereIsKnown
<1>16. HeldIsSigned'
  <2>1. job.raw # NoTx => job.raw \in Txs
    BY <1>0 DEF JobRecords
  <2> QED
    <3>1. \A u \in Txs : tx[u].status # "unsigned" => tx'[u].status # "unsigned"
      BY <1>2, <1>5
    <3>2. job.raw # NoTx => tx'[job.raw].status # "unsigned"
      BY <2>1, <3>1 DEF IInv, HeldIsSigned
    <3>3. ASSUME NEW v \in Workers, worker'[v].at \notin {"idle", "precheck"}
          PROVE  worker'[v].tx \in Txs /\ tx'[worker'[v].tx].status # "unsigned"
      <4>1. CASE v = w
        BY <4>1, <1>2, <1>5, <1>7
      <4>2. CASE v # w
        BY <3>3, <4>2, <3>1, <1>7 DEF IInv, HeldIsSigned
      <4> QED
        BY <4>1, <4>2
    <3> QED
      BY <3>2, <3>3, <1>1 DEF HeldIsSigned
<1>17. LiveIsRecorded'
  <2>1. \A u \in Txs : u # t => (Expiry(u)' <=> Expiry(u))
    BY <1>1, <1>5 DEF Expiry
  <2> QED
    BY <2>1, <1>1, <1>5, <1>7, <1>12 DEF IInv, LiveIsRecorded, Early
<1>18. LandedOnce'
  <2>1. \A u \in Landed : tx'[u] = tx[u]
    BY <1>5, <1>8
  <2>2. superseded = "no" => \A v \in Workers : worker'[v].at = "record" /\ job.owner = v =>
            \A u \in Landed : u = worker'[v].tx
    BY <1>7, <1>11 DEF IInv, LandedOnce
  <2> QED
    BY <2>1, <2>2, <1>1, <1>8 DEF IInv, LandedOnce
<1> QED
  BY <1>14, <1>15, <1>16, <1>17, <1>18 DEF IInv

LEMMA PreparePlacementStep ==
    ASSUME IInv, NEW w \in Workers, PreparePlacement(w)
    PROVE  IInv'
<1> USE Bounds
<1>0. job \in JobRecords /\ worker \in [Workers -> WorkerRecords]
      /\ tx \in [Txs -> TxRecords] /\ height \in Nat /\ Finalized \in Nat /\ Finalized <= height
  BY TypeFacts DEF IInv
<1>1. CASE Finalized > tx[1].lastValid
  BY <1>1, DeadStep DEF PreparePlacement
<1>2. CASE ~(Finalized > tx[1].lastValid)
  <2>1. /\ kind = "placement" /\ worker[w].at = "precheck"
        /\ worker' = [worker EXCEPT ![w] = [at |-> "record", tx |-> 1]]
        /\ UNCHANGED <<kind, job, leaseLive, tx, height, superseded, elsewhere, faults>>
    BY <1>2 DEF PreparePlacement, chainVars
  <2>2. worker' \in [Workers -> WorkerRecords]
    BY <1>0, <2>1 DEF WorkerRecords, Steps
  <2>3. /\ worker'[w].at = "record" /\ worker'[w].tx = 1
        /\ \A v \in Workers : v # w => worker'[v] = worker[v]
    BY <1>0, <2>1
  <2>4. job.state # "none" /\ tx[1].status # "unsigned" /\ \A t \in Landed : t = 1
    BY <2>1 DEF IInv, NotYet, OneUserTransaction, Landed
  <2>5. /\ Finalized' = Finalized /\ Landed' = Landed /\ FinalLanded' = FinalLanded
        /\ \A t \in Txs : Expiry(t)' <=> Expiry(t)
    BY <2>1 DEF Finalized, Landed, FinalLanded, Expiry
  <2>6. RelayerTypeOK'
    BY <2>1, <2>2 DEF IInv, RelayerTypeOK, WorkerRecords
  <2>7. NotYet' /\ EndedIsFree' /\ OneUserTransaction' /\ CompleteIsFinal' /\ ElsewhereIsKnown'
    BY <2>1, <2>4, <2>5 DEF IInv, NotYet, EndedIsFree, OneUserTransaction, CompleteIsFinal, ElsewhereIsKnown
  <2>8. LeaseIsCurrent' /\ HeldIsSigned'
    BY <2>1, <2>3, <2>4 DEF IInv, LeaseIsCurrent, HeldIsSigned
  <2>9. LiveIsRecorded'
    <3>1. \A v \in Workers : worker[v].at \notin Early => worker[v].tx \in Txs
      BY DEF IInv, HeldIsSigned, Early
    <3> QED
      BY <3>1, <2>1, <2>3, <2>5 DEF IInv, LiveIsRecorded, Early
  <2>10. LandedOnce'
    BY <2>1, <2>3, <2>4, <2>5 DEF IInv, LandedOnce
  <2> QED
    BY <2>6, <2>7, <2>8, <2>9, <2>10 DEF IInv
<1> QED
  BY <1>1, <1>2

LEMMA PrepareStep ==
    ASSUME IInv, NEW w \in Workers, Prepare(w)
    PROVE  IInv'
<1>1. worker[w].at = "precheck" /\ kind # "placement" /\ worker[w].at # "idle"
  BY DEF Prepare
<1>2. confirm \in {"confirmed", "mismatch", "pending"}
  BY KindsAssumption DEF IInv, RelayerTypeOK, JobKinds, confirm, confirmControl, confirmRecovery,
     confirmPlacement, ownEffect
<1>3. CASE confirm = "confirmed"
  BY <1>1, <1>3, CompleteStep DEF Prepare
<1>4. CASE confirm = "mismatch"
  BY <1>1, <1>4, DeadStep DEF Prepare
<1>5. CASE confirm = "pending"
  <2>1. CASE retryUnsigned(w)
    BY <1>1, <2>1, RetryUnsignedStep
  <2>2. CASE Unsigned # {} /\ Sign(w, CHOOSE t \in Unsigned : \A u \in Unsigned : t <= u)
    <3> DEFINE t == CHOOSE t \in Unsigned : \A u \in Unsigned : t <= u
    <3>1. t \in Unsigned
      BY <2>2, LeastUnsigned
    <3>2. Sign(w, t)
      BY <2>2
    <3> HIDE DEF t
    <3> QED
      BY <3>1, <3>2, <1>1, <1>5, SignStep
  <2> QED
    BY <1>5, <2>1, <2>2 DEF Prepare
<1> QED
  BY <1>2, <1>3, <1>4, <1>5

LEMMA RecordSignedStep ==
    ASSUME IInv, NEW w \in Workers, RecordSigned(w)
    PROVE  IInv'
<1> USE Bounds
<1>0. job \in JobRecords /\ worker \in [Workers -> WorkerRecords]
      /\ tx \in [Txs -> TxRecords] /\ height \in Nat /\ Finalized \in Nat /\ Finalized <= height
  BY TypeFacts DEF IInv
<1>1. CASE ~(job.owner = w /\ job.state = "leased" /\ job.raw = NoTx)
  <2>1. /\ worker[w].at # "idle" /\ UNCHANGED <<kind, tx, height, superseded, elsewhere>> /\ UNCHANGED job
        /\ Stop(w) /\ UNCHANGED <<leaseLive, faults>>
    BY <1>1 DEF RecordSigned, chainVars
  <2>2. leaseLive' \in BOOLEAN /\ faults' \in 0..MaxFaults
    BY <2>1 DEF IInv, RelayerTypeOK
  <2> QED
    BY <2>1, <2>2, RowStep
<1>2. CASE job.owner = w /\ job.state = "leased" /\ job.raw = NoTx
  <2> DEFINE t == worker[w].tx
  <2>1. /\ worker[w].at = "record"
        /\ job' = [job EXCEPT !.state = "signed", !.raw = t]
        /\ worker' = [worker EXCEPT ![w].at = "send"]
        /\ UNCHANGED <<kind, leaseLive, tx, height, superseded, elsewhere, faults>>
    BY <1>2 DEF RecordSigned, chainVars, Goto
  <2>2. t \in Txs /\ tx[t].status # "unsigned"
    BY <2>1 DEF IInv, HeldIsSigned
  <2>3. superseded = "no" => \A u \in Landed : u = t
    BY <1>2, <2>1 DEF IInv, LandedOnce
  <2> HIDE DEF t
  <2>4. job' \in JobRecords /\ job'.raw = t /\ job'.owner = w /\ job'.state = "signed"
    BY <1>0, <1>2, <2>1, <2>2 DEF JobRecords, JobStates
  <2>5. worker' \in [Workers -> WorkerRecords]
    BY <1>0, <2>1 DEF WorkerRecords, Steps
  <2>6. /\ worker'[w].at = "send" /\ worker'[w].tx = t
        /\ \A v \in Workers : v # w => worker'[v] = worker[v]
    BY <1>0, <2>1 DEF t, WorkerRecords
  <2>7. /\ Finalized' = Finalized /\ Landed' = Landed /\ FinalLanded' = FinalLanded
        /\ \A u \in Txs : Expiry(u)' <=> Expiry(u)
    BY <2>1 DEF Finalized, Landed, FinalLanded, Expiry
  <2>8. RelayerTypeOK'
    BY <2>1, <2>4, <2>5 DEF IInv, RelayerTypeOK, WorkerRecords, JobRecords
  <2>9. NotYet' /\ EndedIsFree' /\ OneUserTransaction' /\ CompleteIsFinal' /\ ElsewhereIsKnown'
    BY <1>2, <2>1, <2>4, <2>7 DEF IInv, NotYet, EndedIsFree, OneUserTransaction, CompleteIsFinal, ElsewhereIsKnown
  <2>10. LeaseIsCurrent' /\ HeldIsSigned'
    BY <2>1, <2>2, <2>4, <2>6 DEF IInv, LeaseIsCurrent, HeldIsSigned
  <2>11. LiveIsRecorded'
    <3>1. \A v \in Workers : worker[v].at \notin Early => worker[v].tx \in Txs /\ Expiry(worker[v].tx)
      BY <1>2 DEF IInv, HeldIsSigned, Early, LiveIsRecorded
    <3>2. \A u \in Txs : tx[u].status = "flying" => Expiry(u)
      BY <1>2 DEF IInv, LiveIsRecorded
    <3> QED
      BY <3>1, <3>2, <2>1, <2>2, <2>4, <2>6, <2>7 DEF LiveIsRecorded, Early
  <2>12. LandedOnce'
    <3>1. \A u \in Landed : tx[u].at <= tx[u].lastValid /\ tx[u].at <= Finalized
      BY <1>2 DEF IInv, LandedOnce, Landed
    <3>2. \A u, v \in Landed : u = v
      BY DEF IInv, LandedOnce
    <3> QED
      BY <3>1, <3>2, <2>1, <2>3, <2>4, <2>6, <2>7 DEF LandedOnce
  <2> QED
    BY <2>8, <2>9, <2>10, <2>11, <2>12 DEF IInv
<1> QED
  BY <1>1, <1>2

LEMMA MarkSubmittedStep ==
    ASSUME IInv, NEW w \in Workers, MarkSubmitted(w)
    PROVE  IInv'
<1> USE Bounds
<1>0. job \in JobRecords /\ worker \in [Workers -> WorkerRecords]
      /\ tx \in [Txs -> TxRecords] /\ height \in Nat /\ Finalized \in Nat /\ Finalized <= height
  BY TypeFacts DEF IInv
<1>1. /\ worker[w].at = "mark" /\ Stop(w)
      /\ UNCHANGED <<kind, leaseLive, tx, height, superseded, elsewhere, faults>>
  BY DEF MarkSubmitted, chainVars
<1>2. /\ job' \in JobRecords /\ job'.raw = job.raw /\ job'.owner = job.owner
      /\ UNCHANGED job \/ (job'.state = "submitted" /\ job.state = "signed")
  BY <1>0 DEF MarkSubmitted, JobRecords, JobStates
<1>3. /\ worker' \in [Workers -> WorkerRecords] /\ worker'[w].at = "idle"
      /\ \A v \in Workers : v # w => worker'[v] = worker[v]
  BY <1>0, <1>1 DEF Stop, WorkerRecords, Steps
<1>4. /\ Finalized' = Finalized /\ Landed' = Landed /\ FinalLanded' = FinalLanded
      /\ \A u \in Txs : Expiry(u)' <=> Expiry(u)
  BY <1>1 DEF Finalized, Landed, FinalLanded, Expiry
<1>5. RelayerTypeOK'
  BY <1>1, <1>2, <1>3 DEF IInv, RelayerTypeOK, WorkerRecords, JobRecords
<1>6. NotYet' /\ EndedIsFree' /\ OneUserTransaction' /\ CompleteIsFinal' /\ ElsewhereIsKnown'
  BY <1>1, <1>2, <1>4 DEF IInv, NotYet, EndedIsFree, OneUserTransaction, CompleteIsFinal, ElsewhereIsKnown
<1>7. LeaseIsCurrent' /\ HeldIsSigned'
  BY <1>1, <1>2, <1>3 DEF IInv, LeaseIsCurrent, HeldIsSigned
<1>8. LiveIsRecorded'
  <2>1. \A v \in Workers : worker[v].at \notin Early => worker[v].tx \in Txs
    BY DEF IInv, HeldIsSigned, Early
  <2> QED
    BY <2>1, <1>1, <1>2, <1>3, <1>4 DEF IInv, LiveIsRecorded, Early
<1>9. LandedOnce'
  BY <1>1, <1>2, <1>3, <1>4 DEF IInv, LandedOnce
<1> QED
  BY <1>5, <1>6, <1>7, <1>8, <1>9 DEF IInv

\* The status of the recorded transaction decides how the cycle goes on.
LEMMA ReadStatusStep ==
    ASSUME IInv, NEW w \in Workers, ReadStatus(w)
    PROVE  IInv'
<1>1. worker[w].at = "status" /\ worker[w].at # "idle" /\ worker[w].at \notin Early
  BY DEF ReadStatus, Early
<1>2. confirm \in {"confirmed", "mismatch", "pending"}
  BY KindsAssumption DEF IInv, RelayerTypeOK, JobKinds, confirm, confirmControl, confirmRecovery,
     confirmPlacement, ownEffect
<1>3. \/ retryUnknown(w) \/ dead(w, FALSE) \/ (completeRelayerJob(w) /\ confirm = "confirmed")
      \/ Goto(w, "validity") /\ UNCHANGED <<kind, job, leaseLive, chainVars, faults>>
  BY <1>2 DEF ReadStatus
<1>4. CASE retryUnknown(w)
  BY <1>1, <1>4, RetryUnknownStep
<1>5. CASE dead(w, FALSE)
  BY <1>1, <1>5, DeadStep
<1>6. CASE completeRelayerJob(w) /\ confirm = "confirmed"
  BY <1>1, <1>6, CompleteStep
<1>7. CASE Goto(w, "validity") /\ UNCHANGED <<kind, job, leaseLive, chainVars, faults>>
  <2>1. "validity" \in Steps \ Early
    BY DEF Steps, Early
  <2> QED
    BY <1>1, <1>7, <2>1, GotoStep
<1> QED
  BY <1>3, <1>4, <1>5, <1>6, <1>7

LEMMA CheckBlockhashStep ==
    ASSUME IInv, NEW w \in Workers, CheckBlockhash(w)
    PROVE  IInv'
<1>1. worker[w].at \notin Early
  BY DEF CheckBlockhash, Early
<1>2. PICK step \in {"expired", "verify", "rebroadcast"} : Goto(w, step)
  BY DEF CheckBlockhash
<1>3. step \in Steps \ Early
  BY DEF Steps, Early
<1>4. UNCHANGED <<kind, job, leaseLive, chainVars, faults>>
  BY DEF CheckBlockhash
<1> QED
  BY <1>1, <1>2, <1>3, <1>4, GotoStep

LEMMA VerifyPlacementStep ==
    ASSUME IInv, NEW w \in Workers, VerifyPlacement(w)
    PROVE  IInv'
<1>1. worker[w].at \notin Early /\ worker[w].at # "idle"
  BY DEF VerifyPlacement, Early
<1>2. CASE dead(w, TRUE)
  BY <1>1, <1>2, DeadStep
<1>3. CASE Goto(w, "rebroadcast") /\ UNCHANGED <<kind, job, leaseLive, chainVars, faults>>
  <2>1. "rebroadcast" \in Steps \ Early
    BY DEF Steps, Early
  <2> QED
    BY <1>1, <1>3, <2>1, GotoStep
<1> QED
  BY <1>2, <1>3 DEF VerifyPlacement

LEMMA VerifyPlacementTimesOutStep ==
    ASSUME IInv, NEW w \in Workers, VerifyPlacementTimesOut(w)
    PROVE  IInv'
<1>1. worker[w].at # "idle" /\ Stop(w) /\ UNCHANGED <<kind, tx, height, superseded, elsewhere>>
  BY DEF VerifyPlacementTimesOut, chainVars
<1>2. faults' \in 0..MaxFaults
  BY Bounds DEF VerifyPlacementTimesOut, IInv, RelayerTypeOK
<1>3. leaseLive' \in BOOLEAN
  BY DEF VerifyPlacementTimesOut, IInv, RelayerTypeOK
<1>4. ASSUME job.owner = w PROVE MayWrite(job')
  <2>1. (worker[w].at = "verify") \in BOOLEAN
    OBVIOUS
  <2>2. PICK lapsed \in BOOLEAN :
           job' = [job EXCEPT !.state = "dead", !.owner = NoWorker, !.lapsed = lapsed]
    BY <1>4, <2>1 DEF VerifyPlacementTimesOut
  <2> QED
    BY <2>2, TypeFacts DEF IInv, MayWrite, JobRecords, JobStates
<1>5. UNCHANGED job \/ (job.owner = w /\ MayWrite(job'))
  BY <1>4 DEF VerifyPlacementTimesOut
<1> QED
  BY <1>1, <1>2, <1>3, <1>5, RowStep

LEMMA AbortStep ==
    ASSUME IInv, NEW w \in Workers, Abort(w)
    PROVE  IInv'
<1>1. worker[w].at # "idle" /\ Stop(w) /\ UNCHANGED <<kind, job, tx, height, superseded, elsewhere>>
  BY DEF Abort, chainVars
<1>2. faults' \in 0..MaxFaults
  BY Bounds DEF Abort, IInv, RelayerTypeOK
<1>3. leaseLive' \in BOOLEAN
  BY DEF Abort, IInv, RelayerTypeOK
<1> QED
  BY <1>1, <1>2, <1>3, RowStep

\* The first broadcast and the later ones.
LEMMA SendStep ==
    ASSUME IInv, NEW w \in Workers, Rebroadcast(w) \/ Send(w)
    PROVE  IInv'
<1>1. worker[w].at \notin Early /\ UNCHANGED <<kind, job, leaseLive, height, superseded, elsewhere, faults>>
  BY DEF Rebroadcast, Send, Early
<1>2. broadcast(worker[w].tx) \/ UNCHANGED tx
  BY DEF Rebroadcast, Send
<1>3. "unknown" \in Steps \ Early /\ "mark" \in Steps \ Early
  BY DEF Steps, Early
<1>4. Stop(w) \/ Goto(w, "unknown") \/ Goto(w, "mark")
  BY DEF Rebroadcast, Send
<1>5. Stop(w) \/ \E step \in Steps \ Early : Goto(w, step)
  BY <1>3, <1>4
<1> QED
  BY <1>1, <1>2, <1>5, BroadcastStep

LEMMA AfterRebroadcastStep ==
    ASSUME IInv, NEW w \in Workers, AfterRebroadcast(w) \/ Expired(w)
    PROVE  IInv'
<1>1. worker[w].at # "idle"
  BY DEF AfterRebroadcast, Expired
<1>2. retryUnknown(w) \/ retryUnsigned(w) \/ dead(w, TRUE)
  BY DEF AfterRebroadcast, Expired
<1> QED
  BY <1>1, <1>2, RetryUnknownStep, RetryUnsignedStep, DeadStep

LEMMA NextIInv == IInv /\ [RelayerNext]_vars => IInv'
<1> SUFFICES ASSUME IInv, [RelayerNext]_vars PROVE IInv'
  OBVIOUS
<1>1. CASE UNCHANGED vars
  BY <1>1 DEF vars, IInv, RelayerTypeOK, NotYet, EndedIsFree, LeaseIsCurrent, HeldIsSigned,
     OneUserTransaction, LiveIsRecorded, LandedOnce, CompleteIsFinal, ElsewhereIsKnown, Expiry, Landed,
     FinalLanded, Finalized
<1>2. CASE Enqueue
  BY <1>2, EnqueueStep
<1>3. CASE LeaseExpires \/ Supersede
  BY <1>3, SupersedeStep
<1>4. CASE Tick
  BY <1>4, TickStep
<1>5. CASE \E t \in Txs : Land(t)
  BY <1>5, LandStep
<1>6. ASSUME NEW w \in Workers, Lease(w) \/ Step(w) \/ VerifyPlacementTimesOut(w) \/ Abort(w)
      PROVE  IInv'
  BY <1>6, LeaseStep, ReadStatusStep, CheckBlockhashStep, VerifyPlacementStep, SendStep,
     AfterRebroadcastStep, PrepareStep, PreparePlacementStep, RecordSignedStep, MarkSubmittedStep,
     VerifyPlacementTimesOutStep, AbortStep DEF Step
<1> QED
  BY <1>1, <1>2, <1>3, <1>4, <1>5, <1>6 DEF RelayerNext

\* The invariant of the relayer holds in every state, however the workers of two
\* engines, the chain and the faults interleave.
THEOREM RelayerInvariant == RelayerSpec => []IInv
  BY InitIInv, NextIInv, PTL DEF RelayerSpec

\* The row, the workers and the chain keep their types; attempts stay within
\* max_attempts although escrow_relayer_lease leases signed work beyond it.
THEOREM RelayerTypes == RelayerSpec => []RelayerTypeOK
<1>1. IInv => RelayerTypeOK
  BY DEF IInv
<1> QED
  BY <1>1, RelayerInvariant, PTL

\* Signed bytes are persisted before they are sent and replaced only when they
\* are dead: a transaction that can still land is the one on the row.
THEOREM RelayerRecordsBeforeItSends == RelayerSpec => []LiveTransactionIsOnTheRow
<1>1. IInv => LiveTransactionIsOnTheRow
  <2> SUFFICES ASSUME IInv, NEW t \in Txs, tx[t].status = "flying", height <= tx[t].lastValid
               PROVE  job.raw = t
    BY DEF LiveTransactionIsOnTheRow
  <2>1. height \in Nat /\ tx[t].lastValid \in Nat
    BY TypeFacts DEF IInv, TxRecords
  <2> QED
    BY <2>1 DEF IInv, LiveIsRecorded, Expiry
<1> QED
  BY <1>1, RelayerInvariant, PTL

\* completeRelayerJob is only reached on finalized chain state.
THEOREM RelayerCompletesOnFinality == RelayerSpec => []CompleteIsFinal
<1>1. IInv => CompleteIsFinal
  BY DEF IInv
<1> QED
  BY <1>1, RelayerInvariant, PTL

-----------------------------------------------------------------------------
(* The job implements RelayedEffect. *)

\* A step of the workers: nothing lands, and a row that has ended stays as it
\* is unless a dead one is enqueued again.
RowMoves ==
    /\ Landed' = Landed /\ elsewhere' = elsewhere
    /\ \/ job.state \notin {"complete", "dead"}
       \/ job'.state = job.state
       \/ job.state = "dead" /\ job'.state = "pending"

LEMMA MutateMoves ==
    ASSUME IInv, NEW w \in Workers, NEW allowed, NEW row, NEW live, Mutate(w, allowed, row, live)
    PROVE  RowMoves
<1>1. Landed' = Landed /\ elsewhere' = elsewhere
  BY DEF Mutate, Landed
<1>2. CASE job.owner = w
  BY <1>1, <1>2, Bounds DEF IInv, EndedIsFree, RowMoves
<1>3. CASE job.owner # w
  BY <1>1, <1>3 DEF Mutate, RowMoves
<1> QED
  BY <1>2, <1>3

LEMMA StepMoves ==
    ASSUME IInv, NEW w \in Workers, Lease(w) \/ Step(w) \/ VerifyPlacementTimesOut(w) \/ Abort(w)
    PROVE  RowMoves
<1>0. job \in JobRecords /\ tx \in [Txs -> TxRecords]
  BY TypeFacts DEF IInv
<1>o. job.owner = w => job.state \notin {"complete", "dead"}
  BY Bounds DEF IInv, EndedIsFree
<1>m. ASSUME \/ retryUnknown(w) \/ retryUnsigned(w) \/ completeRelayerJob(w)
             \/ dead(w, TRUE) \/ dead(w, FALSE)
      PROVE  RowMoves
  BY <1>m, MutateMoves DEF retryUnknown, retryUnsigned, completeRelayerJob, dead
<1>u. ASSUME UNCHANGED <<tx, superseded, elsewhere>>, UNCHANGED job \/ job.owner = w
      PROVE  RowMoves
  BY <1>u, <1>o DEF RowMoves, Landed
<1>b. ASSUME broadcast(worker[w].tx) \/ UNCHANGED tx, UNCHANGED <<job, superseded, elsewhere>>
      PROVE  RowMoves
  <2>1. \A t \in Txs : tx'[t].status = "landed" <=> tx[t].status = "landed"
    BY <1>0, <1>b DEF broadcast, TxRecords
  <2> QED
    BY <1>b, <2>1 DEF RowMoves, Landed
<1>1. CASE Lease(w)
  BY <1>1 DEF Lease, LeaseAs, RowMoves, Landed
<1>2. CASE ReadStatus(w)
  BY <1>2, <1>m, <1>u DEF ReadStatus, chainVars
<1>3. CASE CheckBlockhash(w) \/ Abort(w)
  BY <1>3, <1>u DEF CheckBlockhash, Abort, chainVars
<1>4. CASE VerifyPlacement(w)
  BY <1>4, <1>m, <1>u DEF VerifyPlacement, chainVars
<1>5. CASE Rebroadcast(w) \/ Send(w)
  BY <1>5, <1>b DEF Rebroadcast, Send
<1>6. CASE AfterRebroadcast(w) \/ Expired(w)
  BY <1>6, <1>m DEF AfterRebroadcast, Expired
<1>7. CASE Prepare(w)
  <2>1. CASE completeRelayerJob(w) \/ dead(w, FALSE) \/ retryUnsigned(w)
    BY <2>1, <1>m
  <2>2. ASSUME NEW t \in Unsigned, Sign(w, t) PROVE RowMoves
    <3>1. t \in Txs /\ tx[t].status = "unsigned"
      BY DEF Unsigned
    <3>2. \A u \in Txs : tx'[u].status = "landed" <=> tx[u].status = "landed"
      BY <1>0, <2>2, <3>1 DEF Sign, TxRecords
    <3> QED
      BY <2>2, <3>2 DEF RowMoves, Landed, Sign
  <2>3. \/ completeRelayerJob(w) \/ dead(w, FALSE) \/ retryUnsigned(w)
        \/ Unsigned # {} /\ Sign(w, CHOOSE t \in Unsigned : \A u \in Unsigned : t <= u)
    BY <1>7 DEF Prepare
  <2> QED
    BY <2>1, <2>2, <2>3, LeastUnsigned
<1>8. CASE PreparePlacement(w)
  BY <1>8, <1>m, <1>u DEF PreparePlacement, chainVars
<1>9. CASE RecordSigned(w) \/ MarkSubmitted(w) \/ VerifyPlacementTimesOut(w)
  BY <1>9, <1>u DEF RecordSigned, MarkSubmitted, VerifyPlacementTimesOut, chainVars
<1> QED
  BY <1>1, <1>2, <1>3, <1>4, <1>5, <1>6, <1>7, <1>8, <1>9 DEF Step

\* What Cardinality says of a set with at most one member.
LEMMA AtMostOneLanded ==
    ASSUME IInv
    PROVE  /\ Landed = {} => Cardinality(Landed) = 0
           /\ Landed # {} => Cardinality(Landed) = 1
<1>1. \A t \in Landed : Landed = {t}
  BY DEF IInv, LandedOnce
<1> QED
  BY <1>1, FS_EmptySet, FS_Singleton

\* A step that leaves the landed transactions alone is a step of the promise:
\* a row completes only from the open state and only with its effect there.
LEMMA MovesRefine ==
    ASSUME IInv, IInv', RowMoves
    PROVE  [Promise!EffectNext]_(Promise!effectVars)
<1> DEFINE effects == Cardinality(Landed)
           outcome == CASE job.state = "complete" -> "complete"
                        [] job.state = "dead"     -> "dead"
                        [] OTHER                  -> "open"
<1>1. effects' = effects /\ elsewhere' = elsewhere
  BY DEF RowMoves
<1>2. \/ outcome' = outcome
      \/ outcome = "open" /\ outcome' = "dead"
      \/ outcome = "open" /\ outcome' = "complete" /\ job'.state = "complete"
      \/ outcome = "dead" /\ outcome' = "open"
  BY DEF RowMoves
<1>3. job'.state = "complete" => effects = 1 \/ elsewhere
  <2>1. job'.state = "complete" => Landed # {} \/ elsewhere
    BY DEF IInv, CompleteIsFinal, ElsewhereIsKnown, FinalLanded, RowMoves
  <2> QED
    BY <2>1, AtMostOneLanded
<1>4. Promise!effectVars = <<effects, elsewhere, outcome>>
  BY DEF Promise!effectVars
<1>5. CASE outcome' = outcome
  BY <1>1, <1>5 DEF Promise!effectVars
<1>6. CASE outcome = "open" /\ outcome' = "dead"
  BY <1>1, <1>6 DEF Promise!EffectNext, Promise!GiveUp
<1>7. CASE outcome = "open" /\ outcome' = "complete" /\ job'.state = "complete"
  BY <1>1, <1>3, <1>7 DEF Promise!EffectNext, Promise!Complete
<1>8. CASE outcome = "dead" /\ outcome' = "open"
  BY <1>1, <1>8 DEF Promise!EffectNext, Promise!Reopen
<1> QED
  BY <1>2, <1>5, <1>6, <1>7, <1>8

LEMMA RefinesNext ==
    ASSUME IInv, IInv', [RelayerNext]_vars
    PROVE  [Promise!EffectNext]_(Promise!effectVars)
<1>0. tx \in [Txs -> TxRecords]
  BY TypeFacts DEF IInv
<1>1. CASE UNCHANGED vars
  BY <1>1, MovesRefine DEF vars, RowMoves, Landed
<1>2. CASE Enqueue
  <2>1. Landed' = Landed
    <3>1. CASE job.state = "none" /\ kind = "placement"
      <4>1. tx' = [tx EXCEPT ![1] = [@ EXCEPT !.status = "signed", !.lastValid = FreshLastValid]]
            \/ tx' = tx
        BY <1>2, <3>1 DEF Enqueue
      <4>2. 1 \in Txs /\ tx[1].status = "unsigned"
        BY <3>1, Bounds DEF IInv, NotYet
      <4>3. \A t \in Txs : tx'[t].status = "landed" <=> tx[t].status = "landed"
        BY <1>0, <4>1, <4>2 DEF TxRecords
      <4> QED
        BY <4>3 DEF Landed
    <3>2. CASE ~(job.state = "none" /\ kind = "placement")
      BY <1>2, <3>2 DEF Enqueue, Landed
    <3> QED
      BY <3>1, <3>2
  <2>2. job.state \notin {"complete"} /\ elsewhere' = elsewhere /\ job'.state = "pending"
    BY <1>2, TypeFacts DEF Enqueue, IInv, JobRecords
  <2>3. RowMoves
    BY <2>1, <2>2 DEF RowMoves
  <2> QED
    BY <2>3, MovesRefine
<1>3. CASE LeaseExpires \/ Tick
  BY <1>3, MovesRefine DEF LeaseExpires, Tick, RowMoves, Landed
<1>4. CASE Supersede
  <2>1. UNCHANGED <<job, tx>> /\ elsewhere' \in {elsewhere, TRUE}
    BY <1>4 DEF Supersede, IInv, RelayerTypeOK
  <2>2. Landed' = Landed
    BY <2>1 DEF Landed
  <2>3. CASE elsewhere' = TRUE
    BY <2>1, <2>2, <2>3 DEF Promise!EffectNext, Promise!HappenElsewhere
  <2>4. CASE elsewhere' = elsewhere
    BY <2>1, <2>2, <2>4 DEF Promise!effectVars
  <2> QED
    BY <2>1, <2>3, <2>4
<1>5. ASSUME NEW t \in Txs, Land(t) PROVE [Promise!EffectNext]_(Promise!effectVars)
  <2>1. tx[t].status = "flying" /\ UNCHANGED <<job, superseded, elsewhere>>
    BY <1>5 DEF Land
  <2>2. CASE tx' = [tx EXCEPT ![t].status = "failed", ![t].at = height]
    <3>1. \A u \in Txs : tx'[u].status = "landed" <=> tx[u].status = "landed"
      BY <1>0, <2>1, <2>2 DEF TxRecords
    <3>2. RowMoves
      BY <2>1, <3>1 DEF RowMoves, Landed
    <3> QED
      BY <3>2, MovesRefine
  <2>3. CASE superseded = "no" /\ tx' = [tx EXCEPT ![t].status = "landed", ![t].at = height]
    <3>1. tx'[t].status = "landed" /\ \A u \in Txs : u # t => tx'[u] = tx[u]
      BY <1>0, <2>3 DEF TxRecords
    <3>2. t \notin Landed /\ t \in Landed' /\ \A u \in Landed : u \in Landed'
      BY <2>1, <3>1 DEF Landed
    <3>3. \A u, v \in Landed' : u = v
      BY DEF IInv, LandedOnce
    <3>4. Landed = {} /\ Landed' = {t}
      BY <3>2, <3>3
    <3>5. Cardinality(Landed) = 0 /\ Cardinality(Landed') = 1
      BY <3>4, FS_EmptySet, FS_Singleton
    <3>6. ~elsewhere
      BY <2>3 DEF IInv, ElsewhereIsKnown
    <3> QED
      BY <2>1, <2>3, <3>5, <3>6 DEF Promise!EffectNext, Promise!Happen
  <2> QED
    BY <1>5, <2>2, <2>3 DEF Land
<1>6. ASSUME NEW w \in Workers, Lease(w) \/ Step(w) \/ VerifyPlacementTimesOut(w) \/ Abort(w)
      PROVE  [Promise!EffectNext]_(Promise!effectVars)
  BY <1>6, StepMoves, MovesRefine
<1> QED
  BY <1>1, <1>2, <1>3, <1>4, <1>5, <1>6 DEF RelayerNext

LEMMA RefinesInit == RelayerInit => Promise!EffectInit
<1> SUFFICES ASSUME RelayerInit PROVE Promise!EffectInit
  OBVIOUS
<1>1. Landed = {}
  BY DEF RelayerInit, Landed
<1>2. Cardinality(Landed) = 0
  BY <1>1, FS_EmptySet
<1> QED
  BY <1>2 DEF RelayerInit, Promise!EffectInit

\* A relayer job implements the promise of RelayedEffect for every number of
\* workers, transactions, crashes and expired leases: its economic transition
\* happens at most once, and the row completes only with it.
THEOREM RelayerKeepsPromise == RelayerSpec => OneEffectPerJob
<1>1. IInv /\ IInv' /\ [RelayerNext]_vars => [Promise!EffectNext]_(Promise!effectVars)
  BY RefinesNext
<1> QED
  BY <1>1, RelayerInvariant, RefinesInit, PTL DEF RelayerSpec, OneEffectPerJob, Promise!EffectSpec

=============================================================================
