------------------------------ MODULE RelayerJob ------------------------------
(***************************************************************************)
(* One durable relayer job: the row of escrow_relayer_jobs, the workers    *)
(* that lease it (two engines overlap during a deploy), and the Solana     *)
(* chain it sends transactions to.  apps/engine/src/escrow/relayer-worker  *)
(* awaits the chain and the database in turn; each await is a step, and    *)
(* everything between two awaits is one action.                            *)
(*                                                                         *)
(* A worker's lease token is fresh for every lease.  A worker holding a    *)
(* stale lease cannot lease again before it is done with it, so the row's  *)
(* owner stands for owner and token.  Leases expire and rows fall due at   *)
(* any time: the code relates neither to the speed of a worker.  What can  *)
(* go wrong is counted: crashes, failed calls, and leases (60 s) that run  *)
(* out under a busy worker.                                                *)
(*                                                                         *)
(* Abstracted: transaction bytes and signatures are transaction numbers;   *)
(* the ten job kinds are three, by how the code treats them.  The chain    *)
(* does not fork, and the RPC reports the chain as it is when asked.       *)
(***************************************************************************)
EXTENDS Naturals, FiniteSets

CONSTANTS
    Workers,         \* engine processes running the relayer
    NoWorker,        \* lease_owner of a row without a lease
    Kinds,           \* a subset of JobKinds
    MaxAttempts,     \* max_attempts (12 in the code)
    BlockhashLife,   \* blocks a blockhash stays usable
    FinalityLag,     \* blocks between the tip and the finalized block
    MaxTxs,          \* bound: transactions ever signed for the job
    MaxHeight,       \* bound: the tip
    MaxFaults        \* bound: crashes, failed calls, leases outlived by a worker

\* "placement" carries the user's signed bytes, which are never replaced;
\* "recovery" (settlement, claim, close) is re-armed when it is enqueued again;
\* "control" (initialize, freeze, unfreeze, activate, invalidate) is not.
JobKinds == {"placement", "recovery", "control"}

ASSUME WorkersAssumption == NoWorker \notin Workers
ASSUME KindsAssumption == Kinds \subseteq JobKinds
ASSUME RelayerBounds ==
    /\ MaxAttempts \in Nat \ {0} /\ MaxTxs \in Nat \ {0}
    /\ BlockhashLife \in Nat /\ FinalityLag \in Nat
    /\ MaxHeight \in Nat /\ MaxFaults \in Nat

Txs  == 1..MaxTxs
NoTx == 0

VARIABLES
    kind,       \* chosen once
    job,        \* the row; raw is the persisted transaction
    leaseLive,  \* lease_expires_at lies in the future
    worker,     \* per worker: where it is, and the transaction it works on
    tx,         \* per transaction: status, last valid height, landing height
    height,     \* the tip of the chain
    superseded, \* what somebody else did to the market, the position or the lot
    elsewhere,  \* history: the effect was there, or its market gone, by others' doing
    faults      \* how often something went wrong so far

vars == <<kind, job, leaseLive, worker, tx, height, superseded, elsewhere, faults>>
othersVars == <<superseded, elsewhere>>
chainVars == <<tx, height, othersVars>>

\* The "same" effect as the job's; an "other" one, which the verifier sees; moved
\* on in "quiet", where it sees neither; the market account of a recovery "gone".
Overtakings == {"no", "same", "other", "quiet", "gone"}

JobStates == {"none", "pending", "leased", "signed", "submitted", "unknown",
              "retry_wait", "complete", "dead"}
Steps == {"idle", "status", "validity", "verify", "rebroadcast", "unknown", "expired",
          "precheck", "record", "send", "mark"}

\* The row, the workers and the chain keep their types; attempts stay within
\* max_attempts although signed work is leased beyond it.
RelayerTypeOK ==
    /\ kind \in Kinds
    /\ job \in [state : JobStates, attempts : 0..MaxAttempts, owner : Workers \cup {NoWorker},
                raw : Txs \cup {NoTx}, lapsed : BOOLEAN]
    /\ leaseLive \in BOOLEAN
    /\ worker \in [Workers -> [at : Steps, tx : Txs \cup {NoTx}]]
    /\ tx \in [Txs -> [status : {"unsigned", "signed", "flying", "landed", "failed"},
                       lastValid : Nat, at : Nat]]
    /\ height \in 0..MaxHeight
    /\ superseded \in Overtakings /\ elsewhere \in BOOLEAN
    /\ faults \in 0..MaxFaults

RelayerInit ==
    /\ kind \in Kinds
    /\ job = [state |-> "none", attempts |-> 0, owner |-> NoWorker, raw |-> NoTx, lapsed |-> FALSE]
    /\ leaseLive = FALSE
    /\ worker = [w \in Workers |-> [at |-> "idle", tx |-> NoTx]]
    /\ tx = [t \in Txs |-> [status |-> "unsigned", lastValid |-> 0, at |-> 0]]
    /\ height = 0 /\ superseded = "no" /\ elsewhere = FALSE /\ faults = 0

-----------------------------------------------------------------------------
(* The chain. *)

Finalized == IF height > FinalityLag THEN height - FinalityLag ELSE 0

Landed == {t \in Txs : tx[t].status = "landed"}
FinalLanded == {t \in Landed : tx[t].at <= Finalized}

\* The lifetime a transaction gets when it is signed now: builders use the
\* latest finalized blockhash.
FreshLastValid == Finalized + BlockhashLife

\* Bound: nothing is signed that the bounded chain could not see expire.
BeforeHorizon == FreshLastValid + FinalityLag < MaxHeight

\* EscrowSolanaRpc.signatureState with searchTransactionHistory.
signatureState(t) ==
    CASE tx[t].status = "failed"  -> "failed"
      [] t \in FinalLanded        -> "finalized"
      [] t \in Landed             -> "confirmed"
      [] OTHER                    -> "absent"

\* The node answering isBlockhashValid may be ahead of the one that answers
\* blockHeight, never ahead of the tip.
isBlockhashValid(t) ==
    IF Finalized > tx[t].lastValid THEN {FALSE}
    ELSE IF height > tx[t].lastValid THEN BOOLEAN ELSE {TRUE}

\* The finality verifiers read finalized accounts, not the transaction, so the
\* effect counts whoever produced it, and the job's own is overtaken too.
ownEffect == IF FinalLanded # {} THEN "confirmed" ELSE "pending"

\* A later epoch is a mismatch; a frozen market settled within its epoch, a
\* closed lot and a closed market are pending, whatever the job did before.
confirmControl == CASE superseded = "no"    -> ownEffect
                    [] superseded = "same"  -> "confirmed"
                    [] superseded = "other" -> "mismatch"
                    [] OTHER                -> "pending"

\* A closed market confirms every operation; a market that ended another way,
\* or a position closed under its entitlement, is a mismatch.
confirmRecovery == CASE superseded \in {"same", "gone"} -> "confirmed"
                     [] superseded = "other"            -> "mismatch"
                     [] OTHER                           -> ownEffect

\* A position or lot closed since is pending.
confirmPlacement == IF superseded = "no" THEN ownEffect ELSE "pending"

confirm == CASE kind = "control"   -> confirmControl
             [] kind = "recovery"  -> confirmRecovery
             [] kind = "placement" -> confirmPlacement

\* A received transaction lands while its blockhash lives.  Nothing here stops
\* a second transaction of the job from landing.
Land(t) ==
    /\ tx[t].status = "flying" /\ height <= tx[t].lastValid
    /\ \/ /\ superseded = "no"
          /\ tx' = [tx EXCEPT ![t].status = "landed", ![t].at = height]
       \/ tx' = [tx EXCEPT ![t].status = "failed", ![t].at = height]
    /\ UNCHANGED <<kind, job, leaseLive, worker, height, othersVars, faults>>

Tick ==
    /\ height < MaxHeight
    /\ height' = height + 1
    /\ UNCHANGED <<kind, job, leaseLive, worker, tx, othersVars, faults>>

\* How the market, the position or the lot may be moved on from here.  In quiet:
\* the lot of a placement is closed, a frozen market settled or voided within its
\* epoch, the market or the lot of a control job closed.  Before the effect is
\* there "no" covers that: the verifier says pending and the transaction may fail.
Overtakes == {o \in Overtakings :
    \/ o = "same"  /\ kind # "placement" /\ superseded = "no" /\ Landed = {}
    \/ o = "other" /\ kind # "placement" /\ superseded \in {"no", "same"}
    \/ o = "quiet" /\ kind # "recovery" /\ superseded = "no" /\ Landed # {}
    \/ o = "quiet" /\ kind = "control" /\ superseded \in {"same", "other"}
    \/ o = "gone"  /\ kind = "recovery" /\ superseded # "gone"}

\* Another job or the owner's own wallet moves the market on.
Supersede ==
    /\ superseded' \in Overtakes
    /\ elsewhere' = (elsewhere \/ superseded' \in {"same", "gone"})
    /\ UNCHANGED <<kind, job, leaseLive, worker, tx, height, faults>>

\* sendRawTransaction: the node may take the bytes and answer, take them and
\* time out, or refuse them; the caller treats the three alike.
broadcast(t) ==
    tx' \in {tx, [tx EXCEPT ![t].status = IF @ = "signed" THEN "flying" ELSE @]}

-----------------------------------------------------------------------------
(* The database functions on the row.  A mutation by a worker that no      *)
(* longer holds the lease is refused; the worker throws and the row stays. *)

Goto(w, step) == worker' = [worker EXCEPT ![w].at = step]
Stop(w) == worker' = [worker EXCEPT ![w] = [at |-> "idle", tx |-> NoTx]]

Mutate(w, allowed, row, live) ==
    /\ IF job.owner = w /\ allowed
       THEN job' = row /\ leaseLive' = live
       ELSE UNCHANGED <<job, leaseLive>>
    /\ Stop(w)
    /\ UNCHANGED <<kind, tx, height, othersVars, faults>>

\* Mutant: a retry forgets bytes whose broadcast was not answered.
RetryForgetsBytes(w) ==
    Mutate(w, job.state \in {"leased", "signed"},
           [job EXCEPT !.state = "unknown", !.owner = NoWorker, !.raw = NoTx], FALSE)

retryUnknown(w) ==
    Mutate(w, job.state \in {"leased", "signed"},
           [job EXCEPT !.state = "unknown", !.owner = NoWorker], FALSE)

\* escrow_relayer_retry without confirmation_unknown drops the transaction; on
\* a row that has one it wants the block height past the last valid one.
retryUnsigned(w) ==
    Mutate(w, /\ job.state \in {"leased", "signed"}
              /\ job.raw # NoTx => Finalized > tx[job.raw].lastValid,
           [job EXCEPT !.state = "retry_wait", !.owner = NoWorker, !.raw = NoTx], FALSE)

completeRelayerJob(w) ==
    Mutate(w, TRUE, [job EXCEPT !.state = "complete", !.owner = NoWorker], FALSE)

\* lapsed: the error code is one of those the signer is told about.
dead(w, lapsed) ==
    Mutate(w, TRUE, [job EXCEPT !.state = "dead", !.owner = NoWorker, !.lapsed = lapsed], FALSE)

\* The services enqueue a job under its idempotency key.  Enqueueing it again
\* re-arms an exhausted recovery job that holds no transaction.
Enqueue ==
    /\ \/ /\ job.state = "none" /\ BeforeHorizon
          /\ job' = [job EXCEPT !.state = "pending"]
          /\ tx' = IF kind = "placement"
                   THEN [tx EXCEPT ![1] = [@ EXCEPT !.status = "signed", !.lastValid = FreshLastValid]]
                   ELSE tx
       \/ /\ kind = "recovery" /\ job.state \notin {"none", "complete"}
          /\ job.state = "dead" \/ job.attempts >= MaxAttempts
          /\ job.state # "leased" \/ ~leaseLive
          /\ job.raw = NoTx
          /\ job' = [job EXCEPT !.state = "pending", !.attempts = 0, !.owner = NoWorker]
          /\ UNCHANGED tx
    /\ leaseLive' = FALSE
    /\ UNCHANGED <<kind, worker, height, othersVars, faults>>

LeaseAs(w, mayLease, attempts) ==
    /\ worker[w].at = "idle"
    /\ \/ job.state \in {"pending", "retry_wait", "submitted", "unknown"}
       \/ job.state \in {"leased", "signed"} /\ ~leaseLive
    /\ mayLease
    /\ job' = [job EXCEPT !.state = "leased", !.owner = w, !.attempts = attempts]
    /\ leaseLive' = TRUE
    /\ worker' = [worker EXCEPT ![w] = [at |-> IF job.raw = NoTx THEN "precheck" ELSE "status",
                                        tx |-> job.raw]]
    /\ UNCHANGED <<kind, tx, height, othersVars, faults>>

\* Mutants: the counter outgrows its bound; the bound stops signed work too.
LeaseUncapped(w) == LeaseAs(w, job.attempts < MaxAttempts \/ job.raw # NoTx, job.attempts + 1)
LeaseBounded(w) == LeaseAs(w, job.attempts < MaxAttempts, job.attempts + 1)

\* escrow_relayer_lease: attempts bound unsigned work only.
Lease(w) ==
    LeaseAs(w, job.attempts < MaxAttempts \/ job.raw # NoTx,
            IF job.attempts < MaxAttempts THEN job.attempts + 1 ELSE job.attempts)

\* A lease that runs out under a worker that is still busy is a fault.
LeaseExpires ==
    /\ leaseLive
    /\ leaseLive' = FALSE
    /\ IF worker[job.owner].at = "idle" THEN UNCHANGED faults
       ELSE faults < MaxFaults /\ faults' = faults + 1
    /\ UNCHANGED <<kind, job, worker, tx, height, othersVars>>

-----------------------------------------------------------------------------
(* processPersisted: the row already has a transaction. *)

\* Mutant: a confirmation is taken for finality.
ReadStatusTrustsConfirmed(w) ==
    /\ worker[w].at = "status"
    /\ CASE signatureState(worker[w].tx) \in {"finalized", "confirmed"} -> completeRelayerJob(w)
         [] signatureState(worker[w].tx) = "failed" -> dead(w, FALSE)
         [] OTHER -> Goto(w, "validity") /\ UNCHANGED <<kind, job, leaseLive, chainVars, faults>>

ReadStatus(w) ==
    /\ worker[w].at = "status"
    /\ CASE signatureState(worker[w].tx) = "finalized" ->
               CASE confirm = "pending"  -> retryUnknown(w)
                 [] confirm = "mismatch" -> dead(w, FALSE)
                 [] OTHER                -> completeRelayerJob(w)
         [] signatureState(worker[w].tx) = "failed" -> dead(w, FALSE)
         [] signatureState(worker[w].tx) = "confirmed" -> retryUnknown(w)
         [] OTHER -> Goto(w, "validity") /\ UNCHANGED <<kind, job, leaseLive, chainVars, faults>>

\* Still absent when it was asked; is the blockhash alive?
CheckBlockhash(w) ==
    /\ worker[w].at = "validity"
    /\ \E valid \in isBlockhashValid(worker[w].tx) :
          Goto(w, IF ~valid THEN "expired" ELSE IF kind = "placement" THEN "verify" ELSE "rebroadcast")
    /\ UNCHANGED <<kind, job, leaseLive, chainVars, faults>>

\* verifyPlacementRelayTransaction asks the chain for its height and genesis
\* and throws on a dead blockhash; any throw, a timeout included, is taken
\* as an invalid signature.
VerifyPlacement(w) ==
    /\ worker[w].at = "verify"
    /\ \/ /\ Finalized <= tx[worker[w].tx].lastValid
          /\ Goto(w, "rebroadcast")
          /\ UNCHANGED <<kind, job, leaseLive, chainVars, faults>>
       \/ Finalized > tx[worker[w].tx].lastValid /\ dead(w, TRUE)

VerifyPlacementTimesOut(w) ==
    /\ worker[w].at \in (IF kind = "placement" THEN {"verify", "precheck"} ELSE {})
    /\ faults < MaxFaults
    /\ faults' = faults + 1
    /\ IF job.owner = w
       THEN /\ job' = [job EXCEPT !.state = "dead", !.owner = NoWorker,
                                  !.lapsed = worker[w].at = "verify"]
            /\ leaseLive' = FALSE
       ELSE UNCHANGED <<job, leaseLive>>
    /\ Stop(w)
    /\ UNCHANGED <<kind, chainVars>>

\* A placement waits while intake readiness is closed.
Rebroadcast(w) ==
    /\ worker[w].at = "rebroadcast"
    /\ \/ broadcast(worker[w].tx)
       \/ kind = "placement" /\ UNCHANGED tx
    /\ Goto(w, "unknown")
    /\ UNCHANGED <<kind, job, leaseLive, height, othersVars, faults>>

AfterRebroadcast(w) == worker[w].at = "unknown" /\ retryUnknown(w)

\* The blockhash is gone: the user's bytes are given up, a server-built
\* transaction is dropped once the finalized height is past it.
Expired(w) ==
    /\ worker[w].at = "expired"
    /\ IF kind = "placement" THEN dead(w, TRUE)
       ELSE IF Finalized <= tx[worker[w].tx].lastValid THEN retryUnknown(w)
       ELSE retryUnsigned(w)

-----------------------------------------------------------------------------
(* process: the row has no transaction yet. *)

Unsigned == {t \in Txs : tx[t].status = "unsigned"}

Sign(w, t) ==
    /\ tx' = [tx EXCEPT ![t] = [@ EXCEPT !.status = "signed", !.lastValid = FreshLastValid]]
    /\ worker' = [worker EXCEPT ![w] = [at |-> "record", tx |-> t]]
    /\ UNCHANGED <<kind, job, leaseLive, height, othersVars, faults>>

\* Mutant: signs again without looking for the effect first.
PrepareBlindly(w) ==
    /\ worker[w].at = "precheck" /\ kind # "placement"
    /\ \/ retryUnsigned(w)
       \/ /\ Unsigned # {} /\ BeforeHorizon
          /\ Sign(w, CHOOSE t \in Unsigned : \A u \in Unsigned : t <= u)

\* Server-built work: the effect may be there already; otherwise build and
\* sign.  The builder refuses when the market is not in the expected state.
Prepare(w) ==
    /\ worker[w].at = "precheck" /\ kind # "placement"
    /\ CASE confirm = "confirmed" -> completeRelayerJob(w)
         [] confirm = "mismatch"  -> dead(w, FALSE)
         [] OTHER ->
              \/ retryUnsigned(w)
              \/ /\ Unsigned # {} /\ BeforeHorizon
                 /\ Sign(w, CHOOSE t \in Unsigned : \A u \in Unsigned : t <= u)

\* The user's bytes are verified as they are.
PreparePlacement(w) ==
    /\ worker[w].at = "precheck" /\ kind = "placement"
    /\ IF Finalized > tx[1].lastValid THEN dead(w, FALSE)
       ELSE /\ worker' = [worker EXCEPT ![w] = [at |-> "record", tx |-> 1]]
            /\ UNCHANGED <<kind, job, leaseLive, chainVars, faults>>

\* escrow_relayer_record_signed, before the first broadcast.  Its check that the
\* lease is unexpired compares it with the time the cycle began, and always passes.
RecordSigned(w) ==
    /\ worker[w].at = "record"
    /\ IF job.owner = w /\ job.state = "leased" /\ job.raw = NoTx
       THEN /\ job' = [job EXCEPT !.state = "signed", !.raw = worker[w].tx]
            /\ Goto(w, "send")
       ELSE UNCHANGED job /\ Stop(w)
    /\ UNCHANGED <<kind, leaseLive, chainVars, faults>>

\* A placement leaves its row signed, for its short lease to bring it back.
Send(w) ==
    /\ worker[w].at = "send"
    /\ \/ broadcast(worker[w].tx)
       \/ kind = "placement" /\ UNCHANGED tx
    /\ IF kind = "placement" THEN Stop(w) ELSE Goto(w, "mark")
    /\ UNCHANGED <<kind, job, leaseLive, height, othersVars, faults>>

MarkSubmitted(w) ==
    /\ worker[w].at = "mark"
    /\ job' = IF job.owner = w /\ job.raw = worker[w].tx /\ job.state = "signed"
              THEN [job EXCEPT !.state = "submitted"] ELSE job
    /\ Stop(w)
    /\ UNCHANGED <<kind, leaseLive, chainVars, faults>>

\* A crash, or any failed call the code does not catch: the worker forgets.
Abort(w) ==
    /\ worker[w].at # "idle" /\ faults < MaxFaults
    /\ faults' = faults + 1
    /\ Stop(w)
    /\ UNCHANGED <<kind, job, leaseLive, chainVars>>

-----------------------------------------------------------------------------

Step(w) ==
    \/ ReadStatus(w) \/ CheckBlockhash(w) \/ VerifyPlacement(w) \/ Rebroadcast(w)
    \/ AfterRebroadcast(w) \/ Expired(w)
    \/ Prepare(w) \/ PreparePlacement(w) \/ RecordSigned(w) \/ Send(w) \/ MarkSubmitted(w)

RelayerNext ==
    \/ Enqueue \/ LeaseExpires \/ Tick \/ Supersede
    \/ \E t \in Txs : Land(t)
    \/ \E w \in Workers : Lease(w) \/ Step(w) \/ VerifyPlacementTimesOut(w) \/ Abort(w)

RelayerSpec == RelayerInit /\ [][RelayerNext]_vars

\* Blocks are produced, leases run out, the lifecycle timer keeps running
\* every worker's cycle, and a call that is not answered times out.
RelayerFairness ==
    /\ WF_vars(Tick) /\ WF_vars(LeaseExpires)
    /\ \A w \in Workers : WF_vars(Step(w))
    /\ WF_vars(\E w \in Workers : Lease(w))

FairRelayerSpec == RelayerSpec /\ RelayerFairness

-----------------------------------------------------------------------------

\* The job as its abstract promise: one effect at most, complete only with it.
Promise == INSTANCE RelayedEffect WITH
    effects   <- Cardinality(Landed),
    elsewhere <- elsewhere,
    outcome   <- CASE job.state = "complete" -> "complete"
                   [] job.state = "dead"     -> "dead"
                   [] OTHER                  -> "open"

\* The job keeps the promise of RelayedEffect, although a worker may act on a
\* signature status that was overtaken, two engines work on the same row, and
\* a broadcast may have succeeded without an answer.
OneEffectPerJob == Promise!EffectSpec

\* Signed bytes are persisted before they are sent (escrow-plan.md:812), and
\* re-signing waits for the old bytes to be dead: a transaction that can still
\* land is always the one on the row, so a restart finds it.
LiveTransactionIsOnTheRow ==
    \A t \in Txs : tx[t].status = "flying" /\ height <= tx[t].lastValid => job.raw = t

\* A completed row means finalized chain state, never a confirmation that may
\* still be reported differently: the job's own effect is final, or others made
\* it, or (recovery) others closed the market.
CompleteIsFinal == job.state = "complete" => FinalLanded # {} \/ elsewhere

\* The job's effect is on the chain, and what it changed has moved on in a way
\* the finality verifier answers with pending.
Unrecognised == Landed # {} /\ kind # "recovery" /\ superseded = "quiet"

\* A row whose transaction was signed is resolved even when its attempts are
\* used up: it ends, or the expired transaction is dropped.  The exception is a
\* landed effect the verifier can no longer recognise (control-relayer.ts:205-214,
\* placement-finality.ts:25): such a row is observed again for ever.
SignedJobIsResolved ==
    job.raw # NoTx ~> (job.state \in {"complete", "dead"} \/ job.raw = NoTx \/ Unrecognised)

\* What the signer of a lapsed placement is told: "That approval lapsed before
\* it reached the chain. No SOL moved." (apps/engine/src/bot/escrow-ux.ts:271).
LapsedMeansNothingMoved == kind = "placement" /\ job.lapsed => Landed = {}

=============================================================================
