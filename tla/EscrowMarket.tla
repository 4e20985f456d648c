---------------------------- MODULE EscrowMarket ----------------------------
(***************************************************************************)
(* The on-chain escrow program (programs/calledit-escrow): the protocol    *)
(* configuration, one market account with its vault, and the position and  *)
(* lot accounts of its owners.  One action per instruction; a Solana       *)
(* instruction is atomic, so each action is the whole handler and a failed *)
(* requirement is a disabled action.                                       *)
(*                                                                         *)
(* Abstracted: keys, hashes, PDAs and account validation (an action can    *)
(* only name the right accounts), the two assets (a market has one, its    *)
(* vault is the balance above the rent reserve), and oracle signatures (a  *)
(* threshold of the pinned set may sign any attestation at any time).      *)
(* Slots and unix time are one clock.                                      *)
(***************************************************************************)
EXTENDS EscrowMath

CONSTANTS
    NumOwners,         \* wallets 1..NumOwners
    Amounts,           \* stakes a wallet may sign for
    Configs,           \* limit settings rotate_config may install
    TermSheets,        \* market documents initialize_market may be given
    ActivationDelay,   \* POSITION_ACTIVATION_DELAY_SECONDS_V1, in ticks
    IntentLifetimes,   \* how long a signed placement stays valid, in ticks
    MaxLots,           \* bound: lots per position
    MaxEventEpoch,     \* bound: freezes plus unfreezes of the market
    MaxOracleEpoch,    \* bound: oracle set rotations
    MaxTime            \* bound: the clock

Owners == 1..NumOwners
Nonces == 0..(MaxLots - 1)
Times  == 0..MaxTime

LimitSettings == [min : Nat, max : Nat, duration : Nat, resolution : Nat]
MarketTerms == [quote : Nat, ppm : 1..(ProbabilityPpmScale - 1), ratio : Nat \ {0},
                in_play_start : Nat, cutoff : Nat, deadline : Nat]

ASSUME OwnersAssumption == NumOwners \in Nat \ {0}
ASSUME AmountsAssumption == Amounts \subseteq Nat
ASSUME ConfigsAssumption == Configs \subseteq LimitSettings
ASSUME TermsAssumption == TermSheets \subseteq MarketTerms
ASSUME DelayAssumption == ActivationDelay \in Nat /\ IntentLifetimes \subseteq Nat
ASSUME BoundsAssumption ==
    MaxLots \in Nat \ {0} /\ MaxEventEpoch \in Nat /\ MaxOracleEpoch \in Nat /\ MaxTime \in Nat

VARIABLES
    now,               \* Clock::get(), unix_timestamp and slot
    \* ProtocolConfig and the OracleSet accounts
    paused, limits,
    oracle,            \* the current oracle set: epoch, activation, retirement
    \* Market
    state, terms, pinned_activation, event_epoch,
    active_total, pending_total,           \* per side
    final_matched, final_forfeited,        \* fixed and accumulated by settlement
    processed_count,                       \* settlement_processed_position_count
    outcome, position_count, claimed_count,
    \* UserPosition, per owner; side is "None" where there is no account
    side, active, pending, refundable, base, processed, next_nonce, claimed, total_paid,
    lot,               \* PositionLot accounts, per owner and nonce
    vault,             \* principal held for the market
    intent,            \* the placement each wallet last signed and may submit
    \* History, read by properties only
    signed,            \* what each wallet ever signed for
    deposited, received, dust,             \* money in and out of the vault
    epoch_since        \* when each event epoch began

configVars   == <<paused, limits, oracle>>
termVars     == <<terms, pinned_activation>>
totalVars    == <<active_total, pending_total, position_count>>
finalVars    == <<final_matched, final_forfeited, processed_count, outcome>>
bucketVars   == <<side, active, pending, refundable, total_paid>>
entitledVars == <<base, processed>>
moneyVars    == <<vault, deposited, received, dust>>
marketVars   == <<state, event_epoch, claimed_count, termVars, totalVars, finalVars>>
positionVars == <<bucketVars, entitledVars, next_nonce, claimed, lot>>
intentVars   == <<intent, signed>>
vars == <<now, configVars, marketVars, positionVars, moneyVars, intentVars, epoch_since>>

NoTime == 0 - 1        \* None of an Option<i64> timestamp or slot
NoLot == [state |-> "None", side |-> "None", amount |-> 0,
          observed |-> 0, placed |-> 0, activation |-> NoTime]
NoIntent == [side |-> "None", amount |-> 0, nonce |-> 0, epoch |-> 0, expiry |-> 0]
NoTerms == [quote |-> 0, ppm |-> 1, ratio |-> 1, in_play_start |-> 0, cutoff |-> 0, deadline |-> 0]
Zero == [s \in Sides |-> 0]

-----------------------------------------------------------------------------
(* Administration: instructions/admin.rs *)

\* validate_config: the limits rotate_config and initialize_config accept.
ValidLimits(c) == c.min > 0 /\ c.min <= c.max /\ c.duration > 0 /\ c.resolution > 0

\* validate_oracle_set: not active in the past, retired (if ever) after activation.
ValidOracleSet(s) ==
    s.activation >= now /\ (s.retirement = NoTime \/ s.retirement > s.activation)

\* The program is deployed, configured and has its first oracle set.
Init ==
    /\ now = 0
    /\ paused = FALSE
    /\ limits \in {c \in Configs : ValidLimits(c)}
    /\ oracle = [epoch |-> 0, activation |-> 0, retirement |-> NoTime]
    /\ state = "Absent" /\ terms = NoTerms /\ pinned_activation = 0
    /\ event_epoch = 0
    /\ active_total = Zero /\ pending_total = Zero
    /\ final_matched = Zero /\ final_forfeited = 0
    /\ processed_count = 0 /\ position_count = 0 /\ claimed_count = 0
    /\ outcome = "Unresolved"
    /\ side = [o \in Owners |-> "None"]
    /\ active = [o \in Owners |-> 0]
    /\ pending = [o \in Owners |-> 0]
    /\ refundable = [o \in Owners |-> 0]
    /\ base = [o \in Owners |-> 0]
    /\ processed = [o \in Owners |-> FALSE]
    /\ next_nonce = [o \in Owners |-> 0]
    /\ claimed = [o \in Owners |-> FALSE]
    /\ total_paid = [o \in Owners |-> 0]
    /\ lot = [o \in Owners |-> [n \in Nonces |-> NoLot]]
    /\ vault = 0
    /\ intent = [o \in Owners |-> NoIntent]
    /\ signed = [o \in Owners |-> 0]
    /\ deposited = [o \in Owners |-> 0]
    /\ received = [o \in Owners |-> 0]
    /\ dust = 0
    /\ epoch_since = [e \in 0..MaxEventEpoch |-> 0]

\* Time passes.
Tick ==
    /\ now < MaxTime
    /\ now' = now + 1
    /\ UNCHANGED <<configVars, marketVars, positionVars, moneyVars, intentVars, epoch_since>>

\* set_pause: the request must change the flag.
SetPause ==
    /\ paused' = ~paused
    /\ UNCHANGED <<now, limits, oracle, marketVars, positionVars, moneyVars, intentVars, epoch_since>>

\* rotate_config: refused while paused.
RotateConfig(c) ==
    /\ ~paused
    /\ ValidLimits(c)
    /\ limits' = c
    /\ UNCHANGED <<now, paused, oracle, marketVars, positionVars, moneyVars, intentVars, epoch_since>>

\* rotate_oracle_set: a new account under a larger epoch; refused while paused.
RotateOracleSet(activation, retirement) ==
    /\ ~paused
    /\ oracle.epoch < MaxOracleEpoch
    /\ oracle' = [epoch |-> oracle.epoch + 1, activation |-> activation, retirement |-> retirement]
    /\ ValidOracleSet(oracle')
    /\ UNCHANGED <<now, paused, limits, marketVars, positionVars, moneyVars, intentVars, epoch_since>>

-----------------------------------------------------------------------------
(* Market lifecycle: instructions/market.rs *)

\* validate_market_terms and the order MarketDocumentV1::encode insists on.
ValidTerms(t) ==
    /\ t.quote <= now /\ now < t.cutoff
    /\ t.cutoff - now <= limits.duration
    /\ t.deadline - t.cutoff <= limits.resolution
    /\ t.ratio = RatioMilli(t.ppm)
    /\ t.quote < t.cutoff /\ t.in_play_start < t.cutoff /\ t.cutoff < t.deadline

\* The current oracle set is active and not retired.
OracleSetActive ==
    oracle.activation <= now /\ (oracle.retirement = NoTime \/ now < oracle.retirement)

InitializeMarket(t) ==
    /\ state = "Absent"
    /\ ~paused
    /\ ValidTerms(t)
    /\ OracleSetActive
    /\ state' = "Open"
    /\ terms' = t
    /\ pinned_activation' = oracle.activation
    /\ epoch_since' = [epoch_since EXCEPT ![0] = now]
    /\ UNCHANGED <<now, configVars, event_epoch, claimed_count, totalVars, finalVars,
                   positionVars, moneyVars, intentVars>>

\* Freezing and unfreezing each begin a new event epoch.
BeginEpoch(s) ==
    /\ event_epoch < MaxEventEpoch
    /\ event_epoch' = event_epoch + 1
    /\ state' = s
    /\ epoch_since' = [epoch_since EXCEPT ![event_epoch + 1] = now]
    /\ UNCHANGED <<now, configVars, claimed_count, termVars, totalVars, finalVars,
                   positionVars, moneyVars, intentVars>>

FreezeMarket == state = "Open" /\ BeginEpoch("Frozen")

UnfreezeMarket == state = "Frozen" /\ BeginEpoch("Open")

-----------------------------------------------------------------------------
(* Positions and lots: instructions/position.rs *)

\* A wallet signs a placement against the market it sees: the epoch, its next
\* lot nonce and an expiry are part of the signed arguments.  The transaction
\* may be submitted late, more than once, or never.
SignIntent(o, s, a, lifetime) ==
    /\ state = "Open"
    /\ next_nonce[o] < MaxLots
    /\ intent' = [intent EXCEPT ![o] =
           [side |-> s, amount |-> a, nonce |-> next_nonce[o],
            epoch |-> event_epoch, expiry |-> now + lifetime]]
    /\ intent[o].amount = 0 \/ intent[o].nonce # next_nonce[o]
    /\ signed' = [signed EXCEPT ![o] = @ + a]
    /\ UNCHANGED <<now, configVars, marketVars, positionVars, moneyVars, epoch_since>>

\* The wallet gives up on the signed placement: its blockhash has lapsed.
DropIntent(o) ==
    /\ intent[o] # NoIntent
    /\ now > intent[o].expiry
    /\ intent' = [intent EXCEPT ![o] = NoIntent]
    /\ UNCHANGED <<now, configVars, marketVars, positionVars, moneyVars, signed, epoch_since>>

\* validate_position_window and validate_client_expiry.
WindowOpen(i) ==
    /\ ~paused
    /\ state = "Open"
    /\ now < terms.cutoff
    /\ event_epoch = i.epoch
    /\ now <= i.expiry /\ i.expiry <= terms.cutoff

\* validate_position_amount: the maximum is cumulative per wallet.
AmountAllowed(o, a) == a > 0 /\ a >= limits.min /\ total_paid[o] + a <= limits.max

\* Mutation: neither the nonce nor the lot account is checked.
PositionAcceptsAnyNonce(o, i) ==
    side[o] # "None" => side[o] = i.side /\ ~claimed[o] /\ ~processed[o]

\* initialize_or_validate_position, validate_lot_nonce, and the lot account is new.
PositionAccepts(o, i) ==
    /\ side[o] # "None" => side[o] = i.side /\ ~claimed[o] /\ ~processed[o]
    /\ next_nonce[o] = i.nonce /\ lot[o][i.nonce] = NoLot

\* classify_placement: in play, a stake waits out the activation delay.
InPlay == now >= terms.in_play_start

\* transfer_principal: the stake moves from the wallet into the vault.
TransferPrincipal(o, a) ==
    /\ vault + a <= U64Max
    /\ vault' = vault + a
    /\ deposited' = [deposited EXCEPT ![o] = @ + a]
    /\ UNCHANGED <<received, dust>>

\* apply_position_deposit, creating the position account where there is none.
ApplyPositionDeposit(o, s, a) ==
    /\ IF InPlay
       THEN /\ pending' = [pending EXCEPT ![o] = @ + a]
            /\ pending_total' = [pending_total EXCEPT ![s] = @ + a]
            /\ UNCHANGED <<active, active_total>>
       ELSE /\ active' = [active EXCEPT ![o] = @ + a]
            /\ active_total' = [active_total EXCEPT ![s] = @ + a]
            /\ UNCHANGED <<pending, pending_total>>
    /\ side' = [side EXCEPT ![o] = s]
    /\ total_paid' = [total_paid EXCEPT ![o] = @ + a]
    /\ next_nonce' = [next_nonce EXCEPT ![o] = @ + 1]
    /\ position_count' = IF side[o] = "None" THEN position_count + 1 ELSE position_count

\* place_position
PlacePosition(o) ==
    LET i == intent[o] IN
    /\ i # NoIntent
    /\ WindowOpen(i)
    /\ AmountAllowed(o, i.amount)
    /\ PositionAccepts(o, i)
    /\ TransferPrincipal(o, i.amount)
    /\ ApplyPositionDeposit(o, i.side, i.amount)
    /\ lot' = [lot EXCEPT ![o][i.nonce] =
           [state |-> IF InPlay THEN "Pending" ELSE "Active",
            side |-> i.side, amount |-> i.amount, observed |-> event_epoch, placed |-> now,
            activation |-> IF InPlay THEN now + ActivationDelay ELSE NoTime]]
    /\ UNCHANGED <<now, configVars, state, event_epoch, claimed_count, termVars, finalVars,
                   refundable, entitledVars, claimed, intentVars, epoch_since>>

\* Moving principal between the buckets of a position and of its side; each
\* subtraction is checked.
MovePendingToActive(o, s, a) ==
    /\ pending[o] >= a /\ pending_total[s] >= a
    /\ pending' = [pending EXCEPT ![o] = @ - a]
    /\ active' = [active EXCEPT ![o] = @ + a]
    /\ pending_total' = [pending_total EXCEPT ![s] = @ - a]
    /\ active_total' = [active_total EXCEPT ![s] = @ + a]
    /\ UNCHANGED refundable

\* Mutation: always from the pending bucket, with unchecked subtraction.
MakeLotRefundableUnchecked(o, s, a, lotState) ==
    /\ pending' = [pending EXCEPT ![o] = @ - a]
    /\ pending_total' = [pending_total EXCEPT ![s] = @ - a]
    /\ refundable' = [refundable EXCEPT ![o] = @ + a]
    /\ UNCHANGED <<active, active_total>>

MakeLotRefundable(o, s, a, lotState) ==
    /\ IF lotState = "Pending"
       THEN /\ pending[o] >= a /\ pending_total[s] >= a
            /\ pending' = [pending EXCEPT ![o] = @ - a]
            /\ pending_total' = [pending_total EXCEPT ![s] = @ - a]
            /\ UNCHANGED <<active, active_total>>
       ELSE /\ active[o] >= a /\ active_total[s] >= a
            /\ active' = [active EXCEPT ![o] = @ - a]
            /\ active_total' = [active_total EXCEPT ![s] = @ - a]
            /\ UNCHANGED <<pending, pending_total>>
    /\ refundable' = [refundable EXCEPT ![o] = @ + a]

\* What activation and invalidation leave alone.
OutsideBuckets == <<now, configVars, state, event_epoch, claimed_count, termVars, position_count,
                    finalVars, side, total_paid, entitledVars, next_nonce, claimed,
                    moneyVars, intentVars, epoch_since>>

\* Mutation: the lot's event epoch is not compared with the market's.
ActivatableInAnyEpoch(l) == l.state = "Pending" /\ now >= l.activation

\* The lot waited out its delay within the epoch it was placed in.
Activatable(l) == l.state = "Pending" /\ l.observed = event_epoch /\ now >= l.activation

\* activate_position_lot: permissionless, also while frozen.
ActivatePositionLot(o, n) ==
    /\ state \in {"Open", "Frozen"}
    /\ Activatable(lot[o][n])
    /\ MovePendingToActive(o, lot[o][n].side, lot[o][n].amount)
    /\ lot' = [lot EXCEPT ![o][n].state = "Active"]
    /\ UNCHANGED OutsideBuckets

\* Mutation: a lot already voided is accepted again.
InvalidatableTwice(l, e) ==
    l.state # "None" /\ l.activation # NoTime /\ l.observed < e /\ e <= event_epoch

\* validate_invalidation_candidate: an in-play lot placed before epoch e began.
Invalidatable(l, e) ==
    /\ l.state \in {"Pending", "Active"}
    /\ l.activation # NoTime
    /\ l.observed < e /\ e <= event_epoch

\* invalidate_position_lot: the attested event e turns the lot into a refund.
InvalidatePositionLot(o, n, e) ==
    /\ state \in {"Open", "Frozen"}
    /\ Invalidatable(lot[o][n], e)
    /\ MakeLotRefundable(o, lot[o][n].side, lot[o][n].amount, lot[o][n].state)
    /\ lot' = [lot EXCEPT ![o][n].state = "Voided"]
    /\ UNCHANGED OutsideBuckets

-----------------------------------------------------------------------------
(* Settlement in two phases: instructions/settlement.rs *)

\* Mutation: a market without positions waits for entitlements too.
AlwaysSettling == "Settling"

\* begin_settlement: with no position to calculate, settlement is already over.
StateAfterSettle == IF position_count = 0 THEN "Settled" ELSE "Settling"

\* settle_market with begin_settlement: fix the pots, then count positions.
SettleMarket(won) ==
    LET back == active_total["Back"]
        doubt == active_total["Doubt"]
    IN
    /\ state \in {"Open", "Frozen"}
    /\ pinned_activation <= now
    /\ PotsFit(back, doubt, terms.ratio)
    /\ final_matched' = [s \in Sides |-> IF s = "Back" THEN MatchedBack(back, doubt, terms.ratio)
                                         ELSE MatchedDoubt(back, doubt, terms.ratio)]
    /\ final_forfeited' = 0
    /\ processed_count' = 0
    /\ outcome' = IF won THEN "ClaimWon" ELSE "ClaimLost"
    /\ state' = StateAfterSettle
    /\ UNCHANGED <<now, configVars, event_epoch, claimed_count, termVars, totalVars,
                   positionVars, moneyVars, intentVars, epoch_since>>

WinningSide == IF outcome = "ClaimWon" THEN "Back" ELSE "Doubt"

\* validate_position_principal
PrincipalBalances(o) == active[o] + pending[o] + refundable[o] = total_paid[o]

\* Mutation: the matched pot of the wrong side.
ForfeitOfOtherPot(o) ==
    IF side[o] = WinningSide THEN 0
    ELSE LoserForfeit(active[o], final_matched[WinningSide], active_total[side[o]])

\* What the position of o gives up in this settlement.
Forfeit(o) ==
    IF side[o] = WinningSide THEN 0
    ELSE LoserForfeit(active[o], final_matched[side[o]], active_total[side[o]])

\* calculate_entitlement: permissionless, once per position.
CalculatePositionEntitlement(o) ==
    /\ side[o] # "None" /\ ~claimed[o] /\ ~processed[o]
    /\ state = "Settling"
    /\ PrincipalBalances(o)
    /\ Forfeit(o) <= active[o]
    /\ processed_count + 1 <= position_count
    /\ base' = [base EXCEPT ![o] = active[o] - Forfeit(o) + pending[o] + refundable[o]]
    /\ final_forfeited' = final_forfeited + Forfeit(o)
    /\ processed_count' = processed_count + 1
    /\ processed' = [processed EXCEPT ![o] = TRUE]
    /\ state' = IF processed_count + 1 = position_count THEN "Settled" ELSE "Settling"
    /\ UNCHANGED <<now, configVars, event_epoch, claimed_count, termVars, totalVars,
                   final_matched, outcome, bucketVars, next_nonce, claimed, lot,
                   moneyVars, intentVars, epoch_since>>

\* The rest of transition_to_void, shared with its mutations.
Void(count) ==
    /\ state' = "Voided"
    /\ final_matched' = Zero
    /\ final_forfeited' = 0
    /\ processed_count' = count
    /\ outcome' = "Void"
    /\ UNCHANGED <<now, configVars, event_epoch, claimed_count, termVars, totalVars,
                   positionVars, moneyVars, intentVars, epoch_since>>

\* Mutations: a settled market can still time out; a frozen one cannot; the
\* count of accounts to close is not set.
VoidAfterSettlement == state \in {"Open", "Frozen", "Settled"} /\ Void(position_count)
VoidWhenOpenOnly == state = "Open" /\ Void(position_count)
VoidWithoutCount == state \in {"Open", "Frozen"} /\ Void(processed_count)

\* transition_to_void: from now on processed_count counts accounts left to close.
TransitionToVoid == state \in {"Open", "Frozen"} /\ Void(position_count)

\* void_market: attested by the oracle set.
VoidMarket == pinned_activation <= now /\ TransitionToVoid

\* timeout_void: permissionless once the resolution deadline is reached.
TimeoutVoid == now >= terms.deadline /\ TransitionToVoid

-----------------------------------------------------------------------------
(* Claims and account closing: instructions/claims.rs *)

\* Mutation: winnings are a share of what the vault happens to hold.
ClaimAmountFromVault(o) ==
    IF side[o] # WinningSide THEN base[o]
    ELSE base[o] + WinnerWinnings(active[o], vault, active_total[side[o]])

\* settled_claim_amount
SettledClaimAmount(o) ==
    IF side[o] # WinningSide THEN base[o]
    ELSE base[o] + WinnerWinnings(active[o], final_forfeited, active_total[side[o]])

\* Mutation: a void refund forgets the invalidated lots.
ClaimAmountWithoutRefundable(o) ==
    IF state = "Voided" THEN active[o] + pending[o] ELSE SettledClaimAmount(o)

ClaimAmount(o) == IF state = "Voided" THEN total_paid[o] ELSE SettledClaimAmount(o)

\* prepare_claim: every requirement on the accounts, before money moves.
ClaimPrepared(o) ==
    /\ ~claimed[o]
    /\ PrincipalBalances(o)
    /\ state = "Settled" => processed[o]
    /\ claimed_count < position_count

\* transfer_sol_claim, transfer_usdc_claim: VaultUnderfunded unless covered.
TransferClaim(o, a) ==
    /\ a <= vault
    /\ vault' = vault - a
    /\ received' = [received EXCEPT ![o] = @ + a]
    /\ UNCHANGED <<deposited, dust>>

\* process_claim: the position is marked, then the money moves.
ProcessClaim(o) ==
    /\ side[o] # "None"
    /\ state \in {"Settled", "Voided"}
    /\ ClaimPrepared(o)
    /\ claimed' = [claimed EXCEPT ![o] = TRUE]
    /\ claimed_count' = claimed_count + 1
    /\ TransferClaim(o, ClaimAmount(o))
    /\ UNCHANGED <<now, configVars, state, event_epoch, termVars, totalVars, finalVars,
                   bucketVars, entitledVars, next_nonce, lot, intentVars, epoch_since>>

ClaimPosition(o) == ProcessClaim(o)       \* signed by the owner

ClaimPositionFor(o) == ProcessClaim(o)    \* paid for by anyone, same destination

Terminal == state \in {"Settled", "Voided"}

\* close_position_lots: a batch of the k newest lots, newest first.
ClosePositionLots(o, k) ==
    /\ Terminal
    /\ side[o] # "None" /\ claimed[o]
    /\ 0 < k /\ k <= next_nonce[o]
    /\ \A n \in Nonces : n >= next_nonce[o] - k /\ n < next_nonce[o] => lot[o][n] # NoLot
    /\ lot' = [lot EXCEPT ![o] =
           [n \in Nonces |-> IF n >= next_nonce[o] - k THEN NoLot ELSE lot[o][n]]]
    /\ next_nonce' = [next_nonce EXCEPT ![o] = @ - k]
    /\ UNCHANGED <<now, configVars, marketVars, bucketVars, entitledVars, claimed,
                   moneyVars, intentVars, epoch_since>>

\* close_position: the position account is deleted.
ClosePosition(o) ==
    /\ Terminal
    /\ side[o] # "None" /\ claimed[o]
    /\ next_nonce[o] = 0
    /\ processed_count > 0
    /\ processed_count' = processed_count - 1
    /\ side' = [side EXCEPT ![o] = "None"]
    /\ active' = [active EXCEPT ![o] = 0]
    /\ pending' = [pending EXCEPT ![o] = 0]
    /\ refundable' = [refundable EXCEPT ![o] = 0]
    /\ total_paid' = [total_paid EXCEPT ![o] = 0]
    /\ base' = [base EXCEPT ![o] = 0]
    /\ processed' = [processed EXCEPT ![o] = FALSE]
    /\ claimed' = [claimed EXCEPT ![o] = FALSE]
    /\ UNCHANGED <<now, configVars, state, event_epoch, claimed_count, termVars, totalVars,
                   final_matched, final_forfeited, outcome, next_nonce, lot,
                   moneyVars, intentVars, epoch_since>>

\* validate_market_close
MarketClosable == Terminal /\ claimed_count = position_count /\ processed_count = 0

\* close_sol_vault, close_usdc_vault: the rest goes to the pinned recipient.
CloseVault == dust' = vault /\ vault' = 0 /\ UNCHANGED <<deposited, received>>

CloseMarket ==
    /\ MarketClosable
    /\ CloseVault
    /\ state' = "Closed"
    /\ UNCHANGED <<now, configVars, event_epoch, claimed_count, termVars, totalVars, finalVars,
                   positionVars, intentVars, epoch_since>>

Next ==
    \/ Tick
    \/ SetPause
    \/ \E c \in Configs : RotateConfig(c)
    \/ \E a \in Times, r \in Times \cup {NoTime} : RotateOracleSet(a, r)
    \/ \E t \in TermSheets : InitializeMarket(t)
    \/ FreezeMarket
    \/ UnfreezeMarket
    \/ \E o \in Owners, s \in Sides, a \in Amounts, d \in IntentLifetimes : SignIntent(o, s, a, d)
    \/ \E o \in Owners : DropIntent(o)
    \/ \E o \in Owners : PlacePosition(o)
    \/ \E o \in Owners, n \in Nonces : ActivatePositionLot(o, n)
    \/ \E o \in Owners, n \in Nonces, e \in 1..MaxEventEpoch : InvalidatePositionLot(o, n, e)
    \/ \E won \in BOOLEAN : SettleMarket(won)
    \/ \E o \in Owners : CalculatePositionEntitlement(o)
    \/ VoidMarket
    \/ TimeoutVoid
    \/ \E o \in Owners : ClaimPosition(o)
    \/ \E o \in Owners : ClaimPositionFor(o)
    \/ \E o \in Owners, k \in 1..MaxLots : ClosePositionLots(o, k)
    \/ \E o \in Owners : ClosePosition(o)
    \/ CloseMarket

Spec == Init /\ [][Next]_vars

\* The clock runs, and the instructions anyone may submit are submitted in the
\* end: the relayer does so for every terminal market, and any wallet can.  The
\* oracle, the feed operator, the authorities and the wallets owe nothing.
Fairness ==
    /\ WF_vars(Tick)
    /\ WF_vars(TimeoutVoid)
    /\ WF_vars(CloseMarket)
    /\ \A o \in Owners :
          /\ WF_vars(CalculatePositionEntitlement(o))
          /\ WF_vars(ClaimPositionFor(o))
          /\ WF_vars(\E k \in 1..MaxLots : ClosePositionLots(o, k))
          /\ WF_vars(ClosePosition(o))

FairSpec == Spec /\ Fairness

-----------------------------------------------------------------------------
(* Properties *)

States == {"Absent", "Open", "Frozen", "Settling", "Settled", "Voided", "Closed"}
Outcomes == {"Unresolved", "ClaimWon", "ClaimLost", "Void"}
LotStates == {"None", "Pending", "Active", "Voided"}
MaybeSides == Sides \cup {"None"}
MaybeTime == Nat \cup {NoTime}
LotRecords == [state : LotStates, side : MaybeSides, amount : Nat, observed : Nat,
               placed : Nat, activation : MaybeTime]
IntentRecords == [side : MaybeSides, amount : Nat, nonce : Nonces, epoch : Nat, expiry : Nat]

ConfigTypeOK ==
    /\ now \in Nat /\ paused \in BOOLEAN /\ limits \in LimitSettings
    /\ oracle \in [epoch : Nat, activation : Nat, retirement : MaybeTime]

MarketTypeOK ==
    /\ state \in States /\ terms \in MarketTerms /\ pinned_activation \in Nat
    /\ active_total \in [Sides -> Nat] /\ pending_total \in [Sides -> Nat]
    /\ final_matched \in [Sides -> Nat] /\ final_forfeited \in Nat
    /\ processed_count \in Nat /\ outcome \in Outcomes
    /\ position_count \in Nat /\ claimed_count \in Nat

PositionTypeOK ==
    /\ side \in [Owners -> MaybeSides]
    /\ active \in [Owners -> Nat] /\ pending \in [Owners -> Nat]
    /\ refundable \in [Owners -> Nat] /\ base \in [Owners -> Nat]
    /\ processed \in [Owners -> BOOLEAN] /\ claimed \in [Owners -> BOOLEAN]
    /\ next_nonce \in [Owners -> 0..MaxLots] /\ total_paid \in [Owners -> Nat]

LotTypeOK == lot \in [Owners -> [Nonces -> LotRecords]]

MoneyTypeOK ==
    /\ vault \in Nat /\ dust \in Nat
    /\ deposited \in [Owners -> Nat] /\ received \in [Owners -> Nat]

IntentTypeOK == intent \in [Owners -> IntentRecords] /\ signed \in [Owners -> Nat]

EpochTypeOK == event_epoch \in 0..MaxEventEpoch /\ epoch_since \in [0..MaxEventEpoch -> Nat]

\* Every account field has its type; u64 fields never go below zero.
TypeOK ==
    /\ ConfigTypeOK
    /\ MarketTypeOK
    /\ PositionTypeOK
    /\ LotTypeOK
    /\ MoneyTypeOK
    /\ IntentTypeOK
    /\ EpochTypeOK

\* Solvency.  In a terminal market no claim can fail: the accounting checks of
\* prepare_claim hold for every open position, and the vault covers whichever
\* position claims next, in any order, so VaultUnderfunded is unreachable.
ClaimsCovered ==
    Terminal => \A o \in Owners :
        side[o] # "None" /\ ~claimed[o] => ClaimPrepared(o) /\ ClaimAmount(o) <= vault

\* The first phase of settlement cannot wedge: while the market is Settling some
\* position is still to be calculated, and calculate_entitlement's own checks
\* (principal, forfeit at most the stake, count) hold for each of those.
SettlementCanProceed ==
    state = "Settling" =>
        /\ \E o \in Owners : side[o] # "None" /\ ~processed[o]
        /\ \A o \in Owners : side[o] # "None" /\ ~processed[o] =>
               /\ ~claimed[o] /\ PrincipalBalances(o)
               /\ Forfeit(o) <= active[o]
               /\ processed_count < position_count

\* Anti-snipe.  A stake taken in play that counts as active was activated with
\* its delay over before the feed froze the market for any later event: no
\* epoch after the one it was placed in began inside its delay.
NoStakeActiveThroughEvent ==
    \A o \in Owners, n \in Nonces :
        lot[o][n].state = "Active" /\ lot[o][n].activation # NoTime =>
            \A e \in 1..event_epoch :
                e > lot[o][n].observed => epoch_since[e] >= lot[o][n].activation

\* A wallet never pays more than it signed for, although a signed placement
\* can be submitted again after it landed.
NoDuplicatePlacement == \A o \in Owners : deposited[o] <= signed[o]

\* A position that was paid got its due: refunds in full when the market was
\* voided, at least its principal when its side won, and at least the stakes
\* that never became active when its side lost.
PaidInFull ==
    \A o \in Owners : side[o] # "None" /\ claimed[o] =>
        /\ state = "Voided" => received[o] = total_paid[o]
        /\ state = "Settled" /\ side[o] = WinningSide => received[o] >= total_paid[o]
        /\ received[o] >= pending[o] + refundable[o]

\* Closing the market leaves nothing behind: no position or lot account, no
\* unpaid wallet, and a residual smaller than one unit per winning position
\* (rounding only, and at least one position lost).
CloseLeavesDustOnly ==
    state = "Closed" =>
        /\ vault = 0
        /\ \A o \in Owners : side[o] = "None" /\ \A n \in Nonces : lot[o][n] = NoLot
        /\ dust > 0 => dust + 2 <= position_count

\* What a settled position is owed does not depend on who claims, closes
\* accounts, pauses or rotates the configuration before it.
ClaimAmountStable ==
    [][\A o \in Owners :
         Terminal /\ side[o] # "None" /\ ~claimed[o] => ClaimAmount(o)' = ClaimAmount(o)]_vars

\* Every placed stake gets out: whatever the oracle, the feed operator and the
\* pause authority do, each position is eventually paid.
EveryPositionPaid ==
    \A o \in Owners : side[o] # "None" ~> (claimed[o] \/ side[o] = "None")

\* Every market that opens is eventually closed and its accounts reclaimed.
MarketCloses == state = "Open" ~> state = "Closed"

=============================================================================
