------------------------- MODULE WithdrawalPromise -------------------------
(***************************************************************************)
(* What a withdrawal promises the user whose balance it has debited: the   *)
(* money leaves the treasury once, or comes back to the balance once, never *)
(* both; and the row says which only after it has happened.  Each time the *)
(* chain belies what it answered before, one more may go out than should.  *)
(***************************************************************************)
EXTENDS Naturals

VARIABLES
    paid,     \* transfers to the user on the chain
    refunded, \* credits back to the balance
    outcome,  \* "open", "confirmed" or "failed"
    slips     \* answers of the chain that it has belied

promiseVars == <<paid, refunded, outcome, slips>>

PromiseInit == paid = 0 /\ refunded = 0 /\ outcome = "open" /\ slips = 0

PayOut ==
    /\ paid + refunded <= slips
    /\ paid' = paid + 1 /\ UNCHANGED <<refunded, outcome, slips>>

GiveBack ==
    /\ refunded = 0 /\ paid <= slips
    /\ refunded' = 1 /\ UNCHANGED <<paid, outcome, slips>>

ReportPaid ==
    /\ outcome = "open" /\ paid > 0
    /\ outcome' = "confirmed" /\ UNCHANGED <<paid, refunded, slips>>

ReportFailed ==
    /\ outcome = "open" /\ refunded = 1
    /\ outcome' = "failed" /\ UNCHANGED <<paid, refunded, slips>>

Slip == slips' = slips + 1 /\ UNCHANGED <<paid, refunded, outcome>>

PromiseNext == PayOut \/ GiveBack \/ ReportPaid \/ ReportFailed \/ Slip

PromiseSpec == PromiseInit /\ [][PromiseNext]_promiseVars

=============================================================================
