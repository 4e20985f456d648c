------------------------------- MODULE MCEscrow -------------------------------
(* Instances of the escrow market for TLC. *)
EXTENDS EscrowAccounting

\* One setting of the limits, and a second one that only lowers the maximum.
OneConfig == {[min |-> 1, max |-> 4, duration |-> 9, resolution |-> 9]}
TwoConfigs == OneConfig \cup {[min |-> 2, max |-> 3, duration |-> 9, resolution |-> 9]}

Sheet(ppm, inPlayStart, cutoff, deadline) ==
    [quote |-> 0, ppm |-> ppm, ratio |-> RatioMilli(ppm),
     in_play_start |-> inPlayStart, cutoff |-> cutoff, deadline |-> deadline]

\* Kick-off after the last placement: every stake is active at once.  Evens,
\* a favourite (700 milli) and an outsider (1500 milli).
PreMatchTerms == {Sheet(ppm, 1, 2, 3) : ppm \in {500000, 588235, 400000}}

\* Kick-off at once: every stake is pending first.
InPlayTerms == {Sheet(400000, 0, 2, 3)}

\* A short market at 300 milli: with u64 = 3 one Doubt stake is settled against one
\* Back stake, and the pots of two Doubt stakes overflow.
ShortTerms == {Sheet(769231, 0, 1, 2)}

===============================================================================
