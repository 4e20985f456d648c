---------------------------- MODULE RelayedEffect ----------------------------
(***************************************************************************)
(* What a durable relayer job promises (escrow-plan.md, section 17): the   *)
(* economic transition it stands for happens at most once, and the job is  *)
(* complete only when it happened, by the job's own transaction or because *)
(* others brought the chain to that state or closed the market altogether. *)
(* Giving up is allowed at any time and promises nothing about the chain.  *)
(***************************************************************************)
EXTENDS Naturals

VARIABLES
    effects,   \* successful transactions of the job on the chain
    elsewhere, \* others made the transition, or closed its market
    outcome    \* "open", "complete" or "dead"

effectVars == <<effects, elsewhere, outcome>>

EffectInit == effects = 0 /\ elsewhere = FALSE /\ outcome = "open"

Happen ==
    /\ effects = 0 /\ ~elsewhere
    /\ effects' = 1
    /\ UNCHANGED <<elsewhere, outcome>>

HappenElsewhere ==
    /\ elsewhere' = TRUE
    /\ UNCHANGED <<effects, outcome>>

Complete ==
    /\ outcome = "open" /\ (effects = 1 \/ elsewhere)
    /\ outcome' = "complete"
    /\ UNCHANGED <<effects, elsewhere>>

GiveUp ==
    /\ outcome = "open"
    /\ outcome' = "dead"
    /\ UNCHANGED <<effects, elsewhere>>

Reopen ==
    /\ outcome = "dead"
    /\ outcome' = "open"
    /\ UNCHANGED <<effects, elsewhere>>

EffectNext == Happen \/ HappenElsewhere \/ Complete \/ GiveUp \/ Reopen

EffectSpec == EffectInit /\ [][EffectNext]_effectVars

=============================================================================
