--------------------------- MODULE OracleDecision ---------------------------
(***************************************************************************)
(* What the oracle set of an escrow market promises (escrow-plan.md,       *)
(* section 12): at most one terminal verdict ever carries a threshold of   *)
(* signatures, and it is one that the provider's newest record has given.  *)
(* A signer reads the record before it signs, so the match may have moved  *)
(* on by then; whether anyone submits the decision is not promised either. *)
(***************************************************************************)
VARIABLES
    said,    \* the verdicts that followed from a record while it was the newest
    decided  \* the verdicts a threshold of signers has signed

decisionVars == <<said, decided>>

DecisionInit == said = {} /\ decided = {}

Observe == said \subseteq said' /\ UNCHANGED decided

Decide ==
    /\ decided = {}
    /\ \E verdict \in said : decided' = {verdict}
    /\ UNCHANGED said

DecisionSpec == DecisionInit /\ [][Observe \/ Decide]_decisionVars

=============================================================================
