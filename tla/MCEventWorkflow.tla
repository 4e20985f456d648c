--------------------------- MODULE MCEventWorkflow ---------------------------
(* A small instance of EventWorkflow for TLC.                              *)
EXTENDS EventWorkflow

\* "There is a goal", in halves of a goal.
AnyGoal == [claimType |-> "totals_ou", participant |-> 0, player |-> "none", comparator |-> "gte",
            thresholdHalves |-> 1, period |-> "FT_90", anchorSeq |-> 0]

Frame(kind, seq, phase, goals, reverses) ==
    [kind |-> kind, seq |-> seq, ts |-> 0, rcv |-> 0, confirmed |-> TRUE, phase |-> phase,
     late |-> FALSE, score |-> [goals |-> <<goals, 0>>, goals90 |-> <<goals, 0>>],
     participant |-> 1, player |-> "ann", own |-> FALSE, reverses |-> reverses]

\* Full time without a goal; a goal at the whistle, taken back; coverage lost
\* and found again; an abandoned match.
Goalless  == <<Frame("phase_change", 1, "F", 0, 0)>>
Corrected == <<Frame("goal", 1, "F", 1, 0), Frame("goal_discarded", 2, "F", 0, 1)>>
Covered   == <<Frame("coverage_warning", 1, "H1", 0, 0), Frame("phase_change", 2, "F", 0, 0)>>
Abandoned == <<Frame("phase_change", 1, "H1", 0, 0), Frame("phase_change", 2, "ABD", 0, 0)>>

\* A goal decides the claim, and the half-time whistle comes before full time.
Early     == <<Frame("goal", 1, "H1", 1, 0), Frame("phase_change", 2, "HT", 1, 0),
               Frame("phase_change", 3, "F", 1, 0)>>

DecidedEarly == {Early}
Matches == {Goalless, Corrected, Covered, Abandoned}
SignerUrls == <<"s1", "s2", "s3">>
=============================================================================
