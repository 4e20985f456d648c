---------------------------- MODULE MCSettlement ----------------------------
(* Small instances of SettlementLoop for TLC.                              *)
EXTENDS SettlementLoop, TLC

\* "There is a goal", in halves of a goal.
AnyGoal == [claimType |-> "totals_ou", participant |-> 0, player |-> "none", comparator |-> "gte",
            thresholdHalves |-> 1, period |-> "FT_90", anchorSeq |-> 0]

Frame(kind, seq, phase, goals, reverses) ==
    [kind |-> kind, seq |-> seq, ts |-> 0, rcv |-> 0, confirmed |-> TRUE, phase |-> phase,
     late |-> FALSE, score |-> [goals |-> <<goals, 0>>, goals90 |-> <<goals, 0>>],
     participant |-> 1, player |-> "ann", own |-> FALSE, reverses |-> reverses]

Overturned == <<Frame("goal", 1, "H1", 1, 0), Frame("goal_discarded", 2, "F", 0, 1)>>
Abandoned  == <<Frame("phase_change", 1, "H1", 0, 0), Frame("phase_change", 2, "ABD", 1, 0)>>
Checked    == <<Frame("var_check", 1, "H1", 0, 0), Frame("var_end", 2, "H1", 0, 0),
                Frame("phase_change", 3, "F", 0, 0)>>

ShortMatches == {Overturned, Abandoned}
CheckedMatch == {Checked}

\* Two calls of Settler.tick differ in nothing but their name.
SameTick == Permutations(Ticks)

Stakes == [back |-> 3, doubt |-> 2]
=============================================================================
