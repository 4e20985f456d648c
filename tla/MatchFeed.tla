----------------------------- MODULE MatchFeed -----------------------------
(***************************************************************************)
(* One football match and the score stream the TxLINE normaliser makes of  *)
(* it.  The match itself is the environment; what packages/txline adds is  *)
(* in the shape of each event: the running score with its 90-minute split, *)
(* the confirmed flag, the phase carried on every record, and reversesSeq, *)
(* which it resolves to the LAST sequence number seen for the event id, if *)
(* it has seen one: the map is lost with the process, and gap-fill starts  *)
(* an empty one for every record.                                          *)
(*                                                                         *)
(* Phases are thinned to NS, H1, H2, F and ET1, FET, PE, FPE: HT, HTET and *)
(* ET2 sit in the same phase sets as a neighbour that is kept.             *)
(***************************************************************************)
EXTENDS MarketReducer, Sequences

CONSTANTS
  Kinds,          \* the kinds of event this match may produce
  Gaps,           \* what the normaliser may miss of a record: see Corrects
  Players,        \* goal scorers
  SideOf,         \* the side each of them plays for
  MaxEvents,      \* bound on the events of the score stream
  MaxBacklog,     \* bound on the events published and not yet delivered
  MaxReversals    \* bound on amends and discards of one goal

ASSUME MatchAssumption ==
  /\ Gaps \subseteq {"detail", "seq", "kind"}
  /\ SideOf \in [Players -> 1..2]
  /\ MaxEvents \in Nat
  /\ MaxBacklog \in Nat
  /\ MaxReversals \in Nat

VARIABLES
  match,   \* what has happened: phase, late, split, goals, untold, var, seq
  queue,   \* published and not yet delivered: [event, truth]
  now      \* the wall clock

feedVars == <<match, queue, now>>

REGULATION == {"NS", "H1", "H2", "F"}

NextPhase == [NS |-> {"H1"}, H1 |-> {"H2"}, H2 |-> {"F", "ET1"},
              ET1 |-> {"FET", "PE"}, PE |-> {"FPE"},
              F |-> {}, FET |-> {}, FPE |-> {}, ABD |-> {}]

Over(m) == NextPhase[m.phase] = {}

SideGoals(goals, side) == Cardinality({g \in goals : g.participant = side})

\* During regulation the split mirrors the total; past it, H1 + H2 or nothing.
buildScoreState(m) ==
  LET regulation == {g \in m.goals : g.phase \in REGULATION}
  IN  [goals |-> [side \in 1..2 |-> SideGoals(m.goals, side)],
       goals90 |-> [side \in 1..2 |->
          CASE m.phase \in REGULATION -> SideGoals(m.goals, side)
            [] OTHER -> IF m.split THEN SideGoals(regulation, side) ELSE NoSplit]]

NoScorer == [participant |-> 0, player |-> "nobody", own |-> FALSE]

InitFeed ==
  /\ match = [phase |-> "NS", late |-> FALSE, split |-> TRUE, goals |-> {},
              untold |-> {}, var |-> FALSE, seq |-> 0]
  /\ queue = <<>>
  /\ now = 0

\* The record of the match becomes m and the feed publishes one event about it.
Publish(kind, confirmed, m, who, reverses) ==
  LET s == match.seq + 1
      truth == [m EXCEPT !.seq = s]
      event == [kind |-> kind, seq |-> s, ts |-> now, rcv |-> now, confirmed |-> confirmed,
                phase |-> m.phase, late |-> m.late, score |-> buildScoreState(m),
                participant |-> who.participant, player |-> who.player, own |-> who.own,
                reverses |-> reverses]
  IN  /\ kind \in Kinds
      /\ s <= MaxEvents
      /\ Len(queue) < MaxBacklog
      /\ match' = truth
      /\ queue' = Append(queue, [event |-> event, truth |-> truth])
      /\ UNCHANGED now

\* Leaving regulation decides whether this feed breaks the 90 minutes out.
ChangePhase ==
  \E p \in NextPhase[match.phase], splits \in BOOLEAN :
    /\ NextPhase[p] = {} => ~match.var
    /\ p \in REGULATION => splits
    /\ match.phase \notin REGULATION => splits = match.split
    /\ Publish("phase_change", TRUE, [match EXCEPT !.phase = p, !.split = splits], NoScorer, 0)

\* An own goal counts for the other side.
CreditedSide(scorer, own) == IF own THEN Opponent(SideOf[scorer]) ELSE SideOf[scorer]

Scoring == match.phase \in {"H1", "H2", "ET1"}

\* first: the sequence number the reducer knows the goal by.
\* last: the newest sequence number of its event id (seqByEventId).
Goal ==
  \E scorer \in Players, own \in BOOLEAN :
    /\ Scoring
    /\ LET g == [first |-> match.seq + 1, last |-> match.seq + 1, reversals |-> 0,
                 participant |-> CreditedSide(scorer, own), player |-> scorer, own |-> own,
                 phase |-> match.phase]
       IN  Publish("goal", TRUE, [match EXCEPT !.goals = @ \cup {g}], g, 0)

\* The feed credits the side before it knows the scorer.
UnnamedGoal ==
  \E scorer \in Players :
    /\ Scoring /\ "detail" \in Gaps
    /\ LET g == [first |-> match.seq + 1, last |-> match.seq + 1, reversals |-> 0,
                 participant |-> SideOf[scorer], player |-> scorer, own |-> FALSE,
                 phase |-> match.phase]
       IN  Publish("goal", TRUE,
                   [match EXCEPT !.goals = @ \cup {g}, !.untold = @ \cup {g.first}],
                   [g EXCEPT !.player = NoScorer.player], 0)

UnconfirmedGoal ==
  /\ Scoring
  /\ "unconfirmed_goal" \in Kinds
  /\ Publish("goal", FALSE, match, NoScorer, 0)

\* A discard or an amend is the verdict of an open VAR check.  The normaliser
\* may not know the number of the goal ("seq"), may find an empty Data envelope
\* ("detail"), or, with the kind of the original event lost as well, take the
\* record for an ordinary update ("kind").  untold: the goals whose last word on
\* the feed was not placed under the goal's own number, or named no scorer.
Corrects(kind, g, goals, who) ==
  \E missing \in SUBSET Gaps :
    LET reverses == IF missing \cap {"seq", "kind"} = {} THEN g.last ELSE 0
        exact == reverses = g.first /\ (kind = "goal_amended" => "detail" \notin missing)
    IN  /\ ~Over(match)
        /\ kind \in Kinds
        /\ g.reversals < MaxReversals
        /\ Publish(IF "kind" \in missing THEN "stat_update" ELSE kind, TRUE,
                   [match EXCEPT !.goals = goals, !.var = FALSE,
                                 !.untold = IF exact THEN @ \ {g.first} ELSE @ \cup {g.first}],
                   IF "detail" \in missing THEN NoScorer ELSE who, reverses)

Discard == \E g \in match.goals : Corrects("goal_discarded", g, match.goals \ {g}, g)

Amend ==
  \E g \in match.goals, scorer \in Players, own \in BOOLEAN :
    LET fixed == [g EXCEPT !.player = scorer, !.own = own, !.last = match.seq + 1,
                           !.participant = CreditedSide(scorer, own), !.reversals = @ + 1]
    IN  Corrects("goal_amended", g, (match.goals \ {g}) \cup {fixed}, fixed)

\* Checks are made in play.
VarCheck ==
  /\ match.phase # "NS" /\ ~Over(match) /\ ~match.var
  /\ Publish("var_check", TRUE, [match EXCEPT !.var = TRUE], NoScorer, 0)

VarEnd ==
  /\ match.var
  /\ Publish("var_end", TRUE, [match EXCEPT !.var = FALSE], NoScorer, 0)

PossibleEvent == Scoring /\ Publish("possible_event", TRUE, match, NoScorer, 0)
RedCard == Scoring /\ Publish("red_card", TRUE, match, NoScorer, 0)
Update == Publish("stat_update", TRUE, match, NoScorer, 0)

\* The 85th minute passes; the next record carries it.
RunLate ==
  /\ match.phase = "H2" /\ ~match.late
  /\ Publish("stat_update", TRUE, [match EXCEPT !.late = TRUE], NoScorer, 0)

Lineup ==
  /\ match.phase = "NS"
  /\ \E starter \in Players :
       Publish("lineup", TRUE, match, [NoScorer EXCEPT !.player = starter], 0)

Abandon ==
  /\ ~Over(match)
  /\ "abandoned" \in Kinds
  /\ Publish("phase_change", TRUE, [match EXCEPT !.phase = "ABD"], NoScorer, 0)

CoverageLost == ~Over(match) /\ Publish("coverage_warning", TRUE, match, NoScorer, 0)

MatchStep ==
  \/ ChangePhase \/ Goal \/ UnnamedGoal \/ UnconfirmedGoal \/ Discard \/ Amend \/ VarCheck \/ VarEnd
  \/ PossibleEvent \/ RedCard \/ Update \/ RunLate \/ Lineup \/ Abandon \/ CoverageLost
=============================================================================
