------------------------ MODULE MarketReducer_proofs ------------------------
(***************************************************************************)
(* What a reduction returns, for any claim, state and event: a market      *)
(* state again, an outcome with everything it settles or voids, and        *)
(* effects on waiting taps only.  The custodial settlement loop and the    *)
(* escrow workflow both rest on it.                                        *)
(***************************************************************************)
EXTENDS MarketReducer, TLAPS

Won == {"claim_won", "claim_lost"}

\* A market state, and a candidate only with an outcome.
StateOK(st) ==
    /\ st = [status |-> st.status, pending |-> st.pending, positions |-> st.positions,
             scratch |-> st.scratch]
    /\ st.status \in {"none", "pending_lineup", "open", "frozen", "settling", "settled", "voided"}
    /\ st.pending = NoCandidate \/ st.pending.outcome \in Won

EffectsShape(fx) ==
    fx = [freeze |-> fx.freeze, unfreeze |-> fx.unfreeze, activateMarket |-> fx.activateMarket,
          terminal |-> fx.terminal, voids |-> fx.voids, activates |-> fx.activates]

TerminalOK(terminal) == terminal = NoTerminal \/ terminal.outcome \in Won \cup {"void"}

ResultOK(r) == StateOK(r.state) /\ EffectsShape(r.effects) /\ TerminalOK(r.effects.terminal)

Running == {"open", "frozen", "settling"}

\* st is on the way from the state b on an event numbered seq: no tap waits that
\* did not before, and the candidate is b's or the event's.
StateFrom(b, seq, st) ==
    /\ StateOK(st)
    /\ Pending(st.positions) \subseteq Pending(b.positions)
    /\ st.pending = NoCandidate \/ st.pending = b.pending \/ st.pending.decidingSeq = seq

\* Only taps that were waiting are voided or activated.
EffectsFrom(b, fx) ==
    /\ EffectsShape(fx) /\ TerminalOK(fx.terminal)
    /\ fx.voids \subseteq Pending(b.positions) /\ fx.activates \subseteq Pending(b.positions)

\* And a market that is not ended is still running, if it was.
From(b, seq, st, fx) ==
    /\ StateFrom(b, seq, st) /\ EffectsFrom(b, fx)
    /\ st.status \in Running \cup {"settled", "voided", b.status}
    /\ fx.terminal = NoTerminal => st.status \in Running \cup {b.status}

\* Nothing has been ended yet.
Midway(b, seq, st, fx) == From(b, seq, st, fx) /\ fx.terminal = NoTerminal

-----------------------------------------------------------------------------
(* One field at a time. *)

LEMMA StateChanges ==
    ASSUME NEW st, StateOK(st)
    PROVE  /\ \A x : LET n == [st EXCEPT !.scratch = x]
                     IN  StateOK(n) /\ n.positions = st.positions /\ n.pending = st.pending
                         /\ n.status = st.status
           /\ \A x : LET n == [st EXCEPT !.positions = x]
                     IN  StateOK(n) /\ n.positions = x /\ n.pending = st.pending
                         /\ n.status = st.status
           /\ \A x \in Running \cup {"settled", "voided"} :
                LET n == [st EXCEPT !.status = x]
                IN  StateOK(n) /\ n.positions = st.positions /\ n.pending = st.pending
                    /\ n.status = x
           /\ \A x : x = NoCandidate \/ x.outcome \in Won =>
                LET n == [st EXCEPT !.pending = x]
                IN  StateOK(n) /\ n.positions = st.positions /\ n.pending = x
                    /\ n.status = st.status
  BY DEF StateOK, Running

LEMMA EffectsChange ==
    ASSUME NEW fx, EffectsShape(fx)
    PROVE  /\ \A x : LET n == [fx EXCEPT !.freeze = x]
                     IN  EffectsShape(n) /\ n.terminal = fx.terminal /\ n.voids = fx.voids
                         /\ n.activates = fx.activates
           /\ \A x : LET n == [fx EXCEPT !.activateMarket = x]
                     IN  EffectsShape(n) /\ n.terminal = fx.terminal /\ n.voids = fx.voids
                         /\ n.activates = fx.activates
           /\ \A x : LET n == [fx EXCEPT !.unfreeze = x]
                     IN  EffectsShape(n) /\ n.terminal = fx.terminal /\ n.voids = fx.voids
                         /\ n.activates = fx.activates
           /\ \A x : LET n == [fx EXCEPT !.voids = x]
                     IN  EffectsShape(n) /\ n.terminal = fx.terminal /\ n.voids = x
                         /\ n.activates = fx.activates
           /\ \A x : LET n == [fx EXCEPT !.activates = x]
                     IN  EffectsShape(n) /\ n.terminal = fx.terminal /\ n.voids = fx.voids
                         /\ n.activates = x
           /\ \A x : LET n == [fx EXCEPT !.terminal = x]
                     IN  EffectsShape(n) /\ n.terminal = x /\ n.voids = fx.voids
                         /\ n.activates = fx.activates
  BY DEF EffectsShape

LEMMA NoEffectsFrom == \A b : EffectsFrom(b, NoEffects) /\ NoEffects.terminal = NoTerminal
  BY DEF EffectsFrom, EffectsShape, NoEffects, TerminalOK

LEMMA ResultFields == \A st, fx : Result(st, fx).state = st /\ Result(st, fx).effects = fx
  BY DEF Result

\* Marking taps that were waiting makes no other tap wait.
LEMMA MarkPending ==
    ASSUME NEW positions, NEW chosen, NEW state
    PROVE  Pending(Mark(positions, chosen, state)) \subseteq Pending(positions) \cup chosen
  BY DEF Pending, Mark

LEMMA RunningIs == "open" \in Running /\ "frozen" \in Running /\ "settling" \in Running
  BY DEF Running

LEMMA StateFromChanges ==
    ASSUME NEW b, NEW seq, NEW st, StateFrom(b, seq, st)
    PROVE  /\ \A x : LET n == [st EXCEPT !.scratch = x] IN StateFrom(b, seq, n) /\ n.status = st.status
           /\ \A x \in Running \cup {"settled", "voided"} :
                LET n == [st EXCEPT !.status = x] IN StateFrom(b, seq, n) /\ n.status = x
           /\ \A x : x = NoCandidate \/ (x.outcome \in Won /\ x.decidingSeq = seq) =>
                LET n == [st EXCEPT !.pending = x] IN StateFrom(b, seq, n) /\ n.status = st.status
           /\ \A chosen, x : chosen \subseteq Pending(b.positions) =>
                LET n == [st EXCEPT !.positions = Mark(@, chosen, x)]
                IN  StateFrom(b, seq, n) /\ n.status = st.status /\ n.pending = st.pending
                    /\ n.positions = Mark(st.positions, chosen, x)
<1>1. StateOK(st)
  BY DEF StateFrom
<1>2. \A x : LET n == [st EXCEPT !.scratch = x] IN StateFrom(b, seq, n) /\ n.status = st.status
  BY <1>1, StateChanges DEF StateFrom
<1>3. \A x \in Running \cup {"settled", "voided"} :
        LET n == [st EXCEPT !.status = x] IN StateFrom(b, seq, n) /\ n.status = x
  BY <1>1, StateChanges DEF StateFrom
<1>4. \A x : x = NoCandidate \/ (x.outcome \in Won /\ x.decidingSeq = seq) =>
        LET n == [st EXCEPT !.pending = x] IN StateFrom(b, seq, n) /\ n.status = st.status
  BY <1>1, StateChanges DEF StateFrom
<1>5. ASSUME NEW chosen, NEW x, chosen \subseteq Pending(b.positions)
      PROVE  LET n == [st EXCEPT !.positions = Mark(@, chosen, x)]
             IN  StateFrom(b, seq, n) /\ n.status = st.status /\ n.pending = st.pending
                 /\ n.positions = Mark(st.positions, chosen, x)
  <2> DEFINE p == Mark(st.positions, chosen, x)
             n == [st EXCEPT !.positions = p]
  <2>1. Pending(p) \subseteq Pending(st.positions) \cup chosen
    BY MarkPending
  <2> HIDE DEF p
  <2>2. StateOK(n) /\ n.positions = p /\ n.pending = st.pending /\ n.status = st.status
    BY <1>1, StateChanges
  <2> HIDE DEF n
  <2>3. StateFrom(b, seq, n)
    BY <1>5, <2>1, <2>2 DEF StateFrom
  <2> QED
    BY <2>2, <2>3 DEF n, p
<1> QED
  BY <1>2, <1>3, <1>4, <1>5

-----------------------------------------------------------------------------
(* The steps of the reducer. *)

LEMMA AdvanceOK ==
    ASSUME NEW b, NEW seq, NEW st, StateFrom(b, seq, st), NEW ev
    PROVE  StateFrom(b, seq, advanceCursor(st, ev)) /\ advanceCursor(st, ev).status = st.status
<1> DEFINE new == [st EXCEPT !.scratch.lastSeq = ev.seq]
<1>1. advanceCursor(st, ev) = st \/ advanceCursor(st, ev) = new
  BY DEF advanceCursor
<1>2. StateFrom(b, seq, new) /\ new.status = st.status
  <2> DEFINE x == [st.scratch EXCEPT !.lastSeq = ev.seq]
             other == [st EXCEPT !.scratch = x]
  <2>1. StateFrom(b, seq, other) /\ other.status = st.status
    <3> HIDE DEF x
    <3> QED
      BY StateFromChanges
  <2>2. new = other
    BY DEF StateFrom, StateOK
  <2> QED
    BY <2>1, <2>2
<1> HIDE DEF new
<1> QED
  BY <1>1, <1>2

LEMMA GuardsOK ==
    ASSUME NEW b, NEW seq, NEW st, StateFrom(b, seq, st), st.status \in Running \cup {b.status}, NEW ev
    PROVE  LET r == applyPositionGuards(st, ev) IN Midway(b, seq, r.state, r.effects)
<1> DEFINE sniped == Sniped(st.positions, ev)
           matured == Matured(st.positions, ev.rcv) \ sniped
           one == [st EXCEPT !.positions = Mark(@, sniped, "void")]
           two == [one EXCEPT !.positions = Mark(@, matured, "active")]
           f == [NoEffects EXCEPT !.voids = sniped]
           fx == [f EXCEPT !.activates = matured]
<1>1. sniped \subseteq Pending(b.positions) /\ matured \subseteq Pending(b.positions)
  BY DEF Sniped, Matured, StateFrom
<1>2. applyPositionGuards(st, ev) = Result([st EXCEPT !.positions = Mark(Mark(@, sniped, "void"), matured, "active")],
                                           [NoEffects EXCEPT !.voids = sniped, !.activates = matured])
  BY DEF applyPositionGuards
<1>3. [NoEffects EXCEPT !.voids = sniped, !.activates = matured] = fx
  OBVIOUS
<1> HIDE DEF sniped, matured
<1>4. StateFrom(b, seq, one) /\ one.status = st.status /\ one.positions = Mark(st.positions, sniped, "void")
  BY <1>1, StateFromChanges
<1>5. two = [st EXCEPT !.positions = Mark(Mark(@, sniped, "void"), matured, "active")]
  BY <1>4 DEF StateFrom, StateOK
<1> HIDE DEF one
<1>6. StateFrom(b, seq, two) /\ two.status = st.status
  BY <1>1, <1>4, StateFromChanges
<1>7. /\ EffectsShape(f) /\ f.terminal = NoTerminal /\ f.voids = sniped /\ f.activates = {}
  BY NoEffectsFrom, EffectsChange DEF EffectsFrom, NoEffects
<1> HIDE DEF f
<1>8. EffectsShape(fx) /\ fx.terminal = NoTerminal /\ fx.voids = sniped /\ fx.activates = matured
  BY <1>7, EffectsChange
<1> HIDE DEF fx, two
<1>9. Midway(b, seq, two, fx)
  BY <1>1, <1>6, <1>8 DEF Midway, From, EffectsFrom, TerminalOK
<1>10. applyPositionGuards(st, ev) = Result(two, fx)
  BY <1>2, <1>3, <1>5
<1> QED
  BY <1>9, <1>10, ResultFields

LEMMA CutoffOK ==
    ASSUME NEW b, NEW seq, NEW st, NEW fx, Midway(b, seq, st, fx), NEW spec, NEW ev
    PROVE  LET r == applyCutoff(spec, st, fx, ev) IN Midway(b, seq, r.state, r.effects)
<1> DEFINE reached == [st EXCEPT !.scratch.cutoffReached = TRUE]
           closed == [reached EXCEPT !.status = "frozen"]
           cut == [closed EXCEPT !.scratch.freezeReason = "cutoff"]
           f == [fx EXCEPT !.freeze = "cutoff"]
<1>0. StateFrom(b, seq, st) /\ EffectsFrom(b, fx) /\ EffectsShape(fx)
  BY DEF Midway, From, EffectsFrom
<1>1. StateFrom(b, seq, reached) /\ reached.status = st.status
  BY <1>0, StateFromChanges
<1>2. cut = [reached EXCEPT !.status = "frozen", !.scratch.freezeReason = "cutoff"]
  OBVIOUS
<1>3. \/ applyCutoff(spec, st, fx, ev) = Result(st, fx)
      \/ applyCutoff(spec, st, fx, ev) = Result(reached, fx)
      \/ applyCutoff(spec, st, fx, ev) = Result(cut, f)
  BY <1>2 DEF applyCutoff
<1> HIDE DEF reached
<1>4. StateFrom(b, seq, closed) /\ closed.status = "frozen"
  BY <1>1, StateFromChanges, RunningIs
<1> HIDE DEF closed
<1>5. StateFrom(b, seq, cut) /\ cut.status = "frozen"
  BY <1>4, StateFromChanges
<1> HIDE DEF cut
<1>6. EffectsShape(f) /\ f.terminal = fx.terminal /\ f.voids = fx.voids /\ f.activates = fx.activates
  BY <1>0, EffectsChange
<1> HIDE DEF f
<1>7. Midway(b, seq, reached, fx) /\ Midway(b, seq, cut, f)
  BY <1>1, <1>5, <1>6 DEF Midway, From, EffectsFrom, Running
<1> QED
  BY <1>3, <1>7, ResultFields

LEMMA VoidOK ==
    ASSUME NEW b, NEW seq, NEW st, StateFrom(b, seq, st), NEW fx, EffectsFrom(b, fx), NEW ev
    PROVE  LET r == voidMarket(st, fx, ev) IN From(b, seq, r.state, r.effects)
<1> DEFINE ended == [st EXCEPT !.status = "voided"]
           new == [ended EXCEPT !.pending = NoCandidate]
           terminal == [outcome |-> "void", decidingSeq |-> ev.seq, evidence |-> {}]
           f == [fx EXCEPT !.terminal = terminal]
<1>1. StateFrom(b, seq, ended) /\ ended.status = "voided"
  BY StateFromChanges
<1>2. new = [st EXCEPT !.status = "voided", !.pending = NoCandidate]
  OBVIOUS
<1>3. TerminalOK(terminal) /\ terminal # NoTerminal
  BY DEF TerminalOK, NoTerminal, NoOutcome
<1>4. voidMarket(st, fx, ev) = Result(new, f)
  BY <1>2 DEF voidMarket
<1> HIDE DEF ended, terminal
<1>5. StateFrom(b, seq, new) /\ new.status = "voided"
  BY <1>1, StateFromChanges
<1>6. EffectsShape(f) /\ f.terminal = terminal /\ f.voids = fx.voids /\ f.activates = fx.activates
  BY EffectsChange DEF EffectsFrom
<1> HIDE DEF new, f
<1>7. From(b, seq, new, f)
  BY <1>3, <1>5, <1>6 DEF From, EffectsFrom
<1> QED
  BY <1>4, <1>7, ResultFields

\* What is settled has the candidate's outcome.
LEMMA SettleOK ==
    ASSUME NEW b, NEW seq, NEW st, StateFrom(b, seq, st), st.pending # NoCandidate,
           NEW fx, EffectsFrom(b, fx)
    PROVE  LET r == settleNow(st, fx)
           IN  /\ From(b, seq, r.state, r.effects)
               /\ r.effects.terminal.decidingSeq = st.pending.decidingSeq
<1> DEFINE rest == Pending(st.positions)
           a == [st EXCEPT !.positions = Mark(@, rest, "active")]
           g == [fx EXCEPT !.activates = @ \cup rest]
           ended == [a EXCEPT !.status = "settled"]
           new == [ended EXCEPT !.pending = NoCandidate]
           terminal == [outcome |-> st.pending.outcome, decidingSeq |-> st.pending.decidingSeq,
                        evidence |-> st.pending.evidence]
           f == [g EXCEPT !.terminal = terminal]
<1>0. rest \subseteq Pending(b.positions) /\ EffectsShape(fx)
  BY DEF StateFrom, EffectsFrom
<1>1. new = [a EXCEPT !.status = "settled", !.pending = NoCandidate]
  OBVIOUS
<1>2. settleNow(st, fx) = Result(new, f)
  BY <1>1 DEF settleNow, activateRemainingPending, Result
<1>3. TerminalOK(terminal) /\ terminal # NoTerminal /\ terminal.decidingSeq = st.pending.decidingSeq
  BY DEF TerminalOK, StateFrom, StateOK, NoTerminal, NoOutcome, Won
<1> HIDE DEF rest, terminal
<1>4. StateFrom(b, seq, a)
  BY <1>0, StateFromChanges
<1> HIDE DEF a
<1>5. StateFrom(b, seq, ended) /\ ended.status = "settled"
  BY <1>4, StateFromChanges
<1> HIDE DEF ended
<1>6. StateFrom(b, seq, new) /\ new.status = "settled"
  BY <1>5, StateFromChanges
<1>7. /\ EffectsShape(g) /\ g.voids = fx.voids /\ g.activates = fx.activates \cup rest
  BY <1>0, EffectsChange
<1> HIDE DEF g
<1>8. EffectsShape(f) /\ f.terminal = terminal /\ f.voids = fx.voids /\ f.activates = fx.activates \cup rest
  BY <1>7, EffectsChange
<1> HIDE DEF new, f
<1>9. From(b, seq, new, f)
  BY <1>0, <1>3, <1>6, <1>8 DEF From, EffectsFrom
<1> QED
  BY <1>2, <1>3, <1>8, <1>9, ResultFields

LEMMA CancelOK ==
    ASSUME NEW b, NEW seq, NEW st, NEW fx, Midway(b, seq, st, fx), NEW ev
    PROVE  LET r == cancelCandidate(st, fx, ev) IN From(b, seq, r.state, r.effects)
<1> DEFINE one == [st EXCEPT !.pending = NoCandidate]
           two == [one EXCEPT !.status = "frozen"]
           new == [two EXCEPT !.scratch.freezeReason = holdReasonFor(ev)]
           f == [fx EXCEPT !.freeze = holdReasonFor(ev)]
<1>0. StateFrom(b, seq, st) /\ EffectsFrom(b, fx) /\ EffectsShape(fx)
  BY DEF Midway, From, EffectsFrom
<1>1. StateFrom(b, seq, one)
  BY <1>0, StateFromChanges
<1>2. new = [st EXCEPT !.pending = NoCandidate, !.status = "frozen",
                       !.scratch.freezeReason = holdReasonFor(ev)]
  OBVIOUS
<1>3. cancelCandidate(st, fx, ev) = Result(new, f)
  BY <1>2 DEF cancelCandidate
<1> HIDE DEF one
<1>4. StateFrom(b, seq, two) /\ two.status = "frozen"
  BY <1>1, StateFromChanges, RunningIs
<1> HIDE DEF two
<1>5. StateFrom(b, seq, new) /\ new.status = "frozen"
  BY <1>4, StateFromChanges
<1>6. EffectsShape(f) /\ f.terminal = fx.terminal /\ f.voids = fx.voids /\ f.activates = fx.activates
  BY <1>0, EffectsChange
<1> HIDE DEF new, f
<1>7. From(b, seq, new, f)
  BY <1>0, <1>5, <1>6 DEF From, EffectsFrom, Running
<1> QED
  BY <1>3, <1>7, ResultFields

LEMMA HoldOK ==
    ASSUME NEW b, NEW seq, NEW st, NEW fx, Midway(b, seq, st, fx), NEW ev
    PROVE  LET r == holdMarket(st, fx, ev) IN From(b, seq, r.state, r.effects)
<1> DEFINE held == [st EXCEPT !.scratch.freezeReason = holdReasonFor(ev)]
           new == [held EXCEPT !.status = "frozen"]
           f == [fx EXCEPT !.freeze = holdReasonFor(ev)]
<1>0. StateFrom(b, seq, st) /\ EffectsFrom(b, fx) /\ EffectsShape(fx)
  BY DEF Midway, From, EffectsFrom
<1>1. StateFrom(b, seq, held) /\ held.status = st.status
  BY <1>0, StateFromChanges
<1>2. holdMarket(st, fx, ev) = Result(held, fx) \/ holdMarket(st, fx, ev) = Result(new, f)
  BY DEF holdMarket
<1> HIDE DEF held
<1>3. StateFrom(b, seq, new) /\ new.status = "frozen"
  BY <1>1, StateFromChanges, RunningIs
<1>4. EffectsShape(f) /\ f.terminal = fx.terminal /\ f.voids = fx.voids /\ f.activates = fx.activates
  BY <1>0, EffectsChange
<1> HIDE DEF new, f
<1>5. From(b, seq, new, f) /\ From(b, seq, held, fx)
  BY <1>0, <1>1, <1>3, <1>4 DEF Midway, From, EffectsFrom, Running
<1> QED
  BY <1>2, <1>5, ResultFields

LEMMA DropOK ==
    ASSUME NEW b, NEW seq, NEW st, StateFrom(b, seq, st), st.status \in Running \cup {b.status}
    PROVE  StateFrom(b, seq, dropCandidate(st)) /\ dropCandidate(st).status \in Running \cup {b.status}
<1> DEFINE cut == st.scratch.cutoffReached
           one == [st EXCEPT !.pending = NoCandidate]
           two == [one EXCEPT !.status = IF cut THEN "frozen" ELSE "open"]
           reason == IF cut THEN "cutoff" ELSE NoReason
           new == [two EXCEPT !.scratch.freezeReason = reason]
<1>1. new = [st EXCEPT !.pending = NoCandidate, !.status = IF cut THEN "frozen" ELSE "open",
                       !.scratch.freezeReason = IF cut THEN "cutoff" ELSE NoReason]
  OBVIOUS
<1>2. dropCandidate(st) = st \/ dropCandidate(st) = new
  BY <1>1 DEF dropCandidate
<1> HIDE DEF cut
<1>3. StateFrom(b, seq, one)
  BY StateFromChanges
<1> HIDE DEF one
<1>a. (IF cut THEN "frozen" ELSE "open") \in Running
  BY RunningIs
<1>4. StateFrom(b, seq, two) /\ two.status \in Running
  BY <1>a, <1>3, StateFromChanges, RunningIs
<1> HIDE DEF two, reason
<1>5. StateFrom(b, seq, new) /\ new.status = two.status
  BY <1>4, StateFromChanges
<1> HIDE DEF new
<1> QED
  BY <1>2, <1>4, <1>5

LEMMA ResolveOK ==
    ASSUME NEW b, NEW seq, NEW st, NEW fx, Midway(b, seq, st, fx), NEW ev
    PROVE  LET r == resolveDoubt(st, fx, ev) IN Midway(b, seq, r.state, r.effects)
<1> DEFINE lifted == [st EXCEPT !.scratch.freezeReason = NoReason]
           open == [lifted EXCEPT !.status = "open"]
           cut == [st EXCEPT !.scratch.freezeReason = "cutoff"]
           f == [fx EXCEPT !.unfreeze = TRUE]
<1>0. StateFrom(b, seq, st) /\ EffectsFrom(b, fx) /\ EffectsShape(fx)
  BY DEF Midway, From, EffectsFrom
<1>1. /\ StateFrom(b, seq, lifted) /\ lifted.status = st.status
      /\ StateFrom(b, seq, cut) /\ cut.status = st.status
  BY <1>0, StateFromChanges
<1>2. \/ resolveDoubt(st, fx, ev) \in {Result(st, fx), Result(cut, fx), Result(lifted, fx)}
      \/ resolveDoubt(st, fx, ev) = Result(open, f)
  BY DEF resolveDoubt
<1> HIDE DEF lifted, cut
<1>3. StateFrom(b, seq, open) /\ open.status = "open"
  BY <1>1, StateFromChanges, RunningIs
<1>4. EffectsShape(f) /\ f.terminal = fx.terminal /\ f.voids = fx.voids /\ f.activates = fx.activates
  BY <1>0, EffectsChange
<1> HIDE DEF open, f
<1>5. Midway(b, seq, cut, fx) /\ Midway(b, seq, lifted, fx) /\ Midway(b, seq, open, f)
  BY <1>0, <1>1, <1>3, <1>4 DEF Midway, From, EffectsFrom, Running
<1> QED
  BY <1>2, <1>5, ResultFields

LEMMA EvaluateOK ==
    ASSUME NEW b, NEW ev, NEW st, NEW fx, Midway(b, ev.seq, st, fx), NEW spec
    PROVE  LET r == evaluateMarket(spec, st, fx, ev) IN From(b, ev.seq, r.state, r.effects)
<1> DEFINE outcome == evaluateSpec(spec, ev.score, ev.phase, playerGoalCount(st.scratch, spec))
           armed == [outcome |-> outcome, decidingSeq |-> ev.seq,
                     evidence |-> buildEvidence(st.scratch, spec, ev.seq),
                     until |-> ev.rcv + SETTLEMENT_DEBOUNCE]
           moved == [st EXCEPT !.status = "settling"]
           new == [moved EXCEPT !.pending = armed]
<1>0. StateFrom(b, ev.seq, st) /\ EffectsFrom(b, fx)
  BY DEF Midway, From
<1>1. armed.outcome = outcome /\ armed.decidingSeq = ev.seq
  OBVIOUS
<1>2. new = [st EXCEPT !.status = "settling", !.pending = armed]
  OBVIOUS
<1>3. \/ evaluateMarket(spec, st, fx, ev) = Result(st, fx)
      \/ outcome \in Won /\ evaluateMarket(spec, st, fx, ev) = Result(new, fx)
      \/ evaluateMarket(spec, st, fx, ev) = voidMarket(st, fx, ev)
  BY <1>2 DEF evaluateMarket, Won
<1> HIDE DEF armed, outcome
<1>4. StateFrom(b, ev.seq, moved) /\ moved.status = "settling"
  BY <1>0, StateFromChanges, RunningIs
<1> HIDE DEF moved
<1>5. outcome \in Won => StateFrom(b, ev.seq, new) /\ new.status = "settling"
  BY <1>1, <1>4, StateFromChanges
<1> HIDE DEF new
<1>6. outcome \in Won => From(b, ev.seq, new, fx)
  BY <1>0, <1>5 DEF From, Running
<1>7. From(b, ev.seq, st, fx)
  BY DEF Midway
<1>8. LET r == voidMarket(st, fx, ev) IN From(b, ev.seq, r.state, r.effects)
  BY <1>0, VoidOK
<1> QED
  BY <1>3, <1>6, <1>7, <1>8, ResultFields

LEMMA LiveOK ==
    ASSUME NEW b, NEW ev, NEW st, NEW fx, Midway(b, ev.seq, st, fx), NEW spec
    PROVE  LET r == reduceLive(spec, st, fx, ev) IN From(b, ev.seq, r.state, r.effects)
<1> DEFINE dropped == dropCandidate(st)
           resolved == resolveDoubt(dropped, fx, ev)
           Good(r) == From(b, ev.seq, r.state, r.effects)
<1>0. /\ StateFrom(b, ev.seq, st) /\ EffectsFrom(b, fx) /\ fx.terminal = NoTerminal
      /\ st.status \in Running \cup {b.status}
  BY DEF Midway, From
<1>1. StateFrom(b, ev.seq, dropped) /\ dropped.status \in Running \cup {b.status}
  BY <1>0, DropOK
<1>2. Midway(b, ev.seq, dropped, fx)
  BY <1>0, <1>1 DEF Midway, From
<1>3. \/ reduceLive(spec, st, fx, ev) = cancelCandidate(st, fx, ev)
      \/ reduceLive(spec, st, fx, ev) = holdMarket(st, fx, ev)
      \/ reduceLive(spec, st, fx, ev) = evaluateMarket(spec, resolved.state, resolved.effects, ev)
      \/ st.pending # NoCandidate /\ reduceLive(spec, st, fx, ev) = settleNow(st, fx)
  <2>1. CASE isHoldSignal(ev) /\ st.pending # NoCandidate
    BY <2>1 DEF reduceLive
  <2>2. CASE isHoldSignal(ev) /\ st.pending = NoCandidate
    BY <2>2 DEF reduceLive
  <2>3. CASE ~isHoldSignal(ev) /\ st.pending # NoCandidate /\ ~isReversal(ev)
    BY <2>3 DEF reduceLive
  <2>4. CASE ~isHoldSignal(ev) /\ (st.pending = NoCandidate \/ isReversal(ev))
    BY <2>4 DEF reduceLive
  <2> QED
    BY <2>1, <2>2, <2>3, <2>4
<1> HIDE DEF dropped
<1>4. Midway(b, ev.seq, resolved.state, resolved.effects)
  BY <1>2, ResolveOK
<1> HIDE DEF resolved
<1>5. Good(evaluateMarket(spec, resolved.state, resolved.effects, ev))
  BY <1>4, EvaluateOK
<1>6. Good(cancelCandidate(st, fx, ev)) /\ Good(holdMarket(st, fx, ev))
  BY CancelOK, HoldOK
<1>7. st.pending # NoCandidate => Good(settleNow(st, fx))
  BY <1>0, SettleOK
<1> HIDE DEF Good
<1>8. Good(reduceLive(spec, st, fx, ev))
  BY <1>3, <1>5, <1>6, <1>7
<1> QED
  BY <1>8 DEF Good

\* A market that waits for its lineup is voided, goes on waiting or opens.
LEMMA LineupOK ==
    ASSUME NEW b, NEW st, NEW spec, NEW ev, StateFrom(b, ev.seq, st), st.status = b.status
    PROVE  LET r == reducePendingLineup(spec, st, ev) IN From(b, ev.seq, r.state, r.effects)
<1> DEFINE r == reducePendingLineup(spec, st, ev)
           open == [st EXCEPT !.status = "open"]
           fx == [NoEffects EXCEPT !.activateMarket = TRUE]
           rest == Pending(open.positions)
           n == [open EXCEPT !.positions = Mark(@, rest, "active")]
           fxn == [fx EXCEPT !.activates = @ \cup rest]
<1>1. \/ r = voidMarket(st, NoEffects, ev)
      \/ r = Result(st, NoEffects)
      \/ r = Result(n, fxn)
  BY Zenon DEF reducePendingLineup, activateRemainingPending
<1> HIDE DEF r
<1>2. CASE r = voidMarket(st, NoEffects, ev)
  BY <1>2, VoidOK, NoEffectsFrom DEF r
<1>3. CASE r = Result(st, NoEffects)
  BY <1>3, NoEffectsFrom, ResultFields DEF From, r
<1>4. CASE r = Result(n, fxn)
  <2>1. StateFrom(b, ev.seq, open) /\ open.status = "open" /\ open.positions = st.positions
    <3>1. StateOK(st)
      BY DEF StateFrom
    <3>2. open.positions = st.positions
      BY <3>1, StateChanges, RunningIs, Zenon DEF StateOK
    <3> QED
      BY <3>2, StateFromChanges, RunningIs
  <2>2. rest \subseteq Pending(b.positions)
    BY <2>1 DEF StateFrom
  <2>3. /\ EffectsShape(fx) /\ fx.terminal = NoTerminal /\ fx.voids = {} /\ fx.activates = {}
    <3>1. /\ EffectsShape(NoEffects) /\ NoEffects.terminal = NoTerminal
          /\ NoEffects.voids = {} /\ NoEffects.activates = {}
      BY DEF EffectsShape, NoEffects
    <3> QED
      BY <3>1, EffectsChange
  <2> HIDE DEF open, fx, rest
  <2>4. StateFrom(b, ev.seq, n) /\ n.status = "open"
    BY <2>1, <2>2, StateFromChanges
  <2>5. /\ EffectsShape(fxn) /\ fxn.terminal = NoTerminal /\ fxn.voids = {} /\ fxn.activates = rest
    BY <2>3, EffectsChange
  <2> HIDE DEF n, fxn
  <2>6. EffectsFrom(b, fxn)
    BY <2>2, <2>5 DEF EffectsFrom, TerminalOK
  <2>7. r.state = n /\ r.effects = fxn
    BY <1>4, ResultFields
  <2> QED
    BY <2>4, <2>5, <2>6, <2>7, RunningIs DEF From, r
<1> QED
  BY <1>1, <1>2, <1>3, <1>4

\* A reduction comes from its state and event, and what it ends it ends with a
\* verdict.
LEMMA ReducerOK ==
    ASSUME NEW spec, NEW st, StateOK(st), NEW ev
    PROVE  LET r == reduceMarket(spec, st, ev)
           IN  ResultOK(r) /\ From(st, ev.seq, r.state, r.effects)
<1> DEFINE seen == advanceCursor(st, ev)
           tracked == [seen EXCEPT !.scratch.goals = trackGoals(@, ev)]
           guarded == applyPositionGuards(tracked, ev)
           cut == applyCutoff(spec, guarded.state, guarded.effects, ev)
           Good(r) == From(st, ev.seq, r.state, r.effects)
<1>0. StateFrom(st, ev.seq, st)
  BY DEF StateFrom
<1>1. StateFrom(st, ev.seq, seen) /\ seen.status = st.status
  BY <1>0, AdvanceOK
<1>2. Good(reducePendingLineup(spec, seen, ev))
  BY <1>1, LineupOK
<1>3. \/ reduceMarket(spec, st, ev) = Result(st, NoEffects)
      \/ reduceMarket(spec, st, ev) = voidMarket(seen, NoEffects, ev)
      \/ reduceMarket(spec, st, ev) = reducePendingLineup(spec, seen, ev)
      \/ reduceMarket(spec, st, ev) = reduceLive(spec, cut.state, cut.effects, ev)
  BY Zenon DEF reduceMarket
<1> HIDE DEF seen
<1>4. StateFrom(st, ev.seq, tracked) /\ tracked.status = st.status
  BY <1>1, StateFromChanges
<1> HIDE DEF tracked
<1>5. Midway(st, ev.seq, guarded.state, guarded.effects)
  BY <1>4, GuardsOK
<1> HIDE DEF guarded
<1>6. Midway(st, ev.seq, cut.state, cut.effects)
  BY <1>5, CutoffOK
<1> HIDE DEF cut
<1>7. Good(reduceLive(spec, cut.state, cut.effects, ev))
  BY <1>6, LiveOK
<1>8. Good(voidMarket(seen, NoEffects, ev))
  BY <1>1, VoidOK, NoEffectsFrom
<1>9. Good(Result(st, NoEffects))
  BY <1>0, NoEffectsFrom, ResultFields DEF From
<1> HIDE DEF Good
<1>10. Good(reduceMarket(spec, st, ev))
  BY <1>2, <1>3, <1>7, <1>8, <1>9
<1> QED
  BY <1>10 DEF Good, From, StateFrom, EffectsFrom, ResultOK

\* So does the clock tick; it settles nothing but the candidate.
LEMMA DebounceOK ==
    ASSUME NEW st, StateOK(st), NEW nowMs, NEW seq
    PROVE  LET r == checkDebounce(st, nowMs)
           IN  /\ From(st, seq, r.state, r.effects)
               /\ r.effects.terminal # NoTerminal =>
                    st.pending # NoCandidate /\ r.effects.terminal.decidingSeq = st.pending.decidingSeq
<1> DEFINE matured == Matured(st.positions, nowMs)
           ripe == [st EXCEPT !.positions = Mark(@, matured, "active")]
           fx == [NoEffects EXCEPT !.activates = matured]
<1>0. StateFrom(st, seq, st) /\ matured \subseteq Pending(st.positions)
  BY DEF StateFrom, Matured
<1>1. \/ checkDebounce(st, nowMs) = Result(st, NoEffects)
      \/ checkDebounce(st, nowMs) = Result(ripe, fx)
      \/ st.pending # NoCandidate /\ checkDebounce(st, nowMs) = settleNow(ripe, fx)
  BY DEF checkDebounce
<1> HIDE DEF matured
<1>2. StateFrom(st, seq, ripe) /\ ripe.status = st.status /\ ripe.pending = st.pending
  BY <1>0, StateFromChanges
<1> HIDE DEF ripe
<1>3. EffectsShape(fx) /\ fx.terminal = NoTerminal /\ fx.voids = {} /\ fx.activates = matured
  BY NoEffectsFrom, EffectsChange DEF EffectsFrom, NoEffects
<1> HIDE DEF fx
<1>4. EffectsFrom(st, fx)
  BY <1>0, <1>3 DEF EffectsFrom, TerminalOK
<1>5. From(st, seq, ripe, fx) /\ From(st, seq, st, NoEffects) /\ NoEffects.terminal = NoTerminal
  BY <1>0, <1>2, <1>4, NoEffectsFrom DEF From
<1>6. st.pending # NoCandidate =>
        LET r == settleNow(ripe, fx)
        IN  /\ From(st, seq, r.state, r.effects)
            /\ r.effects.terminal.decidingSeq = st.pending.decidingSeq
  BY <1>2, <1>4, SettleOK
<1> QED
  BY <1>1, <1>3, <1>5, <1>6, ResultFields

-----------------------------------------------------------------------------
(* A reduction field by field, line-ups included.  Only what a reduction    *)
(* ends a market with matters of its effects here.                          *)

IsMarket(m) ==
    /\ m = [status |-> m.status, pending |-> m.pending, positions |-> m.positions,
            scratch |-> m.scratch]
    /\ m.scratch = [lastSeq |-> m.scratch.lastSeq, goals |-> m.scratch.goals,
                    freezeReason |-> m.scratch.freezeReason,
                    cutoffReached |-> m.scratch.cutoffReached]

\* What n keeps of m.
KeepsStatus(m, n) == n.status = m.status
KeepsCandidate(m, n) == n.pending = m.pending
KeepsTaps(m, n) == n.positions = m.positions
KeepsSeen(m, n) == n.scratch.lastSeq = m.scratch.lastSeq /\ n.scratch.goals = m.scratch.goals
KeepsReason(m, n) == n.scratch.freezeReason = m.scratch.freezeReason
KeepsCutoff(m, n) == n.scratch.cutoffReached = m.scratch.cutoffReached
KeepsScratch(m, n) == KeepsSeen(m, n) /\ KeepsReason(m, n) /\ KeepsCutoff(m, n)

LEMMA SetStatus ==
    ASSUME NEW m, IsMarket(m), NEW x
    PROVE  LET n == [m EXCEPT !.status = x]
           IN  /\ IsMarket(n) /\ n.status = x
               /\ KeepsCandidate(m, n) /\ KeepsTaps(m, n) /\ KeepsScratch(m, n)
  BY DEF IsMarket, KeepsCandidate, KeepsCutoff, KeepsReason, KeepsScratch, KeepsSeen, KeepsTaps

LEMMA SetCandidate ==
    ASSUME NEW m, IsMarket(m), NEW x
    PROVE  LET n == [m EXCEPT !.pending = x]
           IN  /\ IsMarket(n) /\ n.pending = x
               /\ KeepsStatus(m, n) /\ KeepsTaps(m, n) /\ KeepsScratch(m, n)
  BY DEF IsMarket, KeepsCutoff, KeepsReason, KeepsScratch, KeepsSeen, KeepsStatus, KeepsTaps

LEMMA SetTaps ==
    ASSUME NEW m, IsMarket(m), NEW x
    PROVE  LET n == [m EXCEPT !.positions = x]
           IN  /\ IsMarket(n) /\ n.positions = x
               /\ KeepsStatus(m, n) /\ KeepsCandidate(m, n) /\ KeepsScratch(m, n)
  BY DEF IsMarket, KeepsCandidate, KeepsCutoff, KeepsReason, KeepsScratch, KeepsSeen, KeepsStatus

LEMMA SetSeen ==
    ASSUME NEW m, IsMarket(m), NEW x
    PROVE  LET n == [m EXCEPT !.scratch.lastSeq = x]
           IN  /\ IsMarket(n) /\ n.scratch.lastSeq = x /\ n.scratch.goals = m.scratch.goals
               /\ KeepsStatus(m, n) /\ KeepsCandidate(m, n) /\ KeepsTaps(m, n)
               /\ KeepsReason(m, n) /\ KeepsCutoff(m, n)
  BY DEF IsMarket, KeepsCandidate, KeepsCutoff, KeepsReason, KeepsStatus, KeepsTaps

LEMMA SetGoals ==
    ASSUME NEW m, IsMarket(m), NEW x
    PROVE  LET n == [m EXCEPT !.scratch.goals = x]
           IN  /\ IsMarket(n) /\ n.scratch.goals = x /\ n.scratch.lastSeq = m.scratch.lastSeq
               /\ KeepsStatus(m, n) /\ KeepsCandidate(m, n) /\ KeepsTaps(m, n)
               /\ KeepsReason(m, n) /\ KeepsCutoff(m, n)
  BY DEF IsMarket, KeepsCandidate, KeepsCutoff, KeepsReason, KeepsStatus, KeepsTaps

LEMMA SetReason ==
    ASSUME NEW m, IsMarket(m), NEW x
    PROVE  LET n == [m EXCEPT !.scratch.freezeReason = x]
           IN  /\ IsMarket(n) /\ n.scratch.freezeReason = x
               /\ KeepsStatus(m, n) /\ KeepsCandidate(m, n) /\ KeepsTaps(m, n)
               /\ KeepsSeen(m, n) /\ KeepsCutoff(m, n)
  BY DEF IsMarket, KeepsCandidate, KeepsCutoff, KeepsSeen, KeepsStatus, KeepsTaps

LEMMA SetCutoff ==
    ASSUME NEW m, IsMarket(m), NEW x
    PROVE  LET n == [m EXCEPT !.scratch.cutoffReached = x]
           IN  /\ IsMarket(n) /\ n.scratch.cutoffReached = x
               /\ KeepsStatus(m, n) /\ KeepsCandidate(m, n) /\ KeepsTaps(m, n)
               /\ KeepsSeen(m, n) /\ KeepsReason(m, n)
  BY DEF IsMarket, KeepsCandidate, KeepsReason, KeepsSeen, KeepsStatus, KeepsTaps

\* The effects so far end nothing.
Quiet(fx) == EffectsShape(fx) /\ fx.terminal = NoTerminal

LEMMA QuietChanges ==
    /\ Quiet(NoEffects)
    /\ \A fx, x : Quiet(fx) =>
         /\ Quiet([fx EXCEPT !.freeze = x]) /\ Quiet([fx EXCEPT !.unfreeze = x])
         /\ Quiet([fx EXCEPT !.activateMarket = x])
         /\ Quiet([fx EXCEPT !.voids = x]) /\ Quiet([fx EXCEPT !.activates = x])
         /\ [fx EXCEPT !.terminal = x].terminal = x
  BY DEF Quiet, EffectsShape, NoEffects

\* The taps after the guards of one event.
Guarded(taps, ev) ==
    Mark(Mark(taps, Sniped(taps, ev), "void"), Matured(taps, ev.rcv) \ Sniped(taps, ev), "active")

LEMMA GuardFields ==
    ASSUME NEW m, IsMarket(m), NEW ev
    PROVE  LET r == applyPositionGuards(m, ev)
           IN  /\ IsMarket(r.state) /\ Quiet(r.effects)
               /\ KeepsStatus(m, r.state) /\ KeepsCandidate(m, r.state) /\ KeepsScratch(m, r.state)
               /\ r.state.positions = Guarded(m.positions, ev)
<1> DEFINE sniped == Sniped(m.positions, ev)
           matured == Matured(m.positions, ev.rcv) \ sniped
           taps == Mark(Mark(m.positions, sniped, "void"), matured, "active")
           new == [m EXCEPT !.positions = taps]
           f == [NoEffects EXCEPT !.voids = sniped]
           fx == [f EXCEPT !.activates = matured]
<1>1. applyPositionGuards(m, ev) = Result([m EXCEPT !.positions = Mark(Mark(@, sniped, "void"), matured, "active")],
                                          [NoEffects EXCEPT !.voids = sniped, !.activates = matured])
  BY DEF applyPositionGuards
<1>2. [NoEffects EXCEPT !.voids = sniped, !.activates = matured] = fx
  OBVIOUS
<1>5. taps = Guarded(m.positions, ev)
  BY DEF Guarded
<1> HIDE DEF sniped, matured
<1>3. [m EXCEPT !.positions = Mark(Mark(@, sniped, "void"), matured, "active")] = new
  BY DEF IsMarket
<1>4. Quiet(f)
  BY QuietChanges
<1> HIDE DEF f
<1>6. Quiet(fx)
  BY <1>4, QuietChanges
<1> HIDE DEF fx, taps
<1>7. /\ IsMarket(new) /\ new.positions = taps
      /\ KeepsStatus(m, new) /\ KeepsCandidate(m, new) /\ KeepsScratch(m, new)
  BY SetTaps
<1> HIDE DEF new
<1>8. applyPositionGuards(m, ev) = Result(new, fx)
  BY <1>1, <1>2, <1>3
<1> QED
  BY <1>5, <1>6, <1>7, <1>8, ResultFields

\* Step 4.
LEMMA CutoffFields ==
    ASSUME NEW m, IsMarket(m), NEW fx, Quiet(fx), NEW spec, NEW ev
    PROVE  LET r == applyCutoff(spec, m, fx, ev)
               n == r.state
           IN  /\ IsMarket(n) /\ Quiet(r.effects)
               /\ KeepsCandidate(m, n) /\ KeepsTaps(m, n) /\ KeepsSeen(m, n)
               /\ \/ KeepsStatus(m, n) /\ KeepsReason(m, n) /\ KeepsCutoff(m, n)
                  \/ /\ KeepsStatus(m, n) /\ KeepsReason(m, n) /\ m.status # "open"
                     /\ n.scratch.cutoffReached = TRUE
                  \/ /\ m.status = "open" /\ n.status = "frozen"
                     /\ n.scratch.freezeReason = "cutoff" /\ n.scratch.cutoffReached = TRUE
<1> DEFINE reached == [m EXCEPT !.scratch.cutoffReached = TRUE]
           closed == [reached EXCEPT !.status = "frozen"]
           cut == [closed EXCEPT !.scratch.freezeReason = "cutoff"]
           f == [fx EXCEPT !.freeze = "cutoff"]
<1>1. cut = [reached EXCEPT !.status = "frozen", !.scratch.freezeReason = "cutoff"]
  OBVIOUS
<1>2. \/ applyCutoff(spec, m, fx, ev) = Result(m, fx)
      \/ m.status # "open" /\ applyCutoff(spec, m, fx, ev) = Result(reached, fx)
      \/ m.status = "open" /\ applyCutoff(spec, m, fx, ev) = Result(cut, f)
  BY <1>1 DEF applyCutoff
<1>3. /\ IsMarket(reached) /\ reached.scratch.cutoffReached = TRUE
      /\ KeepsStatus(m, reached) /\ KeepsCandidate(m, reached) /\ KeepsTaps(m, reached)
      /\ KeepsSeen(m, reached) /\ KeepsReason(m, reached)
  BY SetCutoff
<1> HIDE DEF reached
<1>4. /\ IsMarket(closed) /\ closed.status = "frozen"
      /\ KeepsCandidate(reached, closed) /\ KeepsTaps(reached, closed) /\ KeepsScratch(reached, closed)
  BY <1>3, SetStatus
<1> HIDE DEF closed
<1>5. /\ IsMarket(cut) /\ cut.scratch.freezeReason = "cutoff"
      /\ KeepsStatus(closed, cut) /\ KeepsCandidate(closed, cut) /\ KeepsTaps(closed, cut)
      /\ KeepsSeen(closed, cut) /\ KeepsCutoff(closed, cut)
  BY <1>4, SetReason
<1> HIDE DEF cut
<1>6. Quiet(f)
  BY QuietChanges
<1> HIDE DEF f
<1> USE DEF KeepsStatus, KeepsCandidate, KeepsTaps, KeepsSeen, KeepsReason, KeepsCutoff, KeepsScratch
<1>7. CASE applyCutoff(spec, m, fx, ev) = Result(m, fx)
  BY <1>7, ResultFields
<1>8. CASE m.status # "open" /\ applyCutoff(spec, m, fx, ev) = Result(reached, fx)
  BY <1>3, <1>8, ResultFields
<1>9. CASE m.status = "open" /\ applyCutoff(spec, m, fx, ev) = Result(cut, f)
  BY <1>3, <1>4, <1>5, <1>6, <1>9, ResultFields
<1> QED
  BY <1>2, <1>7, <1>8, <1>9

\* Step 5, a reversal.
LEMMA DropFields ==
    ASSUME NEW m, IsMarket(m)
    PROVE  LET n == dropCandidate(m)
           IN  /\ IsMarket(n) /\ n.pending = NoCandidate
               /\ KeepsTaps(m, n) /\ KeepsSeen(m, n) /\ KeepsCutoff(m, n)
               /\ \/ m.pending = NoCandidate /\ KeepsStatus(m, n) /\ KeepsReason(m, n)
                  \/ /\ m.pending # NoCandidate
                     /\ n.status = IF m.scratch.cutoffReached THEN "frozen" ELSE "open"
                     /\ n.scratch.freezeReason = IF m.scratch.cutoffReached THEN "cutoff" ELSE NoReason
<1> DEFINE cut == m.scratch.cutoffReached
           status == IF cut THEN "frozen" ELSE "open"
           reason == IF cut THEN "cutoff" ELSE NoReason
           one == [m EXCEPT !.pending = NoCandidate]
           two == [one EXCEPT !.status = status]
           new == [two EXCEPT !.scratch.freezeReason = reason]
<1>1. new = [m EXCEPT !.pending = NoCandidate, !.status = IF cut THEN "frozen" ELSE "open",
                       !.scratch.freezeReason = IF cut THEN "cutoff" ELSE NoReason]
  OBVIOUS
<1>2. \/ m.pending = NoCandidate /\ dropCandidate(m) = m
      \/ m.pending # NoCandidate /\ dropCandidate(m) = new
  BY <1>1 DEF dropCandidate
<1>3. IsMarket(one) /\ one.pending = NoCandidate /\ KeepsStatus(m, one) /\ KeepsTaps(m, one) /\ KeepsScratch(m, one)
  BY SetCandidate
<1> HIDE DEF one, status
<1>4. /\ IsMarket(two) /\ two.status = status
      /\ KeepsCandidate(one, two) /\ KeepsTaps(one, two) /\ KeepsScratch(one, two)
  BY <1>3, SetStatus
<1> HIDE DEF two, reason
<1>5. /\ IsMarket(new) /\ new.scratch.freezeReason = reason
      /\ KeepsStatus(two, new) /\ KeepsCandidate(two, new) /\ KeepsTaps(two, new)
      /\ KeepsSeen(two, new) /\ KeepsCutoff(two, new)
  BY <1>4, SetReason
<1> HIDE DEF new
<1> USE DEF KeepsStatus, KeepsCandidate, KeepsTaps, KeepsSeen, KeepsReason, KeepsCutoff, KeepsScratch
<1>6. CASE m.pending = NoCandidate /\ dropCandidate(m) = m
  BY <1>6
<1>7. CASE m.pending # NoCandidate /\ dropCandidate(m) = new
  BY <1>3, <1>4, <1>5, <1>7 DEF status, reason
<1> QED
  BY <1>2, <1>6, <1>7

\* Step 6, the end of a doubt.
LEMMA ResolveFields ==
    ASSUME NEW m, IsMarket(m), NEW fx, Quiet(fx), NEW ev
    PROVE  LET r == resolveDoubt(m, fx, ev)
               n == r.state
           IN  /\ IsMarket(n) /\ Quiet(r.effects)
               /\ KeepsCandidate(m, n) /\ KeepsTaps(m, n) /\ KeepsSeen(m, n) /\ KeepsCutoff(m, n)
               /\ \/ ~DoubtResolved(m, ev) /\ n = m
                  \/ /\ DoubtResolved(m, ev) /\ m.scratch.cutoffReached
                     /\ KeepsStatus(m, n) /\ n.scratch.freezeReason = "cutoff"
                  \/ /\ DoubtResolved(m, ev) /\ ~m.scratch.cutoffReached
                     /\ n.status = IF m.status = "frozen" THEN "open" ELSE m.status
                     /\ n.scratch.freezeReason = NoReason
<1> DEFINE lifted == [m EXCEPT !.scratch.freezeReason = NoReason]
           open == [lifted EXCEPT !.status = "open"]
           cut == [m EXCEPT !.scratch.freezeReason = "cutoff"]
           f == [fx EXCEPT !.unfreeze = TRUE]
<1>1. \/ ~DoubtResolved(m, ev) /\ resolveDoubt(m, fx, ev) = Result(m, fx)
      \/ DoubtResolved(m, ev) /\ m.scratch.cutoffReached /\ resolveDoubt(m, fx, ev) = Result(cut, fx)
      \/ /\ DoubtResolved(m, ev) /\ ~m.scratch.cutoffReached /\ m.status # "frozen"
         /\ resolveDoubt(m, fx, ev) = Result(lifted, fx)
      \/ /\ DoubtResolved(m, ev) /\ ~m.scratch.cutoffReached /\ m.status = "frozen"
         /\ resolveDoubt(m, fx, ev) = Result(open, f)
  BY DEF resolveDoubt
<1>2. /\ IsMarket(lifted) /\ lifted.scratch.freezeReason = NoReason
      /\ KeepsStatus(m, lifted) /\ KeepsCandidate(m, lifted) /\ KeepsTaps(m, lifted)
      /\ KeepsSeen(m, lifted) /\ KeepsCutoff(m, lifted)
  BY SetReason
<1>3. /\ IsMarket(cut) /\ cut.scratch.freezeReason = "cutoff"
      /\ KeepsStatus(m, cut) /\ KeepsCandidate(m, cut) /\ KeepsTaps(m, cut)
      /\ KeepsSeen(m, cut) /\ KeepsCutoff(m, cut)
  BY SetReason
<1> HIDE DEF lifted, cut
<1>4. /\ IsMarket(open) /\ open.status = "open"
      /\ KeepsCandidate(lifted, open) /\ KeepsTaps(lifted, open) /\ KeepsScratch(lifted, open)
  BY <1>2, SetStatus
<1>5. Quiet(f)
  BY QuietChanges
<1> HIDE DEF open, f
<1> USE DEF KeepsStatus, KeepsCandidate, KeepsTaps, KeepsSeen, KeepsReason, KeepsScratch
<1>6. CASE ~DoubtResolved(m, ev) /\ resolveDoubt(m, fx, ev) = Result(m, fx)
  BY <1>6, ResultFields DEF KeepsCutoff
<1>7. CASE DoubtResolved(m, ev) /\ m.scratch.cutoffReached /\ resolveDoubt(m, fx, ev) = Result(cut, fx)
  BY <1>3, <1>7, ResultFields
<1>8. CASE /\ DoubtResolved(m, ev) /\ ~m.scratch.cutoffReached /\ m.status # "frozen"
           /\ resolveDoubt(m, fx, ev) = Result(lifted, fx)
  BY <1>2, <1>8, ResultFields
<1>9. CASE /\ DoubtResolved(m, ev) /\ ~m.scratch.cutoffReached /\ m.status = "frozen"
           /\ resolveDoubt(m, fx, ev) = Result(open, f)
  <2>1. KeepsCutoff(m, open)
    BY <1>2, <1>4 DEF KeepsCutoff
  <2> QED
    BY <2>1, <1>2, <1>4, <1>5, <1>9, ResultFields
<1> QED
  BY <1>1, <1>6, <1>7, <1>8, <1>9

\* Step 5, fresh doubt about a candidate.
LEMMA CancelFields ==
    ASSUME NEW m, IsMarket(m), NEW fx, Quiet(fx), NEW ev
    PROVE  LET r == cancelCandidate(m, fx, ev)
               n == r.state
           IN  /\ IsMarket(n) /\ Quiet(r.effects)
               /\ n.status = "frozen" /\ n.pending = NoCandidate
               /\ n.scratch.freezeReason = holdReasonFor(ev)
               /\ KeepsTaps(m, n) /\ KeepsSeen(m, n) /\ KeepsCutoff(m, n)
<1> DEFINE reason == holdReasonFor(ev)
           one == [m EXCEPT !.pending = NoCandidate]
           two == [one EXCEPT !.status = "frozen"]
           new == [two EXCEPT !.scratch.freezeReason = reason]
           f == [fx EXCEPT !.freeze = reason]
<1>1. cancelCandidate(m, fx, ev) = Result(new, f)
  BY DEF cancelCandidate
<1> HIDE DEF reason
<1>2. /\ IsMarket(one) /\ one.pending = NoCandidate
      /\ KeepsStatus(m, one) /\ KeepsTaps(m, one) /\ KeepsScratch(m, one)
  BY SetCandidate
<1> HIDE DEF one
<1>3. /\ IsMarket(two) /\ two.status = "frozen"
      /\ KeepsCandidate(one, two) /\ KeepsTaps(one, two) /\ KeepsScratch(one, two)
  BY <1>2, SetStatus
<1> HIDE DEF two
<1>4. /\ IsMarket(new) /\ new.scratch.freezeReason = reason
      /\ KeepsStatus(two, new) /\ KeepsCandidate(two, new) /\ KeepsTaps(two, new)
      /\ KeepsSeen(two, new) /\ KeepsCutoff(two, new)
  BY <1>3, SetReason
<1>5. Quiet(f)
  BY QuietChanges
<1> HIDE DEF new, f
<1>6. reason = holdReasonFor(ev)
  BY DEF reason
<1> USE DEF KeepsStatus, KeepsCandidate, KeepsTaps, KeepsSeen, KeepsCutoff, KeepsScratch
<1> QED
  BY <1>1, <1>2, <1>3, <1>4, <1>5, <1>6, ResultFields

\* Step 6, a hold signal.
LEMMA HoldFields ==
    ASSUME NEW m, IsMarket(m), NEW fx, Quiet(fx), NEW ev
    PROVE  LET r == holdMarket(m, fx, ev)
               n == r.state
           IN  /\ IsMarket(n) /\ Quiet(r.effects)
               /\ n.status = IF m.status = "open" THEN "frozen" ELSE m.status
               /\ n.scratch.freezeReason = holdReasonFor(ev)
               /\ KeepsCandidate(m, n) /\ KeepsTaps(m, n) /\ KeepsSeen(m, n) /\ KeepsCutoff(m, n)
<1> DEFINE reason == holdReasonFor(ev)
           held == [m EXCEPT !.scratch.freezeReason = reason]
           new == [held EXCEPT !.status = "frozen"]
           f == [fx EXCEPT !.freeze = reason]
<1>1. \/ m.status # "open" /\ holdMarket(m, fx, ev) = Result(held, fx)
      \/ m.status = "open" /\ holdMarket(m, fx, ev) = Result(new, f)
  BY DEF holdMarket
<1> HIDE DEF reason
<1>2. /\ IsMarket(held) /\ held.scratch.freezeReason = reason
      /\ KeepsStatus(m, held) /\ KeepsCandidate(m, held) /\ KeepsTaps(m, held)
      /\ KeepsSeen(m, held) /\ KeepsCutoff(m, held)
  BY SetReason
<1> HIDE DEF held
<1>3. /\ IsMarket(new) /\ new.status = "frozen"
      /\ KeepsCandidate(held, new) /\ KeepsTaps(held, new) /\ KeepsScratch(held, new)
  BY <1>2, SetStatus
<1>4. Quiet(f)
  BY QuietChanges
<1> HIDE DEF new, f
<1>5. reason = holdReasonFor(ev)
  BY DEF reason
<1> USE DEF KeepsStatus, KeepsCandidate, KeepsTaps, KeepsSeen, KeepsReason, KeepsCutoff, KeepsScratch
<1>6. CASE m.status # "open" /\ holdMarket(m, fx, ev) = Result(held, fx)
  BY <1>2, <1>5, <1>6, ResultFields
<1>7. CASE m.status = "open" /\ holdMarket(m, fx, ev) = Result(new, f)
  BY <1>2, <1>3, <1>4, <1>5, <1>7, ResultFields
<1> QED
  BY <1>1, <1>6, <1>7

\* Every waiting tap counts.
AllActive(taps) == Mark(taps, Pending(taps), "active")

\* What a candidate ends its market with.
TerminalOf(candidate) ==
    [outcome |-> candidate.outcome, decidingSeq |-> candidate.decidingSeq,
     evidence |-> candidate.evidence]

LEMMA ActivateFields ==
    ASSUME NEW m, IsMarket(m), NEW fx, Quiet(fx)
    PROVE  LET r == activateRemainingPending(m, fx)
               n == r.state
           IN  /\ IsMarket(n) /\ Quiet(r.effects)
               /\ n.positions = AllActive(m.positions)
               /\ KeepsStatus(m, n) /\ KeepsCandidate(m, n) /\ KeepsScratch(m, n)
<1> DEFINE rest == Pending(m.positions)
           taps == Mark(m.positions, rest, "active")
           counted == fx.activates \cup rest
           new == [m EXCEPT !.positions = taps]
           f == [fx EXCEPT !.activates = counted]
<1>1. activateRemainingPending(m, fx) = Result([m EXCEPT !.positions = Mark(@, rest, "active")],
                                               [fx EXCEPT !.activates = @ \cup rest])
  BY DEF activateRemainingPending
<1>2. taps = AllActive(m.positions)
  BY DEF AllActive
<1> HIDE DEF rest
<1>3. [m EXCEPT !.positions = Mark(@, rest, "active")] = new
  BY DEF IsMarket
<1>4. [fx EXCEPT !.activates = @ \cup rest] = f
  BY DEF Quiet, EffectsShape
<1> HIDE DEF taps, counted
<1>5. /\ IsMarket(new) /\ new.positions = taps
      /\ KeepsStatus(m, new) /\ KeepsCandidate(m, new) /\ KeepsScratch(m, new)
  BY SetTaps
<1>6. Quiet(f)
  BY QuietChanges
<1>7. activateRemainingPending(m, fx) = Result(new, f)
  BY <1>1, <1>3, <1>4
<1> HIDE DEF new, f
<1> QED
  BY <1>2, <1>5, <1>6, <1>7, ResultFields

\* Step 5, a candidate another event confirms, or whose window has passed.
LEMMA SettleFields ==
    ASSUME NEW m, IsMarket(m), NEW fx, Quiet(fx)
    PROVE  LET r == settleNow(m, fx)
               n == r.state
           IN  /\ IsMarket(n) /\ r.effects.terminal = TerminalOf(m.pending)
               /\ n.status = "settled" /\ n.pending = NoCandidate
               /\ n.positions = AllActive(m.positions) /\ KeepsScratch(m, n)
<1> DEFINE a == activateRemainingPending(m, fx)
           s == a.state
           terminal == [outcome |-> m.pending.outcome, decidingSeq |-> m.pending.decidingSeq,
                        evidence |-> m.pending.evidence]
           one == [s EXCEPT !.status = "settled"]
           new == [one EXCEPT !.pending = NoCandidate]
           g == a.effects
           f == [g EXCEPT !.terminal = terminal]
<1>1. settleNow(m, fx) = Result(new, f)
  BY DEF settleNow
<1>2. terminal = TerminalOf(m.pending)
  BY DEF TerminalOf
<1>3. /\ IsMarket(s) /\ Quiet(g) /\ s.positions = AllActive(m.positions)
      /\ KeepsStatus(m, s) /\ KeepsCandidate(m, s) /\ KeepsScratch(m, s)
  BY ActivateFields
<1> HIDE DEF a, s, g, terminal
<1>4. /\ IsMarket(one) /\ one.status = "settled"
      /\ KeepsCandidate(s, one) /\ KeepsTaps(s, one) /\ KeepsScratch(s, one)
  BY <1>3, SetStatus
<1> HIDE DEF one
<1>5. /\ IsMarket(new) /\ new.pending = NoCandidate
      /\ KeepsStatus(one, new) /\ KeepsTaps(one, new) /\ KeepsScratch(one, new)
  BY <1>4, SetCandidate
<1>6. f.terminal = terminal
  BY <1>3, QuietChanges
<1> HIDE DEF new, f
<1> USE DEF KeepsStatus, KeepsCandidate, KeepsTaps, KeepsSeen, KeepsReason, KeepsCutoff, KeepsScratch
<1> QED
  BY <1>1, <1>2, <1>3, <1>4, <1>5, <1>6, ResultFields

LEMMA VoidFields ==
    ASSUME NEW m, IsMarket(m), NEW fx, Quiet(fx), NEW ev
    PROVE  LET r == voidMarket(m, fx, ev)
               n == r.state
           IN  /\ IsMarket(n) /\ r.effects.terminal.outcome = "void"
               /\ n.status = "voided" /\ n.pending = NoCandidate
               /\ KeepsTaps(m, n) /\ KeepsScratch(m, n)
<1> DEFINE terminal == [outcome |-> "void", decidingSeq |-> ev.seq, evidence |-> {}]
           one == [m EXCEPT !.status = "voided"]
           new == [one EXCEPT !.pending = NoCandidate]
           f == [fx EXCEPT !.terminal = terminal]
<1>1. voidMarket(m, fx, ev) = Result(new, f)
  BY DEF voidMarket
<1>2. terminal.outcome = "void"
  OBVIOUS
<1> HIDE DEF terminal
<1>4. /\ IsMarket(one) /\ one.status = "voided"
      /\ KeepsCandidate(m, one) /\ KeepsTaps(m, one) /\ KeepsScratch(m, one)
  BY SetStatus
<1> HIDE DEF one
<1>5. /\ IsMarket(new) /\ new.pending = NoCandidate
      /\ KeepsStatus(one, new) /\ KeepsTaps(one, new) /\ KeepsScratch(one, new)
  BY <1>4, SetCandidate
<1>6. f.terminal = terminal
  BY QuietChanges
<1> HIDE DEF new, f
<1> USE DEF KeepsStatus, KeepsCandidate, KeepsTaps, KeepsSeen, KeepsReason, KeepsCutoff, KeepsScratch
<1> QED
  BY <1>1, <1>2, <1>4, <1>5, <1>6, ResultFields

\* The verdict of the score an event carries, on the ledger goals.
OutcomeOn(claim, scratch, ev) == evaluateSpec(claim, ev.score, ev.phase, playerGoalCount(scratch, claim))

\* Step 7: nothing, a candidate, or a void.
LEMMA EvaluateFields ==
    ASSUME NEW m, IsMarket(m), NEW fx, Quiet(fx), NEW spec, NEW ev
    PROVE  LET r == evaluateMarket(spec, m, fx, ev)
               n == r.state
           IN  /\ IsMarket(n) /\ KeepsTaps(m, n) /\ KeepsScratch(m, n)
               /\ \/ n = m /\ r.effects = fx
                  \/ /\ r.effects = fx /\ n.status = "settling"
                     /\ ev.confirmed /\ m.scratch.freezeReason \notin Doubt
                     /\ OutcomeOn(spec, m.scratch, ev) \in Won
                     /\ n.pending = [outcome |-> OutcomeOn(spec, m.scratch, ev), decidingSeq |-> ev.seq,
                                     evidence |-> buildEvidence(m.scratch, spec, ev.seq),
                                     until |-> ev.rcv + SETTLEMENT_DEBOUNCE]
                  \/ r.effects.terminal.outcome = "void" /\ n.status = "voided" /\ n.pending = NoCandidate
<1> DEFINE outcome == OutcomeOn(spec, m.scratch, ev)
           armed == [outcome |-> outcome, decidingSeq |-> ev.seq,
                     evidence |-> buildEvidence(m.scratch, spec, ev.seq),
                     until |-> ev.rcv + SETTLEMENT_DEBOUNCE]
           one == [m EXCEPT !.status = "settling"]
           new == [one EXCEPT !.pending = armed]
           e == evaluateMarket(spec, m, fx, ev)
<1>1. \/ e = Result(m, fx)
      \/ /\ ev.confirmed /\ m.scratch.freezeReason \notin Doubt /\ outcome \in Won
         /\ e = Result(new, fx)
      \/ e = voidMarket(m, fx, ev)
  BY DEF evaluateMarket, OutcomeOn, Won
<1> HIDE DEF e
<1>2. armed = [outcome |-> OutcomeOn(spec, m.scratch, ev), decidingSeq |-> ev.seq,
               evidence |-> buildEvidence(m.scratch, spec, ev.seq),
               until |-> ev.rcv + SETTLEMENT_DEBOUNCE]
  OBVIOUS
<1>3. outcome = OutcomeOn(spec, m.scratch, ev)
  OBVIOUS
<1> HIDE DEF armed, outcome
<1>4. /\ IsMarket(one) /\ one.status = "settling"
      /\ KeepsCandidate(m, one) /\ KeepsTaps(m, one) /\ KeepsScratch(m, one)
  BY SetStatus
<1> HIDE DEF one
<1>5. /\ IsMarket(new) /\ new.pending = armed
      /\ KeepsStatus(one, new) /\ KeepsTaps(one, new) /\ KeepsScratch(one, new)
  BY <1>4, SetCandidate
<1> HIDE DEF new
<1>6. new.status = "settling" /\ KeepsTaps(m, new) /\ KeepsScratch(m, new)
  BY <1>4, <1>5 DEF KeepsStatus, KeepsTaps, KeepsSeen, KeepsReason, KeepsCutoff, KeepsScratch
<1>7. KeepsTaps(m, m) /\ KeepsScratch(m, m)
  BY DEF KeepsTaps, KeepsSeen, KeepsReason, KeepsCutoff, KeepsScratch
<1>8. CASE e = Result(m, fx)
  BY <1>7, <1>8, ResultFields DEF e
<1>9. CASE /\ ev.confirmed /\ m.scratch.freezeReason \notin Doubt /\ outcome \in Won
           /\ e = Result(new, fx)
  BY <1>2, <1>3, <1>5, <1>6, <1>9, ResultFields DEF e
<1>10. CASE e = voidMarket(m, fx, ev)
  BY <1>10, VoidFields DEF e
<1> QED
  BY <1>1, <1>8, <1>9, <1>10

Reasons == {NoReason, "var", "possible_event", "odds_suspension", "cutoff"}

\* A market that takes events: settling is waiting with a candidate, and staking
\* does not stay open past the cutoff.
Live(m) ==
    /\ IsMarket(m)
    /\ m.status = "open" \/ m.status = "frozen" \/ m.status = "settling"
    /\ m.status = "settling" <=> m.pending # NoCandidate
    /\ m.scratch.cutoffReached \in BOOLEAN
    /\ m.scratch.cutoffReached => m.status # "open"
    /\ m.scratch.freezeReason \in Reasons

\* The ways a running market m leaves an event with the state n and the
\* terminal effect t.
Holds(ev, n, t) ==
    /\ isHoldSignal(ev) /\ t = NoTerminal
    /\ n.status = "frozen" /\ n.pending = NoCandidate /\ n.scratch.freezeReason = holdReasonFor(ev)

Settles(m, ev, n, t) ==
    /\ ~isHoldSignal(ev) /\ ~isReversal(ev) /\ m.pending # NoCandidate
    /\ n.status = "settled" /\ n.pending = NoCandidate /\ t = TerminalOf(m.pending)

\* A check that nothing has ended.
UnderVar(m, ev) ==
    m.status = "frozen" /\ m.scratch.freezeReason = "var" /\ ev.kind # "var_end" /\ ~isReversal(ev)

Waits(m, ev, n, t) ==
    /\ ~isHoldSignal(ev) /\ t = NoTerminal
    /\ n.status = "open" \/ n.status = "frozen"
    /\ n.pending = NoCandidate
    /\ UnderVar(m, ev) => n.status = "frozen" /\ n.scratch.freezeReason = "var"

Arms(claim, m, ev, n, t) ==
    /\ ~isHoldSignal(ev) /\ t = NoTerminal /\ ~UnderVar(m, ev)
    /\ ev.confirmed /\ OutcomeOn(claim, n.scratch, ev) \in Won
    /\ n.status = "settling"
    /\ n.pending = [outcome |-> OutcomeOn(claim, n.scratch, ev), decidingSeq |-> ev.seq,
                    evidence |-> buildEvidence(n.scratch, claim, ev.seq),
                    until |-> ev.rcv + SETTLEMENT_DEBOUNCE]

Voids(n, t) == t.outcome = "void" /\ n.status = "voided" /\ n.pending = NoCandidate

\* Which of them, and with which taps.
Leaves(claim, m, ev, n, t) ==
    \/ Holds(ev, n, t) \/ Waits(m, ev, n, t) \/ Arms(claim, m, ev, n, t) \/ Voids(n, t)
    \/ Settles(m, ev, n, t)

LEMMA SameScratch ==
    ASSUME NEW m, NEW n, IsMarket(m), IsMarket(n), KeepsScratch(m, n)
    PROVE  n.scratch = m.scratch
  BY DEF IsMarket, KeepsScratch, KeepsSeen, KeepsReason, KeepsCutoff

\* Steps 5 and 6 up to the new judgement: no candidate, and an open check stays.
LEMMA CleanSlate ==
    ASSUME NEW m, Live(m), NEW fx, Quiet(fx), NEW ev
    PROVE  LET r == resolveDoubt(dropCandidate(m), fx, ev)
               w == r.state
           IN  /\ IsMarket(w) /\ Quiet(r.effects)
               /\ KeepsTaps(m, w) /\ KeepsSeen(m, w) /\ KeepsCutoff(m, w)
               /\ w.pending = NoCandidate
               /\ w.status = "open" \/ w.status = "frozen"
               /\ w.scratch.freezeReason \in Reasons
               /\ w.scratch.cutoffReached => w.status # "open"
               /\ UnderVar(m, ev) => w.status = "frozen" /\ w.scratch.freezeReason = "var"
<1> DEFINE d == dropCandidate(m)
           r == resolveDoubt(d, fx, ev)
           w == r.state
<1>1. /\ IsMarket(d) /\ d.pending = NoCandidate
      /\ KeepsTaps(m, d) /\ KeepsSeen(m, d) /\ KeepsCutoff(m, d)
  BY DropFields DEF Live
<1>2. \/ m.pending = NoCandidate /\ KeepsStatus(m, d) /\ KeepsReason(m, d)
      \/ /\ m.pending # NoCandidate
         /\ d.status = IF m.scratch.cutoffReached THEN "frozen" ELSE "open"
         /\ d.scratch.freezeReason = IF m.scratch.cutoffReached THEN "cutoff" ELSE NoReason
  BY DropFields DEF Live
<1> HIDE DEF d
<1>3. /\ IsMarket(w) /\ Quiet(r.effects)
      /\ KeepsCandidate(d, w) /\ KeepsTaps(d, w) /\ KeepsSeen(d, w) /\ KeepsCutoff(d, w)
  BY <1>1, ResolveFields
<1>4. \/ ~DoubtResolved(d, ev) /\ w = d
      \/ /\ DoubtResolved(d, ev) /\ d.scratch.cutoffReached
         /\ KeepsStatus(d, w) /\ w.scratch.freezeReason = "cutoff"
      \/ /\ DoubtResolved(d, ev) /\ ~d.scratch.cutoffReached
         /\ w.status = IF d.status = "frozen" THEN "open" ELSE d.status
         /\ w.scratch.freezeReason = NoReason
  BY <1>1, ResolveFields
<1> HIDE DEF r, w
<1>5. d.scratch.cutoffReached = m.scratch.cutoffReached /\ w.scratch.cutoffReached = m.scratch.cutoffReached
  BY <1>1, <1>3 DEF KeepsCutoff
<1>6. /\ d.status = "open" \/ d.status = "frozen"
      /\ d.scratch.freezeReason \in Reasons
  BY <1>2 DEF Live, KeepsStatus, KeepsReason, Reasons
<1>7. m.scratch.cutoffReached => d.status # "open"
  BY <1>2 DEF Live, KeepsStatus
<1>8. /\ w.status = "open" \/ w.status = "frozen"
      /\ w.scratch.freezeReason \in Reasons
  BY <1>4, <1>6 DEF KeepsStatus, Reasons
<1>9. m.scratch.cutoffReached => w.status # "open"
  BY <1>4, <1>5, <1>6, <1>7 DEF KeepsStatus
<1>10. ASSUME UnderVar(m, ev) PROVE w.status = "frozen" /\ w.scratch.freezeReason = "var"
  <2>1. d.status = "frozen" /\ d.scratch.freezeReason = "var"
    BY <1>2, <1>10 DEF UnderVar, Live, KeepsStatus, KeepsReason
  <2>2. ~DoubtResolved(d, ev)
    BY <2>1, <1>10 DEF UnderVar, DoubtResolved
  <2> QED
    BY <2>1, <2>2, <1>4
<1>11. KeepsTaps(m, w) /\ KeepsSeen(m, w) /\ KeepsCutoff(m, w) /\ w.pending = NoCandidate
  BY <1>1, <1>3, <1>5 DEF KeepsTaps, KeepsSeen, KeepsCutoff, KeepsCandidate
<1>12. w.scratch.cutoffReached => w.status # "open"
  BY <1>5, <1>9
<1> QED
  BY <1>3, <1>8, <1>10, <1>11, <1>12 DEF r, w, d

\* Steps 5 to 8.
LEMMA LiveFields ==
    ASSUME NEW m, Live(m), NEW fx, Quiet(fx), NEW spec, NEW ev
    PROVE  LET r == reduceLive(spec, m, fx, ev)
               n == r.state
           IN  /\ IsMarket(n) /\ KeepsSeen(m, n) /\ KeepsCutoff(m, n)
               /\ n.scratch.freezeReason \in Reasons
               /\ n.scratch.cutoffReached => n.status # "open"
               /\ Leaves(spec, m, ev, n, r.effects.terminal)
               /\ \/ KeepsTaps(m, n)
                  \/ n.status = "settled" /\ n.positions = AllActive(m.positions)
<1> DEFINE z == resolveDoubt(dropCandidate(m), fx, ev)
           w == z.state
           wx == z.effects
           r == reduceLive(spec, m, fx, ev)
           n == r.state
           t == r.effects.terminal
<1>1. \/ isHoldSignal(ev) /\ m.pending # NoCandidate /\ r = cancelCandidate(m, fx, ev)
      \/ isHoldSignal(ev) /\ m.pending = NoCandidate /\ r = holdMarket(m, fx, ev)
      \/ ~isHoldSignal(ev) /\ m.pending # NoCandidate /\ ~isReversal(ev) /\ r = settleNow(m, fx)
      \/ ~isHoldSignal(ev) /\ r = evaluateMarket(spec, w, wx, ev)
  BY Zenon DEF reduceLive
<1> HIDE DEF r
<1>0. holdReasonFor(ev) \in Reasons
  BY DEF holdReasonFor, Reasons
<1>2. m.scratch.cutoffReached => m.status # "open"
  BY DEF Live
<1>7. IsMarket(m)
  BY DEF Live
<1>3. CASE isHoldSignal(ev) /\ m.pending # NoCandidate /\ r = cancelCandidate(m, fx, ev)
  <2>1. /\ IsMarket(n) /\ Quiet(r.effects)
        /\ n.status = "frozen" /\ n.pending = NoCandidate
        /\ n.scratch.freezeReason = holdReasonFor(ev)
        /\ KeepsTaps(m, n) /\ KeepsSeen(m, n) /\ KeepsCutoff(m, n)
    BY <1>3, CancelFields DEF Live
  <2>2. Holds(ev, n, t)
    BY <2>1, <1>3 DEF Holds, Quiet
  <2> QED
    BY <1>0, <2>1, <2>2 DEF Leaves, r
<1>4. CASE isHoldSignal(ev) /\ m.pending = NoCandidate /\ r = holdMarket(m, fx, ev)
  <2>1. /\ IsMarket(n) /\ Quiet(r.effects)
        /\ n.status = IF m.status = "open" THEN "frozen" ELSE m.status
        /\ n.scratch.freezeReason = holdReasonFor(ev)
        /\ KeepsCandidate(m, n) /\ KeepsTaps(m, n) /\ KeepsSeen(m, n) /\ KeepsCutoff(m, n)
    <3> DEFINE h == holdMarket(m, fx, ev)
    <3>1. /\ IsMarket(h.state) /\ Quiet(h.effects)
          /\ h.state.status = IF m.status = "open" THEN "frozen" ELSE m.status
          /\ h.state.scratch.freezeReason = holdReasonFor(ev)
          /\ KeepsCandidate(m, h.state) /\ KeepsTaps(m, h.state)
          /\ KeepsSeen(m, h.state) /\ KeepsCutoff(m, h.state)
      BY <1>7, HoldFields
    <3>2. r = h
      BY <1>4
    <3> HIDE DEF h
    <3> QED
      BY <3>1, <3>2
  <2>2. n.status = "frozen" /\ n.pending = NoCandidate
    BY <2>1, <1>4 DEF KeepsCandidate, Live
  <2>3. Holds(ev, n, t)
    BY <2>1, <2>2, <1>4 DEF Holds, Quiet
  <2> QED
    BY <1>0, <2>1, <2>2, <2>3 DEF Leaves, r
<1>5. CASE ~isHoldSignal(ev) /\ m.pending # NoCandidate /\ ~isReversal(ev) /\ r = settleNow(m, fx)
  <2>1. /\ IsMarket(n) /\ t = TerminalOf(m.pending)
        /\ n.status = "settled" /\ n.pending = NoCandidate
        /\ n.positions = AllActive(m.positions) /\ KeepsScratch(m, n)
    BY <1>5, SettleFields DEF Live
  <2>2. Settles(m, ev, n, t)
    BY <2>1, <1>5 DEF Settles
  <2>3. n.scratch.freezeReason \in Reasons
    BY <2>1 DEF KeepsScratch, KeepsReason, Live
  <2>4. KeepsSeen(m, n) /\ KeepsCutoff(m, n)
    BY <2>1 DEF KeepsScratch
  <2>5. Leaves(spec, m, ev, n, t)
    BY <2>2 DEF Leaves
  <2>6. n.status # "open"
    BY <2>1
  <2> QED
    BY <2>1, <2>3, <2>4, <2>5, <2>6 DEF r
<1>6. CASE ~isHoldSignal(ev) /\ r = evaluateMarket(spec, w, wx, ev)
  <2>1. /\ IsMarket(w) /\ Quiet(wx) /\ KeepsTaps(m, w) /\ KeepsSeen(m, w) /\ KeepsCutoff(m, w)
        /\ w.pending = NoCandidate
        /\ w.status = "open" \/ w.status = "frozen"
        /\ w.scratch.freezeReason \in Reasons
    BY CleanSlate
  <2>2. w.scratch.cutoffReached => w.status # "open"
    BY CleanSlate
  <2>3. UnderVar(m, ev) => w.status = "frozen" /\ w.scratch.freezeReason = "var"
    BY CleanSlate
  <2> HIDE DEF z, w, wx
  <2>4. /\ IsMarket(n) /\ KeepsTaps(w, n) /\ KeepsScratch(w, n)
    BY <1>6, <2>1, EvaluateFields
  <2>5. \/ n = w /\ r.effects = wx
        \/ /\ r.effects = wx /\ n.status = "settling"
           /\ ev.confirmed /\ w.scratch.freezeReason \notin Doubt
           /\ OutcomeOn(spec, w.scratch, ev) \in Won
           /\ n.pending = [outcome |-> OutcomeOn(spec, w.scratch, ev), decidingSeq |-> ev.seq,
                           evidence |-> buildEvidence(w.scratch, spec, ev.seq),
                           until |-> ev.rcv + SETTLEMENT_DEBOUNCE]
        \/ t.outcome = "void" /\ n.status = "voided" /\ n.pending = NoCandidate
    BY <1>6, <2>1, EvaluateFields
  <2>6. n.scratch = w.scratch
    BY <2>1, <2>4, SameScratch
  <2>7. KeepsTaps(m, n) /\ KeepsSeen(m, n) /\ n.scratch.freezeReason \in Reasons
    BY <2>1, <2>4, <2>6 DEF KeepsTaps, KeepsSeen
  <2>8. KeepsCutoff(m, n)
    BY <2>1, <2>6 DEF KeepsCutoff
  <2>9. n.scratch.cutoffReached => n.status # "open"
    BY <2>2, <2>5, <2>6
  <2>10. Leaves(spec, m, ev, n, t)
    <3>1. CASE n = w /\ r.effects = wx
      <4>1. Waits(m, ev, n, t)
        BY <1>6, <2>1, <2>3, <3>1 DEF Waits, Quiet
      <4> QED
        BY <4>1 DEF Leaves
    <3>2. CASE t.outcome = "void" /\ n.status = "voided" /\ n.pending = NoCandidate
      BY <3>2 DEF Leaves, Voids
    <3>3. CASE /\ r.effects = wx /\ n.status = "settling"
               /\ ev.confirmed /\ w.scratch.freezeReason \notin Doubt
               /\ OutcomeOn(spec, w.scratch, ev) \in Won
               /\ n.pending = [outcome |-> OutcomeOn(spec, w.scratch, ev), decidingSeq |-> ev.seq,
                               evidence |-> buildEvidence(w.scratch, spec, ev.seq),
                               until |-> ev.rcv + SETTLEMENT_DEBOUNCE]
      <4>1. ~UnderVar(m, ev)
        BY <3>3, <2>3 DEF Doubt
      <4>2. t = NoTerminal
        BY <3>3, <2>1 DEF Quiet
      <4>3. Arms(spec, m, ev, n, t)
        BY <4>1, <4>2, <3>3, <1>6, <2>6, Zenon DEF Arms
      <4> QED
        BY <4>3 DEF Leaves
    <3> QED
      BY <2>5, <3>1, <3>2, <3>3
  <2> QED
    BY <2>4, <2>7, <2>8, <2>9, <2>10 DEF r
<1> QED
  BY <1>1, <1>3, <1>4, <1>5, <1>6

\* The sequence number a market has seen after an event.
SeenAfter(m, ev) == IF ev.kind = "odds_suspension" THEN m.scratch.lastSeq ELSE ev.seq

LEMMA AdvanceFields ==
    ASSUME NEW m, IsMarket(m), NEW ev
    PROVE  LET n == advanceCursor(m, ev)
           IN  /\ IsMarket(n) /\ n.scratch.lastSeq = SeenAfter(m, ev)
               /\ n.scratch.goals = m.scratch.goals
               /\ KeepsStatus(m, n) /\ KeepsCandidate(m, n) /\ KeepsTaps(m, n)
               /\ KeepsReason(m, n) /\ KeepsCutoff(m, n)
<1> DEFINE seq == ev.seq
           moved == [m EXCEPT !.scratch.lastSeq = seq]
<1>1. \/ ev.kind = "odds_suspension" /\ advanceCursor(m, ev) = m
      \/ ev.kind # "odds_suspension" /\ advanceCursor(m, ev) = moved
  BY DEF advanceCursor
<1>2. seq = ev.seq
  OBVIOUS
<1> HIDE DEF seq
<1>3. /\ IsMarket(moved) /\ moved.scratch.lastSeq = seq /\ moved.scratch.goals = m.scratch.goals
      /\ KeepsStatus(m, moved) /\ KeepsCandidate(m, moved) /\ KeepsTaps(m, moved)
      /\ KeepsReason(m, moved) /\ KeepsCutoff(m, moved)
  BY SetSeen
<1> HIDE DEF moved
<1>4. CASE ev.kind = "odds_suspension" /\ advanceCursor(m, ev) = m
  BY <1>4 DEF SeenAfter, KeepsStatus, KeepsCandidate, KeepsTaps, KeepsReason, KeepsCutoff
<1>5. CASE ev.kind # "odds_suspension" /\ advanceCursor(m, ev) = moved
  BY <1>2, <1>3, <1>5 DEF SeenAfter
<1> QED
  BY <1>1, <1>4, <1>5

\* The market at step 5: the event is seen, the ledger, the taps and the cutoff
\* are brought up to date.
Prepared(spec, m, ev) ==
    LET tracked == [advanceCursor(m, ev) EXCEPT !.scratch.goals = trackGoals(@, ev)]
        guarded == applyPositionGuards(tracked, ev)
    IN  applyCutoff(spec, guarded.state, guarded.effects, ev)

LEMMA PreparedFields ==
    ASSUME NEW m, Live(m), NEW spec, NEW ev
    PROVE  LET r == Prepared(spec, m, ev)
               n == r.state
           IN  /\ Live(n) /\ Quiet(r.effects)
               /\ n.scratch.lastSeq = SeenAfter(m, ev)
               /\ n.scratch.goals = trackGoals(m.scratch.goals, ev)
               /\ KeepsCandidate(m, n)
               /\ n.positions = Guarded(m.positions, ev)
               /\ m.scratch.cutoffReached => n.scratch.cutoffReached
               /\ m.status # "open" => KeepsStatus(m, n) /\ KeepsReason(m, n)
<1> DEFINE seen == advanceCursor(m, ev)
           goals == trackGoals(m.scratch.goals, ev)
           tracked == [seen EXCEPT !.scratch.goals = goals]
           g == applyPositionGuards(tracked, ev)
           s == g.state
           fx == g.effects
           r == applyCutoff(spec, s, fx, ev)
           n == r.state
<1>0. IsMarket(m)
  BY DEF Live
<1>1. /\ IsMarket(seen) /\ seen.scratch.lastSeq = SeenAfter(m, ev)
      /\ seen.scratch.goals = m.scratch.goals
      /\ KeepsStatus(m, seen) /\ KeepsCandidate(m, seen) /\ KeepsTaps(m, seen)
      /\ KeepsReason(m, seen) /\ KeepsCutoff(m, seen)
  BY <1>0, AdvanceFields
<1> HIDE DEF seen
<1>2. [seen EXCEPT !.scratch.goals = trackGoals(@, ev)] = tracked
  BY <1>1 DEF IsMarket
<1>3. Prepared(spec, m, ev) = r
  BY <1>2 DEF Prepared, seen
<1>4. goals = trackGoals(m.scratch.goals, ev)
  OBVIOUS
<1> HIDE DEF goals
<1>5. /\ IsMarket(tracked) /\ tracked.scratch.goals = goals
      /\ tracked.scratch.lastSeq = seen.scratch.lastSeq
      /\ KeepsStatus(seen, tracked) /\ KeepsCandidate(seen, tracked) /\ KeepsTaps(seen, tracked)
      /\ KeepsReason(seen, tracked) /\ KeepsCutoff(seen, tracked)
  BY <1>1, SetGoals
<1> HIDE DEF tracked
<1>6. /\ IsMarket(s) /\ Quiet(fx)
      /\ KeepsStatus(tracked, s) /\ KeepsCandidate(tracked, s) /\ KeepsScratch(tracked, s)
      /\ s.positions = Guarded(tracked.positions, ev)
  BY <1>5, GuardFields
<1> HIDE DEF g, s, fx
<1>7. /\ IsMarket(n) /\ Quiet(r.effects)
      /\ KeepsCandidate(s, n) /\ KeepsTaps(s, n) /\ KeepsSeen(s, n)
  BY <1>6, CutoffFields
<1>8. \/ KeepsStatus(s, n) /\ KeepsReason(s, n) /\ KeepsCutoff(s, n)
      \/ /\ KeepsStatus(s, n) /\ KeepsReason(s, n) /\ s.status # "open"
         /\ n.scratch.cutoffReached = TRUE
      \/ /\ s.status = "open" /\ n.status = "frozen"
         /\ n.scratch.freezeReason = "cutoff" /\ n.scratch.cutoffReached = TRUE
  BY <1>6, CutoffFields
<1> HIDE DEF r, n
<1>9. /\ s.status = m.status /\ s.pending = m.pending
      /\ s.positions = Guarded(m.positions, ev)
      /\ s.scratch.lastSeq = SeenAfter(m, ev) /\ s.scratch.goals = goals
      /\ s.scratch.freezeReason = m.scratch.freezeReason
  BY <1>1, <1>5, <1>6
     DEF KeepsStatus, KeepsCandidate, KeepsTaps, KeepsReason, KeepsScratch, KeepsSeen
<1>10. s.scratch.cutoffReached = m.scratch.cutoffReached
  BY <1>1, <1>5, <1>6 DEF KeepsCutoff, KeepsScratch
<1>11. /\ n.scratch.lastSeq = SeenAfter(m, ev) /\ n.scratch.goals = goals
       /\ KeepsCandidate(m, n) /\ n.positions = Guarded(m.positions, ev)
  BY <1>7, <1>9 DEF KeepsCandidate, KeepsTaps, KeepsSeen
<1>12. n.scratch.cutoffReached = m.scratch.cutoffReached \/ n.scratch.cutoffReached = TRUE
  BY <1>8, <1>10 DEF KeepsCutoff
<1>13. /\ n.scratch.cutoffReached \in BOOLEAN
       /\ m.scratch.cutoffReached => n.scratch.cutoffReached
  BY <1>12 DEF Live
<1>14. m.status # "open" => KeepsStatus(m, n) /\ KeepsReason(m, n)
  BY <1>8, <1>9 DEF KeepsStatus, KeepsReason
<1>15. /\ n.status = m.status \/ (m.status = "open" /\ n.status = "frozen")
       /\ n.scratch.freezeReason \in Reasons
  BY <1>8, <1>9 DEF KeepsStatus, KeepsReason, Reasons, Live
<1>16. n.scratch.cutoffReached => n.status # "open"
  <2>1. CASE KeepsStatus(s, n) /\ KeepsReason(s, n) /\ KeepsCutoff(s, n)
    BY <2>1, <1>9, <1>10 DEF KeepsStatus, KeepsCutoff, Live
  <2>2. CASE s.status # "open" /\ KeepsStatus(s, n)
    BY <2>2 DEF KeepsStatus
  <2> QED
    BY <2>1, <2>2, <1>8
<1>17. /\ n.status = "open" \/ n.status = "frozen" \/ n.status = "settling"
       /\ n.status = "settling" <=> n.pending # NoCandidate
  BY <1>11, <1>15 DEF Live, KeepsCandidate
<1>18. Live(n)
  BY <1>7, <1>13, <1>15, <1>16, <1>17 DEF Live
<1> QED
  BY <1>3, <1>4, <1>7, <1>11, <1>13, <1>14, <1>18 DEF n

\* A running market and one event it has not seen.
LEMMA ReduceFields ==
    ASSUME NEW m, Live(m), NEW spec, NEW ev, ~isStale(m, ev)
    PROVE  LET r == reduceMarket(spec, m, ev)
               n == r.state
           IN  /\ IsMarket(n)
               /\ n.scratch.lastSeq = SeenAfter(m, ev)
               /\ \/ n.scratch.goals = trackGoals(m.scratch.goals, ev)
                  \/ n.scratch.goals = m.scratch.goals /\ n.status = "voided"
               /\ n.scratch.freezeReason \in Reasons
               /\ n.scratch.cutoffReached \in BOOLEAN
               /\ m.scratch.cutoffReached => n.scratch.cutoffReached
               /\ n.scratch.cutoffReached => n.status # "open"
               /\ Leaves(spec, m, ev, n, r.effects.terminal)
               /\ \/ n.positions = Guarded(m.positions, ev)
                  \/ n.status = "voided" /\ n.positions = m.positions
                  \/ n.status = "settled" /\ n.positions = AllActive(Guarded(m.positions, ev))
<1> DEFINE seen == advanceCursor(m, ev)
           p == Prepared(spec, m, ev)
           c == p.state
           fx == p.effects
           r == reduceMarket(spec, m, ev)
           n == r.state
           t == r.effects.terminal
<1>0. IsMarket(m) /\ m.scratch.cutoffReached \in BOOLEAN /\ m.scratch.freezeReason \in Reasons
  BY DEF Live
<1>1. ~Closed(m) /\ m.status # "pending_lineup"
  BY DEF Live, Closed
<1>2. r = IF FixtureFatal(ev) THEN voidMarket(seen, NoEffects, ev) ELSE reduceLive(spec, c, fx, ev)
  BY <1>1, Zenon DEF reduceMarket, Prepared
<1> HIDE DEF r
<1>3. CASE FixtureFatal(ev)
  <2>1. /\ IsMarket(seen) /\ seen.scratch.lastSeq = SeenAfter(m, ev)
        /\ seen.scratch.goals = m.scratch.goals
        /\ KeepsStatus(m, seen) /\ KeepsCandidate(m, seen) /\ KeepsTaps(m, seen)
        /\ KeepsReason(m, seen) /\ KeepsCutoff(m, seen)
    BY <1>0, AdvanceFields
  <2>2. r = voidMarket(seen, NoEffects, ev)
    BY <1>2, <1>3
  <2> HIDE DEF seen
  <2>3. /\ IsMarket(n) /\ t.outcome = "void" /\ n.status = "voided" /\ n.pending = NoCandidate
        /\ KeepsTaps(seen, n) /\ KeepsScratch(seen, n)
    BY <2>1, <2>2, QuietChanges, VoidFields
  <2>4. Leaves(spec, m, ev, n, t)
    BY <2>3 DEF Leaves, Voids
  <2>5. /\ n.scratch.lastSeq = SeenAfter(m, ev) /\ n.scratch.goals = m.scratch.goals
        /\ n.positions = m.positions /\ n.scratch.freezeReason \in Reasons
    BY <1>0, <2>1, <2>3 DEF KeepsTaps, KeepsScratch, KeepsSeen, KeepsReason
  <2>6. n.scratch.cutoffReached = m.scratch.cutoffReached
    BY <2>1, <2>3 DEF KeepsScratch, KeepsCutoff
  <2>7. /\ n.scratch.cutoffReached \in BOOLEAN
        /\ m.scratch.cutoffReached => n.scratch.cutoffReached
    BY <1>0, <2>6
  <2> QED
    BY <2>3, <2>4, <2>5, <2>7 DEF r
<1>4. CASE ~FixtureFatal(ev)
  <2>1. /\ Live(c) /\ Quiet(fx)
        /\ c.scratch.lastSeq = SeenAfter(m, ev)
        /\ c.scratch.goals = trackGoals(m.scratch.goals, ev)
        /\ KeepsCandidate(m, c)
        /\ c.positions = Guarded(m.positions, ev)
        /\ m.status # "open" => KeepsStatus(m, c) /\ KeepsReason(m, c)
    BY PreparedFields
  <2>2. m.scratch.cutoffReached => c.scratch.cutoffReached
    BY PreparedFields
  <2>3. r = reduceLive(spec, c, fx, ev)
    BY <1>2, <1>4
  <2> HIDE DEF p, c, fx
  <2>4. IsMarket(n) /\ KeepsSeen(c, n) /\ KeepsCutoff(c, n) /\ n.scratch.freezeReason \in Reasons
    BY <2>1, <2>3, LiveFields
  <2>5. n.scratch.cutoffReached => n.status # "open"
    BY <2>1, <2>3, LiveFields
  <2>6. Leaves(spec, c, ev, n, t)
    BY <2>1, <2>3, LiveFields
  <2>7. KeepsTaps(c, n) \/ (n.status = "settled" /\ n.positions = AllActive(c.positions))
    BY <2>1, <2>3, LiveFields
  <2>8. n.scratch.lastSeq = SeenAfter(m, ev) /\ n.scratch.goals = trackGoals(m.scratch.goals, ev)
    BY <2>1, <2>4 DEF KeepsSeen
  <2>9. n.scratch.cutoffReached = c.scratch.cutoffReached
    BY <2>4 DEF KeepsCutoff
  <2>10. /\ n.scratch.cutoffReached \in BOOLEAN
         /\ m.scratch.cutoffReached => n.scratch.cutoffReached
    BY <2>1, <2>2, <2>9 DEF Live
  <2>11. \/ n.positions = Guarded(m.positions, ev)
         \/ n.status = "settled" /\ n.positions = AllActive(Guarded(m.positions, ev))
    BY <2>1, <2>7 DEF KeepsTaps
  <2>12. c.pending = m.pending
    BY <2>1 DEF KeepsCandidate
  <2>13. UnderVar(m, ev) => UnderVar(c, ev)
    BY <2>1 DEF UnderVar, KeepsStatus, KeepsReason
  <2>14. Leaves(spec, m, ev, n, t)
    BY <2>6, <2>12, <2>13 DEF Leaves, Settles, Waits, Arms
  <2> QED
    BY <2>4, <2>5, <2>8, <2>10, <2>11, <2>14 DEF r
<1> QED
  BY <1>3, <1>4

\* A closed market, and an event already seen, change nothing.
LEMMA ReduceIgnores ==
    ASSUME NEW m, NEW spec, NEW ev, Closed(m) \/ isStale(m, ev)
    PROVE  /\ reduceMarket(spec, m, ev).state = m
           /\ reduceMarket(spec, m, ev).effects.terminal = NoTerminal
  BY ResultFields DEF reduceMarket, NoEffects

\* A market that waits for its lineup and one event it has not seen.
LEMMA LineupFields ==
    ASSUME NEW m, IsMarket(m), m.status = "pending_lineup", NEW spec, NEW ev, ~isStale(m, ev)
    PROVE  LET r == reduceMarket(spec, m, ev)
               n == r.state
               t == r.effects.terminal
           IN  /\ IsMarket(n)
               /\ n.scratch.lastSeq = SeenAfter(m, ev) /\ n.scratch.goals = m.scratch.goals
               /\ KeepsReason(m, n) /\ KeepsCutoff(m, n)
               /\ \/ Voids(n, t) /\ KeepsTaps(m, n)
                  \/ /\ KeepsStatus(m, n) /\ KeepsCandidate(m, n) /\ KeepsTaps(m, n) /\ t = NoTerminal
                     /\ ~FixtureFatal(ev) /\ ev.phase \notin INPLAY_PHASES
                  \/ /\ n.status = "open" /\ KeepsCandidate(m, n) /\ t = NoTerminal
                     /\ n.positions = AllActive(m.positions)
                     /\ ~FixtureFatal(ev) /\ ev.kind = "lineup"
<1> DEFINE seen == advanceCursor(m, ev)
           r == reduceMarket(spec, m, ev)
           n == r.state
           t == r.effects.terminal
           open == [seen EXCEPT !.status = "open"]
           fx == [NoEffects EXCEPT !.activateMarket = TRUE]
<1>1. ~Closed(m)
  BY DEF Closed
<1>2. r = reducePendingLineup(spec, seen, ev)
  BY <1>1 DEF reduceMarket
<1>3. /\ IsMarket(seen) /\ seen.scratch.lastSeq = SeenAfter(m, ev)
      /\ seen.scratch.goals = m.scratch.goals
      /\ KeepsStatus(m, seen) /\ KeepsCandidate(m, seen) /\ KeepsTaps(m, seen)
      /\ KeepsReason(m, seen) /\ KeepsCutoff(m, seen)
  BY AdvanceFields
<1> HIDE DEF seen, r
<1>4. \/ r = voidMarket(seen, NoEffects, ev)
      \/ ~FixtureFatal(ev) /\ ev.phase \notin INPLAY_PHASES /\ r = Result(seen, NoEffects)
      \/ ~FixtureFatal(ev) /\ ev.kind = "lineup" /\ r = activateRemainingPending(open, fx)
  BY <1>2 DEF reducePendingLineup
<1> USE DEF KeepsStatus, KeepsCandidate, KeepsTaps, KeepsSeen, KeepsReason, KeepsCutoff, KeepsScratch
<1>5. CASE r = voidMarket(seen, NoEffects, ev)
  <2>1. /\ IsMarket(n) /\ t.outcome = "void" /\ n.status = "voided" /\ n.pending = NoCandidate
        /\ KeepsTaps(seen, n) /\ KeepsScratch(seen, n)
    BY <1>3, <1>5, QuietChanges, VoidFields
  <2> QED
    BY <2>1, <1>3 DEF Voids, r
<1>6. CASE ~FixtureFatal(ev) /\ ev.phase \notin INPLAY_PHASES /\ r = Result(seen, NoEffects)
  <2>1. n = seen /\ t = NoTerminal
    BY <1>6, ResultFields DEF NoEffects
  <2> QED
    BY <2>1, <1>3, <1>6 DEF r
<1>7. CASE ~FixtureFatal(ev) /\ ev.kind = "lineup" /\ r = activateRemainingPending(open, fx)
  <2>1. /\ IsMarket(open) /\ open.status = "open"
        /\ KeepsCandidate(seen, open) /\ KeepsTaps(seen, open) /\ KeepsScratch(seen, open)
    BY <1>3, SetStatus
  <2>2. Quiet(fx)
    BY QuietChanges
  <2> HIDE DEF open, fx
  <2>3. /\ IsMarket(n) /\ Quiet(r.effects) /\ n.positions = AllActive(open.positions)
        /\ KeepsStatus(open, n) /\ KeepsCandidate(open, n) /\ KeepsScratch(open, n)
    <3> DEFINE a == activateRemainingPending(open, fx)
    <3> HIDE DEF KeepsStatus, KeepsCandidate, KeepsTaps, KeepsSeen, KeepsReason, KeepsCutoff,
                 KeepsScratch
    <3>1. /\ IsMarket(a.state) /\ Quiet(a.effects) /\ a.state.positions = AllActive(open.positions)
          /\ KeepsStatus(open, a.state) /\ KeepsCandidate(open, a.state)
          /\ KeepsScratch(open, a.state)
      BY <2>1, <2>2, ActivateFields
    <3>2. r = a
      BY <1>7
    <3> HIDE DEF a
    <3> QED
      BY <3>1, <3>2
  <2>4. t = NoTerminal
    BY <2>3 DEF Quiet
  <2> QED
    BY <2>1, <2>3, <2>4, <1>3, <1>7 DEF r
<1> QED
  BY <1>4, <1>5, <1>6, <1>7

\* The taps after a clock tick.
Ripened(taps, at) == Mark(taps, Matured(taps, at), "active")

\* The tick of a market that waits with a candidate.
LEMMA DebounceFields ==
    ASSUME NEW m, Live(m), m.pending # NoCandidate, NEW at
    PROVE  LET r == checkDebounce(m, at)
               n == r.state
               t == r.effects.terminal
           IN  /\ IsMarket(n) /\ KeepsScratch(m, n)
               /\ \/ /\ KeepsStatus(m, n) /\ KeepsCandidate(m, n) /\ t = NoTerminal
                     /\ n.positions = Ripened(m.positions, at)
                  \/ /\ n.status = "settled" /\ n.pending = NoCandidate /\ t = TerminalOf(m.pending)
                     /\ n.positions = AllActive(Ripened(m.positions, at))
                     /\ at >= m.pending.until
<1> DEFINE matured == Matured(m.positions, at)
           taps == Mark(m.positions, matured, "active")
           ripe == [m EXCEPT !.positions = taps]
           fx == [NoEffects EXCEPT !.activates = matured]
           r == checkDebounce(m, at)
           n == r.state
           t == r.effects.terminal
<1>0. IsMarket(m) /\ ~Closed(m)
  BY DEF Live, Closed
<1>1. [m EXCEPT !.positions = Mark(@, matured, "active")] = ripe
  BY <1>0 DEF IsMarket
<1>2. \/ at >= m.pending.until /\ r = settleNow(ripe, fx)
      \/ r = Result(ripe, fx)
  BY <1>0, <1>1 DEF checkDebounce
<1>3. taps = Ripened(m.positions, at)
  BY DEF Ripened
<1> HIDE DEF matured, taps, r
<1>4. /\ IsMarket(ripe) /\ ripe.positions = taps
      /\ KeepsStatus(m, ripe) /\ KeepsCandidate(m, ripe) /\ KeepsScratch(m, ripe)
  BY <1>0, SetTaps
<1>5. Quiet(fx)
  BY QuietChanges
<1> HIDE DEF ripe, fx
<1> USE DEF KeepsStatus, KeepsCandidate, KeepsTaps, KeepsSeen, KeepsReason, KeepsCutoff, KeepsScratch
<1>6. CASE at >= m.pending.until /\ r = settleNow(ripe, fx)
  <2>1. /\ IsMarket(n) /\ t = TerminalOf(ripe.pending)
        /\ n.status = "settled" /\ n.pending = NoCandidate
        /\ n.positions = AllActive(ripe.positions) /\ KeepsScratch(ripe, n)
    BY <1>4, <1>5, <1>6, SettleFields
  <2> QED
    BY <2>1, <1>3, <1>4, <1>6 DEF r
<1>7. CASE r = Result(ripe, fx)
  <2>1. n = ripe /\ t = NoTerminal
    BY <1>5, <1>7, ResultFields DEF Quiet
  <2> QED
    BY <2>1, <1>3, <1>4, <1>7 DEF r
<1> QED
  BY <1>2, <1>6, <1>7

=============================================================================
