SPECIFICATION Spec
CONSTANTS
  SETTLEMENT_DEBOUNCE = 1
  ASSUMED_FEED_DELAY = 0
  Kinds = {"goal", "goal_discarded", "goal_amended", "phase_change", "lineup", "abandoned", "possible_event", "unconfirmed_goal", "coverage_warning", "stat_update"}
  Gaps = {"detail", "seq", "kind"}
  Players = {"ann", "bob"}
  SideOf <- Teams
  MaxEvents = 5
  MaxBacklog = 1
  MaxReversals = 2
  Positions = {}
  ClaimSpecs <- AllClaims
  MaxTime = 1
INVARIANTS
  TypeOK
  LedgerIsTheMatch
PROPERTIES
  SettledOnTheFacts
CHECK_DEADLOCK FALSE
