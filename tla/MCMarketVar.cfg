SPECIFICATION FairSpec
CONSTANTS
  SETTLEMENT_DEBOUNCE = 1
  ASSUMED_FEED_DELAY = 0
  Kinds = {"possible_event", "goal", "goal_discarded", "var_check", "var_end", "phase_change", "stat_update"}
  Gaps = {}
  Players = {"ann", "bob"}
  SideOf <- Teams
  MaxEvents = 6
  MaxBacklog = 1
  MaxReversals = 1
  Positions = {}
  ClaimSpecs <- VarClaims
  MaxTime = 1
PROPERTIES
  NeverSettlesUnderVar
  CutoffIsPermanent
  FullTimeResolves
CHECK_DEADLOCK FALSE
