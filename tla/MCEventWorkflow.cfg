SPECIFICATION FairWorkflowSpec
CONSTANTS
  SETTLEMENT_DEBOUNCE = 1
  ASSUMED_FEED_DELAY = 0
  Claim <- AnyGoal
  RowStatus = "open"
  Scripts <- Matches
  Endpoints <- SignerUrls
  Threshold = 2
  TTL = 2
  Skew = 1
  Deadline = 3
  MaxAttempts = 2
  MaxTime = 0
  MaxFaults = 1
INVARIANTS
  WorkflowTypeOK
PROPERTIES
  DecidedOnceOnTheFacts
  WhistleSettles
CHECK_DEADLOCK FALSE
