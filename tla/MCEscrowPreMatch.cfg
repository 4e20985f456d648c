SPECIFICATION Spec
CONSTANTS
    NumOwners = 3
    Amounts = {2, 3}
    Configs <- TwoConfigs
    TermSheets <- PreMatchTerms
    ActivationDelay = 1
    IntentLifetimes = {0}
    MaxLots = 1
    MaxEventEpoch = 0
    MaxOracleEpoch = 1
    MaxTime = 0
    U64Max = 100
INVARIANTS ClaimsCovered CloseLeavesDustOnly MatchesReference VaultCoversAllClaims
PROPERTIES ClaimAmountStable
