SPECIFICATION FairRelayerSpec
CONSTANTS
    EngineA = EngineA
    EngineB = EngineB
    NoWorker = NoWorker
    Workers <- TwoEngines
    Kinds <- AllKinds
    MaxAttempts = 2
    BlockhashLife = 1
    FinalityLag = 1
    MaxTxs = 2
    MaxHeight = 5
    MaxFaults = 2
INVARIANTS
    RelayerTypeOK
    LiveTransactionIsOnTheRow
    CompleteIsFinal
PROPERTIES
    OneEffectPerJob
    SignedJobIsResolved
CHECK_DEADLOCK FALSE
