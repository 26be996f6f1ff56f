CONSTANTS
    w1 = w1
    w2 = w2
    r1 = r1
    r2 = r2
    Workers = {w1, w2}
    Requests = {r1, r2}
    Intents <- IntentsDef
    threshold_bps = 3
    Envelopes <- EnvelopesDef
    GasEstimates <- GasEstimatesDef
    chain_id = 1
    wallet = wallet
    router = router
    max_position_bps = 6
    max_portfolio_exposure_bps = 10
    max_gas_price_gwei = 2
    hard_position_bps = 5
    Gwei = 3
    Scale = 100
    Sizes <- SizesDef
    Exposures <- ExposuresDef
    GasPrices <- GasPricesDef
    Amounts <- AmountsDef
    Duration = 1
    SigningWindow = 2
    None = None
    MaxTime = 3
    MaxProposals = 2
SPECIFICATION Spec
INVARIANT TypeOK
INVARIANT OneSignaturePerRequest
INVARIANT OnlyTheStoredPairIsSigned
INVARIANT NoSignatureBeforeUnlock
INVARIANT SignedWithinLimits
INVARIANT AcceptedIffWithinLimits
PROPERTY RowsAreImmutable
PROPERTY ImplementsAtMostOnceSigning
CHECK_DEADLOCK FALSE
