\* Words of five bits: every product bound can be met from both sides.
SPECIFICATION ObservableSpec
CONSTANTS
    FeeDenominator = 4
    FeeBps = 2
    FeeShareDenominator = 2
    Users = {u1, u2}
    MaxWord = 31
    Scale <- MCScale
    PriceScale = 2
    MaxCount = 2
    CollectionSwaps = 2
    ProtectedLaunch = TRUE
    Amounts = {1, 3, 4}
    MaxLocks = 1
    BucketBps = 1
    References = {1, 3}
SYMMETRY MCSymmetry
INVARIANTS
    QuoteMatchesSettlement
    ExitNeverBlocked
    BooksAgree
    PreviewHonoured
    PublishingNeverBlocks
PROPERTIES ShareValueNeverDiluted
CHECK_DEADLOCK FALSE
