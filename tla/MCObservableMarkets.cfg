\* Two tiers, the standard class and room for one of two launch strategies.
SPECIFICATION ObservableSpec
CONSTANTS
    Standard = standard
    Strategies = {s1, s2}
    Reviewed = {s1, s2}
    MaxStrategies = 1
    MaxCandidates = 2
    LaunchIds = {l1, l2}
    NoLaunch = noLaunch
    Tiers <- MCTiers
    FeeDenominator = 4
    FeeShareDenominator = 1
    MaxWord = 63
    Scale <- MCScale
    PriceScale = 1
    MaxCount = 2
    Amounts = {2, 4}
    FirstOffers <- MCOffers
    MaxOpenings = 3
    References = {1}
    MaxTrades = 1
SYMMETRY MCSymmetry
INVARIANTS LaunchRecordsAgree BestExecution ReferenceFollowsPool
CHECK_DEADLOCK FALSE
