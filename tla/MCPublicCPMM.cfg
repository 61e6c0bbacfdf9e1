SPECIFICATION Spec
CONSTANTS
    FeeDenominator = 4
    FeeBps = 2
    FeeShareDenominator = 2
    Users = {u1, u2}
    Pool = pool
    Taxed = {0}
    TokenSupply = 4
    Scale <- MCScale
    PriceUnit = 1
    Amounts = {2, 3}
    Minimums = {0}
    PriceBounds <- MCPriceBounds
    MaxTime = 1
    MaxLocks = 1
    MaxSupply = 4
    MaxMoves = 2
SYMMETRY MCSymmetry
INVARIANTS HoldersCanExit VaultBacksItsFees LifecycleMatchesSupply
PROPERTIES ShareValueNeverDiluted BooksFollowBalances
CHECK_DEADLOCK FALSE
