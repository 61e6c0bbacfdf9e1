\* Two makers: terms, amendments, bounties and expiry, and the escrow they share.
SPECIFICATION Spec
CONSTANTS
    Accounts = {a1, a2}
    Token = {tok, wcoti}
    WrappedNative = wcoti
    Rebasing = {tok}
    Zero = zero
    NativeCoin = coti
    Amounts = {1, 2}
    Outputs = {0, 1}
    Values = {1}
    TokenSupply = 2
    NativeSupply = 2
    MaxOrders = 2
    MaxRevisions = 1
    MaxTime = 2
    MaxMoves = 1
SYMMETRY MCSymmetry
INVARIANTS CancelAlwaysOpen KeeperViewExact
PROPERTIES MakerLimitHonoured BountyRateNeverFalls BookIsCustody ShortfallFreezesToken
CHECK_DEADLOCK FALSE
