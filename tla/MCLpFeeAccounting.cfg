\* Two holders, up to three shares, quarters of a unit.
SPECIFICATION Spec
CONSTANTS
    Accounts = {a1, a2}
    Side = {0}
    Scale = 4
    MaxWord = 15
    Amounts = {1, 2}
    Fees = {1, 2}
    LockIds = {1}
    Spenders = {spender}
    Allowances = {1}
    MaxAccrued = 2
SYMMETRY MCSymmetry
INVARIANTS FeesConserved NoDormantFractions
PROPERTIES FeesStayWithHolders
CHECK_DEADLOCK FALSE
