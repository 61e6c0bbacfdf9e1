\* Two pools of the same pair feed one vault.  An epoch is one instant long, so
\* queues grow longer than one sweep, with thin epochs in them.
SPECIFICATION Spec
CONSTANTS
    Pools = {p1, p2}
    Token = {t0, t1}
    EpochSeconds = 1
    CollectionSwaps = 2
    CollectionDelay = 1
    AggregatedSwaps = 2
    SweepEpochs = 2
    SweepDelay = 1
    MaxTime = 5
    MaxSwaps = 4
SYMMETRY MCSymmetry
INVARIANTS NothingStranded
PROPERTIES FeesLeaveInAggregates ReleasesDelayed
CHECK_DEADLOCK FALSE
