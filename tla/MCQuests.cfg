CONSTANTS
    Requests = {r1, r2}
    Students = {u1}
    QuestIds = {q1}
    Slots = {n1, n2, n3}
    MaxReward = 2
    MaxLimit = 2
SPECIFICATION Spec
SYMMETRY MCSymmetry
INVARIANTS
    OnePending
    WithinLimit
    LedgerFollowsStatus
    BalanceIsWhatWasGranted
PROPERTY StatusOnlyMovesForward
