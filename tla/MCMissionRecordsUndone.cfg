CONSTANTS
    Workers = {w1, w2}
    Records = {r1, r2, r3, r4}
    Students <- MCEditedOnly
    PaidBound = 40000
    r1 = r1
    r2 = r2
    r3 = r3
    r4 = r4
SPECIFICATION Spec
SYMMETRY MCWorkers
CHECK_DEADLOCK FALSE
INVARIANT UndoneIsTakenBack
