CONSTANTS
    Admins = {d1, d2}
    Uploads = {u1, u2}
    Tables = {users, posts}
    Guarded = {users}
SPECIFICATION CohortSpec
SYMMETRY MCSymmetry
CHECK_DEADLOCK FALSE
INVARIANT FailedCanBeRetried
