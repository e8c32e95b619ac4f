CONSTANTS
    Workers = {w1, w2}
    Records = {r1, r2, r3, r4}
    Students <- MCStudents
    PaidBound = 100000
    r1 = r1
    r2 = r2
    r3 = r3
    r4 = r4
    Reviewers = {v1, v2}
    Orders = {o1}
    Totals = {200, 300}
    Adjustments <- MCAdjustments
    MaxCharges = 2
    MaxGiven = 1
    MaxAdjusts = 1
    Admins = {d1, d2}
    Uploads = {u1, u2, u3}
    Tables = {users, posts}
    Guarded = {users}
    Desks = {k1, k2}
    Requests = {q1, q2}
    Days = {e1, e2}
    Forms <- MCForms
    HandStatuses = {"present"}
    MaxTransactions = 4
    Scheduled = {n1, n2, n3}
    Repeating = {n1, n2}
    Exceptional = {n2, n3}
    Publishers = {p1, p2}
    MaxSlots = 2
    MaxEdits = 1
    Postings = {1, 2}
    MaxPrint = 3
    MaxChanges = 4
    MaxStops = 1
    Servers = {s1, s2}
    Sids = {i1, i2, i3}
    MaxJti = 4
    MaxCred = 2
    Tabs = {t1, t2}
    Mobile = FALSE
    Loses = TRUE
    Duplicates = TRUE
    MaxTabsSids = 2
    MaxTabsJti = 3
SPECIFICATION BackendSpec
SYMMETRY MCSymmetry
CHECK_DEADLOCK FALSE
INVARIANTS
    BackendTypeOK
    PaidFollowsStatus
    CapKept
    TiersAddUp
    NeverFree
    BalanceIsLedger
    GoneLeavesNothing
    UnfinishedCanResume
    SearchedIsThere
    UncrossedIsHeaviest
    PublishedOnce
    OneAttendanceRow
    RunMirrors
    HoldsItsSignIn
    NeverThrownOut
    SingleUse
    KeepsItsFingerprint
PROPERTIES
    PaysOnlyOnApproval
    EndedStaysEnded
