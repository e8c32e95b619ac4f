CONSTANTS
    Desks = {k1, k2}
    Requests = {q1, q2}
    Days = {e1, e2}
    Forms <- MCForms
    HandStatuses = {"present"}
    MaxTransactions = 4
SPECIFICATION AttendanceSpec
CHECK_DEADLOCK FALSE
INVARIANTS FormIsHeaviest
