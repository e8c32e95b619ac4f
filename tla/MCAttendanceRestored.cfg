CONSTANTS
    Desks = {k1}
    Requests = {q1, q2}
    Days = {e1, e2}
    Forms <- MCForms
    HandStatuses = {"present"}
    MaxTransactions = 6
SPECIFICATION QuietSpec
CHECK_DEADLOCK FALSE
PROPERTY ReleaseRestores
