CONSTANTS
    Servers = {s1, s2, s3}
    Sids = {i1, i2}
    MaxJti = 4
    MaxCred = 0
    Tabs = {t1}
    Mobile = TRUE
    Loses = TRUE
    Duplicates = FALSE
SPECIFICATION TabsSpec
SYMMETRY MCSymmetry
CHECK_DEADLOCK FALSE
INVARIANT NeverThrownOut
