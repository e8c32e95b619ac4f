CONSTANTS
    Reviewers = {v1, v2}
    Orders = {o1, o2}
    Totals = {200, 300}
    Adjustments <- MCAdjustments
    MaxCharges = 2
    MaxGiven = 1
    MaxAdjusts = 1
SPECIFICATION PurchasesSpec
CHECK_DEADLOCK FALSE
SYMMETRY MCSymmetry
INVARIANT ChargedOncePerApproval
