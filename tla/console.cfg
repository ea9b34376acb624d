SPECIFICATION Spec
CONSTANTS
    x1 = x1  x2 = x2  d1 = d1  d2 = d2  days = days
    Admins <- TwoAdmins
    BaseFees <- MCFees
    Discounts <- MCDiscounts
    Diagrams = {d1, d2}
    Limits = {0, 2}
    DayTimers = {days}
    LeadTimes = {3, 5}
    Operations <- AllOperations
    MaxUpdates = 3
    MaxFaults = 1
INVARIANT TypeOK
INVARIANT TableDecides
PROPERTY PromotedWasLive
PROPERTY CarriesOneHalf
SYMMETRY Alike
CHECK_DEADLOCK FALSE
