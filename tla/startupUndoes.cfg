SPECIFICATION Spec
CONSTANTS
    x1 = x1  x2 = x2  d1 = d1  d2 = d2  days = days
    Admins <- OneAdmin
    BaseFees <- MCFees
    Discounts <- MCDiscounts
    Diagrams = {d1, d2}
    Limits = {2}
    DayTimers = {days}
    LeadTimes = {3, 5}
    Operations <- ProcessOperations
    MaxUpdates = 1
    MaxFaults = 1
PROPERTY StartupKeepsProcess
CHECK_DEADLOCK FALSE
