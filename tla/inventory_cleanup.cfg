\* The clean-up event returns one reservation in two consecutive runs.
CONSTANTS
    Callers = {c1, c2, c3}
    Large = c3
    Quantity <- MCQuantity
    Available = 2
    Reserved = 0
    Hold = 1
    MaxTime = 4
    SignedSubtraction = TRUE
SPECIFICATION Spec
CHECK_DEADLOCK FALSE
INVARIANTS ReservedBacked
