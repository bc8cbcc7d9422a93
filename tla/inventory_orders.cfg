\* Three orders compete for two pieces while reservations expire; one more piece is
\* reserved from before.  Nothing is
\* left to do once the clock is at its bound and every order has its stock.
CONSTANTS
    Callers = {c1, c2, c3}
    Large = c3
    Quantity <- MCQuantity
    Available = 2
    Reserved = 1
    Hold = 1
    MaxTime = 4
    SignedSubtraction = TRUE
SPECIFICATION Spec
CHECK_DEADLOCK FALSE
INVARIANTS TypeOK SuccessIsTaken OneWinnerPerVersion CheckStillHolds LogExplains
