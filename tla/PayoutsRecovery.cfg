\* One payout by either delivery, an equal release made outside, and a reset.
SPECIFICATION FairSpec
CONSTANTS
    Ids = {p1}
    Keys = {k1}
    Requests = {r1}
    Deliveries = {"SERVICE", "MANUAL"}
    Entitlement = 2
    MaxNonce = 2
    MaxOutside = 1
    MaxResets = 1
INVARIANT GivenUpReleasesNothing
PROPERTIES ReleasedPayoutSettles PreparationEnds
CHECK_DEADLOCK FALSE
