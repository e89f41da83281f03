\* Two payouts, two calls that overlap and a projection reset.
SPECIFICATION Spec
CONSTANTS
    Ids = {p1, p2}
    Keys = {k1}
    Requests = {r1, r2}
    Deliveries = {"SERVICE", "MANUAL"}
    Entitlement = 2
    MaxNonce = 1
    MaxOutside = 0
    MaxResets = 1
SYMMETRY Symmetry
INVARIANTS ReleaseProjectedOnce NoNonceGap
CHECK_DEADLOCK FALSE
