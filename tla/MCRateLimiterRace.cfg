SPECIFICATION Spec
CONSTANTS
    Proc = {p1, p2}
    Key = {k1}
    Limiter = {l1, l2, l3}
    Rate = 1
    Burst = 2
    TTL = 2
    None = None
INVARIANT
    NeverExceedsRate
