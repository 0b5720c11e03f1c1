SPECIFICATION Spec
CONSTANTS
    None = None
    Device = {d1, d2}
    Nonce = {n1}
    SignOnly = {}
    Req = {r1, r2}
    Qry = {}
INVARIANT
    RetryReturnsOriginal
CHECK_DEADLOCK FALSE
