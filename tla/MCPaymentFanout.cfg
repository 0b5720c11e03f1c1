SPECIFICATION Spec
CONSTANTS
    None = None
    Device = {d1, d2}
    Nonce = {n1}
    SignOnly = {}
    Req = {r1}
    Qry = {}
INVARIANT
    FanoutExecutesOnce
CHECK_DEADLOCK FALSE
