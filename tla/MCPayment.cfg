SPECIFICATION Spec
CONSTANTS
    None = None
    Device = {d1, d2}
    Nonce = {n1, n2}
    SignOnly = {n2}
    Req = {r1, r2}
    Qry = {q1}
SYMMETRY Alike
INVARIANTS
    OncePerDevice
    AnswersAreTrue
    RetrySameDevice
    LostOnlyElsewhere
CHECK_DEADLOCK FALSE
