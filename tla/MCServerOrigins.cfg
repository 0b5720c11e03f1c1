SPECIFICATION ServerSpec
CONSTANTS
    c1 = c1
    c2 = c2
    d1 = d1
    h1 = h1
    h2 = h2
    o1 = o1
    None = None
    Conn = {c1}
    Device = {d1}
    DeviceOf <- SameDevice
    Account = {a1, a2}
    Key = {k1, k2}
    Hash = {h1, h2}
    Origin = {o1}
    Version = {1}
    Blob = {b1}
    Req = {}
    Qry = {q1}
    HttpCall <- OriginCalls
INVARIANT
    OriginsArePerKey
