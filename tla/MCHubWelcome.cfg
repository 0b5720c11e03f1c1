SPECIFICATION Spec
CONSTANTS
    a1 = a1
    a2 = a2
    c1 = c1
    c2 = c2
    d1 = d1
    d2 = d2
    None = None
    Account = {a1}
    Conn = {c1}
    Device = {d1, d2}
    DeviceOf <- OneConn
    ProvenLists <- ShortLists
    Req = {r1}
    Qry = {}
INVARIANT
    WelcomeFirst
