SPECIFICATION Spec
CONSTANTS
    a1 = a1
    a2 = a2
    c1 = c1
    c2 = c2
    d1 = d1
    d2 = d2
    None = None
    Account = {a1, a2}
    Conn = {c1, c2}
    Device = {d1, d2}
    DeviceOf <- TwoDevices
    ProvenLists <- Lists
    Req = {r1}
    Qry = {q1}
SYMMETRY Exchange
INVARIANTS
    TypeOK
    BindingsExact
    WaitersExact
    AnsweredByController
    WithdrawnWhereSent
    NoDuplicateSend
PROPERTIES
    ImplementsRouter
CONSTRAINT
    OneCall
