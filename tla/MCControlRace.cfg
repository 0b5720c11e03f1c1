SPECIFICATION ControlSpec
CONSTANTS
    c1 = c1
    c2 = c2
    c3 = c3
    a1 = a1
    a2 = a2
    a3 = a3
    k1 = k1
    h1 = h1
    h2 = h2
    o1 = o1
    b1 = b1
    b2 = b2
    None = None
    Conn = {c1, c2}
    Account = {a1, a2, a3}
    Key = {k1}
    Hash = {h1, h2}
    Origin = {o1}
    Version = {1, 2}
    Blob = {b1, b2}
    AccountsOf <- OppositeOrders
    Message <- RaceMessages
    Faults = FALSE
INVARIANT
    NotFoundIsHonest
