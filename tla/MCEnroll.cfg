SPECIFICATION EnrollSpec
CONSTANTS
    alice = alice
    bob = bob
    nanoA = nanoA
    xrbA = xrbA
    nanoB = nanoB
    broken = broken
    c1 = c1
    c2 = c2
    None = None
    Account = {nanoA, xrbA, nanoB, broken}
    KeyOf <- MCKeyOf
    Agent = {alice, bob}
    Holds <- MCHolds
    Conn = {c1, c2}
    AgentOf <- MCAgentOf
    Hellos <- MCHellos
    Nonce = {1, 2}
    L = 127
    Cofactor = 8
    TopBit = 64
    PrivateKey = {1, 2}
    KeyHash <- MCKeyHash
    Hash <- MCHash
    ScalarBytes <- Scalars
    authDomain = 7
INVARIANTS
    ProvenIsHeld
    SignedVerifies
    OneEncoding
