SPECIFICATION Spec
CONSTANTS
    None = None
    Key = {k1, k2}
    Account = {a1, a2}
    Hash = {h1, h2, h3}
    Origin = {o1}
    Version = {1, 2}
    Blob = {b1, b2}
    SharedSecrets = FALSE
INVARIANTS
    NoDanglingSecret
    OneSecretPerKey
PROPERTY
    ImplementsSqlite
