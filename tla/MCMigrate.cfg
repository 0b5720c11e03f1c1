SPECIFICATION MigrateSpec
CONSTANTS
    None = None
    Account = {a1, a2}
    Key = {k1, k2}
    Hash = {h1, h2}
    Origin = {o1}
    Version = {1, 2}
    Blob = {b1}
    Runs = 2
    Edits = 4
SYMMETRY Alike
INVARIANTS
    KeysAreCopied
    PoliciesAreNewest
CHECK_DEADLOCK FALSE
