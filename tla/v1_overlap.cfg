SPECIFICATION Spec
CONSTANTS
    Players = {p1}
    Commits <- MCCommits
    Reveals <- MCReveals
    MAX_REVEAL_LEN = 1
    Amounts = {21}
    Gifts = {}
    Leftovers = {20}
    EndTimes = {1}
    GRACE_SECS = 1
    MAX_I64 = 4
    VAULT_RENT = 2
    LAMPORT_SUPPLY = 44
    MAX_ROUNDS = 3
    MAX_CLOCK = 3
    MAX_U64 = 2000000000
INVARIANTS
    TypeOK
    DepositsBackTotal
PROPERTIES
    ResolvedForGood
CHECK_DEADLOCK FALSE
