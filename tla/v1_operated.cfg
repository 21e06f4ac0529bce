SPECIFICATION HousekeptSpec
CONSTANTS
    Players = {p1}
    Commits <- MCCommits
    Reveals <- MCReveals
    MAX_REVEAL_LEN = 1
    Amounts = {21}
    Gifts = {3}
    Leftovers = {20}
    EndTimes = {1, 2}
    GRACE_SECS = 1
    MAX_I64 = 5
    VAULT_RENT = 2
    LAMPORT_SUPPLY = 47
    MAX_ROUNDS = 2
    MAX_CLOCK = 4
    MAX_U64 = 2000000000
INVARIANTS
    Conservation
PROPERTIES
    RoundsGetResolved
    DepositsGetClosed
    ExpiryKeepsRollover
    ImplementsPrizePool
CHECK_DEADLOCK FALSE
