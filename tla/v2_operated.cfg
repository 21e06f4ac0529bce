SPECIFICATION OperatedSpec
CONSTANTS
    Players = {p1, p2}
    Reveals <- MCReveals
    Commits <- MCCommits
    MAX_REVEAL_LEN = 2
    EntryAmounts = {21}
    Donations = {10}
    Gifts = {10}
    Configs <- ShortRounds
    VAULT_RENT = 2
    RENT_CHECK = 1
    BASE_ENTRY_FEE = 21
    ENTRY_FEE_INCREMENT = 4
    PRICE_INTERVAL_SECS = 1
    EMERGENCY_GRACE_SECS = 0
    LAMPORT_SUPPLY = 43
    MAX_ROUNDS = 2
    MAX_YES = 2
    LAST_START = 0
    MAX_CLOCK = 2
    MAX_U64 = 2000000000
SYMMETRY Symmetry
INVARIANTS
    ClaimedWithinPool
    Solvent
    SnapshotCovered
    Conservation
PROPERTIES
    ImplementsPrizePool
CHECK_DEADLOCK FALSE
