SPECIFICATION HousekeptSpec
CONSTANTS
    Players = {p1, p2}
    Reveals <- MCReveals
    Commits <- AnyCommits
    MAX_REVEAL_LEN = 2
    EntryAmounts = {21, 25}
    Donations = {}
    Gifts = {}
    Configs <- LongRounds
    VAULT_RENT = 2
    RENT_CHECK = 1
    BASE_ENTRY_FEE = 21
    ENTRY_FEE_INCREMENT = 4
    PRICE_INTERVAL_SECS = 1
    EMERGENCY_GRACE_SECS = 0
    LAMPORT_SUPPLY = 38
    MAX_ROUNDS = 2
    MAX_YES = 2
    LAST_START = 0
    MAX_CLOCK = 3
    MAX_U64 = 124000
PROPERTIES
    RoundsGetResolved
    ResolvedRoundsGetClosed
    AccountsGetClosed
CHECK_DEADLOCK FALSE
