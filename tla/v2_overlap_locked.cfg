SPECIFICATION UnattendedSpec
CONSTANTS
    Players = {p1}
    Reveals <- MCReveals
    Commits <- MCCommits
    MAX_REVEAL_LEN = 1
    EntryAmounts = {120}
    Donations = {100}
    Gifts = {}
    Configs <- ShortRounds
    VAULT_RENT = 2
    RENT_CHECK = 1
    BASE_ENTRY_FEE = 21
    ENTRY_FEE_INCREMENT = 4
    PRICE_INTERVAL_SECS = 1
    EMERGENCY_GRACE_SECS = 0
    LAMPORT_SUPPLY = 225
    MAX_ROUNDS = 4
    MAX_YES = 0
    LAST_START = 0
    MAX_CLOCK = 2
    MAX_U64 = 2000000000
PROPERTIES
    RoundsGetResolved
CHECK_DEADLOCK FALSE
