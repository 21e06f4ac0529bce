SPECIFICATION Spec
CONSTANTS
    Players = {p1, p2, p3}
    Keys = {k1, k2, default}
    DEFAULT_KEY = default
    Tiers = {11, 33}
    Durations = {1}
    Gifts = {}
    VAULT_RENT = 2
    VAULT_RENT_MINIMUM = 1
    MIN_NRR_SEED = 3
    SWEEP_WINDOW = 1
    MAX_DEPOSITS = 2
    MAX_U16 = 2
    LAMPORT_SUPPLY = 140
    MAX_ROUNDS = 1
    LAST_START = 0
    MAX_CLOCK = 4
    MAX_U64 = 2000000000
SYMMETRY Symmetry
INVARIANTS
    TypeOK
    PositionsBackPools
    PaidByStake
CHECK_DEADLOCK FALSE
