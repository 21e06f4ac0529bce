SPECIFICATION Spec
CONSTANTS
    Players = {p1, p2}
    Keys = {k1}
    DEFAULT_KEY = default
    Tiers = {11}
    Durations = {1, 2}
    Gifts = {5}
    VAULT_RENT = 2
    VAULT_RENT_MINIMUM = 1
    MIN_NRR_SEED = 3
    SWEEP_WINDOW = 1
    MAX_DEPOSITS = 1
    MAX_U16 = 100
    LAMPORT_SUPPLY = 45
    MAX_ROUNDS = 2
    LAST_START = 1
    MAX_CLOCK = 5
    MAX_U64 = 2000000000
SYMMETRY Symmetry
INVARIANTS
    Conservation
    ClaimsWithinShare
    ClaimWindowKept
PROPERTIES
    ImplementsPrizePool
CHECK_DEADLOCK FALSE
