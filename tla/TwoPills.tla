------------------------------ MODULE TwoPills ------------------------------
(***************************************************************************)
(* The two-pills program: players stake on one of two sides of a round,    *)
(* the authority names the winning side, winners share 70% of both pools,  *)
(* and a reserve (NRR) collects 20% and seeds later rounds.                *)
(*                                                                         *)
(* As in AlonsBoxV2 an instruction is one atomic action, enabled exactly   *)
(* when its handler returns Ok.  Instructions of the authority are signed  *)
(* by whoever game.authority names at that time.                           *)
(***************************************************************************)
EXTENDS Lamports, FiniteSets, FiniteSetsExt

CONSTANTS
    Players,
    Keys,                 \* public keys the authority may be
    DEFAULT_KEY,          \* Pubkey::default()
    Tiers,                \* TIER_LOW, TIER_MEDIUM, TIER_HIGH
    Durations,            \* how far ahead create_round may set ends_at
    Gifts,                \* lamports a transfer outside the program may carry
    VAULT_RENT,           \* rent-exempt minimum of the 9-byte vault account
    VAULT_RENT_MINIMUM,   \* the minimum transfer_from_vault leaves
    MIN_NRR_SEED,
    SWEEP_WINDOW,
    MAX_DEPOSITS,         \* 255 in the code
    MAX_U16,              \* u16::MAX, scaled
    LAMPORT_SUPPLY,       \* bound: the vault never holds more than this
    MAX_ROUNDS,           \* bound: rounds created
    LAST_START,           \* bound: no round is created after this time
    MAX_CLOCK             \* bound: the clock stops here

ASSUME PillsAssumption ==
    /\ IsFiniteSet(Players)
    /\ Tiers \subseteq Nat \ {0} /\ Gifts \subseteq Nat
    /\ Durations \subseteq Nat \ {0}
    /\ VAULT_RENT \in Nat /\ VAULT_RENT_MINIMUM \in Nat
    /\ VAULT_RENT_MINIMUM <= VAULT_RENT /\ 2 * VAULT_RENT_MINIMUM <= MAX_U64
    /\ MIN_NRR_SEED \in Nat /\ SWEEP_WINDOW \in Nat
    /\ MAX_DEPOSITS \in Nat \ {0} /\ MAX_U16 \in Nat \ {0}
    /\ LAMPORT_SUPPLY \in Nat /\ MAX_ROUNDS \in Nat
    /\ LAST_START \in Nat /\ MAX_CLOCK \in Nat

VARIABLES
    clock,      \* Clock::unix_timestamp
    game,       \* PillsGameState
    rounds,     \* PillsRound accounts, by round id
    positions,  \* PlayerPosition accounts; side = "None" when there is none
    vault,      \* lamports of the PillsVault account
    received,   \* lamports each player was paid by claim for each round
    gifts       \* lamports sent to the vault outside the program

vars == <<clock, game, rounds, positions, vault, received, gifts>>

RoundIds == 1..MAX_ROUNDS
Sides == {"A", "B"}
Other(side) == IF side = "A" THEN "B" ELSE "A"

TREASURY_BPS == 1000
NRR_BPS == 2000

NoRound == [status |-> "None", pool |-> [s \in Sides |-> 0],
            players |-> [s \in Sides |-> 0], seed |-> 0, winner |-> "None",
            ends_at |-> 0, settled_at |-> 0, total_claimed |-> 0,
            treasury_paid |-> 0, nrr_returned |-> 0, swept |-> FALSE]

NoPosition == [side |-> "None", total_deposited |-> 0, num_deposits |-> 0,
               claimed |-> FALSE]

Is(r, status) == rounds[r].status = status

-----------------------------------------------------------------------------
(* What the handlers compute and check.  A definition named Fault... is    *)
(* the one below it with a plausible mistake in it; no specification uses  *)
(* it.                                                                     *)

\* The reserve a new round leaves behind: an odd lamport at most, when there
\* is enough to seed.
HalfSeed == IF game.nrr_balance >= MIN_NRR_SEED THEN game.nrr_balance \div 2 ELSE 0
FaultHalfSpent == game.nrr_balance - HalfSeed
ReserveAfterSeeding == game.nrr_balance - 2 * HalfSeed

\* A player stays on the side of the first deposit.
FaultNoSideLock(r, p, side) == side \in Sides
SideFree(r, p, side) == positions[r][p].side \in {"None", side}

\* The deposit counter is a u8 that must not overflow.
FaultOneTooMany(r, p) == positions[r][p].num_deposits <= MAX_DEPOSITS
MayDeposit(r, p) == positions[r][p].num_deposits < MAX_DEPOSITS

\* Both pools, seeds included, and how settle, claim and sweep split them.
TotalPool(r) == rounds[r].pool["A"] + rounds[r].pool["B"]
TreasuryAmount(r) == BpsCut(TotalPool(r), TREASURY_BPS)
NrrAmount(r) == BpsCut(TotalPool(r), NRR_BPS)
WinnersShare(r) == TotalPool(r) - TreasuryAmount(r) - NrrAmount(r)
SplitFits(r) == Fits(TotalPool(r)) /\ BpsFits(TotalPool(r), NRR_BPS)

\* One winner's payout, computed in u128 and cut back to u64.
FaultStakeBack(r, p) ==
    positions[r][p].total_deposited
      + (positions[r][p].total_deposited * WinnersShare(r))
            \div rounds[r].pool[rounds[r].winner]
FaultOfTheRest(r, p) ==
    (positions[r][p].total_deposited * (WinnersShare(r) - rounds[r].total_claimed))
        \div rounds[r].pool[rounds[r].winner]
Payout(r, p) ==
    LET winner_pool == rounds[r].pool[rounds[r].winner]
    IN  IF winner_pool > 0
        THEN ((positions[r][p].total_deposited * WinnersShare(r)) \div winner_pool)
                 % (MAX_U64 + 1)
        ELSE 0

\* transfer_from_vault: nothing to check when nothing moves.
RuntimeAccepts(lamports) == lamports >= VAULT_RENT
VaultCanPay(amount) ==
    \/ amount = 0
    \/ /\ Fits(amount + VAULT_RENT_MINIMUM)
       /\ vault >= amount + VAULT_RENT_MINIMUM
       /\ RuntimeAccepts(vault - amount)

\* A position on the winning side of a settled round that was not paid yet.
Unpaid(r, p) ==
    /\ Is(r, "Settled")
    /\ positions[r][p].side = rounds[r].winner
    /\ ~positions[r][p].claimed

\* Everything claim asks for.
Claimable(r, p) ==
    /\ Unpaid(r, p)
    /\ ~rounds[r].swept
    /\ SplitFits(r)
    /\ Fits(rounds[r].total_claimed + Payout(r, p))
    /\ VaultCanPay(Payout(r, p))

\* What close_position asks for: a loser has nothing to claim first.
FaultClaimedOnly(r, p) ==
    /\ Is(r, "Settled") \/ Is(r, "Expired")
    /\ positions[r][p].side # "None" /\ positions[r][p].claimed
PositionClosable(r, p) ==
    /\ Is(r, "Settled") \/ Is(r, "Expired")
    /\ positions[r][p].side # "None"
    /\ positions[r][p].side # rounds[r].winner \/ positions[r][p].claimed

\* expire takes only rounds without real players.
FaultEmptyPools(r) == \A s \in Sides : rounds[r].pool[s] = 0
NoPlayers(r) == \A s \in Sides : rounds[r].players[s] = 0

\* The sweep window runs from the settlement.
FaultFromEnd(r) == clock > rounds[r].ends_at + SWEEP_WINDOW
WindowOver(r) ==
    rounds[r].settled_at > 0 /\ clock > rounds[r].settled_at + SWEEP_WINDOW

-----------------------------------------------------------------------------
Init ==
    /\ clock = 0
    /\ game = [initialized |-> FALSE, authority |-> DEFAULT_KEY,
               nrr_balance |-> 0, round_counter |-> 0]
    /\ rounds = [r \in RoundIds |-> NoRound]
    /\ positions = [r \in RoundIds |-> [p \in Players |-> NoPosition]]
    /\ vault = 0
    /\ received = [r \in RoundIds |-> [p \in Players |-> 0]]
    /\ gifts = 0

\* initialize: signed by key, and nobody signs for the default key.
Initialize(key) ==
    /\ ~game.initialized
    /\ key # DEFAULT_KEY
    /\ game' = [initialized |-> TRUE, authority |-> key, nrr_balance |-> 0,
                round_counter |-> 0]
    /\ vault' = VAULT_RENT
    /\ UNCHANGED <<clock, rounds, positions, received, gifts>>

\* transfer_authority: to any key but the default one, at once.
TransferAuthority(key) ==
    /\ game.initialized
    /\ key # DEFAULT_KEY
    /\ game' = [game EXCEPT !.authority = key]
    /\ UNCHANGED <<clock, rounds, positions, vault, received, gifts>>

\* create_round: the next id; the reserve is spent on equal seeds.
CreateRound(duration) ==
    LET id == game.round_counter + 1
    IN  /\ game.initialized
        /\ id \in RoundIds /\ clock <= LAST_START
        /\ game' = [game EXCEPT !.nrr_balance = ReserveAfterSeeding,
                                !.round_counter = id]
        /\ rounds' = [rounds EXCEPT ![id] =
              [NoRound EXCEPT !.status = "Active",
                  !.pool = [s \in Sides |-> HalfSeed], !.seed = HalfSeed,
                  !.ends_at = clock + duration]]
        /\ UNCHANGED <<clock, positions, vault, received, gifts>>

\* deposit: before the end, a valid tier, on the player's own side.
Deposit(r, p, side, amount) ==
    LET position == positions[r][p]
        first == position.side = "None"
        pool == rounds[r].pool[side] + amount
    IN  /\ Is(r, "Active")
        /\ clock < rounds[r].ends_at
        /\ SideFree(r, p, side)
        /\ MayDeposit(r, p)
        /\ vault + amount <= LAMPORT_SUPPLY
        /\ Fits(position.total_deposited + amount) /\ Fits(pool)
        /\ vault' = vault + amount
        /\ positions' = [positions EXCEPT ![r][p] =
              [position EXCEPT !.side = IF first THEN side ELSE @,
                               !.total_deposited = @ + amount,
                               !.num_deposits = @ + 1]]
        /\ rounds' = [rounds EXCEPT
              ![r].pool[side] = pool,
              ![r].players[side] = IF first /\ @ < MAX_U16 THEN @ + 1 ELSE @]
        /\ UNCHANGED <<clock, game, received, gifts>>

\* settle: after the end, for a side that has players.
Settle(r, side) ==
    /\ Is(r, "Active")
    /\ clock >= rounds[r].ends_at
    /\ rounds[r].players[side] > 0
    /\ SplitFits(r)
    /\ Fits(game.nrr_balance + NrrAmount(r))
    /\ VaultCanPay(TreasuryAmount(r))
    /\ vault' = vault - TreasuryAmount(r)
    /\ game' = [game EXCEPT !.nrr_balance = @ + NrrAmount(r)]
    /\ rounds' = [rounds EXCEPT ![r] =
          [@ EXCEPT !.status = "Settled", !.winner = side, !.total_claimed = 0,
                    !.treasury_paid = TreasuryAmount(r),
                    !.nrr_returned = NrrAmount(r), !.settled_at = clock]]
    /\ UNCHANGED <<clock, positions, received, gifts>>

\* expire: after the end, nobody played; the seeds return to the reserve.
Expire(r) ==
    LET seeds == 2 * rounds[r].seed
    IN  /\ Is(r, "Active")
        /\ clock >= rounds[r].ends_at
        /\ NoPlayers(r)
        /\ Fits(game.nrr_balance + seeds)
        /\ game' = [game EXCEPT !.nrr_balance = @ + seeds]
        /\ rounds' = [rounds EXCEPT ![r].status = "Expired"]
        /\ UNCHANGED <<clock, positions, vault, received, gifts>>

\* claim: by the player or by the authority.
Claim(r, p) ==
    /\ Claimable(r, p)
    /\ vault' = vault - Payout(r, p)
    /\ positions' = [positions EXCEPT ![r][p].claimed = TRUE]
    /\ rounds' = [rounds EXCEPT ![r].total_claimed = @ + Payout(r, p)]
    /\ received' = [received EXCEPT ![r][p] = @ + Payout(r, p)]
    /\ UNCHANGED <<clock, game, gifts>>

\* sweep_unclaimed: the rest of the winners' share goes to the reserve.
SweepUnclaimed(r) ==
    LET unclaimed == WinnersShare(r) - rounds[r].total_claimed
    IN  /\ Is(r, "Settled")
        /\ ~rounds[r].swept
        /\ WindowOver(r)
        /\ SplitFits(r)
        /\ unclaimed >= 0
        /\ Fits(game.nrr_balance + unclaimed)
        /\ game' = [game EXCEPT !.nrr_balance = @ + unclaimed]
        /\ rounds' = [rounds EXCEPT ![r].swept = TRUE]
        /\ UNCHANGED <<clock, positions, vault, received, gifts>>

\* close_position: by the player; a winner must have claimed.
ClosePosition(r, p) ==
    /\ PositionClosable(r, p)
    /\ positions' = [positions EXCEPT ![r][p] = NoPosition]
    /\ UNCHANGED <<clock, game, rounds, vault, received, gifts>>

\* A plain system transfer to the vault's address.  It also stands for lamports
\* that lay there before initialize, and for a payment to the vault itself.
Gift(amount) ==
    /\ game.initialized
    /\ vault + amount <= LAMPORT_SUPPLY
    /\ vault' = vault + amount
    /\ gifts' = gifts + amount
    /\ UNCHANGED <<clock, game, rounds, positions, received>>

Tick ==
    /\ clock < MAX_CLOCK
    /\ clock' = clock + 1
    /\ UNCHANGED <<game, rounds, positions, vault, received, gifts>>

Next ==
    \/ \E k \in Keys : Initialize(k)
    \/ \E k \in Keys : TransferAuthority(k)
    \/ \E d \in Durations : CreateRound(d)
    \/ \E r \in RoundIds, p \in Players, s \in Sides, a \in Tiers : Deposit(r, p, s, a)
    \/ \E r \in RoundIds, s \in Sides : Settle(r, s)
    \/ \E r \in RoundIds : Expire(r)
    \/ \E r \in RoundIds, p \in Players : Claim(r, p)
    \/ \E r \in RoundIds : SweepUnclaimed(r)
    \/ \E r \in RoundIds, p \in Players : ClosePosition(r, p)
    \/ \E a \in Gifts : Gift(a)
    \/ Tick

Spec == Init /\ [][Next]_vars

\* Time passes and the authority finishes its rounds; nobody else can, this
\* program has no permissionless exit.  It also claims for its winners
\* ("auto-claim") and sweeps a round only after them, and players close their
\* positions.
SweepsLast ==
    \A r \in RoundIds : ~rounds[r].swept /\ rounds'[r].swept
        => \A p \in Players : ~Unpaid(r, p)

AutoClaimSpec ==
    /\ Init /\ [][Next /\ SweepsLast]_vars
    /\ WF_vars(Tick)
    /\ \A r \in RoundIds :
          /\ WF_vars(\E s \in Sides : Settle(r, s)) /\ WF_vars(Expire(r))
          /\ WF_vars(SweepUnclaimed(r) /\ SweepsLast)
          /\ \A p \in Players : WF_vars(Claim(r, p)) /\ WF_vars(ClosePosition(r, p))

-----------------------------------------------------------------------------
(* Properties.                                                             *)

GameType == [initialized : BOOLEAN, authority : Keys \cup {DEFAULT_KEY},
             nrr_balance : Nat, round_counter : Nat]

RoundType == [status : {"None", "Active", "Settled", "Expired"},
              pool : [Sides -> Nat], players : [Sides -> 0..MAX_U16],
              seed : Nat, winner : Sides \cup {"None"}, ends_at : Nat,
              settled_at : Nat, total_claimed : Nat, treasury_paid : Nat,
              nrr_returned : Nat, swept : BOOLEAN]

PositionType == [side : Sides \cup {"None"}, total_deposited : Nat,
                 num_deposits : 0..MAX_DEPOSITS, claimed : BOOLEAN]

\* The shape of the accounts: the counters stay within their one and two bytes, and
\* no u64 is ever assigned a negative number.
TypeOK ==
    /\ clock \in Nat
    /\ game \in GameType
    /\ rounds \in [RoundIds -> RoundType]
    /\ positions \in [RoundIds -> [Players -> PositionType]]
    /\ vault \in Nat
    /\ received \in [RoundIds -> [Players -> Nat]]
    /\ gifts \in Nat

\* Lamports of the vault that belong to round r.
Held(r) ==
    CASE Is(r, "Active") -> TotalPool(r)
      [] Is(r, "Settled") /\ ~rounds[r].swept -> WinnersShare(r) - rounds[r].total_claimed
      [] OTHER -> 0

Pots == [r \in RoundIds |-> Held(r)]

\* Every lamport of the vault is accounted for: rent, gifts, the reserve, the
\* pools of Active rounds and what winners may still claim.  Unlike in
\* alons-box-v2 this holds for overlapping rounds too, since create_round takes
\* the seeds out of the reserve.
Conservation ==
    game.initialized =>
        vault = VAULT_RENT + gifts + game.nrr_balance + SumTo(Pots, MAX_ROUNDS)

\* What the vault does is what a prize pool promises, overlapping rounds
\* included: seeds and stakes make a round's pot, winners are paid from it, and
\* the sweep releases the rest (create_round, settle, expire, claim, sweep).
Phases == [r \in RoundIds |->
              CASE Is(r, "None") -> "Unused"
                [] Is(r, "Active") -> "Open"
                [] OTHER -> "Resolved"]
VaultHeld == IF game.initialized THEN vault - VAULT_RENT - gifts ELSE 0

Prize == INSTANCE PrizePool
            WITH NumRounds <- MAX_ROUNDS,
                 held <- VaultHeld, reserve <- game.nrr_balance, pots <- Pots,
                 phase <- Phases

\* The program implements PrizePool, whatever the authority does.
ImplementsPrizePool == Prize!PoolSpec

\* The claims of a round never exceed the winners' share, in any order and with
\* every payout rounded on its own, so that sweep's checked_sub succeeds.
ClaimsWithinShare ==
    \A r \in RoundIds : Is(r, "Settled") => rounds[r].total_claimed <= WinnersShare(r)

PlayerSum(f) == SumFunctionOnSet(f, Players)

\* The stakes on one side of a round.
OnSide(r, s) ==
    [p \in Players |-> IF positions[r][p].side = s
                       THEN positions[r][p].total_deposited ELSE 0]

\* While a round is Active its pools are its seeds and the deposits of the
\* positions on each side, and its player counts are those of its positions (up
\* to where the u16 saturates): otherwise settle could name a side nobody is on,
\* or the shares of a side would not add up.
PositionsBackPools ==
    \A r \in RoundIds : Is(r, "Active") => \A s \in Sides :
        LET on == {p \in Players : positions[r][p].side = s}
        IN  /\ rounds[r].pool[s] = rounds[r].seed + PlayerSum(OnSide(r, s))
            /\ rounds[r].players[s] = Min({Cardinality(on), MAX_U16})

\* The order of claims does not matter: of two paid winners the one who staked
\* more was paid no less, and equal stakes were paid the same.
PaidByStake ==
    \A r \in RoundIds : \A p, q \in Players :
        /\ positions[r][p].claimed /\ positions[r][q].claimed
        /\ positions[r][p].total_deposited <= positions[r][q].total_deposited
        => received[r][p] <= received[r][q]

\* For the whole window after the settlement nothing can keep an unpaid winner
\* from claiming: not the sweep, not other claims, not a later round's payouts.
ClaimWindowKept ==
    \A r \in RoundIds, p \in Players :
        Unpaid(r, p) /\ clock <= rounds[r].settled_at + SWEEP_WINDOW => Claimable(r, p)

\* Every round is settled or expired at last, and a settled one is swept: no
\* seed, side or rounding dust blocks either for ever.  (A round settled so late
\* that the bound MAX_CLOCK cuts off its window is left out.)
RoundsGetFinished ==
    \A r \in RoundIds :
        /\ Is(r, "Active") ~> (Is(r, "Expired") \/ Is(r, "Settled"))
        /\ Is(r, "Settled") /\ rounds[r].settled_at + SWEEP_WINDOW < MAX_CLOCK
              ~> rounds[r].swept

\* Every position is closed at last and its rent returned, a winner's after it
\* was paid: which the sweep would prevent, since it ends the claims and
\* close_position asks a winner to have claimed.
PositionsGetClosed ==
    \A r \in RoundIds : \A p \in Players :
        positions[r][p].side # "None" ~> positions[r][p].side = "None"

\* README: "Winners receive: full stake back + proportional share".
WinnersKeepStake ==
    \A r \in RoundIds, p \in Players :
        positions[r][p].claimed => received[r][p] >= positions[r][p].total_deposited
=============================================================================
