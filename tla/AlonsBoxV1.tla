----------------------------- MODULE AlonsBoxV1 -----------------------------
(***************************************************************************)
(* The alons-box program, version 1: one vault, one account per round and  *)
(* one per depositor of a round.  create_round copies the rollover into    *)
(* the round; settle, expire and emergency_expire assign the rollover      *)
(* anew, from the round's copy.                                            *)
(*                                                                         *)
(* The program was deployed once with a game state that had no rollover    *)
(* field.  The new code cannot load such an account: every instruction     *)
(* that names the game state is refused until migrate has run, and only    *)
(* deposit, which does not name it, goes on.                               *)
(*                                                                         *)
(* As in AlonsBoxV2 an instruction is one atomic action, enabled exactly   *)
(* when its handler returns Ok.                                            *)
(***************************************************************************)
EXTENDS Lamports, CommitReveal, FiniteSets, Functions

CONSTANTS
    Players,
    Commits,              \* what create_round may be given as commit_hash
    Amounts,              \* lamports a deposit may carry, 0 included
    Gifts,                \* lamports a transfer outside the program may carry
    Leftovers,            \* lamports an old deployment may leave in the vault
    EndTimes,             \* ends_at values create_round may be given
    GRACE_SECS,           \* 86400 in the code
    MAX_I64,              \* i64::MAX, scaled
    VAULT_RENT,           \* rent-exempt minimum of the 9-byte vault account
    LAMPORT_SUPPLY,       \* bound: the vault never holds more than this
    MAX_ROUNDS,           \* bound: rounds created
    MAX_CLOCK             \* bound: the clock stops here

ASSUME V1Assumption ==
    /\ IsFiniteSet(Players)
    /\ Amounts \subseteq Nat /\ Gifts \subseteq Nat /\ Leftovers \subseteq Nat
    /\ EndTimes \subseteq 0..MAX_I64
    /\ GRACE_SECS \in Nat /\ MAX_I64 \in Nat
    /\ VAULT_RENT \in Nat \ {0} /\ LAMPORT_SUPPLY \in Nat
    /\ MAX_ROUNDS \in Nat \ {0} /\ MAX_CLOCK \in 0..MAX_I64

VARIABLES
    clock,      \* Clock::unix_timestamp
    game,       \* GameState; layout tells which code's fields it has
    rounds,     \* Round accounts, by round id
    deposits,   \* Deposit accounts of a round: depositor |-> amount
    vault,      \* lamports of the Vault account; 0 when there is none
    untracked   \* lamports of the vault no account of the program speaks of

vars == <<clock, game, rounds, deposits, vault, untracked>>

RoundIds == 1..MAX_ROUNDS
Statuses == {"None", "Active", "Settled", "Expired", "Closed"}

\* A round account that does not exist, before creation or after closing.
NoRound == [status |-> "None", commit_hash |-> <<>>, ends_at |-> 0,
            total_deposits |-> 0, rollover_in |-> 0]

NoDeposits == [p \in {} |-> 0]

Is(r, status) == rounds[r].status = status
NoActiveRound == \A r \in RoundIds : ~Is(r, "Active")

-----------------------------------------------------------------------------
(* Account constraints and what the handlers compute.  A definition named  *)
(* Fault... is the one below it with a plausible mistake in it; no         *)
(* specification uses it.                                                  *)

\* Account<GameState> loads: the account has the new layout.
GameLoads == game.layout = "New"

\* Account<Vault> loads: a vault drained to nothing is gone for good.
VaultLoads == vault > 0

\* constraint = round.status == RoundStatus::Active
FaultUnresolvedOrExpired(r) == Is(r, "Active") \/ Is(r, "Expired")
RoundActive(r) == Is(r, "Active")

\* constraint = round.status != RoundStatus::Active, of an existing account
FaultSettledOnly(r) == Is(r, "Settled")
Closable(r) == Is(r, "Settled") \/ Is(r, "Expired")

\* The length checks and the commit check of settle and expire.
RevealAccepted(r, answer, salt) == MayOpen(rounds[r].commit_hash, answer, salt)

\* The runtime lets a rent-exempt account keep its rent or lose every lamport,
\* which deletes it.
RuntimeAccepts(lamports) == lamports = 0 \/ lamports >= VAULT_RENT

\* Nothing but the runtime asks whether the vault can pay.
FaultUnchecked(amount) == VaultLoads
VaultCanPay(amount) == VaultLoads /\ amount <= vault /\ RuntimeAccepts(vault - amount)

\* The pool of a settled round and its split; the evidence wallets get
\* whatever the authority names, up to their cap.
Pool(r) == rounds[r].total_deposits + rounds[r].rollover_in
WinnerAmount(r) == BpsCut(Pool(r), 5000)
EvidenceCap(r) == BpsCut(Pool(r), 3000)
TreasuryAmount(r) == BpsCut(Pool(r), 500)
FaultUnusedEvidenceLost(r, evidence) ==
    Pool(r) - WinnerAmount(r) - EvidenceCap(r) - TreasuryAmount(r)
SettleRollover(r, evidence) ==
    Pool(r) - WinnerAmount(r) - evidence - TreasuryAmount(r)

\* The split of an expired round, of its deposits only.
BuybackAmount(r) == BpsCut(rounds[r].total_deposits, 4750)
ExpireTreasury(r) == BpsCut(rounds[r].total_deposits, 500)
ExpireOutgoing(r) == BuybackAmount(r) + ExpireTreasury(r)
FaultDepositsOnly(r) == rounds[r].total_deposits - ExpireOutgoing(r)
ExpireRollover(r) ==
    rounds[r].rollover_in + rounds[r].total_deposits - ExpireOutgoing(r)

\* The emergency deadline: ends_at.checked_add(86400), then strictly later.
FaultMilliseconds(r) == clock > rounds[r].ends_at + 1000 * GRACE_SECS
PastGrace(r) ==
    /\ rounds[r].ends_at + GRACE_SECS <= MAX_I64
    /\ clock > rounds[r].ends_at + GRACE_SECS

\* What create_round asks of the end time.
MayEndAt(ends_at) == ends_at > clock

\* The bytes migrate adds.
FaultVaultSurplus == vault - VAULT_RENT
MigratedRollover == 0

-----------------------------------------------------------------------------
NothingDeployed ==
    /\ game = [layout |-> "None", current_round_id |-> 0, rollover_balance |-> 0]
    /\ rounds = [r \in RoundIds |-> NoRound]
    /\ vault = 0
    /\ untracked = 0

\* The deployment that migrate is for (its code is not in the repository): one
\* round was created.  It is closed and left its rollover in the vault, or it
\* is Active and counts the vault's lamports in.
OldDeployment(leftover) ==
    /\ game = [layout |-> "Old", current_round_id |-> 1, rollover_balance |-> 0]
    /\ vault = VAULT_RENT + leftover
    /\ \/ /\ rounds = [[r \in RoundIds |-> NoRound] EXCEPT ![1].status = "Closed"]
          /\ untracked = leftover
       \/ /\ \E c \in Commits, ends_at \in EndTimes :
                rounds = [[r \in RoundIds |-> NoRound] EXCEPT ![1] =
                             [NoRound EXCEPT !.status = "Active", !.commit_hash = c,
                                 !.ends_at = ends_at, !.rollover_in = leftover]]
          /\ untracked = 0

Init ==
    /\ clock = 0
    /\ deposits = [r \in RoundIds |-> NoDeposits]
    /\ NothingDeployed \/ \E leftover \in Leftovers : OldDeployment(leftover)

\* initialize: init refuses an existing game state of either layout.
Initialize ==
    /\ game.layout = "None"
    /\ game' = [layout |-> "New", current_round_id |-> 0, rollover_balance |-> 0]
    /\ vault' = VAULT_RENT
    /\ UNCHANGED <<clock, rounds, deposits, untracked>>

\* create_round: the next id, any end in the future, a copy of the rollover,
\* which also stays in rollover_balance.
CreateRound(commit, ends_at) ==
    LET id == game.current_round_id + 1
    IN  /\ GameLoads
        /\ id \in RoundIds /\ rounds[id].status \in {"None", "Closed"}
        /\ MayEndAt(ends_at)
        /\ game' = [game EXCEPT !.current_round_id = id]
        /\ rounds' = [rounds EXCEPT ![id] =
              [NoRound EXCEPT !.status = "Active", !.commit_hash = commit,
                  !.ends_at = ends_at, !.rollover_in = game.rollover_balance]]
        /\ UNCHANGED <<clock, deposits, vault, untracked>>

\* deposit: any amount, any number of times, also after ends_at and also
\* before migrate.
Deposited(r, p) == IF p \in DOMAIN deposits[r] THEN deposits[r][p] ELSE 0
FaultOverwritten(r, p, amount) == amount
NewDeposit(r, p, amount) == Deposited(r, p) + amount

Deposit(r, p, amount) ==
    LET total == rounds[r].total_deposits + amount
    IN  /\ RoundActive(r) /\ VaultLoads
        /\ vault + amount <= LAMPORT_SUPPLY
        /\ Fits(NewDeposit(r, p, amount)) /\ Fits(total)
        /\ vault' = vault + amount
        /\ deposits' = [deposits EXCEPT ![r] =
              [q \in DOMAIN @ \cup {p} |->
                  IF q = p THEN NewDeposit(r, p, amount) ELSE @[q]]]
        /\ rounds' = [rounds EXCEPT ![r].total_deposits = total]
        /\ UNCHANGED <<clock, game, untracked>>

\* settle: winner, evidence wallets and treasury are paid; the rest replaces
\* the rollover.  Nothing is required of the clock.
Settle(r, answer, salt, evidence) ==
    LET outgoing == WinnerAmount(r) + evidence + TreasuryAmount(r)
    IN  /\ GameLoads /\ RoundActive(r)
        /\ RevealAccepted(r, answer, salt)
        /\ Fits(Pool(r)) /\ BpsFits(Pool(r), 5000)
        /\ evidence <= EvidenceCap(r)
        /\ VaultCanPay(outgoing)
        /\ vault' = vault - outgoing
        /\ game' = [game EXCEPT !.rollover_balance = SettleRollover(r, evidence)]
        /\ rounds' = [rounds EXCEPT ![r].status = "Settled"]
        /\ UNCHANGED <<clock, deposits, untracked>>

\* What expire and emergency_expire have in common.
PayExpired(r) ==
    /\ GameLoads /\ RoundActive(r)
    /\ BpsFits(rounds[r].total_deposits, 4750)
    /\ Fits(ExpireRollover(r)) /\ Fits(Pool(r))
    /\ VaultCanPay(ExpireOutgoing(r))
    /\ vault' = vault - ExpireOutgoing(r)
    /\ game' = [game EXCEPT !.rollover_balance = ExpireRollover(r)]
    /\ rounds' = [rounds EXCEPT ![r].status = "Expired"]
    /\ UNCHANGED <<clock, deposits, untracked>>

\* expire: the authority reveals, nobody won.
Expire(r, answer, salt) == RevealAccepted(r, answer, salt) /\ PayExpired(r)

\* emergency_expire: anyone, a day after the end.
EmergencyExpire(r) == PastGrace(r) /\ PayExpired(r)

\* close_deposit
CloseDeposit(r, p) ==
    /\ GameLoads /\ Closable(r)
    /\ p \in DOMAIN deposits[r]
    /\ deposits' = [deposits EXCEPT ![r] = Restrict(@, DOMAIN @ \ {p})]
    /\ UNCHANGED <<clock, game, rounds, vault, untracked>>

\* close_round: deposit accounts that are still open can no longer be closed.
CloseRound(r) ==
    /\ GameLoads /\ Closable(r)
    /\ rounds' = [rounds EXCEPT ![r] = [NoRound EXCEPT !.status = "Closed"]]
    /\ UNCHANGED <<clock, game, deposits, vault, untracked>>

\* migrate: the old fields stay, the new one is zero; a second call does
\* nothing.
FaultFreshState ==
    [layout |-> "New", current_round_id |-> 0, rollover_balance |-> 0]
MigratedState ==
    [game EXCEPT !.layout = "New", !.rollover_balance = MigratedRollover]

Migrate ==
    /\ game.layout = "Old"
    /\ game' = MigratedState
    /\ UNCHANGED <<clock, rounds, deposits, vault, untracked>>

\* A plain system transfer to the vault's address.  It also stands for lamports
\* that lay there before initialize, and for a payment to the vault itself (the
\* winner and the evidence wallets of settle are any accounts), which comes back.
Gift(amount) ==
    /\ VaultLoads
    /\ vault + amount <= LAMPORT_SUPPLY
    /\ vault' = vault + amount
    /\ untracked' = untracked + amount
    /\ UNCHANGED <<clock, game, rounds, deposits>>

Tick ==
    /\ clock < MAX_CLOCK
    /\ clock' = clock + 1
    /\ UNCHANGED <<game, rounds, deposits, vault, untracked>>

-----------------------------------------------------------------------------
\* The instructions no specification restricts.
Unrestricted ==
    \/ Initialize
    \/ \E r \in RoundIds, p \in Players, a \in Amounts : Deposit(r, p, a)
    \/ \E r \in RoundIds, reveal \in Reveals :
          \E evidence \in 0..EvidenceCap(r) : Settle(r, reveal[1], reveal[2], evidence)
    \/ \E r \in RoundIds, reveal \in Reveals : Expire(r, reveal[1], reveal[2])
    \/ \E r \in RoundIds : EmergencyExpire(r)
    \/ \E r \in RoundIds, p \in Players : CloseDeposit(r, p)
    \/ Migrate
    \/ \E a \in Gifts : Gift(a)
    \/ Tick

\* What the program allows.
Next ==
    \/ \E c \in Commits, ends_at \in EndTimes : CreateRound(c, ends_at)
    \/ \E r \in RoundIds : CloseRound(r)
    \/ Unrestricted

Spec == Init /\ [][Next]_vars

\* The authority creates a round only when no round is Active.
CreateInTurn(commit, ends_at) == NoActiveRound /\ CreateRound(commit, ends_at)

SequentialNext ==
    \/ \E c \in Commits, ends_at \in EndTimes : CreateInTurn(c, ends_at)
    \/ \E r \in RoundIds : CloseRound(r)
    \/ Unrestricted

SequentialSpec == Init /\ [][SequentialNext]_vars

\* The authority migrates, closes the deposits of a resolved round, and the
\* round only after them.  Nothing is assumed of settle and expire: time passes,
\* and somebody calls emergency_expire when it is possible.
CloseRoundLast(r) == DOMAIN deposits[r] = {} /\ CloseRound(r)

HousekeptNext ==
    \/ \E c \in Commits, ends_at \in EndTimes : CreateInTurn(c, ends_at)
    \/ \E r \in RoundIds : CloseRoundLast(r)
    \/ Unrestricted

HousekeptSpec ==
    /\ Init /\ [][HousekeptNext]_vars
    /\ WF_vars(Tick) /\ WF_vars(Migrate)
    /\ \A r \in RoundIds :
          /\ WF_vars(EmergencyExpire(r)) /\ WF_vars(CloseRoundLast(r))
          /\ \A p \in Players : WF_vars(CloseDeposit(r, p))

-----------------------------------------------------------------------------
(* Properties of the program whatever the authority does.                  *)

GameType == [layout : {"None", "Old", "New"}, current_round_id : Nat,
             rollover_balance : Nat]

RoundType == [status : Statuses, commit_hash : Commits \cup {<<>>},
              ends_at : Nat, total_deposits : Nat, rollover_in : Nat]

\* The shape of the accounts, and that no u64 is ever assigned a negative number,
\* although the splits and the vault are not guarded by the program.
TypeOK ==
    /\ clock \in Nat
    /\ game \in GameType
    /\ rounds \in [RoundIds -> RoundType]
    /\ \A r \in RoundIds : DOMAIN deposits[r] \subseteq Players
                          /\ \A p \in DOMAIN deposits[r] : deposits[r][p] \in Nat
    /\ DOMAIN deposits = RoundIds
    /\ vault \in Nat
    /\ untracked \in Nat

\* While a round is Active the deposit accounts add up to the total the payout
\* is computed from, through repeated deposits of one player and across the
\* migration (deposit against close_deposit).
DepositsBackTotal ==
    \A r \in RoundIds : Is(r, "Active") =>
        rounds[r].total_deposits = SumFunction(deposits[r])

\* A resolved round stays as it was resolved until it is closed, and a closed
\* round's account never comes back: ids are used once, also by a deployment
\* that was migrated (settle, expire, create_round, migrate).
ResolvedForGood ==
    [][\A r \in RoundIds :
          /\ Closable(r) => rounds'[r] = rounds[r] \/ rounds'[r].status = "Closed"
          /\ Is(r, "Closed") => rounds'[r] = rounds[r]]_vars

-----------------------------------------------------------------------------
(* What holds when rounds are created one at a time.                       *)

\* While a round is Active its copy of the rollover stands for the rollover.
Rollover == IF NoActiveRound THEN game.rollover_balance ELSE 0
Pots == [r \in RoundIds |-> IF Is(r, "Active") THEN Pool(r) ELSE 0]

\* Every lamport of the vault is accounted for, although settle and expire
\* assign the rollover, and although migrate starts it at zero: what it forgets
\* is what was untracked already.
Conservation ==
    game.layout # "None" =>
        vault = VAULT_RENT + untracked + Rollover + SumTo(Pots, MAX_ROUNDS)

\* T090 and T091 of the tests: an expiry, whoever calls it, never takes from
\* the rollover.
ExpiryKeepsRollover ==
    [][(\E r \in RoundIds : Is(r, "Active") /\ rounds'[r].status = "Expired")
          => game'.rollover_balance >= game.rollover_balance]_vars

\* What the vault does is what a prize pool promises: one reserve, which is
\* handed to each round in turn, and payments from the round's own pot only.
Phases == [r \in RoundIds |->
              CASE Is(r, "None") -> "Unused"
                [] Is(r, "Active") -> "Open"
                [] OTHER -> "Resolved"]
VaultHeld == IF game.layout = "None" THEN 0 ELSE vault - VAULT_RENT - untracked

Prize == INSTANCE PrizePool
            WITH NumRounds <- MAX_ROUNDS,
                 held <- VaultHeld, reserve <- Rollover, pots <- Pots,
                 phase <- Phases

\* The program implements PrizePool (settle, expire, emergency_expire, migrate).
ImplementsPrizePool == Prize!PoolSpec

-----------------------------------------------------------------------------
(* Liveness.                                                               *)

\* Once the program can load its game state, no round stays Active for ever,
\* although the authority need not settle or expire it (emergency_expire).
RoundsGetResolved ==
    \A r \in RoundIds : Is(r, "Active") /\ GameLoads ~> ~Is(r, "Active")

\* Every deposit account is closed in the end and its rent recovered, when the
\* authority closes the round after its deposits (close_deposit, close_round)
\* and migrates an old deployment.
DepositsGetClosed ==
    \A r \in RoundIds : \A p \in Players :
        p \in DOMAIN deposits[r] ~> p \notin DOMAIN deposits[r]
=============================================================================
