----------------------------- MODULE AlonsBoxV2 -----------------------------
(***************************************************************************)
(* The alons-box-v2 program: one vault that holds every lamport of the     *)
(* game, a game state that says how much of it is rollover, and one        *)
(* account per round, per entry and per evidence wallet.                   *)
(*                                                                         *)
(* An instruction is one atomic transaction: an action below is enabled    *)
(* exactly when its handler returns Ok, and makes every write of the       *)
(* handler.  A handler that returns Err reverts, which is a stutter.       *)
(*                                                                         *)
(* The three specifications at the end differ only in what the authority,  *)
(* the off-chain backend, is trusted to do: nothing (Spec), to create a    *)
(* round only when none is Active (SequentialSpec), and moreover to clean  *)
(* up in the order the documentation gives (OperatedSpec).                 *)
(***************************************************************************)
EXTENDS Lamports, CommitReveal, FiniteSets

CONSTANTS
    Players,              \* wallets that enter rounds and earn evidence
    Commits,              \* what the authority may publish at create_round
    EntryAmounts,         \* lamports a player may offer to enter
    Donations,            \* lamports one donation may carry
    Gifts,                \* lamports a transfer outside the program may carry
    Configs,              \* [duration, cutoff] pairs initialize may be given
    VAULT_RENT,           \* rent-exempt minimum of the 9-byte vault account
    RENT_CHECK,           \* the minimum the handlers compute, for SIZE - 8 bytes
    BASE_ENTRY_FEE,
    ENTRY_FEE_INCREMENT,
    PRICE_INTERVAL_SECS,
    EMERGENCY_GRACE_SECS,
    LAMPORT_SUPPLY,       \* bound: the vault never holds more than this
    MAX_ROUNDS,           \* bound: rounds created
    MAX_YES,              \* bound: YES answers recorded in one round
    LAST_START,           \* bound: no round is created after this time
    MAX_CLOCK             \* bound: the clock stops here

ASSUME V2Assumption ==
    /\ IsFiniteSet(Players)
    /\ EntryAmounts \subseteq Nat /\ Donations \subseteq Nat /\ Gifts \subseteq Nat
    /\ \A c \in Configs : c.duration \in Int /\ c.cutoff \in Int
    /\ VAULT_RENT \in Nat /\ RENT_CHECK \in Nat /\ RENT_CHECK <= VAULT_RENT
    /\ BASE_ENTRY_FEE \in Nat \ {0} /\ ENTRY_FEE_INCREMENT \in Nat
    /\ PRICE_INTERVAL_SECS \in Nat \ {0} /\ EMERGENCY_GRACE_SECS \in Nat
    /\ LAMPORT_SUPPLY \in Nat /\ MAX_ROUNDS \in Nat /\ MAX_YES \in Nat
    /\ LAST_START \in Nat /\ MAX_CLOCK \in Nat

VARIABLES
    clock,      \* Clock::unix_timestamp
    game,       \* V2GameState
    rounds,     \* V2Round accounts, by round id
    entries,    \* V2Entry accounts: amount_paid, 0 when there is no account
    evidence,   \* V2Evidence accounts, yes_count = 0 when there is no account
    vault,      \* lamports of the V2Vault account
    received,   \* lamports each wallet got from each round's evidence pool
    gifts       \* lamports sent to the vault outside the program

vars == <<clock, game, rounds, entries, evidence, vault, received, gifts>>

RoundIds == 1..MAX_ROUNDS
Statuses == {"None", "Active", "Settled", "Expired", "Closed"}

BPS_WINNER == 5000
BPS_YES_POOL == 1500
BPS_TREASURY == 500
BPS_EXPIRE_BUYBACK == 4750
BPS_EXPIRE_TREASURY == 500

\* A round account that does not exist, before creation or after closing.
NoRound == [status |-> "None", commit_hash |-> <<>>, started_at |-> 0,
            ends_at |-> 0, entry_cutoff |-> 0, total_entries |-> 0,
            total_deposits |-> 0, rollover_in |-> 0, revealed_answer |-> <<>>,
            revealed_salt |-> <<>>, evidence_count |-> 0,
            total_yes_answers |-> 0, evidence_pool |-> 0,
            evidence_claimed |-> 0]

NoEvidence == [yes_count |-> 0, claimed |-> FALSE]

Is(r, status) == rounds[r].status = status
NoActiveRound == \A r \in RoundIds : ~Is(r, "Active")

-----------------------------------------------------------------------------
(* Account constraints.  A definition named Fault... is the constraint or  *)
(* formula below it with a plausible mistake in it; no specification uses  *)
(* it.  It serves to confirm that the properties notice the mistake.       *)

\* constraint = round.status == V2RoundStatus::Active
FaultAnyStatus(r) == ~Is(r, "None") /\ ~Is(r, "Closed")
RoundActive(r) == Is(r, "Active")

\* constraint = round.status != V2RoundStatus::Active, of an existing account
FaultCloseActive(r) == ~Is(r, "None") /\ ~Is(r, "Closed")
FaultSettledOnly(r) == Is(r, "Settled")
Closable(r) == Is(r, "Settled") \/ Is(r, "Expired")

\* The entry account is created by init, which refuses an existing one.
FaultInitIfNeeded(r, p) == entries[r][p] \in Nat
EntryFree(r, p) == entries[r][p] = 0

\* What close_v2_round asks of the evidence pool.
EvidenceResolved(r) ==
    rounds[r].evidence_pool = 0 \/ rounds[r].evidence_pool = rounds[r].evidence_claimed

-----------------------------------------------------------------------------
(* What the handlers compute.                                              *)

\* The rollover a new round counts in.
FaultSnapshotOfVault == vault - VAULT_RENT
RolloverSnapshot == game.rollover_balance

\* Base fee plus one increment per whole price interval since the start.
EntryFee(started_at, now) ==
    BASE_ENTRY_FEE
      + ((now - started_at) \div PRICE_INTERVAL_SECS) * ENTRY_FEE_INCREMENT

\* The length checks and the commit check of settle and expire.
RevealAccepted(r, answer, salt) == MayOpen(rounds[r].commit_hash, answer, salt)

\* The runtime refuses a transaction that leaves a rent-exempt account below
\* the rent-exempt minimum of its real size.
RuntimeAccepts(lamports) == lamports >= VAULT_RENT

\* rollover_balance above the round's snapshot: what came in during the round.
FaultDonationsLost(r) == 0
DonationsDuring(r) == SaturatingSub(game.rollover_balance, rounds[r].rollover_in)

\* The pool of a settled round and its split.
Pool(r) == rounds[r].total_deposits + rounds[r].rollover_in
WinnerAmount(r) == BpsCut(Pool(r), BPS_WINNER)
YesPoolAmount(r) == BpsCut(Pool(r), BPS_YES_POOL)
TreasuryAmount(r) == BpsCut(Pool(r), BPS_TREASURY)
FinalYesPool(r) == IF rounds[r].total_yes_answers > 0 THEN YesPoolAmount(r) ELSE 0
FaultRolloverInLost(r) ==
    rounds[r].total_deposits - WinnerAmount(r) - TreasuryAmount(r) - FinalYesPool(r)
FinalRollover(r) ==
    Pool(r) - WinnerAmount(r) - TreasuryAmount(r) - FinalYesPool(r)

\* The split of an expired round, of its deposits only.
BuybackAmount(r) == BpsCut(rounds[r].total_deposits, BPS_EXPIRE_BUYBACK)
ExpireTreasury(r) == BpsCut(rounds[r].total_deposits, BPS_EXPIRE_TREASURY)
ExpireOutgoing(r) == BuybackAmount(r) + ExpireTreasury(r)
FaultNominalRollover(r) ==
    rounds[r].rollover_in + BpsCut(rounds[r].total_deposits, BPS_EXPIRE_BUYBACK)
FaultTreasuryKept(r) ==
    rounds[r].rollover_in + rounds[r].total_deposits - BuybackAmount(r)
ExpireRollover(r) ==
    rounds[r].rollover_in + rounds[r].total_deposits - ExpireOutgoing(r)

\* One wallet's part of a settled round's evidence pool, rounded down.
FaultPerWallet(r, w) ==
    (rounds[r].evidence_pool * evidence[r][w].yes_count)
        \div rounds[r].evidence_count
FaultRoundedUp(r, w) ==
    (rounds[r].evidence_pool * evidence[r][w].yes_count
        + rounds[r].total_yes_answers - 1) \div rounds[r].total_yes_answers
Share(r, w) ==
    (rounds[r].evidence_pool * evidence[r][w].yes_count)
        \div rounds[r].total_yes_answers

\* What sweep_v2_evidence finds to move, down to the last lamport of dust.
Unclaimed(r) == rounds[r].evidence_pool - rounds[r].evidence_claimed
FaultDustIgnored(r) == Unclaimed(r) >= rounds[r].evidence_count
Sweepable(r) == Unclaimed(r) > 0

\* claim_v2_evidence finds an evidence account that it would pay.
FaultClaimAgain(r, w) ==
    /\ Is(r, "Settled") /\ evidence[r][w].yes_count > 0
    /\ Share(r, w) > 0
Payable(r, w) ==
    /\ Is(r, "Settled")
    /\ evidence[r][w].yes_count > 0 /\ ~evidence[r][w].claimed
    /\ rounds[r].total_yes_answers > 0
    /\ Fits(rounds[r].evidence_pool * evidence[r][w].yes_count)
    /\ Share(r, w) > 0

-----------------------------------------------------------------------------
Init ==
    /\ clock = 0
    /\ game = [initialized |-> FALSE, current_round_id |-> 0,
               rollover_balance |-> 0, round_duration_secs |-> 0,
               entry_cutoff_secs |-> 0]
    /\ rounds = [r \in RoundIds |-> NoRound]
    /\ entries = [r \in RoundIds |-> [p \in Players |-> 0]]
    /\ evidence = [r \in RoundIds |-> [w \in Players |-> NoEvidence]]
    /\ vault = 0
    /\ received = [r \in RoundIds |-> [w \in Players |-> 0]]
    /\ gifts = 0

\* initialize: creates the game state and the vault; the durations are not
\* validated.
Initialize(config) ==
    /\ ~game.initialized
    /\ game' = [initialized |-> TRUE, current_round_id |-> 0,
                rollover_balance |-> 0,
                round_duration_secs |-> config.duration,
                entry_cutoff_secs |-> config.cutoff]
    /\ vault' = VAULT_RENT
    /\ UNCHANGED <<clock, rounds, entries, evidence, received, gifts>>

\* create_round: the next id, a clock-derived schedule and a snapshot of the
\* rollover, which stays in rollover_balance.
CreateRound(commit) ==
    LET id == game.current_round_id + 1
        ends_at == clock + game.round_duration_secs
    IN  /\ game.initialized
        /\ id \in RoundIds /\ clock <= LAST_START
        /\ game' = [game EXCEPT !.current_round_id = id]
        /\ rounds' = [rounds EXCEPT ![id] =
              [NoRound EXCEPT !.status = "Active", !.commit_hash = commit,
                  !.started_at = clock, !.ends_at = ends_at,
                  !.entry_cutoff = ends_at - game.entry_cutoff_secs,
                  !.rollover_in = RolloverSnapshot]]
        /\ UNCHANGED <<clock, entries, evidence, vault, received, gifts>>

\* enter: once per player and round, before the cutoff, at the fee or above.
Enter(r, p, amount) ==
    LET round == rounds[r]
        deposits == round.total_deposits + amount
    IN  /\ RoundActive(r)
        /\ EntryFree(r, p)
        /\ clock < round.entry_cutoff
        /\ amount >= EntryFee(round.started_at, clock)
        /\ vault + amount <= LAMPORT_SUPPLY
        /\ Fits(round.total_entries + 1) /\ Fits(deposits)
        /\ vault' = vault + amount
        /\ entries' = [entries EXCEPT ![r][p] = amount]
        /\ rounds' = [rounds EXCEPT ![r] =
              [round EXCEPT !.total_entries = @ + 1,
                            !.total_deposits = deposits]]
        /\ UNCHANGED <<clock, game, evidence, received, gifts>>

\* donate: anyone, at any time; straight into the rollover.
Donate(amount) ==
    /\ game.initialized
    /\ amount > 0
    /\ vault + amount <= LAMPORT_SUPPLY
    /\ Fits(game.rollover_balance + amount)
    /\ vault' = vault + amount
    /\ game' = [game EXCEPT !.rollover_balance = @ + amount]
    /\ UNCHANGED <<clock, rounds, entries, evidence, received, gifts>>

\* record_v2_evidence: the first YES of a wallet creates its account.
RecordEvidence(r, w) ==
    LET round == rounds[r]
        first == evidence[r][w].yes_count = 0
    IN  /\ RoundActive(r)
        /\ round.total_yes_answers < MAX_YES
        /\ Fits(round.total_yes_answers + 1)
        /\ evidence' = [evidence EXCEPT ![r][w].yes_count = @ + 1]
        /\ rounds' = [rounds EXCEPT ![r] =
              [round EXCEPT !.evidence_count = IF first THEN @ + 1 ELSE @,
                            !.total_yes_answers = @ + 1]]
        /\ UNCHANGED <<clock, game, entries, vault, received, gifts>>

\* settle: winner and treasury are paid, the YES pool stays in the vault for
\* claims, the rest is rollover.  Nothing is required of the clock.
Settle(r, answer, salt) ==
    LET outgoing == WinnerAmount(r) + TreasuryAmount(r)
        rollover == FinalRollover(r) + DonationsDuring(r)
    IN  /\ RoundActive(r)
        /\ RevealAccepted(r, answer, salt)
        /\ Fits(Pool(r)) /\ vault >= RENT_CHECK
        /\ Pool(r) <= vault - RENT_CHECK
        /\ BpsFits(Pool(r), BPS_WINNER)
        /\ vault - outgoing >= RENT_CHECK
        /\ RuntimeAccepts(vault - outgoing)
        /\ Fits(rollover)
        /\ vault' = vault - outgoing
        /\ game' = [game EXCEPT !.rollover_balance = rollover]
        /\ rounds' = [rounds EXCEPT ![r] =
              [@ EXCEPT !.status = "Settled", !.revealed_answer = answer,
                  !.revealed_salt = salt, !.evidence_pool = FinalYesPool(r)]]
        /\ UNCHANGED <<clock, entries, evidence, received, gifts>>

\* The checked multiplications of an expiry: of the deposits, not of the pool
\* that settle multiplies.
FaultSplitOfPool(r) == BpsFits(Pool(r), BPS_EXPIRE_BUYBACK)
ExpireSplitFits(r) == BpsFits(rounds[r].total_deposits, BPS_EXPIRE_BUYBACK)

\* The part of expire that force_expire repeats: deposits are split between
\* buyback, treasury and rollover.
ExpirePayoutOk(r) ==
    /\ ExpireSplitFits(r)
    /\ Fits(ExpireRollover(r)) /\ Fits(Pool(r))
    /\ Fits(ExpireRollover(r) + DonationsDuring(r))
    /\ vault - ExpireOutgoing(r) >= RENT_CHECK
    /\ RuntimeAccepts(vault - ExpireOutgoing(r))

PayExpired(r) ==
    /\ ExpirePayoutOk(r)
    /\ vault' = vault - ExpireOutgoing(r)
    /\ game' = [game EXCEPT !.rollover_balance =
                               ExpireRollover(r) + DonationsDuring(r)]

\* expire: the authority reveals, nobody won.  No clock condition either.
Expire(r, answer, salt) ==
    /\ RoundActive(r)
    /\ RevealAccepted(r, answer, salt)
    /\ PayExpired(r)
    /\ rounds' = [rounds EXCEPT ![r] =
          [@ EXCEPT !.status = "Expired", !.revealed_answer = answer,
              !.revealed_salt = salt]]
    /\ UNCHANGED <<clock, entries, evidence, received, gifts>>

\* force_expire: anyone, once the grace period after ends_at has passed.
PastGrace(r) == clock > rounds[r].ends_at + EMERGENCY_GRACE_SECS

ForceExpire(r) ==
    /\ RoundActive(r)
    /\ PastGrace(r)
    /\ PayExpired(r)
    /\ rounds' = [rounds EXCEPT ![r].status = "Expired"]
    /\ UNCHANGED <<clock, entries, evidence, received, gifts>>

\* claim_v2_evidence: signed by the wallet itself or by the authority; what
\* has already left the pool (evidence_claimed) is not looked at.
ClaimEvidence(r, w) ==
    /\ Payable(r, w)
    /\ vault - Share(r, w) >= RENT_CHECK
    /\ RuntimeAccepts(vault - Share(r, w))
    /\ Fits(rounds[r].evidence_claimed + Share(r, w))
    /\ vault' = vault - Share(r, w)
    /\ evidence' = [evidence EXCEPT ![r][w].claimed = TRUE]
    /\ rounds' = [rounds EXCEPT ![r].evidence_claimed = @ + Share(r, w)]
    /\ received' = [received EXCEPT ![r][w] = @ + Share(r, w)]
    /\ UNCHANGED <<clock, game, entries, gifts>>

\* sweep_v2_evidence: what is left of the pool becomes rollover; the evidence
\* accounts are not touched.
SweepEvidence(r) ==
    /\ Is(r, "Settled")
    /\ Sweepable(r)
    /\ Fits(game.rollover_balance + Unclaimed(r))
    /\ game' = [game EXCEPT !.rollover_balance = @ + Unclaimed(r)]
    /\ rounds' = [rounds EXCEPT ![r].evidence_claimed = rounds[r].evidence_pool]
    /\ UNCHANGED <<clock, entries, evidence, vault, received, gifts>>

\* close_v2_evidence: whether or not the share was claimed.
CloseEvidence(r, w) ==
    /\ Closable(r)
    /\ evidence[r][w].yes_count > 0
    /\ evidence' = [evidence EXCEPT ![r][w] = NoEvidence]
    /\ UNCHANGED <<clock, game, rounds, entries, vault, received, gifts>>

\* close_v2_entry
CloseEntry(r, p) ==
    /\ Closable(r)
    /\ entries[r][p] > 0
    /\ entries' = [entries EXCEPT ![r][p] = 0]
    /\ UNCHANGED <<clock, game, rounds, evidence, vault, received, gifts>>

\* close_v2_round: the evidence pool is empty or accounted for.  Entry and
\* evidence accounts that are still open can no longer be closed after it.
CloseRound(r) ==
    /\ Closable(r)
    /\ EvidenceResolved(r)
    /\ rounds' = [rounds EXCEPT ![r] = [NoRound EXCEPT !.status = "Closed"]]
    /\ UNCHANGED <<clock, game, entries, evidence, vault, received, gifts>>

\* A plain system transfer to the vault's address; the program never sees it.
\* It also stands for lamports that lay there before initialize, and for a
\* payment to the vault itself, which comes back.
Gift(amount) ==
    /\ game.initialized
    /\ amount > 0
    /\ vault + amount <= LAMPORT_SUPPLY
    /\ vault' = vault + amount
    /\ gifts' = gifts + amount
    /\ UNCHANGED <<clock, game, rounds, entries, evidence, received>>

Tick ==
    /\ clock < MAX_CLOCK
    /\ clock' = clock + 1
    /\ UNCHANGED <<game, rounds, entries, evidence, vault, received, gifts>>

-----------------------------------------------------------------------------
\* The instructions no specification restricts.
Unrestricted ==
    \/ \E c \in Configs : Initialize(c)
    \/ \E r \in RoundIds, p \in Players, a \in EntryAmounts : Enter(r, p, a)
    \/ \E a \in Donations : Donate(a)
    \/ \E r \in RoundIds, w \in Players : RecordEvidence(r, w)
    \/ \E r \in RoundIds, reveal \in Reveals : Settle(r, reveal[1], reveal[2])
    \/ \E r \in RoundIds, reveal \in Reveals : Expire(r, reveal[1], reveal[2])
    \/ \E r \in RoundIds : ForceExpire(r)
    \/ \E r \in RoundIds, w \in Players : ClaimEvidence(r, w)
    \/ \E r \in RoundIds, w \in Players : CloseEvidence(r, w)
    \/ \E r \in RoundIds, p \in Players : CloseEntry(r, p)
    \/ \E a \in Gifts : Gift(a)
    \/ Tick

\* What the program allows.
Next ==
    \/ \E c \in Commits : CreateRound(c)
    \/ \E r \in RoundIds : SweepEvidence(r)
    \/ \E r \in RoundIds : CloseRound(r)
    \/ Unrestricted

Spec == Init /\ [][Next]_vars

\* The authority creates a round only when no round is Active.
CreateInTurn(commit) == NoActiveRound /\ CreateRound(commit)

SequentialNext ==
    \/ \E c \in Commits : CreateInTurn(c)
    \/ \E r \in RoundIds : SweepEvidence(r)
    \/ \E r \in RoundIds : CloseRound(r)
    \/ Unrestricted

SequentialSpec == Init /\ [][SequentialNext]_vars

\* The documented cleanup order: claims, then the sweep, then the evidence and
\* entry accounts, the round last.
SweepLast(r) == (\A w \in Players : ~Payable(r, w)) /\ SweepEvidence(r)

CloseRoundLast(r) ==
    /\ \A p \in Players : entries[r][p] = 0 /\ evidence[r][p] = NoEvidence
    /\ CloseRound(r)

OperatedNext ==
    \/ \E c \in Commits : CreateInTurn(c)
    \/ \E r \in RoundIds : SweepLast(r)
    \/ \E r \in RoundIds : CloseRoundLast(r)
    \/ Unrestricted

OperatedSpec == Init /\ [][OperatedNext]_vars

-----------------------------------------------------------------------------
(* Fairness.  Time passes, and a round past its grace period is            *)
(* force-expired by somebody: any wallet may sign.  As long as a resolved  *)
(* round leaves something to claim, sweep or close, some such step is      *)
(* taken: wallets claim for themselves, the rest is the backend's job.     *)

RescueFairness == WF_vars(Tick) /\ \A r \in RoundIds : WF_vars(ForceExpire(r))

Cleanup(r) ==
    \/ \E w \in Players : ClaimEvidence(r, w)
    \/ SweepLast(r)
    \/ \E w \in Players : ~Payable(r, w) /\ CloseEvidence(r, w)
    \/ \E p \in Players : CloseEntry(r, p)
    \/ CloseRoundLast(r)

HousekeepingFairness == \A r \in RoundIds : WF_vars(Cleanup(r))

UnattendedSpec == Spec /\ RescueFairness
RescuedSpec == OperatedSpec /\ RescueFairness
HousekeptSpec == RescuedSpec /\ HousekeepingFairness

-----------------------------------------------------------------------------
(* Types.                                                                  *)

GameType == [initialized : BOOLEAN, current_round_id : Nat,
             rollover_balance : Nat, round_duration_secs : Int,
             entry_cutoff_secs : Int]

RoundType == [status : Statuses, commit_hash : Commits \cup {<<>>},
              started_at : Nat, ends_at : Int, entry_cutoff : Int,
              total_entries : Nat, total_deposits : Nat, rollover_in : Nat,
              revealed_answer : {<<>>} \cup {reveal[1] : reveal \in Reveals},
              revealed_salt : {<<>>} \cup {reveal[2] : reveal \in Reveals},
              evidence_count : Nat, total_yes_answers : Nat,
              evidence_pool : Nat, evidence_claimed : Nat]

\* The shape of the accounts, and that no u64 is ever assigned a negative number:
\* no subtraction of a transaction that succeeds goes below zero.  (That sums stay
\* within MAX_U64 is guarded where the code checks it.)
TypeOK ==
    /\ clock \in Nat
    /\ game \in GameType
    /\ rounds \in [RoundIds -> RoundType]
    /\ entries \in [RoundIds -> [Players -> Nat]]
    /\ evidence \in [RoundIds -> [Players -> [yes_count : Nat, claimed : BOOLEAN]]]
    /\ vault \in Nat
    /\ received \in [RoundIds -> [Players -> Nat]]
    /\ gifts \in Nat

-----------------------------------------------------------------------------
(* What holds of the program whatever the authority does.                  *)

Resolved(r) == Is(r, "Settled") \/ Is(r, "Expired")

PlayerSum(f) == SumFunctionOnSet(f, Players)

YesCounts(r) == [w \in Players |-> evidence[r][w].yes_count]

\* While a round can still be resolved, the counters that the payout is
\* computed from agree with the entry accounts that back them (enter against
\* the init constraint and close_v2_entry).
EntriesBackDeposits ==
    \A r \in RoundIds : Is(r, "Active") =>
        /\ rounds[r].total_deposits = PlayerSum(entries[r])
        /\ rounds[r].total_entries = Cardinality({p \in Players : entries[r][p] > 0})

\* The denominator of every share is never less than the YES answers that can
\* still be claimed, and equals them until evidence accounts may be closed
\* (record_v2_evidence against close_v2_evidence).
EvidenceTally ==
    \A r \in RoundIds :
        LET open == PlayerSum(YesCounts(r))
        IN  /\ Is(r, "Active") =>
                /\ rounds[r].total_yes_answers = open
                /\ rounds[r].evidence_count =
                      Cardinality({w \in Players : evidence[r][w].yes_count > 0})
            /\ Resolved(r) => open <= rounds[r].total_yes_answers

\* The lamports that leave the vault for one round's evidence never exceed the
\* pool that settle set aside, in whatever order claims, sweeps and closings
\* come, rounding included (claim_v2_evidence).
EvidencePayoutsWithinPool ==
    \A r \in RoundIds : Is(r, "Settled") =>
        PlayerSum(received[r]) <= rounds[r].evidence_pool

\* A wallet is paid at most once for a round, also after its evidence account
\* was closed (the claimed flag dies with the account; what protects the pool
\* then is that record_v2_evidence needs an Active round).
PaidAtMostOnce ==
    [][\A r \in RoundIds, w \in Players :
          received[r][w] > 0 => received'[r][w] = received[r][w]]_vars

\* Once the answer is public the terms of the round are fixed: its money, its
\* counters and the answer do not move, and the pool is only ever paid down.
ResolvedTermsFrozen ==
    [][\A r \in RoundIds : Resolved(r) /\ rounds'[r].status # "Closed" =>
          /\ rounds'[r].status = rounds[r].status
          /\ rounds'[r].revealed_answer = rounds[r].revealed_answer
          /\ rounds'[r].total_entries = rounds[r].total_entries
          /\ rounds'[r].total_deposits = rounds[r].total_deposits
          /\ rounds'[r].evidence_count = rounds[r].evidence_count
          /\ rounds'[r].total_yes_answers = rounds[r].total_yes_answers
          /\ rounds'[r].evidence_pool = rounds[r].evidence_pool
          /\ rounds'[r].evidence_claimed >= rounds[r].evidence_claimed]_vars

\* An expiry, forced or not, never takes from the rollover, even when another
\* round was resolved since this round's snapshot (expire, force_expire).
ExpiryKeepsRollover ==
    [][(\E r \in RoundIds : Is(r, "Active") /\ rounds'[r].status = "Expired")
          => game'.rollover_balance >= game.rollover_balance]_vars

-----------------------------------------------------------------------------
(* What holds when rounds are created one at a time.                       *)

\* Lamports of the vault that belong to round r.
Held(r) == IF Is(r, "Active") THEN rounds[r].total_deposits
           ELSE rounds[r].evidence_pool - rounds[r].evidence_claimed

TotalHeld == SumTo([r \in RoundIds |-> Held(r)], MAX_ROUNDS)

\* Every lamport of the vault is accounted for: rent, rollover, the deposits of
\* the Active round, what is left of each evidence pool, and what was sent to
\* the vault outside the program.
Conservation ==
    game.initialized =>
        vault = VAULT_RENT + gifts + game.rollover_balance + TotalHeld

\* The rollover an Active round counts in its pool is still there, so that
\* saturating_sub never saturates (settle, expire, force_expire).
SnapshotCovered ==
    \A r \in RoundIds :
        Is(r, "Active") => rounds[r].rollover_in <= game.rollover_balance

\* What the two need to be inductive: only a settled round has an evidence pool,
\* nothing is claimed from an empty one, ids are used once and in order, and the
\* rollover snapshot has one owner at a time.
Bookkeeping ==
    /\ \A r \in RoundIds : ~Is(r, "Settled") => rounds[r].evidence_pool = 0
    /\ \A r \in RoundIds :
          rounds[r].evidence_pool = 0 => rounds[r].evidence_claimed = 0
    /\ \A r \in RoundIds : r > game.current_round_id => rounds[r] = NoRound
    /\ \A q, r \in RoundIds : Is(q, "Active") /\ Is(r, "Active") => q = r
    /\ ~game.initialized => gifts = 0 /\ game.current_round_id = 0

-----------------------------------------------------------------------------
(* What holds when the authority also cleans up in the documented order.   *)

\* evidence_claimed never runs past the pool, so that sweep's checked_sub does
\* not fail and close_v2_round's equality can be reached.
ClaimedWithinPool ==
    \A r \in RoundIds : rounds[r].evidence_claimed <= rounds[r].evidence_pool

\* The vault can always pay for what it owes: an Active round can be settled
\* or expired and every payable share claimed without VaultInsolvent.
Solvent ==
    \A r \in RoundIds :
        /\ Is(r, "Active") => Pool(r) <= vault - VAULT_RENT
        /\ \A w \in Players : Payable(r, w) => Share(r, w) <= vault - VAULT_RENT

\* What the vault does is what a prize pool promises: a round's copy of the
\* rollover is taken out of the reserve while the round is Active, donations go
\* to the reserve, and evidence is paid from the round's own pot.
VaultHeld == IF game.initialized THEN vault - VAULT_RENT - gifts ELSE 0
Rollover ==
    game.rollover_balance
      - SumTo([r \in RoundIds |-> IF Is(r, "Active") THEN rounds[r].rollover_in ELSE 0],
              MAX_ROUNDS)
Pots ==
    [r \in RoundIds |->
        IF Is(r, "Active") THEN Pool(r)
        ELSE rounds[r].evidence_pool - rounds[r].evidence_claimed]
Phases ==
    [r \in RoundIds |->
        CASE Is(r, "None") -> "Unused"
          [] Is(r, "Active") -> "Open"
          [] OTHER -> "Resolved"]

Prize == INSTANCE PrizePool
            WITH NumRounds <- MAX_ROUNDS,
                 held <- VaultHeld, reserve <- Rollover, pots <- Pots,
                 phase <- Phases

\* The program implements PrizePool (settle, expire, claim, sweep, donate).
ImplementsPrizePool == Prize!PoolSpec

-----------------------------------------------------------------------------
(* What the sources say and the program does not keep by itself.           *)

\* A sweep leaves nothing to claim: once a pool is accounted for in full no
\* wallet has a share that claim_v2_evidence would still pay.
SweptNothingPayable ==
    \A r \in RoundIds : \A w \in Players :
        Is(r, "Settled") /\ rounds[r].evidence_claimed >= rounds[r].evidence_pool
            => ~Payable(r, w)

\* security-model.md: "The answer cannot be changed after players enter."  While
\* a round is Active there is one reveal that settle and expire would take.
AnswerFixed ==
    \A r \in RoundIds : Is(r, "Active") => OpensOneWay(rounds[r].commit_hash)

-----------------------------------------------------------------------------
(* Liveness.                                                               *)

\* No round stays Active for ever: deposits cannot be locked in it, even if
\* the authority never comes back (force_expire).
RoundsGetResolved ==
    \A r \in RoundIds : Is(r, "Active") ~> ~Is(r, "Active")

\* Every resolved round is closed in the end, also when the shares of its wallets
\* leave dust: claims, the sweep and the closings never block one another, and
\* the equality that close_v2_round asks for is reached.
ResolvedRoundsGetClosed ==
    \A r \in RoundIds : Resolved(r) ~> Is(r, "Closed")

HasAccounts(r) ==
    \E p \in Players : entries[r][p] > 0 \/ evidence[r][p].yes_count > 0

\* No entry or evidence account, and with it its rent, is left behind, provided
\* the round is closed after them (close_v2_entry and close_v2_evidence need it).
AccountsGetClosed ==
    \A r \in RoundIds : HasAccounts(r) ~> ~HasAccounts(r)
=============================================================================
