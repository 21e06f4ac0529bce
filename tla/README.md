# TLA+ models of the simulation contracts

This directory holds TLA+ specifications of the Solana programs of this
repository, the TLC configurations that model-check them on small instances, and
theorems about them checked by TLAPS.

| file | what it is |
|---|---|
| `Lamports.tla` | u64 lamport arithmetic: checked operations, basis-point cuts, `saturating_sub`, sums |
| `CommitReveal.tla` | the commitment that both alons-box programs check |
| `PrizePool.tla` | abstract specification: what all three programs promise about the lamports of their vault |
| `AlonsBoxV2.tla` | the `alons-box-v2` program, its operating disciplines and its properties |
| `AlonsBoxV1.tla` | the `alons-box` program, migration included, and its properties |
| `TwoPills.tla` | the `two-pills` program and its properties |
| `MCAlonsBoxV2.tla` + `v2_*.cfg`, `MCAlonsBoxV1.tla` + `v1_*.cfg`, `MCTwoPills.tla` + `tp_*.cfg` | instances for TLC |
| `LamportsProofs.tla`, `PrizePoolProofs.tla` | lemmas about sums and cuts; the abstract pool's invariant |
| `AlonsBoxV2Proofs.tla` | V2: types; conservation with rounds one at a time |
| `AlonsBoxV2TermsProofs.tla` | V2, whatever the authority does: paid once, terms frozen, the rollover, what a commitment opens with |
| `AlonsBoxV2EvidenceProofs.tla` | V2: the accounts behind a round's counters, the evidence pool; operated as documented, solvency and the refinement of `PrizePool` |
| `AlonsBoxV1Proofs.tla` | V1: types, ids used once, deposits behind the totals, the rollover, the refinement of `PrizePool`, conservation |
| `TwoPillsProofs.tla`, `TwoPillsClaimsProofs.tla` | Two Pills: types and conservation; claims, positions behind the pools, and the refinement |

Run `tlc -config v2_overlap.cfg MCAlonsBoxV2` (or another pair) and
`tlapm AlonsBoxV2Proofs.tla`. In every module a definition named `Fault...` is the one
beside it with a plausible mistake in it. No specification uses these; putting one in
the place of the right definition shows which property notices.

## Inventory

The repository has three independent Anchor programs under `programs/`, their
tests under `tests/`, two deployment scripts and documentation. An off-chain
backend, which is not in the repository, signs the authority's instructions.

### alons-box-v2 (modelled)

A guessing game. Players pay to enter a round; the answer is committed to by a
hash when the round is created and revealed when it is settled.

*State.* One `V2GameState` (current round id, `rollover_balance`, durations), one
`V2Vault` that holds every lamport of the game, and one account per round
(`V2Round`), per player and round (`V2Entry`) and per evidence wallet and round
(`V2Evidence`). Nothing but arithmetic ties the vault's lamports to the numbers in
the other accounts.

*Operations.* `initialize`, `create_round`, `enter`, `donate`,
`record_v2_evidence`, `settle`, `expire`, `force_expire`, `claim_v2_evidence`,
`sweep_v2_evidence`, `close_v2_evidence`, `close_v2_entry`, `close_v2_round`.
Players sign `enter`; anybody signs `donate` and `force_expire`; an evidence wallet
or the authority signs `claim_v2_evidence`; the authority signs the rest.

*Interaction.* The instructions share the vault and `rollover_balance`. A round
copies `rollover_balance` into `rollover_in` when it is created (a snapshot: the
rollover is not reserved), pays out from deposits plus snapshot when it is settled,
and recovers the donations made in between as the difference between the current
rollover and the snapshot.

*What is hard.* Transactions of different signers come in any order: entries,
donations and evidence race with `settle`; `settle` and `expire`, which do not look
at the clock, race with `force_expire`; claims race with the sweep and with the
closing of accounts. Rounds may overlap: nothing in `create_round` asks that the
previous round be resolved. Every share is rounded down on its own.

*What makes it correct.* Every lamport of the vault is accounted for; a payout
never uses lamports that belong to another round or to the runtime's rent; an
evidence pool pays each wallet once and never more than it holds; once a round is
resolved its terms are fixed; no round stays unresolved or unclosed for ever.

### alons-box, V1 (modelled)

The predecessor. *State.* `GameState`, `Vault`, and one `Round` per id with one
`Deposit` per depositor. *Operations.* `initialize`, `create_round`, `deposit` (any
amount, any number of times, by anybody), `settle` (which also pays the evidence
wallets, amounts chosen by the authority up to 30 per cent), `expire`,
`emergency_expire` (anybody, a day after the end), `close_deposit`, `close_round`,
`migrate`.

*What is hard.* `settle` and both expiries *assign* `rollover_balance`, computed from
the round's own copy, where V2 adjusts it. No payout asks what the vault holds:
only the runtime refuses, and it accepts a vault drained to nothing, which deletes
the account. Game states of an older layout exist until `migrate` has run, and
`migrate` starts the rollover at zero whatever the vault holds.

*What makes it correct.* The same as V2, and: the assigned rollover never loses a
lamport, a migrated game goes on where it was, and a deposit is counted once.

### two-pills (modelled)

A pari-mutuel game of two sides. State: `PillsGameState` with the next-round
reserve (`nrr_balance`), a vault, rounds and player positions. `create_round` seeds
both pools from the reserve, `deposit` locks a player to one side, `settle` pays the
treasury and returns a part to the reserve, winners `claim`, and after a window
`sweep_unclaimed` moves the rest to the reserve. To be correct the claims of a
round must stay within its winners' share, rounding included, and not depend on their
order; a sweep must leave every winner the whole window; reserve plus open
obligations must equal the vault; every round must end.

*What is hard.* Rounds overlap and share vault and reserve; every claim recomputes
the split and rounds on its own; players may be on one side only, or absent from
pools that hold seeds; the counters have one and two bytes; the authority may change
at any moment, and nobody else can settle or expire.

### How the programs interact

They do not: no program calls another or names its accounts. What they have in
common is arithmetic (`Lamports`), the commitment of the two alons-box programs
(`CommitReveal`), and what each promises about its vault (`PrizePool`).

### The rest

- `lib.rs`, `errors.rs`, `events.rs`, `instructions/mod.rs`: dispatch, error codes
  and logging. No state.
- `scripts/init-v2.ts`, `scripts/migrate.ts`: one RPC call each.
- `tests/*.ts`: read for what the authors expect of the programs.
- CI workflows, Anchor and npm configuration: not modelled.
- the backend and its AI: outside the repository. What the documentation says of its
  discipline appears as restrictions of the specifications (below).

## Conventions of the three programs' modules

A Solana transaction is atomic and an `Err` reverts it, so each instruction is one
action, enabled exactly when the handler returns `Ok`: the account constraints
(`init`, status, `initialized`), the `require!`s, and every `checked_` operation
(`Fits`) are conjuncts of its guard. Two actions of each module are not of the
program: `Tick` (time) and `Gift` (a transfer to the vault's address, which no
program can prevent). `Gift` also stands for two corners that would need a disjunct of
their own otherwise. Lamports may lie at the vault's address before `initialize`, which
then keeps them: `Initialize`, then a `Gift`. And the programs do not check that a
winner's or a wallet's account is not the vault itself; a payment to the vault comes
back: the payment, then a `Gift` of it.

`TypeOK` gives the accounts their shape and says that no u64 is ever assigned a negative
number, which is what an unchecked subtraction would do. It says nothing of upper
bounds: that a sum stays within `MAX_U64` is a guard where the code has a `checked_`
operation.

Public keys and PDA seeds are implicit in the indices: a constraint that compares
a key with the stored authority, treasury or wallet selects who may take the action
and where lamports go, which no property distinguishes. It is assumed that
receiving accounts exist and accept the lamports. Rent of entry, deposit, position,
evidence and round accounts goes back to whoever paid it (or the authority) when they
are closed; it never touches the vault and is left out.

The hash of a commitment is its input, `answer ":" salt`, a sequence of tokens
(`CommitReveal`): the hash is taken to be injective, the joining is not.

## AlonsBoxV2

| variable | code |
|---|---|
| `clock` | `Clock::get()?.unix_timestamp` |
| `game` | `V2GameState`; `initialized` says whether the account exists |
| `rounds[r]` | `V2Round` of id `r`; status `None` before its creation, `Closed` after `close_v2_round` |
| `entries[r][p]` | `V2Entry.amount_paid`, 0 when there is no account |
| `evidence[r][w]` | `V2Evidence`; no account exactly when `yes_count = 0` |
| `vault` | lamports of the vault account |
| `received[r][w]` | history: lamports `claim_v2_evidence` paid `w` for `r` |
| `gifts` | history: lamports sent to the vault by a plain system transfer |

`expire` and `force_expire` repeat the same payout code, here `PayExpired`. The
conjunct `RuntimeAccepts` is the runtime's: it refuses a transaction that leaves an
account below the rent-exempt minimum of its real size. The handlers compute the
minimum for `SIZE - 8` bytes, which is less, so `RENT_CHECK <= VAULT_RENT` are two
constants.

Specifications. What the authority is trusted with decides what holds, so the same
actions appear under several next-state relations:

- `Spec`: nothing. All that the program itself enforces.
- `SequentialSpec`: a round is created only when none is Active.
- `OperatedSpec`: moreover the cleanup order of
  `docs/developers/contracts/alons-box-v2/evidence-system.md`: claims, then the sweep
  (`SweepLast`, once no share is payable), then the evidence and entry accounts, the
  round last (`CloseRoundLast`). A backend that gives up on a wallet and sweeps
  earlier is a behaviour of `SequentialSpec`.
- `UnattendedSpec` is `Spec`, `RescuedSpec` is `OperatedSpec`, both with
  `RescueFairness`; `HousekeptSpec` adds `HousekeepingFairness`.

## AlonsBoxV1

| variable | code |
|---|---|
| `clock` | `Clock::get()?.unix_timestamp` |
| `game` | `GameState`; `layout` is `None` (no account), `Old` (before `migrate`) or `New` |
| `rounds[r]` | `Round` of id `r`, `None` before its creation, `Closed` after `close_round` |
| `deposits[r]` | the `Deposit` accounts of round `r`, a function on those who have one |
| `vault` | lamports of the vault account, 0 when there is none |
| `untracked` | history: lamports of the vault that no account of the program speaks of |

`Init` is a fresh deployment, or the one that `migrate` was written for: an old game
state with one round, which is Active or was closed, and some lamports in the vault.
The old code is not in the repository; of what it leaves behind only what
`migrate.rs` says of the layout is used, with the round it created either counting
the vault's lamports in or not. Before `migrate` every instruction that names the game
state is refused; `deposit` does not name it and goes on. A second `migrate` is a
no-op in the code and no step here.

`Settle` takes the sum of the evidence amounts, anything from 0 to the cap, since
only the sum moves the vault. `RuntimeAccepts` is true also of a vault drained to
nothing: the account is deleted then, `VaultLoads` is false for good, and both a
`Deposit` and a payout are refused. `PastGrace` contains the `checked_add` of the
deadline and its overflow (`MAX_I64`).

`SequentialSpec` and `HousekeptSpec` are as in V2: rounds one at a time; deposits
closed before their round, and an old deployment migrated.

## TwoPills

`clock`, `game`, `rounds`, `positions` and `vault` correspond to the clock, the
`PillsGameState`, `PillsRound`, `PlayerPosition` and `PillsVault` accounts;
`received` and `gifts` are histories as above. The two pools and the two player
counts of a round are functions of the side; `seed_a` and `seed_b` are always equal
and kept once. A position exists exactly when its side is not `None`: `deposit`
sets `is_initialized` and the side together.

`Initialize`, `TransferAuthority`, `CreateRound`, `Deposit`, `Settle`, `Expire`,
`Claim`, `SweepUnclaimed` and `ClosePosition` are the nine instructions. Any signed
instruction of the authority is taken by the key `game` names at that time, so a
changed authority restricts who acts and not what can happen. `settle`, `claim` and
`sweep_unclaimed` compute the same split; it is written once (`WinnersShare`), the
payout being cut back to 64 bits as the code's `as u64` does. `transfer_from_vault`
is `VaultCanPay`: it leaves 897,840 lamports, less than the rent minimum of the
vault account, so the runtime's check is a second conjunct.

`Spec` trusts the authority with nothing. `AutoClaimSpec` adds the discipline the
documentation calls auto-claim (`SweepsLast`: a round is swept once its winners are
paid) and fairness.

## PrizePool and the refinements

`PrizePool` is what a player is told: the vault's lamports belong to the reserve or
to one round; a round is opened with a part of the reserve, takes stakes, is resolved
(some of its pot is paid, some kept for claims, the rest goes to the reserve), pays
claims out of its own pot, and releases what is left. No round pays with another's
lamports or with the reserve, and nothing is paid before a round is resolved. Its
initial state is any covered one, since a V1 pool may be taken over by `migrate`. The
amount of an action is read off the step (what came in is `held' - held`), so that the
abstract steps need no quantifier over amounts.

Each program maps its state by `VaultHeld`, `Pots`, `Phases` and its reserve
(`ImplementsPrizePool`):

| | reserve | pot of an Active round | later | holds for |
|---|---|---|---|---|
| V2 | `rollover_balance` less the Active round's snapshot | deposits plus snapshot | evidence not yet claimed | `OperatedSpec` |
| V1 | `rollover_balance` when no round is Active, else 0 | deposits plus copy | nothing | `SequentialSpec` |
| Two Pills | `nrr_balance` | both pools, seeds included | winners' share not yet claimed | `Spec` |

The last column is the result: the lamports of Two Pills are safe by what the program
does, those of the other two also by what its backend does. Closing accounts and
`migrate` map to stutters, `donate` to `Endow`.

## Fairness

All fairness is weak: once such a step is possible it stays possible until it is
taken. Nothing is assumed fair about `enter`, `deposit`, `donate` or `create_round`,
nor about `settle` and `expire` of the two alons-box programs.

- V2 `RescueFairness`: time passes, and somebody sends `force_expire` for a round past
  its grace period. Any wallet may sign it and every player has a reason to; that is
  the exit the security model describes. `HousekeepingFairness`: evidence wallets
  claim for themselves (or the authority does) and the backend's cleanup runs, an
  evidence account being closed only when it has nothing payable. One condition per
  round covers all of that (`Cleanup`): as long as something of a round can be cleaned up,
  something eventually is. Which step comes next is left open; none can be taken twice.
- V1 `HousekeptSpec`: time, `migrate` (the deployment script), `emergency_expire` by
  anybody, and the closing of deposits, then of their round.
- Two Pills `AutoClaimSpec`: time, and the authority settles (for some side: which one
  is left open), expires, claims for the winners and sweeps; players close their
  positions. The program has no other way for a round to end: it promises nothing
  when the authority is gone.

## What the runs check

Lamports and seconds are scaled down; the basis points are the program's own.
Entries of 21 and 25 are the smallest amounts for which every cut, the treasury's 5
per cent included, is positive and leaves dust; so is the Two Pills tier of 11.

| run | specification | instance | properties |
|---|---|---|---|
| `v2_overlap` | `Spec` | 2 rounds that may overlap, 2 wallets, up to 2 YES in each | `TypeOK`, `EntriesBackDeposits`, `EvidenceTally`, `EvidencePayoutsWithinPool`, `ExpiryKeepsRollover`, `PaidAtMostOnce`, `ResolvedTermsFrozen` |
| `v2_operated` | `OperatedSpec` | 2 rounds, 2 wallets, donations, gifts; reveals that are right, wrong, split elsewhere, too long | `ClaimedWithinPool`, `Solvent`, `SnapshotCovered`, `Conservation`, `ImplementsPrizePool` |
| `v2_liveness` | `HousekeptSpec` | 2 rounds, 2 wallets whose shares leave dust, two fees, two cutoffs, a commitment that cannot be revealed, pools that overflow the split | `RoundsGetResolved`, `ResolvedRoundsGetClosed`, `AccountsGetClosed` |
| `v1_overlap` | `Spec` | 3 rounds that may overlap, fresh and old deployments | `TypeOK`, `DepositsBackTotal`, `ResolvedForGood` |
| `v1_operated` | `HousekeptSpec` | 2 rounds, gifts, fresh and old deployments, an unrevealable commitment | `Conservation`, `ExpiryKeepsRollover`, `ImplementsPrizePool`, `RoundsGetResolved`, `DepositsGetClosed` |
| `tp_round` | `Spec` | 1 round, 3 players, 2 tiers, at most 2 deposits each, u16 counter scaled to 2, 2 authorities | `TypeOK`, `PositionsBackPools`, `PaidByStake` |
| `tp_reserve` | `Spec` | 2 rounds that may overlap, 2 players, gifts | `Conservation`, `ClaimsWithinShare`, `ClaimWindowKept`, `ImplementsPrizePool` |
| `tp_liveness` | `AutoClaimSpec` | 2 rounds, 2 players | `RoundsGetFinished`, `PositionsGetClosed` |
| `v2_claim_after_sweep` | `SequentialSpec` | 1 round, 2 wallets | violates `SweptNothingPayable` |
| `v2_overlap_locked` | `UnattendedSpec` | 4 rounds | violates `RoundsGetResolved` |
| `v2_answer` | `OperatedSpec` | 1 round, texts that may contain the separator | violates `AnswerFixed` |
| `tp_stake` | `Spec` | 1 round, 2 players | violates `WinnersKeepStake` |

What they show:

- *V2, whatever the authority does* (`v2_overlap`): while a round is Active its counters
  agree with its entry and evidence accounts; after it is resolved nothing of its
  terms moves, neither its counters nor the answer nor the pool; the wallets of a round never receive more than its evidence pool, and
  each is paid at most once, even when its account (and with it the claimed flag) is
  closed in between. No stored u64 goes below zero, and an expiry never takes from
  the rollover, also when another round was settled since the snapshot: that is what
  `saturating_sub` and the split of deposits alone buy.
- *V2, operated as documented* (`v2_operated`): every lamport of the vault is rent,
  rollover, a round's or a gift, with donations and gifts at any time; the vault always
  covers the Active round's whole pool and every payable share above its real rent, so
  neither `VaultInsolvent` nor the runtime's rent check can refuse a payout that is due;
  and the vault moves as `PrizePool` says. What overlapping rounds do to these books is
  no part of this run: they fail then, see `v2_overlap_locked`.
- *V2, left alone and housekept* (`v2_liveness`): every round is resolved, also one
  that the authority can never reveal and one whose pool is so large that `settle`'s
  multiplication overflows: `force_expire` multiplies the deposits alone, which still
  fit. (`MAX_U64 = 124000` makes 24 lamports the largest pool that `settle` can split and
  26 the largest deposits that an expiry can; an entry of 21 on top of a rollover, or one
  of 25, passes the first.) Every resolved round gets closed, whichever wallets hold its
  YES answers: an entry of 21 leaves an evidence pool of 3, two wallets with one answer each
  are paid 1 each, and the third lamport can only reach
  `evidence_pool == evidence_claimed` by the sweep. No entry or evidence account is left
  behind with its rent. The last two depend on the order of cleanup, which the program
  leaves to its backend: after `close_v2_round` the accounts that are left can no longer
  be closed.
- *V1, whatever the authority does* (`v1_overlap`): three overlapping rounds can drain
  the vault to nothing, and still no u64 goes negative; the deposit accounts back the
  total the payout is computed from, through repeated deposits and across the
  migration; a resolved round stays as it was, and its id is never used again.
- *V1, operated* (`v1_operated`): assigning the rollover from the round's copy loses
  nothing when rounds come one at a time, not even with a `migrate` while a round is
  Active; an expiry never lowers it; every round is resolved although the authority
  need not reveal anything; every deposit account is closed.
- *Two Pills, whatever the authority does* (`tp_round`, `tp_reserve`): an Active
  round's pools and player counts are those of its positions, up to the saturation
  of the counter; equal stakes are paid equally and larger ones no less, in whatever
  order the claims come; the vault's lamports are exactly rent, reserve, open
  obligations and gifts, also with overlapping rounds, because `create_round`
  takes the seeds out of the reserve; and for the whole window after a settlement no
  unpaid winner can be refused, neither for lack of lamports nor by a sweep.
- *Two Pills, attended* (`tp_liveness`): an empty round expires, seeds or not, any
  other can be settled for some side, every settled round can be swept, and every
  position closed.

### Disagreements between code and documentation

- `v2_claim_after_sweep`. The comment in `sweep_v2_evidence` and
  `evidence-system.md:138` say that the sweep marks all evidence as claimed. It
  only writes the round; the evidence accounts keep `claimed = false` and
  `claim_v2_evidence` still pays them.
- `v2_overlap_locked`. The V2 `security-model.md:91` guarantees that funds cannot be
  locked when the authority goes offline. After three overlapping rounds that
  counted the same rollover in were settled, the vault is too poor for the fourth:
  `force_expire` is refused with `VaultInsolvent` until somebody adds lamports. The
  cause is that `create_round` does not ask that the previous round be resolved; the
  vault equation of `pda-accounts.md:207`, stated without condition, fails for the
  same reason. (The comment in `settle` about a prior round's settlement shows that
  the authors know of overlaps; `saturating_sub` avoids the panic, not the shortfall.)
- `v2_answer`. V2 `security-model.md:18` guarantees that the answer cannot be changed
  after players enter (line 10 gives the commitment as the mitigation). Answer and salt
  are joined by a colon that both may contain, and neither `create_round` nor the reveal
  keeps it out: `a:a:a` is the answer `a` with the salt `a:a` and the answer `a:a` with
  the salt `a`. V1 has the same check and the same promise
  (`alons-box/security-model.md:18`, `commit-reveal.md:115`). What remains true is the
  theorem `OneOpening` below.
- `tp_stake`. The repository's `README.md:125` promises winners the full stake back
  and a share besides. `claim` pays a share of 70 per cent of both pools and nothing
  else (its comment says so), which is less than the stake unless the losing side
  holds 3/7 of the winning one.

Met while modelling, without a run of their own:

- `README.md:225` lists `close_position` as an instruction of the authority; the
  code asks for the player's signature.
- `README.md:73` says that 95 per cent of an expired V1 round stays in the vault;
  `expire` pays a buyback of 47.5 per cent out of it.
- V1 `security-model.md:143` (and test T091) say that an expiry fully preserves the
  previous rollover. With overlapping rounds it overwrites what another round left;
  `ExpiryKeepsRollover` of V1 holds only for rounds one at a time.
- V1 `security-model.md:109` promises the emergency exit without condition; with an
  end time within a day of `i64::MAX`, which `create_round` accepts, the deadline
  overflows and only the authority can resolve the round.
- V1 `security-model.md:119` says that the rent of deposit accounts is recoverable;
  after `close_round` the deposit accounts that are left can no longer be closed.
- `tests/two-pills.ts:663` names a test "winners get stake back only"; a lone side is
  paid 70 per cent of the pools.

### Bounds

| constant | bounds | why it is enough |
|---|---|---|
| `MAX_ROUNDS` | rounds created | two rounds overlap or follow one another; rounds interact only through the vault and the rollover. Three in `v1_overlap`, which drains the vault; four in `v2_overlap_locked` |
| `MAX_YES` | YES answers per round | two give two wallets equal shares, with dust when the pool is odd, or one wallet all; the shares of any number of wallets round down one by one |
| `LAMPORT_SUPPLY` | lamports in the vault | lets the entries, a donation and a gift of an instance happen together |
| `LAST_START`, `MAX_CLOCK` | clock | a round can be created at the last start and still end, pass its grace period and be force-expired |
| `EMERGENCY_GRACE_SECS = 0`, `GRACE_SECS = 1` | | the deadline is strict, so it still lies one tick after the end |
| `MAX_I64` | V1 times | above every deadline of the runs, so that only `PastGrace`'s comparison counts; the overflow is described under the disagreements |
| `MAX_REVEAL_LEN` | 64 bytes in the code | 1 or 2 tokens, so that a commitment to something longer exists |
| `MAX_DEPOSITS`, `MAX_U16` | Two Pills counters | 255 and 65535 in the code; `tp_round` sets both to 2 so that they are reached |
| `SWEEP_WINDOW` | Two Pills claim window | 1 in the safety runs, so a claim can fall inside and outside of it; 0 in `tp_liveness`, where the strict comparison still leaves a tick |
| `MIN_NRR_SEED = 3` | Two Pills | a settled round of two players returns 4 lamports, enough to seed the next |
| `MAX_U64` | u64 | 2000000000 is above every value an instance reaches, and within TLC's integers; 124000 in `v2_liveness` is reached |

Symmetry between players is used in the passing runs that have several players and no
liveness property. Runs end where the clock and the ids end, so deadlock checking is off in
all of them: a game whose rounds are all closed has nothing left to do. In the
liveness runs every round can still reach its deadline before the clock stops; a
Two Pills round settled so late that the bound cuts off its window is left out of
`RoundsGetFinished`.

## What is proved

Everything below is proved for any number of rounds and players, any amounts,
durations, fees and bounds that satisfy the modules' named assumptions
(`V2Assumption`, `V1Assumption`, `PillsAssumption`, `MaxU64Assumption`).

Every safety property that a passing run checks, invariant or action property, is
stated by one of these theorems, for the specification of that run or one with more
behaviours, and so are the three refinements.

**Sums.** Totals are sums over rounds or over players: the community modules' fold
(`SumFunctionOnSet`). `LamportsProofs` proves about it what the other modules need: the
sum over a finite set is one of its terms plus the sum of the rest, whichever term that
is (`SumRemove`, `SumInsert`); changing one term changes the sum by the difference
(`SumChangeOne`); no term of a sum of naturals exceeds it. The library's induction
theorems cannot be instantiated by the provers at hand, so the fold's recursion is
unrolled on a smallest subset that would be a counterexample (`MinimalSubset`). Cuts of
50, 15 and 5 per cent (or 47.5 and 5, or 70, 25 and 5) of a natural number never add up
to more than it.

**V2, whatever the authority does** (`Spec`): `TypeCorrect`; `PaidOnce`, from the
invariant `TermsInv` (a wallet that was paid has either no evidence account or a
claimed one, and its round is Settled or Closed; recording a new account needs an
Active round, and a round becomes Active only under an id never used before);
`TermsFrozen` (`RoundWrites` lists the ways one step may write one round, and for a
resolved one only the pay-down of its pool and its closing remain); `RolloverKept`
(`rollover_in + deposits - outgoing` is at least `rollover_in`, and `saturating_sub`
adds whatever the current rollover has above it).

`OneOpening` says how far a commitment binds, for texts of any length: one to an answer
without the separator opens with nothing else, unless the separator is both in the
committed salt and in the other answer. An answer that contains it is not bound: what
precedes the separator opens the commitment as well. Nothing is assumed of what `create_round` accepts, and run `v2_answer`
shows the excluded case.

*The accounts behind a round.* `EvidenceInv` adds to `TermsInv` that an Active round's
deposits, entry count, YES answers and evidence count are the sums and counts of its
accounts, and, for a Settled round, `PoolCovers`: the answers times what was paid plus
the pool times the answers still owed is at most pool times answers. A share rounded
down preserves it, closing an account or sweeping cannot break it, and with nothing
owed it bounds what was paid by the pool. That an id never used has no accounts is part
of the invariant; it is what makes a new round start from zero. `EntriesBack`,
`AnswersTallied` and `PayoutsWithin` follow.

**V2, rounds one at a time** (`SequentialSpec`): `SequentialInvariant`, where
`SequentialInv` is `TypeOK /\ Bookkeeping /\ SnapshotCovered /\ Conservation`.
`Conservation` is not inductive alone: `settle` pays the pool out of `rollover_in`, and
the new rollover is right only if the snapshot is still covered; that in turn
survives a payout only because no second Active round holds a snapshot, and a closed
round leaves the sum only because its pool was accounted for, which `Bookkeeping` says
together with the order of ids. Each instruction is one lemma that says by how much
the vault, the rollover and one round's holding move (`RoundStep`).
`LamportsConserved` and `SnapshotsCovered` are its two interesting conjuncts. The first
is also the exact condition under which the documented equation holds; it includes a
claim after the sweep, which makes the round's term negative: the same lamports are
rollover and were paid, and the books show the debt.

**V2, operated as documented** (`OperatedSpec`): `OperatedInv` is `SequentialInv` and
`EvidenceInv` with `PaidOrSwept`: `evidence_claimed` is what was paid, or it is the whole
pool and nobody is left to be paid. This is where the order of cleanup counts: a sweep
before the last claim breaks it (`v2_claim_after_sweep`). With `PoolCovers` it gives
`ShareWithinRest`, a payable share is at most what is left of the pool; then
`ClaimsWithin`, `AlwaysSolvent` (by `Conservation` the vault holds rent, rollover and
every round's holding, and each share and the Active round's pool is part of that), and
`Implements`: a share comes out of the round's own pot, the rollover handed to a round is
its snapshot, and settlement, sweep and expiry give back what is left. `ExitIsOpen` is
what the liveness of `force_expire` rests on: its payout meets every guard for any Active
round whose deposits its own multiplication can split. (`v2_overlap_locked` shows the
same guard failing when rounds overlap.)

**The abstract pool**: `PoolCovered`, every lamport held belongs to the reserve or to
one pot and nothing is negative.

**V1**: `TypeCorrect` for `Spec` (the vault is never overdrawn, though nothing in the
program looks at it), and `RoundsUsedOnce` (`ResolvedForGood`), from the invariant that
no round exists above the current id (`IdsInv`), which a migration keeps too.
`DepositsBacked` adds `BackedRound`: an Active round's total is the sum over its deposit
accounts, whose set grows with each new player, and an id never used has none. For
`SequentialSpec` the invariant `SequentialInv` adds
`OneActive`, the order of ids, what holds before deployment and migration, and
`ActiveCopy`: the copy an Active round took is all of the rollover, or more (after a
`migrate`). From it `ExpiryKeeps`, and `Implements`: initial states map to initial
states, and each instruction to an action of the pool or a stutter. `Conserved` is then
not proved again: it is `PoolCovered` of the mapped state. With it `ExitIsOpen`: the vault
can pay `emergency_expire` of every Active round; what can still refuse it is a deadline or
a multiplication that overflows.

**Two Pills** (all for `Spec`): `TypeCorrect` and `Conserved` from `PillsInv`, which needs
no discipline of the authority, since `create_round` takes the seeds out of the
reserve. `ClaimsInv` adds `ShareCovers`: the winners' share times the stakes still owed is
at most what is left of the share times the winning pool. A payout that is rounded
down preserves it, whatever the order, and it gives both `ClaimsWithin` and the lamports
for the next claim. It needs that an Active round's pools are seeds plus deposits.
`PositionsBack` says that by itself and adds the player counts (`CountsInv`): a player
joins a side once, and the counter is the number of its members up to `MAX_U16`. `Implements`
follows, and with `PaidInv` also `PaidInProportion` (a payout is a monotone function of
the stake, and the cut to 64 bits never bites) and `WindowKept`: until the window is
over, an unpaid winner's claim meets every guard of the handler. `RoundsCanEnd` says the same of
`expire`, `settle` and `sweep_unclaimed`: no number in them can fail, but for the split of
a pool above 2^64 / 2000.

Only model-checked: liveness, that is `RoundsGetResolved`, `ResolvedRoundsGetClosed` and
`AccountsGetClosed` of V2, `RoundsGetResolved` and `DepositsGetClosed` of V1,
`RoundsGetFinished` and `PositionsGetClosed` of Two Pills. Fairness and `ENABLED` are out
of the prover's reach; `ExitIsOpen` and `RoundsCanEnd` state the guards instead.

## Not modelled

- `lib.rs`, errors and events of the three programs: they forward to the handlers and
  report; no state depends on them. Scripts send one transaction each, which is an
  action here; tests are evidence of intent.
- The backend. Its discipline is stated as the restricted specifications and the
  fairness above; whether it keeps it cannot be seen in this repository.
- Width of signed times, except V1's deadline: the durations of V2 and Two Pills are
  added to the clock, and a clock near the end of i64 is not reachable. A negative
  elapsed time in V2's fee would need a clock that runs backwards.
- The rent of accounts other than the vault, and the identity of keys: an account
  constraint on a key decides who signs, never what is paid to whom in the model.
- Instruction encoding and compute limits.

## Plan

1. Two Pills: that a settled round has `settled_at > 0`, so that `RoundsCanEnd` covers all
   of `sweep_unclaimed`'s guards.
2. The condition under which V2's `Solvent` survives overlapping rounds.
3. V2: which evidence and entry accounts can still be closed after `OperatedSpec`'s
   cleanup, as safety theorems behind `AccountsGetClosed`.
