--------------------------- MODULE TwoPillsProofs ---------------------------
(***************************************************************************)
(* Theorems about TwoPills, for any number of rounds and players, any      *)
(* tiers, gifts, windows and bounds, whatever the authority does: types    *)
(* and the conservation of lamports.                                       *)
(***************************************************************************)
EXTENDS TwoPills, LamportsProofs

\* A round and its positions agree as far as settle and expire depend on it: a
\* side somebody is on is counted, and a side nobody is on holds its seed only.
\* Only a settled round is swept.
RoundOK(r) ==
    /\ r > game.round_counter => Is(r, "None")
    /\ Is(r, "None") => \A p \in Players : positions[r][p].side = "None"
    /\ Is(r, "Active") => \A s \in Sides :
          /\ \A p \in Players : positions[r][p].side = s => rounds[r].players[s] > 0
          /\ rounds[r].players[s] = 0 => rounds[r].pool[s] = rounds[r].seed
    /\ Is(r, "Active") => ~rounds[r].swept
    /\ Is(r, "Settled") => rounds[r].winner \in Sides

\* Before initialize there is nothing.
Undeployed ==
    ~game.initialized => /\ game.round_counter = 0 /\ game.nrr_balance = 0
                         /\ vault = 0 /\ gifts = 0

PillsInv == TypeOK /\ Undeployed /\ \A r \in RoundIds : RoundOK(r)

-----------------------------------------------------------------------------
\* The numbers of a round account.
LEMMA RoundFields ==
    ASSUME TypeOK, NEW r \in RoundIds
    PROVE  /\ rounds[r] \in RoundType
           /\ \A s \in Sides : rounds[r].pool[s] \in Nat /\ rounds[r].players[s] \in Nat
           /\ rounds[r].total_claimed \in Nat /\ rounds[r].seed \in Nat
           /\ TotalPool(r) \in Nat
           /\ game.nrr_balance \in Nat /\ game.round_counter \in Nat
BY DEF TypeOK, RoundType, GameType, TotalPool, Sides

\* Treasury and reserve never take more than the pools.
LEMMA SplitBounds ==
    ASSUME TypeOK, NEW r \in RoundIds
    PROVE  /\ TreasuryAmount(r) \in Nat /\ NrrAmount(r) \in Nat /\ WinnersShare(r) \in Nat
           /\ WinnersShare(r) = TotalPool(r) - TreasuryAmount(r) - NrrAmount(r)
<1> DEFINE pool == TotalPool(r)
<1>1. /\ TreasuryAmount(r) = (pool * 1000) \div 10000
      /\ NrrAmount(r) = (pool * 2000) \div 10000
      /\ WinnersShare(r) = pool - TreasuryAmount(r) - NrrAmount(r)
  BY DEF TreasuryAmount, NrrAmount, WinnersShare, BpsCut, BPS_TOTAL, TREASURY_BPS, NRR_BPS
<1>2. pool \in Nat
  BY RoundFields
<1> HIDE DEF pool
<1>3. /\ TreasuryAmount(r) \in Nat /\ NrrAmount(r) \in Nat
      /\ TreasuryAmount(r) + NrrAmount(r) <= pool
  BY <1>1, <1>2, SMT
<1> QED BY <1>1, <1>2, <1>3 DEF pool

\* A payout is a natural number, whatever it is cut back to.
LEMMA PayoutType ==
    ASSUME PillsInv, NEW r \in RoundIds, NEW p \in Players, Is(r, "Settled")
    PROVE  Payout(r, p) \in Nat
<1> DEFINE winner_pool == rounds[r].pool[rounds[r].winner]
           stake == positions[r][p].total_deposited
           share == WinnersShare(r)
<1>1. winner_pool \in Nat /\ share \in Nat /\ stake \in Nat
  BY RoundFields, SplitBounds DEF PillsInv, RoundOK, TypeOK, PositionType
<1>2. Payout(r, p) = IF winner_pool > 0
                     THEN ((stake * share) \div winner_pool) % (MAX_U64 + 1) ELSE 0
  BY DEF Payout
<1> HIDE DEF winner_pool, stake, share
<1>3. stake * share \in Nat
  BY <1>1, SMT
<1>4. ASSUME winner_pool > 0
      PROVE  ((stake * share) \div winner_pool) % (MAX_U64 + 1) \in Nat
  <2>1. (stake * share) \div winner_pool \in Nat
    BY <1>1, <1>3, <1>4, DivNat
  <2>2. MAX_U64 + 1 \in Nat \ {0}
    BY MaxU64Assumption
  <2> DEFINE q == (stake * share) \div winner_pool
             m == MAX_U64 + 1
  <2> HIDE DEF q, m
  <2>3. q \in Nat /\ m \in Nat \ {0} => q % m \in Nat
    BY SMT
  <2> QED BY <2>1, <2>2, <2>3 DEF q, m
<1> QED BY <1>1, <1>2, <1>4

\* What leaves the vault is there.
LEMMA PaidFromVault ==
    ASSUME TypeOK, NEW amount \in Nat, VaultCanPay(amount)
    PROVE  vault - amount \in Nat
BY PillsAssumption DEF TypeOK, VaultCanPay

\* Half of the reserve seeds each side; an odd lamport stays.
LEMMA SeedBounds ==
    ASSUME TypeOK
    PROVE  /\ HalfSeed \in Nat /\ ReserveAfterSeeding \in Nat
           /\ game.nrr_balance - ReserveAfterSeeding = HalfSeed + HalfSeed
<1>1. game.nrr_balance \in Nat
  BY DEF TypeOK, GameType
<1> DEFINE nrr == game.nrr_balance
<1> HIDE DEF nrr
<1>2. nrr \in Nat => /\ nrr \div 2 \in Nat /\ nrr - 2 * (nrr \div 2) \in Nat
                     /\ nrr - (nrr - 2 * (nrr \div 2)) = nrr \div 2 + nrr \div 2
  BY SMT
<1> QED BY <1>1, <1>2 DEF HalfSeed, ReserveAfterSeeding, nrr

-----------------------------------------------------------------------------
LEMMA NoRoundType == NoRound \in RoundType
BY PillsAssumption DEF NoRound, RoundType, Sides

LEMMA InitPillsInv == Init => PillsInv
<1> SUFFICES ASSUME Init PROVE PillsInv
  OBVIOUS
<1>1. NoRound \in RoundType
  BY NoRoundType
<1>2. NoPosition \in PositionType
  BY PillsAssumption DEF NoPosition, PositionType
<1>3. TypeOK
  BY <1>1, <1>2 DEF Init, TypeOK, GameType
<1>4. \A r \in RoundIds : Is(r, "None")
  BY DEF Init, Is, NoRound
<1>5. \A r \in RoundIds, p \in Players : positions[r][p].side = "None"
  BY DEF Init, NoPosition
<1>6. \A r \in RoundIds : RoundOK(r)
  BY <1>4, <1>5 DEF RoundOK, Is
<1> QED BY <1>3, <1>6 DEF PillsInv, Undeployed, Init

\* Writing one round account with a value of the right type.
LEMMA WriteRound ==
    ASSUME TypeOK, NEW r \in RoundIds, NEW new \in RoundType,
           rounds' = [rounds EXCEPT ![r] = new]
    PROVE  /\ rounds' \in [RoundIds -> RoundType]
           /\ rounds'[r] = new
           /\ \A q \in RoundIds : q # r => rounds'[q] = rounds[q]
BY DEF TypeOK

\* Writing one position.
LEMMA WritePosition ==
    ASSUME TypeOK, NEW r \in RoundIds, NEW p \in Players, NEW new \in PositionType,
           positions' = [positions EXCEPT ![r][p] = new]
    PROVE  /\ positions' \in [RoundIds -> [Players -> PositionType]]
           /\ positions'[r][p] = new
           /\ \A q \in RoundIds, w \in Players :
                 q # r \/ w # p => positions'[q][w] = positions[q][w]
BY DEF TypeOK

\* A round whose account is not written, and whose positions change no side
\* except by closing.
LEMMA OthersOK ==
    ASSUME PillsInv, NEW q \in RoundIds, rounds'[q] = rounds[q],
           \A p \in Players : positions'[q][p].side \in {positions[q][p].side, "None"},
           game'.round_counter \in {game.round_counter, game.round_counter + 1}
    PROVE  RoundOK(q)'
<1>1. game.round_counter \in Nat /\ q \in Nat
  BY DEF PillsInv, TypeOK, GameType, RoundIds
<1>2. RoundOK(q)
  BY DEF PillsInv
<1>3. q > game'.round_counter => q > game.round_counter
  BY <1>1
<1>4. \A s \in Sides : s # "None"
  BY DEF Sides
<1> QED BY <1>2, <1>3, <1>4 DEF RoundOK, Is

\* What most steps leave alone.
LEMMA QuietInv ==
    ASSUME PillsInv, TypeOK', rounds' = rounds, Undeployed',
           \A r \in RoundIds, p \in Players :
              positions'[r][p].side \in {positions[r][p].side, "None"},
           game'.round_counter = game.round_counter
    PROVE  PillsInv'
BY OthersOK DEF PillsInv

LEMMA CreateRoundInv ==
    ASSUME PillsInv, NEW d \in Durations, CreateRound(d)
    PROVE  PillsInv'
<1>0. PICK id \in RoundIds : id = game.round_counter + 1
  BY DEF CreateRound
<1> DEFINE new == [NoRound EXCEPT !.status = "Active",
                      !.pool = [s \in Sides |-> HalfSeed], !.seed = HalfSeed,
                      !.ends_at = clock + d]
<1>1. /\ game.initialized
      /\ game' = [game EXCEPT !.nrr_balance = ReserveAfterSeeding, !.round_counter = id]
      /\ rounds' = [rounds EXCEPT ![id] = new]
      /\ UNCHANGED <<clock, positions, vault, received, gifts>>
  BY <1>0 DEF CreateRound
<1>2. TypeOK /\ game \in GameType /\ clock \in Nat /\ d \in Nat /\ id \in Nat
  BY PillsAssumption DEF PillsInv, TypeOK, RoundIds
<1>3. HalfSeed \in Nat /\ ReserveAfterSeeding \in Nat
  BY <1>2, SeedBounds
<1>4. new \in RoundType
  <2> DEFINE pools == [s \in Sides |-> HalfSeed]
             ends_at == clock + d
  <2>1. pools \in [Sides -> Nat] /\ ends_at \in Nat /\ NoRound \in RoundType
    BY <1>2, <1>3, NoRoundType
  <2>2. new = [NoRound EXCEPT !.status = "Active", !.pool = pools, !.seed = HalfSeed,
                              !.ends_at = ends_at]
    OBVIOUS
  <2> HIDE DEF pools, ends_at, new
  <2> QED BY <1>3, <2>1, <2>2 DEF RoundType
<1>5. /\ new.status = "Active"
      /\ \A s \in Sides : new.pool[s] = HalfSeed /\ new.seed = HalfSeed
      /\ ~new.swept
  BY DEF NoRound
<1> HIDE DEF new
<1>6. /\ rounds' \in [RoundIds -> RoundType] /\ rounds'[id] = new
      /\ \A q \in RoundIds : q # id => rounds'[q] = rounds[q]
  BY <1>1, <1>2, <1>4, WriteRound
<1>7. game' \in GameType /\ game'.round_counter = id /\ game'.initialized
  BY <1>1, <1>2, <1>3 DEF GameType
<1>8. TypeOK'
  BY <1>1, <1>2, <1>6, <1>7 DEF TypeOK
<1>9. Undeployed'
  BY <1>7 DEF Undeployed
<1>10. RoundOK(id)'
  <2>1. Is(id, "None")
    BY <1>0, <1>2 DEF PillsInv, RoundOK, GameType
  <2>2. \A p \in Players : positions'[id][p].side = "None"
    BY <1>1, <2>1 DEF PillsInv, RoundOK
  <2>3. \A s \in Sides : s # "None"
    BY DEF Sides
  <2>4. ~ (id > game'.round_counter)
    BY <1>2, <1>7
  <2> QED BY <1>5, <1>6, <2>2, <2>3, <2>4 DEF RoundOK, Is
<1>11. ASSUME NEW q \in RoundIds, q # id PROVE RoundOK(q)'
  BY <1>0, <1>1, <1>6, <1>7, <1>11, OthersOK
<1> QED BY <1>8, <1>9, <1>10, <1>11 DEF PillsInv

LEMMA DepositInv ==
    ASSUME PillsInv, NEW r \in RoundIds, NEW p \in Players, NEW side \in Sides,
           NEW a \in Tiers, Deposit(r, p, side, a)
    PROVE  PillsInv'
<1> DEFINE first == positions[r][p].side = "None"
           pool == rounds[r].pool[side] + a
           count == IF first /\ rounds[r].players[side] < MAX_U16
                    THEN rounds[r].players[side] + 1 ELSE rounds[r].players[side]
           pools == [rounds[r].pool EXCEPT ![side] = pool]
           counts == [rounds[r].players EXCEPT ![side] = count]
           new == [rounds[r] EXCEPT !.pool = pools, !.players = counts]
           old == positions[r][p]
           side_now == IF first THEN side ELSE old.side
           total == old.total_deposited + a
           number == old.num_deposits + 1
           position == [old EXCEPT !.side = side_now, !.total_deposited = total,
                                   !.num_deposits = number]
<1>1. /\ Is(r, "Active") /\ SideFree(r, p, side) /\ MayDeposit(r, p)
      /\ vault' = vault + a
      /\ positions' = [positions EXCEPT ![r][p] = position]
      /\ UNCHANGED <<clock, game, received, gifts>>
  <2>1. /\ Is(r, "Active") /\ SideFree(r, p, side) /\ MayDeposit(r, p)
        /\ vault' = vault + a /\ UNCHANGED <<clock, game, received, gifts>>
    BY DEF Deposit
  <2>2. positions' = [positions EXCEPT ![r][p] =
              [old EXCEPT !.side = IF first THEN side ELSE @,
                          !.total_deposited = @ + a,
                          !.num_deposits = @ + 1]]
    BY Zenon DEF Deposit
  <2>3. positions' = [positions EXCEPT ![r][p] = position]
    BY <2>2, Zenon
  <2> QED BY <2>1, <2>3
<1>2. /\ TypeOK /\ Undeployed /\ RoundOK(r) /\ rounds \in [RoundIds -> RoundType]
      /\ rounds[r] \in RoundType /\ positions[r][p] \in PositionType /\ a \in Nat \ {0}
      /\ vault \in Nat /\ game \in GameType
  BY PillsAssumption DEF PillsInv, TypeOK
<1>3. /\ rounds[r].pool \in [Sides -> Nat] /\ rounds[r].players \in [Sides -> 0..MAX_U16]
      /\ MAX_U16 \in Nat \ {0} /\ MAX_DEPOSITS \in Nat
  BY <1>2, PillsAssumption DEF RoundType
<1>4. rounds' = [rounds EXCEPT ![r] = new]
  BY <1>2, <1>3 DEF Deposit, RoundType
<1>5. pool \in Nat /\ count \in 0..MAX_U16
  BY <1>2, <1>3
<1>6. count > 0
  <2>1. CASE first
    BY <1>3, <2>1
  <2>2. CASE ~ first
    <3>1. positions[r][p].side = side
      BY <1>1, <2>2 DEF SideFree
    <3>2. rounds[r].players[side] > 0
      BY <1>1, <1>2, <3>1 DEF RoundOK
    <3> QED BY <1>3, <2>2, <3>2
  <2> QED BY <2>1, <2>2
<1> HIDE DEF pool, count
<1>7. /\ new \in RoundType /\ new.status = "Active" /\ new.seed = rounds[r].seed
      /\ new.swept = rounds[r].swept
      /\ new.players[side] > 0
      /\ \A s \in Sides : s # side => /\ new.pool[s] = rounds[r].pool[s]
                                      /\ new.players[s] = rounds[r].players[s]
  BY <1>1, <1>2, <1>3, <1>5, <1>6 DEF RoundType, Is
<1>8. position \in PositionType /\ position.side = side
  <2>1. side_now = side
    BY <1>1 DEF SideFree
  <2>2. total \in Nat /\ number \in 0..MAX_DEPOSITS
    BY <1>1, <1>2, <1>3 DEF PositionType, MayDeposit
  <2> HIDE DEF side_now, total, number
  <2> QED BY <1>2, <2>1, <2>2 DEF PositionType
<1> HIDE DEF new, position
<1>9. /\ rounds' \in [RoundIds -> RoundType] /\ rounds'[r] = new
      /\ \A q \in RoundIds : q # r => rounds'[q] = rounds[q]
  BY <1>2, <1>4, <1>7, WriteRound
<1>10. /\ positions' \in [RoundIds -> [Players -> PositionType]]
       /\ positions'[r][p] = position
       /\ \A q \in RoundIds, w \in Players :
             q # r \/ w # p => positions'[q][w] = positions[q][w]
  BY <1>1, <1>2, <1>8, WritePosition
<1>11. TypeOK'
  BY <1>1, <1>2, <1>9, <1>10 DEF TypeOK
<1>12. Undeployed'
  <2>1. game.initialized
    <3>1. game.round_counter >= r \/ ~ Is(r, "None")
      BY <1>1 DEF Is
    <3>2. ~ (r > game.round_counter)
      BY <1>1, <1>2 DEF RoundOK, Is
    <3> QED BY <1>2, <3>2 DEF Undeployed, RoundIds, GameType
  <2> QED BY <1>1, <2>1 DEF Undeployed
<1>13. RoundOK(r)'
  <2>1. ~ (r > game'.round_counter)
    BY <1>1, <1>2 DEF RoundOK, Is
  <2>2. position.side = side
    BY <1>8
  <2>3. \A s \in Sides, w \in Players :
           positions'[r][w].side = s => new.players[s] > 0
    BY <1>1, <1>2, <1>7, <1>10, <2>2 DEF RoundOK
  <2>4. \A s \in Sides : new.players[s] = 0 => new.pool[s] = new.seed
    BY <1>1, <1>2, <1>3, <1>7 DEF RoundOK
  <2>5. ~new.swept
    BY <1>1, <1>2, <1>7 DEF RoundOK
  <2> QED BY <1>7, <1>9, <2>1, <2>3, <2>4, <2>5 DEF RoundOK, Is
<1>14. ASSUME NEW q \in RoundIds, q # r PROVE RoundOK(q)'
  BY <1>1, <1>9, <1>10, <1>14, OthersOK
<1> QED BY <1>11, <1>12, <1>13, <1>14 DEF PillsInv

\* A step that only resolves, pays or sweeps a round that is not Active after it.
LEMMA ResolvedInv ==
    ASSUME PillsInv, NEW r \in RoundIds, NEW new \in RoundType, ~ Is(r, "None"),
           rounds' = [rounds EXCEPT ![r] = new],
           new.status \in {"Settled", "Expired"},
           new.status = "Settled" => new.winner \in Sides,
           NEW nrr \in Nat, game' = [game EXCEPT !.nrr_balance = nrr],
           vault' \in Nat, clock' = clock, gifts' = gifts,
           positions' \in [RoundIds -> [Players -> PositionType]],
           received' \in [RoundIds -> [Players -> Nat]],
           \A q \in RoundIds, p \in Players : positions'[q][p].side = positions[q][p].side
    PROVE  PillsInv'
<1>1. TypeOK /\ game \in GameType /\ clock \in Nat /\ gifts \in Nat /\ RoundOK(r)
  BY DEF PillsInv, TypeOK
<1>2. /\ rounds' \in [RoundIds -> RoundType] /\ rounds'[r] = new
      /\ \A q \in RoundIds : q # r => rounds'[q] = rounds[q]
  BY <1>1, WriteRound
<1>3. /\ game' \in GameType /\ game'.round_counter = game.round_counter
      /\ game'.initialized = game.initialized
  BY <1>1 DEF GameType
<1>4. TypeOK'
  BY <1>1, <1>2, <1>3 DEF TypeOK
<1>5. ~ (r > game.round_counter)
  BY <1>1 DEF RoundOK
<1>6. game.initialized
  BY <1>1, <1>5 DEF PillsInv, Undeployed, RoundIds, GameType
<1>7. Undeployed'
  BY <1>3, <1>6 DEF Undeployed
<1>8. RoundOK(r)'
  BY <1>2, <1>3, <1>5 DEF RoundOK, Is
<1>9. ASSUME NEW q \in RoundIds, q # r PROVE RoundOK(q)'
  BY <1>2, <1>3, <1>9, OthersOK
<1> QED BY <1>4, <1>7, <1>8, <1>9 DEF PillsInv

LEMMA SettleInv ==
    ASSUME PillsInv, NEW r \in RoundIds, NEW side \in Sides, Settle(r, side)
    PROVE  PillsInv'
<1> DEFINE nrr == game.nrr_balance + NrrAmount(r)
           treasury == TreasuryAmount(r)
           returned == NrrAmount(r)
           new == [rounds[r] EXCEPT !.status = "Settled", !.winner = side,
                      !.total_claimed = 0, !.treasury_paid = treasury,
                      !.nrr_returned = returned, !.settled_at = clock]
<1>1. /\ Is(r, "Active") /\ VaultCanPay(treasury) /\ vault' = vault - treasury
      /\ game' = [game EXCEPT !.nrr_balance = nrr]
      /\ rounds' = [rounds EXCEPT ![r] = new]
      /\ UNCHANGED <<clock, positions, received, gifts>>
  BY DEF Settle
<1>2. TypeOK /\ rounds[r] \in RoundType /\ clock \in Nat
  BY DEF PillsInv, TypeOK
<1>3. treasury \in Nat /\ returned \in Nat /\ nrr \in Nat
  BY <1>2, RoundFields, SplitBounds
<1> HIDE DEF treasury, returned, nrr
<1>4. new \in RoundType /\ new.status = "Settled" /\ new.winner = side
  BY <1>2, <1>3 DEF RoundType
<1>5. vault' \in Nat /\ ~ Is(r, "None")
  BY <1>1, <1>2, <1>3, PaidFromVault DEF Is
<1> HIDE DEF new
<1> QED BY <1>1, <1>2, <1>3, <1>4, <1>5, ResolvedInv DEF TypeOK

LEMMA ExpireInv ==
    ASSUME PillsInv, NEW r \in RoundIds, Expire(r)
    PROVE  PillsInv'
<1> DEFINE nrr == game.nrr_balance + 2 * rounds[r].seed
           new == [rounds[r] EXCEPT !.status = "Expired"]
<1>1. /\ Is(r, "Active") /\ game' = [game EXCEPT !.nrr_balance = nrr]
      /\ rounds' = [rounds EXCEPT ![r] = new]
      /\ UNCHANGED <<clock, positions, vault, received, gifts>>
  BY DEF Expire
<1>2. TypeOK /\ rounds[r] \in RoundType
  BY DEF PillsInv, TypeOK
<1>3. nrr \in Nat
  BY <1>2, RoundFields
<1>4. new \in RoundType /\ new.status = "Expired" /\ ~ Is(r, "None")
  BY <1>1, <1>2 DEF RoundType, Is
<1> HIDE DEF new, nrr
<1> QED BY <1>1, <1>2, <1>3, <1>4, ResolvedInv DEF TypeOK

LEMMA ClaimInv ==
    ASSUME PillsInv, NEW r \in RoundIds, NEW p \in Players, Claim(r, p)
    PROVE  PillsInv'
<1> DEFINE pay == Payout(r, p)
           claimed == rounds[r].total_claimed + pay
           new == [rounds[r] EXCEPT !.total_claimed = claimed]
           position == [positions[r][p] EXCEPT !.claimed = TRUE]
           got == received[r][p] + pay
           nrr == game.nrr_balance
<1>1. /\ Is(r, "Settled") /\ VaultCanPay(pay) /\ vault' = vault - pay
      /\ UNCHANGED <<clock, game, gifts>>
  BY DEF Claim, Claimable, Unpaid
<1>2. /\ rounds' = [rounds EXCEPT ![r] = new]
      /\ positions' = [positions EXCEPT ![r][p] = position]
      /\ received' = [received EXCEPT ![r][p] = got]
  BY DEF Claim
<1>3. /\ TypeOK /\ rounds[r] \in RoundType /\ positions[r][p] \in PositionType
      /\ received \in [RoundIds -> [Players -> Nat]] /\ game \in GameType
      /\ rounds[r].status = "Settled" /\ rounds[r].winner \in Sides
  BY <1>1 DEF PillsInv, TypeOK, RoundOK, Is
<1>4. pay \in Nat
  BY <1>1, PayoutType
<1>5. claimed \in Nat /\ got \in Nat /\ nrr \in Nat
  BY <1>3, <1>4, RoundFields
<1> HIDE DEF pay
<1>6. vault' \in Nat /\ ~ Is(r, "None")
  BY <1>1, <1>3, <1>4, PaidFromVault DEF Is
<1> HIDE DEF claimed, got
<1>7. new \in RoundType /\ new.status = "Settled" /\ new.winner \in Sides
  BY <1>3, <1>5 DEF RoundType
<1>8. position \in PositionType /\ position.side = positions[r][p].side
  BY <1>3 DEF PositionType
<1>9. game' = [game EXCEPT !.nrr_balance = nrr]
  BY <1>1, <1>3 DEF GameType
<1> HIDE DEF new, position, nrr
<1>10. /\ positions' \in [RoundIds -> [Players -> PositionType]]
       /\ \A q \in RoundIds, w \in Players : positions'[q][w].side = positions[q][w].side
  BY <1>2, <1>3, <1>8, WritePosition
<1>11. received' \in [RoundIds -> [Players -> Nat]]
  BY <1>2, <1>3, <1>5
<1>12. clock' = clock /\ gifts' = gifts
  BY <1>1
<1> QED BY <1>2, <1>5, <1>6, <1>7, <1>9, <1>10, <1>11, <1>12, ResolvedInv

LEMMA SweepInv ==
    ASSUME PillsInv, NEW r \in RoundIds, SweepUnclaimed(r)
    PROVE  PillsInv'
<1> DEFINE unclaimed == WinnersShare(r) - rounds[r].total_claimed
           nrr == game.nrr_balance + unclaimed
           new == [rounds[r] EXCEPT !.swept = TRUE]
<1>1. /\ Is(r, "Settled") /\ unclaimed >= 0
      /\ game' = [game EXCEPT !.nrr_balance = nrr]
      /\ rounds' = [rounds EXCEPT ![r] = new]
      /\ UNCHANGED <<clock, positions, vault, received, gifts>>
  BY DEF SweepUnclaimed
<1>2. /\ TypeOK /\ rounds[r] \in RoundType
      /\ rounds[r].status = "Settled" /\ rounds[r].winner \in Sides
  BY <1>1 DEF PillsInv, TypeOK, RoundOK, Is
<1>3. nrr \in Nat
  BY <1>1, <1>2, RoundFields, SplitBounds
<1>4. new \in RoundType /\ new.status = "Settled" /\ new.winner \in Sides /\ ~ Is(r, "None")
  BY <1>2 DEF RoundType, Is
<1> HIDE DEF new, nrr, unclaimed
<1> QED BY <1>1, <1>2, <1>3, <1>4, ResolvedInv DEF TypeOK

LEMMA NextPillsInv ==
    ASSUME PillsInv, [Next]_vars
    PROVE  PillsInv'
<1>1. /\ TypeOK /\ Undeployed /\ game \in GameType /\ clock \in Nat /\ vault \in Nat
      /\ gifts \in Nat /\ positions \in [RoundIds -> [Players -> PositionType]]
  BY DEF PillsInv, TypeOK
<1>2. ASSUME NEW k \in Keys, Initialize(k) PROVE PillsInv'
  <2>1. /\ game' = [initialized |-> TRUE, authority |-> k, nrr_balance |-> 0,
                    round_counter |-> 0]
        /\ vault' = VAULT_RENT /\ game.round_counter = 0
        /\ UNCHANGED <<clock, rounds, positions, received, gifts>>
    BY <1>1, <1>2 DEF Initialize, Undeployed
  <2>2. game' \in GameType /\ vault' \in Nat /\ game'.round_counter = 0
        /\ game'.initialized
    BY <2>1, PillsAssumption DEF GameType
  <2>3. TypeOK' /\ Undeployed'
    BY <1>1, <2>1, <2>2 DEF TypeOK, Undeployed
  <2> QED BY <2>1, <2>2, <2>3, QuietInv
<1>3. ASSUME NEW k \in Keys, TransferAuthority(k) PROVE PillsInv'
  <2>1. /\ game' = [game EXCEPT !.authority = k] /\ game.initialized
        /\ UNCHANGED <<clock, rounds, positions, vault, received, gifts>>
    BY <1>3 DEF TransferAuthority
  <2>2. game' \in GameType /\ game'.round_counter = game.round_counter
        /\ game'.initialized
    BY <1>1, <2>1 DEF GameType
  <2>3. TypeOK' /\ Undeployed'
    BY <1>1, <2>1, <2>2 DEF TypeOK, Undeployed
  <2> QED BY <2>1, <2>2, <2>3, QuietInv
<1>4. ASSUME NEW r \in RoundIds, NEW p \in Players, ClosePosition(r, p) PROVE PillsInv'
  <2>1. /\ positions' = [positions EXCEPT ![r][p] = NoPosition]
        /\ UNCHANGED <<clock, game, rounds, vault, received, gifts>>
    BY <1>4 DEF ClosePosition, PositionClosable
  <2>2. NoPosition \in PositionType /\ NoPosition.side = "None"
    BY PillsAssumption DEF NoPosition, PositionType
  <2>3. /\ positions' \in [RoundIds -> [Players -> PositionType]]
        /\ positions'[r][p] = NoPosition
        /\ \A q \in RoundIds, w \in Players :
              q # r \/ w # p => positions'[q][w] = positions[q][w]
    BY <1>1, <2>1, <2>2, WritePosition
  <2>4. TypeOK' /\ Undeployed'
    BY <1>1, <2>1, <2>3 DEF TypeOK, Undeployed
  <2> QED BY <2>1, <2>2, <2>3, <2>4, QuietInv
<1>5. ASSUME NEW a \in Gifts, Gift(a) PROVE PillsInv'
  <2>1. /\ game.initialized /\ vault' = vault + a /\ gifts' = gifts + a /\ a \in Nat
        /\ UNCHANGED <<clock, game, rounds, positions, received>>
    BY <1>5, PillsAssumption DEF Gift
  <2>2. TypeOK' /\ Undeployed'
    BY <1>1, <2>1 DEF TypeOK, Undeployed
  <2> QED BY <2>1, <2>2, QuietInv
<1>6. ASSUME Tick PROVE PillsInv'
  <2>1. TypeOK' /\ Undeployed'
    BY <1>1, <1>6 DEF Tick, TypeOK, Undeployed
  <2> QED BY <1>6, <2>1, QuietInv DEF Tick
<1>7. ASSUME UNCHANGED vars PROVE PillsInv'
  <2>1. TypeOK' /\ Undeployed'
    BY <1>1, <1>7 DEF vars, TypeOK, Undeployed
  <2> QED BY <1>7, <2>1, QuietInv DEF vars
<1> QED BY <1>2, <1>3, <1>4, <1>5, <1>6, <1>7, CreateRoundInv, DepositInv, SettleInv,
        ExpireInv, ClaimInv, SweepInv DEF Next

\* Every account field keeps its Rust type, whatever the authority does and
\* however many rounds overlap: no payout, sweep or seeding takes the vault or
\* the reserve below zero.
THEOREM TypeCorrect == Spec => []TypeOK
<1>1. PillsInv /\ [Next]_vars => PillsInv'
  BY NextPillsInv
<1>2. PillsInv => TypeOK
  BY DEF PillsInv
<1> QED BY <1>1, <1>2, InitPillsInv, PTL DEF Spec

-----------------------------------------------------------------------------
(* Conservation.                                                           *)

\* What a round holds is a number (that it is never negative depends on the sum
\* of the payouts).
LEMMA HeldType ==
    ASSUME PillsInv
    PROVE  \A r \in RoundIds : Held(r) \in Int
<1> SUFFICES ASSUME NEW r \in RoundIds PROVE Held(r) \in Int
  OBVIOUS
<1>1. TotalPool(r) \in Nat /\ WinnersShare(r) \in Nat /\ rounds[r].total_claimed \in Nat
  BY RoundFields, SplitBounds DEF PillsInv
<1> QED BY <1>1 DEF Held

\* The books still balance when one round is written and what it holds moves
\* with vault, gifts and reserve.
LEMMA OneRoundBalances ==
    ASSUME PillsInv, PillsInv', Conservation, game.initialized, game'.initialized,
           NEW r \in RoundIds, \A q \in RoundIds : q # r => rounds'[q] = rounds[q],
           Held(r)' \in Int,
           vault' - vault = (gifts' - gifts)
                              + (game'.nrr_balance - game.nrr_balance)
                              + (Held(r)' - Held(r))
    PROVE  Conservation'
<1> DEFINE f == [q \in RoundIds |-> Held(q)]
           g == [q \in RoundIds |-> Held(q)]'
<1>1. \A q \in RoundIds : q # r => Held(q)' = Held(q)
  BY DEF Held, Is, TotalPool, WinnersShare, TreasuryAmount, NrrAmount
<1>2. /\ \A q \in RoundIds : Held(q) \in Int /\ Held(q)' \in Int
      /\ MAX_ROUNDS \in Nat
  BY <1>1, HeldType, PillsAssumption
<1>3. /\ \A q \in 1..MAX_ROUNDS : f[q] \in Int /\ g[q] \in Int
      /\ \A q \in 1..MAX_ROUNDS : q # r => g[q] = f[q]
      /\ f[r] = Held(r) /\ g[r] = Held(r)' /\ r \in 1..MAX_ROUNDS
  BY <1>1, <1>2 DEF RoundIds
<1>4. SumTo(Pots, MAX_ROUNDS) = SumTo(f, MAX_ROUNDS)
      /\ SumTo(Pots, MAX_ROUNDS)' = SumTo(g, MAX_ROUNDS)
  BY DEF Pots
<1> HIDE DEF f, g
<1>5. SumTo(f, MAX_ROUNDS) \in Int
  BY <1>2, <1>3, SumToType
<1>6. SumTo(g, MAX_ROUNDS) = SumTo(f, MAX_ROUNDS) + g[r] - f[r]
  BY <1>2, <1>3, SumToChangeOne
<1>7. /\ vault \in Nat /\ vault' \in Nat /\ gifts \in Nat /\ gifts' \in Nat
      /\ game.nrr_balance \in Nat /\ game'.nrr_balance \in Nat /\ VAULT_RENT \in Nat
      /\ f[r] \in Int /\ g[r] \in Int
  BY <1>2, <1>3, PillsAssumption DEF PillsInv, TypeOK, GameType
<1>8. vault = VAULT_RENT + gifts + game.nrr_balance + SumTo(f, MAX_ROUNDS)
  BY <1>4 DEF Conservation
<1>9. vault' = VAULT_RENT + gifts' + game'.nrr_balance + SumTo(g, MAX_ROUNDS)
  <2>1. vault' - vault = (gifts' - gifts) + (game'.nrr_balance - game.nrr_balance)
                            + (g[r] - f[r])
    BY <1>3
  <2>2. SumTo(g, MAX_ROUNDS) \in Int
        /\ SumTo(g, MAX_ROUNDS) - SumTo(f, MAX_ROUNDS) = g[r] - f[r]
    BY <1>5, <1>6, <1>7
  <2>3. vault' - vault = (gifts' - gifts) + (game'.nrr_balance - game.nrr_balance)
                            + (SumTo(g, MAX_ROUNDS) - SumTo(f, MAX_ROUNDS))
    BY <2>1, <2>2
  <2> QED BY <1>5, <1>7, <1>8, <2>2, <2>3
<1> QED BY <1>4, <1>9 DEF Conservation

\* They do when no round is written and the reserve stays.
LEMMA NoRoundBalances ==
    ASSUME PillsInv, PillsInv', Conservation, rounds' = rounds,
           game.initialized, game'.initialized,
           game'.nrr_balance = game.nrr_balance, vault' - vault = gifts' - gifts
    PROVE  Conservation'
<1>1. SumTo(Pots, MAX_ROUNDS)' = SumTo(Pots, MAX_ROUNDS)
  BY DEF Pots, Held, Is, TotalPool, WinnersShare, TreasuryAmount, NrrAmount
<1>2. SumTo(Pots, MAX_ROUNDS) \in Int
  BY HeldType, SumToType, PillsAssumption DEF Pots, RoundIds
<1>3. /\ vault \in Nat /\ vault' \in Nat /\ gifts \in Nat /\ gifts' \in Nat
      /\ game.nrr_balance \in Nat /\ VAULT_RENT \in Nat
  BY PillsAssumption DEF PillsInv, TypeOK, GameType
<1>4. vault = VAULT_RENT + gifts + game.nrr_balance + SumTo(Pots, MAX_ROUNDS)
  BY DEF Conservation
<1>5. vault' = VAULT_RENT + gifts' + game'.nrr_balance + SumTo(Pots, MAX_ROUNDS)'
  BY <1>1, <1>2, <1>3, <1>4
<1> QED BY <1>5 DEF Conservation

\* A round that is written finds the program initialized.
LEMMA Initialized ==
    ASSUME PillsInv, NEW r \in RoundIds, ~ Is(r, "None")
    PROVE  game.initialized
<1>1. ~ (r > game.round_counter)
  BY DEF PillsInv, RoundOK
<1> QED BY <1>1 DEF PillsInv, Undeployed, RoundIds

LEMMA InitConservation == Init => Conservation
BY DEF Init, Conservation

LEMMA CreateRoundBalances ==
    ASSUME PillsInv, PillsInv', Conservation, NEW d \in Durations, CreateRound(d)
    PROVE  Conservation'
<1>0. PICK id \in RoundIds : id = game.round_counter + 1
  BY DEF CreateRound
<1> DEFINE new == [NoRound EXCEPT !.status = "Active",
                      !.pool = [s \in Sides |-> HalfSeed], !.seed = HalfSeed,
                      !.ends_at = clock + d]
<1>1. /\ game.initialized
      /\ game' = [game EXCEPT !.nrr_balance = ReserveAfterSeeding, !.round_counter = id]
      /\ rounds' = [rounds EXCEPT ![id] = new]
      /\ UNCHANGED <<vault, gifts>>
  BY <1>0 DEF CreateRound
<1>2. TypeOK /\ game \in GameType /\ rounds \in [RoundIds -> RoundType]
  BY DEF PillsInv, TypeOK
<1>3. /\ new.status = "Active" /\ new.pool["A"] = HalfSeed /\ new.pool["B"] = HalfSeed
  BY DEF NoRound, Sides
<1> HIDE DEF new
<1>4. /\ rounds'[id] = new /\ \A q \in RoundIds : q # id => rounds'[q] = rounds[q]
      /\ game'.initialized /\ game'.nrr_balance = ReserveAfterSeeding
  BY <1>1, <1>2 DEF GameType
<1>5. Is(id, "None")
  BY <1>0, <1>2 DEF PillsInv, RoundOK, GameType
<1>6. Held(id) = 0
  BY <1>5 DEF Held, Is
<1>7. Held(id)' = HalfSeed + HalfSeed
  BY <1>3, <1>4 DEF Held, Is, TotalPool
<1>8. /\ game.nrr_balance - ReserveAfterSeeding = HalfSeed + HalfSeed
      /\ HalfSeed \in Nat /\ ReserveAfterSeeding \in Nat /\ game.nrr_balance \in Nat
      /\ vault \in Nat /\ gifts \in Nat
  BY <1>2, SeedBounds DEF TypeOK, GameType
<1>9. vault' - vault = (gifts' - gifts) + (game'.nrr_balance - game.nrr_balance)
                          + (Held(id)' - Held(id))
      /\ Held(id)' \in Int
  BY <1>1, <1>4, <1>6, <1>7, <1>8
<1> QED BY <1>1, <1>4, <1>9, OneRoundBalances

LEMMA DepositBalances ==
    ASSUME PillsInv, PillsInv', Conservation, NEW r \in RoundIds, NEW p \in Players,
           NEW side \in Sides, NEW a \in Tiers, Deposit(r, p, side, a)
    PROVE  Conservation'
<1> DEFINE pool == rounds[r].pool[side] + a
           count == IF positions[r][p].side = "None" /\ rounds[r].players[side] < MAX_U16
                    THEN rounds[r].players[side] + 1 ELSE rounds[r].players[side]
           pools == [rounds[r].pool EXCEPT ![side] = pool]
           counts == [rounds[r].players EXCEPT ![side] = count]
           new == [rounds[r] EXCEPT !.pool = pools, !.players = counts]
<1>1. /\ Is(r, "Active") /\ vault' = vault + a /\ UNCHANGED <<game, gifts>>
  BY DEF Deposit
<1>2. /\ TypeOK /\ rounds \in [RoundIds -> RoundType] /\ rounds[r] \in RoundType
      /\ a \in Nat /\ vault \in Nat /\ gifts \in Nat /\ game.nrr_balance \in Nat
      /\ rounds[r].pool \in [Sides -> Nat]
  BY PillsAssumption DEF PillsInv, TypeOK, RoundType, GameType
<1>3. rounds' = [rounds EXCEPT ![r] = new]
  BY <1>2 DEF Deposit, RoundType
<1> HIDE DEF counts, pool
<1>4. new.status = "Active" /\ new.pool = pools
  BY <1>1, <1>2 DEF RoundType, Is
<1> HIDE DEF new
<1>5. rounds'[r] = new /\ \A q \in RoundIds : q # r => rounds'[q] = rounds[q]
  BY <1>2, <1>3
<1>6. pools["A"] + pools["B"] = rounds[r].pool["A"] + rounds[r].pool["B"] + a
  BY <1>2 DEF Sides, pool
<1>7. Held(r) = TotalPool(r) /\ Held(r)' = TotalPool(r) + a /\ TotalPool(r) \in Nat
  <2>1. Held(r) = TotalPool(r) /\ TotalPool(r) \in Nat
    BY <1>1, <1>2, RoundFields DEF Held, Is
  <2>2. Held(r)' = pools["A"] + pools["B"]
    BY <1>4, <1>5 DEF Held, Is, TotalPool
  <2> QED BY <1>6, <2>1, <2>2 DEF TotalPool
<1>8. vault' - vault = (gifts' - gifts) + (game'.nrr_balance - game.nrr_balance)
                          + (Held(r)' - Held(r))
      /\ Held(r)' \in Int
  BY <1>1, <1>2, <1>7
<1>9. game.initialized /\ game'.initialized
  BY <1>1, Initialized DEF Is
<1> QED BY <1>5, <1>8, <1>9, OneRoundBalances

LEMMA SettleBalances ==
    ASSUME PillsInv, PillsInv', Conservation, NEW r \in RoundIds, NEW side \in Sides,
           Settle(r, side)
    PROVE  Conservation'
<1> DEFINE treasury == TreasuryAmount(r)
           returned == NrrAmount(r)
           nrr == game.nrr_balance + returned
           new == [rounds[r] EXCEPT !.status = "Settled", !.winner = side,
                      !.total_claimed = 0, !.treasury_paid = treasury,
                      !.nrr_returned = returned, !.settled_at = clock]
<1>1. /\ Is(r, "Active") /\ vault' = vault - treasury
      /\ game' = [game EXCEPT !.nrr_balance = nrr]
      /\ rounds' = [rounds EXCEPT ![r] = new]
      /\ UNCHANGED gifts
  BY DEF Settle
<1>2. /\ TypeOK /\ rounds \in [RoundIds -> RoundType] /\ rounds[r] \in RoundType
      /\ vault \in Nat /\ gifts \in Nat /\ game \in GameType /\ game.nrr_balance \in Nat
  BY DEF PillsInv, TypeOK, GameType
<1>3. /\ treasury \in Nat /\ returned \in Nat /\ TotalPool(r) \in Nat
      /\ WinnersShare(r) = TotalPool(r) - treasury - returned
  BY <1>2, RoundFields, SplitBounds
<1>4. Held(r) = TotalPool(r)
  BY <1>1 DEF Held, Is
<1> DEFINE share == WinnersShare(r)
<1>5. Held(r)' = share
  <2>1. /\ new.status = "Settled" /\ new.total_claimed = 0 /\ new.pool = rounds[r].pool
        /\ new.swept = rounds[r].swept
    BY <1>2 DEF RoundType
  <2>2. rounds'[r] = new /\ ~rounds[r].swept
    BY <1>1, <1>2 DEF PillsInv, RoundOK
  <2> HIDE DEF new
  <2>3. WinnersShare(r)' = WinnersShare(r)
    BY <2>1, <2>2 DEF WinnersShare, TreasuryAmount, NrrAmount, TotalPool
  <2>4. Held(r)' = WinnersShare(r) - 0
    BY <2>1, <2>2, <2>3 DEF Held, Is
  <2> QED BY <1>2, <2>4, SplitBounds
<1> HIDE DEF treasury, returned, share
<1>6. game'.nrr_balance = game.nrr_balance + returned /\ game'.initialized = game.initialized
  BY <1>1, <1>2 DEF GameType
<1>7. share = TotalPool(r) - treasury - returned
  BY <1>3 DEF share
<1>8. vault' - vault = (gifts' - gifts) + (game'.nrr_balance - game.nrr_balance)
                          + (Held(r)' - Held(r))
      /\ Held(r)' \in Int
  BY <1>1, <1>2, <1>3, <1>4, <1>5, <1>6, <1>7
<1>9. game.initialized /\ game'.initialized
  BY <1>1, <1>6, Initialized DEF Is
<1>10. \A q \in RoundIds : q # r => rounds'[q] = rounds[q]
  BY <1>1, <1>2
<1> QED BY <1>8, <1>9, <1>10, OneRoundBalances

LEMMA ExpireBalances ==
    ASSUME PillsInv, PillsInv', Conservation, NEW r \in RoundIds, Expire(r)
    PROVE  Conservation'
<1> DEFINE seeds == 2 * rounds[r].seed
           nrr == game.nrr_balance + seeds
<1>1. /\ Is(r, "Active") /\ game' = [game EXCEPT !.nrr_balance = nrr] /\ NoPlayers(r)
      /\ rounds' = [rounds EXCEPT ![r].status = "Expired"]
      /\ UNCHANGED <<vault, gifts>>
  BY DEF Expire
<1>2. /\ TypeOK /\ rounds \in [RoundIds -> RoundType] /\ rounds[r] \in RoundType
      /\ vault \in Nat /\ gifts \in Nat /\ game \in GameType /\ game.nrr_balance \in Nat
      /\ rounds[r].seed \in Nat
  BY RoundFields DEF PillsInv, TypeOK, GameType
<1>3. rounds[r].pool["A"] = rounds[r].seed /\ rounds[r].pool["B"] = rounds[r].seed
  BY <1>1 DEF PillsInv, RoundOK, NoPlayers, Sides
<1>4. Held(r) = seeds
  BY <1>1, <1>2, <1>3 DEF Held, Is, TotalPool
<1>5. /\ rounds'[r].status = "Expired"
      /\ \A q \in RoundIds : q # r => rounds'[q] = rounds[q]
  BY <1>1, <1>2 DEF RoundType
<1>6. Held(r)' = 0
  BY <1>5 DEF Held, Is
<1>7. game'.nrr_balance = game.nrr_balance + seeds /\ game'.initialized = game.initialized
  BY <1>1, <1>2 DEF GameType
<1>8. vault' - vault = (gifts' - gifts) + (game'.nrr_balance - game.nrr_balance)
                          + (Held(r)' - Held(r))
      /\ Held(r)' \in Int
  BY <1>1, <1>2, <1>4, <1>6, <1>7
<1>9. game.initialized /\ game'.initialized
  BY <1>1, <1>7, Initialized DEF Is
<1> QED BY <1>5, <1>8, <1>9, OneRoundBalances

LEMMA ClaimBalances ==
    ASSUME PillsInv, PillsInv', Conservation, NEW r \in RoundIds, NEW p \in Players,
           Claim(r, p)
    PROVE  Conservation'
<1> DEFINE pay == Payout(r, p)
           claimed == rounds[r].total_claimed + pay
           new == [rounds[r] EXCEPT !.total_claimed = claimed]
           share == WinnersShare(r)
<1>1. /\ Is(r, "Settled") /\ ~rounds[r].swept /\ vault' = vault - pay
      /\ UNCHANGED <<game, gifts>>
  BY DEF Claim, Claimable, Unpaid
<1>2. rounds' = [rounds EXCEPT ![r] = new]
  BY DEF Claim
<1>3. /\ TypeOK /\ rounds \in [RoundIds -> RoundType] /\ rounds[r] \in RoundType
      /\ vault \in Nat /\ gifts \in Nat /\ game.nrr_balance \in Nat
      /\ rounds[r].total_claimed \in Nat /\ share \in Nat
  BY RoundFields, SplitBounds DEF PillsInv, TypeOK, GameType
<1>4. pay \in Nat
  BY <1>1, PayoutType
<1> HIDE DEF pay, claimed
<1>5. /\ new.status = rounds[r].status /\ new.pool = rounds[r].pool
      /\ new.swept = rounds[r].swept /\ new.total_claimed = claimed
  BY <1>3 DEF RoundType
<1> HIDE DEF new
<1>6. rounds'[r] = new /\ \A q \in RoundIds : q # r => rounds'[q] = rounds[q]
  BY <1>2, <1>3
<1>7. WinnersShare(r)' = WinnersShare(r)
  BY <1>5, <1>6 DEF WinnersShare, TreasuryAmount, NrrAmount, TotalPool
<1>8. Held(r) = share - rounds[r].total_claimed /\ Held(r)' = share - claimed
  BY <1>1, <1>5, <1>6, <1>7 DEF Held, Is
<1> HIDE DEF share
<1>9. vault' - vault = (gifts' - gifts) + (game'.nrr_balance - game.nrr_balance)
                          + (Held(r)' - Held(r))
      /\ Held(r)' \in Int
  BY <1>1, <1>3, <1>4, <1>8 DEF claimed
<1>10. game.initialized /\ game'.initialized
  BY <1>1, Initialized DEF Is
<1> QED BY <1>6, <1>9, <1>10, OneRoundBalances

LEMMA SweepBalances ==
    ASSUME PillsInv, PillsInv', Conservation, NEW r \in RoundIds, SweepUnclaimed(r)
    PROVE  Conservation'
<1> DEFINE unclaimed == WinnersShare(r) - rounds[r].total_claimed
           nrr == game.nrr_balance + unclaimed
           new == [rounds[r] EXCEPT !.swept = TRUE]
<1>1. /\ Is(r, "Settled") /\ ~rounds[r].swept
      /\ game' = [game EXCEPT !.nrr_balance = nrr]
      /\ rounds' = [rounds EXCEPT ![r] = new]
      /\ UNCHANGED <<vault, gifts>>
  BY DEF SweepUnclaimed
<1>2. /\ TypeOK /\ rounds \in [RoundIds -> RoundType] /\ rounds[r] \in RoundType
      /\ vault \in Nat /\ gifts \in Nat /\ game \in GameType /\ game.nrr_balance \in Nat
      /\ unclaimed \in Int
  BY RoundFields, SplitBounds DEF PillsInv, TypeOK, GameType
<1>3. Held(r) = unclaimed
  BY <1>1 DEF Held, Is
<1>4. new.status = "Settled" /\ new.swept
  BY <1>1, <1>2 DEF RoundType, Is
<1> HIDE DEF new, unclaimed
<1>5. rounds'[r] = new /\ \A q \in RoundIds : q # r => rounds'[q] = rounds[q]
  BY <1>1, <1>2
<1>6. Held(r)' = 0
  BY <1>4, <1>5 DEF Held, Is
<1>7. game'.nrr_balance = game.nrr_balance + unclaimed /\ game'.initialized = game.initialized
  BY <1>1, <1>2 DEF GameType
<1>8. vault' - vault = (gifts' - gifts) + (game'.nrr_balance - game.nrr_balance)
                          + (Held(r)' - Held(r))
      /\ Held(r)' \in Int
  BY <1>1, <1>2, <1>3, <1>6, <1>7
<1>9. game.initialized /\ game'.initialized
  BY <1>1, <1>7, Initialized DEF Is
<1> QED BY <1>5, <1>8, <1>9, OneRoundBalances

LEMMA InitializeBalances ==
    ASSUME PillsInv, NEW k \in Keys, Initialize(k)
    PROVE  Conservation'
<1>1. /\ ~game.initialized /\ game'.nrr_balance = 0 /\ vault' = VAULT_RENT
      /\ UNCHANGED <<rounds, gifts>>
  BY DEF Initialize
<1>2. gifts = 0 /\ \A r \in RoundIds : Is(r, "None")
  BY <1>1 DEF PillsInv, Undeployed, RoundOK, RoundIds
<1>3. \A r \in RoundIds : Held(r)' = 0
  BY <1>1, <1>2 DEF Held, Is
<1>4. SumTo(Pots, MAX_ROUNDS)' = 0
  <2> DEFINE f == [r \in RoundIds |-> Held(r)]'
  <2>1. \A r \in 1..MAX_ROUNDS : f[r] = 0
    BY <1>3 DEF RoundIds
  <2>2. SumTo(Pots, MAX_ROUNDS)' = SumTo(f, MAX_ROUNDS)
    BY DEF Pots
  <2> HIDE DEF f
  <2> QED BY <2>1, <2>2, SumToZero, PillsAssumption
<1> QED BY <1>1, <1>2, <1>4, PillsAssumption DEF Conservation

\* The books balance after every step.
LEMMA NextConservation ==
    ASSUME PillsInv, PillsInv', Conservation, [Next]_vars
    PROVE  Conservation'
<1>1. ASSUME NEW k \in Keys, TransferAuthority(k) PROVE Conservation'
  <2>1. /\ game.initialized /\ game'.initialized
        /\ game'.nrr_balance = game.nrr_balance /\ UNCHANGED <<rounds, vault, gifts>>
    BY <1>1 DEF TransferAuthority, PillsInv, TypeOK, GameType
  <2>2. vault' - vault = gifts' - gifts
    BY <2>1 DEF PillsInv, TypeOK
  <2> QED BY <2>1, <2>2, NoRoundBalances
<1>2. ASSUME NEW a \in Gifts, Gift(a) PROVE Conservation'
  <2>1. /\ game.initialized /\ vault' = vault + a /\ gifts' = gifts + a /\ a \in Nat
        /\ UNCHANGED <<game, rounds>>
    BY <1>2, PillsAssumption DEF Gift
  <2>2. vault' - vault = gifts' - gifts
    BY <2>1 DEF PillsInv, TypeOK
  <2> QED BY <2>1, <2>2, NoRoundBalances
<1>3. ASSUME UNCHANGED <<game, rounds, vault, gifts>> PROVE Conservation'
  BY <1>3 DEF Conservation, Pots, Held, Is, TotalPool, WinnersShare, TreasuryAmount,
              NrrAmount
<1> QED BY <1>1, <1>2, <1>3, InitializeBalances, CreateRoundBalances, DepositBalances,
        SettleBalances, ExpireBalances, ClaimBalances, SweepBalances
        DEF Next, ClosePosition, PositionClosable, Tick, vars

\* Every lamport of the vault is accounted for, whatever the authority does and
\* however many rounds overlap (create_round, deposit, settle, expire, claim,
\* sweep_unclaimed).
THEOREM Conserved == Spec => []Conservation
<1>1. PillsInv /\ [Next]_vars => PillsInv'
  BY NextPillsInv
<1>2. PillsInv /\ PillsInv' /\ Conservation /\ [Next]_vars => Conservation'
  BY NextConservation
<1> QED BY <1>1, <1>2, InitPillsInv, InitConservation, PTL DEF Spec
=============================================================================
