------------------------ MODULE TwoPillsClaimsProofs ------------------------
(***************************************************************************)
(* The claims of a round of TwoPills never exceed the winners' share, for  *)
(* any number of players, stakes and rounds and in any order, although     *)
(* every payout is rounded on its own; pools and player counts agree with  *)
(* the positions behind them; the program implements PrizePool; and the    *)
(* order of claims does not matter, whatever the authority does.           *)
(***************************************************************************)
EXTENDS TwoPillsProofs, FiniteSetTheorems

-----------------------------------------------------------------------------
(* Sums over the players.                                                  *)

LEMMA PlayerSumNat ==
    ASSUME NEW f, \A p \in Players : f[p] \in Nat
    PROVE  PlayerSum(f) \in Nat
BY PillsAssumption, SumNat DEF PlayerSum

LEMMA PlayerSumZero ==
    ASSUME NEW f, \A p \in Players : f[p] = 0
    PROVE  PlayerSum(f) = 0
BY PillsAssumption, SumZero DEF PlayerSum

\* One player's term changes.
LEMMA PlayerSumChange ==
    ASSUME NEW f, NEW g, NEW p \in Players,
           \A q \in Players : f[q] \in Nat /\ g[q] \in Nat,
           \A q \in Players : q # p => g[q] = f[q]
    PROVE  PlayerSum(g) = PlayerSum(f) + g[p] - f[p]
<1>1. \A q \in Players : f[q] \in Int /\ g[q] \in Int
  OBVIOUS
<1> QED BY <1>1, PillsAssumption, SumChangeOne DEF PlayerSum

\* Nobody's term exceeds the sum.
LEMMA PlayerSumTerm ==
    ASSUME NEW f, \A p \in Players : f[p] \in Nat, NEW p \in Players
    PROVE  f[p] <= PlayerSum(f)
BY PillsAssumption, SumTerm DEF PlayerSum

-----------------------------------------------------------------------------
(* The invariant.                                                          *)

\* The stakes that are still owed a payout.
Owed(r) ==
    [p \in Players |-> IF positions[r][p].side = rounds[r].winner
                          /\ ~positions[r][p].claimed
                       THEN positions[r][p].total_deposited ELSE 0]

WinnerPool(r) == rounds[r].pool[rounds[r].winner]

\* What is left of the winners' share covers every stake that is still owed, at
\* the full rate of share to pool: a payout rounded down leaves no less.
ShareCovers(r) ==
    /\ WinnerPool(r) = 0 => rounds[r].total_claimed = 0
    /\ WinnersShare(r) * PlayerSum(Owed(r))
          <= (WinnersShare(r) - rounds[r].total_claimed) * WinnerPool(r)

ClaimsOK(r) ==
    /\ \A p \in Players : positions[r][p].side = "None" => positions[r][p] = NoPosition
    /\ Is(r, "Active") => /\ \A p \in Players : ~positions[r][p].claimed
                          /\ \A s \in Sides :
                                rounds[r].pool[s] = rounds[r].seed + PlayerSum(OnSide(r, s))
    /\ Is(r, "Settled") => ShareCovers(r)

ClaimsInv == PillsInv /\ \A r \in RoundIds : ClaimsOK(r)

-----------------------------------------------------------------------------
LEMMA StakeSums ==
    ASSUME TypeOK, NEW r \in RoundIds
    PROVE  /\ \A s \in Sides : /\ \A p \in Players : OnSide(r, s)[p] \in Nat
                               /\ PlayerSum(OnSide(r, s)) \in Nat
           /\ \A p \in Players : Owed(r)[p] \in Nat
           /\ PlayerSum(Owed(r)) \in Nat
<1>1. \A p \in Players : positions[r][p].total_deposited \in Nat
  BY DEF TypeOK, PositionType
<1>2. \A s \in Sides : \A p \in Players : OnSide(r, s)[p] \in Nat
  BY <1>1 DEF OnSide
<1>3. \A p \in Players : Owed(r)[p] \in Nat
  BY <1>1 DEF Owed
<1> QED BY <1>2, <1>3, PlayerSumNat

\* What was claimed is within the share when it covers what is owed.
LEMMA CoveredIsWithin ==
    ASSUME PillsInv, NEW r \in RoundIds, Is(r, "Settled"), ShareCovers(r)
    PROVE  rounds[r].total_claimed <= WinnersShare(r)
<1> DEFINE W == WinnersShare(r)
           S == PlayerSum(Owed(r))
           T == rounds[r].total_claimed
           P == WinnerPool(r)
<1>1. W \in Nat /\ S \in Nat /\ T \in Nat /\ P \in Nat
  BY RoundFields, SplitBounds, StakeSums DEF PillsInv, RoundOK, WinnerPool
<1>2. (P = 0 => T = 0) /\ W * S <= (W - T) * P
  BY DEF ShareCovers
<1> HIDE DEF W, S, T, P
<1>3. W * S \in Nat
  BY <1>1, SMT
<1>4. W - T < 0 /\ P > 0 => (W - T) * P < 0
  BY <1>1, SMT
<1>5. T <= W
  BY <1>1, <1>2, <1>3, <1>4
<1> QED BY <1>5 DEF W, T

\* One payout takes no more than its stake is worth.
LEMMA ClaimArithmetic ==
    ASSUME NEW W \in Nat, NEW P \in Nat, NEW S \in Nat, NEW T \in Nat, NEW d \in Nat,
           NEW pay \in Nat, pay * P <= d * W, W * S <= (W - T) * P
    PROVE  W * (S - d) <= (W - (T + pay)) * P
<1>1. W * (S - d) = W * S - d * W
  BY SMT
<1>2. (W - (T + pay)) * P = (W - T) * P - pay * P
  BY SMT
<1>3. W * S \in Int /\ d * W \in Int /\ (W - T) * P \in Int /\ pay * P \in Int
  BY SMT
<1> QED BY <1>1, <1>2, <1>3

LEMMA PayoutBound ==
    ASSUME PillsInv, NEW r \in RoundIds, NEW p \in Players, Is(r, "Settled")
    PROVE  /\ Payout(r, p) * WinnerPool(r)
                 <= positions[r][p].total_deposited * WinnersShare(r)
           /\ WinnerPool(r) = 0 => Payout(r, p) = 0
<1> DEFINE P == WinnerPool(r)
           d == positions[r][p].total_deposited
           W == WinnersShare(r)
           n == d * W
           q == n \div P
           m == MAX_U64 + 1
<1>1. P \in Nat /\ W \in Nat /\ d \in Nat
  BY RoundFields, SplitBounds DEF PillsInv, RoundOK, TypeOK, PositionType, WinnerPool
<1>2. Payout(r, p) = IF P > 0 THEN q % m ELSE 0
  BY DEF Payout, WinnerPool
<1>3. m \in Nat \ {0}
  BY MaxU64Assumption
<1>4. n \in Nat
  BY <1>1, SMT
<1> HIDE DEF P, n, m
<1>5. P > 0 => q \in Nat /\ q * P <= n
  BY <1>1, <1>4, SMT
<1> HIDE DEF q
<1>6. q \in Nat => q % m \in Nat /\ q % m <= q
  BY <1>3, SMT
<1>7. \A x, y \in Nat : x <= y => x * P <= y * P
  BY <1>1, SMT
<1>8. CASE P > 0
  <2>1. (q % m) * P <= q * P /\ (q % m) * P \in Int /\ q * P \in Int
    <3>1. q \in Nat /\ q % m \in Nat /\ q % m <= q
      BY <1>5, <1>6, <1>8
    <3> DEFINE x == q % m
    <3> HIDE DEF x
    <3>2. x \in Nat /\ q \in Nat /\ x <= q
      BY <3>1 DEF x
    <3>3. x * P \in Int /\ q * P \in Int
      BY <1>1, <3>2, SMT
    <3> QED BY <1>7, <3>2, <3>3 DEF x
  <2>2. (q % m) * P <= n
    BY <1>4, <1>5, <1>8, <2>1
  <2> QED BY <1>2, <1>8, <2>2 DEF P, n
<1>9. CASE P = 0
  <2>1. Payout(r, p) = 0 /\ Payout(r, p) * P = 0
    BY <1>2, <1>9
  <2> QED BY <1>4, <2>1 DEF P, n
<1> QED BY <1>1, <1>8, <1>9

\* A payout fits in what is left of the share.
LEMMA PayoutFits ==
    ASSUME PillsInv, NEW r \in RoundIds, NEW p \in Players, Unpaid(r, p), ShareCovers(r)
    PROVE  Payout(r, p) <= WinnersShare(r) - rounds[r].total_claimed
<1> DEFINE W == WinnersShare(r)
           S == PlayerSum(Owed(r))
           T == rounds[r].total_claimed
           P == WinnerPool(r)
           d == positions[r][p].total_deposited
           pay == Payout(r, p)
<1>1. Is(r, "Settled") /\ Owed(r)[p] = d
  BY DEF Unpaid, Owed
<1>2. /\ W \in Nat /\ S \in Nat /\ T \in Nat /\ P \in Nat /\ d \in Nat /\ pay \in Nat
      /\ \A w \in Players : Owed(r)[w] \in Nat
  BY <1>1, RoundFields, SplitBounds, StakeSums, PayoutType
     DEF PillsInv, RoundOK, TypeOK, PositionType, WinnerPool
<1>3. d <= S
  BY <1>1, <1>2, PlayerSumTerm
<1>4. (P = 0 => T = 0 /\ pay = 0) /\ W * S <= (W - T) * P /\ pay * P <= d * W
  BY <1>1, PayoutBound DEF ShareCovers
<1>5. T <= W
  BY <1>1, CoveredIsWithin
<1> HIDE DEF W, S, T, P, d, pay
<1>6. d * W <= W * S
  BY <1>2, <1>3, SMT
<1>7. d * W \in Int /\ W * S \in Int /\ (W - T) * P \in Int /\ pay * P \in Int
  BY <1>2, SMT
<1>8. pay * P <= (W - T) * P
  BY <1>4, <1>6, <1>7
<1>9. P > 0 => pay <= W - T
  <2>1. P > 0 /\ pay > W - T => pay * P > (W - T) * P
    BY <1>2, SMT
  <2> QED BY <1>2, <1>7, <1>8, <2>1
<1>10. pay <= W - T
  BY <1>2, <1>4, <1>5, <1>9
<1> QED BY <1>10 DEF W, T, pay

-----------------------------------------------------------------------------
\* A round none of whose accounts is written.
LEMMA OtherClaimsOK ==
    ASSUME NEW r \in RoundIds, ClaimsOK(r), rounds'[r] = rounds[r],
           positions'[r] = positions[r]
    PROVE  ClaimsOK(r)'
BY DEF ClaimsOK, ShareCovers, OnSide, Owed, WinnerPool, WinnersShare, TreasuryAmount,
       NrrAmount, TotalPool, Is

LEMMA InitClaimsInv == Init => ClaimsInv
<1> SUFFICES ASSUME Init PROVE ClaimsInv
  OBVIOUS
<1>1. \A r \in RoundIds : Is(r, "None")
  BY DEF Init, Is, NoRound
<1>2. \A r \in RoundIds, p \in Players : positions[r][p] = NoPosition
  BY DEF Init
<1> QED BY <1>1, <1>2, InitPillsInv DEF ClaimsInv, ClaimsOK, Is

LEMMA CreateRoundClaims ==
    ASSUME ClaimsInv, PillsInv', NEW d \in Durations, CreateRound(d)
    PROVE  ClaimsInv'
<1>0. PICK id \in RoundIds : id = game.round_counter + 1
  BY DEF CreateRound
<1> DEFINE new == [NoRound EXCEPT !.status = "Active",
                      !.pool = [s \in Sides |-> HalfSeed], !.seed = HalfSeed,
                      !.ends_at = clock + d]
<1>1. rounds' = [rounds EXCEPT ![id] = new] /\ positions' = positions
  BY <1>0 DEF CreateRound
<1>2. /\ TypeOK /\ rounds \in [RoundIds -> RoundType] /\ game \in GameType
      /\ HalfSeed \in Nat
  BY SeedBounds DEF ClaimsInv, PillsInv, TypeOK
<1>3. /\ new.status = "Active" /\ new.seed = HalfSeed
      /\ \A s \in Sides : new.pool[s] = HalfSeed
  BY DEF NoRound
<1> HIDE DEF new
<1>4. rounds'[id] = new /\ \A q \in RoundIds : q # id => rounds'[q] = rounds[q]
  BY <1>1, <1>2
<1>5. \A p \in Players : positions[id][p] = NoPosition
  <2>1. Is(id, "None")
    BY <1>0, <1>2 DEF ClaimsInv, PillsInv, RoundOK, GameType
  <2> QED BY <2>1 DEF ClaimsInv, ClaimsOK, PillsInv, RoundOK
<1>6. \A s \in Sides : PlayerSum(OnSide(id, s))' = 0
  <2> TAKE s \in Sides
  <2> DEFINE g == OnSide(id, s)'
  <2>1. \A p \in Players : g[p] = 0
    BY <1>1, <1>5 DEF OnSide, NoPosition
  <2>2. PlayerSum(OnSide(id, s))' = PlayerSum(g)
    OBVIOUS
  <2> HIDE DEF g
  <2> QED BY <2>1, <2>2, PlayerSumZero
<1>7. ClaimsOK(id)'
  BY <1>1, <1>2, <1>3, <1>4, <1>5, <1>6 DEF ClaimsOK, Is, NoPosition
<1>8. ASSUME NEW q \in RoundIds, q # id PROVE ClaimsOK(q)'
  BY <1>1, <1>4, <1>8, OtherClaimsOK DEF ClaimsInv
<1> QED BY <1>7, <1>8 DEF ClaimsInv

LEMMA DepositClaims ==
    ASSUME ClaimsInv, PillsInv', NEW r \in RoundIds, NEW p \in Players,
           NEW side \in Sides, NEW a \in Tiers, Deposit(r, p, side, a)
    PROVE  ClaimsInv'
<1> DEFINE old == positions[r][p]
           total == old.total_deposited + a
           number == old.num_deposits + 1
           side_now == IF old.side = "None" THEN side ELSE old.side
           position == [old EXCEPT !.side = side_now, !.total_deposited = total,
                                   !.num_deposits = number]
           pool == rounds[r].pool[side] + a
           count == IF old.side = "None" /\ rounds[r].players[side] < MAX_U16
                    THEN rounds[r].players[side] + 1 ELSE rounds[r].players[side]
           pools == [rounds[r].pool EXCEPT ![side] = pool]
           counts == [rounds[r].players EXCEPT ![side] = count]
           new == [rounds[r] EXCEPT !.pool = pools, !.players = counts]
<1>1. Is(r, "Active") /\ SideFree(r, p, side)
  BY DEF Deposit
<1>2. positions' = [positions EXCEPT ![r][p] = position]
  <2>1. positions' = [positions EXCEPT ![r][p] =
              [old EXCEPT !.side = IF old.side = "None" THEN side ELSE @,
                          !.total_deposited = @ + a,
                          !.num_deposits = @ + 1]]
    BY Zenon DEF Deposit
  <2> QED BY <2>1, Zenon
<1>3. /\ TypeOK /\ rounds \in [RoundIds -> RoundType] /\ rounds[r] \in RoundType
      /\ positions \in [RoundIds -> [Players -> PositionType]] /\ old \in PositionType
      /\ a \in Nat /\ rounds[r].pool \in [Sides -> Nat] /\ rounds[r].seed \in Nat
      /\ old.total_deposited \in Nat /\ ClaimsOK(r)
  BY PillsAssumption DEF ClaimsInv, PillsInv, TypeOK, RoundType, PositionType
<1>4. rounds' = [rounds EXCEPT ![r] = new]
  BY <1>3 DEF Deposit, RoundType
<1>5. old.side = "None" => old.total_deposited = 0
  BY <1>3 DEF ClaimsOK, NoPosition
<1>6. /\ position.side = side /\ position.total_deposited = total
      /\ position.claimed = old.claimed
  BY <1>1, <1>3 DEF SideFree, PositionType
<1> HIDE DEF counts, count, position, number
<1>7. /\ new.status = "Active" /\ new.seed = rounds[r].seed
      /\ new.pool[side] = pool
      /\ \A s \in Sides : s # side => new.pool[s] = rounds[r].pool[s]
  BY <1>1, <1>3 DEF RoundType, Is
<1> HIDE DEF new
<1>8. rounds'[r] = new /\ \A q \in RoundIds : q # r => rounds'[q] = rounds[q]
  BY <1>3, <1>4
<1>9. /\ positions'[r][p] = position
      /\ \A w \in Players : w # p => positions'[r][w] = positions[r][w]
      /\ \A q \in RoundIds : q # r => positions'[q] = positions[q]
  BY <1>2, <1>3
<1>10. ASSUME NEW s \in Sides
       PROVE  rounds'[r].pool[s] = rounds'[r].seed + PlayerSum(OnSide(r, s))'
  <2> DEFINE f == OnSide(r, s)
             g == OnSide(r, s)'
  <2>1. /\ \A w \in Players : f[w] \in Nat /\ g[w] \in Nat
        /\ \A w \in Players : w # p => g[w] = f[w]
        /\ PlayerSum(f) \in Nat
    BY <1>3, <1>9, StakeSums DEF OnSide, PillsInv, TypeOK, PositionType
  <2>2. g[p] - f[p] = (IF s = side THEN a ELSE 0) /\ f[p] \in Nat /\ g[p] \in Nat
    <3>1. g[p] = IF s = side THEN total ELSE 0
      BY <1>6, <1>9 DEF OnSide
    <3>2. f[p] = IF s = side THEN old.total_deposited ELSE 0
      BY <1>1, <1>5 DEF OnSide, SideFree, Sides
    <3> QED BY <1>3, <3>1, <3>2
  <2>3. rounds[r].pool[s] = rounds[r].seed + PlayerSum(f)
    BY <1>1, <1>3 DEF ClaimsOK
  <2>4. PlayerSum(OnSide(r, s))' = PlayerSum(g)
    OBVIOUS
  <2> HIDE DEF f, g
  <2>5. PlayerSum(g) = PlayerSum(f) + g[p] - f[p]
    BY <2>1, PlayerSumChange
  <2>6. PlayerSum(g) = PlayerSum(f) + (IF s = side THEN a ELSE 0)
    BY <2>1, <2>2, <2>5
  <2>7. rounds[r].pool[s] \in Nat
    BY <1>3
  <2>8. new.pool[s] = rounds[r].pool[s] + (IF s = side THEN a ELSE 0)
    BY <1>3, <1>7, <2>7
  <2> QED BY <1>3, <1>7, <1>8, <2>1, <2>3, <2>4, <2>6, <2>8
<1>11. ClaimsOK(r)'
  <2>1. \A w \in Players : ~positions'[r][w].claimed
    BY <1>1, <1>3, <1>6, <1>9 DEF ClaimsOK
  <2>2. \A w \in Players : positions'[r][w].side = "None" => positions'[r][w] = NoPosition
    BY <1>3, <1>6, <1>9 DEF ClaimsOK, Sides
  <2> QED BY <1>7, <1>8, <1>10, <2>1, <2>2 DEF ClaimsOK, Is
<1>12. ASSUME NEW q \in RoundIds, q # r PROVE ClaimsOK(q)'
  BY <1>8, <1>9, <1>12, OtherClaimsOK DEF ClaimsInv
<1> QED BY <1>11, <1>12 DEF ClaimsInv

LEMMA SettleClaims ==
    ASSUME ClaimsInv, PillsInv', NEW r \in RoundIds, NEW side \in Sides, Settle(r, side)
    PROVE  ClaimsInv'
<1> DEFINE treasury == TreasuryAmount(r)
           returned == NrrAmount(r)
           new == [rounds[r] EXCEPT !.status = "Settled", !.winner = side,
                      !.total_claimed = 0, !.treasury_paid = treasury,
                      !.nrr_returned = returned, !.settled_at = clock]
<1>1. Is(r, "Active") /\ rounds' = [rounds EXCEPT ![r] = new] /\ positions' = positions
  BY DEF Settle
<1>2. /\ TypeOK /\ rounds \in [RoundIds -> RoundType] /\ rounds[r] \in RoundType
      /\ rounds[r].pool[side] \in Nat /\ rounds[r].seed \in Nat /\ ClaimsOK(r)
  BY RoundFields DEF ClaimsInv, PillsInv, TypeOK
<1> HIDE DEF treasury, returned
<1>3. /\ new.status = "Settled" /\ new.winner = side /\ new.total_claimed = 0
      /\ new.pool = rounds[r].pool
  BY <1>2 DEF RoundType
<1> HIDE DEF new
<1>4. rounds'[r] = new /\ \A q \in RoundIds : q # r => rounds'[q] = rounds[q]
  BY <1>1, <1>2
<1>5. Owed(r)' = OnSide(r, side)
  BY <1>1, <1>2, <1>3, <1>4 DEF Owed, OnSide, ClaimsOK
<1> DEFINE W == WinnersShare(r)
           S == PlayerSum(OnSide(r, side))
           P == rounds[r].pool[side]
<1>6. /\ WinnersShare(r)' = W /\ WinnerPool(r)' = P
      /\ PlayerSum(Owed(r))' = S /\ rounds'[r].total_claimed = 0
  BY <1>3, <1>4, <1>5 DEF WinnersShare, TreasuryAmount, NrrAmount, TotalPool, WinnerPool
<1>7. W \in Nat /\ S \in Nat /\ P \in Nat /\ S <= P
  BY <1>1, <1>2, SplitBounds, StakeSums DEF ClaimsOK
<1> HIDE DEF W, S, P
<1>8. W * S <= (W - 0) * P
  BY <1>7, SMT
<1>9. ShareCovers(r)'
  BY <1>6, <1>8 DEF ShareCovers
<1>10. ClaimsOK(r)'
  BY <1>1, <1>2, <1>3, <1>4, <1>9 DEF ClaimsOK, Is
<1>11. ASSUME NEW q \in RoundIds, q # r PROVE ClaimsOK(q)'
  BY <1>1, <1>4, <1>11, OtherClaimsOK DEF ClaimsInv
<1> QED BY <1>10, <1>11 DEF ClaimsInv

LEMMA ClaimClaims ==
    ASSUME ClaimsInv, PillsInv', NEW r \in RoundIds, NEW p \in Players, Claim(r, p)
    PROVE  ClaimsInv'
<1> DEFINE pay == Payout(r, p)
           claimed == rounds[r].total_claimed + pay
           new == [rounds[r] EXCEPT !.total_claimed = claimed]
           old == positions[r][p]
           position == [old EXCEPT !.claimed = TRUE]
<1>1. /\ Is(r, "Settled") /\ old.side = rounds[r].winner /\ ~old.claimed
      /\ rounds' = [rounds EXCEPT ![r] = new]
      /\ positions' = [positions EXCEPT ![r][p] = position]
  BY DEF Claim, Claimable, Unpaid
<1>2. /\ PillsInv /\ TypeOK /\ rounds \in [RoundIds -> RoundType] /\ rounds[r] \in RoundType
      /\ positions \in [RoundIds -> [Players -> PositionType]] /\ old \in PositionType
      /\ old.total_deposited \in Nat /\ rounds[r].winner \in Sides
      /\ ClaimsOK(r) /\ ShareCovers(r)
  BY <1>1 DEF ClaimsInv, ClaimsOK, PillsInv, TypeOK, PositionType, RoundOK
<1>3. pay \in Nat
  BY <1>1, <1>2, PayoutType
<1> HIDE DEF pay, claimed
<1>4. /\ new.status = "Settled" /\ new.winner = rounds[r].winner
      /\ new.pool = rounds[r].pool /\ new.total_claimed = claimed
  BY <1>1, <1>2 DEF RoundType, Is
<1> HIDE DEF new
<1>5. rounds'[r] = new /\ \A q \in RoundIds : q # r => rounds'[q] = rounds[q]
  BY <1>1, <1>2
<1>6. position.side = old.side /\ position.claimed
  BY <1>2 DEF PositionType
<1> HIDE DEF position
<1>7. /\ positions'[r][p] = position
      /\ \A w \in Players : w # p => positions'[r][w] = positions[r][w]
      /\ \A q \in RoundIds : q # r => positions'[q] = positions[q]
  BY <1>1, <1>2
<1> DEFINE f == Owed(r)
           g == Owed(r)'
           d == old.total_deposited
<1>8. /\ \A w \in Players : f[w] \in Nat /\ g[w] \in Nat
      /\ \A w \in Players : w # p => g[w] = f[w]
      /\ f[p] = d /\ g[p] = 0
  <2>1. \A w \in Players : w # p => g[w] = f[w]
    BY <1>4, <1>5, <1>7 DEF Owed
  <2>2. f[p] = d /\ g[p] = 0
    BY <1>1, <1>6, <1>7 DEF Owed
  <2>3. \A w \in Players : f[w] \in Nat
    BY <1>2, StakeSums
  <2>4. \A w \in Players : g[w] \in Nat
    BY <2>1, <2>2, <2>3
  <2> QED BY <2>1, <2>2, <2>3, <2>4
<1>9. PlayerSum(Owed(r)) = PlayerSum(f) /\ PlayerSum(Owed(r))' = PlayerSum(g)
  OBVIOUS
<1> HIDE DEF f, g
<1>10. PlayerSum(g) = PlayerSum(f) + g[p] - f[p] /\ PlayerSum(f) \in Nat
  BY <1>8, PlayerSumChange, PlayerSumNat
<1> DEFINE W == WinnersShare(r)
           P == WinnerPool(r)
           T == rounds[r].total_claimed
           S == PlayerSum(f)
<1>11. W \in Nat /\ P \in Nat /\ T \in Nat /\ S \in Nat /\ d \in Nat
       /\ PlayerSum(g) = S - d
  BY <1>2, <1>8, <1>10, RoundFields, SplitBounds DEF WinnerPool
<1>12. WinnersShare(r)' = W /\ WinnerPool(r)' = P /\ rounds'[r].total_claimed = T + pay
  BY <1>4, <1>5 DEF WinnersShare, TreasuryAmount, NrrAmount, TotalPool, WinnerPool, claimed
<1>13. (P = 0 => T = 0) /\ W * S <= (W - T) * P
  BY <1>2, <1>9 DEF ShareCovers
<1>14. pay * P <= d * W /\ (P = 0 => pay = 0)
  BY <1>1, <1>2, PayoutBound DEF pay
<1> HIDE DEF W, P, T, S, d
<1>15. W * (S - d) <= (W - (T + pay)) * P
  BY <1>3, <1>11, <1>13, <1>14, ClaimArithmetic
<1>16. P = 0 => T + pay = 0
  BY <1>13, <1>14
<1>17. ShareCovers(r)'
  BY <1>9, <1>11, <1>12, <1>15, <1>16 DEF ShareCovers
<1>18. \A w \in Players : positions'[r][w].side = "None" => positions'[r][w] = NoPosition
  BY <1>1, <1>2, <1>6, <1>7 DEF ClaimsOK, Sides
<1>19. ClaimsOK(r)'
  BY <1>4, <1>5, <1>17, <1>18 DEF ClaimsOK, Is
<1>20. ASSUME NEW q \in RoundIds, q # r PROVE ClaimsOK(q)'
  BY <1>5, <1>7, <1>20, OtherClaimsOK DEF ClaimsInv
<1> QED BY <1>19, <1>20 DEF ClaimsInv

\* A step that ends a round or a position without paying.
LEMMA ExpireClaims ==
    ASSUME ClaimsInv, PillsInv', NEW r \in RoundIds, Expire(r)
    PROVE  ClaimsInv'
<1>1. rounds' = [rounds EXCEPT ![r].status = "Expired"] /\ positions' = positions
  BY DEF Expire
<1>2. /\ rounds \in [RoundIds -> RoundType] /\ rounds[r] \in RoundType /\ ClaimsOK(r)
  BY DEF ClaimsInv, PillsInv, TypeOK
<1>3. rounds'[r].status = "Expired" /\ \A q \in RoundIds : q # r => rounds'[q] = rounds[q]
  BY <1>1, <1>2 DEF RoundType
<1>4. ClaimsOK(r)'
  BY <1>1, <1>2, <1>3 DEF ClaimsOK, Is
<1>5. ASSUME NEW q \in RoundIds, q # r PROVE ClaimsOK(q)'
  BY <1>1, <1>3, <1>5, OtherClaimsOK DEF ClaimsInv
<1> QED BY <1>4, <1>5 DEF ClaimsInv

LEMMA SweepClaims ==
    ASSUME ClaimsInv, PillsInv', NEW r \in RoundIds, SweepUnclaimed(r)
    PROVE  ClaimsInv'
<1> DEFINE new == [rounds[r] EXCEPT !.swept = TRUE]
<1>1. rounds' = [rounds EXCEPT ![r] = new] /\ positions' = positions /\ Is(r, "Settled")
  BY DEF SweepUnclaimed
<1>2. /\ rounds \in [RoundIds -> RoundType] /\ rounds[r] \in RoundType /\ ClaimsOK(r)
  BY DEF ClaimsInv, PillsInv, TypeOK
<1>3. /\ new.status = rounds[r].status /\ new.winner = rounds[r].winner
      /\ new.pool = rounds[r].pool /\ new.total_claimed = rounds[r].total_claimed
  BY <1>2 DEF RoundType
<1> HIDE DEF new
<1>4. rounds'[r] = new /\ \A q \in RoundIds : q # r => rounds'[q] = rounds[q]
  BY <1>1, <1>2
<1>5. Owed(r)' = Owed(r)
  BY <1>1, <1>3, <1>4 DEF Owed
<1>6. /\ WinnersShare(r)' = WinnersShare(r) /\ WinnerPool(r)' = WinnerPool(r)
      /\ PlayerSum(Owed(r))' = PlayerSum(Owed(r))
  BY <1>3, <1>4, <1>5 DEF WinnersShare, TreasuryAmount, NrrAmount, TotalPool, WinnerPool
<1>7. ShareCovers(r)'
  BY <1>1, <1>2, <1>3, <1>4, <1>6 DEF ShareCovers, ClaimsOK
<1>8. ClaimsOK(r)'
  BY <1>1, <1>2, <1>3, <1>4, <1>7 DEF ClaimsOK, Is
<1>9. ASSUME NEW q \in RoundIds, q # r PROVE ClaimsOK(q)'
  BY <1>1, <1>4, <1>9, OtherClaimsOK DEF ClaimsInv
<1> QED BY <1>8, <1>9 DEF ClaimsInv

\* A winner who was not paid keeps the position.
LEMMA ClosePositionClaims ==
    ASSUME ClaimsInv, PillsInv', NEW r \in RoundIds, NEW p \in Players, ClosePosition(r, p)
    PROVE  ClaimsInv'
<1>1. /\ positions' = [positions EXCEPT ![r][p] = NoPosition] /\ rounds' = rounds
      /\ Is(r, "Settled") \/ Is(r, "Expired")
      /\ positions[r][p].side # rounds[r].winner \/ positions[r][p].claimed
  BY DEF ClosePosition, PositionClosable
<1>2. /\ positions \in [RoundIds -> [Players -> PositionType]] /\ ClaimsOK(r)
      /\ Is(r, "Settled") => rounds[r].winner \in Sides
  BY DEF ClaimsInv, PillsInv, TypeOK, RoundOK
<1>3. /\ positions'[r][p] = NoPosition
      /\ \A w \in Players : w # p => positions'[r][w] = positions[r][w]
      /\ \A q \in RoundIds : q # r => positions'[q] = positions[q]
  BY <1>1, <1>2
<1>4. ASSUME Is(r, "Settled") PROVE ShareCovers(r)'
  <2>1. Owed(r)' = Owed(r)
    BY <1>1, <1>2, <1>3, <1>4 DEF Owed, NoPosition, Sides
  <2>2. /\ WinnersShare(r)' = WinnersShare(r) /\ WinnerPool(r)' = WinnerPool(r)
        /\ PlayerSum(Owed(r))' = PlayerSum(Owed(r))
    BY <1>1, <2>1 DEF WinnersShare, TreasuryAmount, NrrAmount, TotalPool, WinnerPool
  <2> QED BY <1>1, <1>2, <1>4, <2>2 DEF ShareCovers, ClaimsOK
<1>5. ClaimsOK(r)'
  BY <1>1, <1>2, <1>3, <1>4 DEF ClaimsOK, Is
<1>6. ASSUME NEW q \in RoundIds, q # r PROVE ClaimsOK(q)'
  BY <1>1, <1>3, <1>6, OtherClaimsOK DEF ClaimsInv
<1> QED BY <1>5, <1>6 DEF ClaimsInv

LEMMA NextClaimsInv ==
    ASSUME ClaimsInv, [Next]_vars
    PROVE  ClaimsInv'
<1>1. PillsInv'
  BY NextPillsInv DEF ClaimsInv
<1>2. ASSUME rounds' = rounds, positions' = positions PROVE ClaimsInv'
  BY <1>1, <1>2, OtherClaimsOK DEF ClaimsInv
<1> QED BY <1>1, <1>2, CreateRoundClaims, DepositClaims, SettleClaims, ExpireClaims,
        ClaimClaims, SweepClaims, ClosePositionClaims
        DEF Next, Initialize, TransferAuthority, Gift, Tick, vars

\* The claims of a round never exceed the winners' share, however the payouts
\* are rounded and in whatever order they are made (claim, sweep_unclaimed).
THEOREM ClaimsWithin == Spec => []ClaimsWithinShare
<1>1. ClaimsInv /\ [Next]_vars => ClaimsInv'
  BY NextClaimsInv
<1>2. ClaimsInv => ClaimsWithinShare
  BY CoveredIsWithin DEF ClaimsInv, ClaimsOK, ClaimsWithinShare
<1> QED BY <1>1, <1>2, InitClaimsInv, PTL DEF Spec

-----------------------------------------------------------------------------
(* The positions behind the pools and the player counts.                   *)

Members(r, s) == {p \in Players : positions[r][p].side = s}

CountsOK(r) ==
    Is(r, "Active") => \A s \in Sides :
        rounds[r].players[s] = Min({Cardinality(Members(r, s)), MAX_U16})

CountsInv == ClaimsInv /\ \A r \in RoundIds : CountsOK(r)

LEMMA MinOfTwo ==
    ASSUME NEW a \in Nat, NEW b \in Nat
    PROVE  Min({a, b}) = IF a <= b THEN a ELSE b
BY DEF Min

LEMMA MembersFinite ==
    ASSUME NEW r, NEW s
    PROVE  /\ IsFiniteSet(Members(r, s)) /\ Cardinality(Members(r, s)) \in Nat
<1>1. Members(r, s) \subseteq Players
  BY DEF Members
<1>2. IsFiniteSet(Members(r, s))
  BY <1>1, PillsAssumption, FS_Subset
<1> QED BY <1>2, FS_CardinalityType

\* A round that keeps its counts, its sides and its place among the Active.
LEMMA SameCounts ==
    ASSUME NEW r \in RoundIds, CountsOK(r),
           Is(r, "Active")' =>
              /\ Is(r, "Active") /\ rounds'[r].players = rounds[r].players
              /\ \A p \in Players : positions'[r][p].side = positions[r][p].side
    PROVE  CountsOK(r)'
<1> SUFFICES ASSUME Is(r, "Active")', NEW s \in Sides
             PROVE  rounds'[r].players[s] = Min({Cardinality(Members(r, s)'), MAX_U16})
  BY DEF CountsOK
<1>1. Members(r, s)' = Members(r, s)
  BY DEF Members
<1> QED BY <1>1 DEF CountsOK

\* create_round: nobody is on either side.
LEMMA CreateRoundCounts ==
    ASSUME CountsInv, NEW d \in Durations, CreateRound(d), NEW r \in RoundIds
    PROVE  CountsOK(r)'
<1>0. PICK id \in RoundIds : id = game.round_counter + 1
  BY DEF CreateRound
<1> DEFINE new == [NoRound EXCEPT !.status = "Active",
                      !.pool = [s \in Sides |-> HalfSeed], !.seed = HalfSeed,
                      !.ends_at = clock + d]
<1>1. rounds' = [rounds EXCEPT ![id] = new] /\ positions' = positions
  BY <1>0 DEF CreateRound
<1>2. \A s \in Sides : new.players[s] = 0
  BY DEF NoRound
<1> HIDE DEF new
<1>3. /\ rounds \in [RoundIds -> RoundType] /\ game.round_counter \in Nat
      /\ RoundOK(id) /\ CountsOK(r) /\ MAX_U16 \in Nat
  BY PillsAssumption DEF CountsInv, ClaimsInv, PillsInv, TypeOK, GameType
<1>4. CASE r # id
  <2>1. rounds'[r] = rounds[r]
    BY <1>1, <1>3, <1>4
  <2> QED BY <1>1, <1>3, <2>1, SameCounts DEF Is
<1>5. CASE r = id
  <2>1. \A p \in Players : positions[r][p].side = "None"
    BY <1>0, <1>3, <1>5 DEF RoundOK
  <2>2. \A s \in Sides : Members(r, s)' = {}
    BY <1>1, <2>1 DEF Members, Sides
  <2>3. \A s \in Sides : rounds'[r].players[s] = 0
    BY <1>1, <1>2, <1>3, <1>5
  <2>4. Min({0, MAX_U16}) = 0
    BY <1>3, MinOfTwo
  <2> QED BY <2>2, <2>3, <2>4, FS_EmptySet DEF CountsOK
<1> QED BY <1>4, <1>5

\* deposit: the first of a player counts one more on its side, unless the u16
\* is full.
LEMMA DepositCounts ==
    ASSUME CountsInv, NEW r \in RoundIds, NEW p \in Players, NEW side \in Sides,
           NEW a \in Tiers, Deposit(r, p, side, a), NEW q \in RoundIds
    PROVE  CountsOK(q)'
<1> DEFINE old == positions[r][p]
           first == old.side = "None"
           pool == rounds[r].pool[side] + a
           count == IF first /\ rounds[r].players[side] < MAX_U16
                    THEN rounds[r].players[side] + 1 ELSE rounds[r].players[side]
           pools == [rounds[r].pool EXCEPT ![side] = pool]
           counts == [rounds[r].players EXCEPT ![side] = count]
           new == [rounds[r] EXCEPT !.pool = pools, !.players = counts]
           side_now == IF first THEN side ELSE old.side
           position == [old EXCEPT !.side = side_now,
                                   !.total_deposited = old.total_deposited + a,
                                   !.num_deposits = old.num_deposits + 1]
<1>1. Is(r, "Active") /\ SideFree(r, p, side)
  BY DEF Deposit
<1>2. positions' = [positions EXCEPT ![r][p] = position]
  <2>1. positions' = [positions EXCEPT ![r][p] =
              [old EXCEPT !.side = IF first THEN side ELSE @,
                          !.total_deposited = @ + a,
                          !.num_deposits = @ + 1]]
    BY Zenon DEF Deposit
  <2> QED BY <2>1, Zenon
<1>3. /\ rounds \in [RoundIds -> RoundType] /\ rounds[r] \in RoundType
      /\ positions \in [RoundIds -> [Players -> PositionType]] /\ old \in PositionType
      /\ rounds[r].players \in [Sides -> 0..MAX_U16] /\ MAX_U16 \in Nat
      /\ \A x \in RoundIds : CountsOK(x)
  BY PillsAssumption DEF CountsInv, ClaimsInv, PillsInv, TypeOK, RoundType
<1>4. rounds' = [rounds EXCEPT ![r] = new]
  BY <1>3 DEF Deposit, RoundType
<1>5. position.side = side
  BY <1>1, <1>3 DEF SideFree, PositionType
<1> HIDE DEF position
<1>6. /\ positions'[r][p] = position
      /\ \A w \in Players : w # p => positions'[r][w] = positions[r][w]
      /\ \A x \in RoundIds : x # r => /\ positions'[x] = positions[x]
                                      /\ rounds'[x] = rounds[x]
  BY <1>2, <1>3, <1>4
<1>7. /\ rounds'[r].players[side] = count
      /\ \A s \in Sides : s # side => rounds'[r].players[s] = rounds[r].players[s]
  BY <1>3, <1>4 DEF RoundType
<1>8. CASE q # r
  BY <1>3, <1>6, <1>8, SameCounts DEF Is
<1>9. CASE q = r
  <2> SUFFICES ASSUME NEW s \in Sides
               PROVE  rounds'[r].players[s] = Min({Cardinality(Members(r, s)'), MAX_U16})
    BY <1>9 DEF CountsOK
  <2>1. rounds[r].players[s] = Min({Cardinality(Members(r, s)), MAX_U16})
    BY <1>1, <1>3 DEF CountsOK
  <2>2. CASE s # side \/ ~first
    <3>1. Members(r, s)' = Members(r, s)
      BY <1>1, <1>5, <1>6, <2>2 DEF Members, SideFree, Sides
    <3>2. rounds'[r].players[s] = rounds[r].players[s]
      BY <1>7, <2>2
    <3> QED BY <2>1, <3>1, <3>2
  <2>3. CASE s = side /\ first
    <3> DEFINE n == Cardinality(Members(r, s))
    <3>1. Members(r, s)' = Members(r, s) \cup {p} /\ p \notin Members(r, s)
      BY <1>5, <1>6, <2>3 DEF Members, Sides
    <3>2. Cardinality(Members(r, s)') = n + 1 /\ n \in Nat
      BY <3>1, MembersFinite, FS_AddElement
    <3> HIDE DEF n
    <3>3. /\ Min({n, MAX_U16}) = IF n <= MAX_U16 THEN n ELSE MAX_U16
          /\ Min({n + 1, MAX_U16}) = IF n + 1 <= MAX_U16 THEN n + 1 ELSE MAX_U16
      BY <1>3, <3>2, MinOfTwo
    <3>4. rounds[r].players[s] = Min({n, MAX_U16})
      BY <2>1 DEF n
    <3>5. rounds'[r].players[s] = Min({n + 1, MAX_U16})
      BY <1>3, <1>7, <2>3, <3>2, <3>3, <3>4
    <3> QED BY <3>2, <3>5
  <2> QED BY <2>2, <2>3
<1> QED BY <1>8, <1>9

\* Every other step leaves an Active round's counts and sides alone.
LEMMA NextCountsInv ==
    ASSUME CountsInv, [Next]_vars
    PROVE  CountsInv'
<1>1. /\ rounds \in [RoundIds -> RoundType] /\ \A x \in RoundIds : rounds[x] \in RoundType
      /\ positions \in [RoundIds -> [Players -> PositionType]]
      /\ \A q \in RoundIds : CountsOK(q)
  BY DEF CountsInv, ClaimsInv, PillsInv, TypeOK
<1> SUFFICES ASSUME NEW q \in RoundIds PROVE CountsOK(q)'
  BY NextClaimsInv DEF CountsInv
<1>2. ASSUME rounds' = rounds, positions' = positions PROVE CountsOK(q)'
  BY <1>1, <1>2, SameCounts DEF Is
<1>3. ASSUME NEW r \in RoundIds, rounds'[r].status # "Active",
             \A x \in RoundIds : x # r => /\ rounds'[x] = rounds[x]
                                          /\ positions'[x] = positions[x]
      PROVE  CountsOK(q)'
  BY <1>1, <1>3, SameCounts DEF Is
<1>4. ASSUME NEW r \in RoundIds, NEW s \in Sides, Settle(r, s) PROVE CountsOK(q)'
  BY <1>1, <1>3, <1>4 DEF Settle, RoundType
<1>5. ASSUME NEW r \in RoundIds, Expire(r) PROVE CountsOK(q)'
  BY <1>1, <1>3, <1>5 DEF Expire, RoundType
<1>6. ASSUME NEW r \in RoundIds, NEW p \in Players, Claim(r, p) PROVE CountsOK(q)'
  BY <1>1, <1>3, <1>6 DEF Claim, Claimable, Unpaid, Is, RoundType
<1>7. ASSUME NEW r \in RoundIds, SweepUnclaimed(r) PROVE CountsOK(q)'
  BY <1>1, <1>3, <1>7 DEF SweepUnclaimed, Is, RoundType
<1>8. ASSUME NEW r \in RoundIds, NEW p \in Players, ClosePosition(r, p) PROVE CountsOK(q)'
  BY <1>1, <1>3, <1>8 DEF ClosePosition, PositionClosable, Is
<1> QED BY <1>2, <1>4, <1>5, <1>6, <1>7, <1>8, CreateRoundCounts, DepositCounts
        DEF Next, Initialize, TransferAuthority, Gift, Tick, vars

\* While a round is Active its pools are its seeds and the stakes of the positions
\* on each side, and its player counts are the positions', up to where the u16
\* saturates, for any number of players (create_round, deposit).
THEOREM PositionsBack == Spec => []PositionsBackPools
<1>1. CountsInv /\ [Next]_vars => CountsInv'
  BY NextCountsInv
<1>2. Init => CountsInv
  BY InitClaimsInv DEF CountsInv, CountsOK, Init, Is, NoRound
<1>3. CountsInv => PositionsBackPools
  BY DEF CountsInv, CountsOK, ClaimsInv, ClaimsOK, Members, PositionsBackPools
<1> QED BY <1>1, <1>2, <1>3, PTL DEF Spec

-----------------------------------------------------------------------------
(* The refinement.                                                         *)

MappedNext == [Prize!PoolNext]_(Prize!poolVars)

\* What every operation of the pool is mapped from.
LEMMA MappedTypes ==
    ASSUME ClaimsInv
    PROVE  /\ Pots \in [RoundIds -> Nat]
           /\ Phases \in [RoundIds -> {"Unused", "Open", "Resolved"}]
           /\ VaultHeld \in Int /\ game.nrr_balance \in Nat
<1>1. ASSUME NEW r \in RoundIds PROVE Held(r) \in Nat
  <2>1. /\ TotalPool(r) \in Nat /\ WinnersShare(r) \in Nat /\ rounds[r].total_claimed \in Nat
    BY RoundFields, SplitBounds DEF ClaimsInv, PillsInv
  <2>2. Is(r, "Settled") => rounds[r].total_claimed <= WinnersShare(r)
    BY CoveredIsWithin DEF ClaimsInv, ClaimsOK
  <2> QED BY <2>1, <2>2 DEF Held
<1>2. Pots \in [RoundIds -> Nat]
  BY <1>1 DEF Pots
<1>3. Phases \in [RoundIds -> {"Unused", "Open", "Resolved"}]
  BY DEF Phases
<1>4. VaultHeld \in Int /\ game.nrr_balance \in Nat
  BY PillsAssumption DEF VaultHeld, ClaimsInv, PillsInv, TypeOK, GameType
<1> QED BY <1>2, <1>3, <1>4

\* The pool's sum is the program's.
LEMMA SameSum == ASSUME NEW f, NEW n PROVE Prize!SumTo(f, n) = SumTo(f, n)
BY DEF Prize!SumTo, SumTo, Prize!SumFunctionOnSet, SumFunctionOnSet,
       Prize!FoldFunctionOnSet, FoldFunctionOnSet, Prize!MapThenFoldSet, MapThenFoldSet

LEMMA InitMapped == Init => Prize!PoolInit
<1> SUFFICES ASSUME Init PROVE Prize!PoolInit
  OBVIOUS
<1>1. ClaimsInv
  BY InitClaimsInv
<1>2. \A r \in RoundIds : Is(r, "None")
  BY DEF Init, Is, NoRound
<1>3. \A r \in RoundIds : Pots[r] = 0
  BY <1>2 DEF Pots, Held, Is
<1>4. SumTo(Pots, MAX_ROUNDS) = 0
  BY <1>3, SumToZero, PillsAssumption DEF RoundIds
<1>5. VaultHeld = 0 /\ game.nrr_balance = 0
  BY DEF Init, VaultHeld
<1> QED BY <1>1, <1>3, <1>4, <1>5, MappedTypes, SameSum
        DEF Prize!PoolInit, Prize!Covered, Prize!Rounds, RoundIds

\* A step of the program that is none of the pool.
LEMMA StutterMapped ==
    ASSUME VaultHeld' = VaultHeld, game'.nrr_balance = game.nrr_balance,
           rounds' = rounds
    PROVE  MappedNext
<1>1. Pots' = Pots
  BY DEF Pots, Held, Is, TotalPool, WinnersShare, TreasuryAmount, NrrAmount
<1>2. Phases' = Phases
  BY DEF Phases, Is
<1> QED BY <1>1, <1>2 DEF MappedNext, Prize!poolVars

\* The rounds that are not written keep their pots and phases.
LEMMA OneRoundMapped ==
    ASSUME ClaimsInv, NEW r \in RoundIds,
           \A q \in RoundIds : q # r => rounds'[q] = rounds[q]
    PROVE  /\ Pots' = [Pots EXCEPT ![r] = Pots'[r]]
           /\ Phases' = [Phases EXCEPT ![r] = Phases'[r]]
           /\ Pots[r] = Held(r) /\ Pots'[r] = Held(r)'
<1>1. \A q \in RoundIds : q # r => Held(q)' = Held(q)
  BY DEF Held, Is, TotalPool, WinnersShare, TreasuryAmount, NrrAmount
<1>2. \A q \in RoundIds : q # r => Pots'[q] = Pots[q]
  BY <1>1 DEF Pots
<1>3. \A q \in RoundIds : q # r => Phases'[q] = Phases[q]
  BY DEF Phases, Is
<1>4. Pots' = [Pots EXCEPT ![r] = Pots'[r]]
  BY <1>2 DEF Pots
<1>5. Phases' = [Phases EXCEPT ![r] = Phases'[r]]
  <2> DEFINE Values == {"Unused", "Open", "Resolved"}
  <2>1. Phases \in [RoundIds -> Values] /\ Phases' \in [RoundIds -> Values]
    BY DEF Phases
  <2> QED BY <1>3, <2>1
<1> QED BY <1>4, <1>5 DEF Pots

\* create_round: the seeds come out of the reserve.
LEMMA CreateRoundMapped ==
    ASSUME ClaimsInv, ClaimsInv', NEW d \in Durations, CreateRound(d)
    PROVE  MappedNext
<1>0. PICK id \in RoundIds : id = game.round_counter + 1
  BY DEF CreateRound
<1> DEFINE new == [NoRound EXCEPT !.status = "Active",
                      !.pool = [s \in Sides |-> HalfSeed], !.seed = HalfSeed,
                      !.ends_at = clock + d]
<1>1. /\ game' = [game EXCEPT !.nrr_balance = ReserveAfterSeeding, !.round_counter = id]
      /\ rounds' = [rounds EXCEPT ![id] = new]
      /\ UNCHANGED <<vault, gifts>>
  BY <1>0 DEF CreateRound
<1>2. TypeOK /\ game \in GameType /\ rounds \in [RoundIds -> RoundType]
  BY DEF ClaimsInv, PillsInv, TypeOK
<1>3. new.status = "Active" /\ new.pool["A"] = HalfSeed /\ new.pool["B"] = HalfSeed
  BY DEF NoRound, Sides
<1> HIDE DEF new
<1>4. /\ rounds'[id] = new /\ \A q \in RoundIds : q # id => rounds'[q] = rounds[q]
      /\ game'.initialized = game.initialized /\ game'.nrr_balance = ReserveAfterSeeding
  BY <1>1, <1>2 DEF GameType
<1>5. Is(id, "None")
  BY <1>0, <1>2 DEF ClaimsInv, PillsInv, RoundOK, GameType
<1>6. Held(id)' = HalfSeed + HalfSeed
  BY <1>3, <1>4 DEF Held, Is, TotalPool
<1>7. /\ game.nrr_balance - ReserveAfterSeeding = HalfSeed + HalfSeed
      /\ HalfSeed \in Nat /\ ReserveAfterSeeding \in Nat /\ game.nrr_balance \in Nat
  BY <1>2, SeedBounds DEF TypeOK, GameType
<1>8. /\ Pots' = [Pots EXCEPT ![id] = Pots'[id]] /\ Pots'[id] = HalfSeed + HalfSeed
      /\ Phases' = [Phases EXCEPT ![id] = Phases'[id]]
  BY <1>4, <1>6, OneRoundMapped
<1>9. Phases[id] = "Unused" /\ Phases'[id] = "Open"
  BY <1>3, <1>4, <1>5 DEF Phases, Is
<1>10. VaultHeld' = VaultHeld /\ VaultHeld' \in Int
  BY <1>1, <1>4, MappedTypes DEF VaultHeld
<1>11. Pots'[id] \in 0..game.nrr_balance
       /\ game'.nrr_balance = game.nrr_balance - Pots'[id]
  BY <1>4, <1>7, <1>8
<1>12. Phases' = [Phases EXCEPT ![id] = "Open"]
  BY <1>8, <1>9, Zenon
<1>13. Prize!Open(id)
  BY <1>8, <1>9, <1>10, <1>11, <1>12 DEF Prize!Open
<1> QED BY <1>10, <1>13 DEF MappedNext, Prize!PoolNext, Prize!Rounds, RoundIds

\* deposit: a stake.
LEMMA DepositMapped ==
    ASSUME ClaimsInv, ClaimsInv', NEW r \in RoundIds, NEW p \in Players,
           NEW side \in Sides, NEW a \in Tiers, Deposit(r, p, side, a)
    PROVE  MappedNext
<1> DEFINE pool == rounds[r].pool[side] + a
           count == IF positions[r][p].side = "None" /\ rounds[r].players[side] < MAX_U16
                    THEN rounds[r].players[side] + 1 ELSE rounds[r].players[side]
           pools == [rounds[r].pool EXCEPT ![side] = pool]
           counts == [rounds[r].players EXCEPT ![side] = count]
           new == [rounds[r] EXCEPT !.pool = pools, !.players = counts]
<1>1. Is(r, "Active") /\ vault' = vault + a /\ UNCHANGED <<game, gifts>>
  BY DEF Deposit
<1>2. /\ TypeOK /\ rounds \in [RoundIds -> RoundType] /\ rounds[r] \in RoundType
      /\ a \in Nat /\ vault \in Nat /\ gifts \in Nat /\ VAULT_RENT \in Nat
      /\ rounds[r].pool \in [Sides -> Nat]
  BY PillsAssumption DEF ClaimsInv, PillsInv, TypeOK, RoundType
<1>3. rounds' = [rounds EXCEPT ![r] = new]
  BY <1>2 DEF Deposit, RoundType
<1> HIDE DEF counts, pool
<1>4. new.status = "Active" /\ new.pool = pools
  BY <1>1, <1>2 DEF RoundType, Is
<1> HIDE DEF new
<1>5. rounds'[r] = new /\ \A q \in RoundIds : q # r => rounds'[q] = rounds[q]
  BY <1>2, <1>3
<1>6. pools["A"] + pools["B"] = rounds[r].pool["A"] + rounds[r].pool["B"] + a
  BY <1>2 DEF Sides, pool
<1>7. Held(r)' = Held(r) + a
  BY <1>1, <1>4, <1>5, <1>6 DEF Held, Is, TotalPool
<1>8. game.initialized
  BY <1>1, Initialized DEF Is, ClaimsInv
<1>9. VaultHeld' - VaultHeld = a /\ VaultHeld' \in Int
  BY <1>1, <1>2, <1>8 DEF VaultHeld
<1>10. /\ Pots' = [Pots EXCEPT ![r] = Pots'[r]] /\ Pots'[r] = Pots[r] + a
       /\ Phases' = [Phases EXCEPT ![r] = Phases'[r]]
  BY <1>5, <1>7, OneRoundMapped
<1>11. Phases[r] = "Open" /\ Phases'[r] = Phases[r]
  BY <1>1, <1>4, <1>5 DEF Phases, Is
<1>12. Phases' = Phases /\ Pots' = [Pots EXCEPT ![r] = @ + a]
  BY <1>10, <1>11 DEF Phases
<1>13. Prize!Stake(r)
  BY <1>1, <1>2, <1>9, <1>11, <1>12 DEF Prize!Stake
<1> QED BY <1>9, <1>13 DEF MappedNext, Prize!PoolNext, Prize!Rounds, RoundIds

\* settle: the treasury is paid, the reserve gets its cut, the rest waits for
\* the winners.
LEMMA SettleMapped ==
    ASSUME ClaimsInv, ClaimsInv', NEW r \in RoundIds, NEW side \in Sides, Settle(r, side)
    PROVE  MappedNext
<1> DEFINE treasury == TreasuryAmount(r)
           returned == NrrAmount(r)
           share == WinnersShare(r)
           pool == TotalPool(r)
           nrr == game.nrr_balance + returned
           new == [rounds[r] EXCEPT !.status = "Settled", !.winner = side,
                      !.total_claimed = 0, !.treasury_paid = treasury,
                      !.nrr_returned = returned, !.settled_at = clock]
<1>1. /\ Is(r, "Active") /\ vault' = vault - treasury
      /\ game' = [game EXCEPT !.nrr_balance = nrr]
      /\ rounds' = [rounds EXCEPT ![r] = new]
      /\ UNCHANGED gifts
  BY DEF Settle
<1>2. /\ TypeOK /\ PillsInv /\ rounds \in [RoundIds -> RoundType] /\ rounds[r] \in RoundType
      /\ vault \in Nat /\ gifts \in Nat /\ VAULT_RENT \in Nat
      /\ game \in GameType /\ game.nrr_balance \in Nat
  BY PillsAssumption DEF ClaimsInv, PillsInv, TypeOK, GameType
<1>3. /\ treasury \in Nat /\ returned \in Nat /\ pool \in Nat /\ share \in Nat
      /\ share = pool - treasury - returned
  BY <1>2, RoundFields, SplitBounds
<1>4. Held(r) = pool
  BY <1>1 DEF Held, Is
<1>5. /\ new.status = "Settled" /\ new.total_claimed = 0 /\ new.pool = rounds[r].pool
      /\ new.swept = rounds[r].swept
  BY <1>2 DEF RoundType
<1>6. /\ rounds'[r] = new /\ ~rounds[r].swept
      /\ \A q \in RoundIds : q # r => rounds'[q] = rounds[q]
  BY <1>1, <1>2 DEF PillsInv, RoundOK
<1> HIDE DEF new
<1>7. Held(r)' = share
  <2>1. WinnersShare(r)' = WinnersShare(r)
    BY <1>5, <1>6 DEF WinnersShare, TreasuryAmount, NrrAmount, TotalPool
  <2>2. Held(r)' = WinnersShare(r) - 0
    BY <1>5, <1>6, <2>1 DEF Held, Is
  <2> QED BY <1>3, <2>2
<1> HIDE DEF treasury, returned, share, pool
<1>8. game'.nrr_balance = game.nrr_balance + returned /\ game'.initialized = game.initialized
  BY <1>1, <1>2 DEF GameType
<1>9. game.initialized
  BY <1>1, <1>2, Initialized DEF Is
<1>10. VaultHeld - VaultHeld' = treasury /\ VaultHeld' \in Int
  BY <1>1, <1>2, <1>3, <1>8, <1>9 DEF VaultHeld
<1>11. /\ Pots' = [Pots EXCEPT ![r] = Pots'[r]] /\ Pots[r] = pool /\ Pots'[r] = share
       /\ Phases' = [Phases EXCEPT ![r] = Phases'[r]]
  BY <1>4, <1>6, <1>7, OneRoundMapped
<1>12. Phases[r] = "Open" /\ Phases'[r] = "Resolved"
  BY <1>1, <1>5, <1>6 DEF Phases, Is
<1>13. Phases' = [Phases EXCEPT ![r] = "Resolved"]
  BY <1>11, <1>12, Zenon
<1>14. Pots[r] - (VaultHeld - VaultHeld') - Pots'[r] = returned
  BY <1>3, <1>10, <1>11
<1>15. Prize!Resolve(r)
  BY <1>3, <1>8, <1>10, <1>11, <1>12, <1>13, <1>14 DEF Prize!Resolve
<1> QED BY <1>10, <1>15 DEF MappedNext, Prize!PoolNext, Prize!Rounds, RoundIds

\* expire: nothing is paid, the whole pot goes to the reserve.
LEMMA ExpireMapped ==
    ASSUME ClaimsInv, ClaimsInv', NEW r \in RoundIds, Expire(r)
    PROVE  MappedNext
<1> DEFINE seeds == 2 * rounds[r].seed
           nrr == game.nrr_balance + seeds
<1>1. /\ Is(r, "Active") /\ game' = [game EXCEPT !.nrr_balance = nrr] /\ NoPlayers(r)
      /\ rounds' = [rounds EXCEPT ![r].status = "Expired"]
      /\ UNCHANGED <<vault, gifts>>
  BY DEF Expire
<1>2. /\ PillsInv /\ TypeOK /\ rounds \in [RoundIds -> RoundType] /\ rounds[r] \in RoundType
      /\ game \in GameType /\ game.nrr_balance \in Nat /\ rounds[r].seed \in Nat
  BY RoundFields DEF ClaimsInv, PillsInv, TypeOK, GameType
<1>3. rounds[r].pool["A"] = rounds[r].seed /\ rounds[r].pool["B"] = rounds[r].seed
  BY <1>1, <1>2 DEF PillsInv, RoundOK, NoPlayers, Sides
<1>4. Held(r) = seeds /\ seeds \in Nat
  BY <1>1, <1>2, <1>3 DEF Held, Is, TotalPool
<1>5. /\ rounds'[r].status = "Expired"
      /\ \A q \in RoundIds : q # r => rounds'[q] = rounds[q]
  BY <1>1, <1>2 DEF RoundType
<1>6. Held(r)' = 0
  BY <1>5 DEF Held, Is
<1> HIDE DEF seeds
<1>7. game'.nrr_balance = game.nrr_balance + seeds /\ game'.initialized = game.initialized
  BY <1>1, <1>2 DEF GameType
<1>8. VaultHeld' = VaultHeld /\ VaultHeld' \in Int
  BY <1>1, <1>7, MappedTypes DEF VaultHeld
<1>9. /\ Pots' = [Pots EXCEPT ![r] = Pots'[r]] /\ Pots[r] = seeds /\ Pots'[r] = 0
      /\ Phases' = [Phases EXCEPT ![r] = Phases'[r]]
  BY <1>4, <1>5, <1>6, OneRoundMapped
<1>10. Phases[r] = "Open" /\ Phases'[r] = "Resolved"
  BY <1>1, <1>5 DEF Phases, Is
<1>11. Phases' = [Phases EXCEPT ![r] = "Resolved"]
  BY <1>9, <1>10, Zenon
<1>12. /\ VaultHeld - VaultHeld' = 0
       /\ Pots[r] - (VaultHeld - VaultHeld') - Pots'[r] = seeds
  BY <1>4, <1>8, <1>9
<1>13. Prize!Resolve(r)
  BY <1>4, <1>7, <1>9, <1>10, <1>11, <1>12 DEF Prize!Resolve
<1> QED BY <1>8, <1>13 DEF MappedNext, Prize!PoolNext, Prize!Rounds, RoundIds

\* claim: paid from the round's own pot.
LEMMA ClaimMapped ==
    ASSUME ClaimsInv, ClaimsInv', NEW r \in RoundIds, NEW p \in Players, Claim(r, p)
    PROVE  MappedNext
<1> DEFINE pay == Payout(r, p)
           claimed == rounds[r].total_claimed + pay
           new == [rounds[r] EXCEPT !.total_claimed = claimed]
           share == WinnersShare(r)
<1>1. /\ Is(r, "Settled") /\ ~rounds[r].swept /\ vault' = vault - pay
      /\ UNCHANGED <<game, gifts>>
  BY DEF Claim, Claimable, Unpaid
<1>2. rounds' = [rounds EXCEPT ![r] = new]
  BY DEF Claim
<1>3. /\ PillsInv /\ TypeOK /\ rounds \in [RoundIds -> RoundType] /\ rounds[r] \in RoundType
      /\ vault \in Nat /\ gifts \in Nat /\ VAULT_RENT \in Nat
      /\ rounds[r].total_claimed \in Nat /\ share \in Nat
  BY RoundFields, SplitBounds, PillsAssumption DEF ClaimsInv, PillsInv, TypeOK
<1>4. pay \in Nat
  BY <1>1, <1>3, PayoutType
<1> HIDE DEF pay, claimed
<1>5. /\ new.status = rounds[r].status /\ new.pool = rounds[r].pool
      /\ new.swept = rounds[r].swept /\ new.total_claimed = claimed
  BY <1>3 DEF RoundType
<1> HIDE DEF new
<1>6. rounds'[r] = new /\ \A q \in RoundIds : q # r => rounds'[q] = rounds[q]
  BY <1>2, <1>3
<1>7. WinnersShare(r)' = WinnersShare(r)
  BY <1>5, <1>6 DEF WinnersShare, TreasuryAmount, NrrAmount, TotalPool
<1>8. Held(r) = share - rounds[r].total_claimed /\ Held(r)' = share - claimed
  BY <1>1, <1>5, <1>6, <1>7 DEF Held, Is
<1> HIDE DEF share
<1>9. /\ Pots' = [Pots EXCEPT ![r] = Pots'[r]]
      /\ Pots[r] = share - rounds[r].total_claimed /\ Pots'[r] = share - claimed
      /\ Phases' = [Phases EXCEPT ![r] = Phases'[r]]
  BY <1>6, <1>8, OneRoundMapped
<1>10. Unpaid(r, p) /\ ShareCovers(r)
  BY <1>1 DEF Claim, Claimable, ClaimsInv, ClaimsOK
<1>11. Pots'[r] = Pots[r] - pay /\ pay \in 0..Pots[r]
  <2>1. pay <= share - rounds[r].total_claimed
    BY <1>3, <1>10, PayoutFits DEF pay, share
  <2> QED BY <1>3, <1>4, <1>9, <2>1 DEF claimed
<1>12. Phases[r] = "Resolved" /\ Phases'[r] = Phases[r]
  BY <1>1, <1>5, <1>6 DEF Phases, Is
<1>13. Phases' = Phases
  BY <1>9, <1>12 DEF Phases
<1>14. Pots' = [Pots EXCEPT ![r] = @ - pay]
  BY <1>9, <1>11 DEF Pots
<1>15. game.initialized
  BY <1>1, <1>3, Initialized DEF Is
<1>16. VaultHeld - VaultHeld' = pay /\ VaultHeld' \in Int
  BY <1>1, <1>3, <1>4, <1>15 DEF VaultHeld
<1>17. Prize!Pay(r)
  BY <1>1, <1>11, <1>12, <1>13, <1>14, <1>16 DEF Prize!Pay
<1> QED BY <1>16, <1>17 DEF MappedNext, Prize!PoolNext, Prize!Rounds, RoundIds

\* sweep_unclaimed: what is left of the pot is released.
LEMMA SweepMapped ==
    ASSUME ClaimsInv, ClaimsInv', NEW r \in RoundIds, SweepUnclaimed(r)
    PROVE  MappedNext
<1> DEFINE unclaimed == WinnersShare(r) - rounds[r].total_claimed
           nrr == game.nrr_balance + unclaimed
           new == [rounds[r] EXCEPT !.swept = TRUE]
<1>1. /\ Is(r, "Settled") /\ ~rounds[r].swept
      /\ game' = [game EXCEPT !.nrr_balance = nrr]
      /\ rounds' = [rounds EXCEPT ![r] = new]
      /\ UNCHANGED <<vault, gifts>>
  BY DEF SweepUnclaimed
<1>2. /\ PillsInv /\ TypeOK /\ rounds \in [RoundIds -> RoundType] /\ rounds[r] \in RoundType
      /\ game \in GameType
  BY DEF ClaimsInv, PillsInv, TypeOK
<1>3. Held(r) = unclaimed
  BY <1>1 DEF Held, Is
<1>4. new.status = "Settled" /\ new.swept
  BY <1>1, <1>2 DEF RoundType, Is
<1> HIDE DEF new, unclaimed
<1>5. rounds'[r] = new /\ \A q \in RoundIds : q # r => rounds'[q] = rounds[q]
  BY <1>1, <1>2
<1>6. Held(r)' = 0
  BY <1>4, <1>5 DEF Held, Is
<1>7. game'.nrr_balance = game.nrr_balance + unclaimed /\ game'.initialized = game.initialized
  BY <1>1, <1>2 DEF GameType
<1>8. VaultHeld' = VaultHeld /\ VaultHeld' \in Int
  BY <1>1, <1>7, MappedTypes DEF VaultHeld
<1>9. /\ Pots' = [Pots EXCEPT ![r] = Pots'[r]] /\ Pots[r] = unclaimed /\ Pots'[r] = 0
      /\ Phases' = [Phases EXCEPT ![r] = Phases'[r]]
  BY <1>3, <1>5, <1>6, OneRoundMapped
<1>10. Phases[r] = "Resolved" /\ Phases'[r] = Phases[r]
  BY <1>1, <1>4, <1>5 DEF Phases, Is
<1>11. Phases' = Phases
  BY <1>9, <1>10 DEF Phases
<1>12. Pots' = [Pots EXCEPT ![r] = 0]
  BY <1>9, Zenon
<1>13. Prize!Release(r)
  BY <1>7, <1>8, <1>9, <1>10, <1>11, <1>12 DEF Prize!Release
<1> QED BY <1>8, <1>13 DEF MappedNext, Prize!PoolNext, Prize!Rounds, RoundIds

\* Every step of the program is a step of the pool or none.
LEMMA NextMapped ==
    ASSUME ClaimsInv, [Next]_vars
    PROVE  MappedNext
<1>1. ClaimsInv'
  BY NextClaimsInv
<1>2. /\ game \in GameType /\ vault \in Nat /\ gifts \in Nat /\ VAULT_RENT \in Nat
      /\ Undeployed
  BY PillsAssumption DEF ClaimsInv, PillsInv, TypeOK
<1>3. ASSUME NEW k \in Keys, Initialize(k) PROVE MappedNext
  <2>1. /\ game.nrr_balance = 0 /\ game'.nrr_balance = 0 /\ ~game.initialized
        /\ game'.initialized /\ gifts = 0 /\ gifts' = 0 /\ vault' = VAULT_RENT
        /\ rounds' = rounds
    BY <1>2, <1>3 DEF Initialize, Undeployed
  <2>2. VaultHeld' = VaultHeld
    BY <1>2, <2>1 DEF VaultHeld
  <2> QED BY <2>1, <2>2, StutterMapped
<1>4. ASSUME NEW k \in Keys, TransferAuthority(k) PROVE MappedNext
  <2>1. /\ game'.nrr_balance = game.nrr_balance /\ game'.initialized = game.initialized
        /\ UNCHANGED <<rounds, vault, gifts>>
    BY <1>2, <1>4 DEF TransferAuthority, GameType
  <2> QED BY <2>1, StutterMapped DEF VaultHeld
<1>5. ASSUME NEW a \in Gifts, Gift(a) PROVE MappedNext
  <2>1. /\ game.initialized /\ vault' = vault + a /\ gifts' = gifts + a /\ a \in Nat
        /\ UNCHANGED <<game, rounds>>
    BY <1>5, PillsAssumption DEF Gift
  <2>2. VaultHeld' = VaultHeld
    BY <1>2, <2>1 DEF VaultHeld
  <2> QED BY <2>1, <2>2, StutterMapped
<1>6. ASSUME UNCHANGED <<game, rounds, vault, gifts>> PROVE MappedNext
  BY <1>6, StutterMapped DEF VaultHeld
<1> QED BY <1>1, <1>3, <1>4, <1>5, <1>6, CreateRoundMapped, DepositMapped, SettleMapped,
        ExpireMapped, ClaimMapped, SweepMapped
        DEF Next, ClosePosition, PositionClosable, Tick, vars

\* The program implements PrizePool, whatever the authority does and however
\* many rounds overlap: every round pays from its own pot, and the reserve loses
\* only what seeds a round (create_round, settle, claim, sweep_unclaimed).
THEOREM Implements == Spec => ImplementsPrizePool
<1>1. ClaimsInv /\ [Next]_vars => ClaimsInv'
  BY NextClaimsInv
<1>2. ClaimsInv /\ [Next]_vars => [Prize!PoolNext]_(Prize!poolVars)
  BY NextMapped DEF MappedNext
<1> QED BY <1>1, <1>2, InitMapped, InitClaimsInv, PTL
        DEF Spec, ImplementsPrizePool, Prize!PoolSpec

-----------------------------------------------------------------------------
(* Winners are paid what they staked for, and can be.                      *)

\* A settled round could be split and still can, and is not swept early.
WindowOK(r) ==
    Is(r, "Settled") => /\ SplitFits(r)
                        /\ rounds[r].swept => clock > rounds[r].settled_at + SWEEP_WINDOW

\* A stake on the winning side is part of its pool, and who was paid was paid
\* the payout of the position.
PaidOK(r) ==
    /\ ~Is(r, "Settled") => \A p \in Players : ~positions[r][p].claimed /\ received[r][p] = 0
    /\ Is(r, "Settled") => \A p \in Players :
          /\ positions[r][p].side = rounds[r].winner
                => positions[r][p].total_deposited <= WinnerPool(r)
          /\ positions[r][p].claimed => /\ positions[r][p].side = rounds[r].winner
                                        /\ received[r][p] = Payout(r, p)
          /\ positions[r][p].side # "None" /\ ~positions[r][p].claimed => received[r][p] = 0

PaidInv == ClaimsInv /\ \A r \in RoundIds : WindowOK(r) /\ PaidOK(r)

\* A round none of whose accounts is written, as time passes.
LEMMA OtherPaidOK ==
    ASSUME PaidInv, NEW r \in RoundIds, rounds'[r] = rounds[r],
           positions'[r] = positions[r], received'[r] = received[r],
           clock' \in Nat, clock' >= clock
    PROVE  WindowOK(r)' /\ PaidOK(r)'
<1>1. WindowOK(r) /\ PaidOK(r)
  BY DEF PaidInv
<1>2. clock \in Nat /\ rounds[r].settled_at \in Nat /\ SWEEP_WINDOW \in Nat
  BY PillsAssumption DEF PaidInv, ClaimsInv, PillsInv, TypeOK, RoundType
<1>3. clock > rounds[r].settled_at + SWEEP_WINDOW
         => clock' > rounds[r].settled_at + SWEEP_WINDOW
  BY <1>2
<1>4. SplitFits(r)' <=> SplitFits(r)
  BY DEF SplitFits, TotalPool
<1>5. /\ WinnerPool(r)' = WinnerPool(r)
      /\ \A p \in Players : Payout(r, p)' = Payout(r, p)
  BY DEF WinnerPool, Payout, WinnersShare, TreasuryAmount, NrrAmount, TotalPool
<1>6. WindowOK(r)'
  BY <1>1, <1>3, <1>4 DEF WindowOK, Is
<1>7. PaidOK(r)'
  BY <1>1, <1>5 DEF PaidOK, Is
<1> QED BY <1>6, <1>7

LEMMA InitPaidInv == Init => PaidInv
<1> SUFFICES ASSUME Init PROVE PaidInv
  OBVIOUS
<1>1. \A r \in RoundIds : ~Is(r, "Settled")
  BY DEF Init, Is, NoRound
<1>2. \A r \in RoundIds, p \in Players : ~positions[r][p].claimed /\ received[r][p] = 0
  BY DEF Init, NoPosition
<1> QED BY <1>1, <1>2, InitClaimsInv DEF PaidInv, WindowOK, PaidOK

\* A round that is not settled after the step either, when nobody is paid.
LEMMA OpenPaidOK ==
    ASSUME PaidInv, NEW r \in RoundIds, ~Is(r, "Settled"), ~Is(r, "Settled")',
           \A p \in Players : /\ positions'[r][p].claimed = positions[r][p].claimed
                              /\ received'[r][p] = received[r][p]
    PROVE  WindowOK(r)' /\ PaidOK(r)'
BY DEF PaidInv, PaidOK, WindowOK

LEMMA SettlePaid ==
    ASSUME PaidInv, ClaimsInv', NEW r \in RoundIds, NEW side \in Sides, Settle(r, side)
    PROVE  PaidInv'
<1> DEFINE treasury == TreasuryAmount(r)
           returned == NrrAmount(r)
           new == [rounds[r] EXCEPT !.status = "Settled", !.winner = side,
                      !.total_claimed = 0, !.treasury_paid = treasury,
                      !.nrr_returned = returned, !.settled_at = clock]
<1>1. /\ Is(r, "Active") /\ SplitFits(r) /\ rounds' = [rounds EXCEPT ![r] = new]
      /\ UNCHANGED <<clock, positions, received>>
  BY DEF Settle
<1>2. /\ ClaimsInv /\ TypeOK /\ rounds \in [RoundIds -> RoundType] /\ rounds[r] \in RoundType
      /\ rounds[r].pool[side] \in Nat /\ rounds[r].seed \in Nat /\ clock \in Nat
      /\ ClaimsOK(r) /\ PaidOK(r) /\ ~rounds[r].swept
  BY <1>1, RoundFields DEF PaidInv, ClaimsInv, PillsInv, TypeOK, RoundOK
<1> HIDE DEF treasury, returned
<1>3. /\ new.status = "Settled" /\ new.winner = side /\ new.pool = rounds[r].pool
      /\ new.swept = rounds[r].swept
  BY <1>2 DEF RoundType
<1> HIDE DEF new
<1>4. rounds'[r] = new /\ \A q \in RoundIds : q # r => rounds'[q] = rounds[q]
  BY <1>1, <1>2
<1>5. WindowOK(r)'
  <2>1. SplitFits(r)'
    BY <1>1, <1>3, <1>4 DEF SplitFits, TotalPool
  <2> QED BY <1>2, <1>3, <1>4, <2>1 DEF WindowOK
<1>6. \A p \in Players : positions[r][p].side = side
                            => positions[r][p].total_deposited <= rounds[r].pool[side]
  <2> TAKE p \in Players
  <2> HAVE positions[r][p].side = side
  <2> DEFINE f == OnSide(r, side)
  <2>1. f[p] = positions[r][p].total_deposited
    BY DEF OnSide
  <2>2. rounds[r].pool[side] = rounds[r].seed + PlayerSum(f)
    BY <1>1, <1>2 DEF ClaimsOK
  <2>3. (\A w \in Players : f[w] \in Nat) /\ PlayerSum(f) \in Nat
    BY <1>2, StakeSums
  <2> HIDE DEF f
  <2>4. f[p] <= PlayerSum(f)
    BY <2>3, PlayerSumTerm
  <2> QED BY <1>2, <2>1, <2>2, <2>3, <2>4
<1>7. \A p \in Players : ~positions[r][p].claimed /\ received[r][p] = 0
  BY <1>1, <1>2 DEF PaidOK, Is
<1>8. PaidOK(r)'
  BY <1>1, <1>3, <1>4, <1>6, <1>7 DEF PaidOK, Is, WinnerPool
<1>9. ASSUME NEW q \in RoundIds, q # r PROVE WindowOK(q)' /\ PaidOK(q)'
  BY <1>1, <1>2, <1>4, <1>9, OtherPaidOK
<1> QED BY <1>5, <1>8, <1>9 DEF PaidInv

LEMMA ClaimPaid ==
    ASSUME PaidInv, ClaimsInv', NEW r \in RoundIds, NEW p \in Players, Claim(r, p)
    PROVE  PaidInv'
<1> DEFINE pay == Payout(r, p)
           claimed == rounds[r].total_claimed + pay
           new == [rounds[r] EXCEPT !.total_claimed = claimed]
           old == positions[r][p]
           position == [old EXCEPT !.claimed = TRUE]
           got == received[r][p] + pay
<1>1. /\ Is(r, "Settled") /\ old.side = rounds[r].winner /\ ~old.claimed
      /\ rounds' = [rounds EXCEPT ![r] = new] /\ clock' = clock
      /\ positions' = [positions EXCEPT ![r][p] = position]
      /\ received' = [received EXCEPT ![r][p] = got]
  BY DEF Claim, Claimable, Unpaid
<1>2. /\ PillsInv /\ TypeOK /\ rounds \in [RoundIds -> RoundType] /\ rounds[r] \in RoundType
      /\ positions \in [RoundIds -> [Players -> PositionType]] /\ old \in PositionType
      /\ received \in [RoundIds -> [Players -> Nat]]
      /\ clock \in Nat /\ WindowOK(r) /\ PaidOK(r) /\ rounds[r].winner \in Sides
  BY <1>1 DEF PaidInv, ClaimsInv, PillsInv, TypeOK, RoundOK
<1>3. pay \in Nat /\ got = pay
  <2>1. pay \in Nat
    BY <1>1, <1>2, PayoutType
  <2>2. received[r][p] = 0
    BY <1>1, <1>2 DEF PaidOK, Sides
  <2> QED BY <2>1, <2>2
<1> HIDE DEF claimed, got
<1>4. /\ new.status = rounds[r].status /\ new.winner = rounds[r].winner
      /\ new.pool = rounds[r].pool /\ new.swept = rounds[r].swept
      /\ new.settled_at = rounds[r].settled_at
  BY <1>2 DEF RoundType
<1> HIDE DEF new
<1>5. rounds'[r] = new /\ \A q \in RoundIds : q # r => rounds'[q] = rounds[q]
  BY <1>1, <1>2
<1>6. /\ position.side = old.side /\ position.claimed
      /\ position.total_deposited = old.total_deposited
  BY <1>2 DEF PositionType
<1> HIDE DEF position
<1>7. /\ positions'[r][p] = position /\ received'[r][p] = got
      /\ \A w \in Players : w # p => /\ positions'[r][w] = positions[r][w]
                                     /\ received'[r][w] = received[r][w]
      /\ \A q \in RoundIds : q # r => positions'[q] = positions[q] /\ received'[q] = received[q]
  BY <1>1, <1>2
<1>8. /\ WinnerPool(r)' = WinnerPool(r) /\ (SplitFits(r)' <=> SplitFits(r))
      /\ WinnersShare(r)' = WinnersShare(r)
  BY <1>4, <1>5 DEF WinnerPool, SplitFits, WinnersShare, TreasuryAmount, NrrAmount, TotalPool
<1>9. \A w \in Players : positions'[r][w].total_deposited = positions[r][w].total_deposited
  BY <1>6, <1>7
<1>10. \A w \in Players : Payout(r, w)' = Payout(r, w)
  BY <1>8, <1>9 DEF Payout, WinnerPool
<1>11. WindowOK(r)'
  BY <1>1, <1>2, <1>4, <1>5, <1>8 DEF WindowOK, Is
<1>12. PaidOK(r)'
  BY <1>1, <1>2, <1>3, <1>4, <1>5, <1>6, <1>7, <1>8, <1>9, <1>10 DEF PaidOK, Is, pay
<1>13. ASSUME NEW q \in RoundIds, q # r PROVE WindowOK(q)' /\ PaidOK(q)'
  BY <1>1, <1>2, <1>5, <1>7, <1>13, OtherPaidOK
<1> QED BY <1>11, <1>12, <1>13 DEF PaidInv

LEMMA SweepPaid ==
    ASSUME PaidInv, ClaimsInv', NEW r \in RoundIds, SweepUnclaimed(r)
    PROVE  PaidInv'
<1> DEFINE new == [rounds[r] EXCEPT !.swept = TRUE]
<1>1. /\ rounds' = [rounds EXCEPT ![r] = new] /\ Is(r, "Settled") /\ WindowOver(r)
      /\ UNCHANGED <<clock, positions, received>>
  BY DEF SweepUnclaimed
<1>2. /\ rounds \in [RoundIds -> RoundType] /\ rounds[r] \in RoundType
      /\ WindowOK(r) /\ PaidOK(r) /\ clock \in Nat
  BY DEF PaidInv, ClaimsInv, PillsInv, TypeOK
<1>3. /\ new.status = rounds[r].status /\ new.winner = rounds[r].winner
      /\ new.pool = rounds[r].pool /\ new.settled_at = rounds[r].settled_at
  BY <1>2 DEF RoundType
<1> HIDE DEF new
<1>4. rounds'[r] = new /\ \A q \in RoundIds : q # r => rounds'[q] = rounds[q]
  BY <1>1, <1>2
<1>5. /\ WinnerPool(r)' = WinnerPool(r) /\ (SplitFits(r)' <=> SplitFits(r))
      /\ WinnersShare(r)' = WinnersShare(r)
  BY <1>3, <1>4 DEF WinnerPool, SplitFits, WinnersShare, TreasuryAmount, NrrAmount, TotalPool
<1>6. \A p \in Players : Payout(r, p)' = Payout(r, p)
  BY <1>1, <1>5 DEF Payout, WinnerPool
<1>7. WindowOK(r)'
  BY <1>1, <1>2, <1>3, <1>4, <1>5 DEF WindowOK, Is, WindowOver
<1>8. PaidOK(r)'
  BY <1>1, <1>2, <1>3, <1>4, <1>5, <1>6 DEF PaidOK, Is
<1>9. ASSUME NEW q \in RoundIds, q # r PROVE WindowOK(q)' /\ PaidOK(q)'
  BY <1>1, <1>2, <1>4, <1>9, OtherPaidOK
<1> QED BY <1>7, <1>8, <1>9 DEF PaidInv

LEMMA ClosePositionPaid ==
    ASSUME PaidInv, ClaimsInv', NEW r \in RoundIds, NEW p \in Players, ClosePosition(r, p)
    PROVE  PaidInv'
<1>1. /\ positions' = [positions EXCEPT ![r][p] = NoPosition]
      /\ Is(r, "Settled") \/ Is(r, "Expired")
      /\ UNCHANGED <<clock, rounds, received>>
  BY DEF ClosePosition, PositionClosable
<1>2. /\ positions \in [RoundIds -> [Players -> PositionType]] /\ clock \in Nat
      /\ WindowOK(r) /\ PaidOK(r) /\ (Is(r, "Settled") => rounds[r].winner \in Sides)
  BY DEF PaidInv, ClaimsInv, PillsInv, TypeOK, RoundOK
<1>3. /\ positions'[r][p] = NoPosition
      /\ \A w \in Players : w # p => positions'[r][w] = positions[r][w]
      /\ \A q \in RoundIds : q # r => positions'[q] = positions[q]
  BY <1>1, <1>2
<1>4. WinnerPool(r)' = WinnerPool(r) /\ (SplitFits(r)' <=> SplitFits(r))
  BY <1>1 DEF WinnerPool, SplitFits, TotalPool
<1>5. \A w \in Players : w # p => Payout(r, w)' = Payout(r, w)
  BY <1>1, <1>3 DEF Payout, WinnersShare, TreasuryAmount, NrrAmount, TotalPool
<1>6. WindowOK(r)'
  BY <1>1, <1>2, <1>4 DEF WindowOK, Is
<1>7. PaidOK(r)'
  BY <1>1, <1>2, <1>3, <1>4, <1>5 DEF PaidOK, Is, NoPosition, Sides
<1>8. ASSUME NEW q \in RoundIds, q # r PROVE WindowOK(q)' /\ PaidOK(q)'
  BY <1>1, <1>2, <1>3, <1>8, OtherPaidOK
<1> QED BY <1>6, <1>7, <1>8 DEF PaidInv

\* Steps that change one round which is not settled before or after.
LEMMA OpenPaid ==
    ASSUME PaidInv, ClaimsInv', NEW r \in RoundIds, ~Is(r, "Settled"), ~Is(r, "Settled")',
           \A q \in RoundIds : q # r => rounds'[q] = rounds[q] /\ positions'[q] = positions[q],
           \A p \in Players : positions'[r][p].claimed = positions[r][p].claimed,
           received' = received, clock' = clock
    PROVE  PaidInv'
<1>1. WindowOK(r)' /\ PaidOK(r)'
  BY OpenPaidOK
<1>2. clock \in Nat
  BY DEF PaidInv, ClaimsInv, PillsInv, TypeOK
<1>3. ASSUME NEW q \in RoundIds, q # r PROVE WindowOK(q)' /\ PaidOK(q)'
  BY <1>2, <1>3, OtherPaidOK
<1> QED BY <1>1, <1>3 DEF PaidInv

LEMMA NextPaidInv ==
    ASSUME PaidInv, [Next]_vars
    PROVE  PaidInv'
<1>1. ClaimsInv /\ ClaimsInv'
  BY NextClaimsInv DEF PaidInv
<1>2. /\ rounds \in [RoundIds -> RoundType] /\ clock \in Nat /\ game \in GameType
      /\ positions \in [RoundIds -> [Players -> PositionType]]
  BY <1>1 DEF ClaimsInv, PillsInv, TypeOK
<1>3. ASSUME rounds' = rounds, positions' = positions, received' = received,
             clock' \in {clock, clock + 1}
      PROVE  PaidInv'
  <2>1. clock' \in Nat /\ clock' >= clock
    BY <1>2, <1>3
  <2> QED BY <1>1, <1>3, <2>1, OtherPaidOK DEF PaidInv
<1>4. ASSUME NEW d \in Durations, CreateRound(d) PROVE PaidInv'
  <2>0. PICK id \in RoundIds : id = game.round_counter + 1
    BY <1>4 DEF CreateRound
  <2> DEFINE new == [NoRound EXCEPT !.status = "Active",
                        !.pool = [s \in Sides |-> HalfSeed], !.seed = HalfSeed,
                        !.ends_at = clock + d]
  <2>1. rounds' = [rounds EXCEPT ![id] = new] /\ UNCHANGED <<clock, positions, received>>
    BY <1>4, <2>0 DEF CreateRound
  <2>2. new.status = "Active"
    BY DEF NoRound
  <2> HIDE DEF new
  <2>3. Is(id, "None")
    BY <1>1, <1>2, <2>0 DEF ClaimsInv, PillsInv, RoundOK, GameType
  <2>4. ~Is(id, "Settled") /\ ~Is(id, "Settled")'
    BY <1>2, <2>1, <2>2, <2>3 DEF Is
  <2> QED BY <1>1, <1>2, <2>1, <2>4, OpenPaid
<1>5. ASSUME NEW r \in RoundIds, NEW p \in Players, NEW side \in Sides, NEW a \in Tiers,
             Deposit(r, p, side, a)
      PROVE  PaidInv'
  <2>1. Is(r, "Active") /\ clock' = clock /\ received' = received
    BY <1>5 DEF Deposit
  <2>2. /\ \A q \in RoundIds : q # r => rounds'[q] = rounds[q] /\ positions'[q] = positions[q]
        /\ \A w \in Players : positions'[r][w].claimed = positions[r][w].claimed
        /\ rounds'[r].status = rounds[r].status
    <3>1. rounds' = [rounds EXCEPT
              ![r].pool[side] = rounds[r].pool[side] + a,
              ![r].players[side] = IF positions[r][p].side = "None" /\ @ < MAX_U16
                                   THEN @ + 1 ELSE @]
      BY <1>5, Zenon DEF Deposit
    <3>2. /\ \A q \in RoundIds : q # r => rounds'[q] = rounds[q]
          /\ rounds'[r].status = rounds[r].status
      BY <1>2, <3>1 DEF RoundType
    <3> DEFINE old == positions[r][p]
    <3>3. PICK side_now, total, number :
             positions' = [positions EXCEPT ![r][p] =
                [old EXCEPT !.side = side_now, !.total_deposited = total,
                            !.num_deposits = number]]
      <4>1. positions' = [positions EXCEPT ![r][p] =
                [old EXCEPT !.side = IF old.side = "None" THEN side ELSE @,
                            !.total_deposited = @ + a, !.num_deposits = @ + 1]]
        BY <1>5, Zenon DEF Deposit
      <4>2. positions' = [positions EXCEPT ![r][p] =
                [old EXCEPT !.side = IF old.side = "None" THEN side ELSE old.side,
                            !.total_deposited = old.total_deposited + a,
                            !.num_deposits = old.num_deposits + 1]]
        BY <4>1, Zenon
      <4> QED BY <4>2, Zenon
    <3> DEFINE position == [old EXCEPT !.side = side_now, !.total_deposited = total,
                                       !.num_deposits = number]
    <3>4. position.claimed = old.claimed
      BY <1>2 DEF PositionType
    <3>5. positions' = [positions EXCEPT ![r][p] = position]
      BY <3>3
    <3> HIDE DEF position
    <3>6. /\ \A q \in RoundIds : q # r => positions'[q] = positions[q]
          /\ positions'[r][p] = position
          /\ \A w \in Players : w # p => positions'[r][w] = positions[r][w]
      BY <1>2, <3>5
    <3> QED BY <3>2, <3>4, <3>6
  <2> QED BY <1>1, <2>1, <2>2, OpenPaid DEF Is
<1>6. ASSUME NEW r \in RoundIds, Expire(r) PROVE PaidInv'
  <2>1. /\ rounds' = [rounds EXCEPT ![r].status = "Expired"] /\ Is(r, "Active")
        /\ UNCHANGED <<clock, positions, received>>
    BY <1>6 DEF Expire
  <2>2. /\ rounds'[r].status = "Expired"
        /\ \A q \in RoundIds : q # r => rounds'[q] = rounds[q]
    BY <1>2, <2>1 DEF RoundType
  <2> QED BY <1>1, <2>1, <2>2, OpenPaid DEF Is
<1> QED BY <1>1, <1>3, <1>4, <1>5, <1>6, SettlePaid, ClaimPaid, SweepPaid,
        ClosePositionPaid
        DEF Next, Initialize, TransferAuthority, Gift, Tick, vars

\* A payout that fits is not cut back.
LEMMA PayoutExact ==
    ASSUME PaidInv, NEW r \in RoundIds, NEW p \in Players, Is(r, "Settled"),
           positions[r][p].side = rounds[r].winner
    PROVE  Payout(r, p) = IF WinnerPool(r) > 0
                          THEN (positions[r][p].total_deposited * WinnersShare(r))
                                  \div WinnerPool(r)
                          ELSE 0
<1> DEFINE P == WinnerPool(r)
           d == positions[r][p].total_deposited
           W == WinnersShare(r)
           n == d * W
           q == n \div P
           m == MAX_U64 + 1
<1>1. PillsInv /\ TypeOK /\ WindowOK(r) /\ PaidOK(r)
  BY DEF PaidInv, ClaimsInv, PillsInv
<1>2. P \in Nat /\ W \in Nat /\ d \in Nat
  BY <1>1, RoundFields, SplitBounds DEF PillsInv, RoundOK, TypeOK, PositionType, WinnerPool
<1>3. d <= P
  BY <1>1 DEF PaidOK
<1>4. W < m
  <2>1. W <= TotalPool(r) /\ TotalPool(r) \in Nat
    BY <1>1, RoundFields, SplitBounds
  <2>2. TotalPool(r) <= MAX_U64
    BY <1>1 DEF WindowOK, SplitFits, Fits
  <2> QED BY <1>2, <2>1, <2>2, MaxU64Assumption
<1>5. m \in Nat \ {0}
  BY MaxU64Assumption
<1>6. Payout(r, p) = IF P > 0 THEN q % m ELSE 0
  BY DEF Payout, WinnerPool
<1> HIDE DEF P, W, m, d
<1>7. n \in Nat /\ n <= W * P
  BY <1>2, <1>3, SMT
<1> HIDE DEF n
<1>8. ASSUME P > 0 PROVE q \in Nat /\ q <= W
  <2>1. q \in Nat /\ q * P <= n
    BY <1>2, <1>7, <1>8, SMT
  <2> HIDE DEF q
  <2>2. q > W => q * P > W * P
    BY <1>2, <1>8, <2>1, SMT
  <2>3. q * P \in Int /\ W * P \in Int
    BY <1>2, <2>1, SMT
  <2> QED BY <1>2, <1>7, <2>1, <2>2, <2>3
<1> HIDE DEF q
<1>9. \A x \in Nat : x < m => x % m = x
  BY <1>5, SMT
<1>10. P > 0 => q % m = q
  <2>1. P > 0 => q \in Nat /\ q < m
    BY <1>2, <1>4, <1>5, <1>8
  <2> QED BY <1>9, <2>1
<1> QED BY <1>6, <1>10 DEF P, W, d, n, q

\* Of two paid winners the one who staked more was paid no less.
LEMMA PaidInvPaidByStake == PaidInv => PaidByStake
<1> SUFFICES ASSUME PaidInv, NEW r \in RoundIds, NEW p \in Players, NEW w \in Players,
                    positions[r][p].claimed, positions[r][w].claimed,
                    positions[r][p].total_deposited <= positions[r][w].total_deposited
             PROVE  received[r][p] <= received[r][w]
  BY DEF PaidByStake
<1>1. PillsInv /\ TypeOK /\ PaidOK(r)
  BY DEF PaidInv, ClaimsInv, PillsInv
<1>2. /\ Is(r, "Settled")
      /\ positions[r][p].side = rounds[r].winner /\ received[r][p] = Payout(r, p)
      /\ positions[r][w].side = rounds[r].winner /\ received[r][w] = Payout(r, w)
  BY <1>1 DEF PaidOK
<1> DEFINE P == WinnerPool(r)
           W == WinnersShare(r)
           d == positions[r][p].total_deposited
           e == positions[r][w].total_deposited
<1>3. P \in Nat /\ W \in Nat /\ d \in Nat /\ e \in Nat /\ d <= e
  BY <1>1, <1>2, RoundFields, SplitBounds
     DEF PillsInv, RoundOK, TypeOK, PositionType, WinnerPool
<1>4. /\ Payout(r, p) = IF P > 0 THEN (d * W) \div P ELSE 0
      /\ Payout(r, w) = IF P > 0 THEN (e * W) \div P ELSE 0
  BY <1>2, PayoutExact
<1> HIDE DEF P, W, d, e
<1>5. d * W \in Nat /\ e * W \in Nat /\ d * W <= e * W
  BY <1>3, SMT
<1> DEFINE x == d * W
           y == e * W
<1> HIDE DEF x, y
<1>6. x \in Nat /\ y \in Nat /\ x <= y /\ P > 0 => x \div P <= y \div P
  BY <1>3, SMT
<1>7. P > 0 => (d * W) \div P <= (e * W) \div P
  BY <1>5, <1>6 DEF x, y
<1> QED BY <1>2, <1>4, <1>7

\* Equal stakes are paid the same and larger ones no less, in whatever order and
\* however late winners claim (claim).
THEOREM PaidInProportion == Spec => []PaidByStake
<1>1. PaidInv /\ [Next]_vars => PaidInv'
  BY NextPaidInv
<1> QED BY <1>1, InitPaidInv, PaidInvPaidByStake, PTL DEF Spec

\* The vault can pay every unpaid winner while the window is open.
LEMMA WindowIsKept == PaidInv /\ Conservation => ClaimWindowKept
<1> SUFFICES ASSUME PaidInv, Conservation, NEW r \in RoundIds, NEW p \in Players,
                    Unpaid(r, p), clock <= rounds[r].settled_at + SWEEP_WINDOW
             PROVE  Claimable(r, p)
  BY DEF ClaimWindowKept
<1> DEFINE pay == Payout(r, p)
           share == WinnersShare(r)
           claimed == rounds[r].total_claimed
           pool == TotalPool(r)
<1>1. /\ ClaimsInv /\ PillsInv /\ TypeOK /\ WindowOK(r) /\ Is(r, "Settled") /\ ShareCovers(r)
  BY DEF PaidInv, ClaimsInv, ClaimsOK, PillsInv, Unpaid
<1>2. /\ clock \in Nat /\ rounds[r].settled_at \in Nat /\ SWEEP_WINDOW \in Nat
      /\ vault \in Nat /\ gifts \in Nat /\ game.nrr_balance \in Nat
      /\ VAULT_RENT \in Nat /\ VAULT_RENT_MINIMUM \in Nat
      /\ VAULT_RENT_MINIMUM <= VAULT_RENT /\ 2 * VAULT_RENT_MINIMUM <= MAX_U64
      /\ MAX_U64 \in Nat
  BY <1>1, PillsAssumption, MaxU64Assumption DEF TypeOK, RoundType, GameType
<1>3. ~rounds[r].swept /\ SplitFits(r)
  <2>1. ~ (clock > rounds[r].settled_at + SWEEP_WINDOW)
    BY <1>2
  <2> QED BY <1>1, <2>1 DEF WindowOK
<1>4. /\ pay \in Nat /\ share \in Nat /\ claimed \in Nat /\ pool \in Nat
      /\ share <= pool /\ pay <= share - claimed
  <2>1. /\ TreasuryAmount(r) \in Nat /\ NrrAmount(r) \in Nat
        /\ share = pool - TreasuryAmount(r) - NrrAmount(r)
        /\ share \in Nat /\ claimed \in Nat /\ pool \in Nat
    BY <1>1, RoundFields, SplitBounds
  <2>2. pay \in Nat
    BY <1>1, PayoutType
  <2>3. pay <= share - claimed
    BY <1>1, PayoutFits
  <2> HIDE DEF share, pool, pay, claimed
  <2> QED BY <2>1, <2>2, <2>3
<1>5. pool <= MAX_U64 /\ pool * 2000 <= MAX_U64
  BY <1>3 DEF SplitFits, BpsFits, Fits, NRR_BPS
<1>6. vault - pay >= VAULT_RENT
  <2>1. Pots[r] = share - claimed
    BY <1>1, <1>3 DEF Pots, Held, Is
  <2>2. \A q \in 1..MAX_ROUNDS : Pots[q] \in Nat
    BY <1>1, MappedTypes DEF RoundIds
  <2>3. Pots[r] <= SumTo(Pots, MAX_ROUNDS) /\ SumTo(Pots, MAX_ROUNDS) \in Nat
    BY <2>2, SumToTerm, SumToNat, PillsAssumption DEF RoundIds
  <2>4. vault = VAULT_RENT + gifts + game.nrr_balance + SumTo(Pots, MAX_ROUNDS)
    BY <1>1, Initialized DEF Conservation, Is
  <2> HIDE DEF share, pool, pay, claimed
  <2> QED BY <1>2, <1>4, <2>1, <2>3, <2>4
<1> HIDE DEF share, pool, pay, claimed
<1>7. claimed + pay <= MAX_U64 /\ pay + VAULT_RENT_MINIMUM <= MAX_U64
  BY <1>2, <1>4, <1>5
<1>8. vault >= pay + VAULT_RENT_MINIMUM
  BY <1>2, <1>4, <1>6
<1>9. VaultCanPay(pay)
  BY <1>6, <1>7, <1>8 DEF VaultCanPay, RuntimeAccepts, Fits
<1> QED BY <1>3, <1>7, <1>9 DEF Claimable, Fits, pay, claimed

\* Until the window is over nothing keeps an unpaid winner from claiming,
\* whatever the authority does and however many rounds share the vault (claim,
\* sweep_unclaimed).
THEOREM WindowKept == Spec => []ClaimWindowKept
<1>1. PaidInv /\ [Next]_vars => PaidInv'
  BY NextPaidInv
<1>2. PaidInv => PillsInv
  BY DEF PaidInv, ClaimsInv
<1>3. PillsInv /\ PillsInv' /\ Conservation /\ [Next]_vars => Conservation'
  BY NextConservation
<1> QED BY <1>1, <1>2, <1>3, InitPaidInv, InitConservation, WindowIsKept, PTL DEF Spec

-----------------------------------------------------------------------------
(* Rounds can be ended, and swept.                                         *)

\* What expire, settle and sweep_unclaimed ask of the numbers, of a round with
\* the status, the players and the time they are for.
EndsOpen ==
    \A r \in RoundIds : Fits(vault) =>
        /\ Is(r, "Active") /\ NoPlayers(r) => Fits(game.nrr_balance + 2 * rounds[r].seed)
        /\ Is(r, "Active") /\ SplitFits(r) => /\ Fits(game.nrr_balance + NrrAmount(r))
                                             /\ VaultCanPay(TreasuryAmount(r))
        /\ Is(r, "Settled") /\ ~rounds[r].swept =>
              /\ SplitFits(r)
              /\ WinnersShare(r) - rounds[r].total_claimed >= 0
              /\ Fits(game.nrr_balance + (WinnersShare(r) - rounds[r].total_claimed))

\* Reserve and pot are both in the vault, whose lamports are a u64.
LEMMA EndsCovered == PaidInv /\ Conservation => EndsOpen
<1> SUFFICES ASSUME PaidInv, Conservation, NEW r \in RoundIds, Fits(vault)
             PROVE  /\ Is(r, "Active") /\ NoPlayers(r)
                          => Fits(game.nrr_balance + 2 * rounds[r].seed)
                    /\ Is(r, "Active") /\ SplitFits(r) =>
                          /\ Fits(game.nrr_balance + NrrAmount(r))
                          /\ VaultCanPay(TreasuryAmount(r))
                    /\ Is(r, "Settled") /\ ~rounds[r].swept =>
                          /\ SplitFits(r)
                          /\ WinnersShare(r) - rounds[r].total_claimed >= 0
                          /\ Fits(game.nrr_balance
                                    + (WinnersShare(r) - rounds[r].total_claimed))
  BY DEF EndsOpen
<1>1. ClaimsInv /\ PillsInv /\ TypeOK /\ WindowOK(r) /\ RoundOK(r)
  BY DEF PaidInv, ClaimsInv, PillsInv
<1>2. /\ vault \in Nat /\ gifts \in Nat /\ game.nrr_balance \in Nat
      /\ VAULT_RENT \in Nat /\ VAULT_RENT_MINIMUM \in Nat
      /\ VAULT_RENT_MINIMUM <= VAULT_RENT /\ MAX_U64 \in Nat /\ vault <= MAX_U64
  BY <1>1, PillsAssumption, MaxU64Assumption DEF TypeOK, GameType, Fits
<1>3. /\ TreasuryAmount(r) \in Nat /\ NrrAmount(r) \in Nat /\ WinnersShare(r) \in Nat
      /\ WinnersShare(r) = TotalPool(r) - TreasuryAmount(r) - NrrAmount(r)
      /\ TotalPool(r) \in Nat /\ rounds[r].total_claimed \in Nat
  BY <1>1, RoundFields, SplitBounds
<1>4. ASSUME ~Is(r, "None")
      PROVE  Pots[r] \in Nat /\ VAULT_RENT + game.nrr_balance + Pots[r] <= vault
  <2>1. \A q \in 1..MAX_ROUNDS : Pots[q] \in Nat
    BY <1>1, MappedTypes DEF RoundIds
  <2>2. /\ Pots[r] <= SumTo(Pots, MAX_ROUNDS) /\ SumTo(Pots, MAX_ROUNDS) \in Nat
        /\ Pots[r] \in Nat
    BY <2>1, SumToTerm, SumToNat, PillsAssumption DEF RoundIds
  <2>3. vault = VAULT_RENT + gifts + game.nrr_balance + SumTo(Pots, MAX_ROUNDS)
    BY <1>1, <1>4, Initialized DEF Conservation
  <2> QED BY <1>2, <2>2, <2>3
<1>5. ASSUME Is(r, "Active")
      PROVE  VAULT_RENT + game.nrr_balance + TotalPool(r) <= vault
  <2>1. Pots[r] = TotalPool(r)
    BY <1>5 DEF Pots, Held, Is
  <2> QED BY <1>4, <1>5, <2>1 DEF Is
<1>6. ASSUME Is(r, "Active"), NoPlayers(r)
      PROVE  Fits(game.nrr_balance + 2 * rounds[r].seed)
  <2>1. rounds[r].pool["A"] = rounds[r].seed /\ rounds[r].pool["B"] = rounds[r].seed
    BY <1>1, <1>6 DEF RoundOK, NoPlayers, Sides
  <2>2. rounds[r].seed \in Nat
    BY <1>1, RoundFields
  <2>3. TotalPool(r) = 2 * rounds[r].seed
    BY <2>1, <2>2 DEF TotalPool
  <2> QED BY <1>2, <1>3, <1>5, <1>6, <2>3 DEF Fits
<1>7. ASSUME Is(r, "Active")
      PROVE  Fits(game.nrr_balance + NrrAmount(r)) /\ VaultCanPay(TreasuryAmount(r))
  <2>1. /\ game.nrr_balance + NrrAmount(r) <= MAX_U64
        /\ TreasuryAmount(r) + VAULT_RENT_MINIMUM <= MAX_U64
        /\ vault >= TreasuryAmount(r) + VAULT_RENT_MINIMUM
        /\ vault - TreasuryAmount(r) >= VAULT_RENT
    BY <1>2, <1>3, <1>5, <1>7
  <2> QED BY <2>1 DEF Fits, VaultCanPay, RuntimeAccepts
<1>8. ASSUME Is(r, "Settled"), ~rounds[r].swept
      PROVE  /\ SplitFits(r)
             /\ WinnersShare(r) - rounds[r].total_claimed >= 0
             /\ Fits(game.nrr_balance + (WinnersShare(r) - rounds[r].total_claimed))
  <2>1. SplitFits(r)
    BY <1>1, <1>8 DEF WindowOK
  <2>2. Pots[r] = WinnersShare(r) - rounds[r].total_claimed
    BY <1>8 DEF Pots, Held, Is
  <2>3. Pots[r] \in Nat /\ VAULT_RENT + game.nrr_balance + Pots[r] <= vault
    BY <1>4, <1>8 DEF Is
  <2> HIDE DEF Pots
  <2>4. Pots[r] >= 0 /\ game.nrr_balance + Pots[r] <= MAX_U64
    BY <1>2, <2>3
  <2> QED BY <2>1, <2>2, <2>4 DEF Fits
<1> QED BY <1>6, <1>7, <1>8

\* No number keeps a round from ending: once its end has come an Active round
\* without players can be expired, any other settled unless its pools overflow
\* the split, and a settled round can be swept after its window, however many
\* rounds share vault and reserve (expire, settle, sweep_unclaimed).
THEOREM RoundsCanEnd == Spec => []EndsOpen
<1>1. PaidInv /\ [Next]_vars => PaidInv'
  BY NextPaidInv
<1>2. PaidInv => PillsInv
  BY DEF PaidInv, ClaimsInv
<1>3. PillsInv /\ PillsInv' /\ Conservation /\ [Next]_vars => Conservation'
  BY NextConservation
<1> QED BY <1>1, <1>2, <1>3, InitPaidInv, InitConservation, EndsCovered, PTL DEF Spec
=============================================================================
