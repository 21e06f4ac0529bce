-------------------------- MODULE AlonsBoxV1Proofs --------------------------
(***************************************************************************)
(* Theorems about AlonsBoxV1, for any number of rounds and players, any    *)
(* amounts, end times and u64 bound.  Whatever the authority does: types,  *)
(* ids used once, deposits that back the totals.  When rounds are created  *)
(* one at a time: the program implements PrizePool.                        *)
(***************************************************************************)
EXTENDS AlonsBoxV1, LamportsProofs

-----------------------------------------------------------------------------
(* Types.                                                                  *)

\* The numbers of a round account and of the game state.
LEMMA RoundFields ==
    ASSUME TypeOK, NEW r \in RoundIds
    PROVE  /\ rounds[r] \in RoundType
           /\ rounds[r].total_deposits \in Nat /\ rounds[r].rollover_in \in Nat
           /\ Pool(r) \in Nat
           /\ game.rollover_balance \in Nat /\ game.current_round_id \in Nat
BY DEF TypeOK, RoundType, GameType, Pool

\* The split of a settled pool never takes more than the pool, whatever the
\* evidence wallets get within their cap.
LEMMA SettleSplit ==
    ASSUME TypeOK, NEW r \in RoundIds
    PROVE  /\ WinnerAmount(r) \in Nat /\ TreasuryAmount(r) \in Nat
           /\ EvidenceCap(r) \in Nat
           /\ \A evidence \in 0..EvidenceCap(r) :
                 /\ SettleRollover(r, evidence) \in Nat
                 /\ SettleRollover(r, evidence) =
                       Pool(r) - (WinnerAmount(r) + evidence + TreasuryAmount(r))
<1> DEFINE pool == Pool(r)
<1>1. /\ WinnerAmount(r) = (pool * 5000) \div 10000
      /\ EvidenceCap(r) = (pool * 3000) \div 10000
      /\ TreasuryAmount(r) = (pool * 500) \div 10000
      /\ \A evidence : SettleRollover(r, evidence) =
                           pool - WinnerAmount(r) - evidence - TreasuryAmount(r)
  BY DEF WinnerAmount, EvidenceCap, TreasuryAmount, SettleRollover, BpsCut, BPS_TOTAL
<1>2. pool \in Nat
  BY RoundFields
<1> HIDE DEF pool
<1>3. /\ WinnerAmount(r) \in Nat /\ EvidenceCap(r) \in Nat /\ TreasuryAmount(r) \in Nat
      /\ WinnerAmount(r) + EvidenceCap(r) + TreasuryAmount(r) <= pool
  BY <1>1, <1>2, SMT
<1>4. \A evidence \in 0..EvidenceCap(r) :
         /\ SettleRollover(r, evidence) \in Nat
         /\ SettleRollover(r, evidence) =
               pool - (WinnerAmount(r) + evidence + TreasuryAmount(r))
  BY <1>1, <1>2, <1>3
<1> QED BY <1>3, <1>4 DEF pool

\* The split of an expired round never takes more than its deposits.
LEMMA ExpireSplit ==
    ASSUME TypeOK, NEW r \in RoundIds
    PROVE  /\ ExpireOutgoing(r) \in 0..rounds[r].total_deposits
           /\ ExpireRollover(r) \in Nat
           /\ ExpireRollover(r) >= rounds[r].rollover_in
           /\ ExpireRollover(r) = Pool(r) - ExpireOutgoing(r)
<1> DEFINE total == rounds[r].total_deposits
           in == rounds[r].rollover_in
<1>1. /\ ExpireOutgoing(r) = (total * 4750) \div 10000 + (total * 500) \div 10000
      /\ ExpireRollover(r) = in + total - ExpireOutgoing(r)
      /\ Pool(r) = total + in
  BY DEF ExpireOutgoing, ExpireRollover, BuybackAmount, ExpireTreasury, BpsCut,
         BPS_TOTAL, Pool
<1>2. total \in Nat /\ in \in Nat
  BY RoundFields
<1> HIDE DEF total, in
<1>3. ExpireOutgoing(r) \in 0..total
  BY <1>1, <1>2, SMT
<1>4. /\ ExpireRollover(r) \in Nat /\ ExpireRollover(r) >= in
      /\ ExpireRollover(r) = Pool(r) - ExpireOutgoing(r)
  BY <1>1, <1>2, <1>3
<1> QED BY <1>3, <1>4 DEF total, in

\* Writing one round account, or the rollover, with a value of the right type.
LEMMA WriteRoundType ==
    ASSUME TypeOK, NEW r \in RoundIds, NEW new \in RoundType,
           rounds' = [rounds EXCEPT ![r] = new]
    PROVE  rounds' \in [RoundIds -> RoundType]
BY DEF TypeOK

LEMMA WriteRolloverType ==
    ASSUME TypeOK, NEW rollover \in Nat,
           game' = [game EXCEPT !.rollover_balance = rollover]
    PROVE  game' \in GameType
BY DEF TypeOK, GameType

\* The deposit accounts, as TypeOK has them.
DepositsType ==
    /\ \A r \in RoundIds : DOMAIN deposits[r] \subseteq Players
                          /\ \A p \in DOMAIN deposits[r] : deposits[r][p] \in Nat
    /\ DOMAIN deposits = RoundIds

\* Neither deployment the program can start from has a wrong type in it.
LEMMA InitTypeOK == Init => TypeOK
<1> SUFFICES ASSUME Init PROVE TypeOK
  OBVIOUS
<1>1. clock \in Nat /\ DepositsType
  BY DEF Init, DepositsType, NoDeposits
<1>2. NoRound \in RoundType /\ [NoRound EXCEPT !.status = "Closed"] \in RoundType
  BY DEF NoRound, RoundType, Statuses
<1>3. CASE NothingDeployed
  BY <1>1, <1>2, <1>3 DEF NothingDeployed, TypeOK, GameType, DepositsType
<1>4. ASSUME NEW leftover \in Leftovers, OldDeployment(leftover) PROVE TypeOK
  <2>1. leftover \in Nat /\ VAULT_RENT \in Nat
    BY V1Assumption
  <2>2. game \in GameType /\ vault \in Nat /\ untracked \in Nat
    <3>1. /\ game = [layout |-> "Old", current_round_id |-> 1, rollover_balance |-> 0]
          /\ vault = VAULT_RENT + leftover /\ untracked \in {0, leftover}
      BY <1>4 DEF OldDeployment
    <3>2. game \in GameType
      BY <3>1 DEF GameType
    <3> QED BY <2>1, <3>1, <3>2
  <2>3. rounds \in [RoundIds -> RoundType]
    <3>1. CASE rounds = [[r \in RoundIds |-> NoRound] EXCEPT ![1].status = "Closed"]
      BY <1>2, <3>1
    <3>2. ASSUME NEW c \in Commits, NEW ends_at \in EndTimes,
                 rounds = [[r \in RoundIds |-> NoRound] EXCEPT ![1] =
                             [NoRound EXCEPT !.status = "Active", !.commit_hash = c,
                                 !.ends_at = ends_at, !.rollover_in = leftover]]
          PROVE  rounds \in [RoundIds -> RoundType]
      <4> DEFINE new == [NoRound EXCEPT !.status = "Active", !.commit_hash = c,
                             !.ends_at = ends_at, !.rollover_in = leftover]
      <4>1. ends_at \in Nat
        BY V1Assumption
      <4>2. new \in RoundType
        BY <2>1, <4>1 DEF NoRound, RoundType, Statuses
      <4> HIDE DEF new
      <4>3. rounds = [[r \in RoundIds |-> NoRound] EXCEPT ![1] = new]
        BY <3>2 DEF new
      <4> QED BY <1>2, <4>2, <4>3
    <3> QED BY <1>4, <3>1, <3>2 DEF OldDeployment
  <2> QED BY <1>1, <2>2, <2>3 DEF TypeOK, DepositsType
<1> QED BY <1>3, <1>4 DEF Init

\* Types survive every step of the program.
LEMMA NextTypeOK ==
    ASSUME TypeOK, [Next]_vars
    PROVE  TypeOK'
<1> USE V1Assumption
<1>1. /\ clock \in Nat /\ game \in GameType
      /\ rounds \in [RoundIds -> RoundType]
      /\ \A r \in RoundIds : rounds[r] \in RoundType
      /\ DepositsType /\ vault \in Nat /\ untracked \in Nat
  BY DEF TypeOK, DepositsType
<1>2. ASSUME clock' \in Nat, game' \in GameType, rounds' \in [RoundIds -> RoundType],
             DepositsType', vault' \in Nat, untracked' \in Nat
      PROVE  TypeOK'
  BY <1>2 DEF TypeOK, DepositsType
<1>3. deposits' = deposits => DepositsType'
  BY <1>1 DEF DepositsType
<1>4. ASSUME Initialize PROVE TypeOK'
  BY <1>1, <1>2, <1>3, <1>4 DEF Initialize, GameType
<1>5. ASSUME NEW c \in Commits, NEW ends_at \in EndTimes, CreateRound(c, ends_at)
      PROVE  TypeOK'
  <2> DEFINE id == game.current_round_id + 1
             new == [NoRound EXCEPT !.status = "Active", !.commit_hash = c,
                        !.ends_at = ends_at, !.rollover_in = game.rollover_balance]
  <2>1. id \in RoundIds /\ id \in Nat /\ ends_at \in Nat
        /\ game.rollover_balance \in Nat
    BY <1>1, <1>5 DEF CreateRound, GameType
  <2>2. rounds' = [rounds EXCEPT ![id] = new] /\ game' = [game EXCEPT !.current_round_id = id]
    BY <1>5 DEF CreateRound
  <2> HIDE DEF id
  <2>3. new \in RoundType
    BY <2>1 DEF RoundType, NoRound, Statuses
  <2> HIDE DEF new
  <2>4. rounds' \in [RoundIds -> RoundType] /\ game' \in GameType
    BY <1>1, <2>1, <2>2, <2>3, WriteRoundType DEF GameType
  <2> QED BY <1>1, <1>2, <1>3, <1>5, <2>4 DEF CreateRound
<1>6. ASSUME NEW r \in RoundIds, NEW p \in Players, NEW a \in Amounts, Deposit(r, p, a)
      PROVE  TypeOK'
  <2> DEFINE total == rounds[r].total_deposits + a
             new == [rounds[r] EXCEPT !.total_deposits = total]
             amount == NewDeposit(r, p, a)
             account == [q \in DOMAIN deposits[r] \cup {p} |->
                            IF q = p THEN amount ELSE deposits[r][q]]
  <2>1. a \in Nat /\ total \in Nat
    BY RoundFields
  <2>2. amount \in Nat
    BY <1>1, <2>1 DEF DepositsType, NewDeposit, Deposited
  <2>3. rounds' = [rounds EXCEPT ![r] = new]
    BY <1>1, <1>6 DEF Deposit
  <2>4. deposits' = [deposits EXCEPT ![r] = account]
    BY <1>6 DEF Deposit
  <2> HIDE DEF total, amount
  <2>5. new \in RoundType
    BY <1>1, <2>1 DEF RoundType
  <2>6. /\ DOMAIN account \subseteq Players
        /\ \A q \in DOMAIN account : account[q] \in Nat
    BY <1>1, <2>2 DEF DepositsType
  <2> HIDE DEF new, account
  <2>7. rounds' \in [RoundIds -> RoundType] /\ DepositsType'
    BY <1>1, <2>3, <2>4, <2>5, <2>6, WriteRoundType DEF DepositsType
  <2>8. vault' \in Nat
    BY <1>1, <1>6, <2>1 DEF Deposit
  <2> QED BY <1>1, <1>2, <1>6, <2>7, <2>8 DEF Deposit
<1>7. ASSUME NEW r \in RoundIds, NEW status \in {"Settled", "Expired"},
             rounds' = [rounds EXCEPT ![r].status = status]
      PROVE  rounds' \in [RoundIds -> RoundType]
  <2> DEFINE new == [rounds[r] EXCEPT !.status = status]
  <2>1. new \in RoundType
    BY <1>1 DEF RoundType, Statuses
  <2>2. rounds' = [rounds EXCEPT ![r] = new]
    BY <1>1, <1>7
  <2> HIDE DEF new
  <2> QED BY <2>1, <2>2, WriteRoundType
<1>8. ASSUME NEW r \in RoundIds, NEW reveal \in Reveals, NEW evidence \in 0..EvidenceCap(r),
             Settle(r, reveal[1], reveal[2], evidence)
      PROVE  TypeOK'
  <2> DEFINE rollover == SettleRollover(r, evidence)
             outgoing == WinnerAmount(r) + evidence + TreasuryAmount(r)
  <2>1. rollover \in Nat /\ outgoing \in Nat
    BY SettleSplit
  <2>2. /\ game' = [game EXCEPT !.rollover_balance = rollover]
        /\ rounds' = [rounds EXCEPT ![r].status = "Settled"]
        /\ vault' = vault - outgoing /\ outgoing <= vault
    BY <1>8 DEF Settle, VaultCanPay
  <2> HIDE DEF rollover, outgoing
  <2>3. vault' \in Nat /\ game' \in GameType
    BY <1>1, <2>1, <2>2, WriteRolloverType
  <2>4. rounds' \in [RoundIds -> RoundType]
    BY <1>7, <2>2
  <2>5. UNCHANGED <<clock, deposits, untracked>>
    BY <1>8 DEF Settle
  <2> QED BY <1>1, <1>2, <1>3, <2>3, <2>4, <2>5
<1>9. ASSUME NEW r \in RoundIds, PayExpired(r) PROVE TypeOK'
  <2> DEFINE rollover == ExpireRollover(r)
             outgoing == ExpireOutgoing(r)
  <2>1. rollover \in Nat /\ outgoing \in Nat
    BY ExpireSplit, RoundFields
  <2>2. /\ game' = [game EXCEPT !.rollover_balance = rollover]
        /\ rounds' = [rounds EXCEPT ![r].status = "Expired"]
        /\ vault' = vault - outgoing /\ outgoing <= vault
    BY <1>9 DEF PayExpired, VaultCanPay
  <2> HIDE DEF rollover, outgoing
  <2>3. vault' \in Nat /\ game' \in GameType
    BY <1>1, <2>1, <2>2, WriteRolloverType
  <2>4. rounds' \in [RoundIds -> RoundType]
    BY <1>7, <2>2
  <2>5. UNCHANGED <<clock, deposits, untracked>>
    BY <1>9 DEF PayExpired
  <2> QED BY <1>1, <1>2, <1>3, <2>3, <2>4, <2>5
<1>10. ASSUME NEW r \in RoundIds, NEW p \in Players, CloseDeposit(r, p) PROVE TypeOK'
  <2> DEFINE rest == Restrict(deposits[r], DOMAIN deposits[r] \ {p})
  <2>1. /\ DOMAIN rest \subseteq Players
        /\ \A q \in DOMAIN rest : rest[q] \in Nat
    BY <1>1 DEF DepositsType, Restrict
  <2>2. deposits' = [deposits EXCEPT ![r] = rest]
    BY <1>10 DEF CloseDeposit
  <2> HIDE DEF rest
  <2>3. DepositsType'
    BY <1>1, <2>1, <2>2 DEF DepositsType
  <2> QED BY <1>1, <1>2, <1>10, <2>3 DEF CloseDeposit
<1>11. ASSUME NEW r \in RoundIds, CloseRound(r) PROVE TypeOK'
  <2> DEFINE new == [NoRound EXCEPT !.status = "Closed"]
  <2>1. new \in RoundType
    BY DEF RoundType, NoRound, Statuses
  <2>2. rounds' = [rounds EXCEPT ![r] = new]
    BY <1>11 DEF CloseRound
  <2> HIDE DEF new
  <2>3. rounds' \in [RoundIds -> RoundType]
    BY <2>1, <2>2, WriteRoundType
  <2> QED BY <1>1, <1>2, <1>3, <1>11, <2>3 DEF CloseRound
<1>12. ASSUME Migrate PROVE TypeOK'
  <2>1. game' \in GameType
    BY <1>1, <1>12 DEF Migrate, MigratedState, MigratedRollover, GameType
  <2> QED BY <1>1, <1>2, <1>3, <1>12, <2>1 DEF Migrate
<1>13. ASSUME NEW a \in Gifts, Gift(a) PROVE TypeOK'
  BY <1>1, <1>2, <1>3, <1>13 DEF Gift
<1>14. ASSUME Tick PROVE TypeOK'
  BY <1>1, <1>2, <1>3, <1>14 DEF Tick
<1>15. ASSUME UNCHANGED vars PROVE TypeOK'
  BY <1>1, <1>2, <1>3, <1>15 DEF vars
<1> QED BY <1>4, <1>5, <1>6, <1>8, <1>9, <1>10, <1>11, <1>12, <1>13, <1>14, <1>15
        DEF Next, Unrestricted, Expire, EmergencyExpire

\* Every account field keeps its Rust type, whatever the authority does: the
\* vault is never overdrawn and no payout takes a u64 below zero.
THEOREM TypeCorrect == Spec => []TypeOK
<1>1. TypeOK /\ [Next]_vars => TypeOK'
  BY NextTypeOK
<1> QED BY <1>1, InitTypeOK, PTL DEF Spec

-----------------------------------------------------------------------------
(* Rounds one at a time.                                                   *)

OneActive ==
    \A q, r \in RoundIds : Is(q, "Active") /\ Is(r, "Active") => q = r

IdsInOrder == \A r \in RoundIds : r > game.current_round_id => Is(r, "None")

\* Before initialize there is nothing, and before migrate no rollover.
Undeployed ==
    /\ game.layout = "None" => /\ game.current_round_id = 0
                               /\ vault = 0 /\ untracked = 0
    /\ game.layout # "New" => game.rollover_balance = 0

\* The copy an Active round took is all of the rollover.
ActiveCopy ==
    \A r \in RoundIds : Is(r, "Active") => game.rollover_balance <= rounds[r].rollover_in

SequentialInv == TypeOK /\ OneActive /\ IdsInOrder /\ Undeployed /\ ActiveCopy

LEMMA InitSequentialInv == Init => SequentialInv
<1> SUFFICES ASSUME Init PROVE SequentialInv
  OBVIOUS
<1>1. TypeOK
  BY InitTypeOK
<1>2. CASE NothingDeployed
  BY <1>1, <1>2 DEF NothingDeployed, SequentialInv, OneActive, IdsInOrder, Undeployed,
                    ActiveCopy, Is, NoRound
<1>3. ASSUME NEW leftover \in Leftovers, OldDeployment(leftover) PROVE SequentialInv
  <2>1. /\ game.layout = "Old" /\ game.current_round_id = 1 /\ game.rollover_balance = 0
        /\ \A r \in RoundIds : r # 1 => rounds[r] = NoRound
    BY <1>3 DEF OldDeployment
  <2>2. /\ \A r \in RoundIds : r # 1 => Is(r, "None")
        /\ \A r \in RoundIds : rounds[r].rollover_in \in Nat
    BY <1>1, <2>1, RoundFields DEF Is, NoRound
  <2>3. OneActive /\ Undeployed /\ ActiveCopy
    BY <2>1, <2>2 DEF OneActive, Undeployed, ActiveCopy, Is
  <2>4. IdsInOrder
    BY <2>1, <2>2 DEF IdsInOrder
  <2> QED BY <1>1, <2>3, <2>4 DEF SequentialInv
<1> QED BY <1>2, <1>3 DEF Init

LEMMA SequentialIsNext == SequentialNext => Next
BY DEF SequentialNext, Next, CreateInTurn

\* A step that changes no status, no copy of the rollover and no game state.
LEMMA QuietSequentialInv ==
    ASSUME SequentialInv, TypeOK', game' = game, Undeployed',
           \A r \in RoundIds : /\ rounds'[r].status = rounds[r].status
                              /\ rounds'[r].rollover_in = rounds[r].rollover_in
    PROVE  SequentialInv'
<1>1. \A r \in RoundIds, status \in Statuses : Is(r, status)' <=> Is(r, status)
  BY DEF Is
<1>2. OneActive'
  BY <1>1 DEF SequentialInv, OneActive, Statuses
<1>3. IdsInOrder'
  BY <1>1 DEF SequentialInv, IdsInOrder, Statuses
<1>4. ActiveCopy'
  BY <1>1 DEF SequentialInv, ActiveCopy, Statuses
<1> QED BY <1>2, <1>3, <1>4 DEF SequentialInv

\* Resolving the Active round leaves none.
LEMMA ResolveSequentialInv ==
    ASSUME SequentialInv, TypeOK', NEW r \in RoundIds, Is(r, "Active"), GameLoads,
           NEW status \in {"Settled", "Expired"}, NEW rollover \in Nat,
           rounds' = [rounds EXCEPT ![r].status = status],
           game' = [game EXCEPT !.rollover_balance = rollover]
    PROVE  SequentialInv'
<1>1. \A q \in RoundIds : rounds[q] \in RoundType
  BY DEF SequentialInv, TypeOK
<1>2. /\ rounds'[r].status = status
      /\ \A q \in RoundIds : q # r => rounds'[q] = rounds[q]
  BY <1>1 DEF SequentialInv, TypeOK, RoundType
<1>3. game \in GameType
  BY DEF SequentialInv, TypeOK
<1>4. game'.current_round_id = game.current_round_id /\ game'.layout = game.layout
      /\ game.layout = "New"
  BY <1>3 DEF GameType, GameLoads
<1>5. \A q \in RoundIds : ~ Is(q, "Active")'
  BY <1>2 DEF Is, SequentialInv, OneActive
<1>6. OneActive' /\ ActiveCopy'
  BY <1>5 DEF OneActive, ActiveCopy
<1>7. Undeployed'
  BY <1>4 DEF Undeployed
<1>8. IdsInOrder'
  BY <1>2, <1>4 DEF SequentialInv, IdsInOrder, Is
<1> QED BY <1>6, <1>7, <1>8 DEF SequentialInv

LEMMA NextSequentialInv ==
    ASSUME SequentialInv, [SequentialNext]_vars
    PROVE  SequentialInv'
<1>1. TypeOK'
  BY NextTypeOK, SequentialIsNext DEF SequentialInv
<1>2. /\ game \in GameType /\ vault \in Nat /\ rounds \in [RoundIds -> RoundType]
      /\ \A r \in RoundIds : rounds[r] \in RoundType
      /\ TypeOK /\ OneActive /\ IdsInOrder /\ Undeployed /\ ActiveCopy
  BY DEF SequentialInv, TypeOK
<1>3. ASSUME rounds' = rounds, game' = game, Undeployed' PROVE SequentialInv'
  BY <1>1, <1>3, QuietSequentialInv
<1>4. ASSUME Initialize PROVE SequentialInv'
  <2>1. /\ game.layout = "None" /\ game.current_round_id = 0 /\ rounds' = rounds
        /\ game' = [layout |-> "New", current_round_id |-> 0, rollover_balance |-> 0]
    BY <1>2, <1>4 DEF Initialize, Undeployed
  <2>2. \A r \in RoundIds : Is(r, "None") /\ Is(r, "None")' /\ ~ Is(r, "Active")'
    BY <1>2, <2>1 DEF IdsInOrder, Is, RoundIds
  <2>3. OneActive' /\ IdsInOrder' /\ ActiveCopy'
    BY <2>2 DEF OneActive, IdsInOrder, ActiveCopy
  <2>4. Undeployed'
    BY <2>1 DEF Undeployed
  <2> QED BY <1>1, <2>3, <2>4 DEF SequentialInv
<1>5. ASSUME NEW c \in Commits, NEW ends_at \in EndTimes, CreateInTurn(c, ends_at)
      PROVE  SequentialInv'
  <2> DEFINE id == game.current_round_id + 1
             new == [NoRound EXCEPT !.status = "Active", !.commit_hash = c,
                        !.ends_at = ends_at, !.rollover_in = game.rollover_balance]
  <2>1. /\ id \in RoundIds /\ NoActiveRound /\ game.layout = "New"
        /\ rounds' = [rounds EXCEPT ![id] = new]
        /\ game' = [game EXCEPT !.current_round_id = id]
    BY <1>5 DEF CreateInTurn, CreateRound, GameLoads
  <2>2. /\ new.status = "Active" /\ new.rollover_in = game.rollover_balance
        /\ game.rollover_balance \in Nat /\ game.current_round_id \in Nat
    BY <1>2 DEF NoRound, GameType
  <2>3. id > game.current_round_id
    BY <2>2
  <2> HIDE DEF new, id
  <2>4. /\ rounds'[id] = new /\ \A q \in RoundIds : q # id => rounds'[q] = rounds[q]
        /\ game'.current_round_id = id /\ game'.layout = "New"
        /\ game'.rollover_balance = game.rollover_balance
    BY <1>2, <2>1 DEF GameType
  <2>5. \A q \in RoundIds : Is(q, "Active")' => q = id
    BY <2>1, <2>4 DEF Is, NoActiveRound
  <2>6. OneActive'
    BY <2>5 DEF OneActive
  <2>7. ActiveCopy'
    BY <2>2, <2>4, <2>5 DEF ActiveCopy
  <2>8. Undeployed'
    BY <2>4 DEF Undeployed
  <2>9. IdsInOrder'
    <3> SUFFICES ASSUME NEW q \in RoundIds, q > id PROVE Is(q, "None")'
      BY <2>4 DEF IdsInOrder
    <3>1. q # id /\ q > game.current_round_id
      BY <2>1, <2>2, <2>3 DEF RoundIds
    <3> QED BY <1>2, <2>4, <3>1 DEF IdsInOrder, Is
  <2> QED BY <1>1, <2>6, <2>7, <2>8, <2>9 DEF SequentialInv
<1>6. ASSUME NEW r \in RoundIds, NEW p \in Players, NEW a \in Amounts, Deposit(r, p, a)
      PROVE  SequentialInv'
  <2> DEFINE total == rounds[r].total_deposits + a
  <2>1. /\ rounds' = [rounds EXCEPT ![r].total_deposits = total]
        /\ game' = game /\ vault > 0
    BY <1>6 DEF Deposit, VaultLoads
  <2> HIDE DEF total
  <2>2. \A q \in RoundIds : /\ rounds'[q].status = rounds[q].status
                            /\ rounds'[q].rollover_in = rounds[q].rollover_in
    BY <1>2, <2>1 DEF RoundType
  <2>3. Undeployed'
    BY <1>2, <2>1 DEF Undeployed
  <2> QED BY <1>1, <2>1, <2>2, <2>3, QuietSequentialInv
<1>7. ASSUME NEW r \in RoundIds, NEW reveal \in Reveals, NEW evidence \in 0..EvidenceCap(r),
             Settle(r, reveal[1], reveal[2], evidence)
      PROVE  SequentialInv'
  <2>1. /\ Is(r, "Active") /\ GameLoads
        /\ rounds' = [rounds EXCEPT ![r].status = "Settled"]
        /\ game' = [game EXCEPT !.rollover_balance = SettleRollover(r, evidence)]
    BY <1>7 DEF Settle, RoundActive
  <2>2. SettleRollover(r, evidence) \in Nat
    BY <1>2, SettleSplit
  <2> QED BY <1>1, <2>1, <2>2, ResolveSequentialInv
<1>8. ASSUME NEW r \in RoundIds, PayExpired(r) PROVE SequentialInv'
  <2>1. /\ Is(r, "Active") /\ GameLoads
        /\ rounds' = [rounds EXCEPT ![r].status = "Expired"]
        /\ game' = [game EXCEPT !.rollover_balance = ExpireRollover(r)]
    BY <1>8 DEF PayExpired, RoundActive
  <2>2. ExpireRollover(r) \in Nat
    BY <1>2, ExpireSplit
  <2> QED BY <1>1, <2>1, <2>2, ResolveSequentialInv
<1>9. ASSUME NEW r \in RoundIds, CloseRound(r) PROVE SequentialInv'
  <2> DEFINE new == [NoRound EXCEPT !.status = "Closed"]
  <2>1. /\ rounds' = [rounds EXCEPT ![r] = new] /\ game' = game /\ game.layout = "New"
        /\ rounds[r].status \in {"Settled", "Expired"} /\ new.status = "Closed"
    BY <1>9 DEF CloseRound, Closable, Is, GameLoads, NoRound
  <2> HIDE DEF new
  <2>2. /\ \A q \in RoundIds : q # r => rounds'[q] = rounds[q]
        /\ rounds'[r].status = "Closed"
    BY <1>2, <2>1
  <2>3. OneActive' /\ ActiveCopy'
    BY <1>2, <2>1, <2>2 DEF OneActive, ActiveCopy, Is
  <2>4. IdsInOrder'
    BY <1>2, <2>1, <2>2 DEF IdsInOrder, Is
  <2>5. Undeployed'
    BY <2>1 DEF Undeployed
  <2> QED BY <1>1, <2>3, <2>4, <2>5 DEF SequentialInv
<1>10. ASSUME Migrate PROVE SequentialInv'
  <2>1. /\ game' = [game EXCEPT !.layout = "New", !.rollover_balance = 0]
        /\ rounds' = rounds
    BY <1>10 DEF Migrate, MigratedState, MigratedRollover
  <2>2. /\ game'.layout = "New" /\ game'.rollover_balance = 0
        /\ game'.current_round_id = game.current_round_id
    BY <1>2, <2>1 DEF GameType
  <2>3. \A r \in RoundIds : rounds[r].rollover_in \in Nat
    BY <1>2, RoundFields
  <2>4. OneActive' /\ IdsInOrder' /\ Undeployed' /\ ActiveCopy'
    BY <1>2, <2>1, <2>2, <2>3 DEF OneActive, IdsInOrder, Undeployed, ActiveCopy, Is
  <2> QED BY <1>1, <2>4 DEF SequentialInv
<1>11. ASSUME NEW r \in RoundIds, NEW p \in Players, CloseDeposit(r, p)
       PROVE  SequentialInv'
  BY <1>2, <1>3, <1>11 DEF CloseDeposit, Undeployed
<1>12. ASSUME NEW a \in Gifts, Gift(a) PROVE SequentialInv'
  BY <1>2, <1>3, <1>12 DEF Gift, Undeployed, VaultLoads
<1>13. ASSUME Tick PROVE SequentialInv'
  BY <1>2, <1>3, <1>13 DEF Tick, Undeployed
<1>14. ASSUME UNCHANGED vars PROVE SequentialInv'
  BY <1>2, <1>3, <1>14 DEF vars, Undeployed
<1> QED BY <1>4, <1>5, <1>6, <1>7, <1>8, <1>9, <1>10, <1>11, <1>12, <1>13, <1>14
        DEF SequentialNext, Unrestricted, Expire, EmergencyExpire

\* Only expire and emergency_expire make an Active round Expired.
LEMMA ExpiryStep ==
    ASSUME SequentialInv, [SequentialNext]_vars, NEW r \in RoundIds,
           Is(r, "Active"), rounds'[r].status = "Expired"
    PROVE  game'.rollover_balance >= game.rollover_balance
<1>1. /\ game \in GameType /\ rounds \in [RoundIds -> RoundType] /\ TypeOK
      /\ \A q \in RoundIds : rounds[q] \in RoundType
      /\ rounds[r].status = "Active" /\ rounds'[r] # rounds[r]
  BY DEF SequentialInv, TypeOK, Is
<1>2. ASSUME NEW q \in RoundIds, PayExpired(q)
      PROVE  game'.rollover_balance >= game.rollover_balance
  <2>1. /\ game'.rollover_balance = ExpireRollover(q) /\ Is(q, "Active")
        /\ ExpireRollover(q) >= rounds[q].rollover_in /\ ExpireRollover(q) \in Nat
    BY <1>1, <1>2, ExpireSplit DEF PayExpired, RoundActive, GameType
  <2>2. game.rollover_balance <= rounds[q].rollover_in
    BY <2>1 DEF SequentialInv, ActiveCopy
  <2>3. game.rollover_balance \in Nat /\ rounds[q].rollover_in \in Nat
    BY <1>1, RoundFields
  <2> QED BY <2>1, <2>2, <2>3
<1>3. ASSUME NEW c \in Commits, NEW ends_at \in EndTimes, CreateInTurn(c, ends_at)
      PROVE  FALSE
  <2>1. ~ Is(r, "Active")
    BY <1>3 DEF CreateInTurn, NoActiveRound
  <2> QED BY <2>1
<1>4. ASSUME NEW q \in RoundIds, NEW reveal \in Reveals, NEW evidence \in 0..EvidenceCap(q),
             Settle(q, reveal[1], reveal[2], evidence)
      PROVE  FALSE
  <2>1. rounds' = [rounds EXCEPT ![q].status = "Settled"]
    BY <1>4 DEF Settle
  <2> QED BY <1>1, <2>1 DEF RoundType
<1>5. ASSUME NEW q \in RoundIds, NEW p \in Players, NEW a \in Amounts, Deposit(q, p, a)
      PROVE  FALSE
  <2> DEFINE total == rounds[q].total_deposits + a
  <2>1. rounds' = [rounds EXCEPT ![q].total_deposits = total]
    BY <1>5 DEF Deposit
  <2> HIDE DEF total
  <2> QED BY <1>1, <2>1 DEF RoundType
<1>6. ASSUME NEW q \in RoundIds, CloseRound(q) PROVE FALSE
  BY <1>1, <1>6 DEF CloseRound, Closable, Is
<1>7. rounds' = rounds => FALSE
  BY <1>1
<1> QED BY <1>2, <1>3, <1>4, <1>5, <1>6, <1>7
        DEF SequentialNext, Unrestricted, Expire, EmergencyExpire, Initialize,
            CloseDeposit, Migrate, Gift, Tick, vars

\* An expiry never takes from the rollover when rounds are created one at a
\* time, whoever calls it (expire, emergency_expire).
THEOREM ExpiryKeeps == SequentialSpec => ExpiryKeepsRollover
<1>1. SequentialInv /\ [SequentialNext]_vars => SequentialInv'
  BY NextSequentialInv
<1>2. SequentialInv /\ [SequentialNext]_vars =>
        [(\E r \in RoundIds : Is(r, "Active") /\ rounds'[r].status = "Expired")
            => game'.rollover_balance >= game.rollover_balance]_vars
  BY ExpiryStep
<1> QED BY <1>1, <1>2, InitSequentialInv, PTL DEF SequentialSpec, ExpiryKeepsRollover

-----------------------------------------------------------------------------
(* Rounds are used once, whatever the authority does.                      *)

IdsInv == /\ TypeOK /\ IdsInOrder
          /\ game.layout = "None" => game.current_round_id = 0

LEMMA InitIdsInv == Init => IdsInv
BY InitSequentialInv DEF SequentialInv, Undeployed, IdsInv

\* What one step may write of the round accounts: nothing, or one round, which
\* is Active, is closed, or is the next one.
SameIds == game'.current_round_id = game.current_round_id

RoundWrite(r) ==
    /\ \A q \in RoundIds : q # r => rounds'[q] = rounds[q]
    /\ \/ SameIds /\ Is(r, "Active")
       \/ SameIds /\ Closable(r) /\ rounds'[r].status = "Closed"
       \/ r = game.current_round_id + 1 /\ game'.current_round_id = r

LEMMA RoundWrites ==
    ASSUME IdsInv, [Next]_vars
    PROVE  /\ (rounds' = rounds /\ SameIds) \/ \E r \in RoundIds : RoundWrite(r)
           /\ game'.layout = "None" => game'.current_round_id = 0
<1> DEFINE Goal == /\ (rounds' = rounds /\ SameIds) \/ \E r \in RoundIds : RoundWrite(r)
                   /\ game'.layout = "None" => game'.current_round_id = 0
<1>1. /\ game \in GameType /\ rounds \in [RoundIds -> RoundType]
      /\ game.layout = "None" => game.current_round_id = 0
  BY DEF IdsInv, TypeOK
<1>2. ASSUME rounds' = rounds, game' = game PROVE Goal
  BY <1>1, <1>2 DEF SameIds
<1>3. ASSUME Initialize PROVE Goal
  BY <1>1, <1>3 DEF Initialize, SameIds
<1>4. ASSUME NEW c \in Commits, NEW ends_at \in EndTimes, CreateRound(c, ends_at)
      PROVE  Goal
  <2> DEFINE id == game.current_round_id + 1
             new == [NoRound EXCEPT !.status = "Active", !.commit_hash = c,
                        !.ends_at = ends_at, !.rollover_in = game.rollover_balance]
  <2>1. /\ id \in RoundIds /\ game.layout = "New"
        /\ rounds' = [rounds EXCEPT ![id] = new]
        /\ game' = [game EXCEPT !.current_round_id = id]
    BY <1>4 DEF CreateRound, GameLoads
  <2> HIDE DEF new
  <2>2. /\ \A q \in RoundIds : q # id => rounds'[q] = rounds[q]
        /\ game'.current_round_id = id /\ game'.layout = "New"
    BY <1>1, <2>1 DEF GameType
  <2>3. RoundWrite(id)
    BY <2>2 DEF RoundWrite
  <2> QED BY <2>1, <2>2, <2>3
<1>5. ASSUME NEW r \in RoundIds, Is(r, "Active"), NEW new,
             rounds' = [rounds EXCEPT ![r] = new],
             game'.current_round_id = game.current_round_id, game'.layout = game.layout
      PROVE  Goal
  <2>1. RoundWrite(r)
    BY <1>1, <1>5 DEF RoundWrite, SameIds
  <2> QED BY <1>1, <1>5, <2>1
<1>6. ASSUME NEW r \in RoundIds, NEW p \in Players, NEW a \in Amounts, Deposit(r, p, a)
      PROVE  Goal
  BY <1>5, <1>6 DEF Deposit, RoundActive
<1>7. ASSUME NEW r \in RoundIds, NEW reveal \in Reveals, NEW evidence \in 0..EvidenceCap(r),
             Settle(r, reveal[1], reveal[2], evidence)
      PROVE  Goal
  <2>1. /\ Is(r, "Active") /\ rounds' = [rounds EXCEPT ![r].status = "Settled"]
        /\ game' = [game EXCEPT !.rollover_balance = SettleRollover(r, evidence)]
    BY <1>7 DEF Settle, RoundActive
  <2> QED BY <1>1, <1>5, <2>1 DEF GameType
<1>8. ASSUME NEW r \in RoundIds, PayExpired(r) PROVE Goal
  <2>1. /\ Is(r, "Active") /\ rounds' = [rounds EXCEPT ![r].status = "Expired"]
        /\ game' = [game EXCEPT !.rollover_balance = ExpireRollover(r)]
    BY <1>8 DEF PayExpired, RoundActive
  <2> QED BY <1>1, <1>5, <2>1 DEF GameType
<1>9. ASSUME NEW r \in RoundIds, CloseRound(r) PROVE Goal
  <2> DEFINE new == [NoRound EXCEPT !.status = "Closed"]
  <2>1. /\ rounds' = [rounds EXCEPT ![r] = new] /\ game' = game
        /\ Closable(r) /\ new.status = "Closed"
    BY <1>9 DEF CloseRound, NoRound
  <2> HIDE DEF new
  <2>2. RoundWrite(r)
    BY <1>1, <2>1 DEF RoundWrite, SameIds
  <2> QED BY <1>1, <2>1, <2>2
<1>10. ASSUME Migrate PROVE Goal
  BY <1>1, <1>10 DEF Migrate, MigratedState, GameType, SameIds
<1>11. ASSUME NEW r \in RoundIds, NEW p \in Players, CloseDeposit(r, p) PROVE Goal
  BY <1>2, <1>11 DEF CloseDeposit
<1>12. ASSUME NEW a \in Gifts, Gift(a) PROVE Goal
  BY <1>2, <1>12 DEF Gift
<1>13. CASE Tick \/ UNCHANGED vars
  BY <1>2, <1>13 DEF Tick, vars
<1> QED BY <1>3, <1>4, <1>6, <1>7, <1>8, <1>9, <1>10, <1>11, <1>12, <1>13
        DEF Next, Unrestricted, Expire, EmergencyExpire

LEMMA NextIdsInv ==
    ASSUME IdsInv, [Next]_vars
    PROVE  IdsInv'
<1>1. TypeOK' /\ game.current_round_id \in Nat
  BY NextTypeOK DEF IdsInv, TypeOK, GameType
<1>2. ASSUME rounds' = rounds, SameIds PROVE IdsInOrder'
  BY <1>2 DEF IdsInv, IdsInOrder, SameIds, Is
<1>3. ASSUME NEW r \in RoundIds, RoundWrite(r) PROVE IdsInOrder'
  <2>1. /\ r \in Nat /\ ~ (r > game'.current_round_id)
        /\ game'.current_round_id >= game.current_round_id
    BY <1>1, <1>3 DEF RoundWrite, SameIds, IdsInv, IdsInOrder, Is, Closable, RoundIds
  <2> SUFFICES ASSUME NEW q \in RoundIds, q > game'.current_round_id
               PROVE  rounds'[q].status = "None"
    BY DEF IdsInOrder, Is
  <2>2. q # r /\ q > game.current_round_id
    BY <1>1, <2>1 DEF RoundIds, TypeOK, GameType
  <2> QED BY <1>3, <2>2 DEF RoundWrite, IdsInv, IdsInOrder, Is
<1> QED BY <1>1, <1>2, <1>3, RoundWrites DEF IdsInv, IdsInOrder

\* A resolved round stays as it was resolved until it is closed, and no round
\* account is ever created again under a used id, also by a deployment that was
\* migrated, whatever the authority does (create_round, migrate, close_round).
THEOREM RoundsUsedOnce == Spec => ResolvedForGood
<1> DEFINE ForGood ==
      \A r \in RoundIds :
          /\ Closable(r) => rounds'[r] = rounds[r] \/ rounds'[r].status = "Closed"
          /\ Is(r, "Closed") => rounds'[r] = rounds[r]
<1>1. ASSUME IdsInv, [Next]_vars PROVE ForGood
  <2>1. CASE rounds' = rounds
    BY <2>1
  <2>2. ASSUME NEW q \in RoundIds, RoundWrite(q) PROVE ForGood
    <3>1. q = game.current_round_id + 1 => Is(q, "None")
      <4>1. game.current_round_id \in Nat
        BY <1>1 DEF IdsInv, TypeOK, GameType
      <4> QED BY <1>1, <4>1 DEF IdsInv, IdsInOrder
    <3>2. Is(q, "Active") \/ Is(q, "None") \/ (Closable(q) /\ rounds'[q].status = "Closed")
      BY <2>2, <3>1 DEF RoundWrite
    <3> SUFFICES ASSUME NEW r \in RoundIds
                 PROVE  /\ Closable(r) => \/ rounds'[r] = rounds[r]
                                          \/ rounds'[r].status = "Closed"
                        /\ Is(r, "Closed") => rounds'[r] = rounds[r]
      OBVIOUS
    <3>3. CASE r = q
      BY <3>2, <3>3 DEF Closable, Is
    <3>4. CASE r # q
      BY <2>2, <3>4 DEF RoundWrite
    <3> QED BY <3>3, <3>4
  <2> QED BY <1>1, <2>1, <2>2, RoundWrites
<1>2. IdsInv /\ [Next]_vars => [ForGood]_vars
  BY <1>1
<1>3. IdsInv /\ [Next]_vars => IdsInv'
  BY NextIdsInv
<1> QED BY <1>2, <1>3, InitIdsInv, PTL DEF Spec, ResolvedForGood

-----------------------------------------------------------------------------
(* The deposit accounts of an Active round add up to its total.            *)

\* An id that was never used has no deposit accounts, so that a new round
\* starts from none; a used id never becomes a new round again.
BackedRound(r) ==
    /\ Is(r, "None") => DOMAIN deposits[r] = {}
    /\ Is(r, "Active") => rounds[r].total_deposits = SumFunction(deposits[r])

BackedInv == IdsInv /\ \A r \in RoundIds : BackedRound(r)

LEMMA NoDepositsSum == ASSUME NEW f, DOMAIN f = {} PROVE SumFunction(f) = 0
BY SumEmpty DEF SumFunction

LEMMA InitBackedInv == Init => BackedInv
<1> SUFFICES ASSUME Init PROVE BackedInv
  OBVIOUS
<1>1. IdsInv
  BY InitIdsInv
<1>2. \A r \in RoundIds : DOMAIN deposits[r] = {}
  BY DEF Init, NoDeposits
<1>3. \A r \in RoundIds : rounds[r].total_deposits = 0
  <2>1. CASE NothingDeployed
    BY <2>1 DEF NothingDeployed, NoRound
  <2>2. ASSUME NEW leftover \in Leftovers, OldDeployment(leftover)
        PROVE  \A r \in RoundIds : rounds[r].total_deposits = 0
    <3>1. CASE rounds = [[r \in RoundIds |-> NoRound] EXCEPT ![1].status = "Closed"]
      BY <3>1 DEF NoRound
    <3>2. ASSUME NEW c \in Commits, NEW ends_at \in EndTimes,
                 rounds = [[r \in RoundIds |-> NoRound] EXCEPT ![1] =
                             [NoRound EXCEPT !.status = "Active", !.commit_hash = c,
                                 !.ends_at = ends_at, !.rollover_in = leftover]]
          PROVE  \A r \in RoundIds : rounds[r].total_deposits = 0
      BY <3>2 DEF NoRound
    <3> QED BY <2>2, <3>1, <3>2 DEF OldDeployment
  <2> QED BY <2>1, <2>2 DEF Init
<1> QED BY <1>1, <1>2, <1>3, NoDepositsSum DEF BackedInv, BackedRound

\* One deposit, the player's first of the round or a later one, adds its amount
\* to the sum of the accounts.
LEMMA DepositSum ==
    ASSUME TypeOK, NEW r \in RoundIds, NEW p \in Players, NEW a \in Nat,
           NEW account,
           account = [q \in DOMAIN deposits[r] \cup {p} |->
                         IF q = p THEN NewDeposit(r, p, a) ELSE deposits[r][q]]
    PROVE  SumFunction(account) = SumFunction(deposits[r]) + a
<1> DEFINE old == deposits[r]
           S == DOMAIN old
<1>1. /\ S \subseteq Players /\ IsFiniteSet(S)
      /\ \A q \in S : old[q] \in Nat
  BY FS_Subset, V1Assumption DEF TypeOK
<1>2. /\ DOMAIN account = S \cup {p}
      /\ account[p] = NewDeposit(r, p, a)
      /\ \A q \in S : q # p => account[q] = old[q]
  OBVIOUS
<1>3. /\ p \in S => account[p] = old[p] + a
      /\ p \notin S => account[p] = a
  BY <1>2 DEF NewDeposit, Deposited
<1> HIDE DEF old
<1>4. CASE p \in S
  <2>1. S \cup {p} = S /\ \A q \in S : old[q] \in Int /\ account[q] \in Int
    <3>1. S \cup {p} = S
      BY <1>4
    <3>2. \A q \in S : old[q] \in Nat
      BY <1>1
    <3>3. account[p] \in Nat
      BY <1>3, <1>4, <3>2
    <3>4. \A q \in S : account[q] \in Nat
      BY <1>2, <3>2, <3>3
    <3> QED BY <3>1, <3>2, <3>4
  <2>2. SumFunctionOnSet(account, S) =
            SumFunctionOnSet(old, S) + account[p] - old[p]
    <3> DEFINE T == S
    <3>1. /\ IsFiniteSet(T) /\ p \in T
          /\ \A q \in T : old[q] \in Int /\ account[q] \in Int
          /\ \A q \in T : q # p => account[q] = old[q]
      BY <1>1, <1>2, <1>4, <2>1
    <3> HIDE DEF T
    <3>2. SumFunctionOnSet(account, T) = SumFunctionOnSet(old, T) + account[p] - old[p]
      BY <3>1, SumChangeOne
    <3> QED BY <3>2 DEF T
  <2>3. SumFunctionOnSet(old, S) \in Int /\ old[p] \in Int
    BY <1>1, <1>4, <2>1, SumInt
  <2>4. SumFunctionOnSet(account, S) = SumFunctionOnSet(old, S) + a
    BY <1>3, <1>4, <2>2, <2>3
  <2> QED BY <1>2, <2>1, <2>4 DEF SumFunction, old
<1>5. CASE p \notin S
  <2>1. \A q \in S \cup {p} : account[q] \in Int
    BY <1>1, <1>2, <1>3, <1>5
  <2>2. SumFunctionOnSet(account, S \cup {p}) = account[p] + SumFunctionOnSet(account, S)
    BY <1>1, <1>5, <2>1, SumInsert
  <2>3. SumFunctionOnSet(account, S) = SumFunctionOnSet(old, S)
    BY <1>1, <1>2, <1>5, SumSame
  <2>4. SumFunctionOnSet(old, S) \in Int
    BY <1>1, SumInt
  <2>5. SumFunctionOnSet(account, S \cup {p}) = SumFunctionOnSet(old, S) + a
    BY <1>3, <1>5, <2>2, <2>3, <2>4
  <2> QED BY <1>2, <2>5 DEF SumFunction, old
<1> QED BY <1>4, <1>5

LEMMA NextBackedInv ==
    ASSUME BackedInv, [Next]_vars
    PROVE  BackedInv'
<1>1. /\ TypeOK /\ IdsInv' /\ rounds \in [RoundIds -> RoundType]
      /\ DOMAIN deposits = RoundIds
      /\ \A r \in RoundIds : BackedRound(r)
  BY NextIdsInv DEF BackedInv, IdsInv, TypeOK
<1>2. ASSUME NEW q \in RoundIds, rounds'[q] = rounds[q], deposits'[q] = deposits[q]
      PROVE  BackedRound(q)'
  BY <1>1, <1>2 DEF BackedRound, Is
<1>3. ASSUME NEW q \in RoundIds, rounds'[q].status \notin {"None", "Active"}
      PROVE  BackedRound(q)'
  BY <1>3 DEF BackedRound, Is
<1>4. ASSUME rounds' = rounds, deposits' = deposits PROVE BackedInv'
  BY <1>1, <1>2, <1>4 DEF BackedInv
<1>5. ASSUME NEW c \in Commits, NEW ends_at \in EndTimes, CreateRound(c, ends_at)
      PROVE  BackedInv'
  <2> DEFINE new == [NoRound EXCEPT !.status = "Active", !.commit_hash = c,
                        !.ends_at = ends_at, !.rollover_in = game.rollover_balance]
  <2>0. PICK id \in RoundIds : id = game.current_round_id + 1
    BY <1>5 DEF CreateRound
  <2>1. rounds' = [rounds EXCEPT ![id] = new] /\ deposits' = deposits
    BY <1>5, <2>0 DEF CreateRound
  <2>2. game.current_round_id \in Nat /\ id > game.current_round_id
    BY <1>1, <2>0 DEF TypeOK, GameType
  <2>3. Is(id, "None")
    BY <2>2 DEF BackedInv, IdsInv, IdsInOrder
  <2>4. new.status = "Active" /\ new.total_deposits = 0
    BY DEF NoRound
  <2> HIDE DEF new
  <2>5. DOMAIN deposits[id] = {}
    BY <1>1, <2>3 DEF BackedRound
  <2>6. SumFunction(deposits[id]) = 0
    BY <2>5, NoDepositsSum
  <2>7. BackedRound(id)'
    BY <1>1, <2>1, <2>4, <2>6 DEF BackedRound, Is
  <2>8. \A q \in RoundIds : q # id => rounds'[q] = rounds[q] /\ deposits'[q] = deposits[q]
    BY <1>1, <2>1
  <2> QED BY <1>1, <1>2, <2>7, <2>8 DEF BackedInv
<1>6. ASSUME NEW r \in RoundIds, NEW p \in Players, NEW a \in Amounts, Deposit(r, p, a)
      PROVE  BackedInv'
  <2> DEFINE new == [rounds[r] EXCEPT !.total_deposits = rounds[r].total_deposits + a]
             account == [q \in DOMAIN deposits[r] \cup {p} |->
                            IF q = p THEN NewDeposit(r, p, a) ELSE deposits[r][q]]
  <2>1. /\ Is(r, "Active") /\ deposits' = [deposits EXCEPT ![r] = account]
        /\ rounds' = [rounds EXCEPT ![r].total_deposits = rounds[r].total_deposits + a]
    BY <1>6 DEF Deposit, RoundActive
  <2>2. a \in Nat
    BY V1Assumption
  <2>3. SumFunction(account) = SumFunction(deposits[r]) + a
    BY <1>1, <2>2, DepositSum
  <2> HIDE DEF account
  <2>4. /\ new.status = "Active" /\ rounds' = [rounds EXCEPT ![r] = new]
        /\ new.total_deposits = rounds[r].total_deposits + a
    BY <1>1, <2>1 DEF RoundType, Is
  <2> HIDE DEF new
  <2>5. /\ rounds'[r] = new /\ deposits'[r] = account
        /\ \A q \in RoundIds : q # r => rounds'[q] = rounds[q] /\ deposits'[q] = deposits[q]
    BY <1>1, <2>1, <2>4
  <2>6. rounds[r].total_deposits = SumFunction(deposits[r])
    BY <1>1, <2>1 DEF BackedRound
  <2>7. BackedRound(r)'
    BY <2>3, <2>4, <2>5, <2>6 DEF BackedRound, Is
  <2> QED BY <1>1, <1>2, <2>5, <2>7 DEF BackedInv
<1>7. ASSUME NEW r \in RoundIds, NEW status \in {"Settled", "Expired"},
             rounds' = [rounds EXCEPT ![r].status = status], deposits' = deposits
      PROVE  BackedInv'
  <2>1. /\ rounds'[r].status = status
        /\ \A q \in RoundIds : q # r => rounds'[q] = rounds[q]
    BY <1>1, <1>7 DEF RoundType
  <2>2. BackedRound(r)'
    BY <1>3, <2>1
  <2> QED BY <1>1, <1>2, <1>7, <2>1, <2>2 DEF BackedInv
<1>8. ASSUME NEW r \in RoundIds, NEW reveal \in Reveals, NEW evidence \in 0..EvidenceCap(r),
             Settle(r, reveal[1], reveal[2], evidence)
      PROVE  BackedInv'
  <2>1. rounds' = [rounds EXCEPT ![r].status = "Settled"] /\ deposits' = deposits
    BY <1>8 DEF Settle
  <2> QED BY <1>7, <2>1
<1>9. ASSUME NEW r \in RoundIds, PayExpired(r) PROVE BackedInv'
  <2>1. rounds' = [rounds EXCEPT ![r].status = "Expired"] /\ deposits' = deposits
    BY <1>9 DEF PayExpired
  <2> QED BY <1>7, <2>1
<1>10. ASSUME NEW r \in RoundIds, NEW p \in Players, CloseDeposit(r, p) PROVE BackedInv'
  <2> DEFINE rest == Restrict(deposits[r], DOMAIN deposits[r] \ {p})
  <2>1. /\ Closable(r) /\ deposits' = [deposits EXCEPT ![r] = rest] /\ rounds' = rounds
    BY <1>10 DEF CloseDeposit
  <2> HIDE DEF rest
  <2>2. BackedRound(r)'
    BY <1>3, <2>1 DEF Closable, Is
  <2>3. \A q \in RoundIds : q # r => rounds'[q] = rounds[q] /\ deposits'[q] = deposits[q]
    BY <1>1, <2>1
  <2> QED BY <1>1, <1>2, <2>2, <2>3 DEF BackedInv
<1>11. ASSUME NEW r \in RoundIds, CloseRound(r) PROVE BackedInv'
  <2> DEFINE new == [NoRound EXCEPT !.status = "Closed"]
  <2>1. /\ rounds' = [rounds EXCEPT ![r] = new] /\ deposits' = deposits
        /\ new.status = "Closed"
    BY <1>11 DEF CloseRound, NoRound
  <2> HIDE DEF new
  <2>2. /\ rounds'[r].status = "Closed"
        /\ \A q \in RoundIds : q # r => rounds'[q] = rounds[q]
    BY <1>1, <2>1
  <2>3. BackedRound(r)'
    BY <1>3, <2>2
  <2> QED BY <1>1, <1>2, <2>1, <2>2, <2>3 DEF BackedInv
<1>12. CASE Initialize \/ Migrate \/ Tick \/ (\E a \in Gifts : Gift(a)) \/ UNCHANGED vars
  BY <1>4, <1>12 DEF Initialize, Migrate, Tick, Gift, vars
<1> QED BY <1>5, <1>6, <1>8, <1>9, <1>10, <1>11, <1>12
        DEF Next, Unrestricted, Expire, EmergencyExpire

\* While a round is Active its deposit accounts add up to the total its payouts
\* are computed from, for any players and amounts, whatever the authority does:
\* repeated deposits, rounds that overlap, closed deposits of resolved rounds,
\* the migration (deposit, close_deposit, create_round).
THEOREM DepositsBacked == Spec => []DepositsBackTotal
<1>1. BackedInv /\ [Next]_vars => BackedInv'
  BY NextBackedInv
<1>2. BackedInv => DepositsBackTotal
  BY DEF BackedInv, BackedRound, DepositsBackTotal
<1> QED BY <1>1, <1>2, InitBackedInv, PTL DEF Spec

-----------------------------------------------------------------------------
(* The refinement.                                                         *)

MappedInit == Prize!PoolInit
MappedNext == [Prize!PoolNext]_(Prize!poolVars)

\* What every operation of the pool is mapped from.
LEMMA MappedTypes ==
    ASSUME SequentialInv
    PROVE  /\ Rollover \in Nat /\ Pots \in [RoundIds -> Nat]
           /\ Phases \in [RoundIds -> {"Unused", "Open", "Resolved"}]
           /\ VaultHeld \in Int
           /\ \A r \in RoundIds : Is(r, "Active") => Rollover = 0
<1>1. \A r \in RoundIds : Pool(r) \in Nat /\ rounds[r] \in RoundType
  BY RoundFields DEF SequentialInv
<1>2. Rollover \in Nat
  BY DEF Rollover, SequentialInv, TypeOK, GameType
<1>3. Pots \in [RoundIds -> Nat]
  BY <1>1 DEF Pots
<1>4. Phases \in [RoundIds -> {"Unused", "Open", "Resolved"}]
  BY DEF Phases
<1>5. VaultHeld \in Int
  BY V1Assumption DEF VaultHeld, SequentialInv, TypeOK
<1> QED BY <1>2, <1>3, <1>4, <1>5 DEF Rollover, NoActiveRound

\* The pool's sum is the program's.
LEMMA SameSum == ASSUME NEW f, NEW n PROVE Prize!SumTo(f, n) = SumTo(f, n)
BY DEF Prize!SumTo, SumTo, Prize!SumFunctionOnSet, SumFunctionOnSet,
       Prize!FoldFunctionOnSet, FoldFunctionOnSet, Prize!MapThenFoldSet, MapThenFoldSet

\* An old deployment, field by field.
LEMMA OldState ==
    ASSUME NEW leftover \in Leftovers, OldDeployment(leftover)
    PROVE  /\ game.layout = "Old" /\ game.rollover_balance = 0
           /\ vault = VAULT_RENT + leftover
           /\ \A r \in RoundIds : r # 1 => rounds[r].status = "None"
           /\ \/ untracked = leftover /\ rounds[1].status = "Closed"
              \/ /\ untracked = 0 /\ rounds[1].status = "Active"
                 /\ rounds[1].total_deposits = 0 /\ rounds[1].rollover_in = leftover
<1>1. /\ game.layout = "Old" /\ game.rollover_balance = 0
      /\ vault = VAULT_RENT + leftover
  BY DEF OldDeployment
<1>2. 1 \in RoundIds /\ NoRound.status = "None"
  BY V1Assumption DEF RoundIds, NoRound
<1>3. ASSUME NEW new, rounds = [[r \in RoundIds |-> NoRound] EXCEPT ![1] = new]
      PROVE  rounds[1] = new /\ \A r \in RoundIds : r # 1 => rounds[r].status = "None"
  BY <1>2, <1>3
<1>4. CASE untracked = leftover
           /\ rounds = [[r \in RoundIds |-> NoRound] EXCEPT ![1].status = "Closed"]
  <2> DEFINE new == [NoRound EXCEPT !.status = "Closed"]
  <2>1. rounds = [[r \in RoundIds |-> NoRound] EXCEPT ![1] = new] /\ new.status = "Closed"
    BY <1>2, <1>4 DEF NoRound
  <2> HIDE DEF new
  <2> QED BY <1>1, <1>3, <1>4, <2>1
<1>5. ASSUME NEW c \in Commits, NEW ends_at \in EndTimes, untracked = 0,
             rounds = [[r \in RoundIds |-> NoRound] EXCEPT ![1] =
                         [NoRound EXCEPT !.status = "Active", !.commit_hash = c,
                             !.ends_at = ends_at, !.rollover_in = leftover]]
      PROVE  /\ rounds[1].status = "Active"
             /\ rounds[1].total_deposits = 0 /\ rounds[1].rollover_in = leftover
             /\ \A r \in RoundIds : r # 1 => rounds[r].status = "None"
  <2> DEFINE new == [NoRound EXCEPT !.status = "Active", !.commit_hash = c,
                         !.ends_at = ends_at, !.rollover_in = leftover]
  <2>1. new.status = "Active" /\ new.total_deposits = 0 /\ new.rollover_in = leftover
    BY DEF NoRound
  <2> HIDE DEF new
  <2>2. rounds = [[r \in RoundIds |-> NoRound] EXCEPT ![1] = new]
    BY <1>5 DEF new
  <2> QED BY <1>3, <2>1, <2>2
<1> QED BY <1>1, <1>4, <1>5 DEF OldDeployment

LEMMA InitMapped == Init => MappedInit
<1> SUFFICES ASSUME Init PROVE MappedInit
  OBVIOUS
<1>1. SequentialInv
  BY InitSequentialInv
<1>2. \A r \in RoundIds : Phases[r] = "Unused" => Pots[r] = 0
  BY DEF Phases, Pots, Is
<1>3. MAX_ROUNDS \in Nat /\ 1 \in RoundIds /\ VAULT_RENT \in Nat
  BY V1Assumption DEF RoundIds
<1>4. game.rollover_balance = 0 /\ Rollover = 0
  <2>1. CASE NothingDeployed
    BY <2>1 DEF NothingDeployed, Rollover
  <2>2. ASSUME NEW leftover \in Leftovers, OldDeployment(leftover)
        PROVE  game.rollover_balance = 0 /\ Rollover = 0
    BY <2>2, OldState DEF Rollover
  <2> QED BY <2>1, <2>2 DEF Init
<1>5. ASSUME \A r \in RoundIds : Pots[r] = 0 PROVE SumTo(Pots, MAX_ROUNDS) = 0
  BY <1>3, <1>5, SumToZero DEF RoundIds
<1>6. CASE NothingDeployed
  <2>1. VaultHeld = 0 /\ \A r \in RoundIds : Pots[r] = 0
    BY <1>6 DEF NothingDeployed, VaultHeld, Pots, Is, NoRound
  <2>2. SumTo(Pots, MAX_ROUNDS) = 0
    BY <1>5, <2>1
  <2>3. VaultHeld \in Nat /\ VaultHeld = Rollover + SumTo(Pots, MAX_ROUNDS)
    BY <1>4, <2>1, <2>2
  <2> QED BY <1>1, <1>2, <2>3, MappedTypes, SameSum
          DEF MappedInit, Prize!PoolInit, Prize!Covered, Prize!Rounds, RoundIds
<1>7. ASSUME NEW leftover \in Leftovers, OldDeployment(leftover) PROVE MappedInit
  <2>1. leftover \in Nat
    BY V1Assumption
  <2>2. /\ game.layout = "Old" /\ vault = VAULT_RENT + leftover
        /\ \A r \in RoundIds : r # 1 => Pots[r] = 0
    BY <1>7, OldState DEF Pots, Is
  <2>3. Pots[1] = VaultHeld /\ VaultHeld \in Nat
    <3>1. CASE untracked = leftover /\ ~ Is(1, "Active")
      BY <1>3, <2>1, <2>2, <3>1 DEF VaultHeld, Pots
    <3>2. CASE untracked = 0 /\ Is(1, "Active") /\ Pool(1) = leftover
      BY <1>3, <2>1, <2>2, <3>2 DEF VaultHeld, Pots
    <3> QED BY <1>7, <2>1, <3>1, <3>2, OldState DEF Is, Pool
  <2>4. SumTo(Pots, MAX_ROUNDS) = Pots[1]
    <3> DEFINE f == [r \in RoundIds |-> 0]
               g == Pots
    <3>1. SumTo(f, MAX_ROUNDS) = 0
      BY <1>3, SumToZero DEF RoundIds
    <3>2. /\ \A r \in 1..MAX_ROUNDS : f[r] \in Int /\ g[r] \in Int
          /\ \A r \in 1..MAX_ROUNDS : r # 1 => g[r] = f[r]
          /\ f[1] = 0 /\ g[1] \in Int /\ 1 \in 1..MAX_ROUNDS
      BY <1>3, <2>2, <2>3 DEF RoundIds
    <3> HIDE DEF f, g
    <3>3. SumTo(g, MAX_ROUNDS) = SumTo(f, MAX_ROUNDS) + g[1] - f[1]
      BY <1>3, <3>2, SumToChangeOne
    <3>4. SumTo(g, MAX_ROUNDS) = g[1]
      BY <3>1, <3>2, <3>3
    <3> QED BY <3>4 DEF g
  <2>5. VaultHeld = Rollover + SumTo(Pots, MAX_ROUNDS)
    BY <1>4, <2>3, <2>4
  <2> QED BY <1>1, <1>2, <2>3, <2>5, MappedTypes, SameSum
          DEF MappedInit, Prize!PoolInit, Prize!Covered, Prize!Rounds, RoundIds
<1> QED BY <1>6, <1>7 DEF Init

\* A step of the program that is none of the pool.
LEMMA StutterMapped ==
    ASSUME VaultHeld' = VaultHeld, Rollover' = Rollover, Pots' = Pots, Phases' = Phases
    PROVE  MappedNext
BY DEF MappedNext, Prize!poolVars

\* A round is created: the reserve becomes its pot.
LEMMA CreateMapped ==
    ASSUME SequentialInv, SequentialInv', NEW c \in Commits, NEW ends_at \in EndTimes,
           CreateInTurn(c, ends_at)
    PROVE  MappedNext
<1> DEFINE new == [NoRound EXCEPT !.status = "Active", !.commit_hash = c,
                      !.ends_at = ends_at, !.rollover_in = game.rollover_balance]
           bal == game.rollover_balance
<1>0. PICK id \in RoundIds : id = game.current_round_id + 1
  BY DEF CreateInTurn, CreateRound
<1>1. /\ NoActiveRound
      /\ rounds' = [rounds EXCEPT ![id] = new]
      /\ game' = [game EXCEPT !.current_round_id = id]
      /\ UNCHANGED <<vault, untracked>>
  BY <1>0 DEF CreateInTurn, CreateRound
<1>2. /\ new.status = "Active" /\ new.total_deposits = 0 /\ new.rollover_in = bal
      /\ bal \in Nat /\ game.current_round_id \in Nat /\ game \in GameType
      /\ rounds \in [RoundIds -> RoundType]
  BY DEF NoRound, GameType, SequentialInv, TypeOK
<1>3. Is(id, "None")
  BY <1>0, <1>2 DEF SequentialInv, IdsInOrder
<1> HIDE DEF new, bal
<1>4. /\ rounds'[id] = new
      /\ \A q \in RoundIds : q # id => rounds'[q] = rounds[q]
      /\ game'.layout = game.layout
  BY <1>1, <1>2 DEF GameType
<1>5. Rollover = bal /\ Rollover' = 0 /\ VaultHeld' = VaultHeld
  <2>1. rounds'[id].status = "Active"
    BY <1>2, <1>4
  <2>2. ~ NoActiveRound'
    BY <2>1 DEF NoActiveRound, Is
  <2> QED BY <1>1, <1>4, <2>2 DEF Rollover, VaultHeld, bal
<1>6. Pots' = [Pots EXCEPT ![id] = bal] /\ Pots'[id] = bal
  <2>1. \A q \in RoundIds : q # id => Pots'[q] = Pots[q]
    BY <1>4 DEF Pots, Is, Pool
  <2>2. Pots'[id] = bal
    BY <1>1, <1>2, <1>4 DEF Pots, Is, Pool
  <2> QED BY <1>1, <2>1, <2>2 DEF Pots
<1>7. Phases[id] = "Unused" /\ Phases' = [Phases EXCEPT ![id] = "Open"]
  <2>1. \A q \in RoundIds : q # id => Phases'[q] = Phases[q]
    BY <1>4 DEF Phases, Is
  <2>2. Phases'[id] = "Open" /\ Phases[id] = "Unused"
    BY <1>1, <1>2, <1>3, <1>4 DEF Phases, Is
  <2> QED BY <1>1, <2>1, <2>2 DEF Phases
<1>8. VaultHeld' \in Int
  BY <1>5, MappedTypes
<1>9. Prize!Open(id)
  <2>1. Pots'[id] \in 0..Rollover /\ Rollover' = Rollover - Pots'[id]
    BY <1>2, <1>5, <1>6
  <2>2. Pots' = [Pots EXCEPT ![id] = Pots'[id]]
    BY <1>6, Zenon
  <2> QED BY <1>5, <1>7, <2>1, <2>2 DEF Prize!Open
<1> QED BY <1>1, <1>8, <1>9 DEF MappedNext, Prize!PoolNext, Prize!Rounds, RoundIds

\* A deposit: a stake.
LEMMA DepositMapped ==
    ASSUME SequentialInv, SequentialInv', NEW r \in RoundIds, NEW p \in Players,
           NEW a \in Amounts, Deposit(r, p, a)
    PROVE  MappedNext
<1> DEFINE total == rounds[r].total_deposits + a
<1>1. /\ Is(r, "Active") /\ vault > 0 /\ vault' = vault + a
      /\ rounds' = [rounds EXCEPT ![r].total_deposits = total]
      /\ UNCHANGED <<game, untracked>>
  BY DEF Deposit, RoundActive, VaultLoads
<1>2. /\ rounds \in [RoundIds -> RoundType] /\ \A q \in RoundIds : rounds[q] \in RoundType
      /\ a \in Nat /\ rounds[r].total_deposits \in Nat /\ rounds[r].rollover_in \in Nat
      /\ vault \in Nat /\ untracked \in Nat /\ VAULT_RENT \in Nat
      /\ game.layout # "None"
  BY <1>1, RoundFields, V1Assumption DEF SequentialInv, TypeOK, Undeployed
<1> HIDE DEF total
<1>3. /\ rounds'[r].total_deposits = total
      /\ \A q \in RoundIds : /\ rounds'[q].status = rounds[q].status
                             /\ rounds'[q].rollover_in = rounds[q].rollover_in
                             /\ q # r => rounds'[q] = rounds[q]
  BY <1>1, <1>2 DEF RoundType
<1>4. Rollover' = Rollover /\ Phases' = Phases
  BY <1>1, <1>3 DEF Rollover, NoActiveRound, Phases, Is
<1>5. VaultHeld' - VaultHeld = a /\ VaultHeld' \in Int
  BY <1>1, <1>2 DEF VaultHeld
<1>6. Pots' = [Pots EXCEPT ![r] = @ + a]
  <2>1. \A q \in RoundIds : q # r => Pots'[q] = Pots[q]
    BY <1>3 DEF Pots, Is, Pool
  <2>2. Pots'[r] = Pots[r] + a
    BY <1>1, <1>2, <1>3 DEF Pots, Is, Pool, total
  <2> QED BY <2>1, <2>2 DEF Pots
<1>7. Phases[r] = "Open"
  BY <1>1 DEF Phases, Is
<1>8. Prize!Stake(r)
  BY <1>2, <1>4, <1>5, <1>6, <1>7 DEF Prize!Stake
<1> QED BY <1>5, <1>8 DEF MappedNext, Prize!PoolNext, Prize!Rounds, RoundIds

\* The Active round is resolved: its pot is paid in part, the rest is the new
\* rollover, and there was no other.
LEMMA ResolveMapped ==
    ASSUME SequentialInv, SequentialInv', NEW r \in RoundIds, Is(r, "Active"), GameLoads,
           NEW status \in {"Settled", "Expired"}, NEW outgoing \in Nat,
           NEW rollover \in Nat, rollover = Pool(r) - outgoing,
           vault' = vault - outgoing, untracked' = untracked,
           rounds' = [rounds EXCEPT ![r].status = status],
           game' = [game EXCEPT !.rollover_balance = rollover]
    PROVE  MappedNext
<1>1. /\ rounds \in [RoundIds -> RoundType] /\ \A q \in RoundIds : rounds[q] \in RoundType
      /\ vault \in Nat /\ untracked \in Nat /\ VAULT_RENT \in Nat /\ Pool(r) \in Nat
      /\ game \in GameType
  BY RoundFields, V1Assumption DEF SequentialInv, TypeOK
<1>2. /\ rounds'[r].status = status
      /\ \A q \in RoundIds : q # r => rounds'[q] = rounds[q] /\ ~ Is(q, "Active")
      /\ game'.rollover_balance = rollover /\ game'.layout = "New" /\ game.layout = "New"
  BY <1>1 DEF RoundType, GameType, GameLoads, SequentialInv, OneActive
<1>3. \A q \in RoundIds : ~ Is(q, "Active")'
  BY <1>2 DEF Is
<1>4. Rollover = 0 /\ Rollover' = rollover
  BY <1>2, <1>3 DEF Rollover, NoActiveRound
<1>5. VaultHeld - VaultHeld' = outgoing /\ VaultHeld' \in Int
  BY <1>1, <1>2 DEF VaultHeld
<1>6. Pots[r] = Pool(r) /\ Pots' = [Pots EXCEPT ![r] = 0] /\ Pots'[r] = 0
  BY <1>2, <1>3 DEF Pots
<1>7. Phases[r] = "Open" /\ Phases' = [Phases EXCEPT ![r] = "Resolved"]
  <2>1. \A q \in RoundIds : q # r => Phases'[q] = Phases[q]
    BY <1>2 DEF Phases, Is
  <2>2. Phases'[r] = "Resolved" /\ Phases[r] = "Open"
    BY <1>2 DEF Phases, Is
  <2> QED BY <2>1, <2>2 DEF Phases
<1>8. Prize!Resolve(r)
  <2>1. Pots[r] - (VaultHeld - VaultHeld') - Pots'[r] = rollover
    BY <1>1, <1>5, <1>6
  <2>2. Rollover' = Rollover + (Pots[r] - (VaultHeld - VaultHeld') - Pots'[r])
    BY <1>4, <2>1
  <2>3. Pots' = [Pots EXCEPT ![r] = Pots'[r]]
    <3>1. Pots'[r] = 0 /\ Pots' = [Pots EXCEPT ![r] = 0]
      BY <1>6
    <3> QED BY <3>1, Zenon
  <2>4. Pots'[r] \in Nat
    BY <1>6
  <2> QED BY <1>5, <1>7, <2>1, <2>2, <2>3, <2>4 DEF Prize!Resolve
<1> QED BY <1>5, <1>8 DEF MappedNext, Prize!PoolNext, Prize!Rounds, RoundIds

\* Every step of the program is a step of the pool or none.
LEMMA NextMapped ==
    ASSUME SequentialInv, [SequentialNext]_vars
    PROVE  MappedNext
<1>1. SequentialInv'
  BY NextSequentialInv
<1>2. /\ game \in GameType /\ vault \in Nat /\ untracked \in Nat /\ VAULT_RENT \in Nat
      /\ rounds \in [RoundIds -> RoundType] /\ TypeOK /\ Undeployed
  BY V1Assumption DEF SequentialInv, TypeOK
<1>3. ASSUME rounds' = rounds, game' = game, vault' = vault, untracked' = untracked
      PROVE  MappedNext
  BY <1>3, StutterMapped DEF VaultHeld, Rollover, NoActiveRound, Pots, Phases, Is, Pool
<1>4. ASSUME Initialize PROVE MappedNext
  <2>1. /\ game.layout = "None" /\ untracked = 0 /\ game.rollover_balance = 0
        /\ game'.layout = "New" /\ game'.rollover_balance = 0
        /\ vault' = VAULT_RENT /\ untracked' = untracked /\ rounds' = rounds
    BY <1>2, <1>4 DEF Initialize, Undeployed
  <2>2. VaultHeld' = VaultHeld
    BY <1>2, <2>1 DEF VaultHeld
  <2> QED BY <2>1, <2>2, StutterMapped DEF Rollover, NoActiveRound, Pots, Phases, Is, Pool
<1>5. ASSUME NEW c \in Commits, NEW ends_at \in EndTimes, CreateInTurn(c, ends_at)
      PROVE  MappedNext
  BY <1>1, <1>5, CreateMapped
<1>6. ASSUME NEW r \in RoundIds, NEW p \in Players, NEW a \in Amounts, Deposit(r, p, a)
      PROVE  MappedNext
  BY <1>1, <1>6, DepositMapped
<1>7. ASSUME NEW r \in RoundIds, NEW reveal \in Reveals, NEW evidence \in 0..EvidenceCap(r),
             Settle(r, reveal[1], reveal[2], evidence)
      PROVE  MappedNext
  <2> DEFINE outgoing == WinnerAmount(r) + evidence + TreasuryAmount(r)
             rollover == SettleRollover(r, evidence)
  <2>1. /\ Is(r, "Active") /\ GameLoads
        /\ vault' = vault - outgoing /\ untracked' = untracked
        /\ rounds' = [rounds EXCEPT ![r].status = "Settled"]
        /\ game' = [game EXCEPT !.rollover_balance = rollover]
    BY <1>7 DEF Settle, RoundActive
  <2>2. outgoing \in Nat /\ rollover \in Nat /\ rollover = Pool(r) - outgoing
    BY <1>2, SettleSplit
  <2> HIDE DEF outgoing, rollover
  <2> QED BY <1>1, <2>1, <2>2, ResolveMapped
<1>8. ASSUME NEW r \in RoundIds, PayExpired(r) PROVE MappedNext
  <2> DEFINE outgoing == ExpireOutgoing(r)
             rollover == ExpireRollover(r)
  <2>1. /\ Is(r, "Active") /\ GameLoads
        /\ vault' = vault - outgoing /\ untracked' = untracked
        /\ rounds' = [rounds EXCEPT ![r].status = "Expired"]
        /\ game' = [game EXCEPT !.rollover_balance = rollover]
    BY <1>8 DEF PayExpired, RoundActive
  <2>2. outgoing \in Nat /\ rollover \in Nat /\ rollover = Pool(r) - outgoing
    BY <1>2, ExpireSplit, RoundFields
  <2> HIDE DEF outgoing, rollover
  <2> QED BY <1>1, <2>1, <2>2, ResolveMapped
<1>9. ASSUME NEW r \in RoundIds, CloseRound(r) PROVE MappedNext
  <2> DEFINE new == [NoRound EXCEPT !.status = "Closed"]
  <2>1. /\ rounds' = [rounds EXCEPT ![r] = new] /\ UNCHANGED <<game, vault, untracked>>
        /\ rounds[r].status \in {"Settled", "Expired"} /\ new.status = "Closed"
    BY <1>9 DEF CloseRound, Closable, Is, NoRound
  <2> HIDE DEF new
  <2>2. /\ \A q \in RoundIds : q # r => rounds'[q] = rounds[q]
        /\ rounds'[r].status = "Closed"
    BY <1>2, <2>1
  <2>3. \A q \in RoundIds : Is(q, "Active")' <=> Is(q, "Active")
    BY <2>1, <2>2 DEF Is
  <2>4. VaultHeld' = VaultHeld /\ Rollover' = Rollover
    BY <2>1, <2>3 DEF VaultHeld, Rollover, NoActiveRound
  <2>5. Pots' = Pots
    BY <2>1, <2>2, <2>3 DEF Pots, Pool, Is
  <2>6. Phases' = Phases
    BY <2>1, <2>2 DEF Phases, Is
  <2> QED BY <2>4, <2>5, <2>6, StutterMapped
<1>10. ASSUME Migrate PROVE MappedNext
  <2>1. /\ game' = [game EXCEPT !.layout = "New", !.rollover_balance = 0]
        /\ game.layout = "Old" /\ game.rollover_balance = 0
        /\ UNCHANGED <<rounds, vault, untracked>>
    BY <1>2, <1>10 DEF Migrate, MigratedState, MigratedRollover, Undeployed
  <2>2. game'.layout = "New" /\ game'.rollover_balance = 0
    BY <1>2, <2>1 DEF GameType
  <2>3. VaultHeld' = VaultHeld /\ Rollover' = Rollover
    BY <2>1, <2>2 DEF VaultHeld, Rollover, NoActiveRound, Is
  <2> QED BY <2>1, <2>3, StutterMapped DEF Pots, Phases, Is, Pool
<1>11. ASSUME NEW a \in Gifts, Gift(a) PROVE MappedNext
  <2>1. /\ vault > 0 /\ vault' = vault + a /\ untracked' = untracked + a /\ a \in Nat
        /\ UNCHANGED <<game, rounds>> /\ game.layout # "None"
    BY <1>2, <1>11, V1Assumption DEF Gift, VaultLoads, Undeployed
  <2>2. VaultHeld' = VaultHeld
    BY <1>2, <2>1 DEF VaultHeld
  <2> QED BY <2>1, <2>2, StutterMapped DEF Rollover, NoActiveRound, Pots, Phases, Is, Pool
<1>12. ASSUME NEW r \in RoundIds, NEW p \in Players, CloseDeposit(r, p) PROVE MappedNext
  BY <1>3, <1>12 DEF CloseDeposit
<1>13. ASSUME Tick PROVE MappedNext
  BY <1>3, <1>13 DEF Tick
<1>14. ASSUME UNCHANGED vars PROVE MappedNext
  BY <1>3, <1>14 DEF vars
<1> QED BY <1>4, <1>5, <1>6, <1>7, <1>8, <1>9, <1>10, <1>11, <1>12, <1>13, <1>14
        DEF SequentialNext, Unrestricted, Expire, EmergencyExpire

\* When rounds are created one at a time the program implements PrizePool: each
\* round is paid from its own pot, and nothing leaves the vault otherwise
\* (create_round, deposit, settle, expire, emergency_expire, migrate).
THEOREM Implements == SequentialSpec => ImplementsPrizePool
<1>1. SequentialInv /\ [SequentialNext]_vars => SequentialInv'
  BY NextSequentialInv
<1>2. SequentialInv /\ [SequentialNext]_vars => [Prize!PoolNext]_(Prize!poolVars)
  BY NextMapped DEF MappedNext
<1>3. Init => Prize!PoolInit
  BY InitMapped DEF MappedInit
<1> QED BY <1>1, <1>2, <1>3, InitSequentialInv, PTL
        DEF SequentialSpec, ImplementsPrizePool, Prize!PoolSpec

-----------------------------------------------------------------------------
(* What the program inherits from the pool.                                *)

Facts == INSTANCE PrizePoolProofs
            WITH NumRounds <- MAX_ROUNDS,
                 held <- VaultHeld, reserve <- Rollover, pots <- Pots,
                 phase <- Phases

LEMMA SamePool ==
    /\ Prize!PoolInit <=> Facts!PoolInit
    /\ [Prize!PoolNext]_(Prize!poolVars) <=> [Facts!PoolNext]_(Facts!poolVars)
BY DEF Prize!PoolInit, Facts!PoolInit, Prize!PoolNext, Facts!PoolNext, Prize!poolVars,
       Facts!poolVars, Prize!Rounds, Facts!Rounds, Prize!Covered, Facts!Covered,
       Prize!SumTo, Facts!SumTo, Prize!SumFunctionOnSet,
       Facts!SumFunctionOnSet, Prize!FoldFunctionOnSet, Facts!FoldFunctionOnSet,
       Prize!MapThenFoldSet, Facts!MapThenFoldSet,
       Prize!Endow, Facts!Endow, Prize!Open, Facts!Open, Prize!Stake, Facts!Stake,
       Prize!Resolve, Facts!Resolve, Prize!Pay, Facts!Pay, Prize!Release, Facts!Release

\* Every lamport of the vault is accounted for, for any number of rounds and
\* players (settle, expire, emergency_expire, migrate).
THEOREM Conserved == SequentialSpec => []Conservation
<1>1. MAX_ROUNDS \in Nat
  BY V1Assumption
<1>2. Init => Facts!PoolInv
  BY <1>1, MaxU64Assumption, InitMapped, SamePool, Facts!PoolStart DEF MappedInit
<1>3. SequentialInv /\ Facts!PoolInv /\ [SequentialNext]_vars => Facts!PoolInv'
  BY <1>1, MaxU64Assumption, NextMapped, SamePool, Facts!PoolStep DEF MappedNext
<1>4. SequentialInv /\ Facts!PoolInv => Conservation
  <2>1. ASSUME Facts!PoolInv PROVE VaultHeld = Rollover + SumTo(Pots, MAX_ROUNDS)
    BY <2>1 DEF Facts!PoolInv, Facts!Covered, Facts!SumTo, SumTo,
                Facts!SumFunctionOnSet, SumFunctionOnSet, Facts!FoldFunctionOnSet,
                FoldFunctionOnSet, Facts!MapThenFoldSet, MapThenFoldSet
  <2>2. ASSUME SequentialInv
        PROVE  /\ Rollover \in Nat /\ vault \in Nat /\ untracked \in Nat
               /\ VAULT_RENT \in Nat /\ SumTo(Pots, MAX_ROUNDS) \in Nat
    <3>1. SumTo(Pots, MAX_ROUNDS) \in Nat
      BY <1>1, <2>2, MappedTypes, SumToNat DEF RoundIds
    <3> QED BY <2>2, <3>1, MappedTypes, V1Assumption DEF SequentialInv, TypeOK
  <2> QED BY <2>1, <2>2 DEF Conservation, VaultHeld
<1>5. SequentialInv /\ [SequentialNext]_vars => SequentialInv'
  BY NextSequentialInv
<1> QED BY <1>2, <1>3, <1>4, <1>5, InitSequentialInv, PTL DEF SequentialSpec

-----------------------------------------------------------------------------
(* The emergency exit.                                                     *)

\* What emergency_expire asks besides an Active round past its deadline, of a
\* round whose deposits its own multiplication can split.
ExitOpen ==
    \A r \in RoundIds :
        Is(r, "Active") /\ GameLoads /\ Fits(vault)
          /\ BpsFits(rounds[r].total_deposits, 4750)
        => /\ Fits(ExpireRollover(r)) /\ Fits(Pool(r))
           /\ VaultCanPay(ExpireOutgoing(r))

LEMMA ExitCovered == SequentialInv /\ Conservation => ExitOpen
<1> SUFFICES ASSUME SequentialInv, Conservation, NEW r \in RoundIds,
                    Is(r, "Active"), GameLoads, Fits(vault)
             PROVE  /\ Fits(ExpireRollover(r)) /\ Fits(Pool(r))
                    /\ VaultCanPay(ExpireOutgoing(r))
  BY DEF ExitOpen
<1>1. TypeOK
  BY DEF SequentialInv
<1>2. /\ vault \in Nat /\ untracked \in Nat /\ VAULT_RENT \in Nat \ {0}
      /\ MAX_U64 \in Nat /\ vault <= MAX_U64
      /\ rounds[r].total_deposits \in Nat /\ rounds[r].rollover_in \in Nat
      /\ Pool(r) = rounds[r].total_deposits + rounds[r].rollover_in
  BY <1>1, RoundFields, V1Assumption, MaxU64Assumption DEF TypeOK, Fits, Pool
<1>3. Rollover \in Nat /\ \A i \in 1..MAX_ROUNDS : Pots[i] \in Nat
  BY MappedTypes DEF RoundIds
<1>4. /\ SumTo(Pots, MAX_ROUNDS) \in Nat /\ Pool(r) <= SumTo(Pots, MAX_ROUNDS)
  <2>1. Pots[r] = Pool(r)
    BY DEF Pots
  <2>2. Pots[r] <= SumTo(Pots, MAX_ROUNDS) /\ SumTo(Pots, MAX_ROUNDS) \in Nat
    BY <1>3, SumToTerm, SumToNat, V1Assumption DEF RoundIds
  <2> QED BY <2>1, <2>2
<1>5. vault = VAULT_RENT + untracked + Rollover + SumTo(Pots, MAX_ROUNDS)
  BY DEF Conservation, GameLoads
<1>6. /\ ExpireOutgoing(r) \in 0..rounds[r].total_deposits
      /\ ExpireRollover(r) = Pool(r) - ExpireOutgoing(r)
  BY <1>1, ExpireSplit
<1>7. Pool(r) + VAULT_RENT <= vault
  BY <1>2, <1>3, <1>4, <1>5
<1>8. ExpireRollover(r) <= MAX_U64 /\ Pool(r) <= MAX_U64
  BY <1>2, <1>6, <1>7
<1>9. /\ vault > 0 /\ ExpireOutgoing(r) <= vault
      /\ vault - ExpireOutgoing(r) >= VAULT_RENT
  BY <1>2, <1>6, <1>7
<1> QED BY <1>8, <1>9 DEF Fits, VaultCanPay, VaultLoads, RuntimeAccepts

\* With rounds one at a time the vault, which nobody asks what it holds, can pay
\* the expiry of every Active round, a migrated one included: only a deadline
\* or a multiplication that overflows has emergency_expire refused.
THEOREM ExitIsOpen == SequentialSpec => []ExitOpen
<1>1. SequentialInv /\ [SequentialNext]_vars => SequentialInv'
  BY NextSequentialInv
<1>2. SequentialSpec => []SequentialInv
  BY <1>1, InitSequentialInv, PTL DEF SequentialSpec
<1> QED BY <1>2, ExitCovered, Conserved, PTL
=============================================================================
