-------------------------- MODULE AlonsBoxV2Proofs --------------------------
(***************************************************************************)
(* Theorems about AlonsBoxV2, for any number of rounds and players, any    *)
(* amounts, durations, fees and any u64 bound.                             *)
(***************************************************************************)
EXTENDS AlonsBoxV2, LamportsProofs

-----------------------------------------------------------------------------
(* Types.                                                                  *)

\* Every restriction of the authority is a restriction of the program.
LEMMA SequentialIsNext == SequentialNext => Next
BY DEF SequentialNext, Next, CreateInTurn

\* So is the documented cleanup order.
LEMMA OperatedIsNext == OperatedNext => Next
BY DEF OperatedNext, Next, CreateInTurn, SweepLast, CloseRoundLast

\* The split of a pool never takes more than the pool.
LEMMA SettleSplitType ==
    ASSUME TypeOK, NEW r \in RoundIds
    PROVE  /\ Pool(r) \in Nat /\ WinnerAmount(r) \in Nat
           /\ TreasuryAmount(r) \in Nat /\ FinalYesPool(r) \in Nat
           /\ FinalRollover(r) \in Nat /\ DonationsDuring(r) \in Nat
<1>1. rounds[r] \in RoundType /\ game \in GameType
  BY DEF TypeOK
<1>2. Pool(r) \in Nat
  BY <1>1 DEF Pool, RoundType
<1>3. DonationsDuring(r) \in Nat
  BY <1>1 DEF DonationsDuring, SaturatingSub, RoundType, GameType
<1> DEFINE pool == Pool(r)
<1>4. /\ WinnerAmount(r) = (pool * 5000) \div 10000
      /\ YesPoolAmount(r) = (pool * 1500) \div 10000
      /\ TreasuryAmount(r) = (pool * 500) \div 10000
  BY DEF WinnerAmount, YesPoolAmount, TreasuryAmount, BpsCut, BPS_TOTAL,
         BPS_WINNER, BPS_YES_POOL, BPS_TREASURY
<1> HIDE DEF pool
<1>5. pool \in Nat
  BY <1>2 DEF pool
<1>6. /\ WinnerAmount(r) \in Nat /\ YesPoolAmount(r) \in Nat
      /\ TreasuryAmount(r) \in Nat
      /\ WinnerAmount(r) + YesPoolAmount(r) + TreasuryAmount(r) <= pool
  BY <1>4, <1>5, SMT
<1>7. FinalYesPool(r) \in {0, YesPoolAmount(r)}
  BY DEF FinalYesPool
<1>8. FinalRollover(r) = pool - WinnerAmount(r) - TreasuryAmount(r) - FinalYesPool(r)
  BY DEF FinalRollover, pool
<1> QED BY <1>2, <1>3, <1>5, <1>6, <1>7, <1>8

\* The split of an expired round never takes more than its deposits.
LEMMA ExpireSplitType ==
    ASSUME TypeOK, NEW r \in RoundIds
    PROVE  /\ ExpireOutgoing(r) \in Nat
           /\ ExpireOutgoing(r) <= rounds[r].total_deposits
           /\ ExpireRollover(r) \in Nat /\ DonationsDuring(r) \in Nat
<1>1. rounds[r] \in RoundType
  BY DEF TypeOK
<1> DEFINE deposits == rounds[r].total_deposits
<1>2. ExpireOutgoing(r) = (deposits * 4750) \div 10000 + (deposits * 500) \div 10000
  BY DEF ExpireOutgoing, BuybackAmount, ExpireTreasury, BpsCut, BPS_TOTAL,
         BPS_EXPIRE_BUYBACK, BPS_EXPIRE_TREASURY
<1>3. deposits \in Nat /\ rounds[r].rollover_in \in Nat
  BY <1>1 DEF RoundType
<1>4. ExpireRollover(r) = rounds[r].rollover_in + deposits - ExpireOutgoing(r)
  BY DEF ExpireRollover
<1> HIDE DEF deposits
<1>5. ExpireOutgoing(r) \in Nat /\ ExpireOutgoing(r) <= deposits
  BY <1>2, <1>3, SMT
<1>6. ExpireRollover(r) \in Nat
  BY <1>3, <1>4, <1>5
<1> QED BY <1>5, <1>6, SettleSplitType DEF deposits

\* A payable share is a natural number.
LEMMA ShareType ==
    ASSUME TypeOK, NEW r \in RoundIds, NEW w \in Players, Payable(r, w)
    PROVE  Share(r, w) \in Nat \ {0}
<1>1. rounds[r] \in RoundType /\ evidence[r][w].yes_count \in Nat
  BY DEF TypeOK
<1> DEFINE pool == rounds[r].evidence_pool
           yes == evidence[r][w].yes_count
           a == pool * yes
           b == rounds[r].total_yes_answers
<1>2. a \in Nat
  <2>1. pool \in Nat /\ yes \in Nat
    BY <1>1 DEF RoundType
  <2> HIDE DEF pool, yes
  <2> QED BY <2>1, SMT
<1>3. b \in Nat \ {0}
  BY <1>1 DEF RoundType, Payable
<1>4. Share(r, w) = a \div b
  BY DEF Share
<1> HIDE DEF a, b
<1>5. a \div b \in Nat
  BY <1>2, <1>3, DivNat
<1> QED BY <1>4, <1>5 DEF Payable

\* The state before initialize has every type.
LEMMA InitTypeOK == Init => TypeOK
BY V2Assumption DEF Init, TypeOK, GameType, RoundType, NoRound, NoEvidence, Statuses

\* Writing one round account, or the rollover, with a value of the right type.
LEMMA WriteRoundType ==
    ASSUME TypeOK, NEW r \in RoundIds, NEW new \in RoundType,
           rounds' = [rounds EXCEPT ![r] = new]
    PROVE  rounds' \in [RoundIds -> RoundType]
BY DEF TypeOK

\* Writing the rollover, as donate, the payouts and the sweep do.
LEMMA WriteRolloverType ==
    ASSUME TypeOK, NEW rollover \in Nat,
           game' = [game EXCEPT !.rollover_balance = rollover]
    PROVE  game' \in GameType
BY DEF TypeOK, GameType

\* Writing one evidence account, as record and claim do.
LEMMA WriteEvidenceType ==
    ASSUME TypeOK, NEW r \in RoundIds, NEW w \in Players,
           NEW new \in [yes_count : Nat, claimed : BOOLEAN],
           evidence' = [evidence EXCEPT ![r] = [evidence[r] EXCEPT ![w] = new]]
    PROVE  evidence' \in [RoundIds -> [Players -> [yes_count : Nat, claimed : BOOLEAN]]]
BY DEF TypeOK

\* The numbers of a round account.
LEMMA RoundFields ==
    ASSUME TypeOK, NEW r \in RoundIds
    PROVE  /\ rounds[r] \in RoundType
           /\ rounds[r].total_entries \in Nat /\ rounds[r].total_deposits \in Nat
           /\ rounds[r].rollover_in \in Nat
           /\ rounds[r].evidence_count \in Nat
           /\ rounds[r].total_yes_answers \in Nat
           /\ rounds[r].evidence_pool \in Nat /\ rounds[r].evidence_claimed \in Nat
           /\ game.rollover_balance \in Nat /\ game.current_round_id \in Nat
           /\ \A w \in Players : evidence[r][w].yes_count \in Nat
BY DEF TypeOK, RoundType, GameType

\* Types survive every step of the program.
LEMMA NextTypeOK ==
    ASSUME TypeOK, [Next]_vars
    PROVE  TypeOK'
<1> USE V2Assumption
<1>1. /\ clock \in Nat /\ game \in GameType
      /\ rounds \in [RoundIds -> RoundType]
      /\ \A r \in RoundIds : rounds[r] \in RoundType
      /\ entries \in [RoundIds -> [Players -> Nat]]
      /\ evidence \in [RoundIds -> [Players -> [yes_count : Nat, claimed : BOOLEAN]]]
      /\ vault \in Nat
      /\ received \in [RoundIds -> [Players -> Nat]]
      /\ gifts \in Nat
  BY DEF TypeOK
<1>2. ASSUME NEW c \in Configs, Initialize(c) PROVE TypeOK'
  BY <1>1, <1>2 DEF Initialize, TypeOK, GameType
<1>3. ASSUME NEW c \in Commits, CreateRound(c) PROVE TypeOK'
  <2> DEFINE id == game.current_round_id + 1
             ends == clock + game.round_duration_secs
             cutoff == ends - game.entry_cutoff_secs
             new == [NoRound EXCEPT !.status = "Active", !.commit_hash = c,
                        !.started_at = clock, !.ends_at = ends,
                        !.entry_cutoff = cutoff,
                        !.rollover_in = game.rollover_balance]
  <2>1. id \in RoundIds /\ id \in Nat /\ ends \in Int /\ cutoff \in Int
        /\ game.rollover_balance \in Nat
    BY <1>1, <1>3 DEF CreateRound, GameType
  <2>2. rounds' = [rounds EXCEPT ![id] = new]
    BY <1>3 DEF CreateRound, RolloverSnapshot
  <2>3. game' = [game EXCEPT !.current_round_id = id]
    BY <1>3 DEF CreateRound
  <2> HIDE DEF id, ends, cutoff
  <2>4. new \in RoundType
    BY <1>1, <2>1 DEF RoundType, NoRound, Statuses
  <2> HIDE DEF new
  <2>5. rounds' \in [RoundIds -> RoundType]
    BY <2>1, <2>2, <2>4, WriteRoundType
  <2>6. game' \in GameType
    BY <1>1, <2>1, <2>3 DEF GameType
  <2> QED BY <1>1, <1>3, <2>5, <2>6 DEF CreateRound, TypeOK
<1>4. ASSUME NEW r \in RoundIds, NEW p \in Players, NEW a \in EntryAmounts,
             Enter(r, p, a)
      PROVE  TypeOK'
  <2> DEFINE count == rounds[r].total_entries + 1
             deposits == rounds[r].total_deposits + a
             new == [rounds[r] EXCEPT !.total_entries = count,
                                      !.total_deposits = deposits]
  <2>1. a \in Nat /\ count \in Nat /\ deposits \in Nat
    BY RoundFields
  <2>3. rounds' = [rounds EXCEPT ![r] = new]
    BY <1>4 DEF Enter
  <2> HIDE DEF count, deposits
  <2>2. new \in RoundType
    BY <1>1, <2>1 DEF RoundType
  <2> HIDE DEF new
  <2>4. rounds' \in [RoundIds -> RoundType]
    BY <2>2, <2>3, WriteRoundType
  <2> QED BY <1>1, <1>4, <2>1, <2>4 DEF Enter, TypeOK
<1>5. ASSUME NEW a \in Donations, Donate(a) PROVE TypeOK'
  <2> DEFINE rollover == game.rollover_balance + a
  <2>1. a \in Nat /\ rollover \in Nat
    BY <1>1 DEF GameType
  <2>2. game' = [game EXCEPT !.rollover_balance = rollover]
    BY <1>5 DEF Donate
  <2> HIDE DEF rollover
  <2>3. game' \in GameType
    BY <2>1, <2>2, WriteRolloverType
  <2> QED BY <1>1, <1>5, <2>1, <2>3 DEF Donate, TypeOK
<1>6. ASSUME NEW r \in RoundIds, NEW w \in Players, RecordEvidence(r, w)
      PROVE  TypeOK'
  <2> DEFINE yes == evidence[r][w].yes_count + 1
             count == IF evidence[r][w].yes_count = 0
                      THEN rounds[r].evidence_count + 1 ELSE rounds[r].evidence_count
             total == rounds[r].total_yes_answers + 1
             new == [rounds[r] EXCEPT !.evidence_count = count,
                                      !.total_yes_answers = total]
  <2>0. yes \in Nat /\ count \in Nat /\ total \in Nat
    BY RoundFields
  <2>2. rounds' = [rounds EXCEPT ![r] = new]
    BY <1>6 DEF RecordEvidence
  <2>5. evidence' = [evidence EXCEPT ![r] =
                        [evidence[r] EXCEPT ![w] =
                            [evidence[r][w] EXCEPT !.yes_count = yes]]]
    BY <1>6 DEF RecordEvidence
  <2> HIDE DEF yes, count, total
  <2>1. new \in RoundType
    BY <1>1, <2>0 DEF RoundType
  <2> HIDE DEF new
  <2>3. rounds' \in [RoundIds -> RoundType]
    BY <2>1, <2>2, WriteRoundType
  <2>4. evidence' \in [RoundIds -> [Players -> [yes_count : Nat, claimed : BOOLEAN]]]
    <3> DEFINE account == [evidence[r][w] EXCEPT !.yes_count = yes]
    <3>1. account \in [yes_count : Nat, claimed : BOOLEAN]
      <4>1. evidence[r][w] \in [yes_count : Nat, claimed : BOOLEAN]
        BY <1>1
      <4> QED BY <2>0, <4>1
    <3> HIDE DEF account
    <3> QED BY <2>5, <3>1, WriteEvidenceType DEF account
  <2> QED BY <1>1, <1>6, <2>3, <2>4 DEF RecordEvidence, TypeOK
<1>7. ASSUME NEW r \in RoundIds, NEW reveal \in Reveals,
             Settle(r, reveal[1], reveal[2])
      PROVE  TypeOK'
  <2> DEFINE pool == FinalYesPool(r)
             rollover == FinalRollover(r) + DonationsDuring(r)
             new == [rounds[r] EXCEPT !.status = "Settled",
                        !.revealed_answer = reveal[1],
                        !.revealed_salt = reveal[2], !.evidence_pool = pool]
  <2>1. rollover \in Nat /\ pool \in Nat
    BY SettleSplitType
  <2>2. rounds' = [rounds EXCEPT ![r] = new]
    BY <1>1, <1>7 DEF Settle
  <2>3. game' = [game EXCEPT !.rollover_balance = rollover]
    BY <1>7 DEF Settle
  <2> HIDE DEF pool, rollover
  <2>4. new \in RoundType
    BY <1>1, <2>1 DEF RoundType, Statuses
  <2> HIDE DEF new
  <2>5. rounds' \in [RoundIds -> RoundType] /\ game' \in GameType
    BY <2>1, <2>2, <2>3, <2>4, WriteRoundType, WriteRolloverType
  <2>6. vault' \in Nat
    BY <1>1, <1>7, SettleSplitType DEF Settle, RuntimeAccepts
  <2> QED BY <1>1, <1>7, <2>5, <2>6 DEF Settle, TypeOK
<1>8. ASSUME NEW r \in RoundIds, PayExpired(r)
      PROVE  vault' \in Nat /\ game' \in GameType
  <2> DEFINE rollover == ExpireRollover(r) + DonationsDuring(r)
  <2>1. rollover \in Nat
    BY ExpireSplitType
  <2>2. game' = [game EXCEPT !.rollover_balance = rollover]
    BY <1>8 DEF PayExpired
  <2> HIDE DEF rollover
  <2>3. game' \in GameType
    BY <2>1, <2>2, WriteRolloverType
  <2>4. vault' \in Nat
    BY <1>1, <1>8, ExpireSplitType DEF PayExpired, ExpirePayoutOk, RuntimeAccepts
  <2> QED BY <2>3, <2>4
<1>9. ASSUME NEW r \in RoundIds, NEW reveal \in Reveals,
             Expire(r, reveal[1], reveal[2])
      PROVE  TypeOK'
  <2> DEFINE new == [rounds[r] EXCEPT !.status = "Expired",
                        !.revealed_answer = reveal[1], !.revealed_salt = reveal[2]]
  <2>1. new \in RoundType
    BY <1>1 DEF RoundType, Statuses
  <2>2. rounds' = [rounds EXCEPT ![r] = new]
    BY <1>1, <1>9 DEF Expire
  <2> HIDE DEF new
  <2>3. rounds' \in [RoundIds -> RoundType]
    BY <2>1, <2>2, WriteRoundType
  <2> QED BY <1>1, <1>8, <1>9, <2>3 DEF Expire, TypeOK
<1>10. ASSUME NEW r \in RoundIds, ForceExpire(r) PROVE TypeOK'
  <2> DEFINE new == [rounds[r] EXCEPT !.status = "Expired"]
  <2>1. new \in RoundType
    BY <1>1 DEF RoundType, Statuses
  <2>2. rounds' = [rounds EXCEPT ![r] = new]
    BY <1>1, <1>10 DEF ForceExpire
  <2> HIDE DEF new
  <2>3. rounds' \in [RoundIds -> RoundType]
    BY <2>1, <2>2, WriteRoundType
  <2> QED BY <1>1, <1>8, <1>10, <2>3 DEF ForceExpire, TypeOK
<1>11. ASSUME NEW r \in RoundIds, NEW w \in Players, ClaimEvidence(r, w)
       PROVE  TypeOK'
  <2> DEFINE share == Share(r, w)
             claimed == rounds[r].evidence_claimed + share
             new == [rounds[r] EXCEPT !.evidence_claimed = claimed]
  <2>1. share \in Nat /\ claimed \in Nat
    BY <1>11, ShareType, RoundFields DEF ClaimEvidence
  <2>2. rounds' = [rounds EXCEPT ![r] = new]
    BY <1>11 DEF ClaimEvidence
  <2>3. received' = [received EXCEPT ![r][w] = @ + share]
    BY <1>11 DEF ClaimEvidence
  <2>4. vault' \in Nat
    BY <1>1, <1>11, <2>1 DEF ClaimEvidence, RuntimeAccepts
  <2> HIDE DEF share, claimed
  <2>5. new \in RoundType
    BY <1>1, <2>1 DEF RoundType
  <2> HIDE DEF new
  <2>6. rounds' \in [RoundIds -> RoundType]
    BY <2>2, <2>5, WriteRoundType
  <2>7. received' \in [RoundIds -> [Players -> Nat]]
    BY <1>1, <2>1, <2>3
  <2>8. evidence' \in [RoundIds -> [Players -> [yes_count : Nat, claimed : BOOLEAN]]]
    <3> DEFINE account == [evidence[r][w] EXCEPT !.claimed = TRUE]
    <3>1. evidence' = [evidence EXCEPT ![r] = [evidence[r] EXCEPT ![w] = account]]
      BY <1>11 DEF ClaimEvidence
    <3>2. account \in [yes_count : Nat, claimed : BOOLEAN]
      <4>1. evidence[r][w] \in [yes_count : Nat, claimed : BOOLEAN]
        BY <1>1
      <4> QED BY <4>1
    <3> HIDE DEF account
    <3> QED BY <3>1, <3>2, WriteEvidenceType
  <2> QED BY <1>1, <1>11, <2>4, <2>6, <2>7, <2>8 DEF ClaimEvidence, TypeOK
<1>12. ASSUME NEW r \in RoundIds, SweepEvidence(r) PROVE TypeOK'
  <2> DEFINE unclaimed == rounds[r].evidence_pool - rounds[r].evidence_claimed
             rollover == game.rollover_balance + unclaimed
             new == [rounds[r] EXCEPT !.evidence_claimed = rounds[r].evidence_pool]
  <2>1. new \in RoundType
    BY <1>1 DEF RoundType
  <2>2. rounds' = [rounds EXCEPT ![r] = new]
    BY <1>1, <1>12 DEF SweepEvidence, Sweepable, Unclaimed
  <2>3. rollover \in Nat
    BY <1>12, RoundFields DEF SweepEvidence, Sweepable, Unclaimed
  <2>4. game' = [game EXCEPT !.rollover_balance = rollover]
    BY <1>1, <1>12 DEF SweepEvidence, Sweepable, Unclaimed
  <2> HIDE DEF new, rollover
  <2>5. rounds' \in [RoundIds -> RoundType] /\ game' \in GameType
    BY <2>1, <2>2, <2>3, <2>4, WriteRoundType, WriteRolloverType
  <2> QED BY <1>1, <1>12, <2>5 DEF SweepEvidence, Sweepable, Unclaimed, TypeOK
<1>13. ASSUME NEW r \in RoundIds, NEW w \in Players, CloseEvidence(r, w)
       PROVE  TypeOK'
  BY <1>1, <1>13 DEF CloseEvidence, TypeOK, NoEvidence
<1>14. ASSUME NEW r \in RoundIds, NEW p \in Players, CloseEntry(r, p)
       PROVE  TypeOK'
  BY <1>1, <1>14 DEF CloseEntry, TypeOK
<1>15. ASSUME NEW r \in RoundIds, CloseRound(r) PROVE TypeOK'
  <2> DEFINE new == [NoRound EXCEPT !.status = "Closed"]
  <2>1. new \in RoundType
    BY DEF RoundType, NoRound, Statuses
  <2>2. rounds' = [rounds EXCEPT ![r] = new]
    BY <1>15 DEF CloseRound
  <2> HIDE DEF new
  <2>3. rounds' \in [RoundIds -> RoundType]
    BY <2>1, <2>2, WriteRoundType
  <2> QED BY <1>1, <1>15, <2>3 DEF CloseRound, TypeOK
<1>16. ASSUME NEW a \in Gifts, Gift(a) PROVE TypeOK'
  BY <1>1, <1>16 DEF Gift, TypeOK
<1>17. ASSUME Tick PROVE TypeOK'
  BY <1>1, <1>17 DEF Tick, TypeOK
<1>18. ASSUME UNCHANGED vars PROVE TypeOK'
  BY <1>18 DEF vars, TypeOK
<1> QED BY <1>2, <1>3, <1>4, <1>5, <1>6, <1>7, <1>9, <1>10, <1>11, <1>12,
           <1>13, <1>14, <1>15, <1>16, <1>17, <1>18 DEF Next, Unrestricted

\* Every account field keeps its Rust type, whatever the authority does: no
\* subtraction of any handler takes a u64 below zero.
THEOREM TypeCorrect == Spec => []TypeOK
<1>1. TypeOK /\ [Next]_vars => TypeOK'
  BY NextTypeOK
<1> QED BY <1>1, InitTypeOK, PTL DEF Spec

-----------------------------------------------------------------------------
(* Conservation of lamports, when rounds are created one at a time.        *)

SequentialInv == TypeOK /\ Bookkeeping /\ SnapshotCovered /\ Conservation

\* What a round holds of the vault is an integer.
LEMMA HeldType ==
    ASSUME TypeOK
    PROVE  /\ \A r \in RoundIds : Held(r) \in Int
           /\ TotalHeld \in Int
<1>1. \A r \in RoundIds : Held(r) \in Int
  BY RoundFields DEF Held
<1> DEFINE f == [r \in RoundIds |-> Held(r)]
<1>2. MAX_ROUNDS \in Nat /\ \A i \in 1..MAX_ROUNDS : f[i] \in Int
  BY <1>1, V2Assumption DEF RoundIds
<1> HIDE DEF f
<1>3. SumTo(f, MAX_ROUNDS) \in Int
  BY <1>2, SumToType
<1> QED BY <1>1, <1>3 DEF TotalHeld, f

\* A step that writes at most one round account changes the total by what that
\* round held.
LEMMA HeldChange ==
    ASSUME TypeOK, TypeOK', NEW r \in RoundIds,
           \A q \in RoundIds : q # r => rounds'[q] = rounds[q]
    PROVE  TotalHeld' = TotalHeld + Held(r)' - Held(r)
<1> DEFINE f == [q \in RoundIds |-> Held(q)]
           g == [q \in RoundIds |-> Held(q)']
<1>1. /\ \A q \in RoundIds : Held(q) \in Int
      /\ \A q \in RoundIds : Held(q)' \in Int
  <2>1. \A q \in RoundIds : rounds'[q] \in RoundType
    BY DEF TypeOK
  <2>2. \A q \in RoundIds : /\ rounds'[q].total_deposits \in Int
                            /\ rounds'[q].evidence_pool \in Int
                            /\ rounds'[q].evidence_claimed \in Int
    BY <2>1 DEF RoundType
  <2> QED BY <2>2, HeldType DEF Held
<1>2. \A q \in RoundIds : q # r => Held(q)' = Held(q)
  BY DEF Held, Is
<1>3. /\ MAX_ROUNDS \in Nat /\ r \in 1..MAX_ROUNDS
      /\ \A i \in 1..MAX_ROUNDS : f[i] \in Int /\ g[i] \in Int
      /\ \A i \in 1..MAX_ROUNDS : i # r => g[i] = f[i]
      /\ f[r] = Held(r) /\ g[r] = Held(r)'
  BY <1>1, <1>2, V2Assumption DEF RoundIds
<1>4. TotalHeld = SumTo(f, MAX_ROUNDS) /\ TotalHeld' = SumTo(g, MAX_ROUNDS)
  BY DEF TotalHeld
<1> HIDE DEF f, g
<1>5. SumTo(g, MAX_ROUNDS) = SumTo(f, MAX_ROUNDS) + g[r] - f[r]
  BY <1>3, SumToChangeOne
<1> QED BY <1>3, <1>4, <1>5

\* A step that writes no round account does not change the total.
LEMMA HeldSame ==
    ASSUME rounds' = rounds
    PROVE  TotalHeld' = TotalHeld
<1>1. \A r \in RoundIds : Held(r)' = Held(r)
  BY DEF Held, Is
<1>2. [r \in RoundIds |-> Held(r)'] = [r \in RoundIds |-> Held(r)]
  BY <1>1
<1> QED BY <1>2 DEF TotalHeld

\* The books are in order before initialize: there is nothing in them.
LEMMA SequentialInit == Init => SequentialInv
<1> SUFFICES ASSUME Init PROVE SequentialInv
  OBVIOUS
<1>1. Bookkeeping
  BY DEF Init, Bookkeeping, NoRound, Is
<1>2. SnapshotCovered
  BY DEF Init, SnapshotCovered, NoRound, Is
<1>3. Conservation
  BY DEF Init, Conservation
<1> QED BY <1>1, <1>2, <1>3, InitTypeOK DEF SequentialInv

\* A step that writes neither the game state, nor a round, nor the vault.
LEMMA UnrelatedStep ==
    ASSUME SequentialInv, UNCHANGED <<game, rounds, vault, gifts>>
    PROVE  Bookkeeping' /\ SnapshotCovered' /\ Conservation'
<1>1. Bookkeeping' /\ SnapshotCovered'
  BY DEF SequentialInv, Bookkeeping, SnapshotCovered, Is
<1>2. TotalHeld' = TotalHeld
  BY HeldSame
<1>3. Conservation'
  BY <1>2 DEF SequentialInv, Conservation
<1> QED BY <1>1, <1>3

\* A step that writes one round, the rollover and the vault keeps the books if
\* the round stays within them and the vault moves by the rollover's change plus
\* the change of what the round holds.
LEMMA RoundStep ==
    ASSUME SequentialInv, TypeOK', NEW r \in RoundIds, game.initialized,
           \A q \in RoundIds : q # r => rounds'[q] = rounds[q],
           r <= game.current_round_id,
           game'.initialized, game'.current_round_id = game.current_round_id,
           ~Is(r, "Settled")' => rounds'[r].evidence_pool = 0,
           rounds'[r].evidence_pool = 0 => rounds'[r].evidence_claimed = 0,
           Is(r, "Active")' => /\ Is(r, "Active")
                               /\ rounds'[r].rollover_in = rounds[r].rollover_in,
           \/ NoActiveRound' \/ game'.rollover_balance >= game.rollover_balance,
           gifts' = gifts,
           vault' - vault = game'.rollover_balance - game.rollover_balance
                              + Held(r)' - Held(r)
    PROVE  Bookkeeping' /\ SnapshotCovered' /\ Conservation'
<1>1. TypeOK /\ Bookkeeping /\ SnapshotCovered /\ Conservation
  BY DEF SequentialInv
<1>2. Bookkeeping'
  <2>1. /\ \A q \in RoundIds : ~Is(q, "Settled")' => rounds'[q].evidence_pool = 0
        /\ \A q \in RoundIds :
              rounds'[q].evidence_pool = 0 => rounds'[q].evidence_claimed = 0
    BY <1>1 DEF Bookkeeping, Is
  <2>2. \A q \in RoundIds : q > game'.current_round_id => rounds'[q] = NoRound
    <3> SUFFICES ASSUME NEW q \in RoundIds, q > game.current_round_id
                 PROVE  rounds'[q] = NoRound
      OBVIOUS
    <3>1. q # r
      <4>1. q \in Int /\ r \in Int /\ game.current_round_id \in Int
        BY <1>1 DEF RoundIds, TypeOK, GameType
      <4> QED BY <4>1
    <3> QED BY <1>1, <3>1 DEF Bookkeeping
  <2>3. \A p, q \in RoundIds : Is(p, "Active")' /\ Is(q, "Active")' => p = q
    BY <1>1 DEF Bookkeeping, Is
  <2> QED BY <2>1, <2>2, <2>3 DEF Bookkeeping
<1>3. SnapshotCovered'
  <2> SUFFICES ASSUME NEW q \in RoundIds, Is(q, "Active")'
               PROVE  rounds'[q].rollover_in <= game'.rollover_balance
    BY DEF SnapshotCovered
  <2>1. Is(q, "Active") /\ rounds'[q].rollover_in = rounds[q].rollover_in
    BY DEF Is
  <2>2. rounds[q].rollover_in <= game.rollover_balance
    BY <1>1, <2>1 DEF SnapshotCovered
  <2>3. game'.rollover_balance >= game.rollover_balance
    BY DEF NoActiveRound
  <2>4. /\ rounds[q].rollover_in \in Int /\ game.rollover_balance \in Int
        /\ game'.rollover_balance \in Int
    BY <1>1, RoundFields DEF TypeOK, GameType
  <2> QED BY <2>1, <2>2, <2>3, <2>4
<1>4. Conservation'
  <2>1. TotalHeld' = TotalHeld + Held(r)' - Held(r)
    BY <1>1, HeldChange
  <2>2. vault = VAULT_RENT + gifts + game.rollover_balance + TotalHeld
    BY <1>1 DEF Conservation
  <2>3. /\ TotalHeld \in Int /\ Held(r) \in Int /\ Held(r)' \in Int
        /\ vault \in Int /\ vault' \in Int /\ gifts \in Int /\ VAULT_RENT \in Int
        /\ game.rollover_balance \in Int /\ game'.rollover_balance \in Int
    <3>1. rounds'[r] \in RoundType
      BY DEF TypeOK
    <3>2. Held(r)' \in Int
      BY <3>1 DEF Held, RoundType
    <3> QED BY <1>1, <3>2, HeldType, V2Assumption DEF TypeOK, GameType
  <2>4. vault' = VAULT_RENT + gifts' + game'.rollover_balance + TotalHeld'
    BY <2>1, <2>2, <2>3
  <2> QED BY <2>4 DEF Conservation
<1> QED BY <1>2, <1>3, <1>4

\* A round that has an account was created.
LEMMA Created ==
    ASSUME SequentialInv, NEW r \in RoundIds, ~Is(r, "None")
    PROVE  game.initialized /\ r <= game.current_round_id
<1>1. r \in Nat /\ r >= 1 /\ game.current_round_id \in Nat
  BY DEF RoundIds, SequentialInv, TypeOK, GameType
<1>2. ~(r > game.current_round_id)
  BY DEF SequentialInv, Bookkeeping, Is, NoRound
<1> QED BY <1>1, <1>2 DEF SequentialInv, Bookkeeping

\* initialize brings the rent of the vault and nothing else.
LEMMA InitializeStep ==
    ASSUME SequentialInv, NEW c \in Configs, Initialize(c)
    PROVE  Bookkeeping' /\ SnapshotCovered' /\ Conservation'
<1>1. TypeOK /\ Bookkeeping
  BY DEF SequentialInv
<1>2. \A r \in RoundIds : rounds[r] = NoRound
  <2>1. \A r \in RoundIds : r > 0
    BY DEF RoundIds
  <2> QED BY <1>1, <2>1 DEF Bookkeeping, Initialize
<1>3. rounds' = rounds /\ gifts' = gifts /\ gifts = 0 /\ vault' = VAULT_RENT
      /\ game'.initialized /\ game'.rollover_balance = 0
  BY <1>1 DEF Initialize, Bookkeeping
<1>4. Bookkeeping' /\ SnapshotCovered'
  BY <1>2, <1>3 DEF Bookkeeping, SnapshotCovered, Is, NoRound
<1>5. TotalHeld = 0
  <2> DEFINE f == [r \in RoundIds |-> Held(r)]
  <2>1. MAX_ROUNDS \in Nat /\ \A i \in 1..MAX_ROUNDS : f[i] = 0
    BY <1>2, V2Assumption DEF RoundIds, Held, Is, NoRound
  <2>2. TotalHeld = SumTo(f, MAX_ROUNDS)
    BY DEF TotalHeld
  <2> HIDE DEF f
  <2> QED BY <2>1, <2>2, SumToZero
<1>6. TotalHeld' = TotalHeld
  BY <1>3, HeldSame
<1>7. Conservation'
  BY <1>3, <1>5, <1>6, V2Assumption DEF Conservation
<1> QED BY <1>4, <1>7

\* A new round holds nothing and counts the whole rollover in; it is the only
\* Active one.
LEMMA CreateStep ==
    ASSUME SequentialInv, NEW c \in Commits, CreateInTurn(c), TypeOK'
    PROVE  Bookkeeping' /\ SnapshotCovered' /\ Conservation'
<1>0. PICK id \in RoundIds : id = game.current_round_id + 1
  BY DEF CreateInTurn, CreateRound
<1>1. TypeOK /\ Bookkeeping /\ Conservation
  BY DEF SequentialInv
<1>2. game.current_round_id \in Nat /\ rounds[id] = NoRound
  BY <1>0, <1>1 DEF TypeOK, GameType, Bookkeeping
<1>3. /\ rounds'[id].status = "Active" /\ rounds'[id].total_deposits = 0
      /\ rounds'[id].evidence_pool = 0 /\ rounds'[id].evidence_claimed = 0
      /\ rounds'[id].rollover_in = game.rollover_balance
      /\ \A q \in RoundIds : q # id => rounds'[q] = rounds[q]
  BY <1>0, <1>1, <1>2 DEF CreateInTurn, CreateRound, NoRound, TypeOK, RolloverSnapshot
<1>4. /\ game.initialized /\ game'.initialized /\ game'.current_round_id = id
      /\ game'.rollover_balance = game.rollover_balance
      /\ vault' = vault /\ gifts' = gifts
  BY <1>0, <1>1 DEF CreateInTurn, CreateRound, TypeOK, GameType
<1>5. \A q \in RoundIds : ~Is(q, "Active")
  BY DEF CreateInTurn, NoActiveRound
<1>6. Bookkeeping'
  <2>1. /\ \A q \in RoundIds : ~Is(q, "Settled")' => rounds'[q].evidence_pool = 0
        /\ \A q \in RoundIds :
              rounds'[q].evidence_pool = 0 => rounds'[q].evidence_claimed = 0
    BY <1>1, <1>3 DEF Bookkeeping, Is
  <2>2. \A q \in RoundIds : q > game'.current_round_id => rounds'[q] = NoRound
    <3> SUFFICES ASSUME NEW q \in RoundIds, q > id PROVE rounds'[q] = NoRound
      BY <1>4
    <3>1. q # id /\ q > game.current_round_id
      BY <1>0, <1>2 DEF RoundIds
    <3> QED BY <1>1, <1>3, <3>1 DEF Bookkeeping
  <2>3. \A p, q \in RoundIds : Is(p, "Active")' /\ Is(q, "Active")' => p = q
    BY <1>3, <1>5 DEF Is
  <2> QED BY <1>4, <2>1, <2>2, <2>3 DEF Bookkeeping
<1>7. SnapshotCovered'
  <2> SUFFICES ASSUME NEW q \in RoundIds, Is(q, "Active")'
               PROVE  rounds'[q].rollover_in <= game'.rollover_balance
    BY DEF SnapshotCovered
  <2>1. q = id
    BY <1>3, <1>5 DEF Is
  <2> QED BY <1>1, <1>3, <1>4, <2>1 DEF TypeOK, GameType
<1>8. Conservation'
  <2>1. Held(id) = 0 /\ Held(id)' = 0
    BY <1>2, <1>3 DEF Held, Is, NoRound
  <2>2. TotalHeld' = TotalHeld + Held(id)' - Held(id)
    BY <1>1, <1>2, <1>3, HeldChange
  <2>3. TotalHeld \in Int
    BY <1>1, HeldType
  <2>4. TotalHeld' = TotalHeld
    BY <2>1, <2>2, <2>3
  <2> QED BY <1>1, <1>4, <2>4 DEF Conservation
<1> QED BY <1>6, <1>7, <1>8

\* enter adds the same amount to the vault and to the deposits of the round.
LEMMA EnterStep ==
    ASSUME SequentialInv, TypeOK', NEW r \in RoundIds, NEW p \in Players,
           NEW a \in EntryAmounts, Enter(r, p, a)
    PROVE  Bookkeeping' /\ SnapshotCovered' /\ Conservation'
<1>1. TypeOK /\ Bookkeeping /\ a \in Nat
  BY V2Assumption DEF SequentialInv
<1>2. Is(r, "Active") /\ vault' = vault + a /\ game' = game /\ gifts' = gifts
  BY DEF Enter, RoundActive
<1>3. /\ rounds'[r].status = "Active"
      /\ rounds'[r].total_deposits = rounds[r].total_deposits + a
      /\ rounds'[r].rollover_in = rounds[r].rollover_in
      /\ rounds'[r].evidence_pool = rounds[r].evidence_pool
      /\ rounds'[r].evidence_claimed = rounds[r].evidence_claimed
      /\ \A q \in RoundIds : q # r => rounds'[q] = rounds[q]
  BY <1>1, <1>2 DEF Enter, TypeOK, RoundType, Is
<1>4. game.initialized /\ r <= game.current_round_id
  BY <1>2, Created DEF Is
<1>5. Held(r) = rounds[r].total_deposits /\ Held(r)' = rounds[r].total_deposits + a
  BY <1>2, <1>3 DEF Held, Is
<1>6. vault' - vault = game'.rollover_balance - game.rollover_balance
                         + Held(r)' - Held(r)
  BY <1>1, <1>2, <1>5, RoundFields DEF TypeOK
<1>7. game'.rollover_balance >= game.rollover_balance
  BY <1>1, <1>2, RoundFields
<1> QED BY <1>1, <1>2, <1>3, <1>4, <1>6, <1>7, RoundStep DEF Bookkeeping, Is

\* Lamports that come in from outside, through donate or past the program.
LEMMA IncomeStep ==
    ASSUME SequentialInv, TypeOK', game.initialized, NEW a \in Nat,
           rounds' = rounds, vault' = vault + a, game'.initialized,
           game'.current_round_id = game.current_round_id,
           \/ /\ game'.rollover_balance = game.rollover_balance + a
              /\ gifts' = gifts
           \/ /\ game'.rollover_balance = game.rollover_balance
              /\ gifts' = gifts + a
    PROVE  Bookkeeping' /\ SnapshotCovered' /\ Conservation'
<1>1. TypeOK /\ Bookkeeping /\ SnapshotCovered /\ Conservation
  BY DEF SequentialInv
<1>2. Bookkeeping'
  BY <1>1 DEF Bookkeeping, Is
<1>3. /\ game.rollover_balance \in Nat /\ game'.rollover_balance \in Nat
      /\ gifts \in Nat /\ vault \in Nat
      /\ \A r \in RoundIds : rounds[r].rollover_in \in Nat
  BY <1>1, RoundFields DEF TypeOK, GameType
<1>4. SnapshotCovered'
  <2>1. game'.rollover_balance >= game.rollover_balance
    BY <1>3
  <2> SUFFICES ASSUME NEW r \in RoundIds, Is(r, "Active")
               PROVE  rounds[r].rollover_in <= game'.rollover_balance
    BY DEF SnapshotCovered, Is
  <2>2. rounds[r].rollover_in <= game.rollover_balance
    BY <1>1 DEF SnapshotCovered
  <2> QED BY <1>3, <2>1, <2>2
<1>5. Conservation'
  <2>1. TotalHeld' = TotalHeld /\ TotalHeld \in Int
    BY <1>1, HeldSame, HeldType
  <2>2. vault = VAULT_RENT + gifts + game.rollover_balance + TotalHeld
    BY <1>1 DEF Conservation
  <2>3. vault' = VAULT_RENT + gifts' + game'.rollover_balance + TotalHeld'
    BY <1>3, <2>1, <2>2, V2Assumption
  <2> QED BY <2>3 DEF Conservation
<1> QED BY <1>2, <1>4, <1>5

\* donate adds the same amount to the vault and to the rollover.
LEMMA DonateStep ==
    ASSUME SequentialInv, TypeOK', NEW a \in Donations, Donate(a)
    PROVE  Bookkeeping' /\ SnapshotCovered' /\ Conservation'
<1>1. a \in Nat /\ game \in GameType
  BY V2Assumption DEF SequentialInv, TypeOK
<1>2. /\ game.initialized /\ rounds' = rounds /\ vault' = vault + a
      /\ game'.initialized /\ game'.current_round_id = game.current_round_id
      /\ game'.rollover_balance = game.rollover_balance + a /\ gifts' = gifts
  BY <1>1 DEF Donate, GameType
<1> QED BY <1>1, <1>2, IncomeStep

\* A transfer past the program is counted as a gift.
LEMMA GiftStep ==
    ASSUME SequentialInv, TypeOK', NEW a \in Gifts, Gift(a)
    PROVE  Bookkeeping' /\ SnapshotCovered' /\ Conservation'
<1>1. a \in Nat
  BY V2Assumption
<1>2. /\ game.initialized /\ rounds' = rounds /\ vault' = vault + a
      /\ game' = game /\ gifts' = gifts + a
  BY DEF Gift
<1> QED BY <1>1, <1>2, IncomeStep

\* record_v2_evidence moves no lamports.
LEMMA RecordStep ==
    ASSUME SequentialInv, TypeOK', NEW r \in RoundIds, NEW w \in Players,
           RecordEvidence(r, w)
    PROVE  Bookkeeping' /\ SnapshotCovered' /\ Conservation'
<1>1. TypeOK /\ Bookkeeping
  BY DEF SequentialInv
<1>2. Is(r, "Active") /\ vault' = vault /\ game' = game /\ gifts' = gifts
  BY DEF RecordEvidence, RoundActive
<1>3. /\ rounds'[r].status = "Active"
      /\ rounds'[r].total_deposits = rounds[r].total_deposits
      /\ rounds'[r].rollover_in = rounds[r].rollover_in
      /\ rounds'[r].evidence_pool = rounds[r].evidence_pool
      /\ rounds'[r].evidence_claimed = rounds[r].evidence_claimed
      /\ \A q \in RoundIds : q # r => rounds'[q] = rounds[q]
  BY <1>1, <1>2 DEF RecordEvidence, TypeOK, RoundType, Is
<1>4. game.initialized /\ r <= game.current_round_id
  BY <1>2, Created DEF Is
<1>5. Held(r) = rounds[r].total_deposits /\ Held(r)' = rounds[r].total_deposits
  BY <1>2, <1>3 DEF Held, Is
<1>6. vault' - vault = game'.rollover_balance - game.rollover_balance
                         + Held(r)' - Held(r)
  BY <1>1, <1>2, <1>5, RoundFields DEF TypeOK
<1>7. game'.rollover_balance >= game.rollover_balance
  BY <1>1, <1>2, RoundFields
<1> QED BY <1>1, <1>2, <1>3, <1>4, <1>6, <1>7, RoundStep DEF Bookkeeping, Is

\* Once the Active round is resolved, none is Active.
LEMMA ResolvingLeavesNoneActive ==
    ASSUME SequentialInv, NEW r \in RoundIds, Is(r, "Active"), ~Is(r, "Active")',
           \A q \in RoundIds : q # r => rounds'[q] = rounds[q]
    PROVE  NoActiveRound'
BY DEF SequentialInv, Bookkeeping, NoActiveRound, Is

\* settle: what leaves the vault, the pool it sets aside and the new rollover add
\* up to the deposits and the old rollover, rounding dust included.
LEMMA SettleStep ==
    ASSUME SequentialInv, TypeOK', NEW r \in RoundIds, NEW answer, NEW salt,
           Settle(r, answer, salt)
    PROVE  Bookkeeping' /\ SnapshotCovered' /\ Conservation'
<1>1. TypeOK /\ Bookkeeping /\ SnapshotCovered /\ game \in GameType
  BY DEF SequentialInv, TypeOK
<1>2. /\ Is(r, "Active") /\ gifts' = gifts
      /\ vault' = vault - (WinnerAmount(r) + TreasuryAmount(r))
      /\ game' = [game EXCEPT !.rollover_balance =
                                 FinalRollover(r) + DonationsDuring(r)]
  BY DEF Settle, RoundActive
<1>3. /\ rounds'[r].status = "Settled"
      /\ rounds'[r].evidence_pool = FinalYesPool(r)
      /\ rounds'[r].evidence_claimed = rounds[r].evidence_claimed
      /\ \A q \in RoundIds : q # r => rounds'[q] = rounds[q]
  BY <1>1 DEF Settle, TypeOK, RoundType
<1>4. rounds[r].evidence_pool = 0 /\ rounds[r].evidence_claimed = 0
  BY <1>1, <1>2 DEF Bookkeeping, Is
<1>5. game.initialized /\ r <= game.current_round_id
  BY <1>2, Created DEF Is
<1>6. /\ game'.initialized /\ game'.current_round_id = game.current_round_id
      /\ game'.rollover_balance = FinalRollover(r) + DonationsDuring(r)
  BY <1>1, <1>2, <1>5 DEF GameType
<1>7. NoActiveRound'
  BY <1>2, <1>3, ResolvingLeavesNoneActive DEF Is
<1>8. Held(r) = rounds[r].total_deposits /\ Held(r)' = FinalYesPool(r)
  <2>1. FinalYesPool(r) \in Nat
    BY <1>1, SettleSplitType
  <2>2. Held(r)' = FinalYesPool(r) - 0
    BY <1>3, <1>4 DEF Held, Is
  <2> QED BY <1>2, <2>1, <2>2 DEF Held
<1>9. vault' - vault = game'.rollover_balance - game.rollover_balance
                         + Held(r)' - Held(r)
  <2>1. DonationsDuring(r) = game.rollover_balance - rounds[r].rollover_in
    BY <1>1, <1>2, RoundFields DEF SnapshotCovered, DonationsDuring, SaturatingSub
  <2>2. FinalRollover(r) = (rounds[r].total_deposits + rounds[r].rollover_in)
                             - WinnerAmount(r) - TreasuryAmount(r) - FinalYesPool(r)
    <3>1. Pool(r) = rounds[r].total_deposits + rounds[r].rollover_in
      BY DEF Pool
    <3>2. FinalRollover(r)
            = Pool(r) - WinnerAmount(r) - TreasuryAmount(r) - FinalYesPool(r)
      BY DEF FinalRollover
    <3> QED BY <3>1, <3>2
  <2>3. /\ WinnerAmount(r) \in Int /\ TreasuryAmount(r) \in Int
        /\ FinalYesPool(r) \in Int /\ vault \in Int
        /\ rounds[r].total_deposits \in Int /\ rounds[r].rollover_in \in Int
        /\ game.rollover_balance \in Int
    BY <1>1, SettleSplitType, RoundFields DEF TypeOK
  <2> QED BY <1>2, <1>6, <1>8, <2>1, <2>2, <2>3
<1>10. /\ ~Is(r, "Settled")' => rounds'[r].evidence_pool = 0
       /\ rounds'[r].evidence_pool = 0 => rounds'[r].evidence_claimed = 0
       /\ ~Is(r, "Active")'
  BY <1>3, <1>4 DEF Is
<1> QED BY <1>2, <1>3, <1>5, <1>6, <1>7, <1>9, <1>10, RoundStep

\* expire and force_expire.
LEMMA ExpireStep ==
    ASSUME SequentialInv, TypeOK', NEW r \in RoundIds, Is(r, "Active"),
           PayExpired(r), gifts' = gifts,
           rounds'[r].status = "Expired",
           rounds'[r].evidence_pool = rounds[r].evidence_pool,
           rounds'[r].evidence_claimed = rounds[r].evidence_claimed,
           \A q \in RoundIds : q # r => rounds'[q] = rounds[q]
    PROVE  Bookkeeping' /\ SnapshotCovered' /\ Conservation'
<1>1. TypeOK /\ Bookkeeping /\ SnapshotCovered /\ game \in GameType
  BY DEF SequentialInv, TypeOK
<1>2. /\ vault' = vault - ExpireOutgoing(r)
      /\ game' = [game EXCEPT !.rollover_balance =
                                 ExpireRollover(r) + DonationsDuring(r)]
  BY DEF PayExpired
<1>3. rounds[r].evidence_pool = 0 /\ rounds[r].evidence_claimed = 0
  BY <1>1 DEF Bookkeeping, Is
<1>4. game.initialized /\ r <= game.current_round_id
  BY Created DEF Is
<1>5. /\ game'.initialized /\ game'.current_round_id = game.current_round_id
      /\ game'.rollover_balance = ExpireRollover(r) + DonationsDuring(r)
  BY <1>1, <1>2, <1>4 DEF GameType
<1>6. NoActiveRound'
  BY ResolvingLeavesNoneActive DEF Is
<1>7. Held(r) = rounds[r].total_deposits /\ Held(r)' = 0
  BY <1>3 DEF Held, Is
<1>8. vault' - vault = game'.rollover_balance - game.rollover_balance
                         + Held(r)' - Held(r)
  <2>1. DonationsDuring(r) = game.rollover_balance - rounds[r].rollover_in
    BY <1>1, RoundFields DEF SnapshotCovered, DonationsDuring, SaturatingSub
  <2>2. ExpireRollover(r) = rounds[r].rollover_in + rounds[r].total_deposits
                              - ExpireOutgoing(r)
    BY DEF ExpireRollover
  <2>3. /\ ExpireOutgoing(r) \in Int /\ vault \in Int
        /\ rounds[r].total_deposits \in Int /\ rounds[r].rollover_in \in Int
        /\ game.rollover_balance \in Int
    BY <1>1, ExpireSplitType, RoundFields DEF TypeOK
  <2> QED BY <1>2, <1>5, <1>7, <2>1, <2>2, <2>3
<1> QED BY <1>3, <1>4, <1>5, <1>6, <1>8, RoundStep DEF Is

\* claim_v2_evidence takes a share from the vault and from the rest of the pool.
LEMMA ClaimStep ==
    ASSUME SequentialInv, TypeOK', NEW r \in RoundIds, NEW w \in Players,
           ClaimEvidence(r, w)
    PROVE  Bookkeeping' /\ SnapshotCovered' /\ Conservation'
<1>1. TypeOK /\ Bookkeeping
  BY DEF SequentialInv
<1>2. /\ Payable(r, w) /\ vault' = vault - Share(r, w)
      /\ game' = game /\ gifts' = gifts
  BY DEF ClaimEvidence
<1>3. /\ rounds'[r].status = rounds[r].status /\ Is(r, "Settled")
      /\ rounds'[r].evidence_pool = rounds[r].evidence_pool
      /\ rounds'[r].evidence_claimed = rounds[r].evidence_claimed + Share(r, w)
      /\ \A q \in RoundIds : q # r => rounds'[q] = rounds[q]
  BY <1>1, <1>2 DEF ClaimEvidence, TypeOK, RoundType, Payable
<1>4. game.initialized /\ r <= game.current_round_id
  BY <1>3, Created DEF Is
<1>5. Share(r, w) \in Nat \ {0}
  BY <1>1, <1>2, ShareType
<1>6. /\ Held(r) = rounds[r].evidence_pool - rounds[r].evidence_claimed
      /\ Held(r)' = rounds[r].evidence_pool
                       - (rounds[r].evidence_claimed + Share(r, w))
  BY <1>3 DEF Held, Is
<1>7. vault' - vault = game'.rollover_balance - game.rollover_balance
                         + Held(r)' - Held(r)
  BY <1>1, <1>2, <1>5, <1>6, RoundFields DEF TypeOK
<1>8. rounds[r].evidence_pool # 0
  <2> SUFFICES ASSUME rounds[r].evidence_pool = 0 PROVE FALSE
    OBVIOUS
  <2>1. evidence[r][w].yes_count \in Nat /\ rounds[r].total_yes_answers \in Nat \ {0}
    BY <1>1, <1>2, RoundFields DEF Payable
  <2>2. Share(r, w) = (0 * evidence[r][w].yes_count) \div rounds[r].total_yes_answers
    BY DEF Share
  <2>3. Share(r, w) = 0 \div rounds[r].total_yes_answers
    BY <2>1, <2>2
  <2>4. Share(r, w) = 0
    BY <2>1, <2>3, SMT
  <2> QED BY <1>5, <2>4
<1>9. game'.rollover_balance >= game.rollover_balance
  BY <1>1, <1>2, RoundFields
<1> QED BY <1>2, <1>3, <1>4, <1>7, <1>8, <1>9, RoundStep DEF Is

\* sweep_v2_evidence moves the rest of the pool to the rollover.
LEMMA SweepStep ==
    ASSUME SequentialInv, TypeOK', NEW r \in RoundIds, SweepEvidence(r)
    PROVE  Bookkeeping' /\ SnapshotCovered' /\ Conservation'
<1> DEFINE unclaimed == rounds[r].evidence_pool - rounds[r].evidence_claimed
<1>1. TypeOK /\ Bookkeeping /\ game \in GameType
  BY DEF SequentialInv, TypeOK
<1>2. /\ Is(r, "Settled") /\ unclaimed > 0 /\ vault' = vault /\ gifts' = gifts
      /\ game'.initialized = game.initialized
      /\ game'.current_round_id = game.current_round_id
      /\ game'.rollover_balance = game.rollover_balance + unclaimed
  BY <1>1 DEF SweepEvidence, Sweepable, Unclaimed, GameType
<1>3. /\ rounds'[r].status = rounds[r].status
      /\ rounds'[r].evidence_pool = rounds[r].evidence_pool
      /\ rounds'[r].evidence_claimed = rounds[r].evidence_pool
      /\ \A q \in RoundIds : q # r => rounds'[q] = rounds[q]
  BY <1>1 DEF SweepEvidence, Sweepable, Unclaimed, TypeOK, RoundType
<1>4. game.initialized /\ r <= game.current_round_id
  BY <1>2, Created DEF Is
<1>5. /\ Held(r) = unclaimed
      /\ Held(r)' = rounds[r].evidence_pool - rounds[r].evidence_pool
  BY <1>2, <1>3 DEF Held, Is
<1>6. /\ rounds[r].evidence_pool \in Int /\ rounds[r].evidence_claimed \in Int
      /\ game.rollover_balance \in Int /\ vault \in Int
  BY <1>1, RoundFields DEF TypeOK
<1>7. vault' - vault = game'.rollover_balance - game.rollover_balance
                         + Held(r)' - Held(r)
  BY <1>2, <1>5, <1>6
<1>8. game'.rollover_balance >= game.rollover_balance
  BY <1>2, <1>6
<1> QED BY <1>2, <1>3, <1>4, <1>7, <1>8, RoundStep DEF Is

\* close_v2_round closes only rounds whose pool is accounted for in full.
LEMMA CloseRoundStep ==
    ASSUME SequentialInv, TypeOK', NEW r \in RoundIds, CloseRound(r)
    PROVE  Bookkeeping' /\ SnapshotCovered' /\ Conservation'
<1>1. TypeOK /\ Bookkeeping
  BY DEF SequentialInv
<1>2. /\ Closable(r) /\ EvidenceResolved(r)
      /\ vault' = vault /\ game' = game /\ gifts' = gifts
  BY DEF CloseRound
<1>3. /\ rounds'[r].status = "Closed"
      /\ rounds'[r].evidence_pool = 0 /\ rounds'[r].evidence_claimed = 0
      /\ \A q \in RoundIds : q # r => rounds'[q] = rounds[q]
  BY <1>1 DEF CloseRound, TypeOK, RoundType, NoRound
<1>4. game.initialized /\ r <= game.current_round_id
  BY <1>2, Created DEF Closable, Is
<1>5. /\ rounds[r].evidence_pool \in Nat /\ game.rollover_balance \in Nat
      /\ rounds[r].evidence_claimed = rounds[r].evidence_pool /\ vault \in Nat
  BY <1>1, <1>2, RoundFields DEF Bookkeeping, TypeOK, EvidenceResolved
<1>6. Held(r) = 0 /\ Held(r)' = 0
  BY <1>2, <1>3, <1>5 DEF Held, Is, Closable
<1>7. vault' - vault = game'.rollover_balance - game.rollover_balance
                         + Held(r)' - Held(r)
  BY <1>2, <1>5, <1>6
<1>8. game'.rollover_balance >= game.rollover_balance
  BY <1>2, <1>5
<1> QED BY <1>2, <1>3, <1>4, <1>7, <1>8, RoundStep DEF Is

\* Every step of the sequential specification keeps the inductive invariant.
LEMMA SequentialStep ==
    ASSUME SequentialInv, [SequentialNext]_vars
    PROVE  SequentialInv'
<1>1. TypeOK /\ TypeOK'
  BY NextTypeOK, SequentialIsNext DEF SequentialInv
<1> DEFINE Goal == Bookkeeping' /\ SnapshotCovered' /\ Conservation'
<1>2. ASSUME NEW c \in Configs, Initialize(c) PROVE Goal
  BY <1>2, InitializeStep
<1>3. ASSUME NEW c \in Commits, CreateInTurn(c) PROVE Goal
  BY <1>1, <1>3, CreateStep
<1>4. ASSUME NEW r \in RoundIds, NEW p \in Players, NEW a \in EntryAmounts,
             Enter(r, p, a)
      PROVE  Goal
  BY <1>1, <1>4, EnterStep
<1>5. ASSUME NEW a \in Donations, Donate(a) PROVE Goal
  BY <1>1, <1>5, DonateStep
<1>6. ASSUME NEW r \in RoundIds, NEW w \in Players, RecordEvidence(r, w)
      PROVE  Goal
  BY <1>1, <1>6, RecordStep
<1>7. ASSUME NEW r \in RoundIds, NEW reveal \in Reveals,
             Settle(r, reveal[1], reveal[2])
      PROVE  Goal
  BY <1>1, <1>7, SettleStep
<1>8. ASSUME NEW r \in RoundIds, NEW reveal \in Reveals,
             Expire(r, reveal[1], reveal[2])
      PROVE  Goal
  <2>1. /\ rounds'[r].status = "Expired"
        /\ rounds'[r].evidence_pool = rounds[r].evidence_pool
        /\ rounds'[r].evidence_claimed = rounds[r].evidence_claimed
        /\ \A q \in RoundIds : q # r => rounds'[q] = rounds[q]
    BY <1>1, <1>8 DEF Expire, TypeOK, RoundType
  <2>2. Is(r, "Active") /\ PayExpired(r) /\ gifts' = gifts
    BY <1>8 DEF Expire, RoundActive
  <2> QED BY <1>1, <2>1, <2>2, ExpireStep
<1>9. ASSUME NEW r \in RoundIds, ForceExpire(r) PROVE Goal
  <2>1. /\ rounds'[r].status = "Expired"
        /\ rounds'[r].evidence_pool = rounds[r].evidence_pool
        /\ rounds'[r].evidence_claimed = rounds[r].evidence_claimed
        /\ \A q \in RoundIds : q # r => rounds'[q] = rounds[q]
    BY <1>1, <1>9 DEF ForceExpire, TypeOK, RoundType
  <2>2. Is(r, "Active") /\ PayExpired(r) /\ gifts' = gifts
    BY <1>9 DEF ForceExpire, RoundActive
  <2> QED BY <1>1, <2>1, <2>2, ExpireStep
<1>10. ASSUME NEW r \in RoundIds, NEW w \in Players, ClaimEvidence(r, w)
       PROVE  Goal
  BY <1>1, <1>10, ClaimStep
<1>11. ASSUME NEW r \in RoundIds, SweepEvidence(r) PROVE Goal
  BY <1>1, <1>11, SweepStep
<1>12. ASSUME NEW r \in RoundIds, NEW w \in Players, CloseEvidence(r, w)
       PROVE  Goal
  BY <1>12, UnrelatedStep DEF CloseEvidence
<1>13. ASSUME NEW r \in RoundIds, NEW p \in Players, CloseEntry(r, p)
       PROVE  Goal
  BY <1>13, UnrelatedStep DEF CloseEntry
<1>14. ASSUME NEW r \in RoundIds, CloseRound(r) PROVE Goal
  BY <1>1, <1>14, CloseRoundStep
<1>15. ASSUME NEW a \in Gifts, Gift(a) PROVE Goal
  BY <1>1, <1>15, GiftStep
<1>16. ASSUME Tick PROVE Goal
  BY <1>16, UnrelatedStep DEF Tick
<1>17. ASSUME UNCHANGED vars PROVE Goal
  BY <1>17, UnrelatedStep DEF vars
<1>18. Goal
  <2> HIDE DEF Goal
  <2> QED BY <1>2, <1>3, <1>4, <1>5, <1>6, <1>7, <1>8, <1>9, <1>10, <1>11,
             <1>12, <1>13, <1>14, <1>15, <1>16, <1>17
          DEF SequentialNext, Unrestricted
<1> QED BY <1>1, <1>18 DEF SequentialInv

\* The inductive invariant: types, bookkeeping, the covered snapshot and the
\* conservation of lamports, which none of the four implies without the others
\* (settle and expire pay from rollover_in, and only Bookkeeping says that no
\* second round counts the same rollover in).
THEOREM SequentialInvariant == SequentialSpec => []SequentialInv
<1>1. SequentialInv /\ [SequentialNext]_vars => SequentialInv'
  BY SequentialStep
<1> QED BY <1>1, SequentialInit, PTL DEF SequentialSpec

\* When no round is created while another is Active, every lamport of the vault
\* is rent, rollover, a deposit of the Active round, unclaimed evidence or a gift:
\* no instruction loses or invents one, whatever the amounts and their rounding.
THEOREM LamportsConserved == SequentialSpec => []Conservation
<1>1. SequentialInv => Conservation
  BY DEF SequentialInv
<1> QED BY <1>1, SequentialInvariant, PTL

\* Under the same discipline the donations of a round are always recovered
\* exactly: saturating_sub never has to saturate.
THEOREM SnapshotsCovered == SequentialSpec => []SnapshotCovered
<1>1. SequentialInv => SnapshotCovered
  BY DEF SequentialInv
<1> QED BY <1>1, SequentialInvariant, PTL
=============================================================================
