---------------------- MODULE AlonsBoxV2EvidenceProofs ----------------------
(***************************************************************************)
(* Theorems about the accounts behind a round of AlonsBoxV2.  Under Spec,  *)
(* the counters that a payout is computed from agree with the entry and    *)
(* evidence accounts, and a round's evidence never costs more than its     *)
(* pool, for any number of players.  Under OperatedSpec, the vault can pay *)
(* what it owes and the program implements PrizePool.                      *)
(***************************************************************************)
EXTENDS AlonsBoxV2TermsProofs

-----------------------------------------------------------------------------
(* Sums over the players, and counts of them.                              *)

LEMMA PlayerSumNat ==
    ASSUME NEW f, \A p \in Players : f[p] \in Nat
    PROVE  PlayerSum(f) \in Nat
BY V2Assumption, SumNat DEF PlayerSum

LEMMA PlayerSumZero ==
    ASSUME NEW f, \A p \in Players : f[p] = 0
    PROVE  PlayerSum(f) = 0
BY V2Assumption, SumZero DEF PlayerSum

LEMMA PlayerSumSame ==
    ASSUME NEW f, NEW g, \A p \in Players : f[p] = g[p]
    PROVE  PlayerSum(f) = PlayerSum(g)
BY V2Assumption, SumSame DEF PlayerSum

\* One player's term changes.
LEMMA PlayerSumChange ==
    ASSUME NEW f, NEW g, NEW p \in Players,
           \A q \in Players : f[q] \in Nat /\ g[q] \in Nat,
           \A q \in Players : q # p => g[q] = f[q]
    PROVE  PlayerSum(g) = PlayerSum(f) + g[p] - f[p]
<1>1. \A q \in Players : f[q] \in Int /\ g[q] \in Int
  OBVIOUS
<1> QED BY <1>1, V2Assumption, SumChangeOne DEF PlayerSum

\* Nobody's term exceeds the sum.
LEMMA PlayerSumTerm ==
    ASSUME NEW f, \A p \in Players : f[p] \in Nat, NEW p \in Players
    PROVE  f[p] <= PlayerSum(f)
BY V2Assumption, SumTerm DEF PlayerSum

\* The players with a positive number, when nobody has one and when one more has.
LEMMA NobodyCounts ==
    ASSUME NEW f, \A p \in Players : f[p] = 0
    PROVE  Cardinality({p \in Players : f[p] > 0}) = 0
<1>1. {p \in Players : f[p] > 0} = {}
  OBVIOUS
<1> QED BY <1>1, FS_EmptySet

LEMMA OneMoreCounts ==
    ASSUME NEW f, NEW g, NEW p \in Players, ~(f[p] > 0), g[p] > 0,
           \A q \in Players : q # p => g[q] = f[q]
    PROVE  Cardinality({q \in Players : g[q] > 0})
              = Cardinality({q \in Players : f[q] > 0}) + 1
<1> DEFINE S == {q \in Players : f[q] > 0}
<1>1. IsFiniteSet(S) /\ p \notin S
  BY V2Assumption, FS_Subset
<1>2. {q \in Players : g[q] > 0} = S \cup {p}
  OBVIOUS
<1> HIDE DEF S
<1>3. Cardinality(S \cup {p}) = Cardinality(S) + 1
  BY <1>1, FS_AddElement
<1> QED BY <1>2, <1>3 DEF S

-----------------------------------------------------------------------------
(* The invariant.                                                          *)

\* The YES answers whose share can still be claimed.
OwedYes(r) ==
    [w \in Players |-> IF evidence[r][w].claimed THEN 0 ELSE evidence[r][w].yes_count]

EntriesOK(r) ==
    /\ Is(r, "None") => \A p \in Players : entries[r][p] = 0
    /\ Is(r, "Active") =>
        /\ rounds[r].started_at <= clock
        /\ rounds[r].total_deposits = PlayerSum(entries[r])
        /\ rounds[r].total_entries = Cardinality({p \in Players : entries[r][p] > 0})

\* What was paid and what is still owed fit in the pool at the full rate of pool
\* to answers: a share rounded down takes no more than its answers are worth.
PoolCovers(r) ==
    rounds[r].total_yes_answers * PlayerSum(received[r])
      + rounds[r].evidence_pool * PlayerSum(OwedYes(r))
        <= rounds[r].evidence_pool * rounds[r].total_yes_answers

NobodyPaid(r) == \A w \in Players : received[r][w] = 0

EvidenceOK(r) ==
    /\ Is(r, "None") => \A w \in Players : evidence[r][w] = NoEvidence
    /\ Is(r, "None") \/ Is(r, "Active") =>
        NobodyPaid(r) /\ \A w \in Players : ~evidence[r][w].claimed
    /\ Is(r, "Active") =>
        /\ rounds[r].total_yes_answers = PlayerSum(YesCounts(r))
        /\ rounds[r].evidence_count =
              Cardinality({w \in Players : evidence[r][w].yes_count > 0})
    /\ Resolved(r) => PlayerSum(YesCounts(r)) <= rounds[r].total_yes_answers
    /\ Is(r, "Settled") =>
        /\ PoolCovers(r)
        /\ rounds[r].total_yes_answers = 0 => NobodyPaid(r)

AccountsOK(r) == EntriesOK(r) /\ EvidenceOK(r)

EvidenceInv == TermsInv /\ \A r \in RoundIds : AccountsOK(r)

LEMMA AccountSums ==
    ASSUME TypeOK, NEW r \in RoundIds
    PROVE  /\ \A p \in Players : entries[r][p] \in Nat /\ received[r][p] \in Nat
           /\ \A w \in Players : YesCounts(r)[w] \in Nat /\ OwedYes(r)[w] \in Nat
           /\ PlayerSum(entries[r]) \in Nat /\ PlayerSum(received[r]) \in Nat
           /\ PlayerSum(YesCounts(r)) \in Nat /\ PlayerSum(OwedYes(r)) \in Nat
<1>1. \A p \in Players : entries[r][p] \in Nat /\ received[r][p] \in Nat
  BY DEF TypeOK
<1>2. \A w \in Players : YesCounts(r)[w] \in Nat /\ OwedYes(r)[w] \in Nat
  BY RoundFields DEF YesCounts, OwedYes
<1> QED BY <1>1, <1>2, PlayerSumNat

LEMMA EvidenceInit == Init => EvidenceInv
<1> SUFFICES ASSUME Init PROVE EvidenceInv
  OBVIOUS
<1>1. ASSUME NEW r \in RoundIds PROVE AccountsOK(r)
  BY DEF Init, AccountsOK, EntriesOK, EvidenceOK, Is, Resolved, NoRound, NoEvidence,
         NobodyPaid
<1> QED BY <1>1, TermsInit DEF EvidenceInv

\* A round none of whose accounts is written.
LEMMA OtherAccountsOK ==
    ASSUME NEW r \in RoundIds, TypeOK, AccountsOK(r), clock' \in {clock, clock + 1},
           rounds'[r] = rounds[r], entries'[r] = entries[r],
           evidence'[r] = evidence[r], received'[r] = received[r]
    PROVE  AccountsOK(r)'
<1>1. EntriesOK(r)'
  <2>1. clock \in Nat /\ (Is(r, "Active") => rounds[r].started_at \in Nat)
    BY DEF TypeOK, RoundType
  <2> QED BY <2>1 DEF AccountsOK, EntriesOK, Is
<1>2. EvidenceOK(r)'
  BY DEF AccountsOK, EvidenceOK, PoolCovers, NobodyPaid, YesCounts, OwedYes, Is, Resolved
<1> QED BY <1>1, <1>2 DEF AccountsOK

\* So a step that writes the accounts of one round keeps the invariant if it
\* keeps that round's.
LEMMA OneRoundSuffices ==
    ASSUME EvidenceInv, [Next]_vars, NEW r \in RoundIds, clock' = clock,
           \A q \in RoundIds : q # r =>
              /\ rounds'[q] = rounds[q] /\ entries'[q] = entries[q]
              /\ evidence'[q] = evidence[q] /\ received'[q] = received[q],
           AccountsOK(r)'
    PROVE  EvidenceInv'
BY TermsStep, OtherAccountsOK DEF EvidenceInv, TermsInv

-----------------------------------------------------------------------------
(* One lemma per instruction.                                              *)

\* create_round uses an id under which nobody entered and nothing was recorded.
LEMMA CreateAccounts ==
    ASSUME EvidenceInv, [Next]_vars, NEW c \in Commits, CreateRound(c)
    PROVE  EvidenceInv'
<1>0. PICK id \in RoundIds : id = game.current_round_id + 1
  BY DEF CreateRound
<1>1. TypeOK /\ IdsInOrder /\ game.current_round_id \in Nat
  BY DEF EvidenceInv, TermsInv, TypeOK, GameType
<1>2. rounds[id] = NoRound /\ Is(id, "None")
  BY <1>0, <1>1 DEF IdsInOrder, Is, NoRound
<1>3. /\ clock' = clock /\ entries' = entries /\ evidence' = evidence
      /\ received' = received
      /\ \A q \in RoundIds : q # id => rounds'[q] = rounds[q]
  BY <1>0, <1>1 DEF CreateRound, TypeOK
<1>4. /\ rounds'[id].status = "Active" /\ rounds'[id].started_at = clock
      /\ rounds'[id].total_deposits = 0 /\ rounds'[id].total_entries = 0
      /\ rounds'[id].total_yes_answers = 0 /\ rounds'[id].evidence_count = 0
  BY <1>0, <1>1 DEF CreateRound, TypeOK, NoRound
<1>5. /\ \A p \in Players : entries[id][p] = 0 /\ received[id][p] = 0
      /\ \A w \in Players : evidence[id][w] = NoEvidence
  BY <1>2 DEF EvidenceInv, AccountsOK, EntriesOK, EvidenceOK, NobodyPaid
<1>6. \A w \in Players : ~evidence[id][w].claimed /\ YesCounts(id)[w] = 0
  BY <1>5 DEF NoEvidence, YesCounts
<1>7. PlayerSum(entries[id]) = 0 /\ PlayerSum(YesCounts(id)) = 0
  BY <1>5, <1>6, PlayerSumZero
<1>8. /\ Cardinality({p \in Players : entries[id][p] > 0}) = 0
      /\ Cardinality({w \in Players : evidence[id][w].yes_count > 0}) = 0
  <2>1. {w \in Players : evidence[id][w].yes_count > 0}
          = {w \in Players : YesCounts(id)[w] > 0}
    BY DEF YesCounts
  <2> QED BY <1>5, <1>6, <2>1, NobodyCounts
<1>9. YesCounts(id)' = YesCounts(id)
  BY <1>3 DEF YesCounts
<1>10. clock \in Nat
  BY <1>1 DEF TypeOK
<1>11. EntriesOK(id)'
  BY <1>3, <1>4, <1>5, <1>7, <1>8, <1>10 DEF EntriesOK, Is
<1>12. EvidenceOK(id)'
  BY <1>3, <1>4, <1>5, <1>6, <1>7, <1>8, <1>9 DEF EvidenceOK, Is, Resolved, NobodyPaid
<1> QED BY <1>3, <1>11, <1>12, OneRoundSuffices DEF AccountsOK

\* No entry is free: the fee is never below the base fee.
LEMMA FeePositive ==
    ASSUME NEW start \in Nat, NEW now \in Nat, start <= now
    PROVE  EntryFee(start, now) \in Nat \ {0}
<1> DEFINE steps == (now - start) \div PRICE_INTERVAL_SECS
<1>1. steps \in Nat
  BY V2Assumption, DivNat
<1> HIDE DEF steps
<1>2. steps * ENTRY_FEE_INCREMENT \in Nat
  BY <1>1, V2Assumption, SMT
<1>3. EntryFee(start, now) = BASE_ENTRY_FEE + steps * ENTRY_FEE_INCREMENT
  BY DEF EntryFee, steps
<1> DEFINE increments == steps * ENTRY_FEE_INCREMENT
<1> HIDE DEF increments
<1>4. BASE_ENTRY_FEE + increments \in Nat \ {0}
  BY <1>2, V2Assumption DEF increments
<1> QED BY <1>3, <1>4 DEF increments

\* enter counts one entry and its amount, of a player who had none.
LEMMA EnterAccounts ==
    ASSUME EvidenceInv, [Next]_vars, NEW r \in RoundIds, NEW p \in Players,
           NEW a \in EntryAmounts, Enter(r, p, a)
    PROVE  EvidenceInv'
<1>1. /\ TypeOK /\ AccountsOK(r) /\ Is(r, "Active") /\ a \in Nat
      /\ entries \in [RoundIds -> [Players -> Nat]] /\ clock \in Nat
      /\ rounds \in [RoundIds -> RoundType] /\ rounds[r] \in RoundType
  BY V2Assumption DEF EvidenceInv, TermsInv, TypeOK, Enter, RoundActive
<1>2. /\ clock' = clock /\ evidence' = evidence /\ received' = received
      /\ entries' = [entries EXCEPT ![r][p] = a]
      /\ entries[r][p] = 0 /\ a >= EntryFee(rounds[r].started_at, clock)
  BY DEF Enter, EntryFree
<1>3. /\ \A q \in RoundIds : q # r => rounds'[q] = rounds[q] /\ entries'[q] = entries[q]
      /\ entries'[r][p] = a
      /\ \A q \in Players : q # p => entries'[r][q] = entries[r][q]
  BY <1>1, <1>2 DEF Enter
<1>4. /\ rounds'[r].status = "Active" /\ rounds'[r].started_at = rounds[r].started_at
      /\ rounds'[r].total_deposits = rounds[r].total_deposits + a
      /\ rounds'[r].total_entries = rounds[r].total_entries + 1
      /\ rounds'[r].total_yes_answers = rounds[r].total_yes_answers
      /\ rounds'[r].evidence_count = rounds[r].evidence_count
  BY <1>1 DEF Enter, RoundType, Is
<1>5. a > 0
  <2>1. rounds[r].started_at \in Nat /\ rounds[r].started_at <= clock
    BY <1>1 DEF RoundType, AccountsOK, EntriesOK
  <2>2. EntryFee(rounds[r].started_at, clock) \in Nat \ {0}
    BY <1>1, <2>1, FeePositive
  <2> QED BY <1>1, <1>2, <2>2
<1> DEFINE f == entries[r]
           g == entries'[r]
<1>6. PlayerSum(g) = PlayerSum(f) + g[p] - f[p] /\ PlayerSum(f) \in Nat
  <2>1. /\ \A q \in Players : f[q] \in Nat /\ g[q] \in Nat
        /\ \A q \in Players : q # p => g[q] = f[q]
        /\ PlayerSum(f) \in Nat
    BY <1>1, <1>3, AccountSums
  <2> HIDE DEF f, g
  <2> QED BY <2>1, PlayerSumChange
<1>7. Cardinality({q \in Players : g[q] > 0}) = Cardinality({q \in Players : f[q] > 0}) + 1
  <2>1. ~(f[p] > 0) /\ g[p] > 0 /\ \A q \in Players : q # p => g[q] = f[q]
    BY <1>2, <1>3, <1>5
  <2> HIDE DEF f, g
  <2> QED BY <2>1, OneMoreCounts
<1>8. /\ rounds[r].started_at <= clock /\ rounds[r].total_deposits = PlayerSum(f)
      /\ rounds[r].total_entries = Cardinality({q \in Players : f[q] > 0})
  BY <1>1 DEF AccountsOK, EntriesOK
<1>9. rounds'[r].total_deposits = PlayerSum(g)
  BY <1>1, <1>2, <1>3, <1>4, <1>6, <1>8
<1>10. EntriesOK(r)'
  BY <1>2, <1>4, <1>7, <1>8, <1>9 DEF EntriesOK, Is
<1>11. EvidenceOK(r)'
  BY <1>1, <1>2, <1>4 DEF AccountsOK, EvidenceOK, Is, Resolved, NobodyPaid, YesCounts
<1> QED BY <1>2, <1>3, <1>10, <1>11, OneRoundSuffices DEF AccountsOK

\* record_v2_evidence counts one answer, and one account if it is the first.
LEMMA RecordAccounts ==
    ASSUME EvidenceInv, [Next]_vars, NEW r \in RoundIds, NEW w \in Players,
           RecordEvidence(r, w)
    PROVE  EvidenceInv'
<1> DEFINE yes == evidence[r][w].yes_count
           account == [evidence[r][w] EXCEPT !.yes_count = yes + 1]
<1>1. /\ TypeOK /\ AccountsOK(r) /\ Is(r, "Active") /\ yes \in Nat
      /\ evidence \in [RoundIds -> [Players -> [yes_count : Nat, claimed : BOOLEAN]]]
      /\ rounds \in [RoundIds -> RoundType] /\ rounds[r] \in RoundType
  BY DEF EvidenceInv, TermsInv, TypeOK, RecordEvidence, RoundActive
<1>2. /\ clock' = clock /\ entries' = entries /\ received' = received
      /\ evidence' = [evidence EXCEPT ![r] = [evidence[r] EXCEPT ![w] = account]]
  BY DEF RecordEvidence
<1>3. account.yes_count = yes + 1 /\ account.claimed = evidence[r][w].claimed
  <2>1. evidence[r][w] \in [yes_count : Nat, claimed : BOOLEAN]
    BY <1>1
  <2> QED BY <2>1
<1>4. /\ \A q \in RoundIds : q # r => rounds'[q] = rounds[q] /\ evidence'[q] = evidence[q]
      /\ evidence'[r][w] = account
      /\ \A v \in Players : v # w => evidence'[r][v] = evidence[r][v]
  BY <1>1, <1>2 DEF RecordEvidence
<1> HIDE DEF account
<1>5. /\ rounds'[r].status = "Active" /\ rounds'[r].started_at = rounds[r].started_at
      /\ rounds'[r].total_deposits = rounds[r].total_deposits
      /\ rounds'[r].total_entries = rounds[r].total_entries
      /\ rounds'[r].total_yes_answers = rounds[r].total_yes_answers + 1
      /\ rounds'[r].evidence_count = IF yes = 0 THEN rounds[r].evidence_count + 1
                                     ELSE rounds[r].evidence_count
  BY <1>1 DEF RecordEvidence, RoundType, Is
<1> DEFINE f == YesCounts(r)
           g == YesCounts(r)'
           Counted(u) == {v \in Players : u[v] > 0}
<1>6. /\ f[w] = yes /\ g[w] = yes + 1
      /\ \A v \in Players : v # w => g[v] = f[v]
      /\ \A v \in Players : f[v] \in Nat /\ g[v] \in Nat
      /\ PlayerSum(f) \in Nat
  <2>1. f[w] = yes /\ g[w] = yes + 1 /\ \A v \in Players : v # w => g[v] = f[v]
    BY <1>3, <1>4 DEF YesCounts
  <2>2. PlayerSum(f) \in Nat /\ \A v \in Players : f[v] \in Nat
    BY <1>1, AccountSums
  <2> QED BY <1>1, <2>1, <2>2
<1>7. /\ rounds[r].total_yes_answers = PlayerSum(f)
      /\ rounds[r].evidence_count = Cardinality(Counted(f))
  <2>1. Counted(f) = {v \in Players : evidence[r][v].yes_count > 0}
    BY DEF YesCounts
  <2> QED BY <1>1, <2>1 DEF AccountsOK, EvidenceOK
<1>8. /\ PlayerSum(YesCounts(r))' = PlayerSum(g)
      /\ {v \in Players : evidence'[r][v].yes_count > 0} = Counted(g)
  BY DEF YesCounts
<1> HIDE DEF f, g
<1>9. PlayerSum(g) = PlayerSum(f) + 1
  <2>1. PlayerSum(g) = PlayerSum(f) + g[w] - f[w]
    BY <1>6, PlayerSumChange
  <2> QED BY <1>1, <1>6, <2>1
<1>10. Cardinality(Counted(g)) = IF yes = 0 THEN Cardinality(Counted(f)) + 1
                                 ELSE Cardinality(Counted(f))
  <2>1. CASE yes = 0
    BY <1>6, <2>1, OneMoreCounts
  <2>2. CASE yes # 0
    <3>1. Counted(g) = Counted(f)
      BY <1>1, <1>6, <2>2
    <3> QED BY <2>2, <3>1
  <2> QED BY <2>1, <2>2
<1>11. EntriesOK(r)'
  BY <1>1, <1>2, <1>5 DEF AccountsOK, EntriesOK, Is
<1>12. \A v \in Players : ~evidence'[r][v].claimed
  BY <1>1, <1>3, <1>4 DEF AccountsOK, EvidenceOK
<1>13. NobodyPaid(r)'
  BY <1>1, <1>2 DEF AccountsOK, EvidenceOK, NobodyPaid
<1>14. EvidenceOK(r)'
  BY <1>5, <1>7, <1>8, <1>9, <1>10, <1>12, <1>13 DEF EvidenceOK, Is, Resolved
<1> QED BY <1>2, <1>4, <1>11, <1>14, OneRoundSuffices DEF AccountsOK

\* settle: the pool is owed to the answers recorded, and nobody was paid yet.
LEMMA SettleAccounts ==
    ASSUME EvidenceInv, [Next]_vars, NEW r \in RoundIds, NEW answer, NEW salt,
           Settle(r, answer, salt)
    PROVE  EvidenceInv'
<1>1. /\ TypeOK /\ AccountsOK(r) /\ Is(r, "Active")
      /\ rounds \in [RoundIds -> RoundType] /\ rounds[r] \in RoundType
  BY DEF EvidenceInv, TermsInv, TypeOK, Settle, RoundActive
<1>2. /\ clock' = clock /\ entries' = entries /\ received' = received
      /\ evidence' = evidence
      /\ \A q \in RoundIds : q # r => rounds'[q] = rounds[q]
  BY <1>1 DEF Settle
<1>3. /\ rounds'[r].status = "Settled"
      /\ rounds'[r].evidence_pool = FinalYesPool(r)
      /\ rounds'[r].total_yes_answers = rounds[r].total_yes_answers
  BY <1>1 DEF Settle, RoundType
<1>4. /\ NobodyPaid(r) /\ \A w \in Players : ~evidence[r][w].claimed
      /\ rounds[r].total_yes_answers = PlayerSum(YesCounts(r))
  BY <1>1 DEF AccountsOK, EvidenceOK
<1>5. YesCounts(r)' = YesCounts(r) /\ OwedYes(r)' = YesCounts(r)
  BY <1>2, <1>4 DEF YesCounts, OwedYes
<1>6. NobodyPaid(r)' /\ PlayerSum(received[r]) = 0
  BY <1>2, <1>4, PlayerSumZero DEF NobodyPaid
<1> DEFINE Y == PlayerSum(YesCounts(r))
           P == FinalYesPool(r)
<1>7. Y \in Nat /\ P \in Nat
  BY <1>1, AccountSums, SettleSplitType
<1>8. /\ PlayerSum(YesCounts(r))' = Y /\ PlayerSum(OwedYes(r))' = Y
      /\ PlayerSum(received[r])' = 0 /\ rounds'[r].total_yes_answers = Y
  BY <1>2, <1>3, <1>4, <1>5, <1>6
<1> HIDE DEF Y, P
<1>9. Y * 0 + P * Y <= P * Y /\ Y <= Y
  BY <1>7, SMT
<1>10. PoolCovers(r)'
  BY <1>3, <1>8, <1>9 DEF PoolCovers, P
<1>11. EvidenceOK(r)'
  BY <1>3, <1>6, <1>8, <1>9, <1>10 DEF EvidenceOK, Is
<1>12. EntriesOK(r)'
  BY <1>3 DEF EntriesOK, Is
<1> QED BY <1>2, <1>11, <1>12, OneRoundSuffices DEF AccountsOK

\* expire and force_expire.
LEMMA ExpireAccounts ==
    ASSUME EvidenceInv, [Next]_vars, NEW r \in RoundIds, Is(r, "Active"),
           clock' = clock, entries' = entries, evidence' = evidence,
           received' = received, rounds'[r].status = "Expired",
           rounds'[r].total_yes_answers = rounds[r].total_yes_answers,
           \A q \in RoundIds : q # r => rounds'[q] = rounds[q]
    PROVE  EvidenceInv'
<1>1. YesCounts(r)' = YesCounts(r)
  BY DEF YesCounts
<1>2. rounds[r].total_yes_answers = PlayerSum(YesCounts(r))
  BY DEF EvidenceInv, AccountsOK, EvidenceOK
<1>3. PlayerSum(YesCounts(r)) \in Nat
  BY AccountSums DEF EvidenceInv, TermsInv
<1>4. EvidenceOK(r)' /\ EntriesOK(r)'
  BY <1>1, <1>2, <1>3 DEF EvidenceOK, EntriesOK, Is
<1> QED BY <1>4, OneRoundSuffices DEF AccountsOK

\* One share takes no more of the pool than its answers are worth.
LEMMA ShareWorth ==
    ASSUME TypeOK, NEW r \in RoundIds, NEW w \in Players, Payable(r, w)
    PROVE  /\ Share(r, w) \in Nat \ {0}
           /\ rounds[r].total_yes_answers * Share(r, w)
                 <= rounds[r].evidence_pool * evidence[r][w].yes_count
<1> DEFINE n == rounds[r].evidence_pool * evidence[r][w].yes_count
           Y == rounds[r].total_yes_answers
<1>1. n \in Nat
  <2>1. rounds[r].evidence_pool \in Nat /\ evidence[r][w].yes_count \in Nat
    BY RoundFields
  <2> QED BY <2>1, SMT
<1>2. Y \in Nat \ {0}
  BY RoundFields DEF Payable
<1>3. Share(r, w) = n \div Y
  BY DEF Share
<1> HIDE DEF n, Y
<1>4. Y * (n \div Y) <= n
  BY <1>1, <1>2, SMT
<1> QED BY <1>3, <1>4, ShareType DEF n, Y

LEMMA ShareArithmetic ==
    ASSUME NEW Y \in Nat, NEW R \in Nat, NEW P \in Nat, NEW S \in Nat, NEW y \in Nat,
           NEW share \in Nat, Y * share <= P * y, Y * R + P * S <= P * Y
    PROVE  Y * (R + share) + P * (S - y) <= P * Y
<1>1. Y * (R + share) = Y * R + Y * share
  BY SMT
<1>2. P * (S - y) = P * S - P * y
  BY SMT
<1>3. /\ Y * R \in Int /\ Y * share \in Int /\ P * S \in Int /\ P * y \in Int
      /\ P * Y \in Int
  BY SMT
<1> QED BY <1>1, <1>2, <1>3

\* claim_v2_evidence moves one wallet's answers from what is owed to what was
\* paid.
LEMMA ClaimAccounts ==
    ASSUME EvidenceInv, [Next]_vars, NEW r \in RoundIds, NEW w \in Players,
           ClaimEvidence(r, w)
    PROVE  EvidenceInv'
<1> DEFINE share == Share(r, w)
           y == evidence[r][w].yes_count
           account == [evidence[r][w] EXCEPT !.claimed = TRUE]
<1>1. /\ TypeOK /\ AccountsOK(r) /\ Payable(r, w) /\ Is(r, "Settled") /\ y \in Nat
      /\ ~evidence[r][w].claimed /\ rounds[r].total_yes_answers > 0
      /\ evidence \in [RoundIds -> [Players -> [yes_count : Nat, claimed : BOOLEAN]]]
      /\ received \in [RoundIds -> [Players -> Nat]]
      /\ rounds \in [RoundIds -> RoundType] /\ rounds[r] \in RoundType
  BY DEF EvidenceInv, TermsInv, TypeOK, ClaimEvidence, Payable
<1>2. /\ clock' = clock /\ entries' = entries
      /\ evidence' = [evidence EXCEPT ![r] = [evidence[r] EXCEPT ![w] = account]]
      /\ received' = [received EXCEPT ![r] = [received[r] EXCEPT ![w] = @ + share]]
      /\ \A q \in RoundIds : q # r => rounds'[q] = rounds[q]
  BY <1>1 DEF ClaimEvidence
<1>3. account.yes_count = y /\ account.claimed
  <2>1. evidence[r][w] \in [yes_count : Nat, claimed : BOOLEAN]
    BY <1>1
  <2> QED BY <2>1
<1>4. /\ \A q \in RoundIds : q # r => evidence'[q] = evidence[q] /\ received'[q] = received[q]
      /\ evidence'[r][w] = account /\ received'[r][w] = received[r][w] + share
      /\ \A v \in Players : v # w => /\ evidence'[r][v] = evidence[r][v]
                                     /\ received'[r][v] = received[r][v]
  BY <1>1, <1>2
<1> HIDE DEF account
<1>5. /\ rounds'[r].status = "Settled"
      /\ rounds'[r].evidence_pool = rounds[r].evidence_pool
      /\ rounds'[r].total_yes_answers = rounds[r].total_yes_answers
  BY <1>1 DEF ClaimEvidence, RoundType, Is
<1> DEFINE Y == rounds[r].total_yes_answers
           P == rounds[r].evidence_pool
<1>6. share \in Nat /\ Y * share <= P * y
  BY <1>1, ShareWorth
<1> HIDE DEF share, y
<1> DEFINE f == received[r]
           g == received'[r]
           u == OwedYes(r)
           v == OwedYes(r)'
<1>7. /\ g[w] = f[w] + share /\ \A x \in Players : x # w => g[x] = f[x]
      /\ \A x \in Players : f[x] \in Nat /\ g[x] \in Nat
  BY <1>1, <1>4, <1>6
<1>8. /\ u[w] = y /\ v[w] = 0 /\ \A x \in Players : x # w => v[x] = u[x]
      /\ \A x \in Players : u[x] \in Nat /\ v[x] \in Nat
  <2>1. u[w] = y /\ v[w] = 0
    BY <1>1, <1>3, <1>4 DEF OwedYes, y
  <2>2. \A x \in Players : x # w => v[x] = u[x]
    BY <1>4 DEF OwedYes
  <2>3. \A x \in Players : u[x] \in Nat
    BY <1>1, AccountSums
  <2> QED BY <2>1, <2>2, <2>3
<1>9. /\ PlayerSum(received[r]) = PlayerSum(f) /\ PlayerSum(received[r])' = PlayerSum(g)
      /\ PlayerSum(OwedYes(r)) = PlayerSum(u) /\ PlayerSum(OwedYes(r))' = PlayerSum(v)
  OBVIOUS
<1>10. PlayerSum(f) \in Nat /\ PlayerSum(u) \in Nat
  BY <1>1, AccountSums
<1> HIDE DEF f, g, u, v
<1>11. PlayerSum(g) = PlayerSum(f) + share /\ PlayerSum(v) = PlayerSum(u) - y
  <2>1. PlayerSum(g) = PlayerSum(f) + g[w] - f[w]
    BY <1>7, PlayerSumChange
  <2>2. PlayerSum(v) = PlayerSum(u) + v[w] - u[w]
    BY <1>8, PlayerSumChange
  <2> QED BY <1>6, <1>7, <1>8, <1>10, <2>1, <2>2
<1> DEFINE R == PlayerSum(f)
           S == PlayerSum(u)
<1>12. Y \in Nat /\ P \in Nat /\ y \in Nat /\ Y * R + P * S <= P * Y
  BY <1>1, <1>9, RoundFields DEF AccountsOK, EvidenceOK, PoolCovers, y
<1>13. R \in Nat /\ S \in Nat
  BY <1>10
<1> HIDE DEF Y, P, R, S
<1>14. Y * (R + share) + P * (S - y) <= P * Y
  BY <1>6, <1>12, <1>13, ShareArithmetic
<1>15. PoolCovers(r)'
  BY <1>5, <1>9, <1>11, <1>14 DEF PoolCovers, Y, P, R, S
<1>16. YesCounts(r)' = YesCounts(r)
  <2>1. \A x \in Players : evidence'[r][x].yes_count = evidence[r][x].yes_count
    BY <1>3, <1>4 DEF y
  <2> QED BY <2>1 DEF YesCounts
<1>17. PlayerSum(YesCounts(r)) <= rounds[r].total_yes_answers
  BY <1>1 DEF AccountsOK, EvidenceOK, Resolved
<1>18. EvidenceOK(r)'
  BY <1>1, <1>5, <1>12, <1>15, <1>16, <1>17 DEF EvidenceOK, Is, Resolved
<1>19. EntriesOK(r)'
  BY <1>5 DEF EntriesOK, Is
<1> QED BY <1>2, <1>4, <1>18, <1>19, OneRoundSuffices DEF AccountsOK

\* sweep_v2_evidence touches none of the accounts.
LEMMA SweepAccounts ==
    ASSUME EvidenceInv, [Next]_vars, NEW r \in RoundIds, SweepEvidence(r)
    PROVE  EvidenceInv'
<1>1. /\ AccountsOK(r) /\ Is(r, "Settled")
      /\ rounds \in [RoundIds -> RoundType] /\ rounds[r] \in RoundType
  BY DEF EvidenceInv, TermsInv, TypeOK, SweepEvidence, Sweepable, Unclaimed
<1>2. /\ clock' = clock /\ entries' = entries /\ received' = received
      /\ evidence' = evidence
      /\ \A q \in RoundIds : q # r => rounds'[q] = rounds[q]
  BY <1>1 DEF SweepEvidence, Sweepable, Unclaimed
<1>3. /\ rounds'[r].status = "Settled"
      /\ rounds'[r].evidence_pool = rounds[r].evidence_pool
      /\ rounds'[r].total_yes_answers = rounds[r].total_yes_answers
  BY <1>1 DEF SweepEvidence, Sweepable, Unclaimed, RoundType, Is
<1>4. EvidenceOK(r)'
  BY <1>1, <1>2, <1>3 DEF AccountsOK, EvidenceOK, PoolCovers, NobodyPaid, YesCounts,
                          OwedYes, Is, Resolved
<1>5. EntriesOK(r)'
  BY <1>3 DEF EntriesOK, Is
<1> QED BY <1>2, <1>4, <1>5, OneRoundSuffices DEF AccountsOK

\* close_v2_evidence takes answers out of what is open and of what is owed.
LEMMA CloseEvidenceAccounts ==
    ASSUME EvidenceInv, [Next]_vars, NEW r \in RoundIds, NEW w \in Players,
           CloseEvidence(r, w)
    PROVE  EvidenceInv'
<1>1. /\ TypeOK /\ AccountsOK(r) /\ Resolved(r)
      /\ evidence \in [RoundIds -> [Players -> [yes_count : Nat, claimed : BOOLEAN]]]
  BY DEF EvidenceInv, TermsInv, TypeOK, CloseEvidence, Closable, Resolved
<1>2. /\ clock' = clock /\ entries' = entries /\ received' = received /\ rounds' = rounds
      /\ evidence' = [evidence EXCEPT ![r] = [evidence[r] EXCEPT ![w] = NoEvidence]]
  BY DEF CloseEvidence
<1>3. /\ \A q \in RoundIds : q # r => evidence'[q] = evidence[q]
      /\ evidence'[r][w] = NoEvidence
      /\ \A v \in Players : v # w => evidence'[r][v] = evidence[r][v]
  BY <1>1, <1>2
<1> DEFINE f == YesCounts(r)
           g == YesCounts(r)'
           u == OwedYes(r)
           v == OwedYes(r)'
<1>4. /\ g[w] = 0 /\ \A x \in Players : x # w => g[x] = f[x]
      /\ v[w] = 0 /\ \A x \in Players : x # w => v[x] = u[x]
  BY <1>3 DEF YesCounts, OwedYes, NoEvidence
<1>5. /\ PlayerSum(YesCounts(r)) = PlayerSum(f) /\ PlayerSum(YesCounts(r))' = PlayerSum(g)
      /\ PlayerSum(OwedYes(r)) = PlayerSum(u) /\ PlayerSum(OwedYes(r))' = PlayerSum(v)
  OBVIOUS
<1>6. /\ PlayerSum(f) \in Nat /\ PlayerSum(u) \in Nat
      /\ \A x \in Players : f[x] \in Nat /\ u[x] \in Nat
  BY <1>1, AccountSums
<1> HIDE DEF f, g, u, v
<1>7. /\ PlayerSum(g) \in Nat /\ PlayerSum(g) <= PlayerSum(f)
      /\ PlayerSum(v) \in Nat /\ PlayerSum(v) <= PlayerSum(u)
  <2>1. \A x \in Players : g[x] \in Nat /\ v[x] \in Nat
    BY <1>4, <1>6
  <2>2. PlayerSum(g) = PlayerSum(f) + g[w] - f[w] /\ PlayerSum(g) \in Nat
    BY <1>4, <1>6, <2>1, PlayerSumChange, PlayerSumNat
  <2>3. PlayerSum(v) = PlayerSum(u) + v[w] - u[w] /\ PlayerSum(v) \in Nat
    BY <1>4, <1>6, <2>1, PlayerSumChange, PlayerSumNat
  <2> QED BY <1>4, <1>6, <2>2, <2>3
<1>8. ASSUME Is(r, "Settled") PROVE PoolCovers(r)'
  <2> DEFINE Y == rounds[r].total_yes_answers
             P == rounds[r].evidence_pool
             R == PlayerSum(received[r])
             S == PlayerSum(u)
             T == PlayerSum(v)
  <2>1. Y * R + P * S <= P * Y
    BY <1>1, <1>5, <1>8 DEF AccountsOK, EvidenceOK, PoolCovers
  <2>2. /\ Y \in Nat /\ P \in Nat /\ R \in Nat /\ S \in Nat /\ T \in Nat /\ T <= S
    BY <1>1, <1>6, <1>7, RoundFields, AccountSums
  <2> HIDE DEF Y, P, R, S, T
  <2>3. P * T <= P * S
    BY <2>2, SMT
  <2>4. Y * R \in Int /\ P * S \in Int /\ P * T \in Int /\ P * Y \in Int
    BY <2>2, SMT
  <2>5. Y * R + P * T <= P * Y
    BY <2>1, <2>3, <2>4
  <2> QED BY <1>2, <1>5, <2>5 DEF PoolCovers, Y, P, R, T
<1>9. PlayerSum(f) <= rounds[r].total_yes_answers /\ rounds[r].total_yes_answers \in Nat
  BY <1>1, <1>5, RoundFields DEF AccountsOK, EvidenceOK
<1>10. EvidenceOK(r)'
  BY <1>1, <1>2, <1>5, <1>6, <1>7, <1>8, <1>9
     DEF AccountsOK, EvidenceOK, Is, Resolved, NobodyPaid
<1>11. EntriesOK(r)'
  BY <1>1, <1>2 DEF EntriesOK, Is, Resolved
<1> QED BY <1>2, <1>3, <1>10, <1>11, OneRoundSuffices DEF AccountsOK

\* close_v2_entry and close_v2_round concern rounds that can not be resolved
\* any more.
LEMMA CloseEntryAccounts ==
    ASSUME EvidenceInv, [Next]_vars, NEW r \in RoundIds, NEW p \in Players,
           CloseEntry(r, p)
    PROVE  EvidenceInv'
<1>1. /\ AccountsOK(r) /\ Resolved(r) /\ entries \in [RoundIds -> [Players -> Nat]]
  BY DEF EvidenceInv, TermsInv, TypeOK, CloseEntry, Closable, Resolved
<1>2. /\ clock' = clock /\ evidence' = evidence /\ received' = received /\ rounds' = rounds
      /\ \A q \in RoundIds : q # r => entries'[q] = entries[q]
  BY <1>1 DEF CloseEntry
<1>3. EntriesOK(r)'
  BY <1>1, <1>2 DEF EntriesOK, Is, Resolved
<1>4. EvidenceOK(r)'
  BY <1>1, <1>2 DEF AccountsOK, EvidenceOK, PoolCovers, NobodyPaid, YesCounts, OwedYes,
                    Is, Resolved
<1> QED BY <1>2, <1>3, <1>4, OneRoundSuffices DEF AccountsOK

LEMMA CloseRoundAccounts ==
    ASSUME EvidenceInv, [Next]_vars, NEW r \in RoundIds, CloseRound(r)
    PROVE  EvidenceInv'
<1>1. rounds \in [RoundIds -> RoundType]
  BY DEF EvidenceInv, TermsInv, TypeOK
<1>2. /\ clock' = clock /\ evidence' = evidence /\ received' = received
      /\ entries' = entries /\ rounds'[r].status = "Closed"
      /\ \A q \in RoundIds : q # r => rounds'[q] = rounds[q]
  BY <1>1 DEF CloseRound, NoRound
<1>3. AccountsOK(r)'
  BY <1>2 DEF AccountsOK, EntriesOK, EvidenceOK, Is, Resolved
<1> QED BY <1>2, <1>3, OneRoundSuffices

-----------------------------------------------------------------------------
(* The theorems about Spec.                                                *)

LEMMA EvidenceStep ==
    ASSUME EvidenceInv, [Next]_vars
    PROVE  EvidenceInv'
<1>1. TypeOK /\ rounds \in [RoundIds -> RoundType] /\ clock \in Nat
  BY DEF EvidenceInv, TermsInv, TypeOK
<1>2. ASSUME clock' \in {clock, clock + 1},
             UNCHANGED <<rounds, entries, evidence, received>>
      PROVE  EvidenceInv'
  BY <1>2, TermsStep, OtherAccountsOK DEF EvidenceInv, TermsInv
<1>3. ASSUME NEW r \in RoundIds, NEW reveal \in Reveals,
             Expire(r, reveal[1], reveal[2])
      PROVE  EvidenceInv'
  <2>1. /\ rounds'[r].status = "Expired"
        /\ rounds'[r].total_yes_answers = rounds[r].total_yes_answers
        /\ \A q \in RoundIds : q # r => rounds'[q] = rounds[q]
    BY <1>1, <1>3 DEF Expire, RoundType
  <2> QED BY <1>3, <2>1, ExpireAccounts DEF Expire, RoundActive
<1>4. ASSUME NEW r \in RoundIds, ForceExpire(r) PROVE EvidenceInv'
  <2>1. /\ rounds'[r].status = "Expired"
        /\ rounds'[r].total_yes_answers = rounds[r].total_yes_answers
        /\ \A q \in RoundIds : q # r => rounds'[q] = rounds[q]
    BY <1>1, <1>4 DEF ForceExpire, RoundType
  <2> QED BY <1>4, <2>1, ExpireAccounts DEF ForceExpire, RoundActive
<1> QED BY <1>2, <1>3, <1>4, CreateAccounts, EnterAccounts, RecordAccounts,
           SettleAccounts, ClaimAccounts, SweepAccounts, CloseEvidenceAccounts,
           CloseEntryAccounts, CloseRoundAccounts
        DEF Next, Unrestricted, vars, Initialize, Donate, Gift, Tick

\* The inductive invariant: the counters of a round that can be resolved agree
\* with its accounts, and what was paid and what is owed fit in its pool.
THEOREM EvidenceInvariant == Spec => []EvidenceInv
<1>1. EvidenceInv /\ [Next]_vars => EvidenceInv'
  BY EvidenceStep
<1> QED BY <1>1, EvidenceInit, PTL DEF Spec

\* What settle and expire split is what the open entry accounts paid, and every
\* entry is counted once, whatever the authority does.
THEOREM EntriesBack == Spec => []EntriesBackDeposits
<1>1. EvidenceInv => EntriesBackDeposits
  BY DEF EvidenceInv, AccountsOK, EntriesOK, EntriesBackDeposits
<1> QED BY <1>1, EvidenceInvariant, PTL

\* No answer that can still be claimed is missing from the number that the pool
\* is divided by, and none is counted twice while the round is Active.
THEOREM AnswersTallied == Spec => []EvidenceTally
<1>1. EvidenceInv => EvidenceTally
  BY DEF EvidenceInv, AccountsOK, EvidenceOK, EvidenceTally
<1> QED BY <1>1, EvidenceInvariant, PTL

\* What the pool covers is not more than the pool.
LEMMA CoveredIsPaidWithin ==
    ASSUME EvidenceInv, NEW r \in RoundIds, Is(r, "Settled")
    PROVE  PlayerSum(received[r]) <= rounds[r].evidence_pool
<1> DEFINE Y == rounds[r].total_yes_answers
           P == rounds[r].evidence_pool
           R == PlayerSum(received[r])
           S == PlayerSum(OwedYes(r))
<1>1. Y \in Nat /\ P \in Nat /\ R \in Nat /\ S \in Nat
  BY RoundFields, AccountSums DEF EvidenceInv, TermsInv
<1>2. Y * R + P * S <= P * Y /\ (Y = 0 => R = 0)
  BY PlayerSumZero DEF EvidenceInv, AccountsOK, EvidenceOK, PoolCovers, NobodyPaid
<1> HIDE DEF Y, P, R, S
<1>3. P * S \in Nat /\ Y * R \in Nat /\ P * Y \in Nat
  BY <1>1, SMT
<1>4. Y * R <= P * Y
  BY <1>2, <1>3
<1>5. Y > 0 /\ R > P => Y * R > P * Y
  BY <1>1, SMT
<1>6. R <= P
  BY <1>1, <1>2, <1>3, <1>4, <1>5
<1> QED BY <1>6 DEF R, P

\* The lamports paid for one round's evidence never exceed the pool that settle
\* set aside, in whatever order claims, sweeps and closings come.
THEOREM PayoutsWithin == Spec => []EvidencePayoutsWithinPool
<1>1. EvidenceInv => EvidencePayoutsWithinPool
  BY CoveredIsPaidWithin DEF EvidencePayoutsWithinPool
<1> QED BY <1>1, EvidenceInvariant, PTL

-----------------------------------------------------------------------------
(* The documented cleanup order: what evidence_claimed stands for.         *)

LEMMA OperatedIsSequential == OperatedNext => SequentialNext
BY DEF OperatedNext, SequentialNext, SweepLast, CloseRoundLast

\* Until the sweep, evidence_claimed is what was paid; after it, it is the pool,
\* and nobody is left to be paid.
PaidOrSwept(r) ==
    Is(r, "Settled") =>
        \/ rounds[r].evidence_claimed = PlayerSum(received[r])
        \/ /\ rounds[r].evidence_claimed = rounds[r].evidence_pool
           /\ \A w \in Players : ~Payable(r, w)

\* Before initialize there is no rollover.
NothingYet == ~game.initialized => game.rollover_balance = 0

OperatedInv ==
    /\ SequentialInv /\ EvidenceInv /\ NothingYet
    /\ \A r \in RoundIds : PaidOrSwept(r)

LEMMA OperatedInit == Init => OperatedInv
<1>1. Init => NothingYet /\ \A r \in RoundIds : PaidOrSwept(r)
  BY DEF Init, NothingYet, PaidOrSwept, Is, NoRound
<1> QED BY <1>1, SequentialInit, EvidenceInit DEF OperatedInv

\* A share can be paid until the pool is swept, and fits in what is left of it.
LEMMA ShareWithinRest ==
    ASSUME OperatedInv, NEW r \in RoundIds, NEW w \in Players, Payable(r, w)
    PROVE  Share(r, w) <= rounds[r].evidence_pool - rounds[r].evidence_claimed
<1> DEFINE Y == rounds[r].total_yes_answers
           P == rounds[r].evidence_pool
           R == PlayerSum(received[r])
           S == PlayerSum(OwedYes(r))
           y == evidence[r][w].yes_count
           share == Share(r, w)
<1>1. TypeOK /\ Is(r, "Settled") /\ rounds[r].evidence_claimed = R /\ Y > 0
  BY DEF OperatedInv, SequentialInv, PaidOrSwept, Payable
<1>2. Y \in Nat /\ P \in Nat /\ R \in Nat /\ S \in Nat /\ y \in Nat
  BY <1>1, RoundFields, AccountSums
<1>3. share \in Nat /\ Y * share <= P * y
  BY <1>1, ShareWorth
<1>4. Y * R + P * S <= P * Y
  BY <1>1 DEF OperatedInv, EvidenceInv, AccountsOK, EvidenceOK, PoolCovers
<1>5. y <= S
  <2> DEFINE u == OwedYes(r)
  <2>1. u[w] = y /\ \A v \in Players : u[v] \in Nat
    BY <1>1, AccountSums DEF OwedYes, Payable
  <2> HIDE DEF u, y
  <2>2. u[w] <= PlayerSum(u)
    BY <2>1, PlayerSumTerm
  <2> QED BY <2>1, <2>2 DEF u
<1> HIDE DEF Y, P, R, S, y, share
<1>6. Y * (R + share) + P * (S - y) <= P * Y
  BY <1>2, <1>3, <1>4, ShareArithmetic
<1>7. P * (S - y) \in Nat /\ Y * (R + share) \in Nat /\ P * Y \in Nat
  <2>1. S - y \in Nat /\ R + share \in Nat
    BY <1>2, <1>3, <1>5
  <2> DEFINE d == S - y
             e == R + share
  <2> HIDE DEF d, e
  <2>2. P * d \in Nat /\ Y * e \in Nat /\ P * Y \in Nat
    BY <1>2, <2>1, SMT DEF d, e
  <2> QED BY <2>2 DEF d, e
<1>8. Y * (R + share) <= P * Y
  BY <1>6, <1>7
<1>9. R + share <= P
  <2> DEFINE e == R + share
  <2>1. e \in Nat /\ Y * e <= P * Y
    BY <1>2, <1>3, <1>8
  <2> HIDE DEF e
  <2>2. Y \in Nat /\ Y > 0
    BY <1>1, <1>2 DEF Y
  <2>3. e > P => Y * e > P * Y
    BY <1>2, <2>1, <2>2, SMT
  <2>4. Y * e \in Int /\ P * Y \in Int
    BY <1>2, <2>1, SMT
  <2>5. e <= P
    BY <1>2, <2>1, <2>3, <2>4
  <2> QED BY <2>5 DEF e
<1> QED BY <1>1, <1>2, <1>3, <1>9 DEF P, R, share

\* A round whose pool and evidence accounts are not written.
LEMMA SamePaidOrSwept ==
    ASSUME NEW r \in RoundIds, PaidOrSwept(r),
           rounds'[r].status = rounds[r].status,
           rounds'[r].evidence_pool = rounds[r].evidence_pool,
           rounds'[r].evidence_claimed = rounds[r].evidence_claimed,
           rounds'[r].total_yes_answers = rounds[r].total_yes_answers,
           evidence'[r] = evidence[r], received'[r] = received[r]
    PROVE  PaidOrSwept(r)'
BY DEF PaidOrSwept, Payable, Share, Is

LEMMA OperatedStep ==
    ASSUME OperatedInv, [OperatedNext]_vars
    PROVE  OperatedInv'
<1>1. /\ SequentialInv /\ SequentialInv' /\ EvidenceInv /\ EvidenceInv' /\ TypeOK
      /\ \A q \in RoundIds : PaidOrSwept(q)
  BY OperatedIsSequential, OperatedIsNext, SequentialStep, EvidenceStep
     DEF OperatedInv, SequentialInv
<1>2. /\ rounds \in [RoundIds -> RoundType] /\ game \in GameType /\ NothingYet
      /\ \A r \in RoundIds : rounds[r] \in RoundType
      /\ evidence \in [RoundIds -> [Players -> [yes_count : Nat, claimed : BOOLEAN]]]
      /\ received \in [RoundIds -> [Players -> Nat]]
  BY <1>1 DEF TypeOK, OperatedInv
<1> DEFINE Goal == NothingYet' /\ \A q \in RoundIds : PaidOrSwept(q)'
<1>3. ASSUME NEW r \in RoundIds, PaidOrSwept(r)', NothingYet',
             \A q \in RoundIds : q # r =>
                /\ rounds'[q] = rounds[q] /\ evidence'[q] = evidence[q]
                /\ received'[q] = received[q]
      PROVE  Goal
  BY <1>1, <1>3, SamePaidOrSwept
<1>4. ASSUME UNCHANGED <<rounds, evidence, received>>, NothingYet' PROVE Goal
  BY <1>1, <1>4, SamePaidOrSwept
<1>5. \A r \in RoundIds : ~Is(r, "None") => game.initialized
  BY <1>1, Created
<1>6. ASSUME game' = game PROVE NothingYet'
  BY <1>2, <1>6 DEF NothingYet
<1>7. ASSUME NEW c \in Configs, Initialize(c) PROVE Goal
  BY <1>4, <1>7 DEF Initialize, NothingYet
<1>8. ASSUME NEW c \in Commits, CreateInTurn(c) PROVE Goal
  <2>1. PICK id \in RoundIds : id = game.current_round_id + 1
    BY <1>8 DEF CreateInTurn, CreateRound
  <2>2. /\ rounds'[id].status = "Active" /\ evidence' = evidence /\ received' = received
        /\ \A q \in RoundIds : q # id => rounds'[q] = rounds[q]
        /\ NothingYet'
    BY <1>2, <1>8, <2>1 DEF CreateInTurn, CreateRound, NoRound, NothingYet, GameType
  <2>3. PaidOrSwept(id)'
    BY <2>2 DEF PaidOrSwept, Is
  <2> QED BY <1>3, <2>2, <2>3
<1>9. ASSUME NEW r \in RoundIds, NEW p \in Players, NEW a \in EntryAmounts,
             Enter(r, p, a)
      PROVE  Goal
  <2>1. /\ rounds'[r].status = "Active" /\ evidence' = evidence /\ received' = received
        /\ \A q \in RoundIds : q # r => rounds'[q] = rounds[q]
        /\ game' = game
    BY <1>2, <1>9 DEF Enter, RoundActive, Is, RoundType
  <2>2. PaidOrSwept(r)'
    BY <2>1 DEF PaidOrSwept, Is
  <2> QED BY <1>3, <1>6, <2>1, <2>2
<1>10. ASSUME NEW a \in Donations, Donate(a) PROVE Goal
  BY <1>2, <1>4, <1>10 DEF Donate, NothingYet, GameType
<1>11. ASSUME NEW r \in RoundIds, NEW w \in Players, RecordEvidence(r, w)
       PROVE  Goal
  <2>1. /\ rounds'[r].status = "Active" /\ received' = received /\ game' = game
        /\ \A q \in RoundIds : q # r => rounds'[q] = rounds[q] /\ evidence'[q] = evidence[q]
    BY <1>2, <1>11 DEF RecordEvidence, RoundActive, Is, RoundType
  <2>2. PaidOrSwept(r)'
    BY <2>1 DEF PaidOrSwept, Is
  <2> QED BY <1>3, <1>6, <2>1, <2>2
<1>12. ASSUME NEW r \in RoundIds, NEW reveal \in Reveals,
              Settle(r, reveal[1], reveal[2])
       PROVE  Goal
  <2>1. /\ Is(r, "Active") /\ evidence' = evidence /\ received' = received
        /\ rounds'[r].status = "Settled"
        /\ rounds'[r].evidence_claimed = rounds[r].evidence_claimed
        /\ \A q \in RoundIds : q # r => rounds'[q] = rounds[q]
        /\ game' = [game EXCEPT !.rollover_balance = FinalRollover(r) + DonationsDuring(r)]
    BY <1>2, <1>12 DEF Settle, RoundActive, RoundType
  <2>2. rounds[r].evidence_claimed = 0
    BY <1>1, <2>1 DEF SequentialInv, Bookkeeping, Is
  <2>3. PlayerSum(received[r]) = 0
    <3>1. NobodyPaid(r)
      BY <1>1, <2>1 DEF EvidenceInv, AccountsOK, EvidenceOK
    <3> DEFINE f == received[r]
    <3>2. \A w \in Players : f[w] = 0
      BY <3>1 DEF NobodyPaid
    <3> HIDE DEF f
    <3>3. PlayerSum(f) = 0
      BY <3>2, PlayerSumZero
    <3> QED BY <3>3 DEF f
  <2>4. PaidOrSwept(r)'
    BY <2>1, <2>2, <2>3 DEF PaidOrSwept
  <2>5. NothingYet'
    BY <1>2, <1>5, <2>1 DEF NothingYet, GameType, Is
  <2> QED BY <1>3, <2>1, <2>4, <2>5
<1>13. ASSUME NEW r \in RoundIds, Is(r, "Active"), PayExpired(r),
              rounds'[r].status = "Expired", UNCHANGED <<evidence, received>>,
              \A q \in RoundIds : q # r => rounds'[q] = rounds[q]
       PROVE  Goal
  <2>1. PaidOrSwept(r)'
    BY <1>13 DEF PaidOrSwept, Is
  <2>2. NothingYet'
    BY <1>2, <1>5, <1>13 DEF NothingYet, GameType, Is, PayExpired
  <2> QED BY <1>3, <1>13, <2>1, <2>2
<1>14. ASSUME NEW r \in RoundIds, NEW reveal \in Reveals,
              Expire(r, reveal[1], reveal[2])
       PROVE  Goal
  <2>1. rounds'[r].status = "Expired" /\ \A q \in RoundIds : q # r => rounds'[q] = rounds[q]
    BY <1>2, <1>14 DEF Expire, RoundType
  <2> QED BY <1>13, <1>14, <2>1 DEF Expire, RoundActive
<1>15. ASSUME NEW r \in RoundIds, ForceExpire(r) PROVE Goal
  <2>1. rounds'[r].status = "Expired" /\ \A q \in RoundIds : q # r => rounds'[q] = rounds[q]
    BY <1>2, <1>15 DEF ForceExpire, RoundType
  <2> QED BY <1>13, <1>15, <2>1 DEF ForceExpire, RoundActive
<1>16. ASSUME NEW r \in RoundIds, NEW w \in Players, ClaimEvidence(r, w)
       PROVE  Goal
  <2> DEFINE share == Share(r, w)
             f == received[r]
             g == received'[r]
  <2>1. Payable(r, w) /\ Is(r, "Settled") /\ game' = game
    BY <1>16 DEF ClaimEvidence, Payable
  <2>2. share \in Nat /\ PlayerSum(f) \in Nat /\ rounds[r].evidence_claimed = PlayerSum(f)
    BY <1>1, <2>1, ShareType, AccountSums DEF PaidOrSwept
  <2>3. /\ received' = [received EXCEPT ![r] = [received[r] EXCEPT ![w] = @ + share]]
        /\ \A q \in RoundIds : q # r => rounds'[q] = rounds[q] /\ evidence'[q] = evidence[q]
        /\ rounds'[r].evidence_claimed = rounds[r].evidence_claimed + share
    BY <1>2, <1>16 DEF ClaimEvidence, RoundType
  <2> HIDE DEF share
  <2>4. /\ g[w] = f[w] + share /\ \A v \in Players : v # w => g[v] = f[v]
        /\ \A v \in Players : f[v] \in Nat /\ g[v] \in Nat
        /\ \A q \in RoundIds : q # r => received'[q] = received[q]
    BY <1>2, <2>2, <2>3
  <2>5. PlayerSum(received[r])' = PlayerSum(g)
    OBVIOUS
  <2> HIDE DEF f, g
  <2>6. PlayerSum(g) = PlayerSum(f) + g[w] - f[w]
    BY <2>4, PlayerSumChange
  <2>7. rounds'[r].evidence_claimed = PlayerSum(received[r])'
    BY <2>2, <2>3, <2>4, <2>5, <2>6
  <2>8. PaidOrSwept(r)'
    BY <2>7 DEF PaidOrSwept
  <2> QED BY <1>3, <1>6, <2>1, <2>3, <2>4, <2>8
<1>17. ASSUME NEW r \in RoundIds, SweepLast(r) PROVE Goal
  <2>1. /\ SweepEvidence(r) /\ \A w \in Players : ~Payable(r, w)
        /\ Is(r, "Settled") /\ evidence' = evidence /\ received' = received
    BY <1>17 DEF SweepLast, SweepEvidence, Sweepable, Unclaimed
  <2>2. /\ rounds'[r].status = rounds[r].status
        /\ rounds'[r].evidence_pool = rounds[r].evidence_pool
        /\ rounds'[r].evidence_claimed = rounds[r].evidence_pool
        /\ rounds'[r].total_yes_answers = rounds[r].total_yes_answers
        /\ \A q \in RoundIds : q # r => rounds'[q] = rounds[q]
        /\ game'.initialized = game.initialized
    BY <1>2, <2>1 DEF SweepEvidence, Sweepable, Unclaimed, RoundType, GameType
  <2>3. \A w \in Players : ~Payable(r, w)'
    BY <2>1, <2>2 DEF Payable, Share, Is
  <2>4. PaidOrSwept(r)'
    BY <2>2, <2>3 DEF PaidOrSwept
  <2>5. NothingYet'
    BY <1>5, <2>1, <2>2 DEF NothingYet, Is
  <2> QED BY <1>3, <2>1, <2>2, <2>4, <2>5
<1>18. ASSUME NEW r \in RoundIds, NEW w \in Players, CloseEvidence(r, w)
       PROVE  Goal
  <2>1. /\ rounds' = rounds /\ received' = received /\ game' = game
        /\ evidence'[r][w] = NoEvidence
        /\ \A v \in Players : v # w => evidence'[r][v] = evidence[r][v]
        /\ \A q \in RoundIds : q # r => evidence'[q] = evidence[q]
    BY <1>2, <1>18 DEF CloseEvidence
  <2>2. \A v \in Players : Payable(r, v)' => Payable(r, v)
    BY <2>1 DEF Payable, Share, Is, NoEvidence
  <2>3. PaidOrSwept(r)'
    BY <1>1, <2>1, <2>2 DEF PaidOrSwept, Is
  <2> QED BY <1>3, <1>6, <2>1, <2>3
<1>19. ASSUME NEW r \in RoundIds, NEW p \in Players, CloseEntry(r, p) PROVE Goal
  BY <1>4, <1>6, <1>19 DEF CloseEntry
<1>20. ASSUME NEW r \in RoundIds, CloseRoundLast(r) PROVE Goal
  <2>1. /\ evidence' = evidence /\ received' = received /\ game' = game
        /\ rounds'[r].status = "Closed"
        /\ \A q \in RoundIds : q # r => rounds'[q] = rounds[q]
    BY <1>2, <1>20 DEF CloseRoundLast, CloseRound, NoRound
  <2>2. PaidOrSwept(r)'
    BY <2>1 DEF PaidOrSwept, Is
  <2> QED BY <1>3, <1>6, <2>1, <2>2
<1>21. ASSUME NEW a \in Gifts, Gift(a) PROVE Goal
  BY <1>4, <1>6, <1>21 DEF Gift
<1>22. ASSUME Tick \/ UNCHANGED vars PROVE Goal
  BY <1>4, <1>6, <1>22 DEF Tick, vars
<1>23. Goal
  <2> HIDE DEF Goal
  <2> QED BY <1>7, <1>8, <1>9, <1>10, <1>11, <1>12, <1>14, <1>15, <1>16, <1>17, <1>18,
             <1>19, <1>20, <1>21, <1>22
          DEF OperatedNext, Unrestricted
<1> QED BY <1>1, <1>23 DEF OperatedInv

\* The inductive invariant of the documented operation.
THEOREM OperatedInvariant == OperatedSpec => []OperatedInv
<1>1. OperatedInv /\ [OperatedNext]_vars => OperatedInv'
  BY OperatedStep
<1> QED BY <1>1, OperatedInit, PTL DEF OperatedSpec

LEMMA OperatedClaims ==
    ASSUME OperatedInv
    PROVE  ClaimedWithinPool
<1> SUFFICES ASSUME NEW r \in RoundIds
             PROVE  rounds[r].evidence_claimed <= rounds[r].evidence_pool
  BY DEF ClaimedWithinPool
<1>1. rounds[r].evidence_claimed \in Nat /\ rounds[r].evidence_pool \in Nat
  BY RoundFields DEF OperatedInv, SequentialInv
<1>2. CASE Is(r, "Settled")
  <2>1. PlayerSum(received[r]) <= rounds[r].evidence_pool
    BY <1>2, CoveredIsPaidWithin DEF OperatedInv
  <2> QED BY <1>1, <1>2, <2>1 DEF OperatedInv, PaidOrSwept
<1>3. CASE ~Is(r, "Settled")
  BY <1>1, <1>3 DEF OperatedInv, SequentialInv, Bookkeeping
<1> QED BY <1>2, <1>3

\* evidence_claimed never runs past the pool when the sweep waits for the claims:
\* sweep's checked_sub does not fail, and close_v2_round's equality is reached.
THEOREM ClaimsWithin == OperatedSpec => []ClaimedWithinPool
<1>1. OperatedInv => ClaimedWithinPool
  BY OperatedClaims
<1> QED BY <1>1, OperatedInvariant, PTL

\* What each round holds is then no debt, and the vault has all of it.
LEMMA OperatedHeld ==
    ASSUME OperatedInv
    PROVE  /\ \A r \in RoundIds : Held(r) \in Nat
           /\ TotalHeld \in Nat
           /\ \A r \in RoundIds : Held(r) <= TotalHeld
<1>1. \A r \in RoundIds : /\ rounds[r].total_deposits \in Nat
                          /\ rounds[r].evidence_pool \in Nat
                          /\ rounds[r].evidence_claimed \in Nat
                          /\ rounds[r].evidence_claimed <= rounds[r].evidence_pool
  BY RoundFields, OperatedClaims DEF OperatedInv, SequentialInv, ClaimedWithinPool
<1>2. \A r \in RoundIds : Held(r) \in Nat
  BY <1>1 DEF Held
<1> DEFINE f == [r \in RoundIds |-> Held(r)]
<1>3. MAX_ROUNDS \in Nat /\ \A i \in 1..MAX_ROUNDS : f[i] \in Nat
  BY <1>2, V2Assumption DEF RoundIds
<1>4. TotalHeld = SumTo(f, MAX_ROUNDS) /\ \A r \in RoundIds : f[r] = Held(r)
  BY DEF TotalHeld
<1> HIDE DEF f
<1>5. SumTo(f, MAX_ROUNDS) \in Nat
  BY <1>3, SumToNat
<1>6. \A i \in 1..MAX_ROUNDS : f[i] <= SumTo(f, MAX_ROUNDS)
  BY <1>3, SumToTerm
<1> QED BY <1>2, <1>4, <1>5, <1>6 DEF RoundIds

LEMMA OperatedSolvent ==
    ASSUME OperatedInv
    PROVE  Solvent
<1> SUFFICES ASSUME NEW r \in RoundIds
             PROVE  /\ Is(r, "Active") => Pool(r) <= vault - VAULT_RENT
                    /\ \A w \in Players : Payable(r, w) => Share(r, w) <= vault - VAULT_RENT
  BY DEF Solvent
<1>1. TypeOK /\ SequentialInv
  BY DEF OperatedInv, SequentialInv
<1>2. /\ vault \in Nat /\ gifts \in Nat /\ VAULT_RENT \in Nat
      /\ game.rollover_balance \in Nat
      /\ rounds[r].total_deposits \in Nat /\ rounds[r].rollover_in \in Nat
      /\ rounds[r].evidence_pool \in Nat /\ rounds[r].evidence_claimed \in Nat
  BY <1>1, RoundFields, V2Assumption DEF TypeOK
<1>3. Held(r) \in Nat /\ TotalHeld \in Nat /\ Held(r) <= TotalHeld
  BY OperatedHeld
<1>4. ~Is(r, "None") => vault = VAULT_RENT + gifts + game.rollover_balance + TotalHeld
  BY <1>1, Created DEF SequentialInv, Conservation
<1>5. ASSUME Is(r, "Active") PROVE Pool(r) <= vault - VAULT_RENT
  <2>1. rounds[r].rollover_in <= game.rollover_balance
    BY <1>1, <1>5 DEF SequentialInv, SnapshotCovered
  <2>2. Pool(r) = Held(r) + rounds[r].rollover_in
    BY <1>5 DEF Pool, Held
  <2>3. vault = VAULT_RENT + gifts + game.rollover_balance + TotalHeld
    BY <1>4, <1>5 DEF Is
  <2> QED BY <1>2, <1>3, <2>1, <2>2, <2>3
<1>6. ASSUME NEW w \in Players, Payable(r, w) PROVE Share(r, w) <= vault - VAULT_RENT
  <2>1. Share(r, w) <= Held(r) /\ Share(r, w) \in Nat /\ ~Is(r, "None")
    BY <1>1, <1>6, ShareWithinRest, ShareType DEF Payable, Held, Is
  <2> QED BY <1>2, <1>3, <1>4, <2>1
<1> QED BY <1>5, <1>6

\* The vault can always pay what it owes when rounds are created one at a time
\* and cleaned up in the documented order: every payable share, and the whole
\* pool of the Active round, for any amounts, gifts and rounding.
THEOREM AlwaysSolvent == OperatedSpec => []Solvent
<1>1. OperatedInv => Solvent
  BY OperatedSolvent
<1> QED BY <1>1, OperatedInvariant, PTL

\* What force_expire asks besides an Active round past its grace period, of a
\* round whose deposits its own multiplication can split.
ExitOpen ==
    \A r \in RoundIds :
        Is(r, "Active") /\ ExpireSplitFits(r) /\ Fits(vault) => ExpirePayoutOk(r)

\* The new rollover is the old one and what the round gives back, and the vault,
\* whose lamports are a u64, holds both.
LEMMA OperatedExit ==
    ASSUME OperatedInv
    PROVE  ExitOpen
<1> SUFFICES ASSUME NEW r \in RoundIds, Is(r, "Active"), ExpireSplitFits(r), Fits(vault)
             PROVE  ExpirePayoutOk(r)
  BY DEF ExitOpen
<1>1. TypeOK /\ SequentialInv /\ Solvent
  BY OperatedSolvent DEF OperatedInv, SequentialInv
<1>2. /\ vault \in Nat /\ gifts \in Nat /\ VAULT_RENT \in Nat /\ RENT_CHECK \in Nat
      /\ RENT_CHECK <= VAULT_RENT /\ game.rollover_balance \in Nat /\ MAX_U64 \in Nat
      /\ rounds[r].total_deposits \in Nat /\ rounds[r].rollover_in \in Nat
  BY <1>1, RoundFields, V2Assumption, MaxU64Assumption DEF TypeOK
<1>3. /\ ExpireOutgoing(r) \in Nat /\ ExpireOutgoing(r) <= rounds[r].total_deposits
      /\ ExpireRollover(r) = Pool(r) - ExpireOutgoing(r)
      /\ Pool(r) = rounds[r].total_deposits + rounds[r].rollover_in
  <2>1. /\ Pool(r) = rounds[r].total_deposits + rounds[r].rollover_in
        /\ ExpireRollover(r) =
              rounds[r].rollover_in + rounds[r].total_deposits - ExpireOutgoing(r)
    BY DEF Pool, ExpireRollover
  <2>2. ExpireOutgoing(r) \in Nat /\ ExpireOutgoing(r) <= rounds[r].total_deposits
    BY <1>1, ExpireSplitType
  <2> QED BY <1>2, <2>1, <2>2
<1>4. Pool(r) <= vault - VAULT_RENT /\ vault <= MAX_U64
  BY <1>1 DEF Solvent, Fits
<1>5. DonationsDuring(r) = game.rollover_balance - rounds[r].rollover_in
  <2>1. rounds[r].rollover_in <= game.rollover_balance
    BY <1>1 DEF SequentialInv, SnapshotCovered
  <2> QED BY <1>2, <2>1 DEF DonationsDuring, SaturatingSub
<1>6. rounds[r].total_deposits + game.rollover_balance <= vault
  <2>1. Held(r) \in Nat /\ TotalHeld \in Nat /\ Held(r) <= TotalHeld
    BY OperatedHeld
  <2>2. vault = VAULT_RENT + gifts + game.rollover_balance + TotalHeld
    BY <1>1, Created DEF SequentialInv, Conservation, Is
  <2>3. Held(r) = rounds[r].total_deposits
    BY DEF Held
  <2> QED BY <1>2, <2>1, <2>2, <2>3
<1>7. /\ ExpireRollover(r) <= MAX_U64 /\ Pool(r) <= MAX_U64
      /\ ExpireRollover(r) + DonationsDuring(r) <= MAX_U64
  BY <1>2, <1>3, <1>4, <1>5, <1>6
<1>8. /\ vault - ExpireOutgoing(r) >= RENT_CHECK
      /\ vault - ExpireOutgoing(r) >= VAULT_RENT
  BY <1>2, <1>3, <1>4
<1> QED BY <1>7, <1>8 DEF ExpirePayoutOk, Fits, RuntimeAccepts

\* The exit the security model promises is open to any wallet: with rounds one at
\* a time and the documented cleanup, force_expire's payout is refused for no
\* Active round but one whose deposits times 4750 overflow.
THEOREM ExitIsOpen == OperatedSpec => []ExitOpen
<1>1. OperatedInv => ExitOpen
  BY OperatedExit
<1> QED BY <1>1, OperatedInvariant, PTL

-----------------------------------------------------------------------------
(* The refinement.                                                         *)

MappedNext == [Prize!PoolNext]_(Prize!poolVars)

\* The pool's sum is the program's.
LEMMA SameSum == ASSUME NEW f, NEW n PROVE Prize!SumTo(f, n) = SumTo(f, n)
BY DEF Prize!SumTo, SumTo, Prize!SumFunctionOnSet, SumFunctionOnSet,
       Prize!FoldFunctionOnSet, FoldFunctionOnSet, Prize!MapThenFoldSet, MapThenFoldSet

\* One copy of the rollover is out, the Active round's, or none.
OneCopy ==
    /\ NoActiveRound => Rollover = game.rollover_balance
    /\ \A r \in RoundIds : Is(r, "Active") =>
          Rollover = game.rollover_balance - rounds[r].rollover_in

LEMMA CopiesOut == SequentialInv => OneCopy
<1> SUFFICES ASSUME SequentialInv PROVE OneCopy
  OBVIOUS
<1> DEFINE f == [r \in RoundIds |-> 0]
           g == [r \in RoundIds |-> IF Is(r, "Active") THEN rounds[r].rollover_in ELSE 0]
<1>1. /\ MAX_ROUNDS \in Nat /\ game.rollover_balance \in Nat
      /\ \A i \in 1..MAX_ROUNDS : f[i] = 0 /\ g[i] \in Int
  BY RoundFields, V2Assumption DEF SequentialInv, TypeOK, GameType, RoundIds
<1>2. Rollover = game.rollover_balance - SumTo(g, MAX_ROUNDS)
  BY DEF Rollover
<1>3. NoActiveRound => \A i \in 1..MAX_ROUNDS : g[i] = 0
  BY DEF NoActiveRound, RoundIds
<1>4. \A r \in RoundIds : Is(r, "Active") =>
         g[r] = rounds[r].rollover_in /\ \A i \in 1..MAX_ROUNDS : i # r => g[i] = 0
  BY DEF RoundIds, SequentialInv, Bookkeeping
<1> HIDE DEF f, g
<1>5. SumTo(f, MAX_ROUNDS) = 0
  BY <1>1, SumToZero
<1>6. NoActiveRound => SumTo(g, MAX_ROUNDS) = 0
  BY <1>1, <1>3, SumToZero
<1>7. ASSUME NEW r \in RoundIds, Is(r, "Active") PROVE SumTo(g, MAX_ROUNDS) = rounds[r].rollover_in
  <2>1. /\ r \in 1..MAX_ROUNDS /\ \A i \in 1..MAX_ROUNDS : f[i] \in Int /\ g[i] \in Int
        /\ \A i \in 1..MAX_ROUNDS : i # r => g[i] = f[i]
    BY <1>1, <1>4, <1>7 DEF RoundIds
  <2>2. SumTo(g, MAX_ROUNDS) = SumTo(f, MAX_ROUNDS) + g[r] - f[r]
    BY <1>1, <2>1, SumToChangeOne
  <2> QED BY <1>1, <1>4, <1>5, <1>7, <2>1, <2>2
<1> QED BY <1>1, <1>2, <1>6, <1>7 DEF OneCopy

\* Also after a step.
LEMMA CopiesOutNext == SequentialInv' => OneCopy'
BY CopiesOut, PTL

\* What every operation of the pool is mapped from.
LEMMA MappedTypes ==
    ASSUME OperatedInv
    PROVE  /\ Rollover \in Nat /\ Pots \in [RoundIds -> Nat]
           /\ Phases \in [RoundIds -> {"Unused", "Open", "Resolved"}]
           /\ VaultHeld \in Nat
<1>1. SequentialInv /\ TypeOK
  BY DEF OperatedInv, SequentialInv
<1>2. \A r \in RoundIds : Pool(r) \in Nat /\ Held(r) \in Nat /\ rounds[r].rollover_in \in Nat
  BY <1>1, SettleSplitType, OperatedHeld, RoundFields
<1>3. Rollover \in Nat
  <2>1. game.rollover_balance \in Nat
    BY <1>1 DEF TypeOK, GameType
  <2>2. CASE NoActiveRound
    BY <1>1, <2>1, <2>2, CopiesOut DEF OneCopy
  <2>3. ASSUME NEW r \in RoundIds, Is(r, "Active") PROVE Rollover \in Nat
    <3>1. rounds[r].rollover_in <= game.rollover_balance
      BY <1>1, <2>3 DEF SequentialInv, SnapshotCovered
    <3> QED BY <1>1, <1>2, <2>1, <2>3, <3>1, CopiesOut DEF OneCopy
  <2> QED BY <2>2, <2>3 DEF NoActiveRound
<1>4. Pots \in [RoundIds -> Nat]
  BY <1>2 DEF Pots, Held
<1>5. Phases \in [RoundIds -> {"Unused", "Open", "Resolved"}]
  BY DEF Phases
<1>6. VaultHeld \in Nat
  <2>1. /\ vault \in Nat /\ gifts \in Nat /\ VAULT_RENT \in Nat
        /\ game.rollover_balance \in Nat /\ TotalHeld \in Nat
    BY <1>1, OperatedHeld, V2Assumption DEF TypeOK, GameType
  <2> QED BY <1>1, <2>1 DEF VaultHeld, SequentialInv, Conservation
<1> QED BY <1>3, <1>4, <1>5, <1>6

\* Before initialize the pool is empty.
LEMMA InitMapped == Init => Prize!PoolInit
<1> SUFFICES ASSUME Init PROVE Prize!PoolInit
  OBVIOUS
<1>1. OperatedInv /\ SequentialInv /\ NoActiveRound /\ game.rollover_balance = 0
  BY OperatedInit DEF OperatedInv, NoActiveRound, Is, Init, NoRound
<1>2. MAX_ROUNDS \in Nat /\ VaultHeld = 0 /\ Rollover = 0
  BY <1>1, CopiesOut, V2Assumption DEF OneCopy, VaultHeld, Init
<1>3. \A r \in RoundIds : Pots[r] = 0
  BY DEF Init, Pots, Is, NoRound
<1>4. SumTo(Pots, MAX_ROUNDS) = 0
  BY <1>2, <1>3, SumToZero DEF RoundIds
<1>5. VaultHeld = Rollover + SumTo(Pots, MAX_ROUNDS)
  BY <1>2, <1>4
<1> QED BY <1>1, <1>3, <1>5, MappedTypes, SameSum
        DEF Prize!PoolInit, Prize!Covered, Prize!Rounds, RoundIds

\* A step of the program that is none of the pool.
LEMMA StutterMapped ==
    ASSUME VaultHeld' = VaultHeld, Rollover' = Rollover, Pots' = Pots, Phases' = Phases
    PROVE  MappedNext
BY DEF MappedNext, Prize!poolVars

\* One operation of the pool on one round.
LEMMA OperationMapped ==
    ASSUME OperatedInv', NEW r \in RoundIds,
           \/ Prize!Open(r) \/ Prize!Stake(r) \/ Prize!Resolve(r)
           \/ Prize!Pay(r) \/ Prize!Release(r)
    PROVE  MappedNext
<1>1. VaultHeld' \in Int
  BY V2Assumption DEF OperatedInv, SequentialInv, TypeOK, VaultHeld
<1> QED BY <1>1 DEF MappedNext, Prize!PoolNext, Prize!Rounds, RoundIds

\* The pots and phases of the rounds that a step does not write.
LEMMA OtherPots ==
    ASSUME NEW r \in RoundIds, \A q \in RoundIds : q # r => rounds'[q] = rounds[q]
    PROVE  /\ Pots' = [Pots EXCEPT ![r] = Pots'[r]]
           /\ Phases' = [Phases EXCEPT ![r] = Phases'[r]]
<1>1. \A q \in RoundIds : q # r => Pots'[q] = Pots[q] /\ Phases'[q] = Phases[q]
  BY DEF Pots, Phases, Is, Pool
<1>2. /\ DOMAIN Pots = RoundIds /\ DOMAIN Pots' = RoundIds
      /\ DOMAIN Phases = RoundIds /\ DOMAIN Phases' = RoundIds
      /\ Pots = [q \in RoundIds |-> Pots[q]] /\ Pots' = [q \in RoundIds |-> Pots'[q]]
      /\ Phases = [q \in RoundIds |-> Phases[q]] /\ Phases' = [q \in RoundIds |-> Phases'[q]]
  BY DEF Pots, Phases
<1> QED BY <1>1, <1>2

\* create_round: the whole reserve becomes the pot of the new round.
LEMMA CreateMapped ==
    ASSUME OperatedInv, OperatedInv', NEW c \in Commits, CreateInTurn(c)
    PROVE  MappedNext
<1>0. PICK id \in RoundIds : id = game.current_round_id + 1
  BY DEF CreateInTurn, CreateRound
<1>1. /\ SequentialInv /\ SequentialInv' /\ TypeOK /\ NoActiveRound
      /\ game \in GameType /\ rounds \in [RoundIds -> RoundType]
      /\ game.rollover_balance \in Nat /\ game.current_round_id \in Nat
  BY DEF OperatedInv, SequentialInv, TypeOK, GameType, CreateInTurn
<1>2. /\ rounds'[id].status = "Active" /\ rounds'[id].total_deposits = 0
      /\ rounds'[id].rollover_in = game.rollover_balance
      /\ \A q \in RoundIds : q # id => rounds'[q] = rounds[q]
      /\ game'.rollover_balance = game.rollover_balance
      /\ game.initialized /\ game'.initialized /\ vault' = vault /\ gifts' = gifts
  BY <1>0, <1>1 DEF CreateInTurn, CreateRound, NoRound, RolloverSnapshot, GameType
<1>3. rounds[id].status = "None"
  BY <1>0, <1>1 DEF SequentialInv, Bookkeeping, NoRound
<1>4. VaultHeld' = VaultHeld
  BY <1>2 DEF VaultHeld
<1>5. Rollover = game.rollover_balance /\ Rollover' = 0
  <2>1. Rollover' = game'.rollover_balance - rounds'[id].rollover_in
    BY <1>1, <1>2, CopiesOut, CopiesOutNext DEF OneCopy, Is
  <2> QED BY <1>1, <1>2, <2>1, CopiesOut, CopiesOutNext DEF OneCopy
<1>6. Pots'[id] = game.rollover_balance
  BY <1>1, <1>2 DEF Pots, Is, Pool
<1>7. Phases[id] = "Unused" /\ Phases'[id] = "Open"
  BY <1>2, <1>3 DEF Phases, Is
<1>8. Prize!Open(id)
  <2>1. Pots'[id] \in 0..Rollover /\ Rollover' = Rollover - Pots'[id]
    BY <1>1, <1>5, <1>6
  <2>2. /\ Pots' = [Pots EXCEPT ![id] = Pots'[id]]
        /\ Phases' = [Phases EXCEPT ![id] = Phases'[id]]
    BY <1>2, OtherPots
  <2>3. Phases' = [Phases EXCEPT ![id] = "Open"]
    BY <1>7, <2>2, Zenon
  <2> QED BY <1>4, <1>7, <2>1, <2>2, <2>3 DEF Prize!Open
<1> QED BY <1>8, OperationMapped

\* enter: a stake.
LEMMA EnterMapped ==
    ASSUME OperatedInv, OperatedInv', NEW r \in RoundIds, NEW p \in Players,
           NEW a \in EntryAmounts, Enter(r, p, a)
    PROVE  MappedNext
<1>1. /\ SequentialInv /\ SequentialInv' /\ TypeOK /\ Is(r, "Active")
      /\ a \in Nat /\ vault \in Nat /\ gifts \in Nat /\ VAULT_RENT \in Nat
      /\ rounds \in [RoundIds -> RoundType] /\ rounds[r] \in RoundType
      /\ vault' = vault + a /\ gifts' = gifts /\ game' = game /\ game.initialized
  BY V2Assumption, Created
     DEF OperatedInv, SequentialInv, TypeOK, Enter, RoundActive, Is
<1>2. /\ rounds'[r].status = "Active"
      /\ rounds'[r].total_deposits = rounds[r].total_deposits + a
      /\ rounds'[r].rollover_in = rounds[r].rollover_in
      /\ \A q \in RoundIds : q # r => rounds'[q] = rounds[q]
  BY <1>1 DEF Enter, RoundType, Is
<1>3. VaultHeld' - VaultHeld = a
  BY <1>1 DEF VaultHeld
<1>4. Rollover' = Rollover
  <2>1. Rollover' = game'.rollover_balance - rounds'[r].rollover_in
    BY <1>1, <1>2, CopiesOut, CopiesOutNext DEF OneCopy, Is
  <2> QED BY <1>1, <1>2, <2>1, CopiesOut, CopiesOutNext DEF OneCopy
<1>5. Pots'[r] = Pots[r] + a
  <2>1. rounds[r].total_deposits \in Nat /\ rounds[r].rollover_in \in Nat
    BY <1>1 DEF RoundType
  <2> QED BY <1>1, <1>2, <2>1 DEF Pots, Is, Pool
<1>6. Phases[r] = "Open" /\ Phases' = Phases
  <2>1. \A q \in RoundIds : Phases'[q] = Phases[q]
    BY <1>1, <1>2 DEF Phases, Is
  <2> QED BY <1>1, <2>1 DEF Phases, Is
<1>7. Prize!Stake(r)
  <2>1. Pots' = [Pots EXCEPT ![r] = Pots'[r]]
    BY <1>2, OtherPots
  <2>2. Pots' = [Pots EXCEPT ![r] = @ + a]
    BY <1>5, <2>1, MappedTypes
  <2> QED BY <1>1, <1>3, <1>4, <1>6, <2>2 DEF Prize!Stake
<1> QED BY <1>7, OperationMapped

\* settle, expire and force_expire: the pot and the donations of the round, all of
\* them, are paid, kept for the claims, or put in the rollover.
LEMMA ResolveMapped ==
    ASSUME OperatedInv, OperatedInv', NEW r \in RoundIds, Is(r, "Active"),
           NEW status \in {"Settled", "Expired"}, NEW outgoing \in Nat, NEW rest \in Nat,
           rounds'[r].status = status, rounds'[r].evidence_pool \in Nat,
           rounds'[r].evidence_claimed = 0,
           \A q \in RoundIds : q # r => rounds'[q] = rounds[q],
           Pool(r) = outgoing + rounds'[r].evidence_pool + rest,
           vault' = vault - outgoing, gifts' = gifts,
           game' = [game EXCEPT !.rollover_balance = rest + DonationsDuring(r)]
    PROVE  MappedNext
<1>1. /\ SequentialInv /\ SequentialInv' /\ TypeOK /\ game \in GameType /\ game.initialized
      /\ vault \in Nat /\ gifts \in Nat /\ VAULT_RENT \in Nat /\ Pool(r) \in Nat
      /\ game.rollover_balance \in Nat /\ rounds[r].rollover_in \in Nat
  BY V2Assumption, Created, SettleSplitType, RoundFields
     DEF OperatedInv, SequentialInv, TypeOK, Is
<1>2. game'.initialized /\ game'.rollover_balance = rest + DonationsDuring(r)
  BY <1>1 DEF GameType
<1>3. DonationsDuring(r) = game.rollover_balance - rounds[r].rollover_in
  <2>1. rounds[r].rollover_in <= game.rollover_balance
    BY <1>1 DEF SequentialInv, SnapshotCovered
  <2> QED BY <1>1, <2>1 DEF DonationsDuring, SaturatingSub
<1>4. NoActiveRound'
  BY <1>1, ResolvingLeavesNoneActive DEF Is
<1>5. Rollover = game.rollover_balance - rounds[r].rollover_in /\ Rollover' = Rollover + rest
  BY <1>1, <1>2, <1>3, <1>4, CopiesOut, CopiesOutNext DEF OneCopy
<1>6. VaultHeld - VaultHeld' = outgoing
  BY <1>1, <1>2 DEF VaultHeld
<1>7. Pots[r] = Pool(r) /\ Pots'[r] = rounds'[r].evidence_pool
  BY DEF Pots, Is
<1>8. Phases[r] = "Open" /\ Phases'[r] = "Resolved"
  BY DEF Phases, Is
<1>9. Prize!Resolve(r)
  <2>1. Pots[r] - (VaultHeld - VaultHeld') - Pots'[r] = rest
    BY <1>1, <1>6, <1>7
  <2>2. /\ Pots' = [Pots EXCEPT ![r] = Pots'[r]]
        /\ Phases' = [Phases EXCEPT ![r] = Phases'[r]]
    BY OtherPots
  <2>3. Phases' = [Phases EXCEPT ![r] = "Resolved"]
    BY <1>8, <2>2, Zenon
  <2>4. Pots'[r] \in Nat
    BY <1>7
  <2> QED BY <1>5, <1>6, <1>8, <2>1, <2>2, <2>3, <2>4 DEF Prize!Resolve
<1> QED BY <1>9, OperationMapped

\* claim_v2_evidence: paid from the pot.
LEMMA ClaimMapped ==
    ASSUME OperatedInv, OperatedInv', NEW r \in RoundIds, NEW w \in Players,
           ClaimEvidence(r, w)
    PROVE  MappedNext
<1> DEFINE share == Share(r, w)
<1>1. /\ SequentialInv /\ TypeOK /\ Payable(r, w) /\ Is(r, "Settled")
      /\ vault \in Nat /\ gifts \in Nat /\ VAULT_RENT \in Nat
      /\ rounds \in [RoundIds -> RoundType] /\ rounds[r] \in RoundType
      /\ vault' = vault - share /\ gifts' = gifts /\ game' = game /\ game.initialized
  BY V2Assumption, Created
     DEF OperatedInv, SequentialInv, TypeOK, ClaimEvidence, Payable, Is
<1>2. /\ share \in Nat /\ share <= rounds[r].evidence_pool - rounds[r].evidence_claimed
      /\ rounds[r].evidence_pool \in Nat /\ rounds[r].evidence_claimed \in Nat
  BY <1>1, ShareType, ShareWithinRest, RoundFields
<1>3. /\ rounds'[r].status = "Settled"
      /\ rounds'[r].evidence_pool = rounds[r].evidence_pool
      /\ rounds'[r].evidence_claimed = rounds[r].evidence_claimed + share
      /\ rounds'[r].rollover_in = rounds[r].rollover_in
      /\ \A q \in RoundIds : q # r => rounds'[q] = rounds[q]
  BY <1>1 DEF ClaimEvidence, RoundType, Is
<1> HIDE DEF share
<1>4. VaultHeld - VaultHeld' = share
  BY <1>1, <1>2 DEF VaultHeld
<1>5. Rollover' = Rollover
  <2>1. \A q \in RoundIds : Is(q, "Active")' = Is(q, "Active")
    BY <1>1, <1>3 DEF Is
  <2> QED BY <1>1, <1>3, <2>1 DEF Rollover
<1>6. Pots[r] = rounds[r].evidence_pool - rounds[r].evidence_claimed
      /\ Pots'[r] = Pots[r] - share
  BY <1>1, <1>2, <1>3 DEF Pots, Is
<1>7. Phases[r] = "Resolved" /\ Phases' = Phases
  <2>1. \A q \in RoundIds : Phases'[q] = Phases[q]
    BY <1>1, <1>3 DEF Phases, Is
  <2> QED BY <1>1, <2>1 DEF Phases, Is
<1>8. Prize!Pay(r)
  <2>1. Pots' = [Pots EXCEPT ![r] = Pots'[r]]
    BY <1>3, OtherPots
  <2>2. Pots' = [Pots EXCEPT ![r] = @ - share]
    BY <1>6, <2>1, MappedTypes
  <2>3. share \in 0..Pots[r]
    BY <1>2, <1>6
  <2> QED BY <1>4, <1>5, <1>7, <2>2, <2>3 DEF Prize!Pay
<1> QED BY <1>8, OperationMapped

\* sweep_v2_evidence: what is left of the pot is released.
LEMMA SweepMapped ==
    ASSUME OperatedInv, OperatedInv', NEW r \in RoundIds, SweepEvidence(r)
    PROVE  MappedNext
<1> DEFINE unclaimed == rounds[r].evidence_pool - rounds[r].evidence_claimed
<1>1. /\ SequentialInv /\ SequentialInv' /\ TypeOK /\ Is(r, "Settled") /\ unclaimed > 0
      /\ game \in GameType /\ game.rollover_balance \in Nat /\ game.initialized
      /\ rounds \in [RoundIds -> RoundType] /\ rounds[r] \in RoundType
      /\ vault' = vault /\ gifts' = gifts
  BY Created DEF OperatedInv, SequentialInv, TypeOK, GameType, SweepEvidence, Sweepable, Unclaimed, Is
<1>2. /\ rounds[r].evidence_pool \in Nat /\ rounds[r].evidence_claimed \in Nat
      /\ \A q \in RoundIds : rounds[q].rollover_in \in Nat
  BY <1>1, RoundFields
<1>3. /\ rounds'[r].status = "Settled"
      /\ rounds'[r].evidence_pool = rounds[r].evidence_pool
      /\ rounds'[r].evidence_claimed = rounds[r].evidence_pool
      /\ \A q \in RoundIds : q # r => rounds'[q] = rounds[q]
      /\ game'.rollover_balance = game.rollover_balance + unclaimed
      /\ game'.initialized
  BY <1>1 DEF SweepEvidence, Sweepable, Unclaimed, RoundType, GameType, Is
<1>4. unclaimed \in Nat
  BY <1>1, <1>2
<1>5. VaultHeld' = VaultHeld
  BY <1>1, <1>3 DEF VaultHeld
<1>6. Pots[r] = unclaimed /\ Pots'[r] = 0
  BY <1>1, <1>2, <1>3 DEF Pots, Is
<1> HIDE DEF unclaimed
<1>7. Rollover' = Rollover + unclaimed
  <2>1. \A q \in RoundIds : Is(q, "Active")' = Is(q, "Active")
    BY <1>1, <1>3 DEF Is
  <2>2. CASE NoActiveRound
    <3>1. NoActiveRound'
      BY <2>1, <2>2 DEF NoActiveRound
    <3> QED BY <1>1, <1>3, <2>2, <3>1, CopiesOut, CopiesOutNext DEF OneCopy
  <2>3. ASSUME NEW q \in RoundIds, Is(q, "Active") PROVE Rollover' = Rollover + unclaimed
    <3>1. rounds'[q] = rounds[q]
      BY <1>1, <1>3, <2>3 DEF Is
    <3>2. /\ Rollover = game.rollover_balance - rounds[q].rollover_in
          /\ Rollover' = game'.rollover_balance - rounds[q].rollover_in
      BY <1>1, <2>1, <2>3, <3>1, CopiesOut, CopiesOutNext DEF OneCopy
    <3> QED BY <1>1, <1>2, <1>3, <1>4, <3>2
  <2> QED BY <2>2, <2>3 DEF NoActiveRound
<1>8. Phases[r] = "Resolved" /\ Phases' = Phases
  <2>1. \A q \in RoundIds : Phases'[q] = Phases[q]
    BY <1>1, <1>3 DEF Phases, Is
  <2> QED BY <1>1, <2>1 DEF Phases, Is
<1>9. Prize!Release(r)
  <2>1. Pots' = [Pots EXCEPT ![r] = Pots'[r]]
    BY <1>3, OtherPots
  <2>2. Pots' = [Pots EXCEPT ![r] = 0]
    BY <1>6, <2>1, Zenon
  <2> QED BY <1>5, <1>6, <1>7, <1>8, <2>2 DEF Prize!Release
<1> QED BY <1>9, OperationMapped

\* A step that changes no round, apart from its entry fields, and no rollover.
LEMMA QuietMapped ==
    ASSUME VaultHeld' = VaultHeld, game'.rollover_balance = game.rollover_balance,
           \A q \in RoundIds :
              /\ rounds'[q].status = rounds[q].status
              /\ rounds'[q].total_deposits = rounds[q].total_deposits
              /\ rounds'[q].rollover_in = rounds[q].rollover_in
              /\ rounds'[q].evidence_pool = rounds[q].evidence_pool
              /\ rounds'[q].evidence_claimed = rounds[q].evidence_claimed
    PROVE  MappedNext
<1>1. \A q \in RoundIds : /\ Is(q, "Active")' = Is(q, "Active")
                          /\ Is(q, "None")' = Is(q, "None")
                          /\ Pool(q)' = Pool(q)
  BY DEF Is, Pool
<1>2. Rollover' = Rollover /\ Pots' = Pots /\ Phases' = Phases
  BY <1>1 DEF Rollover, Pots, Phases
<1> QED BY <1>2, StutterMapped

\* Every step of the program is a step of the pool or none.
LEMMA NextMapped ==
    ASSUME OperatedInv, [OperatedNext]_vars
    PROVE  MappedNext
<1>1. OperatedInv' /\ SequentialInv /\ SequentialInv' /\ TypeOK
  BY OperatedStep DEF OperatedInv, SequentialInv
<1>2. /\ game \in GameType /\ rounds \in [RoundIds -> RoundType]
      /\ vault \in Nat /\ gifts \in Nat /\ VAULT_RENT \in Nat
      /\ \A r \in RoundIds : rounds[r] \in RoundType
  BY <1>1, V2Assumption DEF TypeOK
<1>3. ASSUME UNCHANGED <<game, rounds, vault, gifts>> PROVE MappedNext
  BY <1>3, QuietMapped DEF VaultHeld
<1>4. ASSUME NEW c \in Configs, Initialize(c) PROVE MappedNext
  <2>1. /\ ~game.initialized /\ game.rollover_balance = 0 /\ gifts = 0
        /\ game'.initialized /\ game'.rollover_balance = 0
        /\ vault' = VAULT_RENT /\ gifts' = gifts /\ rounds' = rounds
    BY <1>1, <1>4 DEF Initialize, OperatedInv, NothingYet, SequentialInv, Bookkeeping
  <2>2. VaultHeld' = VaultHeld
    BY <1>2, <2>1 DEF VaultHeld
  <2> QED BY <2>1, <2>2, QuietMapped
<1>5. ASSUME NEW a \in Donations, Donate(a) PROVE MappedNext
  <2>1. /\ game.initialized /\ game'.initialized /\ a \in Nat /\ game.rollover_balance \in Nat
        /\ vault' = vault + a /\ gifts' = gifts /\ rounds' = rounds
        /\ game'.rollover_balance = game.rollover_balance + a
    BY <1>2, <1>5, V2Assumption DEF Donate, GameType
  <2>2. VaultHeld' - VaultHeld = a /\ VaultHeld' \in Int
    BY <1>2, <2>1 DEF VaultHeld
  <2>3. Pots' = Pots /\ Phases' = Phases
    BY <2>1 DEF Pots, Phases, Is, Pool
  <2>4. Rollover' = Rollover + a
    <3>1. CASE NoActiveRound
      <4>1. NoActiveRound'
        BY <2>1, <3>1 DEF NoActiveRound, Is
      <4> QED BY <1>1, <2>1, <3>1, <4>1, CopiesOut, CopiesOutNext DEF OneCopy
    <3>2. ASSUME NEW q \in RoundIds, Is(q, "Active") PROVE Rollover' = Rollover + a
      <4>1. /\ Rollover = game.rollover_balance - rounds[q].rollover_in
            /\ Rollover' = game'.rollover_balance - rounds[q].rollover_in
            /\ rounds[q].rollover_in \in Nat
        BY <1>1, <2>1, <3>2, CopiesOut, CopiesOutNext, RoundFields DEF OneCopy, Is
      <4> QED BY <2>1, <4>1
    <3> QED BY <3>1, <3>2 DEF NoActiveRound
  <2>5. Prize!Endow
    BY <2>1, <2>2, <2>3, <2>4 DEF Prize!Endow
  <2> QED BY <2>2, <2>5 DEF MappedNext, Prize!PoolNext
<1>6. ASSUME NEW r \in RoundIds, NEW w \in Players, RecordEvidence(r, w) PROVE MappedNext
  <2>1. /\ UNCHANGED <<game, vault, gifts>>
        /\ \A q \in RoundIds :
              /\ rounds'[q].status = rounds[q].status
              /\ rounds'[q].total_deposits = rounds[q].total_deposits
              /\ rounds'[q].rollover_in = rounds[q].rollover_in
              /\ rounds'[q].evidence_pool = rounds[q].evidence_pool
              /\ rounds'[q].evidence_claimed = rounds[q].evidence_claimed
    BY <1>2, <1>6 DEF RecordEvidence, RoundType
  <2> QED BY <2>1, QuietMapped DEF VaultHeld
<1>7. ASSUME NEW r \in RoundIds, NEW reveal \in Reveals,
             Settle(r, reveal[1], reveal[2])
      PROVE  MappedNext
  <2> DEFINE outgoing == WinnerAmount(r) + TreasuryAmount(r)
             rest == FinalRollover(r)
  <2>1. /\ Is(r, "Active") /\ gifts' = gifts /\ vault' = vault - outgoing
        /\ game' = [game EXCEPT !.rollover_balance = rest + DonationsDuring(r)]
        /\ rounds'[r].status = "Settled" /\ rounds'[r].evidence_pool = FinalYesPool(r)
        /\ rounds'[r].evidence_claimed = rounds[r].evidence_claimed
        /\ \A q \in RoundIds : q # r => rounds'[q] = rounds[q]
    BY <1>2, <1>7 DEF Settle, RoundActive, RoundType
  <2>2. rounds'[r].evidence_claimed = 0
    BY <1>1, <2>1 DEF SequentialInv, Bookkeeping, Is
  <2>3. /\ outgoing \in Nat /\ rest \in Nat /\ FinalYesPool(r) \in Nat
        /\ Pool(r) = outgoing + FinalYesPool(r) + rest
    BY <1>1, SettleSplitType DEF FinalRollover
  <2> HIDE DEF outgoing, rest
  <2> QED BY <1>1, <2>1, <2>2, <2>3, ResolveMapped
<1>8. ASSUME NEW r \in RoundIds, Is(r, "Active"), PayExpired(r), gifts' = gifts,
             rounds'[r].status = "Expired",
             rounds'[r].evidence_pool = rounds[r].evidence_pool,
             rounds'[r].evidence_claimed = rounds[r].evidence_claimed,
             \A q \in RoundIds : q # r => rounds'[q] = rounds[q]
      PROVE  MappedNext
  <2> DEFINE outgoing == ExpireOutgoing(r)
             rest == ExpireRollover(r)
  <2>1. /\ vault' = vault - outgoing
        /\ game' = [game EXCEPT !.rollover_balance = rest + DonationsDuring(r)]
    BY <1>8 DEF PayExpired
  <2>2. rounds'[r].evidence_pool = 0 /\ rounds'[r].evidence_claimed = 0
    BY <1>1, <1>8 DEF SequentialInv, Bookkeeping, Is
  <2>3. outgoing \in Nat /\ rest \in Nat /\ Pool(r) = outgoing + 0 + rest
    <3>1. /\ ExpireOutgoing(r) \in Nat /\ ExpireRollover(r) \in Nat
          /\ rounds[r].total_deposits \in Nat /\ rounds[r].rollover_in \in Nat
      BY <1>1, ExpireSplitType, RoundFields
    <3> QED BY <3>1 DEF ExpireRollover, Pool
  <2> HIDE DEF outgoing, rest
  <2> QED BY <1>1, <1>8, <2>1, <2>2, <2>3, ResolveMapped
<1>9. ASSUME NEW r \in RoundIds, NEW reveal \in Reveals,
             Expire(r, reveal[1], reveal[2])
      PROVE  MappedNext
  <2>1. /\ rounds'[r].status = "Expired"
        /\ rounds'[r].evidence_pool = rounds[r].evidence_pool
        /\ rounds'[r].evidence_claimed = rounds[r].evidence_claimed
        /\ \A q \in RoundIds : q # r => rounds'[q] = rounds[q]
    BY <1>2, <1>9 DEF Expire, RoundType
  <2> QED BY <1>8, <1>9, <2>1 DEF Expire, RoundActive
<1>10. ASSUME NEW r \in RoundIds, ForceExpire(r) PROVE MappedNext
  <2>1. /\ rounds'[r].status = "Expired"
        /\ rounds'[r].evidence_pool = rounds[r].evidence_pool
        /\ rounds'[r].evidence_claimed = rounds[r].evidence_claimed
        /\ \A q \in RoundIds : q # r => rounds'[q] = rounds[q]
    BY <1>2, <1>10 DEF ForceExpire, RoundType
  <2> QED BY <1>8, <1>10, <2>1 DEF ForceExpire, RoundActive
<1>11. ASSUME NEW r \in RoundIds, CloseRound(r) PROVE MappedNext
  <2>1. /\ Closable(r) /\ EvidenceResolved(r) /\ UNCHANGED <<game, vault, gifts>>
        /\ rounds'[r].status = "Closed"
        /\ rounds'[r].evidence_pool = 0 /\ rounds'[r].evidence_claimed = 0
        /\ \A q \in RoundIds : q # r => rounds'[q] = rounds[q]
    BY <1>2, <1>11 DEF CloseRound, NoRound
  <2>2. /\ rounds[r].evidence_pool \in Nat
        /\ rounds[r].evidence_claimed = rounds[r].evidence_pool
    BY <1>1, <2>1, RoundFields DEF SequentialInv, Bookkeeping, EvidenceResolved
  <2>3. \A q \in RoundIds : Is(q, "Active")' = Is(q, "Active")
    BY <2>1 DEF Is, Closable
  <2>4. VaultHeld' = VaultHeld /\ Rollover' = Rollover
    <3>1. VaultHeld' = VaultHeld
      BY <2>1 DEF VaultHeld
    <3>2. \A q \in RoundIds : (IF Is(q, "Active") THEN rounds[q].rollover_in ELSE 0)'
                               = IF Is(q, "Active") THEN rounds[q].rollover_in ELSE 0
      BY <2>1, <2>3 DEF Is, Closable
    <3> QED BY <2>1, <3>1, <3>2 DEF Rollover
  <2>5. Pots'[r] = 0 /\ Pots[r] = 0 /\ Phases'[r] = "Resolved" /\ Phases[r] = "Resolved"
    BY <2>1, <2>2 DEF Pots, Phases, Is, Closable
  <2>6. Pots' = Pots /\ Phases' = Phases
    <3>1. \A q \in RoundIds : q # r => Pots'[q] = Pots[q] /\ Phases'[q] = Phases[q]
      BY <2>1 DEF Pots, Phases, Is, Pool
    <3> QED BY <2>5, <3>1 DEF Pots, Phases
  <2> QED BY <2>4, <2>6, StutterMapped
<1>12. ASSUME NEW a \in Gifts, Gift(a) PROVE MappedNext
  <2>1. /\ game.initialized /\ a \in Nat /\ UNCHANGED <<game, rounds>>
        /\ vault' = vault + a /\ gifts' = gifts + a
    BY <1>12, V2Assumption DEF Gift
  <2>2. VaultHeld' = VaultHeld
    BY <1>2, <2>1 DEF VaultHeld
  <2> QED BY <2>1, <2>2, QuietMapped
<1> QED BY <1>1, <1>3, <1>4, <1>5, <1>6, <1>7, <1>9, <1>10, <1>11, <1>12,
           CreateMapped, EnterMapped, ClaimMapped, SweepMapped
        DEF OperatedNext, Unrestricted, SweepLast, CloseRoundLast, CloseEvidence,
            CloseEntry, Tick, vars

\* Operated as documented, the program implements PrizePool: each round is paid
\* from its own pot, its share of the rollover included, and nothing leaves the
\* vault otherwise (create_round, enter, donate, settle, expire, force_expire,
\* claim_v2_evidence, sweep_v2_evidence).
THEOREM Implements == OperatedSpec => ImplementsPrizePool
<1>1. OperatedInv /\ [OperatedNext]_vars => OperatedInv'
  BY OperatedStep
<1>2. OperatedInv /\ [OperatedNext]_vars => [Prize!PoolNext]_(Prize!poolVars)
  BY NextMapped DEF MappedNext
<1> QED BY <1>1, <1>2, InitMapped, OperatedInit, PTL
        DEF OperatedSpec, ImplementsPrizePool, Prize!PoolSpec
=============================================================================
