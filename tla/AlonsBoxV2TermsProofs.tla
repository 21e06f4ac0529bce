----------------------- MODULE AlonsBoxV2TermsProofs -----------------------
(***************************************************************************)
(* Theorems about AlonsBoxV2 under Spec: what the program keeps whatever   *)
(* the authority does.  Payouts happen once, a resolved round keeps its    *)
(* terms, an expiry takes nothing from the rollover, and a commitment to   *)
(* texts without the separator opens one way.                              *)
(***************************************************************************)
EXTENDS AlonsBoxV2Proofs, SequenceTheorems

-----------------------------------------------------------------------------
(* The inductive invariant.                                                *)

\* Ids are used once and in order.
IdsInOrder ==
    /\ \A r \in RoundIds : r > game.current_round_id => rounds[r] = NoRound
    /\ ~game.initialized => game.current_round_id = 0

\* A wallet that was paid has no account that could be paid again, and its
\* round can not become Active again.
PaidOut ==
    \A r \in RoundIds, w \in Players :
        received[r][w] > 0 =>
            /\ Is(r, "Settled") \/ Is(r, "Closed")
            /\ evidence[r][w].claimed \/ evidence[r][w].yes_count = 0

TermsInv == TypeOK /\ IdsInOrder /\ PaidOut

\* Before initialize there is no round and nobody was paid.
LEMMA TermsInit == Init => TermsInv
<1>1. Init => IdsInOrder
  BY DEF Init, IdsInOrder
<1>2. Init => PaidOut
  BY DEF Init, PaidOut
<1> QED BY <1>1, <1>2, InitTypeOK DEF TermsInv

-----------------------------------------------------------------------------
(* What one step may write to one round.                                   *)

\* A round account is left alone, created, written while Active, paid down
\* while Settled, or closed once resolved.
RoundWrite(r) ==
    \/ rounds'[r] = rounds[r]
    \/ rounds[r] = NoRound
    \/ Is(r, "Active")
    \/ /\ Is(r, "Settled")
       /\ \E c \in Nat : /\ c >= rounds[r].evidence_claimed
                         /\ rounds'[r] = [rounds[r] EXCEPT !.evidence_claimed = c]
    \/ Resolved(r) /\ rounds'[r] = [NoRound EXCEPT !.status = "Closed"]

\* Every step of the program writes each round in one of these ways.
LEMMA RoundWrites ==
    ASSUME TermsInv, [Next]_vars, NEW r \in RoundIds
    PROVE  RoundWrite(r)
<1> USE DEF RoundWrite
<1>1. TypeOK /\ rounds \in [RoundIds -> RoundType]
  BY DEF TermsInv, TypeOK
<1>2. ASSUME UNCHANGED rounds PROVE RoundWrite(r)
  BY <1>2
<1>3. ASSUME NEW c \in Commits, CreateRound(c) PROVE RoundWrite(r)
  <2> DEFINE id == game.current_round_id + 1
  <2>1. id \in RoundIds /\ \A q \in RoundIds : q # id => rounds'[q] = rounds[q]
    BY <1>1, <1>3 DEF CreateRound
  <2>2. rounds[id] = NoRound
    BY <1>1, <2>1, RoundFields DEF TermsInv, IdsInOrder, RoundIds
  <2> QED BY <2>1, <2>2
<1>4. ASSUME NEW q \in RoundIds, RoundActive(q),
             \A s \in RoundIds : s # q => rounds'[s] = rounds[s]
      PROVE  RoundWrite(r)
  BY <1>4 DEF RoundActive
<1>5. ASSUME NEW q \in RoundIds, NEW p \in Players, NEW a \in EntryAmounts,
             Enter(q, p, a)
      PROVE  RoundWrite(r)
  BY <1>1, <1>4, <1>5 DEF Enter
<1>6. ASSUME NEW q \in RoundIds, NEW w \in Players, RecordEvidence(q, w)
      PROVE  RoundWrite(r)
  BY <1>1, <1>4, <1>6 DEF RecordEvidence
<1>7. ASSUME NEW q \in RoundIds, NEW reveal \in Reveals,
             Settle(q, reveal[1], reveal[2])
      PROVE  RoundWrite(r)
  BY <1>1, <1>4, <1>7 DEF Settle
<1>8. ASSUME NEW q \in RoundIds, NEW reveal \in Reveals,
             Expire(q, reveal[1], reveal[2])
      PROVE  RoundWrite(r)
  BY <1>1, <1>4, <1>8 DEF Expire
<1>9. ASSUME NEW q \in RoundIds, ForceExpire(q) PROVE RoundWrite(r)
  BY <1>1, <1>4, <1>9 DEF ForceExpire
<1>10. ASSUME NEW q \in RoundIds, NEW w \in Players, ClaimEvidence(q, w)
       PROVE  RoundWrite(r)
  <2> DEFINE c == rounds[q].evidence_claimed + Share(q, w)
  <2>1. Payable(q, w) /\ Is(q, "Settled")
    BY <1>10 DEF ClaimEvidence, Payable
  <2>2. Share(q, w) \in Nat /\ rounds[q].evidence_claimed \in Nat
    BY <1>1, <2>1, ShareType, RoundFields
  <2>3. c \in Nat /\ c >= rounds[q].evidence_claimed
    BY <2>2
  <2>4. rounds' = [rounds EXCEPT ![q] = [rounds[q] EXCEPT !.evidence_claimed = c]]
    BY <1>1, <1>10 DEF ClaimEvidence
  <2> HIDE DEF c
  <2> QED BY <1>1, <2>1, <2>3, <2>4
<1>11. ASSUME NEW q \in RoundIds, SweepEvidence(q) PROVE RoundWrite(r)
  <2> DEFINE c == rounds[q].evidence_pool
  <2>1. c \in Nat /\ rounds[q].evidence_claimed \in Nat
    BY <1>1, RoundFields
  <2>2. Is(q, "Settled") /\ c >= rounds[q].evidence_claimed
    BY <1>11, <2>1 DEF SweepEvidence, Sweepable, Unclaimed
  <2>3. rounds' = [rounds EXCEPT ![q] = [rounds[q] EXCEPT !.evidence_claimed = c]]
    BY <1>1, <1>11 DEF SweepEvidence, Sweepable, Unclaimed
  <2> HIDE DEF c
  <2> QED BY <1>1, <2>1, <2>2, <2>3
<1>12. ASSUME NEW q \in RoundIds, CloseRound(q) PROVE RoundWrite(r)
  BY <1>1, <1>12 DEF CloseRound, Closable, Resolved
<1> QED BY <1>2, <1>3, <1>5, <1>6, <1>7, <1>8, <1>9, <1>10, <1>11, <1>12
        DEF Next, Unrestricted, vars, Initialize, Donate, CloseEvidence,
            CloseEntry, Gift, Tick

\* An evidence account and what its wallet received are left alone, or the
\* account is recorded while the round is Active, closed, or paid and marked.
EvidenceWrite(r, w) ==
    \/ evidence'[r][w] = evidence[r][w] /\ received'[r][w] = received[r][w]
    \/ Is(r, "Active") /\ received'[r][w] = received[r][w]
    \/ evidence'[r][w] = NoEvidence /\ received'[r][w] = received[r][w]
    \/ Payable(r, w) /\ evidence'[r][w].claimed /\ rounds'[r].status = "Settled"

\* Every step of the program writes each evidence account in one of these ways.
LEMMA EvidenceWrites ==
    ASSUME TermsInv, [Next]_vars, NEW r \in RoundIds, NEW w \in Players
    PROVE  EvidenceWrite(r, w)
<1> USE DEF EvidenceWrite
<1>1. /\ rounds \in [RoundIds -> RoundType]
      /\ evidence \in [RoundIds -> [Players -> [yes_count : Nat, claimed : BOOLEAN]]]
      /\ received \in [RoundIds -> [Players -> Nat]]
  BY DEF TermsInv, TypeOK
<1>2. ASSUME UNCHANGED <<evidence, received>> PROVE EvidenceWrite(r, w)
  BY <1>2
<1>3. ASSUME NEW q \in RoundIds, NEW v \in Players, RecordEvidence(q, v)
      PROVE  EvidenceWrite(r, w)
  BY <1>1, <1>3 DEF RecordEvidence, RoundActive
<1>4. ASSUME NEW q \in RoundIds, NEW v \in Players, CloseEvidence(q, v)
      PROVE  EvidenceWrite(r, w)
  BY <1>1, <1>4 DEF CloseEvidence
<1>5. ASSUME NEW q \in RoundIds, NEW v \in Players, ClaimEvidence(q, v)
      PROVE  EvidenceWrite(r, w)
  <2>1. CASE q = r /\ v = w
    <3>1. Payable(r, w) /\ rounds[r].status = "Settled"
      BY <1>5, <2>1 DEF ClaimEvidence, Payable, Is
    <3>2. evidence'[r][w].claimed
      BY <1>1, <1>5, <2>1 DEF ClaimEvidence
    <3>3. rounds'[r].status = rounds[r].status
      BY <1>1, <1>5, <2>1 DEF ClaimEvidence, RoundType
    <3> QED BY <3>1, <3>2, <3>3
  <2>2. CASE q # r \/ v # w
    BY <1>1, <1>5, <2>2 DEF ClaimEvidence
  <2> QED BY <2>1, <2>2
<1> QED BY <1>2, <1>3, <1>4, <1>5
        DEF Next, Unrestricted, vars, Initialize, CreateRound, Enter, Donate,
            Settle, Expire, ForceExpire, SweepEvidence, CloseEntry, CloseRound,
            Gift, Tick

-----------------------------------------------------------------------------
(* The invariant is inductive.                                             *)

\* No step but create_round makes a round of an unused id, and initialize
\* happens before the first.
LEMMA IdsStep ==
    ASSUME TermsInv, [Next]_vars
    PROVE  IdsInOrder'
<1>1. TypeOK /\ IdsInOrder /\ game.current_round_id \in Nat
  BY DEF TermsInv, TypeOK, GameType
<1>2. ASSUME NEW c \in Configs, Initialize(c) PROVE IdsInOrder'
  BY <1>1, <1>2 DEF Initialize, IdsInOrder
<1>3. ASSUME NEW c \in Commits, CreateRound(c) PROVE IdsInOrder'
  <2> DEFINE id == game.current_round_id + 1
  <2>1. /\ id \in RoundIds /\ game.initialized
        /\ game'.current_round_id = id /\ game'.initialized
        /\ \A q \in RoundIds : q # id => rounds'[q] = rounds[q]
    BY <1>1, <1>3 DEF CreateRound, TypeOK, GameType
  <2>2. ASSUME NEW q \in RoundIds, q > id PROVE rounds'[q] = NoRound
    BY <1>1, <2>1, <2>2 DEF IdsInOrder, RoundIds
  <2> QED BY <2>1, <2>2 DEF IdsInOrder
<1>4. ASSUME game'.current_round_id = game.current_round_id,
             game'.initialized = game.initialized,
             \A r \in RoundIds : rounds[r] = NoRound => rounds'[r] = NoRound
      PROVE  IdsInOrder'
  BY <1>1, <1>4 DEF IdsInOrder
<1>5. ASSUME [Next]_vars, \A c \in Configs : ~Initialize(c),
             \A c \in Commits : ~CreateRound(c)
      PROVE  /\ game'.current_round_id = game.current_round_id
             /\ game'.initialized = game.initialized
  BY <1>1, <1>5 DEF Next, Unrestricted, vars, Enter, Donate, RecordEvidence,
                    Settle, Expire, ForceExpire, PayExpired, ClaimEvidence,
                    SweepEvidence, CloseEvidence, CloseEntry, CloseRound, Gift,
                    Tick, TypeOK, GameType
<1>6. ASSUME \A c \in Commits : ~CreateRound(c), NEW r \in RoundIds,
             rounds[r] = NoRound
      PROVE  rounds'[r] = NoRound
  <2>1. ~Is(r, "Active") /\ ~Is(r, "Settled") /\ ~Is(r, "Expired")
    BY <1>6 DEF Is, NoRound
  <2>2. rounds \in [RoundIds -> RoundType]
    BY <1>1 DEF TypeOK
  <2> QED BY <1>6, <2>1, <2>2
          DEF Next, Unrestricted, vars, Initialize, Enter, Donate,
              RecordEvidence, Settle, Expire, ForceExpire, RoundActive, Payable,
              ClaimEvidence, SweepEvidence, CloseEvidence, CloseEntry,
              CloseRound, Closable, Gift, Tick
<1> QED BY <1>2, <1>3, <1>4, <1>5, <1>6

\* A wallet that was paid stays paid out.
LEMMA PaidOutStep ==
    ASSUME TermsInv, [Next]_vars
    PROVE  PaidOut'
<1> SUFFICES ASSUME NEW r \in RoundIds, NEW w \in Players, received'[r][w] > 0
             PROVE  /\ (Is(r, "Settled") \/ Is(r, "Closed"))'
                    /\ evidence'[r][w].claimed \/ evidence'[r][w].yes_count = 0
  BY DEF PaidOut
<1>1. EvidenceWrite(r, w) /\ RoundWrite(r)
  BY EvidenceWrites, RoundWrites
<1>2. CASE Payable(r, w) /\ evidence'[r][w].claimed /\ rounds'[r].status = "Settled"
  BY <1>2 DEF Is
<1>3. CASE received'[r][w] = received[r][w]
           /\ (\/ evidence'[r][w] = evidence[r][w]
               \/ Is(r, "Active")
               \/ evidence'[r][w] = NoEvidence)
  <2>1. /\ Is(r, "Settled") \/ Is(r, "Closed")
        /\ evidence[r][w].claimed \/ evidence[r][w].yes_count = 0
    BY <1>3 DEF TermsInv, PaidOut
  <2>2. rounds[r] # NoRound /\ ~Is(r, "Active") /\ rounds[r] \in RoundType
    BY <2>1 DEF Is, NoRound, TermsInv, TypeOK
  <2>3. rounds'[r].status \in {"Settled", "Closed"}
    BY <1>1, <2>1, <2>2 DEF RoundWrite, Is, Resolved, NoRound, RoundType
  <2>4. evidence'[r][w].claimed \/ evidence'[r][w].yes_count = 0
    BY <1>3, <2>1, <2>2 DEF NoEvidence
  <2> QED BY <2>3, <2>4 DEF Is
<1> QED BY <1>1, <1>2, <1>3 DEF EvidenceWrite

\* Every step keeps the invariant.
LEMMA TermsStep ==
    ASSUME TermsInv, [Next]_vars
    PROVE  TermsInv'
BY NextTypeOK, IdsStep, PaidOutStep DEF TermsInv

\* The inductive invariant of the unrestricted program: ids are never reused,
\* and a wallet that was paid is paid out for good.
THEOREM TermsInvariant == Spec => []TermsInv
<1>1. TermsInv /\ [Next]_vars => TermsInv'
  BY TermsStep
<1> QED BY <1>1, TermsInit, PTL DEF Spec

-----------------------------------------------------------------------------
(* The action properties.                                                  *)

\* No wallet is paid twice for a round, in whatever order claims, sweeps and
\* closings of its accounts come.
THEOREM PaidOnce == Spec => PaidAtMostOnce
<1> DEFINE Once == \A r \in RoundIds, w \in Players :
                       received[r][w] > 0 => received'[r][w] = received[r][w]
<1>1. ASSUME TermsInv, [Next]_vars PROVE Once
  <2> SUFFICES ASSUME NEW r \in RoundIds, NEW w \in Players, received[r][w] > 0
               PROVE  received'[r][w] = received[r][w]
    OBVIOUS
  <2>1. EvidenceWrite(r, w)
    BY <1>1, EvidenceWrites
  <2>2. evidence[r][w].claimed \/ evidence[r][w].yes_count = 0
    BY <1>1 DEF TermsInv, PaidOut
  <2>3. ~Payable(r, w)
    BY <2>2 DEF Payable
  <2> QED BY <2>1, <2>3 DEF EvidenceWrite
<1>2. TermsInv /\ [Next]_vars => [Once]_vars
  BY <1>1
<1> QED BY <1>2, TermsInvariant, PTL DEF Spec, PaidAtMostOnce

\* Once a round is resolved its money, its counters and the answer do not move,
\* and its pool is only paid down, whatever the authority sends.
THEOREM TermsFrozen == Spec => ResolvedTermsFrozen
<1> DEFINE FrozenRound(r) ==
             /\ rounds'[r].status = rounds[r].status
             /\ rounds'[r].revealed_answer = rounds[r].revealed_answer
             /\ rounds'[r].total_entries = rounds[r].total_entries
             /\ rounds'[r].total_deposits = rounds[r].total_deposits
             /\ rounds'[r].evidence_count = rounds[r].evidence_count
             /\ rounds'[r].total_yes_answers = rounds[r].total_yes_answers
             /\ rounds'[r].evidence_pool = rounds[r].evidence_pool
             /\ rounds'[r].evidence_claimed >= rounds[r].evidence_claimed
           Frozen ==
             \A r \in RoundIds : Resolved(r) /\ rounds'[r].status # "Closed"
                 => FrozenRound(r)
<1>1. ASSUME TermsInv, [Next]_vars PROVE Frozen
  <2> SUFFICES ASSUME NEW r \in RoundIds, Resolved(r),
                      rounds'[r].status # "Closed"
               PROVE  FrozenRound(r)
    OBVIOUS
  <2>1. RoundWrite(r) /\ rounds[r] \in RoundType
    BY <1>1, RoundWrites DEF TermsInv, TypeOK
  <2>2. rounds[r].evidence_claimed \in Nat
    BY <2>1 DEF RoundType
  <2>3. rounds[r] # NoRound /\ ~Is(r, "Active")
    BY DEF Resolved, Is, NoRound
  <2>4. CASE rounds'[r] = rounds[r]
    BY <2>2, <2>4
  <2>5. CASE \E c \in Nat : /\ c >= rounds[r].evidence_claimed
                            /\ rounds'[r] = [rounds[r] EXCEPT !.evidence_claimed = c]
    BY <2>1, <2>5 DEF RoundType
  <2>6. rounds'[r] # [NoRound EXCEPT !.status = "Closed"]
    BY DEF NoRound
  <2> QED BY <2>1, <2>3, <2>4, <2>5, <2>6 DEF RoundWrite
<1>2. TermsInv /\ [Next]_vars => [Frozen]_vars
  BY <1>1
<1> QED BY <1>2, TermsInvariant, PTL DEF Spec, ResolvedTermsFrozen

\* The payout of an expiry leaves at least the current rollover: the snapshot
\* comes back in full, and the donations since, if the rollover is above it.
LEMMA ExpiryPayout ==
    ASSUME TypeOK, NEW r \in RoundIds, PayExpired(r)
    PROVE  game'.rollover_balance >= game.rollover_balance
<1> DEFINE in == rounds[r].rollover_in
           deposits == rounds[r].total_deposits
           out == ExpireOutgoing(r)
           old == game.rollover_balance
<1>1. game'.rollover_balance = (in + deposits - out) + DonationsDuring(r)
  BY DEF PayExpired, ExpireRollover, TypeOK, GameType
<1>2. in \in Nat /\ deposits \in Nat /\ old \in Nat
  BY RoundFields
<1>3. out \in Nat /\ out <= deposits
  BY ExpireSplitType
<1>4. DonationsDuring(r) = IF old >= in THEN old - in ELSE 0
  BY DEF DonationsDuring, SaturatingSub
<1> HIDE DEF in, deposits, out, old
<1>5. (in + deposits - out) + DonationsDuring(r) >= old
  BY <1>2, <1>3, <1>4
<1> QED BY <1>1, <1>5 DEF old

\* Only expire and force_expire make an Active round Expired.
LEMMA ExpiredBy ==
    ASSUME TermsInv, Next, NEW r \in RoundIds, Is(r, "Active"),
           rounds'[r].status = "Expired"
    PROVE  PayExpired(r)
<1>1. TypeOK /\ rounds \in [RoundIds -> RoundType]
  BY DEF TermsInv, TypeOK
<1>2. ASSUME rounds'[r].status = rounds[r].status PROVE FALSE
  BY <1>2 DEF Is
<1>3. ASSUME NEW c \in Commits, CreateRound(c) PROVE FALSE
  <2> DEFINE id == game.current_round_id + 1
  <2>1. id \in RoundIds /\ rounds'[id].status = "Active"
    BY <1>1, <1>3 DEF CreateRound, NoRound
  <2>2. \A q \in RoundIds : q # id => rounds'[q] = rounds[q]
    BY <1>1, <1>3 DEF CreateRound
  <2> QED BY <1>2, <2>1, <2>2
<1>4. ASSUME NEW q \in RoundIds, NEW p \in Players, NEW a \in EntryAmounts,
             Enter(q, p, a)
      PROVE  FALSE
  BY <1>1, <1>2, <1>4 DEF Enter, RoundType
<1>5. ASSUME NEW q \in RoundIds, NEW w \in Players, RecordEvidence(q, w)
      PROVE  FALSE
  BY <1>1, <1>2, <1>5 DEF RecordEvidence, RoundType
<1>6. ASSUME NEW q \in RoundIds, NEW reveal \in Reveals,
             Settle(q, reveal[1], reveal[2])
      PROVE  FALSE
  <2>1. rounds'[q].status = "Settled"
    BY <1>1, <1>6 DEF Settle, RoundType
  <2>2. \A s \in RoundIds : s # q => rounds'[s] = rounds[s]
    BY <1>1, <1>6 DEF Settle
  <2> QED BY <1>2, <2>1, <2>2
<1>7. ASSUME NEW q \in RoundIds, NEW reveal \in Reveals,
             Expire(q, reveal[1], reveal[2])
      PROVE  PayExpired(r)
  <2>1. \A s \in RoundIds : s # q => rounds'[s] = rounds[s]
    BY <1>1, <1>7 DEF Expire
  <2>2. r = q
    BY <1>2, <2>1
  <2> QED BY <1>7, <2>2 DEF Expire
<1>8. ASSUME NEW q \in RoundIds, ForceExpire(q) PROVE PayExpired(r)
  <2>1. \A s \in RoundIds : s # q => rounds'[s] = rounds[s]
    BY <1>1, <1>8 DEF ForceExpire
  <2>2. r = q
    BY <1>2, <2>1
  <2> QED BY <1>8, <2>2 DEF ForceExpire
<1>9. ASSUME NEW q \in RoundIds, NEW w \in Players, ClaimEvidence(q, w)
      PROVE  FALSE
  BY <1>1, <1>2, <1>9 DEF ClaimEvidence, RoundType
<1>10. ASSUME NEW q \in RoundIds, SweepEvidence(q) PROVE FALSE
  BY <1>1, <1>2, <1>10 DEF SweepEvidence, Sweepable, Unclaimed, RoundType
<1>11. ASSUME NEW q \in RoundIds, CloseRound(q) PROVE FALSE
  <2>1. rounds'[q].status = "Closed"
    BY <1>1, <1>11 DEF CloseRound, NoRound
  <2>2. \A s \in RoundIds : s # q => rounds'[s] = rounds[s]
    BY <1>1, <1>11 DEF CloseRound
  <2> QED BY <1>2, <2>1, <2>2
<1>12. ASSUME UNCHANGED rounds PROVE FALSE
  BY <1>2, <1>12
<1> QED BY <1>3, <1>4, <1>5, <1>6, <1>7, <1>8, <1>9, <1>10, <1>11, <1>12
        DEF Next, Unrestricted, Initialize, Donate, CloseEvidence, CloseEntry,
            Gift, Tick

\* An expiry, forced or not, never takes from the rollover, whatever happened to
\* it since the round's snapshot and however many rounds overlap.
THEOREM RolloverKept == Spec => ExpiryKeepsRollover
<1> DEFINE Kept == (\E r \in RoundIds : Is(r, "Active") /\ rounds'[r].status = "Expired")
                       => game'.rollover_balance >= game.rollover_balance
<1>1. ASSUME TermsInv, Next PROVE Kept
  <2> SUFFICES ASSUME NEW r \in RoundIds, Is(r, "Active"),
                      rounds'[r].status = "Expired"
               PROVE  game'.rollover_balance >= game.rollover_balance
    OBVIOUS
  <2> QED BY <1>1, ExpiredBy, ExpiryPayout DEF TermsInv
<1>2. TermsInv /\ [Next]_vars => [Kept]_vars
  BY <1>1
<1> QED BY <1>2, TermsInvariant, PTL DEF Spec, ExpiryKeepsRollover

-----------------------------------------------------------------------------
(* The commitment.  create_round accepts a commitment to any text, so the  *)
(* answer is not fixed (AnswerFixed fails in run v2_answer); what remains  *)
(* is that a second answer needs the separator in it.                      *)

\* Where the parts of the hashed text stand.
LEMMA InputShape ==
    ASSUME NEW S, Separator \in S, NEW answer \in Seq(S), NEW salt \in Seq(S)
    PROVE  LET input == CommitInput(answer, salt)
               at == Len(answer) + 1
           IN  /\ Len(input) = at + Len(salt)
               /\ \A i \in 1..Len(answer) : input[i] = answer[i]
               /\ input[at] = Separator
               /\ \A i \in 1..Len(salt) : input[at + i] = salt[i]
<1>1. <<Separator>> \in Seq(S) /\ Len(<<Separator>>) = 1
      /\ <<Separator>>[1] = Separator
  OBVIOUS
<1> DEFINE head == answer \o <<Separator>>
<1>2. head \in Seq(S) /\ Len(head) = Len(answer) + 1
      /\ (\A i \in 1..Len(answer) : head[i] = answer[i])
      /\ head[Len(answer) + 1] = Separator
  BY <1>1, ConcatProperties
<1>3. CommitInput(answer, salt) = head \o salt
  BY DEF CommitInput
<1> HIDE DEF head
<1>4. Len(head \o salt) = Len(head) + Len(salt)
      /\ \A i \in 1..Len(head) + Len(salt) :
            (head \o salt)[i] = IF i <= Len(head) THEN head[i] ELSE salt[i - Len(head)]
  BY <1>2, ConcatProperties
<1>5. Len(answer) \in Nat /\ Len(salt) \in Nat
  BY LenProperties
<1> QED BY <1>2, <1>3, <1>4, <1>5

\* Two pairs that hash to the same text put the separator in the same place, if
\* one answer is without it, and either that answer's salt or the other answer too.
LEMMA SeparatorFixed ==
    ASSUME NEW S, Separator \in S,
           NEW answer \in Seq(S), NEW salt \in Seq(S),
           NEW other \in Seq(S), NEW pepper \in Seq(S),
           SeparatorFree(answer), SeparatorFree(salt) \/ SeparatorFree(other),
           CommitInput(answer, salt) = CommitInput(other, pepper)
    PROVE  Len(other) = Len(answer) /\ Len(pepper) = Len(salt)
<1> DEFINE input == CommitInput(answer, salt)
           k == Len(answer) + 1
           l == Len(other) + 1
<1>1. /\ Len(input) = k + Len(salt) /\ input[k] = Separator
      /\ \A i \in 1..Len(answer) : input[i] = answer[i]
      /\ \A i \in 1..Len(salt) : input[k + i] = salt[i]
  BY InputShape
<1>2. /\ Len(input) = l + Len(pepper) /\ input[l] = Separator
      /\ \A i \in 1..Len(other) : input[i] = other[i]
  <2> DEFINE same == CommitInput(other, pepper)
  <2>1. /\ Len(same) = l + Len(pepper) /\ same[l] = Separator
        /\ \A i \in 1..Len(other) : same[i] = other[i]
    BY InputShape
  <2>2. same = input
    OBVIOUS
  <2> QED BY <2>1, <2>2
<1>3. /\ Len(answer) \in Nat /\ Len(salt) \in Nat
      /\ Len(other) \in Nat /\ Len(pepper) \in Nat
  BY LenProperties
<1> HIDE DEF input
<1>4. ~(l < k)
  <2> SUFFICES ASSUME l < k PROVE FALSE
    OBVIOUS
  <2>1. l \in 1..Len(answer)
    BY <1>3
  <2>2. input[l] = answer[l]
    BY <2>1, <1>1
  <2> QED BY <2>1, <2>2, <1>2 DEF SeparatorFree
<1>5. ~(k < l)
  <2> SUFFICES ASSUME k < l PROVE FALSE
    OBVIOUS
  <2>1. l - k \in 1..Len(salt) /\ k + (l - k) = l
    BY <1>1, <1>2, <1>3
  <2>2. input[l] = salt[l - k]
    BY <2>1, <1>1
  <2>3. ~SeparatorFree(salt)
    BY <2>1, <2>2, <1>2 DEF SeparatorFree
  <2>4. k \in 1..Len(other) /\ input[k] = other[k]
    BY <1>2, <1>3
  <2>5. ~SeparatorFree(other)
    BY <2>4, <1>1 DEF SeparatorFree
  <2> QED BY <2>3, <2>5
<1> QED BY <1>1, <1>2, <1>3, <1>4, <1>5

\* A round committed to an answer without the separator can be settled or expired
\* with another answer or salt only if the separator is in the committed salt and
\* in the other answer: the commit check itself, for texts of any length.
THEOREM OneOpening ==
    ASSUME NEW S, Separator \in S,
           NEW answer \in Seq(S), NEW salt \in Seq(S),
           NEW other \in Seq(S), NEW pepper \in Seq(S),
           SeparatorFree(answer), SeparatorFree(salt) \/ SeparatorFree(other),
           MayOpen(CommitInput(answer, salt), other, pepper)
    PROVE  other = answer /\ pepper = salt
<1>1. CommitInput(answer, salt) = CommitInput(other, pepper)
  BY DEF MayOpen
<1>2. Len(other) = Len(answer) /\ Len(pepper) = Len(salt)
  BY <1>1, SeparatorFixed
<1> DEFINE input == CommitInput(answer, salt)
           at == Len(answer) + 1
<1>3. /\ Len(input) = at + Len(salt)
      /\ \A i \in 1..Len(answer) : input[i] = answer[i]
      /\ input[at] = Separator
      /\ \A i \in 1..Len(salt) : input[at + i] = salt[i]
  BY InputShape
<1>4. /\ Len(CommitInput(other, pepper)) = Len(other) + 1 + Len(pepper)
      /\ \A i \in 1..Len(other) : CommitInput(other, pepper)[i] = other[i]
      /\ CommitInput(other, pepper)[Len(other) + 1] = Separator
      /\ \A i \in 1..Len(pepper) :
            CommitInput(other, pepper)[Len(other) + 1 + i] = pepper[i]
  BY InputShape
<1>5. CommitInput(other, pepper) = input
  BY <1>1
<1> HIDE DEF input
<1>6. \A i \in 1..Len(other) : other[i] = answer[i]
  BY <1>2, <1>3, <1>4, <1>5
<1>7. \A i \in 1..Len(pepper) : pepper[i] = salt[i]
  <2> SUFFICES ASSUME NEW i \in 1..Len(pepper) PROVE pepper[i] = salt[i]
    OBVIOUS
  <2>1. input[at + i] = salt[i]
    BY <1>2, <1>3
  <2>2. input[Len(other) + 1 + i] = pepper[i]
    BY <1>4, <1>5
  <2> QED BY <2>1, <2>2, <1>2
<1>8. other = answer
  BY <1>2, <1>6, SeqEqual
<1>9. pepper = salt
  BY <1>2, <1>7, SeqEqual
<1> QED BY <1>8, <1>9
=============================================================================
