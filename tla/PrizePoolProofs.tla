--------------------------- MODULE PrizePoolProofs ---------------------------
(***************************************************************************)
(* What a prize pool keeps, for any number of rounds: nothing it holds     *)
(* ever goes missing, is counted twice or is owed beyond what there is.    *)
(***************************************************************************)
EXTENDS PrizePool, LamportsProofs

PoolType ==
    /\ held \in Nat
    /\ reserve \in Nat
    /\ pots \in [Rounds -> Nat]
    /\ phase \in [Rounds -> {"Unused", "Open", "Resolved"}]

PoolInv ==
    /\ PoolType
    /\ \A r \in Rounds : phase[r] = "Unused" => pots[r] = 0
    /\ Covered

\* One round's pot changes, and held and reserve by what makes up for it.
LEMMA OnePotChanges ==
    ASSUME NumRounds \in Nat, PoolInv, NEW r \in Rounds, NEW amount \in Nat,
           held' \in Int, reserve' \in Nat, pots' = [pots EXCEPT ![r] = amount],
           held' - held = (reserve' - reserve) + (amount - pots[r])
    PROVE  Covered' /\ held' \in Nat
<1> DEFINE f == pots
           g == pots'
<1>1. /\ NumRounds \in Nat /\ r \in 1..NumRounds
      /\ \A i \in 1..NumRounds : f[i] \in Nat /\ g[i] \in Nat
      /\ \A i \in 1..NumRounds : i # r => g[i] = f[i]
      /\ f[r] = pots[r] /\ g[r] = amount /\ f[r] \in Nat
  BY DEF PoolInv, PoolType, Rounds
<1>2. /\ held = reserve + SumTo(f, NumRounds) /\ held \in Nat /\ reserve \in Nat
      /\ Covered' <=> held' = reserve' + SumTo(g, NumRounds)
  BY DEF PoolInv, PoolType, Covered
<1>3. held' - held = (reserve' - reserve) + (amount - f[r])
  OBVIOUS
<1> HIDE DEF f, g
<1>4. SumTo(f, NumRounds) \in Nat
  BY <1>1, SumToNat
<1>5. SumTo(g, NumRounds) \in Nat
  BY <1>1, SumToNat
<1>6. \A i \in 1..NumRounds : f[i] \in Int /\ g[i] \in Int
  BY <1>1
<1>7. SumTo(g, NumRounds) = SumTo(f, NumRounds) + g[r] - f[r]
  BY <1>1, <1>6, SumToChangeOne
<1> QED BY <1>1, <1>2, <1>3, <1>4, <1>5, <1>7

LEMMA PoolStart == ASSUME NumRounds \in Nat, PoolInit PROVE PoolInv
<1>1. SumTo(pots, NumRounds) \in Int
  BY SumToType DEF PoolInit, Rounds
<1> QED BY <1>1 DEF PoolInit, PoolInv, PoolType, Covered

LEMMA PoolStep ==
    ASSUME NumRounds \in Nat, PoolInv, [PoolNext]_poolVars
    PROVE  PoolInv'
<1> USE DEF PoolInv, PoolType
<1>1. ASSUME UNCHANGED poolVars PROVE PoolInv'
  BY <1>1 DEF poolVars, Covered
<1>2. ASSUME Endow, held' \in Int PROVE PoolInv'
  <2>1. SumTo(pots, NumRounds) \in Int
    BY SumToType DEF Rounds
  <2> QED BY <1>2, <2>1 DEF Endow, Covered
<1>3. ASSUME NEW r \in Rounds, Open(r), held' \in Int PROVE PoolInv'
  <2>1. pots'[r] \in Nat /\ held' = held /\ reserve' = reserve - pots'[r]
        /\ pots[r] = 0 /\ reserve' \in Nat
    BY <1>3 DEF Open
  <2>2. pots' = [pots EXCEPT ![r] = pots'[r]] /\ phase' = [phase EXCEPT ![r] = "Open"]
    BY <1>3 DEF Open
  <2>3. Covered' /\ held' \in Nat
    BY <2>1, <2>2, OnePotChanges
  <2> QED BY <2>1, <2>2, <2>3
<1>4. ASSUME NEW r \in Rounds, Stake(r), held' \in Int PROVE PoolInv'
  <2>1. PICK d \in Nat : d = held' - held
    BY <1>4 DEF Stake
  <2> DEFINE new == pots[r] + d
  <2>2. reserve' = reserve /\ phase' = phase
        /\ pots' = [pots EXCEPT ![r] = new] /\ phase[r] = "Open"
    BY <1>4, <2>1 DEF Stake
  <2>3. pots[r] \in Nat /\ reserve \in Nat
    BY <1>4
  <2>4. new \in Nat /\ new - pots[r] = d
    BY <2>3
  <2> HIDE DEF new
  <2>5. reserve' \in Nat /\ held' - held = (reserve' - reserve) + (new - pots[r])
    BY <2>1, <2>2, <2>3, <2>4
  <2>6. Covered' /\ held' \in Nat
    BY <1>4, <2>2, <2>4, <2>5, OnePotChanges
  <2> QED BY <1>4, <2>2, <2>4, <2>5, <2>6
<1>5. ASSUME NEW r \in Rounds, Resolve(r), held' \in Int PROVE PoolInv'
  <2>1. /\ held - held' \in Nat /\ pots'[r] \in Nat
        /\ pots[r] - (held - held') - pots'[r] \in Nat
        /\ reserve' = reserve + (pots[r] - (held - held') - pots'[r])
    BY <1>5 DEF Resolve
  <2>2. /\ pots' = [pots EXCEPT ![r] = pots'[r]]
        /\ phase' = [phase EXCEPT ![r] = "Resolved"]
    BY <1>5 DEF Resolve
  <2>3. held' \in Int /\ reserve' \in Nat
        /\ held' - held = (reserve' - reserve) + (pots'[r] - pots[r])
    BY <1>5, <2>1
  <2>4. Covered' /\ held' \in Nat
    BY <2>1, <2>2, <2>3, OnePotChanges
  <2> QED BY <2>1, <2>2, <2>3, <2>4
<1>6. ASSUME NEW r \in Rounds, Pay(r), held' \in Int PROVE PoolInv'
  <2> DEFINE new == pots[r] - (held - held')
  <2>1. held - held' \in 0..pots[r] /\ reserve' = reserve /\ phase' = phase
        /\ pots' = [pots EXCEPT ![r] = new] /\ phase[r] = "Resolved"
    BY <1>6 DEF Pay
  <2>2. pots[r] \in Nat /\ held \in Nat /\ reserve \in Nat /\ held' \in Int
    BY <1>6
  <2>3. new \in Nat /\ held' - held = (reserve' - reserve) + (new - pots[r])
    BY <2>1, <2>2
  <2> HIDE DEF new
  <2>4. reserve' \in Nat
    BY <2>1, <2>2
  <2>5. Covered' /\ held' \in Nat
    BY <2>1, <2>2, <2>3, <2>4, OnePotChanges
  <2> QED BY <2>1, <2>2, <2>3, <2>5
<1>7. ASSUME NEW r \in Rounds, Release(r), held' \in Int PROVE PoolInv'
  <2>1. reserve' = reserve + pots[r] /\ held' = held /\ phase' = phase
        /\ pots' = [pots EXCEPT ![r] = 0]
    BY <1>7 DEF Release
  <2>2. /\ held' \in Int /\ reserve' \in Nat
        /\ held' - held = (reserve' - reserve) + (0 - pots[r])
    BY <2>1
  <2>3. Covered' /\ held' \in Nat
    BY <2>1, <2>2, OnePotChanges
  <2> QED BY <2>1, <2>2, <2>3
<1> QED BY <1>1, <1>2, <1>3, <1>4, <1>5, <1>6, <1>7 DEF PoolNext

\* A prize pool always holds what it owes: the reserve and every pot, none of
\* which is negative, add up to the lamports held.
THEOREM PoolCovered ==
    ASSUME NumRounds \in Nat
    PROVE  PoolSpec => []PoolInv
<1>1. PoolInit => PoolInv
  BY PoolStart
<1>2. PoolInv /\ [PoolNext]_poolVars => PoolInv'
  BY PoolStep
<1> QED BY <1>1, <1>2, PTL DEF PoolSpec
=============================================================================
