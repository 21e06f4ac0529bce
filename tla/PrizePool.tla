------------------------------ MODULE PrizePool ------------------------------
(***************************************************************************)
(* What the three programs promise about the lamports in their vault, with *)
(* everything else left out: there is a reserve (the rollover, the NRR)    *)
(* and one pot per round.  A round is opened with a part of the reserve,   *)
(* collects stakes, and is resolved: some of its pot is paid at once, some *)
(* stays for later claims, the rest goes to the reserve.  What is claimed  *)
(* comes out of the round's own pot, until the rest of it is released.     *)
(*                                                                         *)
(* No round pays with another round's lamports or with the reserve, and    *)
(* nothing is paid before a round is resolved.  AlonsBoxV1, AlonsBoxV2 and *)
(* TwoPills each map their state onto this one.                            *)
(***************************************************************************)
EXTENDS Lamports

CONSTANT NumRounds

VARIABLES
    held,       \* lamports the program is responsible for
    reserve,    \* those that belong to no round
    pots,       \* those of each round
    phase       \* of each round: "Unused", "Open" or "Resolved"

poolVars == <<held, reserve, pots, phase>>

Rounds == 1..NumRounds

\* Every lamport held belongs to the reserve or to one round.
Covered == held = reserve + SumTo(pots, NumRounds)

\* A pool may also be taken over in the middle of its life.
PoolInit ==
    /\ held \in Nat
    /\ reserve \in Nat
    /\ pots \in [Rounds -> Nat]
    /\ phase \in [Rounds -> {"Unused", "Open", "Resolved"}]
    /\ \A r \in Rounds : phase[r] = "Unused" => pots[r] = 0
    /\ Covered

\* The amount an action moves is read off the step itself: held' - held is
\* what came in, pots'[r] is what a round is left with.
Endow ==
    LET amount == held' - held
    IN  /\ amount \in Nat
        /\ reserve' = reserve + amount
        /\ UNCHANGED <<pots, phase>>

Open(r) ==
    LET seed == pots'[r]
    IN  /\ phase[r] = "Unused"
        /\ seed \in 0..reserve
        /\ phase' = [phase EXCEPT ![r] = "Open"]
        /\ reserve' = reserve - seed
        /\ pots' = [pots EXCEPT ![r] = seed]
        /\ UNCHANGED held

Stake(r) ==
    LET amount == held' - held
    IN  /\ phase[r] = "Open"
        /\ amount \in Nat
        /\ pots' = [pots EXCEPT ![r] = @ + amount]
        /\ UNCHANGED <<reserve, phase>>

Resolve(r) ==
    LET paid == held - held'
        kept == pots'[r]
        rest == pots[r] - paid - kept
    IN  /\ phase[r] = "Open"
        /\ paid \in Nat /\ kept \in Nat /\ rest \in Nat
        /\ phase' = [phase EXCEPT ![r] = "Resolved"]
        /\ pots' = [pots EXCEPT ![r] = kept]
        /\ reserve' = reserve + rest

Pay(r) ==
    LET amount == held - held'
    IN  /\ phase[r] = "Resolved"
        /\ amount \in 0..pots[r]
        /\ pots' = [pots EXCEPT ![r] = @ - amount]
        /\ UNCHANGED <<reserve, phase>>

Release(r) ==
    /\ phase[r] = "Resolved"
    /\ pots' = [pots EXCEPT ![r] = 0]
    /\ reserve' = reserve + pots[r]
    /\ UNCHANGED <<held, phase>>

PoolNext ==
    /\ held' \in Int
    /\ \/ Endow
       \/ \E r \in Rounds :
             Open(r) \/ Stake(r) \/ Resolve(r) \/ Pay(r) \/ Release(r)

PoolSpec == PoolInit /\ [][PoolNext]_poolVars
=============================================================================
