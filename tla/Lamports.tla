------------------------------ MODULE Lamports ------------------------------
(***************************************************************************)
(* Lamport arithmetic as the three programs do it: amounts are u64, every  *)
(* addition and multiplication is checked, and a share of a pool is a      *)
(* number of basis points of it, rounded down.                             *)
(***************************************************************************)
EXTENDS Integers, Functions

CONSTANT MAX_U64   \* u64::MAX, scaled

ASSUME MaxU64Assumption == MAX_U64 \in Nat

BPS_TOTAL == 10000

\* A checked operation succeeds exactly when its result fits.
Fits(amount) == amount <= MAX_U64

\* amount.checked_mul(bps)?.checked_div(BPS_TOTAL)?
BpsCut(amount, bps) == (amount * bps) \div BPS_TOTAL
BpsFits(amount, bps) == Fits(amount * bps)

\* u64::saturating_sub
SaturatingSub(a, b) == IF a >= b THEN a - b ELSE 0

\* f[1] + ... + f[n]
SumTo(f, n) == SumFunctionOnSet(f, 1..n)
=============================================================================
