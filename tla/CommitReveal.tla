---------------------------- MODULE CommitReveal ----------------------------
(***************************************************************************)
(* The commitment that both alons-box programs check: create_round stores  *)
(* a hash, settle and expire recompute it from an answer and a salt.  The  *)
(* hash is taken to be injective, so a commitment is the hashed text; a    *)
(* text is a sequence of tokens, one of which is the separator.            *)
(***************************************************************************)
EXTENDS Naturals, Sequences

CONSTANTS
    Reveals,              \* <<answer, salt>> pairs the authority may present
    MAX_REVEAL_LEN        \* 64 bytes in the code

Separator == ":"

\* format!("{}:{}", answer, salt): nothing keeps the separator out of either.
CommitInput(answer, salt) == answer \o <<Separator>> \o salt

\* The length checks and the commit check that settle and expire share.
MayOpen(commit, answer, salt) ==
    /\ Len(answer) <= MAX_REVEAL_LEN /\ Len(salt) <= MAX_REVEAL_LEN
    /\ CommitInput(answer, salt) = commit

\* There is at most one answer and salt that a commitment can be opened with.
OpensOneWay(commit) ==
    \A x, y \in Reveals :
        MayOpen(commit, x[1], x[2]) /\ MayOpen(commit, y[1], y[2]) => x = y

SeparatorFree(text) == \A i \in 1..Len(text) : text[i] # Separator
=============================================================================
