---------------------------- MODULE MCAlonsBoxV2 ----------------------------
(***************************************************************************)
(* Instance constants for model-checking AlonsBoxV2.  The basis points are *)
(* the program's own; lamports and seconds are scaled down.                *)
(***************************************************************************)
EXTENDS AlonsBoxV2, TLC

Symmetry == Permutations(Players)

\* The authority may reveal what it committed to, another answer, the same
\* letters split in another way, or an answer longer than a reveal may be.
Promised == <<<<"a">>, <<"s">>>>
Split == <<<<>>, <<"a", "s">>>>
Overlong == <<<<"a", "b", "c">>, <<"s">>>>
MCReveals == {Promised, <<<<"b">>, <<"s">>>>, Split, Overlong}

\* Commitments: one that can be revealed, and one that create_round accepts too
\* although no settle or expire can ever meet it.
MCCommits == {CommitInput(Promised[1], Promised[2])}
AnyCommits == MCCommits \cup {CommitInput(Overlong[1], Overlong[2])}

\* Texts of up to two tokens, the separator included, the pairs of them, and the
\* commitments to these.
Texts == UNION {[1..n -> {"a", Separator}] : n \in 1..2}
TextReveals == Texts \X Texts
TextCommits == {CommitInput(reveal[1], reveal[2]) : reveal \in TextReveals}

\* Rounds of one time unit, open to entries until their end, and rounds of two
\* time units that close to entries at their end or one unit before.
ShortRounds == {[duration |-> 1, cutoff |-> 0]}
LongRounds == {[duration |-> 2, cutoff |-> 0], [duration |-> 2, cutoff |-> 1]}
=============================================================================
