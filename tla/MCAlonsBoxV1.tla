---------------------------- MODULE MCAlonsBoxV1 ----------------------------
(***************************************************************************)
(* Instance constants for model-checking AlonsBoxV1.  The basis points are *)
(* the program's own; lamports and seconds are scaled down.                *)
(***************************************************************************)
EXTENDS AlonsBoxV1, TLC

Symmetry == Permutations(Players)

\* The authority may reveal what it committed to, or an answer that is longer
\* than a reveal may be, and may have committed to either.
Promised == <<<<"a">>, <<"s">>>>
Overlong == <<<<"a", "b">>, <<"s">>>>
MCReveals == {Promised, Overlong}
MCCommits == {CommitInput(reveal[1], reveal[2]) : reveal \in MCReveals}
=============================================================================
