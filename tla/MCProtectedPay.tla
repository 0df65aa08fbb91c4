--------------------------- MODULE MCProtectedPay ---------------------------
(* Small instances of ProtectedPay for TLC. *)
EXTENDS ProtectedPayRefinement, TLC

CONSTANTS alice, bob, p1, p2

\* Alice can pay twice, Bob has nothing of his own.
AliceOnly == [u \in Users |-> IF u = alice THEN 2 ELSE 0]
AliceOne == [u \in Users |-> IF u = alice THEN 1 ELSE 0]

Symmetry == Permutations(Payments)
=============================================================================
