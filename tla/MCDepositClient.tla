--------------------------- MODULE MCDepositClient ---------------------------
(* TLC instances of DepositClient. *)
EXTENDS DepositClient, TLC

CONSTANTS a, b

TabSymmetry == Permutations(Tabs)

NoMishap == [failure |-> 0, overtaken |-> 0]
OneOfEach == [failure |-> 1, overtaken |-> 1]
=============================================================================
