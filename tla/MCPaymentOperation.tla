------------------------- MODULE MCPaymentOperation -------------------------
(* TLC instances of PaymentOperation. *)
EXTENDS PaymentOperation, TLC

CONSTANTS a, b

TabSymmetry == Permutations(Tabs)

StaleTabs == [failure |-> 0, suspended |-> 1, late |-> 1]
OneFailure == [failure |-> 1, suspended |-> 0, late |-> 0]
NoMishap == [failure |-> 0, suspended |-> 0, late |-> 0]
OneSuspension == [failure |-> 0, suspended |-> 1, late |-> 0]
=============================================================================
