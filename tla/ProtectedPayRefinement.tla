----------------------- MODULE ProtectedPayRefinement -----------------------
(* The program implements the promise of ReversibleEscrow: what a user owns  *)
(* is the wallet and the Deposit's available funds, and the phase of a       *)
(* payment is read from its status and from whether it has been sealed.      *)
EXTENDS ProtectedPay

PhaseOf(pay) ==
    CASE ~pay.initialized -> "idle"
      [] pay.initialized /\ pay.status = "Created" -> "held"
      [] pay.initialized /\ pay.status = "Acknowledged" -> "confirmed"
      [] pay.initialized /\ pay.status = "Cancelled" -> "undone"
      [] pay.initialized /\ pay.status = "Settled" ->
            IF pay.redacted THEN "paid" ELSE "final"
      [] pay.initialized /\ pay.status = "Expired" ->
            IF pay.redacted THEN "recovered" ELSE "lapsed"

EscrowOf(pay) ==
    IF pay.initialized
    THEN [phase |-> PhaseOf(pay), from |-> Terms(pay).sender, to |-> Terms(pay).recipient,
          amount |-> Terms(pay).amount, settle_after |-> Terms(pay).settle_after,
          expires_at |-> Terms(pay).expires_at]
    ELSE [phase |-> "idle", from |-> NoUser, to |-> NoUser, amount |-> 0,
          settle_after |-> 0, expires_at |-> 0]

Funds == [u \in Users |-> wallet[u] + deposit[u].available]
Escrows == [p \in Payments |-> EscrowOf(payment[p])]

Promise == INSTANCE ReversibleEscrow WITH
    Times <- Time, clock <- now, funds <- Funds, escrow <- Escrows

\* Every behaviour of the program is one the promise allows: each instruction,
\* in any order and interleaving, is a step of ReversibleEscrow or changes
\* nothing it speaks of.  In particular deposits and withdrawals leave what a user
\* owns unchanged, and every other change of it is one hold, undo or collection.
ImplementsPromise == Promise!Spec

CustodyOf(u) == INSTANCE WalletCustody WITH
    Savings <- Endowment[u], place <- deposit[u].layer,
    balance <- deposit[u].available, usdc <- wallet[u]

\* To each user the program is a custodian: whatever payments and other users do,
\* a wallet and its Deposit exchange USDC only on the base chain, and a Deposit is
\* changed by payments only where it is writable, never on its way back.
\* (This is \A u \in Users : CustodyOf(u)!Spec, in a form that TLC can check.)
ImplementsCustody ==
    /\ \A u \in Users : CustodyOf(u)!Init
    /\ [][\A u \in Users : CustodyOf(u)!Step]_vars
=============================================================================
