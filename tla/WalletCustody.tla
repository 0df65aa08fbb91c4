---------------------------- MODULE WalletCustody ----------------------------
(***************************************************************************)
(* What custody promises one wallet, with no instructions, transactions or *)
(* commitments: USDC moves between the wallet and its Deposit only while   *)
(* the Deposit is on the base chain, payments change the Deposit only      *)
(* where it is writable and never touch the wallet, and nothing happens to *)
(* a Deposit that is on its way back from the rollup.                      *)
(*                                                                         *)
(* The program implements this for every user (ProtectedPayRefinement),    *)
(* the accounts the browser meets for its one wallet (DepositAccounts).    *)
(***************************************************************************)
EXTENDS Integers

CONSTANT Savings    \* the USDC in the wallet at the start

VARIABLES
    place,      \* where the Deposit lives
    balance,    \* what it holds
    usdc        \* what the wallet holds beside it

vars == <<place, balance, usdc>>

Init == place = "absent" /\ balance = 0 /\ usdc = Savings

\* USDC moves either way, or not at all; none is created or lost.
Exchange ==
    /\ balance' \in Nat /\ usdc' \in Nat
    /\ balance' + usdc' = balance + usdc

\* A transaction may create the Deposit and fund it.
Create == place = "absent" /\ place' = "base" /\ Exchange

\* A transaction may change the balance, delegate the Deposit, or both.
Change == place = "base" /\ place' \in {"base", "er"} /\ Exchange

Return == place = "er" /\ place' = "returning" /\ UNCHANGED <<balance, usdc>>

Land == place = "returning" /\ place' = "base" /\ UNCHANGED <<balance, usdc>>

\* A payment is opened, cancelled, recovered or collected.
Pay == place \in {"base", "er"} /\ balance' \in Nat /\ UNCHANGED <<place, usdc>>

Next == Create \/ Change \/ Return \/ Land \/ Pay
Step == Next \/ UNCHANGED vars

Spec == Init /\ [][Next]_vars
=============================================================================
