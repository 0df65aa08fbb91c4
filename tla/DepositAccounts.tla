--------------------------- MODULE DepositAccounts ---------------------------
(***************************************************************************)
(* One wallet's Deposit account, the access permission beside it and the   *)
(* wallet's USDC, as the browser meets them: through transactions that may *)
(* land late, twice attempted or never, and through reads at the           *)
(* "confirmed" or the "finalized" commitment.                              *)
(*                                                                         *)
(* First funding, onboarding and balance operations (FirstFunding,         *)
(* BalanceOperation) run against it.  Payments are what moves the private  *)
(* balance meanwhile; they are modelled in ProtectedPay.                   *)
(***************************************************************************)
EXTENDS Integers, Sequences

CONSTANTS
    Tabs,       \* browser tabs connected to the wallet
    Savings,    \* the USDC in the wallet at the start
    Funding,    \* the USDC of a first funding; later changes are of 1
    MaxMoves,   \* bound: payments that move the private balance
    Allowed,    \* bound: Allowed[m] mishaps of kind m
    MaxMishaps  \* bound: mishaps of all kinds together

\* "failure": an awaited call rejects or takes too long, a tab dies, or a
\* transaction never lands.  "overtaken": a transaction lands between the two
\* requests that ask for its outcome.
Mishaps == {"failure", "overtaken"}

ASSUME AmountAssumption == Savings \in Nat /\ Funding \in Nat \ {0}
ASSUME BudgetAssumption == MaxMoves \in Nat /\ MaxMishaps \in Nat /\ Allowed \in [Mishaps -> Nat]

VARIABLES
    account,    \* the accounts as of the latest confirmed block
    finalized,  \* what the base chain shows at the finalized commitment
    tx,         \* the signed transactions; a signature is an index of tx
    paid,       \* somebody has prepared a payment to this wallet
    moves,      \* the payments that moved the private balance
    mishaps     \* mishaps[m]: what went wrong so far

chain == <<account, finalized, tx, paid, moves>>

-----------------------------------------------------------------------------
(* The accounts *)

\* The layers are those of ProtectedPay; a permission never comes back.
Account == [deposit : {"absent", "base", "er", "returning"},
            permission : {"absent", "base", "er"},
            available : Nat,      \* the balance in the Deposit
            public : Nat,         \* the balance its base-chain copy shows
            wallet : Nat]

\* The program that owns the Deposit on the base chain.
Owner(a) == CASE a.deposit = "absent" -> "nobody"
              [] a.deposit = "base" -> "program"
              [] OTHER -> "delegation"

\* What getAccountInfo and getMultipleAccounts show on the base chain.
Shown(a) == [owner |-> Owner(a), permission |-> a.permission,
             available |-> a.public, wallet |-> a.wallet]

Kinds == {"prepare", "delegate", "onboard", "return", "deposit", "withdraw"}

\* Mutant: initialize_deposit accepts a Deposit that exists.
AcceptedAgain(kind, a) ==
    CASE kind = "prepare" -> a.deposit \in {"absent", "base"} /\ a.wallet >= Funding
      [] kind = "delegate" -> a.deposit = "base" /\ a.permission = "base"
      [] kind = "onboard" -> a.deposit = "base" /\ a.permission = "absent"
      [] kind = "return" -> a.deposit = "er"
      [] kind = "deposit" -> a.deposit = "base" /\ a.wallet >= 1
      [] kind = "withdraw" -> a.deposit = "base" /\ a.available >= 1

\* The program executes all of a transaction's instructions, or none: "prepare"
\* initializes, funds and creates the permission, "delegate" delegates both,
\* "onboard" creates the permission first; a change of the balance delegates
\* the Deposit again.
Accepted(kind, a) ==
    CASE kind = "prepare" -> /\ a.deposit = "absent" /\ a.permission = "absent"
                             /\ a.wallet >= Funding
      [] kind = "delegate" -> a.deposit = "base" /\ a.permission = "base"
      [] kind = "onboard" -> a.deposit = "base" /\ a.permission = "absent"
      [] kind = "return" -> a.deposit = "er"
      [] kind = "deposit" -> a.deposit = "base" /\ a.wallet >= 1
      [] kind = "withdraw" -> a.deposit = "base" /\ a.available >= 1

\* Mutant: onboarding leaves the permission on the base chain.
EffectUnpermissioned(kind, a) ==
    CASE kind = "prepare" -> [a EXCEPT !.deposit = "base", !.permission = "base",
                                       !.available = Funding, !.public = Funding,
                                       !.wallet = @ - Funding]
      [] kind \in {"delegate", "onboard"} -> [a EXCEPT !.deposit = "er"]
      [] kind = "return" -> [a EXCEPT !.deposit = "returning"]
      [] kind = "deposit" -> [a EXCEPT !.deposit = "er", !.available = @ + 1,
                                       !.public = a.available + 1, !.wallet = @ - 1]
      [] kind = "withdraw" -> [a EXCEPT !.deposit = "er", !.available = @ - 1,
                                        !.public = a.available - 1, !.wallet = @ + 1]

Effect(kind, a) ==
    CASE kind = "prepare" -> [a EXCEPT !.deposit = "base", !.permission = "base",
                                       !.available = Funding, !.public = Funding,
                                       !.wallet = @ - Funding]
      [] kind \in {"delegate", "onboard"} -> [a EXCEPT !.deposit = "er", !.permission = "er"]
      [] kind = "return" -> [a EXCEPT !.deposit = "returning"]
      [] kind = "deposit" -> [a EXCEPT !.deposit = "er", !.available = @ + 1,
                                       !.public = a.available + 1, !.wallet = @ - 1]
      [] kind = "withdraw" -> [a EXCEPT !.deposit = "er", !.available = @ - 1,
                                        !.public = a.available - 1, !.wallet = @ + 1]

-----------------------------------------------------------------------------
(* Transactions, time and other people *)

\* `op` is the balance operation a transaction was signed for, 0 for none.
Transaction == [kind : Kinds, op : Nat, late : BOOLEAN,
                state : {"sent", "landed", "failed"}]

AccountsTypeOK ==
    /\ account \in Account
    /\ finalized \in [owner : {"nobody", "program", "delegation"},
                      permission : {"absent", "base", "er"},
                      available : Nat, wallet : Nat]
    /\ tx \in Seq(Transaction)
    /\ paid \in BOOLEAN
    /\ moves \in Nat
    /\ mishaps \in [Mishaps -> Nat]

\* Before the first funding.
Unfunded == [deposit |-> "absent", permission |-> "absent", available |-> 0,
             public |-> 0, wallet |-> Savings]

\* After it.
Funded == [deposit |-> "er", permission |-> "er", available |-> Funding,
           public |-> Funding, wallet |-> Savings]

AccountsInit(a) ==
    /\ account = a
    /\ finalized = Shown(account)
    /\ tx = << >>
    /\ paid = FALSE
    /\ moves = 0
    /\ mishaps = [m \in Mishaps |-> 0]

Suffer(m) == /\ mishaps[m] < Allowed[m]
             /\ mishaps["failure"] + mishaps["overtaken"] < MaxMishaps
             /\ mishaps' = [mishaps EXCEPT ![m] = @ + 1]

\* sendTransaction, after a simulation at the confirmed state.
Send(kind, op) ==
    tx' = Append(tx, [kind |-> kind, op |-> op, late |-> FALSE, state |-> "sent"])

\* A block executes the transaction; the program may have to refuse it by now.
Lands(x) ==
    /\ tx[x].state = "sent" /\ ~tx[x].late
    /\ IF Accepted(tx[x].kind, account)
       THEN /\ tx' = [tx EXCEPT ![x].state = "landed"]
            /\ account' = Effect(tx[x].kind, account)
       ELSE tx' = [tx EXCEPT ![x].state = "failed"] /\ UNCHANGED account
    /\ UNCHANGED <<finalized, paid, moves, mishaps>>

\* The block height passes lastValidBlockHeight, with or without the transaction.
PassesLastValid(x) ==
    /\ ~tx[x].late
    /\ tx' = [tx EXCEPT ![x].late = TRUE]
    /\ IF tx[x].state = "sent" THEN Suffer("failure") ELSE UNCHANGED mishaps
    /\ UNCHANGED <<account, finalized, paid, moves>>

\* Mutant: the base chain's copy wins over the commit.
ReturnCommitsStale ==
    /\ account.deposit = "returning"
    /\ account' = [account EXCEPT !.deposit = "base", !.available = account.public]
    /\ UNCHANGED <<finalized, tx, paid, moves, mishaps>>

\* The rollup's commit of a returning Deposit reaches the base chain.
ReturnCommits ==
    /\ account.deposit = "returning"
    /\ account' = [account EXCEPT !.deposit = "base", !.public = account.available]
    /\ UNCHANGED <<finalized, tx, paid, moves, mishaps>>

Finalizes ==
    /\ finalized # Shown(account)
    /\ finalized' = Shown(account)
    /\ UNCHANGED <<account, tx, paid, moves, mishaps>>

\* A sender prepares a payment to this wallet; runPaymentOperation initializes
\* the recipient's Deposit where there is none.
SomebodyPays ==
    /\ ~paid
    /\ paid' = TRUE
    /\ account' = IF account.deposit = "absent"
                  THEN [account EXCEPT !.deposit = "base"] ELSE account
    /\ UNCHANGED <<finalized, tx, moves, mishaps>>

\* A payment is opened, cancelled, recovered or claimed on the rollup.
PaymentMovesBalance ==
    /\ account.deposit = "er"
    /\ moves < MaxMoves
    /\ moves' = moves + 1
    /\ \E change \in {-1, 1} :
          /\ account.available + change >= 0
          /\ account' = [account EXCEPT !.available = @ + change]
    /\ UNCHANGED <<finalized, tx, paid, mishaps>>

Network == \/ \E x \in DOMAIN tx : Lands(x) \/ PassesLastValid(x)
           \/ ReturnCommits \/ Finalizes \/ SomebodyPays \/ PaymentMovesBalance

-----------------------------------------------------------------------------
(* Properties *)

CanLand(x) == tx[x].state = "sent" /\ ~tx[x].late

\* A Deposit lives on the rollup only with its access permission beside it:
\* nobody's balance is readable there by others (delegate_deposit does not
\* check it; first funding, onboarding and balance operations have to).
PermissionedWhileDelegated ==
    account.deposit \in {"er", "returning"} => account.permission = "er"

\* However often first funding is retried, in whatever tabs, the wallet pays
\* for it once (waitForPreparedFunding: "funds will not be deposited twice").
FundedOnce ==
    \A x, y \in DOMAIN tx :
        /\ tx[x].kind = "prepare" /\ tx[y].kind = "prepare"
        /\ tx[x].state = "landed" /\ tx[y].state = "landed"
        => x = y

Custody == INSTANCE WalletCustody WITH
    place <- account.deposit, balance <- account.available, usdc <- account.wallet

\* What the client's transactions, retried and interleaved as they are, do to the
\* accounts is what the program lets them do (ProtectedPayRefinement says the
\* same of its instructions): no USDC is created, lost or changed in flight.
ImplementsCustody == Custody!Spec
=============================================================================
