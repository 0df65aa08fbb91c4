---------------------------- MODULE ProtectedPay ----------------------------
(***************************************************************************)
(* The Anchor program protected_pay: USDC custody in one vault, one        *)
(* aggregate Deposit per user, one Payment account per reversible payment, *)
(* and the Crank task that advances a payment past its deadlines.          *)
(*                                                                         *)
(* A transaction is atomic, so every instruction is one action; a failed   *)
(* `require!` is a disabled action.  The model has two runtimes, the base  *)
(* chain and the Private Ephemeral Rollup ("er"): an instruction executes  *)
(* only where all the accounts it writes live.  `actor` is the authority   *)
(* of the instruction, signing directly or through a session key.          *)
(*                                                                         *)
(* One mint, one token program, one validator: the WrongMint,              *)
(* WrongTokenProgram and WrongValidator checks are abstracted.  The memo   *)
(* hash, PDA bumps and the never-written fields locked and                 *)
(* automation_paused are left out.                                         *)
(***************************************************************************)
EXTENDS Integers, FiniteSets, Functions

CONSTANTS
    Users,            \* wallets
    Payments,         \* payment ids (each id names one PDA)
    NoUser,           \* Pubkey::default()
    Endowment,        \* Endowment[u]: the USDC u's token account starts with
    Amounts,          \* the u64 amounts instructions are called with
    Windows,          \* the i64 windows the authority tries to configure
    MaxU64,           \* u64::MAX
    MaxI64,           \* i64::MAX, and the horizon of the clock
    CrankInterval,    \* PAYMENT_CRANK_INTERVAL_MILLIS, in clock units
    CrankIterations   \* PAYMENT_CRANK_ITERATIONS

ASSUME NoUserAssumption == NoUser \notin Users
ASSUME FiniteAssumption == IsFiniteSet(Users) /\ IsFiniteSet(Payments)
ASSUME WidthAssumption == MaxU64 \in Nat /\ MaxI64 \in Nat
ASSUME InputAssumption == Amounts \subseteq 0..MaxU64 /\ Windows \subseteq 0..MaxI64
ASSUME EndowmentAssumption == Endowment \in [Users -> 0..MaxU64]
ASSUME CrankAssumption == CrankInterval \in Nat \ {0} /\ CrankIterations \in Nat

VARIABLES
    config,     \* the Config account: the timing policy
    vault,      \* the Vault account and the tokens its token account holds
    wallet,     \* wallet[u]: the USDC in u's own token account
    deposit,    \* deposit[u]: u's Deposit account and the runtime it lives in
    payment,    \* payment[p]: the live Payment account
    layer,      \* layer[p]: the runtime payment[p] lives in
    published,  \* published[p]: what the base chain shows of the Payment
    now,        \* Clock::unix_timestamp
    task        \* task[p]: the Crank task registered for p

vars == <<config, vault, wallet, deposit, payment, layer, published, now, task>>
money == <<vault, wallet, deposit>>

-----------------------------------------------------------------------------
(* Data *)

PaymentStatus == {"Created", "Acknowledged", "Settled", "Cancelled", "Expired"}
Terminal == {"Settled", "Cancelled", "Expired"}

\* "absent": no account; "base": owned by the program on the base chain;
\* "er": delegated; "returning": undelegation accepted by the rollup, its
\* commit not yet applied on the base chain; "returned": that commit applied.
DepositLayer == {"absent", "base", "er", "returning"}
PaymentLayer == DepositLayer \cup {"returned"}
OnBase == {"base", "returned"}
Runtimes == OnBase \cup {"er"}

Party == Users \cup {NoUser}
Word == 0..MaxU64
Time == 0..MaxI64

\* What seal_terminal hashes.  The hash is modelled as the record it commits to.
Commitment == [sender : Party, recipient : Party, amount : Word, created_at : Time,
               settle_after : Time, expires_at : Time, status : PaymentStatus]

NoCommitment == [sender |-> NoUser, recipient |-> NoUser, amount |-> 0, created_at |-> 0,
                 settle_after |-> 0, expires_at |-> 0, status |-> "Created"]

Payment == [sender : Party, recipient : Party, amount : Word, created_at : Time,
            settle_after : Time, expires_at : Time, task_id : {0, 1},
            status : PaymentStatus, terminal_commitment : Commitment,
            initialized : BOOLEAN, redacted : BOOLEAN]

\* The amount-free public shell prepare_payment writes.
Shell(s, r) == [sender |-> s, recipient |-> r, amount |-> 0, created_at |-> 0,
                settle_after |-> 0, expires_at |-> 0, task_id |-> 0,
                status |-> "Created", terminal_commitment |-> NoCommitment,
                initialized |-> FALSE, redacted |-> FALSE]

NoPayment == Shell(NoUser, NoUser)
NoDeposit == [layer |-> "absent", available |-> 0, next_payment_nonce |-> 0]
NoTask == [left |-> 0, due |-> 0]

TypeOK ==
    /\ config \in [exists : BOOLEAN, safety_window : Time, claim_window : Time]
    /\ vault \in [exists : BOOLEAN, total_liability : Word, tokens : Nat]
    /\ wallet \in [Users -> Nat]
    /\ deposit \in [Users -> [layer : DepositLayer, available : Word,
                              next_payment_nonce : Word]]
    /\ payment \in [Payments -> Payment]
    /\ layer \in [Payments -> PaymentLayer]
    /\ published \in [Payments -> Payment]
    /\ now \in Time
    /\ task \in [Payments -> [left : 0..CrankIterations, due : Nat]]

-----------------------------------------------------------------------------
(* The payment state machine, as functions on the Payment record *)

Open(pay) == pay.initialized /\ ~pay.redacted
Live(pay) == Open(pay) /\ pay.status \notin Terminal

\* Payment::open writes the terms.
Opened(pay, amount, t, policy) ==
    [pay EXCEPT !.amount = amount,
                !.created_at = t,
                !.settle_after = t + policy.safety_window,
                !.expires_at = t + policy.claim_window,
                !.task_id = 0,
                !.status = "Created",
                !.terminal_commitment = NoCommitment,
                !.initialized = TRUE]

\* Mutant: settles or lapses one clock unit early.
AdvancedEarly(pay, t) ==
    [pay EXCEPT !.status =
        CASE @ = "Acknowledged" /\ t + 1 >= pay.settle_after -> "Settled"
          [] @ = "Created" /\ t + 1 >= pay.expires_at -> "Expired"
          [] OTHER -> @]

\* Mutant: a deadline passes only after its instant.
AdvancedLate(pay, t) ==
    [pay EXCEPT !.status =
        CASE @ = "Acknowledged" /\ t > pay.settle_after -> "Settled"
          [] @ = "Created" /\ t > pay.expires_at -> "Expired"
          [] OTHER -> @]

\* Payment::advance: a no-op unless a deadline of a live payment has passed.
Advanced(pay, t) ==
    [pay EXCEPT !.status =
        CASE @ = "Acknowledged" /\ t >= pay.settle_after -> "Settled"
          [] @ = "Created" /\ t >= pay.expires_at -> "Expired"
          [] OTHER -> @]

\* Mutant: the amount is not erased.
SealedKeepsAmount(pay) ==
    [pay EXCEPT !.terminal_commitment =
                    [sender |-> pay.sender, recipient |-> pay.recipient,
                     amount |-> pay.amount, created_at |-> pay.created_at,
                     settle_after |-> pay.settle_after, expires_at |-> pay.expires_at,
                     status |-> pay.status],
                !.recipient = NoUser, !.created_at = 0, !.settle_after = 0,
                !.expires_at = 0, !.task_id = 0, !.redacted = TRUE]

\* Mutant: erases first, then commits to what is left.
SealedErasedFirst(pay) ==
    [pay EXCEPT !.terminal_commitment =
                    [NoCommitment EXCEPT !.sender = pay.sender, !.status = pay.status],
                !.recipient = NoUser, !.amount = 0, !.created_at = 0,
                !.settle_after = 0, !.expires_at = 0, !.task_id = 0, !.redacted = TRUE]

\* Payment::seal_terminal: commit to the terms, then erase them.
Sealed(pay) ==
    [pay EXCEPT !.terminal_commitment =
                    [sender |-> pay.sender, recipient |-> pay.recipient,
                     amount |-> pay.amount, created_at |-> pay.created_at,
                     settle_after |-> pay.settle_after, expires_at |-> pay.expires_at,
                     status |-> pay.status],
                !.recipient = NoUser,
                !.amount = 0,
                !.created_at = 0,
                !.settle_after = 0,
                !.expires_at = 0,
                !.task_id = 0,
                !.redacted = TRUE]

\* Mutant: an expired payment still goes to the recipient.
ClaimantIsRecipient(pay) ==
    IF pay.status \in {"Settled", "Expired"} THEN pay.recipient ELSE NoUser

\* Who Payment::claim pays: only a settled or expired payment is claimable.
Claimant(pay) ==
    CASE pay.status = "Settled" -> pay.recipient
      [] pay.status = "Expired" -> pay.sender
      [] OTHER -> NoUser

\* Mutant: the runtime of the Deposit is not looked at.
TogetherAnywhere(p, u) == u \in Users /\ layer[p] \in Runtimes

\* A transaction that writes both accounts runs where both of them live.
Together(p, u) == \/ layer[p] = "er" /\ deposit[u].layer = "er"
                  \/ layer[p] \in OnBase /\ deposit[u].layer = "base"

\* Writes the live Payment; on the base chain everybody sees the new state.
Write(p, pay) ==
    /\ payment' = [payment EXCEPT ![p] = pay]
    /\ published' = IF layer[p] = "er" THEN published
                                       ELSE [published EXCEPT ![p] = pay]

\* Mutant: the checked subtraction is dropped.
CanOverdraw(u, amount) == amount > 0

\* Deposit::debit_available and Deposit::credit: checked u64 arithmetic.
CanDebit(u, amount) == amount > 0 /\ deposit[u].available >= amount
CanCredit(u, amount) == amount > 0 /\ deposit[u].available + amount <= MaxU64

ValidPolicy(safety, claim) == safety > 0 /\ claim > safety

-----------------------------------------------------------------------------
(* Configuration and custody: base-chain instructions *)

Init ==
    /\ config = [exists |-> FALSE, safety_window |-> 0, claim_window |-> 0]
    /\ vault = [exists |-> FALSE, total_liability |-> 0, tokens |-> 0]
    /\ wallet = Endowment
    /\ deposit = [u \in Users |-> NoDeposit]
    /\ payment = [p \in Payments |-> NoPayment]
    /\ layer = [p \in Payments |-> "absent"]
    /\ published = [p \in Payments |-> NoPayment]
    /\ now = 0
    /\ task = [p \in Payments |-> NoTask]

InitializeConfig(safety, claim) ==
    /\ ~config.exists
    /\ ValidPolicy(safety, claim)
    /\ config' = [exists |-> TRUE, safety_window |-> safety, claim_window |-> claim]
    /\ UNCHANGED <<money, payment, layer, published, now, task>>

UpdateTimingPolicy(safety, claim) ==
    /\ config.exists
    /\ ValidPolicy(safety, claim)
    /\ config' = [exists |-> TRUE, safety_window |-> safety, claim_window |-> claim]
    /\ UNCHANGED <<money, payment, layer, published, now, task>>

InitializeVault ==
    /\ config.exists
    /\ ~vault.exists
    /\ vault' = [exists |-> TRUE, total_liability |-> 0, tokens |-> 0]
    /\ UNCHANGED <<config, wallet, deposit, payment, layer, published, now, task>>

\* Anyone may create u's empty Deposit, once.
InitializeDeposit(u) ==
    /\ config.exists
    /\ deposit[u].layer = "absent"
    /\ deposit' = [deposit EXCEPT ![u] = [NoDeposit EXCEPT !.layer = "base"]]
    /\ UNCHANGED <<config, vault, wallet, payment, layer, published, now, task>>

\* Mutant: the vault's liability is not recorded.
DepositUsdcUnrecorded(u, amount) ==
    /\ vault.exists
    /\ deposit[u].layer = "base"
    /\ CanCredit(u, amount)
    /\ wallet[u] >= amount
    /\ deposit' = [deposit EXCEPT ![u].available = @ + amount]
    /\ vault' = [vault EXCEPT !.tokens = @ + amount]
    /\ wallet' = [wallet EXCEPT ![u] = @ - amount]
    /\ UNCHANGED <<config, payment, layer, published, now, task>>

DepositUsdc(u, amount) ==
    /\ vault.exists
    /\ deposit[u].layer = "base"
    /\ CanCredit(u, amount)
    /\ vault.total_liability + amount <= MaxU64
    /\ wallet[u] >= amount
    /\ deposit' = [deposit EXCEPT ![u].available = @ + amount]
    /\ vault' = [vault EXCEPT !.total_liability = @ + amount, !.tokens = @ + amount]
    /\ wallet' = [wallet EXCEPT ![u] = @ - amount]
    /\ UNCHANGED <<config, payment, layer, published, now, task>>

WithdrawUsdc(u, amount) ==
    /\ vault.exists
    /\ deposit[u].layer = "base"
    /\ CanDebit(u, amount)
    /\ vault.total_liability >= amount
    /\ vault.tokens >= amount
    /\ deposit' = [deposit EXCEPT ![u].available = @ - amount]
    /\ vault' = [vault EXCEPT !.total_liability = @ - amount, !.tokens = @ - amount]
    /\ wallet' = [wallet EXCEPT ![u] = @ + amount]
    /\ UNCHANGED <<config, payment, layer, published, now, task>>

DelegateDeposit(u) ==
    /\ deposit[u].layer = "base"
    /\ deposit' = [deposit EXCEPT ![u].layer = "er"]
    /\ UNCHANGED <<config, vault, wallet, payment, layer, published, now, task>>

CommitAndUndelegateDeposit(u) ==
    /\ deposit[u].layer = "er"
    /\ deposit' = [deposit EXCEPT ![u].layer = "returning"]
    /\ UNCHANGED <<config, vault, wallet, payment, layer, published, now, task>>

\* The rollup's commit of a returning Deposit reaches the base chain.
DepositCommitLands(u) ==
    /\ deposit[u].layer = "returning"
    /\ deposit' = [deposit EXCEPT ![u].layer = "base"]
    /\ UNCHANGED <<config, vault, wallet, payment, layer, published, now, task>>

-----------------------------------------------------------------------------
(* The life of a payment *)

PreparePayment(p, sender, recipient) ==
    /\ config.exists
    /\ layer[p] = "absent"
    /\ sender # recipient
    /\ recipient # NoUser
    /\ payment' = [payment EXCEPT ![p] = Shell(sender, recipient)]
    /\ published' = [published EXCEPT ![p] = Shell(sender, recipient)]
    /\ layer' = [layer EXCEPT ![p] = "base"]
    /\ UNCHANGED <<config, money, now, task>>

\* Mutant: an opened payment can be delegated.
DelegateOpenedPayment(p, actor) ==
    /\ layer[p] \in OnBase
    /\ payment[p].sender = actor
    /\ layer' = [layer EXCEPT ![p] = "er"]
    /\ UNCHANGED <<config, money, payment, published, now, task>>

\* The base-chain copy stays as it was when the account left.
DelegatePayment(p, actor) ==
    /\ layer[p] \in OnBase
    /\ payment[p].sender = actor
    /\ ~payment[p].initialized
    /\ layer' = [layer EXCEPT ![p] = "er"]
    /\ UNCHANGED <<config, money, payment, published, now, task>>

OpenPayment(p, actor, amount) ==
    /\ Together(p, actor)
    /\ ~payment[p].initialized
    /\ ~payment[p].redacted
    /\ payment[p].sender = actor
    /\ payment[p].sender # payment[p].recipient
    /\ CanDebit(actor, amount)
    /\ ValidPolicy(config.safety_window, config.claim_window)
    /\ now + config.safety_window <= MaxI64
    /\ now + config.claim_window <= MaxI64
    /\ deposit[actor].next_payment_nonce + 1 <= MaxU64
    /\ LET from == deposit[actor] IN
       deposit' = [deposit EXCEPT ![actor] =
                      [from EXCEPT !.available = from.available - amount,
                                   !.next_payment_nonce = from.next_payment_nonce + 1]]
    /\ Write(p, Opened(payment[p], amount, now, config))
    /\ UNCHANGED <<config, vault, wallet, layer, now, task>>

AcknowledgePayment(p, actor) ==
    /\ layer[p] \in Runtimes
    /\ Open(payment[p])
    /\ payment[p].recipient = actor
    /\ payment[p].status = "Created"
    /\ now < payment[p].expires_at
    /\ Write(p, [payment[p] EXCEPT !.status = "Acknowledged"])
    /\ UNCHANGED <<config, money, layer, now, task>>

\* Mutant: the terminal check is dropped, a settled payment can be undone.
CancelTerminalPayment(p, actor) ==
    /\ Together(p, actor)
    /\ Open(payment[p])
    /\ payment[p].sender = actor
    /\ CanCredit(actor, payment[p].amount)
    /\ deposit' = [deposit EXCEPT ![actor].available = @ + payment[p].amount]
    /\ Write(p, Sealed([payment[p] EXCEPT !.status = "Cancelled"]))
    /\ UNCHANGED <<config, vault, wallet, layer, now, task>>

CancelPayment(p, actor) ==
    /\ Together(p, actor)
    /\ Open(payment[p])
    /\ payment[p].status \notin Terminal
    /\ payment[p].sender = actor
    /\ CanCredit(actor, payment[p].amount)
    /\ deposit' = [deposit EXCEPT ![actor].available = @ + payment[p].amount]
    /\ Write(p, Sealed([payment[p] EXCEPT !.status = "Cancelled"]))
    /\ UNCHANGED <<config, vault, wallet, layer, now, task>>

\* Signer-free: anyone may call it, at any time, any number of times.
AdvancePayment(p) ==
    /\ layer[p] \in Runtimes
    /\ payment[p].initialized
    /\ Write(p, Advanced(payment[p], now))
    /\ UNCHANGED <<config, money, layer, now, task>>

ClaimPayment(p, actor) ==
    /\ Together(p, actor)
    /\ Open(payment[p])
    /\ Claimant(payment[p]) = actor
    /\ CanCredit(actor, payment[p].amount)
    /\ deposit' = [deposit EXCEPT ![actor].available = @ + payment[p].amount]
    /\ Write(p, Sealed(payment[p]))
    /\ UNCHANGED <<config, vault, wallet, layer, now, task>>

\* Mutant: registers one iteration too few.
ScheduleTooFew(p, actor) ==
    /\ layer[p] = "er"
    /\ Live(payment[p])
    /\ payment[p].sender = actor
    /\ payment[p].task_id = 0
    /\ Write(p, [payment[p] EXCEPT !.task_id = 1])
    /\ task' = [task EXCEPT ![p] = [left |-> CrankIterations - 1, due |-> now]]
    /\ UNCHANGED <<config, money, layer, now>>

\* The Crank program exists on the rollup only.
SchedulePayment(p, actor) ==
    /\ layer[p] = "er"
    /\ Live(payment[p])
    /\ payment[p].sender = actor
    /\ payment[p].task_id = 0
    /\ Write(p, [payment[p] EXCEPT !.task_id = 1])
    /\ task' = [task EXCEPT ![p] = [left |-> CrankIterations, due |-> now]]
    /\ UNCHANGED <<config, money, layer, now>>

\* Payment::redact: cancelling or claiming has already sealed the payment, and
\* unclaimed funds are refused (PaymentFundsUnclaimed): success changes nothing.
RedactTerminalPayment(p, actor) ==
    /\ layer[p] \in Runtimes
    /\ payment[p].sender = actor
    /\ payment[p].initialized
    /\ payment[p].status \in Terminal
    /\ payment[p].redacted
    /\ UNCHANGED vars

\* Mutant: a payment that is still open may leave the rollup.
CommitUnredactedPayment(p, actor) ==
    /\ layer[p] = "er"
    /\ payment[p].sender = actor
    /\ layer' = [layer EXCEPT ![p] = "returning"]
    /\ UNCHANGED <<config, money, payment, published, now, task>>

CommitAndUndelegatePayment(p, actor) ==
    /\ layer[p] = "er"
    /\ payment[p].sender = actor
    /\ payment[p].redacted
    /\ layer' = [layer EXCEPT ![p] = "returning"]
    /\ UNCHANGED <<config, money, payment, published, now, task>>

\* The rollup's commit of a returning Payment reaches the base chain.
PaymentCommitLands(p) ==
    /\ layer[p] = "returning"
    /\ layer' = [layer EXCEPT ![p] = "returned"]
    /\ published' = [published EXCEPT ![p] = payment[p]]
    /\ UNCHANGED <<config, money, payment, now, task>>

-----------------------------------------------------------------------------
(* The Crank and the clock *)

\* One iteration of p's task: it runs advance_payment at or after its due time,
\* and is spent even when the instruction fails.
CrankFires(p) ==
    /\ task[p].left > 0
    /\ now >= task[p].due
    /\ task' = [task EXCEPT ![p] = [left |-> @.left - 1, due |-> @.due + CrankInterval]]
    /\ IF layer[p] = "er" /\ payment[p].initialized
       THEN Write(p, Advanced(payment[p], now))
       ELSE UNCHANGED <<payment, published>>
    /\ UNCHANGED <<config, money, layer, now>>

Tick ==
    /\ now < MaxI64
    /\ now' = now + 1
    /\ UNCHANGED <<config, money, payment, layer, published, task>>

Administration ==
    \/ \E safety, claim \in Windows :
          InitializeConfig(safety, claim) \/ UpdateTimingPolicy(safety, claim)
    \/ InitializeVault

Custody(u) ==
    \/ InitializeDeposit(u)
    \/ \E amount \in Amounts : DepositUsdc(u, amount) \/ WithdrawUsdc(u, amount)
    \/ DelegateDeposit(u)
    \/ CommitAndUndelegateDeposit(u)
    \/ DepositCommitLands(u)

Escrow(p) ==
    \/ \E actor \in Users :
          \/ \E recipient \in Party : PreparePayment(p, actor, recipient)
          \/ DelegatePayment(p, actor)
          \/ \E amount \in Amounts : OpenPayment(p, actor, amount)
          \/ AcknowledgePayment(p, actor)
          \/ CancelPayment(p, actor)
          \/ ClaimPayment(p, actor)
          \/ SchedulePayment(p, actor)
          \/ RedactTerminalPayment(p, actor)
          \/ CommitAndUndelegatePayment(p, actor)
    \/ AdvancePayment(p)
    \/ PaymentCommitLands(p)

Next ==
    \/ Administration
    \/ \E u \in Users : Custody(u)
    \/ \E p \in Payments : Escrow(p) \/ CrankFires(p)
    \/ Tick

Spec == Init /\ [][Next]_vars

\* The scheduler of the rollup keeps running and time passes; no fairness is
\* assumed of the users, who may all be offline.
FairSpec == Spec /\ WF_vars(Tick) /\ \A p \in Payments : WF_vars(CrankFires(p))

-----------------------------------------------------------------------------
(* Properties *)

\* The terms of an opened payment: live in the account, then in the commitment.
Terms(pay) ==
    LET held == IF pay.redacted THEN pay.terminal_commitment ELSE pay
    IN  [sender |-> held.sender, recipient |-> held.recipient, amount |-> held.amount,
         created_at |-> held.created_at, settle_after |-> held.settle_after,
         expires_at |-> held.expires_at]

\* Every unit in the vault is either in a Deposit or in an unsealed Payment:
\* total_liability, the vault's tokens and the private accounts always agree,
\* whatever is delegated, in flight or raced (deposit_usdc, withdraw_usdc,
\* open, cancel and claim).
Conservation ==
    /\ vault.total_liability = SumFunction([u \in Users |-> deposit[u].available])
                             + SumFunction([p \in Payments |-> payment[p].amount])
    /\ vault.tokens = vault.total_liability

\* What a payment holds of u's, and what it gave u or took from u by settling.
Held(pay, u) == IF pay.sender = u THEN pay.amount ELSE 0
PaidOut(pay) == pay.redacted /\ pay.status = "Settled"
Brought(pay, u) == IF PaidOut(pay) /\ Terms(pay).recipient = u THEN Terms(pay).amount ELSE 0
Took(pay, u) == IF PaidOut(pay) /\ Terms(pay).sender = u THEN Terms(pay).amount ELSE 0

\* Nobody gains or loses except through a settled payment: what u owns (wallet,
\* Deposit and payments still in escrow) is the endowment, plus what settled
\* payments brought, minus what settled payments took.  A payout made twice, to
\* the wrong party, or of another amount breaks it.
AccountsBalance ==
    \A u \in Users :
        wallet[u] + deposit[u].available + SumFunction([p \in Payments |-> Held(payment[p], u)])
        = Endowment[u] + SumFunction([p \in Payments |-> Brought(payment[p], u)])
                       - SumFunction([p \in Payments |-> Took(payment[p], u)])

\* No arithmetic failure can hold funds back: a Deposit can always be withdrawn
\* in full from the vault, and crediting either party of an open payment never
\* overflows (record_withdrawal's checked_sub, credit's checked_add).
EveryoneCanBePaid ==
    /\ \A u \in Users : /\ deposit[u].available <= vault.total_liability
                        /\ deposit[u].available <= vault.tokens
    /\ \A p \in Payments : Open(payment[p]) =>
          \A u \in {payment[p].sender, payment[p].recipient} :
             deposit[u].available + payment[p].amount <= MaxU64

\* The undo window: before settle_after only the sender's own cancellation ends
\* a payment, and before expires_at nobody lapses it, whoever calls
\* advance_payment and however the timing policy is updated meanwhile.
UndoWindow ==
    \A p \in Payments :
        /\ payment[p].status = "Settled" => now >= Terms(payment[p]).settle_after
        /\ payment[p].status = "Expired" => now >= Terms(payment[p]).expires_at

\* An account is sealed exactly when its funds have left it: an open payment
\* holds a positive amount and both parties, a sealed one is terminal, holds
\* nothing, names no recipient and commits to complete terms (seal_terminal).
SealedIffPaidOut ==
    \A p \in Payments :
        LET pay == payment[p] IN
        /\ Open(pay) => pay.amount > 0 /\ pay.sender # pay.recipient
        /\ pay.redacted =>
              /\ pay.initialized /\ pay.status \in Terminal
              /\ pay.amount = 0 /\ pay.recipient = NoUser
              /\ pay.created_at = 0 /\ pay.settle_after = 0 /\ pay.expires_at = 0
              /\ pay.terminal_commitment.status = pay.status
              /\ pay.terminal_commitment.amount > 0
        /\ pay.initialized /\ pay.status = "Cancelled" => pay.redacted

\* Where an account lives agrees with what it holds: what is owned by the program
\* on the base chain is what everybody sees, only sealed accounts come back from
\* the rollup, and an account that was never opened is the shell it was created
\* as, with a recipient who can acknowledge and claim (delegate_payment,
\* commit_and_undelegate_payment, prepare_payment).
LayersAgree ==
    \A p \in Payments :
        /\ layer[p] \in OnBase => published[p] = payment[p]
        /\ layer[p] \in {"returning", "returned"} => payment[p].redacted
        /\ layer[p] = "absent" => ~payment[p].initialized
        /\ layer[p] # "absent" => payment[p].redacted \/ payment[p].recipient \in Users
        /\ ~payment[p].initialized =>
              payment[p] = Shell(payment[p].sender, payment[p].recipient)

\* What the base chain shows of a payment that was opened on the rollup is the
\* empty shell and, after the commit, the sealed account: never an amount, a
\* deadline or a live status (prepare_payment, delegate_payment,
\* commit_and_undelegate_payment).
PublicCopyHidesTerms ==
    \A p \in Payments : layer[p] \notin {"absent", "base"} =>
        /\ published[p].amount = 0 /\ published[p].expires_at = 0
        /\ published[p].status # "Created" => published[p].redacted

\* From opening on, the terms never change: not by a policy update, by
\* scheduling, by a Crank call, nor by sealing, whose commitment keeps them.
TermsNeverChange ==
    [][\A p \in Payments :
          payment[p].initialized => Terms(payment'[p]) = Terms(payment[p])]_vars

\* An opened payment only moves forward: Created, Acknowledged, one terminal
\* status for ever; and a sealed account is never written again.
StatusMovesForward ==
    [][\A p \in Payments : payment[p].initialized =>
          LET from == payment[p].status  to == payment'[p].status IN
          /\ payment'[p].initialized
          /\ to # from => \/ from = "Created" /\ to \in {"Acknowledged", "Cancelled", "Expired"}
                          \/ from = "Acknowledged" /\ to \in {"Cancelled", "Settled"}
          /\ payment[p].redacted => payment'[p] = payment[p]]_vars

\* The Crank task does not run out before the payment is over: when its last
\* iteration is spent the payment is terminal.
CrankOutlivesPayment ==
    \A p \in Payments : payment[p].task_id = 1 /\ task[p].left = 0 => ~Live(payment[p])

\* A scheduled payment settles, expires or is cancelled although nobody but
\* the Crank takes another step.
ScheduledPaymentEnds ==
    \A p \in Payments : payment[p].task_id = 1 ~> payment[p].status \in Terminal
=============================================================================
