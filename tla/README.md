# Protected Pay: TLA+ specifications and proofs

Protected Pay lets a sender put USDC into a per-payment escrow, undo the payment
inside a safety window, and have it settle or expire without either user online.
This directory models the Anchor program `programs/protected-pay/src/lib.rs`
(below: *the program*) and, of the browser client, everything that sends more than
one transaction: the payment operation (`src/lib/paymentOperation.ts`), first
funding and onboarding (`src/lib/paymentWorkflow.ts`) and the balance operation
(`src/lib/balanceOperation.ts`).

Paths below are relative to the repository.  To check a module, in this directory:
`tlc -config OnePayment.cfg MCProtectedPay` and `tlapm ProtectedPay_proofs.tla`.
Every `*_proofs` module is checked completely in at most three minutes.

## 1. The system

| part | state | operations | interacts with |
|---|---|---|---|
| Program: configuration | `Config` | `initialize_config`, `update_timing_policy` | read by `open_payment` |
| Program: custody | `Vault`, its token account, one `Deposit` per user | `initialize_vault`, `initialize_deposit`, `deposit_usdc`, `withdraw_usdc`, `delegate_deposit`, `commit_and_undelegate_deposit` | SPL token program, delegation program |
| Program: payments | one `Payment` per payment id | `prepare_payment`, `delegate_payment`, `open_payment`, `acknowledge_payment`, `cancel_payment`, `advance_payment`, `claim_payment`, `schedule_payment`, `redact_terminal_payment`, `commit_and_undelegate_payment` | Deposits, Crank |
| Crank (external) | one task per scheduled payment | calls `advance_payment` 6 times, 60 s apart | Payments |
| Delegation (external) | which runtime may write an account | base chain to rollup and back | Deposits, Payments |
| Program: permissions | accounts of the permission program | `create_*_permission`, `delegate_*_permission` | rollup reads |
| Program: Crank probe | `CrankProbe` | its own schedule and advance | a Deposit's nonce |
| Browser: payment operation | checkpoint and lease in local storage, React state, two transactions | `confirmPayment`, `runPaymentOperation`, `discardUnsentPayment` | program, other tabs |
| Browser: balance operation | one checkpoint per tab in session storage, two transactions | `executeBalanceOperation`, `runBalanceOperation`, `discardUnsentBalanceOperation` | program, other tabs' transactions, payments |
| Browser: first funding, onboarding | nothing but the accounts themselves | `fundFirstProtectedBalance`, `onboardRecipientDeposit` | program, permissions, balance operation |
| Browser: session, balance | session key, token, balance | `usePrivateBalance.ts`, `sessionKeys.ts` | rollup RPC |
| Browser: receipts | bounded list in local storage | `recordPaymentReceipt` | other tabs |
| Browser: live payment | polled copy of one Payment | `usePrivatePayment.ts` | rollup RPC |

How they interact. A user's Deposit is created, funded and delegated on the base
chain. A payment starts as an amount-free public shell (`prepare_payment`), is
delegated, and is opened on the rollup, where one transaction debits the Deposit,
writes the terms and registers the Crank task. Recipient, sender, Crank and
anybody else then race on that one account until it is claimed or cancelled,
which seals it: a commitment replaces the terms. A sealed account can be
committed back to the base chain. The client drives the two transactions of a
payment from a checkpoint and a lease in local storage, which all tabs share.

A wallet's Deposit is set up by two transactions with nothing saved between them
(initialise, fund, create the permission; delegate both), or by the payee's
onboarding when somebody's payment has created it. To add or withdraw USDC later,
the Deposit is taken back to the base chain by a private transaction, then changed
and delegated again by a public one; the tab's session storage remembers how far
that got. Payments, other tabs and the chain's finalization go on meanwhile.

### What is hard, and what makes each part correct

| part | hard behaviour | correct when |
|---|---|---|
| payments | cancel, acknowledge, advance, claim race; deadlines at an instant; sealing erases what it commits to | one forward path, one payout, right party, terms kept (`StatusMovesForward`, `AccountsBalance`, `TermsNeverChange`, `UndoWindow`, `SealedIffPaidOut`) |
| custody | checked u64 arithmetic in credit and withdraw; Deposits leave the rollup while payments are open | `Conservation`, `EveryoneCanBePaid`, `ImplementsCustody` |
| runtimes | an account is writable in one runtime, shown in another, and for a while writable nowhere | `LayersAgree`, `PublicCopyHidesTerms` |
| Crank | fixed schedule against configurable windows; scheduled once only | `CrankOutlivesPayment`, `ScheduledPaymentEnds` |
| payment operation | two tabs, crash at any await, lost, late and failed transactions, stale React state, lease expiry | `NoLostEscrow`, `WaitInsteadOfResending`, `OneTabRuns`, `ReceiptsCiteLanded`, `TakesEffectOnce`; violated: `OpenedPaymentIsReported` |
| balance operation | return, change, re-delegate with a crash between each; a balance that moves meanwhile; tabs without a lease; finalized reads that lag | `OneMutationPerOperation`, `WaitsForSavedTransaction`, `CompletionMoved`, `CompletionIsFinal`, `QuietOperationEnds`; violated: `ReturnedBalanceIsReprotected`, `MutatesFromReviewedBalance`, `ConfirmedChangeEnds` |
| first funding, permissions | nothing saved; retries while the first attempt can still land; order of permission and delegation, across funding, onboarding and balance operations | `FundedOnce`, `PermissionedWhileDelegated`, `FundedBalanceIsProtected`, `PaidWalletIsOnboarded` |
| session | expiry in the middle of an operation | as a failed request, in every operation |

`PROJECT.json` lists the hazards line by line.

## 2. Modules

| module | models |
|---|---|
| `ProtectedPay` | the program: `Config`, `Vault`, `Deposit`, `Payment`, both runtimes, Crank task, clock |
| `ReversibleEscrow` | abstract: what a user is promised (hold, confirm, undo, finalise, lapse, collect) |
| `WalletCustody` | abstract: what one wallet is promised of its Deposit (exchange, return, payments) |
| `ProtectedPayRefinement` | the refinement mappings from the program to both promises |
| `MCProtectedPay` | TLC instances of the program |
| `ProtectedPay_proofs` | type correctness, inductive invariant, safety theorems |
| `FiniteSums` | lemmas: what a sum over a finite set is, and how it changes |
| `ProtectedPayMoney_proofs` | no money is created, lost, misdirected or stuck |
| `ProtectedPayRefinement_proofs` | the program implements both promises |
| `ProtectedPayCrank_proofs` | the timing condition under which the Crank always suffices |
| `PaymentOperation` | the browser's payment operation: tabs, storage, lease, network |
| `MCPaymentOperation` | TLC instances of the payment operation |
| `PaymentOperation_proofs` | its type correctness and all its safety properties |
| `DepositAccounts` | one wallet's Deposit, permission and USDC as transactions and reads meet them |
| `FirstFunding` | first funding and onboarding, on `DepositAccounts` |
| `BalanceOperation` | top-up and withdrawal, on `DepositAccounts` |
| `DepositClient` | their composition: tabs that do either, tab deaths, fairness |
| `MCDepositClient` | TLC instances of the composition |
| `DepositClient_proofs` | its type correctness and safety theorems |

### ProtectedPay and the code

One action per instruction, in the order of `lib.rs`; an instruction's guard is
the conjunction of its account constraints and `require!`s that depend on state.
The payment state machine is written as functions on the `Payment` record
(`Opened`, `Advanced`, `Sealed`, `Claimant`) as it is in `impl Payment`.

| variable | code |
|---|---|
| `config` | `Config`: the two windows; authority, mint, validator are fixed at creation |
| `vault`, `wallet` | `Vault.total_liability`, the balances of the vault's and the users' token accounts |
| `deposit[u]` | `Deposit.available`, `.next_payment_nonce`, and the runtime it lives in |
| `payment[p]` | the live `Payment` account; `p` is the payment id |
| `layer[p]`, `published[p]` | where the account lives; what the base chain shows |
| `task[p]` | Crank iterations left and when the next is due |
| `now` | `Clock::unix_timestamp` of both runtimes |

Abstractions. A hash is the record it commits to. Addresses derived from seeds
(PDAs) are the id or user they are derived from, so a wrong account cannot be
passed; signatures are the `actor` parameter, and a session key counts as its
wallet (`session_auth_or`). u64 and i64 limits are constants, and every checked
operation keeps its guard. `delegated`, `absent`, `returning` stand for the
delegation program. A transaction that writes a Payment and a Deposit needs both
in the same runtime (`Together`). The client sends `open_payment` and
`schedule_payment` in one transaction; the program does not require that, so
they are separate actions, and an opened payment may never be scheduled.

### PaymentOperation and the code

A tab runs JavaScript without interruption between two awaits, so an action is
what `confirmPayment` and `runPaymentOperation` do from one await to the next;
`page[t].at` is the await the tab is at. What other tabs, the network and the
browser do happens in between.

| variable | code |
|---|---|
| `stored`, `lease` | the checkpoint and lease keys of local storage |
| `mail[t]` | `storage` events tab `t` has not applied (`applyCheckpoint`) |
| `page[t]` | `paymentCheckpoint` of React, the `checkpoint` of the running operation, its await, and which transaction it is working on |
| `tx` | signed transactions: lost, sent, landed, failed; past their last valid block or not |
| `shell`, `escrow`, `available` | what the RPCs show of the program's accounts |
| `receipts` | receipts recorded |
| `mishaps` | how often each kind of mishap has happened, bounded by `Allowed` |

| `page.at` | await |
|---|---|
| `create` | `createPaymentOperationCheckpoint` (paymentOperation.ts:93) |
| `guard` | `requireAvailableBalance` (SenderDashboard.tsx:373) |
| `status`, `height` | the two requests of `publicPendingOutcome`, `privatePendingOutcome` |
| `doubt` | the second look at the account of a failed or expired transaction |
| `read`, `wait` | `readPublicPayment`, `readPrivatePayment`; their polling loops |
| `sign`, `save` | simulation and approval; `onPrepared` (lease, checkpoint, send) |
| `poll` | confirmation polls |
| `closing` | `privateBalance.refresh` after the receipt |

Abstractions. All payments have one amount, `available` counts payments. A
polling loop is one look: giving up after a poll that saw nothing is always
possible. `confirmed` and `finalized` differ where the code tells them apart
(the public shell is read as finalized, signatures as confirmed). The lease's age is
fresh or not; the heartbeat keeps a running tab's lease fresh, so only a dead or
a suspended tab's lease goes stale. Three kinds of mishap are counted and bounded:
a *failure* (a request rejects, the user refuses, a tab dies), a *suspension*
(a tab frozen for longer than `PAYMENT_LEASE_TTL_MS`), and *late* events (events
applied out of order, since validating a checkpoint is asynchronous and removing
it is not; or a click before an event is handled). Losing and delaying
transactions is not a mishap and always possible.

### DepositAccounts, FirstFunding, BalanceOperation and the code

`FirstFunding` and `BalanceOperation` both extend `DepositAccounts`, and
`DepositClient` interleaves them: what they share is the wallet's accounts and the
network.  `WalletCustody` keeps these accounts and the program's Deposits together: the
program implements it for every user, instruction by instruction, and `DepositAccounts`
implements it transaction by transaction. As in `PaymentOperation`, an action is what the code does from one await to
the next.

| variable | code |
|---|---|
| `account` | the Deposit (its runtime, its balance, the balance its base-chain copy shows), its permission, the wallet's USDC, as of the latest confirmed block |
| `finalized` | what the base chain shows of them at the finalized commitment |
| `tx` | signed transactions: kind, the balance operation they were signed for, fate |
| `paid`, `moves` | other people: a payment prepared to this wallet; payments that changed its private balance |
| `setup[t]` | the await a first funding or onboarding is at, and its transaction |
| `page[t]` | balance shown, checkpoint in session storage (= React's), checkpoint of the running operation, its await, the side (return or change) it works on |
| `ops`, `mishaps` | bounds: operations started, mishaps by kind |

| `setup.at` | await |
|---|---|
| `inspect`, `source`, `verify` | `inspectFirstFundingAccounts`, `discoverUsdcFundingSource`, `verifyFirstFundingPlan` |
| `onboard` | `getMultipleAccounts` of `onboardRecipientDeposit` (finalized) |
| `simulate`, `approve`, `poll` | `sendPublicTransaction` |
| `prepared` | `waitForPreparedFunding` |

| `page.at` | await |
|---|---|
| `funds` | `assertTopUpFunds` |
| `status`, `height` | the two requests of `publicPendingOutcome`, `privatePendingOutcome` |
| `public`, `private` | `readPublicDeposit` (finalized), `readPrivateDeposit` (confirmed) |
| `simulate`, `approve`, `poll` | `sendPrivateTransaction` for a return, `sendPublicTransaction` for a change |
| `returned` | `waitForPublicReturn` |
| `watch`, `expected` | the two requests of `waitForExpectedPrivate` |
| `closing` | `privateBalance.refresh` |

`confirmed` and `finalized` are kept apart throughout, because the code reads
either: funding decides from confirmed accounts (paymentWorkflow.ts:650), onboarding
and balance operations from finalized ones.

Abstractions. A transaction is one of six kinds; `Accepted` and `Effect` say when the
program executes all of its instructions and what they do together. A change is of 1,
a first funding of `Funding`. A polling loop is one look, as above. The private
session is assumed unlocked; an expired one is a failed request. Two kinds of
mishap are counted: a *failure* (a request rejects, the user refuses, a tab dies, with
or without its session storage, a transaction never lands) and an *overtaking* (a
transaction lands between the two requests that ask for its outcome, and is
forgotten although it took effect); `MaxMishaps` bounds them together.  A confirmation poll
that gives up on a transaction that can still land is a failure, too.  "Set up balance"
is offered where the rollup shows no Deposit: `ConfirmFunding` assumes that the
rollup's RPC shows none that is not delegated.

## 3. Runs

| run | bounds | result |
|---|---|---|
| `one_payment` | 2 users, 1 payment of 1, windows 0-3, clock to 4, 4 Crank iterations 1 apart | 182,423 states, all hold; includes both refinements, and liveness under fairness |
| `two_payments` | 2 payments sharing Deposits and vault, u64 limit 2, clock to 2 | 581,415 states, all hold |
| `long_claim_window` | 1 payment, deployed schedule (6 calls 1 apart) and windows (1 and 5), or a claim window of 6 | `CrankOutlivesPayment` violated (finding) |
| `payment_operation` | 2 tabs, 2 payments, 4 transactions, 1 failure | 1,427,842 states, all hold |
| `stale_tabs` | 2 tabs, 1 payment, 3 transactions, 1 suspension, 1 late event | 2,373,687 states, holds |
| `resume_after_open` | 1 tab, 1 payment of the whole balance, 1 failure | `OpenedPaymentIsReported` violated (finding) |
| `forgotten_signature` | 1 tab, 1 payment of half the balance, no mishap | `OpenedPaymentIsReported` violated (finding) |
| `sleeping_tab` | 2 tabs, 1 payment, 4 transactions, 1 suspension | `WaitInsteadOfResending` violated (finding) |
| `deposit_client` | 1 tab from before its first funding, 1 operation, 1 payment moving the balance, 1 failure or overtaking | 305,960 states, all hold, liveness and the custody refinement included |
| `stranded_balance` | 1 funded tab, 1 operation, 1 payment, no mishap | `ReturnedBalanceIsReprotected` violated (finding) |
| `endless_wait` | 1 funded tab, 1 operation, 1 payment, no mishap | `ConfirmedChangeEnds` violated (finding) |
| `reviewed_balance` | 2 funded tabs, 2 operations, no payment, no mishap | `MutatesFromReviewedBalance` violated (finding) |

Why the bounds are enough. *Program*: the payments of different ids only share
Deposits and the vault, so one payment with the full clock covers the state
machine and two cover the sharing; a u64 limit equal to the money in the system
makes an overflow reachable as soon as it is possible at all; the clock runs past
both deadlines of a payment with short windows, and the deadlines of one with long
windows leave the i64 range (`MaxI64`); zero amounts and invalid windows are among the inputs.
Four calls 1 apart reach exactly the longest claim window of 3, as the deployed six reach
the deployed 5 minutes; three policies can replace each other while a payment is open.
*Client*: two tabs are the conflict the lease is for; four transactions are two
per payment or one payment whose steps are both repeated; one failure at every
await reaches each recovery path, and resuming is unbounded. `Seals` returns the
amount or not, so a later balance check can go either way. *Deposit*: one funding, one
operation and its unbounded resumption, one payment and one failure or
overtaking at every await meet every branch of `runBalanceOperation` and
`fundFirstProtectedBalance`; transactions are not bounded. A second tab adds what two
owners of one Deposit can do to each other: `reviewed_balance` has two, and the theorems
below are for any number of tabs, operations, payments and failures.

`CHECK_DEADLOCK FALSE` is set for the client only: a tab that shows its receipt, or
has used the bounded ids, transactions or operations, has nothing left to do.

### Findings

1. *Claim window longer than the schedule.* `schedule_payment` accepts 6 calls
   60 s apart and only once; `update_timing_policy` accepts any claim window. A
   claim window beyond 5 minutes leaves a spent task and a live payment, against
   README.md:5. `CrankReachesTheDeadline` proves that windows within
   the schedule's reach are enough.
2. *Resume after opening.* The balance check on every resume stops the receipt of
   a payment that has already taken the balance
   (p5-payment-reconciliation.md:11).
3. *Sleeping tab.* Forgetting an expired transaction writes the shared checkpoint
   without a lease check and can wipe the signature another tab has just saved
   (p5-payment-reconciliation.md:9). `TakesEffectOnce` shows that the program
   still refuses the duplicate.
4. *Stranded balance.* A payment that moves the balance between the decision to
   return the Deposit and the return leaves it on the base chain: every
   resume refuses the balance (balanceOperation.ts:299), the saved return signature
   forbids discarding the checkpoint, and neither funding nor onboarding accepts a
   Deposit in that state. BalanceOperationDialog.tsx:49 and :59 promise that it is
   re-protected. A tab that dies between the two transactions and loses its session
   storage leaves the same state behind.
5. *Somebody else's return.* Two tabs review the same balance; the second takes the
   finalized state of the first one's return for its own
   (balanceOperation.ts:194) and changes the balance the first has already changed,
   against p5-verify-balance-reconciliation.ts:63.
6. *Forgotten signature.* A preparing transaction that lands between the two requests
   for its outcome is not finalized yet when the shell is looked for: its signature
   is cleared (paymentOperation.ts:294), the payment is opened from the finalized shell all
   the same, and every later run throws at its receipt
   (paymentOperation.ts:361), against p5-payment-reconciliation.md:11.
7. *Endless wait.* After a confirmed change every resume waits for one exact private
   balance (balanceOperation.ts:211). A payment that moves it first makes "Retry
   safely in a moment" (balanceOperation.ts:215) untrue, and the checkpoint, which
   cannot be discarded, disables the payment form of that tab.

Without a run of its own: nothing in `open_payment` checks what its comment says (lib.rs:348,
"only after the shell has been delegated"). `ProtectedPay` opens on either chain; a
payment opened on the base chain shows its terms there, can no longer be delegated, and is
otherwise as safe as any other.

`NoLostEscrow`, `WaitInsteadOfResending` and `ReceiptsCiteLanded` hold in
`payment_operation` because that run has no suspension and no late events; their
comments say so. With either they fail (for example a tab that slept through
another tab's whole payment draws a new id and overwrites its checkpoint).

`OneMutationPerOperation` survives one overtaking of a single tab (`deposit_client`):
either the saved return or the saved change still tells that the operation has begun.
If both are overtaken, or one is and another tab has returned the Deposit, only the
balance tells, and a payment or the other tab's change can move that back;
`MutatesOnce` therefore assumes that nothing is overtaken. `WaitsForSavedTransaction`
and `CompletionIsFinal` need no such assumption: what was overtaken has landed and
lands no second time.

`CompletionMoved` and `QuietOperationEnds` are about operations nothing else interferes
with. That a payment of the same amount completes an operation that moved nothing is
how the code is documented (p5-balance-reconciliation.md:14); `CompletionIsFinal`, which
allows that, says that such an operation is over. That a payment can make it endless is
`endless_wait`.

### Fairness

`ProtectedPay!FairSpec`: `WF(Tick)`, time passes; `WF(CrankFires(p))`, the Crank
runs a due iteration, which is the promise of the external scheduler the product
relies on (README.md:5). No user is assumed to do anything, which is what
`ScheduledPaymentEnds` claims.

`PaymentOperation!FairSpec`: a running tab continues, events are delivered, the
lease of a dead tab expires, a sent transaction lands or expires, the base chain
finalizes, and the user keeps pressing resume (`SF`, since the button is at times
disabled). It is stronger than the code can promise, which makes the
counterexample of `resume_after_open` stronger: even a persistent user on a
fair network never gets the receipt.

`DepositClient!Fairness`: a sent transaction lands or expires, returns commit and
blocks finalize, a running tab continues (`WF`), and the user keeps retrying a
first funding and resuming an operation (`SF`, since the buttons are at
times disabled). Payments, onboarding, new operations and discarding are nobody's
duty. `FundedBalanceIsProtected` and `QuietOperationEnds` need the retries: the code
never retries by itself. For `stranded_balance` and `endless_wait` the
assumption is again in the finding's favour. `PaidWalletIsOnboarded` assumes besides that
the owner of a wallet somebody paid gets as far as onboarding again and again, which only
acknowledging does; the assumption is part of the property.

## 4. Proofs

For every set of users and payments, every endowment, every width and every
window the authority may pick, from the named assumptions in `ProtectedPay` (the
sums need `FiniteAssumption`: there are finitely many accounts at any time):

- `TypeCorrect`: no field leaves its type; in particular no stored u64 or i64
  leaves its width.
- `InvariantHolds`: the inductive invariant
  `IInv == TypeOK /\ AllSound /\ AllPlaced /\ NothingInAbsent /\ PolicyChosen`.
- From it `SealedMeansPaidOut`, `UndoWindowKept`, `PublicCopyIsEmpty`,
  `LayersAlwaysAgree`, `TermsKept`, `StatusForward`.
- `ProgramImplementsPromise`: every step of the program is a step of
  `ReversibleEscrow` or a stutter.
- `ProgramImplementsCustody`: for every user, every step is a step of
  `WalletCustody` or a stutter.
- `MoneyConserved` (`Conservation`), `NobodyLosesMoney` (`AccountsBalance`),
  `NobodyIsStuck` (`EveryoneCanBePaid`), from the inductive invariant of
  `LedgerHolds`, `LedgerInv == IInv /\ Books /\ SendersKnown`.
- `CrankReachesTheDeadline`: if every configurable window is at most
  `Reach == (CrankIterations - 1) * CrankInterval`, no task is spent while its
  payment lives.

The argument. All that instructions do to a Payment is captured once:
`StepChange` shows that every step changes every Payment by one of the cases of
`Change(old, new, t)` (nothing, created, opened, acknowledged, cancelled, advanced,
scheduled, sealed by a claim). Properties of single payments are then preserved by
`Change` alone, without going through the instructions again. `UndoWindow` and
`SealedIffPaidOut` are not inductive by themselves: `Sound` puts them together and
adds that an account is an empty shell until it is opened, without which opening
could inherit an old status or amount, and `StepPlaced` needs it to show that a
delegated shell publishes nothing. `Placed` relates the
account to its runtime and its public copy; `NothingInAbsent` says that a Deposit
not created holds nothing; `PolicyChosen` that the stored windows are among the
inputs, which the Crank theorem needs. The refinement uses `IInv` for the
amounts and for who owns what after a payout.

The money. `StepMoves` shows that every step moves one amount at one user and at most
one payment: between wallet and Deposit, vault included (`Moved`), or between Deposit
and payment (`Shifted`), where what the payment is worth to each user (held, plus
taken, minus brought) shifts by that amount for that user alone. `MovedBooks` and
`ShiftedBooks` carry this to the sums: `Books` is `Conservation`, `AccountsBalance` and
`Unopened` (a vault that does not exist yet holds nothing). `EveryoneCanBePaid` needs no
induction of its own: the vault's liability is a u64, and a Deposit and an open
payment are two parts of it; `SendersKnown` says that the parties of an open payment
are users. The lemmas on sums in `FiniteSums` need induction over finite sets. The
library's induction theorems take an operator, which the provers cannot instantiate;
`SubsetInduction` derives the same for a set of subsets from the well-foundedness of
strict inclusion, and every property proved by induction is written as such a set.

Custody. `ProgramImplementsCustody` is stated step by step because TLC cannot check
a quantified specification. What it rests on is `Together`: a payment credits or
debits a Deposit only in the runtime that may write it, so nothing is lost when the
commit of a returning Deposit replaces the base chain's copy.

`PaymentOperation_proofs`, for any number of tabs, payments, transactions:

- `TypeCorrect` and `EffectOnce` (`TakesEffectOnce`), whatever mishaps happen.
- `OneRuns` (`OneTabRuns`), if no tab is suspended beyond its lease.
- `NothingLost`, `NothingResent`, `ReceiptsTrue`, if besides no event is late
  (`Punctual`). The violation run `sleeping_tab` shows that the assumption is needed.

The argument. `Effective`: a step landed only if the account it writes exists, so a
second one is refused. `Exclusive`: a running tab owns a fresh lease. With it,
one tab at a time extends the shared checkpoint, and `Orderly` relates what is
saved, what each tab knows and what happened. `Posted`: a tab's page shows the stored
checkpoint, or its last undelivered event does. `AllCarried`: the running
operation works on the stored checkpoint, or on an unsigned one that another tab
has discarded. `Books`: a transaction that can still land is in the stored
checkpoint (`Cited`) and has not taken effect (`NotYet`), what took effect is known
from its signature (`Landed`), and every escrow is named by the checkpoint or by a
receipt. The three properties follow from `Books`, of which no conjunct is inductive
without the others. `SavesOrderly`, `StillOrderly`, `ShowsOrderly` and `NetworkOrderly`
are the steps that write storage, that only move a tab, that deliver events, and that
belong to the network.

`DepositClient_proofs`, for any number of tabs, operations, payments and failures:

- `TypeCorrect`, `NeverExposed` (`PermissionedWhileDelegated`), `FundsOnce`.
- `MutatesOnce`, if no transaction is overtaken (`NoneOvertaken`).
- `NeverResends`, `CompletesOnlyAfterMoving` (`CompletionMoved`) and `CompletesForGood`
  (`CompletionIsFinal`), even if transactions are overtaken.
- `ClientImplementsCustody`: the accounts change only as `WalletCustody` allows.
- `FundedWalletIsSafe`: `TypeOK`, `PermissionedWhileDelegated`, `FundedOnce`,
  `WaitsForSavedTransaction`, `CompletionMoved` and `CompletionIsFinal` from a
  wallet already funded.

The argument. `Permissioned` adds to the property that only the tabs of a
wallet whose permission is already delegated hold or sign anything of a balance
operation, since `Accepted` checks no permission for a change. `Funds` adds that a
landed funding leaves a Deposit behind, for which `initialize_deposit` refuses
another. `Tracked` is the counterpart of `Books`: operations are numbered and held by
one tab each (`Numbered`), a transaction of an operation that is not dead is the
one the checkpoint holds for that side (`AllCited`), and at most one such exists per
side (`OneAlive`). `Dead` is what the client may forget: what failed or expired, and,
where overtakings are allowed, also what has landed late. Either way two transactions
that can still land are both alive, which gives `NeverResends`; two that have landed
are, only if none was overtaken, which gives `MutatesOnce`.

`CompletionIsFinal` adds `Settled` to that: an operation that has a change saved
or looks at the balance can no longer have its return land, and one that waits for its
target can no longer have its change land. An operation that closes is thus over on both
sides, and `AllCited` says that it has nothing else out.

`CompletionMoved` is about a wallet's first operation as long as no payment moves the
balance.  `Unmoved`: until a change has landed, what every page shows and what every
operation started from is the private balance itself, so that no look at it finds the
target, which differs by one, and no operation closes. `OneKind`: every change sent is
of the kind of that operation, so the one that landed is the one reported. Overtaking
does no harm here, because the property does not say that only one change landed.
`ClientImplementsCustody` needs only that a Deposit nobody created holds nothing, and
that the network alone changes the accounts.

Model-checked only. Every invariant and action property that a passing run checks is
stated by a theorem. Liveness (`ScheduledPaymentEnds`, `OpenedPaymentIsReported`,
`FundedBalanceIsProtected`, `PaidWalletIsOnboarded`, `QuietOperationEnds`,
`ConfirmedChangeEnds`, `ReturnedBalanceIsReprotected`)
needs fairness and ENABLED and is TLC's. So are the findings' counterexamples.

## 5. Not modelled

- Permissions of Payments: the transaction that prepares a payment also creates and
  delegates its permission, so there is no order to get wrong; the
  member lists are read by the permission program only.
- Crank probe: a diagnostic with a one-shot schedule, used neither by the client nor
  by a payment. It meets the rest in a nonce that is only compared with its
  u64 limit, and in a commit of the Deposit that is
  `CommitAndUndelegateDeposit` under another name.
- `Deposit::lock`, `unlock`, `settle_locked_to`: no instruction calls them, so
  `locked` is always 0 and the client's checks of it always pass.
- Private session: challenge, login, session key and revocation. To an operation they
  are private requests that are refused, which may happen at every await.
- The receipts' list: one synchronous function to read and one to write it; no
  decision of the client depends on it. Which transactions a receipt cites is
  modelled.
- In the payment operation: the migration of a checkpoint from session storage,
  malformed checkpoints, storage that cannot be written, a double click on
  confirm (two runs in one tab), and the non-atomic write and re-read of the lease
  across processes. The last two are listed as hazards.
- The live payment watcher and the pages' other handlers: they show one account
  or send one instruction, which `ProtectedPay` models for every caller at any time.
- Rendering, formatting, note encryption, error wording: stateless.
- The generated client (14,500 lines of encoders and decoders) and the scripts (21,000
  lines). A script is one straight line of instructions run by hand against
  Devnet; it keeps no state and handles no concurrency, so a model of it would be its text
  again.

Generated client and scripts are 35,500 of the repository's 39,800 lines. Of
the remaining 4,300, about half are React components, styling of messages and
formatting; the state machines of the rest are modelled.

## 6. What could follow

1. Composition of `PaymentOperation` with `ProtectedPay`: its `shell`, `escrow` and
   `available` shown to be what the program does, in place of the external
   actions `Lands` and `Seals`, as `WalletCustody` does for the Deposit's accounts.
2. A balance operation in one tab against a payment operation in another, which now
   meet only in `PaymentMovesBalance`.
3. Two runs of one operation in one tab (the double click).
