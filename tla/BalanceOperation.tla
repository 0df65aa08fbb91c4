--------------------------- MODULE BalanceOperation ---------------------------
(***************************************************************************)
(* balanceOperation.ts and executeBalanceOperation: a top-up or a          *)
(* withdrawal takes the Deposit back to the base chain (a private          *)
(* transaction), changes and re-delegates it there (a public one), and     *)
(* remembers in the tab's session storage how far it got.  Each action is  *)
(* what the code does from one await to the next.  Every change is of 1.   *)
(***************************************************************************)
EXTENDS DepositAccounts

CONSTANT MaxOps    \* bound: balance operations started

ASSUME MaxOpsAssumption == MaxOps \in Nat

VARIABLES
    page,    \* page[t]: what the tab shows, saved, and is running
    ops      \* the balance operations started; an operation is its number

client == <<page, ops>>

Sides == {"return", "mutation"}
Unread == -1

\* A BalanceOperationCheckpoint; a side is the signature saved for it, 0 for none.
Checkpoint == [id : Nat, kind : {"deposit", "withdraw"}, start : Nat,
               return : Nat, mutation : Nat]
NoCheckpoint == [id |-> 0, kind |-> "deposit", start |-> 0, return |-> 0, mutation |-> 0]

Expected(c) == IF c.kind = "deposit" THEN c.start + 1 ELSE c.start - 1

KindOf(c, side) == IF side = "return" THEN "return" ELSE c.kind

\* Every saved signature is of a transaction for that side of that operation.
Sound(c) ==
    \A side \in Sides : c[side] # 0 =>
        c[side] \in DOMAIN tx /\ tx[c[side]].op = c.id /\ tx[c[side]].kind = KindOf(c, side)

Steps == {"idle", "funds", "status", "height", "public", "private", "simulate", "approve",
          "poll", "returned", "watch", "expected", "closing"}

BalanceTypeOK ==
    /\ page \in [Tabs -> [shown : {Unread} \cup Nat, stored : Checkpoint, run : Checkpoint,
                          at : Steps, side : Sides]]
    /\ ops \in Nat
    /\ \A t \in Tabs : Sound(page[t].stored) /\ Sound(page[t].run)

NoPage == [shown |-> Unread, stored |-> NoCheckpoint, run |-> NoCheckpoint,
           at |-> "idle", side |-> "return"]

BalanceInit == page = [t \in Tabs |-> NoPage] /\ ops = 0

At(t, step) == page[t].at = step
Saved(t) == page[t].run[page[t].side]
Kind(t) == KindOf(page[t].run, page[t].side)

Becomes(t, next) == page' = [page EXCEPT ![t] = next]
Go(t, step) == Becomes(t, [page[t] EXCEPT !.at = step])
GoFor(t, step, side) == Becomes(t, [page[t] EXCEPT !.at = step, !.side = side])

\* An error ends the run; its checkpoint stays saved.
Stop(t) == Becomes(t, [page[t] EXCEPT !.at = "idle", !.run = NoCheckpoint])

\* persistBalanceCheckpoint(null) and the trailing privateBalance.refresh.
Complete(t) == Becomes(t, [page[t] EXCEPT !.at = "closing", !.stored = NoCheckpoint])

\* update: the run's checkpoint, the page's and session storage's.
Update(t, side, signature, step) ==
    LET next == [page[t].run EXCEPT ![side] = signature] IN
    Becomes(t, [page[t] EXCEPT !.run = next, !.stored = next, !.at = step, !.side = side])

Quietly == UNCHANGED <<chain, mishaps, ops>>

-----------------------------------------------------------------------------
(* The dashboard *)

\* usePrivateBalance.readBalance, on unlock or refresh.
ShowBalance(t) ==
    /\ At(t, "idle")
    /\ account.deposit = "er"
    /\ Becomes(t, [page[t] EXCEPT !.shown = account.available])
    /\ Quietly

\* The first request of runBalanceOperation for this checkpoint.
Begin(t, c) ==
    Becomes(t, [page[t] EXCEPT !.stored = c, !.run = c,
        !.at = IF c.mutation # 0 \/ c.return # 0 THEN "status"
               ELSE IF c.kind = "deposit" THEN "funds" ELSE "public",
        !.side = IF c.mutation # 0 THEN "mutation" ELSE "return"])

\* executeBalanceOperation for a reviewed change of the balance shown.
StartBalanceOperation(t) ==
    /\ At(t, "idle")
    /\ page[t].stored = NoCheckpoint /\ page[t].shown # Unread
    /\ ops < MaxOps
    /\ ops' = ops + 1
    /\ \E kind \in {"deposit", "withdraw"} :
          LET c == [NoCheckpoint EXCEPT !.id = ops + 1, !.kind = kind, !.start = page[t].shown] IN
          Expected(c) >= 0 /\ Begin(t, c)
    /\ UNCHANGED <<chain, mishaps>>

\* "Resume safely"
ResumeBalanceOperation(t) ==
    /\ At(t, "idle")
    /\ page[t].stored # NoCheckpoint
    /\ Begin(t, page[t].stored)
    /\ Quietly

\* The dialog offers it while an operation runs, too: the run goes on.
DiscardUnsentBalanceOperation(t) ==
    /\ page[t].stored # NoCheckpoint
    /\ page[t].stored.return = 0 /\ page[t].stored.mutation = 0
    /\ Becomes(t, [page[t] EXCEPT !.stored = NoCheckpoint])
    /\ Quietly

Close(t) ==
    /\ At(t, "closing")
    /\ Becomes(t, [page[t] EXCEPT !.at = "idle", !.run = NoCheckpoint,
           !.shown = IF account.deposit = "er" THEN account.available ELSE @])
    /\ Quietly

-----------------------------------------------------------------------------
(* runBalanceOperation *)

AssertTopUpFunds(t) ==
    /\ At(t, "funds")
    /\ IF finalized.wallet >= 1 THEN Go(t, "public") ELSE Stop(t)
    /\ Quietly

\* A transaction that failed or expired is forgotten; a return may be saved too.
Forget(t) ==
    LET next == [page[t].run EXCEPT ![page[t].side] = 0] IN
    Becomes(t, [page[t] EXCEPT !.run = next, !.stored = next, !.side = "return",
        !.at = IF page[t].side = "mutation" /\ next.return # 0 THEN "status" ELSE "public"])

\* publicPendingOutcome and privatePendingOutcome: getSignatureStatuses.
SignatureStatus(t) ==
    /\ At(t, "status")
    /\ LET state == tx[Saved(t)].state IN
       CASE state = "failed" -> Forget(t)
         [] state = "landed" -> Go(t, IF page[t].side = "mutation" THEN "watch" ELSE "public")
         [] OTHER -> Go(t, "height")
    /\ Quietly

\* Mutant: a pending transaction is treated like an expired one.
ResendPending(t) == At(t, "height") /\ Forget(t) /\ Quietly

\* Mutant: an expired transaction is treated like a pending one.
NeverExpires(t) == At(t, "height") /\ Stop(t) /\ Quietly

\* getBlockHeight.  A pending transaction is not sent again; an expired one is
\* forgotten without another look, although it may have landed since its status
\* was read.  (A late one that landed also answers "pending" if the height was
\* asked before it passed.)
BlockHeight(t) ==
    /\ At(t, "height")
    /\ \/ ~tx[Saved(t)].late /\ Stop(t) /\ UNCHANGED mishaps
       \/ tx[Saved(t)].late /\ tx[Saved(t)].state # "sent" /\ Stop(t) /\ UNCHANGED mishaps
       \/ /\ tx[Saved(t)].late /\ Forget(t)
          /\ IF tx[Saved(t)].state = "sent" THEN UNCHANGED mishaps ELSE Suffer("overtaken")
    /\ UNCHANGED <<chain, ops>>

\* nextBalanceOperationAction for a Deposit on the base chain.
MutateOrStop(t) ==
    IF finalized.available = page[t].run.start THEN GoFor(t, "simulate", "mutation") ELSE Stop(t)

\* readPublicDeposit
ReadPublicDeposit(t) ==
    /\ At(t, "public")
    /\ CASE finalized.owner = "nobody" -> Stop(t)
         [] finalized.owner = "program" -> MutateOrStop(t)
         [] finalized.owner = "delegation" -> Go(t, "private")
    /\ Quietly

\* Mutant: the balance of the start is taken for the target.
CompleteAtStart(t) ==
    /\ At(t, "private")
    /\ LET run == page[t].run IN
       IF account.deposit = "er" /\ account.available = run.start THEN Complete(t)
       ELSE IF account.deposit # "returning" /\ run.return # 0 THEN Go(t, "returned")
       ELSE Stop(t)
    /\ Quietly

\* readPrivateDeposit and nextBalanceOperationAction for a delegated Deposit;
\* a Deposit on its way back fails the owner check.
ReadPrivateDeposit(t) ==
    /\ At(t, "private")
    /\ LET run == page[t].run IN
       IF account.deposit = "er" /\ account.available = Expected(run) THEN Complete(t)
       ELSE IF account.deposit # "returning" /\ run.return # 0 THEN Go(t, "returned")
       ELSE IF account.deposit = "er" /\ account.available = run.start
       THEN GoFor(t, "simulate", "return")
       ELSE Stop(t)
    /\ Quietly

\* sendPublicTransaction simulates before the wallet is asked to sign; the
\* session key signs a return at once.
SimulateBalance(t) ==
    /\ At(t, "simulate")
    /\ IF page[t].side = "return" \/ Accepted(Kind(t), account)
       THEN Go(t, "approve") ELSE Stop(t)
    /\ Quietly

\* Mutant: the signature is saved for the wrong side.
SaveAsReturn(t) ==
    /\ At(t, "approve")
    /\ IF Accepted(Kind(t), account)
       THEN Update(t, "return", Len(tx) + 1, "poll") /\ Send(Kind(t), page[t].run.id)
       ELSE Stop(t) /\ UNCHANGED tx
    /\ UNCHANGED <<account, finalized, paid, moves, mishaps, ops>>

\* Signed: simulate, save the signature, send.
SaveAndSend(t) ==
    /\ At(t, "approve")
    /\ IF Accepted(Kind(t), account)
       THEN Update(t, page[t].side, Len(tx) + 1, "poll") /\ Send(Kind(t), page[t].run.id)
       ELSE Stop(t) /\ UNCHANGED tx
    /\ UNCHANGED <<account, finalized, paid, moves, mishaps, ops>>

\* Poll for the confirmation; a failure, an expiry and the last poll throw.
PollConfirmation(t) ==
    /\ At(t, "poll")
    /\ IF tx[Saved(t)].state # "landed" THEN Stop(t)
       ELSE Go(t, IF page[t].side = "return" THEN "returned" ELSE "watch")
    /\ Quietly

\* waitForPublicReturn: STATE_POLLS polls, then throw.
WaitForPublicReturn(t) ==
    /\ At(t, "returned")
    /\ IF finalized.owner = "program" THEN MutateOrStop(t) ELSE Stop(t)
    /\ Quietly

\* waitForExpectedPrivate: the two requests of a poll.
WaitForDelegation(t) ==
    /\ At(t, "watch")
    /\ IF finalized.owner = "delegation" THEN Go(t, "expected") ELSE Stop(t)
    /\ Quietly

WaitForExpectedPrivate(t) ==
    /\ At(t, "expected")
    /\ IF account.deposit = "er" /\ account.available = Expected(page[t].run)
       THEN Complete(t) ELSE Stop(t)
    /\ Quietly

-----------------------------------------------------------------------------

\* A request rejects, or the user refuses to sign.
BalanceAwaitFails(t) ==
    /\ page[t].at \notin {"idle", "closing"}
    /\ Suffer("failure")
    /\ Stop(t)
    /\ UNCHANGED <<chain, ops>>

RunBalanceOperation(t) ==
    \/ AssertTopUpFunds(t) \/ SignatureStatus(t) \/ BlockHeight(t)
    \/ ReadPublicDeposit(t) \/ ReadPrivateDeposit(t)
    \/ SimulateBalance(t) \/ SaveAndSend(t) \/ PollConfirmation(t)
    \/ WaitForPublicReturn(t) \/ WaitForDelegation(t) \/ WaitForExpectedPrivate(t)
    \/ Close(t)

Balance(t) ==
    \/ ShowBalance(t) \/ StartBalanceOperation(t) \/ ResumeBalanceOperation(t)
    \/ DiscardUnsentBalanceOperation(t)
    \/ RunBalanceOperation(t) \/ BalanceAwaitFails(t)

-----------------------------------------------------------------------------
(* Properties *)

\* An operation moves USDC at most once, however often it is resumed and
\* whatever payments do to the balance (p5-balance-reconciliation.md: "an exact
\* target balance is treated as complete or awaiting private re-delegation,
\* never as permission to mutate again"; p5-verify-balance-reconciliation.ts:
\* "expected or ambiguous state is never resent").  An overtaken change
\* is forgotten although it took effect, and only the balance then tells: with
\* the return remembered that is enough, after a second overtaking it is not.
OneMutationPerOperation ==
    \A x, y \in DOMAIN tx :
        /\ tx[x].kind \in {"deposit", "withdraw"} /\ tx[y].kind \in {"deposit", "withdraw"}
        /\ tx[x].state = "landed" /\ tx[y].state = "landed" /\ tx[x].op = tx[y].op
        => x = y

\* A step of an operation is not sent again while it can still land
\* (publicPendingOutcome: "Protected Pay will not send it again"), not even
\* after an overtaking: the forgotten transaction has landed.
WaitsForSavedTransaction ==
    \A x, y \in DOMAIN tx :
        /\ CanLand(x) /\ CanLand(y) /\ tx[x].op # 0
        /\ tx[x].op = tx[y].op /\ tx[x].kind = tx[y].kind
        => x = y

\* Where nothing else moved the balance, an operation reported complete did move
\* the USDC (the exact-balance tests of nextBalanceOperationAction).
CompletionMoved ==
    \A t \in Tabs :
        At(t, "closing") /\ ops = 1 /\ moves = 0 =>
            \E x \in DOMAIN tx : /\ tx[x].kind = page[t].run.kind /\ tx[x].op = 1
                                 /\ tx[x].state = "landed"

\* An operation reported complete is over, also when it was a payment of the same
\* amount that brought the private balance to its target: nothing it has signed
\* can still move the USDC or take the Deposit off the rollup (its checkpoint is
\* dropped, so nobody would ever look for it).
CompletionIsFinal ==
    \A t \in Tabs : \A x \in DOMAIN tx :
        At(t, "closing") /\ tx[x].op = page[t].run.id => ~CanLand(x)

\* An operation nothing else interferes with ends, if the user keeps resuming it.
QuietOperationEnds ==
    \A t \in Tabs :
        page[t].stored # NoCheckpoint ~>
            page[t].stored = NoCheckpoint \/ moves > 0 \/ ops > 1

\* An operation whose change has landed can be finished (waitForExpectedPrivate:
\* "still reconciling. Retry safely in a moment").  Its wait for one exact balance
\* refutes it.
ConfirmedChangeEnds ==
    \A t \in Tabs :
        page[t].stored.mutation # 0 /\ tx[page[t].stored.mutation].state = "landed" ~>
            page[t].stored = NoCheckpoint

\* A Deposit that was taken back for a change is re-protected
\* (BalanceOperationDialog.tsx: "Move available test USDC back to your wallet,
\* then automatically re-protect the remaining balance").
ReturnedBalanceIsReprotected ==
    account.deposit = "base" /\ account.permission = "er" ~> account.deposit = "er"

\* USDC moves only from the balance the user reviewed
\* (p5-verify-balance-reconciliation.ts: "A reviewed custody mutation is sent
\* only from the exact public starting balance").
MutatesFromReviewedBalance ==
    [][\A t \in Tabs : tx' # tx /\ page[t].at = "approve" /\ page'[t].at = "poll"
           /\ page[t].side = "mutation" => account.available = page[t].run.start]_<<tx, page>>
=============================================================================
