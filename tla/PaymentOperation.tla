-------------------------- MODULE PaymentOperation --------------------------
(***************************************************************************)
(* The browser's payment operation: SenderDashboard.tsx confirmPayment,    *)
(* paymentOperation.ts and the checkpoint and lease it keeps in the local  *)
(* storage that all tabs of one wallet share.                              *)
(*                                                                         *)
(* A payment takes two transactions.  The public one prepares and          *)
(* delegates the shell of a fresh payment id on the base chain; the        *)
(* private one opens it (debiting the Deposit) and schedules it on the     *)
(* rollup.  A tab runs JavaScript between two awaits without interruption, *)
(* so an action is what the code does from one await to the next.  What    *)
(* the tab awaits may change before its next action.                       *)
(*                                                                         *)
(* All payments have the same amount, the unit of `available`.  A note, a  *)
(* recipient and an amount are carried by the id; the checks that they     *)
(* match fail only for a sealed account, whose terms are erased.           *)
(***************************************************************************)
EXTENDS Integers, Sequences, SequencesExt

CONSTANTS
    Tabs,          \* browser tabs connected to the wallet
    Gone,          \* the id of a tab that died holding the lease
    Nobody,        \* no lease in storage
    Funds,         \* the payments the private balance covers at the start
    MaxPayments,   \* bound: payment ids drawn
    MaxTxs,        \* bound: transactions signed
    Allowed        \* bound: Allowed[m] mishaps of kind m

Sides == {"public", "private"}

\* "failure": an awaited call rejects, or the tab dies; "suspended": a tab is
\* frozen for longer than PAYMENT_LEASE_TTL_MS while it holds the lease; "late":
\* storage events overtake each other in a tab, or a tab acts or saves before it
\* has handled the events it was sent.
Mishaps == {"failure", "suspended", "late"}

ASSUME TabAssumption == Gone \notin Tabs /\ Nobody \notin Tabs /\ Gone # Nobody
ASSUME BoundAssumption ==
    /\ Funds \in Nat /\ MaxPayments \in Nat /\ MaxTxs \in Nat
    /\ Allowed \in [Mishaps -> Nat]

VARIABLES
    stored,      \* the checkpoint in local storage
    lease,       \* the lease in local storage
    mail,        \* mail[t]: storage events t has not handled
    page,        \* page[t]: the tab's React state and where its run is
    tx,          \* the signed transactions; a signature is an index of tx
    ids,         \* the number of payment ids drawn
    shell,       \* shell[i]: the public account of payment i
    escrow,      \* escrow[i]: the private account of payment i
    available,   \* the private balance
    receipts,    \* the receipts recorded
    mishaps      \* mishaps[m]: what went wrong so far

chain == <<tx, shell, escrow, available>>
vars == <<stored, lease, mail, page, ids, chain, receipts, mishaps>>

PaymentIds == 1..MaxPayments
Signature == 0..MaxTxs      \* 0: none saved

\* A saved operation; the id 0 stands for no checkpoint at all.
PaymentOperationCheckpoint ==
    [id : 0..MaxPayments, public : Signature, private : Signature]
NoCheckpoint == [id |-> 0, public |-> 0, private |-> 0]

\* Where a tab is: "idle", or the await it is at; "done" shows its receipt.
Steps == {"idle", "create", "guard", "status", "height", "doubt", "read", "wait",
          "sign", "save", "poll", "closing", "done"}
Quiet == {"idle", "done"}

\* Every saved signature is of a transaction for that step of that payment.
Sound(checkpoint) ==
    \A side \in Sides : checkpoint[side] # 0 =>
        /\ checkpoint[side] \in DOMAIN tx
        /\ tx[checkpoint[side]].side = side /\ tx[checkpoint[side]].id = checkpoint.id

\* Types; a checkpoint, wherever it is kept, cites its own transactions.
TypeOK ==
    /\ stored \in PaymentOperationCheckpoint
    /\ lease \in [owner : Tabs \cup {Gone, Nobody}, fresh : BOOLEAN]
    /\ mail \in [Tabs -> Seq(PaymentOperationCheckpoint)]
    /\ page \in [Tabs -> [checkpoint : PaymentOperationCheckpoint,
                          run : PaymentOperationCheckpoint,
                          at : Steps, side : Sides]]
    /\ tx \in Seq([side : Sides, id : PaymentIds, late : BOOLEAN,
                   state : {"lost", "sent", "landed", "failed"}])
    /\ Len(tx) <= MaxTxs
    /\ ids \in 0..MaxPayments
    /\ shell \in [PaymentIds -> {"none", "confirmed", "finalized"}]
    /\ escrow \in [PaymentIds -> {"none", "open", "sealed"}]
    /\ available \in Nat
    /\ receipts \subseteq PaymentOperationCheckpoint
    /\ mishaps \in [Mishaps -> Nat]
    /\ Sound(stored) /\ \A r \in receipts : Sound(r)
    /\ \A t \in Tabs : /\ Sound(page[t].checkpoint) /\ Sound(page[t].run)
                       /\ \A i \in DOMAIN mail[t] : Sound(mail[t][i])

Init ==
    /\ stored = NoCheckpoint
    /\ lease = [owner |-> Nobody, fresh |-> FALSE]
    /\ mail = [t \in Tabs |-> << >>]
    /\ page = [t \in Tabs |-> [checkpoint |-> NoCheckpoint, run |-> NoCheckpoint,
                               at |-> "idle", side |-> "public"]]
    /\ tx = << >>
    /\ ids = 0
    /\ shell = [i \in PaymentIds |-> "none"]
    /\ escrow = [i \in PaymentIds |-> "none"]
    /\ available = Funds
    /\ receipts = {}
    /\ mishaps = [m \in Mishaps |-> 0]

-----------------------------------------------------------------------------
(* Storage, lease and mishaps *)

Suffer(m) == /\ mishaps[m] < Allowed[m]
             /\ mishaps' = [mishaps EXCEPT ![m] = @ + 1]

\* Local storage tells every tab but the writer, and only of a change.
Store(t, checkpoint) ==
    /\ stored' = checkpoint
    /\ mail' = [u \in Tabs |-> IF u = t \/ checkpoint = stored
                               THEN mail[u] ELSE Append(mail[u], checkpoint)]

\* Acting or saving in t although newer events are pending.
ActsOnPage(t) ==
    IF mail[t] = << >> THEN UNCHANGED mishaps ELSE Suffer("late")

\* persistPaymentCheckpoint: React state and storage, whoever holds the lease.
Persist(t, checkpoint, next) ==
    /\ ActsOnPage(t)
    /\ Store(t, checkpoint)
    /\ page' = [page EXCEPT ![t] = [next EXCEPT !.checkpoint = checkpoint]]

Unwritten == UNCHANGED <<stored, mail>>

\* Mutant: the lease of another tab is not looked at.
AcquirableAlways(t) == t \in Tabs

\* acquirePaymentOperationLease succeeds unless another tab holds a fresh lease.
Acquirable(t) == lease.owner \in {Nobody, t} \/ ~lease.fresh

\* refreshPaymentOperationLease answers TRUE to the owner only.
Owns(t) == lease.owner = t
Refreshed(t) == lease' = [owner |-> t, fresh |-> TRUE]

\* releasePaymentOperationLease
Released(t) == lease' = IF Owns(t) THEN [owner |-> Nobody, fresh |-> FALSE] ELSE lease

At(t, step) == page[t].at = step
Saved(t) == page[t].run[page[t].side]
Moved(t, step) == [page EXCEPT ![t].at = step]

-----------------------------------------------------------------------------
(* What the page does for its user *)

\* confirmPayment up to its first await.
ConfirmPayment(t) ==
    /\ At(t, "idle")
    /\ Acquirable(t)
    /\ ActsOnPage(t)
    /\ lease' = [owner |-> t, fresh |-> TRUE]
    /\ LET shown == page[t].checkpoint IN
       /\ shown = NoCheckpoint => ids < MaxPayments
       /\ page' = [page EXCEPT ![t] =
              [@ EXCEPT !.run = shown, !.side = "public",
                        !.at = IF shown = NoCheckpoint THEN "create" ELSE "guard"]]
    /\ UNCHANGED <<stored, mail, ids, chain, receipts>>

\* createPaymentOperationCheckpoint draws a random id; it is saved before use.
CreateCheckpoint(t) ==
    /\ At(t, "create")
    /\ ids < MaxPayments
    /\ ids' = ids + 1
    /\ LET fresh == [NoCheckpoint EXCEPT !.id = ids + 1] IN
       Persist(t, fresh, [page[t] EXCEPT !.run = fresh, !.at = "guard"])
    /\ UNCHANGED <<lease, chain, receipts>>

\* discardUnsentPayment: offered for a checkpoint without signatures, lease or not.
DiscardUnsentPayment(t) ==
    /\ At(t, "idle")
    /\ page[t].checkpoint # NoCheckpoint
    /\ page[t].checkpoint.public = 0 /\ page[t].checkpoint.private = 0
    /\ Persist(t, NoCheckpoint, page[t])
    /\ UNCHANGED <<lease, ids, chain, receipts>>

\* applyCheckpoint: a checkpoint is validated asynchronously, a removal is not,
\* so an event may overtake the checkpoints (never the removals) before it.
ApplyCheckpoint(t) ==
    \E i \in DOMAIN mail[t] :
        /\ \A j \in 1..(i - 1) : mail[t][j] # NoCheckpoint
        /\ IF i = 1 THEN UNCHANGED mishaps ELSE Suffer("late")
        /\ mail' = [mail EXCEPT ![t] = RemoveAt(@, i)]
        /\ page' = [page EXCEPT ![t].checkpoint = mail[t][i]]
        /\ UNCHANGED <<stored, lease, ids, chain, receipts>>

\* A page load reads the shared checkpoint.
Reload(t) ==
    /\ At(t, "done")
    /\ page' = [page EXCEPT ![t] = [@ EXCEPT !.checkpoint = stored, !.at = "idle"]]
    /\ mail' = [mail EXCEPT ![t] = << >>]
    /\ UNCHANGED <<stored, lease, ids, chain, receipts, mishaps>>

\* confirmUndo, once the cancellation it sent has landed (Seals), closes the
\* receipt; the page keeps the checkpoint it knows.
ConfirmUndo(t) ==
    /\ At(t, "done")
    /\ \E r \in receipts : escrow[r.id] = "sealed"
    /\ page' = Moved(t, "idle")
    /\ Unwritten
    /\ UNCHANGED <<lease, ids, chain, receipts, mishaps>>

-----------------------------------------------------------------------------
(* runPaymentOperation *)

\* What the account of the current side shows: the shell once finalized, the
\* private account once initialized.
Visible(t) == IF page[t].side = "public" THEN shell[page[t].run.id] = "finalized"
                                         ELSE escrow[page[t].run.id] = "open"

\* readPrivatePayment throws on a sealed account: its terms no longer match.
Mismatch(t) == page[t].side = "private" /\ escrow[page[t].run.id] = "sealed"

\* The catch and finally of confirmPayment.
Throw(t) ==
    /\ page' = [page EXCEPT ![t] = [@ EXCEPT !.run = NoCheckpoint, !.at = "idle"]]
    /\ Released(t)
    /\ Unwritten

Stop(t) == Throw(t) /\ UNCHANGED <<receipts, mishaps>>
Go(t, step) ==
    page' = Moved(t, step) /\ Unwritten /\ UNCHANGED <<lease, receipts, mishaps>>

\* receiptFromCheckpoint and the rest of confirmPayment up to its next await.
Receipt(t) ==
    LET run == page[t].run IN
    IF run.public = 0 \/ run.private = 0
    THEN Stop(t)
    ELSE /\ receipts' = receipts \cup {run}
         /\ Persist(t, NoCheckpoint, [page[t] EXCEPT !.at = "closing"])
         /\ UNCHANGED lease

\* The awaited account is there.
Reached(t) ==
    IF page[t].side = "private"
    THEN Receipt(t)
    ELSE /\ page' = [page EXCEPT ![t] = [@ EXCEPT !.side = "private", !.at = "read"]]
         /\ Unwritten
         /\ UNCHANGED <<lease, receipts, mishaps>>

\* requireAvailableBalance: on every attempt, also when nothing is to be sent.
RequireAvailableBalance(t) ==
    /\ At(t, "guard")
    /\ IF available = 0 THEN Stop(t)
       ELSE Go(t, IF Saved(t) # 0 THEN "status" ELSE "read")
    /\ UNCHANGED <<ids, chain>>

\* pendingOutcome, first request: getSignatureStatuses.
SignatureStatus(t) ==
    /\ At(t, "status")
    /\ LET state == tx[Saved(t)].state IN
       Go(t, CASE state = "failed" -> "doubt"
               [] state = "landed" -> IF page[t].side = "public" THEN "read" ELSE "wait"
               [] OTHER -> "height")
    /\ UNCHANGED <<ids, chain>>

\* Mutant: a pending transaction is treated like an expired one.
ResendPending(t) == At(t, "height") /\ Go(t, "doubt") /\ UNCHANGED <<ids, chain>>

\* Second request: getBlockHeight.  A pending transaction is not sent again.
BlockHeight(t) ==
    /\ At(t, "height")
    /\ IF tx[Saved(t)].late THEN Go(t, "doubt") ELSE Stop(t)
    /\ UNCHANGED <<ids, chain>>

\* Failed or expired: forget the transaction unless the account exists after all.
ReconcileExpired(t) ==
    /\ At(t, "doubt")
    /\ IF Visible(t) THEN Reached(t)
       ELSE IF Mismatch(t) THEN Stop(t)
       ELSE LET cleared == [page[t].run EXCEPT ![page[t].side] = 0]
                next == IF page[t].side = "public" THEN "read" ELSE "sign"
            IN  /\ Persist(t, cleared, [page[t] EXCEPT !.run = cleared, !.at = next])
                /\ UNCHANGED <<lease, receipts>>
    /\ UNCHANGED <<ids, chain>>

\* readPublicPayment and readPrivatePayment, and nextPaymentOperationAction.
ReadPayment(t) ==
    /\ At(t, "read")
    /\ IF Visible(t) THEN Reached(t)
       ELSE IF Mismatch(t) THEN Stop(t)
       ELSE Go(t, IF Saved(t) = 0 THEN "sign"
                  ELSE IF page[t].side = "public" THEN "wait" ELSE "status")
    /\ UNCHANGED <<ids, chain>>

\* waitForPublicPayment and waitForPrivatePayment: STATE_POLLS polls, then throw.
WaitForPayment(t) ==
    /\ At(t, "wait")
    /\ IF Visible(t) THEN Reached(t) ELSE Stop(t)
    /\ UNCHANGED <<ids, chain>>

\* Mutant: the program opens a payment that is open already.
AcceptedAgain(side, i) ==
    IF side = "public" THEN shell[i] = "none" ELSE shell[i] # "none" /\ available > 0

\* Whether the program accepts the transaction now.
Accepted(side, i) ==
    IF side = "public" THEN shell[i] = "none"
                       ELSE shell[i] # "none" /\ escrow[i] = "none" /\ available > 0

\* Lease check, simulation and approval.
SignTransaction(t) ==
    /\ At(t, "sign")
    /\ IF Owns(t) /\ Accepted(page[t].side, page[t].run.id)
       THEN Refreshed(t) /\ page' = Moved(t, "save") /\ Unwritten /\ UNCHANGED <<receipts, mishaps>>
       ELSE Stop(t)
    /\ UNCHANGED <<ids, chain>>

\* Mutant: the signature stays in memory.
SaveNothing(t) ==
    /\ At(t, "save")
    /\ Owns(t)
    /\ Len(tx) < MaxTxs
    /\ \E state \in {"sent", "lost"} :
          tx' = Append(tx, [side |-> page[t].side, id |-> page[t].run.id,
                            late |-> FALSE, state |-> state])
    /\ LET saved == [page[t].run EXCEPT ![page[t].side] = Len(tx) + 1] IN
       page' = [page EXCEPT ![t] = [@ EXCEPT !.run = saved, !.at = "poll"]]
    /\ Refreshed(t)
    /\ UNCHANGED <<stored, mail, receipts, ids, shell, escrow, available, mishaps>>

\* Mutant: the signature is saved for the wrong step.
SaveAsPublic(t) ==
    /\ At(t, "save")
    /\ Owns(t)
    /\ Len(tx) < MaxTxs
    /\ \E state \in {"sent", "lost"} :
          tx' = Append(tx, [side |-> page[t].side, id |-> page[t].run.id,
                            late |-> FALSE, state |-> state])
    /\ LET saved == [page[t].run EXCEPT !.public = Len(tx) + 1] IN
       Persist(t, saved, [page[t] EXCEPT !.run = saved, !.at = "poll"])
    /\ Refreshed(t)
    /\ UNCHANGED <<receipts, ids, shell, escrow, available>>

\* onPrepared: check the lease, save the signature, then send.  The request may
\* never reach the network, or be refused by its preflight ("lost").
SaveAndSend(t) ==
    /\ At(t, "save")
    /\ IF ~Owns(t) THEN Stop(t) /\ UNCHANGED tx
       ELSE /\ Len(tx) < MaxTxs
            /\ \E state \in {"sent", "lost"} :
                  tx' = Append(tx, [side |-> page[t].side, id |-> page[t].run.id,
                                    late |-> FALSE, state |-> state])
            /\ LET saved == [page[t].run EXCEPT ![page[t].side] = Len(tx) + 1] IN
               Persist(t, saved, [page[t] EXCEPT !.run = saved, !.at = "poll"])
            /\ Refreshed(t)
            /\ UNCHANGED receipts
    /\ UNCHANGED <<ids, shell, escrow, available>>

\* Poll for the confirmation; a failure, an expiry and the last poll throw.
PollConfirmation(t) ==
    /\ At(t, "poll")
    /\ IF tx[Saved(t)].state = "landed" THEN Go(t, "wait") ELSE Stop(t)
    /\ UNCHANGED <<ids, chain>>

\* privateBalance.refresh, then the finally of confirmPayment.
Close(t) ==
    /\ At(t, "closing")
    /\ page' = [page EXCEPT ![t] = [@ EXCEPT !.run = NoCheckpoint, !.at = "done"]]
    /\ Released(t)
    /\ UNCHANGED <<stored, mail, ids, chain, receipts, mishaps>>

-----------------------------------------------------------------------------
(* The lease in time, failures and the network *)

\* The heartbeat of a running tab.
Heartbeat(t) ==
    /\ page[t].at \notin Quiet
    /\ Owns(t) /\ ~lease.fresh
    /\ Refreshed(t)
    /\ UNCHANGED <<stored, mail, page, ids, chain, receipts, mishaps>>

\* PAYMENT_LEASE_TTL_MS pass without a heartbeat: the tab is gone or frozen.
LeaseExpires ==
    /\ lease.fresh
    /\ IF lease.owner = Gone THEN UNCHANGED mishaps ELSE Suffer("suspended")
    /\ lease' = [lease EXCEPT !.fresh = FALSE]
    /\ UNCHANGED <<stored, mail, page, ids, chain, receipts>>

\* An awaited request rejects, or the user refuses to sign.
AwaitFails(t) ==
    /\ page[t].at \notin Quiet \cup {"closing"}
    /\ Suffer("failure")
    /\ Throw(t)
    /\ UNCHANGED <<ids, chain, receipts>>

\* The tab dies, with or without a pagehide event, and is opened again.
TabDies(t) ==
    /\ page[t].at \notin Quiet
    /\ Suffer("failure")
    /\ \/ Released(t)
       \/ Owns(t) /\ lease' = [lease EXCEPT !.owner = Gone]
    /\ page' = [page EXCEPT ![t] = [checkpoint |-> stored, run |-> NoCheckpoint,
                                    at |-> "idle", side |-> "public"]]
    /\ mail' = [mail EXCEPT ![t] = << >>]
    /\ UNCHANGED <<stored, ids, chain, receipts>>

\* A block confirms the transaction; the program may have to refuse it by now.
Lands(x) ==
    /\ tx[x].state = "sent" /\ ~tx[x].late
    /\ IF ~Accepted(tx[x].side, tx[x].id)
       THEN tx' = [tx EXCEPT ![x].state = "failed"] /\ UNCHANGED <<shell, escrow, available>>
       ELSE /\ tx' = [tx EXCEPT ![x].state = "landed"]
            /\ IF tx[x].side = "public"
               THEN /\ shell' = [shell EXCEPT ![tx[x].id] = "confirmed"]
                    /\ UNCHANGED <<escrow, available>>
               ELSE /\ escrow' = [escrow EXCEPT ![tx[x].id] = "open"]
                    /\ available' = available - 1
                    /\ UNCHANGED shell
    /\ UNCHANGED <<stored, lease, mail, page, ids, receipts, mishaps>>

\* The block height passes the transaction's lastValidBlockHeight.
PassesLastValid(x) ==
    /\ ~tx[x].late
    /\ tx' = [tx EXCEPT ![x].late = TRUE]
    /\ UNCHANGED <<stored, lease, mail, page, ids, shell, escrow, available, receipts, mishaps>>

Finalizes(i) ==
    /\ shell[i] = "confirmed"
    /\ shell' = [shell EXCEPT ![i] = "finalized"]
    /\ UNCHANGED <<stored, lease, mail, page, ids, tx, escrow, available, receipts, mishaps>>

\* Payment::cancel or Payment::claim, sent by either party at any time: the
\* funds come back to this wallet or not (ProtectedPay says when they may).
Seals(i) ==
    /\ escrow[i] = "open"
    /\ escrow' = [escrow EXCEPT ![i] = "sealed"]
    /\ \E back \in {0, 1} : available' = available + back
    /\ UNCHANGED <<stored, lease, mail, page, ids, tx, shell, receipts, mishaps>>

Run(t) ==
    \/ CreateCheckpoint(t) \/ RequireAvailableBalance(t)
    \/ SignatureStatus(t) \/ BlockHeight(t) \/ ReconcileExpired(t)
    \/ ReadPayment(t) \/ WaitForPayment(t)
    \/ SignTransaction(t) \/ SaveAndSend(t) \/ PollConfirmation(t)
    \/ Close(t)

Next ==
    \/ \E t \in Tabs :
          \/ ConfirmPayment(t) \/ Run(t)
          \/ DiscardUnsentPayment(t) \/ ApplyCheckpoint(t)
          \/ Reload(t) \/ ConfirmUndo(t)
          \/ Heartbeat(t) \/ AwaitFails(t) \/ TabDies(t)
    \/ LeaseExpires
    \/ \E x \in DOMAIN tx : Lands(x) \/ PassesLastValid(x)
    \/ \E i \in PaymentIds : Finalizes(i) \/ Seals(i)

Spec == Init /\ [][Next]_vars

\* The user keeps resuming, tabs keep running, events are delivered, leases of
\* dead tabs expire, and every transaction lands or passes its last valid block.
FairSpec ==
    /\ Spec
    /\ \A t \in Tabs : /\ WF_vars(Run(t)) /\ WF_vars(ApplyCheckpoint(t))
                       /\ WF_vars(Reload(t)) /\ SF_vars(ConfirmPayment(t))
    /\ WF_vars(LeaseExpires /\ lease.owner = Gone)
    /\ WF_vars(\E x \in DOMAIN tx : Lands(x) \/ PassesLastValid(x))
    /\ WF_vars(\E i \in PaymentIds : Finalizes(i))

-----------------------------------------------------------------------------
(* Properties *)

CanLand(x) == tx[x].state = "sent" /\ ~tx[x].late

\* Every payment that took funds can be found again: its id is in the saved
\* checkpoint or in a receipt (persistPaymentCheckpoint, recordPaymentReceipt;
\* p5-frontend-recovery.md: "a network interruption retains the recovery
\* checkpoint").  True without suspended tabs and late events only.
NoLostEscrow ==
    \A i \in PaymentIds : escrow[i] # "none" =>
        stored.id = i \/ \E r \in receipts : r.id = i

\* A transaction is never sent while another one for the same step of the same
\* payment can still land (pendingOutcome; p5-payment-reconciliation.md: "wait
\* instead of resending while a prepared signature can still land").  True
\* without suspended tabs and late events only.
WaitInsteadOfResending ==
    \A x, y \in DOMAIN tx :
        CanLand(x) /\ CanLand(y) /\ tx[x].side = tx[y].side /\ tx[x].id = tx[y].id => x = y

\* At most one tab runs an operation, and it holds the lease
\* (acquirePaymentOperationLease, releasePaymentOperationLease).
OneTabRuns ==
    \A t \in Tabs : page[t].at \notin Quiet => lease.owner = t

\* However many transactions stale and suspended tabs have sent for a
\* payment, each step of it takes effect once (protected-pay-prd.md: "unique
\* payment identity and reconciliation prevent duplicate value movement").
TakesEffectOnce ==
    \A x, y \in DOMAIN tx :
        /\ tx[x].state = "landed" /\ tx[y].state = "landed"
        /\ tx[x].side = tx[y].side /\ tx[x].id = tx[y].id
        => x = y

\* A receipt cites the two transactions that did land
\* (receiptFromCheckpoint, ReconcileExpired's second look).
ReceiptsCiteLanded ==
    \A r \in receipts : tx[r.public].state = "landed" /\ tx[r.private].state = "landed"

\* An opened payment whose checkpoint is saved gets its receipt, unless it is
\* claimed or cancelled first (p5-payment-reconciliation.md: the client will
\* "finish without another transaction when the exact private Payment already
\* opened").  The code refutes it twice: by the balance check on every resume, and,
\* where the balance suffices, by a receipt that needs the signature it has cleared.
OpenedPaymentIsReported ==
    \A i \in PaymentIds :
        escrow[i] = "open" /\ stored.id = i ~>
            escrow[i] = "sealed" \/ \E r \in receipts : r.id = i
=============================================================================
