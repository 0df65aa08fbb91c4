------------------------- MODULE DepositClient_proofs -------------------------
(* Machine-checked proofs about DepositClient, for every set of tabs, every  *)
(* amount and every bound.                                                   *)
EXTENDS DepositClient, TLAPS

-----------------------------------------------------------------------------
(* Transactions *)

\* A transaction keeps what it is, whatever becomes of it.
Same(x) == tx'[x].kind = tx[x].kind /\ tx'[x].op = tx[x].op

TxKept == /\ tx' \in Seq(Transaction)
          /\ DOMAIN tx \subseteq DOMAIN tx'
          /\ \A x \in DOMAIN tx : Same(x)

LEMMA SendKeeps ==
    ASSUME tx \in Seq(Transaction), NEW kind \in Kinds, NEW op \in Nat, Send(kind, op)
    PROVE  /\ TxKept
           /\ Len(tx') = Len(tx) + 1
           /\ \A x \in DOMAIN tx : tx'[x] = tx[x]
           /\ tx'[Len(tx) + 1] = [kind |-> kind, op |-> op, late |-> FALSE, state |-> "sent"]
<1> DEFINE new == [kind |-> kind, op |-> op, late |-> FALSE, state |-> "sent"]
<1>1. new \in Transaction
  BY DEF Transaction
<1>2. tx' = Append(tx, new)
  BY DEF Send
<1> QED
  BY <1>1, <1>2 DEF TxKept, Same

LEMMA LandKeeps ==
    ASSUME tx \in Seq(Transaction), NEW x \in DOMAIN tx,
           NEW state \in {"landed", "failed"}, tx' = [tx EXCEPT ![x].state = state]
    PROVE  TxKept
<1>1. tx[x] \in Transaction
  OBVIOUS
<1>2. [tx[x] EXCEPT !.state = state] \in Transaction
  BY <1>1 DEF Transaction
<1> QED
  BY <1>1, <1>2 DEF TxKept, Same, Transaction

LEMMA LateKeeps ==
    ASSUME tx \in Seq(Transaction), NEW x \in DOMAIN tx, tx' = [tx EXCEPT ![x].late = TRUE]
    PROVE  TxKept
<1>1. tx[x] \in Transaction
  OBVIOUS
<1>2. [tx[x] EXCEPT !.late = TRUE] \in Transaction
  BY <1>1 DEF Transaction
<1> QED
  BY <1>1, <1>2 DEF TxKept, Same, Transaction

LEMMA SufferType ==
    ASSUME mishaps \in [Mishaps -> Nat], NEW m \in Mishaps, Suffer(m)
    PROVE  mishaps' \in [Mishaps -> Nat]
BY DEF Suffer

-----------------------------------------------------------------------------
(* Type correctness *)

LEMMA EffectType ==
    ASSUME account \in Account, NEW kind \in Kinds, Accepted(kind, account)
    PROVE  Effect(kind, account) \in Account
<1> USE AmountAssumption DEF Account, Accepted, Effect
<1>0. account.wallet \in Nat /\ account.available \in Nat
  OBVIOUS
<1>1. CASE kind = "prepare"
  <2>1. account.wallet - Funding \in Nat /\ Funding \in Nat
    BY <1>0, <1>1
  <2> QED
    BY <1>1, <2>1
<1>2. CASE kind \in {"delegate", "onboard"}
  BY <1>2
<1>3. CASE kind = "return"
  BY <1>3
<1>4. CASE kind = "deposit"
  <2>1. account.wallet - 1 \in Nat /\ account.available + 1 \in Nat
    BY <1>0, <1>4
  <2> QED
    BY <1>4, <2>1
<1>5. CASE kind = "withdraw"
  <2>1. account.available - 1 \in Nat /\ account.wallet + 1 \in Nat
    BY <1>0, <1>5
  <2> QED
    BY <1>5, <2>1
<1> QED
  BY <1>1, <1>2, <1>3, <1>4, <1>5 DEF Kinds

LEMMA ShownType ==
    ASSUME account \in Account
    PROVE  Shown(account) \in [owner : {"nobody", "program", "delegation"},
                               permission : {"absent", "base", "er"},
                               available : Nat, wallet : Nat]
BY DEF Account, Shown, Owner

\* A step of the network keeps the accounts' types and every transaction.
LEMMA NetworkType ==
    ASSUME AccountsTypeOK, Network
    PROVE  AccountsTypeOK' /\ TxKept
<1> USE DEF AccountsTypeOK
<1>1. ASSUME NEW x \in DOMAIN tx, Lands(x) PROVE AccountsTypeOK' /\ TxKept
  <2>0. tx[x] \in Transaction
    OBVIOUS
  <2>1. tx[x].kind \in Kinds
    BY <2>0 DEF Transaction
  <2>2. account' \in Account
    BY <1>1, <2>1, EffectType DEF Lands
  <2>3. TxKept
    BY <1>1, LandKeeps DEF Lands
  <2> QED
    BY <1>1, <2>2, <2>3 DEF Lands, TxKept
<1>2. ASSUME NEW x \in DOMAIN tx, PassesLastValid(x) PROVE AccountsTypeOK' /\ TxKept
  <2>1. TxKept
    BY <1>2, LateKeeps DEF PassesLastValid
  <2>2. mishaps' \in [Mishaps -> Nat]
    BY <1>2, SufferType DEF PassesLastValid, Mishaps
  <2> QED
    BY <1>2, <2>1, <2>2 DEF PassesLastValid, TxKept
<1>3. CASE ReturnCommits
  BY <1>3 DEF ReturnCommits, Account, TxKept, Same
<1>4. CASE Finalizes
  BY <1>4, ShownType DEF Finalizes, TxKept, Same
<1>5. CASE SomebodyPays
  BY <1>5 DEF SomebodyPays, Account, TxKept, Same
<1>6. CASE PaymentMovesBalance
  <2>1. PICK change \in {-1, 1} :
          /\ account.available + change >= 0
          /\ account' = [account EXCEPT !.available = @ + change]
    BY <1>6 DEF PaymentMovesBalance
  <2>2. account.available + change \in Nat
    BY <2>1 DEF Account
  <2>3. account' \in Account
    BY <2>1, <2>2 DEF Account
  <2>4. UNCHANGED <<finalized, tx, paid, mishaps>> /\ moves' \in Nat
    BY <1>6 DEF PaymentMovesBalance
  <2>5. TxKept
    BY <2>4 DEF TxKept, Same
  <2> QED
    BY <2>3, <2>4, <2>5
<1> QED
  BY <1>1, <1>2, <1>3, <1>4, <1>5, <1>6 DEF Network

LEMMA SetupChangeType ==
    ASSUME SetupTypeOK, NEW t \in Tabs,
           \/ \E step \in SetupSteps : SetupGoes(t, step)
           \/ \E kind \in {"prepare", "delegate", "onboard"} : SetupSigns(t, kind)
           \/ SetupStops(t)
    PROVE  SetupTypeOK'
<1> USE DEF SetupTypeOK, SetupSteps
<1>0. setup[t] \in [at : SetupSteps, kind : {"prepare", "delegate", "onboard"}, signature : Nat]
  OBVIOUS
<1>1. ASSUME NEW step \in SetupSteps, SetupGoes(t, step) PROVE SetupTypeOK'
  BY <1>0, <1>1 DEF SetupGoes
<1>2. ASSUME NEW kind \in {"prepare", "delegate", "onboard"}, SetupSigns(t, kind) PROVE SetupTypeOK'
  <2>1. [setup[t] EXCEPT !.at = "simulate", !.kind = kind]
            \in [at : SetupSteps, kind : {"prepare", "delegate", "onboard"}, signature : Nat]
    BY <1>0
  <2> QED
    BY <1>2, <2>1 DEF SetupSigns
<1>3. CASE SetupStops(t)
  BY <1>3 DEF SetupStops, NoSetup
<1> QED
  BY <1>1, <1>2, <1>3

LEMMA SetupType ==
    ASSUME AccountsTypeOK, SetupTypeOK, NEW t \in Tabs, SetUp(t)
    PROVE  AccountsTypeOK' /\ SetupTypeOK' /\ TxKept /\ account' = account
<1> DEFINE Quiet == UNCHANGED <<chain, mishaps>>
<1>1. ASSUME Quiet PROVE AccountsTypeOK' /\ TxKept /\ account' = account
  BY <1>1 DEF AccountsTypeOK, chain, TxKept, Same
<1> HIDE DEF Quiet
<1>2. CASE ConfirmFunding(t) \/ AcknowledgeAsRecipient(t)
  <2>1. Quiet /\ SetupTypeOK'
    BY <1>2, SetupChangeType DEF ConfirmFunding, AcknowledgeAsRecipient, SetupSteps, Quiet
  <2> QED
    BY <2>1, <1>1
<1>3. CASE InspectFunding(t) \/ VerifyFundingPlan(t)
  <2>1. Quiet /\ SetupTypeOK'
    BY <1>3, SetupChangeType DEF InspectFunding, VerifyFundingPlan, SetupSteps, Quiet, FundingState
  <2> QED
    BY <2>1, <1>1
<1>4. CASE DiscoverFundingSource(t) \/ WaitForPreparedFunding(t)
  <2>1. Quiet /\ SetupTypeOK'
    BY <1>4, SetupChangeType DEF DiscoverFundingSource, WaitForPreparedFunding, SetupSteps, Quiet
  <2> QED
    BY <2>1, <1>1
<1>5. CASE OnboardRecipientDeposit(t) \/ SimulateSetup(t) \/ PollSetup(t)
  <2>1. Quiet /\ SetupTypeOK'
    BY <1>5, SetupChangeType DEF OnboardRecipientDeposit, SimulateSetup, PollSetup, SetupSteps, Quiet
  <2> QED
    BY <2>1, <1>1
<1>6. CASE SendSetup(t)
  <2>0. setup[t] \in [at : SetupSteps, kind : {"prepare", "delegate", "onboard"}, signature : Nat]
    BY DEF SetupTypeOK
  <2>1. CASE Accepted(setup[t].kind, account)
    <3>1. setup[t].kind \in Kinds
      BY <2>0 DEF Kinds
    <3>2. TxKept
      BY <1>6, <2>1, <3>1, SendKeeps DEF SendSetup, AccountsTypeOK
    <3>3. Len(tx) + 1 \in Nat
      BY DEF AccountsTypeOK
    <3>4. [setup[t] EXCEPT !.at = "poll", !.signature = Len(tx) + 1]
              \in [at : SetupSteps, kind : {"prepare", "delegate", "onboard"}, signature : Nat]
      BY <2>0, <3>3 DEF SetupSteps
    <3>5. SetupTypeOK'
      BY <1>6, <2>1, <3>4 DEF SendSetup, SetupTypeOK
    <3> QED
      BY <1>6, <3>2, <3>5 DEF SendSetup, AccountsTypeOK, TxKept
  <2>2. CASE ~Accepted(setup[t].kind, account)
    <3>1. SetupTypeOK'
      BY <1>6, <2>2, SetupChangeType DEF SendSetup
    <3> QED
      BY <1>6, <2>2, <3>1 DEF SendSetup, AccountsTypeOK, TxKept, Same
  <2> QED
    BY <2>1, <2>2
<1>7. CASE SetupFails(t)
  <2>1. mishaps' \in [Mishaps -> Nat]
    BY <1>7, SufferType DEF SetupFails, AccountsTypeOK, Mishaps
  <2>2. SetupTypeOK'
    BY <1>7, SetupChangeType DEF SetupFails
  <2> QED
    BY <1>7, <2>1, <2>2 DEF SetupFails, AccountsTypeOK, chain, TxKept, Same
<1> QED
  BY <1>2, <1>3, <1>4, <1>5, <1>6, <1>7 DEF SetUp, SetupRuns
-----------------------------------------------------------------------------
(* What a page is between two awaits *)

Page == [shown : {Unread} \cup Nat, stored : Checkpoint, run : Checkpoint,
         at : Steps, side : Sides]

\* A running operation is the saved one, unless it was discarded unsent or is
\* complete; what is about to be sent has no signature saved.
Tidy(p) ==
    /\ p.at = "idle" => p.run = NoCheckpoint
    /\ p.at # "idle" => p.run.id # 0
    /\ p.stored.id = 0 => p.stored = NoCheckpoint
    /\ p.at # "idle" /\ p.stored # p.run =>
          /\ p.stored = NoCheckpoint
          /\ p.at = "closing" \/ (p.run.return = 0 /\ p.run.mutation = 0)
    /\ p.at \in {"status", "height", "poll"} => p.run[p.side] # 0
    /\ p.at \in {"simulate", "approve"} => p.run[p.side] = 0
    /\ p.at \in {"status", "height", "poll", "simulate", "approve"} /\ p.side = "return" =>
          p.run.mutation = 0
    /\ p.at \in {"funds", "public", "private", "returned"} => p.run.mutation = 0

PagesTidy == page \in [Tabs -> Page] /\ \A t \in Tabs : Tidy(page[t])

LEMMA NoCheckpointType == NoCheckpoint \in Checkpoint
BY DEF NoCheckpoint, Checkpoint

LEMMA CheckpointUpdate ==
    ASSUME NEW c \in Checkpoint, NEW side \in Sides, NEW n \in Nat
    PROVE  /\ [c EXCEPT ![side] = n] \in Checkpoint
           /\ [c EXCEPT ![side] = n].id = c.id
           /\ [c EXCEPT ![side] = n].kind = c.kind
           /\ [c EXCEPT ![side] = n][side] = n
           /\ side = "return" => [c EXCEPT ![side] = n].mutation = c.mutation
           /\ side = "mutation" => [c EXCEPT ![side] = n].return = c.return
           /\ \A s \in Sides : s # side => [c EXCEPT ![side] = n][s] = c[s]
<1>1. CASE side = "return"
  <2>1. [c EXCEPT ![side] = n] = [c EXCEPT !.return = n]
    BY <1>1
  <2>2. [c EXCEPT !.return = n]["mutation"] = c["mutation"]
    BY DEF Checkpoint
  <2> QED
    BY <1>1, <2>1, <2>2 DEF Checkpoint, Sides
<1>2. CASE side = "mutation"
  <2>1. [c EXCEPT ![side] = n] = [c EXCEPT !.mutation = n]
    BY <1>2
  <2>2. [c EXCEPT !.mutation = n]["return"] = c["return"]
    BY DEF Checkpoint
  <2> QED
    BY <1>2, <2>1, <2>2 DEF Checkpoint, Sides
<1>3. side = "return" \/ side = "mutation"
  BY DEF Sides
<1> QED
  BY <1>1, <1>2, <1>3

LEMMA BecomesTidy ==
    ASSUME PagesTidy, NEW t \in Tabs, NEW next \in Page, Tidy(next), Becomes(t, next)
    PROVE  PagesTidy'
<1>1. page' \in [Tabs -> Page] /\ \A u \in Tabs : page'[u] = IF u = t THEN next ELSE page[u]
  BY DEF PagesTidy, Becomes
<1>2. \A u \in Tabs : Tidy(page'[u])
  BY <1>1 DEF PagesTidy
<1> QED
  BY <1>1, <1>2 DEF PagesTidy

LEMMA StopTidy ==
    ASSUME PagesTidy, NEW t \in Tabs, Stop(t)
    PROVE  PagesTidy'
<1> DEFINE next == [page[t] EXCEPT !.at = "idle", !.run = NoCheckpoint]
<1>1. page[t] \in Page /\ Tidy(page[t])
  BY DEF PagesTidy
<1>2. next \in Page /\ Tidy(next)
  BY <1>1, NoCheckpointType DEF Page, Tidy, Steps
<1> QED
  BY <1>2, BecomesTidy DEF Stop

LEMMA CompleteTidy ==
    ASSUME PagesTidy, NEW t \in Tabs, ~At(t, "idle"), Complete(t)
    PROVE  PagesTidy'
<1> DEFINE next == [page[t] EXCEPT !.at = "closing", !.stored = NoCheckpoint]
<1>1. page[t] \in Page /\ Tidy(page[t])
  BY DEF PagesTidy
<1>2. next \in Page /\ Tidy(next)
  BY <1>1, NoCheckpointType DEF Page, Tidy, Steps, At, NoCheckpoint
<1> QED
  BY <1>2, BecomesTidy DEF Complete

LEMMA ForgetTidy ==
    ASSUME PagesTidy, NEW t \in Tabs, page[t].at \in {"status", "height"}, Forget(t)
    PROVE  PagesTidy'
<1> DEFINE saved == [page[t].run EXCEPT ![page[t].side] = 0]
           next == [page[t] EXCEPT !.run = saved, !.stored = saved, !.side = "return",
                      !.at = IF page[t].side = "mutation" /\ saved.return # 0
                             THEN "status" ELSE "public"]
<1>1. page[t] \in Page /\ Tidy(page[t])
  BY DEF PagesTidy
<1>2. page[t].run \in Checkpoint /\ page[t].side \in Sides /\ page[t].run.id # 0
  BY <1>1 DEF Page, Tidy
<1>3. saved \in Checkpoint /\ saved.id # 0 /\ saved[page[t].side] = 0
  BY <1>2, CheckpointUpdate
<1>4. saved.mutation = 0
  <2>1. CASE page[t].side = "mutation"
    BY <1>3, <2>1
  <2>2. CASE page[t].side = "return"
    <3>1. page[t].run.mutation = 0
      BY <1>1, <2>2 DEF Tidy
    <3> QED
      BY <1>2, <2>2, <3>1, CheckpointUpdate
  <2> QED
    BY <1>2, <2>1, <2>2 DEF Sides
<1> HIDE DEF saved
<1>5. next \in Page
  BY <1>1, <1>3 DEF Page, Steps, Sides
<1>6. Tidy(next)
  BY <1>1, <1>3, <1>4, <1>5 DEF Tidy, Page
<1> QED
  BY <1>5, <1>6, BecomesTidy DEF Forget, saved

LEMMA UpdateTidy ==
    ASSUME PagesTidy, NEW t \in Tabs, At(t, "approve"), NEW n \in Nat \ {0},
           Update(t, page[t].side, n, "poll")
    PROVE  PagesTidy'
<1> DEFINE saved == [page[t].run EXCEPT ![page[t].side] = n]
           next == [page[t] EXCEPT !.run = saved, !.stored = saved, !.at = "poll",
                                   !.side = page[t].side]
<1>1. page[t] \in Page /\ Tidy(page[t])
  BY DEF PagesTidy
<1>2. page[t].run \in Checkpoint /\ page[t].side \in Sides /\ page[t].run.id # 0
  BY <1>1 DEF Page, Tidy, At
<1>3. saved \in Checkpoint /\ saved.id # 0 /\ saved[page[t].side] # 0
  BY <1>2, CheckpointUpdate
<1>4. page[t].side = "return" => saved.mutation = 0
  BY <1>1, <1>2, CheckpointUpdate DEF Tidy, At
<1> HIDE DEF saved
<1>5. next \in Page
  BY <1>1, <1>3 DEF Page, Steps, Sides
<1>6. Tidy(next)
  BY <1>1, <1>3, <1>4, <1>5 DEF Tidy, Page
<1> QED
  BY <1>5, <1>6, BecomesTidy DEF Update, saved

LEMMA GoTidy ==
    ASSUME PagesTidy, NEW t \in Tabs, ~At(t, "idle"), NEW step \in Steps \ {"idle", "closing"},
           Go(t, step),
           step \in {"status", "height", "poll"} => Saved(t) # 0,
           step \in {"simulate", "approve"} => Saved(t) = 0,
           step \in {"status", "height", "poll", "simulate", "approve"} =>
               page[t].side = "mutation" \/ page[t].run.mutation = 0,
           step \in {"funds", "public", "private", "returned"} => page[t].run.mutation = 0,
           ~At(t, "closing")
    PROVE  PagesTidy'
<1> DEFINE next == [page[t] EXCEPT !.at = step]
<1>1. page[t] \in Page /\ Tidy(page[t])
  BY DEF PagesTidy
<1>2. next \in Page
  BY <1>1 DEF Page
<1>3. Tidy(next)
  BY <1>1, <1>2 DEF Tidy, Page, At, Saved, Sides
<1> QED
  BY <1>2, <1>3, BecomesTidy DEF Go

\* The decision to send a side that has no signature saved.
LEMMA SendsNextTidy ==
    ASSUME PagesTidy, NEW t \in Tabs, page[t].at \in {"public", "private", "returned"},
           NEW side \in Sides, page[t].run[side] = 0, GoFor(t, "simulate", side)
    PROVE  PagesTidy'
<1> DEFINE next == [page[t] EXCEPT !.at = "simulate", !.side = side]
<1>1. page[t] \in Page /\ Tidy(page[t])
  BY DEF PagesTidy
<1>2. next \in Page
  BY <1>1 DEF Page, Steps
<1>3. Tidy(next)
  BY <1>1, <1>2 DEF Tidy, Page
<1> QED
  BY <1>2, <1>3, BecomesTidy DEF GoFor

LEMMA BeginTidy ==
    ASSUME PagesTidy, NEW t \in Tabs, NEW c \in Checkpoint, c.id # 0, Begin(t, c)
    PROVE  PagesTidy'
<1> DEFINE at == IF c.mutation # 0 \/ c.return # 0 THEN "status"
                 ELSE IF c.kind = "deposit" THEN "funds" ELSE "public"
           side == IF c.mutation # 0 THEN "mutation" ELSE "return"
           next == [page[t] EXCEPT !.stored = c, !.run = c, !.at = at, !.side = side]
<1>1. page[t] \in Page /\ Tidy(page[t])
  BY DEF PagesTidy
<1>2. /\ at \in {"status", "funds", "public"} /\ side \in Sides
      /\ at = "status" => c[side] # 0 /\ (side = "return" => c.mutation = 0)
      /\ at # "status" => c.mutation = 0
  BY DEF Sides
<1> HIDE DEF at, side
<1>3. next \in Page
  BY <1>1, <1>2 DEF Page, Steps
<1>4. Tidy(next)
  BY <1>1, <1>2, <1>3 DEF Tidy, Page
<1> QED
  BY <1>3, <1>4, BecomesTidy DEF Begin, at, side

LEMMA MutateOrStopTidy ==
    ASSUME PagesTidy, NEW t \in Tabs, page[t].at \in {"public", "returned"}, MutateOrStop(t)
    PROVE  PagesTidy'
<1>1. page[t].run["mutation"] = 0
  BY DEF PagesTidy, Tidy
<1> QED
  BY <1>1, SendsNextTidy, StopTidy DEF MutateOrStop, Sides

LEMMA BalanceTidy ==
    ASSUME PagesTidy, ops \in Nat, AccountsTypeOK, NEW t \in Tabs, Balance(t)
    PROVE  PagesTidy'
<1>0. page[t] \in Page /\ Tidy(page[t])
  BY DEF PagesTidy
<1>1. CASE ShowBalance(t)
  <2> DEFINE next == [page[t] EXCEPT !.shown = account.available]
  <2>1. next \in Page /\ Tidy(next)
    BY <1>0 DEF Page, Tidy, AccountsTypeOK, Account
  <2> QED
    BY <1>1, <2>1, BecomesTidy DEF ShowBalance
<1>2. CASE StartBalanceOperation(t)
  <2>1. PICK kind \in {"deposit", "withdraw"} :
            Begin(t, [NoCheckpoint EXCEPT !.id = ops + 1, !.kind = kind, !.start = page[t].shown])
    BY <1>2 DEF StartBalanceOperation
  <2> DEFINE c == [NoCheckpoint EXCEPT !.id = ops + 1, !.kind = kind, !.start = page[t].shown]
  <2>2. page[t].shown \in Nat /\ ops + 1 \in Nat /\ ops + 1 # 0
    BY <1>0, <1>2 DEF StartBalanceOperation, Page
  <2>3. c \in Checkpoint /\ c.id # 0
    BY <2>2 DEF NoCheckpoint, Checkpoint
  <2> HIDE DEF c
  <2> QED
    BY <2>1, <2>3, BeginTidy DEF c
<1>3. CASE ResumeBalanceOperation(t)
  <2>1. page[t].stored \in Checkpoint /\ page[t].stored.id # 0
    BY <1>0, <1>3 DEF ResumeBalanceOperation, Page, Tidy
  <2> QED
    BY <1>3, <2>1, BeginTidy DEF ResumeBalanceOperation
<1>4. CASE DiscardUnsentBalanceOperation(t)
  <2> DEFINE next == [page[t] EXCEPT !.stored = NoCheckpoint]
  <2>1. next \in Page
    BY <1>0, NoCheckpointType DEF Page
  <2>2. Tidy(next)
    BY <1>0, <1>4, <2>1 DEF Page, Tidy, DiscardUnsentBalanceOperation
  <2> QED
    BY <1>4, <2>1, <2>2, BecomesTidy DEF DiscardUnsentBalanceOperation
<1>5. CASE Close(t)
  <2> DEFINE next == [page[t] EXCEPT !.at = "idle", !.run = NoCheckpoint,
                        !.shown = IF account.deposit = "er" THEN account.available ELSE @]
  <2>1. next \in Page
    BY <1>0, NoCheckpointType DEF Page, Steps, AccountsTypeOK, Account
  <2>2. Tidy(next)
    BY <1>0, <1>5, <2>1 DEF Page, Tidy
  <2> QED
    BY <1>5, <2>1, <2>2, BecomesTidy DEF Close
<1>6. CASE AssertTopUpFunds(t)
  BY <1>0, <1>6, GoTidy, StopTidy DEF AssertTopUpFunds, At, Tidy, Steps
<1>7. CASE SignatureStatus(t)
  BY <1>0, <1>7, GoTidy, ForgetTidy DEF SignatureStatus, At, Tidy, Steps, Saved, Page, Sides
<1>8. CASE BlockHeight(t)
  BY <1>8, ForgetTidy, StopTidy DEF BlockHeight, At
<1>9. CASE ReadPublicDeposit(t)
  BY <1>0, <1>9, GoTidy, MutateOrStopTidy, StopTidy DEF ReadPublicDeposit, At, Tidy, Steps, AccountsTypeOK
<1>10. CASE ReadPrivateDeposit(t)
  <2>1. CASE GoFor(t, "simulate", "return") /\ page[t].run.return = 0
    BY <1>10, <2>1, SendsNextTidy DEF ReadPrivateDeposit, At, Sides
  <2>2. CASE Go(t, "returned")
    BY <1>0, <1>10, <2>2, GoTidy DEF ReadPrivateDeposit, At, Tidy, Steps
  <2>3. CASE Complete(t) \/ Stop(t)
    BY <1>10, <2>3, CompleteTidy, StopTidy DEF ReadPrivateDeposit, At
  <2> QED
    BY <1>10, <2>1, <2>2, <2>3 DEF ReadPrivateDeposit
<1>11. CASE SimulateBalance(t)
  BY <1>0, <1>11, GoTidy, StopTidy DEF SimulateBalance, At, Tidy, Steps, Saved, Page, Sides
<1>12. CASE SaveAndSend(t)
  <2>1. Len(tx) + 1 \in Nat \ {0}
    BY DEF AccountsTypeOK
  <2> QED
    BY <1>12, <2>1, UpdateTidy, StopTidy DEF SaveAndSend
<1>13. CASE PollConfirmation(t)
  BY <1>0, <1>13, GoTidy, StopTidy DEF PollConfirmation, At, Tidy, Steps, Page, Sides
<1>14. CASE WaitForPublicReturn(t)
  BY <1>14, MutateOrStopTidy, StopTidy DEF WaitForPublicReturn, At
<1>15. CASE WaitForDelegation(t)
  BY <1>15, GoTidy, StopTidy DEF WaitForDelegation, At, Steps
<1>16. CASE WaitForExpectedPrivate(t)
  BY <1>16, CompleteTidy, StopTidy DEF WaitForExpectedPrivate, At
<1>17. CASE BalanceAwaitFails(t)
  BY <1>17, StopTidy DEF BalanceAwaitFails
<1> QED
  BY <1>1, <1>2, <1>3, <1>4, <1>5, <1>6, <1>7, <1>8, <1>9, <1>10, <1>11, <1>12, <1>13,
     <1>14, <1>15, <1>16, <1>17 DEF Balance, RunBalanceOperation
-----------------------------------------------------------------------------
(* Whose transaction is whose: every transaction of an operation that landed *)
(* or still can is the one signature saved for its side                      *)

\* No transaction lands between the two requests that ask for its outcome.
NoneOvertaken == Allowed["overtaken"] = 0

\* What can be forgotten: it had no effect, or, if it may have been overtaken, at
\* least it can have no further one.
Dead(x) == tx[x].state = "failed" \/ (tx[x].late /\ (tx[x].state = "sent" \/ ~NoneOvertaken))
SideOf(x) == IF tx[x].kind = "return" THEN "return" ELSE "mutation"

Held(t) == {page[t].stored, page[t].run}

\* No transaction of c's operation is alive that c has no signature of.
Cites(c) ==
    \A x \in DOMAIN tx : tx[x].op = c.id /\ tx[x].op # 0 /\ ~Dead(x) => c[SideOf(x)] = x

AllSound == \A t \in Tabs : \A c \in Held(t) : Sound(c)
AllCited == \A t \in Tabs : \A c \in Held(t) : Cites(c)

\* Operations are numbered, and no two tabs hold the same one.
Numbered ==
    /\ ops \in Nat
    /\ \A t \in Tabs : \A c \in Held(t) : c.id <= ops
    /\ \A x \in DOMAIN tx : tx[x].op <= ops
    /\ \A t, u \in Tabs : \A c \in Held(t), d \in Held(u) : c.id = d.id /\ c.id # 0 => t = u

\* Transactions of the same side of an operation are never alive together.
OneAlive ==
    \A x, y \in DOMAIN tx :
        /\ tx[x].op # 0 /\ tx[x].op = tx[y].op /\ SideOf(x) = SideOf(y)
        /\ ~Dead(x) /\ ~Dead(y)
        => x = y

KindsOfOps == \A x \in DOMAIN tx : tx[x].op # 0 <=> tx[x].kind \in {"return", "deposit", "withdraw"}

Tracked == AllSound /\ AllCited /\ Numbered /\ OneAlive /\ KindsOfOps

\* What is dead stays dead, and no operation sends anything.
TxCalm ==
    /\ TxKept
    /\ \A x \in DOMAIN tx : Dead(x) => Dead(x)'
    /\ \A x \in DOMAIN tx' \ DOMAIN tx :
          tx'[x].op = 0 /\ tx'[x].kind \in {"prepare", "delegate", "onboard"}

LEMMA NetworkCalm ==
    ASSUME AccountsTypeOK, Network
    PROVE  TxCalm
<1>1. TxKept
  BY NetworkType
<1>2. CASE UNCHANGED tx
  BY <1>1, <1>2 DEF TxCalm, Dead, NoneOvertaken
<1>3. ASSUME NEW x \in DOMAIN tx, Lands(x) PROVE TxCalm
  <2>1. tx' = [tx EXCEPT ![x].state = "landed"] \/ tx' = [tx EXCEPT ![x].state = "failed"]
    BY <1>3 DEF Lands
  <2>2. DOMAIN tx' = DOMAIN tx
    BY <2>1
  <2>3. ~Dead(x)
    BY <1>3 DEF Lands, Dead, NoneOvertaken
  <2>4. \A y \in DOMAIN tx : y # x => tx'[y] = tx[y]
    BY <2>1
  <2> QED
    BY <1>1, <2>2, <2>3, <2>4 DEF TxCalm, Dead, NoneOvertaken
<1>4. ASSUME NEW x \in DOMAIN tx, PassesLastValid(x) PROVE TxCalm
  <2>1. tx' = [tx EXCEPT ![x].late = TRUE]
    BY <1>4 DEF PassesLastValid
  <2>2. tx[x] \in Transaction
    BY DEF AccountsTypeOK
  <2>3. DOMAIN tx' = DOMAIN tx
    BY <2>1
  <2>4. \A y \in DOMAIN tx : tx'[y] = IF y = x THEN [tx[x] EXCEPT !.late = TRUE] ELSE tx[y]
    BY <2>1
  <2>5. \A y \in DOMAIN tx : tx'[y].state = tx[y].state /\ (tx[y].late => tx'[y].late)
    BY <2>2, <2>4 DEF Transaction
  <2> QED
    BY <1>1, <2>3, <2>5 DEF TxCalm, Dead, NoneOvertaken
<1> QED
  BY <1>2, <1>3, <1>4
     DEF Network, ReturnCommits, Finalizes, SomebodyPays, PaymentMovesBalance

LEMMA SetupCalm ==
    ASSUME AccountsTypeOK, SetupTypeOK, NEW t \in Tabs, SetUp(t)
    PROVE  TxCalm
<1>1. TxKept
  BY SetupType
<1>2. CASE UNCHANGED tx
  BY <1>1, <1>2 DEF TxCalm, Dead, NoneOvertaken
<1>3. CASE SendSetup(t) /\ Accepted(setup[t].kind, account)
  <2>1. setup[t].kind \in {"prepare", "delegate", "onboard"}
    BY DEF SetupTypeOK
  <2>2. setup[t].kind \in Kinds
    BY <2>1 DEF Kinds
  <2>3. /\ \A x \in DOMAIN tx : tx'[x] = tx[x]
        /\ DOMAIN tx' \ DOMAIN tx = {Len(tx) + 1}
        /\ tx'[Len(tx) + 1] = [kind |-> setup[t].kind, op |-> 0, late |-> FALSE, state |-> "sent"]
    BY <1>3, <2>2, SendKeeps DEF SendSetup, AccountsTypeOK, TxKept
  <2> QED
    BY <1>1, <2>1, <2>3 DEF TxCalm, Dead, NoneOvertaken
<1>4. SendSetup(t) \/ UNCHANGED tx
  BY DEF SetUp, SetupRuns, ConfirmFunding, AcknowledgeAsRecipient, InspectFunding,
         DiscoverFundingSource, VerifyFundingPlan, WaitForPreparedFunding,
         OnboardRecipientDeposit, SimulateSetup, PollSetup, SetupFails, chain
<1> QED
  BY <1>2, <1>3, <1>4 DEF SendSetup

\* The network and a setup disturb no operation.
LEMMA CalmTracked ==
    ASSUME Tracked, TxCalm, UNCHANGED <<page, ops>>
    PROVE  Tracked'
<1>1. \A t \in Tabs : Held(t)' = Held(t)
  BY DEF Held
<1>2. /\ DOMAIN tx \subseteq DOMAIN tx'
      /\ \A x \in DOMAIN tx : tx'[x].kind = tx[x].kind /\ tx'[x].op = tx[x].op
      /\ \A x \in DOMAIN tx : SideOf(x)' = SideOf(x) /\ (Dead(x) => Dead(x)')
      /\ \A x \in DOMAIN tx' : tx'[x].op # 0 => x \in DOMAIN tx
  BY DEF TxCalm, TxKept, Same, SideOf
<1>3. ASSUME NEW c, Sound(c) PROVE Sound(c)'
  BY <1>2, <1>3 DEF Sound
<1>4. ASSUME NEW c, Cites(c) PROVE Cites(c)'
  BY <1>2, <1>4 DEF Cites
<1>5. AllSound'
  BY <1>1, <1>3 DEF AllSound, Tracked
<1>6. AllCited'
  BY <1>1, <1>4 DEF AllCited, Tracked
<1>7. Numbered'
  <2>1. \A x \in DOMAIN tx' : tx'[x].op <= ops'
    BY <1>2 DEF TxCalm, Numbered, Tracked
  <2> QED
    BY <1>1, <2>1 DEF Numbered, Tracked
<1>8. OneAlive'
  BY <1>2 DEF OneAlive, Tracked
<1>9. KindsOfOps'
  BY <1>2 DEF KindsOfOps, Tracked, TxCalm
<1> QED
  BY <1>5, <1>6, <1>7, <1>8, <1>9 DEF Tracked

\* A page that keeps checkpoints it held, or drops them, is tracked as before.
LEMMA RecallTracked ==
    ASSUME Tracked, UNCHANGED <<tx, ops>>,
           \A u \in Tabs : Held(u)' \subseteq Held(u) \cup {NoCheckpoint}
    PROVE  Tracked'
<1>1. \A c : (Sound(c)' <=> Sound(c)) /\ (Cites(c)' <=> Cites(c))
  BY DEF Sound, Cites, Dead, NoneOvertaken, SideOf
<1>2. Sound(NoCheckpoint) /\ Cites(NoCheckpoint)
  BY DEF Sound, Cites, NoCheckpoint, Sides
<1>3. AllSound' /\ AllCited'
  BY <1>1, <1>2 DEF AllSound, AllCited, Tracked
<1>4. Numbered'
  BY DEF Numbered, Tracked, NoCheckpoint
<1>5. OneAlive' /\ KindsOfOps'
  BY DEF OneAlive, KindsOfOps, Tracked, Dead, NoneOvertaken, SideOf
<1> QED
  BY <1>3, <1>4, <1>5 DEF Tracked

\* A new operation has a number, and no transaction, of its own.
LEMMA FreshTracked ==
    ASSUME AccountsTypeOK, Tracked, PagesTidy, NEW t \in Tabs, NEW c \in Checkpoint,
           c.id = ops + 1, c.return = 0, c.mutation = 0,
           ops' = ops + 1, UNCHANGED tx, Begin(t, c)
    PROVE  Tracked'
<1>1. /\ Held(t)' = {c}
      /\ \A u \in Tabs : u # t => Held(u)' = Held(u)
  BY DEF Held, Begin, Becomes, PagesTidy, Page
<1>2. \A d : (Sound(d)' <=> Sound(d)) /\ (Cites(d)' <=> Cites(d))
  BY DEF Sound, Cites, Dead, NoneOvertaken, SideOf
<1>3. Sound(c)
  BY DEF Sound, Sides
<1>4. Cites(c)
  <2>1. \A x \in DOMAIN tx : tx[x] \in Transaction /\ tx[x].op <= ops
    BY DEF AccountsTypeOK, Numbered, Tracked
  <2>2. \A x \in DOMAIN tx : tx[x].op # ops + 1
    BY <2>1 DEF Transaction, Numbered, Tracked
  <2> QED
    BY <2>2 DEF Cites
<1>5. AllSound' /\ AllCited'
  BY <1>1, <1>2, <1>3, <1>4 DEF AllSound, AllCited, Tracked
<1>6. Numbered'
  <2>1. ops \in Nat /\ ops' \in Nat
    BY DEF Numbered, Tracked
  <2>2. \A u \in Tabs : \A d \in Held(u) : d \in Checkpoint /\ d.id \in Nat /\ d.id <= ops
    BY DEF Numbered, Tracked, Held, PagesTidy, Page, Checkpoint
  <2>3. \A u \in Tabs : \A d \in Held(u)' : d.id <= ops'
    BY <1>1, <2>1, <2>2
  <2>4. \A x \in DOMAIN tx' : tx'[x].op <= ops'
    <3>1. \A x \in DOMAIN tx : tx[x] \in Transaction /\ tx[x].op <= ops
      BY DEF AccountsTypeOK, Numbered, Tracked
    <3>2. \A x \in DOMAIN tx : tx[x].op \in Nat /\ tx[x].op <= ops
      BY <3>1 DEF Transaction
    <3> QED
      BY <2>1, <3>2
  <2>5. \A u, v \in Tabs : \A d \in Held(u)', e \in Held(v)' : d.id = e.id /\ d.id # 0 => u = v
    BY <1>1, <2>1, <2>2 DEF Numbered, Tracked
  <2> QED
    BY <2>1, <2>3, <2>4, <2>5 DEF Numbered
<1>7. OneAlive' /\ KindsOfOps'
  BY DEF OneAlive, KindsOfOps, Tracked, Dead, NoneOvertaken, SideOf
<1> QED
  BY <1>5, <1>6, <1>7 DEF Tracked

\* A dead transaction's signature may be forgotten.
LEMMA ForgetTracked ==
    ASSUME Tracked, PagesTidy, UNCHANGED <<tx, ops>>, NEW t \in Tabs,
           page[t].at \in {"status", "height"}, Dead(Saved(t)), Forget(t)
    PROVE  Tracked'
<1> PICK run, side, next :
         run = page[t].run /\ side = page[t].side /\ next = [run EXCEPT ![side] = 0]
  OBVIOUS
<1>1. run \in Checkpoint /\ side \in Sides /\ run \in Held(t)
  BY DEF PagesTidy, Page, Held
<1>2. next.id = run.id /\ next.kind = run.kind /\ next[side] = 0
      /\ \A s \in Sides : s # side => next[s] = run[s]
  BY <1>1, CheckpointUpdate DEF Sides
<1>3. Held(t)' = {next} /\ \A u \in Tabs : u # t => Held(u)' = Held(u)
  BY DEF Held, Forget, Becomes, PagesTidy, Page
<1>4. \A d : (Sound(d)' <=> Sound(d)) /\ (Cites(d)' <=> Cites(d))
  BY DEF Sound, Cites, Dead, NoneOvertaken, SideOf
<1>5. Sound(run) /\ Cites(run)
  BY <1>1 DEF Tracked, AllSound, AllCited
<1>6. Dead(run[side])
  BY DEF Saved
<1>7. Sound(next)
  BY <1>2, <1>5 DEF Sound, KindOf
<1>8. Cites(next)
  <2> SUFFICES ASSUME NEW x \in DOMAIN tx, tx[x].op = run.id, tx[x].op # 0, ~Dead(x)
               PROVE  next[SideOf(x)] = x
    BY <1>2 DEF Cites
  <2>1. run[SideOf(x)] = x /\ SideOf(x) \in Sides
    BY <1>5 DEF Cites, SideOf, Sides
  <2>2. SideOf(x) # side
    BY <1>6, <2>1
  <2> QED
    BY <1>2, <2>1, <2>2
<1>9. AllSound' /\ AllCited'
  BY <1>3, <1>4, <1>7, <1>8 DEF AllSound, AllCited, Tracked
<1>10. Numbered'
  <2>1. \A u \in Tabs : \A d \in Held(u)' : d.id <= ops'
    BY <1>1, <1>2, <1>3 DEF Numbered, Tracked
  <2>2. \A u, v \in Tabs : \A d \in Held(u)', e \in Held(v)' : d.id = e.id /\ d.id # 0 => u = v
    <3> SUFFICES ASSUME NEW u \in Tabs, NEW v \in Tabs, NEW d \in Held(u)', NEW e \in Held(v)',
                        d.id = e.id, d.id # 0
                 PROVE  u = v
      OBVIOUS
    <3> DEFINE old(w, c) == IF w = t THEN run ELSE c
    <3>1. old(u, d) \in Held(u) /\ old(u, d).id = d.id
      BY <1>1, <1>2, <1>3
    <3>2. old(v, e) \in Held(v) /\ old(v, e).id = e.id
      BY <1>1, <1>2, <1>3
    <3> QED
      BY <3>1, <3>2 DEF Numbered, Tracked
  <2> QED
    BY <2>1, <2>2 DEF Numbered, Tracked
<1>11. OneAlive' /\ KindsOfOps'
  BY DEF OneAlive, KindsOfOps, Tracked, Dead, NoneOvertaken, SideOf
<1> QED
  BY <1>9, <1>10, <1>11 DEF Tracked

\* What is sent for a side without a signature is the only one alive.
LEMMA SendTracked ==
    ASSUME AccountsTypeOK, Tracked, PagesTidy, UNCHANGED ops, NEW t \in Tabs,
           At(t, "approve"), Update(t, page[t].side, Len(tx) + 1, "poll"),
           Send(Kind(t), page[t].run.id)
    PROVE  Tracked'
<1> PICK run, side, new, next :
         /\ run = page[t].run /\ side = page[t].side /\ new = Len(tx) + 1
         /\ next = [run EXCEPT ![side] = new]
  OBVIOUS
<1>1. run \in Checkpoint /\ side \in Sides /\ run \in Held(t) /\ run.id # 0 /\ run[side] = 0
  BY DEF PagesTidy, Page, Held, Tidy, At
<1>2. new \in Nat \ {0} /\ new \notin DOMAIN tx
  BY DEF AccountsTypeOK
<1>3. next.id = run.id /\ next.kind = run.kind /\ next[side] = new
      /\ \A s \in Sides : s # side => next[s] = run[s]
  BY <1>1, <1>2, CheckpointUpdate DEF Sides
<1>4. Held(t)' = {next} /\ \A u \in Tabs : u # t => Held(u)' = Held(u)
  BY DEF Held, Update, Becomes, PagesTidy, Page
<1>5. Kind(t) = KindOf(run, side) /\ Kind(t) \in {"return", "deposit", "withdraw"}
      /\ (IF Kind(t) = "return" THEN "return" ELSE "mutation") = side
  BY <1>1 DEF Kind, KindOf, Checkpoint, Sides
<1>6. /\ TxKept /\ DOMAIN tx' = DOMAIN tx \cup {new}
      /\ \A x \in DOMAIN tx : tx'[x] = tx[x]
      /\ tx'[new] = [kind |-> Kind(t), op |-> run.id, late |-> FALSE, state |-> "sent"]
  <2>1. Kind(t) \in Kinds /\ run.id \in Nat
    BY <1>1, <1>5 DEF Kinds, Checkpoint
  <2>2. /\ TxKept /\ Len(tx') = new
        /\ \A x \in DOMAIN tx : tx'[x] = tx[x]
        /\ tx'[new] = [kind |-> Kind(t), op |-> run.id, late |-> FALSE, state |-> "sent"]
    BY <2>1, SendKeeps DEF AccountsTypeOK
  <2>3. DOMAIN tx' = 1..Len(tx') /\ DOMAIN tx = 1..Len(tx) /\ Len(tx) \in Nat
    BY <2>2 DEF TxKept, AccountsTypeOK
  <2>4. DOMAIN tx' = DOMAIN tx \cup {new}
    BY <2>2, <2>3
  <2> QED
    BY <2>2, <2>4
<1>7. /\ \A x \in DOMAIN tx : tx'[x].op = tx[x].op /\ SideOf(x)' = SideOf(x)
                              /\ (Dead(x)' <=> Dead(x)) /\ x # new
      /\ tx'[new].op = run.id /\ tx'[new].kind = Kind(t) /\ SideOf(new)' = side
  BY <1>2, <1>5, <1>6 DEF SideOf, Dead, NoneOvertaken
<1>8. \A d : Sound(d) => Sound(d)'
  BY <1>6 DEF Sound
<1>9. Sound(run) /\ Cites(run)
  BY <1>1 DEF Tracked, AllSound, AllCited
<1>10. Sound(next)'
  <2> SUFFICES ASSUME NEW s \in Sides, next[s] # 0
               PROVE  next[s] \in DOMAIN tx' /\ tx'[next[s]].op = next.id
                      /\ tx'[next[s]].kind = KindOf(next, s)
    BY DEF Sound
  <2>1. CASE s = side
    BY <2>1, <1>3, <1>5, <1>6, <1>7 DEF KindOf
  <2>2. CASE s # side
    BY <2>2, <1>3, <1>6, <1>9 DEF KindOf, Sound
  <2> QED
    BY <2>1, <2>2
<1>11. \A x \in DOMAIN tx :
           tx[x].op = run.id /\ ~Dead(x) => SideOf(x) # side /\ run[SideOf(x)] = x
  <2> SUFFICES ASSUME NEW x \in DOMAIN tx, tx[x].op = run.id, ~Dead(x)
               PROVE  SideOf(x) # side /\ run[SideOf(x)] = x
    OBVIOUS
  <2>1. run[SideOf(x)] = x
    BY <1>1, <1>9 DEF Cites
  <2>2. x # 0
    BY DEF AccountsTypeOK
  <2> QED
    BY <1>1, <2>1, <2>2
<1>12. Cites(next)'
  BY <1>3, <1>6, <1>7, <1>11 DEF Cites, SideOf, Sides
<1>13. \A u \in Tabs : \A d \in Held(u) : u # t => Cites(d)'
  <2> SUFFICES ASSUME NEW u \in Tabs, NEW d \in Held(u), u # t PROVE Cites(d)'
    OBVIOUS
  <2>1. Cites(d) /\ d.id # run.id
    BY <1>1 DEF Tracked, AllCited, Numbered
  <2> QED
    BY <1>6, <1>7, <2>1 DEF Cites
<1>14. AllSound' /\ AllCited'
  BY <1>4, <1>8, <1>10, <1>12, <1>13 DEF AllSound, AllCited, Tracked
<1>15. Numbered'
  <2>1. run.id <= ops
    BY <1>1 DEF Tracked, Numbered
  <2>2. \A x \in DOMAIN tx' : tx'[x].op <= ops'
    BY <1>6, <1>7, <2>1 DEF Tracked, Numbered
  <2>3. \A u \in Tabs : \A d \in Held(u)' : d.id <= ops'
    BY <1>3, <1>4, <2>1 DEF Numbered, Tracked
  <2>4. \A u, v \in Tabs : \A d \in Held(u)', e \in Held(v)' : d.id = e.id /\ d.id # 0 => u = v
    <3> SUFFICES ASSUME NEW u \in Tabs, NEW v \in Tabs, NEW d \in Held(u)', NEW e \in Held(v)',
                        d.id = e.id, d.id # 0
                 PROVE  u = v
      OBVIOUS
    <3> DEFINE old(w, c) == IF w = t THEN run ELSE c
    <3>1. old(u, d) \in Held(u) /\ old(u, d).id = d.id
      BY <1>1, <1>3, <1>4
    <3>2. old(v, e) \in Held(v) /\ old(v, e).id = e.id
      BY <1>1, <1>3, <1>4
    <3> QED
      BY <3>1, <3>2 DEF Numbered, Tracked
  <2> QED
    BY <2>2, <2>3, <2>4 DEF Numbered, Tracked
<1>16. OneAlive'
  <2> SUFFICES ASSUME NEW x \in DOMAIN tx', NEW y \in DOMAIN tx', tx'[x].op # 0,
                      tx'[x].op = tx'[y].op, SideOf(x)' = SideOf(y)', ~Dead(x)', ~Dead(y)'
               PROVE  x = y
    BY DEF OneAlive
  <2> QED
    BY <1>6, <1>7, <1>11 DEF OneAlive, Tracked
<1>17. KindsOfOps'
  BY <1>1, <1>5, <1>6, <1>7 DEF KindsOfOps, Tracked
<1> QED
  BY <1>14, <1>15, <1>16, <1>17 DEF Tracked

\* A step of a page that only recalls its checkpoints.
Recalls(t, next) == Becomes(t, next) /\ {next.stored, next.run} \subseteq Held(t) \cup {NoCheckpoint}

LEMMA RecallsTracked ==
    ASSUME Tracked, PagesTidy, UNCHANGED <<tx, ops>>, NEW t \in Tabs, NEW next, Recalls(t, next)
    PROVE  Tracked'
<1>1. /\ Held(t)' = {next.stored, next.run}
      /\ \A u \in Tabs : u # t => Held(u)' = Held(u)
  BY DEF Held, Recalls, Becomes, PagesTidy, Page
<1> QED
  BY <1>1, RecallTracked DEF Recalls

LEMMA StopTracked ==
    ASSUME Tracked, PagesTidy, UNCHANGED <<tx, ops>>, NEW t \in Tabs,
           \/ Stop(t) \/ Complete(t)
           \/ \E step \in Steps : Go(t, step) \/ \E side \in Sides : GoFor(t, step, side)
    PROVE  Tracked'
<1>0. page[t] \in Page
  BY DEF PagesTidy
<1>1. CASE Stop(t)
  BY <1>0, <1>1, RecallsTracked DEF Stop, Recalls, Held, Page
<1>2. CASE Complete(t)
  BY <1>0, <1>2, RecallsTracked DEF Complete, Recalls, Held, Page
<1>3. ASSUME NEW step \in Steps, Go(t, step) PROVE Tracked'
  BY <1>0, <1>3, RecallsTracked DEF Go, Recalls, Held, Page
<1>4. ASSUME NEW step \in Steps, NEW side \in Sides, GoFor(t, step, side) PROVE Tracked'
  BY <1>0, <1>4, RecallsTracked DEF GoFor, Recalls, Held, Page
<1> QED
  BY <1>1, <1>2, <1>3, <1>4

LEMMA BalanceTracked ==
    ASSUME AccountsTypeOK, Tracked, PagesTidy, NEW t \in Tabs, Balance(t)
    PROVE  Tracked'
<1>0. page[t] \in Page /\ Tidy(page[t])
  BY DEF PagesTidy
<1>1. NoneOvertaken => ~Suffer("overtaken")
  BY DEF Suffer, AccountsTypeOK, Mishaps, NoneOvertaken
<1>2. CASE ShowBalance(t)
  BY <1>0, <1>2, RecallsTracked DEF ShowBalance, Recalls, Held, Page, Quietly, chain
<1>3. CASE StartBalanceOperation(t)
  <2>1. PICK kind \in {"deposit", "withdraw"} :
            Begin(t, [NoCheckpoint EXCEPT !.id = ops + 1, !.kind = kind, !.start = page[t].shown])
    BY <1>3 DEF StartBalanceOperation
  <2>2. PICK c :
            c = [NoCheckpoint EXCEPT !.id = ops + 1, !.kind = kind, !.start = page[t].shown]
    OBVIOUS
  <2>3. page[t].shown \in Nat /\ ops + 1 \in Nat
    BY <1>0, <1>3 DEF StartBalanceOperation, Page, Tracked, Numbered
  <2>4. c \in Checkpoint /\ c.id = ops + 1 /\ c.return = 0 /\ c.mutation = 0
    BY <2>2, <2>3 DEF NoCheckpoint, Checkpoint
  <2>5. ops' = ops + 1 /\ UNCHANGED tx
    BY <1>3 DEF StartBalanceOperation, chain
  <2> QED
    BY <2>1, <2>2, <2>4, <2>5, FreshTracked
<1>4. CASE ResumeBalanceOperation(t)
  BY <1>0, <1>4, RecallsTracked
     DEF ResumeBalanceOperation, Begin, Recalls, Held, Page, Quietly, chain
<1>5. CASE DiscardUnsentBalanceOperation(t)
  BY <1>0, <1>5, RecallsTracked
     DEF DiscardUnsentBalanceOperation, Recalls, Held, Page, Quietly, chain
<1>6. CASE Close(t)
  BY <1>0, <1>6, RecallsTracked DEF Close, Recalls, Held, Page, Quietly, chain
<1>7. CASE SignatureStatus(t)
  <2>1. UNCHANGED <<tx, ops>> /\ page[t].at = "status"
    BY <1>7 DEF SignatureStatus, Quietly, chain, At
  <2>2. CASE tx[Saved(t)].state = "failed"
    <3>1. Forget(t) /\ Dead(Saved(t))
      BY <1>7, <2>2 DEF SignatureStatus, Dead, NoneOvertaken
    <3> QED
      BY <2>1, <3>1, ForgetTracked
  <2>3. CASE tx[Saved(t)].state # "failed"
    BY <1>7, <2>1, <2>3, StopTracked DEF SignatureStatus, Steps
  <2> QED
    BY <2>2, <2>3
<1>8. CASE BlockHeight(t)
  <2>1. UNCHANGED <<tx, ops>> /\ page[t].at = "height"
    BY <1>8 DEF BlockHeight, chain, At
  <2>2. CASE Stop(t)
    BY <2>1, <2>2, StopTracked
  <2>3. CASE Forget(t) /\ ~Stop(t)
    <3>1. Dead(Saved(t))
      BY <1>1, <1>8, <2>3 DEF BlockHeight, Dead, NoneOvertaken
    <3> QED
      BY <2>1, <2>3, <3>1, ForgetTracked
  <2> QED
    BY <1>8, <2>2, <2>3 DEF BlockHeight
<1>9. CASE ReadPublicDeposit(t) \/ WaitForPublicReturn(t)
  <2>1. UNCHANGED <<tx, ops>>
    BY <1>9 DEF ReadPublicDeposit, WaitForPublicReturn, Quietly, chain
  <2> QED
    BY <1>9, <2>1, StopTracked
       DEF ReadPublicDeposit, WaitForPublicReturn, MutateOrStop, Steps, Sides, AccountsTypeOK
<1>10. CASE ReadPrivateDeposit(t)
  BY <1>10, StopTracked DEF ReadPrivateDeposit, Steps, Sides, Quietly, chain
<1>11. CASE SaveAndSend(t)
  <2>1. CASE Accepted(Kind(t), account)
    BY <1>11, <2>1, SendTracked DEF SaveAndSend
  <2>2. CASE ~Accepted(Kind(t), account)
    BY <1>11, <2>2, StopTracked DEF SaveAndSend
  <2> QED
    BY <2>1, <2>2
<1>12. CASE AssertTopUpFunds(t) \/ SimulateBalance(t)
  BY <1>12, StopTracked DEF AssertTopUpFunds, SimulateBalance, Steps, Quietly, chain
<1>13. CASE PollConfirmation(t)
  BY <1>13, StopTracked DEF PollConfirmation, Steps, Quietly, chain
<1>14. CASE WaitForDelegation(t) \/ WaitForExpectedPrivate(t)
  BY <1>14, StopTracked DEF WaitForDelegation, WaitForExpectedPrivate, Steps, Quietly, chain
<1>15. CASE BalanceAwaitFails(t)
  BY <1>15, StopTracked DEF BalanceAwaitFails, chain
<1> QED
  BY <1>2, <1>3, <1>4, <1>5, <1>6, <1>7, <1>8, <1>9, <1>10, <1>11, <1>12, <1>13, <1>14, <1>15
     DEF Balance, RunBalanceOperation

LEMMA TabDiesTracked ==
    ASSUME AccountsTypeOK, Tracked, PagesTidy, NEW t \in Tabs, TabDies(t)
    PROVE  AccountsTypeOK' /\ TxKept /\ account' = account /\ ops' = ops /\ PagesTidy' /\ Tracked'
<1>0. page[t] \in Page /\ Tidy(page[t])
  BY DEF PagesTidy
<1>1. PICK stored \in {page[t].stored, NoCheckpoint} : Becomes(t, [NoPage EXCEPT !.stored = stored])
  BY DEF TabDies, Becomes
<1>2. PICK next : next = [NoPage EXCEPT !.stored = stored]
  OBVIOUS
<1>3. next.stored = stored /\ next.run = NoCheckpoint
  BY <1>2 DEF NoPage
<1>4. next \in Page
  BY <1>0, <1>2, NoCheckpointType DEF Page, NoPage, Steps, Sides
<1>5. Tidy(next)
  BY <1>0, <1>2, <1>4 DEF Tidy, Page, NoPage
<1>6. PagesTidy'
  BY <1>1, <1>2, <1>4, <1>5, BecomesTidy
<1>7. Tracked'
  BY <1>1, <1>2, <1>3, RecallsTracked DEF Recalls, Held, TabDies, chain
<1>8. mishaps' \in [Mishaps -> Nat]
  BY SufferType DEF TabDies, AccountsTypeOK, Mishaps
<1> QED
  BY <1>6, <1>7, <1>8 DEF TabDies, chain, AccountsTypeOK, TxKept, Same

\* A step of a balance operation leaves the accounts to its transactions.
LEMMA BalanceAccounts ==
    ASSUME AccountsTypeOK, PagesTidy, ops \in Nat, NEW t \in Tabs, Balance(t)
    PROVE  AccountsTypeOK' /\ TxKept /\ account' = account /\ ops' \in Nat
<1>0. page[t] \in Page /\ Tidy(page[t])
  BY DEF PagesTidy
<1>1. CASE SaveAndSend(t) /\ Accepted(Kind(t), account)
  <2>1. Kind(t) \in Kinds /\ page[t].run.id \in Nat
    BY <1>0 DEF Kind, KindOf, Kinds, Page, Checkpoint
  <2>2. TxKept
    BY <1>1, <2>1, SendKeeps DEF SaveAndSend, AccountsTypeOK
  <2> QED
    BY <1>1, <2>2 DEF SaveAndSend, AccountsTypeOK, TxKept
<1>2. ASSUME UNCHANGED <<chain, mishaps>>, ops' = ops \/ ops' = ops + 1
      PROVE  AccountsTypeOK' /\ TxKept /\ account' = account /\ ops' \in Nat
  BY <1>2 DEF AccountsTypeOK, TxKept, Same, chain
<1>3. ASSUME NEW m \in Mishaps, UNCHANGED <<chain, ops>>, Suffer(m)
      PROVE  AccountsTypeOK' /\ TxKept /\ account' = account /\ ops' \in Nat
  BY <1>3, SufferType DEF AccountsTypeOK, TxKept, Same, chain
<1>4. CASE BalanceAwaitFails(t)
  BY <1>3, <1>4 DEF BalanceAwaitFails, Mishaps
<1>5. CASE BlockHeight(t)
  BY <1>2, <1>3, <1>5 DEF BlockHeight, Mishaps
<1>6. CASE SaveAndSend(t) /\ ~Accepted(Kind(t), account)
  BY <1>2, <1>6 DEF SaveAndSend, chain
<1>7. CASE ~BalanceAwaitFails(t) /\ ~BlockHeight(t) /\ ~SaveAndSend(t)
  <2>1. UNCHANGED <<chain, mishaps>> /\ (ops' = ops \/ ops' = ops + 1)
    BY <1>7 DEF Balance, RunBalanceOperation, ShowBalance, StartBalanceOperation,
        ResumeBalanceOperation, DiscardUnsentBalanceOperation, Close, AssertTopUpFunds,
        SignatureStatus, ReadPublicDeposit, ReadPrivateDeposit, SimulateBalance,
        PollConfirmation, WaitForPublicReturn, WaitForDelegation, WaitForExpectedPrivate, Quietly
  <2> QED
    BY <1>2, <2>1
<1> QED
  BY <1>1, <1>4, <1>5, <1>6, <1>7

-----------------------------------------------------------------------------
(* The permission comes before anything that could need it *)

\* Without a delegated permission nothing was ever seen on the rollup, and so no
\* operation was started from it.
SeenIsPermissioned ==
    account.permission # "er" =>
        /\ \A t \in Tabs : page[t].shown = Unread /\ \A c \in Held(t) : c.id = 0
        /\ \A x \in DOMAIN tx : tx[x].op = 0

Permissioned == PermissionedWhileDelegated /\ SeenIsPermissioned

LEMMA CalmPermissioned ==
    ASSUME Permissioned, TxCalm, UNCHANGED page, PermissionedWhileDelegated',
           account.permission = "er" => account'.permission = "er"
    PROVE  Permissioned'
<1>1. \A t \in Tabs : Held(t)' = Held(t)
  BY DEF Held
<1>2. \A x \in DOMAIN tx' : tx'[x].op = 0 \/ (x \in DOMAIN tx /\ tx'[x].op = tx[x].op)
  BY DEF TxCalm, TxKept, Same
<1> QED
  BY <1>1, <1>2 DEF Permissioned, SeenIsPermissioned

LEMMA NetworkPermissioned ==
    ASSUME AccountsTypeOK, KindsOfOps, Permissioned, Network, UNCHANGED page
    PROVE  Permissioned'
<1> USE DEF PermissionedWhileDelegated, AccountsTypeOK
<1>1. ASSUME NEW x \in DOMAIN tx, Lands(x)
      PROVE  PermissionedWhileDelegated' /\ (account.permission = "er" => account'.permission = "er")
  <2> tx[x] \in Transaction
    OBVIOUS
  <2>0. tx[x] \in Transaction /\ tx[x].kind \in Kinds
    BY DEF Transaction
  <2>1. CASE UNCHANGED account
    BY <2>1 DEF Permissioned
  <2>2. CASE Accepted(tx[x].kind, account) /\ account' = Effect(tx[x].kind, account)
    <3>1. CASE tx[x].kind \in {"prepare", "delegate", "onboard"}
      BY <2>2, <3>1 DEF Effect, Account, Accepted
    <3>2. CASE tx[x].kind = "return"
      BY <2>2, <3>2 DEF Effect, Account, Accepted, Permissioned
    <3>3. CASE tx[x].kind \in {"deposit", "withdraw"}
      <4>1. account.permission = "er"
        BY <3>3 DEF Permissioned, SeenIsPermissioned, KindsOfOps
      <4> QED
        BY <2>2, <3>3, <4>1 DEF Effect, Account
    <3> QED
      BY <2>0, <3>1, <3>2, <3>3 DEF Kinds
  <2> QED
    BY <1>1, <2>1, <2>2 DEF Lands
<1>2. PermissionedWhileDelegated' /\ (account.permission = "er" => account'.permission = "er")
  <2>1. CASE \E x \in DOMAIN tx : Lands(x)
    BY <1>1, <2>1
  <2>2. CASE \E x \in DOMAIN tx : PassesLastValid(x)
    BY <2>2 DEF PassesLastValid, Permissioned
  <2>3. CASE ReturnCommits \/ Finalizes
    BY <2>3 DEF ReturnCommits, Finalizes, Permissioned, Account
  <2>4. CASE SomebodyPays
    BY <2>4 DEF SomebodyPays, Permissioned, Account
  <2>5. CASE PaymentMovesBalance
    BY <2>5 DEF PaymentMovesBalance, Permissioned, Account
  <2> QED
    BY <2>1, <2>2, <2>3, <2>4, <2>5 DEF Network
<1> QED
  BY <1>2, NetworkCalm, CalmPermissioned

LEMMA SetupPermissioned ==
    ASSUME AccountsTypeOK, SetupTypeOK, Permissioned, NEW t \in Tabs, SetUp(t), UNCHANGED page
    PROVE  Permissioned'
<1>1. account' = account
  BY SetupType
<1> QED
  BY <1>1, SetupCalm, CalmPermissioned DEF Permissioned, PermissionedWhileDelegated

\* Where no permission is delegated, no tab has a balance operation to run.
LEMMA BalancePermissioned ==
    ASSUME AccountsTypeOK, PagesTidy, ops \in Nat, Permissioned, NEW t \in Tabs, Balance(t)
    PROVE  Permissioned'
<1>1. account' = account
  BY BalanceAccounts
<1>2. account.permission = "er"
  <2> SUFFICES ASSUME account.permission # "er" PROVE FALSE
    OBVIOUS
  <2>1. page[t].shown = Unread /\ page[t].stored = NoCheckpoint /\ page[t].at = "idle"
    BY DEF Permissioned, SeenIsPermissioned, Held, PagesTidy, Tidy
  <2>2. account.deposit # "er"
    BY DEF Permissioned, PermissionedWhileDelegated
  <2> QED
    BY <2>1, <2>2 DEF Balance, RunBalanceOperation, ShowBalance, StartBalanceOperation,
        ResumeBalanceOperation, DiscardUnsentBalanceOperation, Close, AssertTopUpFunds,
        SignatureStatus, BlockHeight, ReadPublicDeposit, ReadPrivateDeposit, SimulateBalance,
        SaveAndSend, PollConfirmation, WaitForPublicReturn, WaitForDelegation,
        WaitForExpectedPrivate, BalanceAwaitFails, At
<1> QED
  BY <1>1, <1>2 DEF Permissioned, PermissionedWhileDelegated, SeenIsPermissioned

LEMMA TabDiesPermissioned ==
    ASSUME PagesTidy, Permissioned, NEW t \in Tabs, TabDies(t)
    PROVE  Permissioned'
<1>1. account' = account /\ tx' = tx
  BY DEF TabDies, chain
<1>2. PICK stored \in {page[t].stored, NoCheckpoint} :
          page' = [page EXCEPT ![t] = [NoPage EXCEPT !.stored = stored]]
  BY DEF TabDies
<1>3. \A u \in Tabs : page[u].shown = Unread => page'[u].shown = Unread
  BY <1>2 DEF NoPage, PagesTidy
<1>4. /\ Held(t)' \subseteq Held(t) \cup {NoCheckpoint}
      /\ \A u \in Tabs : u # t => Held(u)' = Held(u)
  BY <1>2 DEF Held, NoPage, PagesTidy
<1>5. NoCheckpoint.id = 0
  BY DEF NoCheckpoint
<1> QED
  BY <1>1, <1>3, <1>4, <1>5 DEF Permissioned, PermissionedWhileDelegated, SeenIsPermissioned

-----------------------------------------------------------------------------
(* The wallet pays for its first funding once *)

\* A first funding that landed found no Deposit, and left one.
Funds ==
    /\ FundedOnce
    /\ \A x \in DOMAIN tx :
          tx[x].kind = "prepare" /\ tx[x].state = "landed" => account.deposit # "absent"

\* No transaction lands in this step.
NothingLands ==
    \A x \in DOMAIN tx' : tx'[x].state = "landed" =>
        x \in DOMAIN tx /\ tx[x].state = "landed" /\ tx'[x].kind = tx[x].kind

LEMMA SendsOrNot ==
    ASSUME tx \in Seq(Transaction),
           UNCHANGED tx \/ \E kind \in Kinds, op \in Nat : Send(kind, op)
    PROVE  NothingLands
<1>1. CASE UNCHANGED tx
  BY <1>1 DEF NothingLands
<1>2. ASSUME NEW kind \in Kinds, NEW op \in Nat, Send(kind, op) PROVE NothingLands
  <2>1. /\ TxKept /\ Len(tx') = Len(tx) + 1
        /\ \A x \in DOMAIN tx : tx'[x] = tx[x]
        /\ tx'[Len(tx) + 1] = [kind |-> kind, op |-> op, late |-> FALSE, state |-> "sent"]
    BY <1>2, SendKeeps
  <2>2. DOMAIN tx' = 1..Len(tx') /\ DOMAIN tx = 1..Len(tx) /\ Len(tx) \in Nat
    BY <2>1 DEF TxKept
  <2>3. DOMAIN tx' = DOMAIN tx \cup {Len(tx) + 1}
    BY <2>1, <2>2
  <2> QED
    BY <2>1, <2>3 DEF NothingLands
<1> QED
  BY <1>1, <1>2

LEMMA NothingFunds ==
    ASSUME Funds, NothingLands, account.deposit # "absent" => account'.deposit # "absent"
    PROVE  Funds'
BY DEF Funds, FundedOnce, NothingLands

LEMMA NetworkFunds ==
    ASSUME AccountsTypeOK, Funds, Network
    PROVE  Funds'
<1> USE DEF AccountsTypeOK
<1>1. ASSUME NEW x \in DOMAIN tx, Lands(x) PROVE Funds'
  <2> tx[x] \in Transaction
    OBVIOUS
  <2>0. tx[x] \in Transaction /\ tx[x].kind \in Kinds
    BY DEF Transaction
  <2>1. DOMAIN tx' = DOMAIN tx /\ (\A y \in DOMAIN tx : tx'[y].kind = tx[y].kind)
        /\ \A y \in DOMAIN tx : y # x => tx'[y] = tx[y]
    <3>1. PICK state \in {"landed", "failed"} : tx' = [tx EXCEPT ![x].state = state]
      BY <1>1 DEF Lands
    <3>2. [tx[x] EXCEPT !.state = state].kind = tx[x].kind
      BY <2>0 DEF Transaction
    <3> QED
      BY <3>1, <3>2
  <2>2. CASE ~Accepted(tx[x].kind, account)
    <3>1. tx'[x].state = "failed"
      BY <1>1, <2>0, <2>2 DEF Lands, Transaction
    <3>2. NothingLands
      BY <2>1, <3>1 DEF NothingLands
    <3> QED
      BY <1>1, <2>2, <3>2, NothingFunds DEF Lands
  <2>3. CASE Accepted(tx[x].kind, account) /\ tx[x].kind # "prepare"
    <3>1. account.deposit # "absent" => account'.deposit # "absent"
      BY <1>1, <2>0, <2>3 DEF Lands, Effect, Account, Kinds
    <3> QED
      BY <2>1, <2>3, <3>1 DEF Funds, FundedOnce
  <2>4. CASE Accepted(tx[x].kind, account) /\ tx[x].kind = "prepare"
    <3>1. account.deposit = "absent" /\ account'.deposit = "base"
      BY <1>1, <2>4 DEF Lands, Accepted, Effect, Account
    <3>2. \A y \in DOMAIN tx : tx'[y].kind = "prepare" /\ tx'[y].state = "landed" => y = x
      BY <2>1, <3>1 DEF Funds
    <3> QED
      BY <2>1, <3>1, <3>2 DEF Funds, FundedOnce
  <2> QED
    BY <2>2, <2>3, <2>4
<1>2. ASSUME NEW x \in DOMAIN tx, PassesLastValid(x) PROVE Funds'
  <2>0. tx[x] \in Transaction
    OBVIOUS
  <2>1. NothingLands
    BY <1>2, <2>0 DEF PassesLastValid, NothingLands, Transaction
  <2> QED
    BY <1>2, <2>1, NothingFunds DEF PassesLastValid
<1>3. CASE ReturnCommits \/ Finalizes \/ SomebodyPays \/ PaymentMovesBalance
  <2>1. NothingLands
    BY <1>3 DEF NothingLands, ReturnCommits, Finalizes, SomebodyPays, PaymentMovesBalance
  <2>2. account.deposit # "absent" => account'.deposit # "absent"
    BY <1>3 DEF ReturnCommits, Finalizes, SomebodyPays, PaymentMovesBalance, Account
  <2> QED
    BY <2>1, <2>2, NothingFunds
<1> QED
  BY <1>1, <1>2, <1>3 DEF Network

\* What the client does to the transactions is to send one.
LEMMA ClientSends ==
    ASSUME SetupTypeOK, PagesTidy, NEW t \in Tabs, SetUp(t) \/ Balance(t) \/ TabDies(t)
    PROVE  UNCHANGED tx \/ \E kind \in Kinds, op \in Nat : Send(kind, op)
<1>1. CASE SetUp(t)
  <2>1. setup[t].kind \in Kinds
    BY DEF SetupTypeOK, Kinds
  <2> QED
    BY <1>1, <2>1
       DEF SetUp, SetupRuns, ConfirmFunding, AcknowledgeAsRecipient, InspectFunding,
           DiscoverFundingSource, VerifyFundingPlan, WaitForPreparedFunding,
           OnboardRecipientDeposit, SimulateSetup, SendSetup, PollSetup, SetupFails, chain
<1>2. CASE Balance(t)
  <2>1. Kind(t) \in Kinds /\ page[t].run.id \in Nat
    BY DEF Kind, KindOf, Kinds, PagesTidy, Page, Checkpoint
  <2> QED
    BY <1>2, <2>1
       DEF Balance, RunBalanceOperation, ShowBalance, StartBalanceOperation,
           ResumeBalanceOperation, DiscardUnsentBalanceOperation, Close, AssertTopUpFunds,
           SignatureStatus, BlockHeight, ReadPublicDeposit, ReadPrivateDeposit,
           SimulateBalance, SaveAndSend, PollConfirmation, WaitForPublicReturn,
           WaitForDelegation, WaitForExpectedPrivate, BalanceAwaitFails, Quietly, chain
<1>3. CASE TabDies(t)
  BY <1>3 DEF TabDies, chain
<1> QED
  BY <1>1, <1>2, <1>3

LEMMA ClientFunds ==
    ASSUME AccountsTypeOK, SetupTypeOK, PagesTidy, ops \in Nat, Funds, NEW t \in Tabs,
           SetUp(t) \/ Balance(t) \/ TabDies(t)
    PROVE  Funds'
<1>1. account' = account
  BY SetupType, BalanceAccounts DEF TabDies, chain
<1>2. UNCHANGED tx \/ \E kind \in Kinds, op \in Nat : Send(kind, op)
  BY ClientSends
<1> QED
  BY <1>1, <1>2, SendsOrNot, NothingFunds DEF AccountsTypeOK

-----------------------------------------------------------------------------
(* The first operation: until it has moved anything, the balance it started *)
(* from is the balance                                                       *)

Mutations == {"deposit", "withdraw"}

NothingMoved == \A x \in DOMAIN tx : tx[x].kind \in Mutations => tx[x].state # "landed"

\* Only the first operation has been started, and the balance is as it was.
Quiet == ops <= 1 /\ moves = 0 /\ NothingMoved

\* What a page shows and what its operation started from is the balance, so the
\* operation cannot be complete.
Remembers(p) ==
    /\ p.shown # Unread => account.deposit # "absent" /\ p.shown = account.available
    /\ \A c \in {p.stored, p.run} :
          c.id # 0 => account.deposit # "absent" /\ c.start = account.available
    /\ p.at # "closing"

Unmoved == Quiet => \A t \in Tabs : Remembers(page[t])

\* The first operation has one kind.
OneKind ==
    ops <= 1 => \A t \in Tabs : \A c \in Held(t) : c.id # 0 =>
        /\ \A x \in DOMAIN tx : tx[x].kind \in Mutations => tx[x].kind = c.kind
        /\ \A u \in Tabs : \A d \in Held(u) : d.id # 0 => d.kind = c.kind

First == Unmoved /\ OneKind

LEMMA FirstCompletes ==
    ASSUME AccountsTypeOK, PagesTidy, Tracked, First
    PROVE  CompletionMoved
<1> SUFFICES ASSUME NEW t \in Tabs, At(t, "closing"), ops = 1, moves = 0
             PROVE  \E x \in DOMAIN tx : /\ tx[x].kind = page[t].run.kind /\ tx[x].op = 1
                                         /\ tx[x].state = "landed"
  BY DEF CompletionMoved
<1>1. page[t].run.id # 0 /\ page[t].run \in Held(t)
  BY DEF PagesTidy, Tidy, At, Held
<1>2. PICK x \in DOMAIN tx : tx[x].kind \in Mutations /\ tx[x].state = "landed"
  BY DEF First, Unmoved, Quiet, Remembers, NothingMoved, At
<1>3. tx[x].kind = page[t].run.kind
  BY <1>1, <1>2 DEF First, OneKind
<1>4. tx[x].op # 0 /\ tx[x].op <= 1
  BY <1>2 DEF Tracked, KindsOfOps, Numbered, Mutations
<1>5. tx[x] \in Transaction
  BY DEF AccountsTypeOK
<1>6. tx[x].op = 1
  BY <1>4, <1>5 DEF Transaction
<1> QED
  BY <1>2, <1>3, <1>6

\* Transactions are kept, what landed has landed, and nothing can land again.
StaysOver(x) == /\ tx[x].state = "landed" => tx'[x].state = "landed"
                /\ ~CanLand(x) => ~CanLand(x)'
TxStill == TxKept /\ \A x \in DOMAIN tx : StaysOver(x)

\* What is quiet now was quiet before.
LEMMA QuietBefore ==
    ASSUME TxStill, ops \in Nat, ops' \in Nat, ops <= ops', moves' = 0 => moves = 0, Quiet'
    PROVE  Quiet
BY DEF Quiet, NothingMoved, TxStill, StaysOver, TxKept, Same

LEMMA NetworkStill ==
    ASSUME AccountsTypeOK, Network
    PROVE  TxStill /\ (moves' = 0 => moves = 0)
<1>1. TxKept
  BY NetworkType
<1>2. ASSUME NEW x \in DOMAIN tx, Lands(x) \/ PassesLastValid(x)
      PROVE  \A y \in DOMAIN tx : StaysOver(y)
  <2>1. tx[x] \in Transaction
    BY DEF AccountsTypeOK
  <2>2. CASE Lands(x)
    BY <2>1, <2>2 DEF Lands, AccountsTypeOK, Transaction, StaysOver, CanLand
  <2>3. CASE PassesLastValid(x)
    BY <2>1, <2>3 DEF PassesLastValid, AccountsTypeOK, Transaction, StaysOver, CanLand
  <2> QED
    BY <1>2, <2>2, <2>3
<1>3. CASE ReturnCommits \/ Finalizes \/ SomebodyPays \/ PaymentMovesBalance
  <2>1. UNCHANGED tx /\ (moves' = moves \/ moves' = moves + 1) /\ moves \in Nat
    BY <1>3 DEF ReturnCommits, Finalizes, SomebodyPays, PaymentMovesBalance, AccountsTypeOK
  <2> QED
    BY <1>1, <2>1 DEF TxStill, StaysOver, CanLand
<1>4. CASE \E x \in DOMAIN tx : Lands(x) \/ PassesLastValid(x)
  BY <1>1, <1>2, <1>4 DEF TxStill, Lands, PassesLastValid
<1> QED
  BY <1>3, <1>4 DEF Network

\* While all is quiet, a Deposit that exists keeps its balance.
LEMMA NetworkKeepsBalance ==
    ASSUME AccountsTypeOK, Network, Quiet', account.deposit # "absent"
    PROVE  account'.deposit # "absent" /\ account'.available = account.available
<1>0. account \in Account
  BY DEF AccountsTypeOK
<1>1. ASSUME NEW x \in DOMAIN tx, Lands(x)
      PROVE  account'.deposit # "absent" /\ account'.available = account.available
  <2>0. tx[x] \in Transaction
    BY DEF AccountsTypeOK
  <2>1. tx[x].kind \in Kinds
    BY <2>0 DEF Transaction
  <2>2. CASE ~Accepted(tx[x].kind, account)
    BY <1>1, <2>2 DEF Lands
  <2>3. CASE Accepted(tx[x].kind, account)
    <3>1. x \in DOMAIN tx' /\ tx'[x].kind = tx[x].kind /\ tx'[x].state = "landed"
      BY <1>1, <2>0, <2>3 DEF Lands, Transaction
    <3>2. tx[x].kind \notin Mutations
      BY <3>1 DEF Quiet, NothingMoved
    <3>3. tx[x].kind \in {"delegate", "onboard", "return"}
      BY <2>1, <2>3, <3>2 DEF Kinds, Mutations, Accepted
    <3>4. account' = Effect(tx[x].kind, account)
      BY <1>1, <2>3 DEF Lands
    <3>5. CASE tx[x].kind = "return"
      BY <1>0, <3>4, <3>5 DEF Effect, Account
    <3>6. CASE tx[x].kind \in {"delegate", "onboard"}
      BY <1>0, <3>4, <3>6 DEF Effect, Account
    <3> QED
      BY <3>3, <3>5, <3>6
  <2> QED
    BY <2>2, <2>3
<1>2. CASE ReturnCommits
  BY <1>0, <1>2 DEF ReturnCommits, Account
<1>3. CASE Finalizes \/ SomebodyPays \/ \E x \in DOMAIN tx : PassesLastValid(x)
  BY <1>3 DEF Finalizes, SomebodyPays, PassesLastValid
<1>4. ~PaymentMovesBalance
  BY DEF PaymentMovesBalance, Quiet, AccountsTypeOK
<1> QED
  BY <1>1, <1>2, <1>3, <1>4 DEF Network

LEMMA ClientStill ==
    ASSUME AccountsTypeOK, SetupTypeOK, PagesTidy, ops \in Nat, NEW t \in Tabs,
           SetUp(t) \/ Balance(t) \/ TabDies(t)
    PROVE  TxStill /\ account' = account /\ moves' = moves
<1>1. account' = account
  BY SetupType, BalanceAccounts DEF TabDies, chain
<1>2. TxStill
  <2>1. CASE UNCHANGED tx
    BY <2>1 DEF TxStill, StaysOver, CanLand, TxKept, Same, AccountsTypeOK
  <2>2. ASSUME NEW kind \in Kinds, NEW op \in Nat, Send(kind, op) PROVE TxStill
    BY <2>2, SendKeeps DEF TxStill, StaysOver, CanLand, AccountsTypeOK
  <2> QED
    BY <2>1, <2>2, ClientSends
<1>3. moves' = moves
  BY DEF SetUp, SetupRuns, ConfirmFunding, AcknowledgeAsRecipient, InspectFunding,
         DiscoverFundingSource, VerifyFundingPlan, WaitForPreparedFunding,
         OnboardRecipientDeposit, SimulateSetup, SendSetup, PollSetup, SetupFails,
         Balance, RunBalanceOperation, ShowBalance, StartBalanceOperation,
         ResumeBalanceOperation, DiscardUnsentBalanceOperation, Close, AssertTopUpFunds,
         SignatureStatus, BlockHeight, ReadPublicDeposit, ReadPrivateDeposit,
         SimulateBalance, SaveAndSend, PollConfirmation, WaitForPublicReturn,
         WaitForDelegation, WaitForExpectedPrivate, BalanceAwaitFails, TabDies, Quietly, chain
<1> QED
  BY <1>1, <1>2, <1>3

\* The network and a setup touch no page.
LEMMA CalmFirst ==
    ASSUME First, TxCalm, UNCHANGED <<page, ops>>, Quiet' => Quiet,
           Quiet' /\ account.deposit # "absent" =>
              account'.deposit # "absent" /\ account'.available = account.available
    PROVE  First'
<1>1. Unmoved'
  <2> SUFFICES ASSUME Quiet', NEW t \in Tabs PROVE Remembers(page[t])'
    BY DEF Unmoved
  <2>1. Remembers(page[t])
    BY DEF First, Unmoved
  <2> QED
    BY <2>1 DEF Remembers
<1>2. OneKind'
  <2>1. \A x \in DOMAIN tx' : tx'[x].kind \in Mutations =>
           x \in DOMAIN tx /\ tx'[x].kind = tx[x].kind
    BY DEF TxCalm, TxKept, Same, Mutations
  <2> QED
    BY <2>1 DEF First, OneKind, Held
<1> QED
  BY <1>1, <1>2 DEF First

\* A step of a page that starts no operation: it shows what it showed or reads
\* the balance, keeps what its operation started from, and is complete only where
\* the balance is the one expected.
Follows(t, next) ==
    /\ Becomes(t, next)
    /\ \/ next.shown \in {page[t].shown, Unread}
       \/ account.deposit = "er" /\ next.shown = account.available
    /\ \A c \in {next.stored, next.run} : c.id # 0 =>
          \E d \in Held(t) : d.id # 0 /\ d.start = c.start /\ d.kind = c.kind
    /\ next.at = "closing" /\ page[t].at # "closing" =>
          /\ account.deposit = "er" /\ page[t].run.id # 0
          /\ account.available = Expected(page[t].run)

LEMMA FollowsUnmoved ==
    ASSUME AccountsTypeOK, PagesTidy, Unmoved, Quiet' => Quiet, account' = account,
           NEW t \in Tabs, NEW next, Follows(t, next)
    PROVE  Unmoved'
<1> SUFFICES ASSUME Quiet', NEW u \in Tabs PROVE Remembers(page[u])'
  BY DEF Unmoved
<1>1. Remembers(page[t]) /\ Remembers(page[u])
  BY DEF Unmoved
<1>2. page' = [page EXCEPT ![t] = next] /\ page \in [Tabs -> Page]
  BY DEF Follows, Becomes, PagesTidy
<1>3. CASE u # t
  BY <1>1, <1>2, <1>3 DEF Remembers
<1>4. CASE u = t
  <2>1. next.shown # Unread => account.deposit # "absent" /\ next.shown = account.available
    BY <1>1 DEF Follows, Remembers
  <2>2. ASSUME NEW c \in {next.stored, next.run}, c.id # 0
        PROVE  account.deposit # "absent" /\ c.start = account.available
    BY <1>1, <2>2 DEF Follows, Remembers, Held
  <2>3. next.at # "closing"
    <3>1. SUFFICES ASSUME next.at = "closing" PROVE FALSE
      OBVIOUS
    <3>2. page[t].run.id # 0 /\ account.available = Expected(page[t].run)
      BY <1>1, <3>1 DEF Follows, Remembers
    <3>3. page[t].run.start = account.available
      BY <1>1, <3>2 DEF Remembers
    <3>4. account.available \in Nat
      BY DEF AccountsTypeOK, Account
    <3> QED
      BY <3>2, <3>3, <3>4 DEF Expected
  <2> QED
    BY <1>2, <1>4, <2>1, <2>2, <2>3 DEF Remembers
<1> QED
  BY <1>3, <1>4

LEMMA FollowsOneKind ==
    ASSUME PagesTidy, OneKind, ops' = ops, NEW t \in Tabs, NEW next, Follows(t, next),
           \A x \in DOMAIN tx' : tx'[x].kind \in Mutations =>
              \/ x \in DOMAIN tx /\ tx'[x].kind = tx[x].kind
              \/ \E d \in Held(t) : d.id # 0 /\ d.kind = tx'[x].kind
    PROVE  OneKind'
<1> SUFFICES ASSUME ops <= 1, NEW u \in Tabs, NEW c \in Held(u)', c.id # 0
             PROVE  /\ \A x \in DOMAIN tx' : tx'[x].kind \in Mutations => tx'[x].kind = c.kind
                    /\ \A v \in Tabs : \A d \in Held(v)' : d.id # 0 => d.kind = c.kind
  BY DEF OneKind
<1>1. ASSUME NEW v \in Tabs, NEW d \in Held(v)', d.id # 0
      PROVE  \E w \in Tabs : \E e \in Held(w) : e.id # 0 /\ e.kind = d.kind
  <2>1. page' = [page EXCEPT ![t] = next] /\ page \in [Tabs -> Page]
    BY DEF Follows, Becomes, PagesTidy
  <2>2. CASE v = t
    <3>1. d \in {next.stored, next.run}
      BY <1>1, <2>1, <2>2 DEF Held
    <3> QED
      BY <1>1, <3>1 DEF Follows
  <2>3. CASE v # t
    <3>1. d \in Held(v)
      BY <1>1, <2>1, <2>3 DEF Held
    <3> QED
      BY <1>1, <3>1
  <2> QED
    BY <2>2, <2>3
<1>2. PICK w \in Tabs : \E e \in Held(w) : e.id # 0 /\ e.kind = c.kind
  BY <1>1
<1>3. \A v \in Tabs : \A d \in Held(v) : d.id # 0 => d.kind = c.kind
  BY <1>2 DEF OneKind
<1>4. \A x \in DOMAIN tx : tx[x].kind \in Mutations => tx[x].kind = c.kind
  BY <1>2 DEF OneKind
<1> QED
  BY <1>1, <1>3, <1>4

\* The steps from one await to the next keep both checkpoints, or drop them.
LEMMA KeepsFollows ==
    ASSUME PagesTidy, NEW t \in Tabs,
           \/ Stop(t)
           \/ \E step \in Steps \ {"closing"} : Go(t, step)
           \/ \E step \in Steps \ {"closing"}, side \in Sides : GoFor(t, step, side)
    PROVE  \E next : Follows(t, next)
<1>0. page[t] \in Page
  BY DEF PagesTidy
<1>1. NoCheckpoint.id = 0
  BY DEF NoCheckpoint
<1>2. CASE Stop(t)
  <2> DEFINE next == [page[t] EXCEPT !.at = "idle", !.run = NoCheckpoint]
  <2>1. Follows(t, next)
    BY <1>0, <1>1, <1>2 DEF Stop, Follows, Page, Held
  <2> QED
    BY <2>1
<1>3. ASSUME NEW step \in Steps \ {"closing"}, Go(t, step) PROVE \E next : Follows(t, next)
  <2> DEFINE next == [page[t] EXCEPT !.at = step]
  <2>1. Follows(t, next)
    BY <1>0, <1>3 DEF Go, Follows, Page, Held
  <2> QED
    BY <2>1
<1>4. ASSUME NEW step \in Steps \ {"closing"}, NEW side \in Sides, GoFor(t, step, side)
      PROVE  \E next : Follows(t, next)
  <2> DEFINE next == [page[t] EXCEPT !.at = step, !.side = side]
  <2>1. Follows(t, next)
    BY <1>0, <1>4 DEF GoFor, Follows, Page, Held
  <2> QED
    BY <2>1
<1> QED
  BY <1>2, <1>3, <1>4

LEMMA CompleteFollows ==
    ASSUME PagesTidy, NEW t \in Tabs, page[t].at # "idle", Complete(t), account.deposit = "er",
           account.available = Expected(page[t].run)
    PROVE  \E next : Follows(t, next)
<1> DEFINE next == [page[t] EXCEPT !.at = "closing", !.stored = NoCheckpoint]
<1>1. page[t] \in Page /\ page[t].run.id # 0 /\ NoCheckpoint.id = 0
  BY DEF PagesTidy, Tidy, NoCheckpoint
<1>2. Follows(t, next)
  BY <1>1 DEF Complete, Follows, Page, Held
<1> QED
  BY <1>2

\* Saving or forgetting a signature changes nothing else of a checkpoint.
LEMMA SavesFollows ==
    ASSUME PagesTidy, NEW t \in Tabs,
           \/ Forget(t)
           \/ \E n \in Nat : Update(t, page[t].side, n, "poll")
    PROVE  \E next : Follows(t, next)
<1> DEFINE Saves(n) == [page[t].run EXCEPT ![page[t].side] = n]
           forgets == [page[t] EXCEPT !.run = Saves(0), !.stored = Saves(0), !.side = "return",
                          !.at = IF page[t].side = "mutation" /\ Saves(0).return # 0
                                 THEN "status" ELSE "public"]
           Updates(n) == [page[t] EXCEPT !.run = Saves(n), !.stored = Saves(n), !.at = "poll",
                                         !.side = page[t].side]
<1>0. page[t] \in Page /\ page[t].run \in Checkpoint /\ page[t].side \in Sides
  BY DEF PagesTidy, Page
<1>1. ASSUME NEW n \in Nat
      PROVE  /\ Saves(n).id = page[t].run.id
             /\ Saves(n).start = page[t].run.start
             /\ Saves(n).kind = page[t].run.kind
  <2>1. page[t].side = "return" \/ page[t].side = "mutation"
    BY <1>0 DEF Sides
  <2> QED
    BY <1>0, <2>1 DEF Checkpoint
<1>2. CASE Forget(t)
  <2>1. Becomes(t, forgets)
    BY <1>2 DEF Forget
  <2> HIDE DEF Saves
  <2>2. /\ forgets.shown = page[t].shown /\ forgets.at # "closing"
        /\ forgets.stored = Saves(0) /\ forgets.run = Saves(0)
    BY <1>0 DEF Page
  <2> HIDE DEF forgets
  <2>3. Follows(t, forgets)
    BY <1>1, <2>1, <2>2 DEF Follows, Held
  <2> QED
    BY <2>3
<1>3. ASSUME NEW n \in Nat, Update(t, page[t].side, n, "poll")
      PROVE  \E next : Follows(t, next)
  <2>1. Becomes(t, Updates(n))
    BY <1>3 DEF Update
  <2> HIDE DEF Saves
  <2>2. /\ Updates(n).shown = page[t].shown /\ Updates(n).at # "closing"
        /\ Updates(n).stored = Saves(n) /\ Updates(n).run = Saves(n)
    BY <1>0 DEF Page
  <2> HIDE DEF Updates
  <2>3. Follows(t, Updates(n))
    BY <1>1, <2>1, <2>2 DEF Follows, Held
  <2> QED
    BY <2>3
<1> QED
  BY <1>2, <1>3

LEMMA BalanceFollows ==
    ASSUME AccountsTypeOK, PagesTidy, NEW t \in Tabs, Balance(t), ~StartBalanceOperation(t)
    PROVE  (\E next : Follows(t, next)) /\ ops' = ops
<1>0. page[t] \in Page /\ Tidy(page[t]) /\ NoCheckpoint.id = 0
  BY DEF PagesTidy, NoCheckpoint
<1>1. CASE ShowBalance(t)
  <2> DEFINE next == [page[t] EXCEPT !.shown = account.available]
  <2>1. Follows(t, next)
    BY <1>0, <1>1 DEF ShowBalance, Follows, Page, Held
  <2> QED
    BY <1>1, <2>1 DEF ShowBalance, Quietly
<1>2. CASE ResumeBalanceOperation(t)
  <2> PICK c : c = page[t].stored
    OBVIOUS
  <2> DEFINE next == [page[t] EXCEPT !.stored = c, !.run = c,
                         !.at = IF c.mutation # 0 \/ c.return # 0 THEN "status"
                                ELSE IF c.kind = "deposit" THEN "funds" ELSE "public",
                         !.side = IF c.mutation # 0 THEN "mutation" ELSE "return"]
  <2>0. /\ Becomes(t, next) /\ next.shown = page[t].shown /\ next.at # "closing"
        /\ next.stored = c /\ next.run = c
    BY <1>0, <1>2 DEF ResumeBalanceOperation, Begin, Page
  <2> HIDE DEF next
  <2>1. Follows(t, next)
    BY <2>0 DEF Follows, Held
  <2> QED
    BY <1>2, <2>1 DEF ResumeBalanceOperation, Quietly
<1>3. CASE DiscardUnsentBalanceOperation(t)
  <2> DEFINE next == [page[t] EXCEPT !.stored = NoCheckpoint]
  <2>1. Follows(t, next)
    BY <1>0, <1>3 DEF DiscardUnsentBalanceOperation, Follows, Page, Held
  <2> QED
    BY <1>3, <2>1 DEF DiscardUnsentBalanceOperation, Quietly
<1>4. CASE Close(t)
  <2> DEFINE next == [page[t] EXCEPT !.at = "idle", !.run = NoCheckpoint,
                         !.shown = IF account.deposit = "er" THEN account.available ELSE @]
  <2>1. Follows(t, next)
    BY <1>0, <1>4 DEF Close, Follows, Page, Held
  <2> QED
    BY <1>4, <2>1 DEF Close, Quietly
<1>5. CASE SignatureStatus(t)
  BY <1>5, KeepsFollows, SavesFollows DEF SignatureStatus, Steps, Quietly
<1>6. CASE BlockHeight(t)
  BY <1>6, KeepsFollows, SavesFollows DEF BlockHeight
<1>7. CASE ReadPublicDeposit(t) \/ WaitForPublicReturn(t)
  BY <1>7, KeepsFollows
     DEF ReadPublicDeposit, WaitForPublicReturn, MutateOrStop, Steps, Sides, Quietly, AccountsTypeOK
<1>8. CASE ReadPrivateDeposit(t)
  <2>1. CASE Complete(t) /\ account.deposit = "er" /\ account.available = Expected(page[t].run)
    BY <1>8, <2>1, CompleteFollows DEF ReadPrivateDeposit, At, Quietly
  <2>2. CASE ~(account.deposit = "er" /\ account.available = Expected(page[t].run))
    BY <1>8, <2>2, KeepsFollows DEF ReadPrivateDeposit, Steps, Sides, Quietly
  <2> QED
    BY <1>8, <2>1, <2>2 DEF ReadPrivateDeposit
<1>9. CASE SaveAndSend(t)
  <2>1. CASE Accepted(Kind(t), account)
    <3>1. Update(t, page[t].side, Len(tx) + 1, "poll") /\ Len(tx) + 1 \in Nat
      BY <1>9, <2>1 DEF SaveAndSend, AccountsTypeOK
    <3> QED
      BY <1>9, <3>1, SavesFollows DEF SaveAndSend
  <2>2. CASE ~Accepted(Kind(t), account)
    BY <1>9, <2>2, KeepsFollows DEF SaveAndSend
  <2> QED
    BY <2>1, <2>2
<1>10. CASE AssertTopUpFunds(t) \/ SimulateBalance(t) \/ PollConfirmation(t) \/ WaitForDelegation(t)
  BY <1>10, KeepsFollows
     DEF AssertTopUpFunds, SimulateBalance, PollConfirmation, WaitForDelegation, Steps, Quietly
<1>11. CASE WaitForExpectedPrivate(t)
  <2>1. CASE account.deposit = "er" /\ account.available = Expected(page[t].run)
    BY <1>11, <2>1, CompleteFollows DEF WaitForExpectedPrivate, At, Quietly
  <2>2. CASE ~(account.deposit = "er" /\ account.available = Expected(page[t].run))
    BY <1>11, <2>2, KeepsFollows DEF WaitForExpectedPrivate, Quietly
  <2> QED
    BY <2>1, <2>2
<1>12. CASE BalanceAwaitFails(t)
  BY <1>12, KeepsFollows DEF BalanceAwaitFails
<1> QED
  BY <1>1, <1>2, <1>3, <1>4, <1>5, <1>6, <1>7, <1>8, <1>9, <1>10, <1>11, <1>12
     DEF Balance, RunBalanceOperation

\* A change of the balance that an operation sends is of its kind.
LEMMA SendsItsKind ==
    ASSUME AccountsTypeOK, PagesTidy, NEW t \in Tabs, Balance(t)
    PROVE  \A x \in DOMAIN tx' : tx'[x].kind \in Mutations =>
              \/ x \in DOMAIN tx /\ tx'[x].kind = tx[x].kind
              \/ \E d \in Held(t) : d.id # 0 /\ d.kind = tx'[x].kind
<1>1. CASE UNCHANGED tx
  BY <1>1
<1>2. CASE SaveAndSend(t) /\ Accepted(Kind(t), account)
  <2>1. page[t].run \in Held(t) /\ page[t].run.id # 0 /\ page[t].run \in Checkpoint
    BY <1>2 DEF SaveAndSend, Held, PagesTidy, Tidy, Page, At
  <2>2. Kind(t) \in Kinds /\ page[t].run.id \in Nat
    BY <2>1 DEF Kind, KindOf, Kinds, Checkpoint
  <2>3. /\ TxKept /\ Len(tx') = Len(tx) + 1
        /\ \A x \in DOMAIN tx : tx'[x] = tx[x]
        /\ tx'[Len(tx) + 1].kind = Kind(t)
    <3>1. tx \in Seq(Transaction) /\ Send(Kind(t), page[t].run.id)
      BY <1>2 DEF SaveAndSend, AccountsTypeOK
    <3>2. /\ TxKept /\ Len(tx') = Len(tx) + 1
          /\ \A x \in DOMAIN tx : tx'[x] = tx[x]
          /\ tx'[Len(tx) + 1] = [kind |-> Kind(t), op |-> page[t].run.id,
                                 late |-> FALSE, state |-> "sent"]
      BY <2>2, <3>1, SendKeeps
    <3> QED
      BY <3>2
  <2>4. DOMAIN tx' = 1..Len(tx') /\ DOMAIN tx = 1..Len(tx) /\ Len(tx) \in Nat
    BY <2>3 DEF TxKept, AccountsTypeOK
  <2>5. \A x \in DOMAIN tx' : x \in DOMAIN tx \/ x = Len(tx) + 1
    BY <2>3, <2>4
  <2>6. Kind(t) \in Mutations => Kind(t) = page[t].run.kind
    BY DEF Kind, KindOf, Mutations
  <2> QED
    BY <2>1, <2>3, <2>5, <2>6
<1>3. \/ UNCHANGED tx
      \/ SaveAndSend(t) /\ Accepted(Kind(t), account)
  BY DEF Balance, RunBalanceOperation, ShowBalance, StartBalanceOperation,
         ResumeBalanceOperation, DiscardUnsentBalanceOperation, Close, AssertTopUpFunds,
         SignatureStatus, BlockHeight, ReadPublicDeposit, ReadPrivateDeposit,
         SimulateBalance, SaveAndSend, PollConfirmation, WaitForPublicReturn,
         WaitForDelegation, WaitForExpectedPrivate, BalanceAwaitFails, Quietly, chain
<1> QED
  BY <1>1, <1>2, <1>3

\* The first operation starts from the balance shown, and no page remembers another.
LEMMA StartFirst ==
    ASSUME AccountsTypeOK, PagesTidy, Tracked, First, NEW t \in Tabs, StartBalanceOperation(t)
    PROVE  First'
<1>0. /\ page[t] \in Page /\ page \in [Tabs -> Page] /\ ops \in Nat /\ ops' = ops + 1
      /\ account' = account /\ tx' = tx /\ moves' = moves
  BY DEF PagesTidy, Tracked, Numbered, StartBalanceOperation, chain
<1>1. PICK c, next :
         /\ c.start = page[t].shown /\ page[t].shown # Unread
         /\ Becomes(t, next) /\ next.shown = page[t].shown /\ next.at # "closing"
         /\ next.stored = c /\ next.run = c
  <2>1. PICK kind \in {"deposit", "withdraw"} :
            Begin(t, [NoCheckpoint EXCEPT !.id = ops + 1, !.kind = kind, !.start = page[t].shown])
    BY DEF StartBalanceOperation
  <2>2. PICK c :
            c = [NoCheckpoint EXCEPT !.id = ops + 1, !.kind = kind, !.start = page[t].shown]
    OBVIOUS
  <2>3. c.start = page[t].shown
    BY <2>2 DEF NoCheckpoint
  <2> DEFINE next == [page[t] EXCEPT !.stored = c, !.run = c,
                         !.at = IF c.mutation # 0 \/ c.return # 0 THEN "status"
                                ELSE IF c.kind = "deposit" THEN "funds" ELSE "public",
                         !.side = IF c.mutation # 0 THEN "mutation" ELSE "return"]
  <2>4. /\ Becomes(t, next) /\ next.shown = page[t].shown /\ next.at # "closing"
        /\ next.stored = c /\ next.run = c
    BY <1>0, <2>1, <2>2 DEF Begin, Page
  <2> QED
    BY <2>3, <2>4 DEF StartBalanceOperation
<1>2. page' = [page EXCEPT ![t] = next]
  BY <1>1 DEF Becomes
<1>3. Unmoved'
  <2> SUFFICES ASSUME Quiet', NEW u \in Tabs PROVE Remembers(page[u])'
    BY DEF Unmoved
  <2>1. Quiet
    BY <1>0 DEF Quiet, NothingMoved
  <2>2. Remembers(page[t]) /\ Remembers(page[u])
    BY <2>1 DEF First, Unmoved
  <2> QED
    BY <1>0, <1>1, <1>2, <2>2 DEF Remembers
<1>4. OneKind'
  <2> SUFFICES ASSUME ops' <= 1 PROVE OneKind'
    BY DEF OneKind
  <2>1. ops = 0
    BY <1>0
  <2>2. \A u \in Tabs : \A d \in Held(u) : d.id = 0
    BY <2>1 DEF Tracked, Numbered, Held, PagesTidy, Page, Checkpoint
  <2>3. \A x \in DOMAIN tx : tx[x].kind \notin Mutations
    <3>1. ASSUME NEW x \in DOMAIN tx, tx[x].kind \in Mutations PROVE FALSE
      <4>1. tx[x].op # 0 /\ tx[x].op <= 0
        BY <2>1, <3>1 DEF Tracked, KindsOfOps, Numbered, Mutations
      <4>2. tx[x] \in Transaction
        BY DEF AccountsTypeOK
      <4> QED
        BY <4>1, <4>2 DEF Transaction
    <3> QED
      BY <3>1
  <2>4. \A u \in Tabs : \A d \in Held(u)' : d.id # 0 => d = c
    BY <1>0, <1>1, <1>2, <2>2 DEF Held
  <2> QED
    BY <1>0, <2>3, <2>4 DEF OneKind
<1> QED
  BY <1>3, <1>4 DEF First

LEMMA ClientFirst ==
    ASSUME AccountsTypeOK, SetupTypeOK, PagesTidy, Tracked, First, NEW t \in Tabs,
           Balance(t) \/ TabDies(t)
    PROVE  First'
<1>0. ops \in Nat
  BY DEF Tracked, Numbered
<1>1. TxStill /\ account' = account /\ moves' = moves
  BY <1>0, ClientStill
<1>2. ASSUME ops' = ops PROVE Quiet' => Quiet
  BY <1>0, <1>1, <1>2, QuietBefore
<1>3. CASE StartBalanceOperation(t)
  BY <1>3, StartFirst
<1>4. CASE Balance(t) /\ ~StartBalanceOperation(t)
  <2>1. PICK next : Follows(t, next)
    BY <1>4, BalanceFollows
  <2>2. ops' = ops
    BY <1>4, BalanceFollows
  <2>3. Unmoved'
    BY <1>1, <1>2, <2>1, <2>2, FollowsUnmoved DEF First
  <2>4. OneKind'
    BY <1>4, <2>1, <2>2, SendsItsKind, FollowsOneKind DEF First
  <2> QED
    BY <2>3, <2>4 DEF First
<1>5. CASE TabDies(t)
  <2>1. PICK stored \in {page[t].stored, NoCheckpoint} :
            page' = [page EXCEPT ![t] = [NoPage EXCEPT !.stored = stored]]
    BY <1>5 DEF TabDies
  <2> DEFINE next == [NoPage EXCEPT !.stored = stored]
  <2>2. Follows(t, next)
    BY <2>1 DEF Follows, Becomes, NoPage, NoCheckpoint, Held
  <2>3. ops' = ops /\ tx' = tx
    BY <1>5 DEF TabDies, chain
  <2> HIDE DEF next
  <2>4. Unmoved'
    BY <1>1, <1>2, <2>2, <2>3, FollowsUnmoved DEF First
  <2>5. OneKind'
    BY <2>2, <2>3, FollowsOneKind DEF First
  <2> QED
    BY <2>4, <2>5 DEF First
<1> QED
  BY <1>3, <1>4, <1>5

-----------------------------------------------------------------------------
(* What an operation has behind it: it looks at the balance only once its      *)
(* saved transactions can land no more                                         *)

Over(x) == x # 0 => ~CanLand(x)

Settled(p) ==
    /\ p.stored.mutation # 0 => Over(p.stored.return)
    /\ p.run.mutation # 0 => Over(p.run.return)
    /\ p.at \notin {"idle", "status", "height", "poll"} => Over(p.run.return)
    /\ p.at \in {"watch", "expected", "closing"} => Over(p.run.mutation)

AllSettled == \A t \in Tabs : Settled(page[t])

LEMMA StillSettled ==
    ASSUME AllSound, AllSettled, TxStill, UNCHANGED page
    PROVE  AllSettled'
<1>1. \A t \in Tabs : \A c \in Held(t) : \A side \in Sides : Over(c[side]) => Over(c[side])'
  BY DEF AllSound, Sound, Over, TxStill, StaysOver
<1> QED
  BY <1>1 DEF AllSettled, Settled, Held, Sides

LEMMA BecomesSettled ==
    ASSUME PagesTidy, AllSettled, UNCHANGED tx,
           NEW t \in Tabs, NEW next, Settled(next), Becomes(t, next)
    PROVE  AllSettled'
<1>1. \A u \in Tabs : page'[u] = IF u = t THEN next ELSE page[u]
  BY DEF PagesTidy, Becomes
<1> QED
  BY <1>1 DEF AllSettled, Settled, Over, CanLand

LEMMA GoSettled ==
    ASSUME PagesTidy, AllSettled, UNCHANGED tx, NEW t \in Tabs, NEW step \in Steps, Go(t, step),
           step \notin {"idle", "status", "height", "poll"} => Over(page[t].run.return),
           step \in {"watch", "expected", "closing"} => Over(page[t].run.mutation)
    PROVE  AllSettled'
<1> PICK next : next = [page[t] EXCEPT !.at = step]
  OBVIOUS
<1>1. page[t] \in Page /\ Settled(page[t])
  BY DEF PagesTidy, AllSettled
<1>2. Settled(next)
  BY <1>1 DEF Settled, Page
<1> QED
  BY <1>2, BecomesSettled DEF Go

LEMMA StopSettled ==
    ASSUME PagesTidy, AllSettled, UNCHANGED tx, NEW t \in Tabs, Stop(t)
    PROVE  AllSettled'
<1> PICK next : next = [page[t] EXCEPT !.at = "idle", !.run = NoCheckpoint]
  OBVIOUS
<1>1. page[t] \in Page /\ Settled(page[t])
  BY DEF PagesTidy, AllSettled
<1>2. Settled(next)
  BY <1>1 DEF Settled, Page, NoCheckpoint
<1> QED
  BY <1>2, BecomesSettled DEF Stop

LEMMA CompleteSettled ==
    ASSUME PagesTidy, AllSettled, UNCHANGED tx, NEW t \in Tabs, Complete(t),
           Over(page[t].run.return), Over(page[t].run.mutation)
    PROVE  AllSettled'
<1> PICK next : next = [page[t] EXCEPT !.at = "closing", !.stored = NoCheckpoint]
  OBVIOUS
<1>1. page[t] \in Page /\ Settled(page[t])
  BY DEF PagesTidy, AllSettled
<1>2. Settled(next)
  BY <1>1 DEF Settled, Page, NoCheckpoint
<1> QED
  BY <1>2, BecomesSettled DEF Complete

LEMMA MutateOrStopSettled ==
    ASSUME PagesTidy, AllSettled, UNCHANGED tx, NEW t \in Tabs, MutateOrStop(t),
           Over(page[t].run.return)
    PROVE  AllSettled'
<1> PICK next : next = [page[t] EXCEPT !.at = "simulate", !.side = "mutation"]
  OBVIOUS
<1>1. page[t] \in Page /\ Settled(page[t])
  BY DEF PagesTidy, AllSettled
<1>2. Settled(next)
  BY <1>1 DEF Settled, Page
<1> QED
  BY <1>2, BecomesSettled, StopSettled DEF MutateOrStop, GoFor

LEMMA ForgetSettled ==
    ASSUME PagesTidy, AllSettled, UNCHANGED tx, NEW t \in Tabs,
           page[t].at \in {"status", "height"}, Forget(t)
    PROVE  AllSettled'
<1> PICK run, saved, next :
         /\ run = page[t].run
         /\ saved = [run EXCEPT ![page[t].side] = 0]
         /\ next = [page[t] EXCEPT !.run = saved, !.stored = saved, !.side = "return",
                       !.at = IF page[t].side = "mutation" /\ saved.return # 0
                              THEN "status" ELSE "public"]
  OBVIOUS
<1>1. page[t] \in Page /\ Tidy(page[t])
  BY DEF PagesTidy
<1>2. run \in Checkpoint /\ page[t].side \in Sides
  BY <1>1 DEF Page
<1>3. saved.mutation = 0 /\ (page[t].side = "return" => saved.return = 0)
  <2>1. CASE page[t].side = "return"
    BY <1>1, <1>2, <2>1, CheckpointUpdate DEF Tidy
  <2>2. CASE page[t].side = "mutation"
    BY <1>2, <2>2, CheckpointUpdate
  <2> QED
    BY <1>2, <2>1, <2>2 DEF Sides
<1>4. Settled(next)
  <2>1. next.run = saved /\ next.stored = saved
        /\ next.at = IF page[t].side = "mutation" /\ saved.return # 0 THEN "status" ELSE "public"
    BY <1>1 DEF Page
  <2> QED
    BY <1>2, <1>3, <2>1 DEF Settled, Over, Sides
<1> QED
  BY <1>4, BecomesSettled DEF Forget

LEMMA BeginSettled ==
    ASSUME PagesTidy, AllSettled, UNCHANGED tx, NEW t \in Tabs, NEW c, Begin(t, c),
           c.mutation # 0 => Over(c.return)
    PROVE  AllSettled'
<1> PICK at, side, next :
         /\ at = IF c.mutation # 0 \/ c.return # 0 THEN "status"
                 ELSE IF c.kind = "deposit" THEN "funds" ELSE "public"
         /\ side = IF c.mutation # 0 THEN "mutation" ELSE "return"
         /\ next = [page[t] EXCEPT !.stored = c, !.run = c, !.at = at, !.side = side]
  OBVIOUS
<1>1. page[t] \in Page
  BY DEF PagesTidy
<1>2. next.stored = c /\ next.run = c /\ next.at = at
  BY <1>1 DEF Page
<1>3. Settled(next)
  BY <1>2 DEF Settled, Over
<1> QED
  BY <1>3, BecomesSettled DEF Begin

\* The change is signed only after the return is over.
LEMMA SendSettled ==
    ASSUME AccountsTypeOK, AllSound, PagesTidy, AllSettled, TxStill, NEW t \in Tabs,
           At(t, "approve"), Update(t, page[t].side, Len(tx) + 1, "poll")
    PROVE  AllSettled'
<1> PICK run, saved, next :
         /\ run = page[t].run
         /\ saved = [run EXCEPT ![page[t].side] = Len(tx) + 1]
         /\ next = [page[t] EXCEPT !.run = saved, !.stored = saved, !.at = "poll",
                                   !.side = page[t].side]
  OBVIOUS
<1>1. page[t] \in Page /\ Tidy(page[t]) /\ Settled(page[t])
  BY DEF PagesTidy, AllSettled
<1>2. run \in Checkpoint /\ page[t].side \in Sides
  BY <1>1 DEF Page
<1>3. next.run = saved /\ next.stored = saved /\ next.at = "poll"
  BY <1>1 DEF Page
<1>4. saved.mutation # 0 => saved.return = run.return
  <2>1. CASE page[t].side = "return"
    BY <1>1, <1>2, <2>1, CheckpointUpdate DEF Tidy, At, AccountsTypeOK
  <2>2. CASE page[t].side = "mutation"
    BY <1>2, <2>2, CheckpointUpdate DEF AccountsTypeOK
  <2> QED
    BY <1>2, <2>1, <2>2 DEF Sides
<1>5. \A u \in Tabs : \A c \in Held(u) : \A side \in Sides : Over(c[side]) => Over(c[side])'
  BY DEF AllSound, Sound, Over, TxStill, StaysOver
<1>6. Over(run.return)'
  BY <1>1, <1>5 DEF Settled, At, Held, Sides
<1>7. \A u \in Tabs : page'[u] = IF u = t THEN next ELSE page[u]
  BY DEF PagesTidy, Update, Becomes
<1> SUFFICES ASSUME NEW u \in Tabs PROVE Settled(page[u])'
  BY DEF AllSettled
<1>8. CASE u = t
  <2>1. saved.mutation # 0 => Over(saved.return)'
    BY <1>4, <1>6 DEF Over, CanLand
  <2> QED
    BY <1>3, <1>7, <1>8, <2>1 DEF Settled, Over, CanLand
<1>9. CASE u # t
  BY <1>5, <1>7, <1>9 DEF AllSettled, Settled, Held, Sides
<1> QED
  BY <1>8, <1>9

LEMMA BalanceSettled ==
    ASSUME AccountsTypeOK, AllSound, PagesTidy, AllSettled, TxStill, NEW t \in Tabs, Balance(t)
    PROVE  AllSettled'
<1>0. page[t] \in Page /\ Tidy(page[t]) /\ Settled(page[t])
  BY DEF PagesTidy, AllSettled
<1>1. page[t].at \notin {"idle", "status", "height", "poll"} => Over(page[t].run.return)
  BY <1>0 DEF Settled
<1>2. CASE ShowBalance(t)
  <2> PICK next : next = [page[t] EXCEPT !.shown = account.available]
    OBVIOUS
  <2>1. Settled(next)
    BY <1>0 DEF Settled, Page
  <2> QED
    BY <1>2, <2>1, BecomesSettled DEF ShowBalance, Quietly, chain
<1>3. CASE StartBalanceOperation(t)
  <2>1. PICK kind \in {"deposit", "withdraw"} :
            Begin(t, [NoCheckpoint EXCEPT !.id = ops + 1, !.kind = kind, !.start = page[t].shown])
    BY <1>3 DEF StartBalanceOperation
  <2>2. PICK c :
            c = [NoCheckpoint EXCEPT !.id = ops + 1, !.kind = kind, !.start = page[t].shown]
    OBVIOUS
  <2>3. c.mutation = 0 /\ UNCHANGED tx
    BY <1>3, <2>2 DEF NoCheckpoint, StartBalanceOperation, chain
  <2> QED
    BY <2>1, <2>2, <2>3, BeginSettled
<1>4. CASE ResumeBalanceOperation(t)
  <2>1. page[t].stored.mutation # 0 => Over(page[t].stored.return)
    BY <1>0 DEF Settled
  <2> QED
    BY <1>4, <2>1, BeginSettled DEF ResumeBalanceOperation, Quietly, chain
<1>5. CASE DiscardUnsentBalanceOperation(t)
  <2> PICK next : next = [page[t] EXCEPT !.stored = NoCheckpoint]
    OBVIOUS
  <2>1. Settled(next)
    BY <1>0 DEF Settled, Page, NoCheckpoint
  <2> QED
    BY <1>5, <2>1, BecomesSettled DEF DiscardUnsentBalanceOperation, Quietly, chain
<1>6. CASE Close(t)
  <2> PICK next : next = [page[t] EXCEPT !.at = "idle", !.run = NoCheckpoint,
                            !.shown = IF account.deposit = "er" THEN account.available ELSE @]
    OBVIOUS
  <2>1. Settled(next)
    BY <1>0 DEF Settled, Page, NoCheckpoint
  <2> QED
    BY <1>6, <2>1, BecomesSettled DEF Close, Quietly, chain
<1>7. CASE SignatureStatus(t)
  <2>1. CASE tx[Saved(t)].state = "landed"
    <3>1. Over(Saved(t))
      BY <2>1 DEF Over, CanLand
    <3>2. CASE page[t].side = "mutation"
      <4>1. Over(page[t].run.mutation) /\ Over(page[t].run.return)
        BY <1>0, <1>7, <3>1, <3>2 DEF SignatureStatus, At, Saved, Tidy, Settled
      <4> QED
        BY <1>7, <2>1, <3>2, <4>1, GoSettled DEF SignatureStatus, Quietly, chain, Steps
    <3>3. CASE page[t].side # "mutation"
      <4>1. Over(page[t].run.return)
        BY <1>0, <3>1, <3>3 DEF Saved, Page, Sides
      <4> QED
        BY <1>7, <2>1, <3>3, <4>1, GoSettled DEF SignatureStatus, Quietly, chain, Steps
    <3> QED
      BY <3>2, <3>3
  <2>2. CASE tx[Saved(t)].state # "landed"
    BY <1>7, <2>2, ForgetSettled, GoSettled DEF SignatureStatus, At, Quietly, chain, Steps
  <2> QED
    BY <2>1, <2>2
<1>8. CASE BlockHeight(t)
  BY <1>8, ForgetSettled, StopSettled DEF BlockHeight, At, chain
<1>9. CASE AssertTopUpFunds(t) \/ SimulateBalance(t)
  BY <1>1, <1>9, GoSettled, StopSettled
     DEF AssertTopUpFunds, SimulateBalance, At, Quietly, chain, Steps
<1>10. CASE ReadPublicDeposit(t) \/ WaitForPublicReturn(t)
  BY <1>1, <1>10, GoSettled, StopSettled, MutateOrStopSettled
     DEF ReadPublicDeposit, WaitForPublicReturn, At, Quietly, chain, Steps, AccountsTypeOK
<1>11. CASE ReadPrivateDeposit(t)
  <2>1. Over(page[t].run.return) /\ Over(page[t].run.mutation) /\ UNCHANGED tx
    BY <1>0, <1>1, <1>11 DEF ReadPrivateDeposit, At, Tidy, Over, Quietly, chain
  <2>2. CASE GoFor(t, "simulate", "return")
    <3> PICK next : next = [page[t] EXCEPT !.at = "simulate", !.side = "return"]
      OBVIOUS
    <3>1. Settled(next)
      BY <1>0, <2>1 DEF Settled, Page
    <3> QED
      BY <2>1, <2>2, <3>1, BecomesSettled DEF GoFor
  <2>3. CASE Complete(t) \/ Go(t, "returned") \/ Stop(t)
    BY <2>1, <2>3, CompleteSettled, GoSettled, StopSettled DEF Steps
  <2> QED
    BY <1>11, <2>2, <2>3 DEF ReadPrivateDeposit
<1>12. CASE SaveAndSend(t)
  BY <1>12, SendSettled, StopSettled DEF SaveAndSend
<1>13. CASE PollConfirmation(t)
  <2>1. CASE tx[Saved(t)].state = "landed"
    <3>1. Over(Saved(t))
      BY <2>1 DEF Over, CanLand
    <3>2. CASE page[t].side = "return"
      BY <1>13, <2>1, <3>1, <3>2, GoSettled DEF PollConfirmation, Saved, Quietly, chain, Steps
    <3>3. CASE page[t].side = "mutation"
      <4>1. Over(page[t].run.mutation) /\ Over(page[t].run.return)
        BY <1>0, <1>13, <3>1, <3>3 DEF PollConfirmation, At, Saved, Tidy, Settled
      <4> QED
        BY <1>13, <2>1, <3>3, <4>1, GoSettled DEF PollConfirmation, Quietly, chain, Steps
    <3> QED
      BY <1>0, <3>2, <3>3 DEF Page, Sides
  <2>2. CASE tx[Saved(t)].state # "landed"
    BY <1>13, <2>2, StopSettled DEF PollConfirmation, Quietly, chain
  <2> QED
    BY <2>1, <2>2
<1>14. CASE WaitForDelegation(t) \/ WaitForExpectedPrivate(t)
  <2>1. Over(page[t].run.return) /\ Over(page[t].run.mutation)
    BY <1>0, <1>1, <1>14 DEF WaitForDelegation, WaitForExpectedPrivate, At, Settled
  <2> QED
    BY <1>14, <2>1, CompleteSettled, GoSettled, StopSettled
       DEF WaitForDelegation, WaitForExpectedPrivate, Quietly, chain, Steps
<1>15. CASE BalanceAwaitFails(t)
  BY <1>15, StopSettled DEF BalanceAwaitFails, chain
<1> QED
  BY <1>2, <1>3, <1>4, <1>5, <1>6, <1>7, <1>8, <1>9, <1>10, <1>11, <1>12, <1>13, <1>14, <1>15
     DEF Balance, RunBalanceOperation

LEMMA TabDiesSettled ==
    ASSUME AccountsTypeOK, PagesTidy, AllSettled, NEW t \in Tabs, TabDies(t)
    PROVE  AllSettled'
<1>1. PICK stored \in {page[t].stored, NoCheckpoint} : Becomes(t, [NoPage EXCEPT !.stored = stored])
  BY DEF TabDies, Becomes
<1> PICK next : next = [NoPage EXCEPT !.stored = stored]
  OBVIOUS
<1>2. Settled(page[t])
  BY DEF AllSettled
<1>3. Settled(next)
  BY <1>2 DEF Settled, NoPage, NoCheckpoint
<1> QED
  BY <1>1, <1>3, BecomesSettled DEF TabDies, chain

\* What a completed operation has signed is what its checkpoint cited, and over.
LEMMA SettledCompletes ==
    ASSUME AccountsTypeOK, PagesTidy, Tracked, AllSettled
    PROVE  CompletionIsFinal
<1> SUFFICES ASSUME NEW t \in Tabs, NEW x \in DOMAIN tx, At(t, "closing"),
                    tx[x].op = page[t].run.id, CanLand(x)
             PROVE  FALSE
  BY DEF CompletionIsFinal
<1>1. page[t].run.id # 0 /\ Over(page[t].run.return) /\ Over(page[t].run.mutation)
  BY DEF PagesTidy, Tidy, At, AllSettled, Settled
<1>2. ~Dead(x) /\ x # 0
  BY DEF Dead, CanLand, AccountsTypeOK
<1>3. page[t].run[SideOf(x)] = x
  BY <1>1, <1>2 DEF Tracked, AllCited, Held, Cites
<1> QED
  BY <1>1, <1>2, <1>3 DEF Over, SideOf

-----------------------------------------------------------------------------
(* The invariant *)

IInv == /\ AccountsTypeOK /\ SetupTypeOK /\ PagesTidy /\ Tracked
        /\ Permissioned /\ Funds /\ First /\ AllSettled

LEMMA InitIInv ==
    ASSUME Init \/ InitFunded
    PROVE  IInv
<1>1. AccountsTypeOK
  <2>1. account \in Account
    BY AmountAssumption DEF Init, InitFunded, AccountsInit, Unfunded, Funded, Account
  <2>2. finalized = Shown(account) /\ tx = << >> /\ paid = FALSE /\ moves = 0
        /\ mishaps = [m \in Mishaps |-> 0]
    BY DEF Init, InitFunded, AccountsInit
  <2> QED
    <3>1. << >> \in Seq(Transaction) /\ [m \in Mishaps |-> 0] \in [Mishaps -> Nat]
      OBVIOUS
    <3> QED
      BY <2>1, <2>2, <3>1, ShownType DEF AccountsTypeOK
<1>2. tx = << >> /\ setup = [t \in Tabs |-> NoSetup] /\ page = [t \in Tabs |-> NoPage] /\ ops = 0
  BY DEF Init, InitFunded, AccountsInit, SetupInit, BalanceInit
<1>3. SetupTypeOK
  BY <1>2 DEF SetupTypeOK, NoSetup, SetupSteps
<1>4. PagesTidy
  <2>1. NoPage \in Page /\ Tidy(NoPage)
    BY NoCheckpointType DEF Page, Tidy, NoPage, Steps, Sides
  <2> QED
    BY <1>2, <2>1 DEF PagesTidy
<1>5. \A t \in Tabs : Held(t) = {NoCheckpoint}
  BY <1>2 DEF Held, NoPage
<1>6. Tracked
  <2>1. Sound(NoCheckpoint) /\ Cites(NoCheckpoint)
    BY <1>2 DEF Sound, Cites, NoCheckpoint, Sides
  <2>2. NoCheckpoint.id = 0
    BY DEF NoCheckpoint
  <2> QED
    BY <1>2, <1>5, <2>1, <2>2
       DEF Tracked, AllSound, AllCited, Numbered, OneAlive, KindsOfOps
<1>7. Permissioned
  <2>1. PermissionedWhileDelegated
    BY DEF Init, InitFunded, AccountsInit, Unfunded, Funded, PermissionedWhileDelegated
  <2>2. NoCheckpoint.id = 0 /\ NoPage.shown = Unread
    BY DEF NoCheckpoint, NoPage
  <2> QED
    BY <1>2, <1>5, <2>1, <2>2 DEF Permissioned, SeenIsPermissioned
<1>8. Funds
  BY <1>2 DEF Funds, FundedOnce
<1>9. First
  <2>1. NoCheckpoint.id = 0 /\ NoPage.shown = Unread /\ NoPage.at # "closing"
        /\ NoPage.stored = NoCheckpoint /\ NoPage.run = NoCheckpoint
    BY DEF NoCheckpoint, NoPage
  <2>2. Unmoved
    BY <1>2, <2>1 DEF Unmoved, Remembers
  <2>3. OneKind
    BY <1>5, <2>1 DEF OneKind
  <2> QED
    BY <2>2, <2>3 DEF First
<1>10. AllSettled
  <2>1. Settled(NoPage)
    BY DEF Settled, Over, NoPage, NoCheckpoint
  <2> QED
    BY <1>2, <2>1 DEF AllSettled
<1> QED
  BY <1>1, <1>3, <1>4, <1>6, <1>7, <1>8, <1>9, <1>10 DEF IInv

LEMMA NextIInv ==
    ASSUME IInv, [Next]_vars
    PROVE  IInv'
<1> USE DEF IInv
<1>0. ops \in Nat /\ KindsOfOps /\ AllSound
  BY DEF Tracked, Numbered
<1>1. CASE Network /\ UNCHANGED <<setup, client>>
  <2>1. UNCHANGED <<setup, page, ops>>
    BY <1>1 DEF client
  <2>2. AccountsTypeOK' /\ Permissioned' /\ Funds'
    BY <1>0, <1>1, <2>1, NetworkType, NetworkPermissioned, NetworkFunds
  <2>3. Tracked'
    BY <1>1, <2>1, NetworkCalm, CalmTracked
  <2>4. SetupTypeOK' /\ PagesTidy'
    BY <2>1 DEF SetupTypeOK, PagesTidy
  <2>5. Quiet' => Quiet
    BY <1>0, <1>1, <2>1, NetworkStill, QuietBefore
  <2>6. First'
    BY <1>1, <2>1, <2>5, NetworkCalm, NetworkKeepsBalance, CalmFirst
  <2>7. AllSettled'
    BY <1>0, <1>1, <2>1, NetworkStill, StillSettled
  <2> QED
    BY <2>2, <2>3, <2>4, <2>6, <2>7
<1>2. ASSUME NEW t \in Tabs, SetUp(t), UNCHANGED client PROVE IInv'
  <2>1. UNCHANGED <<page, ops>>
    BY <1>2 DEF client
  <2>2. AccountsTypeOK' /\ SetupTypeOK'
    BY <1>2, SetupType
  <2>3. Tracked'
    BY <1>2, <2>1, SetupCalm, CalmTracked
  <2>4. Permissioned' /\ Funds'
    BY <1>0, <1>2, <2>1, SetupPermissioned, ClientFunds
  <2>5. PagesTidy'
    BY <2>1 DEF PagesTidy
  <2>6. account' = account /\ (Quiet' => Quiet)
    BY <1>0, <1>2, <2>1, ClientStill, QuietBefore
  <2>7. First'
    BY <1>2, <2>1, <2>6, SetupCalm, CalmFirst
  <2>8. AllSettled'
    BY <1>0, <1>2, <2>1, ClientStill, StillSettled
  <2> QED
    BY <2>2, <2>3, <2>4, <2>5, <2>7, <2>8
<1>3. ASSUME NEW t \in Tabs, Balance(t), UNCHANGED setup PROVE IInv'
  <2>1. AccountsTypeOK' /\ PagesTidy' /\ Tracked'
    BY <1>0, <1>3, BalanceAccounts, BalanceTidy, BalanceTracked
  <2>2. Permissioned' /\ Funds'
    BY <1>0, <1>3, BalancePermissioned, ClientFunds
  <2>3. SetupTypeOK'
    BY <1>3 DEF SetupTypeOK
  <2>4. First'
    BY <1>3, ClientFirst
  <2>5. AllSettled'
    BY <1>0, <1>3, ClientStill, BalanceSettled
  <2> QED
    BY <2>1, <2>2, <2>3, <2>4, <2>5
<1>4. ASSUME NEW t \in Tabs, TabDies(t) PROVE IInv'
  <2>1. AccountsTypeOK' /\ PagesTidy' /\ Tracked'
    BY <1>4, TabDiesTracked
  <2>2. Permissioned' /\ Funds'
    BY <1>0, <1>4, TabDiesPermissioned, ClientFunds
  <2>3. SetupTypeOK'
    BY <1>4 DEF TabDies, SetupTypeOK, NoSetup, SetupSteps
  <2>4. First'
    BY <1>4, ClientFirst
  <2>5. AllSettled'
    BY <1>4, TabDiesSettled
  <2> QED
    BY <2>1, <2>2, <2>3, <2>4, <2>5
<1>5. CASE UNCHANGED vars
  <2>1. UNCHANGED <<account, finalized, tx, paid, moves, mishaps, setup, page, ops>>
    BY <1>5 DEF vars, chain, client
  <2>2. AccountsTypeOK' /\ SetupTypeOK' /\ PagesTidy'
    BY <2>1 DEF AccountsTypeOK, SetupTypeOK, PagesTidy
  <2>3. TxCalm
    BY <2>1 DEF TxCalm, TxKept, Same, Dead, NoneOvertaken, AccountsTypeOK
  <2>4. Tracked'
    BY <2>1, <2>3, CalmTracked
  <2>5. Permissioned'
    BY <2>1, <2>3, CalmPermissioned DEF Permissioned, PermissionedWhileDelegated
  <2>6. Funds'
    BY <2>1 DEF Funds, FundedOnce
  <2>7. Quiet' => Quiet
    BY <2>1 DEF Quiet, NothingMoved
  <2>8. First'
    BY <2>1, <2>3, <2>7, CalmFirst
  <2>9. AllSettled'
    BY <2>1 DEF AllSettled, Settled, Over, CanLand
  <2> QED
    BY <2>2, <2>4, <2>5, <2>6, <2>8, <2>9
<1> QED
  BY <1>1, <1>2, <1>3, <1>4, <1>5 DEF Next

LEMMA Invariance ==
    /\ Spec => []IInv
    /\ FundedSpec => []IInv
<1>1. Init => IInv
  BY InitIInv
<1>2. InitFunded => IInv
  BY InitIInv
<1>3. IInv /\ [Next]_vars => IInv'
  BY NextIInv
<1> QED
  BY <1>1, <1>2, <1>3, PTL DEF Spec, FundedSpec

-----------------------------------------------------------------------------
(* The accounts change as the custody the program promises lets them *)

\* Creating a Deposit brings no balance with it.
AbsentIsEmpty == account.deposit = "absent" => account.available = 0

\* What a transaction the program accepts does is one step of custody.
LEMMA EffectCustody ==
    ASSUME account \in Account, account' \in Account, AbsentIsEmpty,
           NEW kind \in Kinds, Accepted(kind, account), account' = Effect(kind, account)
    PROVE  Custody!Next /\ AbsentIsEmpty'
<1>0. /\ account.available \in Nat /\ account.wallet \in Nat
      /\ account'.available \in Nat /\ account'.wallet \in Nat
  BY DEF Account
<1>1. CASE kind = "prepare"
  <2>1. /\ account.deposit = "absent" /\ account'.deposit = "base"
        /\ account'.available = Funding /\ account'.wallet = account.wallet - Funding
    BY <1>1 DEF Account, Accepted, Effect
  <2>2. account'.available + account'.wallet = account.available + account.wallet
    BY <1>0, <2>1, AmountAssumption DEF AbsentIsEmpty
  <2>3. Custody!Create
    BY <1>0, <2>1, <2>2 DEF Custody!Create, Custody!Exchange
  <2> QED
    BY <2>1, <2>3 DEF Custody!Next, AbsentIsEmpty
<1>2. CASE kind \in {"delegate", "onboard"}
  <2>1. /\ account.deposit = "base" /\ account'.deposit = "er"
        /\ account'.available = account.available /\ account'.wallet = account.wallet
    BY <1>2 DEF Account, Accepted, Effect
  <2>2. Custody!Change
    BY <1>0, <2>1 DEF Custody!Change, Custody!Exchange
  <2> QED
    BY <2>1, <2>2 DEF Custody!Next, AbsentIsEmpty
<1>3. CASE kind = "return"
  <2>1. /\ account.deposit = "er" /\ account'.deposit = "returning"
        /\ account'.available = account.available /\ account'.wallet = account.wallet
    BY <1>3 DEF Account, Accepted, Effect
  <2>2. Custody!Return
    BY <2>1 DEF Custody!Return
  <2> QED
    BY <2>1, <2>2 DEF Custody!Next, AbsentIsEmpty
<1>4. CASE kind \in {"deposit", "withdraw"}
  <2>1. /\ account.deposit = "base" /\ account'.deposit = "er"
        /\ \/ /\ account'.available = account.available + 1
              /\ account'.wallet = account.wallet - 1
           \/ /\ account'.available = account.available - 1
              /\ account'.wallet = account.wallet + 1
    BY <1>4 DEF Account, Accepted, Effect
  <2>2. account'.available + account'.wallet = account.available + account.wallet
    BY <1>0, <2>1
  <2>3. Custody!Change
    BY <1>0, <2>1, <2>2 DEF Custody!Change, Custody!Exchange
  <2> QED
    BY <2>1, <2>3 DEF Custody!Next, AbsentIsEmpty
<1> QED
  BY <1>1, <1>2, <1>3, <1>4 DEF Kinds

LEMMA NetworkCustody ==
    ASSUME AccountsTypeOK, AccountsTypeOK', AbsentIsEmpty, Network
    PROVE  Custody!Step /\ AbsentIsEmpty'
<1>0. account \in Account /\ account' \in Account
  BY DEF AccountsTypeOK
<1> USE DEF AbsentIsEmpty, Custody!Step
<1>1. ASSUME NEW x \in DOMAIN tx, Lands(x)
      PROVE  Custody!Step /\ AbsentIsEmpty'
  <2>0. tx[x] \in Transaction
    BY DEF AccountsTypeOK
  <2>1. tx[x].kind \in Kinds
    BY <2>0 DEF Transaction
  <2>2. \/ account' = account
        \/ Accepted(tx[x].kind, account) /\ account' = Effect(tx[x].kind, account)
    BY <1>1 DEF Lands
  <2>3. CASE account' = account
    BY <2>3 DEF Custody!vars
  <2> QED
    BY <1>0, <2>1, <2>2, <2>3, EffectCustody
<1>2. CASE Finalizes \/ \E x \in DOMAIN tx : PassesLastValid(x)
  BY <1>2 DEF Finalizes, PassesLastValid, Custody!vars
<1>3. CASE ReturnCommits
  <2>1. Custody!Land
    BY <1>0, <1>3 DEF ReturnCommits, Account, Custody!Land
  <2> QED
    BY <1>0, <1>3, <2>1 DEF ReturnCommits, Account, Custody!Next
<1>4. CASE SomebodyPays
  <2>1. CASE account.deposit = "absent"
    <3>1. Custody!Create
      BY <1>0, <1>4, <2>1 DEF SomebodyPays, Account, Custody!Create, Custody!Exchange
    <3> QED
      BY <1>0, <1>4, <2>1, <3>1 DEF SomebodyPays, Account, Custody!Next
  <2>2. CASE account.deposit # "absent"
    BY <1>4, <2>2 DEF SomebodyPays, Custody!vars
  <2> QED
    BY <2>1, <2>2
<1>5. CASE PaymentMovesBalance
  <2>1. Custody!Pay
    BY <1>0, <1>5 DEF PaymentMovesBalance, Account, Custody!Pay
  <2> QED
    BY <1>0, <1>5, <2>1 DEF PaymentMovesBalance, Account, Custody!Next
<1> QED
  BY <1>1, <1>2, <1>3, <1>4, <1>5 DEF Network

\* Only the network changes accounts.
LEMMA NextCustody ==
    ASSUME IInv, IInv', AbsentIsEmpty, [Next]_vars
    PROVE  Custody!Step /\ AbsentIsEmpty'
<1>0. /\ AccountsTypeOK /\ AccountsTypeOK' /\ SetupTypeOK /\ PagesTidy /\ ops \in Nat
  BY DEF IInv, Tracked, Numbered
<1>1. CASE Network
  BY <1>0, <1>1, NetworkCustody
<1>2. CASE account' = account
  BY <1>2 DEF Custody!Step, Custody!vars, AbsentIsEmpty
<1>3. ASSUME NEW t \in Tabs, SetUp(t) \/ Balance(t) \/ TabDies(t)
      PROVE  account' = account
  BY <1>0, <1>3, ClientStill
<1> QED
  BY <1>1, <1>2, <1>3 DEF Next, vars, chain

-----------------------------------------------------------------------------
(* The theorems *)

LEMMA IInvType == IInv => TypeOK
<1> SUFFICES ASSUME IInv PROVE TypeOK
  OBVIOUS
<1>1. \A t \in Tabs : Sound(page[t].stored) /\ Sound(page[t].run)
  BY DEF IInv, Tracked, AllSound, Held
<1> QED
  BY <1>1 DEF IInv, TypeOK, BalanceTypeOK, PagesTidy, Page, Tracked, Numbered

LEMMA IInvAlive ==
    IInv => /\ NoneOvertaken => OneMutationPerOperation
            /\ WaitsForSavedTransaction
<1> SUFFICES ASSUME IInv
             PROVE  (NoneOvertaken => OneMutationPerOperation) /\ WaitsForSavedTransaction
  OBVIOUS
<1>1. OneAlive /\ KindsOfOps
  BY DEF IInv, Tracked
<1>2. NoneOvertaken => OneMutationPerOperation
  BY <1>1 DEF OneMutationPerOperation, OneAlive, KindsOfOps, SideOf, Dead
<1>3. WaitsForSavedTransaction
  BY <1>1 DEF WaitsForSavedTransaction, OneAlive, KindsOfOps, SideOf, Dead, CanLand
<1> QED
  BY <1>2, <1>3

\* Every variable keeps its type, and every signature a checkpoint cites is of a
\* transaction sent for that side of that operation.
THEOREM TypeCorrect == Spec => []TypeOK
BY Invariance, IInvType, PTL

\* Whatever the tabs do, a Deposit is on the rollup only beside its permission,
\* though delegate_deposit does not check it (lib.rs:687).
THEOREM NeverExposed == Spec => []PermissionedWhileDelegated
<1>1. IInv => PermissionedWhileDelegated
  BY DEF IInv, Permissioned
<1> QED
  BY <1>1, Invariance, PTL

\* However many tabs retry a first funding (paymentWorkflow.ts:639), one lands.
THEOREM FundsOnce == Spec => []FundedOnce
<1>1. IInv => FundedOnce
  BY DEF IInv, Funds
<1> QED
  BY <1>1, Invariance, PTL

\* However often runBalanceOperation is resumed, in however many tabs, an
\* operation moves USDC once, unless a transaction lands between the two requests
\* that ask for its outcome (balanceOperation.ts:138).
THEOREM MutatesOnce ==
    ASSUME NoneOvertaken PROVE Spec => []OneMutationPerOperation
<1>1. IInv => OneMutationPerOperation
  BY IInvAlive
<1> QED
  BY <1>1, Invariance, PTL

\* ... and never has two transactions of one step out that could both land, not
\* even then: what is forgotten has failed, landed, or expired.
THEOREM NeverResends == Spec => []WaitsForSavedTransaction
<1>1. IInv => WaitsForSavedTransaction
  BY IInvAlive
<1> QED
  BY <1>1, Invariance, PTL

\* Where nothing else moves the balance, an operation is reported complete only
\* after its change landed: whatever fails, however often and in whatever tab it
\* is resumed, and even if a transaction is overtaken (nextBalanceOperationAction).
THEOREM CompletesOnlyAfterMoving == Spec => []CompletionMoved
<1>1. IInv => CompletionMoved
  BY FirstCompletes DEF IInv
<1> QED
  BY <1>1, Invariance, PTL

\* A balance operation is reported complete (balanceOperation.ts:124 among others)
\* only when nothing it signed can still land, also if a payment brought the
\* balance to its target or a transaction is overtaken: it looks at the balance
\* only once the outcome of every transaction it has saved is known.
THEOREM CompletesForGood == Spec => []CompletionIsFinal
<1>1. IInv => CompletionIsFinal
  BY SettledCompletes DEF IInv
<1> QED
  BY <1>1, Invariance, PTL

\* Funding, onboarding, returning and changing, in however many tabs and in
\* whatever order their transactions land, change the accounts only as the program
\* does for each of its users (ProgramImplementsCustody): the client is not
\* reasoned about on accounts that the program would not let it have.
THEOREM ClientImplementsCustody == Spec => ImplementsCustody
<1>1. Init => Custody!Init /\ AbsentIsEmpty
  BY DEF Init, AccountsInit, Unfunded, Custody!Init, AbsentIsEmpty
<1>2. IInv /\ IInv' /\ AbsentIsEmpty /\ [Next]_vars
        => AbsentIsEmpty' /\ [Custody!Next]_(Custody!vars)
  BY NextCustody DEF Custody!Step
<1> QED
  BY <1>1, <1>2, Invariance, PTL DEF Spec, ImplementsCustody, Custody!Spec

\* A wallet that was funded before these tabs were opened is as safe.
THEOREM FundedWalletIsSafe ==
    FundedSpec => [](/\ TypeOK /\ PermissionedWhileDelegated /\ FundedOnce
                     /\ WaitsForSavedTransaction /\ CompletionMoved /\ CompletionIsFinal)
<1>1. IInv => /\ TypeOK /\ PermissionedWhileDelegated /\ FundedOnce
              /\ WaitsForSavedTransaction /\ CompletionMoved /\ CompletionIsFinal
  BY IInvType, IInvAlive, FirstCompletes, SettledCompletes DEF IInv, Permissioned, Funds
<1> QED
  BY <1>1, Invariance, PTL
=============================================================================
